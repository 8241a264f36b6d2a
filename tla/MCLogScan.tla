------------------------------- MODULE MCLogScan -------------------------------
(* LogScan as it is; the configurations give small bounds.                     *)
EXTENDS LogScan
===============================================================================
