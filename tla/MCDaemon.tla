------------------------------- MODULE MCDaemon -------------------------------
(* Three scripts, the middle one may fail; logs every 2nd round.               *)
EXTENDS Daemon

Three  == {1, 2, 4}
Middle == {2}
===============================================================================
