------------------------------- MODULE MCMonitor -------------------------------
(***************************************************************************)
(* Small instances of Monitor: one ordinary service, or that and a oneshot *)
(* service.                                                                *)
(***************************************************************************)
EXTENDS Monitor, TLC

OneUnit  == {1}
TwoUnits == {1, 2}
Second   == {2}
NoUnit   == {}

Interchangeable == Permutations(Pid) \cup Permutations(Run)
===============================================================================
