------------------------------ MODULE MCReports ------------------------------
(* Service 2 may be wanted by the target, by target 8, or by both; 8 by the     *)
(* target, where it may or may not be drawn last, or by 9, which wants it back. *)
EXTENDS Reports

MCDeclares == 1 :> {1} @@ 2 :> {1, 2}
MCInGroup  == 8 :> {2, 9} @@ 9 :> {8}
==============================================================================
