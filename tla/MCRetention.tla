------------------------------ MODULE MCRetention ------------------------------
(* Retention with interchangeable run ids.                                     *)
EXTENDS Retention, TLC

RunSymmetry == Permutations(Run)
===============================================================================
