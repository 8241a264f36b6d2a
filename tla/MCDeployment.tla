----------------------------- MODULE MCDeployment -----------------------------
(***************************************************************************)
(* Instances of Deployment for TLC.  Package "a" has the releases          *)
(*   a1   version 1 with unit u1,                                          *)
(*   a2   version 2 with units u1 and u2,                                  *)
(*   a2f  version 2 built for another architecture;                        *)
(* package "b" has b1, which shares u1 with a and depends on a.            *)
(***************************************************************************)
EXTENDS Deployment, TLC

MCPackageOf == [r \in Release |-> IF r = "b1" THEN "b" ELSE "a"]

MCVersionOf == [r \in Release |-> IF r \in {"a2", "a2f"} THEN 2 ELSE 1]

MCServicesOf == [r \in Release |->
  (IF r \in {"a2", "a2f"} THEN {"u1", "u2"} ELSE {"u1"}) \cap Unit]

MCUnitFilesOf == MCServicesOf

MCNativeArch == Release \ {"a2f"}

MCDependsOn == [r \in Release |-> IF r = "b1" THEN {"a"} ELSE {}]

ProcAndTaskSymmetry == Permutations(Proc) \cup Permutations(Task)
===============================================================================
