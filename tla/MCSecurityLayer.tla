---------------------------- MODULE MCSecurityLayer ----------------------------
(***************************************************************************)
(* Instances of SecurityLayer for TLC.  Times are scaled: windows of 2 and *)
(* 3 ticks for the 60 s and 300 s of the code, a ban of 3 for 1800 s.      *)
(***************************************************************************)
EXTENDS SecurityLayer, TLC

CONSTANTS w1, w2, w3, r1, r2, a, b, e1, e2

OneReplica  == [w \in Workers |-> r1]
TwoReplicas == [w \in Workers |-> IF w = w1 THEN r1 ELSE r2]
LimitOne == [e \in Endpoints |-> 1]
LimitTwo == [e \in Endpoints |-> 2]
Window    == [e \in Endpoints |-> 2]
TwoWindows == [e \in Endpoints |-> IF e = e1 THEN 2 ELSE 3]
Ban       == [e \in Endpoints |-> 3]

WorkerSymmetry == Permutations(Workers)

\* Every replica found Redis and banned its predefined addresses.
HealthyStart ==
  /\ Init
  /\ \A r \in Replicas : connected[r]
  /\ \A ip \in Predefined : Exists(ban[ip])

HealthySpec == HealthyStart /\ [][PromptNext]_vars
=============================================================================
