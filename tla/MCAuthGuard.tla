------------------------------ MODULE MCAuthGuard ------------------------------
(***************************************************************************)
(* Instances of AuthGuard for TLC.  The limits are 1 or 2, for 5 and 15;   *)
(* the hour of the counters is 2 ticks.                                    *)
(***************************************************************************)
EXTENDS AuthGuard, TLC

CONSTANTS w1, w2, r1, r2, a

OneReplica  == [w \in Workers |-> r1]
TwoReplicas == [w \in Workers |-> IF w = w1 THEN r1 ELSE r2]
Limits      == [route \in Routes |-> 2]
UnevenLimits == [route \in Routes |-> IF route = "register" THEN 1 ELSE 2]

=============================================================================
