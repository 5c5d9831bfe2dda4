------------------------------- MODULE MCGateway -------------------------------
(***************************************************************************)
(* Instances of Gateway for TLC: one worker or two, two calls of two       *)
(* attempts each, a users service with one address or none, and a limit of *)
(* one.                                                                    *)
(***************************************************************************)
EXTENDS Gateway, TLC

CONSTANTS w1, w2, x, a, p

AtMostOne == {<<>>, <<x>>}
Limits    == [route \in {"register", "login"} |-> 1]

WorkerSymmetry == Permutations(Workers)

=============================================================================
