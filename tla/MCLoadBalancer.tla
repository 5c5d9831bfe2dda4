----------------------------- MODULE MCLoadBalancer -----------------------------
(***************************************************************************)
(* LoadBalancer for TLC: lists of up to three addresses, in any order and  *)
(* with repetitions, and four rounds over each.                            *)
(***************************************************************************)
EXTENDS LoadBalancer, SequencesExt

CONSTANTS x, y, z

Lists == BoundedSeq(Addresses, 3)
=============================================================================
