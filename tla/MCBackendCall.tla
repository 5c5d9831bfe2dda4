------------------------------ MODULE MCBackendCall ------------------------------
(***************************************************************************)
(* Instances of BackendCall for TLC: lists of up to two addresses, up to   *)
(* two calls, and the three attempts of the code.                          *)
(***************************************************************************)
EXTENDS BackendCall, SequencesExt

CONSTANTS x, y, c1, c2

ShortLists == BoundedSeq(Addresses, 2)

=============================================================================
