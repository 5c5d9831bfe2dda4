------------------------------- MODULE RemoteCall -------------------------------
(***************************************************************************)
(* What a call through the gateway to a backend promises its client: the   *)
(* backend runs it at most MaxRuns times, a call that is answered "ok" was *)
(* run, one that is "rejected" never will be, and every call that starts   *)
(* is answered.  A call that "failed" promises nothing: it may have run,   *)
(* or may run after the answer.  BackendCall implements this.              *)
(***************************************************************************)
EXTENDS Naturals

CONSTANTS Calls, MaxRuns

VARIABLES state,   \* of each call
          runs     \* times the backend ran it

vars == <<state, runs>>

States == {"new", "running", "ok", "failed", "rejected"}

Init ==
  /\ state = [c \in Calls |-> "new"]
  /\ runs  = [c \in Calls |-> 0]

Become(c, s) == state' = [state EXCEPT ![c] = s]

Reject(c) == state[c] = "new" /\ Become(c, "rejected") /\ UNCHANGED runs

Begin(c) == state[c] = "new" /\ Become(c, "running") /\ UNCHANGED runs

Succeed(c) ==
  /\ state[c] = "running" /\ runs[c] > 0
  /\ Become(c, "ok")
  /\ UNCHANGED runs

Fail(c) == state[c] = "running" /\ Become(c, "failed") /\ UNCHANGED runs

\* The backend runs the call, before or after the answer.
Run(c) ==
  /\ state[c] \in {"running", "ok", "failed"}
  /\ runs[c] < MaxRuns
  /\ runs' = [runs EXCEPT ![c] = @ + 1]
  /\ UNCHANGED state

Next == \E c \in Calls :
          Reject(c) \/ Begin(c) \/ Succeed(c) \/ Fail(c) \/ Run(c)

SafeSpec == Init /\ [][Next]_vars

\* A call does not run for ever.
Fairness == \A c \in Calls : WF_vars(Succeed(c) \/ Fail(c))

Spec == SafeSpec /\ Fairness

=============================================================================
