------------------------------ MODULE RedisClient ------------------------------
(***************************************************************************)
(* RedisClient, one instance in each gateway process, as its callers see   *)
(* it: every method returns its default at once when init never got its    *)
(* PONG, and swallows the exception when the command fails or its answer   *)
(* misses socket_timeout.  In the second case the command may have taken   *)
(* effect in Redis, or take effect later, or never.                        *)
(***************************************************************************)
EXTENDS FiniteSets, RedisKeys

CONSTANTS Workers,     \* the threads that serve requests, of all replicas
          Replicas,    \* gateway processes
          ReplicaOf,   \* the process a worker belongs to
          MaxFaults    \* bound: failed Redis calls and process restarts

ASSUME WorkersAssumption ==
  /\ IsFiniteSet(Workers)
  /\ Workers # {}
  /\ ReplicaOf \in [Workers -> Replicas]
  /\ \A r \in Replicas : \E w \in Workers : ReplicaOf[w] = r
  /\ MaxFaults \in Nat

VARIABLES connected,   \* connected_ of each replica
          faults,      \* failures so far
          delayed      \* how often Redis may still execute each command that
                       \*   changes a key, given up by the worker that sent it

clientVars == <<connected, faults, delayed>>

Reachable(w) == connected[ReplicaOf[w]]

Fault == /\ faults < MaxFaults
         /\ faults' = faults + 1

\* The call takes effect and the worker learns the answer.
Answers(w) == Reachable(w) /\ UNCHANGED <<faults, delayed>>

\* The call takes effect but the worker sees an exception.
ReplyLost(w) == Reachable(w) /\ Fault /\ UNCHANGED delayed

\* A call that reads has no answer and returns its default.
NoEffect(w) == /\ \/ ~Reachable(w) /\ UNCHANGED faults
                  \/ Reachable(w) /\ Fault
               /\ UNCHANGED delayed

\* A call that writes returns its default without an effect so far: it was not
\* sent, or nobody waits for its command any more.
GivesUp(w, command) ==
  \/ ~Reachable(w) /\ UNCHANGED <<faults, delayed>>
  \/ /\ Reachable(w) /\ Fault
     /\ delayed' = [delayed EXCEPT ![command] = @ + 1]

\* Redis executes a command that was given up.  It need not: it may be lost.
Arrives(command) ==
  /\ delayed[command] > 0
  /\ delayed' = [delayed EXCEPT ![command] = @ - 1]

=============================================================================
