-------------------------------- MODULE Gateway --------------------------------
(***************************************************************************)
(* One gateway process serving logins and registrations: the guard of the  *)
(* two routes (AuthGuard) around the call of the users service through its *)
(* balancer (BackendCall).  AuthGuard alone takes the answer of the users  *)
(* service as it comes; here it is what is left of the call after lost     *)
(* answers, retries, a missing backend or the death of the process.        *)
(***************************************************************************)
EXTENDS FiniteSets, Integers, Sequences

CONSTANTS Workers, MaxFaults, IPs, AttemptLimit, BlockSeconds, NoAttempt,
          Calls, MaxRetries, Addresses, AddressLists, NoClient, MaxPicks,
          Process,   \* the gateway process
          NoCall     \* the request of an idle worker

VARIABLES connected, faults, delayed, tally, pc, job, events, missed, astray,
          clients, current_index, picks,
          phase, client, retry_count, success, attempt, late, applied, sent,
          unanswered,
          request,   \* the call each worker serves
          asked,     \* history: the attempt each call stands for
          fate       \* history: what its handler did to the counter

Guard == INSTANCE AuthGuard WITH
  Replicas  <- {Process},
  ReplicaOf <- [w \in Workers |-> Process]

Users == INSTANCE BackendCall

\* What the two components ask of their constants.
ASSUME GatewayAssumption ==
  /\ IsFiniteSet(Workers) /\ Workers # {} /\ MaxFaults \in Nat
  /\ AttemptLimit \in [Guard!Routes -> Nat \ {0}] /\ BlockSeconds \in Nat \ {0}
  /\ NoAttempt \notin Guard!Attempts
  /\ AddressLists \subseteq Seq(Addresses) /\ NoClient \notin Addresses
  /\ MaxPicks \in Nat /\ MaxRetries \in Nat \ {0}
  /\ NoCall \notin Calls

guardVars    == <<connected, faults, delayed, tally, pc, job, events, missed, astray>>
balancerVars == <<clients, current_index, picks>>
callVars     == <<phase, client, retry_count, success, attempt, late, applied,
                  sent, unanswered>>
usersVars    == <<balancerVars, callVars>>
gatewayVars  == <<request, asked, fate>>
vars         == <<guardVars, usersVars, gatewayVars>>

Fates == {"open", "charged", "reset", "missed"}

Init ==
  /\ Guard!Init /\ Users!Init
  /\ request = [w \in Workers |-> NoCall]
  /\ asked   = [c \in Calls |-> NoAttempt]
  /\ fate    = [c \in Calls |-> "open"]

-----------------------------------------------------------------------------
(* The handlers of the two routes.                                         *)

Free == { c \in Calls : phase[c] = "new" /\ \A w \in Workers : request[w] # c }

\* One call is as good as another.
Receive(w) ==
  \E a \in Guard!Attempts :
    /\ Free # {}
    /\ Guard!Receive(w, a)
    /\ LET c == CHOOSE c \in Free : TRUE
       IN /\ request' = [request EXCEPT ![w] = c]
          /\ asked'   = [asked EXCEPT ![c] = a]
          /\ fate'    = [fate EXCEPT ![c] = "open"]
    /\ UNCHANGED usersVars

\* The worker gives up its call when its handler ends.
Release(w) ==
  request' = IF pc'[w] = "idle" THEN [request EXCEPT ![w] = NoCall] ELSE request

\* A step of the guard that leaves the users service alone.
GuardStep(w) ==
  /\ \/ Guard!ReadTally(w) \/ Guard!IncrementTally(w)
     \/ Guard!ExpireTally(w) \/ Guard!ResetTally(w)
     \/ Guard!BadRequest(w) /\ phase[request[w]] = "new"
  /\ Release(w)
  /\ fate' = CASE pc[w] = "incr" ->
                    [fate EXCEPT ![request[w]] =
                       IF tally' # tally THEN "charged" ELSE "missed"]
               [] pc[w] = "reset" /\ (tally' # tally \/ events' # events) ->
                    [fate EXCEPT ![request[w]] = "reset"]
               [] OTHER -> fate
  /\ UNCHANGED <<usersVars, asked>>

\* UsersService::Register or Login, up to its return.
UsersService(w) ==
  /\ pc[w] = "call"
  /\ Users!Wrapper(request[w])
  /\ UNCHANGED <<guardVars, gatewayVars>>

\* It has returned, and the route looks at response.success().
Response(w) ==
  /\ pc[w] = "call" /\ phase[request[w]] = "answered"
  /\ Guard!CallBackend(w, success[request[w]])
  /\ Release(w)
  /\ UNCHANGED <<usersVars, asked, fate>>

Worker(w) == Receive(w) \/ GuardStep(w) \/ UsersService(w) \/ Response(w)

-----------------------------------------------------------------------------
\* Redis executes a command that was given up.
Late == Guard!Late /\ UNCHANGED <<usersVars, gatewayVars>>

Backend(c) == Users!Backend(c) /\ UNCHANGED <<guardVars, gatewayVars>>

\* The process dies and starts again in the same environment, with new
\* balancers.  Nobody waits for the calls that were under way; the backend may
\* still execute what it got.
Restart ==
  /\ Guard!Restart(Process)
  /\ Users!SetClients(clients)
  /\ request' = [w \in Workers |-> NoCall]
  /\ fate' = [c \in Calls |->
                IF fate[c] = "open" /\ \E w \in Workers : request[w] = c /\ pc[w] # "read"
                  THEN "missed" ELSE fate[c]]
  /\ UNCHANGED <<callVars, asked>>

Tick == Guard!Tick /\ UNCHANGED <<usersVars, gatewayVars>>

Next == \/ \E w \in Workers : Worker(w)
        \/ \E c \in Calls : Backend(c)
        \/ Restart
        \/ Late
        \/ Tick

\* As in AuthGuard and BackendCall: time passes, a Redis call ends within
\* socket_timeout and an RPC within its deadline.
Fairness ==
  /\ WF_vars(Tick)
  /\ \A w \in Workers : WF_vars(pc[w] # "idle" /\ Worker(w))

Spec == Init /\ [][Next]_vars /\ Fairness

-----------------------------------------------------------------------------
(* Correctness.                                                            *)

TypeOK ==
  /\ Guard!TypeOK /\ Users!TypeOK
  /\ request \in [Workers -> Calls \cup {NoCall}]
  /\ asked \in [Calls -> Guard!Attempts \cup {NoAttempt}]
  /\ fate \in [Calls -> Fates]
  /\ \A w \in Workers : pc[w] = "idle" <=> request[w] = NoCall
  /\ \A v, w \in Workers : request[v] = request[w] /\ v # w => request[v] = NoCall

\* AuthGuard takes for granted that the users service answers each call; a
\* silent backend, retries and a process that dies in the middle of a call
\* keep every behaviour of the routes one that AuthGuard allows, also in what
\* has to happen in the end.
GuardAssumptionsHold == Guard!Spec

Over(c) == asked[c] # NoAttempt /\ \A w \in Workers : request[w] # c

\* The registration quota is about accounts that exist.  An account that the
\* users service created is missing in the counter only if an answer of the
\* service was lost, or a failure or crash of the gateway kept it from Redis.
RegistrationsCounted ==
  \A c \in Calls :
    Over(c) /\ asked[c].route = "register" /\ applied[c] > 0 =>
      fate[c] \in {"charged", "missed"} \/ unanswered[c] > 0

\* A login is charged to its address because the users service refused it, or
\* because an attempt to ask it failed, or because there was none to ask.  In
\* particular the right password is charged only after a lost answer.
ChargeHasCause ==
  \A c \in Calls :
    fate[c] = "charged" /\ asked[c].route = "login" =>
      attempt[c] = "refused" \/ unanswered[c] > 0 \/ client[c] = NoClient

\* Only a login the users service accepted clears the failed ones before it.
ResetEarned ==
  \A c \in Calls :
    fate[c] = "reset" => asked[c].route = "login" /\ applied[c] > 0

=============================================================================
