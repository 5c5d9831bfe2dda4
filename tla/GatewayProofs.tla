----------------------------- MODULE GatewayProofs -----------------------------
(***************************************************************************)
(* Theorems about Gateway, for every value of its constants.  What is      *)
(* proved of AuthGuard and BackendCall is used for the two instances that  *)
(* Gateway composes.                                                       *)
(***************************************************************************)
EXTENDS Gateway, TLAPS

GP == INSTANCE AuthGuardProofs WITH
  Replicas  <- {Process},
  ReplicaOf <- [w \in Workers |-> Process]

UP == INSTANCE BackendCallProofs

-----------------------------------------------------------------------------
(* The components.  Guard! and GP! name the same definitions, as Users!    *)
(* and UP! do.                                                             *)

\* The constants are as AuthGuard assumes.
LEMMA GuardConstants ==
  /\ GP!IsFiniteSet(Workers) /\ Workers # {}
  /\ [w \in Workers |-> Process] \in [Workers -> {Process}]
  /\ \A r \in {Process} : \E w \in Workers : [v \in Workers |-> Process][w] = r
  /\ MaxFaults \in Nat
  /\ AttemptLimit \in [GP!Routes -> Nat \ {0}] /\ BlockSeconds \in Nat \ {0}
  /\ NoAttempt \notin GP!Attempts
<1>1. GP!IsFiniteSet(Workers)
  BY GatewayAssumption DEF IsFiniteSet, GP!IsFiniteSet
<1>2. QED
  BY <1>1, GatewayAssumption DEF GP!Routes, GP!Attempts, Guard!Routes, Guard!Attempts

\* They are as BackendCall assumes.
LEMMA UsersConstants ==
  /\ AddressLists \subseteq Seq(Addresses) /\ NoClient \notin Addresses
  /\ MaxPicks \in Nat /\ MaxRetries \in Nat \ {0}
  BY GatewayAssumption

\* The types of the guard.
LEMMA GuardTypes == Guard!TypeOK <=> GP!TypeOK
  BY DEF Guard!TypeOK, Guard!KeyStates, Guard!NoExpiry, Guard!Steps, Guard!Attempts,
         Guard!Routes, Guard!Commands,
         GP!TypeOK, GP!KeyStates, GP!NoExpiry, GP!Steps, GP!Attempts, GP!Routes, GP!Commands

\* The steps of a worker of the guard.
LEMMA GuardWorker ==
  ASSUME NEW w \in Workers, Guard!Worker(w)
  PROVE  GP!Worker(w)
  BY DEF Guard!Worker, Guard!Receive, Guard!ReadTally, Guard!BadRequest,
         Guard!CallBackend, Guard!IncrementTally, Guard!ExpireTally, Guard!ResetTally,
         Guard!Goto, Guard!Finish, Guard!Note, Guard!Reachable, Guard!Answers,
         Guard!ReplyLost, Guard!NoEffect, Guard!GivesUp, Guard!CommandOf, Guard!Delete,
         Guard!StartAgain, Guard!history, Guard!Fault, Guard!Blocked, Guard!Exists,
         Guard!Incr, Guard!Expire, Guard!Missing, Guard!NoExpiry, Guard!clientVars,
         Guard!Attempts, Guard!Routes, GP!Worker, GP!Receive, GP!ReadTally,
         GP!BadRequest, GP!CallBackend, GP!IncrementTally, GP!ExpireTally, GP!ResetTally,
         GP!Goto, GP!Finish, GP!Note, GP!Reachable, GP!Answers, GP!ReplyLost,
         GP!NoEffect, GP!GivesUp, GP!CommandOf, GP!Delete, GP!StartAgain, GP!history,
         GP!Fault, GP!Blocked, GP!Exists, GP!Incr, GP!Expire, GP!Missing,
         GP!NoExpiry, GP!clientVars, GP!Attempts, GP!Routes

\* The steps of the guard.
LEMMA GuardSteps == [Guard!Next]_Guard!vars => [GP!Next]_GP!vars
<1>1. \A w \in Workers : Guard!Worker(w) => GP!Worker(w)
  BY GuardWorker
<1>2. ASSUME NEW r \in {Process}, Guard!Restart(r)
      PROVE  GP!Restart(r)
  BY <1>2 DEF Guard!Restart, Guard!Fault, Guard!Charging, Guard!Cardinality,
              Guard!Reachable, Guard!Attempts, Guard!Routes,
              GP!Restart, GP!Fault, GP!Charging, GP!Cardinality,
              GP!Reachable, GP!Attempts, GP!Routes
<1>3. Guard!Tick => GP!Tick
  BY DEF Guard!Tick, Guard!Age, Guard!Exists, Guard!Missing, Guard!clientVars,
         Guard!StartAgain, Guard!CommandOf, Guard!Attempts, Guard!Routes,
         GP!Tick, GP!Age, GP!Exists, GP!Missing, GP!clientVars,
         GP!StartAgain, GP!CommandOf, GP!Attempts, GP!Routes
<1>4. UNCHANGED Guard!vars => UNCHANGED GP!vars
  BY DEF Guard!vars, Guard!clientVars, Guard!history, GP!vars, GP!clientVars, GP!history
<1>5. Guard!Late => GP!Late
  BY DEF Guard!Late, Guard!LateIncr, Guard!LateExpire, Guard!LateDelete, Guard!Arrives,
         Guard!CommandOf, Guard!Delete, Guard!StartAgain, Guard!history, Guard!Incr,
         Guard!Expire, Guard!Exists, Guard!Missing, Guard!NoExpiry, Guard!Attempts,
         Guard!Routes,
         GP!Late, GP!LateIncr, GP!LateExpire, GP!LateDelete, GP!Arrives,
         GP!CommandOf, GP!Delete, GP!StartAgain, GP!history, GP!Incr, GP!Expire,
         GP!Exists, GP!Missing, GP!NoExpiry, GP!Attempts, GP!Routes
<1>6. QED
  BY <1>1, <1>2, <1>3, <1>4, <1>5 DEF Guard!Next, GP!Next

\* The steps of a call.
LEMMA UsersSteps ==
  ASSUME NEW c \in Calls, Users!Wrapper(c) \/ Users!Backend(c)
  PROVE  UP!Gateway(c) \/ UP!Backend(c)
  BY DEF Users!Wrapper, Users!Backend, Users!Take, Users!Send, Users!ReturnOk, Users!Retry,
         Users!ReadResponse, Users!ReturnError, Users!Errors, Users!Retryable, Users!Apply, Users!Refuse,
         Users!Late, Users!Goto, Users!Add, Users!GetNextClient, Users!NextClient,
         Users!balancerVars, Users!TriesLeft, Users!Fails,
         UP!Gateway, UP!Wrapper, UP!Backend, UP!Take, UP!Send, UP!ReturnOk, UP!Retry,
         UP!ReadResponse, UP!ReturnError, UP!Errors, UP!Retryable, UP!Apply, UP!Refuse,
         UP!Late, UP!Goto, UP!Add, UP!GetNextClient, UP!NextClient,
         UP!balancerVars, UP!TriesLeft, UP!Fails

-----------------------------------------------------------------------------
(* Each step of the gateway is a step of the guard, or none.               *)

\* A step of the gateway is one of the guard.
LEMMA GuardStepOrNone ==
  ASSUME [Next]_vars
  PROVE  [Guard!Next]_Guard!vars
<1>1. ASSUME NEW w \in Workers, Receive(w) \/ GuardStep(w) \/ Response(w)
      PROVE  Guard!Worker(w)
  <2>1. CASE Receive(w)
    BY <2>1 DEF Receive, Guard!Worker
  <2>2. CASE GuardStep(w)
    BY <2>2 DEF GuardStep, Guard!Worker
  <2>3. CASE Response(w)
    <3>1. Guard!CallBackend(w, success[request[w]])
      BY <2>3 DEF Response
    <3>2. QED
      BY <3>1 DEF Guard!Worker, Guard!CallBackend
  <2>4. QED
    BY <1>1, <2>1, <2>2, <2>3
<1>2. ASSUME UNCHANGED guardVars
      PROVE  UNCHANGED Guard!vars
  BY <1>2 DEF guardVars, Guard!vars, Guard!clientVars, Guard!history
<1>3. QED
  BY <1>1, <1>2 DEF Next, vars, Worker, UsersService, Backend, Restart, Late, Tick, Guard!Next

\* The routes of the gateway, with the users service behind them, do nothing
\* that AuthGuard does not allow, whatever becomes of the calls.
THEOREM GatewayImplementsGuard == Spec => Guard!SafeSpec
<1>1. Init => Guard!Init
  BY DEF Init
<1>2. [Next]_vars => [Guard!Next]_Guard!vars
  BY GuardStepOrNone
<1>3. QED
  BY <1>1, <1>2, PTL DEF Spec, Guard!SafeSpec

-----------------------------------------------------------------------------
(* What is proved of AuthGuard holds of the routes of the gateway.         *)

\* The guard of the gateway is the one that AuthGuardProofs speaks of.
LEMMA ImplementsGuard == Spec => GP!SafeSpec
<1>1. Init => GP!Init
  BY DEF Init, Guard!Init, Guard!Missing, Guard!Attempts, Guard!Routes, Guard!Commands,
         GP!Init, GP!Missing, GP!Attempts, GP!Routes, GP!Commands
<1>2. [Next]_vars => [GP!Next]_GP!vars
  BY GuardStepOrNone, GuardSteps
<1>3. QED
  BY <1>1, <1>2, PTL DEF Spec, GP!SafeSpec

\* So its counters keep the two invariants.
LEMMA GuardInvariant ==
  Spec => [](GP!TypeOK /\ \A k \in GP!Attempts : GP!Quota(k) /\ GP!Earned(k))
<1>1. GP!SafeSpec => [](GP!TypeOK /\ \A k \in GP!Attempts : GP!Quota(k) /\ GP!Earned(k))
  BY GP!CountsInvariant, GuardConstants
<1>2. QED
  BY <1>1, ImplementsGuard, PTL

\* The numbers that the guard's properties compare.
LEMMA GuardNumbers ==
  ASSUME GP!TypeOK, NEW k \in GP!Attempts, GP!Quota(k), GP!Earned(k)
  PROVE  /\ events[k] < AttemptLimit[k.route] + Cardinality(Workers) + missed[k]
         /\ tally[k].val <= events[k] + Cardinality(Workers) + astray[k]
<1>1. Cardinality(Workers) = GP!Cardinality(Workers)
  BY DEF Cardinality, GP!Cardinality
<1>2. QED
  BY <1>1, GP!Numbers, GuardConstants DEF GP!Quota, GP!Earned

\* The quota of registrations and of failed logins is bounded, an address is
\* charged for its own attempts and those on their way when its counter began
\* anew, and only a failure leaves a counter that never lapses, also when the users service is silent, loses answers or has no
\* backend.
THEOREM GatewayGuarded ==
  Spec => [](Guard!QuotaBound /\ Guard!EarnedCharge /\ Guard!OrphanNeedsFault)
<1>1. /\ GP!TypeOK
      /\ \A k \in GP!Attempts : GP!Quota(k) /\ GP!Earned(k)
      => Guard!QuotaBound /\ Guard!EarnedCharge
  <2>1. GP!Attempts = Guard!Attempts /\ Guard!Cardinality(Workers) = Cardinality(Workers)
    BY DEF GP!Attempts, GP!Routes, Guard!Attempts, Guard!Routes, Cardinality, Guard!Cardinality
  <2>2. QED
    BY <2>1, GuardNumbers DEF Guard!QuotaBound, Guard!EarnedCharge
<1>2. GP!SafeSpec => []GP!OrphanNeedsFault
  BY GP!OrphanInvariant, GuardConstants
<1>3. GP!OrphanNeedsFault => Guard!OrphanNeedsFault
  BY DEF GP!OrphanNeedsFault, GP!NoExpiry, GP!Attempts, GP!Routes,
         Guard!OrphanNeedsFault, Guard!NoExpiry, Guard!Attempts, Guard!Routes
<1>4. QED
  BY <1>1, <1>2, <1>3, GuardInvariant, ImplementsGuard, PTL

-----------------------------------------------------------------------------
(* The requests the workers hold.                                          *)

RequestsOK ==
  /\ request \in [Workers -> Calls \cup {NoCall}]
  /\ asked \in [Calls -> GP!Attempts \cup {NoAttempt}]
  /\ fate \in [Calls -> Fates]
  /\ \A w \in Workers : pc[w] = "idle" <=> request[w] = NoCall
  /\ \A v, w \in Workers : request[v] = request[w] /\ v # w => request[v] = NoCall

\* A worker that is not idle serves a call.
LEMMA Serving ==
  ASSUME RequestsOK, NEW w \in Workers, pc[w] # "idle"
  PROVE  /\ request[w] \in Calls
         /\ \A v \in Workers : request[v] = request[w] => v = w
  BY DEF RequestsOK

\* A step of one worker leaves the others where they are.
LEMMA OthersStay ==
  ASSUME GP!TypeOK, NEW w \in Workers, Guard!Worker(w)
  PROVE  \A v \in Workers : v # w => pc'[v] = pc[v] /\ job'[v] = job[v]
  BY GuardWorker, GP!OthersStay, GuardConstants

\* A worker takes a call that is new and that nobody serves.
LEMMA Taken ==
  ASSUME GP!TypeOK, RequestsOK, NEW w \in Workers, Receive(w)
  PROVE  \E c \in Calls, a \in GP!Attempts :
           /\ phase[c] = "new" /\ \A v \in Workers : request[v] # c
           /\ pc[w] = "idle" /\ pc' = [pc EXCEPT ![w] = "read"]
           /\ job' = [job EXCEPT ![w] = a]
           /\ request' = [request EXCEPT ![w] = c]
           /\ asked' = [asked EXCEPT ![c] = a]
           /\ fate' = [fate EXCEPT ![c] = "open"]
           /\ UNCHANGED usersVars
<1>1. PICK a \in Guard!Attempts :
        /\ Free # {}
        /\ Guard!Receive(w, a)
        /\ LET c == CHOOSE c \in Free : TRUE
           IN /\ request' = [request EXCEPT ![w] = c]
              /\ asked'   = [asked EXCEPT ![c] = a]
              /\ fate'    = [fate EXCEPT ![c] = "open"]
        /\ UNCHANGED usersVars
  BY DEF Receive
<1> DEFINE c == CHOOSE c \in Free : TRUE
<1>2. c \in Free
  BY <1>1
<1>3. c \in Calls /\ phase[c] = "new" /\ \A v \in Workers : request[v] # c
  BY <1>2 DEF Free
<1>4. a \in GP!Attempts
  BY DEF GP!Attempts, GP!Routes, Guard!Attempts, Guard!Routes
<1>5. /\ pc[w] = "idle" /\ pc' = [pc EXCEPT ![w] = "read"]
      /\ job' = [job EXCEPT ![w] = a]
  BY <1>1 DEF Guard!Receive, Guard!Goto
<1>6. QED
  BY <1>1, <1>3, <1>4, <1>5

\* A step of a handler, on the side of the guard.
LEMMA HandlerStep ==
  ASSUME GP!TypeOK, RequestsOK, NEW w \in Workers, GuardStep(w) \/ Response(w)
  PROVE  /\ pc[w] # "idle" /\ request[w] \in Calls
         /\ \A v \in Workers : v # w => pc'[v] = pc[v] /\ job'[v] = job[v]
         /\ pc'[w] # "idle" => job'[w] = job[w]
         /\ Release(w) /\ UNCHANGED <<usersVars, asked>>
         /\ \/ fate' = fate
            \/ \E f \in {"charged", "reset", "missed"} :
                 fate' = [fate EXCEPT ![request[w]] = f]
<1>1. Guard!Worker(w)
  BY DEF GuardStep, Response, Guard!Worker, Guard!CallBackend
<1>2. /\ pc[w] # "idle"
      /\ job' = job \/ (pc' = [pc EXCEPT ![w] = "idle"])
  BY DEF GuardStep, Response, Guard!ReadTally, Guard!BadRequest, Guard!CallBackend,
         Guard!IncrementTally, Guard!ExpireTally, Guard!ResetTally, Guard!Blocked,
         Guard!Finish, Guard!Goto
<1>3. pc \in [Workers -> GP!Steps]
  BY DEF GP!TypeOK
<1>4. \/ fate' = fate
      \/ \E f \in {"charged", "reset", "missed"} :
           fate' = [fate EXCEPT ![request[w]] = f]
  BY DEF GuardStep, Response
<1>5. Release(w) /\ UNCHANGED <<usersVars, asked>>
  BY DEF GuardStep, Response
<1>6. QED
  BY <1>1, <1>2, <1>3, <1>4, <1>5, OthersStay, Serving

\* A restart frees every worker, and says so of the calls they served.
LEMMA RestartStep ==
  ASSUME GP!TypeOK, RequestsOK, Restart
  PROVE  /\ \A w \in Workers : pc'[w] = "idle" /\ request'[w] = NoCall
         /\ request' \in [Workers -> {NoCall}]
         /\ UNCHANGED <<callVars, asked>>
         /\ fate' = [c \in Calls |->
                       IF fate[c] = "open" /\ \E w \in Workers : request[w] = c /\ pc[w] # "read"
                         THEN "missed" ELSE fate[c]]
  BY DEF Restart, Guard!Restart

\* Every step keeps the requests, and what is known of them, well-typed.
LEMMA RequestsStep ==
  ASSUME GP!TypeOK, GP!TypeOK', RequestsOK, [Next]_vars
  PROVE  RequestsOK'
<1>1. ASSUME NEW w \in Workers, Receive(w)
      PROVE  RequestsOK'
  <2>1. PICK c \in Calls, a \in GP!Attempts :
           /\ \A v \in Workers : request[v] # c
           /\ pc' = [pc EXCEPT ![w] = "read"]
           /\ request' = [request EXCEPT ![w] = c]
           /\ asked' = [asked EXCEPT ![c] = a]
           /\ fate' = [fate EXCEPT ![c] = "open"]
    BY <1>1, Taken
  <2>2. c # NoCall /\ "open" \in Fates
    BY GatewayAssumption DEF Fates
  <2>3. QED
    BY <2>1, <2>2 DEF RequestsOK, GP!TypeOK
<1>2. ASSUME NEW w \in Workers, GuardStep(w) \/ Response(w)
      PROVE  RequestsOK'
  <2>1. /\ \A v \in Workers : v # w => pc'[v] = pc[v]
        /\ request' = IF pc'[w] = "idle" THEN [request EXCEPT ![w] = NoCall] ELSE request
        /\ pc[w] # "idle" /\ asked' = asked
    BY <1>2, HandlerStep DEF Release
  <2>2. fate' \in [Calls -> Fates]
    BY <1>2, HandlerStep DEF RequestsOK, Fates
  <2>3. QED
    BY <2>1, <2>2 DEF RequestsOK
<1>3. ASSUME NEW w \in Workers, UsersService(w)
      PROVE  RequestsOK'
  BY <1>3 DEF UsersService, guardVars, gatewayVars, RequestsOK
<1>4. ASSUME NEW c \in Calls, Backend(c)
      PROVE  RequestsOK'
  BY <1>4 DEF Backend, guardVars, gatewayVars, RequestsOK
<1>5. CASE Restart
  BY <1>5, RestartStep DEF RequestsOK, Fates
<1>6. CASE Tick \/ Late
  BY <1>6 DEF Tick, Guard!Tick, Late, Guard!Late, gatewayVars, RequestsOK
<1>7. CASE UNCHANGED vars
  BY <1>7 DEF vars, guardVars, gatewayVars, RequestsOK
<1>8. QED
  BY <1>1, <1>2, <1>3, <1>4, <1>5, <1>6, <1>7 DEF Next, Worker

-----------------------------------------------------------------------------
(* The calls of the users service.                                         *)

\* A step of the gateway is one of a call, or leaves the calls as they are.
LEMMA CallOrNone ==
  ASSUME RequestsOK, [Next]_vars
  PROVE  \/ \E c \in Calls : Users!Wrapper(c) \/ Users!Backend(c)
         \/ UNCHANGED callVars /\ (UNCHANGED balancerVars \/ Users!SetClients(clients))
<1>1. ASSUME NEW w \in Workers, UsersService(w)
      PROVE  \E c \in Calls : Users!Wrapper(c)
  BY <1>1, Serving DEF UsersService
<1>2. QED
  BY <1>1 DEF Next, vars, Worker, Receive, GuardStep, Response, Backend, Restart, Late,
              Tick, usersVars

UsersOK == /\ UP!CallsOK
           /\ UP!BalancerInv
           /\ client \in [Calls -> Addresses \cup {NoClient}]

\* Every step keeps the invariants of the calls and of their balancer, which
\* a restart sets anew.
LEMMA UsersStep ==
  ASSUME UsersOK, RequestsOK, [Next]_vars
  PROVE  UsersOK'
<1>1. ASSUME NEW c \in Calls, Users!Wrapper(c) \/ Users!Backend(c)
      PROVE  UsersOK'
  <2>1. UP!Gateway(c) \/ UP!Backend(c)
    BY <1>1, UsersSteps
  <2>2. UP!CallsOK'
    BY <2>1, UP!CallStep, UsersConstants DEF UsersOK
  <2>3. [UP!Next]_UP!vars
    BY <2>1 DEF UP!Next
  <2>4. QED
    BY <2>2, <2>3, UP!ClientStep, UsersConstants DEF UsersOK
<1>2. CASE UNCHANGED callVars
  <2>1. UP!CallsOK' /\ client' = client
    BY <1>2 DEF UsersOK, callVars, UP!CallsOK, UP!CallTypes, UP!Bounded, UP!Honest, UP!Open
  <2>2. CASE UNCHANGED balancerVars
    BY <2>1, <2>2 DEF UsersOK, balancerVars, UP!BalancerInv, UP!BalancerTypeOK,
                      UP!IndexInRange, UP!Turn
  <2>3. CASE Users!SetClients(clients)
    <3>1. UP!UpdateAddresses
      BY <2>3 DEF UsersOK, UP!BalancerInv, UP!BalancerTypeOK, UP!UpdateAddresses,
                  UP!SetClients, UP!Positions, Users!SetClients, Users!Positions
    <3>2. QED
      BY <2>1, <3>1, UP!UpdateInv, UsersConstants DEF UsersOK
  <2>4. QED
    BY <1>1, <2>1, <2>2, <2>3, CallOrNone DEF UsersOK
<1>3. QED
  BY <1>1, <1>2, CallOrNone

\* Every value stays of its type, in the guard, in the calls and in between;
\* a worker holds a call exactly while it handles a request, and no two hold
\* the same.
LEMMA TypesInvariant == Spec => [](GP!TypeOK /\ RequestsOK /\ UsersOK)
<1>1. Init => RequestsOK /\ UsersOK
  <2>1. ASSUME Init
        PROVE  RequestsOK
    BY <2>1 DEF Init, Guard!Init, RequestsOK, Fates
  <2>2. ASSUME Init
        PROVE  UP!Init
    BY <2>2 DEF Init, Users!Init, Users!BalancerInit, Users!Positions,
                UP!Init, UP!BalancerInit, UP!Positions
  <2>3. ASSUME Init
        PROVE  UsersOK
    <3>1. UP!BalancerInv
      BY <2>2, <2>3, UP!StartInv, UsersConstants DEF UP!Init
    <3>2. UP!CallsOK
      BY <2>2, <2>3, UP!InitOK, UsersConstants
    <3>3. QED
      BY <2>2, <2>3, <3>1, <3>2 DEF UsersOK, UP!Init
  <2>4. QED
    BY <2>1, <2>3
<1>2. GP!TypeOK /\ GP!TypeOK' /\ RequestsOK /\ UsersOK /\ [Next]_vars
      => RequestsOK' /\ UsersOK'
  BY RequestsStep, UsersStep
<1>3. Spec => []GP!TypeOK
  BY GuardInvariant, PTL
<1>4. QED
  BY <1>1, <1>2, <1>3, PTL DEF Spec

\* The types of the gateway.
THEOREM TypeCorrect == Spec => []TypeOK
<1>1. ASSUME GP!TypeOK, RequestsOK, UsersOK
      PROVE  TypeOK
  <2>1. Guard!TypeOK
    BY <1>1, GuardTypes
  <2>2. Users!TypeOK
    BY <1>1 DEF UsersOK, UP!CallsOK, UP!CallTypes, UP!Phases, UP!Attempt, UP!BalancerInv,
                UP!BalancerTypeOK, UP!IndexInRange, UP!Positions,
                Users!TypeOK, Users!Phases, Users!Attempt,
                Users!BalancerTypeOK, Users!IndexInRange, Users!Positions
  <2>3. GP!Attempts = Guard!Attempts
    BY DEF GP!Attempts, GP!Routes, Guard!Attempts, Guard!Routes
  <2>4. QED
    BY <1>1, <2>1, <2>2, <2>3 DEF TypeOK, RequestsOK
<1>2. QED
  BY <1>1, TypesInvariant, PTL

\* What RemoteCall promises of a call, the calls of the gateway keep, whoever
\* waits for them and whenever the process dies.
THEOREM GatewayImplementsRemoteCall == Spec => Users!Promise!SafeSpec
<1>1. Init => Users!Promise!Init
  BY DEF Init, Users!Init, Users!Promise!Init, Users!ClientsView
<1>2. UsersOK /\ UsersOK' /\ RequestsOK /\ [Next]_vars =>
        [Users!Promise!Next]_Users!Promise!vars
  <2> SUFFICES ASSUME UsersOK, UsersOK', RequestsOK, [Next]_vars
               PROVE  [Users!Promise!Next]_Users!Promise!vars
    OBVIOUS
  <2>1. ASSUME NEW c \in Calls, Users!Wrapper(c) \/ Users!Backend(c)
        PROVE  [Users!Promise!Next]_Users!Promise!vars
    <3>1. [UP!Next]_UP!vars
      BY <2>1, UsersSteps DEF UP!Next
    <3>2. [UP!Promise!Next]_UP!Promise!vars
      BY <3>1, UP!PromiseStep, UsersConstants DEF UsersOK
    <3>3. QED
      BY <3>2 DEF Users!Promise!Next, Users!Promise!vars, Users!Promise!Reject,
                  Users!Promise!Begin, Users!Promise!Succeed, Users!Promise!Fail,
                  Users!Promise!Run, Users!Promise!Become, Users!ClientsView,
                  UP!Promise!Next, UP!Promise!vars, UP!Promise!Reject, UP!Promise!Begin,
                  UP!Promise!Succeed, UP!Promise!Fail, UP!Promise!Run, UP!Promise!Become,
                  UP!ClientsView
  <2>2. CASE UNCHANGED callVars
    BY <2>2 DEF callVars, Users!Promise!vars, Users!ClientsView
  <2>3. QED
    BY <2>1, <2>2, CallOrNone
<1>3. QED
  BY <1>1, <1>2, TypesInvariant, PTL DEF Spec, Users!Promise!SafeSpec

-----------------------------------------------------------------------------
(* What the counters have to do with the calls.  Three facts together are  *)
(* inductive: what is known of the call a worker holds, by where the       *)
(* worker is; what an answered call was answered; and what the fate of a   *)
(* call says of it, and of a call that nobody holds any more.              *)

Quiet == {"open", "missed"}

Holding(w) ==
  LET c == request[w]
  IN c # NoCall =>
       /\ job[w] = asked[c]
       /\ pc[w] = "read" => phase[c] = "new"
       /\ pc[w] \in {"incr", "reset", "expire"} => phase[c] = "answered"
       /\ pc[w] = "incr" => (success[c] <=> job[w].route = "register")
       /\ pc[w] = "reset" => success[c] /\ job[w].route = "login"
       /\ IF pc[w] = "expire" THEN fate[c] = "charged" ELSE fate[c] \in Quiet

Answer(c) ==
  phase[c] = "answered" =>
    /\ attempt[c] # "sent"
    /\ attempt[c] = "applied" => success[c]
    /\ success[c] \/ attempt[c] = "refused" \/ unanswered[c] > 0 \/ client[c] = NoClient

Fate(c) ==
  /\ phase[c] # "answered" => fate[c] \in Quiet
  /\ fate[c] = "charged" => (success[c] <=> asked[c].route = "register")
  /\ fate[c] = "reset" => success[c] /\ asked[c].route = "login"
  /\ Over(c) /\ phase[c] # "new" /\ fate[c] = "open" =>
       phase[c] = "answered" /\ (success[c] => asked[c].route = "login")
  /\ asked[c] = NoAttempt => phase[c] = "new"

Accounts == /\ \A w \in Workers : Holding(w)
            /\ \A c \in Calls : Fate(c)

\* What the types say of one call.
LEMMA CallFields ==
  ASSUME UsersOK, NEW c \in Calls
  PROVE  /\ phase[c] \in UP!Phases /\ attempt[c] \in UP!Attempt /\ success[c] \in BOOLEAN
         /\ unanswered[c] \in Nat /\ applied[c] \in Nat /\ late[c] \in Nat
         /\ UP!Bounded(c) /\ UP!Honest(c)
  BY DEF UsersOK, UP!CallsOK, UP!CallTypes

\* The wrapper works on a call that has not been answered, and on no other.
LEMMA WrapperMoves ==
  ASSUME UsersOK, NEW d \in Calls, Users!Wrapper(d)
  PROVE  /\ phase[d] # "answered" /\ phase'[d] # "new"
         /\ \A c \in Calls : c # d => phase'[c] = phase[c] /\ success'[c] = success[c]
<1>1. UP!CallTypes /\ (UP!Gateway(d) \/ UP!Backend(d))
  BY UsersSteps DEF UsersOK, UP!CallsOK
<1>2. \A c \in Calls : c # d => phase'[c] = phase[c] /\ success'[c] = success[c]
  BY <1>1, UP!OthersStay, UsersConstants
<1>3. phase[d] # "answered" /\ phase'[d] # "new"
  BY <1>1 DEF Users!Wrapper, Users!Take, Users!Send, Users!ReturnOk, Users!Retry,
              Users!ReturnError, Users!Fails, Users!Goto, UP!CallTypes
<1>4. QED
  BY <1>2, <1>3

\* The backend does nothing that its caller can see before the answer.
LEMMA BackendMoves ==
  ASSUME NEW c \in Calls, Users!Backend(c)
  PROVE  UNCHANGED <<phase, success, client, unanswered>>
  BY DEF Users!Backend, Users!Apply, Users!Refuse, Users!Late

\* An answer has its reason, and keeps it.
LEMMA AnswerStep ==
  ASSUME UsersOK, RequestsOK, [Next]_vars, NEW c \in Calls, Answer(c)
  PROVE  Answer(c)'
<1> USE DEF Answer
<1>1. ASSUME NEW d \in Calls, d # c, Users!Wrapper(d) \/ Users!Backend(d)
      PROVE  Answer(c)'
  <2>1. UP!CallTypes /\ (UP!Gateway(d) \/ UP!Backend(d))
    BY <1>1, UsersSteps DEF UsersOK, UP!CallsOK
  <2>2. /\ phase'[c] = phase[c] /\ attempt'[c] = attempt[c]
        /\ success'[c] = success[c] /\ unanswered'[c] = unanswered[c]
    BY <1>1, <2>1, UP!OthersStay, UsersConstants
  <2>3. client'[c] = client[c]
    BY <1>1 DEF Users!Wrapper, Users!Backend, Users!Take, Users!Send, Users!ReturnOk,
                Users!Retry, Users!ReturnError, Users!Apply, Users!Refuse, Users!Late,
                UsersOK
  <2>4. QED
    BY <2>2, <2>3
<1>2. CASE Users!Wrapper(c)
  <2>1. CASE Users!Take(c)
    <3>1. phase[c] = "new" /\ attempt'[c] = attempt[c] /\ success'[c] = success[c]
      BY <2>1 DEF Users!Take
    <3>2. phase'[c] = "answered" => client'[c] = NoClient
      BY <2>1 DEF Users!Take, Users!Goto, UsersOK, UP!CallsOK, UP!CallTypes
    <3>3. attempt[c] = "none"
      BY <3>1, CallFields DEF UP!Bounded
    <3>4. QED
      BY <3>1, <3>2, <3>3
  <2>2. CASE Users!Send(c) \/ Users!Retry(c)
    BY <2>2 DEF Users!Send, Users!Retry, Users!Goto, UsersOK, UP!CallsOK, UP!CallTypes
  <2>3. CASE Users!ReturnOk(c)
    BY <2>3 DEF Users!ReturnOk, Users!ReadResponse, UsersOK, UP!CallsOK, UP!CallTypes
  <2>4. CASE \E code \in Users!Errors : Users!ReturnError(c, code)
    <3>1. attempt'[c] = "none" /\ unanswered'[c] = unanswered[c] + 1
      BY <2>4 DEF Users!ReturnError, Users!Add, UsersOK, UP!CallsOK, UP!CallTypes
    <3>2. unanswered[c] \in Nat
      BY CallFields
    <3>3. QED
      BY <3>1, <3>2
  <2>5. QED
    BY <1>2, <2>1, <2>2, <2>3, <2>4 DEF Users!Wrapper
<1>3. CASE Users!Backend(c)
  <2>1. UNCHANGED <<phase, success, client, unanswered>>
    BY <1>3, BackendMoves
  <2>2. attempt[c] = "sent" \/ attempt' = attempt
    BY <1>3 DEF Users!Backend, Users!Apply, Users!Refuse, Users!Late
  <2>3. QED
    BY <2>1, <2>2
<1>4. CASE UNCHANGED callVars
  BY <1>4 DEF callVars
<1>5. QED
  BY <1>1, <1>2, <1>3, <1>4, CallOrNone

\* A worker that takes a call begins its account.
LEMMA ReceiveAccounts ==
  ASSUME GP!TypeOK, RequestsOK, Accounts, NEW w \in Workers, Receive(w)
  PROVE  Accounts'
<1>1. PICK c \in Calls, a \in GP!Attempts :
        /\ phase[c] = "new" /\ \A v \in Workers : request[v] # c
        /\ pc[w] = "idle" /\ pc' = [pc EXCEPT ![w] = "read"]
        /\ job' = [job EXCEPT ![w] = a]
        /\ request' = [request EXCEPT ![w] = c]
        /\ asked' = [asked EXCEPT ![c] = a]
        /\ fate' = [fate EXCEPT ![c] = "open"]
        /\ UNCHANGED usersVars
  BY Taken
<1>2. /\ UNCHANGED <<phase, success>>
      /\ fate'[c] = "open" /\ \A d \in Calls : d # c => fate'[d] = fate[d]
  BY <1>1 DEF usersVars, callVars, RequestsOK
<1>3. c # NoCall /\ a # NoAttempt /\ request[w] = NoCall
  BY <1>1, GatewayAssumption, GuardConstants DEF RequestsOK
<1>4. ASSUME NEW v \in Workers
      PROVE  Holding(v)'
  <2>1. CASE v = w
    <3>1. request'[w] = c /\ job'[w] = a /\ asked'[c] = a /\ pc'[w] = "read"
      BY <1>1 DEF RequestsOK, GP!TypeOK
    <3>2. QED
      BY <1>1, <1>2, <2>1, <3>1 DEF Holding, Quiet
  <2>2. CASE v # w
    <3>1. /\ request'[v] = request[v] /\ job'[v] = job[v] /\ pc'[v] = pc[v]
          /\ request[v] # c /\ (request[v] # NoCall => request[v] \in Calls)
      BY <1>1, <2>2 DEF RequestsOK, GP!TypeOK
    <3>2. request[v] # NoCall => asked'[request[v]] = asked[request[v]]
      BY <1>1, <3>1 DEF RequestsOK
    <3>3. request[v] # NoCall => fate'[request[v]] = fate[request[v]]
      BY <1>2, <3>1
    <3>4. QED
      BY <1>2, <3>1, <3>2, <3>3 DEF Accounts, Holding
  <2>3. QED
    BY <2>1, <2>2
<1>5. ASSUME NEW d \in Calls
      PROVE  Fate(d)'
  <2>1. CASE d = c
    <3>1. asked'[c] = a
      BY <1>1 DEF RequestsOK
    <3>2. QED
      BY <1>1, <1>2, <1>3, <2>1, <3>1 DEF Fate, Quiet
  <2>2. CASE d # c
    <3>1. asked'[d] = asked[d]
      BY <1>1, <2>2 DEF RequestsOK
    <3>2. Over(d)' => Over(d)
      <4>1. \A v \in Workers : request[v] = d => request'[v] = d
        BY <1>1, <1>3, GatewayAssumption DEF RequestsOK
      <4>2. QED
        BY <3>1, <4>1 DEF Over
    <3>3. Fate(d)
      BY DEF Accounts
    <3>4. QED
      BY <1>2, <2>2, <3>1, <3>2, <3>3 DEF Fate
  <2>3. QED
    BY <2>1, <2>2
<1>6. QED
  BY <1>4, <1>5 DEF Accounts

\* A handler goes on by what it was answered.
LEMMA HandlerHolding ==
  ASSUME GP!TypeOK, RequestsOK, Accounts, NEW w \in Workers, GuardStep(w) \/ Response(w)
  PROVE  Holding(w)'
<1> DEFINE c == request[w]
<1>1. /\ pc[w] # "idle" /\ c \in Calls /\ c # NoCall
      /\ pc'[w] # "idle" => job'[w] = job[w]
      /\ request' = IF pc'[w] = "idle" THEN [request EXCEPT ![w] = NoCall] ELSE request
      /\ UNCHANGED <<phase, success, asked>>
  BY HandlerStep, GatewayAssumption DEF Release, usersVars, callVars
<1>2. Holding(w) /\ pc \in [Workers -> GP!Steps] /\ fate \in [Calls -> Fates]
  BY DEF Accounts, GP!TypeOK, RequestsOK
<1>3. CASE pc'[w] = "idle"
  <2>1. request'[w] = NoCall
    BY <1>1, <1>3 DEF RequestsOK
  <2>2. QED
    BY <2>1 DEF Holding
<1>4. CASE GuardStep(w) /\ pc'[w] # "idle" /\ pc[w] # "incr"
  <2>1. pc[w] = "read" /\ pc'[w] = "call" /\ fate' = fate
    BY <1>2, <1>4 DEF GuardStep, Guard!ReadTally, Guard!BadRequest, Guard!IncrementTally,
                      Guard!ExpireTally, Guard!ResetTally, Guard!Finish, Guard!Goto
  <2>2. QED
    BY <1>1, <1>2, <2>1 DEF Holding
<1>5. CASE GuardStep(w) /\ pc'[w] # "idle" /\ pc[w] = "incr"
  <2>1. /\ pc'[w] = "expire" /\ job[w] \in GP!Attempts
        /\ tally' = [tally EXCEPT ![job[w]] = Guard!Incr(@)]
    <3>1. Guard!IncrementTally(w)
      BY <1>5 DEF GuardStep, Guard!ReadTally, Guard!BadRequest, Guard!ExpireTally,
                  Guard!ResetTally
    <3>2. job[w] \in GP!Attempts
      BY <1>1 DEF GP!TypeOK
    <3>3. QED
      BY <1>2, <1>5, <3>1, <3>2 DEF Guard!IncrementTally, Guard!Finish, Guard!Goto
  <2>2. tally' # tally
    <3>1. tally[job[w]] \in GP!KeyStates /\ tally'[job[w]] = Guard!Incr(tally[job[w]])
      BY <2>1 DEF GP!TypeOK
    <3>2. Guard!Incr(tally[job[w]]) # tally[job[w]]
      BY <3>1 DEF Guard!Incr, Guard!Exists, GP!KeyStates
    <3>3. QED
      BY <3>1, <3>2
  <2>3. fate'[c] = "charged"
    BY <1>1, <1>2, <1>5, <2>2 DEF GuardStep
  <2>4. QED
    BY <1>1, <1>2, <1>5, <2>1, <2>3 DEF Holding
<1>6. CASE Response(w) /\ pc'[w] # "idle"
  <2>1. /\ pc[w] = "call" /\ phase[c] = "answered" /\ fate' = fate
        /\ \/ pc'[w] = "incr" /\ success[c] = (job[w].route = "register")
           \/ pc'[w] = "reset" /\ success[c] /\ job[w].route = "login"
    BY <1>2, <1>6 DEF Response, Guard!CallBackend, Guard!Finish, Guard!Goto
  <2>2. QED
    BY <1>1, <1>2, <2>1 DEF Holding
<1>7. QED
  BY <1>3, <1>4, <1>5, <1>6

\* What a handler does to the counter is what its call deserves.
LEMMA HandlerFate ==
  ASSUME GP!TypeOK, RequestsOK, Accounts, NEW w \in Workers, GuardStep(w) \/ Response(w),
         NEW c \in Calls, c = request[w]
  PROVE  Fate(c)'
<1>1. /\ pc[w] # "idle" /\ c # NoCall /\ job[w] = asked[c]
      /\ UNCHANGED <<phase, success, asked>>
  BY HandlerStep, GatewayAssumption DEF usersVars, callVars, Accounts, Holding
<1>2. /\ Holding(w) /\ Fate(c) /\ pc \in [Workers -> GP!Steps] /\ fate \in [Calls -> Fates]
      /\ job[w].route \in {"login", "register"}
  BY <1>1 DEF Accounts, GP!TypeOK, RequestsOK, GP!Attempts, GP!Routes
<1>3. pc'[w] # "idle" => ~Over(c)'
  BY HandlerStep DEF Over, Release
<1>4. CASE GuardStep(w) /\ pc[w] \in {"read", "call"}
  <2>1. fate' = fate /\ phase[c] = "new"
    BY <1>1, <1>2, <1>4 DEF GuardStep, Guard!ReadTally, Guard!BadRequest,
                            Guard!IncrementTally, Guard!ExpireTally, Guard!ResetTally, Holding
  <2>2. QED
    BY <1>1, <1>2, <2>1 DEF Fate
<1>5. CASE GuardStep(w) /\ pc[w] = "incr"
  <2>1. fate'[c] \in {"charged", "missed"}
    BY <1>1, <1>2, <1>5 DEF GuardStep
  <2>2. phase[c] = "answered" /\ (success[c] <=> asked[c].route = "register")
    BY <1>1, <1>2, <1>5 DEF Holding
  <2>3. QED
    BY <1>1, <1>2, <2>1, <2>2 DEF Fate
<1>6. CASE GuardStep(w) /\ pc[w] = "expire"
  <2>1. fate' = fate /\ fate[c] = "charged"
    BY <1>1, <1>2, <1>6 DEF GuardStep, Holding
  <2>2. QED
    BY <1>1, <1>2, <2>1 DEF Fate
<1>7. CASE GuardStep(w) /\ pc[w] = "reset"
  <2>1. fate'[c] = "reset" \/ fate'[c] = fate[c]
    BY <1>1, <1>2, <1>7 DEF GuardStep
  <2>2. /\ phase[c] = "answered" /\ success[c] /\ asked[c].route = "login"
        /\ fate[c] \in Quiet
    BY <1>1, <1>2, <1>7 DEF Holding
  <2>3. QED
    BY <1>1, <1>2, <2>1, <2>2 DEF Fate, Quiet
<1>8. CASE Response(w)
  <2>1. /\ pc[w] = "call" /\ phase[c] = "answered" /\ fate' = fate
        /\ pc'[w] = "idle" => ~success[c] /\ job[w].route = "register"
    BY <1>2, <1>8 DEF Response, Guard!CallBackend, Guard!Finish, Guard!Goto
  <2>2. QED
    BY <1>1, <1>2, <1>3, <2>1 DEF Fate
<1>9. QED
  BY <1>1, <1>2, <1>4, <1>5, <1>6, <1>7, <1>8 DEF GP!Steps

\* So a step of a handler keeps all accounts.
LEMMA HandlerAccounts ==
  ASSUME GP!TypeOK, RequestsOK, Accounts, NEW w \in Workers, GuardStep(w) \/ Response(w)
  PROVE  Accounts'
<1>1. /\ request[w] \in Calls /\ request[w] # NoCall
      /\ \A v \in Workers : v # w => pc'[v] = pc[v] /\ job'[v] = job[v]
      /\ request' = IF pc'[w] = "idle" THEN [request EXCEPT ![w] = NoCall] ELSE request
      /\ UNCHANGED <<phase, success, asked>>
      /\ \/ fate' = fate
         \/ \E f \in {"charged", "reset", "missed"} :
              fate' = [fate EXCEPT ![request[w]] = f]
  BY HandlerStep, GatewayAssumption DEF Release, usersVars, callVars
<1>2. \A d \in Calls : d # request[w] => fate'[d] = fate[d]
  BY <1>1 DEF RequestsOK
<1>3. ASSUME NEW v \in Workers, v # w
      PROVE  Holding(v)'
  <2>1. /\ request'[v] = request[v] /\ request[v] # request[w]
        /\ request[v] # NoCall => request[v] \in Calls
    BY <1>1, <1>3 DEF RequestsOK
  <2>2. request[v] # NoCall => fate'[request[v]] = fate[request[v]]
    BY <1>2, <2>1
  <2>3. QED
    BY <1>1, <1>3, <2>1, <2>2 DEF Accounts, Holding
<1>4. ASSUME NEW d \in Calls, d # request[w]
      PROVE  Fate(d)'
  <2>1. Over(d)' => Over(d)
    <3>1. \A v \in Workers : request[v] = d => request'[v] = d
      BY <1>1, <1>4 DEF RequestsOK
    <3>2. QED
      BY <1>1, <3>1 DEF Over
  <2>2. fate'[d] = fate[d] /\ Fate(d)
    BY <1>2, <1>4 DEF Accounts
  <2>3. QED
    BY <1>1, <2>1, <2>2 DEF Fate
<1>5. \A d \in Calls : Fate(d)'
  BY <1>4, HandlerFate
<1>6. QED
  BY <1>3, <1>5, HandlerHolding DEF Accounts

\* The call of the users service goes on while its worker waits.
LEMMA ServiceAccounts ==
  ASSUME GP!TypeOK, UsersOK, RequestsOK, Accounts, NEW w \in Workers, UsersService(w)
  PROVE  Accounts'
<1> DEFINE c == request[w]
<1>1. /\ pc[w] = "call" /\ Users!Wrapper(c)
      /\ UNCHANGED <<pc, job, request, asked, fate>>
  BY DEF UsersService, guardVars, gatewayVars
<1>2. c \in Calls /\ \A v \in Workers : request[v] = c => v = w
  BY <1>1, Serving
<1>3. /\ phase[c] # "answered" /\ phase'[c] # "new"
      /\ \A d \in Calls : d # c => phase'[d] = phase[d] /\ success'[d] = success[d]
  BY <1>1, <1>2, WrapperMoves
<1>4. ASSUME NEW v \in Workers
      PROVE  Holding(v)'
  <2>1. Holding(v) /\ (request[v] # NoCall => request[v] \in Calls)
    BY DEF Accounts, RequestsOK
  <2>2. CASE v = w
    BY <1>1, <2>1, <2>2 DEF Holding
  <2>3. CASE v # w
    <3>1. request[v] # NoCall => /\ phase'[request[v]] = phase[request[v]]
                                 /\ success'[request[v]] = success[request[v]]
      BY <1>2, <1>3, <2>1, <2>3
    <3>2. QED
      BY <1>1, <2>1, <3>1 DEF Holding
  <2>4. QED
    BY <2>2, <2>3
<1>5. ASSUME NEW d \in Calls
      PROVE  Fate(d)'
  <2>1. Fate(d) /\ (Over(d)' <=> Over(d))
    BY <1>1 DEF Accounts, Over
  <2>2. CASE d = c
    <3>1. ~Over(c) /\ fate'[c] \in Quiet
      BY <1>1, <1>2, <1>3, <2>1, <2>2 DEF Fate, Over
    <3>2. asked[c] = job[w] /\ job[w] # NoAttempt
      <4>1. c # NoCall /\ Holding(w)
        BY <1>2, GatewayAssumption DEF Accounts
      <4>2. job[w] # NoAttempt
        BY <1>1 DEF GP!TypeOK
      <4>3. QED
        BY <4>1, <4>2 DEF Holding
    <3>3. QED
      BY <1>1, <1>3, <2>1, <2>2, <3>1, <3>2 DEF Fate, Quiet
  <2>3. CASE d # c
    BY <1>1, <1>3, <2>1, <2>3 DEF Fate
  <2>4. QED
    BY <2>2, <2>3
<1>6. QED
  BY <1>4, <1>5 DEF Accounts

\* A restart leaves no call without its fate.
LEMMA RestartAccounts ==
  ASSUME GP!TypeOK, RequestsOK, Accounts, Restart
  PROVE  Accounts'
<1>1. /\ \A w \in Workers : request'[w] = NoCall
      /\ UNCHANGED <<phase, success, asked>>
      /\ fate' = [c \in Calls |->
                    IF fate[c] = "open" /\ \E w \in Workers : request[w] = c /\ pc[w] # "read"
                      THEN "missed" ELSE fate[c]]
  BY RestartStep DEF callVars
<1>2. ASSUME NEW c \in Calls
      PROVE  Fate(c)'
  <2>1. Fate(c) /\ fate'[c] \in {fate[c], "missed"} /\ fate[c] \in Fates
    BY <1>1 DEF Accounts, RequestsOK
  <2>2. ASSUME fate'[c] = "open", phase[c] # "new", asked[c] # NoAttempt
        PROVE  Over(c)
    <3>1. ASSUME NEW w \in Workers, request[w] = c
          PROVE  FALSE
      <4>1. pc[w] = "read" /\ c # NoCall
        BY <1>1, <2>1, <2>2, <3>1, GatewayAssumption
      <4>2. QED
        BY <2>2, <3>1, <4>1 DEF Accounts, Holding
    <3>2. QED
      BY <2>2, <3>1 DEF Over
  <2>3. CASE fate'[c] = "open"
    <3>1. fate[c] = "open"
      BY <1>1, <2>3
    <3>2. QED
      BY <1>1, <2>1, <2>2, <2>3, <3>1 DEF Fate, Quiet, Over
  <2>4. CASE fate'[c] # "open"
    BY <1>1, <2>1, <2>4 DEF Fate, Quiet
  <2>5. QED
    BY <2>3, <2>4
<1>3. QED
  BY <1>1, <1>2 DEF Accounts, Holding

\* Every step keeps the accounts.
LEMMA AccountsStep ==
  ASSUME GP!TypeOK, UsersOK, RequestsOK, Accounts, [Next]_vars
  PROVE  Accounts'
<1>1. ASSUME NEW c \in Calls, Backend(c)
      PROVE  Accounts'
  <2>1. UNCHANGED <<phase, success, pc, job, request, asked, fate>>
    BY <1>1, BackendMoves DEF Backend, guardVars, gatewayVars
  <2>2. QED
    BY <2>1 DEF Accounts, Holding, Fate, Over
<1>2. CASE Tick \/ Late \/ UNCHANGED vars
  <2>1. UNCHANGED <<phase, success, pc, job, request, asked, fate>>
    BY <1>2 DEF Tick, Guard!Tick, Late, Guard!Late, vars, guardVars, usersVars, callVars, gatewayVars
  <2>2. QED
    BY <2>1 DEF Accounts, Holding, Fate, Over
<1>3. QED
  BY <1>1, <1>2, ReceiveAccounts, HandlerAccounts, ServiceAccounts, RestartAccounts
  DEF Next, Worker

AccountsOK == Accounts /\ \A c \in Calls : Answer(c)

\* The accounts are right in every reachable state.
LEMMA AccountsInvariant == Spec => [](UsersOK /\ AccountsOK)
<1>1. Init => AccountsOK
  <2> SUFFICES ASSUME Init PROVE AccountsOK
    OBVIOUS
  <2>1. /\ \A w \in Workers : request[w] = NoCall
        /\ \A c \in Calls : phase[c] = "new" /\ fate[c] = "open"
    BY DEF Init, Users!Init
  <2>2. \A w \in Workers : Holding(w)
    BY <2>1 DEF Holding
  <2>3. ASSUME NEW c \in Calls
        PROVE  Fate(c) /\ Answer(c)
    BY <2>1 DEF Fate, Answer, Quiet
  <2>4. QED
    BY <2>2, <2>3 DEF AccountsOK, Accounts
<1>2. GP!TypeOK /\ RequestsOK /\ UsersOK /\ AccountsOK /\ [Next]_vars => AccountsOK'
  BY AccountsStep, AnswerStep DEF AccountsOK
<1>3. QED
  BY <1>1, <1>2, TypesInvariant, PTL DEF Spec

\* An account that exists is counted, or a lost answer, a failure or a crash
\* kept it from the counter.
THEOREM RegistrationsAccounted == Spec => []RegistrationsCounted
<1>1. RequestsOK /\ UsersOK /\ AccountsOK => RegistrationsCounted
  <2> SUFFICES ASSUME RequestsOK, UsersOK, AccountsOK, NEW c \in Calls,
                      Over(c), asked[c].route = "register", applied[c] > 0,
                      fate[c] \notin {"charged", "missed"}
               PROVE  unanswered[c] > 0
    BY DEF RegistrationsCounted
  <2>1. Fate(c) /\ Answer(c)
    BY DEF AccountsOK, Accounts
  <2>2. phase[c] # "new"
    BY CallFields DEF UP!Bounded
  <2>3. phase[c] = "answered" /\ ~success[c]
    BY <2>1, <2>2 DEF RequestsOK, Fates, Fate, Quiet
  <2>4. attempt[c] # "applied"
    BY <2>1, <2>3 DEF Answer
  <2>5. QED
    BY <2>4, CallFields DEF UP!Bounded
<1>2. QED
  BY <1>1, AccountsInvariant, TypesInvariant, PTL

\* A login is charged for a refusal, or for an attempt that failed, or for
\* want of a backend.
THEOREM ChargesCaused == Spec => []ChargeHasCause
<1>1. AccountsOK => ChargeHasCause
  BY DEF AccountsOK, Accounts, Answer, Fate, Quiet, ChargeHasCause
<1>2. QED
  BY <1>1, AccountsInvariant, PTL

\* The failed logins before it are forgotten only for a login that the users
\* service accepted.
THEOREM ResetsEarned == Spec => []ResetEarned
<1>1. UsersOK /\ AccountsOK => ResetEarned
  <2> SUFFICES ASSUME UsersOK, AccountsOK, NEW c \in Calls, fate[c] = "reset"
               PROVE  asked[c].route = "login" /\ applied[c] > 0
    BY DEF ResetEarned
  <2>1. success[c] /\ asked[c].route = "login"
    BY DEF AccountsOK, Accounts, Fate
  <2>2. QED
    BY <2>1, CallFields DEF UP!Honest
<1>2. QED
  BY <1>1, AccountsInvariant, PTL

=============================================================================
