---------------------------- MODULE AuthGuardProofs ----------------------------
(***************************************************************************)
(* Theorems about AuthGuard, for every value of its constants.             *)
(***************************************************************************)
EXTENDS AuthGuard, RedisLemmas, FiniteSetTheorems, TLAPS

-----------------------------------------------------------------------------
(* Types.                                                                  *)

\* A busy worker has an attempt.
LEMMA BusyWorker ==
  ASSUME TypeOK, NEW w \in Workers, pc[w] # "idle"
  PROVE  job[w] \in Attempts /\ job[w].route \in Routes
  BY DEF TypeOK, Attempts

\* What TypeOK says of the workers.
JobsOK == /\ pc \in [Workers -> Steps]
          /\ job \in [Workers -> Attempts \cup {NoAttempt}]
          /\ \A w \in Workers : pc[w] = "idle" <=> job[w] = NoAttempt

\* The steps of a handler, and its end, keep pc and job related.
LEMMA GoOn ==
  ASSUME TypeOK, NEW w \in Workers, NEW s \in Steps, Goto(w, s),
         \/ s # "idle" /\ pc[w] # "idle" /\ UNCHANGED job
         \/ Finish(w)
  PROVE  JobsOK'
  BY DEF TypeOK, JobsOK, Goto, Finish, Steps

\* A history that notes an attempt stays one.
LEMMA NoteType ==
  ASSUME TypeOK, NEW w \in Workers, pc[w] # "idle", NEW h \in [Attempts -> Nat]
  PROVE  Note(w, h) \in [Attempts -> Nat]
  BY BusyWorker DEF Note

\* The initial states are well-typed.
LEMMA TypeInit ==
  ASSUME Init
  PROVE  TypeOK
  BY MissingKey DEF Init, TypeOK, Steps

\* A step of a worker only adds faults, and gives up no command without one.
LEMMA CallTypes ==
  ASSUME TypeOK, NEW w \in Workers, Worker(w)
  PROVE  /\ faults' \in Nat /\ faults' >= faults
         /\ delayed' \in [Commands -> Nat]
         /\ faults' = 0 => delayed' = delayed
<1>1. faults \in Nat /\ delayed \in [Commands -> Nat]
  BY DEF TypeOK
<1>2. CASE Answers(w) \/ ReplyLost(w) \/ NoEffect(w)
  BY <1>1, <1>2, FaultCounter
<1>3. ASSUME NEW command, GivesUp(w, command)
      PROVE  /\ faults' \in Nat /\ faults' >= faults
             /\ delayed' \in [Commands -> Nat]
             /\ faults' = 0 => delayed' = delayed
  BY <1>1, <1>3, GivenUp
<1>4. CASE UNCHANGED clientVars
  BY <1>1, <1>4 DEF clientVars
<1>5. QED
  BY <1>2, <1>3, <1>4
  DEF Worker, Receive, ReadTally, BadRequest, CallBackend, IncrementTally, ExpireTally, ResetTally

\* The arrival of a delayed command.
LEMMA LateTypes ==
  ASSUME TypeOK, Late
  PROVE  /\ delayed' \in [Commands -> Nat]
         /\ \E c \in Commands : delayed[c] # 0
<1>1. ASSUME NEW command \in Commands, Arrives(command)
      PROVE  /\ delayed' \in [Commands -> Nat]
             /\ \E c \in Commands : delayed[c] # 0
  BY <1>1, Arrival DEF TypeOK
<1>2. \A k \in Attempts, op \in {"INCR", "EXPIRE", "DEL"} : CommandOf(op, k) \in Commands
  BY DEF Commands, CommandOf
<1>3. QED
  BY <1>1, <1>2 DEF Late, LateIncr, LateExpire, LateDelete

\* The histories that start again are histories.
LEMMA StartTypes ==
  ASSUME TypeOK, NEW gone, StartAgain(gone)
  PROVE  /\ events' \in [Attempts -> Nat] /\ missed' \in [Attempts -> Nat]
         /\ astray' \in [Attempts -> Nat]
<1>1. \A k \in Attempts : CommandOf("INCR", k) \in Commands
  BY DEF Commands, CommandOf
<1>2. QED
  BY <1>1 DEF StartAgain, TypeOK

\* Every step of the system keeps the types.
LEMMA TypeStep ==
  ASSUME TypeOK, [Next]_vars
  PROVE  TypeOK'
<1>1. ASSUME NEW w \in Workers, NEW attempt \in Attempts, Receive(w, attempt)
      PROVE  TypeOK'
  <2>1. JobsOK'
    BY <1>1, GuardAssumption DEF Receive, Goto, TypeOK, JobsOK, Steps
  <2>2. QED
    BY <1>1, <2>1 DEF Receive, clientVars, history, TypeOK, JobsOK
<1>2. ASSUME NEW w \in Workers, ReadTally(w)
      PROVE  TypeOK'
  <2>1. JobsOK'
    BY <1>2, GoOn DEF ReadTally, Blocked, Finish, Steps
  <2>2. missed' \in [Attempts -> Nat]
    BY <1>2, NoteType DEF ReadTally, Blocked, TypeOK
  <2>3. faults' \in Nat /\ delayed' \in [Commands -> Nat]
    BY <1>2, CallTypes DEF Worker
  <2>4. QED
    BY <1>2, <2>1, <2>2, <2>3 DEF ReadTally, Blocked, TypeOK, JobsOK
<1>3. ASSUME NEW w \in Workers, BadRequest(w)
      PROVE  TypeOK'
  <2>1. JobsOK'
    BY <1>3, GoOn DEF BadRequest, Finish, Steps
  <2>2. QED
    BY <1>3, <2>1 DEF BadRequest, clientVars, history, TypeOK, JobsOK
<1>4. ASSUME NEW w \in Workers, NEW success \in BOOLEAN, CallBackend(w, success)
      PROVE  TypeOK'
  <2>1. JobsOK'
    BY <1>4, GoOn DEF CallBackend, Finish, Steps
  <2>2. events' \in [Attempts -> Nat]
    BY <1>4, NoteType DEF CallBackend, TypeOK
  <2>3. QED
    BY <1>4, <2>1, <2>2 DEF CallBackend, clientVars, TypeOK, JobsOK
<1>5. ASSUME NEW w \in Workers, IncrementTally(w)
      PROVE  TypeOK'
  <2>1. JobsOK'
    BY <1>5, GoOn DEF IncrementTally, Finish, Steps
  <2>2. missed' \in [Attempts -> Nat]
    BY <1>5, NoteType DEF IncrementTally, TypeOK
  <2>3. job[w] \in Attempts
    BY <1>5, BusyWorker DEF IncrementTally
  <2>4. tally' \in [Attempts -> KeyStates]
    BY <1>5, <2>3, IncrKey DEF IncrementTally, TypeOK
  <2>5. faults' \in Nat /\ delayed' \in [Commands -> Nat]
    BY <1>5, CallTypes DEF Worker
  <2>6. QED
    BY <1>5, <2>1, <2>2, <2>4, <2>5 DEF IncrementTally, TypeOK, JobsOK
<1>6. ASSUME NEW w \in Workers, ExpireTally(w)
      PROVE  TypeOK'
  <2>1. JobsOK'
    BY <1>6, GoOn DEF ExpireTally, Finish, Steps
  <2>2. job[w] \in Attempts /\ BlockSeconds \in Nat \ {0}
    BY <1>6, BusyWorker, GuardAssumption DEF ExpireTally
  <2>3. tally' \in [Attempts -> KeyStates]
    <3>1. tally \in [Attempts -> KeyStates]
      BY DEF TypeOK
    <3>2. Expire(tally[job[w]], BlockSeconds) \in KeyStates
      BY <2>2, <3>1, ExpireKey
    <3>3. CASE UNCHANGED tally
      BY <3>1, <3>3
    <3>4. CASE tally' = [tally EXCEPT ![job[w]] = Expire(@, BlockSeconds)]
      BY <2>2, <3>1, <3>2, <3>4
    <3>5. QED
      BY <1>6, <3>3, <3>4 DEF ExpireTally
  <2>4. faults' \in Nat /\ delayed' \in [Commands -> Nat]
    BY <1>6, CallTypes DEF Worker
  <2>5. QED
    BY <1>6, <2>1, <2>3, <2>4 DEF ExpireTally, history, TypeOK, JobsOK
<1>7. ASSUME NEW w \in Workers, ResetTally(w)
      PROVE  TypeOK'
  <2>0. faults' \in Nat /\ delayed' \in [Commands -> Nat]
    BY <1>7, CallTypes DEF Worker
  <2>1. JobsOK'
    BY <1>7, GoOn DEF ResetTally, Finish, Steps
  <2>2. CASE Delete(job[w])
    <3>1. tally' \in [Attempts -> KeyStates]
      BY <2>2, MissingKey DEF Delete, TypeOK
    <3>2. /\ events' \in [Attempts -> Nat] /\ missed' \in [Attempts -> Nat]
          /\ astray' \in [Attempts -> Nat]
      BY <2>2, StartTypes DEF Delete
    <3>3. QED
      BY <1>7, <2>1, <2>0, <3>1, <3>2 DEF ResetTally, TypeOK, JobsOK
  <2>3. CASE UNCHANGED <<tally, history>>
    BY <1>7, <2>1, <2>3, <2>0 DEF ResetTally, history, TypeOK, JobsOK
  <2>4. QED
    BY <1>7, <2>2, <2>3 DEF ResetTally
<1>8. ASSUME NEW r \in Replicas, Restart(r)
      PROVE  TypeOK'
  <2>1. JobsOK'
    BY <1>8 DEF Restart, TypeOK, JobsOK, Steps
  <2>2. missed' \in [Attempts -> Nat]
    <3>1. \A k \in Attempts :
            Cardinality(Charging(k) \cap {w \in Workers : ReplicaOf[w] = r}) \in Nat
      BY WorkerSet DEF Charging
    <3>2. QED
      BY <1>8, <3>1 DEF Restart, TypeOK
  <2>3. QED
    BY <1>8, <2>1, <2>2 DEF Restart, Fault, TypeOK, JobsOK
<1>9. CASE Late
  <2>1. delayed' \in [Commands -> Nat]
    BY <1>9, LateTypes
  <2>2. ASSUME NEW k \in Attempts, LateIncr(k) \/ LateExpire(k)
        PROVE  TypeOK'
    <3>1. Incr(tally[k]) \in KeyStates /\ Expire(tally[k], BlockSeconds) \in KeyStates
      BY GuardAssumption, IncrKey, ExpireKey DEF TypeOK
    <3>2. tally' \in [Attempts -> KeyStates]
      BY <2>2, <3>1 DEF LateIncr, LateExpire, TypeOK
    <3>3. QED
      BY <1>9, <2>1, <2>2, <3>2 DEF Late, LateIncr, LateExpire, history, TypeOK
  <2>3. ASSUME NEW k \in Attempts, LateDelete(k)
        PROVE  TypeOK'
    <3>1. tally' \in [Attempts -> KeyStates]
      BY <2>3, MissingKey DEF LateDelete, Delete, TypeOK
    <3>2. /\ events' \in [Attempts -> Nat] /\ missed' \in [Attempts -> Nat]
          /\ astray' \in [Attempts -> Nat]
      BY <2>3, StartTypes DEF LateDelete, Delete
    <3>3. QED
      BY <1>9, <2>1, <3>1, <3>2 DEF Late, TypeOK
  <2>4. QED
    BY <1>9, <2>2, <2>3 DEF Late
<1>10. CASE Tick
  <2>1. tally' \in [Attempts -> KeyStates]
    BY <1>10, AgeKey DEF Tick, TypeOK
  <2>2. /\ events' \in [Attempts -> Nat] /\ missed' \in [Attempts -> Nat]
        /\ astray' \in [Attempts -> Nat]
    BY <1>10, StartTypes DEF Tick
  <2>3. QED
    BY <1>10, <2>1, <2>2 DEF Tick, clientVars, TypeOK
<1>11. CASE UNCHANGED vars
  BY <1>11 DEF vars, clientVars, history, TypeOK
<1>12. QED
  BY <1>1, <1>2, <1>3, <1>4, <1>5, <1>6, <1>7, <1>8, <1>9, <1>10, <1>11 DEF Next, Worker

\* Every value stays of its type, and a worker has an attempt exactly while
\* it handles one.
THEOREM TypeCorrect == Spec => []TypeOK
<1>1. Init => TypeOK
  BY TypeInit
<1>2. TypeOK /\ [Next]_vars => TypeOK'
  BY TypeStep
<1>3. QED
  BY <1>1, <1>2, PTL DEF Spec, SafeSpec

-----------------------------------------------------------------------------
(* QuotaBound.  An attempt that counts is in the counter, on its way to    *)
(* it, or missed; and a worker calls the backend only after it read less   *)
(* than the limit, or could not read.                                      *)

Quota(k) ==
  /\ events[k] <= tally[k].val + Cardinality(Charging(k)) + missed[k]
  /\ events[k] + Cardinality(Calling(k))
       < AttemptLimit[k.route] + Cardinality(Workers) + missed[k]

(* EarnedCharge.  What is in the counter, on its way, or given up and late *)
(* is an attempt of its history, or was that when the history began.       *)

\* The INCRs of k that Redis may still execute.
Due(k) == delayed[CommandOf("INCR", k)]

Earned(k) ==
  tally[k].val + Cardinality(Charging(k)) + Due(k)
    <= events[k] + Cardinality(Workers) + astray[k]

\* Only a charge that is given up adds to them.
LEMMA DueStays ==
  ASSUME TypeOK, NEW w \in Workers, NEW k \in Attempts, Worker(w), pc[w] # "incr"
  PROVE  Due(k)' = Due(k)
<1>1. CASE Answers(w) \/ ReplyLost(w) \/ NoEffect(w) \/ UNCHANGED clientVars
  <2>1. delayed' = delayed
    BY <1>1 DEF Answers, ReplyLost, NoEffect, clientVars
  <2>2. QED
    BY <2>1 DEF Due
<1>2. ASSUME NEW op \in {"EXPIRE", "DEL"}, GivesUp(w, CommandOf(op, job[w]))
      PROVE  Due(k)' = Due(k)
  <2>1. CommandOf(op, job[w]) # CommandOf("INCR", k)
    BY DEF CommandOf
  <2>2. CommandOf("INCR", k) \in Commands /\ delayed \in [Commands -> Nat]
    BY DEF Commands, CommandOf, TypeOK
  <2>3. CASE UNCHANGED delayed
    BY <2>3 DEF Due
  <2>4. CASE delayed' = [delayed EXCEPT ![CommandOf(op, job[w])] = @ + 1]
    BY <2>1, <2>2, <2>4 DEF Due
  <2>5. QED
    BY <1>2, <2>3, <2>4 DEF GivesUp
<1>3. QED
  BY <1>1, <1>2
  DEF Worker, Receive, ReadTally, BadRequest, CallBackend, IncrementTally, ExpireTally, ResetTally

\* The invariants hold on where none of their numbers changes.
LEMMA CountFrame ==
  ASSUME NEW k \in Attempts, Quota(k), Earned(k),
         tally'[k].val = tally[k].val, Due(k)' = Due(k),
         events'[k] = events[k], missed'[k] = missed[k], astray'[k] = astray[k],
         Cardinality(Charging(k)') = Cardinality(Charging(k)),
         Cardinality(Calling(k)') = Cardinality(Calling(k))
  PROVE  Quota(k)' /\ Earned(k)'
  BY DEF Quota, Earned

\* The numbers the two invariants speak of are numbers.
LEMMA Numbers ==
  ASSUME TypeOK, NEW k \in Attempts
  PROVE  /\ events[k] \in Nat /\ missed[k] \in Nat /\ tally[k].val \in Nat
         /\ Charging(k) \in SUBSET Workers /\ Calling(k) \in SUBSET Workers
         /\ Cardinality(Charging(k)) \in Nat /\ Cardinality(Calling(k)) \in Nat
         /\ Cardinality(Workers) \in Nat /\ Cardinality(Workers) > 0
         /\ AttemptLimit[k.route] \in Nat /\ AttemptLimit[k.route] > 0
         /\ Cardinality(Charging(k)) + Cardinality(Calling(k)) <= Cardinality(Workers)
         /\ Cardinality(Charging(k)) <= Cardinality(Workers)
         /\ Due(k) \in Nat /\ astray[k] \in Nat
<1>1. Charging(k) \in SUBSET Workers /\ Calling(k) \in SUBSET Workers
      /\ Charging(k) \cap Calling(k) = {}
  BY DEF Charging, Calling
<1>2. Cardinality(Charging(k)) + Cardinality(Calling(k)) <= Cardinality(Workers)
  BY <1>1, TwoSets
<1>3. Cardinality(Workers) # 0
  BY WorkersAssumption, FS_EmptySet
<1>4. AttemptLimit[k.route] \in Nat \ {0}
  BY GuardAssumption DEF Attempts
<1>5. /\ events[k] \in Nat /\ missed[k] \in Nat /\ tally[k].val \in Nat
      /\ Due(k) \in Nat /\ astray[k] \in Nat
  BY DEF TypeOK, KeyStates, Due, Commands, CommandOf
<1>6. QED
  BY <1>1, <1>2, <1>3, <1>4, <1>5, WorkerSet

\* The sets have sizes, before a step and after it.
LEMMA SetSizes ==
  ASSUME NEW k \in Attempts
  PROVE  /\ Cardinality(Charging(k)) \in Nat /\ Cardinality(Calling(k)) \in Nat
         /\ Cardinality(Charging(k)') \in Nat /\ Cardinality(Calling(k)') \in Nat
         /\ Cardinality(Charging(k)') <= Cardinality(Workers)
         /\ Cardinality(Charging(k)') + Cardinality(Calling(k)') <= Cardinality(Workers)
<1>1. /\ Charging(k) \in SUBSET Workers /\ Calling(k) \in SUBSET Workers
      /\ Charging(k)' \in SUBSET Workers /\ Calling(k)' \in SUBSET Workers
      /\ Charging(k)' \cap Calling(k)' = {}
  BY DEF Charging, Calling
<1>2. QED
  BY <1>1, WorkerSet, TwoSets

\* A step of a worker leaves the other workers, and the connections, alone.
LEMMA OthersStay ==
  ASSUME TypeOK, NEW w \in Workers, Worker(w)
  PROVE  /\ \A v \in Workers : v # w => pc'[v] = pc[v] /\ job'[v] = job[v]
         /\ connected' = connected
  BY DEF Worker, Receive, ReadTally, Blocked, BadRequest, CallBackend, IncrementTally, ExpireTally,
         ResetTally, Finish, Goto, clientVars, TypeOK

\* It moves at most itself into or out of the sets.
LEMMA SetsMove ==
  ASSUME TypeOK, TypeOK', NEW w \in Workers, Worker(w), NEW k \in Attempts
  PROVE  /\ Cardinality(Charging(k)') + (IF w \in Charging(k) THEN 1 ELSE 0)
               = Cardinality(Charging(k)) + (IF w \in Charging(k)' THEN 1 ELSE 0)
         /\ Cardinality(Calling(k)') + (IF w \in Calling(k) THEN 1 ELSE 0)
               = Cardinality(Calling(k)) + (IF w \in Calling(k)' THEN 1 ELSE 0)
<1>1. /\ Charging(k)' \in SUBSET Workers /\ Charging(k) \in SUBSET Workers
      /\ Calling(k)' \in SUBSET Workers /\ Calling(k) \in SUBSET Workers
  BY DEF Charging, Calling
<1>2. Charging(k) \ {w} = Charging(k)' \ {w} /\ Calling(k) \ {w} = Calling(k)' \ {w}
  BY OthersStay DEF Charging, Calling, Reachable
<1>3. QED
  BY <1>1, <1>2, OneApart

\* A handler that starts, fails to parse or sets a time to live changes no
\* number, and enters no set.
LEMMA QuietStep ==
  ASSUME TypeOK, TypeOK', NEW w \in Workers, NEW k \in Attempts, Quota(k), Earned(k),
         \/ \E attempt \in Attempts : Receive(w, attempt)
         \/ BadRequest(w) \/ ExpireTally(w)
  PROVE  Quota(k)' /\ Earned(k)'
<1>1. Worker(w)
  BY DEF Worker
<1>2. /\ w \notin Charging(k) /\ w \notin Charging(k)' /\ w \notin Calling(k)'
      /\ UNCHANGED <<events, missed, astray>> /\ pc[w] # "incr"
  BY DEF Receive, BadRequest, ExpireTally, Finish, Goto, history, Charging, Calling, TypeOK
<1>3. tally'[k].val = tally[k].val
  <2>1. CASE ExpireTally(w)
    <3>1. tally[job[w]] \in KeyStates /\ BlockSeconds \in Nat \ {0}
      BY <2>1, BusyWorker, GuardAssumption DEF ExpireTally, TypeOK
    <3>2. Expire(tally[job[w]], BlockSeconds).val = tally[job[w]].val
      BY <3>1, ExpireKey
    <3>3. QED
      BY <2>1, <3>2 DEF ExpireTally, TypeOK
  <2>2. CASE UNCHANGED tally
    BY <2>2
  <2>3. QED
    BY <2>1, <2>2 DEF Receive, BadRequest
<1>4. /\ Cardinality(Charging(k)') = Cardinality(Charging(k))
      /\ Cardinality(Calling(k)') <= Cardinality(Calling(k))
      /\ Cardinality(Calling(k)') \in Nat
      /\ Due(k)' = Due(k)
  BY <1>1, <1>2, SetsMove, SetSizes, DueStays
<1>5. QED
  BY <1>2, <1>3, <1>4, Numbers DEF Quota, Earned

\* The read lets a worker call the backend that found less than the limit,
\* or that could not read.
LEMMA ReadStep ==
  ASSUME TypeOK, TypeOK', NEW w \in Workers, NEW k \in Attempts, Quota(k), Earned(k),
         ReadTally(w)
  PROVE  Quota(k)' /\ Earned(k)'
<1>1. Worker(w) /\ job[w] \in Attempts
  BY BusyWorker DEF Worker, ReadTally, Blocked
<1>2. /\ w \notin Charging(k) /\ w \notin Charging(k)' /\ w \notin Calling(k)
      /\ UNCHANGED <<events, astray, tally>> /\ pc[w] # "incr"
  BY DEF ReadTally, Blocked, Finish, Goto, Charging, Calling, TypeOK
<1>3. /\ Cardinality(Charging(k)') = Cardinality(Charging(k))
      /\ Cardinality(Calling(k)')
           = Cardinality(Calling(k)) + (IF w \in Calling(k)' THEN 1 ELSE 0)
      /\ Due(k)' = Due(k)
  BY <1>1, <1>2, SetsMove, SetSizes, DueStays
<1>4. missed'[k] \in {missed[k], missed[k] + 1}
  BY <1>1 DEF ReadTally, Blocked, Note, TypeOK
<1>5. CASE w \notin Calling(k)'
  BY <1>2, <1>3, <1>4, <1>5, Numbers DEF Quota, Earned
<1>6. CASE w \in Calling(k)' /\ missed'[k] = missed[k] + 1
  BY <1>2, <1>3, <1>6, Numbers DEF Quota, Earned
<1>7. CASE w \in Calling(k)' /\ tally[k].val < AttemptLimit[k.route] /\ missed' = missed
  BY <1>2, <1>3, <1>7, Numbers, SetSizes DEF Quota, Earned
<1>8. ASSUME w \in Calling(k)'
      PROVE  \/ missed'[k] = missed[k] + 1
             \/ tally[k].val < AttemptLimit[k.route] /\ missed' = missed
  <2>1. pc'[w] = "call" /\ job'[w] = k /\ Reachable(w)
    BY <1>1, <1>8, OthersStay DEF Calling, Reachable
  <2>2. job[w] = k
    BY <2>1 DEF ReadTally, Blocked, Finish, Goto, TypeOK
  <2>3. QED
    <3>1. tally[k].val \in Nat /\ AttemptLimit[k.route] \in Nat
      BY GuardAssumption DEF TypeOK, KeyStates, Attempts
    <3>2. ~Blocked(k) => tally[k].val < AttemptLimit[k.route]
      BY <3>1 DEF Blocked
    <3>3. \/ missed'[k] = missed[k] + 1
          \/ ~Blocked(k) /\ missed' = missed
      BY <2>1, <2>2 DEF ReadTally, Finish, Goto, Note, TypeOK
    <3>4. QED
      BY <3>2, <3>3
<1>9. QED
  BY <1>5, <1>6, <1>7, <1>8

\* An attempt that counts goes from those that call to those that charge.
LEMMA CallStep ==
  ASSUME TypeOK, TypeOK', NEW w \in Workers, NEW k \in Attempts, Quota(k), Earned(k),
         NEW success \in BOOLEAN, CallBackend(w, success)
  PROVE  Quota(k)' /\ Earned(k)'
<1>1. Worker(w) /\ job[w] \in Attempts
  BY BusyWorker DEF Worker, CallBackend
<1>2. /\ w \notin Charging(k) /\ w \notin Calling(k)'
      /\ UNCHANGED <<missed, astray, tally>> /\ pc[w] # "incr"
  BY DEF CallBackend, Finish, Goto, Charging, Calling, TypeOK
<1>3. /\ Cardinality(Charging(k)')
           = Cardinality(Charging(k)) + (IF w \in Charging(k)' THEN 1 ELSE 0)
      /\ Cardinality(Calling(k)') + (IF w \in Calling(k) THEN 1 ELSE 0)
           = Cardinality(Calling(k))
      /\ Due(k)' = Due(k)
  BY <1>1, <1>2, SetsMove, SetSizes, DueStays
<1>4. CASE w \in Charging(k)'
  <2>1. pc'[w] = "incr" /\ job'[w] = k /\ Reachable(w)
    BY <1>1, <1>4, OthersStay DEF Charging, Reachable
  <2>2. job[w] = k /\ pc[w] = "call" /\ events' = Note(w, events)
    BY <2>1 DEF CallBackend, Finish, Goto, TypeOK
  <2>3. w \in Calling(k) /\ events'[k] = events[k] + 1
    BY <2>1, <2>2 DEF Calling, Note, TypeOK
  <2>4. QED
    BY <1>2, <1>3, <1>4, <2>3, Numbers, SetSizes DEF Quota, Earned
<1>5. CASE w \notin Charging(k)'
  <2>1. events'[k] = events[k]
    <3>1. CASE events' = Note(w, events) /\ pc'[w] = "incr" /\ job' = job
      <4>1. ~(job[w] = k /\ Reachable(w))
        BY <1>1, <1>5, <3>1, OthersStay DEF Charging, Reachable
      <4>2. QED
        BY <3>1, <4>1 DEF Note, TypeOK
    <3>2. QED
      BY <3>1 DEF CallBackend, Goto, TypeOK
  <2>2. QED
    BY <1>2, <1>3, <1>5, <2>1, Numbers, SetSizes DEF Quota, Earned
<1>6. QED
  BY <1>4, <1>5

\* A charge moves an attempt into the counter, or into those it missed, whose
\* INCR may come late.
LEMMA IncrementStep ==
  ASSUME TypeOK, TypeOK', NEW w \in Workers, NEW k \in Attempts, Quota(k), Earned(k),
         IncrementTally(w)
  PROVE  Quota(k)' /\ Earned(k)'
<1>1. /\ Worker(w) /\ job[w] \in Attempts /\ tally[k] \in KeyStates
      /\ CommandOf("INCR", k) \in Commands
  BY BusyWorker DEF Worker, IncrementTally, TypeOK, Commands, CommandOf
<1>2. /\ w \notin Charging(k)' /\ w \notin Calling(k) /\ w \notin Calling(k)'
      /\ UNCHANGED <<events, astray>>
  BY DEF IncrementTally, Finish, Goto, Charging, Calling, TypeOK
<1>3. /\ Cardinality(Charging(k)') + (IF w \in Charging(k) THEN 1 ELSE 0)
           = Cardinality(Charging(k))
      /\ Cardinality(Calling(k)') = Cardinality(Calling(k))
  BY <1>1, <1>2, SetsMove, SetSizes
<1>4. w \in Charging(k) <=> job[w] = k /\ Reachable(w)
  BY DEF IncrementTally, Charging
<1>5. CASE w \in Charging(k)
  <2>1. CASE /\ tally' = [tally EXCEPT ![job[w]] = Incr(@)] /\ missed' = missed
             /\ delayed' = delayed
    <3>1. tally'[k].val = tally[k].val + 1 /\ Due(k)' = Due(k)
      BY <1>1, <1>4, <1>5, <2>1, IncrKey DEF TypeOK, Due
    <3>2. QED
      BY <1>2, <1>3, <1>5, <2>1, <3>1, Numbers, SetSizes DEF Quota, Earned
  <2>2. CASE missed' = Note(w, missed) /\ tally' = tally /\ GivesUp(w, CommandOf("INCR", job[w]))
    <3>1. missed'[k] = missed[k] + 1 /\ Due(k)' = Due(k) + 1
      BY <1>1, <1>4, <1>5, <2>2 DEF Note, GivesUp, Due, TypeOK
    <3>2. QED
      BY <1>2, <1>3, <1>5, <2>2, <3>1, Numbers, SetSizes DEF Quota, Earned
  <2>3. QED
    BY <2>1, <2>2 DEF IncrementTally, Answers, ReplyLost
<1>6. CASE w \notin Charging(k)
  <2>1. tally'[k] = tally[k] /\ missed'[k] = missed[k]
    BY <1>1, <1>4, <1>6 DEF IncrementTally, Answers, ReplyLost, Note, TypeOK
  <2>2. Due(k)' = Due(k)
    <3>1. CASE delayed' = delayed
      BY <3>1 DEF Due
    <3>2. CASE Reachable(w) /\ delayed' = [delayed EXCEPT ![CommandOf("INCR", job[w])] = @ + 1]
      <4>1. CommandOf("INCR", job[w]) # CommandOf("INCR", k)
        BY <1>4, <1>6, <3>2 DEF CommandOf
      <4>2. QED
        BY <1>1, <3>2, <4>1 DEF Due, TypeOK
    <3>3. QED
      BY <3>1, <3>2 DEF IncrementTally, Answers, ReplyLost, GivesUp
  <2>3. QED
    BY <1>2, <1>3, <1>6, <2>1, <2>2, CountFrame, SetSizes
<1>7. QED
  BY <1>5, <1>6

\* Where a history begins anew, the workers on their way and the INCRs that
\* are late are all there is.
LEMMA NewHistory ==
  ASSUME NEW k \in Attempts, TypeOK, TypeOK', tally'[k].val = 0, Due(k)' = Due(k),
         events'[k] = 0, missed'[k] = 0, astray'[k] = Due(k)
  PROVE  Quota(k)' /\ Earned(k)'
<1>1. AttemptLimit[k.route] \in Nat /\ AttemptLimit[k.route] > 0
  BY GuardAssumption DEF Attempts
<1>2. Cardinality(Workers) \in Nat /\ Due(k) \in Nat
  BY Numbers
<1>3. QED
  BY <1>1, <1>2, SetSizes DEF Quota, Earned

\* DEL, at once or late, begins the history of its counter anew and leaves the
\* others alone.
LEMMA DeleteStep ==
  ASSUME TypeOK, TypeOK', NEW k \in Attempts, NEW j \in Attempts, Quota(k), Earned(k),
         Delete(j), Due(k)' = Due(k),
         Cardinality(Charging(k)') = Cardinality(Charging(k)),
         Cardinality(Calling(k)') = Cardinality(Calling(k))
  PROVE  Quota(k)' /\ Earned(k)'
<1>1. CASE k = j
  <2>1. tally'[k].val = 0
    BY <1>1, MissingKey DEF Delete, TypeOK
  <2>2. events'[k] = 0 /\ missed'[k] = 0 /\ astray'[k] = Due(k)
    BY <1>1 DEF Delete, StartAgain, Due
  <2>3. QED
    BY <2>1, <2>2, NewHistory
<1>2. CASE k # j
  <2>1. /\ tally'[k] = tally[k]
        /\ events'[k] = events[k] /\ missed'[k] = missed[k] /\ astray'[k] = astray[k]
    BY <1>2 DEF Delete, StartAgain, TypeOK
  <2>2. QED
    BY <2>1, CountFrame
<1>3. QED
  BY <1>1, <1>2

\* A successful login deletes the counter of failures.
LEMMA ResetStep ==
  ASSUME TypeOK, TypeOK', NEW w \in Workers, NEW k \in Attempts, Quota(k), Earned(k),
         ResetTally(w)
  PROVE  Quota(k)' /\ Earned(k)'
<1>1. /\ Worker(w) /\ job[w] \in Attempts /\ pc[w] # "incr"
  BY BusyWorker DEF Worker, ResetTally
<1>2. /\ w \notin Charging(k) /\ w \notin Charging(k)'
      /\ w \notin Calling(k) /\ w \notin Calling(k)'
  BY DEF ResetTally, Finish, Goto, Charging, Calling, TypeOK
<1>3. /\ Cardinality(Charging(k)') = Cardinality(Charging(k))
      /\ Cardinality(Calling(k)') = Cardinality(Calling(k))
      /\ Due(k)' = Due(k)
  BY <1>1, <1>2, SetsMove, SetSizes, DueStays
<1>4. CASE Delete(job[w])
  BY <1>1, <1>3, <1>4, DeleteStep
<1>5. CASE UNCHANGED <<tally, history>>
  BY <1>3, <1>5, CountFrame DEF history
<1>6. QED
  BY <1>4, <1>5 DEF ResetTally

\* A command that arrives late goes from those due into the counter, or
\* begins its history anew.
LEMMA LateStep ==
  ASSUME TypeOK, TypeOK', NEW k \in Attempts, Quota(k), Earned(k), Late
  PROVE  Quota(k)' /\ Earned(k)'
<1>1. Charging(k)' = Charging(k) /\ Calling(k)' = Calling(k)
  BY DEF Late, Charging, Calling, Reachable
<1>2. ASSUME NEW j \in Attempts, LateIncr(j)
      PROVE  Quota(k)' /\ Earned(k)'
  <2>1. /\ CommandOf("INCR", k) \in Commands /\ tally[k] \in KeyStates
        /\ UNCHANGED <<events, missed, astray>>
    BY <1>2 DEF Commands, CommandOf, TypeOK, LateIncr, history
  <2>2. CASE j = k
    <3>1. tally'[k].val = tally[k].val + 1
      BY <1>2, <2>1, <2>2, IncrKey DEF LateIncr, TypeOK
    <3>2. Due(k)' = Due(k) - 1
      BY <1>2, <2>1, <2>2 DEF LateIncr, Arrives, Due, TypeOK
    <3>3. QED
      BY <1>1, <2>1, <3>1, <3>2, Numbers DEF Quota, Earned
  <2>3. CASE j # k
    <3>1. CommandOf("INCR", j) # CommandOf("INCR", k)
      BY <2>3 DEF CommandOf
    <3>2. Due(k)' = Due(k) /\ tally'[k] = tally[k]
      BY <1>2, <2>1, <2>3, <3>1 DEF LateIncr, Arrives, Due, TypeOK
    <3>3. QED
      BY <1>1, <2>1, <3>2, CountFrame
  <2>4. QED
    BY <2>2, <2>3
<1>3. ASSUME NEW j \in Attempts, NEW op \in {"EXPIRE", "DEL"}, Arrives(CommandOf(op, j))
      PROVE  Due(k)' = Due(k)
  <2>1. CommandOf(op, j) # CommandOf("INCR", k)
    BY DEF CommandOf
  <2>2. QED
    BY <1>3, <2>1 DEF Arrives, Due, TypeOK
<1>4. ASSUME NEW j \in Attempts, LateExpire(j)
      PROVE  Quota(k)' /\ Earned(k)'
  <2>1. Expire(tally[j], BlockSeconds).val = tally[j].val
    BY GuardAssumption, ExpireKey DEF TypeOK
  <2>2. tally'[k].val = tally[k].val
    BY <1>4, <2>1 DEF LateExpire, TypeOK
  <2>3. UNCHANGED <<events, missed, astray>> /\ Due(k)' = Due(k)
    BY <1>3, <1>4 DEF LateExpire, history
  <2>4. QED
    BY <1>1, <2>2, <2>3, CountFrame
<1>5. ASSUME NEW j \in Attempts, LateDelete(j)
      PROVE  Quota(k)' /\ Earned(k)'
  BY <1>1, <1>3, <1>5, DeleteStep DEF LateDelete
<1>6. QED
  BY <1>2, <1>4, <1>5 DEF Late

\* A crash turns the charges of its workers into missed ones.
LEMMA RestartStep ==
  ASSUME TypeOK, TypeOK', NEW r \in Replicas, NEW k \in Attempts, Quota(k), Earned(k),
         Restart(r)
  PROVE  Quota(k)' /\ Earned(k)'
<1> DEFINE ours == { w \in Workers : ReplicaOf[w] = r }
<1>1. Charging(k)' = Charging(k) \ ours /\ Calling(k)' \subseteq Calling(k)
  BY WorkersAssumption DEF Restart, Charging, Calling, Reachable, TypeOK
<1>2. Cardinality(Charging(k)') = Cardinality(Charging(k)) - Cardinality(Charging(k) \cap ours)
  BY <1>1, Numbers, WorkerSet, FS_Difference
<1>3. Cardinality(Calling(k)') <= Cardinality(Calling(k))
  BY <1>1, Numbers, NoLarger
<1>4. Cardinality(Charging(k) \cap ours) \in Nat
  BY Numbers, WorkerSet
<1>5. /\ missed'[k] = missed[k] + Cardinality(Charging(k) \cap ours)
      /\ UNCHANGED <<tally, events, astray>> /\ Due(k)' = Due(k)
  BY DEF Restart, Due
<1>6. QED
  BY <1>2, <1>3, <1>4, <1>5, Numbers, SetSizes DEF Quota, Earned

\* A counter that lapses begins its history anew; the others stay.
LEMMA TickStep ==
  ASSUME TypeOK, TypeOK', NEW k \in Attempts, Quota(k), Earned(k), Tick
  PROVE  Quota(k)' /\ Earned(k)'
<1>1. Charging(k)' = Charging(k) /\ Calling(k)' = Calling(k)
  BY DEF Tick, clientVars, Charging, Calling, Reachable
<1>2. tally[k] \in KeyStates /\ tally'[k] = Age(tally[k]) /\ Due(k)' = Due(k)
  BY DEF Tick, clientVars, Due, TypeOK
<1>3. StartAgain([j \in Attempts |-> Exists(tally[j]) /\ ~Exists(Age(tally[j]))])
  BY DEF Tick
<1>4. CASE Exists(tally[k]) /\ ~Exists(Age(tally[k]))
  <2>1. tally'[k].val = 0
    BY <1>2, <1>4, AgeKey
  <2>2. events'[k] = 0 /\ missed'[k] = 0 /\ astray'[k] = Due(k)
    BY <1>3, <1>4 DEF StartAgain, Due
  <2>3. QED
    BY <1>1, <1>2, <2>1, <2>2, NewHistory
<1>5. CASE ~(Exists(tally[k]) /\ ~Exists(Age(tally[k])))
  <2>1. tally'[k].val = tally[k].val
    <3>1. CASE Exists(Age(tally[k]))
      BY <1>2, <3>1, AgeKey
    <3>2. CASE ~Exists(Age(tally[k]))
      <4>1. tally[k].val = 0
        BY <1>2, <1>5, <3>2 DEF Exists, KeyStates
      <4>2. QED
        BY <1>2, <3>2, <4>1, AgeKey
    <3>3. QED
      BY <3>1, <3>2
  <2>2. events'[k] = events[k] /\ missed'[k] = missed[k] /\ astray'[k] = astray[k]
    BY <1>3, <1>5 DEF StartAgain
  <2>3. QED
    BY <1>1, <1>2, <2>1, <2>2, CountFrame
<1>6. QED
  BY <1>4, <1>5

\* Every step of the system keeps both invariants.
LEMMA CountStep ==
  ASSUME TypeOK, TypeOK', NEW k \in Attempts, Quota(k), Earned(k), [Next]_vars
  PROVE  Quota(k)' /\ Earned(k)'
<1>1. CASE UNCHANGED vars
  BY <1>1 DEF vars, clientVars, history, Quota, Earned, Due, Charging, Calling, Reachable
<1>2. QED
  BY <1>1, QuietStep, ReadStep, CallStep, IncrementStep, ResetStep, RestartStep, LateStep, TickStep
  DEF Next, Worker

\* The two invariants hold of every reachable state.
LEMMA CountsInvariant ==
  SafeSpec => [](TypeOK /\ \A k \in Attempts : Quota(k) /\ Earned(k))
<1>1. Init => TypeOK /\ \A k \in Attempts : Quota(k) /\ Earned(k)
  <2> SUFFICES ASSUME Init, NEW k \in Attempts PROVE TypeOK /\ Quota(k) /\ Earned(k)
    BY TypeInit
  <2>1. TypeOK
    BY TypeInit
  <2>2. Charging(k) = {} /\ Calling(k) = {}
    BY DEF Init, Charging, Calling
  <2>3. Cardinality(Charging(k)) = 0 /\ Cardinality(Calling(k)) = 0
    BY <2>2, FS_EmptySet
  <2>4. /\ tally[k].val = 0 /\ events[k] = 0 /\ missed[k] = 0 /\ astray[k] = 0
        /\ Due(k) = 0
    BY MissingKey DEF Init, Due, Commands, CommandOf
  <2>5. QED
    BY <2>1, <2>3, <2>4, Numbers DEF Quota, Earned
<1>2. /\ TypeOK /\ \A k \in Attempts : Quota(k) /\ Earned(k)
      /\ [Next]_vars
      => (TypeOK /\ \A k \in Attempts : Quota(k) /\ Earned(k))'
  BY TypeStep, CountStep
<1>3. QED
  BY <1>1, <1>2, PTL DEF SafeSpec

\* However many workers and replicas there are, and whatever fails, the
\* attempts that count exceed the limit by less than the number of workers
\* and of the attempts a failure hid.
THEOREM QuotaBounded == Spec => []QuotaBound
<1>1. TypeOK /\ (\A k \in Attempts : Quota(k) /\ Earned(k)) => QuotaBound
  <2> SUFFICES ASSUME TypeOK, NEW k \in Attempts, Quota(k)
               PROVE  events[k] < AttemptLimit[k.route] + Cardinality(Workers) + missed[k]
    BY DEF QuotaBound
  <2>1. QED
    BY Numbers DEF Quota
<1>2. QED
  BY <1>1, CountsInvariant, PTL DEF Spec

\* An address is charged for its own attempts, for at most one earlier attempt
\* of each worker, and for the earlier ones whose INCR had been given up and was
\* still to come.
THEOREM ChargeEarned == Spec => []EarnedCharge
<1>1. TypeOK /\ (\A k \in Attempts : Quota(k) /\ Earned(k)) => EarnedCharge
  <2> SUFFICES ASSUME TypeOK, NEW k \in Attempts, Earned(k)
               PROVE  tally[k].val <= events[k] + Cardinality(Workers) + astray[k]
    BY DEF EarnedCharge
  <2>1. QED
    BY Numbers DEF Earned
<1>2. QED
  BY <1>1, CountsInvariant, PTL DEF Spec

-----------------------------------------------------------------------------
(* Until something fails, no command is late.                              *)

DelaysInv == faults = 0 => \A c \in Commands : delayed[c] = 0

\* Failures are never taken back, and a command is given up only by one.
LEMMA DelaysStep ==
  ASSUME DelaysInv, TypeOK, TypeOK', [Next]_vars
  PROVE  /\ DelaysInv'
         /\ faults' >= faults
         /\ Late => faults > 0
<1>0. faults \in Nat /\ faults' \in Nat
  BY DEF TypeOK
<1>1. Late => faults > 0
  BY <1>0, LateTypes DEF DelaysInv
<1>2. ASSUME NEW w \in Workers, Worker(w)
      PROVE  DelaysInv' /\ faults' >= faults
  BY <1>0, <1>2, CallTypes DEF DelaysInv
<1>3. ASSUME NEW r \in Replicas, Restart(r)
      PROVE  DelaysInv' /\ faults' >= faults
  BY <1>0, <1>3 DEF DelaysInv, Restart, Fault
<1>4. CASE Late
  BY <1>0, <1>1, <1>4 DEF DelaysInv, Late
<1>5. CASE Tick \/ UNCHANGED vars
  <2>1. UNCHANGED <<faults, delayed>>
    BY <1>5 DEF Tick, vars, clientVars
  <2>2. QED
    BY <1>0, <1>1, <2>1 DEF DelaysInv
<1>6. QED
  BY <1>1, <1>2, <1>3, <1>4, <1>5 DEF Next

-----------------------------------------------------------------------------
(* OrphanNeedsFault.  Until something fails, a worker between INCR and     *)
(* EXPIRE can reach Redis: it got the answer to its INCR from there.       *)

ExpireInv ==
  faults > 0 \/ \A w \in Workers : pc[w] = "expire" => Reachable(w)

\* The steps that touch no time to live.
LEMMA OrphanFrame ==
  ASSUME OrphanNeedsFault, ExpireInv, TypeOK, TypeOK', NEW w \in Workers, Worker(w),
         pc[w] # "expire", pc'[w] # "expire", faults' >= faults,
         \A k \in Attempts : tally'[k].ttl = NoExpiry => tally[k].ttl = NoExpiry
  PROVE  OrphanNeedsFault' /\ ExpireInv'
  BY OthersStay DEF OrphanNeedsFault, ExpireInv, TypeOK, Reachable

\* Every step leaves a counter without a time to live only where the worker
\* that sets it can still do so, or where something failed.
LEMMA OrphanStep ==
  ASSUME OrphanNeedsFault, ExpireInv, DelaysInv, TypeOK, TypeOK', [Next]_vars
  PROVE  OrphanNeedsFault' /\ ExpireInv'
<1>0. faults' >= faults /\ faults \in Nat /\ faults' \in Nat
  BY DelaysStep DEF TypeOK
<1>1. ASSUME NEW w \in Workers, Worker(w),
             \/ \E attempt \in Attempts : Receive(w, attempt)
             \/ ReadTally(w) \/ BadRequest(w) \/ ResetTally(w)
             \/ \E success \in BOOLEAN : CallBackend(w, success)
      PROVE  OrphanNeedsFault' /\ ExpireInv'
  <2>1. pc[w] # "expire" /\ pc'[w] # "expire"
    BY <1>1 DEF Receive, ReadTally, Blocked, BadRequest, ResetTally, CallBackend, Finish, Goto, TypeOK
  <2>2. \A k \in Attempts : tally'[k].ttl = NoExpiry => tally[k].ttl = NoExpiry
    BY <1>1 DEF Receive, ReadTally, Blocked, BadRequest, ResetTally, Delete, CallBackend, TypeOK,
                Missing, NoExpiry
  <2>3. QED
    BY <1>0, <1>1, <2>1, <2>2, OrphanFrame
<1>2. ASSUME NEW w \in Workers, Worker(w), IncrementTally(w)
      PROVE  OrphanNeedsFault' /\ ExpireInv'
  <2>1. pc[w] = "incr" /\ job[w] \in Attempts
    BY <1>2, BusyWorker DEF IncrementTally
  <2>2. CASE /\ Answers(w) /\ Goto(w, "expire") /\ UNCHANGED job
             /\ tally' = [tally EXCEPT ![job[w]] = Incr(@)]
    <3>1. /\ pc'[w] = "expire" /\ job'[w] = job[w] /\ Reachable(w) /\ faults' = faults
      BY <2>2 DEF Answers, Goto, TypeOK
    <3>2. \A k \in Attempts : k = job[w] \/ tally'[k] = tally[k]
      BY <2>2 DEF TypeOK
    <3>3. OrphanNeedsFault'
      BY <1>2, <2>1, <3>1, <3>2, OthersStay DEF OrphanNeedsFault
    <3>4. ExpireInv'
      BY <1>2, <2>1, <3>1, OthersStay DEF ExpireInv, Reachable
    <3>5. QED
      BY <3>3, <3>4
  <2>3. CASE Fault
    BY <2>3 DEF Fault, OrphanNeedsFault, ExpireInv, TypeOK
  <2>4. CASE UNCHANGED <<tally, faults>> /\ Finish(w)
    BY <1>0, <1>2, <2>1, <2>4, OrphanFrame DEF Finish, Goto, TypeOK
  <2>5. QED
    BY <1>2, <2>2, <2>3, <2>4 DEF IncrementTally, ReplyLost, GivesUp
<1>3. ASSUME NEW w \in Workers, Worker(w), ExpireTally(w)
      PROVE  OrphanNeedsFault' /\ ExpireInv'
  <2>1. /\ pc[w] = "expire" /\ pc'[w] = "idle" /\ connected' = connected
        /\ job[w] \in Attempts /\ BlockSeconds \in Nat \ {0}
    BY <1>3, BusyWorker, GuardAssumption DEF ExpireTally, Finish, Goto, TypeOK
  <2>2. CASE faults > 0
    BY <1>0, <2>2 DEF OrphanNeedsFault, ExpireInv
  <2>3. CASE Fault
    BY <2>3 DEF Fault, OrphanNeedsFault, ExpireInv, TypeOK
  <2>4. CASE /\ faults = 0 /\ faults' = faults
             /\ tally' = [tally EXCEPT ![job[w]] = Expire(@, BlockSeconds)]
    <3>1. tally'[job[w]].ttl # NoExpiry
      <4>1. tally[job[w]] \in KeyStates
        BY <2>1 DEF TypeOK
      <4>2. QED
        BY <2>1, <2>4, <4>1, ExpireKey DEF TypeOK
    <3>2. \A k \in Attempts : k = job[w] \/ tally'[k] = tally[k]
      BY <2>1, <2>4 DEF TypeOK
    <3>3. OrphanNeedsFault'
      BY <1>3, <2>1, <2>4, <3>1, <3>2, OthersStay DEF OrphanNeedsFault
    <3>4. ExpireInv'
      BY <1>3, <2>1, <2>4, OthersStay DEF ExpireInv, Reachable
    <3>5. QED
      BY <3>3, <3>4
  <2>5. faults = 0 => Reachable(w)
    BY <2>1 DEF ExpireInv
  <2>6. QED
    BY <1>3, <2>2, <2>3, <2>4, <2>5 DEF ExpireTally, Answers, ReplyLost, GivesUp, TypeOK
<1>4. ASSUME NEW r \in Replicas, Restart(r)
      PROVE  OrphanNeedsFault' /\ ExpireInv'
  BY <1>4 DEF Restart, Fault, OrphanNeedsFault, ExpireInv, TypeOK
<1>5. CASE Tick
  <2>1. \A k \in Attempts : tally'[k].ttl = NoExpiry => tally[k].ttl = NoExpiry
    BY <1>5, AgeKey DEF Tick, TypeOK
  <2>2. UNCHANGED <<pc, job, connected, faults>>
    BY <1>5 DEF Tick, clientVars
  <2>3. QED
    BY <2>1, <2>2 DEF OrphanNeedsFault, ExpireInv, Reachable
<1>6. CASE UNCHANGED vars
  BY <1>6 DEF vars, clientVars, OrphanNeedsFault, ExpireInv, Reachable
<1>7. CASE Late
  BY <1>0, <1>7, DelaysStep DEF OrphanNeedsFault, ExpireInv
<1>8. QED
  BY <1>1, <1>2, <1>3, <1>4, <1>5, <1>6, <1>7 DEF Next, Worker

\* So it is in every reachable state.
LEMMA OrphanInvariant == SafeSpec => []OrphanNeedsFault
<1> DEFINE IInv == TypeOK /\ DelaysInv /\ ExpireInv /\ OrphanNeedsFault
<1>1. Init => IInv
  <2> SUFFICES ASSUME Init PROVE IInv
    OBVIOUS
  <2>1. TypeOK /\ DelaysInv /\ ExpireInv
    BY TypeInit DEF Init, DelaysInv, ExpireInv
  <2>2. \A k \in Attempts : tally[k].ttl # NoExpiry
    BY DEF Init, Missing, NoExpiry
  <2>3. QED
    BY <2>1, <2>2 DEF OrphanNeedsFault
<1>2. IInv /\ [Next]_vars => IInv'
  BY TypeStep, DelaysStep, OrphanStep
<1>3. IInv => OrphanNeedsFault
  OBVIOUS
<1>4. QED
  BY <1>1, <1>2, <1>3, PTL DEF SafeSpec

\* A counter that never lapses is a trace of a failure or a crash, for any
\* number of workers and replicas.
THEOREM OrphanFromFault == Spec => []OrphanNeedsFault
  BY OrphanInvariant, PTL DEF Spec

=============================================================================
