-------------------------- MODULE SecurityLayerProofs --------------------------
(***************************************************************************)
(* Theorems about SecurityLayer, for every value of its constants.         *)
(***************************************************************************)
EXTENDS SecurityLayer, RedisLemmas, FiniteSetTheorems, TLAPS

-----------------------------------------------------------------------------
(* Jobs.                                                                   *)

\* The fields of a job, and what the handlers change in it.
LEMMA JobFields ==
  ASSUME NEW j \in Jobs
  PROVE  /\ j.ip \in IPs /\ j.ep \in Endpoints
         /\ j.counted \in BOOLEAN
         /\ [j EXCEPT !.counted = TRUE] \in Jobs
         /\ [j EXCEPT !.counted = FALSE] \in Jobs
  BY DEF Jobs

\* What relates pc and job: a worker has a job exactly while it is not idle.
JobsOK == /\ pc \in [Workers -> Steps]
          /\ job \in [Workers -> Jobs \cup {NoJob}]
          /\ \A w \in Workers : pc[w] = "idle" <=> job[w] = NoJob

\* A busy worker has a job and thereby a key.
LEMMA BusyWorker ==
  ASSUME JobsOK, NEW w \in Workers, pc[w] # "idle"
  PROVE  job[w] \in Jobs /\ Key(w) \in Keys
  BY JobFields DEF JobsOK, Key, Keys

\* Going on with a job, the same or another, keeps pc and job related.
LEMMA GoOn ==
  ASSUME JobsOK, NEW w \in Workers, NEW j \in Jobs, NEW s \in Steps, s # "idle",
         Goto(w, s), job' = [job EXCEPT ![w] = j]
  PROVE  JobsOK'
  BY LimiterAssumption DEF JobsOK, Goto

\* Going on with the same job keeps pc and job related.
LEMMA GoOnSame ==
  ASSUME JobsOK, NEW w \in Workers, pc[w] # "idle", NEW s \in Steps, s # "idle",
         Goto(w, s), UNCHANGED job
  PROVE  JobsOK'
  BY DEF JobsOK, Goto

\* The end of a handler keeps pc and job related.
LEMMA GoIdle ==
  ASSUME JobsOK, NEW w \in Workers, Finish(w)
  PROVE  JobsOK'
  BY DEF JobsOK, Goto, Finish, Steps

-----------------------------------------------------------------------------
(* Types.                                                                  *)

\* Giving up the SETs of predefined addresses only adds to what is delayed.
LEMMA DelayTypes ==
  ASSUME NEW commands \in [Commands -> Nat], NEW slow
  PROVE  DelayPredefined(commands, slow) \in [Commands -> Nat]
  BY DEF DelayPredefined

\* The initial states are well-typed.
LEMMA TypeInit ==
  ASSUME Init
  PROVE  TypeOK
<1> USE LimiterAssumption, LayerAssumption
<1>1. PICK loaded \in SUBSET Predefined, slow \in SUBSET Predefined :
             /\ ban = LoadPredefined([ip \in IPs |-> Missing], loaded)
             /\ delayed = DelayPredefined([c \in Commands |-> 0], slow)
             /\ faults = IF slow = {} THEN 0 ELSE 1
  BY DEF Init, Loadable
<1>2. ban \in [IPs -> KeyStates]
  BY <1>1, MissingKey, SetKey DEF LoadPredefined
<1>3. delayed \in [Commands -> Nat] /\ faults \in Nat
  BY <1>1, DelayTypes
<1>4. QED
  BY <1>2, <1>3, MissingKey DEF Init, TypeOK, Keys, Steps

\* A step of a worker only adds faults, and gives up no command without one.
LEMMA CallTypes ==
  ASSUME TypeOK, NEW w \in Workers, Worker(w)
  PROVE  /\ faults' \in Nat /\ faults' >= faults
         /\ delayed' \in [Commands -> Nat]
         /\ faults' = 0 => delayed' = delayed
<1>1. faults \in Nat /\ delayed \in [Commands -> Nat]
  BY DEF TypeOK
<1>2. CASE Answers(w) \/ ReplyLost(w) \/ NoEffect(w)
  BY <1>1, <1>2, FaultCounter
<1>3. ASSUME NEW command, GivesUp(w, command)
      PROVE  /\ faults' \in Nat /\ faults' >= faults
             /\ delayed' \in [Commands -> Nat]
             /\ faults' = 0 => delayed' = delayed
  BY <1>1, <1>3, GivenUp
<1>4. CASE UNCHANGED clientVars
  BY <1>1, <1>4 DEF clientVars
<1>5. QED
  BY <1>2, <1>3, <1>4
  DEF Worker, CheckRequestLimit, HandleRequest, IsBlacklisted, IncrementCount, ExpireCount,
      CheckCount, BanClient, AddToBlacklist, RemoveFromBlacklist, EndRoute

\* The arrival of a delayed command, by what it was.
LEMMA LateTypes ==
  ASSUME TypeOK, Late
  PROVE  /\ delayed' \in [Commands -> Nat]
         /\ \E c \in Commands : delayed[c] # 0
<1>1. ASSUME NEW command \in Commands, Arrives(command)
      PROVE  /\ delayed' \in [Commands -> Nat]
             /\ \E c \in Commands : delayed[c] # 0
  BY <1>1, Arrival DEF TypeOK
<1>2. /\ \A k \in Keys : IncrOf(k) \in Commands /\ ExpireOf(k) \in Commands
      /\ \A ip \in IPs, seconds \in BanTimes : SetOf(ip, seconds) \in Commands
      /\ \A ip \in IPs : DelOf(ip) \in Commands
  BY DEF Commands
<1>3. QED
  BY <1>1, <1>2 DEF Late, LateIncr, LateExpire, LateSet, LateDel

\* Every step of the system keeps the types.
LEMMA TypeStep ==
  ASSUME TypeOK, [Next]_vars
  PROVE  TypeOK'
<1> USE LimiterAssumption, LayerAssumption
<1>0. JobsOK
  BY DEF TypeOK, JobsOK
<1>1. ASSUME NEW w \in Workers, CheckRequestLimit(w), UNCHANGED adminOps
      PROVE  TypeOK'
  <2>0. faults' \in Nat /\ delayed' \in [Commands -> Nat]
    BY <1>1, CallTypes DEF Worker
  <2>1. ASSUME NEW ip \in IPs, NEW ep \in Endpoints, HandleRequest(w, ip, ep)
        PROVE  TypeOK'
    <3>1. [ip |-> ip, ep |-> ep, counted |-> FALSE] \in Jobs
      BY DEF Jobs
    <3>2. JobsOK'
      BY <1>0, <2>1, <3>1, GoOn DEF HandleRequest, Steps
    <3>3. QED
      BY <1>1, <2>1, <3>2 DEF HandleRequest, clientVars, history, JobsOK, TypeOK
  <2>2. CASE IsBlacklisted(w)
    <3>1. job[w] \in Jobs /\ job[w].ip \in IPs
      BY <1>0, <2>2, BusyWorker, JobFields DEF IsBlacklisted
    <3>2. JobsOK'
      BY <1>0, <2>2, <3>1, GoOnSame, GoIdle DEF IsBlacklisted, Steps
    <3>3. unasked' \in [IPs -> Nat]
      BY <2>2, <3>1 DEF IsBlacklisted, TypeOK
    <3>4. QED
      BY <1>1, <2>0, <2>2, <3>2, <3>3 DEF IsBlacklisted, JobsOK, TypeOK
  <2>3. CASE IncrementCount(w)
    <3>1. job[w] \in Jobs /\ Key(w) \in Keys
      BY <1>0, <2>3, BusyWorker DEF IncrementCount
    <3>2. count' \in [Keys -> KeyStates]
      BY <2>3, <3>1, IncrKey DEF IncrementCount, TypeOK
    <3>3. JobsOK'
      <4>1. CASE UNCHANGED job
        BY <1>0, <2>3, <4>1, GoOnSame DEF IncrementCount, Steps
      <4>2. CASE job' = [job EXCEPT ![w].counted = TRUE]
        BY <1>0, <2>3, <3>1, <4>2, JobFields, GoOn DEF IncrementCount, Steps
      <4>3. QED
        BY <2>3, <4>1, <4>2 DEF IncrementCount
    <3>4. QED
      BY <1>1, <2>0, <2>3, <3>2, <3>3 DEF IncrementCount, history, JobsOK, TypeOK
  <2>4. CASE ExpireCount(w)
    <3>1. WindowSeconds[job[w].ep] \in Nat \ {0} /\ Key(w) \in Keys
      BY <1>0, <2>4, BusyWorker, JobFields DEF ExpireCount
    <3>2. count' \in [Keys -> KeyStates]
      BY <2>4, <3>1, ExpireKey DEF ExpireCount, TypeOK
    <3>3. JobsOK'
      BY <1>0, <2>4, GoOnSame DEF ExpireCount, Steps
    <3>4. QED
      BY <1>1, <2>0, <2>4, <3>2, <3>3 DEF ExpireCount, history, JobsOK, TypeOK
  <2>5. CASE CheckCount(w)
    <3>1. job[w].ip \in IPs /\ Key(w) \in Keys
      BY <1>0, <2>5, BusyWorker, JobFields DEF CheckCount
    <3>2. leaked' \in [IPs -> Nat]
      BY <2>5, <3>1 DEF CheckCount, Admit, TypeOK
    <3>3. admitted' \in [Keys -> Nat] /\ unread' \in [Keys -> Nat]
      BY <2>5, <3>1 DEF CheckCount, Note, TypeOK
    <3>4. JobsOK'
      BY <1>0, <2>5, GoOnSame DEF CheckCount, Admit, Steps
    <3>5. QED
      BY <1>1, <2>0, <2>5, <3>2, <3>3, <3>4 DEF CheckCount, JobsOK, TypeOK
  <2>6. CASE BanClient(w)
    <3>1. job[w].ip \in IPs /\ job[w].ep \in Endpoints
      BY <1>0, <2>6, BusyWorker, JobFields DEF BanClient
    <3>2. ban' \in [IPs -> KeyStates]
      BY <2>6, <3>1, SetKey DEF BanClient, TypeOK
    <3>3. JobsOK'
      BY <1>0, <2>6, GoIdle DEF BanClient
    <3>4. QED
      BY <1>1, <2>0, <2>6, <3>2, <3>3 DEF BanClient, history, JobsOK, TypeOK
  <2>7. QED
    BY <1>1, <2>1, <2>2, <2>3, <2>4, <2>5, <2>6 DEF CheckRequestLimit
<1>2. ASSUME NEW w \in Workers, AddToBlacklist(w) \/ RemoveFromBlacklist(w)
      PROVE  TypeOK'
  <2>1. AdminChange(w) /\ Worker(w)
    BY <1>2 DEF AddToBlacklist, RemoveFromBlacklist, Worker
  <2>2. ban' \in [IPs -> KeyStates]
    BY <1>2, SetKey, MissingKey DEF AddToBlacklist, RemoveFromBlacklist, TypeOK
  <2>3. leaked' \in [IPs -> Nat] /\ unasked' \in [IPs -> Nat]
    BY <1>2 DEF AddToBlacklist, RemoveFromBlacklist, Unbanned, TypeOK
  <2>4. JobsOK'
    BY <1>0, <2>1, GoIdle DEF AdminChange
  <2>5. faults' \in Nat /\ delayed' \in [Commands -> Nat]
    BY <2>1, CallTypes
  <2>6. QED
    BY <2>1, <2>2, <2>3, <2>4, <2>5 DEF AdminChange, JobsOK, TypeOK
<1>3. ASSUME NEW w \in Workers, EndRoute(w)
      PROVE  TypeOK'
  <2>1. JobsOK'
    BY <1>0, <1>3, GoIdle DEF EndRoute
  <2>2. QED
    BY <1>3, <2>1 DEF EndRoute, clientVars, history, JobsOK, TypeOK
<1>4. ASSUME NEW r \in Replicas, Restart(r)
      PROVE  TypeOK'
  <2>1. PICK up \in BOOLEAN, loaded \in SUBSET Predefined, slow \in SUBSET Predefined :
          /\ connected' = [connected EXCEPT ![r] = up]
          /\ ban' = LoadPredefined(ban, loaded)
          /\ delayed' = DelayPredefined(delayed, slow)
    BY <1>4 DEF Restart, Loadable
  <2>2. ban' \in [IPs -> KeyStates]
    BY <2>1, SetKey DEF LoadPredefined, TypeOK
  <2>3. JobsOK'
    BY <1>0, <1>4 DEF Restart, JobsOK, Steps
  <2>4. connected' \in [Replicas -> BOOLEAN] /\ delayed' \in [Commands -> Nat]
    BY <2>1, DelayTypes DEF TypeOK
  <2>5. QED
    BY <1>4, <2>2, <2>3, <2>4 DEF Restart, Fault, history, JobsOK, TypeOK
<1>5. CASE Late
  <2>1. delayed' \in [Commands -> Nat]
    BY <1>5, LateTypes
  <2>2. ASSUME NEW k \in Keys, LateIncr(k) \/ LateExpire(k)
        PROVE  TypeOK'
    <3>1. count[k] \in KeyStates /\ WindowSeconds[k[2]] \in Nat \ {0}
      BY DEF TypeOK, Keys
    <3>2. Incr(count[k]) \in KeyStates /\ Expire(count[k], WindowSeconds[k[2]]) \in KeyStates
      BY <3>1, IncrKey, ExpireKey
    <3>3. count' \in [Keys -> KeyStates]
      BY <2>2, <3>2 DEF LateIncr, LateExpire, TypeOK
    <3>4. QED
      BY <2>1, <2>2, <3>3 DEF LateIncr, LateExpire, history, TypeOK
  <2>3. ASSUME NEW ip \in IPs, NEW seconds \in BanTimes, LateSet(ip, seconds)
        PROVE  TypeOK'
    <3>1. SetEx(seconds) \in KeyStates
      BY SetKey DEF BanTimes
    <3>2. QED
      BY <2>1, <2>3, <3>1 DEF LateSet, history, TypeOK
  <2>4. ASSUME NEW ip \in IPs, LateDel(ip)
        PROVE  TypeOK'
    BY <2>1, <2>4, MissingKey DEF LateDel, Unbanned, TypeOK
  <2>5. QED
    BY <1>5, <2>2, <2>3, <2>4 DEF Late
<1>6. CASE Tick
  <2>1. ban' \in [IPs -> KeyStates] /\ count' \in [Keys -> KeyStates]
    BY <1>6, AgeKey DEF Tick, TypeOK
  <2>2. JobsOK'
    BY <1>0, <1>6, JobFields DEF Tick, JobsOK
  <2>3. /\ admitted' \in [Keys -> Nat] /\ unread' \in [Keys -> Nat]
        /\ leaked' \in [IPs -> Nat] /\ unasked' \in [IPs -> Nat]
    BY <1>6 DEF Tick, TypeOK
  <2>4. QED
    BY <1>6, <2>1, <2>2, <2>3 DEF Tick, clientVars, JobsOK, TypeOK
<1>7. CASE UNCHANGED vars
  BY <1>7 DEF vars, limiterVars, clientVars, history, TypeOK
<1>8. QED
  BY <1>1, <1>2, <1>3, <1>4, <1>5, <1>6, <1>7 DEF Next, Work, Worker

\* Every value stays of its type, and a worker has a job exactly while it
\* serves a request.
THEOREM TypeCorrect == Spec => []TypeOK
<1>1. Init => TypeOK
  BY TypeInit
<1>2. TypeOK /\ [Next]_vars => TypeOK'
  BY TypeStep
<1>3. QED
  BY <1>1, <1>2, PTL DEF Spec

-----------------------------------------------------------------------------
(* AdmissionBound.  A counter stands for the requests it let through and   *)
(* for those whose check is still ahead: when a check reads it, the number *)
(* let through is below the number read, which is within the limit.        *)

\* The workers whose request the counter k counts and has not yet judged.
Unjudged(k) == { w \in Workers : /\ pc[w] \in {"expire", "get"}
                                 /\ job[w].counted
                                 /\ Key(w) = k }

AdmissionInv ==
  \A k \in Keys : admitted[k] + Cardinality(Unjudged(k)) <= count[k].val

(* It needs to know that a request is marked by the step that marks it.    *)

FreshJobs ==
  \A w \in Workers : pc[w] \in {"isBlacklisted", "incr"} => ~job[w].counted

(* LeakBound.  While an address is banned, the requests that passed stood  *)
(* between the blacklist and the end of the limiter when the ban was set,  *)
(* or got there without an answer of the blacklist.                        *)

\* The workers with Redis past the blacklist check of ip, not yet at its end.
Underway(ip) == { w \in Workers : /\ pc[w] \in {"incr", "expire", "get"}
                                  /\ Reachable(w)
                                  /\ job[w].ip = ip }

LeakInv ==
  \A ip \in IPs :
    /\ Exists(ban[ip])  =>
         leaked[ip] + Cardinality(Underway(ip)) <= Cardinality(Workers) + unasked[ip]
    /\ ~Exists(ban[ip]) => leaked[ip] = 0 /\ unasked[ip] = 0

-----------------------------------------------------------------------------
(* What a step of one worker leaves alone.                                 *)

\* The other workers stay where they are.
LEMMA OthersStay ==
  ASSUME TypeOK, NEW w \in Workers, NEW v \in Workers, v # w,
         CheckRequestLimit(w) \/ AdminChange(w) \/ EndRoute(w)
  PROVE  pc'[v] = pc[v] /\ job'[v] = job[v]
  BY DEF CheckRequestLimit, HandleRequest, IsBlacklisted, Blacklisted, IncrementCount, ExpireCount,
         CheckCount, OverLimit, Admit, BanClient, AdminChange, EndRoute, Finish, Goto, TypeOK

\* Only the worker that moves can join the requests a counter has to judge.
LEMMA UnjudgedOfOthers ==
  ASSUME TypeOK, NEW w \in Workers, NEW k \in Keys,
         \A v \in Workers : v # w => pc'[v] = pc[v] /\ job'[v] = job[v]
  PROVE  /\ Unjudged(k)' \subseteq Unjudged(k) \cup {w}
         /\ pc'[w] \notin {"expire", "get"} => Unjudged(k)' \subseteq Unjudged(k) \ {w}
         /\ Key(w)' # k => Unjudged(k)' \subseteq Unjudged(k) \ {w}
  BY DEF Unjudged, Key

\* Only the worker that moves can join the requests past the blacklist.
LEMMA UnderwayOfOthers ==
  ASSUME TypeOK, NEW w \in Workers, NEW ip \in IPs, UNCHANGED connected,
         \A v \in Workers : v # w => pc'[v] = pc[v] /\ job'[v] = job[v]
  PROVE  /\ Underway(ip)' \subseteq Underway(ip) \cup {w}
         /\ pc'[w] \notin {"incr", "expire", "get"} => Underway(ip)' \subseteq Underway(ip) \ {w}
         /\ job'[w].ip # ip => Underway(ip)' \subseteq Underway(ip) \ {w}
  BY DEF Underway, Reachable

\* A command that arrives late concerns keys of Redis, and no worker.
LEMMA LateFrame ==
  ASSUME Late
  PROVE  UNCHANGED <<connected, faults, pc, job, admitted, unread>>
  BY DEF Late, LateIncr, LateExpire, LateSet, LateDel, history

-----------------------------------------------------------------------------
\* A late command may add to a counter, and takes nothing from it.
LEMMA LateCount ==
  ASSUME TypeOK, TypeOK', Late, NEW k \in Keys
  PROVE  count'[k].val >= count[k].val /\ count[k].val \in Nat /\ count'[k].val \in Nat
<1>1. count[k] \in KeyStates /\ count'[k] \in KeyStates /\ WindowSeconds[k[2]] \in Nat \ {0}
  BY LimiterAssumption DEF TypeOK, Keys
<1>2. count'[k] \in {count[k], Incr(count[k]), Expire(count[k], WindowSeconds[k[2]])}
  BY DEF Late, LateIncr, LateExpire, LateSet, LateDel, TypeOK
<1>3. /\ Incr(count[k]).val = count[k].val + 1
      /\ Expire(count[k], WindowSeconds[k[2]]).val = count[k].val
      /\ count[k].val \in Nat
  BY <1>1, IncrKey, ExpireKey DEF KeyStates
<1>4. QED
  BY <1>2, <1>3

\* A request carries no mark before the step that sets it.
LEMMA FreshStep ==
  ASSUME TypeOK, FreshJobs, [Next]_vars
  PROVE  FreshJobs'
<1>0. JobsOK
  BY DEF TypeOK, JobsOK
<1>1. ASSUME NEW w \in Workers, CheckRequestLimit(w)
      PROVE  FreshJobs'
  <2>1. \A v \in Workers : v # w => pc'[v] = pc[v] /\ job'[v] = job[v]
    BY <1>1, OthersStay
  <2>2. ASSUME NEW ip \in IPs, NEW ep \in Endpoints, HandleRequest(w, ip, ep)
        PROVE  pc'[w] \in {"isBlacklisted", "incr"} => ~job'[w].counted
    BY <2>2 DEF HandleRequest, Goto, TypeOK
  <2>3. ASSUME IsBlacklisted(w)
        PROVE  pc'[w] \in {"isBlacklisted", "incr"} => ~job'[w].counted
    <3>1. job[w] \in Jobs /\ ~job[w].counted
      BY <1>0, <2>3, BusyWorker DEF IsBlacklisted, Blacklisted, FreshJobs
    <3>2. pc'[w] = "idle" \/ (pc'[w] = "incr" /\ job'[w].counted = job[w].counted)
      BY <2>3, <3>1 DEF IsBlacklisted, Blacklisted, Finish, Goto, TypeOK, Jobs
    <3>3. QED
      BY <3>1, <3>2
  <2>4. ASSUME IncrementCount(w) \/ ExpireCount(w) \/ CheckCount(w) \/ BanClient(w)
        PROVE  pc'[w] \notin {"isBlacklisted", "incr"}
    BY <2>4 DEF IncrementCount, ExpireCount, CheckCount, OverLimit, Admit, BanClient, Finish, Goto, TypeOK
  <2>5. QED
    BY <1>1, <2>1, <2>2, <2>3, <2>4 DEF CheckRequestLimit, FreshJobs
<1>2. ASSUME NEW w \in Workers, AdminChange(w) \/ EndRoute(w)
      PROVE  FreshJobs'
  <2>1. \A v \in Workers : v # w => pc'[v] = pc[v] /\ job'[v] = job[v]
    BY <1>2, OthersStay
  <2>2. pc'[w] = "idle"
    BY <1>2 DEF AdminChange, EndRoute, Finish, Goto, TypeOK
  <2>3. QED
    BY <2>1, <2>2 DEF FreshJobs
<1>3. ASSUME NEW r \in Replicas, Restart(r)
      PROVE  FreshJobs'
  BY <1>3 DEF Restart, FreshJobs
<1>4. CASE Tick
  <2>1. ASSUME NEW w \in Workers, pc[w] # "idle"
        PROVE  /\ pc'[w] = pc[w]
               /\ job'[w].counted => job[w].counted
    <3>1. job[w] \in Jobs
      BY <1>0, <2>1, BusyWorker
    <3>2. job'[w] = job[w] \/ job'[w] = [job[w] EXCEPT !.counted = FALSE]
      BY <1>4 DEF Tick
    <3>3. pc' = pc
      BY <1>4 DEF Tick
    <3>4. QED
      BY <3>1, <3>2, <3>3 DEF Jobs
  <2>2. QED
    BY <1>4, <2>1 DEF Tick, FreshJobs
<1>5. CASE Late \/ UNCHANGED vars
  BY <1>5, LateFrame DEF vars, limiterVars, FreshJobs
<1>6. QED
  BY <1>1, <1>2, <1>3, <1>4, <1>5
  DEF Next, Work, Worker, AddToBlacklist, RemoveFromBlacklist

-----------------------------------------------------------------------------
\* A step that changes no number and adds no request keeps the invariant.
LEMMA AdmissionFrame ==
  ASSUME AdmissionInv, TypeOK, TypeOK', NEW k \in Keys,
         admitted'[k] = admitted[k], count'[k].val = count[k].val,
         Unjudged(k)' \subseteq Unjudged(k)
  PROVE  admitted'[k] + Cardinality(Unjudged(k)') <= count'[k].val
<1>1. Unjudged(k)' \in SUBSET Workers /\ Unjudged(k) \in SUBSET Workers
  BY DEF Unjudged
<1>2. /\ Cardinality(Unjudged(k)') <= Cardinality(Unjudged(k))
      /\ Cardinality(Unjudged(k)') \in Nat /\ Cardinality(Unjudged(k)) \in Nat
  BY <1>1, NoLarger, WorkerSet
<1>3. admitted[k] \in Nat /\ count[k].val \in Nat
  BY DEF TypeOK, KeyStates
<1>4. QED
  BY <1>2, <1>3 DEF AdmissionInv

\* INCR counts one more request, and no other counter changes.
LEMMA AdmissionIncrement ==
  ASSUME AdmissionInv, FreshJobs, TypeOK, TypeOK', NEW w \in Workers, IncrementCount(w),
         NEW k \in Keys
  PROVE  admitted'[k] + Cardinality(Unjudged(k)') <= count'[k].val
<1>1. /\ job[w] \in Jobs /\ Key(w) \in Keys
      /\ Key(w)' = Key(w) /\ admitted' = admitted
  <2>1. job[w] \in Jobs /\ Key(w) \in Keys
    BY BusyWorker DEF IncrementCount, TypeOK, JobsOK
  <2>2. job'[w] = job[w] \/ job'[w] = [job[w] EXCEPT !.counted = TRUE]
    BY DEF IncrementCount, TypeOK
  <2>3. Key(w)' = Key(w)
    BY <2>1, <2>2 DEF Key, Jobs
  <2>4. QED
    BY <2>1, <2>3 DEF IncrementCount, history
<1>2. \A v \in Workers : v # w => pc'[v] = pc[v] /\ job'[v] = job[v]
  BY OthersStay DEF CheckRequestLimit
<1>3. CASE count' = [count EXCEPT ![Key(w)] = Incr(@)]
  <2>1. CASE Key(w) = k
    <3>1. count'[k].val = count[k].val + 1
      BY <1>1, <1>3, <2>1, IncrKey DEF TypeOK
    <3>2. Unjudged(k) \in SUBSET Workers /\ Unjudged(k)' \in SUBSET (Unjudged(k) \cup {w})
      BY <1>2, UnjudgedOfOthers DEF Unjudged
    <3>3. Cardinality(Unjudged(k)') <= Cardinality(Unjudged(k)) + 1
      BY <3>2, OneMore
    <3>4. Cardinality(Unjudged(k)') \in Nat /\ Cardinality(Unjudged(k)) \in Nat
      BY <3>2, WorkerSet
    <3>5. admitted[k] \in Nat /\ count[k].val \in Nat
      BY DEF TypeOK, KeyStates
    <3>6. QED
      BY <1>1, <3>1, <3>3, <3>4, <3>5 DEF AdmissionInv
  <2>2. CASE Key(w) # k
    <3>1. Unjudged(k)' \subseteq Unjudged(k)
      BY <1>1, <1>2, <2>2, UnjudgedOfOthers
    <3>2. count'[k] = count[k]
      BY <1>1, <1>3, <2>2 DEF TypeOK
    <3>3. QED
      BY <1>1, <3>1, <3>2, AdmissionFrame
  <2>3. QED
    BY <2>1, <2>2
<1>4. CASE UNCHANGED <<count, job>>
  <2>1. ~job'[w].counted
    BY <1>4 DEF IncrementCount, FreshJobs
  <2>2. Unjudged(k)' \subseteq Unjudged(k)
    BY <1>2, <2>1 DEF Unjudged, Key
  <2>3. QED
    BY <1>1, <1>4, <2>2, AdmissionFrame
<1>5. QED
  BY <1>3, <1>4 DEF IncrementCount

\* A check that lets a counted request through moves it from those to judge
\* to those admitted; either the number it read is within the limit, or it is
\* one more that read none.
LEMMA AdmissionCheck ==
  ASSUME AdmissionInv, TypeOK, TypeOK', NEW w \in Workers, CheckCount(w), NEW k \in Keys
  PROVE  /\ admitted'[k] + Cardinality(Unjudged(k)') <= count'[k].val
         /\ \/ admitted'[k] = admitted[k] /\ unread'[k] = unread[k]
            \/ count'[k].val <= RequestLimit[k[2]] /\ unread'[k] = unread[k]
            \/ admitted'[k] = admitted[k] + 1 /\ unread'[k] = unread[k] + 1
<1>1. /\ job[w] \in Jobs /\ Key(w) \in Keys
      /\ pc[w] = "get" /\ pc'[w] \in {"ban", "route"}
      /\ job' = job /\ count' = count
  BY BusyWorker DEF CheckCount, OverLimit, Admit, Goto, TypeOK, JobsOK
<1>2. Unjudged(k) \in SUBSET Workers /\ Unjudged(k)' \in SUBSET (Unjudged(k) \ {w})
  BY <1>1, OthersStay, UnjudgedOfOthers DEF CheckRequestLimit, Unjudged
<1>3. CASE admitted'[k] = admitted[k] /\ unread'[k] = unread[k]
  BY <1>1, <1>2, <1>3, AdmissionFrame
<1>4. CASE /\ Key(w) = k /\ job[w].counted /\ admitted'[k] = admitted[k] + 1
           /\ \/ ~OverLimit(w) /\ unread'[k] = unread[k]
              \/ unread'[k] = unread[k] + 1
  <2>1. Cardinality(Unjudged(k)') + 1 <= Cardinality(Unjudged(k))
    <3>1. w \in Unjudged(k)
      BY <1>1, <1>4 DEF Unjudged
    <3>2. QED
      BY <1>2, <3>1, OneFewer
  <2>2. Cardinality(Unjudged(k)') \in Nat /\ Cardinality(Unjudged(k)) \in Nat
    BY <1>2, WorkerSet
  <2>3. admitted[k] \in Nat /\ count[k].val \in Nat
    BY DEF TypeOK, KeyStates
  <2>4. k[2] = job[w].ep
    BY <1>4 DEF Key
  <2>5. ~OverLimit(w) => count[k].val <= RequestLimit[k[2]]
    <3>1. RequestLimit[k[2]] \in Nat
      BY LimiterAssumption DEF Keys
    <3>2. QED
      BY <1>4, <2>3, <2>4, <3>1 DEF OverLimit
  <2>6. admitted'[k] + Cardinality(Unjudged(k)') <= count'[k].val
    BY <1>1, <1>4, <2>1, <2>2, <2>3 DEF AdmissionInv
  <2>7. QED
    BY <1>1, <1>4, <2>5, <2>6
<1>5. QED
  <2>1. CASE Answers(w) /\ OverLimit(w) /\ UNCHANGED <<admitted, unread>>
    BY <1>3, <2>1
  <2>2. CASE ~OverLimit(w) /\ admitted' = Note(w, admitted) /\ UNCHANGED unread
    BY <1>1, <1>3, <1>4, <2>2 DEF Note, TypeOK
  <2>3. CASE admitted' = Note(w, admitted) /\ unread' = Note(w, unread)
    BY <1>1, <1>3, <1>4, <2>3 DEF Note, TypeOK
  <2>4. QED
    BY <2>1, <2>2, <2>3 DEF CheckCount

\* Every other step leaves each counter its requests, or clears both.
LEMMA AdmissionStep ==
  ASSUME AdmissionInv, FreshJobs, TypeOK, TypeOK', [Next]_vars
  PROVE  AdmissionInv'
<1> SUFFICES ASSUME NEW k \in Keys
             PROVE  admitted'[k] + Cardinality(Unjudged(k)') <= count'[k].val
  BY DEF AdmissionInv
<1>1. ASSUME NEW w \in Workers, CheckRequestLimit(w)
      PROVE  admitted'[k] + Cardinality(Unjudged(k)') <= count'[k].val
  <2>1. \A v \in Workers : v # w => pc'[v] = pc[v] /\ job'[v] = job[v]
    BY <1>1, OthersStay
  <2>2. ASSUME NEW ip \in IPs, NEW ep \in Endpoints, HandleRequest(w, ip, ep)
        PROVE  pc'[w] = "isBlacklisted" /\ UNCHANGED <<admitted, count>>
    BY <2>2 DEF HandleRequest, Goto, history, TypeOK
  <2>3. ASSUME IsBlacklisted(w)
        PROVE  pc'[w] \in {"idle", "incr"} /\ UNCHANGED <<admitted, count>>
    BY <2>3 DEF IsBlacklisted, Blacklisted, Finish, Goto, TypeOK
  <2>4. ASSUME BanClient(w)
        PROVE  pc'[w] = "idle" /\ UNCHANGED <<admitted, count>>
    BY <2>4 DEF BanClient, Finish, Goto, history, TypeOK
  <2>5. CASE ExpireCount(w)
    <3>1. job' = job /\ pc[w] = "expire" /\ pc'[w] = "get" /\ admitted' = admitted
      BY <2>5 DEF ExpireCount, Goto, history, TypeOK
    <3>2. Unjudged(k)' \subseteq Unjudged(k)
      BY <2>1, <3>1 DEF Unjudged, Key
    <3>3. WindowSeconds[job[w].ep] \in Nat \ {0} /\ Key(w) \in Keys
      BY <3>1, BusyWorker, JobFields, LimiterAssumption DEF TypeOK, JobsOK
    <3>4. count'[k].val = count[k].val
      <4>1. count[Key(w)] \in KeyStates
        BY <3>3 DEF TypeOK
      <4>2. Expire(count[Key(w)], WindowSeconds[job[w].ep]).val = count[Key(w)].val
        BY <3>3, <4>1, ExpireKey
      <4>3. QED
        BY <2>5, <3>3, <4>2 DEF ExpireCount, TypeOK
    <3>5. QED
      BY <3>1, <3>2, <3>4, AdmissionFrame
  <2>6. CASE UNCHANGED <<admitted, count>> /\ pc'[w] \notin {"expire", "get"}
    <3>1. Unjudged(k)' \subseteq Unjudged(k)
      BY <2>1, <2>6, UnjudgedOfOthers
    <3>2. QED
      BY <2>6, <3>1, AdmissionFrame
  <2>7. QED
    BY <1>1, <2>2, <2>3, <2>4, <2>5, <2>6, AdmissionIncrement, AdmissionCheck
    DEF CheckRequestLimit
<1>2. ASSUME NEW w \in Workers, AdminChange(w) \/ EndRoute(w)
      PROVE  admitted'[k] + Cardinality(Unjudged(k)') <= count'[k].val
  <2>1. \A v \in Workers : v # w => pc'[v] = pc[v] /\ job'[v] = job[v]
    BY <1>2, OthersStay
  <2>2. pc'[w] = "idle" /\ UNCHANGED <<admitted, count>>
    BY <1>2 DEF AdminChange, EndRoute, Finish, Goto, history, TypeOK
  <2>3. Unjudged(k)' \subseteq Unjudged(k)
    BY <2>1, <2>2, UnjudgedOfOthers
  <2>4. QED
    BY <2>2, <2>3, AdmissionFrame
<1>3. ASSUME NEW r \in Replicas, Restart(r)
      PROVE  admitted'[k] + Cardinality(Unjudged(k)') <= count'[k].val
  <2>1. UNCHANGED <<admitted, count>>
    BY <1>3 DEF Restart, history
  <2>2. Unjudged(k)' \subseteq Unjudged(k)
    BY <1>3 DEF Restart, Unjudged, Key
  <2>3. QED
    BY <2>1, <2>2, AdmissionFrame
<1>4. CASE Tick
  <2>1. \A w \in Unjudged(k)' :
          w \in Unjudged(k) /\ ~(Exists(count[k]) /\ ~Exists(Age(count[k])))
    <3> SUFFICES ASSUME NEW w \in Unjudged(k)'
                 PROVE  w \in Unjudged(k) /\ ~(Exists(count[k]) /\ ~Exists(Age(count[k])))
      OBVIOUS
    <3>1. pc' = pc /\ w \in Workers /\ pc[w] \in {"expire", "get"} /\ job'[w].counted /\ Key(w)' = k
      BY <1>4 DEF Tick, Unjudged
    <3>2. job[w] \in Jobs
      BY <3>1, BusyWorker DEF TypeOK, JobsOK
    <3>3. CASE job'[w] = job[w] /\ ~(Exists(count[Key(w)]) /\ ~Exists(Age(count[Key(w)])))
      BY <3>1, <3>3 DEF Unjudged, Key
    <3>4. CASE job'[w] = [job[w] EXCEPT !.counted = FALSE]
      BY <3>1, <3>2, <3>4 DEF Jobs
    <3>5. QED
      BY <1>4, <3>1, <3>2, <3>3, <3>4, LimiterAssumption DEF Tick
  <2>2. CASE Exists(count[k]) /\ ~Exists(Age(count[k]))
    <3>1. Unjudged(k)' = {}
      BY <2>1, <2>2
    <3>2. admitted'[k] = 0
      BY <1>4, <2>2 DEF Tick
    <3>3. count'[k].val \in Nat
      BY DEF TypeOK, KeyStates
    <3>4. QED
      BY <3>1, <3>2, <3>3, FS_EmptySet
  <2>3. CASE ~(Exists(count[k]) /\ ~Exists(Age(count[k])))
    <3>1. count'[k].val = count[k].val
      BY <1>4, <2>3, AgeKey DEF Tick, TypeOK, Exists, KeyStates
    <3>2. admitted'[k] = admitted[k]
      BY <1>4, <2>3 DEF Tick
    <3>3. QED
      BY <2>1, <3>1, <3>2, AdmissionFrame
  <2>4. QED
    BY <2>2, <2>3
<1>5. CASE UNCHANGED vars
  <2>1. UNCHANGED <<admitted, count>> /\ Unjudged(k)' = Unjudged(k)
    BY <1>5 DEF vars, limiterVars, history, Unjudged, Key
  <2>2. QED
    BY <2>1, AdmissionFrame
<1>6. CASE Late
  <2>1. UNCHANGED admitted /\ Unjudged(k)' = Unjudged(k)
    BY <1>6, LateFrame DEF Unjudged, Key
  <2>2. Unjudged(k) \in SUBSET Workers
    BY DEF Unjudged
  <2>3. Cardinality(Unjudged(k)) \in Nat /\ admitted[k] \in Nat
    BY <2>2, WorkerSet DEF TypeOK
  <2>4. count'[k].val >= count[k].val /\ count[k].val \in Nat /\ count'[k].val \in Nat
    BY <1>6, LateCount
  <2>5. QED
    BY <2>1, <2>3, <2>4 DEF AdmissionInv
<1>7. QED
  BY <1>1, <1>2, <1>3, <1>4, <1>5, <1>6
  DEF Next, Work, Worker, AddToBlacklist, RemoveFromBlacklist

\* Only a check admits, and it admits within the limit or without a number.
LEMMA AdmissionBoundStep ==
  ASSUME AdmissionBound, AdmissionInv, FreshJobs, TypeOK, TypeOK', [Next]_vars
  PROVE  AdmissionBound'
<1> SUFFICES ASSUME NEW k \in Keys PROVE admitted'[k] <= RequestLimit[k[2]] + unread'[k]
  BY DEF AdmissionBound
<1>0. /\ RequestLimit[k[2]] \in Nat /\ admitted[k] <= RequestLimit[k[2]] + unread[k]
      /\ admitted[k] \in Nat /\ unread[k] \in Nat
      /\ admitted'[k] \in Nat /\ unread'[k] \in Nat
  BY LimiterAssumption DEF AdmissionBound, Keys, TypeOK
<1>1. ASSUME NEW w \in Workers, CheckCount(w)
      PROVE  admitted'[k] <= RequestLimit[k[2]] + unread'[k]
  <2>1. Cardinality(Unjudged(k)') \in Nat
    <3>1. Unjudged(k)' \in SUBSET Workers
      BY DEF Unjudged
    <3>2. QED
      BY <3>1, WorkerSet
  <2>2. count'[k].val \in Nat
    BY DEF TypeOK, KeyStates
  <2>3. QED
    BY <1>0, <1>1, <2>1, <2>2, AdmissionCheck
<1>2. CASE UNCHANGED <<admitted, unread>>
  BY <1>0, <1>2
<1>3. CASE Tick
  <2>1. \/ admitted'[k] = 0 /\ unread'[k] = 0
        \/ admitted'[k] = admitted[k] /\ unread'[k] = unread[k]
    BY <1>3 DEF Tick
  <2>2. QED
    BY <1>0, <2>1
<1>4. QED
  BY <1>1, <1>2, <1>3, LateFrame
  DEF Next, Work, Worker, CheckRequestLimit, HandleRequest, IsBlacklisted, IncrementCount,
      ExpireCount, BanClient, AdminChange, AddToBlacklist, RemoveFromBlacklist, EndRoute,
      Restart, history, vars, limiterVars

\* At first nothing is counted.
LEMMA AdmissionInit ==
  ASSUME Init
  PROVE  FreshJobs /\ AdmissionBound /\ AdmissionInv
<1>1. FreshJobs
  BY DEF Init, FreshJobs
<1>2. AdmissionBound
  BY LimiterAssumption DEF Init, AdmissionBound, Keys
<1>3. \A k \in Keys : Unjudged(k) = {}
  BY DEF Init, Unjudged
<1>4. \A k \in Keys : admitted[k] = 0 /\ count[k].val = 0
  BY MissingKey DEF Init
<1>5. \A k \in Keys : Cardinality(Unjudged(k)) = 0
  BY <1>3, FS_EmptySet
<1>6. QED
  BY <1>1, <1>2, <1>4, <1>5 DEF AdmissionInv

\* However the commands of the workers interleave, and whatever calls fail,
\* get lost or arrive late, the counted requests of a key that pass number at
\* most requestLimit and one for each failed GET among them: for any number of
\* workers, replicas, addresses and paths.
THEOREM AdmissionBounded == Spec => []AdmissionBound
<1> DEFINE IInv == TypeOK /\ FreshJobs /\ AdmissionInv /\ AdmissionBound
<1>1. Init => IInv
  BY TypeInit, AdmissionInit
<1>2. IInv /\ [Next]_vars => IInv'
  BY TypeStep, FreshStep, AdmissionStep, AdmissionBoundStep
<1>3. IInv => AdmissionBound
  OBVIOUS
<1>4. QED
  BY <1>1, <1>2, <1>3, PTL DEF Spec

-----------------------------------------------------------------------------
\* While a ban holds, a step keeps the invariant if it adds no more to those
\* that leaked and those under way than to those that could not ask; a ban that
\* is set finds at most every worker under way.
LEMMA LeakFrame ==
  ASSUME LeakInv, TypeOK, TypeOK', NEW ip \in IPs, Exists(ban[ip]) => Exists(ban'[ip]),
         \/ UNCHANGED <<leaked, unasked>>
         \/ leaked'[ip] = leaked[ip] /\ unasked'[ip] = unasked[ip],
         Exists(ban[ip]) => Underway(ip)' \subseteq Underway(ip)
  PROVE  /\ Exists(ban'[ip])  =>
              leaked'[ip] + Cardinality(Underway(ip)') <= Cardinality(Workers) + unasked'[ip]
         /\ ~Exists(ban'[ip]) => leaked'[ip] = 0 /\ unasked'[ip] = 0
<1>1. Underway(ip)' \in SUBSET Workers /\ Underway(ip) \in SUBSET Workers
  BY DEF Underway
<1>2. /\ Underway(ip)' \subseteq Underway(ip) =>
           Cardinality(Underway(ip)') <= Cardinality(Underway(ip))
      /\ Cardinality(Underway(ip)') <= Cardinality(Workers)
      /\ Cardinality(Underway(ip)') \in Nat /\ Cardinality(Underway(ip)) \in Nat
      /\ Cardinality(Workers) \in Nat
  BY <1>1, NoLarger, WorkerSet
<1>3. /\ leaked[ip] \in Nat /\ unasked[ip] \in Nat
      /\ leaked'[ip] = leaked[ip] /\ unasked'[ip] = unasked[ip]
  BY DEF TypeOK
<1>4. CASE Exists(ban[ip])
  BY <1>2, <1>3, <1>4 DEF LeakInv
<1>5. CASE ~Exists(ban[ip])
  BY <1>2, <1>3, <1>5 DEF LeakInv
<1>6. QED
  BY <1>4, <1>5

\* The blacklist lets a request of a banned address go on only if it cannot
\* be asked.
LEMMA LeakAsk ==
  ASSUME LeakInv, TypeOK, TypeOK', NEW w \in Workers, IsBlacklisted(w), NEW ip \in IPs
  PROVE  /\ Exists(ban'[ip])  =>
              leaked'[ip] + Cardinality(Underway(ip)') <= Cardinality(Workers) + unasked'[ip]
         /\ ~Exists(ban'[ip]) => leaked'[ip] = 0 /\ unasked'[ip] = 0
<1>1. \A v \in Workers : v # w => pc'[v] = pc[v] /\ job'[v] = job[v]
  BY OthersStay DEF CheckRequestLimit
<1>2. /\ job[w] \in Jobs /\ pc[w] = "isBlacklisted"
      /\ UNCHANGED <<connected, ban, leaked>>
  BY BusyWorker DEF IsBlacklisted, TypeOK, JobsOK
<1>3. Underway(ip) \in SUBSET Workers /\ Underway(ip)' \in SUBSET (Underway(ip) \cup {w})
  BY <1>1, <1>2, UnderwayOfOthers DEF Underway
<1>4. CASE /\ unasked' = unasked
           /\ pc'[w] = "idle" \/ ~Exists(ban[job[w].ip]) \/ ~Reachable(w)
           /\ pc'[w] = "idle" \/ job'[w] = job[w]
  <2>1. Exists(ban[ip]) => Underway(ip)' \subseteq Underway(ip) \ {w}
    BY <1>1, <1>2, <1>4, UnderwayOfOthers DEF Underway, Reachable
  <2>2. QED
    BY <1>2, <1>4, <2>1, LeakFrame
<1>5. CASE /\ Exists(ban[job[w].ip]) /\ job' = job
           /\ unasked' = [unasked EXCEPT ![job[w].ip] = @ + 1]
  <2>1. CASE job[w].ip = ip
    <3>1. unasked'[ip] = unasked[ip] + 1
      BY <1>5, <2>1 DEF TypeOK
    <3>2. Cardinality(Underway(ip)') <= Cardinality(Underway(ip)) + 1
      BY <1>3, OneMore
    <3>3. /\ Cardinality(Underway(ip)') \in Nat /\ Cardinality(Underway(ip)) \in Nat
          /\ Cardinality(Workers) \in Nat /\ leaked[ip] \in Nat /\ unasked[ip] \in Nat
      BY <1>3, WorkerSet DEF TypeOK
    <3>4. Exists(ban'[ip]) /\ leaked'[ip] = leaked[ip]
      BY <1>2, <1>5, <2>1
    <3>5. leaked[ip] + Cardinality(Underway(ip)) <= Cardinality(Workers) + unasked[ip]
      BY <1>5, <2>1 DEF LeakInv
    <3>6. QED
      BY <3>1, <3>2, <3>3, <3>4, <3>5
  <2>2. CASE job[w].ip # ip
    <3>1. unasked'[ip] = unasked[ip] /\ Underway(ip)' \subseteq Underway(ip)
      BY <1>1, <1>2, <1>5, <2>2, UnderwayOfOthers DEF TypeOK
    <3>2. QED
      BY <1>2, <3>1, LeakFrame
  <2>3. QED
    BY <2>1, <2>2
<1>6. QED
  <2>1. CASE Finish(w) /\ UNCHANGED unasked
    BY <1>4, <2>1 DEF Finish, Goto, TypeOK
  <2>2. CASE ~Exists(ban[job[w].ip]) /\ UNCHANGED <<job, unasked>>
    BY <1>4, <2>2
  <2>3. CASE /\ UNCHANGED job
             /\ unasked' = IF Reachable(w) /\ Exists(ban[job[w].ip])
                             THEN [unasked EXCEPT ![job[w].ip] = @ + 1] ELSE unasked
    BY <1>4, <1>5, <2>3
  <2>4. QED
    BY <2>1, <2>2, <2>3 DEF IsBlacklisted, Blacklisted

\* A request that passes although its address is banned was under way.
LEMMA LeakCheck ==
  ASSUME LeakInv, TypeOK, TypeOK', NEW w \in Workers, CheckCount(w), NEW ip \in IPs
  PROVE  /\ Exists(ban'[ip])  =>
              leaked'[ip] + Cardinality(Underway(ip)') <= Cardinality(Workers) + unasked'[ip]
         /\ ~Exists(ban'[ip]) => leaked'[ip] = 0 /\ unasked'[ip] = 0
<1>1. /\ job[w] \in Jobs /\ UNCHANGED <<connected, job, ban, unasked>>
      /\ pc[w] = "get" /\ pc'[w] \in {"ban", "route"}
  BY BusyWorker DEF CheckCount, OverLimit, Admit, Goto, TypeOK, JobsOK
<1>2. Underway(ip) \in SUBSET Workers /\ Underway(ip)' \in SUBSET (Underway(ip) \ {w})
  BY <1>1, OthersStay, UnderwayOfOthers DEF CheckRequestLimit, Underway
<1>3. CASE leaked'[ip] = leaked[ip]
  BY <1>1, <1>2, <1>3, LeakFrame
<1>4. CASE leaked'[ip] # leaked[ip]
  <2>1. /\ job[w].ip = ip /\ Reachable(w) /\ Exists(ban[ip])
        /\ leaked'[ip] = leaked[ip] + 1
    BY <1>1, <1>4 DEF CheckCount, Admit, TypeOK
  <2>2. Cardinality(Underway(ip)') + 1 <= Cardinality(Underway(ip))
    <3>1. w \in Underway(ip)
      BY <1>1, <2>1 DEF Underway
    <3>2. QED
      BY <1>2, <3>1, OneFewer
  <2>3. /\ Cardinality(Underway(ip)') \in Nat /\ Cardinality(Underway(ip)) \in Nat
        /\ Cardinality(Workers) \in Nat /\ leaked[ip] \in Nat /\ unasked[ip] \in Nat
    BY <1>2, WorkerSet DEF TypeOK
  <2>4. leaked[ip] + Cardinality(Underway(ip)) <= Cardinality(Workers) + unasked[ip]
    BY <2>1 DEF LeakInv
  <2>5. QED
    BY <1>1, <2>1, <2>2, <2>3, <2>4
<1>5. QED
  BY <1>3, <1>4

\* Every step of the system keeps the invariant.
LEMMA LeakStep ==
  ASSUME LeakInv, TypeOK, TypeOK', [Next]_vars
  PROVE  LeakInv'
<1> DEFINE Goal(ip) ==
      /\ Exists(ban'[ip])  =>
           leaked'[ip] + Cardinality(Underway(ip)') <= Cardinality(Workers) + unasked'[ip]
      /\ ~Exists(ban'[ip]) => leaked'[ip] = 0 /\ unasked'[ip] = 0
<1> SUFFICES ASSUME NEW ip \in IPs PROVE Goal(ip)
  BY DEF LeakInv
<1>1. ASSUME NEW w \in Workers, CheckRequestLimit(w)
      PROVE  Goal(ip)
  <2>1. \A v \in Workers : v # w => pc'[v] = pc[v] /\ job'[v] = job[v]
    BY <1>1, OthersStay
  <2>2. ASSUME NEW i \in IPs, NEW ep \in Endpoints, HandleRequest(w, i, ep)
        PROVE  Goal(ip)
    <3>1. pc'[w] = "isBlacklisted" /\ UNCHANGED <<connected, ban, leaked, unasked>>
      BY <2>2 DEF HandleRequest, Goto, clientVars, history, TypeOK
    <3>2. Underway(ip)' \subseteq Underway(ip)
      BY <2>1, <3>1, UnderwayOfOthers
    <3>3. QED
      BY <3>1, <3>2, LeakFrame
  <2>3. CASE IncrementCount(w)
    <3>1. /\ job[w] \in Jobs /\ pc[w] = "incr" /\ UNCHANGED <<connected, ban, leaked, unasked>>
          /\ job'[w] = job[w] \/ job'[w] = [job[w] EXCEPT !.counted = TRUE]
      BY <2>3, BusyWorker DEF IncrementCount, history, TypeOK, JobsOK
    <3>2. job'[w].ip = job[w].ip
      BY <3>1 DEF Jobs
    <3>3. Underway(ip)' \subseteq Underway(ip)
      BY <2>1, <3>1, <3>2 DEF Underway, Reachable
    <3>4. QED
      BY <3>1, <3>3, LeakFrame
  <2>4. CASE ExpireCount(w)
    <3>1. pc[w] = "expire" /\ UNCHANGED <<connected, ban, leaked, unasked, job>>
      BY <2>4 DEF ExpireCount, history
    <3>2. Underway(ip)' \subseteq Underway(ip)
      BY <2>1, <3>1 DEF Underway, Reachable
    <3>3. QED
      BY <3>1, <3>2, LeakFrame
  <2>5. CASE BanClient(w)
    <3>1. pc[w] = "ban" /\ pc'[w] = "idle" /\ UNCHANGED <<connected, leaked, unasked>>
      BY <2>5 DEF BanClient, Finish, Goto, history, TypeOK
    <3>2. Underway(ip)' \subseteq Underway(ip)
      BY <2>1, <3>1, UnderwayOfOthers
    <3>3. BanTimeSeconds[job[w].ep] \in Nat \ {0}
      BY <3>1, BusyWorker, JobFields, LimiterAssumption DEF TypeOK, JobsOK
    <3>4. ban'[ip] = ban[ip] \/ Exists(ban'[ip])
      BY <2>5, <3>3, SetKey DEF BanClient, TypeOK
    <3>5. QED
      BY <3>1, <3>2, <3>4, LeakFrame
  <2>6. QED
    BY <1>1, <2>2, <2>3, <2>4, <2>5, LeakAsk, LeakCheck DEF CheckRequestLimit
<1>2. ASSUME NEW w \in Workers, AdminChange(w) \/ EndRoute(w)
      PROVE  Underway(ip)' \subseteq Underway(ip) /\ UNCHANGED connected
  <2>1. \A v \in Workers : v # w => pc'[v] = pc[v] /\ job'[v] = job[v]
    BY <1>2, OthersStay
  <2>2. pc'[w] = "idle" /\ UNCHANGED connected
    BY <1>2 DEF AdminChange, EndRoute, Finish, Goto, clientVars, TypeOK
  <2>3. QED
    BY <2>1, <2>2, UnderwayOfOthers
<1>3. ASSUME NEW w \in Workers, AddToBlacklist(w)
      PROVE  Goal(ip)
  <2>1. PICK i \in IPs, seconds \in AdminBanSeconds :
          /\ AdminChange(w) /\ UNCHANGED <<leaked, unasked>>
          /\ ban' = [ban EXCEPT ![i] = SetEx(seconds)] \/ UNCHANGED ban
    BY <1>3 DEF AddToBlacklist
  <2>2. Exists(SetEx(seconds))
    BY SetKey, LayerAssumption
  <2>3. ban'[ip] = ban[ip] \/ Exists(ban'[ip])
    BY <2>1, <2>2 DEF TypeOK
  <2>4. QED
    BY <1>2, <2>1, <2>3, LeakFrame
<1>4. ASSUME NEW i \in IPs, ban' = [ban EXCEPT ![i] = Missing], Unbanned(i),
             Underway(ip)' \subseteq Underway(ip)
      PROVE  Goal(ip)
  <2>1. CASE i = ip
    BY <1>4, <2>1, MissingKey DEF Unbanned, TypeOK
  <2>2. CASE i # ip
    <3>1. ban'[ip] = ban[ip] /\ leaked'[ip] = leaked[ip] /\ unasked'[ip] = unasked[ip]
      BY <1>4, <2>2 DEF Unbanned, TypeOK
    <3>2. QED
      BY <1>4, <3>1, LeakFrame
  <2>3. QED
    BY <2>1, <2>2
<1>5. ASSUME NEW w \in Workers, RemoveFromBlacklist(w)
      PROVE  Goal(ip)
  <2>1. PICK i \in IPs : /\ AdminChange(w)
                         /\ \/ ban' = [ban EXCEPT ![i] = Missing] /\ Unbanned(i)
                            \/ UNCHANGED <<ban, leaked, unasked>>
    BY <1>5 DEF RemoveFromBlacklist
  <2>2. CASE UNCHANGED <<ban, leaked, unasked>>
    BY <1>2, <2>1, <2>2, LeakFrame
  <2>3. QED
    BY <1>2, <1>4, <2>1, <2>2
<1>6. ASSUME NEW w \in Workers, EndRoute(w)
      PROVE  Goal(ip)
  <2>1. UNCHANGED <<ban, leaked, unasked>>
    BY <1>6 DEF EndRoute, history
  <2>2. QED
    BY <1>2, <1>6, <2>1, LeakFrame
<1>7. ASSUME NEW r \in Replicas, Restart(r)
      PROVE  Goal(ip)
  <2>1. PICK loaded \in SUBSET Predefined : ban' = LoadPredefined(ban, loaded)
    BY <1>7 DEF Restart, Loadable
  <2>2. ban'[ip] = ban[ip] \/ Exists(ban'[ip])
    BY <2>1, SetKey, LayerAssumption DEF LoadPredefined
  <2>3. \A w \in Workers : pc'[w] # "idle" =>
          /\ pc'[w] = pc[w] /\ job'[w] = job[w]
          /\ ReplicaOf[w] # r
    BY <1>7 DEF Restart
  <2>4. \A w \in Workers : pc'[w] # "idle" => connected'[ReplicaOf[w]] = connected[ReplicaOf[w]]
    BY <1>7, <2>3, WorkersAssumption DEF Restart, TypeOK
  <2>5. Underway(ip)' \subseteq Underway(ip)
    BY <2>3, <2>4 DEF Underway, Reachable
  <2>6. UNCHANGED <<leaked, unasked>>
    BY <1>7 DEF Restart, history
  <2>7. QED
    BY <2>2, <2>5, <2>6, LeakFrame
<1>8. CASE Late
  <2>1. Underway(ip)' \subseteq Underway(ip)
    BY <1>8, LateFrame DEF Underway, Reachable
  <2>2. ASSUME NEW k \in Keys, LateIncr(k) \/ LateExpire(k)
        PROVE  Goal(ip)
    <3>1. UNCHANGED <<ban, leaked, unasked>>
      BY <2>2 DEF LateIncr, LateExpire, history
    <3>2. QED
      BY <2>1, <3>1, LeakFrame
  <2>3. ASSUME NEW i \in IPs, NEW seconds \in BanTimes, LateSet(i, seconds)
        PROVE  Goal(ip)
    <3>1. Exists(SetEx(seconds))
      BY SetKey, LimiterAssumption, LayerAssumption DEF BanTimes
    <3>2. UNCHANGED <<leaked, unasked>> /\ (ban'[ip] = ban[ip] \/ Exists(ban'[ip]))
      BY <2>3, <3>1 DEF LateSet, history, TypeOK
    <3>3. QED
      BY <2>1, <3>2, LeakFrame
  <2>4. QED
    BY <1>4, <1>8, <2>1, <2>2, <2>3 DEF Late, LateDel
<1>9. CASE Tick
  <2>1. Underway(ip)' \subseteq Underway(ip)
    <3> SUFFICES ASSUME NEW w \in Underway(ip)' PROVE w \in Underway(ip)
      OBVIOUS
    <3>1. /\ UNCHANGED <<pc, connected>> /\ w \in Workers
          /\ pc[w] \in {"incr", "expire", "get"}
      BY <1>9 DEF Tick, clientVars, Underway
    <3>2. job[w] \in Jobs
      BY <3>1, BusyWorker DEF TypeOK, JobsOK
    <3>3. job'[w] = job[w] \/ job'[w] = [job[w] EXCEPT !.counted = FALSE]
      BY <1>9, <3>1 DEF Tick
    <3>4. job'[w].ip = job[w].ip
      BY <3>2, <3>3 DEF Jobs
    <3>5. QED
      BY <3>1, <3>4 DEF Underway, Reachable
  <2>2. /\ ban'[ip] = Age(ban[ip]) /\ (Exists(ban'[ip]) => Exists(ban[ip]))
        /\ leaked'[ip] = IF Exists(ban'[ip]) THEN leaked[ip] ELSE 0
        /\ unasked'[ip] = IF Exists(ban'[ip]) THEN unasked[ip] ELSE 0
    BY <1>9, AgeKey DEF Tick, TypeOK
  <2>3. CASE Exists(ban'[ip])
    BY <2>1, <2>2, <2>3, LeakFrame
  <2>4. QED
    BY <2>2, <2>3
<1>10. CASE UNCHANGED vars
  <2>1. UNCHANGED <<ban, leaked, unasked>> /\ Underway(ip)' = Underway(ip)
    BY <1>10 DEF vars, limiterVars, clientVars, history, Underway, Reachable
  <2>2. QED
    BY <2>1, LeakFrame
<1>11. QED
  BY <1>1, <1>3, <1>5, <1>6, <1>7, <1>8, <1>9, <1>10 DEF Next, Work, Worker

\* At first no request is under way.
LEMMA LeakInit ==
  ASSUME Init
  PROVE  LeakInv
<1>1. \A ip \in IPs : leaked[ip] = 0 /\ unasked[ip] = 0 /\ Underway(ip) = {}
  BY DEF Init, Underway
<1>2. Cardinality(Workers) \in Nat
  BY WorkerSet
<1>3. \A ip \in IPs : Cardinality(Underway(ip)) = 0
  BY <1>1, FS_EmptySet
<1>4. QED
  BY <1>1, <1>2, <1>3 DEF LeakInv

\* The requests of a banned address that pass number at most one for each
\* worker and one for each that could not ask the blacklist, on the replicas
\* that have Redis: for any number of workers and replicas, whatever fails,
\* arrives late or restarts.
THEOREM LeakBounded == Spec => []LeakBound
<1> DEFINE IInv == TypeOK /\ LeakInv
<1>1. Init => IInv
  BY TypeInit, LeakInit
<1>2. IInv /\ [Next]_vars => IInv'
  BY TypeStep, LeakStep
<1>3. IInv => LeakBound
  <2> SUFFICES ASSUME IInv, NEW ip \in IPs
               PROVE  leaked[ip] <= Cardinality(Workers) + unasked[ip]
    BY DEF LeakBound
  <2>1. Underway(ip) \in SUBSET Workers
    BY DEF Underway
  <2>2. Cardinality(Underway(ip)) \in Nat /\ Cardinality(Workers) \in Nat
    BY <2>1, WorkerSet
  <2>3. leaked[ip] \in Nat /\ unasked[ip] \in Nat
    BY DEF TypeOK
  <2>4. QED
    BY <2>2, <2>3 DEF LeakInv
<1>4. QED
  BY <1>1, <1>2, <1>3, PTL DEF Spec

-----------------------------------------------------------------------------
(* Until something fails, no command is late.                              *)

DelaysInv == faults = 0 => \A c \in Commands : delayed[c] = 0

\* At first a command is late only if a start has failed to send it.
LEMMA DelaysInit ==
  ASSUME Init
  PROVE  DelaysInv
<1>1. PICK slow \in SUBSET Predefined :
        /\ delayed = DelayPredefined([c \in Commands |-> 0], slow)
        /\ faults = IF slow = {} THEN 0 ELSE 1
  BY DEF Init, Loadable
<1>2. QED
  BY <1>1 DEF DelaysInv, DelayPredefined

\* Failures are never taken back, and a command is given up only by one.
LEMMA DelaysStep ==
  ASSUME DelaysInv, TypeOK, TypeOK', [Next]_vars
  PROVE  /\ DelaysInv'
         /\ faults' >= faults
         /\ Late => faults > 0
<1>0. faults \in Nat /\ faults' \in Nat
  BY DEF TypeOK
<1>1. Late => faults > 0
  BY <1>0, LateTypes DEF DelaysInv
<1>2. ASSUME NEW w \in Workers, Worker(w)
      PROVE  DelaysInv' /\ faults' >= faults
  BY <1>0, <1>2, CallTypes DEF DelaysInv
<1>3. ASSUME NEW r \in Replicas, Restart(r)
      PROVE  DelaysInv' /\ faults' >= faults
  BY <1>0, <1>3 DEF DelaysInv, Restart, Fault
<1>4. CASE Late
  BY <1>0, <1>1, <1>4, LateFrame DEF DelaysInv
<1>5. CASE Tick \/ UNCHANGED vars
  <2>1. UNCHANGED <<faults, delayed>>
    BY <1>5 DEF Tick, vars, limiterVars, clientVars
  <2>2. QED
    BY <1>0, <1>1, <2>1 DEF DelaysInv
<1>6. QED
  BY <1>1, <1>2, <1>3, <1>4, <1>5 DEF Next, Work

-----------------------------------------------------------------------------
(* OrphanNeedsFault.  Until something fails, a worker between INCR and     *)
(* EXPIRE can reach Redis: it got the answer to its INCR from there.       *)

ExpireInv ==
  faults > 0 \/ \A w \in Workers : pc[w] = "expire" => Reachable(w)

\* Where no step of a worker touches the counters or the workers that are
\* about to set a time to live, nothing changes.
LEMMA OrphanFrame ==
  ASSUME OrphanNeedsFault, ExpireInv, TypeOK, TypeOK', NEW w \in Workers,
         \A v \in Workers : v # w => pc'[v] = pc[v] /\ job'[v] = job[v],
         pc[w] # "expire", pc'[w] # "expire", UNCHANGED <<connected, count>>,
         faults' >= faults
  PROVE  OrphanNeedsFault' /\ ExpireInv'
  BY DEF OrphanNeedsFault, ExpireInv, TypeOK, Key, Reachable

\* Every step leaves a counter without a time to live only where the worker
\* that sets it can still do so, or where something failed.
LEMMA OrphanStep ==
  ASSUME OrphanNeedsFault, ExpireInv, DelaysInv, TypeOK, TypeOK', [Next]_vars
  PROVE  OrphanNeedsFault' /\ ExpireInv'
<1>0. faults' >= faults /\ faults \in Nat /\ faults' \in Nat
  BY DelaysStep DEF TypeOK
<1>1. ASSUME NEW w \in Workers, CheckRequestLimit(w)
      PROVE  OrphanNeedsFault' /\ ExpireInv'
  <2>1. \A v \in Workers : v # w => pc'[v] = pc[v] /\ job'[v] = job[v]
    BY <1>1, OthersStay
  <2>2. ASSUME \/ \E ip \in IPs, ep \in Endpoints : HandleRequest(w, ip, ep)
               \/ IsBlacklisted(w) \/ CheckCount(w) \/ BanClient(w)
        PROVE  OrphanNeedsFault' /\ ExpireInv'
    <3>1. /\ pc[w] # "expire" /\ pc'[w] # "expire" /\ UNCHANGED <<connected, count>>
      BY <2>2 DEF HandleRequest, IsBlacklisted, Blacklisted, CheckCount, OverLimit, Admit, BanClient, Finish, Goto,
                  clientVars, TypeOK
    <3>2. QED
      BY <1>0, <2>1, <3>1, OrphanFrame
  <2>3. CASE IncrementCount(w)
    <3>1. /\ pc[w] = "incr" /\ connected' = connected
          /\ job[w] \in Jobs /\ Key(w) \in Keys
          /\ job'[w] = job[w] \/ job'[w] = [job[w] EXCEPT !.counted = TRUE]
      BY <2>3, BusyWorker DEF IncrementCount, TypeOK, JobsOK
    <3>2. Key(w)' = Key(w)
      BY <3>1 DEF Key, Jobs
    <3>3. CASE Answers(w) /\ pc'[w] = "expire" /\ count' = [count EXCEPT ![Key(w)] = Incr(@)]
      <4>1. Reachable(w) /\ faults' = faults
        BY <3>3 DEF Answers
      <4>2. \A k \in Keys : k = Key(w) \/ count'[k] = count[k]
        BY <3>1, <3>3 DEF TypeOK
      <4>3. OrphanNeedsFault'
        BY <2>1, <3>1, <3>2, <3>3, <4>1, <4>2 DEF OrphanNeedsFault, Key
      <4>4. ExpireInv'
        BY <2>1, <3>1, <4>1 DEF ExpireInv, Reachable
      <4>5. QED
        BY <4>3, <4>4
    <3>4. CASE Fault
      BY <3>4 DEF Fault, OrphanNeedsFault, ExpireInv, TypeOK
    <3>5. CASE UNCHANGED <<count, faults>> /\ pc'[w] = "get"
      BY <1>0, <2>1, <3>1, <3>5, OrphanFrame
    <3>6. QED
      BY <2>3, <3>3, <3>4, <3>5 DEF IncrementCount, ReplyLost, GivesUp, Goto, TypeOK
  <2>4. CASE ExpireCount(w)
    <3>1. /\ pc[w] = "expire" /\ pc'[w] = "get" /\ UNCHANGED <<connected, job>>
          /\ Key(w) \in Keys /\ WindowSeconds[job[w].ep] \in Nat \ {0}
      BY <2>4, BusyWorker, JobFields, LimiterAssumption DEF ExpireCount, Goto, TypeOK, JobsOK
    <3>2. CASE faults > 0
      BY <1>0, <3>2 DEF OrphanNeedsFault, ExpireInv
    <3>3. CASE Fault
      BY <3>3 DEF Fault, OrphanNeedsFault, ExpireInv, TypeOK
    <3>4. CASE /\ faults = 0 /\ faults' = faults
               /\ count' = [count EXCEPT ![Key(w)] = Expire(@, WindowSeconds[job[w].ep])]
      <4>1. count'[Key(w)].ttl # NoExpiry
        <5>1. count[Key(w)] \in KeyStates
          BY <3>1 DEF TypeOK
        <5>2. QED
          BY <3>1, <3>4, <5>1, ExpireKey DEF TypeOK
      <4>2. \A k \in Keys : k = Key(w) \/ count'[k] = count[k]
        BY <3>1, <3>4 DEF TypeOK
      <4>3. OrphanNeedsFault'
        BY <2>1, <3>1, <3>4, <4>1, <4>2 DEF OrphanNeedsFault, Key
      <4>4. ExpireInv'
        BY <2>1, <3>1, <3>4 DEF ExpireInv, Reachable
      <4>5. QED
        BY <4>3, <4>4
    <3>5. faults = 0 => Reachable(w)
      BY <3>1 DEF ExpireInv
    <3>6. QED
      BY <2>4, <3>2, <3>3, <3>4, <3>5 DEF ExpireCount, Answers, ReplyLost, GivesUp, TypeOK
  <2>5. QED
    BY <1>1, <2>2, <2>3, <2>4 DEF CheckRequestLimit
<1>2. ASSUME NEW w \in Workers, AdminChange(w) \/ EndRoute(w)
      PROVE  OrphanNeedsFault' /\ ExpireInv'
  <2>1. \A v \in Workers : v # w => pc'[v] = pc[v] /\ job'[v] = job[v]
    BY <1>2, OthersStay
  <2>2. pc[w] = "route" /\ pc'[w] = "idle" /\ UNCHANGED <<connected, count>>
    BY <1>2 DEF AdminChange, EndRoute, Finish, Goto, clientVars, TypeOK
  <2>3. QED
    BY <1>0, <2>1, <2>2, OrphanFrame
<1>3. ASSUME NEW r \in Replicas, Restart(r)
      PROVE  OrphanNeedsFault' /\ ExpireInv'
  BY <1>3 DEF Restart, Fault, OrphanNeedsFault, ExpireInv, TypeOK
<1>4. CASE Tick
  <2>1. ASSUME NEW w \in Workers, pc[w] = "expire"
        PROVE  Key(w)' = Key(w)
    <3>1. job[w] \in Jobs
      BY <2>1, BusyWorker DEF TypeOK, JobsOK
    <3>2. job'[w] = job[w] \/ job'[w] = [job[w] EXCEPT !.counted = FALSE]
      BY <1>4 DEF Tick
    <3>3. QED
      BY <3>1, <3>2 DEF Key, Jobs
  <2>2. \A k \in Keys : count'[k].ttl = NoExpiry => count[k].ttl = NoExpiry
    BY <1>4, AgeKey DEF Tick, TypeOK
  <2>3. UNCHANGED <<pc, connected, faults>>
    BY <1>4 DEF Tick, clientVars
  <2>4. QED
    BY <2>1, <2>2, <2>3 DEF OrphanNeedsFault, ExpireInv, Reachable
<1>5. CASE UNCHANGED vars
  BY <1>5 DEF vars, limiterVars, clientVars, OrphanNeedsFault, ExpireInv, Key, Reachable
<1>6. CASE Late
  BY <1>0, <1>6, DelaysStep DEF OrphanNeedsFault, ExpireInv
<1>7. QED
  BY <1>1, <1>2, <1>3, <1>4, <1>5, <1>6
  DEF Next, Work, Worker, AddToBlacklist, RemoveFromBlacklist

\* A counter without a time to live is a trace of a failure or a crash, for
\* any number of workers and replicas.
THEOREM OrphanFromFault == Spec => []OrphanNeedsFault
<1> DEFINE IInv == TypeOK /\ DelaysInv /\ ExpireInv /\ OrphanNeedsFault
<1>1. Init => IInv
  <2> SUFFICES ASSUME Init PROVE IInv
    OBVIOUS
  <2>1. TypeOK /\ DelaysInv
    BY TypeInit, DelaysInit
  <2>2. ExpireInv
    BY DEF Init, ExpireInv
  <2>3. \A k \in Keys : count[k].ttl # NoExpiry
    BY DEF Init, Missing, NoExpiry
  <2>4. QED
    BY <2>1, <2>2, <2>3 DEF OrphanNeedsFault
<1>2. IInv /\ [Next]_vars => IInv'
  BY TypeStep, DelaysStep, OrphanStep
<1>3. IInv => OrphanNeedsFault
  OBVIOUS
<1>4. QED
  BY <1>1, <1>2, <1>3, PTL DEF Spec

-----------------------------------------------------------------------------
(* CounterDiesBeforeBan.  A request that goes on to the counters asked the *)
(* blacklist in the present tick.  So if its address is banned meanwhile,  *)
(* the ban was set in this tick, and still has its whole time.             *)

\* No ban is shorter than a window: those of the limits, and those that
\* administrators set.
BansOutlastWindows ==
  \A e \in Endpoints :
    /\ \A f \in Endpoints : WindowSeconds[e] <= BanTimeSeconds[f]
    /\ \A s \in AdminBanSeconds : WindowSeconds[e] <= s

\* The remaining time of a ban is no less than any window.
Whole(key) == \A e \in Endpoints : WindowSeconds[e] <= key.ttl

\* Every ban ends, and no counter has more than its window left.
TimesInv ==
  /\ \A ip \in IPs : ban[ip].ttl # NoExpiry
  /\ \A k \in Keys : count[k].ttl <= WindowSeconds[k[2]]

\* On its way to the counters a request finds no ban, or a whole one.
WayInv ==
  \A w \in Workers :
    pc[w] \in {"incr", "expire"} /\ Reachable(w) =>
      ~Exists(ban[job[w].ip]) \/ Whole(ban[job[w].ip])

AfreshInv == TimesInv /\ WayInv /\ CounterDiesBeforeBan

\* A tick adds no time to a key, and takes no more from a ban than from a
\* counter that has any.
LEMMA AgeTimes ==
  ASSUME NEW j \in KeyStates, NEW k \in KeyStates
  PROVE  /\ Age(j).ttl <= j.ttl
         /\ j.ttl # NoExpiry => Age(j).ttl # NoExpiry
         /\ j.ttl <= k.ttl /\ k.ttl # NoExpiry /\ Exists(Age(k)) =>
              Age(j).ttl <= Age(k).ttl
<1>1. j.ttl \in Int /\ k.ttl \in Int /\ j.ttl >= -1 /\ k.ttl >= -1
  BY DEF KeyStates, NoExpiry
<1>2. /\ Age(j).ttl = IF j.ttl > 1 THEN j.ttl - 1 ELSE IF j.ttl = 1 THEN 0 ELSE j.ttl
      /\ Age(k).ttl = IF k.ttl > 1 THEN k.ttl - 1 ELSE IF k.ttl = 1 THEN 0 ELSE k.ttl
  BY DEF Age, KeyStates, Missing, NoExpiry
<1>3. Exists(Age(k)) => k.ttl # 1
  BY DEF Age, Exists, Missing
<1>4. k.ttl = 0 => ~Exists(Age(k))
  BY DEF Age, Exists, KeyStates
<1>5. QED
  BY <1>1, <1>2, <1>3, <1>4 DEF NoExpiry

\* A ban that is set is a whole one, and covers every counter.
LEMMA AfreshBan ==
  ASSUME BansOutlastWindows, AfreshInv, TypeOK, NEW ip \in IPs,
         NEW seconds \in Nat \ {0}, \A e \in Endpoints : WindowSeconds[e] <= seconds,
         ban' = [ban EXCEPT ![ip] = SetEx(seconds)], UNCHANGED <<count, connected>>,
         \A w \in Workers : pc'[w] \in {"incr", "expire"} =>
                              pc'[w] = pc[w] /\ job'[w] = job[w]
  PROVE  AfreshInv'
<1>1. /\ \A i \in IPs : IF i = ip THEN ban'[i].ttl = seconds ELSE ban'[i] = ban[i]
      /\ \A i \in IPs : Exists(ban[i])' <=> Exists(ban'[i])
  BY DEF TypeOK, SetEx, Exists
<1>2. TimesInv'
  BY <1>1 DEF AfreshInv, TimesInv, NoExpiry
<1>3. WayInv'
  <2> SUFFICES ASSUME NEW w \in Workers, pc'[w] \in {"incr", "expire"}, Reachable(w)'
               PROVE  ~Exists(ban'[job[w].ip]) \/ Whole(ban'[job[w].ip])
    BY DEF WayInv
  <2>1. job[w].ip \in IPs
    BY BusyWorker, JobFields DEF TypeOK, JobsOK
  <2>2. Reachable(w)
    BY DEF Reachable
  <2>3. QED
    BY <1>1, <2>1, <2>2 DEF AfreshInv, WayInv, Whole
<1>4. CounterDiesBeforeBan'
  <2> SUFFICES ASSUME NEW k \in Keys, Exists(ban'[k[1]])
               PROVE  count[k].ttl <= ban'[k[1]].ttl
    BY DEF CounterDiesBeforeBan
  <2>1. k[1] \in IPs /\ k[2] \in Endpoints
    BY DEF Keys
  <2>2. CASE k[1] = ip
    <3>1. count[k].ttl <= WindowSeconds[k[2]] /\ WindowSeconds[k[2]] <= seconds
      BY <2>1 DEF AfreshInv, TimesInv
    <3>2. count[k].ttl \in Int /\ WindowSeconds[k[2]] \in Int
      BY <2>1, LimiterAssumption DEF TypeOK, KeyStates, NoExpiry
    <3>3. QED
      BY <1>1, <2>1, <2>2, <3>1, <3>2
  <2>3. CASE k[1] # ip
    BY <1>1, <2>1, <2>3 DEF AfreshInv, CounterDiesBeforeBan
  <2>4. QED
    BY <2>2, <2>3
<1>5. QED
  BY <1>2, <1>3, <1>4 DEF AfreshInv

\* A step that sets no ban and adds no time to a counter keeps the invariant,
\* if no request joins those on their way to the counters of a banned address.
LEMMA AfreshFrame ==
  ASSUME AfreshInv, TypeOK, TypeOK', UNCHANGED connected,
         \A ip \in IPs : ban'[ip] = ban[ip] \/ (~Exists(ban'[ip]) /\ ban'[ip].ttl # NoExpiry),
         \A k \in Keys : count'[k].ttl <= count[k].ttl,
         \A w \in Workers :
           pc'[w] \in {"incr", "expire"} /\ Reachable(w) =>
             /\ job'[w].ip = job[w].ip
             /\ pc[w] \in {"incr", "expire"} \/ ~Exists(ban[job[w].ip])
  PROVE  AfreshInv'
<1>1. \A k \in Keys : /\ k[1] \in IPs /\ k[2] \in Endpoints
                      /\ count[k].ttl \in Int /\ count'[k].ttl \in Int
                      /\ WindowSeconds[k[2]] \in Int /\ ban[k[1]].ttl \in Int
  BY LimiterAssumption DEF Keys, TypeOK, KeyStates, NoExpiry
<1>2. TimesInv'
  BY <1>1 DEF AfreshInv, TimesInv
<1>3. WayInv'
  <2> SUFFICES ASSUME NEW w \in Workers, pc'[w] \in {"incr", "expire"}, Reachable(w)'
               PROVE  ~Exists(ban'[job'[w].ip]) \/ Whole(ban'[job'[w].ip])
    BY DEF WayInv, Exists, Whole
  <2>1. Reachable(w) /\ job'[w].ip = job[w].ip
    BY DEF Reachable
  <2>2. job'[w].ip \in IPs
    BY JobFields DEF TypeOK
  <2>3. ~Exists(ban[job[w].ip]) \/ Whole(ban[job[w].ip])
    BY <2>1 DEF AfreshInv, WayInv
  <2>4. QED
    BY <2>1, <2>2, <2>3
<1>4. CounterDiesBeforeBan'
  <2> SUFFICES ASSUME NEW k \in Keys, Exists(ban'[k[1]])
               PROVE  count'[k].ttl <= ban'[k[1]].ttl
    BY DEF CounterDiesBeforeBan, Exists
  <2>1. ban'[k[1]] = ban[k[1]] /\ Exists(ban[k[1]]) /\ count[k].ttl <= ban[k[1]].ttl
    BY <1>1 DEF AfreshInv, CounterDiesBeforeBan
  <2>2. QED
    BY <1>1, <2>1
<1>5. QED
  BY <1>2, <1>3, <1>4 DEF AfreshInv

\* EXPIRE gives a counter its window back, and no more, and where there is a
\* ban it is a whole one.
LEMMA AfreshExpire ==
  ASSUME AfreshInv, TypeOK, TypeOK', NEW w \in Workers, UNCHANGED <<connected, ban, job>>,
         \A v \in Workers : v # w => pc'[v] = pc[v],
         pc'[w] \notin {"incr", "expire"},
         \A k \in Keys : k # Key(w) => count'[k] = count[k],
         Key(w) \in Keys, count'[Key(w)].ttl <= WindowSeconds[Key(w)[2]],
         ~Exists(ban[Key(w)[1]]) \/ Whole(ban[Key(w)[1]])
  PROVE  AfreshInv'
<1>1. TimesInv'
  BY DEF AfreshInv, TimesInv
<1>2. WayInv'
  BY DEF AfreshInv, WayInv, Reachable, Exists, Whole
<1>3. CounterDiesBeforeBan'
  <2> SUFFICES ASSUME NEW k \in Keys, Exists(ban[k[1]])
               PROVE  count'[k].ttl <= ban[k[1]].ttl
    BY DEF CounterDiesBeforeBan, Exists
  <2>1. CASE k # Key(w)
    BY <2>1 DEF AfreshInv, CounterDiesBeforeBan
  <2>2. CASE k = Key(w)
    <3>1. /\ count'[k].ttl <= WindowSeconds[k[2]]
          /\ WindowSeconds[k[2]] <= ban[k[1]].ttl
      BY <2>2 DEF Whole, Keys
    <3>2. /\ count'[k].ttl \in Int /\ WindowSeconds[k[2]] \in Int
          /\ ban[k[1]].ttl \in Int
      BY LimiterAssumption DEF Keys, TypeOK, KeyStates, NoExpiry
    <3>3. QED
      BY <3>1, <3>2
  <2>3. QED
    BY <2>1, <2>2
<1>4. QED
  BY <1>1, <1>2, <1>3 DEF AfreshInv

\* The end of a handler that sets no ban keeps the invariant.
LEMMA AfreshEnd ==
  ASSUME AfreshInv, TypeOK, TypeOK', NEW w \in Workers, UNCHANGED <<connected, count>>,
         \A v \in Workers : v # w => pc'[v] = pc[v] /\ job'[v] = job[v],
         pc'[w] = "idle",
         \A ip \in IPs : ban'[ip] = ban[ip] \/ (~Exists(ban'[ip]) /\ ban'[ip].ttl # NoExpiry)
  PROVE  AfreshInv'
<1>1. \A k \in Keys : count'[k].ttl <= count[k].ttl
  BY DEF TypeOK, KeyStates, NoExpiry
<1>2. \A v \in Workers : pc'[v] \in {"incr", "expire"} =>
        job'[v].ip = job[v].ip /\ pc[v] \in {"incr", "expire"}
  OBVIOUS
<1>3. QED
  BY <1>1, <1>2, AfreshFrame

\* A step with prompt requests, in which nothing fails, keeps the invariant.
LEMMA AfreshStep ==
  ASSUME faults = 0, faults' = 0, ~Late, BansOutlastWindows, AfreshInv, TypeOK, TypeOK',
         [PromptNext]_vars
  PROVE  AfreshInv'
<1>0. JobsOK /\ ~Fault
  BY DEF TypeOK, JobsOK, Fault
<1>a. \A k \in Keys : count[k].ttl \in Int
  BY DEF TypeOK, KeyStates, NoExpiry
<1>1. ASSUME NEW w \in Workers, CheckRequestLimit(w)
      PROVE  AfreshInv'
  <2>1. \A v \in Workers : v # w => pc'[v] = pc[v] /\ job'[v] = job[v]
    BY <1>1, OthersStay
  <2>2. CASE /\ UNCHANGED <<connected, ban, count>>
             /\ pc'[w] \notin {"incr", "expire"}
    <3>1. /\ \A k \in Keys : count'[k].ttl <= count[k].ttl
          /\ \A v \in Workers : pc'[v] \in {"incr", "expire"} =>
               job'[v].ip = job[v].ip /\ pc[v] \in {"incr", "expire"}
      BY <1>a, <2>1, <2>2
    <3>2. QED
      BY <2>2, <3>1, AfreshFrame
  <2>3. ASSUME NEW ip \in IPs, NEW ep \in Endpoints, HandleRequest(w, ip, ep)
        PROVE  AfreshInv'
    BY <2>2, <2>3 DEF HandleRequest, Goto, clientVars, TypeOK
  <2>4. CASE IsBlacklisted(w)
    <3>1. /\ UNCHANGED <<connected, ban, count>> /\ job[w] \in Jobs
          /\ pc[w] = "isBlacklisted" /\ pc'[w] \in {"idle", "incr"}
      BY <1>0, <2>4, BusyWorker DEF IsBlacklisted, Blacklisted, Finish, Goto, TypeOK
    <3>2. CASE pc'[w] = "idle"
      BY <2>2, <3>1, <3>2
    <3>3. CASE pc'[w] = "incr"
      <4>1. Reachable(w) => ~Exists(ban[job[w].ip]) /\ job'[w].ip = job[w].ip
        BY <1>0, <2>4, <3>1, <3>3
        DEF IsBlacklisted, Blacklisted, NoEffect, Finish, Goto, TypeOK, Jobs
      <4>2. QED
        <5>1. /\ \A k \in Keys : count'[k].ttl <= count[k].ttl
              /\ \A v \in Workers : pc'[v] \in {"incr", "expire"} /\ Reachable(v) =>
                   /\ job'[v].ip = job[v].ip
                   /\ pc[v] \in {"incr", "expire"} \/ ~Exists(ban[job[v].ip])
          BY <1>a, <2>1, <3>1, <4>1
        <5>2. QED
          BY <3>1, <5>1, AfreshFrame
    <3>4. QED
      BY <3>1, <3>2, <3>3
  <2>5. CASE IncrementCount(w)
    <3>1. /\ UNCHANGED <<connected, ban>> /\ job[w] \in Jobs /\ Key(w) \in Keys
          /\ pc[w] = "incr"
          /\ job'[w] = job[w] \/ job'[w] = [job[w] EXCEPT !.counted = TRUE]
          /\ UNCHANGED count \/ count' = [count EXCEPT ![Key(w)] = Incr(@)]
      BY <1>0, <2>5, BusyWorker DEF IncrementCount, TypeOK
    <3>2. job'[w].ip = job[w].ip
      BY <3>1 DEF Jobs
    <3>3. Incr(count[Key(w)]).ttl <= count[Key(w)].ttl
      <4>1. count[Key(w)] \in KeyStates
        BY <3>1 DEF TypeOK
      <4>2. QED
        BY <4>1 DEF KeyStates, Incr, Exists, NoExpiry
    <3>4. \A k \in Keys : count'[k].ttl <= count[k].ttl
      BY <1>a, <3>1, <3>3 DEF TypeOK
    <3>5. \A v \in Workers : pc'[v] \in {"incr", "expire"} =>
            job'[v].ip = job[v].ip /\ pc[v] \in {"incr", "expire"}
      BY <2>1, <3>1, <3>2
    <3>6. QED
      BY <3>1, <3>4, <3>5, AfreshFrame
  <2>6. CASE ExpireCount(w)
    <3>1. /\ UNCHANGED <<connected, ban, job>> /\ Key(w) \in Keys
          /\ pc[w] = "expire" /\ pc'[w] = "get"
          /\ \/ UNCHANGED count
             \/ /\ Reachable(w)
                /\ count' = [count EXCEPT ![Key(w)] = Expire(@, WindowSeconds[job[w].ep])]
      BY <1>0, <2>6, BusyWorker
      DEF ExpireCount, Answers, ReplyLost, Goto, TypeOK
    <3>2. CASE UNCHANGED count
      BY <2>2, <3>1, <3>2
    <3>3. CASE /\ Reachable(w)
               /\ count' = [count EXCEPT ![Key(w)] = Expire(@, WindowSeconds[job[w].ep])]
      <4>1. \A k \in Keys : k # Key(w) => count'[k] = count[k]
        BY <3>1, <3>3 DEF TypeOK
      <4>2. count'[Key(w)].ttl <= WindowSeconds[Key(w)[2]]
        <5>1. count[Key(w)] \in KeyStates /\ WindowSeconds[Key(w)[2]] \in Nat \ {0}
          BY <3>1, LimiterAssumption DEF TypeOK, Keys
        <5>2. count'[Key(w)] = Expire(count[Key(w)], WindowSeconds[Key(w)[2]])
          BY <3>1, <3>3 DEF TypeOK, Key
        <5>3. QED
          BY <5>1, <5>2 DEF Expire, Exists, KeyStates
      <4>3. ~Exists(ban[Key(w)[1]]) \/ Whole(ban[Key(w)[1]])
        BY <3>1, <3>3 DEF AfreshInv, WayInv, Key
      <4>4. QED
        BY <2>1, <3>1, <3>3, <4>1, <4>2, <4>3, AfreshExpire
    <3>4. QED
      BY <3>1, <3>2, <3>3
  <2>7. CASE CheckCount(w)
    BY <2>2, <2>7 DEF CheckCount, OverLimit, Admit, Goto, TypeOK
  <2>8. CASE BanClient(w)
    <3>1. /\ UNCHANGED <<connected, count>> /\ job[w] \in Jobs
          /\ pc'[w] = "idle"
          /\ UNCHANGED ban \/ ban' = [ban EXCEPT ![job[w].ip] = SetEx(BanTimeSeconds[job[w].ep])]
      BY <1>0, <2>8, BusyWorker DEF BanClient, Finish, Goto, TypeOK
    <3>2. CASE UNCHANGED ban
      BY <2>2, <3>1, <3>2
    <3>3. CASE ban' = [ban EXCEPT ![job[w].ip] = SetEx(BanTimeSeconds[job[w].ep])]
      <4>1. /\ job[w].ip \in IPs /\ BanTimeSeconds[job[w].ep] \in Nat \ {0}
            /\ \A e \in Endpoints : WindowSeconds[e] <= BanTimeSeconds[job[w].ep]
        BY <3>1, JobFields, LimiterAssumption DEF BansOutlastWindows
      <4>2. QED
        BY <2>1, <3>1, <3>3, <4>1, AfreshBan
    <3>4. QED
      BY <3>1, <3>2, <3>3
  <2>9. QED
    BY <1>1, <2>3, <2>4, <2>5, <2>6, <2>7, <2>8 DEF CheckRequestLimit
<1>2. ASSUME NEW w \in Workers, AdminChange(w) \/ EndRoute(w)
      PROVE  /\ \A v \in Workers : v # w => pc'[v] = pc[v] /\ job'[v] = job[v]
             /\ pc'[w] = "idle" /\ UNCHANGED <<connected, count>>
  BY <1>2, OthersStay DEF AdminChange, EndRoute, Finish, Goto, clientVars, TypeOK
<1>3. ASSUME NEW w \in Workers, AddToBlacklist(w)
      PROVE  AfreshInv'
  <2>1. PICK ip \in IPs, seconds \in AdminBanSeconds :
          /\ AdminChange(w)
          /\ ban' = [ban EXCEPT ![ip] = SetEx(seconds)] \/ UNCHANGED ban
    BY <1>3 DEF AddToBlacklist
  <2>2. seconds \in Nat \ {0} /\ \A e \in Endpoints : WindowSeconds[e] <= seconds
    BY LayerAssumption DEF BansOutlastWindows
  <2>3. CASE ban' = [ban EXCEPT ![ip] = SetEx(seconds)]
    BY <1>2, <2>1, <2>2, <2>3, AfreshBan
  <2>4. CASE UNCHANGED ban
    BY <1>2, <2>1, <2>4, AfreshEnd
  <2>5. QED
    BY <2>1, <2>3, <2>4
<1>4. ASSUME NEW w \in Workers, RemoveFromBlacklist(w)
      PROVE  AfreshInv'
  <2>1. PICK ip \in IPs :
          /\ AdminChange(w)
          /\ ban' = [ban EXCEPT ![ip] = Missing] \/ UNCHANGED ban
    BY <1>4 DEF RemoveFromBlacklist
  <2>2. ~Exists(Missing) /\ Missing.ttl # NoExpiry
    BY DEF Missing, Exists, NoExpiry
  <2>3. \A i \in IPs : ban'[i] = ban[i] \/ ban'[i] = Missing
    BY <2>1 DEF TypeOK
  <2>4. \A i \in IPs : ban'[i] = ban[i] \/ (~Exists(ban'[i]) /\ ban'[i].ttl # NoExpiry)
    BY <2>2, <2>3
  <2>5. QED
    BY <1>2, <2>1, <2>4, AfreshEnd
<1>5. ASSUME NEW w \in Workers, EndRoute(w)
      PROVE  AfreshInv'
  <2>1. UNCHANGED ban
    BY <1>5 DEF EndRoute
  <2>2. QED
    BY <1>2, <1>5, <2>1, AfreshEnd
<1>6. ASSUME NEW r \in Replicas, Restart(r)
      PROVE  AfreshInv'
  BY <1>0, <1>6 DEF Restart
<1>7. CASE (\A w \in Workers : pc[w] = "idle") /\ Tick
  <2>1. /\ pc' = pc /\ connected' = connected
        /\ \A ip \in IPs : ban'[ip] = Age(ban[ip])
        /\ \A k \in Keys : count'[k] = Age(count[k])
    BY <1>7 DEF Tick, clientVars
  <2>2. TimesInv'
    <3>1. \A ip \in IPs : ban'[ip].ttl # NoExpiry
      BY <2>1, AgeTimes DEF AfreshInv, TimesInv, TypeOK
    <3>2. ASSUME NEW k \in Keys
          PROVE  count'[k].ttl <= WindowSeconds[k[2]]
      <4>1. /\ count'[k] \in KeyStates /\ count[k] \in KeyStates
            /\ WindowSeconds[k[2]] \in Nat
            /\ count'[k].ttl <= count[k].ttl /\ count[k].ttl <= WindowSeconds[k[2]]
        BY <2>1, AgeTimes, LimiterAssumption DEF AfreshInv, TimesInv, TypeOK, Keys
      <4>2. QED
        BY <4>1 DEF KeyStates, NoExpiry
    <3>3. QED
      BY <3>1, <3>2 DEF TimesInv
  <2>3. WayInv'
    BY <1>7, <2>1 DEF WayInv
  <2>4. CounterDiesBeforeBan'
    <3> SUFFICES ASSUME NEW k \in Keys, Exists(ban'[k[1]])
                 PROVE  count'[k].ttl <= ban'[k[1]].ttl
      BY DEF CounterDiesBeforeBan, Exists
    <3>1. /\ k[1] \in IPs /\ ban[k[1]] \in KeyStates /\ count[k] \in KeyStates
          /\ ban[k[1]].ttl # NoExpiry
      BY DEF Keys, TypeOK, AfreshInv, TimesInv
    <3>2. Exists(ban[k[1]]) /\ count[k].ttl <= ban[k[1]].ttl
      BY <2>1, <3>1, AgeKey DEF AfreshInv, CounterDiesBeforeBan
    <3>3. QED
      BY <2>1, <3>1, <3>2, AgeTimes
  <2>5. QED
    BY <2>2, <2>3, <2>4 DEF AfreshInv
<1>8. CASE UNCHANGED vars
  BY <1>8 DEF vars, limiterVars, clientVars, AfreshInv, TimesInv, WayInv, CounterDiesBeforeBan,
              Exists, Whole, Reachable
<1>9. QED
  BY <1>1, <1>3, <1>4, <1>5, <1>6, <1>7, <1>8 DEF PromptNext, Work, Worker

\* When no request takes as long as a tick and no ban is shorter than a
\* window, then until something fails an address whose ban ends starts afresh,
\* for any number of workers, replicas and paths, and with administrators who
\* ban and unban at any time.
THEOREM BannedStartsAfresh ==
  ASSUME BansOutlastWindows
  PROVE  PromptSpec => [](faults = 0 => CounterDiesBeforeBan)
<1> DEFINE IInv == TypeOK /\ DelaysInv /\ (faults = 0 => AfreshInv)
<1>1. Init => IInv
  <2> SUFFICES ASSUME Init PROVE IInv
    OBVIOUS
  <2>1. PICK loaded \in SUBSET Predefined :
               ban = LoadPredefined([ip \in IPs |-> Missing], loaded)
    BY DEF Init, Loadable
  <2>2. \A ip \in IPs : ban[ip].ttl # NoExpiry
    BY <2>1, LayerAssumption DEF LoadPredefined, SetEx, Missing, NoExpiry
  <2>3. \A k \in Keys : count[k].ttl = 0 /\ k[1] \in IPs /\ WindowSeconds[k[2]] \in Nat
    BY LimiterAssumption DEF Init, Missing, Keys
  <2>4. \A w \in Workers : pc[w] = "idle"
    BY DEF Init
  <2>5. TypeOK /\ DelaysInv
    BY TypeInit, DelaysInit
  <2>6. \A ip \in IPs : ban[ip].ttl >= 0
    BY <2>2, <2>5 DEF TypeOK, KeyStates, NoExpiry
  <2>7. QED
    BY <2>2, <2>3, <2>4, <2>5, <2>6 DEF AfreshInv, TimesInv, WayInv, CounterDiesBeforeBan
<1>2. IInv /\ [PromptNext]_vars => IInv'
  <2> SUFFICES ASSUME IInv, [PromptNext]_vars PROVE IInv'
    OBVIOUS
  <2>1. [Next]_vars
    BY DEF PromptNext, Next
  <2>2. TypeOK' /\ DelaysInv' /\ faults' >= faults /\ (Late => faults > 0)
    BY <2>1, TypeStep, DelaysStep
  <2>3. faults' = 0 => faults = 0 /\ ~Late
    BY <2>2 DEF TypeOK
  <2>4. QED
    BY <2>2, <2>3, AfreshStep
<1>3. IInv => (faults = 0 => CounterDiesBeforeBan)
  BY DEF AfreshInv
<1>4. QED
  BY <1>1, <1>2, <1>3, PTL DEF PromptSpec

=============================================================================
