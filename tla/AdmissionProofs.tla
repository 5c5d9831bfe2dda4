---------------------------- MODULE AdmissionProofs ----------------------------
(***************************************************************************)
(* SecurityLayer implements Admission, for every value of its constants.   *)
(***************************************************************************)
EXTENDS SecurityLayerProofs

\* The state of the abstract specification, in the terms of the code.
Counting == { k \in Keys : Exists(count[k]) }
Banned   == { ip \in IPs : Exists(ban[ip]) }

\* A request that was counted has a replica with Redis.
CountedInv ==
  \A w \in Workers : pc[w] # "idle" /\ job[w].counted => Reachable(w)

\* A request is counted by an INCR that reached Redis, and a replica loses its
\* connection, as the client sees it, only together with its requests.
LEMMA CountedStep ==
  ASSUME CountedInv, TypeOK, TypeOK', [Next]_vars
  PROVE  CountedInv'
<1>0. JobsOK
  BY DEF TypeOK, JobsOK
<1>1. ASSUME NEW w \in Workers, CheckRequestLimit(w) \/ AdminChange(w) \/ EndRoute(w),
             pc'[w] # "idle" /\ job'[w].counted => Reachable(w)
      PROVE  CountedInv'
  <2>1. \A v \in Workers : v # w => pc'[v] = pc[v] /\ job'[v] = job[v]
    BY <1>1, OthersStay
  <2>2. UNCHANGED connected
    BY <1>1 DEF CheckRequestLimit, HandleRequest, IsBlacklisted, IncrementCount, ExpireCount,
                CheckCount, BanClient, AdminChange, EndRoute, clientVars
  <2>3. QED
    BY <1>1, <2>1, <2>2 DEF CountedInv, Reachable
<1>2. ASSUME NEW w \in Workers, CheckRequestLimit(w)
      PROVE  pc'[w] # "idle" /\ job'[w].counted => Reachable(w)
  <2>1. ASSUME NEW ip \in IPs, NEW ep \in Endpoints, HandleRequest(w, ip, ep)
        PROVE  ~job'[w].counted
    BY <2>1 DEF HandleRequest, TypeOK
  <2>2. CASE IncrementCount(w)
    <3>1. Answers(w) \/ ReplyLost(w) => Reachable(w)
      BY DEF Answers, ReplyLost
    <3>2. pc[w] # "idle"
      BY <2>2 DEF IncrementCount
    <3>3. QED
      BY <2>2, <3>1, <3>2 DEF IncrementCount, CountedInv
  <2>3. ASSUME pc[w] # "idle", job'[w] = job[w] \/ pc'[w] = "idle"
        PROVE  pc'[w] # "idle" /\ job'[w].counted => Reachable(w)
    BY <2>3 DEF CountedInv
  <2>4. CASE IsBlacklisted(w) \/ ExpireCount(w) \/ CheckCount(w) \/ BanClient(w)
    <3>1. pc[w] # "idle"
      BY <2>4 DEF IsBlacklisted, ExpireCount, CheckCount, BanClient
    <3>2. job'[w] = job[w] \/ pc'[w] = "idle"
      BY <2>4 DEF IsBlacklisted, ExpireCount, CheckCount, BanClient, Finish, Goto, TypeOK
    <3>3. QED
      BY <2>3, <3>1, <3>2
  <2>5. QED
    BY <1>2, <2>1, <2>2, <2>4 DEF CheckRequestLimit
<1>3. ASSUME NEW w \in Workers, AdminChange(w) \/ EndRoute(w)
      PROVE  pc'[w] = "idle"
  BY <1>3 DEF AdminChange, EndRoute, Finish, Goto, TypeOK
<1>4. ASSUME NEW r \in Replicas, Restart(r)
      PROVE  CountedInv'
  <2>1. \A w \in Workers : pc'[w] # "idle" =>
          pc'[w] = pc[w] /\ job'[w] = job[w] /\ ReplicaOf[w] # r
    BY <1>4 DEF Restart
  <2>2. \A w \in Workers : pc'[w] # "idle" => connected'[ReplicaOf[w]] = connected[ReplicaOf[w]]
    BY <1>4, <2>1, WorkersAssumption DEF Restart, TypeOK
  <2>3. QED
    BY <2>1, <2>2 DEF CountedInv, Reachable
<1>5. CASE Late \/ UNCHANGED vars
  BY <1>5, LateFrame DEF vars, limiterVars, clientVars, CountedInv, Reachable
<1>6. CASE Tick
  <2>1. UNCHANGED <<pc, connected>>
    BY <1>6 DEF Tick, clientVars
  <2>2. ASSUME NEW w \in Workers, pc[w] # "idle", job'[w].counted
        PROVE  job[w].counted
    <3>1. job[w] \in Jobs
      BY <1>0, <2>2, BusyWorker
    <3>2. job'[w] = job[w] \/ job'[w] = [job[w] EXCEPT !.counted = FALSE]
      BY <1>6 DEF Tick
    <3>3. QED
      BY <2>2, <3>1, <3>2 DEF Jobs
  <2>3. QED
    BY <2>1, <2>2 DEF CountedInv, Reachable
<1>7. QED
  BY <1>1, <1>2, <1>3, <1>4, <1>5, <1>6
  DEF Next, Work, Worker, AddToBlacklist, RemoveFromBlacklist

\* What the steps need: the invariants of both bounds.
LayerInv ==
  TypeOK /\ FreshJobs /\ AdmissionInv /\ AdmissionBound /\ LeakInv /\ CountedInv

\* The invariants hold, together.
LEMMA LayerInvariant == Spec => []LayerInv
<1>1. Init => LayerInv
  BY TypeInit, AdmissionInit, LeakInit DEF LayerInv, CountedInv, Init
<1>2. LayerInv /\ [Next]_vars => LayerInv'
  BY TypeStep, FreshStep, AdmissionStep, AdmissionBoundStep, LeakStep, CountedStep DEF LayerInv
<1>3. QED
  BY <1>1, <1>2, PTL DEF Spec

\* The instance speaks of the same keys, and its variables are the ones above.
LEMMA PromiseState ==
  /\ Promise!Keys = Keys
  /\ Promise!vars = <<Counting, admitted, unread, Banned, leaked, unasked>>
  BY DEF Promise!Keys, Keys, Promise!vars, Counting, Banned

\* A step that creates or removes no key, and changes no history, is a
\* stutter.
LEMMA PromiseStutter ==
  ASSUME Counting' = Counting, Banned' = Banned, UNCHANGED history
  PROVE  UNCHANGED Promise!vars
  BY DEF Promise!vars, Counting, Banned, history

\* An INCR, at once or late, begins to count a key, or goes on.
LEMMA PromiseIncrement ==
  ASSUME LayerInv, NEW k \in Keys, count' = [count EXCEPT ![k] = Incr(@)],
         UNCHANGED <<ban, history>>
  PROVE  [Promise!Next]_(Promise!vars)
<1>1. \A j \in Keys : Exists(count'[j]) <=> j = k \/ Exists(count[j])
  <2>1. count \in [Keys -> KeyStates]
    BY DEF LayerInv, TypeOK
  <2>2. Exists(Incr(count[k]))
    BY <2>1, IncrKey DEF Exists, KeyStates
  <2>3. QED
    BY <2>1, <2>2
<1>2. Promise!Count(k)
  BY <1>1 DEF Promise!Count, history
<1>3. QED
  BY <1>2, PromiseState DEF Promise!Next

\* An EXPIRE, at once or late, creates and removes no key.
LEMMA PromiseExpire ==
  ASSUME LayerInv, NEW k \in Keys, NEW seconds \in Nat \ {0},
         count' = [count EXCEPT ![k] = Expire(@, seconds)], UNCHANGED <<ban, history>>
  PROVE  [Promise!Next]_(Promise!vars)
<1>1. \A j \in Keys : Exists(count'[j]) <=> Exists(count[j])
  <2>1. count \in [Keys -> KeyStates]
    BY DEF LayerInv, TypeOK
  <2>2. Exists(Expire(count[k], seconds)) <=> Exists(count[k])
    BY <2>1, ExpireKey DEF Exists
  <2>3. QED
    BY <2>1, <2>2
<1>2. QED
  BY <1>1, PromiseStutter DEF Counting, Banned

\* A request that is past the blacklist could ask it, or is noted.
LEMMA PromiseAsk ==
  ASSUME LayerInv, NEW w \in Workers, IsBlacklisted(w)
  PROVE  [Promise!Next]_(Promise!vars)
<1>1. UNCHANGED <<ban, count, admitted, unread, leaked>> /\ job[w].ip \in IPs
  BY BusyWorker, JobFields DEF IsBlacklisted, LayerInv, TypeOK, JobsOK
<1>2. CASE UNCHANGED unasked
  BY <1>1, <1>2, PromiseStutter DEF Counting, Banned, history
<1>3. CASE /\ Exists(ban[job[w].ip])
           /\ unasked' = [unasked EXCEPT ![job[w].ip] = @ + 1]
  <2>1. Promise!Unasked(job[w].ip)
    BY <1>1, <1>3 DEF Promise!Unasked
  <2>2. QED
    BY <1>1, <2>1 DEF Promise!Next
<1>4. QED
  BY <1>2, <1>3 DEF IsBlacklisted

\* A counted request has a counter.
LEMMA CountedKeyExists ==
  ASSUME LayerInv, NEW w \in Workers, pc[w] = "get", job[w].counted
  PROVE  Key(w) \in Keys /\ Exists(count[Key(w)])
<1>1. Key(w) \in Keys
  BY BusyWorker DEF LayerInv, TypeOK, JobsOK
<1>2. w \in Unjudged(Key(w)) /\ Unjudged(Key(w)) \in SUBSET Workers
  BY DEF Unjudged
<1>3. Cardinality(Unjudged(Key(w))) \in Nat
  BY <1>2, WorkerSet
<1>4. Cardinality({}) = 0 /\ Cardinality(Unjudged(Key(w))) >= 1
  BY <1>2, <1>3, OneFewer, FS_EmptySet
<1>5. admitted[Key(w)] \in Nat /\ count[Key(w)].val \in Nat
  BY <1>1 DEF LayerInv, TypeOK, KeyStates
<1>6. QED
  BY <1>1, <1>3, <1>4, <1>5 DEF LayerInv, AdmissionInv, Exists

\* A check lets a request through for a unit of its quota, unless it could not
\* read the count, or past a ban for a place among the requests under way, or
\* both.
LEMMA PromiseCheck ==
  ASSUME LayerInv, LayerInv', NEW w \in Workers, CheckCount(w)
  PROVE  [Promise!Next]_(Promise!vars)
<1>1. PICK ip \in IPs, ep \in Endpoints : job[w].ip = ip /\ job[w].ep = ep
  BY BusyWorker, JobFields DEF CheckCount, LayerInv, TypeOK, JobsOK
<1> DEFINE k == <<ip, ep>>
<1>2. /\ Key(w) = k /\ k \in Keys /\ k[2] = ep
      /\ pc[w] = "get" /\ UNCHANGED <<count, ban, unasked>>
  BY <1>1 DEF CheckCount, Key, Keys
<1>3. /\ admitted \in [Keys -> Nat] /\ leaked \in [IPs -> Nat]
      /\ unread \in [Keys -> Nat] /\ unasked \in [IPs -> Nat]
      /\ RequestLimit[ep] \in Nat
  BY LimiterAssumption DEF LayerInv, TypeOK
<1>4. ASSUME admitted' = [admitted EXCEPT ![k] = @ + 1], job[w].counted,
             UNCHANGED unread \/ unread' = [unread EXCEPT ![k] = @ + 1]
      PROVE  Promise!Take(k)
  <2>1. k \in Counting
    BY <1>2, <1>4, CountedKeyExists DEF Counting
  <2>2. CASE UNCHANGED unread
    <3>1. admitted'[k] <= RequestLimit[ep] + unread'[k]
      BY <1>2 DEF LayerInv, AdmissionBound
    <3>2. admitted[k] < RequestLimit[ep] + unread[k]
      BY <1>2, <1>3, <1>4, <2>2, <3>1
    <3>3. QED
      BY <1>2, <1>4, <2>1, <2>2, <3>2 DEF Promise!Take, Counting
  <2>3. CASE unread' = [unread EXCEPT ![k] = @ + 1]
    BY <1>4, <2>1, <2>3 DEF Promise!Take, Counting
  <2>4. QED
    BY <1>4, <2>2, <2>3
<1>5. ASSUME leaked' = [leaked EXCEPT ![ip] = @ + 1], Exists(ban[ip])
      PROVE  ip \in Banned /\ leaked[ip] < Cardinality(Workers) + unasked[ip]
  <2>1. leaked'[ip] + Cardinality(Underway(ip)') <= Cardinality(Workers) + unasked[ip]
    BY <1>2, <1>5 DEF LayerInv, LeakInv
  <2>2. Underway(ip)' \in SUBSET Workers
    BY DEF Underway
  <2>3. Cardinality(Underway(ip)') \in Nat /\ Cardinality(Workers) \in Nat
    BY <2>2, WorkerSet
  <2>4. QED
    BY <1>3, <1>5, <2>1, <2>3 DEF Banned
<1>6. /\ \/ UNCHANGED <<admitted, unread>>
         \/ /\ admitted' = [admitted EXCEPT ![k] = @ + 1] /\ job[w].counted
            /\ UNCHANGED unread \/ unread' = [unread EXCEPT ![k] = @ + 1]
      /\ \/ UNCHANGED leaked
         \/ leaked' = [leaked EXCEPT ![ip] = @ + 1] /\ Exists(ban[ip])
  BY <1>1, <1>2 DEF CheckCount, Admit, Note
<1>7. Exists(ban[ip]) /\ job[w].counted =>
        \/ UNCHANGED <<admitted, unread>>
        \/ leaked'[ip] = leaked[ip] + 1
  BY <1>1, <1>2, <1>3 DEF CheckCount, Admit, LayerInv, CountedInv
<1>8. Counting' = Counting /\ Banned' = Banned
  BY <1>2 DEF Counting, Banned
<1>9. CASE UNCHANGED leaked
  <2>1. CASE UNCHANGED <<admitted, unread>>
    BY <1>2, <1>8, <1>9, <2>1, PromiseStutter DEF history
  <2>2. CASE Promise!Take(k) /\ ~Exists(ban[ip])
    <3>1. Promise!Admit(k)
      BY <1>2, <1>8, <1>9, <2>2 DEF Promise!Admit, Counting, Banned
    <3>2. QED
      BY <1>2, <3>1, PromiseState DEF Promise!Next
  <2>3. UNCHANGED <<admitted, unread>> \/ ~Exists(ban[ip])
    <3>1. leaked'[ip] # leaked[ip] + 1
      BY <1>3, <1>9
    <3>2. QED
      BY <1>6, <1>7, <3>1
  <2>4. QED
    BY <1>4, <1>6, <2>1, <2>2, <2>3
<1>10. CASE leaked' = [leaked EXCEPT ![ip] = @ + 1] /\ Exists(ban[ip])
  <2>1. UNCHANGED <<admitted, unread>> \/ Promise!Take(k)
    BY <1>4, <1>6
  <2>2. Promise!Leak(ip)
    BY <1>2, <1>5, <1>8, <1>10, <2>1 DEF Promise!Leak, Counting, Banned
  <2>3. QED
    BY <2>2 DEF Promise!Next
<1>11. QED
  BY <1>6, <1>9, <1>10

\* A SET of bans bans, and does nothing to an address that was banned.
LEMMA PromiseBan ==
  ASSUME LayerInv, NEW S \in SUBSET IPs, UNCHANGED <<count, history>>,
         \A ip \in IPs : Exists(ban'[ip]) <=> ip \in S \/ Exists(ban[ip])
  PROVE  [Promise!Next]_(Promise!vars)
<1>1. Promise!Ban(S)
  BY DEF Promise!Ban, history
<1>2. QED
  BY <1>1 DEF Promise!Next

\* A step that ends bans and counts clears what was noted of them.
LEMMA PromiseLapse ==
  ASSUME LayerInv, LayerInv', NEW S \in SUBSET Banned, NEW K \in SUBSET Counting,
         Banned' = Banned \ S, Counting' = Counting \ K,
         leaked' = [ip \in IPs |-> IF ip \in S THEN 0 ELSE leaked[ip]],
         unasked' = [ip \in IPs |-> IF ip \in S THEN 0 ELSE unasked[ip]],
         admitted' = [k \in Keys |-> IF k \in K THEN 0 ELSE admitted[k]],
         unread' = [k \in Keys |-> IF k \in K THEN 0 ELSE unread[k]]
  PROVE  [Promise!Next]_(Promise!vars)
<1>1. Promise!Lapse(S, K)
  BY PromiseState DEF Promise!Lapse, Counting, Banned
<1>2. QED
  BY <1>1 DEF Promise!Next, Counting, Banned

\* A tick ends what lapses.
LEMMA PromiseTick ==
  ASSUME LayerInv, LayerInv', Tick
  PROVE  [Promise!Next]_(Promise!vars)
<1> DEFINE S == { ip \in Banned : ~Exists(Age(ban[ip])) }
           K == { k \in Counting : ~Exists(Age(count[k])) }
<1>1. /\ ban \in [IPs -> KeyStates] /\ count \in [Keys -> KeyStates]
      /\ leaked \in [IPs -> Nat] /\ admitted \in [Keys -> Nat]
  BY DEF LayerInv, TypeOK
<1>2. Banned' = Banned \ S
  BY <1>1, AgeKey DEF Tick, Banned
<1>3. Counting' = Counting \ K
  BY <1>1, AgeKey DEF Tick, Counting
<1>4. /\ leaked' = [ip \in IPs |-> IF ip \in S THEN 0 ELSE leaked[ip]]
      /\ unasked' = [ip \in IPs |-> IF ip \in S THEN 0 ELSE unasked[ip]]
  <2>1. \A ip \in IPs : ~Exists(ban[ip]) => leaked[ip] = 0 /\ unasked[ip] = 0
    BY DEF LayerInv, LeakInv
  <2>2. \A ip \in IPs : Exists(Age(ban[ip])) => Exists(ban[ip])
    BY <1>1, AgeKey
  <2>3. \A ip \in IPs : /\ (IF Exists(Age(ban[ip])) THEN leaked[ip] ELSE 0)
                             = IF ip \in S THEN 0 ELSE leaked[ip]
                        /\ (IF Exists(Age(ban[ip])) THEN unasked[ip] ELSE 0)
                             = IF ip \in S THEN 0 ELSE unasked[ip]
    BY <2>1, <2>2 DEF Banned
  <2>4. QED
    BY <2>3 DEF Tick
<1>5. /\ admitted' = [k \in Keys |-> IF k \in K THEN 0 ELSE admitted[k]]
      /\ unread' = [k \in Keys |-> IF k \in K THEN 0 ELSE unread[k]]
  BY DEF Tick, Counting
<1>6. QED
  BY <1>2, <1>3, <1>4, <1>5, PromiseLapse

\* The removal of a ban by an administrator, at once or late, ends it, if
\* there was one.
LEMMA PromiseRemove ==
  ASSUME LayerInv, LayerInv', NEW ip \in IPs, ban' = [ban EXCEPT ![ip] = Missing],
         Unbanned(ip), UNCHANGED <<count, admitted, unread>>
  PROVE  [Promise!Next]_(Promise!vars)
<1>1. /\ ban \in [IPs -> KeyStates]
      /\ leaked \in [IPs -> Nat] /\ unasked \in [IPs -> Nat]
      /\ admitted \in [Keys -> Nat] /\ unread \in [Keys -> Nat]
  BY DEF LayerInv, TypeOK
<1> DEFINE S == Banned \cap {ip}
<1>2. Banned' = Banned \ S
  BY <1>1, MissingKey DEF Banned
<1>3. Counting' = Counting \ {}
  BY DEF Counting
<1>4. /\ leaked' = [i \in IPs |-> IF i \in S THEN 0 ELSE leaked[i]]
      /\ unasked' = [i \in IPs |-> IF i \in S THEN 0 ELSE unasked[i]]
  <2>1. ~Exists(ban[ip]) => leaked[ip] = 0 /\ unasked[ip] = 0
    BY DEF LayerInv, LeakInv
  <2>2. QED
    BY <1>1, <2>1 DEF Unbanned, Banned
<1>5. /\ admitted' = [k \in Keys |-> IF k \in {} THEN 0 ELSE admitted[k]]
      /\ unread' = [k \in Keys |-> IF k \in {} THEN 0 ELSE unread[k]]
  BY <1>1
<1>6. S \in SUBSET Banned /\ {} \in SUBSET Counting
  OBVIOUS
<1> HIDE DEF S
<1>7. QED
  BY <1>2, <1>3, <1>4, <1>5, <1>6, PromiseLapse

\* Every step is one of Admission, or a stutter.
LEMMA PromiseStep ==
  ASSUME LayerInv, LayerInv', [Next]_vars
  PROVE  [Promise!Next]_(Promise!vars)
<1>0. ban \in [IPs -> KeyStates] /\ count \in [Keys -> KeyStates]
  BY DEF LayerInv, TypeOK
<1>1. ASSUME NEW w \in Workers, CheckRequestLimit(w)
      PROVE  [Promise!Next]_(Promise!vars)
  <2>1. ASSUME NEW ip \in IPs, NEW ep \in Endpoints, HandleRequest(w, ip, ep)
        PROVE  [Promise!Next]_(Promise!vars)
    <3>1. UNCHANGED <<count, ban, history>>
      BY <2>1 DEF HandleRequest
    <3>2. QED
      BY <3>1, PromiseStutter DEF Counting, Banned
  <2>2. CASE IncrementCount(w)
    <3>1. Key(w) \in Keys /\ UNCHANGED <<ban, history>>
      BY <2>2, BusyWorker DEF IncrementCount, LayerInv, TypeOK, JobsOK
    <3>2. CASE UNCHANGED count
      BY <3>1, <3>2, PromiseStutter DEF Counting, Banned
    <3>3. QED
      BY <2>2, <3>1, <3>2, PromiseIncrement DEF IncrementCount
  <2>3. CASE ExpireCount(w)
    <3>1. /\ Key(w) \in Keys /\ WindowSeconds[job[w].ep] \in Nat \ {0}
          /\ UNCHANGED <<ban, history>>
      BY <2>3, BusyWorker, JobFields, LimiterAssumption DEF ExpireCount, LayerInv, TypeOK, JobsOK
    <3>2. CASE UNCHANGED count
      BY <3>1, <3>2, PromiseStutter DEF Counting, Banned
    <3>3. QED
      BY <2>3, <3>1, <3>2, PromiseExpire DEF ExpireCount
  <2>4. CASE BanClient(w)
    <3>1. /\ job[w].ip \in IPs /\ BanTimeSeconds[job[w].ep] \in Nat \ {0}
          /\ UNCHANGED <<count, history>>
      BY <2>4, BusyWorker, JobFields, LimiterAssumption DEF BanClient, LayerInv, TypeOK, JobsOK
    <3>2. CASE ban' = [ban EXCEPT ![job[w].ip] = SetEx(BanTimeSeconds[job[w].ep])]
      <4>1. \A ip \in IPs : Exists(ban'[ip]) <=> ip \in {job[w].ip} \/ Exists(ban[ip])
        BY <1>0, <3>1, <3>2, SetKey
      <4>2. QED
        BY <3>1, <4>1, PromiseBan
    <3>3. CASE UNCHANGED ban
      BY <3>1, <3>3, PromiseStutter DEF Counting, Banned
    <3>4. QED
      BY <2>4, <3>2, <3>3 DEF BanClient
  <2>5. QED
    BY <1>1, <2>1, <2>2, <2>3, <2>4, PromiseAsk, PromiseCheck DEF CheckRequestLimit
<1>2. ASSUME NEW w \in Workers, AddToBlacklist(w)
      PROVE  [Promise!Next]_(Promise!vars)
  <2>1. PICK i \in IPs, seconds \in AdminBanSeconds :
          /\ AdminChange(w) /\ UNCHANGED <<leaked, unasked>>
          /\ ban' = [ban EXCEPT ![i] = SetEx(seconds)] \/ UNCHANGED ban
    BY <1>2 DEF AddToBlacklist
  <2>2. UNCHANGED <<count, history>>
    BY <2>1 DEF AdminChange, history
  <2>3. CASE ban' = [ban EXCEPT ![i] = SetEx(seconds)]
    <3>1. \A ip \in IPs : Exists(ban'[ip]) <=> ip \in {i} \/ Exists(ban[ip])
      BY <1>0, <2>3, SetKey, LayerAssumption
    <3>2. QED
      BY <2>2, <3>1, PromiseBan
  <2>4. CASE UNCHANGED ban
    BY <2>2, <2>4, PromiseStutter DEF Counting, Banned
  <2>5. QED
    BY <2>1, <2>3, <2>4
<1>3. ASSUME NEW w \in Workers, RemoveFromBlacklist(w)
      PROVE  [Promise!Next]_(Promise!vars)
  <2>1. PICK i \in IPs :
          /\ AdminChange(w)
          /\ \/ ban' = [ban EXCEPT ![i] = Missing] /\ Unbanned(i)
             \/ UNCHANGED <<ban, leaked, unasked>>
    BY <1>3 DEF RemoveFromBlacklist
  <2>2. UNCHANGED <<count, admitted, unread>>
    BY <2>1 DEF AdminChange
  <2>3. CASE UNCHANGED <<ban, leaked, unasked>>
    BY <2>2, <2>3, PromiseStutter DEF Counting, Banned, history
  <2>4. QED
    BY <2>1, <2>2, <2>3, PromiseRemove
<1>4. ASSUME NEW w \in Workers, EndRoute(w)
      PROVE  [Promise!Next]_(Promise!vars)
  <2>1. UNCHANGED <<count, ban, history>>
    BY <1>4 DEF EndRoute
  <2>2. QED
    BY <2>1, PromiseStutter DEF Counting, Banned
<1>5. ASSUME NEW r \in Replicas, Restart(r)
      PROVE  [Promise!Next]_(Promise!vars)
  <2>1. UNCHANGED <<count, history>>
    BY <1>5 DEF Restart
  <2>2. PICK loaded \in SUBSET IPs : ban' = LoadPredefined(ban, loaded)
    BY <1>5, LayerAssumption DEF Restart, Loadable
  <2>3. \A ip \in IPs : Exists(ban'[ip]) <=> ip \in loaded \/ Exists(ban[ip])
    BY <2>2, SetKey, LayerAssumption DEF LoadPredefined
  <2>4. QED
    BY <2>1, <2>3, PromiseBan
<1>6. CASE Late
  <2>1. ASSUME NEW k \in Keys, LateIncr(k)
        PROVE  [Promise!Next]_(Promise!vars)
    BY <2>1, PromiseIncrement DEF LateIncr
  <2>2. ASSUME NEW k \in Keys, LateExpire(k)
        PROVE  [Promise!Next]_(Promise!vars)
    <3>1. WindowSeconds[k[2]] \in Nat \ {0}
      BY LimiterAssumption DEF Keys
    <3>2. QED
      BY <2>2, <3>1, PromiseExpire DEF LateExpire
  <2>3. ASSUME NEW i \in IPs, NEW seconds \in BanTimes, LateSet(i, seconds)
        PROVE  [Promise!Next]_(Promise!vars)
    <3>1. Exists(SetEx(seconds))
      BY SetKey, LimiterAssumption, LayerAssumption DEF BanTimes
    <3>2. \A ip \in IPs : Exists(ban'[ip]) <=> ip \in {i} \/ Exists(ban[ip])
      BY <1>0, <2>3, <3>1 DEF LateSet
    <3>3. UNCHANGED <<count, history>>
      BY <2>3 DEF LateSet
    <3>4. QED
      BY <3>2, <3>3, PromiseBan
  <2>4. ASSUME NEW i \in IPs, LateDel(i)
        PROVE  [Promise!Next]_(Promise!vars)
    BY <2>4, PromiseRemove DEF LateDel
  <2>5. QED
    BY <1>6, <2>1, <2>2, <2>3, <2>4 DEF Late
<1>7. CASE UNCHANGED vars
  <2>1. UNCHANGED <<count, ban, history>>
    BY <1>7 DEF vars, limiterVars
  <2>2. QED
    BY <2>1, PromiseStutter DEF Counting, Banned
<1>8. QED
  BY <1>1, <1>2, <1>3, <1>4, <1>5, <1>6, <1>7, PromiseTick DEF Next, Work, Worker

\* At first nothing is counted and nothing has passed a ban.
LEMMA PromiseInit ==
  ASSUME Init
  PROVE  Promise!Init
<1>1. /\ admitted = [k \in Keys |-> 0] /\ leaked = [ip \in IPs |-> 0]
      /\ unread = [k \in Keys |-> 0] /\ unasked = [ip \in IPs |-> 0]
      /\ count = [k \in Keys |-> Missing]
  BY DEF Init
<1>2. {k \in Keys : Exists(count[k])} = {}
  BY <1>1, MissingKey
<1>3. QED
  BY <1>1, <1>2, PromiseState DEF Promise!Init

\* The security layer does only what Admission allows, for any number of
\* workers, replicas, addresses, paths, failures and administrators: a living
\* counter spends no more than its quota and one unit for each count that could
\* not be read, and never gives units back; and a ban is passed by no more
\* requests than there are workers, and those that could not ask for it (on
\* the replicas that have Redis).
THEOREM LayerKeepsPromise == Spec => KeepsPromise
<1>1. Init => Promise!Init
  BY PromiseInit
<1>2. LayerInv /\ LayerInv' /\ [Next]_vars => [Promise!Next]_(Promise!vars)
  BY PromiseStep
<1>3. QED
  BY <1>1, <1>2, LayerInvariant, PTL DEF Spec, KeepsPromise, Promise!Spec

=============================================================================
