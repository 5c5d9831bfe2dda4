----------------------------- MODULE SecurityLayer -----------------------------
(***************************************************************************)
(* The security layer of the gateway: the rate limiter (RateLimiter), the  *)
(* blacklist with its admin API (BlacklistManager), the processes that     *)
(* start and restart, and Redis, in which time passes.                     *)
(***************************************************************************)
EXTENDS RateLimiter

CONSTANTS AdminEndpoints,        \* paths whose route changes the blacklist
          AdminBanSeconds,       \* values of ban_time_seconds in use
          Predefined,            \* the addresses in blacklist.txt
          PredefinedBanSeconds,  \* default of addToBlacklist: 3600
          MaxAdminOps            \* bound: changes made through the admin API

ASSUME LayerAssumption ==
  /\ AdminEndpoints \subseteq Endpoints
  /\ AdminBanSeconds \subseteq Nat \ {0}
  /\ Predefined \subseteq IPs
  /\ PredefinedBanSeconds \in Nat \ {0}
  /\ MaxAdminOps \in Nat

VARIABLE adminOps   \* changes made through the admin API so far

vars == <<limiterVars, adminOps>>

BanTimes == {BanTimeSeconds[ep] : ep \in Endpoints}
              \cup AdminBanSeconds \cup {PredefinedBanSeconds}

Commands == {IncrOf(k) : k \in Keys} \cup {ExpireOf(k) : k \in Keys}
              \cup {SetOf(ip, seconds) : ip \in IPs, seconds \in BanTimes}
              \cup {DelOf(ip) : ip \in IPs}

-----------------------------------------------------------------------------
(* Start of a process.  RedisClient::init decides once, by its PING,       *)
(* whether the client is connected; loadPredefinedBlacklist then reads the *)
(* file, if it can be opened, and bans each address of it for              *)
(* PredefinedBanSeconds, ignoring the calls that fail.  (The list it keeps *)
(* is only shown to administrators; Startup has it.)                       *)

\* The SETs a process that did, or did not, find Redis may get through.
Loadable(up) == SUBSET (IF up THEN Predefined ELSE {})

LoadPredefined(bans, loaded) ==
  [ip \in IPs |-> IF ip \in loaded THEN SetEx(PredefinedBanSeconds) ELSE bans[ip]]

\* The SETs for the addresses in "slow" were given up.
DelayPredefined(commands, slow) ==
  [c \in Commands |-> IF \E ip \in slow : c = SetOf(ip, PredefinedBanSeconds)
                        THEN commands[c] + 1 ELSE commands[c]]

\* All replicas have started: a SET for each address in "loaded" succeeded, and
\* one for each in "slow" is on its way (bound: one, of all replicas).
Init ==
  /\ connected \in [Replicas -> BOOLEAN]
  /\ \E loaded \in Loadable(\E r \in Replicas : connected[r]),
        slow   \in Loadable(\E r \in Replicas : connected[r]) :
       /\ ban = LoadPredefined([ip \in IPs |-> Missing], loaded)
       /\ delayed = DelayPredefined([c \in Commands |-> 0], slow)
       /\ faults = IF slow = {} THEN 0 ELSE 1
  /\ faults <= MaxFaults
  /\ count = [k \in Keys |-> Missing]
  /\ pc = [w \in Workers |-> "idle"]
  /\ job = [w \in Workers |-> NoJob]
  /\ adminOps = 0
  /\ admitted = [k \in Keys |-> 0] /\ unread = [k \in Keys |-> 0]
  /\ leaked = [ip \in IPs |-> 0] /\ unasked = [ip \in IPs |-> 0]

\* A process dies, with whatever its workers were doing, and starts again.
Restart(r) ==
  /\ Fault
  /\ pc'  = [w \in Workers |-> IF ReplicaOf[w] = r THEN "idle" ELSE pc[w]]
  /\ job' = [w \in Workers |-> IF ReplicaOf[w] = r THEN NoJob ELSE job[w]]
  /\ \E up \in BOOLEAN :
       /\ connected' = [connected EXCEPT ![r] = up]
       /\ \E loaded \in Loadable(up), slow \in Loadable(up) :
            /\ ban' = LoadPredefined(ban, loaded)
            /\ delayed' = DelayPredefined(delayed, slow)
  /\ UNCHANGED <<count, history, adminOps>>

-----------------------------------------------------------------------------
(* The route handlers, as far as the security state goes.                  *)

\* The history of an address whose ban is gone starts again.
Unbanned(ip) == /\ leaked'  = [leaked  EXCEPT ![ip] = 0]
                /\ unasked' = [unasked EXCEPT ![ip] = 0]

AdminChange(w) ==
  /\ pc[w] = "route"
  /\ job[w].ep \in AdminEndpoints
  /\ adminOps < MaxAdminOps
  /\ adminOps' = adminOps + 1
  /\ Finish(w)
  /\ UNCHANGED <<connected, count, admitted, unread>>

\* POST /api/v1/admin/blacklist/add by an authorized caller.
AddToBlacklist(w) ==
  \E ip \in IPs, seconds \in AdminBanSeconds :
    /\ AdminChange(w)
    /\ \/ /\ Answers(w) \/ ReplyLost(w)
          /\ ban' = [ban EXCEPT ![ip] = SetEx(seconds)]
       \/ GivesUp(w, SetOf(ip, seconds)) /\ UNCHANGED ban
    /\ UNCHANGED <<leaked, unasked>>

\* POST /api/v1/admin/blacklist/remove by an authorized caller.
RemoveFromBlacklist(w) ==
  \E ip \in IPs :
    /\ AdminChange(w)
    /\ \/ /\ Answers(w) \/ ReplyLost(w)
          /\ ban' = [ban EXCEPT ![ip] = Missing]
          /\ Unbanned(ip)
       \/ GivesUp(w, DelOf(ip)) /\ UNCHANGED <<ban, leaked, unasked>>

\* Every other end of a route handler: the other routes, an unauthorized or
\* malformed admin request, GET of the list.
EndRoute(w) ==
  /\ pc[w] = "route"
  /\ Finish(w)
  /\ UNCHANGED <<clientVars, ban, count, history, adminOps>>

Worker(w) ==
  \/ CheckRequestLimit(w) /\ UNCHANGED adminOps
  \/ AddToBlacklist(w) \/ RemoveFromBlacklist(w) \/ EndRoute(w)

-----------------------------------------------------------------------------
(* Redis executes a command that its sender gave up.                       *)

LateIncr(k) ==
  /\ Arrives(IncrOf(k))
  /\ count' = [count EXCEPT ![k] = Incr(@)]
  /\ UNCHANGED <<connected, faults, ban, pc, job, history, adminOps>>

LateExpire(k) ==
  /\ Arrives(ExpireOf(k))
  /\ count' = [count EXCEPT ![k] = Expire(@, WindowSeconds[k[2]])]
  /\ UNCHANGED <<connected, faults, ban, pc, job, history, adminOps>>

LateSet(ip, seconds) ==
  /\ Arrives(SetOf(ip, seconds))
  /\ ban' = [ban EXCEPT ![ip] = SetEx(seconds)]
  /\ UNCHANGED <<connected, faults, count, pc, job, history, adminOps>>

LateDel(ip) ==
  /\ Arrives(DelOf(ip))
  /\ ban' = [ban EXCEPT ![ip] = Missing]
  /\ Unbanned(ip)
  /\ UNCHANGED <<connected, faults, count, pc, job, admitted, unread, adminOps>>

Late == \/ \E k \in Keys : LateIncr(k) \/ LateExpire(k)
        \/ \E ip \in IPs, seconds \in BanTimes : LateSet(ip, seconds)
        \/ \E ip \in IPs : LateDel(ip)

-----------------------------------------------------------------------------
\* One tick passes in Redis.  A counter that lapses stands for no request any
\* more, so its history starts again.
Tick ==
  LET lapsed(k) == Exists(count[k]) /\ ~Exists(Age(count[k]))
  IN /\ ban'   = [ip \in IPs |-> Age(ban[ip])]
     /\ count' = [k \in Keys |-> Age(count[k])]
     /\ admitted' = [k \in Keys |-> IF lapsed(k) THEN 0 ELSE admitted[k]]
     /\ unread'   = [k \in Keys |-> IF lapsed(k) THEN 0 ELSE unread[k]]
     /\ job' = [w \in Workers |->
                  IF job[w] # NoJob /\ lapsed(Key(w))
                    THEN [job[w] EXCEPT !.counted = FALSE] ELSE job[w]]
     /\ leaked'  = [ip \in IPs |-> IF Exists(Age(ban[ip])) THEN leaked[ip] ELSE 0]
     /\ unasked' = [ip \in IPs |-> IF Exists(Age(ban[ip])) THEN unasked[ip] ELSE 0]
     /\ UNCHANGED <<clientVars, pc, adminOps>>

Work == \/ \E w \in Workers : Worker(w)
        \/ \E r \in Replicas : Restart(r)
        \/ Late

Next == Work \/ Tick

\* Time passes, and every worker that is not idle goes on: a Redis call ends
\* within socket_timeout.  Nothing makes clients send requests, and Redis need
\* not execute what nobody waits for.
Fairness ==
  /\ WF_vars(Tick)
  /\ \A w \in Workers : WF_vars(pc[w] # "idle" /\ Worker(w))

Spec == Init /\ [][Next]_vars /\ Fairness

\* The same system when no request takes as long as a tick.
PromptNext == \/ Work
              \/ (\A w \in Workers : pc[w] = "idle") /\ Tick

PromptSpec == Init /\ [][PromptNext]_vars

-----------------------------------------------------------------------------
(* Correctness.                                                            *)

TypeOK ==
  /\ connected \in [Replicas -> BOOLEAN]
  /\ ban \in [IPs -> KeyStates]
  /\ count \in [Keys -> KeyStates]
  /\ pc \in [Workers -> Steps]
  /\ job \in [Workers -> Jobs \cup {NoJob}]
  /\ \A w \in Workers : pc[w] = "idle" <=> job[w] = NoJob
  /\ faults \in Nat /\ adminOps \in Nat
  /\ delayed \in [Commands -> Nat]
  /\ admitted \in [Keys -> Nat] /\ unread \in [Keys -> Nat]
  /\ leaked \in [IPs -> Nat] /\ unasked \in [IPs -> Nat]

\* From the INCR of a key until it lapses, however the workers of all
\* replicas interleave, at most requestLimit of the requests it counted pass
\* checkRequestLimit, and one more for each GET of it that failed, although
\* INCR, EXPIRE and GET are separate commands.  (A request whose INCR failed,
\* or is executed only when the request is gone, is not counted and passes
\* beside it.)
AdmissionBound ==
  \A k \in Keys : admitted[k] <= RequestLimit[k[2]] + unread[k]

\* While an address is banned, its requests pass only if they had asked the
\* blacklist before, at most one for each worker, or could not ask it, although
\* the ban and the question are separate commands.  (On the replicas that have
\* Redis; one that has not passes every request.)
LeakBound ==
  \A ip \in IPs : leaked[ip] <= Cardinality(Workers) + unasked[ip]

\* SecurityLayer implements Admission, restarts, half-done and late calls and
\* changes by administrators included: no step takes a unit of a spent quota
\* unless the count could not be read, gives units back while the counter lives
\* or loses a counter and keeps its units; and none passes a ban unless it was
\* under way or could not ask.
Promise == INSTANCE Admission WITH
  Quota    <- RequestLimit,
  Spill    <- Cardinality(Workers),
  counting <- {k \in Keys : Exists(count[k])},
  used     <- admitted,
  banned   <- {ip \in IPs : Exists(ban[ip])}

KeepsPromise == Promise!Spec

\* A counter without a time to live would count for ever.  Outside the gap
\* between INCR and EXPIRE only a failure or a crash leaves one behind.
OrphanNeedsFault ==
  \A k \in Keys :
    count[k].ttl = NoExpiry =>
      \/ faults > 0
      \/ \E w \in Workers : pc[w] = "expire" /\ Key(w) = k

\* A ban ends: a client that keeps sending while banned does not prolong it.
BanLapses ==
  \A ip \in IPs : Exists(ban[ip]) ~> ~Exists(ban[ip])

\* A banned address starts afresh when its ban ends: each of its counters
\* lapses no later than the ban.  (When no request takes as long as a tick,
\* nothing fails, and no ban, of a limit or set by hand, is shorter than a
\* window.  NoExpiry is below every ban: OrphanNeedsFault says that it is gone
\* when the request ends.)
CounterDiesBeforeBan ==
  \A k \in Keys : Exists(ban[k[1]]) => count[k].ttl <= ban[k[1]].ttl

-----------------------------------------------------------------------------
(* What README.md says of the security layer and the code does not keep.   *)

\* README.md:47-54: POST /blacklist/add bans an address for
\* ban_time_seconds.  So exceeding a rate limit, which bans for the time of
\* that limit, does not shorten a ban that is already there.
AdminBanKept ==
  [][\A w \in Workers : BanClient(w) =>
       \A ip \in IPs : ban'[ip].ttl >= ban[ip].ttl]_vars

=============================================================================
