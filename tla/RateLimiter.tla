------------------------------ MODULE RateLimiter ------------------------------
(***************************************************************************)
(* DDoSProtection::checkRequestLimit, which the middleware runs before     *)
(* every route, at the granularity of its Redis commands.                  *)
(*                                                                         *)
(* A worker is a thread of the HTTP server (app.multithreaded()); it runs  *)
(* one handler at a time to its end.  The workers of all replicas of the   *)
(* gateway share one Redis, and nothing holds a lock between two commands, *)
(* so the commands of different workers interleave freely.                 *)
(***************************************************************************)
EXTENDS RedisClient

CONSTANTS IPs,              \* client addresses, as getClientIP returns them
          Endpoints,        \* request paths
          RequestLimit,     \* RateLimitConfig of each path, as
          WindowSeconds,    \*   findConfigForPath returns it
          BanTimeSeconds,
          NoJob             \* the job of an idle worker

Steps == {"idle", "isBlacklisted", "incr", "expire", "get", "ban", "route"}

\* "counted": the request is one of those the counter currently stands for.
Jobs == [ip : IPs, ep : Endpoints, counted : BOOLEAN]

ASSUME LimiterAssumption ==
  /\ RequestLimit   \in [Endpoints -> Nat]
  /\ WindowSeconds  \in [Endpoints -> Nat \ {0}]
  /\ BanTimeSeconds \in [Endpoints -> Nat \ {0}]
  /\ NoJob \notin Jobs

VARIABLES ban,         \* the keys blacklist:ip:<ip>
          count,       \* the keys rate_limit:<ip>:<path>:<window>
          pc, job,     \* where each worker is, and its request
          admitted,    \* history: counted requests let through
          unread,      \* history: those of them whose count could not be read
          leaked,      \* history: requests let through although banned
          unasked      \* history: requests whose ban could not be read

history     == <<admitted, unread, leaked, unasked>>
limiterVars == <<clientVars, ban, count, pc, job, history>>

Keys == IPs \X Endpoints
Key(w) == <<job[w].ip, job[w].ep>>

\* The commands that change a key.
IncrOf(k)   == [op |-> "INCR", key |-> k]
ExpireOf(k) == [op |-> "EXPIRE", key |-> k]
SetOf(ip, seconds) == [op |-> "SET", ip |-> ip, seconds |-> seconds]
DelOf(ip)   == [op |-> "DEL", ip |-> ip]

-----------------------------------------------------------------------------
Goto(w, step) == pc' = [pc EXCEPT ![w] = step]

\* Mutant: the handler ends and keeps its request.
FinishKeepingJob(w) == Goto(w, "idle") /\ UNCHANGED job

\* The handler ends.
Finish(w) == /\ Goto(w, "idle")
             /\ job' = [job EXCEPT ![w] = NoJob]

-----------------------------------------------------------------------------
(* A request arrives: handleRequest takes its ip and its path.             *)
HandleRequest(w, ip, ep) ==
  /\ pc[w] = "idle"
  /\ Goto(w, "isBlacklisted")
  /\ job' = [job EXCEPT ![w] = [ip |-> ip, ep |-> ep, counted |-> FALSE]]
  /\ UNCHANGED <<clientVars, ban, count, history>>

\* Mutant: the answer of the blacklist is not looked at.
NeverBlacklisted(ip) == FALSE

\* What GET blacklist:ip:<ip> says: value.has_value().
Blacklisted(ip) == Exists(ban[ip])

\* Mutant: every request of a banned address prolongs its ban.
IsBlacklistedRenewing(w) ==
  /\ pc[w] = "isBlacklisted"
  /\ Answers(w)
  /\ \/ /\ Blacklisted(job[w].ip)
        /\ Finish(w)
        /\ ban' = [ban EXCEPT ![job[w].ip] = SetEx(BanTimeSeconds[job[w].ep])]
     \/ /\ ~Blacklisted(job[w].ip)
        /\ Goto(w, "incr")
        /\ UNCHANGED <<ban, job>>
  /\ UNCHANGED <<connected, count, history>>

\* isBlacklisted at the head of checkRequestLimit.  A ban ends the request with
\* 429; a failed call counts as "not blacklisted".
IsBlacklisted(w) ==
  /\ pc[w] = "isBlacklisted"
  /\ \/ /\ Answers(w)
        /\ Blacklisted(job[w].ip)
        /\ Finish(w)
        /\ UNCHANGED unasked
     \/ /\ Answers(w)
        /\ ~Blacklisted(job[w].ip)
        /\ Goto(w, "incr")
        /\ UNCHANGED <<job, unasked>>
     \/ /\ NoEffect(w)
        /\ Goto(w, "incr")
        /\ unasked' = IF Reachable(w) /\ Exists(ban[job[w].ip])
                        THEN [unasked EXCEPT ![job[w].ip] = @ + 1] ELSE unasked
        /\ UNCHANGED job
  /\ UNCHANGED <<connected, ban, count, admitted, unread, leaked>>

\* incrementRequestCount, first command: INCR.  An exception skips the
\* EXPIRE; checkRequestLimit ignores the result either way.
IncrementCount(w) ==
  /\ pc[w] = "incr"
  /\ \/ /\ \/ Answers(w) /\ Goto(w, "expire")
           \/ ReplyLost(w) /\ Goto(w, "get")
        /\ count' = [count EXCEPT ![Key(w)] = Incr(@)]
        /\ job' = [job EXCEPT ![w].counted = TRUE]
     \/ /\ GivesUp(w, IncrOf(Key(w)))
        /\ Goto(w, "get")
        /\ UNCHANGED <<count, job>>
  /\ UNCHANGED <<connected, ban, history>>

\* Mutant: the EXPIRE is forgotten.
ExpireCountForgotten(w) ==
  /\ pc[w] = "expire"
  /\ Goto(w, "get")
  /\ UNCHANGED <<clientVars, ban, count, job, history>>

\* incrementRequestCount, second command: EXPIRE, on every request.
ExpireCount(w) ==
  /\ pc[w] = "expire"
  /\ Goto(w, "get")
  /\ \/ /\ Answers(w) \/ ReplyLost(w)
        /\ count' = [count EXCEPT ![Key(w)] = Expire(@, WindowSeconds[job[w].ep])]
     \/ GivesUp(w, ExpireOf(Key(w))) /\ UNCHANGED count
  /\ UNCHANGED <<connected, ban, job, history>>

\* The request passes the middleware; its route handler runs next.  (A replica
\* without Redis knows of no ban: the history leaves it out.)
Admit(w) ==
  /\ Goto(w, "route")
  /\ leaked' = IF Reachable(w) /\ Exists(ban[job[w].ip])
                 THEN [leaked EXCEPT ![job[w].ip] = @ + 1] ELSE leaked

\* A history of the counted requests that pass.
Note(w, passed) ==
  IF job[w].counted THEN [passed EXCEPT ![Key(w)] = @ + 1] ELSE passed

\* Mutant: one request too many.
OverLimitLate(w) == count[Key(w)].val > RequestLimit[job[w].ep] + 1

\* requestCount > config.requestLimit
OverLimit(w) == count[Key(w)].val > RequestLimit[job[w].ep]

\* getRequestCount and the comparison with requestLimit.  A failed call
\* reads as 0 requests.
CheckCount(w) ==
  /\ pc[w] = "get"
  /\ \/ /\ Answers(w)
        /\ OverLimit(w)
        /\ Goto(w, "ban")
        /\ UNCHANGED <<admitted, unread, leaked>>
     \/ /\ Answers(w)
        /\ ~OverLimit(w)
        /\ Admit(w)
        /\ admitted' = Note(w, admitted)
        /\ UNCHANGED unread
     \/ /\ NoEffect(w)
        /\ Admit(w)
        /\ admitted' = Note(w, admitted)
        /\ unread' = Note(w, unread)
  /\ UNCHANGED <<connected, ban, count, job, unasked>>

\* Mutant: the ban lasts for the window of the limit.
BanClientForWindow(w) ==
  /\ pc[w] = "ban"
  /\ Answers(w)
  /\ ban' = [ban EXCEPT ![job[w].ip] = SetEx(WindowSeconds[job[w].ep])]
  /\ Finish(w)
  /\ UNCHANGED <<connected, count, history>>

\* Mutant: the ban resets the counter that led to it.
BanClientResetting(w) ==
  /\ pc[w] = "ban"
  /\ Answers(w)
  /\ ban'   = [ban   EXCEPT ![job[w].ip] = SetEx(BanTimeSeconds[job[w].ep])]
  /\ count' = [count EXCEPT ![Key(w)] = Missing]
  /\ Finish(w)
  /\ UNCHANGED <<connected, history>>

\* The limit is exceeded: addToBlacklist(ip, banTimeSeconds), answer 429.
BanClient(w) ==
  /\ pc[w] = "ban"
  /\ \/ /\ Answers(w) \/ ReplyLost(w)
        /\ ban' = [ban EXCEPT ![job[w].ip] = SetEx(BanTimeSeconds[job[w].ep])]
     \/ /\ GivesUp(w, SetOf(job[w].ip, BanTimeSeconds[job[w].ep]))
        /\ UNCHANGED ban
  /\ Finish(w)
  /\ UNCHANGED <<connected, count, history>>

CheckRequestLimit(w) ==
  \/ \E ip \in IPs, ep \in Endpoints : HandleRequest(w, ip, ep)
  \/ IsBlacklisted(w) \/ IncrementCount(w) \/ ExpireCount(w)
  \/ CheckCount(w) \/ BanClient(w)

=============================================================================
