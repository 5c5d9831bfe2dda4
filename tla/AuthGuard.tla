------------------------------- MODULE AuthGuard -------------------------------
(***************************************************************************)
(* The register and login routes of GatewayServer::SetupRoutes and the     *)
(* counters they keep in Redis: registrations that succeeded, and logins   *)
(* that failed, for each address.  An address whose counter has reached    *)
(* its limit is answered 403 until the counter lapses, BlockSeconds after  *)
(* it last grew.  As in RateLimiter, the workers of all replicas           *)
(* interleave between any two Redis commands.                              *)
(***************************************************************************)
EXTENDS RedisClient

CONSTANTS IPs,            \* req.remote_ip of the clients
          AttemptLimit,   \* 5 for register, 15 for login
          BlockSeconds,   \* 3600
          NoAttempt       \* the job of an idle worker

Routes   == {"register", "login"}
Attempts == [route : Routes, ip : IPs]   \* and the counter of each
Steps    == {"idle", "read", "call", "incr", "expire", "reset"}

ASSUME GuardAssumption ==
  /\ AttemptLimit \in [Routes -> Nat \ {0}]
  /\ BlockSeconds \in Nat \ {0}
  /\ NoAttempt \notin Attempts

VARIABLES tally,     \* rate_limit:<ip>:<register>:3600 and failed_login:<ip>
          pc, job,   \* where each worker is, and its attempt
          events,    \* history: attempts the counter should stand for
          missed,    \* history: attempts a failure or crash kept from it, and
                     \*   reads of it that failed
          astray     \* history: INCRs of it that were delayed when it last
                     \*   lapsed or was reset

history == <<events, missed, astray>>
vars    == <<clientVars, tally, pc, job, history>>

\* The commands that change a counter.
Commands == [op : {"INCR", "EXPIRE", "DEL"}, key : Attempts]
CommandOf(op, k) == [op |-> op, key |-> k]

Init ==
  /\ connected \in [Replicas -> BOOLEAN]
  /\ tally  = [k \in Attempts |-> Missing]
  /\ pc     = [w \in Workers |-> "idle"]
  /\ job    = [w \in Workers |-> NoAttempt]
  /\ events = [k \in Attempts |-> 0]
  /\ missed = [k \in Attempts |-> 0]
  /\ astray = [k \in Attempts |-> 0]
  /\ delayed = [c \in Commands |-> 0]
  /\ faults = 0

-----------------------------------------------------------------------------
Goto(w, step) == pc' = [pc EXCEPT ![w] = step]

\* Mutant: the handler ends and keeps its attempt.
FinishKeepingJob(w) == Goto(w, "idle") /\ UNCHANGED job

\* The handler ends.
Finish(w) == /\ Goto(w, "idle")
             /\ job' = [job EXCEPT ![w] = NoAttempt]

\* A replica without Redis keeps no counters: the histories leave it out.
Note(w, noted) ==
  IF Reachable(w) THEN [noted EXCEPT ![job[w]] = @ + 1] ELSE noted

\* What is counted from now on: nothing of the past but INCRs still delayed.
StartAgain(gone) ==
  /\ events' = [k \in Attempts |-> IF gone[k] THEN 0 ELSE events[k]]
  /\ missed' = [k \in Attempts |-> IF gone[k] THEN 0 ELSE missed[k]]
  /\ astray' = [k \in Attempts |-> IF gone[k] THEN delayed[CommandOf("INCR", k)]
                                             ELSE astray[k]]

-----------------------------------------------------------------------------
(* A POST to one of the routes, which the middleware has let pass.         *)
Receive(w, attempt) ==
  /\ pc[w] = "idle"
  /\ Goto(w, "read")
  /\ job' = [job EXCEPT ![w] = attempt]
  /\ UNCHANGED <<clientVars, tally, history>>

\* Mutant: one attempt too many.
BlockedLate(k) == tally[k].val > AttemptLimit[k.route]

\* registration_count >= 5, failed_attempts >= 15
Blocked(k) == tally[k].val >= AttemptLimit[k.route]

\* Mutant: an attempt that is refused renews the block.
ReadTallyRenewing(w) ==
  /\ pc[w] = "read"
  /\ Answers(w)
  /\ \/ /\ Blocked(job[w])
        /\ Finish(w)
        /\ tally' = [tally EXCEPT ![job[w]] = Expire(@, BlockSeconds)]
     \/ /\ ~Blocked(job[w])
        /\ Goto(w, "call")
        /\ UNCHANGED <<tally, job>>
  /\ UNCHANGED <<connected, history>>

\* getRequestCount, getFailedLoginAttempts: the limit answers 403.  A failed
\* call reads as 0.
ReadTally(w) ==
  /\ pc[w] = "read"
  /\ \/ /\ Answers(w)
        /\ Blocked(job[w])
        /\ Finish(w)
        /\ UNCHANGED missed
     \/ /\ Answers(w)
        /\ ~Blocked(job[w])
        /\ Goto(w, "call")
        /\ UNCHANGED <<job, missed>>
     \/ /\ NoEffect(w)
        /\ Goto(w, "call")
        /\ missed' = Note(w, missed)
        /\ UNCHANGED job
  /\ UNCHANGED <<connected, tally, events, astray>>

\* The body does not parse, or lacks a field: 400 from the catch block.
BadRequest(w) ==
  /\ pc[w] = "call"
  /\ Finish(w)
  /\ UNCHANGED <<clientVars, tally, history>>

\* Mutant: every attempt is charged, whatever the users service answered.
CallBackendChargingAll(w, success) ==
  /\ pc[w] = "call"
  /\ Goto(w, "incr")
  /\ events' = IF success = (job[w].route = "register") THEN Note(w, events) ELSE events
  /\ UNCHANGED <<clientVars, tally, missed, astray, job>>

\* Mutant: registrations are charged like logins, when they fail.
CallBackendChargingFailures(w, success) ==
  /\ pc[w] = "call"
  /\ \/ /\ ~success
        /\ Goto(w, "incr")
        /\ events' = Note(w, events)
        /\ UNCHANGED job
     \/ /\ success
        /\ Goto(w, "reset")
        /\ UNCHANGED <<job, events>>
  /\ UNCHANGED <<clientVars, tally, missed, astray>>

\* The users service answers.  response.success() is FALSE for a refusal and
\* for a service that could not be reached alike.
CallBackend(w, success) ==
  /\ pc[w] = "call"
  /\ \/ /\ success = (job[w].route = "register")
        /\ Goto(w, "incr")
        /\ events' = Note(w, events)
        /\ UNCHANGED job
     \/ /\ success /\ job[w].route = "login"
        /\ Goto(w, "reset")
        /\ UNCHANGED <<job, events>>
     \/ /\ ~success /\ job[w].route = "register"
        /\ Finish(w)
        /\ UNCHANGED events
  /\ UNCHANGED <<clientVars, tally, missed, astray>>

\* incrementRequestCount, incrementFailedLoginAttempts, first command: INCR.
IncrementTally(w) ==
  /\ pc[w] = "incr"
  /\ \/ /\ \/ Answers(w) /\ Goto(w, "expire") /\ UNCHANGED job
           \/ ReplyLost(w) /\ Finish(w)
        /\ tally' = [tally EXCEPT ![job[w]] = Incr(@)]
        /\ UNCHANGED missed
     \/ /\ GivesUp(w, CommandOf("INCR", job[w]))
        /\ Finish(w)
        /\ missed' = Note(w, missed)
        /\ UNCHANGED tally
  /\ UNCHANGED <<connected, events, astray>>

\* Mutant: the EXPIRE is forgotten.
ExpireTallyForgotten(w) ==
  /\ pc[w] = "expire"
  /\ Finish(w)
  /\ UNCHANGED <<clientVars, tally, history>>

\* Second command: EXPIRE.
ExpireTally(w) ==
  /\ pc[w] = "expire"
  /\ Finish(w)
  /\ \/ /\ Answers(w) \/ ReplyLost(w)
        /\ tally' = [tally EXCEPT ![job[w]] = Expire(@, BlockSeconds)]
     \/ GivesUp(w, CommandOf("EXPIRE", job[w])) /\ UNCHANGED tally
  /\ UNCHANGED <<connected, history>>

\* DEL of the counter k.
Delete(k) == /\ tally' = [tally EXCEPT ![k] = Missing]
             /\ StartAgain([j \in Attempts |-> j = k])

\* resetFailedLoginAttempts: DEL.
ResetTally(w) ==
  /\ pc[w] = "reset"
  /\ Finish(w)
  /\ \/ (Answers(w) \/ ReplyLost(w)) /\ Delete(job[w])
     \/ GivesUp(w, CommandOf("DEL", job[w])) /\ UNCHANGED <<tally, history>>
  /\ UNCHANGED connected

Worker(w) ==
  \/ \E attempt \in Attempts : Receive(w, attempt)
  \/ ReadTally(w) \/ BadRequest(w)
  \/ \E success \in BOOLEAN : CallBackend(w, success)
  \/ IncrementTally(w) \/ ExpireTally(w) \/ ResetTally(w)

-----------------------------------------------------------------------------
\* The workers on a connected replica about to charge, or about to call the
\* backend for, the counter k.
Charging(k) == { w \in Workers : pc[w] = "incr" /\ job[w] = k /\ Reachable(w) }
Calling(k)  == { w \in Workers : pc[w] = "call" /\ job[w] = k /\ Reachable(w) }

\* A process dies, with whatever its workers were doing, and starts again.
Restart(r) ==
  LET ours == { w \in Workers : ReplicaOf[w] = r }
  IN /\ Fault
     /\ pc'  = [w \in Workers |-> IF w \in ours THEN "idle" ELSE pc[w]]
     /\ job' = [w \in Workers |-> IF w \in ours THEN NoAttempt ELSE job[w]]
     /\ \E up \in BOOLEAN : connected' = [connected EXCEPT ![r] = up]
     /\ missed' = [k \in Attempts |->
                     missed[k] + Cardinality(Charging(k) \cap ours)]
     /\ UNCHANGED <<delayed, tally, events, astray>>

-----------------------------------------------------------------------------
(* Redis executes a command that its sender gave up.                       *)

LateIncr(k) ==
  /\ Arrives(CommandOf("INCR", k))
  /\ tally' = [tally EXCEPT ![k] = Incr(@)]
  /\ UNCHANGED history

LateExpire(k) ==
  /\ Arrives(CommandOf("EXPIRE", k))
  /\ tally' = [tally EXCEPT ![k] = Expire(@, BlockSeconds)]
  /\ UNCHANGED history

LateDelete(k) ==
  /\ Arrives(CommandOf("DEL", k))
  /\ Delete(k)

Late == /\ \E k \in Attempts : LateIncr(k) \/ LateExpire(k) \/ LateDelete(k)
        /\ UNCHANGED <<connected, faults, pc, job>>

\* One tick passes in Redis.  A counter that lapses stands for no attempt any
\* more, so its history starts again.
Tick ==
  LET lapsed(k) == Exists(tally[k]) /\ ~Exists(Age(tally[k]))
  IN /\ tally'  = [k \in Attempts |-> Age(tally[k])]
     /\ StartAgain([k \in Attempts |-> lapsed(k)])
     /\ UNCHANGED <<clientVars, pc, job>>

Next == \/ \E w \in Workers : Worker(w)
        \/ \E r \in Replicas : Restart(r)
        \/ Late
        \/ Tick

\* Time passes, and every worker that is not idle goes on: Redis calls end
\* within socket_timeout, backend calls within their deadlines.
Fairness ==
  /\ WF_vars(Tick)
  /\ \A w \in Workers : WF_vars(pc[w] # "idle" /\ Worker(w))

SafeSpec == Init /\ [][Next]_vars

Spec == SafeSpec /\ Fairness

-----------------------------------------------------------------------------
(* Correctness.                                                            *)

TypeOK ==
  /\ connected \in [Replicas -> BOOLEAN]
  /\ faults \in Nat
  /\ tally \in [Attempts -> KeyStates]
  /\ pc \in [Workers -> Steps]
  /\ job \in [Workers -> Attempts \cup {NoAttempt}]
  /\ \A w \in Workers : pc[w] = "idle" <=> job[w] = NoAttempt
  /\ events \in [Attempts -> Nat]
  /\ missed \in [Attempts -> Nat]
  /\ astray \in [Attempts -> Nat]
  /\ delayed \in [Commands -> Nat]

\* The handlers read the counter, call the backend and only then count, so
\* concurrent attempts can pass the limit together.  They cannot pass it by
\* more than the workers that read the counter before it reached the limit:
\* while a counter lives, at most limit - 1 + |Workers| attempts count, and
\* one more for each that a failure hid.
QuotaBound ==
  \A k \in Attempts :
    events[k] < AttemptLimit[k.route] + Cardinality(Workers) + missed[k]

\* A counter charges an address for its own attempts since the counter last
\* lapsed or was reset, and for earlier ones only if they were on their way to
\* it at that moment: at most one of each worker, and the INCRs that workers
\* had given up and Redis had not executed yet.
EarnedCharge ==
  \A k \in Attempts : tally[k].val <= events[k] + Cardinality(Workers) + astray[k]

\* Outside the gap between INCR and EXPIRE only a failure or a crash leaves a
\* counter that never lapses.
OrphanNeedsFault ==
  \A k \in Attempts :
    tally[k].ttl = NoExpiry =>
      \/ faults > 0
      \/ \E w \in Workers : pc[w] = "expire" /\ job[w] = k

\* README.md:15 and :21, and the text of the 403 answers: a block lasts one
\* hour.  So it ends, whatever the client does in the meantime.
BlockEnds == \A k \in Attempts : Blocked(k) ~> ~Blocked(k)

\* The code keeps this much of it: a block ends, whatever its client does and
\* whatever comes late, unless its counter has lost the EXPIRE, to a failure,
\* of its every INCR.
Orphan(k) == /\ tally[k].ttl = NoExpiry
             /\ ~\E w \in Workers : pc[w] = "expire" /\ job[w] = k

BlockLapses ==
  \A k \in Attempts : Blocked(k) ~> ~Blocked(k) \/ (faults > 0 /\ Orphan(k))

=============================================================================
