------------------------------- MODULE BackendCall -------------------------------
(***************************************************************************)
(* A route of the gateway that forwards its request to a backend: the      *)
(* service wrapper takes a client from the balancer and runs the RPC with  *)
(* GrpcClient::ExecuteWithRetry, whose attempts all go to that client.     *)
(* The backend is not part of the repository.  It executes a request or    *)
(* refuses it; the connection may break, or the deadline pass, before or   *)
(* after that, and a request that was sent may be executed later still.    *)
(***************************************************************************)
EXTENDS LoadBalancer

CONSTANTS Calls,        \* the requests that reach such a route
          MaxRetries    \* max_retries of ExecuteWithRetry: 3

ASSUME CallAssumption == MaxRetries \in Nat \ {0}

Retryable == {"DEADLINE_EXCEEDED", "UNAVAILABLE"}
Errors    == Retryable \cup {"OTHER"}

VARIABLES phase,         \* where each call is
          client,        \* the client it took
          retry_count,
          success,       \* response.success(): the answer 200, or 400 or 401
          attempt,       \* what became of the last attempt at the backend
          late,          \* earlier attempts the backend may still execute
          applied,       \* history: times the backend executed the request
          sent,          \* history: attempts made
          unanswered     \* history: attempts that ended in an error

callVars == <<phase, client, retry_count, success, attempt, late,
              applied, sent, unanswered>>
vars == <<balancerVars, callVars>>

Phases   == {"new", "send", "wait", "backoff", "answered"}
Attempt  == {"none", "sent", "applied", "refused"}

Init ==
  /\ BalancerInit
  /\ phase       = [c \in Calls |-> "new"]
  /\ client      = [c \in Calls |-> NoClient]
  /\ retry_count = [c \in Calls |-> 0]
  /\ success     = [c \in Calls |-> FALSE]
  /\ attempt     = [c \in Calls |-> "none"]
  /\ late        = [c \in Calls |-> 0]
  /\ applied     = [c \in Calls |-> 0]
  /\ sent        = [c \in Calls |-> 0]
  /\ unanswered  = [c \in Calls |-> 0]

Goto(c, p) == phase' = [phase EXCEPT ![c] = p]
Add(f, c)  == [f EXCEPT ![c] = @ + 1]

-----------------------------------------------------------------------------
(* The gateway.                                                            *)

\* The body parses and the service wrapper asks the balancer; without a
\* client it answers "Service unavailable".
Take(c) ==
  /\ phase[c] = "new"
  /\ GetNextClient
  /\ client' = [client EXCEPT ![c] = NextClient]
  /\ Goto(c, IF NextClient = NoClient THEN "answered" ELSE "send")
  /\ UNCHANGED <<retry_count, success, attempt, late, applied, sent, unanswered>>

\* The body does not parse, or lacks a field: 400 from the catch block.
BadRequest(c) ==
  /\ phase[c] = "new"
  /\ Goto(c, "answered")
  /\ UNCHANGED <<balancerVars, client, retry_count, success, attempt, late, applied, sent, unanswered>>

\* rpc_func with a new context and deadline.
Send(c) ==
  /\ phase[c] = "send"
  /\ Goto(c, "wait")
  /\ attempt' = [attempt EXCEPT ![c] = "sent"]
  /\ sent' = Add(sent, c)
  /\ UNCHANGED <<balancerVars, client, retry_count, success, late, applied, unanswered>>

\* The answer of the backend arrives in the response, which the attempts of a
\* call share.
ReadResponse(c) ==
  /\ attempt[c] \in {"applied", "refused"}
  /\ success' = [success EXCEPT ![c] = (attempt[c] = "applied")]

\* Mutant: status.ok() is taken for response.success().
ReturnOkAsSuccess(c) ==
  /\ phase[c] = "wait"
  /\ attempt[c] \in {"applied", "refused"}
  /\ Goto(c, "answered")
  /\ success' = [success EXCEPT ![c] = TRUE]
  /\ UNCHANGED <<balancerVars, client, retry_count, attempt, late, applied, sent, unanswered>>

\* status.ok(): the answer of the backend, for or against, ends the call.
ReturnOk(c) ==
  /\ phase[c] = "wait"
  /\ ReadResponse(c)
  /\ Goto(c, "answered")
  /\ UNCHANGED <<balancerVars, client, retry_count, attempt, late, applied, sent, unanswered>>

\* Mutant: the context has no deadline.
FailsUnlessPending(c) == phase[c] = "wait" /\ attempt[c] # "sent"

\* The context of an attempt has a deadline: it may fail whatever the backend
\* does.
Fails(c) == phase[c] = "wait"

\* Mutant: one attempt too many.
TriesLeftLate(c) == retry_count[c] + 1 <= MaxRetries

\* retry_count < max_retries, once the failed attempt is counted.
TriesLeft(c) == retry_count[c] + 1 < MaxRetries

\* An error that may be retried counts as a try; another attempt follows
\* after a pause unless it was the last.  Any other error ends the call.  The
\* response may have arrived all the same, and what it says stays: a wrapper
\* reports a success that came with an error, or before one.
ReturnError(c, code) ==
  /\ Fails(c)
  /\ \/ /\ code \in Retryable
        /\ retry_count' = Add(retry_count, c)
        /\ Goto(c, IF TriesLeft(c) THEN "backoff" ELSE "answered")
     \/ /\ code \notin Retryable
        /\ Goto(c, "answered")
        /\ UNCHANGED retry_count
  /\ ReadResponse(c) \/ UNCHANGED success
  /\ late' = IF attempt[c] = "sent" THEN Add(late, c) ELSE late
  /\ attempt' = [attempt EXCEPT ![c] = "none"]
  /\ unanswered' = Add(unanswered, c)
  /\ UNCHANGED <<balancerVars, client, applied, sent>>

\* sleep_for ends; the loop goes round.
Retry(c) ==
  /\ phase[c] = "backoff"
  /\ Goto(c, "send")
  /\ UNCHANGED <<balancerVars, client, retry_count, success, attempt, late, applied, sent, unanswered>>

\* A method of a service wrapper, from its call to its return.
Wrapper(c) ==
  \/ Take(c) \/ Send(c) \/ ReturnOk(c) \/ Retry(c)
  \/ \E code \in Errors : ReturnError(c, code)

Gateway(c) == BadRequest(c) \/ Wrapper(c)

-----------------------------------------------------------------------------
(* The backend.                                                            *)

Apply(c) ==
  /\ attempt[c] = "sent"
  /\ attempt' = [attempt EXCEPT ![c] = "applied"]
  /\ applied' = Add(applied, c)
  /\ UNCHANGED <<balancerVars, phase, client, retry_count, success, late, sent, unanswered>>

Refuse(c) ==
  /\ attempt[c] = "sent"
  /\ attempt' = [attempt EXCEPT ![c] = "refused"]
  /\ UNCHANGED <<balancerVars, phase, client, retry_count, success, late, applied, sent, unanswered>>

\* An attempt the gateway has given up is executed, or is lost or refused.
Late(c) ==
  /\ late[c] > 0
  /\ late' = [late EXCEPT ![c] = @ - 1]
  /\ applied' = Add(applied, c) \/ UNCHANGED applied
  /\ UNCHANGED <<balancerVars, phase, client, retry_count, success, attempt, sent, unanswered>>

Backend(c) == Apply(c) \/ Refuse(c) \/ Late(c)

Next == \E c \in Calls : Gateway(c) \/ Backend(c)

\* A worker goes on with its call: an RPC returns no later than its deadline.
\* The backend need not do anything, and clients need not send.
Fairness == \A c \in Calls : WF_vars(phase[c] # "new" /\ Gateway(c))

Spec == Init /\ [][Next]_vars /\ Fairness

-----------------------------------------------------------------------------
(* Correctness.                                                            *)

TypeOK ==
  /\ BalancerTypeOK /\ IndexInRange
  /\ client \in [Calls -> Addresses \cup {NoClient}]
  /\ phase \in [Calls -> Phases]
  /\ retry_count \in [Calls -> Nat]
  /\ success \in [Calls -> BOOLEAN]
  /\ attempt \in [Calls -> Attempt]
  /\ late \in [Calls -> Nat] /\ applied \in [Calls -> Nat]
  /\ sent \in [Calls -> Nat] /\ unanswered \in [Calls -> Nat]

\* A call is not idempotent: each attempt may take money or create a payment
\* on its own.  The backend executes it no more often than attempts ended in
\* an error, plus once for the attempt it is answering; and in no case,
\* however late, more than MaxRetries times.
EffectsAccounted ==
  \A c \in Calls :
    /\ applied[c] + late[c] <= unanswered[c] + (IF attempt[c] = "applied" THEN 1 ELSE 0)
    /\ applied[c] + late[c] <= MaxRetries

\* The gateway reports success only for a call the backend has executed, also
\* when the success came with an error or was followed by one; and a call of
\* one attempt that the backend refused has no effect, ever.
HonestAnswer ==
  \A c \in Calls : phase[c] = "answered" =>
    /\ success[c] => applied[c] > 0
    /\ sent[c] = 1 /\ attempt[c] = "refused" => applied[c] = 0 /\ late[c] = 0

\* What its client can tell of a call.
ClientsView(c) ==
  IF phase[c] = "new"      THEN "new"
  ELSE IF phase[c] # "answered" THEN "running"
  ELSE IF success[c]       THEN "ok"
  ELSE IF sent[c] = 0      THEN "rejected"
  ELSE "failed"

\* BackendCall implements RemoteCall: whatever is retried, times out or is
\* executed late, a client sees of its call no more than MaxRetries runs, no
\* "ok" without a run, no run of a call that was answered without being sent,
\* and an answer in the end.
Promise == INSTANCE RemoteCall WITH
  MaxRuns <- MaxRetries,
  runs    <- applied,
  state   <- [c \in Calls |-> ClientsView(c)]

KeepsPromise == Promise!Spec

\* Every call that takes a client is answered.
Answered == \A c \in Calls : phase[c] # "new" ~> phase[c] = "answered"

=============================================================================
