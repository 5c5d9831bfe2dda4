---------------------------- MODULE BackendCallProofs ----------------------------
(***************************************************************************)
(* Theorems about BackendCall, for every number of calls and of retries.   *)
(***************************************************************************)
EXTENDS BackendCall, LoadBalancerProofs, TLAPS

Open(c) == IF attempt[c] = "none" THEN 0 ELSE 1

(* EffectsAccounted.  What the backend executed, or may still execute, are *)
(* attempts that were made; an attempt is made only while retry_count, and *)
(* with it the number that ended in an error, is below max_retries.        *)
Bounded(c) ==
  /\ phase[c] = "new" => unanswered[c] = 0 /\ retry_count[c] = 0
  /\ phase[c] \in {"new", "send", "backoff"} => attempt[c] = "none"
  /\ phase[c] \in {"send", "wait", "backoff"} =>
       unanswered[c] = retry_count[c] /\ retry_count[c] < MaxRetries
  /\ unanswered[c] + Open(c) <= MaxRetries
  /\ applied[c] + late[c] <= unanswered[c] + (IF attempt[c] = "applied" THEN 1 ELSE 0)

CallTypes ==
  /\ phase \in [Calls -> Phases]
  /\ retry_count \in [Calls -> Nat]
  /\ attempt \in [Calls -> Attempt]
  /\ late \in [Calls -> Nat] /\ applied \in [Calls -> Nat]
  /\ unanswered \in [Calls -> Nat] /\ sent \in [Calls -> Nat]
  /\ success \in [Calls -> BOOLEAN]

(* HonestAnswer.  Each attempt that was sent has ended in an error or is   *)
(* the last one, and success is what one of them said that was executed,   *)
(* be it the last one or one that ended in an error.                       *)
Honest(c) ==
  /\ phase[c] = "wait" => attempt[c] # "none"
  /\ sent[c] = unanswered[c] + Open(c)
  /\ attempt[c] = "applied" => applied[c] > 0
  /\ success[c] => applied[c] > 0

CallsOK == CallTypes /\ \A c \in Calls : Bounded(c) /\ Honest(c)

\* Every step of a call keeps the types.
LEMMA TypesStep ==
  ASSUME CallTypes, NEW d \in Calls, Gateway(d) \/ Backend(d)
  PROVE  CallTypes'
<1> USE DEF CallTypes, Goto, Add, Phases, Attempt
<1>1. CASE Take(d)
  BY <1>1 DEF Take
<1>2. CASE BadRequest(d)
  BY <1>2 DEF BadRequest
<1>3. CASE Send(d)
  BY <1>3 DEF Send
<1>4. CASE ReturnOk(d)
  BY <1>4 DEF ReturnOk, ReadResponse
<1>5. CASE \E code \in Errors : ReturnError(d, code)
  <2>1. success' \in [Calls -> BOOLEAN]
    BY <1>5 DEF ReturnError, ReadResponse
  <2>2. late' \in [Calls -> Nat]
    BY <1>5 DEF ReturnError
  <2>3. phase' \in [Calls -> Phases] /\ retry_count' \in [Calls -> Nat]
    BY <1>5 DEF ReturnError
  <2>4. /\ attempt' \in [Calls -> Attempt] /\ unanswered' \in [Calls -> Nat]
        /\ UNCHANGED <<applied, sent>>
    BY <1>5 DEF ReturnError
  <2>5. QED
    BY <2>1, <2>2, <2>3, <2>4
<1>6. CASE Retry(d)
  BY <1>6 DEF Retry
<1>7. CASE Apply(d)
  BY <1>7 DEF Apply
<1>8. CASE Refuse(d)
  BY <1>8 DEF Refuse
<1>9. CASE Late(d)
  BY <1>9 DEF Late
<1>10. QED
  BY <1>1, <1>2, <1>3, <1>4, <1>5, <1>6, <1>7, <1>8, <1>9 DEF Gateway, Wrapper, Backend

\* A step of a call leaves the other calls alone.
LEMMA OthersStay ==
  ASSUME CallTypes, NEW d \in Calls, Gateway(d) \/ Backend(d), NEW c \in Calls, c # d
  PROVE  /\ phase'[c] = phase[c] /\ retry_count'[c] = retry_count[c]
         /\ attempt'[c] = attempt[c] /\ late'[c] = late[c]
         /\ applied'[c] = applied[c] /\ unanswered'[c] = unanswered[c]
         /\ sent'[c] = sent[c] /\ success'[c] = success[c]
<1> USE DEF CallTypes, Goto, Add
<1>1. CASE Take(d)
  BY <1>1 DEF Take
<1>2. CASE BadRequest(d)
  BY <1>2 DEF BadRequest
<1>3. CASE Send(d)
  BY <1>3 DEF Send
<1>4. CASE ReturnOk(d)
  BY <1>4 DEF ReturnOk, ReadResponse
<1>5. CASE \E code \in Errors : ReturnError(d, code)
  BY <1>5 DEF ReturnError, ReadResponse, Fails, TriesLeft
<1>6. CASE Retry(d)
  BY <1>6 DEF Retry
<1>7. CASE Apply(d)
  BY <1>7 DEF Apply
<1>8. CASE Refuse(d)
  BY <1>8 DEF Refuse
<1>9. CASE Late(d)
  BY <1>9 DEF Late
<1>10. QED
  BY <1>1, <1>2, <1>3, <1>4, <1>5, <1>6, <1>7, <1>8, <1>9 DEF Gateway, Wrapper, Backend

\* A step of a call, at the gateway or at the backend, keeps its bound
\* and its honesty.
LEMMA OwnStep ==
  ASSUME CallsOK, NEW d \in Calls, Gateway(d) \/ Backend(d)
  PROVE  Bounded(d)' /\ Honest(d)'
<1>a. /\ phase[d] \in Phases /\ attempt[d] \in Attempt /\ retry_count[d] \in Nat
      /\ late[d] \in Nat /\ applied[d] \in Nat /\ unanswered[d] \in Nat
      /\ sent[d] \in Nat /\ success[d] \in BOOLEAN
      /\ MaxRetries \in Nat /\ MaxRetries > 0 /\ Bounded(d) /\ Honest(d)
  BY CallAssumption DEF CallsOK, CallTypes
<1>b. CallTypes
  BY DEF CallsOK
<1> USE DEF Bounded, Honest, Open, Phases, Attempt
<1>1. CASE Take(d)
  <2>1. /\ phase[d] = "new" /\ phase'[d] \in {"answered", "send"}
        /\ retry_count'[d] = retry_count[d] /\ attempt'[d] = attempt[d] /\ late'[d] = late[d]
        /\ applied'[d] = applied[d] /\ unanswered'[d] = unanswered[d]
        /\ sent'[d] = sent[d] /\ success'[d] = success[d]
    BY <1>b, <1>1 DEF Take, CallTypes, Goto, Add
  <2>2. QED
    BY <1>a, <2>1
<1>2. CASE BadRequest(d)
  <2>1. /\ phase[d] = "new" /\ phase'[d] = "answered"
        /\ retry_count'[d] = retry_count[d] /\ attempt'[d] = attempt[d] /\ late'[d] = late[d]
        /\ applied'[d] = applied[d] /\ unanswered'[d] = unanswered[d]
        /\ sent'[d] = sent[d] /\ success'[d] = success[d]
    BY <1>b, <1>2 DEF BadRequest, CallTypes, Goto, Add
  <2>2. QED
    BY <1>a, <2>1
<1>3. CASE Send(d)
  <2>1. /\ phase[d] = "send" /\ phase'[d] = "wait" /\ attempt'[d] = "sent"
        /\ retry_count'[d] = retry_count[d] /\ late'[d] = late[d] /\ applied'[d] = applied[d]
        /\ unanswered'[d] = unanswered[d]
        /\ sent'[d] = sent[d] + 1 /\ success'[d] = success[d]
    BY <1>b, <1>3 DEF Send, CallTypes, Goto, Add
  <2>2. QED
    BY <1>a, <2>1
<1>4. CASE ReturnOk(d)
  <2>1. /\ phase[d] = "wait" /\ phase'[d] = "answered"
        /\ retry_count'[d] = retry_count[d] /\ attempt'[d] = attempt[d] /\ late'[d] = late[d]
        /\ applied'[d] = applied[d] /\ unanswered'[d] = unanswered[d]
        /\ attempt[d] \in {"applied", "refused"}
        /\ success'[d] = (attempt[d] = "applied") /\ sent'[d] = sent[d]
    BY <1>b, <1>4 DEF ReturnOk, ReadResponse, CallTypes, Goto, Add
  <2>2. QED
    BY <1>a, <2>1
<1>5. CASE \E code \in Errors : ReturnError(d, code)
  <2>1. /\ phase[d] = "wait"
        /\ \/ /\ retry_count'[d] = retry_count[d] + 1
              /\ phase'[d] = IF retry_count[d] + 1 < MaxRetries THEN "backoff" ELSE "answered"
           \/ phase'[d] = "answered" /\ retry_count'[d] = retry_count[d]
        /\ late'[d] = IF attempt[d] = "sent" THEN late[d] + 1 ELSE late[d]
        /\ attempt'[d] = "none" /\ unanswered'[d] = unanswered[d] + 1
        /\ applied'[d] = applied[d] /\ sent'[d] = sent[d]
    BY <1>b, <1>5 DEF ReturnError, Fails, TriesLeft, CallTypes, Goto, Add
  <2>2. success'[d] => success[d] \/ attempt[d] = "applied"
    BY <1>b, <1>5 DEF ReturnError, ReadResponse, CallTypes
  <2>3. QED
    BY <1>a, <2>1, <2>2
<1>6. CASE Retry(d)
  <2>1. /\ phase[d] = "backoff" /\ phase'[d] = "send"
        /\ retry_count'[d] = retry_count[d] /\ attempt'[d] = attempt[d] /\ late'[d] = late[d]
        /\ applied'[d] = applied[d] /\ unanswered'[d] = unanswered[d]
        /\ sent'[d] = sent[d] /\ success'[d] = success[d]
    BY <1>b, <1>6 DEF Retry, CallTypes, Goto, Add
  <2>2. QED
    BY <1>a, <2>1
<1>7. CASE Apply(d)
  <2>1. /\ attempt[d] = "sent" /\ attempt'[d] = "applied"
        /\ applied'[d] = applied[d] + 1
        /\ phase'[d] = phase[d] /\ retry_count'[d] = retry_count[d] /\ late'[d] = late[d]
        /\ unanswered'[d] = unanswered[d]
        /\ sent'[d] = sent[d] /\ success'[d] = success[d]
    BY <1>b, <1>7 DEF Apply, CallTypes, Goto, Add
  <2>2. QED
    BY <1>a, <2>1
<1>8. CASE Refuse(d)
  <2>1. /\ attempt[d] = "sent" /\ attempt'[d] = "refused"
        /\ phase'[d] = phase[d] /\ retry_count'[d] = retry_count[d] /\ late'[d] = late[d]
        /\ applied'[d] = applied[d] /\ unanswered'[d] = unanswered[d]
        /\ sent'[d] = sent[d] /\ success'[d] = success[d]
    BY <1>b, <1>8 DEF Refuse, CallTypes, Goto, Add
  <2>2. QED
    BY <1>a, <2>1
<1>9. CASE Late(d)
  <2>1. /\ late[d] > 0 /\ late'[d] = late[d] - 1
        /\ applied'[d] \in {applied[d], applied[d] + 1}
        /\ phase'[d] = phase[d] /\ retry_count'[d] = retry_count[d] /\ attempt'[d] = attempt[d]
        /\ unanswered'[d] = unanswered[d]
        /\ sent'[d] = sent[d] /\ success'[d] = success[d]
    BY <1>b, <1>9 DEF Late, CallTypes, Goto, Add
  <2>2. QED
    BY <1>a, <2>1
<1>10. QED
  BY <1>1, <1>2, <1>3, <1>4, <1>5, <1>6, <1>7, <1>8, <1>9 DEF Gateway, Wrapper, Backend

\* So each step keeps the invariant.
LEMMA CallStep ==
  ASSUME CallsOK, NEW d \in Calls, Gateway(d) \/ Backend(d)
  PROVE  CallsOK'
<1>1. CallTypes'
  BY TypesStep DEF CallsOK
<1>2. ASSUME NEW c \in Calls
      PROVE  Bounded(c)' /\ Honest(c)'
  <2>1. CASE c = d
    BY <2>1, OwnStep
  <2>2. CASE c # d
    BY <2>2, OthersStay DEF CallsOK, Bounded, Honest, Open
  <2>3. QED
    BY <2>1, <2>2
<1>3. QED
  BY <1>1, <1>2 DEF CallsOK

\* No call has begun.
LEMMA InitOK ==
  ASSUME Init
  PROVE  CallsOK
  BY CallAssumption DEF Init, CallsOK, CallTypes, Bounded, Honest, Open, Phases, Attempt

\* A call is accounted for and its answer honest at every moment.
LEMMA CallInvariant == Spec => []CallsOK
<1>1. Init => CallsOK
  BY InitOK
<1>2. CallsOK /\ [Next]_vars => CallsOK'
  <2>1. CASE UNCHANGED vars
    BY <2>1 DEF vars, callVars, CallsOK, CallTypes, Bounded, Honest, Open
  <2>2. QED
    BY <2>1, CallStep DEF Next
<1>3. QED
  BY <1>1, <1>2, PTL DEF Spec

\* The backend executes a call at most once for each attempt that ended in an
\* error, once more for the one it answers, and at most max_retries times,
\* however late it executes what it was sent.
THEOREM EffectsBounded == Spec => []EffectsAccounted
<1>1. CallsOK => EffectsAccounted
  <2> SUFFICES ASSUME CallsOK, NEW c \in Calls
               PROVE  /\ applied[c] + late[c] <= unanswered[c] + (IF attempt[c] = "applied" THEN 1 ELSE 0)
                      /\ applied[c] + late[c] <= MaxRetries
    BY DEF EffectsAccounted
  <2>1. Bounded(c) /\ applied[c] \in Nat /\ late[c] \in Nat /\ unanswered[c] \in Nat
    BY DEF CallsOK, CallTypes
  <2>2. QED
    BY <2>1, CallAssumption DEF Bounded, Open
<1>2. QED
  BY <1>1, CallInvariant, PTL

\* The gateway reports success only for what the backend executed, whether the
\* success came with the last attempt, with an error, or with an attempt before
\* the last; and a call of one attempt that was refused is never executed, also
\* not later.
THEOREM AnswerHonest == Spec => []HonestAnswer
<1>1. CallsOK => HonestAnswer
  <2> SUFFICES ASSUME CallsOK, NEW c \in Calls
               PROVE  /\ success[c] => applied[c] > 0
                      /\ sent[c] = 1 /\ attempt[c] = "refused" => applied[c] = 0 /\ late[c] = 0
    BY DEF HonestAnswer
  <2>1. /\ Bounded(c) /\ Honest(c) /\ applied[c] \in Nat /\ late[c] \in Nat
        /\ unanswered[c] \in Nat
    BY DEF CallsOK, CallTypes
  <2>2. QED
    BY <2>1 DEF Bounded, Honest, Open
<1>2. QED
  BY <1>1, CallInvariant, PTL

-----------------------------------------------------------------------------
(* Types.  The calls use the balancer, whose invariant says that its index *)
(* stays within the list.                                                  *)

\* A call takes a client from the balancer, and no other step touches it.
LEMMA ClientStep ==
  ASSUME BalancerInv, client \in [Calls -> Addresses \cup {NoClient}], [Next]_vars
  PROVE  BalancerInv' /\ client' \in [Calls -> Addresses \cup {NoClient}]
<1>1. ASSUME NEW c \in Calls, Take(c)
      PROVE  BalancerInv' /\ client' \in [Calls -> Addresses \cup {NoClient}]
  <2>1. NextClient \in Addresses \cup {NoClient}
    <3>1. CASE clients = <<>>
      BY <3>1 DEF NextClient
    <3>2. CASE clients # <<>>
      <4>1. clients \in Seq(Addresses) /\ Len(clients) \in Nat /\ current_index \in 0 .. Len(clients) - 1
        BY <3>2, ListLength, BalancerAssumption DEF BalancerInv, BalancerTypeOK, IndexInRange, Positions
      <4>2. current_index + 1 \in 1 .. Len(clients)
        BY <4>1
      <4>3. clients[current_index + 1] \in Addresses
        BY <4>1, <4>2
      <4>4. QED
        BY <3>2, <4>3 DEF NextClient
    <3>3. QED
      BY <3>1, <3>2
  <2>2. BalancerInv'
    BY <1>1, PickInv DEF Take
  <2>3. QED
    BY <1>1, <2>1, <2>2 DEF Take
<1>2. CASE UNCHANGED <<balancerVars, client>>
  BY <1>2 DEF balancerVars, BalancerInv, BalancerTypeOK, IndexInRange, Turn
<1>3. QED
  BY <1>1, <1>2
  DEF Next, Gateway, Wrapper, Backend, BadRequest, Send, ReturnOk, ReturnError, Retry,
      Apply, Refuse, Late, vars, callVars

\* Every value stays of its type, and the balancer's index within its list.
THEOREM TypeCorrect == Spec => []TypeOK
<1> DEFINE IInv == BalancerInv /\ client \in [Calls -> Addresses \cup {NoClient}]
<1>1. Init => IInv
  BY StartInv DEF Init
<1>2. IInv /\ [Next]_vars => IInv'
  BY ClientStep
<1>3. IInv /\ CallsOK => TypeOK
  BY DEF BalancerInv, CallsOK, CallTypes, TypeOK
<1>4. QED
  BY <1>1, <1>2, <1>3, CallInvariant, PTL DEF Spec

-----------------------------------------------------------------------------
(* BackendCall implements what is safety in RemoteCall.  That each call is *)
(* answered is left to TLC.                                                *)

View == [c \in Calls |-> ClientsView(c)]

\* A step of a call changes what is seen of that call only.
LEMMA ViewStep ==
  ASSUME CallsOK, NEW d \in Calls, Gateway(d) \/ Backend(d)
  PROVE  View' = [View EXCEPT ![d] = ClientsView(d)']
<1>1. ASSUME NEW c \in Calls, c # d
      PROVE  ClientsView(c)' = ClientsView(c)
  BY <1>1, OthersStay DEF CallsOK, ClientsView
<1>2. QED
  BY <1>1 DEF View

\* The backend runs a call that was sent, and only as often as it was sent.
LEMMA RunStep ==
  ASSUME CallsOK, CallsOK', NEW d \in Calls, Apply(d) \/ Late(d)
  PROVE  [Promise!Next]_Promise!vars
<1>a. /\ Bounded(d) /\ Honest(d) /\ Bounded(d)' /\ MaxRetries \in Nat
      /\ phase[d] \in Phases /\ attempt[d] \in Attempt /\ late[d] \in Nat
      /\ applied[d] \in Nat /\ unanswered[d] \in Nat /\ success[d] \in BOOLEAN
      /\ late'[d] \in Nat /\ applied'[d] \in Nat /\ unanswered'[d] \in Nat
  BY CallAssumption DEF CallsOK, CallTypes
<1>1. /\ UNCHANGED <<phase, success, sent>>
      /\ applied' = [applied EXCEPT ![d] = @ + 1] \/ UNCHANGED applied
      /\ attempt[d] = "sent" \/ late[d] > 0
  BY DEF Apply, Late, Add
<1>2. UNCHANGED View
  BY <1>1 DEF View, ClientsView
<1>3. CASE UNCHANGED applied
  BY <1>2, <1>3 DEF Promise!vars, View
<1>4. CASE applied' = [applied EXCEPT ![d] = @ + 1]
  <2>1. applied'[d] = applied[d] + 1
    BY <1>4 DEF CallsOK, CallTypes
  <2>2. applied'[d] <= MaxRetries
    BY <1>a DEF Bounded, Open
  <2>3. phase[d] # "new" /\ sent[d] # 0
    BY <1>a, <1>1 DEF Bounded, Honest, Open
  <2>4. ClientsView(d) \in {"running", "ok", "failed"}
    BY <1>a, <2>3 DEF ClientsView
  <2>5. Promise!Run(d)
    BY <1>a, <1>2, <1>4, <2>1, <2>2, <2>4 DEF Promise!Run, View
  <2>6. QED
    BY <2>5 DEF Promise!Next
<1>5. QED
  BY <1>1, <1>3, <1>4

\* Each step of BackendCall is one that RemoteCall allows, or none.
LEMMA PromiseStep ==
  ASSUME CallsOK, CallsOK', [Next]_vars
  PROVE  [Promise!Next]_Promise!vars
<1>1. CASE UNCHANGED vars
  BY <1>1 DEF vars, callVars, Promise!vars, ClientsView
<1>2. ASSUME NEW d \in Calls, Gateway(d) \/ Backend(d)
      PROVE  [Promise!Next]_Promise!vars
  <2> DEFINE s == ClientsView(d)
  <2>a. /\ Bounded(d) /\ Honest(d) /\ CallTypes
        /\ phase[d] \in Phases /\ attempt[d] \in Attempt
        /\ applied[d] \in Nat /\ unanswered[d] \in Nat /\ late[d] \in Nat
        /\ retry_count[d] \in Nat /\ success[d] \in BOOLEAN
    BY DEF CallsOK, CallTypes
  <2>b. View' = [View EXCEPT ![d] = s']
    BY <1>2, ViewStep
  <2>1. ASSUME s' = s, UNCHANGED applied
        PROVE  [Promise!Next]_Promise!vars
    <3>1. UNCHANGED View
      BY <2>1, <2>b DEF View
    <3>2. QED
      BY <2>1, <3>1 DEF Promise!vars, View
  <2>2. ASSUME s = "new", s' \in {"running", "rejected"}, UNCHANGED applied
        PROVE  [Promise!Next]_Promise!vars
    BY <2>2, <2>b DEF Promise!Next, Promise!Begin, Promise!Reject, Promise!Become, View
  <2>3. ASSUME s = "running", s' = "failed" \/ (s' = "ok" /\ applied[d] > 0), UNCHANGED applied
        PROVE  [Promise!Next]_Promise!vars
    BY <2>3, <2>b DEF Promise!Next, Promise!Succeed, Promise!Fail, Promise!Become, View
  <2>4. CASE Take(d) \/ BadRequest(d)
    <3>1. /\ phase[d] = "new" /\ phase'[d] \in {"answered", "send"}
          /\ UNCHANGED <<success, sent, applied>>
      BY <2>a, <2>4 DEF Take, BadRequest, Goto, CallTypes
    <3>2. ~success[d] /\ sent[d] = 0
      BY <2>a, <3>1 DEF Bounded, Honest, Open
    <3>3. s = "new" /\ s' \in {"running", "rejected"}
      BY <3>1, <3>2 DEF ClientsView
    <3>4. QED
      BY <2>2, <3>1, <3>3
  <2>5. CASE Send(d) \/ Retry(d) \/ Refuse(d)
    <3>1. /\ UNCHANGED applied
          /\ \/ phase[d] \notin {"new", "answered"} /\ phase'[d] \notin {"new", "answered"}
             \/ UNCHANGED <<phase, success, sent>>
      BY <2>a, <2>5 DEF Send, Retry, Refuse, Goto, CallTypes
    <3>2. s' = s
      BY <3>1 DEF ClientsView
    <3>3. QED
      BY <2>1, <3>1, <3>2
  <2>6. CASE ReturnOk(d)
    <3>1. /\ phase[d] = "wait" /\ phase'[d] = "answered"
          /\ attempt[d] \in {"applied", "refused"}
          /\ success'[d] = (attempt[d] = "applied")
          /\ UNCHANGED <<sent, applied>>
      BY <2>a, <2>6 DEF ReturnOk, ReadResponse, Goto, CallTypes
    <3>2. sent[d] # 0 /\ (success'[d] => applied[d] > 0)
      BY <2>a, <3>1 DEF Honest, Open
    <3>3. s = "running" /\ s' = IF success'[d] THEN "ok" ELSE "failed"
      BY <3>1, <3>2 DEF ClientsView
    <3>4. QED
      BY <2>3, <3>1, <3>2, <3>3
  <2>7. CASE \E code \in Errors : ReturnError(d, code)
    <3>1. /\ phase[d] = "wait" /\ phase'[d] \in {"backoff", "answered"}
          /\ UNCHANGED <<sent, applied>>
          /\ success'[d] => success[d] \/ attempt[d] = "applied"
      <4>1. success'[d] => success[d] \/ attempt[d] = "applied"
        BY <2>a, <2>7 DEF ReturnError, ReadResponse, CallTypes
      <4>2. QED
        BY <2>a, <2>7, <4>1 DEF ReturnError, Fails, Goto, CallTypes
    <3>2. sent[d] # 0 /\ (success'[d] => applied[d] > 0)
      BY <2>a, <3>1 DEF Honest, Open
    <3>3. CASE phase'[d] = "backoff"
      BY <2>1, <3>1, <3>3 DEF ClientsView
    <3>4. CASE phase'[d] = "answered"
      <4>1. s = "running" /\ s' = IF success'[d] THEN "ok" ELSE "failed"
        BY <3>1, <3>2, <3>4 DEF ClientsView
      <4>2. QED
        BY <2>3, <3>1, <3>2, <4>1
    <3>5. QED
      BY <3>1, <3>3, <3>4
  <2>8. CASE Apply(d) \/ Late(d)
    BY <2>8, RunStep
  <2>9. QED
    BY <1>2, <2>4, <2>5, <2>6, <2>7, <2>8 DEF Gateway, Wrapper, Backend
<1>3. QED
  BY <1>1, <1>2 DEF Next

\* What a client is told of its call, and how often the backend ran it, is
\* never other than RemoteCall says, however the attempts of ExecuteWithRetry
\* end, with or without the answer of the backend in the response, and whenever
\* the backend executes them.
THEOREM CallImplementsRemoteCall == Spec => Promise!SafeSpec
<1>1. Init => Promise!Init
  BY DEF Init, Promise!Init, ClientsView
<1>2. CallsOK /\ CallsOK' /\ [Next]_vars => [Promise!Next]_Promise!vars
  BY PromiseStep
<1>3. QED
  BY <1>1, <1>2, CallInvariant, PTL DEF Spec, Promise!SafeSpec

=============================================================================
