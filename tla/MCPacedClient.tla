----------------------------- MODULE MCPacedClient -----------------------------
(***************************************************************************)
(* SecurityLayer under a client that keeps to the limit: in any            *)
(* WindowSeconds consecutive ticks it sends at most RequestLimit requests. *)
(***************************************************************************)
EXTENDS MCSecurityLayer, Folds

VARIABLE recent    \* requests sent in the current tick and in the ones before

Client == CHOOSE ip \in IPs : TRUE
Path   == CHOOSE ep \in Endpoints : TRUE
Ages   == 0 .. WindowSeconds[Path] - 1
Sent   == MapThenFoldSet(+, 0, LAMBDA age : recent[age],
                         LAMBDA S : CHOOSE x \in S : TRUE, Ages)

PacedInit == HealthyStart /\ recent = [age \in Ages |-> 0]

PacedSend(w) == /\ HandleRequest(w, Client, Path)
                /\ UNCHANGED adminOps
                /\ Sent < RequestLimit[Path]
                /\ recent' = [recent EXCEPT ![0] = @ + 1]

PacedServe(w) == pc[w] # "idle" /\ Worker(w) /\ UNCHANGED recent

PacedTick == /\ \A w \in Workers : pc[w] = "idle"
             /\ Tick
             /\ recent' = [age \in Ages |-> IF age = 0 THEN 0 ELSE recent[age - 1]]

PacedNext == PacedTick \/ \E w \in Workers : PacedSend(w) \/ PacedServe(w)

PacedSpec == PacedInit /\ [][PacedNext]_<<vars, recent>>

\* src/src/security/ddos_protection.cpp:25-33: the limits are so many requests
\* in so many minutes.  A client that never sends more is never banned.
PacedClientNotBanned == ~Exists(ban[Client])
=============================================================================
