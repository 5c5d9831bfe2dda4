------------------------------ MODULE LoadBalancer ------------------------------
(***************************************************************************)
(* LoadBalancer: the clients of one backend service, handed out in turn.   *)
(* Both operations run under mutex_, so each is one step.  UpdateAddresses *)
(* is public but has no caller in the gateway.                             *)
(***************************************************************************)
EXTENDS Integers, Sequences

CONSTANTS Addresses,      \* host:port of the backends
          AddressLists,   \* lists of them the balancer may be given
          NoClient,       \* nullptr
          MaxPicks        \* bound: clients handed out of one list

ASSUME BalancerAssumption ==
  /\ AddressLists \subseteq Seq(Addresses)
  /\ NoClient \notin Addresses
  /\ MaxPicks \in Nat

VARIABLES clients,         \* clients_, by address
          current_index,   \* current_index_
          picks            \* history: how often each position was handed out
                           \*   since the list was set

balancerVars == <<clients, current_index, picks>>

Positions(list) == 0 .. Len(list) - 1

\* Mutant: current_index is the client handed out last, and starts before them.
SetClientsBeforeFirst(list) ==
  /\ clients' = list
  /\ current_index' = -1
  /\ picks' = [i \in Positions(list) |-> 0]

\* The constructor and UpdateAddresses build one client for each address.
SetClients(list) ==
  /\ clients' = list
  /\ current_index' = 0
  /\ picks' = [i \in Positions(list) |-> 0]

BalancerInit ==
  /\ clients \in AddressLists
  /\ current_index = 0
  /\ picks = [i \in Positions(clients) |-> 0]

UpdateAddresses == \E list \in AddressLists : SetClients(list)

\* What GetNextClient returns in this state.
NextClient == IF clients = <<>> THEN NoClient ELSE clients[current_index + 1]

\* Mutant: the index does not wrap around.
GetNextClientNoWrap ==
  IF clients = <<>>
    THEN UNCHANGED balancerVars
    ELSE /\ picks' = [picks EXCEPT ![current_index] = @ + 1]
         /\ current_index' = current_index + 1
         /\ UNCHANGED clients

\* Mutant: the index does not move on.
GetNextClientSame ==
  IF clients = <<>>
    THEN UNCHANGED balancerVars
    ELSE /\ picks' = [picks EXCEPT ![current_index] = @ + 1]
         /\ UNCHANGED <<clients, current_index>>

GetNextClient ==
  IF clients = <<>>
    THEN UNCHANGED balancerVars
    ELSE /\ picks' = [picks EXCEPT ![current_index] = @ + 1]
         /\ current_index' = (current_index + 1) % Len(clients)
         /\ UNCHANGED clients

BoundedPick == /\ \A i \in Positions(clients) : picks[i] < MaxPicks
               /\ GetNextClient

BalancerNext == BoundedPick \/ UpdateAddresses

BalancerSpec == BalancerInit /\ [][BalancerNext]_balancerVars

-----------------------------------------------------------------------------
(* Correctness.                                                            *)

BalancerTypeOK ==
  /\ clients \in AddressLists
  /\ current_index \in Nat
  /\ picks \in [Positions(clients) -> Nat]

\* The index never leaves the list, also when UpdateAddresses shortens it.
IndexInRange == clients # <<>> => current_index \in Positions(clients)

\* Since the list was set, no client was handed out more than once more than
\* any other: the load is spread evenly over any stretch of calls.
Balanced ==
  \A i, j \in Positions(clients) : picks[i] <= picks[j] + 1

=============================================================================
