--------------------------- MODULE LoadBalancerProofs ---------------------------
(***************************************************************************)
(* Theorems about LoadBalancer, for every set of address lists.            *)
(***************************************************************************)
EXTENDS LoadBalancer, TLAPS

\* The positions before current_index have had their turn in this round.
Turn(i) == IF i < current_index THEN 1 ELSE 0

BalancerInv ==
  /\ BalancerTypeOK
  /\ IndexInRange
  /\ \A i, j \in Positions(clients) : picks[i] + Turn(j) = picks[j] + Turn(i)

\* A list of addresses has a length, and an empty list is the one of length 0.
LEMMA ListLength ==
  ASSUME NEW list \in AddressLists
  PROVE  Len(list) \in Nat /\ (list # <<>> => Len(list) > 0) /\ (list = <<>> => Len(list) = 0)
<1>1. list \in Seq(Addresses)
  BY BalancerAssumption
<1>2. QED
  BY <1>1

\* A list that has just been set starts the first round.
LEMMA StartInv ==
  ASSUME BalancerInit
  PROVE  BalancerInv
<1>1. clients \in AddressLists /\ Len(clients) \in Nat /\ (clients # <<>> => Len(clients) > 0)
  BY ListLength DEF BalancerInit
<1>2. \A i \in Positions(clients) : i \in Nat /\ picks[i] = 0
  BY <1>1 DEF BalancerInit, Positions
<1>3. QED
  BY <1>1, <1>2 DEF BalancerInit, BalancerInv, BalancerTypeOK, IndexInRange, Positions, Turn

\* So does UpdateAddresses.
LEMMA UpdateInv ==
  ASSUME UpdateAddresses
  PROVE  BalancerInv'
<1>1. PICK list \in AddressLists : SetClients(list)
  BY DEF UpdateAddresses
<1>2. Len(list) \in Nat /\ (list # <<>> => Len(list) > 0)
  BY ListLength
<1>3. clients' = list /\ current_index' = 0 /\ picks' = [i \in Positions(list) |-> 0]
  BY <1>1 DEF SetClients
<1>4. \A i \in Positions(list) : i \in Nat /\ picks'[i] = 0
  BY <1>2, <1>3 DEF Positions
<1>5. QED
  BY <1>2, <1>3, <1>4 DEF BalancerInv, BalancerTypeOK, IndexInRange, Positions, Turn

\* A pick goes on with the round, or ends it.
LEMMA PickInv ==
  ASSUME BalancerInv, GetNextClient
  PROVE  BalancerInv'
<1>1. CASE clients = <<>>
  BY <1>1 DEF GetNextClient, balancerVars, BalancerInv, BalancerTypeOK, IndexInRange,
              Positions, Turn
<1>2. CASE clients # <<>>
  <2> DEFINE n == Len(clients)
  <2>1. /\ clients \in AddressLists /\ n \in Nat /\ n > 0
        /\ current_index \in Nat /\ current_index < n
    BY <1>2, ListLength DEF BalancerInv, BalancerTypeOK, IndexInRange, Positions
  <2>2. /\ clients' = clients
        /\ picks' = [picks EXCEPT ![current_index] = @ + 1]
        /\ current_index' = (current_index + 1) % n
    BY <1>2 DEF GetNextClient
  <2>3. current_index' = IF current_index + 1 = n THEN 0 ELSE current_index + 1
    <3>1. CASE current_index + 1 = n
      BY <2>1, <2>2, <3>1
    <3>2. CASE current_index + 1 < n
      BY <2>1, <2>2, <3>2
    <3>3. QED
      BY <2>1, <3>1, <3>2
  <2>4. /\ Positions(clients)' = Positions(clients)
        /\ \A i \in Positions(clients) : i \in Nat /\ i < n /\ picks[i] \in Nat
    <3>1. clients' = clients => Positions(clients)' = Positions(clients)
      BY DEF Positions
    <3>2. \A i \in Positions(clients) : i \in Nat /\ i < n
      BY <2>1 DEF Positions
    <3>3. \A i \in Positions(clients) : picks[i] \in Nat
      BY DEF BalancerInv, BalancerTypeOK
    <3>4. QED
      BY <2>2, <3>1, <3>2, <3>3
  <2>5. current_index \in Positions(clients) /\ picks \in [Positions(clients) -> Nat]
    BY <1>2 DEF BalancerInv, BalancerTypeOK, IndexInRange
  <2>6. BalancerTypeOK' /\ IndexInRange'
    <3>1. current_index' \in Nat /\ current_index' \in Positions(clients)
      BY <2>1, <2>3 DEF Positions
    <3>2. picks' \in [Positions(clients) -> Nat]
      BY <2>2, <2>5
    <3>3. QED
      BY <2>1, <2>2, <2>4, <3>1, <3>2 DEF BalancerTypeOK, IndexInRange
  <2>7. ASSUME NEW i \in Positions(clients), NEW j \in Positions(clients)
        PROVE  picks'[i] + Turn(j)' = picks'[j] + Turn(i)'
    <3>1. picks[i] + Turn(j) = picks[j] + Turn(i)
      BY DEF BalancerInv
    <3>2. \A p \in Positions(clients) :
            picks'[p] = IF p = current_index THEN picks[p] + 1 ELSE picks[p]
      BY <2>2, <2>5
    <3>3. CASE current_index + 1 = n
      BY <2>1, <2>3, <2>4, <3>1, <3>2, <3>3 DEF Turn
    <3>4. CASE current_index + 1 # n
      BY <2>1, <2>3, <2>4, <3>1, <3>2, <3>4 DEF Turn
    <3>5. QED
      BY <3>3, <3>4
  <2>8. QED
    BY <2>4, <2>6, <2>7 DEF BalancerInv
<1>3. QED
  BY <1>1, <1>2

\* The clients are handed out in turn, whatever lists the balancer is given.
LEMMA BalancerInvariant == BalancerSpec => []BalancerInv
<1>1. BalancerInit => BalancerInv
  BY StartInv
<1>2. BalancerInv /\ [BalancerNext]_balancerVars => BalancerInv'
  <2>1. CASE UNCHANGED balancerVars
    BY <2>1 DEF balancerVars, BalancerInv, BalancerTypeOK, IndexInRange, Turn
  <2>2. QED
    BY <2>1, PickInv, UpdateInv DEF BalancerNext, BoundedPick
<1>3. QED
  BY <1>1, <1>2, PTL DEF BalancerSpec

\* The balancer keeps its types.
THEOREM BalancerTypeCorrect == BalancerSpec => []BalancerTypeOK
<1>1. BalancerInv => BalancerTypeOK
  BY DEF BalancerInv
<1>2. QED
  BY <1>1, BalancerInvariant, PTL

\* GetNextClient never reads beyond the end of clients_.
THEOREM IndexSafe == BalancerSpec => []IndexInRange
<1>1. BalancerInv => IndexInRange
  BY DEF BalancerInv
<1>2. QED
  BY <1>1, BalancerInvariant, PTL

\* Any two clients of a list have been handed out equally often, or one of
\* them once more.
THEOREM EvenlyBalanced == BalancerSpec => []Balanced
<1>1. BalancerInv => Balanced
  <2> SUFFICES ASSUME BalancerInv, NEW i \in Positions(clients), NEW j \in Positions(clients)
               PROVE  picks[i] <= picks[j] + 1
    BY DEF Balanced
  <2>1. picks[i] \in Nat /\ picks[j] \in Nat
    BY DEF BalancerInv, BalancerTypeOK
  <2>2. picks[i] + Turn(j) = picks[j] + Turn(i)
    BY DEF BalancerInv
  <2>3. QED
    BY <2>1, <2>2 DEF Turn
<1>2. QED
  BY <1>1, BalancerInvariant, PTL

=============================================================================
