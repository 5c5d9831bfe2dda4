------------------------------ MODULE RedisLemmas ------------------------------
(***************************************************************************)
(* Lemmas about Redis keys, calls of the client and sets of workers, which *)
(* the proofs about the components share.                                  *)
(***************************************************************************)
EXTENDS RedisClient, FiniteSetTheorems, TLAPS

-----------------------------------------------------------------------------
(* Redis keys.                                                             *)

\* A missing key is a key state and does not exist.
LEMMA MissingKey == Missing \in KeyStates /\ ~Exists(Missing) /\ Missing.val = 0
  BY DEF Missing, KeyStates, Exists, NoExpiry

\* INCR yields an existing key, one higher; its time to live is the old one.
LEMMA IncrKey ==
  ASSUME NEW k \in KeyStates
  PROVE  /\ Incr(k) \in KeyStates
         /\ Incr(k).val = k.val + 1
  BY DEF Incr, KeyStates, Exists, NoExpiry

\* EXPIRE changes nothing but the time to live.
LEMMA ExpireKey ==
  ASSUME NEW k \in KeyStates, NEW seconds \in Nat \ {0}
  PROVE  /\ Expire(k, seconds) \in KeyStates
         /\ Expire(k, seconds).val = k.val
         /\ Expire(k, seconds).ttl # NoExpiry
  BY DEF Expire, KeyStates, Exists, NoExpiry

\* SET with a timeout yields an existing key that expires.
LEMMA SetKey ==
  ASSUME NEW seconds \in Nat \ {0}
  PROVE  SetEx(seconds) \in KeyStates /\ Exists(SetEx(seconds))
  BY DEF SetEx, KeyStates, Exists, NoExpiry

\* A tick leaves the number of a key alone unless the key lapses, and takes
\* the time to live from no key.
LEMMA AgeKey ==
  ASSUME NEW k \in KeyStates
  PROVE  /\ Age(k) \in KeyStates
         /\ Exists(Age(k)) => Exists(k) /\ Age(k).val = k.val
         /\ ~Exists(Age(k)) => Age(k).val = 0
         /\ Age(k).ttl = NoExpiry => k.ttl = NoExpiry
  BY DEF Age, KeyStates, Exists, NoExpiry, Missing

-----------------------------------------------------------------------------
(* Calls.                                                                  *)

\* A call of a worker only adds faults.
LEMMA FaultCounter ==
  ASSUME NEW w \in Workers, faults \in Nat, Answers(w) \/ ReplyLost(w) \/ NoEffect(w)
  PROVE  /\ faults' \in Nat /\ faults' >= faults
         /\ delayed' = delayed
  BY DEF Answers, ReplyLost, NoEffect, Fault

\* A worker that gives up a command adds a fault, or delays nothing.
LEMMA GivenUp ==
  ASSUME NEW w \in Workers, NEW commands, NEW command, GivesUp(w, command),
         faults \in Nat, delayed \in [commands -> Nat]
  PROVE  /\ faults' \in Nat /\ faults' >= faults
         /\ delayed' \in [commands -> Nat]
         /\ faults' = 0 => delayed' = delayed
  BY DEF GivesUp, Fault

\* A delayed command arrives only if it was given up.
LEMMA Arrival ==
  ASSUME NEW commands, NEW command \in commands, delayed \in [commands -> Nat],
         Arrives(command)
  PROVE  /\ delayed' \in [commands -> Nat]
         /\ \E c \in commands : delayed[c] # 0
  BY DEF Arrives

-----------------------------------------------------------------------------
(* Counting workers.                                                       *)

\* A set of workers is finite and no larger than the set of all.
LEMMA WorkerSet ==
  ASSUME NEW S \in SUBSET Workers
  PROVE  /\ IsFiniteSet(S)
         /\ Cardinality(S) \in Nat
         /\ Cardinality(Workers) \in Nat
         /\ Cardinality(S) <= Cardinality(Workers)
  BY WorkersAssumption, FS_Subset, FS_CardinalityType

\* A part of a set of workers is no larger than the set.
LEMMA NoLarger ==
  ASSUME NEW T \in SUBSET Workers, NEW S \in SUBSET T
  PROVE  Cardinality(S) <= Cardinality(T)
  BY WorkerSet, FS_Subset

\* A set without one of its workers has one fewer.
LEMMA OneFewer ==
  ASSUME NEW T \in SUBSET Workers, NEW w \in T, NEW S \in SUBSET (T \ {w})
  PROVE  Cardinality(S) + 1 <= Cardinality(T)
<1>1. Cardinality(T \ {w}) = Cardinality(T) - 1
  BY WorkerSet, FS_RemoveElement
<1>2. Cardinality(S) <= Cardinality(T \ {w})
  BY NoLarger
<1>3. Cardinality(S) \in Nat /\ Cardinality(T) \in Nat
  BY WorkerSet
<1>4. QED
  BY <1>1, <1>2, <1>3

\* A set gains at most one by one more worker.
LEMMA OneMore ==
  ASSUME NEW T \in SUBSET Workers, NEW w \in Workers, NEW S \in SUBSET (T \cup {w})
  PROVE  Cardinality(S) <= Cardinality(T) + 1
<1>1. Cardinality(T \cup {w}) <= Cardinality(T) + 1
  BY WorkerSet, FS_AddElement
<1>2. Cardinality(S) <= Cardinality(T \cup {w})
  BY NoLarger
<1>3. Cardinality(S) \in Nat /\ Cardinality(T) \in Nat /\ Cardinality(T \cup {w}) \in Nat
  BY WorkerSet
<1>4. QED
  BY <1>1, <1>2, <1>3

\* Two sets that differ at most in one worker.
LEMMA OneApart ==
  ASSUME NEW S \in SUBSET Workers, NEW T \in SUBSET Workers, NEW w \in Workers,
         S \ {w} = T \ {w}
  PROVE  Cardinality(T) + (IF w \in S THEN 1 ELSE 0)
           = Cardinality(S) + (IF w \in T THEN 1 ELSE 0)
<1>1. /\ Cardinality(S \ {w}) = IF w \in S THEN Cardinality(S) - 1 ELSE Cardinality(S)
      /\ Cardinality(T \ {w}) = IF w \in T THEN Cardinality(T) - 1 ELSE Cardinality(T)
  BY WorkerSet, FS_RemoveElement
<1>2. Cardinality(S) \in Nat /\ Cardinality(T) \in Nat
  BY WorkerSet
<1>3. QED
  BY <1>1, <1>2

\* Two sets of workers without a common one fit into the set of all.
LEMMA TwoSets ==
  ASSUME NEW S \in SUBSET Workers, NEW T \in SUBSET Workers, S \cap T = {}
  PROVE  Cardinality(S) + Cardinality(T) <= Cardinality(Workers)
<1>1. Cardinality(S \cup T) = Cardinality(S) + Cardinality(T) - Cardinality(S \cap T)
  BY WorkerSet, FS_Union
<1>2. Cardinality(S \cap T) = 0
  BY FS_EmptySet
<1>3. Cardinality(S \cup T) <= Cardinality(Workers)
  BY WorkerSet
<1>4. Cardinality(S) \in Nat /\ Cardinality(T) \in Nat /\ Cardinality(Workers) \in Nat
  BY WorkerSet
<1>5. QED
  BY <1>1, <1>2, <1>3, <1>4

=============================================================================
