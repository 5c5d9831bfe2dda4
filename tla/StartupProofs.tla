----------------------------- MODULE StartupProofs -----------------------------
(***************************************************************************)
(* Theorems about Startup, for every environment, blacklist file and path. *)
(***************************************************************************)
EXTENDS Startup, FiniteSetTheorems, TLAPS

-----------------------------------------------------------------------------
(* The limits.                                                             *)

\* The limits that init sets.
LEMMA RuleFacts ==
  /\ Len(Rules) = 7
  /\ {Rules[i].path : i \in 1 .. 7} =
       {Login, Register, Refresh, ResetPassword, Decrease, Increase, CreatePayment}
  /\ \A i \in 1 .. 7 : Rules[i].config.windowSeconds \in {60, 300}
<1>1. /\ Len(Rules) = 7
      /\ Rules[1] = Rule(Login,          5,  60, 1800)
      /\ Rules[2] = Rule(Register,       3,  60, 1800)
      /\ Rules[3] = Rule(Refresh,       10,  60, 1800)
      /\ Rules[4] = Rule(ResetPassword,  3, 300, 1800)
      /\ Rules[5] = Rule(Decrease,      30,  60, 1800)
      /\ Rules[6] = Rule(Increase,      30,  60, 1800)
      /\ Rules[7] = Rule(CreatePayment, 20,  60, 1800)
  BY DEF Rules
<1>2. \A i \in 1 .. 7 : i \in {1, 2, 3, 4, 5, 6, 7}
  OBVIOUS
<1>3. \A i \in 1 .. 7 : Rules[i].config.windowSeconds \in {60, 300}
  BY <1>1, <1>2 DEF Rule, Config
<1>4. /\ Rules[1].path = Login /\ Rules[2].path = Register /\ Rules[3].path = Refresh
      /\ Rules[4].path = ResetPassword /\ Rules[5].path = Decrease
      /\ Rules[6].path = Increase /\ Rules[7].path = CreatePayment
  BY <1>1 DEF Rule
<1>5. {Rules[i].path : i \in 1 .. 7} =
        {Login, Register, Refresh, ResetPassword, Decrease, Increase, CreatePayment}
  BY <1>2, <1>4
<1>6. QED
  BY <1>1, <1>3, <1>5

\* What a path begins with if one of the limited paths is a prefix of it.
LEMMA PrefixPieces ==
  ASSUME NEW path, IsSequence(path), NEW p, IsPrefix(p, path),
         p \in Routes
  PROVE  \A i \in 1 .. Len(p) : path[i] = p[i]
  BY DEF Routes, IsPrefix, IsSequence, ToSet, Login, Register, Refresh, ResetPassword,
         Decrease, Increase, CreatePayment

\* At most one of the limited paths is a prefix of a path.
LEMMA OnePrefix ==
  ASSUME NEW path, IsSequence(path),
         NEW p \in Routes, IsPrefix(p, path), NEW q \in Routes, IsPrefix(q, path)
  PROVE  p = q
<1>1. /\ \A i \in 1 .. Len(p) : path[i] = p[i]
      /\ \A i \in 1 .. Len(q) : path[i] = q[i]
  BY PrefixPieces
<1>2. p[1] = q[1] /\ p[2] = q[2]
  <2>1. Len(p) >= 2 /\ Len(q) >= 2 /\ Len(p) \in Nat /\ Len(q) \in Nat
    BY DEF Routes, Login, Register, Refresh, ResetPassword, Decrease, Increase, CreatePayment
  <2>2. QED
    BY <1>1, <2>1
<1>3. Len(p) = Len(q)
  BY <1>2 DEF Routes, Login, Register, Refresh, ResetPassword, Decrease, Increase, CreatePayment
<1>4. Len(p) = 3 => p[3] = q[3]
  BY <1>1, <1>3
<1>5. QED
  BY <1>2, <1>3, <1>4
  DEF Routes, Login, Register, Refresh, ResetPassword, Decrease, Increase, CreatePayment

\* Whatever the order of the hash table, the search finds one limit.
LEMMA OneLimit ==
  ASSUME NEW configs, DOMAIN configs = Routes, NEW path, IsSequence(path)
  PROVE  /\ Cardinality(FindConfig(configs, path)) = 1
         /\ \A config \in FindConfig(configs, path) :
              config = default_config \/ \E p \in Routes : config = configs[p]
<1> DEFINE prefixes == { p \in DOMAIN configs : IsPrefix(p, path) }
<1>1. CASE path \in DOMAIN configs
  BY <1>1, FS_Singleton DEF FindConfig
<1>2. CASE path \notin DOMAIN configs /\ prefixes = {}
  BY <1>2, FS_Singleton DEF FindConfig
<1>3. CASE path \notin DOMAIN configs /\ prefixes # {}
  <2>1. PICK p \in Routes : IsPrefix(p, path)
    BY <1>3
  <2>2. prefixes = {p}
    BY <2>1, OnePrefix
  <2>3. FindConfig(configs, path) = {configs[p]}
    BY <1>3, <2>2 DEF FindConfig
  <2>4. QED
    BY <2>1, <2>3, FS_Singleton
<1>4. QED
  BY <1>1, <1>2, <1>3

-----------------------------------------------------------------------------
(* The inductive invariant, in a part for each of what a process reads or  *)
(* sets: the lists of addresses, the limits, and the blacklist.            *)

\* Where the main thread can be after validate.
Late == {"init", "setRateLimit", "blocked", "load", "start", "serving"}

Stages == Services \cup {"port", "redis", "construct", "ended"} \cup Late

FlagsInv ==
  /\ env \in Environments /\ stage \in Stages
  /\ locked \in BOOLEAN /\ g_server \in BOOLEAN /\ is_running \in BOOLEAN
  /\ connected \in BOOLEAN
  /\ exit_code \in {-1, 0, 1}

\* The entries of a list that validate takes.
Usable(list) ==
  IF list = Unset THEN {} ELSE { e \in ToSet(list) : e # Blank /\ ~Malformed(e) }

\* Where the main thread is before it comes to a list.
Before == [users    |-> {"port"},
           balance  |-> {"port", "users"},
           payments |-> {"port", "users", "balance"}]

\* What a list that validate accepted has become.
Complete(list, taken) ==
  IF list = Unset THEN taken = <<>>
  ELSE taken # <<>> /\ WithoutBlank(taken, list, Len(list))

AddressInv ==
  /\ addresses = [s \in Services |-> addresses[s]]
  /\ \A s \in Services :
       LET list == env.ADDRESSES[s]
       IN /\ addresses[s] \in Seq(Usable(list))
          /\ IF stage = s THEN
                /\ entriesRead \in Nat
                /\ IF list = Unset THEN entriesRead = 0 /\ addresses[s] = <<>>
                   ELSE /\ entriesRead <= Len(list)
                        /\ WithoutBlank(addresses[s], list, entriesRead)
             ELSE IF stage \in Before[s] THEN addresses[s] = <<>>
             ELSE stage = "ended" \/ Complete(list, addresses[s])
  /\ entriesRead \in Nat
  /\ stage = "port" => entriesRead = 0

BalancersInv ==
  /\ balancers = [s \in Services |-> balancers[s]]
  /\ \A s \in Services : balancers[s] \in Seq(Usable(env.ADDRESSES[s]))
  /\ stage \in Late => balancers = addresses

LimitsInv ==
  /\ calls \in 0 .. Len(Rules)
  /\ DOMAIN path_configs = { Rules[i].path : i \in 1 .. calls }
  /\ \A p \in DOMAIN path_configs :
       path_configs[p] \in { Rules[i].config : i \in 1 .. Len(Rules) }
  /\ stage \in {"load", "start", "serving"} => calls = Len(Rules)

\* The entries that the first n lines of a file make.
EntriesOf(file, n) ==
  { Trimmed(file[i]) : i \in { j \in 1 .. n : ~Skipped(file[j]) } }

BlacklistInv ==
  /\ linesRead \in Nat
  /\ banned \cup refused = ToSet(predefined)
  /\ IF env.BLACKLIST = Unset THEN linesRead = 0 /\ predefined = <<>>
     ELSE /\ linesRead <= Len(env.BLACKLIST)
          /\ predefined \in Seq(EntriesOf(env.BLACKLIST, Len(env.BLACKLIST)))
          /\ Len(predefined) <= linesRead
          /\ ToSet(predefined) = EntriesOf(env.BLACKLIST, linesRead)
  /\ stage \in {"start", "serving"} => ~LinesLeft

StartupInv == FlagsInv /\ AddressInv /\ BalancersInv /\ LimitsInv /\ BlacklistInv

-----------------------------------------------------------------------------
(* Lists.                                                                  *)

\* What is known of the environment a process found.
LEMMA EnvironmentFacts ==
  ASSUME FlagsInv
  PROVE  /\ \A s \in Services : env.ADDRESSES[s] = Unset \/ IsSequence(env.ADDRESSES[s])
         /\ \/ env.BLACKLIST = Unset
            \/ /\ IsSequence(env.BLACKLIST)
               /\ \A line \in ToSet(env.BLACKLIST) :
                    line.blanks \in BOOLEAN /\ line.hash \in BOOLEAN /\ line.cr \in BOOLEAN
  BY StartupAssumption DEF FlagsInv

\* A sequence has its elements at the places up to its length.
LEMMA SequenceElements ==
  ASSUME NEW list, IsSequence(list)
  PROVE  /\ Len(list) \in Nat /\ DOMAIN list = 1 .. Len(list)
         /\ \A i \in 1 .. Len(list) : list[i] \in ToSet(list)
  BY DEF IsSequence, ToSet

\* Nothing is left of no entries.
LEMMA NoneYet ==
  ASSUME NEW list
  PROVE  WithoutBlank(<<>>, list, 0)
<1> DEFINE place == [i \in DOMAIN <<>> |-> 0]
<1>1. DOMAIN <<>> = {} /\ 1 .. 0 = {}
  OBVIOUS
<1>2. place \in [DOMAIN <<>> -> 1 .. 0]
  BY <1>1
<1>3. QED
  BY <1>1, <1>2 DEF WithoutBlank

\* A blank entry adds nothing to what is left.
LEMMA BlankSkipped ==
  ASSUME NEW list, NEW n \in Nat, list[n + 1] = Blank, NEW chosen,
         WithoutBlank(chosen, list, n)
  PROVE  WithoutBlank(chosen, list, n + 1)
<1>1. PICK place \in [DOMAIN chosen -> 1 .. n] :
        /\ \A i, j \in DOMAIN chosen : i < j => place[i] < place[j]
        /\ \A i \in DOMAIN chosen : chosen[i] = list[place[i]]
        /\ \A m \in 1 .. n : list[m] # Blank <=> \E i \in DOMAIN chosen : place[i] = m
  BY DEF WithoutBlank
<1>2. place \in [DOMAIN chosen -> 1 .. n + 1]
  OBVIOUS
<1>3. \A m \in 1 .. n + 1 : m \in 1 .. n \/ m = n + 1
  OBVIOUS
<1>4. \A m \in 1 .. n + 1 : list[m] # Blank <=> \E i \in DOMAIN chosen : place[i] = m
  BY <1>1, <1>3
<1>5. QED
  BY <1>1, <1>2, <1>4 DEF WithoutBlank

\* Any other is the last of what is left.
LEMMA EntryTaken ==
  ASSUME NEW list, NEW n \in Nat, list[n + 1] # Blank,
         NEW S, NEW chosen \in Seq(S), list[n + 1] \in S,
         WithoutBlank(chosen, list, n)
  PROVE  WithoutBlank(Append(chosen, list[n + 1]), list, n + 1)
<1> DEFINE longer == Append(chosen, list[n + 1])
<1>1. PICK place \in [DOMAIN chosen -> 1 .. n] :
        /\ \A i, j \in DOMAIN chosen : i < j => place[i] < place[j]
        /\ \A i \in DOMAIN chosen : chosen[i] = list[place[i]]
        /\ \A m \in 1 .. n : list[m] # Blank <=> \E i \in DOMAIN chosen : place[i] = m
  BY DEF WithoutBlank
<1>2. /\ DOMAIN chosen = 1 .. Len(chosen) /\ Len(chosen) \in Nat
      /\ DOMAIN longer = 1 .. Len(chosen) + 1
      /\ \A i \in 1 .. Len(chosen) : longer[i] = chosen[i]
      /\ longer[Len(chosen) + 1] = list[n + 1]
  OBVIOUS
<1> DEFINE further == [i \in DOMAIN longer |-> IF i = Len(chosen) + 1 THEN n + 1 ELSE place[i]]
<1> HIDE DEF longer
<1>3. \A i \in DOMAIN longer : i \in DOMAIN chosen \/ i = Len(chosen) + 1
  BY <1>2
<1>4. /\ \A i \in DOMAIN chosen : further[i] = place[i]
      /\ further[Len(chosen) + 1] = n + 1
      /\ further \in [DOMAIN longer -> 1 .. n + 1]
  BY <1>1, <1>2, <1>3
<1>5. DOMAIN chosen \subseteq DOMAIN longer /\ Len(chosen) + 1 \in DOMAIN longer
  BY <1>2
<1> HIDE DEF further
<1>6. \A i, j \in DOMAIN longer : i < j => further[i] < further[j]
  BY <1>1, <1>2, <1>3, <1>4
<1>7. \A i \in DOMAIN longer : longer[i] = list[further[i]]
  BY <1>1, <1>2, <1>3, <1>4
<1>8. ASSUME NEW m \in 1 .. n + 1
      PROVE  list[m] # Blank <=> \E i \in DOMAIN longer : further[i] = m
  <2>1. CASE m = n + 1
    BY <1>4, <1>5, <2>1
  <2>2. CASE m \in 1 .. n
    <3>1. m # n + 1 /\ (list[m] # Blank <=> \E i \in DOMAIN chosen : place[i] = m)
      BY <1>1, <2>2
    <3>2. QED
      BY <1>3, <1>4, <1>5, <3>1
  <2>3. QED
    BY <2>1, <2>2
<1>9. QED
  BY <1>4, <1>6, <1>7, <1>8 DEF WithoutBlank, longer

-----------------------------------------------------------------------------
(* What each step keeps.                                                   *)

\* The steps of main in their order, but for those of validate.
LEMMA FlagsStep ==
  ASSUME FlagsInv, [Next]_vars
  PROVE  FlagsInv' /\ UNCHANGED env
<1>1. CASE ValidatePort \/ ValidateEntry \/ ValidateList \/ ValidateRedis
  <2> DEFINE Goal == stage' \in Stages /\ exit_code' \in {-1, 0, 1}
  <2>1. Goal
    <3>1. CASE ValidatePort \/ ValidateRedis
      BY <3>1 DEF ValidatePort, ValidateRedis, GoOnIf, Exit, Services, Stages, FlagsInv
    <3>2. CASE ValidateEntry
      BY <3>2 DEF ValidateEntry, Exit, Stages, FlagsInv
    <3>3. CASE ValidateList
      <4>1. \/ stage' = "ended" /\ exit_code' = 1
            \/ stage' = Following[stage] /\ UNCHANGED exit_code
        BY <3>3 DEF ValidateList, GoOnIf, Exit
      <4>2. stage \in {"users", "balance", "payments"}
        BY <3>3 DEF ValidateList, Services
      <4>3. Following[stage] \in {"balance", "payments", "redis"}
        BY <4>2 DEF Following
      <4>4. QED
        BY <4>1, <4>3 DEF Services, Stages, FlagsInv
    <3>4. QED
      BY <1>1, <3>1, <3>2, <3>3
  <2>2. UNCHANGED <<env, locked, g_server, is_running, connected>>
    BY <1>1 DEF ValidatePort, ValidateEntry, ValidateList, ValidateRedis,
                lateVars, limitVars, serverVars
  <2>3. QED
    BY <2>1, <2>2 DEF FlagsInv
<1>2. CASE Construct \/ InitLimits \/ SetRateLimit \/ LimitsSet
  BY <1>2 DEF Construct, InitLimits, SetRateLimit, LimitsSet, Exit, limitVars, serverVars,
              Stages, Late, FlagsInv
<1>3. CASE LoadLine \/ Constructed \/ Start \/ Signal
  BY <1>3 DEF LoadLine, Constructed, Start, Signal, Exit, limitVars, serverVars,
              Stages, Late, FlagsInv
<1>4. CASE UNCHANGED vars
  BY <1>4 DEF vars, lateVars, limitVars, serverVars, FlagsInv
<1>5. QED
  BY <1>1, <1>2, <1>3, <1>4 DEF Next, Main

\* After validate nothing happens to the lists it made.
LEMMA AddressFrame ==
  ASSUME AddressInv, UNCHANGED <<env, readVars>>,
         stage' = "ended" \/ stage' = stage \/ (stage \in Late \cup {"construct"} /\ stage' \in Late)
  PROVE  AddressInv'
<1>1. \A s \in Services : \A later \in Late \cup {"construct", "ended"} :
        later # s /\ later \notin Before[s]
  BY DEF Services, Before, Late
<1>2. stage' # "port" \/ stage' = stage
  BY DEF Late
<1>3. "ended" \notin Late
  BY DEF Late
<1>4. UNCHANGED <<env, addresses, entriesRead>>
  BY DEF readVars
<1>5. ASSUME NEW s \in Services
      PROVE  LET list == env.ADDRESSES[s]
             IN IF stage' = s THEN
                  /\ entriesRead \in Nat
                  /\ IF list = Unset THEN entriesRead = 0 /\ addresses[s] = <<>>
                     ELSE entriesRead <= Len(list) /\ WithoutBlank(addresses[s], list, entriesRead)
                ELSE IF stage' \in Before[s] THEN addresses[s] = <<>>
                ELSE stage' = "ended" \/ Complete(list, addresses[s])
  <2>1. CASE stage' = "ended"
    <3>1. stage' # s /\ stage' \notin Before[s]
      BY <1>1, <2>1
    <3>2. QED
      BY <2>1, <3>1
  <2>2. CASE stage' = stage
    BY <2>2 DEF AddressInv
  <2>3. CASE stage \in Late \cup {"construct"} /\ stage' \in Late
    <3>1. stage # s /\ stage \notin Before[s] /\ stage # "ended"
      BY <1>1, <1>3, <2>3
    <3>2. stage' # s /\ stage' \notin Before[s]
      BY <1>1, <2>3
    <3>3. Complete(env.ADDRESSES[s], addresses[s])
      BY <3>1 DEF AddressInv
    <3>4. QED
      BY <3>2, <3>3
  <2>4. QED
    BY <2>1, <2>2, <2>3
<1>6. QED
  BY <1>2, <1>4, <1>5 DEF AddressInv

\* One round of the loop over the entries of a list.
LEMMA AddressEntry ==
  ASSUME FlagsInv, AddressInv, ValidateEntry
  PROVE  AddressInv'
<1> DEFINE list == env.ADDRESSES[stage]
           n    == entriesRead
<1>1. /\ stage \in Services /\ UNCHANGED env
      /\ list # Unset /\ n \in Nat /\ n < Len(list) /\ entriesRead' = n + 1
      /\ addresses[stage] \in Seq(Usable(list)) /\ WithoutBlank(addresses[stage], list, n)
  BY DEF ValidateEntry, EntriesLeft, lateVars, serverVars, AddressInv
<1>2. list[n + 1] \in ToSet(list) /\ Len(list) \in Nat
  <2>1. IsSequence(list)
    BY <1>1, EnvironmentFacts
  <2>2. QED
    BY <1>1, <2>1, SequenceElements
<1>3. CASE list[n + 1] = Blank /\ UNCHANGED <<addresses, stage>>
  <2>1. WithoutBlank(addresses[stage], list, n + 1)
    BY <1>1, <1>3, BlankSkipped
  <2>2. QED
    BY <1>1, <1>2, <1>3, <2>1 DEF AddressInv, Services
<1>4. CASE /\ list[n + 1] # Blank /\ ~Malformed(list[n + 1]) /\ stage' = stage
           /\ addresses' = [addresses EXCEPT ![stage] = Append(@, list[n + 1])]
  <2>1. list[n + 1] \in Usable(list)
    BY <1>1, <1>2, <1>4 DEF Usable
  <2>2. WithoutBlank(Append(addresses[stage], list[n + 1]), list, n + 1)
    BY <1>1, <1>4, <2>1, EntryTaken
  <2>3. Append(addresses[stage], list[n + 1]) \in Seq(Usable(list))
    BY <1>1, <2>1
  <2>4. \A s \in Services : addresses'[s] = IF s = stage THEN Append(addresses[stage], list[n + 1])
                                                        ELSE addresses[s]
    BY <1>1, <1>4 DEF AddressInv
  <2>5. addresses' = [s \in Services |-> addresses'[s]]
    BY <1>4 DEF AddressInv
  <2>6. ASSUME NEW s \in Services
        PROVE  LET list_s == env.ADDRESSES[s]
               IN /\ addresses'[s] \in Seq(Usable(list_s))
                  /\ IF stage = s THEN
                       /\ n + 1 \in Nat
                       /\ list_s # Unset /\ n + 1 <= Len(list_s)
                       /\ WithoutBlank(addresses'[s], list_s, n + 1)
                     ELSE IF stage \in Before[s] THEN addresses'[s] = <<>>
                     ELSE stage = "ended" \/ Complete(list_s, addresses'[s])
    <3>1. CASE s = stage
      <4>1. env.ADDRESSES[s] = list /\ addresses'[s] = Append(addresses[stage], list[n + 1])
        BY <2>4, <3>1
      <4>2. n + 1 \in Nat /\ n + 1 <= Len(list)
        BY <1>1, <1>2
      <4>3. QED
        BY <1>1, <2>2, <2>3, <3>1, <4>1, <4>2
    <3>2. CASE s # stage
      BY <2>4, <3>2 DEF AddressInv
    <3>3. QED
      BY <3>1, <3>2
  <2>7. stage' # "port"
    BY <1>1, <1>4 DEF Services
  <2>8. stage' = stage /\ UNCHANGED env /\ entriesRead' = n + 1 /\ n + 1 \in Nat
    BY <1>1, <1>4
  <2> HIDE DEF list
  <2>9. QED
    BY <2>5, <2>6, <2>7, <2>8 DEF AddressInv
<1>5. CASE stage' = "ended" /\ UNCHANGED addresses
  BY <1>1, <1>5 DEF AddressInv, Services, Before
<1>6. QED
  BY <1>3, <1>4, <1>5 DEF ValidateEntry, Exit

\* Every step keeps what the lists of addresses have become.
LEMMA AddressStep ==
  ASSUME FlagsInv, AddressInv, [Next]_vars
  PROVE  AddressInv'
<1>1. CASE ValidatePort
  <2>1. /\ stage = "port" /\ stage' \in {"users", "ended"} /\ UNCHANGED <<env, readVars>>
        /\ entriesRead = 0
    BY <1>1 DEF ValidatePort, GoOnIf, Exit, lateVars, serverVars, AddressInv
  <2>2. \A s \in Services : /\ addresses[s] = <<>> /\ WithoutBlank(<<>>, env.ADDRESSES[s], 0)
                           /\ (s = "users" \/ "users" \in Before[s])
    BY <2>1, NoneYet DEF AddressInv, Services, Before
  <2>3. \A s \in Services : env.ADDRESSES[s] = Unset \/ Len(env.ADDRESSES[s]) \in Nat
    BY EnvironmentFacts, SequenceElements
  <2>4. QED
    BY <2>1, <2>2, <2>3 DEF AddressInv, readVars, Services, Before
<1>2. CASE ValidateList
  <2> DEFINE list == env.ADDRESSES[stage]
  <2>1. /\ stage \in Services /\ UNCHANGED <<env, addresses>> /\ entriesRead' = 0
        /\ list = Unset \/ entriesRead >= Len(list)
        /\ stage' = "ended" \/ (stage' = Following[stage] /\ (list = Unset \/ addresses[stage] # <<>>))
    BY <1>2, EnvironmentFacts, SequenceElements
    DEF ValidateList, EntriesLeft, GoOnIf, Exit, lateVars, serverVars, AddressInv
  <2>2. CASE stage' = "ended"
    BY <2>1, <2>2 DEF AddressInv, Services, Before
  <2>3. CASE stage' = Following[stage] /\ (list = Unset \/ addresses[stage] # <<>>)
    <3>1. Complete(list, addresses[stage])
      <4>1. list # Unset => Len(list) \in Nat
        BY <2>1, EnvironmentFacts, SequenceElements
      <4>2. list # Unset => entriesRead = Len(list)
        BY <2>1, <4>1 DEF AddressInv
      <4>3. QED
        BY <2>1, <2>3, <4>2 DEF AddressInv, Complete
    <3>2. /\ WithoutBlank(<<>>, env.ADDRESSES[stage'], 0)
          /\ stage' \in Services => env.ADDRESSES[stage'] = Unset \/ Len(env.ADDRESSES[stage']) \in Nat
      BY NoneYet, EnvironmentFacts, SequenceElements
    <3>3. CASE stage = "users"
      BY <2>1, <2>3, <3>1, <3>2, <3>3 DEF AddressInv, Services, Before, Following
    <3>4. CASE stage = "balance"
      BY <2>1, <2>3, <3>1, <3>2, <3>4 DEF AddressInv, Services, Before, Following
    <3>5. CASE stage = "payments"
      BY <2>1, <2>3, <3>1, <3>2, <3>5 DEF AddressInv, Services, Before, Following
    <3>6. QED
      BY <2>1, <3>3, <3>4, <3>5 DEF Services
  <2>4. QED
    BY <2>1, <2>2, <2>3
<1>3. CASE ValidateRedis
  <2>1. stage = "redis" /\ stage' \in {"construct", "ended"} /\ UNCHANGED <<env, readVars>>
    BY <1>3 DEF ValidateRedis, GoOnIf, Exit, lateVars, serverVars
  <2>2. QED
    BY <2>1 DEF AddressInv, readVars, Services, Before
<1>4. CASE Construct \/ InitLimits \/ SetRateLimit \/ LimitsSet
  <2>1. /\ UNCHANGED <<env, readVars>>
        /\ stage' = "ended" \/ stage' = stage \/ (stage \in Late \cup {"construct"} /\ stage' \in Late)
    BY <1>4 DEF Construct, InitLimits, SetRateLimit, LimitsSet, Exit, serverVars, Late
  <2>2. QED
    BY <2>1, AddressFrame
<1>5. CASE LoadLine \/ Constructed \/ Start \/ Signal
  <2>1. /\ UNCHANGED <<env, readVars>>
        /\ stage' = "ended" \/ stage' = stage \/ (stage \in Late \cup {"construct"} /\ stage' \in Late)
    BY <1>5 DEF LoadLine, Constructed, Start, Signal, Exit, serverVars, Late
  <2>2. QED
    BY <2>1, AddressFrame
<1>6. CASE UNCHANGED vars
  BY <1>6, AddressFrame DEF vars, lateVars, serverVars
<1>7. QED
  BY <1>1, <1>2, <1>3, <1>4, <1>5, <1>6, AddressEntry DEF Next, Main

\* Only the constructor sets the balancers, to what validate made of the lists.
LEMMA BalancersStep ==
  ASSUME FlagsInv, AddressInv, BalancersInv, [Next]_vars
  PROVE  BalancersInv'
<1>1. CASE ValidatePort \/ ValidateEntry \/ ValidateList \/ ValidateRedis
  <2>1. UNCHANGED <<env, balancers>>
    BY <1>1 DEF ValidatePort, ValidateEntry, ValidateList, ValidateRedis, lateVars, serverVars
  <2>2. \A s \in Services : s \notin Late /\ Following[s] \notin Late
    BY DEF Services, Late, Following
  <2>3. stage' \notin Late
    BY <1>1, <2>2
    DEF ValidatePort, ValidateEntry, ValidateList, ValidateRedis, GoOnIf, Exit, Late
  <2>4. QED
    BY <2>1, <2>3 DEF BalancersInv
<1>2. CASE Construct
  <2>1. balancers' = addresses /\ UNCHANGED <<env, addresses>>
    BY <1>2 DEF Construct, readVars
  <2>2. QED
    BY <2>1 DEF BalancersInv, AddressInv
<1>3. CASE InitLimits \/ SetRateLimit \/ LimitsSet
  BY <1>3 DEF InitLimits, SetRateLimit, LimitsSet, Exit, readVars, serverVars, BalancersInv, Late
<1>4. CASE LoadLine \/ Constructed \/ Start \/ Signal
  BY <1>4 DEF LoadLine, Constructed, Start, Signal, Exit, readVars, serverVars, BalancersInv, Late
<1>5. CASE UNCHANGED vars
  BY <1>5 DEF vars, readVars, lateVars, serverVars, BalancersInv
<1>6. QED
  BY <1>1, <1>2, <1>3, <1>4, <1>5 DEF Next, Main

\* A call of setRateLimit that goes on adds its limit; init ends after the last.
LEMMA LimitsStep ==
  ASSUME FlagsInv, LimitsInv, [Next]_vars
  PROVE  LimitsInv'
<1> DEFINE Set == {"load", "start", "serving"}
<1>1. CASE ValidatePort \/ ValidateEntry \/ ValidateList \/ ValidateRedis
  <2>1. UNCHANGED <<calls, path_configs>>
    BY <1>1 DEF ValidatePort, ValidateEntry, ValidateList, ValidateRedis, lateVars, limitVars
  <2>2. \A s \in Services : s \notin Set /\ Following[s] \notin Set
    BY DEF Services, Following
  <2>3. stage' \notin Set
    BY <1>1, <2>2
    DEF ValidatePort, ValidateEntry, ValidateList, ValidateRedis, GoOnIf, Exit
  <2>4. QED
    BY <2>1, <2>3 DEF LimitsInv
<1>2. CASE Construct \/ InitLimits \/ LimitsSet
  BY <1>2 DEF Construct, InitLimits, LimitsSet, limitVars, LimitsInv
<1>3. CASE SetRateLimit
  <2>1. CASE UNCHANGED <<calls, path_configs>>
    BY <1>3, <2>1 DEF SetRateLimit, Exit, LimitsInv
  <2>2. CASE /\ calls' = calls + 1 /\ stage' = stage
             /\ path_configs' = SetConfig(path_configs, Rules[calls'])
    <3> DEFINE rule == Rules[calls + 1]
    <3>1. /\ calls \in 0 .. 6 /\ Len(Rules) = 7 /\ stage = "setRateLimit"
      <4>1. Len(Rules) = 7
        BY RuleFacts
      <4>2. calls \in 0 .. Len(Rules) /\ calls < Len(Rules) /\ stage = "setRateLimit"
        BY <1>3 DEF SetRateLimit, LimitsInv
      <4> QED
        BY <4>1, <4>2
    <3>2. calls + 1 \in 1 .. 7
      BY <3>1
    <3>3. /\ DOMAIN path_configs' = DOMAIN path_configs \cup {rule.path}
          /\ \A p \in DOMAIN path_configs' :
               path_configs'[p] = IF p = rule.path THEN rule.config ELSE path_configs[p]
      BY <2>2 DEF SetConfig
    <3>4. 1 .. calls + 1 = 1 .. calls \cup {calls + 1}
      BY <3>1
    <3>5. DOMAIN path_configs' = { Rules[i].path : i \in 1 .. calls + 1 }
      BY <3>3, <3>4 DEF LimitsInv
    <3>6. \A p \in DOMAIN path_configs' :
            path_configs'[p] \in { Rules[i].config : i \in 1 .. Len(Rules) }
      BY <3>1, <3>2, <3>3 DEF LimitsInv
    <3>7. QED
      BY <2>2, <3>1, <3>2, <3>5, <3>6 DEF LimitsInv
  <2>3. QED
    BY <1>3, <2>1, <2>2 DEF SetRateLimit, limitVars
<1>4. CASE LoadLine \/ Constructed \/ Start \/ Signal
  BY <1>4 DEF LoadLine, Constructed, Start, Signal, Exit, limitVars, LimitsInv
<1>5. CASE UNCHANGED vars
  BY <1>5 DEF vars, lateVars, limitVars, LimitsInv
<1>6. QED
  BY <1>1, <1>2, <1>3, <1>4, <1>5 DEF Next, Main

\* The list and the bans hold what the lines read so far make.
LEMMA BlacklistStep ==
  ASSUME FlagsInv, BlacklistInv, [Next]_vars
  PROVE  BlacklistInv'
<1> DEFINE file == env.BLACKLIST
           n    == linesRead
           line == file[n + 1]
<1>1. CASE LoadLine
  <2>1. /\ stage = "load" /\ stage' = stage /\ UNCHANGED env
        /\ file # Unset /\ n \in Nat /\ n < Len(file) /\ n + 1 \in Nat
        /\ linesRead' = n + 1 /\ TakeLine(line)
    BY <1>1 DEF LoadLine, LinesLeft, serverVars, BlacklistInv
  <2>2. Len(file) \in Nat /\ n + 1 <= Len(file)
    BY <2>1, EnvironmentFacts, SequenceElements
  <2>3. 1 .. n + 1 = 1 .. n \cup {n + 1}
    BY <2>1
  <2>4. CASE Skipped(line) /\ UNCHANGED <<predefined, banned, refused>>
    <3>1. EntriesOf(file, n + 1) = EntriesOf(file, n)
      BY <2>3, <2>4 DEF EntriesOf
    <3>2. QED
      BY <2>1, <2>2, <2>4, <3>1 DEF BlacklistInv
  <2>5. CASE /\ ~Skipped(line) /\ predefined' = Append(predefined, Trimmed(line))
             /\ banned' \cup refused' = banned \cup refused \cup {Trimmed(line)}
    <3>1. EntriesOf(file, n + 1) = EntriesOf(file, n) \cup {Trimmed(line)}
      BY <2>3, <2>5 DEF EntriesOf
    <3>2. Trimmed(line) \in EntriesOf(file, Len(file))
      <4>1. n + 1 \in 1 .. Len(file)
        BY <2>1, <2>2
      <4>2. QED
        BY <2>5, <4>1 DEF EntriesOf
    <3>3. predefined \in Seq(EntriesOf(file, Len(file)))
      BY <2>1 DEF BlacklistInv
    <3>4. /\ predefined' \in Seq(EntriesOf(file, Len(file)))
          /\ Len(predefined') = Len(predefined) + 1
          /\ ToSet(predefined') = ToSet(predefined) \cup {Trimmed(line)}
      BY <2>5, <3>2, <3>3 DEF ToSet
    <3>5. banned' \cup refused' = ToSet(predefined')
      BY <2>5, <3>4 DEF BlacklistInv
    <3>6. Len(predefined) \in Nat /\ Len(predefined) <= n
      BY <2>1, <3>3 DEF BlacklistInv
    <3>7. Len(predefined') <= n + 1
      BY <2>1, <3>4, <3>6
    <3>8. ToSet(predefined') = EntriesOf(file, n + 1)
      BY <2>1, <3>1, <3>4 DEF BlacklistInv
    <3> HIDE DEF file, n, line
    <3>9. QED
      BY <2>1, <2>2, <3>4, <3>5, <3>7, <3>8 DEF BlacklistInv, file, n
  <2>6. QED
    BY <2>1, <2>4, <2>5 DEF TakeLine
<1>2. CASE Constructed
  BY <1>2 DEF Constructed, LinesLeft, listVars, BlacklistInv
<1>3. CASE Start
  BY <1>3 DEF Start, LinesLeft, listVars, BlacklistInv
<1>4. CASE ValidatePort \/ ValidateEntry \/ ValidateList \/ ValidateRedis
  <2>1. UNCHANGED <<env, linesRead, predefined, banned, refused>>
    BY <1>4 DEF ValidatePort, ValidateEntry, ValidateList, ValidateRedis, lateVars, listVars, serverVars
  <2>2. \A s \in Services : /\ s \notin {"start", "serving"}
                            /\ Following[s] \notin {"start", "serving"}
    BY DEF Services, Following
  <2>3. stage' \notin {"start", "serving"}
    BY <1>4, <2>2
    DEF ValidatePort, ValidateEntry, ValidateList, ValidateRedis, GoOnIf, Exit
  <2>4. QED
    BY <2>1, <2>3 DEF BlacklistInv
<1>5. CASE Construct \/ InitLimits \/ SetRateLimit \/ LimitsSet \/ Signal
  <2>1. UNCHANGED <<env, linesRead, predefined, banned, refused>>
    BY <1>5 DEF Construct, InitLimits, SetRateLimit, LimitsSet, Signal, listVars, serverVars
  <2>2. stage' \notin {"start", "serving"} \/ stage' = stage
    BY <1>5 DEF Construct, InitLimits, SetRateLimit, LimitsSet, Signal, Exit
  <2>3. QED
    BY <2>1, <2>2 DEF BlacklistInv, LinesLeft
<1>6. CASE UNCHANGED vars
  BY <1>6 DEF vars, lateVars, listVars, serverVars, BlacklistInv, LinesLeft
<1>7. QED
  BY <1>1, <1>2, <1>3, <1>4, <1>5, <1>6 DEF Next, Main

-----------------------------------------------------------------------------
(* The theorems.                                                           *)

LEMMA StartupInit == Init => StartupInv
<1> SUFFICES ASSUME Init PROVE StartupInv
  OBVIOUS
<1>1. FlagsInv
  BY DEF Init, FlagsInv, Stages
<1>2. \A s \in Services : "port" \in Before[s] /\ s # "port"
  BY DEF Services, Before
<1>3. AddressInv
  BY <1>2 DEF Init, AddressInv
<1>4. BalancersInv
  BY DEF Init, BalancersInv, Late
<1>5. LimitsInv
  <2>1. calls = 0 /\ DOMAIN path_configs = {} /\ 1 .. calls = {} /\ stage = "port"
    BY DEF Init
  <2>2. 0 \in 0 .. Len(Rules)
    BY RuleFacts
  <2>3. QED
    BY <2>1, <2>2 DEF LimitsInv
<1>6. BlacklistInv
  <2>1. /\ linesRead = 0 /\ predefined = <<>> /\ banned = {} /\ refused = {}
        /\ stage = "port" /\ 1 .. 0 = {}
    BY DEF Init
  <2>2. ToSet(<<>>) = {} /\ EntriesOf(env.BLACKLIST, 0) = {}
    BY <2>1 DEF ToSet, EntriesOf
  <2>3. env.BLACKLIST # Unset => Len(env.BLACKLIST) \in Nat
    BY <1>1, EnvironmentFacts, SequenceElements
  <2>4. /\ <<>> \in Seq(EntriesOf(env.BLACKLIST, Len(env.BLACKLIST)))
        /\ Len(<<>>) = 0 /\ {} \cup {} = {}
    OBVIOUS
  <2>5. predefined = <<>> => ToSet(predefined) = {}
    BY <2>2
  <2>6. env.BLACKLIST # Unset => linesRead <= Len(env.BLACKLIST)
    BY <2>1, <2>3
  <2>7. banned \cup refused = ToSet(predefined)
    BY <2>1, <2>5
  <2>8. stage \notin {"start", "serving"}
    BY <2>1
  <2>9. QED
    BY <2>1, <2>2, <2>4, <2>6, <2>7, <2>8 DEF BlacklistInv
<1>7. QED
  BY <1>1, <1>3, <1>4, <1>5, <1>6 DEF StartupInv

\* The parts of the invariant hold together, whatever the environment.
LEMMA StartupInvariant == Spec => []StartupInv
<1>1. StartupInv /\ [Next]_vars => StartupInv'
  BY FlagsStep, AddressStep, BalancersStep, LimitsStep, BlacklistStep DEF StartupInv
<1>2. QED
  BY <1>1, StartupInit, PTL DEF Spec

\* Every variable stays in its type: no balancer gets an address with a port
\* outside 1 .. 65535, and the bans in Redis are of entries of the list.
THEOREM TypeCorrect == Spec => []TypeOK
<1>1. ASSUME StartupInv PROVE TypeOK
  <2>1. /\ FlagsInv /\ AddressInv /\ BalancersInv /\ LimitsInv /\ BlacklistInv
    BY <1>1 DEF StartupInv
  <2>2. \A s \in Services : \A i \in DOMAIN balancers[s] : balancers[s][i].port \in Ports
    <3>1. \A s \in Services : \A e \in Usable(env.ADDRESSES[s]) : e.port \in Ports
      BY DEF Usable, Malformed, ValidPort
    <3>2. \A s \in Services : \A i \in DOMAIN balancers[s] :
            balancers[s][i] \in Usable(env.ADDRESSES[s])
      BY <2>1 DEF BalancersInv
    <3>3. QED
      BY <3>1, <3>2
  <2>3. linesRead \in Nat /\ Len(predefined) <= linesRead
    BY <2>1 DEF BlacklistInv
  <2>4. banned \subseteq ToSet(predefined) /\ refused \subseteq ToSet(predefined)
    BY <2>1 DEF BlacklistInv
  <2>5. /\ calls \in 0 .. Len(Rules)
        /\ DOMAIN path_configs \subseteq {Rules[i].path : i \in 1 .. calls}
    BY <2>1 DEF LimitsInv
  <2>6. entriesRead \in Nat /\ DOMAIN addresses = Services /\ DOMAIN balancers = Services
    BY <2>1 DEF AddressInv, BalancersInv
  <2>7. stage \in Services \cup {"port", "redis", "construct", "init", "setRateLimit",
                                 "blocked", "load", "start", "serving", "ended"}
    BY <2>1 DEF FlagsInv, Stages, Late
  <2>8. QED
    BY <2>1, <2>2, <2>3, <2>4, <2>5, <2>6, <2>7 DEF TypeOK, FlagsInv
<1>2. QED
  BY <1>1, StartupInvariant, PTL

\* Whatever the variables hold, a gateway that serves forwards to the addresses
\* they name, all of them and in their order, and to well-formed ones only.
THEOREM ServesConfigured == Spec => []ServesAsConfigured
<1>1. ASSUME StartupInv PROVE ServesAsConfigured
  <2> SUFFICES ASSUME stage = "serving", NEW s \in Services
               PROVE  LET list == env.ADDRESSES[s]
                      IN \/ list = Unset /\ balancers[s] = <<>>
                         \/ /\ list # Unset /\ balancers[s] # <<>>
                            /\ WithoutBlank(balancers[s], list, Len(list))
                            /\ \A i \in DOMAIN balancers[s] :
                                 LET e == balancers[s][i] IN e.host /\ e.colon /\ e.port \in Ports
    BY DEF ServesAsConfigured
  <2>1. balancers = addresses
    BY <1>1 DEF StartupInv, BalancersInv, Late
  <2>2. s # "serving" /\ "serving" \notin Before[s]
    BY DEF Services, Before
  <2>3. Complete(env.ADDRESSES[s], balancers[s])
    BY <1>1, <2>1, <2>2 DEF StartupInv, AddressInv
  <2>4. \A i \in DOMAIN balancers[s] : balancers[s][i] \in Usable(env.ADDRESSES[s])
    BY <1>1 DEF StartupInv, BalancersInv
  <2>5. \A e \in Usable(env.ADDRESSES[s]) : e.host /\ e.colon /\ e.port \in Ports
    BY DEF Usable, Malformed, ValidPort
  <2>6. QED
    BY <2>3, <2>4, <2>5 DEF Complete
<1>2. QED
  BY <1>1, StartupInvariant, PTL

\* For every path that clients may ask for, and wherever the hash table puts
\* its entries, the limit of the path is determined.
THEOREM LimitsDetermined == Spec => []LimitDetermined
<1>1. ASSUME StartupInv PROVE LimitDetermined
  <2> SUFFICES ASSUME stage = "serving"
               PROVE  /\ \A p \in RequestPaths : Cardinality(FindConfig(path_configs, p)) = 1
                      /\ Routes \subseteq DOMAIN path_configs
    BY DEF LimitDetermined
  <2>1. calls = 7 /\ DOMAIN path_configs = { Rules[i].path : i \in 1 .. calls }
    BY <1>1, RuleFacts DEF StartupInv, LimitsInv
  <2>2. DOMAIN path_configs = Routes
    BY <2>1, RuleFacts DEF Routes
  <2>3. \A p \in RequestPaths : IsSequence(p)
    BY StartupAssumption
  <2>4. QED
    BY <2>2, <2>3, OneLimit
<1>2. QED
  BY <1>1, StartupInvariant, PTL

\* No limit that init sets, and not the default, counts by the hour: for no path
\* does the limiter use the key of the guard of registrations.
THEOREM GuardKeyStaysApart == Spec => []GuardKeyApart
<1>1. ASSUME StartupInv PROVE GuardKeyApart
  <2> SUFFICES ASSUME stage = "serving", NEW p \in RequestPaths,
                      NEW config \in FindConfig(path_configs, p)
               PROVE  <<p, config.windowSeconds>> # <<Register, 3600>>
    BY DEF GuardKeyApart
  <2>1. \A q \in DOMAIN path_configs : path_configs[q].windowSeconds \in {60, 300}
    BY <1>1, RuleFacts DEF StartupInv, LimitsInv
  <2>2. default_config.windowSeconds = 60
    BY DEF default_config, Config
  <2>3. config = default_config \/ \E q \in DOMAIN path_configs : config = path_configs[q]
    BY DEF FindConfig
  <2>4. config.windowSeconds \in {60, 300}
    BY <2>1, <2>2, <2>3
  <2>5. QED
    BY <2>4
<1>2. QED
  BY <1>1, StartupInvariant, PTL

\* Whatever the file holds, its addresses are listed before the first request
\* is served, each is banned unless its own SET failed, and no other is.
THEOREM PredefinedBanned == Spec => []PredefinedInForce
<1>1. ASSUME StartupInv PROVE PredefinedInForce
  <2> DEFINE file  == env.BLACKLIST
             lines == { l \in ToSet(file) : l.text # NoText /\ ~l.hash /\ ~l.cr }
             named == { line.text : line \in lines }
  <2> SUFFICES ASSUME stage = "serving", file # Unset
               PROVE  /\ \A text \in named : Plain(text) \in ToSet(predefined)
                      /\ \A text \in named : Plain(text) \in banned \cup refused
                      /\ \A entry \in banned : entry = Plain(entry.text) => entry.text \in named
    BY DEF PredefinedInForce
  <2>1. /\ Len(file) \in Nat /\ DOMAIN file = 1 .. Len(file)
        /\ \A i \in 1 .. Len(file) : file[i] \in ToSet(file)
        /\ \A line \in ToSet(file) :
             line.blanks \in BOOLEAN /\ line.hash \in BOOLEAN /\ line.cr \in BOOLEAN
    BY <1>1, EnvironmentFacts, SequenceElements DEF StartupInv
  <2>2. /\ linesRead \in Nat /\ linesRead <= Len(file) /\ ~(linesRead < Len(file))
        /\ ToSet(predefined) = EntriesOf(file, linesRead)
        /\ banned \cup refused = ToSet(predefined)
    BY <1>1 DEF StartupInv, BlacklistInv, LinesLeft
  <2>3. ToSet(predefined) = EntriesOf(file, Len(file))
    BY <2>1, <2>2
  <2>4. ASSUME NEW text \in named
        PROVE  Plain(text) \in EntriesOf(file, Len(file))
    <3>1. PICK i \in 1 .. Len(file) : file[i] \in lines /\ file[i].text = text
      BY <2>1, <2>4 DEF ToSet
    <3>2. ~Skipped(file[i]) /\ Trimmed(file[i]) = Plain(text)
      BY <2>1, <3>1 DEF Skipped, Trimmed, Plain
    <3>3. QED
      BY <3>2 DEF EntriesOf
  <2>5. ASSUME NEW entry \in EntriesOf(file, Len(file)), entry = Plain(entry.text)
        PROVE  entry.text \in named
    <3>1. PICK i \in 1 .. Len(file) : ~Skipped(file[i]) /\ entry = Trimmed(file[i])
      BY DEF EntriesOf
    <3>2. file[i].text = entry.text /\ file[i].hash = FALSE /\ file[i].cr = FALSE
      BY <2>5, <3>1 DEF Trimmed, Plain
    <3>3. file[i] \in lines
      BY <2>1, <3>1, <3>2 DEF Skipped
    <3>4. QED
      BY <3>2, <3>3
  <2> HIDE DEF named
  <2>6. QED
    BY <2>2, <2>3, <2>4, <2>5
<1>2. QED
  BY <1>1, StartupInvariant, PTL

=============================================================================
