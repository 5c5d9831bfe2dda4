------------------------------- MODULE Admission -------------------------------
(***************************************************************************)
(* What the security layer promises of the requests it lets through.  A    *)
(* key, which is an address and a path, has a quota.  A request that is    *)
(* counted and passes takes a unit of it, and the units come back only     *)
(* together, when the count ends; past the quota, a counted request passes *)
(* only if the count could not be read.  While an address is banned, only  *)
(* Spill more of its requests pass, and those that could not ask for the   *)
(* ban.  SecurityLayer implements this.                                    *)
(***************************************************************************)
EXTENDS Naturals

CONSTANTS IPs, Endpoints,
          Quota,    \* of each path
          Spill     \* bound on what passes a ban

VARIABLES counting,   \* the keys that are being counted
          used,       \* units taken since the count of a key began
          unread,     \* those of them taken without reading the count
          banned,     \* the addresses that are banned
          leaked,     \* requests that passed during the present ban
          unasked     \* requests that could not ask for it

vars == <<counting, used, unread, banned, leaked, unasked>>

Keys == IPs \X Endpoints

Init ==
  /\ counting = {}
  /\ used     = [k \in Keys |-> 0]
  /\ unread   = [k \in Keys |-> 0]
  /\ banned  \in SUBSET IPs
  /\ leaked   = [ip \in IPs |-> 0]
  /\ unasked  = [ip \in IPs |-> 0]

Count(k) ==
  /\ counting' = counting \cup {k}
  /\ UNCHANGED <<used, unread, banned, leaked, unasked>>

\* A counted request passes: within the quota, or because its count could not
\* be read.
Take(k) ==
  /\ k \in counting
  /\ used' = [used EXCEPT ![k] = @ + 1]
  /\ \/ used[k] < Quota[k[2]] + unread[k] /\ UNCHANGED unread
     \/ unread' = [unread EXCEPT ![k] = @ + 1]

Admit(k) ==
  /\ k[1] \notin banned
  /\ Take(k)
  /\ UNCHANGED <<counting, banned, leaked, unasked>>

\* A request of a banned address could not ask for the ban.
Unasked(ip) ==
  /\ ip \in banned
  /\ unasked' = [unasked EXCEPT ![ip] = @ + 1]
  /\ UNCHANGED <<counting, used, unread, banned, leaked>>

\* A request of a banned address passes, counted or not.
Leak(ip) ==
  /\ ip \in banned
  /\ leaked[ip] < Spill + unasked[ip]
  /\ leaked' = [leaked EXCEPT ![ip] = @ + 1]
  /\ UNCHANGED <<used, unread>> \/ \E ep \in Endpoints : Take(<<ip, ep>>)
  /\ UNCHANGED <<counting, banned, unasked>>

\* Bans are set, or set again: what leaked so far still counts.
Ban(S) ==
  /\ banned' = banned \cup S
  /\ UNCHANGED <<counting, used, unread, leaked, unasked>>

\* Bans end, and counts.
Lapse(S, K) ==
  /\ banned'   = banned \ S
  /\ leaked'   = [ip \in IPs |-> IF ip \in S THEN 0 ELSE leaked[ip]]
  /\ unasked'  = [ip \in IPs |-> IF ip \in S THEN 0 ELSE unasked[ip]]
  /\ counting' = counting \ K
  /\ used'     = [k \in Keys |-> IF k \in K THEN 0 ELSE used[k]]
  /\ unread'   = [k \in Keys |-> IF k \in K THEN 0 ELSE unread[k]]

Next ==
  \/ \E k \in Keys : Count(k) \/ Admit(k)
  \/ \E ip \in IPs : Unasked(ip) \/ Leak(ip)
  \/ \E S \in SUBSET IPs : Ban(S)
  \/ \E S \in SUBSET banned, K \in SUBSET counting : Lapse(S, K)

Spec == Init /\ [][Next]_vars

=============================================================================
