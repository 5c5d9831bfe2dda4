------------------------------- MODULE RedisKeys -------------------------------
(***************************************************************************)
(* The Redis server as the gateway uses it: single keys that hold a number *)
(* and may carry a time to live.  Redis is not part of the repository; the *)
(* commands are the ones src/src/security/redis_client.cpp issues (SET     *)
(* with a timeout, GET, DEL, INCR, EXPIRE), each of them atomic.  Time is  *)
(* counted in ticks.                                                       *)
(***************************************************************************)
EXTENDS Integers

\* The time to live of a key that never expires.
NoExpiry == -1

\* A key that does not exist.
Missing == [val |-> 0, ttl |-> 0]

\* A key exists exactly when it holds a positive number: INCR creates it at
\* 1 and SET stores "1".  An existing key has a remaining time or NoExpiry.
KeyStates == { k \in [val : Nat, ttl : Nat \cup {NoExpiry}] :
                  k.val = 0 <=> k.ttl = 0 }

Exists(k) == k.val > 0

\* INCR creates a missing key at 1 WITHOUT a time to live, and leaves the
\* time to live of an existing key alone.
Incr(k) == IF Exists(k) THEN [k EXCEPT !.val = @ + 1]
                        ELSE [val |-> 1, ttl |-> NoExpiry]

\* EXPIRE restarts the time to live; on a missing key it does nothing.
Expire(k, seconds) == IF Exists(k) THEN [k EXCEPT !.ttl = seconds] ELSE k

\* SET key "1" with a timeout.
SetEx(seconds) == [val |-> 1, ttl |-> seconds]

\* One tick passes.
Age(k) == CASE k.ttl > 1 -> [k EXCEPT !.ttl = @ - 1]
            [] k.ttl = 1 -> Missing
            [] OTHER     -> k

=============================================================================
