-------------------------------- MODULE Startup --------------------------------
(***************************************************************************)
(* The life of one gateway process: main validates the environment, the    *)
(* constructor of GatewayServer builds the balancers and prepares Redis,   *)
(* the rate limits, the blacklist and the routes, and Start serves until a *)
(* signal ends it.                                                         *)
(***************************************************************************)
EXTENDS Environment, RateLimits, BlacklistFile, FiniteSets

(***************************************************************************)
(* DDoSProtection::init holds mutex_, which is not recursive, while it     *)
(* calls setRateLimit, which locks it again: undefined behaviour.  Locking *)
(* a mutex one holds may block for ever, throw std::system_error, or go on *)
(* as if the mutex were free; the inner guard then unlocks it.             *)
(***************************************************************************)
CONSTANTS Environments,    \* what a process may find: the environment
                           \*   variables and the lines of blacklist.txt
          RequestPaths,    \* the paths clients may ask for
          RelockOutcomes   \* some of "blocks", "throws", "goes on"

VARIABLES env,            \* what the process found
          stage,          \* where the main thread is
          addresses,      \* the lists of addresses that validate makes
          entriesRead,    \* entries it has read of the present list
          locked,         \* mutex_ of DDoSProtection
          calls,          \* calls of setRateLimit that have returned
          path_configs,   \* path_configs_
          balancers,      \* the addresses of users_lb_, balance_lb_, payments_lb_
          connected,      \* connected_ of RedisClient
          linesRead,      \* lines of blacklist.txt that were read
          predefined,     \* predefined_blacklist_
          banned,         \* the bans in Redis
          refused,        \* history: the entries whose SET failed
          g_server,       \* whether g_server points to a server
          is_running,     \* is_running_ of that server
          exit_code       \* of a process that ended, else -1

readVars   == <<addresses, entriesRead>>
limitVars  == <<locked, calls, path_configs>>
listVars   == <<linesRead, predefined, banned, refused>>
serverVars == <<env, balancers, connected, g_server, is_running>>
lateVars   == <<limitVars, listVars, serverVars>>
vars       == <<readVars, lateVars, stage, exit_code>>

\* What a process may find: a list of addresses, if set, is a sequence of
\* entries, and a file, if there is one, of lines.
IsSequence(s) == s \in Seq(ToSet(s))

ASSUME StartupAssumption ==
  /\ \A e \in Environments :
       /\ \A s \in Services : e.ADDRESSES[s] = Unset \/ IsSequence(e.ADDRESSES[s])
       /\ \/ e.BLACKLIST = Unset
          \/ /\ IsSequence(e.BLACKLIST)
             /\ \A line \in ToSet(e.BLACKLIST) :
                  line.blanks \in BOOLEAN /\ line.hash \in BOOLEAN /\ line.cr \in BOOLEAN
  /\ \A p \in RequestPaths : IsSequence(p)

Ended == exit_code # -1

Init ==
  /\ env \in Environments
  /\ stage = "port"
  /\ addresses = [s \in Services |-> <<>>] /\ entriesRead = 0
  /\ calls = 0 /\ path_configs = [p \in {} |-> default_config]
  /\ balancers = [s \in Services |-> <<>>]
  /\ linesRead = 0 /\ predefined = <<>> /\ banned = {} /\ refused = {}
  /\ connected = FALSE
  /\ locked = FALSE /\ g_server = FALSE /\ is_running = FALSE
  /\ exit_code = -1

Exit(code) == /\ stage' = "ended"
              /\ exit_code' = code

-----------------------------------------------------------------------------
(* Environment::validate, which gives up at the first thing it refuses.    *)

GoOnIf(accepted, next) ==
  \/ accepted /\ stage' = next /\ UNCHANGED exit_code
  \/ ~accepted /\ Exit(1)

ValidatePort ==
  /\ stage = "port"
  /\ GoOnIf(PortAccepted(env.PORT), "users")
  /\ UNCHANGED <<readVars, lateVars>>

EntriesLeft == env.ADDRESSES[stage] # Unset /\ entriesRead < Len(env.ADDRESSES[stage])

\* Mutant: a malformed entry is skipped like a blank one.
ValidateEntrySkipping ==
  /\ stage \in Services /\ EntriesLeft
  /\ LET entry == env.ADDRESSES[stage][entriesRead + 1]
     IN addresses' = IF entry = Blank \/ Malformed(entry) THEN addresses
                       ELSE [addresses EXCEPT ![stage] = Append(@, entry)]
  /\ entriesRead' = entriesRead + 1
  /\ UNCHANGED <<lateVars, stage, exit_code>>

\* One round of the loop of validateAddresses; the first malformed entry ends
\* the process.
ValidateEntry ==
  /\ stage \in Services /\ EntriesLeft
  /\ LET entry == env.ADDRESSES[stage][entriesRead + 1]
     IN \/ /\ entry = Blank
           /\ UNCHANGED <<addresses, stage, exit_code>>
        \/ /\ entry # Blank /\ ~Malformed(entry)
           /\ addresses' = [addresses EXCEPT ![stage] = Append(@, entry)]
           /\ UNCHANGED <<stage, exit_code>>
        \/ /\ entry # Blank /\ Malformed(entry)
           /\ Exit(1)
           /\ UNCHANGED addresses
  /\ entriesRead' = entriesRead + 1
  /\ UNCHANGED lateVars

\* The end of validateAddresses for one list: it is not set, or holds an
\* address.  (The empty text has no entries.)
ValidateList ==
  /\ stage \in Services /\ ~EntriesLeft
  /\ GoOnIf(env.ADDRESSES[stage] = Unset \/ addresses[stage] # <<>>, Following[stage])
  /\ entriesRead' = 0
  /\ UNCHANGED <<addresses, lateVars>>

ValidateRedis ==
  /\ stage = "redis"
  /\ GoOnIf(env.REDIS_HOST # "" /\ PortAccepted(env.REDIS_PORT), "construct")
  /\ UNCHANGED <<readVars, lateVars>>

-----------------------------------------------------------------------------
(* The constructor of GatewayServer, and Start.                            *)

\* Mutant: the constructor is called with two arguments swapped.
ConstructSwapped ==
  /\ stage = "construct"
  /\ balancers' = [addresses EXCEPT !["users"]   = addresses["balance"],
                                    !["balance"] = addresses["users"]]
  /\ connected' \in BOOLEAN
  /\ stage' = "init"
  /\ UNCHANGED <<readVars, env, limitVars, listVars, g_server, is_running, exit_code>>

\* The load balancers are built and RedisClient::init has ended, either way.
Construct ==
  /\ stage = "construct"
  /\ balancers' = addresses
  /\ connected' \in BOOLEAN
  /\ stage' = "init"
  /\ UNCHANGED <<readVars, env, limitVars, listVars, g_server, is_running, exit_code>>

\* DDoSProtection::init takes mutex_.
InitLimits ==
  /\ stage = "init" /\ ~locked
  /\ locked' = TRUE
  /\ stage' = "setRateLimit"
  /\ UNCHANGED <<readVars, calls, path_configs, listVars, serverVars, exit_code>>

\* One call of setRateLimit.  It finds mutex_ free only after an earlier call
\* went on and unlocked it.  An exception leaves init, which unlocks, and the
\* constructor, and ends main.
SetRateLimit ==
  /\ stage = "setRateLimit" /\ calls < Len(Rules)
  /\ \/ /\ ~locked \/ "goes on" \in RelockOutcomes
        /\ calls' = calls + 1
        /\ path_configs' = SetConfig(path_configs, Rules[calls'])
        /\ locked' = FALSE
        /\ UNCHANGED <<stage, exit_code>>
     \/ /\ locked /\ "blocks" \in RelockOutcomes
        /\ stage' = "blocked"
        /\ UNCHANGED <<limitVars, exit_code>>
     \/ /\ locked /\ "throws" \in RelockOutcomes
        /\ locked' = FALSE
        /\ Exit(1)
        /\ UNCHANGED <<calls, path_configs>>
  /\ UNCHANGED <<readVars, listVars, serverVars>>

\* init returns and unlocks.
LimitsSet ==
  /\ stage = "setRateLimit" /\ calls = Len(Rules)
  /\ locked' = FALSE
  /\ stage' = "load"
  /\ UNCHANGED <<readVars, calls, path_configs, listVars, serverVars, exit_code>>

LinesLeft == env.BLACKLIST # Unset /\ linesRead < Len(env.BLACKLIST)

\* What becomes of a line.  Whether the SET of the ban takes effect is not
\* asked.
TakeLine(line) ==
  \/ Skipped(line) /\ UNCHANGED <<predefined, banned, refused>>
  \/ /\ ~Skipped(line)
     /\ predefined' = Append(predefined, Trimmed(line))
     /\ \/ connected /\ banned' = banned \cup {Trimmed(line)} /\ UNCHANGED refused
        \/ refused' = refused \cup {Trimmed(line)} /\ UNCHANGED banned

\* Mutant: a SET that fails ends the loop.
LoadLineUnlessRefused ==
  /\ stage = "load" /\ LinesLeft
  /\ TakeLine(env.BLACKLIST[linesRead + 1])
  /\ linesRead' = IF refused' = refused THEN linesRead + 1 ELSE Len(env.BLACKLIST)
  /\ UNCHANGED <<readVars, limitVars, serverVars, stage, exit_code>>

\* One round of the loop of loadPredefinedBlacklist.
LoadLine ==
  /\ stage = "load" /\ LinesLeft
  /\ TakeLine(env.BLACKLIST[linesRead + 1])
  /\ linesRead' = linesRead + 1
  /\ UNCHANGED <<readVars, limitVars, serverVars, stage, exit_code>>

\* The file is read, or could not be opened; SetupMiddleware and SetupRoutes
\* follow, and g_server is assigned.
Constructed ==
  /\ stage = "load" /\ ~LinesLeft
  /\ g_server' = TRUE
  /\ stage' = "start"
  /\ UNCHANGED <<readVars, limitVars, listVars, env, balancers, connected, is_running, exit_code>>

Start ==
  /\ stage = "start"
  /\ is_running' = TRUE
  /\ stage' = "serving"
  /\ UNCHANGED <<readVars, limitVars, listVars, env, balancers, connected, g_server, exit_code>>

\* SignalHandler, on top of whatever the process is doing: Stop if there is a
\* server, then exit(0).
Signal ==
  /\ ~Ended
  /\ is_running' = (is_running /\ ~g_server)
  /\ Exit(0)
  /\ UNCHANGED <<readVars, limitVars, listVars, env, balancers, connected, g_server>>

Main == \/ ValidatePort \/ ValidateEntry \/ ValidateList \/ ValidateRedis
        \/ Construct \/ InitLimits \/ SetRateLimit \/ LimitsSet
        \/ LoadLine \/ Constructed \/ Start

Next == Main \/ Signal

\* The main thread goes on unless it is blocked; nobody need send a signal.
Spec == Init /\ [][Next]_vars /\ WF_vars(Main)

-----------------------------------------------------------------------------
(* Correctness.                                                            *)

TypeOK ==
  /\ stage \in Services \cup {"port", "redis", "construct", "init", "setRateLimit",
                              "blocked", "load", "start", "serving", "ended"}
  /\ entriesRead \in Nat /\ DOMAIN addresses = Services
  /\ locked \in BOOLEAN /\ g_server \in BOOLEAN /\ is_running \in BOOLEAN
  /\ connected \in BOOLEAN
  /\ linesRead \in Nat /\ Len(predefined) <= linesRead
  /\ banned \subseteq ToSet(predefined) /\ refused \subseteq ToSet(predefined)
  /\ calls \in 0 .. Len(Rules)
  /\ DOMAIN path_configs \subseteq {Rules[i].path : i \in 1 .. calls}
  /\ DOMAIN balancers = Services
  /\ \A s \in Services : \A i \in DOMAIN balancers[s] : balancers[s][i].port \in Ports
  /\ exit_code \in {-1, 0, 1}

\* chosen is what is left of the first n of list without the blank ones.
WithoutBlank(chosen, list, n) ==
  \E place \in [DOMAIN chosen -> 1 .. n] :
    /\ \A i, j \in DOMAIN chosen : i < j => place[i] < place[j]
    /\ \A i \in DOMAIN chosen : chosen[i] = list[place[i]]
    /\ \A m \in 1 .. n : list[m] # Blank <=> \E i \in DOMAIN chosen : place[i] = m

\* A gateway that serves forwards each service's requests to the addresses
\* its variable names, all of them and in their order; a variable that is set
\* but names none, or names something else besides, keeps it from serving.
\* (Only a variable that is not set leaves a service without a backend.)
ServesAsConfigured ==
  stage = "serving" =>
    \A s \in Services :
      \/ env.ADDRESSES[s] = Unset /\ balancers[s] = <<>>
      \/ /\ env.ADDRESSES[s] # Unset /\ balancers[s] # <<>>
         /\ WithoutBlank(balancers[s], env.ADDRESSES[s], Len(env.ADDRESSES[s]))
         /\ \A i \in DOMAIN balancers[s] :
              LET e == balancers[s][i] IN e.host /\ e.colon /\ e.port \in Ports

\* Where the hash table puts an entry does not matter: once the gateway
\* serves, each path has one limit, and each route of a backend its own.
LimitDetermined ==
  stage = "serving" =>
    /\ \A p \in RequestPaths : Cardinality(FindConfig(path_configs, p)) = 1
    /\ Routes \subseteq DOMAIN path_configs

\* The guard of the register route keeps its counter under the key that a
\* limit of 3600 s on that route would have.  No request is counted under
\* it: the counters of the guard and of the limiter are apart, as SecurityLayer
\* and AuthGuard take for granted.
GuardKeyApart ==
  stage = "serving" =>
    \A p \in RequestPaths : \A config \in FindConfig(path_configs, p) :
      <<p, config.windowSeconds>> # <<Register, 3600>>

\* Before the first request is served, every address that a line of the file
\* names is on the predefined list, whatever blanks surround it, and is banned
\* unless its own SET failed; and no other address is.  (A comment that is not
\* at the head of its line, and a line with a carriage return, ban a text that
\* no client has for an address.)
PredefinedInForce ==
  stage = "serving" /\ env.BLACKLIST # Unset =>
    LET named == { line.text : line \in
                     { l \in ToSet(env.BLACKLIST) : l.text # NoText /\ ~l.hash /\ ~l.cr } }
    IN /\ \A text \in named : Plain(text) \in ToSet(predefined)
       /\ \A text \in named : Plain(text) \in banned \cup refused
       /\ \A entry \in banned : entry = Plain(entry.text) => entry.text \in named

-----------------------------------------------------------------------------
(* What the code says of itself and does not keep.                         *)

\* src/src/security/ddos_protection.cpp:35: "DDoS protection initialized" is
\* what init says last.  So a process that reaches init gets there, unless it
\* ends before.
InitReturns == stage = "init" ~> g_server \/ Ended

=============================================================================
