# Verification of cpp-security-gateway

TLA+ models, model-checking runs and machine-checked proofs for the gateway in
`src/`: an HTTP server (Crow, multithreaded) that checks each request against
limits and bans kept in Redis, runs the login and registration guards, and
forwards the request to a gRPC backend with retries.

Line numbers below refer to the repository (`redis_client.cpp:106` is
`src/src/security/redis_client.cpp`, line 106; `README.md:15` is the
repository's README).

## 1. Inventory

| Component | State | Operations | Hard behaviour |
|---|---|---|---|
| `RedisClient` (`redis_client.cpp`), one per process | `connected_`; in Redis: `blacklist:ip:<ip>`, `rate_limit:<ip>:<path>:<window>`, `failed_login:<ip>` | init; add, ask, remove a ban; INCR+EXPIRE and GET of a counter; DEL | two commands per increment without a transaction; exceptions swallowed; a command that exceeds `socket_timeout` may be executed later; `connected_` set once, at start |
| `DDoSProtection` (`ddos_protection.cpp`) | `path_configs_`, `mutex_` | `init`, middleware, `checkRequestLimit`, `findConfigForPath` | all workers of all replicas interleave on shared counters; `init` locks `mutex_` twice |
| `BlacklistManager` (`blacklist_manager.cpp`) | `predefined_blacklist_` | load file, GET / add / remove | two records of the same bans (list and Redis) |
| Register and login routes (`gateway_server.cpp:63-158`) | the counters above | check, call, count or reset | check-then-act; a blocked client is refused before its counter is touched |
| Other routes (`gateway_server.cpp:160-312`) | none | parse, call, answer | - |
| `LoadBalancer` | `clients_`, `current_index_` | `GetNextClient`, `UpdateAddresses` (no caller) | index and list change together |
| `GrpcClient::ExecuteWithRetry` and the service wrappers | the call | up to 3 attempts with a deadline each | calls are not idempotent; the answer of an executed call may be lost; late execution; the attempts of a call share one response |
| `RetryPolicy` | parameters | `Execute`, `ShouldRetry`, `GetBackoffDelay` | constructed by every wrapper, called by none |
| `Environment` | parsed settings | validation of port, addresses, Redis | lists taken whole or refused whole; ports at their bounds |
| `GatewayServer` ctor, `Start`, `Stop`, `main`, signal handler | `is_running_` | start and stop | the relock in `init`; Stop runs in a signal handler |

How they interact.  `main` validates the environment and constructs the
server; the constructor connects Redis, sets the limits, loads the blacklist
and installs middleware and routes; `Start` runs the worker threads.  A worker
runs one handler at a time: middleware (`checkRequestLimit`), then the route,
then for most routes a backend call through a load balancer.  Workers share the
load balancers (under a mutex) and Redis (no lock held between two commands);
replicas share Redis only.

What makes each part correct:

- *limiter*: a counter lets no more requests pass than its limit, those apart whose
  count could not be read; a ban stops all but the requests already under way
  and those that could not ask for it; a ban ends; a counter does not outlive its ban;
- *guards*: how far concurrent attempts can exceed the quota; a client is
  charged only for its own attempts, and for how many earlier ones; a block
  ends unless its counter lost every EXPIRE;
- *blacklist*: the list shown, the bans in force and the bans ordered agree;
- *guards and users service together*: an account that was created is counted
  unless something failed, a charge and a reset have their cause in what the
  users service did, and a handler ends although the service may be silent;
- *balancer*: the index stays in the list and clients take even turns;
- *backend calls*: effects are bounded by attempts; a reported success was
  executed; every call is answered;
- *start*: the process reaches the state in which it serves, and what it serves
  is what its environment and its files say.

The code as it stands does not compile (for instance a Crow `SimpleApp` has no
`add_middleware`, and `ExecuteWithRetry` is a template defined in a .cpp
file).  The models read it as it is evidently meant.  They also start from the
state the constructor leaves when it returns, although
`DDoSProtection::init` locks the non-recursive `mutex_` and then calls
`setRateLimit`, which locks it again (`ddos_protection.cpp:23`, `:89`):
undefined behaviour that normally blocks for ever.  `Startup` shows it.

## 2. Modules

    RedisKeys            the Redis commands on one key
      RedisClient        replicas, workers, connection, the outcomes of a call
        RateLimiter      middleware and checkRequestLimit
          SecurityLayer  + blacklist manager, restarts, time; implements Admission
            MCSecurityLayer, MCPacedClient
            SecurityLayerProofs, AdmissionProofs
        AuthGuard        register and login routes, restarts, time
          MCAuthGuard, AuthGuardProofs
        RedisLemmas      facts about keys and sets of workers, for both proofs
    LoadBalancer         MCLoadBalancer, LoadBalancerProofs
      BackendCall        ExecuteWithRetry and wrapper; implements RemoteCall
        MCBackendCall, BackendCallProofs
    Gateway              AuthGuard and BackendCall in one process; implements AuthGuard
      MCGateway, GatewayProofs
    Environment, RateLimits, BlacklistFile   what a process makes of its settings
      Startup            main, constructor, Start, signals
        MCStartup, StartupProofs

    Admission, RemoteCall   abstract specifications

Operators whose comment begins with "Mutant" are altered forms of the operator
that follows.  No specification uses them; each is what `PROJECT.json`
substitutes in one run to confirm that the property of that run depends on the
code in question.

**RedisKeys** (external: modelled from the commands the gateway issues).  A key
is a number with a remaining time.  `INCR` creates it *without* a time to live,
`EXPIRE` restarts it, `SET` with a timeout replaces both, and time passes in
ticks.

**RedisClient**.  What a worker and Redis make of a call: `Answers` (the command
took effect and the caller learns the result), `ReplyLost` (it took effect and the
caller saw an exception), `NoEffect` (a GET without an answer), `GivesUp` (a
command that writes had no effect when its caller went on).  In the last case the
command may not have been sent, or it exceeded `socket_timeout` (`redis_client.cpp:29`)
and Redis executes it at any later moment: `delayed` counts, per command, how
often that may still happen, and `Arrives` is the execution, in the `Late` actions of
the modules above.  A command in flight when its process dies needs no case of its own:
it is one given up just before.  `connected` changes only when a process
starts, as in the code.  `MaxFaults` bounds failed calls and restarts; a method
that returns its default because `connected_` is false is not a fault.

**RateLimiter**.  One action per Redis command of `checkRequestLimit`, with
`pc[w]` and `job[w]` for the local variables of the handler:

| Action | Code |
|---|---|
| `HandleRequest` | `handleRequest`: ip and path of a request |
| `IsBlacklisted` | GET of the ban; 429, or on; an exception counts as "not banned" |
| `IncrementCount`, `ExpireCount` | the two commands of `incrementRequestCount` |
| `CheckCount` | `getRequestCount` and the comparison; an exception reads as 0 |
| `BanClient` | `addToBlacklist(ip, banTimeSeconds)`, 429 |

`admitted` (counted requests that pass), `unread` (those of them whose GET failed and
was read as 0, `redis_client.cpp:129-132`), `leaked` (requests that pass during a ban)
and `unasked` (requests whose GET of the ban failed), with `counted` of a job, are
history: they appear in no guard.

**SecurityLayer** adds the routes as far as they touch this state
(`AddToBlacklist`, `RemoveFromBlacklist`, `EndRoute` for every other end of a
handler), `Restart` of a process with whatever its workers were doing (a new
`PING`, the file read again, each predefined ban set, lost, or on its way), `Late` for
what Redis executes after its sender gave it up, and `Tick`.  The list that the
manager keeps for display is in `Startup`.
`PromptSpec` is the same system when no request takes as long as a tick.

**Admission** says what the layer promises: each key (address and path) has a
quota; a counted request that passes takes a unit, past the quota only if its
count could not be read; units come back only all together, when the count ends;
while an address is banned, at most `Spill` requests pass, and one more for each
that could not ask for the ban.  It has no counters with times, no commands, no
workers.  The mapping: `counting` is the set of keys whose counter exists, `used` is
`admitted`, `banned` the addresses with a ban key, `Quota` the limits, `Spill` the
number of workers; `unread`, `leaked` and `unasked` are themselves.

**AuthGuard**.  `Receive`, `ReadTally`, `BadRequest`, `CallBackend`,
`IncrementTally`, `ExpireTally`, `ResetTally` are the steps of the two routes
between any two of which other workers may run.  Its Redis keys are apart
from those of the limiter (`GuardKeyApart` of `Startup` checks that of the
limits in the code), so it is a module of its own.  Which requests the
middleware lets through is left open: all may arrive.  `Late` is as in the layer.
`events` (attempts the counter should stand for), `missed` (those a failure or a crash
kept from it, and reads of it that failed) and `astray` (its INCRs still delayed when it
last lapsed or was reset) are history.  `BlockEnds` is what the README of the
repository says of a block, and the code does not keep it; `BlockLapses` is what
the code does keep: a block ends unless its counter has no time to live and no worker
is about to give it one (`Orphan`), which takes a failure.

**LoadBalancer** and **BackendCall**.  A call takes one client and keeps it for
all its attempts, as in the code.  The backend (external) executes or refuses an
attempt, before or after the gateway gives it up (`late`), or never.  `ReadResponse` is
the arrival of its answer in the response, which the attempts of a call share
(`grpc_client.cpp:40`): it happens with `status.ok()`, and it may have happened when the
status is an error.  A wrapper returns `response.success()` then, too
(`users_service.cpp:33`: an error only if `!status.ok() && !response.success()`), so a
call may report a success that came with an error or with an earlier attempt.
`applied`, `sent`, `unanswered`, `picks` are history.  A client of the gateway
that sends the same transaction again is another call: the gateway does not
look at `transaction_id`.  `Wrapper` is a method of a service wrapper from call
to return; the ten methods of the three wrappers are the same but for their
messages.

**RemoteCall** says what a client can rely on: a call is rejected before
anything is sent, or runs; the backend runs it at most `MaxRuns` times, before
or after the answer; "ok" only if it ran; "failed" promises nothing; and each
call that starts is answered.  `ClientsView` is the mapping.

**Gateway** puts the two together for one process and the users service.
`Guard` and `Users` are instances of `AuthGuard` and `BackendCall` over the
module's own variables; `request[w]` is the call a worker serves.

| Action | Code |
|---|---|
| `Receive` | a request arrives; it takes a call that was not made yet, with a new `fate` |
| `GuardStep` | a step of the guard that leaves the users service alone |
| `UsersService` | a step of `UsersService::Register` or `Login`: pick, send, retry, answer |
| `Response` | the wrapper has returned; the route looks at `response.success()` |
| `Backend` | the users service executes, refuses, or executes late |
| `Late` | Redis executes a command of the guard that was given up |
| `Restart` | the process dies: workers and calls in progress are gone, what was sent is not, the balancer starts anew |

`asked` and `fate` (was a call charged, did it reset, or did a failure keep
it from the counter) are history.  The refinement mapping to `AuthGuard` is the
identity on the guard's variables: `Guard!Spec` is a property of `Gateway`.
This is what justifies `AuthGuard`'s own assumption that a call of the backend
comes back.

**Environment, RateLimits, BlacklistFile** are pure: which texts and entries
`validate` accepts (a text is what `std::stoi` makes of it, a list is its
entries), what `setRateLimit` and `findConfigForPath` make of the limits, and
which entry a line of `blacklist.txt` becomes.  The order of an `unordered_map` is not
specified, so `FindConfig` returns the *set* of limits that the search may find.
A path is a sequence of pieces cut so that one path is a textual prefix of
another exactly if it is one as a sequence.

**Startup**.  One action per stage of `main` and of the constructor, one per entry
of a list of addresses, per call of `setRateLimit` and per line of the blacklist,
and `Signal` at any moment.  `stage` is where the main thread is: the check of
the port, the list of one of the three services (`addresses` and `entriesRead` are
the vector and the position of its loop), the check of Redis, then the
constructor.  That each loop is a loop of steps, and not a function of the whole
list, is also what lets the prover reason about lists of every length.  What a
list should become is said without a loop: `WithoutBlank` asks for places in the
list, in order, that are exactly those of its entries that are not blank.
`RelockOutcomes` names what locking a held mutex may do: `init` locks `mutex_` a
second time, and both runs allow all three outcomes, so that what follows is
examined as well; `InitReturns` fails in `start_relock` by the one that blocks.

## 3. Runs

Times are scaled: a window is 2 or 3 ticks and a ban 3 where the code has 60,
300 and 1800 seconds, so that counters lapse before, with and after bans within
a few steps; limits are 1 or 2 for 3 to 100, because the interesting case is
reaching the limit, and the proofs cover every value.  Two workers already
produce every pair of interleaved handlers; `layer_prompt` has three, so that a
ban, a counter that dies and one that lives can belong to different workers, of
two replicas.

| Run | Shows |
|---|---|
| `layer_faults` | `AdmissionBound`, `LeakBound`, `OrphanNeedsFault`, `BanLapses`, `KeepsPromise` (the layer implements `Admission`), `TypeOK`: two replicas, 2 faults (lost and late calls, failed GETs, crashes), the predefined list and an admin change |
| `layer_prompt` | `CounterDiesBeforeBan`, two replicas, two paths with different windows, a predefined list whose bans are short, a ban by an administrator |
| `guard_faults` | `QuotaBound`, `EarnedCharge`, `OrphanNeedsFault`, `BlockLapses`, `TypeOK`: two replicas of one worker each, one fault (a lost or late call, a failed GET, a crash), limit 1 for registrations and 2 for logins |
| `balancer_turns` | `IndexInRange`, `Balanced`, `BalancerTypeOK` for lists of 0 to 3 addresses, changed at any time |
| `backend_calls` | `EffectsAccounted`, `HonestAnswer`, `Answered`, `KeepsPromise` (a call implements `RemoteCall`, fairness included), `TypeOK`: two calls, three attempts each |
| `gateway_users` | `RegistrationsCounted`, `ChargeHasCause`, `ResetEarned`, `TypeOK`: two workers, two calls of two attempts, a users service with one address or none, one fault |
| `gateway_ends` | `GuardAssumptionsHold` (the routes around a users service that may stay silent implement `AuthGuard`, fairness included): the same with one worker |
| `start_settings` | `ServesAsConfigured`, `LimitDetermined`, `GuardKeyApart`, `PredefinedInForce`, `TypeOK`: 2429 environments |

Bounds.  `MaxFaults` is 0 to 2.  It also bounds what is late: each late command is
one fault (the SETs of one start together).  In `guard_faults` the limit of
registrations is 1, so that one fault loses the EXPIRE of a counter's every INCR and
`BlockLapses` meets the block that never ends.  `MaxAdminOps` is 0 or 1, `MaxPicks` 4 (picks of each
client of a list: more than three rounds).  In `BackendCall` and `Gateway`
`MaxPicks` is not used: each call picks once.  In `Gateway` the limit is 1, so
that the second call meets a counter at its limit; two attempts suffice for a
retry after a lost answer; one worker suffices in `gateway_ends`, where the
question is whether a handler ends (nothing in a handler waits for another), and
where a symmetry would be unsound.  In `start_settings` one variable at a time
takes every value: a port is unset, no number, or at and beyond each bound; a
list has up to three entries, good, blank or wrong in each of the five ways, so
that a wrong one can stand before, between and after good ones; the three lists
together take five values each; the file has up to three lines of seven kinds.
`RequestPaths` are the configured paths, their beginnings, what goes on from
them, and the admin routes.  `Permutations(Workers)` is a symmetry only where there
is no liveness and the workers are of one replica.  `CHECK_DEADLOCK FALSE` appears for
`BackendCall`, where nothing is left to do when all calls are answered, and for
`Startup`, where the process ends.

Fairness.  `Tick` is weakly fair because time passes.  A worker that is not
idle is weakly fair: Redis calls end within `socket_timeout` (100 ms), RPCs
within their deadline (5 s), back-off sleeps are finite, and nothing in a
handler waits for another worker.  The main thread is weakly fair.  Sending a
request, failing, restarting, signals, late commands and the backend are never fair.

### Disagreements between documentation and code

Four runs are expected to find a violation; each states what a document or
comment says.

| Run | Documentation | Code |
|---|---|---|
| `paced_window` | `ddos_protection.cpp:25-33`: so many requests per minute | every request restarts the time to live, so a client below the limit that never pauses is banned |
| `guard_stuck` | `README.md:15`, `:21`: a block lasts 1 hour | INCR and EXPIRE are separate; a counter at its limit without a time to live blocks for ever.  One crash suffices in the scaled model (limit 2, both workers between the commands); with limits of 5 and 15 every increment of the key must lose its EXPIRE, in one crash or in a series of failing calls |
| `layer_adminban` | `README.md:47-54`: ban for `ban_time_seconds` | the ban of the rate limit overwrites a longer one |
| `start_relock` | `ddos_protection.cpp:35`: "DDoS protection initialized" | `init` locks `mutex_` twice and normally never returns |

Others are plain from the code, or are measured by a property that holds, and
have no run: predefined addresses (`README.md:29`) are banned for an hour after
the start and not again; a process that did not reach Redis at start never
blocks (`README.md:31`); concurrent registrations exceed the 5 of
`README.md:20` (`QuotaBound` says by how many); `GET /api/v1/admin/blacklist`,
"list of blocked IPs" in `README.md:42-45`, answers the predefined list only.

## 4. Proofs

All theorems hold for every value of the constants under the named assumptions:
finitely many workers, each of a replica; limits in Nat (at least 1 for the
guards), times of at least one tick; for the balancer, lists over the
addresses; at least one attempt per call; for `Startup`, that a variable of
addresses, a blacklist and a path are sequences, of any length
(`StartupAssumption`).

- **TypeOK** of `SecurityLayer` and `AuthGuard`: one case per action.
- **AdmissionBound**: for each key, the counted requests that pass are at most the
  limit and one for each of them whose GET failed.  Not inductive, since it does
  not say what the requests still under way may do.  `AdmissionInv` adds: admitted
  requests plus counted requests not yet judged are at most the value of the
  counter.  A request is judged against a value that already includes itself and
  every request admitted before it, unless its GET fails, which `unread` notes; an
  INCR that comes late only raises the value.
- **LeakBound**: `LeakInv`: while an address is banned, `leaked` plus the requests under
  way past the blacklist check (`Underway`) are at most the number of workers plus
  `unasked`: a request gets past that check during a ban only if it could not ask.
- **OrphanNeedsFault**: `ExpireInv` adds that without faults a worker that
  incremented a key without a time to live is on its way to the EXPIRE, and
  `DelaysInv` that before the first fault no command is late.
- **KeepsPromise** of `SecurityLayer` (`AdmissionProofs`, `LayerKeepsPromise`): from
  the invariants above, each action is a step of `Admission` or none.  A request
  that passes is `Leak` if its address is banned and its replica has Redis, and
  otherwise `Admit`, or no step if it was not counted; the two invariants give the
  quota and the spill their room, and `CountedInv` says that the replica of a counted
  request has Redis, so that it is never let past a ban unnoticed.  A GET of the ban that fails is `Unasked`; `Tick` and the removal of a
  ban, late or not, are `Lapse`; everything that sets a ban is `Ban`.
- **QuotaBound**: `Quota`: attempts counted so far are at most the counter plus
  those on their way to it plus those a failure hid, and together with those at the
  backend they exceed the limit by less than the number of workers.
- **EarnedCharge**: `Earned`: the counter, the workers about to charge it and the INCRs
  of it that are late are together at most the events plus the number of workers plus
  `astray`.
- **IndexInRange**, **Balanced**, **BalancerTypeOK**: `BalancerInv`: two positions
  were handed out equally often up to whether the round has reached them.
- **EffectsAccounted**, **HonestAnswer**, **TypeOK** of `BackendCall`: `CallsOK`.  Its
  part `Bounded`: while a call runs, attempts that ended in an error equal
  `retry_count`, which is below `MaxRetries`; executions, done and still possible,
  are at most those plus the one being answered.  Its part `Honest`: the attempts
  sent are those that ended in an error and the last one, and `success` is what an
  executed one of them said, the last or an earlier.
- **CounterDiesBeforeBan** (`BannedStartsAfresh`): of `PromptSpec`, as long as nothing
  failed, under `BansOutlastWindows`: no ban of a limit and none an administrator sets is
  shorter than a window (1800 s and 300 s in the code; the bans of the
  predefined list are all set before the first request and need not be long).
  The property says nothing of a worker that is about to restart a counter of a
  banned address.  `AfreshInv` does: a request on its way to the counters has
  seen its address free in this tick, so a ban it finds there now was set in this tick
  and is still whole (`WayInv`), hence no shorter than the window the worker
  sets; and a new ban covers every counter, because no counter has more than its
  window left (`TimesInv`).
- **CallImplementsRemoteCall**: the safety part of `BackendCall`'s `KeepsPromise`.
  From `CallsOK`: a call that ends as "ok", with whatever status, was sent and
  executed; what is executed late belongs to a call that was sent, within its
  bound.
- **GatewayImplementsGuard**, **GatewayGuarded**, **GatewayImplementsRemoteCall**: each
  step of `Gateway` is one of `AuthGuard` or leaves its variables alone, and the same for
  `RemoteCall`, which the death of the process leaves alone (what was sent was
  sent).  Hence `QuotaBound`, `EarnedCharge` and `OrphanNeedsFault` hold in the composed
  gateway.  Nothing of the components is proved again: the proof modules of
  `AuthGuard` and `BackendCall` are instantiated over `Gateway`'s variables, and
  `GatewayAssumption` gives what both assume of their constants.
- **TypeOK** of `Gateway`, **RegistrationsCounted**, **ChargeHasCause**,
  **ResetEarned**: these relate the counter of one component to the calls of the
  other, so neither component's invariant says enough.  `AccountsOK` ties them
  together: while a worker holds a call, the stage of its handler agrees with that of the
  call, and it goes to the count only after an accepted registration or a login
  that failed, to the reset only after an accepted login (`Holding`); a call
  that was answered succeeded, by its last answer or an earlier one, was refused, lost an answer or
  found no backend (`Answer`); and what its handler did to the counter agrees with that answer, which no
  later step changes, late executions included (`Fate`).
- **TypeOK**, **ServesAsConfigured**, **LimitDetermined**, **GuardKeyApart**,
  **PredefinedInForce** of `Startup`: `StartupInv`, a loop invariant for each loop.
  `AddressInv`: the vector is what is left of the entries read so far without the
  blank ones, empty before its list and complete after; `BalancersInv` passes it on.
  `LimitsInv`: the paths with a limit are those of the calls that returned.
  `BlacklistInv`: the list, and bans and refused bans together, are the entries of the
  lines read so far.  That only one of the configured paths is a prefix of
  any path (`OnePrefix`) is what makes the order of the hash table harmless.

The strengthened invariants were checked with TLC before they were proved.
`RedisLemmas` holds what both guards need about keys and about cardinalities of
sets of workers.

Only model-checked: `BanLapses`, `BlockLapses`, `Answered`, and the fairness in
`KeepsPromise` of `BackendCall` and in `GuardAssumptionsHold`: liveness under fairness
is beyond the prover.  Each safety property of a passing run is a theorem.

## 5. Not modelled

- `RetryPolicy` and `resetRequestCount`: no caller.  Each service wrapper
  constructs a policy and runs `ExecuteWithRetry` of the client instead.
- The middleware in front of the register and login routes in one model: the two
  share no key (`GuardKeyApart`) and no memory, and `AuthGuard` and `Gateway` hold for
  every choice of requests that arrive.
- How `X-Forwarded-For` chooses the address: the models take "the address the
  code uses" for granted (`getClientIP` for the limiter, `remote_ip` for the
  guards, which behind a proxy is the proxy's).
- Formatting and parsing of JSON beyond "parses or answers 400"; what follows the
  number in a port text; logging; channel options; protocol messages beyond
  success or refusal.
- The comparison of the API key: an unauthorized request is one of the ways a route
  ends (`EndRoute`).
- `ban_time_seconds` of zero or less: what SET then does is decided by the
  Redis library.
- What a signal interrupts, and `exit` destroying the singletons while workers
  run: `Signal` and `Restart` end all of a process at once.

## 6. Plan

1. Bans removed by hand, whose counters outlive them, as a property of
   `SecurityLayer`; an administrator who is banned.
2. The limiter in front of `Gateway`, if an instance small enough shows anything the
   parts do not.
