# Verification of the HTTP load balancer

TLA+ modules that model the load balancer of this repository, TLC runs that
check them on small instances, and proofs checked by TLAPS. Every definition
is translated from the Go source; `PROJECT.json` names the lines of each.

Contents: [the system](#the-system), [what is hard](#what-is-hard-about-it),
[the modules](#the-modules), [the runs](#the-runs), [fairness](#fairness),
[the proofs](#the-proofs), [disagreements found](#disagreements-found),
[what the models leave out](#what-the-models-leave-out), [the plan](#the-plan).

## The system

| component | state it keeps | operations | talks to |
|---|---|---|---|
| Backend pool (`memory_pool.go`) | an atomic alive flag per entry, a `uint64` round-robin counter, the strategy, connection counts | `GetNextHealthyBackend`, `MarkBackendStatus`, `SetStrategy`, `Increment/DecrementConnections` | called by requests and by checks |
| Request handling (`loadbalancer_service.go`) | the locals of one goroutine per request | `HandleRequest`: pick, forward, mark, retry up to 3 times | pool, forwarder |
| Forwarder (`reverse_proxy.go`) | the captured error of one call | `Forward` | `net/http/httputil` |
| Health monitor (`health_monitor.go`) | loop goroutine, ticker, stop channel, one goroutine per check | `Start`, `performChecks`, `Stop` | checker, pool |
| Health checker (`healthcheck/http.go`) | none | `Check` | the backends |
| In-memory rate limiter (`rate_limiter/memory`) | a token bucket per client, refill goroutine | `Allow`, `SetRateLimit`, `RemoveRateLimit`, refill, `Stop` | called by middleware and service |
| Hybrid rate limiter (`storage/hybrid`) | settings in PostgreSQL, a copy of them and the tokens in Redis | the same, without a refill goroutine | two servers |
| PostgreSQL rate limiter (`rate_limiter/postgres`) | one row per client | the same | PostgreSQL |
| Rate-limit service (`ratelimit_service.go`) | its own table of settings | create or update, remove, get, list | limiter |
| Middleware and API (`primary/http`) | none | 429 or pass on; CRUD | limiter; service |
| Server adapter (`primary/http/server.go`) | the `http.Server` | `Run`, `Stop` with drain and `Close` | `net/http` |
| `main` | wiring; one goroutine per component it stops, a `WaitGroup`, deadlines of 4, 5 and 15 s | start, shutdown | all |
| Configuration (`config.go`) | none | reads a file and the environment, refuses or warns | |
| Logger, ports, mocks, `balancing/` | none that matters | | |

Four things are shared by many goroutines: the pool (requests look up and mark,
checks mark), the in-memory limiter (requests take tokens, API handlers replace
buckets, a goroutine refills them), and the stores of the two other limiters,
which outlive the process. Everything else is local to a goroutine or guarded
by one mutex.

## What is hard about it

The full list, with lines and the properties that cover each item, is under
`hazards` in `PROJECT.json`. In short:

* the lock of the pool is only taken for *reading* by lookups and marks, so
  their loops interleave flag by flag, and a mark is a load and a later store;
* the round-robin counter is shared and wraps;
* the verdict of a check is written some time after the check, and cycles must
  not overlap;
* Go's `select` picks at random between a tick and the stop channel, ticks are
  dropped, and `Stop` may time out with checks still running;
* a retry asks a pool that others change, and the error of a forward may be
  the client's fault;
* refills cut fractions of tokens, come late, and add `int64`s;
* the service and the limiter keep two tables that must agree, while a limiter
  with a store may fail in each of its calls, and the process may restart;
* a read-through cache is filled by readers that may be late;
* requests reach a store with clock readings in any order;
* `main` stops three components at once, each with a deadline of its own or
  none.

What makes the components correct: a lookup answers something that was true at
some moment of it, and nothing else (pool); a mark is an atomic write (pool);
cycles are separate, and end (monitor); a request does not come back to a
backend it has condemned, is not refused past a sound backend, and ends
(requests); backends that come back return and those that stay down leave (all
together); a client gets its tokens, no fewer and no more, and the listed
limits are the enforced ones (rate limiting, with each limiter); the cache is
behind the store only for a reason (hybrid limiter); no row stays locked
(PostgreSQL limiter); nobody is cut off or given up before its time, and a
signal ends the process (shutdown).

## The modules

| module | what it is |
|---|---|
| `MemoryPool` | the pool: one step per atomic operation on shared state |
| `MemoryPoolHistory` | the pool with history variables, what a lookup may answer, and the refinement of `StatusBoard` |
| `StatusBoard` | abstract specification of marking: each entry of a URL is written once, atomically |
| `MCMemoryPool` | two small pools for TLC |
| `HealthMonitor` | the loop, the ticker, the check goroutines, `Stop`; no time |
| `LoadBalancerService` | `HandleRequest` and the outcomes of `Forward` |
| `LoadBalancer` | pool, monitor, requests and backends composed, as `main` wires them |
| `LoadBalancerHistory` | the same with three history variables per request: whom it has condemned, who was sound all along, how many tickets it drew in a row |
| `Shutdown` | the monitor against the clock, the server, the limiter's `Stop` and `main`, from start to exit |
| `MemoryRateLimiter` | token buckets, time, the refill goroutine |
| `RateLimitService` | the service's table and `s.mu` |
| `RateLimiting` | middleware, API, service and in-memory limiter composed, with a window per client that counts what it was granted |
| `HybridRateLimiter` | the calls of PostgreSQL and Redis, the script, expiration |
| `PostgresRateLimiter` | the transaction of `Allow` under its row lock, the two statements of a change |
| `StoredLimiting` | middleware, API, service and one of the two limiters above composed, with restarts, failures and time |
| `MCLoadBalancer` | two requests for TLC, without and with the monitor: the symmetry and a bound |
| `MCRateLimiting`, `MCStoredLimiting` | small settings for TLC |
| `MemoryPoolProofs`, `MemoryPoolLookupProofs`, `LoadBalancerProofs`, `ShutdownProofs`, `RateLimitingProofs`, `StoredLimitingProofs`, `StoredTokensProofs` | the theorems, see [the proofs](#the-proofs) |
| `RingLemmas` | the arithmetic of a counter that wraps and a ring of entries, for the pool's proofs and the load balancer's |

**`MemoryPool`.** `frame[c]` holds the locals of caller `c`: `scan` is about to
load the flag of entry `i`, `count` about to read its connection count under
the other mutex, `mark` and `store` are the two halves of an iteration of
`MarkBackendStatus`. `ticket` is `nextIndex`, `kept` the candidate set
(`selectedBackend` with `minConnections` in `least`, or `aliveBackends`). All
of `frame` is local to a goroutine. Taking the read lock is part of the first
step. `SetStrategy` needs that nobody holds it. The wake-up order of
`sync.RWMutex` (a waiting writer stops new readers) is left out: it only
removes behaviours. `current` and `ticket + i` wrap at `CounterMod`, which
stands for 2^64. URL strings are members of `Urls`; two entries may have the
same one, as `NewMemoryPool` does not forbid it.

**`HealthMonitor`.** `loop` is `new` until the goroutine that `Start` has
begun takes its first step, which `Stop` may precede, `checking` inside `performChecks`, `select` at
the select. `tick` is the one-place channel of the ticker. A check goroutine
is `probing` in the checker and `marking` in the pool.

**`LoadBalancerService`.** `pc` follows `HandleRequest`; from `mark` a request
goes on to the next attempt or gives up, once the pool has finished its mark.
`copy` is the time between the header and the end of the response, when
`ServeHTTP` no longer calls the error handler but panics. `body` is what the
request carries: nothing, a body, which is `spent` after a failed attempt, as
`ServeHTTP` closes it, or an upgrade of the protocol. `gone` is the cancelled
context of the request. Each error before the response begins reaches the
error handler, and the mark, whoever caused it: the backend that is not there
(`CanSend`), the body that is spent, or the client (`ClientMayFail`), which has
gone, whose body breaks off, or whose upgrade cannot be made.

**`LoadBalancer`** joins actions where one goroutine is in two components:
`AskPool`, `Receive`, `ForwardFails`, `CheckReturns`. The check goroutine of
backend `b` calls the pool as `b`. `up` is the state of the backends
themselves; a check and a forward see the same state, each at its own moment.

**`Shutdown`** adds whole seconds to `HealthMonitor`. Code that can run takes
no time: `Clock` waits while `CanRun`. That is when a step of `Runnable` is
enabled, written out as a condition on the state so that it can be reasoned
about. A `CanRun` that is too weak lets time overtake a goroutine and breaks
`StopIsInTime` or `ExitsInTime`; one that is too strong stops time and breaks
`SignalEndsProcess`. What takes time is left out of both: a check until
`spent` reaches its timeout, a request, a hybrid limiter that closes its
connections. `phase` is where the
ticker is, so ticks come on time and are dropped when the channel is full;
`seconds` counts from the signal. `MonitorStop`, `LimiterStops` and the steps
of `server` are the three goroutines that `main` starts and whose `WaitGroup`
is `AllStopped`; `Exit` takes whichever comes first, the group or the 15 s.
`config` is any file that `LoadConfig` accepts: `Validated` refuses,
`Warned` only warns. `Work` bounds the steps that can be made before the next
second, request or signal; that they are finite (`ComesToRest`) is what makes
"code that can run takes no time" a sound abstraction.

**`RateLimiting`.** `rl.mu` makes each limiter operation one step. A bucket
keeps `age`, the time since `lastRefill`, in units of `1/Second`; the ticker
marks `tick` each second and the refill goroutine runs at once or up to
`MaxAge` late. `TokensToAdd` cuts the fraction, `Wrap` is the `int64` sum. A
change of the API is two steps under `s.mu`, one per table (`call[h]` is what
handler `h` is about to ask the limiter).

**`StoredLimiting`.** `ask[r]` is where request `r` is in `Allow`. Each call of
a store is a step, with an outcome in which it fails; an error of a statement
that changes something leaves it applied or not. In the hybrid limiter `get`,
`query`, `fill` and `eval` are the calls of Redis, PostgreSQL, Redis and the
script. `time.Now()` is read between the settings and the script, so the script
works with a time `lag` ago: any time since the settings were known. In the
PostgreSQL limiter `update` is the transaction between its SELECT, which locks
the row (`lock`) and after which the clock is read, and its COMMIT. What it
holds and what has flowed are added as `int64`s (`Wrap`), before the result is
compared with the capacity; the script of the hybrid limiter adds doubles. A
change of
the API is a step in PostgreSQL (`Write`, `WriteFails`) and for the hybrid
limiter another in Redis (`Drop`, `DropFails`); `written[h]` is the moment
between the two. `Restart` empties the service and drops what was in flight
but leaves the stores; `RedisRestarts` empties Redis; `Expire` is the end of
the hour.

`main` knows the hybrid limiter by `STORAGE_TYPE`; it never builds the
PostgreSQL limiter, which implements the same ports and is composed the same
way. Time is relative: keys and rows have an age up to `MaxAge`. The history
variables watch: `faulted` (the last change of a client failed or is older than
the restart), `raced` (a late reader or a lost change may have left the cache
behind), `outlived` (a request that knew the limits of a client was in flight
when its keys were deleted), `window` (what was granted under one limit since
its first grant) and `since` (the time since the last grant). A request that passes because a store
failed, or because its client has no limit, takes no token and is not counted.

## The runs

| run | instance | states | question |
|---|---|---|---|
| `pool_two` | 2 callers, 3 entries, 2 URLs, counter mod 3 | 433 k | do two goroutines that may do anything share tickets and flags correctly; do marks implement `StatusBoard` |
| `pool_ring` | one looks up, one marks, connection counts 0..1, counter mod 4 | 692 k | what may a lookup answer, under every strategy |
| `lb_unmonitored` | 2 requests of all kinds, 2 backends, 3 attempts, failing backends and clients, no monitor | 1.05 M | requests against requests: who is refused, who is held up, what stays excluded |
| `lb_overtaken` | 2 requests, 2 backends, 2 attempts, monitor, leaving clients, counter mod 2 | 1.34 M | requests against requests and checks: who is tried again, and who is refused past a sound backend |
| `lb_live` | 1 request with or without a body, 2 backends, 2 attempts, monitor, failing backends and clients, fairness | 417 k | a request against checks: who turns a flag, and does everything that must happen, happen |
| `shutdown` | 2 backends, 2 connections, timeouts {0, 1, 3, 4} s, intervals {0, 1, 2, 4, 5} s, the deadlines of `main` | 224 k | cycles, ticks, `Stop`, drain and exit |
| `rate_limiting` | 1 client, 2 handlers, 3 settings, 2 units per second, ages to 4, windows to 4, `MaxInt` 8 | 517 k | tokens and tables in memory |
| `stored` | 1 client, 2 requests, 1 handler, 3 settings, 2 units per second, ages to 3, lags to 1, windows to 2, `MaxInt` 3 | 1.39 M | tokens, tables, cache, locks and what a removal leaves, with a store |
| `lb_leave`, `lb_body`, `drain`, `hybrid_unlimited` | | | disagreements, see below |

Why these bounds are enough to be interesting:

* Three entries, of which two share a URL, give a mark that goes on after its
  first match and leaves an entry out, and a ring with a before and an after.
  4 is not a multiple of 3, as 2^64 is not: the cut ring of
  `NoFalseUnhealthy` occurs. In `pool_two` the counter is a multiple of 3, so
  that `RingOrder` holds without exception.
* `RolesSpec` gives each of two callers one role, which keeps the three
  strategies with their counts within reach; `pool_two` has both roles for
  both callers.
* Two backends and three attempts let a request meet a backend twice. With the
  monitor two attempts do, as a check may mark the other one dead, and they
  exercise the end of the loop: `MaxAttempts` is the source's constant in
  `lb_unmonitored`, and 2 in `lb_overtaken` and `lb_live`.
* `lb_overtaken` needs two requests and the monitor at once, so the rest is
  small: two attempts, which is N, the fewest in which a request that nobody
  overtakes reaches every backend; requests are symmetric; of two checks in a
  cycle that of the first backend returns first (`ChecksInOrder`; any order is
  in `lb_live`); backends stay up, and it is the clients who leave that get
  them condemned. The theorems have none of these bounds.
* The deadlines of `shutdown` are the source's. Timeouts and intervals lie on
  both sides of each other and of the 4 s of the monitor, and include 0, which
  is refused with checks and accepted without them.
* Requests with a body and upgrades fail in the same way, but that a body is
  spent by it: `lb_unmonitored` has both kinds, `lb_live` bodies only, and
  `lb_overtaken` has neither, as a client that leaves may fail any attempt.
  Backends that fail on their own are in the first two.
* In `rate_limiting` a bucket is refilled by less than a token per unit
  (`slow`), by more than it holds (`quick`), or overflows (`huge`); `nothing`
  is refused by the service. One client is enough to check because clients
  share only the locks; two handlers race on it. The proofs are for any number.
* In `stored` two requests and a handler are the readers and the writer of
  every race the properties speak of; `s.mu` lets one change at a time reach
  the limiter, so a second handler would only wait. A lag of one unit already
  moves `last_refill` back. With `MaxInt` 3 the sum of `quick` overflows in the
  PostgreSQL limiter and that of `slow` does not. Requests are symmetric. The proofs are for any
  number of everything.
* Deadlock is checked in every run whose system must go on. It is off for the
  two pools, where the bounds on counts end nothing but the roles do not
  require anything, and for `shutdown`, which ends.

What the properties say is written above each of them. The ones worth reading
first: `RingOrder` and `NoFalseUnhealthy` (`MemoryPoolHistory`),
`RetryAvoidsCondemned`, `No503PastASoundBackend` and `RefusedOnlyIfOvertaken`
(`LoadBalancerHistory`), `NobodyIsHeldUp` (`LoadBalancer`), `StopIsInTime`
(`Shutdown`), `BurstBound` and `NothingLost` (`RateLimiting`),
`StaleOnlyByRace`, `LeftoverOnlyByRace` and `RefusedSoonAfterGrant`
(`StoredLimiting`).

`No503PastASoundBackend` is checked with requests alone; for one request
against the monitor it is a theorem. With several requests *and* the monitor
it is false, as TLC shows on the instance of `lb_overtaken`: checks revive what requests have
condemned, and other requests draw the tickets that would have led to the
sound backend. `RefusedOnlyIfOvertaken` is what remains true there, and says
exactly what such a refusal takes: the request has failed at its last attempt
(no lookup ever misses the sound backend), and another request has drawn a
ticket since its last N attempts began. `main` has three attempts: with two
backends, or with three away from a wrap of the counter, only a request that
is overtaken can be refused past a sound one.

`StopIsInTime` has a condition that TLC insisted on: with a check timeout
below 4 s the monitor still may not stop in time if the timeout is not below
the interval, for which `LoadConfig` only warns. A cycle that ends with a tick
waiting may begin another one, and the two together outlast `main`.

The proofs draw the same line: `RefusedOnlyIfOvertaken` is a theorem for any
number of requests with a monitor, `No503PastASoundBackend` for any number
without one, and for one request with it, each of the last two with at least
as many attempts as backends.

Every property has a mutant in `PROJECT.json`: a definition of the model
changed the way a bug in the code would, under which TLC finds the property
violated.

## Fairness

* Pool: a goroutine inside it never waits (readers do not exclude readers), so
  it is scheduled until it leaves.
* Monitor in `LoadBalancer`: checks end because `http.Client` has a timeout;
  the ticker ticks; the loop runs when it can. One weak fairness for all of it
  (`Monitoring`) is enough: the loop waits for the checks of its cycle, which
  are finitely many steps, and then for a tick.
* Requests: a backend that has taken a request answers or breaks the
  connection. The transport itself has no timeout, so this is an assumption
  about the backends; the server's 15 s write timeout does not cancel
  `HandleRequest`.
* `Shutdown`: time passes, and goroutines that can run do (`Runnable` as a
  whole, which is enough because it runs empty before each second). Requests
  need not end, and the hybrid limiter need not close its connections.
* `RateLimiting`: time passes, the refill goroutine runs after a tick, a
  handler that holds `s.mu` goes on.
* `StoredLimiting` states none: its properties are safety only.

Nothing is assumed of arrivals, failures, recoveries, API calls, restarts, the
signal or the random choice of `select`.

## The proofs

All hold for every value of the constants that satisfies the named
assumptions; TLC evaluates those assumptions in the runs.

* `MemoryPoolProofs!TypeCorrect`. `TypeOK` is inductive as it stands.
* `MemoryPoolProofs!MarksAreWrites`: the pool implements `StatusBoard`, initial
  states and steps. It needs `MarksInv`: a mark in progress is at an entry of
  its URL, and nobody else carries a verdict. A lookup shows nothing on the
  board; `MarkBackendStatus` is `Begin`; a load that finds the flag as it
  should be and a store are `Write`; a load that differs shows nothing yet,
  even if another mark stores first.
* `RingLemmas`: a turn of the ring reaches every entry (`FullTurn`); the wrap
  of the counter does not disturb it if it falls outside the turn or the
  number of entries divides the range (`WrapIsHarmless`), and then the turn
  goes on from the next ticket (`NextTicket`).
* `MemoryPoolLookupProofs`: `RingOrderHolds`, `NoFalseUnhealthyHolds`,
  `NoDeadPickHolds`, `LeastLoadedHolds`. The invariants speak of answers only;
  what makes them inductive is the part of the loop already done (`LookupInv`):
  every entry that has been passed is not in `upAll`, and everything kept is
  not in `downAll`. With `RingLemmas` "all N positions passed" becomes "all N
  entries passed". For least-connections the loop invariant is that `least` is
  the count of the kept entry and no larger than that of any passed entry that
  was alive throughout. The assumption is `1 <= N <= CounterMod`.
* `LoadBalancerProofs`, all from `CoupledInv`, which says for every request and
  every check where its goroutine is in the pool, given where it is in its own
  component (`RequestInv`, `CheckInv`). A request looks up exactly in `pick`; it
  marks its own target dead, and only in `mark`; a check marks its own backend,
  and only inside a cycle.
  * `TypeCorrect`, `NobodyLeavesHoldingTheLockHolds` and `FlagsChangeHandsHolds`
    follow from it and its steps.
  * `ComponentsAreImplemented`: seen from the pool every step is one of the
    pool or none, and the same for the monitor. What `MemoryPoolProofs` and
    `ShutdownProofs` say of `HealthMonitor` and of the pool's types thus holds
    of the parts that run here.
  * `RetryAvoidsCondemnedHolds` from `CondemnedInv`: a condemned backend is
    alive only while the request is still writing its mark.
  * `No503PastASoundBackendHolds`, without health checks: a lookup that finds
    nothing has passed every entry (`SoundInv`), and attempts run out only when
    each has condemned another backend (`CountInv`), N of them in the end.
    Without the condition on the wrap, `RefusedOnlyAroundTheWrap` says that
    the lookup in which `uint64` wraps is the only exception.
  * `RefusedOnlyIfOvertakenHolds`, with or without a monitor: checks may revive
    what was condemned, so condemned backends cannot be counted. Tickets can:
    as long as nobody else draws one, they go round the table. `TurnInv` says
    of a request with a `streak` that its sound backend is its target or one
    of the N - `streak` entries after the last ticket: a lookup that passed it
    would have picked it. After N tickets none is left. This one needs
    `CounterMod % N = 0`, so that the wrap does not break the turn.
    `No503ForALoneRequest` is its corollary: with nobody to overtake it, the
    streak of a request is the number of its attempts (`AloneInv`).
  * `NobodyIsHeldUpHolds`: no step of anyone leaves a request further from its
    end. `StepsLeft` counts what its goroutine has left (the rest of the scan,
    the forward, the two halves of the mark, the attempts to come), every step
    of its own lowers it and no other touches its locals. `StepsAreBounded`
    adds that the count is a natural number, `MaxAttempts * (N + 5) + 1` at
    most. Together they are `EveryRequestEnds` but for the fairness.
  * `DownForGoodHolds` from `NoMonitor`, without health checks: the only mark
    that could revive a backend is that of a check, and there is none. A table
    with every flag down stays so and every lookup in it finds nothing.
* `ShutdownProofs` begins with the monitor alone: `QuietAfterStopHolds` and
  `CyclesDoNotOverlapHolds` from `CycleInv`: outside a cycle no check is
  running, and a graceful `Stop` means a stopped loop. Every behaviour of
  `Shutdown` is one of the monitor (`MonitorIsImplemented`), so both hold in
  the process.
  * `LostOnlyAfterGraceHolds` from `ServerInv`: a server that has drained has
    stopped listening and has no request, which is why `main` may exit early.
  * `TypeCorrect` from `ProcessInv`. That no check outlasts its timeout needs
    that time waits for a check whose timeout is over (`ChecksHaveTime`).
  * `ComesToRestHolds`: every step but those of the clock, the requests and
    the signal lowers `Work`, a natural number. A cycle costs a start, two
    steps per check and an end; it is begun by a tick or by the start of the
    loop, and only the clock makes ticks, so each pending beginning is counted
    with the whole cycle it pays for (`LoopIsPaid`, `CheckIsPaid`); the stages
    of the shutdown are each passed once (`StageIsPaid`). It assumes finitely
    many backends.
  * `ExitsInTimeHolds`: when time passes after the signal, something that
    `main` waits for has not come to its deadline (`WhatMainWaitsFor`).
  * `StopIsInTimeHolds` from `PromptInv`: without the warning of `LoadConfig`
    no tick waits while a cycle runs, and a tick that waits at the select came
    in this very second; so `Stop` has waited no longer than the one cycle it
    found or that this tick began.
* `RateLimitingProofs`: `BurstBoundHolds` needs the bucket in the invariant:
  usable tokens plus grants, in units of `1/Second`, never exceed capacity
  plus the flow up to the last refill (`Flow`). Each refill preserves it
  because cutting fractions and overflowing only take tokens away
  (`RefillGoverned`). `NothingLostHolds` has the condition `Roomy`, under
  which no sum overflows, and uses that a refill never lowers a bucket that is
  not above its capacity. `ListedIsEnforcedHolds` from `TablesInv`: at most
  one handler holds a change, and the tables differ at most for its client.
* `StoredLimitingProofs`: `TypeCorrect` and `LocksAreInUseHolds` from
  `TypeInv`, which adds that a transaction about to write has locked a row that
  exists (`Locking`), so no statement of the API takes it away.
  `ListedIsKeptHolds`, which is about the clients whose last change succeeded
  since the last restart, and `StaleOnlyByRaceHolds` from `TablesInv`: one change
  at a time, written to the service's table first (`OneCall`); table and store
  differ only for a change that has not reached the store (`Listing`); what is
  on its way into the cache is in the store or was read before a change
  (`Filling`). `LeftoverOnlyByRaceHolds` from `LeftoverInv`: only a script
  writes tokens, and a script needs settings. A client without limits, none
  of whose requests or changes went astray, has no tokens and no request in
  flight that knows a limit of it (`Cleared`), and no new one learns one,
  since then the cache has none either. A change reaches Redis only after
  PostgreSQL (`Reached`), so setting a limit cannot bring the case about.
* `StoredTokensProofs`: `BurstBoundHolds` and `RefusedSoonAfterGrantHolds`
  from `TokensInv`. `Covered` says that tokens and grants are covered by the
  capacity and by what has flowed from the start of the window to
  `last_refill`. It is the age of `last_refill` that makes late requests
  harmless: a script that works with an old time moves `last_refill` back as
  far as it refills less. For a transaction it must also be said of the tokens
  it is about to write (`PendingTokens`), which the row lock keeps true.
  `Recent` says that the last grant is not older than `last_refill`, unless a
  PostgreSQL row has a token left. `RefusedSoonAfterGrantHolds` needs room for
  the sum of the PostgreSQL limiter (`Roomy`), and that no row holds more than
  its capacity; `BurstBoundHolds` needs neither, since a sum that wraps only
  takes tokens away (`NewTokensInInt`).

The assumptions are that settings are pairs of naturals in the width of the
integers, that `None` is none
of the values it is compared with, that lags are within the ages that are
counted, that the deadlines of `main` are ordered as in the source, that there
are finitely many backends (`TargetsAssumption`), and that the goroutines of
requests are not those of checks (`GoroutinesAssumption`: `LoadBalancer` names
a check goroutine by its backend). Where a theorem needs more it says so:
`N <= MaxAttempts`, `CounterMod % N = 0`, a single request.

Only model-checked:

* liveness (`SignalEndsProcess`, `KeepsChecking`, `EveryRequestEnds`,
  `Recovery`, `Exclusion`, `EmptyBucketRefills`), which is out of the prover's
  reach; the bounds that `EveryRequestEnds` and the `Runnable` fairness of
  `Shutdown` rest on are proved (`StepsAreBounded`, `ComesToRestHolds`);
* the fairness half of `MarksAreAtomicWrites`: that every mark ends;
* that the counterexamples of the next section are behaviours of the model.

## Disagreements found

Three statements of the README and one of the tests say something else than
the code does; the runs show how. `Recovery` limits a fourth statement of the
README.

* `lb_leave`: «Обработка 503 ошибок, когда все бэкенды упали»
  (repository `README.md:32`). A client that leaves cancels its request,
  `Forward` fails on each healthy backend it tries, each is marked dead, and
  another client gets a 503 while everything is up. A client whose body breaks
  off or whose upgrade cannot be made does the same while it is still there.
* `lb_body`: «Мертвые сервера временно исключаются из пула» (repository
  `README.md:36`). The retry of a request with a body cannot send the body
  again; it fails on a healthy backend and excludes it.
* «Автоматическое восстановление при возврате» (automatic recovery on return,
  repository `README.md:37`) holds only as `Recovery` states it: from some time
  on requests must fail only on backends that do fail. Otherwise a backend that
  is up for good can be excluded again and again, for instance with clients that
  stay but send bodies: the other backend flaps, the first attempt fails on it
  and consumes the body, and the retry fails on the good one. TLC refutes
  `Recovery` without its condition on the instance of `lb_live` with bodies
  only and clients that never fail, and not on the same with no bodies.
* `drain`: «Graceful shutdown без потери запросов» (repository
  `README.md:43`). The server has 5 s to drain, then `Close` cuts what is left
  (`server.go:71`); a request may last 15 s and more.
* `hybrid_unlimited`: the end-to-end test expects status 200 of a client for
  which nobody has set a limit (`tests/e2e/main_test.go`), and the two other
  limiters let it pass. `getSettings` of the hybrid limiter answers `nil, nil`
  (`hybrid.go:200`) and `Allow` dereferences it (`hybrid.go:146`): with
  `STORAGE_TYPE=hybrid` each such request panics.

Limits of the code that show up as conditions of properties that hold:
`RingWhole` (the counter wraps within a turn and the number of backends is not
a power of two), `Roomy` (a limit near the largest `int64`, with which the sum
of the in-memory limiter, `token_bucket.go:127`, or of the PostgreSQL limiter,
`token_bucket.go:93`, turns negative and the client is refused), the condition
of `Recovery` (see above), `Warned` (see `StopIsInTime`), `faulted` (after a
restart the API lists nothing and answers 404 to the removal of limits that are
still enforced; after a failed change it lists settings that may not have been
stored), `raced` (a late reader puts old limits into the cache for an hour),
`outlived` (a request that already knows the limits writes the tokens again
after `RemoveRateLimit` has deleted them, without an expiration:
`hybrid.go:137`) and `streak` (a request may be overtaken at each of its
attempts).

## What the models leave out

* Headers, logging, JSON, URL parsing, the spelling of client identifiers.
* The writer preference of `RWMutex`, see above.
* 5xx answers, which are successes for the forwarder, are in `ResponseBegins`.
* The conversion of an out-of-range float to `int64` in `refillAll` and in the
  `Allow` of the PostgreSQL limiter: rates are assumed small enough that
  `elapsed * rate` fits. The sums that follow do wrap. The rounding of the
  doubles of the Lua script.
* `main` never calls `SetStrategy` or the connection counters, so
  `LoadBalancer` has only round-robin; `MemoryPool` has everything.
* `GetBackends`, `GetActiveConnections`, `GetClientSettings` and `ListClients`
  only read; they see the state between steps of the writers.
* The clock of the stores' machine going backwards: ages only grow. Several
  processes on one store: `main` starts one.
* The end of the process when a component cannot be built at the start, and
  `Stop` of the PostgreSQL limiter, which closes its connections.
* In `Shutdown` the requests do not run through `LoadBalancer`, and the limiter
  does not answer them: what a drain with a stopped limiter does to tokens is
  in `RateLimiting` (`Stop` at any moment); closed connections are failing
  calls in `StoredLimiting`.
* Parsing of the configuration is sequential and feeds no state; of its checks
  only those of the health checks are modelled, because the shutdown depends
  on them.
* Not modelled at all: the package `balancing` (used by nobody), logger,
  ports, mocks.

## The plan

Done: pool, monitor, requests and their composition; rate limiting with each
of the three limiters; the life of the process; a theorem for every safety
property of the runs; a property for every hazard of `PROJECT.json`, with a
note where it exempts the hazard itself. Left:

1. A cap on how long a stale limit is enforced: liveness of `Expire` under
   fairness of Redis' expiration, which needs a bound on the lag of a reader.
2. One abstract limiter (a client, its limit and what it was granted) that the
   three limiters implement. It is not stated yet because what they have in
   common is weak: the hybrid script may work with two limits at once after a
   race, and what a bucket may hold depends on clock readings that the ages
   beyond `MaxAge` no longer tell apart. `BurstBound`, which two of the
   compositions prove in the same form, is the part they share.
