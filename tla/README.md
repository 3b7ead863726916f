# Verification of golang-build: specifications, checks and proofs

This directory holds TLA+ models of the concurrent and stateful parts of the
Go template in `src/`, TLC configurations that check them on small instances,
and TLAPS proofs for every value of the constants. `PROJECT.json` ties every
definition to the lines it models, every property to a run and to a plausible
slip in the code that would break it, and every hazard of the code to the
properties that watch it.

    cd tla
    tlasany Semaphore.tla                             # parse
    tlc -workers 2 -config Semaphore.cfg Semaphore    # check a run
    tlapm SemaphoreProofs.tla                         # check the proofs

## 1. Inventory

Paths are under `src/internal/` unless they begin with `cmd/`. "Hard" is what
a unit test would hardly reach.

| component | state | operations | hard | correct when |
|---|---|---|---|---|
| limiter (`limiter/limiter.go`) | `inFlight` under `mu`, a condition variable | AcquireN, TryAcquireN, ReleaseN, a watcher goroutine per call | Broadcast without `mu`, wake after unlock, cancellation | permits out = counter <= capacity; room is noticed; a cancelled call returns |
| errgroup (`errgroup/errgroup.go`) | limiter, WaitGroup, active count, first error, context | Go, TryGo, Wait, SetLimit, SetLimiter | a limiter shared by groups; the order of error, release and Done | Wait returns when all is over and all permits are back; Go gets on |
| scheduler (`scheduler/scheduler.go`) | entries with `nextDue` and a `running` flag, one-slot wake channel | Schedule, Unschedule, RunDue, Start, Stop | loop and direct callers claim the same snapshot; Schedule while the loop goes to sleep; Stop before Start | no entry runs twice at once; a due job is launched; cancel ends the loop |
| circuitbreaker (`circuitbreaker/`) | state, failures, openedAt under `mu` | Do, Reset, OnStateChange callbacks | the lock is dropped inside `transition`; late results; panics | HalfOpen has its probe; trips at the threshold; gets out of Open and HalfOpen |
| shutdown (`shutdown/shutdown.go`) | list of hooks, `started`, `doneCh` | Register, deregister, Shutdown | index captured at registration; second callers; hooks that outlive their limit | LIFO; nil means every hook succeeded; Shutdown returns |
| eventbus (`eventbus/eventbus.go`) | map of subscribers; Async: a channel and a stop channel each | Sync and Async: Subscribe, Unsubscribe, Publish, Close | Subscribe and Publish racing Close; full queues; two looks at one map | order per publisher; Close drains and returns; Publish returns; a handler that stays is called |
| disk cache (`cacheutil/`, `fsutil/atomic.go`) | queue, two WaitGroups, first error; sidecar files and entries | Submit, Flush, Close; Open, Clear; WriteFileAtomic | death of the process between two file operations; failing writes; Submit racing Close | sidecars vouch for the data; errors are reported; Close returns |
| ratelimit (`ratelimit/ratelimit.go`) | tokens and last refill under `mu`; Manual: a count and a condition variable | AllowN, WaitN, Add, Set | lazy refill by several callers; truncated sleeps; the wake-up gap of `WaitN` | never more than burst + rate * t; sleeps no longer than needed; no wake-up lost |
| kv (`kv/kv.go`) | shards of entries with expiry, a janitor | Get, Set, Delete, GetOrSet, Sweep, Close | a removal decided under an earlier look or an earlier clock | no live value is dropped, and what is dropped has expired |
| auth (`auth/jwks.go`) | keys and fetch time | key, refresh | overlapping refreshes; answers out of order | a key that was retired goes in bounded time |
| server lifecycle (`cmd/server/main.go`, `httpserver/`, `jobs/client.go`, `healthcheck/`) | booted resources, hooks, drained server, shutting-down flag, probes | boot, Run, drain, OnShutdown, CheckReadiness, Stop of the job client | one budget for drain and hooks; Serve failing; hijacked `/ws` connections; a probe begun before the flag | the pool is not closed under its users; a nil means drained, stopped and closed; a signal ends it |
| handlers (`handlers/`) | cached ping (5 s), cache-aside users (30 s) | Health, GetUsers | slow answers that overwrite newer ones; a cancelled request's result cached for others | what is served is not older than its windows allow |
| middleware (`middleware/`, `httpmw/`) | pool of gzip writers, traffic counters | the chain of buildRouter | pooled writers, panics half-way, statuses settled twice | bodies are whole and unmixed; counters agree with clients |
| retry (`retry/retry.go`) | attempt counter | Do, computeDelay, Sleep | cancellation in operation or sleep; the cap and jitter of the delay | at most MaxAttempts; the planned delays; after a cancellation one attempt at most begins |
| vfs (`vfs/vfs.go`) | map from cleaned path to entry | WriteFile, MkdirAll, Remove, ReadDir, Stat | orders of removal and creation | Mem behaves as a tree of files does |
| perf (`perf/`) | tracker, children, spans | Serial, Track, SetAttr, Stop, End, GetTimings | several goroutines stop one span; reports taken in between | a stopped span is recorded once with its attributes; reports only grow |
| migrate command (`cmd/migrate`) | version of FakeMigrator; phase of the text UI | Up, Down, Steps; picker, confirm, run | messages and keys in any order | version = prefix of the migrations; what runs is what was confirmed |
| load generator (`cmd/loadgen`) | workers, counters, latencies; the dashboard | Run, record, Snapshot; the pickers, ticks | a deadline, a quit and a late sample racing workers; a second Enter | the last screen is final and adds up; the dashboard ends |
| inspect command (`cmd/inspect`) | an Async bus, a ring of events, counters | scenario, Handle, quit | quitting while the handler wants the lock and the queue is full | every event is counted, dropped or under way; quitting ends |
| paginator (`paginator/`) | cursor with its version | ClampPageSize, SplitPage, NewPage, Encode, Decode | rows that come and go between pages; another build | no row that stays is skipped or shown twice |
| tokens, id, logger, config, env, version, proc, database, clock and random | none that outlives a call, or a test double | encode, decode, format, os/exec | - | - |
| other commands, text UI, web, scripts, deployment | terminal models, files | - | messages out of order, as in migrate | - |

How they interact. `cmd/server/main.go` boots its resources in parallel,
registers the cache and the pool with a `Coordinator`, starts the
job client and registers it last, so that it is stopped first, and passes
`Coordinator.Shutdown` to
`httpserver.Server` as `OnShutdown`; drain and hooks share one context. The
scheduler takes a clock and may wrap its jobs in a `limiter.Semaphore`; an
`errgroup` may share one with other groups; a cache on disk is made of
`cacheutil.VersionedDir`, `cacheutil.AsyncWriter` and `fsutil.WriteFileAtomic`;
`cmd/inspect` is a user of the Async bus, `cmd/loadgen` of the engine and
`cmd/migrate` of a Migrator. The handlers sit under the middleware chain over
the pool and the cache. The breaker, the key-value store, the rate limiters,
JWKS and `healthcheck` (which `main` does not wire in) meet only their
callers: goroutines that share one value.

## 2. Modules

| module | models | extends, instances |
|---|---|---|
| `PermitPool` | what a limiter promises: permits taken n at a time, all or nothing | - |
| `Semaphore` | `limiter.go`, step by step | refines `PermitPool` |
| `ErrGroup` | `errgroup.go`, groups that share a limiter | takes permits by `PermitPool` |
| `Scheduler` | `scheduler.go`, with a limiter as `PermitPool` promises it | - |
| `CircuitBreaker` | `circuitbreaker.go` | - |
| `Shutdown` | `shutdown.go` | - |
| `Server` | `cmd/server/main.go`, `httpserver`, the job client | composes `Shutdown` |
| `HealthCheck` | `healthcheck.go` | - |
| `EventBusAsync` | the asynchronous bus of `eventbus.go` | - |
| `Inspect` | `cmd/inspect` | composes `EventBusAsync` |
| `SyncBus` | the synchronous bus of `eventbus.go` | - |
| `AsyncWriter` | `cacheutil/async_writer.go`: actions without a specification of their own | - |
| `DiskCache` | `versioned_dir.go`, `fsutil/atomic.go` and processes that live and die | extends `AsyncWriter` |
| `TokenBucket` | what a Bucket promises: it gains at every tick, up to the burst | - |
| `Bucket` | `ratelimit.go`, Bucket with its lazy refill | refines `TokenBucket` |
| `ManualLimiter` | `ratelimit.go`, Manual | - |
| `Retry` | `retry.go` | - |
| `LoadGen` | `cmd/loadgen`: engine and dashboard | - |
| `KVStore` | what a Store promises: entries vanish at their tick | - |
| `KV` | `kv.go`, Memory, step by step | refines `KVStore` |
| `JWKS`, `PingCache`, `UsersCache` | the caches of `auth/jwks.go`, `handlers/health.go`, `handlers/user.go` | - |
| `Chain` | `middleware/` as `buildRouter` stacks it | - |
| `Paginator`, `Perf` | `paginator.go`; `perf.go` and `span.go` | - |
| `FileTree` | what vfs.FS promises: a tree of directories and files | - |
| `MemFS` | `vfs.go`, Mem, one map of paths | refines `FileTree` |
| `Migrations` | what a Migrator promises: a prefix of the versions | - |
| `Migrate` | `cmd/migrate`: FakeMigrator and the text UI over it | refines `Migrations` |
| `SemaphoreProofs`, `SchedulerProofs`, `CircuitBreakerProofs`, `DiskCacheProofs` | theorems | each extends its module and TLAPS |
| `StoppingProofs`, `BusesProofs`, `LimitsProofs`, `StoresProofs` | theorems about the parts of the module of that name | each extends that module and TLAPS |
| `Stopping`, `Buses`, `Limits`, `Stores` | nothing of their own: they check several modules in one run | see below |

**Several parts in one run.** `Stopping` (Shutdown, Server, HealthCheck),
`Buses` (EventBusAsync, SyncBus, Inspect), `Limits` (Bucket, ErrGroup,
ManualLimiter, Retry, LoadGen) and `Stores` (KV, JWKS, PingCache, UsersCache,
Chain, Paginator, Perf, MemFS, Migrate) put modules side by side whose parts
share no state. A variable `focus` picks one part at the start; that part
takes its own steps and the others stay as they begin, in one way only.
The behaviours are the sum, not the product, of those of the parts, and the
properties of an idle part hold of its initial state trivially, so each is
checked as in a run of its own. A property of such a run that names several
(`WaitsAreRight`, `NothingStale`, ...) is the conjunction of properties stated
and explained in the modules of the parts. The modules keep, next to each
definition that matters, the plausible slip ("Slip: ...") that one of
those properties is there to catch; `PROJECT.json` lists one per
checked property.

**What is one step.** A critical section is one step: nothing outside sees its
middle. Where code reads an atomic before taking a lock, drops a lock and takes
it again, or acts on a copy, there is a step on each side of the gap, and a
program counter between them. Reading an atomic flag, a channel operation, a
`go` statement and a file operation are steps. Counters kept only for
statistics are left out. History variables (`gone`, `fired`, `early`,
`handled`, `halfClear`, `granted`, `deletes`, `stayed`, ...) are marked as such
in the declarations; no guard reads them except to bound a run.

**Semaphore.** `inFlight`, `mu` (who holds it), `held` (what each caller has
and has not released). AcquireN's loop ends in Grant, GiveUp (the context's
error) or Park: the check of room and of `ctx.Err` happens under `mu`, and
`cond.Wait` follows as a step of its own (Wait), which registers the caller
and frees `mu`. The watcher is a
goroutine of its own that selects between `ctx.Done` and `done` and broadcasts
*without* `mu`. A broadcast wakes exactly the registered callers, and each of
them retakes `mu`. ReleaseN's broadcast follows its unlock as a second step.

**ErrGroup.** A function is handed in, waits for its permit (Admit), runs,
records its error, gives the permit back and calls Done, one step each, in
the order of the deferred calls. Groups share one `PermitPool`, so a
group's functions wait for another group's. A caller turned away by its
context (GiveUp) records that error.

**Scheduler.** Time is discrete and starts at 1 (0 is Go's zero time). An entry is an identity, so
that one replaced or removed lives on in the snapshots of those who hold it.
RunDue reads the clock (EnterRunDue), then takes its Snapshot under `mu`; there
is one Claim per due entry (compare-and-swap of `running`) and a Launch, which
advances `nextDue` from the time RunDue read and spawns the job's goroutine.
The loop's sleep ends by the timer, the wake slot or the context; the choice
between ready cases is free. `Schedule` is three steps: stopped check,
insertion, wake. The limiter is used through the promise of `PermitPool`:
at most `Limit` jobs inside their function.

**CircuitBreaker.** `state`, `failures`, `age` (time since opening, capped at
the cooldown, when it stops mattering). `recordResult` is split where
`transition` drops `mu` around `OnStateChange`: the write of `failures` that
follows comes in a step of its own. Any operation may panic, which skips
`recordResult`.

**Shutdown.** `hooks` is the registered list, `closure` what each deregister
function captured. The first caller copies the list and takes hooks from its
end; each hook runs in a goroutine that may return nil, an error, panic, or
never return, and `runHook` may give up on it.

**Server and HealthCheck.** `Server` instances `Shutdown` for the Coordinator
(its variables are `co...`): main's three boot functions run in parallel, and
one that fails closes what the others made. `Run` serves, and on a signal
drains (Drained, or the budget ends first) and calls the Coordinator with the
*same* context. `requests` are those that net/http tracks and the drain waits for;
`sockets` are the connections that `/ws` hijacks, of which it knows nothing. The hooks' bodies are modelled: closing the cache, the
pool in its two phases (refuse, then wait for users), the job client with its
grace. `HealthCheck` copies the probes under `mu`, runs them in any order and
may meet a SetShuttingDown at any point.

**EventBusAsync, SyncBus, Inspect.** Async: per subscription a channel
(bounded sequence), a stop flag and a worker. Subscribe: closed check,
insertion, spawn. Publish: closed check, copy of the map, then one send per
subscriber in any order (map iteration), each of which may also take the
closed stop channel; or a drop when the bus is configured so. A worker's
`select` takes an event or the stop. Close: set the flag, stop everybody under
`mu`, wait. Sync: Publish copies the ids, sorts them, then takes the handlers
that are still there, in a second critical section, and calls them with no
lock. `Inspect` instances the Async bus (`bus...`) with one producer and one
handler that drops when full, and adds the ring, the counters and the UI's
quit: unsubscribe under `Inspector.mu`, then Close.

**AsyncWriter and DiskCache.** A job is offered, queued, in hand, failed, done;
`Flush` and `Close` wait for the WaitGroups. On disk there are sidecars and
items, each item known by the version that wrote it. A write is CreateTemp,
fill, rename, with a failure possible at each. The process can die between any
two steps, which loses memory, leaves temporary files and keeps every finished
file operation.

**TokenBucket and Bucket.** Amounts are integers, in fractions of a token, so
that the code's `float64` sum is exact; its rounding is not modelled, its
truncation of a sleep to whole units (and the millisecond it sleeps instead of
0) is. `Level` is what the bucket would hold were it asked now; it is the
refinement mapping to the eager bucket, whose `Take` is the code's decrement.
Every caller sleeps on a timer of its own and may come late or be cancelled.

**ManualLimiter.** As Semaphore, with Set and Add in the place of release.

**Retry.** `Do` with the policy's zero fields replaced by their defaults; delays
in units of 100 ms, jitter in halves (a negative fraction is none, as in the code).
`computeDelay` is the code's, the planned delay its definition (base times powers of the
multiplier, capped, plus or minus jitter), and run and proof compare them. The policies are a
constant; the run's are `SomePolicies`.

**KVStore and KV.** A step is one hold of a shard's lock or one reading of the
clock. Get reads under one lock and drops what has expired under another, a
Sweep goes by one clock through all shards, GetOrSet computes unlocked. The mapping
hides what has expired (`Live`). `deletes`, the parity of Delete calls, is
part of the interface: without it a removal that nobody asked for would look
like a Delete.

**JWKS, PingCache, UsersCache.** Requests overlap, and every store may be
of an older reading than the one it replaces. Patience, how long a request may
last, is the parameter in which the properties say how much older. The ping has a timeout of one second; a fetch
of keys and GetUsers set none, so theirs is what their callers' contexts allow. What the provider publishes, whether the
database is up, what the table holds, change by themselves.

**Chain.** One request's way down Gzip to the handler and back up, through
return or panic, with the ResponseWriter of net/http underneath (first status
wins) and a gzip.Writer that may keep data until Close. Recover's `http.Error` sets a 500, if
no status was sent, and writes its text (`ErrorText`) behind what the client has already. The TrafficRecorder's
counters are a number per status.

**Paginator, Perf, MemFS, Migrate, LoadGen.** `Paginator`: a client's walk over
a table that changes between pages, by a build that may change too; a page is the rows
behind the cursor in ascending order, up to its size. `Perf`: a
tracker and a child; Stop unlocks before it adds its entry. `MemFS`: each
operation is one step, since each holds `mu`; implied directories come
from the prefixes of paths, as in the code. `Migrate` and `LoadGen`: bubbletea
hands Update one message at a time, in any order, so a key may come between
another key and the message it caused; the worker of an AsyncTask, an Engine and
its workers run beside Update. The engine's percentiles are read from a sorted copy of the
latencies.

## 3. Runs

| run | expect | instance | shows |
|---|---|---|---|
| `semaphore` | pass | 3 callers, 2 permits, requests of 0..3 | counter = permits held; a sleeper whose request fits has a broadcast coming; the code implements `PermitPool`; a cancelled call returns if its watcher's broadcast met it registered |
| `semaphore_cancel` | violation | same | a cancellation can be lost between `ctx.Err` and registration |
| `scheduler_loop` | pass | loop, 1 name, 2 entries, time to 2 | a sleeping loop is covered by timer or wake; a one-shot is launched once; a due job is launched; cancel ends Start |
| `scheduler_direct` | pass | loop and 1 direct caller, 1 entry, time to 3 | no invocation overlaps |
| `breaker` | pass | 3 callers, 1 resetter, threshold 2, cooldown 2 | a half-open breaker has its probe; a closed one is below its threshold; both other states end |
| `stopping` | pass | coordinator: 2 callers, 3 registrations, 2 names; server: its 3 hooks, 2 requests or sockets, 2 jobs; health: 2 probes, 1 dependency, 1 check | LIFO; nil means all closed; nothing is dropped but by name; the pool outlives its users and a nil from Run means that requests and jobs came to their end (hijacked connections excepted) and the resources are closed; "ok" vouches for the probes; Shutdown returns and a signal ends the server |
| `shutdown_deregister` | violation | 2 callers, 3 registrations, 2 names | deregister leaves its hook in |
| `buses` | pass | Async: 1 subscription, 2 publishers of 2 events, buffer of 1 or 2; Sync: 2 publishers, 3 subscriptions; inspector: 5 events, queue and ring of 2 | order; what can be stranded; Close waits and returns; Publish returns; handlers that stay are called; every event of a session is accounted for; quitting ends |
| `eventbus_close` | violation | 2 subscriptions, 1 publisher | a Subscribe that overlaps Close can hang it |
| `disk_cache` | pass | 2 lives, 2 jobs, 2 workers, queue of 1, 2 sidecars of 2 values | errors reported; sidecars vouch, but for a Clear that stopped half-way; no temporary file forgotten; Close returns |
| `limits` | pass | bucket: 2 callers, burst 2, rate 2/3 of a token a tick, time to 4; 2 groups with 3 functions on 1 permit; manual: 3 goroutines, counts to 2; 4 retry policies; 2 engines of 2 workers | any window of time is granted burst + refill at most; the lazy bucket implements the eager one; sleeps are not too long and no wake-up is lost; Wait means over; delays as planned; the last screen is final; what waits gets on |
| `stores` | pass | kv: 2 keys, 1 caller, janitor, time to 2; caches: 2 requests, time to 4..6; chain: 2 requests, 2 writers, 2 writes; 4 rows; 2 spans; paths of 2 names, 2 deep; versions 1 and 3 | Memory implements the store; Mem implements the tree and FakeMigrator the migrations; caches keep their windows; responses, pages, spans, listings are whole; what runs was confirmed |

**Why the bounds are enough.** Three callers are the least for the hard cases
of the semaphore (one holds, one parks, one overtakes) and of the breaker (a
late result, a first and a second probe); requests of 0 and of more than the
capacity are included. Three hooks under two names give the shifts of indices
and the coincidence of names on which deregister depends. Two
publishers of two events fill a buffer of two and reveal a reordering, and a
buffer of one makes the second of them block behind a stranded event.
Subscriptions meet only in a publisher's list of those it has left to serve,
so one suffices for the properties of `buses`; the hang needs a
worker that is alive while a second subscription comes late, so `eventbus_close`
has two. Two lives are a writer and its successor, two sidecars the least that
can disagree, and a queue of one with two workers lets Submit block. The
clock of the scheduler stops at `MaxTime`, long enough for a periodic job to
come due again (Interval 1) in `scheduler_direct`. In `scheduler_loop` it
suffices for one firing ahead and one overdue.

The bucket's four ticks refill it from empty to its cap (two tokens of three
fractions at two a tick) with one to spare, two callers
make a sleeper lose its tokens to another, and a rate that does not divide a
token makes sleeps truncate. Two groups on one permit make one wait for the
other. In KV one caller suffices for each gap, since Set, Delete and the
janitor are steps of their own beside it: what a second Get could do in the
gap, a removal of an expired entry, the janitor does too. Two requests make each
cache store an older reading over a newer one; `LastTick` gives the store room
to be served until its window ends. Two gzip writers serve two
requests at once or in turn, four rows with pages of one and two are walked
in several pages while two rows come or go. Paths two deep have a directory
within a directory and a file in it, and the 1 and 3 of `Versions` a gap. Requests are
interchangeable, which `AnyRequest` uses (`stores` has no liveness property).

`CHECK_DEADLOCK` is off where the system may rightly stop: every caller has
returned, or the clock has reached its bound. Only the semaphore, whose
callers can always call again, is checked for deadlock.

## 4. Fairness

Every liveness property is checked under a fair specification (`FairSpec`, or
the `Fairness` of the parts that a run puts together), whose comment says what it
assumes. What a caller may choose is not assumed: nobody has to release,
cancel, submit, flush or stop. The one exception is named below.

* A goroutine that can take its next step takes it: weak fairness of each
  goroutine's step. The Go runtime preempts and schedules every runnable
  goroutine.
* A `select` with a case that stays ready while the loop returns to it again
  and again takes it in the end (strong fairness of `LoopExits`, `SeesStop`,
  `WorkerSeesStop`, `Serve`): Go chooses among ready cases at random.
* A blocked mutex or channel operation that becomes possible again and again
  is served in the end: Go's mutexes enter starvation mode, channel queues are
  first-in first-out (Grant, GiveUp and Park of the semaphore, `Serve` of the
  bus).
* Handlers of the bus, file operations and an errgroup's functions return. Jobs of the scheduler and
  hooks of the coordinator need not: for a hook, `runHook`'s timer fires, when
  there is one (`Bounded`, true in the runs: main passes a positive timeout).
* In `Server` only Run's own goroutine, the coordinator's loop and the budget's
  timer are fair: requests, jobs and hooks may hang.
* In `LoadGen` deadlines pass, an answer comes or the context ends the wait for
  it, and a message that is under way reaches Update. The user need not press
  a key.
* Time passes in the breaker; its operations and listeners return or
  panic, and *callers keep calling* (for `OpenEnds` and `HalfOpenEnds`): the breaker
  has no timer of its own and leaves Open only in a call.

## 5. Proofs

`tlapm` proves these for all values of the constants that satisfy the named
assumptions. Where a theorem is about a part that is checked together with
others, it is stated of the specification of the run (`StoppingSpec`,
`BusesSpec`, `LimitsSpec`, `StoresSpec`), and a lemma says that a step of that
specification is one of the part's or leaves the part alone. TLC checked every
inductive invariant on the runs' instances before it was proved.

**SemaphoreProofs** assumes `CapacityAssumption`, `SizesAssumption`,
`ProcsAssumption` (a positive capacity, natural sizes, finitely many
goroutines). `Invariance` is the inductive invariant `IInv`:

* `TypeOK` and `PermitsAccounted`, that the counter is the number of permits
  held. The number is the cardinality of a set of tokens (p, 1), ..., (p, held[p]),
  so that no sum over processes, hence no recursion, is needed;
  `TakeCounts` and `GiveCounts` say how it moves.
* `MuHeldWhileParking`: between its check and `cond.Wait` a caller holds `mu`.
* `ParkingSawNoRoom`: what it saw is still so, because only the holder of `mu`
  changes `inFlight`.
* `NoLostRelease`: a sleeper whose request fits has a broadcast coming. It is
  inductive only together with the previous two: a caller goes to
  sleep in a state with no room, and only a release makes room.

Hence `TypeCorrect`, `PermitsAlwaysAccounted`, `NoReleaseLost`, and
`Refinement`: `Spec => Pool!Spec`, each step being a Take, a Give or a stutter.

**CircuitBreakerProofs** assumes `BreakerAssumption`. The checked invariants are
not inductive alone: `IInv` adds `HalfOpenByCaller` (in HalfOpen there is a
prober) and `ClosedAtMostThreshold` (a closed breaker never counts past
the threshold, late write or not). Hence `TypeCorrect`,
`ProbeAlwaysThere`, `ClosedHasFailuresToSpare`.

**SchedulerProofs** assumes `SchedulerAssumption`. `IInv` is `NoOverlap` with
`Known`: snapshots, dispatchers and goroutines refer only to entries that have
been made, and a dispatcher to one exactly while it launches it. The argument
follows the flag: a compare-and-swap that succeeds finds no holder and makes
one, Launch hands the flag from the dispatcher to the goroutine, Finish takes it from
the only holder. Hence `NeverOverlaps`. `fired` keeps who launched an entry. `OneShots`,
inductive next to `IInv`, says that a launched one-shot is due no more and that who launched it does not have
it in its snapshot any longer; a later snapshot does not take it up. Hence `FewRepeats`: no
dispatcher launches a one-shot twice. With `Callers = {}`, as in production, the loop is the only dispatcher,
and `OneShotsAreOne` is `OneShotOnce`: a one-shot is launched once. With direct callers it
is not so, see section 6.

`SleepIsShort` is `Callers = {} => (Spec => []SleepCovers)`: the loop is the only
one to dispatch, as in production. `WakeupInTime` says that nextSleep looks no
further than the first firing ahead; `SleepStep` then goes through what can happen during a
sleep: no due time moves but that of an entry just placed by a Schedule that has its wake-up
still to send. The hypothesis is needed, see section 6.

**StoppingProofs** assumes `ShutdownAssumption` (Nil is neither a hook, a caller
nor a captured value). For the coordinator, the heart of `CoInv` is `LoopPosition`: behind the loop's
index every hook is settled, at it one may run, before it none has begun.
`OneRunner` keeps other callers out, `HooksDistinct` and the lemma
`RemoveAtKeeps` carry the list through deregistrations, `EndOfLoop` says
what doneCh and a nil stand for. Hence `TypeCorrect`, `OnlyNamesakesRemove`,
`ReverseOrder`, `NilVouches` and `DoneStartedAll`, with a hook timeout and without.

`ServerEndsTruly` is `ReportsAreTrue` of `Server` and `HealthCheck`. It speaks of what the server
answers for: requests that net/http tracks, jobs, pool, cache. Of hijacked connections
it says nothing, and `sockets` may be any number when Run returns nil. `ServerInv`
follows main through the coordinator's loop: `NotYetClosing` (until Run has drained, hooks
are only registered), `Closing` (then they go from the last to the first, and a nil means that each was ok),
`HooksCloseTheirOwn` (a hook that returned ok has closed its resource, and the pool is not
touched before its hook), `LifeInOrder`, and `BudgetIsShared`: drain and hooks use the same
context, so a drain or hook that ran out of time leaves none for those after it.
`ReadyInv` says of a readiness check that what it has kept is still registered and among the
probes it copied, and that a dependency of a probe that passed was up at a time the check has seen.

**LimitsProofs** assumes `BucketAssumption` (rate, burst, fractions and the short
nap are positive), `GroupAssumption`, `ManualAssumption`, `PoliciesAssumption` (a policy's
fields are integers, of any sign; its jitter is a natural number of halves), `UnsetAssumption` (no
result is not a result) and `LatenciesAssumption` (latencies are natural numbers). What a window was granted
is bounded by burst + refill only if what is still in the bucket counts, too: the
bucket's invariant is `TypeOK` with `granted + Level <=
Cap + (now - since) * Rate`. A tick raises both sides by Rate, or the left by
less at the cap; a grant moves from Level to `granted`; a refill changes neither, because `Level`
counts it before it is made. Hence `GrantsBounded`, for a window that begins
at any time, and `Refinement`: the lazy bucket implements the eager one,
where a refill is a stutter and a tick adds Rate up to the cap. The arithmetic is nonlinear;
`OneMoreTick` and `CapIsNat` keep the products out of the other proofs.

`WaitsEndRight` is `WaitsAreRight`, an invariant for bucket, manual limiter and group. `SleepInv`: what flows
in during the rest of a bucket's sleep does not exceed what the sleeper wants, or the rest is
the short nap. `ManualInv`: a caller of the manual limiter holds `mu` from its check until it
is registered, and what it saw holds so long. `GroupInv`: a function holds a permit exactly
while it runs, and its group's error is None exactly while none of its functions has
given it an error.

`CountsComeRight` is `CountsAreRight`. For `Retry`, `GrownAsPlanned` says that after every n
the delay grown step by step and capped on the way is the one the power of the multiplier gives,
capped at the end: once at the cap, a delay stays there, since the multiplier is at
least one. Both are recursive functions. That each exists, with the values its equation
gives, is `LoopRuns`; a claim that each value hands on to the next is `Climbs`; both go by a
smallest counterexample, which stands in for the induction that the provers cannot instantiate.
`JitterBounds` adds the jitter, and `RetryInv` counts the
sleeps with the attempts and says that the one call of op that may be late is not to come any more. For
`LoadGen`, `LoadInv` says that an engine is done only when its workers have left, and that a sole
engine's last screen, under way or shown, is a snapshot taken after that; so nothing is
counted behind it. `SortingOrder` and `Ranks` show that the sorted copy of a sequence exists and that
its elements are where their ranks put them, hence `Percentiles`.

**DiskCacheProofs** assumes `WriterAssumption` and `CacheAssumption` (None is no
value, a natural number of lives). `IInv` is `WriterInv /\ DiskInv`. Of the writer:
`CallsInOrder` (which jobs a Flush or a Close has waited for, and whose errors it has, by each of its steps) and
`ErrorsInHand` (an error that is not recorded yet belongs to a job in hand). Of the
disk: `OpenInOrder` (what Open has removed and written so far), `DataSigned` (unless a Clear
stopped half-way, data goes with a full set of sidecars of its version, and before Open writes
a sidecar there is no data or the sidecars that are there agree with it) and `TempsInUse`. The invariant is over all lives: a death keeps
what `DiskInv` says of the files and takes the rest. Hence `TypeCorrect`, `CallsReport`,
`SidecarsCanBeTrusted` and `NoTempLeft`.

**BusesProofs** assumes `BusAssumption` (positive buffers, finitely many
publishers) and `RingAssumption`. For the Async bus the invariant has four ideas.
`Order`: the numbers of one publisher's events go
upwards through what a subscriber has handled, what is in its channel and what
the publisher is about to send, so a step that moves an event along keeps them in order.
`StopIsFinal`: a worker drains or goes only once its stop is closed, which
nothing undoes. `LateOnce`: a publisher that had looked at the map before that sends a
worker that has gone one event at most, so the channel maps one-to-one into
the publishers, which bounds it. `EarlyWork`: what Close waits for contains the workers
it found. Hence `TypeCorrect`, `InOrder`, `LittleIsStranded` and `CloseWaits`.

`AllReached` is `NoneLost`. For the Sync bus: what a publisher has called, followed by what it
has yet to call, is an ascending line of ids, in which every handler stands that was there when it
began and stays. That the sorted copy exists at all (`sortIDs` is the
ascending enumeration of a set) is a lemma of its own, by a smallest counterexample. For the
inspector: event numbers go upwards from those handled through the queue to the one to come
(`Numbered`), the ring is the end of what was shown (`Shown`), and while the dashboard is live
shown, dropped, queued and the events in someone's hands add up to what was published (`Accounted`).

**StoresProofs** assumes natural times to live, finitely many keys and an `Absent`
that is no entry for KV, `CachesAssumption` (natural times; Never and None are no times
and no keys), `StandInsAssumption` (no content of a file is the mark of a
directory; versions are finitely many natural numbers) and `HandedOutAssumption` (finitely many
requests and rows, rows and page sizes are numbers, and what stands for no cursor, no
writer or the child tracker is none of the others). It has four parts.

* KV. `KVInv` adds `DroppingExpired` (what a Get is about to drop has
  expired by now) and `SweepNotAhead` (a Sweep goes by a clock that is not
  ahead): both because the clock does not run backwards. `RemovalUnseen` is then
  the heart of `Refinement`: a removal of what has expired is not seen, so every
  step is one of the store's own or a stutter. `StoreAmongStores` says the same
  of the run's specification.
* The caches. `NothingIsStale` is the action property `NothingStale`, from
  `CachesInv`: how old is what a request has in hand when it stores it
  (`DocumentsRecent`, `PingsTrue`, `RowsRecent`), hence how old is what is stored,
  measured by its stamp (`KeysRecent`, `StateTrue`, `EntryRecent`). The bounds add
  up: a document is Patience old when it is stamped, the stamp TTL or Interval
  when a request finds it, and the request takes Patience to look again.
* The stand-ins. `StandInsImplement` is two refinements. `DirsAbove`, that every
  directory above an entry is an entry, makes a map of paths a tree:
  what MkdirAll finds nearest is a directory with all that is above it, and
  what Remove takes away has nothing below it. Of the migrator, `MigrateInv` is the
  prefix with its end; that `Max` and `Min` choose something is proved first, for
  finite sets of numbers by a smallest counterexample.
* What is handed out. `NothingMixes` is `NothingIsMixedUp`, from `HandedOutInv`. Of the chain:
  a writer belongs to one request and is not in the pool (`WritersApart`), what the client has
  and what the writer keeps are the request's writes and nothing else, followed by Recover's text
  after a panic (`ContentWhole`), the
  recorder has seen the client's status while the request runs (`StatusSeen`), and the counters are
  those of the requests that have ended. Of the paginator: the rows shown are in order, none
  is beyond the cursor and no row that stayed is missing before it (`InOrder`, `UpToCursor`); that a page is an ascending
  enumeration is a smallest counterexample again. Of the tracker: a stopped span
  stays so and is recorded once, with what it was stopped with, or is about to be (`AllRecorded`). Of the listings: a child is an
  entry whose parent is the directory, from `DirsAbove`. Of the screen (`ScreenInv`): a
  user who waits for each answer has at most one message or task on its way, and the one that confirms
  was sent by the screen that shows what will run.

**Only model-checked.** Liveness: fairness and ENABLED are out of the
prover's reach. These are `CancelReturns` (Semaphore), `DueJobRuns` and `CancelEndsStart` (Scheduler),
`HalfOpenEnds` and `OpenEnds` (CircuitBreaker), `ShutdownReturns` (Shutdown), `SignalEndsRun` (Server),
`PublishEnds` and `CloseEndsUnlessLate` (EventBusAsync), `QuitEnds` (Inspect), `CloseReturns` (DiskCache) and
`WaitsEnd` (ErrGroup, LoadGen). Every invariant, action property and refinement that a
passing run checks is proved. The type
invariants `TypeOK` of the modules proved about are proved
(`TypeCorrect`, or a part of an invariant); no run spends time on them.
Modules that are proved about declare no RECURSIVE operators: their recursion is in functions.

## 6. Where the code and its documentation differ

With a run each:

1. `limiter.go:106`: the watcher broadcasts without `mu`. A cancellation
   between the check of `ctx.Err` and the registration in `cond.Wait` wakes
   nobody: `Acquire` sleeps on until some release (`semaphore_cancel`).
2. `shutdown.go:82`: deregister compares a stale index, and leaves its hook
   in, or takes another of the same name (`shutdown_deregister`).
3. `eventbus.go:152`: a Subscribe that overlaps Close enters the map after it
   was emptied; its worker never stops and Close may never return
   (`eventbus_close`).

Stated in the modules as properties that the code does not have, and left
without a run:

* `OneProbe` (CircuitBreaker): a result of a call admitted while Closed decides
  for a half-open breaker, and two probes can run. `FullThreshold`: a breaker that has closed may trip
  on its first failure.
* `SidecarsVouch` (DiskCache): a missing sidecar is no mismatch, so a Clear
  that stopped half-way lets the next Open vouch for old entries.
* `StopEndsStart` (Scheduler): `Stop` before `Start` does not prevent the loop.
* `SleepCovers` (Scheduler) with a direct caller of RunDue, for which `SleepIsShort` is not
  stated: one that is overtaken between its snapshot and its Launch sets `nextDue` from the
  time it once read, which can move a firing to before the loop's timer, with no wake-up.
  The firing comes late, by `idleTimeout` at most. TLC shows it in twenty steps;
  the comment of RunDue says that only tests call it directly.
* `OneShotOnce` (Scheduler) with a direct caller: two dispatchers whose snapshots both hold a due
  one-shot launch it one after the other, since a claim looks at the running flag only. TLC shows it
  in fourteen steps. "At only: one-shot" (`scheduler.go:56`) is what the run `scheduler_loop` checks of
  the loop alone: by `scheduler.go:7-9` production calls Start, tests call RunDue.
* `NilMeansDrained` (Server): Run is to "drain in-flight requests" (`httpserver.go:3`), but
  `/ws` hijacks its connection, for which `http.Server.Shutdown` does not wait. Run
  may return nil while such a handler is at work, and the process ends under it.
* `SameError` (Shutdown): a second `Shutdown` returns nil where the doc says the same error.
* `NothingStranded` (EventBusAsync): an event can be left in a drained channel.
* `UnsubscribedStaysQuiet` (SyncBus): a handler may be called after its
  unsubscription returned, from the publisher's copy.
* `CancelNoticed` (ManualLimiter): the gap of number 1, here too.
* `RefreshedKeyServed` (JWKS): a request that just fetched its key may not find it, because
  an older answer came in before its second look.
* `UnhealthyHasReason` (PingCache): a client that goes away during the ping makes it fail, and
  the failure is cached for the others.
* `NoOkAfterShutdown` (HealthCheck): a readiness check past the flag may still answer "ok".
* `PanicIsAnError` (Chain): after a panic, the deferred Close of the gzip
  writer sends a 200 before Recover runs, and the TrafficRecorder counts no
  request that panicked. `PanicAnswersOnce`: the text of Recover's error follows what the handler
  had written, under the status that was sent with it; behind a closed gzip stream it is not even
  part of the stream.
* `ListsKinds` (MemFS): an implied child directory of ReadDir may be listed as
  the file that implies it.
* `OneRunPerScreen` (Migrate), `QuitCancelsAll` (LoadGen): a second Enter before the
  message of the first is handled starts a second run, or a second engine whose cancel takes the
  place of the first's. The other commands' screens are built the same way.

Met while reading, without a formula: `errgroup.Go` without a limiter starts
its function on a cancelled context; GetOrSet may put back a key that was deleted
while it computed; when Serve fails, Run returns without OnShutdown, so
the hooks do not run; the healthcheck registry is not wired into `main`; `vfs.go:64` says of Mem that
"Directories are auto-created when WriteFile or MkdirAll touches them", while WriteFile's own doc
(`vfs.go:123`) and its code want the parent to exist; the engine drops an answer on any deadline
(`engine.go:131`), so those that ran into the http.Client's own timeout in mid-run are missing from its counts; the inspector's screen
for a finished dashboard cannot be reached.

## 7. What is not modelled, and why

* Statistics (`Stats`, totals), formatting, logging, except where a property is
  about them (traffic, drops of the inspector, the load generator's last screen).
* Machine crashes: a death loses the process's memory and no finished file
  operation. `fsync` does not come into it. Two processes in one cache directory: the
  code has no lock for it and its doc claims nothing.
* A cleanup that fails: `os.Remove` of the temporary file of a failed atomic write succeeds in
  `DiskCache`.
* What Get of the key-value store returns: the refinement compares what is stored, not answers.
* WaitGroup's panic on reuse is, in `DiskCache`, one of the ways to die.
* Handlers and callbacks that call back into the Async bus, the breaker or the
  coordinator. (Handlers of the Sync bus may.)
* `sync.Cond` has no spurious wake-ups, so none are modelled.
* Floating point: the bucket and the backoff are exact.
* Clocks that run backwards. One that stands still is modelled.
* Token formats, signatures, HMAC and identity headers (`tokens`, `auth` but for
  JWKS): cryptography over single requests. `idgen`, `env`, `config`, `logger`,
  `jsonresp`, `version`: text. `proc`: os/exec and a scripted fake.
  `clock`, `random`: test doubles.
* `database`, `jobs/jobs.go`: generated queries, pgx, river and golang-migrate by what
  their callers rely on, in `Server` and `Migrate`.
* `httpmw`: the wrappers besides those of `buildRouter` keep nothing between
  requests, and `main` uses none of them.
* The other commands: screens in sequence, over the same text UI as
  `Migrate` and `LoadGen`. Web, scripts and deployment.

## 8. What could come next

* Retry with multipliers that are not whole, as fractions with a common denominator:
  `GrownAsPlanned` then has to take the rounding of each step into account.
* `clock.Fake` with its waiters, should code beyond tests come to depend on it.
* The text UI's `LiveView` and `AsyncTask` as a module of their own, instanced
  by `Migrate` and `LoadGen`, once another command needs them.
