----------------------------- MODULE Scheduler ------------------------------
(***************************************************************************)
(* internal/scheduler: named periodic and one-shot jobs, a loop (Start)    *)
(* that launches what is due, callers that run RunDue themselves, an       *)
(* optional limiter around the job functions, and Stop.                    *)
(*                                                                         *)
(* Time is discrete and starts at 1, so that 0 is Go's zero time: "no      *)
(* next firing".  Every Schedule makes a new entry; entries that were      *)
(* replaced or removed live on in the snapshots and goroutines that hold   *)
(* them.  A local that its goroutine no longer reads is back at its first  *)
(* value.  The limiter is used through what PermitPool promises.           *)
(***************************************************************************)
EXTENDS Naturals, FiniteSets, Sequences

CONSTANTS Names,      \* job names
          Entries,    \* identities for the entries Schedule makes
          Loop,       \* the goroutine inside Start
          Callers,    \* goroutines that call RunDue directly
          Interval,   \* the period of the periodic jobs
          Limit,      \* WithConcurrencyLimit
          Idle,       \* idleTimeout
          MaxTime,    \* bound: the clock stops here
          Workers,    \* bound: the goroutines that can run jobs at one time
          Nil

Dispatchers == {Loop} \cup Callers

\* A goroutine is acquiring a permit, inside the job function, or past its
\* Release with the running flag still set.
Phases == {"acquiring", "inside", "leaving"}

EntryRecords == [name : Names, periodic : BOOLEAN, nextDue : Nat, running : BOOLEAN]
WorkRecords == [entry : Entries, by : Dispatchers, phase : Phases]
ScheduleRecords == [name : Names, periodic : BOOLEAN, first : Nat, placed : BOOLEAN]

ASSUME SchedulerAssumption ==
  /\ Interval \in Nat \ {0} /\ Limit \in Nat \ {0} /\ Idle \in Nat \ {0}
  /\ MaxTime \in Nat \ {0}
  /\ Loop \notin Callers /\ Workers \cap Dispatchers = {}
  /\ Nil \notin Entries \cup EntryRecords \cup WorkRecords \cup ScheduleRecords

VARIABLES clk,        \* clock.Clock
          jobs,       \* Scheduler.jobs: name -> entry
          entry,      \* what each entry made so far holds
          wake,       \* the wake channel's one slot
          stopped,    \* Scheduler.stopped
          runCtx,     \* Start's derived context; "none" before Start
          pc, due, at, cur, \* per dispatcher: place in RunDue, its snapshot, its now, its entry
          sleepUntil, \* when the loop's timer fires
          work,       \* the goroutines that RunDue spawned
          pending,    \* the Schedule call in progress
          stopPc,     \* the Stop call
          fired       \* history: who launched each one-shot entry, in order

schedVars == <<jobs, entry, wake>>
dispVars == <<pc, due, at, cur, sleepUntil>>
vars == <<clk, schedVars, stopped, runCtx, dispVars, work, pending, stopPc, fired>>

Made == {e \in Entries : entry[e] # Nil}

Init == /\ clk = 1
        /\ jobs = [n \in Names |-> Nil]
        /\ entry = [e \in Entries |-> Nil]
        /\ wake = FALSE
        /\ stopped = FALSE
        /\ runCtx = "none"
        /\ pc = [d \in Dispatchers |-> "off"]
        /\ due = [d \in Dispatchers |-> {}]
        /\ at = [d \in Dispatchers |-> 0]
        /\ cur = [d \in Dispatchers |-> Nil]
        /\ sleepUntil = 0
        /\ work = [w \in Workers |-> Nil]
        /\ pending = Nil
        /\ stopPc = "idle"
        /\ fired = [e \in Entries |-> <<>>]

-----------------------------------------------------------------------------
Tick == /\ clk < MaxTime
        /\ clk' = clk + 1
        /\ UNCHANGED <<schedVars, stopped, runCtx, dispVars, work, pending, stopPc, fired>>

\* signalWake: a non-blocking send on a channel of one slot.
SignalWake == wake' = TRUE

(* Schedule: the stopped check, the insertion under mu, the wake.          *)
\* The job is valid; first is At, or an interval from now for a periodic job
\* without At.  (Bound: an At lies no further ahead.)
ScheduleChecks(n, periodic, first) ==
  /\ pending = Nil /\ ~stopped
  /\ first \in clk..(clk + Interval)
  /\ pending' = [name |-> n, periodic |-> periodic, first |-> first, placed |-> FALSE]
  /\ UNCHANGED <<clk, schedVars, stopped, runCtx, dispVars, work, stopPc, fired>>

Fresh == CHOOSE e \in Entries : entry[e] = Nil

\* A fresh entry, with a fresh running flag, takes the name over.
ScheduleInserts ==
  /\ pending # Nil /\ ~pending.placed
  /\ Made # Entries
  /\ entry' = [entry EXCEPT ![Fresh] = [name |-> pending.name, periodic |-> pending.periodic,
                                        nextDue |-> pending.first, running |-> FALSE]]
  /\ jobs' = [jobs EXCEPT ![pending.name] = Fresh]
  /\ pending' = [pending EXCEPT !.placed = TRUE]
  /\ UNCHANGED <<clk, wake, stopped, runCtx, dispVars, work, stopPc, fired>>

ScheduleWakes == /\ pending # Nil /\ pending.placed
                 /\ SignalWake
                 /\ pending' = Nil
                 /\ UNCHANGED <<clk, jobs, entry, stopped, runCtx, dispVars, work, stopPc, fired>>

\* Unschedule: only the map forgets the entry.  Its wake can only shorten the
\* loop's sleep, so it is taken in the same step.
Unschedule(n) ==
  /\ jobs[n] # Nil
  /\ jobs' = [jobs EXCEPT ![n] = Nil]
  /\ SignalWake
  /\ UNCHANGED <<clk, entry, stopped, runCtx, dispVars, work, pending, stopPc, fired>>

-----------------------------------------------------------------------------
(* RunDue, by dispatcher d.                                                *)
Scheduled == {jobs[n] : n \in Names} \ {Nil}

IsDueAt(e, now) == entry[e].nextDue # 0 /\ entry[e].nextDue <= now

IsDue(e) == IsDueAt(e, clk)

\* RunDue is entered: it reads the clock, before mu.
EnterRunDue(d) == /\ at' = [at EXCEPT ![d] = clk]
                  /\ pc' = [pc EXCEPT ![d] = "snapshot"]

\* Under mu: what is due and not in flight.
Snapshot(d) ==
  /\ pc[d] = "snapshot"
  /\ due' = [due EXCEPT ![d] = {e \in Scheduled : IsDueAt(e, at[d]) /\ ~entry[e].running}]
  /\ pc' = [pc EXCEPT ![d] = "launching"]
  /\ UNCHANGED <<clk, schedVars, stopped, runCtx, at, cur, sleepUntil, work, pending, stopPc,
                 fired>>

\* Slip: running.Store(true) for the compare-and-swap.
ClaimAlways(d, e) ==
  /\ pc[d] = "launching" /\ e \in due[d]
  /\ due' = [due EXCEPT ![d] = @ \ {e}]
  /\ entry' = [entry EXCEPT ![e].running = TRUE]
  /\ cur' = [cur EXCEPT ![d] = e]
  /\ pc' = [pc EXCEPT ![d] = "advancing"]
  /\ UNCHANGED <<clk, jobs, wake, stopped, runCtx, at, sleepUntil, work, pending, stopPc, fired>>

\* The next entry of the snapshot (a map's order is arbitrary): skip it if its
\* flag is set by now, else set the flag.  Nothing else is looked at again.
Claim(d, e) ==
  /\ pc[d] = "launching" /\ e \in due[d]
  /\ due' = [due EXCEPT ![d] = @ \ {e}]
  /\ \/ /\ entry[e].running
        /\ UNCHANGED <<entry, cur, pc>>
     \/ /\ ~entry[e].running
        /\ entry' = [entry EXCEPT ![e].running = TRUE]
        /\ cur' = [cur EXCEPT ![d] = e]
        /\ pc' = [pc EXCEPT ![d] = "advancing"]
  /\ UNCHANGED <<clk, jobs, wake, stopped, runCtx, at, sleepUntil, work, pending, stopPc, fired>>

\* Slip: a one-shot keeps its due time.
NextFiringKept(e, start) == IF entry[e].periodic THEN start + Interval ELSE entry[e].nextDue

\* advanceNext's computation.
NextFiring(e, start) == IF entry[e].periodic THEN start + Interval ELSE 0

\* advanceNext, under mu; then wg.Add(1) and go s.run(ctx, e).  (Only Stop's
\* wait could tell the two apart, and it can run before both.)
Launch(d) ==
  /\ pc[d] = "advancing"
  /\ \E w \in Workers : work[w] = Nil
  /\ entry' = [entry EXCEPT ![cur[d]].nextDue = NextFiring(cur[d], at[d])]
  /\ work' = [work EXCEPT ![CHOOSE w \in Workers : work[w] = Nil] =
                 [entry |-> cur[d], by |-> d, phase |-> "acquiring"]]
  /\ fired' = IF entry[cur[d]].periodic THEN fired ELSE [fired EXCEPT ![cur[d]] = Append(@, d)]
  /\ cur' = [cur EXCEPT ![d] = Nil]
  /\ pc' = [pc EXCEPT ![d] = "launching"]
  /\ UNCHANGED <<clk, jobs, wake, stopped, runCtx, due, at, sleepUntil, pending, stopPc>>

\* A direct call of RunDue begins and returns.
CallRunDue(d) ==
  /\ d \in Callers /\ pc[d] = "off"
  /\ EnterRunDue(d)
  /\ UNCHANGED <<clk, schedVars, stopped, runCtx, due, cur, sleepUntil, work, pending,
                 stopPc, fired>>

ReturnRunDue(d) ==
  /\ d \in Callers /\ pc[d] = "launching" /\ due[d] = {}
  /\ pc' = [pc EXCEPT ![d] = "off"]
  /\ at' = [at EXCEPT ![d] = 0]
  /\ UNCHANGED <<clk, schedVars, stopped, runCtx, due, cur, sleepUntil, work, pending,
                 stopPc, fired>>

-----------------------------------------------------------------------------
(* run: one goroutine per launch.                                          *)
In(phase) == {w \in Workers : work[w] # Nil /\ work[w].phase = phase}

\* The context RunDue was given is cancelled; direct callers pass a live one.
CtxDone(w) == work[w].by = Loop /\ runCtx = "done"

MoveTo(w, phase) == work' = [work EXCEPT ![w].phase = phase]

\* lim.Acquire returns a permit.
AcquirePermit(w) ==
  /\ w \in In("acquiring") /\ Cardinality(In("inside")) < Limit
  /\ MoveTo(w, "inside")
  /\ UNCHANGED <<clk, schedVars, stopped, runCtx, dispVars, pending, stopPc, fired>>

\* lim.Acquire returns the context's error: report it and return.
AcquireFails(w) ==
  /\ w \in In("acquiring") /\ CtxDone(w)
  /\ MoveTo(w, "leaving")
  /\ UNCHANGED <<clk, schedVars, stopped, runCtx, dispVars, pending, stopPc, fired>>

\* The job function returns, fails or panics (safeRun recovers, the error is
\* reported); the deferred Release runs.
JobReturns(w) ==
  /\ w \in In("inside")
  /\ MoveTo(w, "leaving")
  /\ UNCHANGED <<clk, schedVars, stopped, runCtx, dispVars, pending, stopPc, fired>>

\* The deferred running.Store(false), and right after it wg.Done.
Finish(w) ==
  /\ w \in In("leaving")
  /\ entry' = [entry EXCEPT ![work[w].entry].running = FALSE]
  /\ work' = [work EXCEPT ![w] = Nil]
  /\ UNCHANGED <<clk, jobs, wake, stopped, runCtx, dispVars, pending, stopPc, fired>>

-----------------------------------------------------------------------------
(* Start.                                                                  *)
\* The first call of Start (startOnce; any other returns at once).
Start == /\ pc[Loop] = "off" /\ runCtx = "none"
         /\ runCtx' = "live"
         /\ EnterRunDue(Loop)
         /\ UNCHANGED <<clk, schedVars, stopped, due, cur, sleepUntil, work, pending,
                        stopPc, fired>>

\* The context given to Start is cancelled.
CancelParent == /\ runCtx = "live"
                /\ runCtx' = "done"
                /\ UNCHANGED <<clk, schedVars, stopped, dispVars, work, pending, stopPc, fired>>

\* NextDue: the firings ahead, running entries included.
NextDues == {entry[e].nextDue : e \in Scheduled} \ {0}

Earliest(S) == CHOOSE t \in S : \A u \in S : t <= u

\* Slip: the idle timeout whatever is ahead.
WakeupLate == clk + Idle

\* nextSleep: until the earliest firing, at most Idle, next to nothing when
\* that firing is overdue.
Wakeup == IF NextDues = {} THEN clk + Idle
          ELSE Earliest({clk + Idle, IF Earliest(NextDues) < clk THEN clk
                                     ELSE Earliest(NextDues)})

\* RunDue has returned; compute the sleep and enter the select.
LoopSleeps == /\ pc[Loop] = "launching" /\ due[Loop] = {}
              /\ sleepUntil' = Wakeup
              /\ at' = [at EXCEPT ![Loop] = 0]
              /\ pc' = [pc EXCEPT ![Loop] = "sleeping"]
              /\ UNCHANGED <<clk, schedVars, stopped, runCtx, due, cur, work, pending,
                             stopPc, fired>>

\* Slip: the timer's case is missing.
LoopWakesOnSignal ==
  /\ pc[Loop] = "sleeping"
  /\ wake /\ wake' = FALSE
  /\ sleepUntil' = 0
  /\ EnterRunDue(Loop)
  /\ UNCHANGED <<clk, jobs, entry, stopped, runCtx, due, cur, work, pending, stopPc, fired>>

\* select: the wake channel, or the timer.
LoopWakes == /\ pc[Loop] = "sleeping"
             /\ \/ wake /\ wake' = FALSE
                \/ clk >= sleepUntil /\ UNCHANGED wake
             /\ sleepUntil' = 0
             /\ EnterRunDue(Loop)
             /\ UNCHANGED <<clk, jobs, entry, stopped, runCtx, due, cur, work, pending,
                            stopPc, fired>>

\* Slip: the loop looks at the stopped flag instead of its context.
LoopExitsIfStopped ==
  /\ pc[Loop] = "sleeping" /\ stopped
  /\ pc' = [pc EXCEPT ![Loop] = "exited"]
  /\ UNCHANGED <<clk, schedVars, stopped, runCtx, due, at, cur, sleepUntil, work, pending,
                 stopPc, fired>>

\* select: ctx.Done.  When several cases are ready Go picks any.
LoopExits == /\ pc[Loop] = "sleeping" /\ runCtx = "done"
             /\ pc' = [pc EXCEPT ![Loop] = "exited"]
             /\ UNCHANGED <<clk, schedVars, stopped, runCtx, due, at, cur, sleepUntil, work,
                            pending, stopPc, fired>>

-----------------------------------------------------------------------------
(* Stop.  Repeated calls only wait again.                                  *)
StopStores == /\ stopPc = "idle"
              /\ stopped' = TRUE
              /\ stopPc' = "cancelling"
              /\ UNCHANGED <<clk, schedVars, runCtx, dispVars, work, pending, fired>>

\* Read s.cancel under mu; nil when Start has not run.
StopCancels == /\ stopPc = "cancelling"
               /\ runCtx' = IF runCtx = "none" THEN "none" ELSE "done"
               /\ stopPc' = "waiting"
               /\ UNCHANGED <<clk, schedVars, stopped, dispVars, work, pending, fired>>

\* WaitInflight: the WaitGroup is at zero, or Stop's own context expires.
StopReturns == /\ stopPc = "waiting"
               /\ \/ (\A w \in Workers : work[w] = Nil) /\ stopPc' = "returned"
                  \/ stopPc' = "timedOut"
               /\ UNCHANGED <<clk, schedVars, stopped, runCtx, dispVars, work, pending, fired>>

-----------------------------------------------------------------------------
Client == \/ \E n \in Names, p \in BOOLEAN, t \in 1..(MaxTime + Interval) :
                ScheduleChecks(n, p, t)
          \/ ScheduleInserts \/ ScheduleWakes
          \/ \E n \in Names : Unschedule(n)
          \/ Start \/ CancelParent
          \/ StopStores \/ StopCancels \/ StopReturns

Dispatch(d) == \/ Snapshot(d) \/ (\E e \in Entries : Claim(d, e)) \/ Launch(d)

Worker(w) == \/ AcquirePermit(w) \/ AcquireFails(w) \/ JobReturns(w)
             \/ Finish(w)

Next == \/ Tick \/ Client
        \/ \E d \in Dispatchers : Dispatch(d) \/ CallRunDue(d) \/ ReturnRunDue(d)
        \/ LoopSleeps \/ LoopWakes \/ LoopExits
        \/ \E w \in Workers : Worker(w)

Spec == Init /\ [][Next]_vars

\* Goroutines that can run do; a Schedule and a Stop that have begun go on; a
\* select that is entered again and again with ctx.Done ready takes it in the
\* end.  No job has to return and nothing has to be called.
Fairness == /\ \A d \in Dispatchers : WF_vars(Dispatch(d))
            /\ WF_vars(LoopSleeps) /\ WF_vars(LoopWakes) /\ SF_vars(LoopExits)
            /\ WF_vars(ScheduleWakes) /\ WF_vars(StopCancels)
            /\ \A w \in Workers : WF_vars(Finish(w))

FairSpec == Spec /\ Fairness

-----------------------------------------------------------------------------
Times == 0..(MaxTime + Interval)

\* Every variable keeps the type its declaration gives it.
TypeOK ==
  /\ clk \in 1..MaxTime
  /\ jobs \in [Names -> Entries \cup {Nil}]
  /\ entry \in [Entries -> EntryRecords \cup {Nil}]
  /\ \A e \in Made : entry[e].nextDue \in Times
  /\ wake \in BOOLEAN /\ stopped \in BOOLEAN
  /\ runCtx \in {"none", "live", "done"}
  /\ pc \in [Dispatchers -> {"off", "snapshot", "launching", "advancing", "sleeping",
                             "exited"}]
  /\ due \in [Dispatchers -> SUBSET Entries]
  /\ at \in [Dispatchers -> 0..MaxTime]
  /\ cur \in [Dispatchers -> Entries \cup {Nil}]
  /\ sleepUntil \in 0..(MaxTime + Idle)
  /\ work \in [Workers -> WorkRecords \cup {Nil}]
  /\ pending \in [name : Names, periodic : BOOLEAN, first : Times, placed : BOOLEAN] \cup {Nil}
  /\ stopPc \in {"idle", "cancelling", "waiting", "returned", "timedOut"}
  /\ fired \in [Entries -> Seq(Dispatchers)]

\* Who holds entry e's running flag: goroutines of e that have not cleared it,
\* and dispatchers between the compare-and-swap and the go statement.
Holders(e) == {w \in Workers : work[w] # Nil /\ work[w].entry = e}
              \cup {d \in Dispatchers : cur[d] = e}

\* The non-overlap guard: an entry has one invocation at most, whoever
\* launches it, and its flag says exactly whether it has one.
NoOverlap == \A e \in Made : /\ \A x, y \in Holders(e) : x = y
                             /\ entry[e].running <=> Holders(e) # {}

\* While the loop sleeps, its timer or a wake (in the channel, or about to be
\* sent by the Schedule that made the change) covers every firing ahead.
SleepCovers == pc[Loop] = "sleeping" =>
  \/ wake \/ (pending # Nil /\ pending.placed)
  \/ \A e \in Scheduled : entry[e].nextDue # 0 =>
        sleepUntil <= entry[e].nextDue \/ sleepUntil <= clk

\* "At only: one-shot at the specified time" (scheduler.go:56).  True of the
\* loop alone, as production runs it (scheduler.go:7-9).  False of the code
\* with another goroutine in RunDue, whose snapshot may be older than the
\* first launch and whose claim looks at the running flag only.
OneShotOnce == \A e \in Entries : Len(fired[e]) <= 1

\* Whoever calls RunDue, each of them launches a one-shot at most once.
OneShotPerDispatcher == \A e \in Entries : \A i, j \in DOMAIN fired[e] :
                          fired[e][i] = fired[e][j] => i = j

\* With Start running, a job that is due is launched, unless it is replaced or
\* removed or the loop is cancelled first.
DueJobRuns == \A e \in Entries :
  (pc[Loop] \notin {"off", "exited"} /\ e \in Scheduled /\ IsDue(e))
    ~> (e \notin Scheduled \/ entry[e].running \/ runCtx = "done")

\* A cancelled loop leaves Start.
CancelEndsStart == (runCtx = "done") ~> (pc[Loop] = "exited")

\* "Stop signals Start to exit ... Safe to call before or after Start": once
\* Stop has returned, no loop goes on.
StopEndsStart == (stopPc = "returned") ~> (pc[Loop] \in {"off", "exited"})
=============================================================================
