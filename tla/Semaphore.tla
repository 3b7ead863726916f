----------------------------- MODULE Semaphore ------------------------------
(***************************************************************************)
(* internal/limiter: a counting semaphore made of a mutex, a condition     *)
(* variable and, for each blocked call, a watcher goroutine that           *)
(* broadcasts when the caller's context is cancelled.                      *)
(*                                                                         *)
(* A step is what runs under one hold of mu, with two exceptions the       *)
(* properties are about: the gap between AcquireN's ctx.Err check and the  *)
(* registration inside cond.Wait (mu is held, yet a broadcast needs no     *)
(* mu), and the gap between ReleaseN's unlock and its broadcast.  The      *)
(* totals behind Stats are not modelled.                                   *)
(***************************************************************************)
EXTENDS Naturals, FiniteSets

CONSTANTS Procs,    \* goroutines that call the limiter, one call at a time
          Capacity, \* NewSemaphore's argument
          Sizes,    \* the values of n that callers pass (n <= 0 acts as 0)
          NoProc    \* mu is free

ASSUME CapacityAssumption == Capacity \in Nat \ {0}
ASSUME SizesAssumption == Sizes \subseteq Nat
ASSUME ProcsAssumption == IsFiniteSet(Procs) /\ NoProc \notin Procs

VARIABLES inFlight,  \* Semaphore.inFlight
          mu,        \* who holds Semaphore.mu between two steps
          pc,        \* where each goroutine is
          need,      \* n of the AcquireN in progress
          cancelled, \* cancelled[p]: p's current context is done
          watcher,   \* the goroutine AcquireN spawned for p's last call
          held       \* history: permits p has acquired and not released

vars == <<inFlight, mu, pc, need, cancelled, watcher, held>>

PCs == {"idle",         \* between calls
        "locking",      \* in AcquireN, wants mu: first entry or woken up
        "parking",      \* holds mu, found no room and a live ctx, enters Wait
        "waiting",      \* on the condition variable's list, mu released
        "broadcasting"} \* ReleaseN has unlocked, its Broadcast is to come

\* A watcher whose call has returned ("done") still has to notice.
WatcherStates == {"none", "armed", "done"}

Pool == INSTANCE PermitPool WITH held <- held
Outstanding == Pool!Outstanding

Init == /\ inFlight = 0
        /\ mu = NoProc
        /\ pc = [p \in Procs |-> "idle"]
        /\ need = [p \in Procs |-> 0]
        /\ cancelled = [p \in Procs |-> FALSE]
        /\ watcher = [p \in Procs |-> "none"]
        /\ held = [p \in Procs |-> 0]

-----------------------------------------------------------------------------
\* Slip: the request's size is forgotten, as if every call took one permit.
FitsIgnoringN(n) == inFlight < Capacity

\* The loop condition of AcquireN, negated, and TryAcquireN's test.
Fits(n) == inFlight + n <= Capacity

\* pc once cond.Broadcast has run: every registered waiter goes back for mu.
WakeAll == [q \in Procs |-> IF pc[q] = "waiting" THEN "locking" ELSE pc[q]]

\* AcquireN returns: its deferred close(done) tells the watcher.
ReturnFrom(p) == /\ pc' = [pc EXCEPT ![p] = "idle"]
                 /\ need' = [need EXCEPT ![p] = 0]
                 /\ watcher' = [watcher EXCEPT ![p] = "done"]

-----------------------------------------------------------------------------
(* The callers' contexts.                                                  *)
Cancel(p) == /\ ~cancelled[p]
             /\ cancelled' = [cancelled EXCEPT ![p] = TRUE]
             /\ UNCHANGED <<inFlight, mu, pc, need, watcher, held>>

\* Between calls a goroutine may go on with another, live context.
FreshContext(p) == /\ pc[p] = "idle" /\ watcher[p] = "none" /\ cancelled[p]
                   /\ cancelled' = [cancelled EXCEPT ![p] = FALSE]
                   /\ UNCHANGED <<inFlight, mu, pc, need, watcher, held>>

-----------------------------------------------------------------------------
(* AcquireN.                                                               *)
\* The returns that come before any waiting: nothing to take, more than the
\* capacity, a context already cancelled.
AcquireReturnsAtOnce(p, n) ==
  /\ pc[p] = "idle"
  /\ n = 0 \/ n > Capacity \/ cancelled[p]
  /\ UNCHANGED vars

\* The ctx check passed: spawn the watcher and go for mu.  (A goroutine's
\* earlier watcher has gone by then; one that has not only broadcasts once
\* more, as the watcher of any other goroutine may.)
AcquireN(p, n) ==
  /\ pc[p] = "idle" /\ watcher[p] = "none"
  /\ n > 0 /\ n <= Capacity /\ ~cancelled[p]
  /\ pc' = [pc EXCEPT ![p] = "locking"]
  /\ need' = [need EXCEPT ![p] = n]
  /\ watcher' = [watcher EXCEPT ![p] = "armed"]
  /\ UNCHANGED <<inFlight, mu, cancelled, held>>

\* Slip: the counter moves by one whatever n is.
GrantOne(p) == /\ pc[p] = "locking" /\ mu = NoProc
               /\ Fits(need[p])
               /\ inFlight' = inFlight + 1
               /\ held' = [held EXCEPT ![p] = @ + need[p]]
               /\ ReturnFrom(p)
               /\ UNCHANGED <<mu, cancelled>>

\* With mu: there is room, take all n permits.
Grant(p) == /\ pc[p] = "locking" /\ mu = NoProc
            /\ Fits(need[p])
            /\ inFlight' = inFlight + need[p]
            /\ held' = [held EXCEPT ![p] = @ + need[p]]
            /\ ReturnFrom(p)
            /\ UNCHANGED <<mu, cancelled>>

\* With mu: no room and the context is cancelled, return its error.
GiveUp(p) == /\ pc[p] = "locking" /\ mu = NoProc
             /\ ~Fits(need[p]) /\ cancelled[p]
             /\ ReturnFrom(p)
             /\ UNCHANGED <<inFlight, mu, cancelled, held>>

\* With mu: no room and the context is live, so call Wait, mu still held.
Park(p) == /\ pc[p] = "locking" /\ mu = NoProc
           /\ ~Fits(need[p]) /\ ~cancelled[p]
           /\ mu' = p
           /\ pc' = [pc EXCEPT ![p] = "parking"]
           /\ UNCHANGED <<inFlight, need, cancelled, watcher, held>>

\* cond.Wait registers the caller and only then unlocks mu.
Wait(p) == /\ pc[p] = "parking"
           /\ mu' = NoProc
           /\ pc' = [pc EXCEPT ![p] = "waiting"]
           /\ UNCHANGED <<inFlight, need, cancelled, watcher, held>>

\* Slip: cond.Signal for cond.Broadcast; it may wake another caller.
WatcherSignal(p) ==
  /\ watcher[p] # "none" /\ cancelled[p]
  /\ \/ \E q \in Procs : pc[q] = "waiting" /\ pc' = [pc EXCEPT ![q] = "locking"]
     \/ (\A q \in Procs : pc[q] # "waiting") /\ pc' = pc
  /\ watcher' = [watcher EXCEPT ![p] = "none"]
  /\ UNCHANGED <<inFlight, mu, need, cancelled, held>>

\* The watcher's select takes ctx.Done: broadcast, without mu.  With both
\* channels ready select may take this branch too.
WatcherBroadcast(p) ==
  /\ watcher[p] # "none" /\ cancelled[p]
  /\ pc' = WakeAll
  /\ watcher' = [watcher EXCEPT ![p] = "none"]
  /\ UNCHANGED <<inFlight, mu, need, cancelled, held>>

\* The watcher's select takes done.
WatcherExit(p) == /\ watcher[p] = "done"
                  /\ watcher' = [watcher EXCEPT ![p] = "none"]
                  /\ UNCHANGED <<inFlight, mu, pc, need, cancelled, held>>

-----------------------------------------------------------------------------
\* TryAcquireN: the whole call under mu.
TryAcquireN(p, n) ==
  /\ pc[p] = "idle" /\ mu = NoProc
  /\ \/ /\ n > 0 /\ Fits(n)
        /\ inFlight' = inFlight + n
        /\ held' = [held EXCEPT ![p] = @ + n]
     \/ /\ n = 0 \/ ~Fits(n)
        /\ UNCHANGED <<inFlight, held>>
  /\ UNCHANGED <<mu, pc, need, cancelled, watcher>>

\* ReleaseN of permits the caller holds.
ReleaseN(p, n) ==
  /\ pc[p] = "idle" /\ mu = NoProc
  /\ n > 0 /\ n <= held[p]
  /\ inFlight' = inFlight - n
  /\ held' = [held EXCEPT ![p] = @ - n]
  /\ pc' = [pc EXCEPT ![p] = "broadcasting"]
  /\ UNCHANGED <<mu, need, cancelled, watcher>>

\* ReleaseN of nothing, or of more than is out: it panics after unlocking,
\* so a caller that recovers leaves the semaphore as it was.
ReleaseRefused(p, n) == /\ pc[p] = "idle" /\ mu = NoProc
                        /\ n = 0 \/ inFlight < n
                        /\ UNCHANGED vars

\* Slip: cond.Signal for cond.Broadcast, one waiter at most is woken.
ReleaseSignal(p) ==
  /\ pc[p] = "broadcasting"
  /\ \/ \E q \in Procs : /\ pc[q] = "waiting"
                        /\ pc' = [pc EXCEPT ![p] = "idle", ![q] = "locking"]
     \/ (\A q \in Procs : pc[q] # "waiting") /\ pc' = [pc EXCEPT ![p] = "idle"]
  /\ UNCHANGED <<inFlight, mu, need, cancelled, watcher, held>>

\* The Broadcast that ends ReleaseN, after mu is unlocked.
ReleaseBroadcast(p) == /\ pc[p] = "broadcasting"
                       /\ pc' = [WakeAll EXCEPT ![p] = "idle"]
                       /\ UNCHANGED <<inFlight, mu, need, cancelled, watcher, held>>

-----------------------------------------------------------------------------
\* What a goroutine does on its own once it is inside a call.
Internal(p) == \/ Grant(p) \/ GiveUp(p) \/ Park(p) \/ Wait(p) \/ ReleaseBroadcast(p)
               \/ WatcherBroadcast(p) \/ WatcherExit(p)

\* What the caller decides.
Call(p) == \/ Cancel(p) \/ FreshContext(p)
           \/ \E n \in Sizes : \/ AcquireReturnsAtOnce(p, n) \/ AcquireN(p, n)
                               \/ TryAcquireN(p, n)
                               \/ ReleaseN(p, n) \/ ReleaseRefused(p, n)

Next == \E p \in Procs : Internal(p) \/ Call(p)

Spec == Init /\ [][Next]_vars

\* A runnable goroutine runs; sync.Mutex hands mu to a goroutine that has
\* waited long enough (starvation mode), hence strong fairness for the steps
\* that need it.  Nobody has to call, cancel or release.
Fairness == \A p \in Procs : /\ SF_vars(Grant(p) \/ GiveUp(p) \/ Park(p))
                             /\ WF_vars(Wait(p))
                             /\ WF_vars(ReleaseBroadcast(p))
                             /\ WF_vars(WatcherBroadcast(p))
                             /\ WF_vars(WatcherExit(p))

FairSpec == Spec /\ Fairness

-----------------------------------------------------------------------------
\* Every variable keeps the type its declaration gives it.
TypeOK == /\ inFlight \in 0..Capacity
          /\ mu \in Procs \cup {NoProc}
          /\ pc \in [Procs -> PCs]
          /\ need \in [Procs -> (Sizes \cap 0..Capacity) \cup {0}]
          /\ cancelled \in [Procs -> BOOLEAN]
          /\ watcher \in [Procs -> WatcherStates]
          /\ held \in [Procs -> 0..Capacity]

\* The counter equals the permits that callers hold, whatever interleaving of
\* grants, failed tries, cancellations and releases led here.
PermitsAccounted == inFlight = Cardinality(Outstanding)

\* No wakeup of ReleaseN is lost: a caller on the wait list whose request
\* would now fit has a Broadcast coming to it.
NoLostRelease == \A p \in Procs :
  pc[p] = "waiting" /\ Fits(need[p]) => \E q \in Procs : pc[q] = "broadcasting"

\* A caller for whom there is room does not sleep on: it is woken.
RoomIsNoticed == \A p \in Procs :
  (pc[p] = "waiting" /\ Fits(need[p])) ~> pc[p] # "waiting"

\* Cancellation gets a caller out of AcquireN when it meets it on the way to
\* mu, or on the wait list with the watcher still to broadcast.
CancelReturns == \A p \in Procs :
  (/\ cancelled[p]
   /\ pc[p] = "locking" \/ (pc[p] = "waiting" /\ watcher[p] = "armed"))
     ~> pc[p] = "idle"

\* "Acquire blocks until a permit is available or ctx cancels": a call whose
\* context is cancelled returns.
CancelAlwaysReturns == \A p \in Procs :
  (cancelled[p] /\ pc[p] # "idle") ~> pc[p] = "idle"

\* The semaphore implements the pool of permits.
ImplementsPool == Pool!Spec
=============================================================================
