-------------------------- MODULE SchedulerProofs ---------------------------
(***************************************************************************)
(* The non-overlap guard of internal/scheduler, and how often a one-shot   *)
(* job can run, for every set of names, entries, direct callers of RunDue  *)
(* and goroutines; and what the loop's sleep covers when it launches alone. *)
(***************************************************************************)
EXTENDS Scheduler, WellFoundedInduction, TLAPS

Places == {"off", "snapshot", "launching", "advancing", "sleeping", "exited"}

\* The types that the argument needs.
Shapes == /\ clk \in Nat
          /\ jobs \in [Names -> Entries \cup {Nil}]
          /\ entry \in [Entries -> EntryRecords \cup {Nil}]
          /\ pc \in [Dispatchers -> Places]
          /\ due \in [Dispatchers -> SUBSET Entries]
          /\ at \in [Dispatchers -> Nat]
          /\ cur \in [Dispatchers -> Entries \cup {Nil}]
          /\ work \in [Workers -> WorkRecords \cup {Nil}]
          /\ pending \in ScheduleRecords \cup {Nil}

\* Whatever the map, a snapshot, a dispatcher or a goroutine refers to has been
\* made, and a dispatcher refers to an entry exactly while it launches it.
Known == /\ Scheduled \subseteq Made
         /\ \A d \in Dispatchers : /\ due[d] \subseteq Made
                                   /\ cur[d] \in Made \cup {Nil}
                                   /\ cur[d] # Nil <=> pc[d] = "advancing"
         /\ \A w \in Workers : work[w] # Nil => work[w].entry \in Made

\* The inductive invariant.
IInv == Shapes /\ Known /\ NoOverlap

-----------------------------------------------------------------------------
\* A new scheduler has no entries and no goroutines.
LEMMA InitIInv == Init => IInv
<1> SUFFICES ASSUME Init PROVE IInv
  OBVIOUS
<1> USE DEF Init
<1>1. Shapes
  BY DEF Shapes, Places
<1>2. Made = {} /\ Scheduled = {}
  BY DEF Made, Scheduled
<1>3. Known
  BY <1>2 DEF Known
<1>4. NoOverlap
  BY <1>2 DEF NoOverlap
<1> QED
  BY <1>1, <1>3, <1>4 DEF IInv

\* Steps that leave the entries and those who hold them alone.
LEMMA HoldersKept ==
  ASSUME IInv, UNCHANGED <<entry, cur>>,
         \A w \in Workers : /\ work'[w] = Nil <=> work[w] = Nil
                            /\ work[w] # Nil => work'[w].entry = work[w].entry
  PROVE  NoOverlap' /\ Made' = Made
<1>1. Made' = Made
  BY DEF Made
<1>2. \A e \in Entries : Holders(e)' = Holders(e)
  BY DEF Holders
<1> QED
  BY <1>1, <1>2 DEF IInv, NoOverlap, Made

\* A Schedule in progress, an Unschedule, the clock and Stop.
LEMMA ClientStep ==
  ASSUME IInv, \/ \E n \in Names, p \in BOOLEAN, t \in 1..(MaxTime + Interval) :
                    ScheduleChecks(n, p, t)
               \/ ScheduleWakes
               \/ \E n \in Names : Unschedule(n)
               \/ Tick \/ CancelParent \/ StopStores \/ StopCancels \/ StopReturns
  PROVE  IInv'
<1>1. UNCHANGED <<entry, dispVars, work>>
  BY DEF ScheduleChecks, ScheduleWakes, Unschedule, Tick, CancelParent, StopStores, StopCancels,
         StopReturns, schedVars
<1>2. NoOverlap' /\ Made' = Made
  BY <1>1, HoldersKept DEF dispVars
<1>3. Shapes'
  <2>1. clk' \in Nat
    BY DEF IInv, Shapes, ScheduleChecks, ScheduleWakes, Unschedule, Tick, CancelParent, StopStores,
           StopCancels, StopReturns
  <2>2. jobs' \in [Names -> Entries \cup {Nil}]
    BY DEF IInv, Shapes, ScheduleChecks, ScheduleWakes, Unschedule, Tick, CancelParent, StopStores,
           StopCancels, StopReturns, schedVars
  <2>3. pending' \in ScheduleRecords \cup {Nil}
    <3>1. ASSUME NEW n \in Names, NEW p \in BOOLEAN, NEW t \in 1..(MaxTime + Interval),
                 ScheduleChecks(n, p, t)
          PROVE  pending' \in ScheduleRecords
      BY <3>1 DEF ScheduleChecks, ScheduleRecords
    <3>2. CASE pending' = pending \/ pending' = Nil
      BY <3>2 DEF IInv, Shapes
    <3> QED
      BY <3>1, <3>2 DEF ScheduleWakes, Unschedule, Tick, CancelParent, StopStores, StopCancels,
                        StopReturns
  <2> QED
    BY <1>1, <2>1, <2>2, <2>3 DEF IInv, Shapes, dispVars
<1>4. \A n \in Names : jobs'[n] \in {jobs[n], Nil}
  BY DEF IInv, Shapes, ScheduleChecks, ScheduleWakes, Unschedule, Tick, CancelParent, StopStores,
         StopCancels, StopReturns, schedVars
<1>5. Known'
  BY <1>1, <1>2, <1>4 DEF IInv, Known, Scheduled, dispVars
<1> QED
  BY <1>2, <1>3, <1>5 DEF IInv

\* A fresh entry has no holder, and its flag is clear.
LEMMA InsertStep ==
  ASSUME IInv, ScheduleInserts
  PROVE  IInv'
<1> USE DEF ScheduleInserts
<1>1. Fresh \in Entries /\ entry[Fresh] = Nil
  BY DEF Made, Fresh
<1>2. PICK r \in EntryRecords : entry' = [entry EXCEPT ![Fresh] = r] /\ ~r.running
  <2> DEFINE r == [name |-> pending.name, periodic |-> pending.periodic,
                   nextDue |-> pending.first, running |-> FALSE]
  <2>1. pending \in ScheduleRecords
    BY DEF IInv, Shapes
  <2>2. r \in EntryRecords /\ ~r.running
    BY <2>1 DEF EntryRecords, ScheduleRecords
  <2> QED
    BY <2>2
<1> HIDE DEF ScheduleInserts
<1>3. /\ pending # Nil /\ pending.name \in Names
      /\ jobs' = [jobs EXCEPT ![pending.name] = Fresh]
      /\ UNCHANGED <<clk, pc, due, at, cur, work>>
  BY DEF IInv, Shapes, ScheduleInserts, dispVars, ScheduleRecords
<1>4. pending' \in ScheduleRecords
  BY DEF IInv, Shapes, ScheduleInserts, ScheduleRecords
<1>5. Shapes'
  BY <1>1, <1>2, <1>3, <1>4 DEF IInv, Shapes
<1>6. Made' = Made \cup {Fresh} /\ Fresh \notin Made
  BY <1>1, <1>2, SchedulerAssumption DEF IInv, Shapes, Made
<1>7. Known'
  BY <1>1, <1>3, <1>6 DEF IInv, Shapes, Known, Scheduled
<1>8. \A e \in Entries : Holders(e)' = Holders(e)
  BY <1>3 DEF Holders
<1>9. Holders(Fresh) = {}
  BY <1>1, <1>6, SchedulerAssumption DEF IInv, Known, Holders
<1>10. NoOverlap'
  <2>1. ASSUME NEW e \in Made PROVE entry'[e] = entry[e] /\ e \in Entries
    BY <1>2, <1>6, <2>1 DEF IInv, Shapes, Made
  <2>2. entry'[Fresh].running = FALSE
    BY <1>1, <1>2 DEF IInv, Shapes, EntryRecords
  <2> QED
    BY <1>1, <1>6, <1>8, <1>9, <2>1, <2>2 DEF IInv, NoOverlap
<1> QED
  BY <1>5, <1>7, <1>10 DEF IInv

\* A dispatcher on its way through RunDue, between launches.
LEMMA WalkStep ==
  ASSUME IInv, \/ \E d \in Dispatchers : Snapshot(d) \/ CallRunDue(d) \/ ReturnRunDue(d)
               \/ Start \/ LoopSleeps \/ LoopWakes \/ LoopExits
  PROVE  IInv'
<1>1. UNCHANGED <<clk, jobs, entry, cur, work, pending>>
  BY DEF Snapshot, CallRunDue, ReturnRunDue, Start, LoopSleeps, LoopWakes, LoopExits, schedVars
<1>2. PICK d \in Dispatchers :
        /\ pc[d] # "advancing"
        /\ \E place \in Places : place # "advancing" /\ pc' = [pc EXCEPT ![d] = place]
        /\ at' \in [Dispatchers -> Nat]
        /\ due' \in [Dispatchers -> SUBSET Entries]
        /\ \A x \in Dispatchers : due'[x] \subseteq due[x] \cup Scheduled
  <2>1. ASSUME NEW d \in Dispatchers, Snapshot(d) \/ CallRunDue(d) \/ ReturnRunDue(d)
        PROVE  /\ pc[d] # "advancing"
               /\ \E place \in Places : place # "advancing" /\ pc' = [pc EXCEPT ![d] = place]
    BY <2>1 DEF Snapshot, CallRunDue, ReturnRunDue, EnterRunDue, Places
  <2>2. ASSUME Start \/ LoopSleeps \/ LoopWakes \/ LoopExits
        PROVE  /\ pc[Loop] # "advancing"
               /\ \E place \in Places : place # "advancing" /\ pc' = [pc EXCEPT ![Loop] = place]
    BY <2>2 DEF Start, LoopSleeps, LoopWakes, LoopExits, EnterRunDue, Places
  <2>3. at' \in [Dispatchers -> Nat]
    BY DEF IInv, Shapes, Snapshot, CallRunDue, ReturnRunDue, Start, LoopSleeps, LoopWakes,
           LoopExits, EnterRunDue
  <2>4. /\ due' \in [Dispatchers -> SUBSET Entries]
        /\ \A x \in Dispatchers : due'[x] \subseteq due[x] \cup Scheduled
    <3>1. Scheduled \subseteq Entries
      BY DEF IInv, Known, Made
    <3>2. CASE \E d \in Dispatchers : Snapshot(d)
      BY <3>1, <3>2 DEF IInv, Shapes, Snapshot
    <3>3. CASE UNCHANGED due
      BY <3>3 DEF IInv, Shapes
    <3> QED
      BY <3>2, <3>3 DEF CallRunDue, ReturnRunDue, Start, LoopSleeps, LoopWakes, LoopExits
  <2>5. Loop \in Dispatchers
    BY DEF Dispatchers
  <2> QED
    BY <2>1, <2>2, <2>3, <2>4, <2>5
<1>3. NoOverlap' /\ Made' = Made
  BY <1>1, HoldersKept
<1>4. Shapes'
  BY <1>1, <1>2 DEF IInv, Shapes
<1>5. Scheduled' = Scheduled
  BY <1>1 DEF Scheduled
<1>6. Known'
  BY <1>1, <1>2, <1>3, <1>5 DEF IInv, Shapes, Known
<1> QED
  BY <1>3, <1>4, <1>6 DEF IInv

\* The compare-and-swap: an entry whose flag is clear has no holder, so the
\* dispatcher that sets the flag is the only one.
LEMMA ClaimStep ==
  ASSUME IInv, NEW d \in Dispatchers, NEW e \in Entries, Claim(d, e)
  PROVE  IInv'
<1>1. /\ e \in Made /\ cur[d] = Nil /\ pc[d] = "launching"
      /\ due' = [due EXCEPT ![d] = @ \ {e}]
      /\ UNCHANGED <<clk, jobs, at, work, pending>>
  BY DEF Claim, IInv, Known
<1>2. due' \in [Dispatchers -> SUBSET Entries] /\ \A x \in Dispatchers : due'[x] \subseteq due[x]
  BY <1>1 DEF IInv, Shapes
<1>3. CASE entry[e].running /\ UNCHANGED <<entry, cur, pc>>
  <2>1. NoOverlap' /\ Made' = Made
    BY <1>1, <1>3, HoldersKept
  <2>2. Shapes' /\ Known'
    BY <1>1, <1>2, <1>3, <2>1 DEF IInv, Shapes, Known, Scheduled
  <2> QED
    BY <2>1, <2>2 DEF IInv
<1>4. CASE /\ ~entry[e].running
           /\ entry' = [entry EXCEPT ![e].running = TRUE]
           /\ cur' = [cur EXCEPT ![d] = e]
           /\ pc' = [pc EXCEPT ![d] = "advancing"]
  <2>1. entry[e] \in EntryRecords
    BY <1>1 DEF IInv, Shapes, Made
  <2>2. /\ entry' \in [Entries -> EntryRecords \cup {Nil}]
        /\ entry'[e] \in EntryRecords /\ entry'[e].running = TRUE
        /\ \A f \in Entries \ {e} : entry'[f] = entry[f]
    BY <1>4, <2>1 DEF IInv, Shapes, EntryRecords
  <2>3. Made' = Made
    BY <1>1, <2>2, SchedulerAssumption DEF Made
  <2>4. Shapes'
    BY <1>1, <1>2, <1>4, <2>2 DEF IInv, Shapes, Places
  <2>5. Known'
    BY <1>1, <1>2, <1>4, <2>3, SchedulerAssumption DEF IInv, Shapes, Known, Scheduled, Made
  <2>6. Holders(e) = {}
    BY <1>1, <1>4 DEF IInv, NoOverlap
  <2>7. Holders(e)' = {d}
    BY <1>1, <1>4, <2>6 DEF IInv, Shapes, Holders
  <2>8. \A f \in Entries \ {e} : Holders(f)' = Holders(f)
    BY <1>1, <1>4, SchedulerAssumption DEF IInv, Shapes, Holders
  <2>9. NoOverlap'
    <3> SUFFICES ASSUME NEW f \in Made
                 PROVE  /\ \A x, y \in Holders(f)' : x = y
                        /\ entry'[f].running <=> Holders(f)' # {}
      BY <2>3 DEF NoOverlap
    <3>1. CASE f = e
      BY <2>2, <2>7, <3>1
    <3>2. CASE f # e
      BY <2>2, <2>8, <3>2 DEF IInv, NoOverlap, Made
    <3> QED
      BY <3>1, <3>2
  <2> QED
    BY <2>4, <2>5, <2>9 DEF IInv
<1> QED
  BY <1>3, <1>4 DEF Claim

\* The flag passes from the dispatcher to the goroutine it spawns.
LEMMA LaunchStep ==
  ASSUME IInv, NEW d \in Dispatchers, Launch(d)
  PROVE  IInv'
<1>a. PICK e \in Made : e = cur[d]
  BY DEF Launch, IInv, Known
<1>b. PICK v \in Workers : v = CHOOSE w \in Workers : work[w] = Nil
  BY DEF Launch
<1> DEFINE rec == [entry |-> e, by |-> d, phase |-> "acquiring"]
<1>1. /\ cur[d] = e /\ work[v] = Nil /\ pc[d] = "advancing"
      /\ entry' = [entry EXCEPT ![e].nextDue = NextFiring(e, at[d])]
      /\ work' = [work EXCEPT ![v] = rec]
      /\ cur' = [cur EXCEPT ![d] = Nil]
      /\ pc' = [pc EXCEPT ![d] = "launching"]
      /\ UNCHANGED <<clk, jobs, due, at, pending>>
  BY <1>a, <1>b DEF Launch
<1>2. e \in Entries /\ e # Nil /\ entry[e] \in EntryRecords
  BY SchedulerAssumption DEF IInv, Shapes, Made
<1>3. rec \in WorkRecords /\ rec # Nil /\ rec.entry = e
  BY <1>2, SchedulerAssumption DEF WorkRecords, Phases
<1>4. v \notin Dispatchers /\ d \notin Workers
  BY <1>1, SchedulerAssumption
<1> HIDE DEF rec
<1>5. NextFiring(e, at[d]) \in Nat
  BY SchedulerAssumption DEF IInv, Shapes, NextFiring
<1>6. /\ entry' \in [Entries -> EntryRecords \cup {Nil}]
      /\ entry'[e] \in EntryRecords
      /\ \A f \in Entries : f # e => entry'[f] = entry[f]
      /\ entry'[e].running = entry[e].running
  BY <1>1, <1>2, <1>5 DEF IInv, Shapes, EntryRecords
<1>7. Made' = Made
  BY <1>2, <1>6, SchedulerAssumption DEF Made
<1>8. Shapes'
  BY <1>1, <1>3, <1>6 DEF IInv, Shapes, Places
<1>9. Known'
  <2>1. \A w \in Workers : work'[w] = IF w = v THEN rec ELSE work[w]
    BY <1>1 DEF IInv, Shapes
  <2>2. \A x \in Dispatchers : /\ cur'[x] = IF x = d THEN Nil ELSE cur[x]
                               /\ pc'[x] = IF x = d THEN "launching" ELSE pc[x]
    BY <1>1 DEF IInv, Shapes
  <2> QED
    BY <1>1, <1>3, <1>7, <2>1, <2>2 DEF IInv, Known, Scheduled
<1>10. Holders(e) = {d}
  BY <1>1 DEF IInv, NoOverlap, Holders
<1>11. Holders(e)' = {v}
  BY <1>1, <1>2, <1>3, <1>4, <1>10 DEF IInv, Shapes, Holders
<1>12. \A f \in Entries : f # e => Holders(f)' = Holders(f)
  <2> SUFFICES ASSUME NEW f \in Entries, f # e PROVE Holders(f)' = Holders(f)
    OBVIOUS
  <2>1. \A w \in Workers : (work'[w] # Nil /\ work'[w].entry = f)
                              <=> (work[w] # Nil /\ work[w].entry = f)
    BY <1>1, <1>3 DEF IInv, Shapes
  <2>2. \A x \in Dispatchers : cur'[x] = f <=> cur[x] = f
    BY <1>1, <1>2, SchedulerAssumption DEF IInv, Shapes
  <2> QED
    BY <2>1, <2>2 DEF Holders
<1>13. NoOverlap'
  <2> SUFFICES ASSUME NEW f \in Made
               PROVE  /\ \A x, y \in Holders(f)' : x = y
                      /\ entry'[f].running <=> Holders(f)' # {}
    BY <1>7 DEF NoOverlap
  <2>1. CASE f = e
    BY <1>6, <1>10, <1>11, <2>1 DEF IInv, NoOverlap
  <2>2. CASE f # e
    BY <1>6, <1>12, <2>2 DEF IInv, NoOverlap, Made
  <2> QED
    BY <2>1, <2>2
<1> QED
  BY <1>8, <1>9, <1>13 DEF IInv

\* A goroutine acquires, fails to, or comes back from the job function.
LEMMA WorkStep ==
  ASSUME IInv, NEW w \in Workers, AcquirePermit(w) \/ AcquireFails(w) \/ JobReturns(w)
  PROVE  IInv'
<1>1. PICK phase \in Phases : MoveTo(w, phase)
  BY DEF AcquirePermit, AcquireFails, JobReturns, Phases
<1>2. work[w] \in WorkRecords /\ UNCHANGED <<clk, jobs, entry, pc, due, at, cur, pending>>
  BY DEF AcquirePermit, AcquireFails, JobReturns, In, IInv, Shapes, schedVars, dispVars
<1>3. /\ work' \in [Workers -> WorkRecords \cup {Nil}]
      /\ work'[w] \in WorkRecords /\ work'[w].entry = work[w].entry
      /\ \A x \in Workers : x # w => work'[x] = work[x]
  BY <1>1, <1>2 DEF MoveTo, WorkRecords, IInv, Shapes
<1>4. \A x \in Workers : /\ work'[x] = Nil <=> work[x] = Nil
                         /\ work[x] # Nil => work'[x].entry = work[x].entry
  BY <1>2, <1>3, SchedulerAssumption
<1>5. NoOverlap' /\ Made' = Made
  BY <1>2, <1>4, HoldersKept
<1>6. Shapes' /\ Known'
  BY <1>2, <1>3, <1>4, <1>5 DEF IInv, Shapes, Known, Scheduled
<1> QED
  BY <1>5, <1>6 DEF IInv

\* The only holder clears the flag and goes.
LEMMA FinishStep ==
  ASSUME IInv, NEW w \in Workers, Finish(w)
  PROVE  IInv'
<1>a. PICK e \in Made : e = work[w].entry
  BY DEF Finish, In, IInv, Known
<1>1. /\ work[w] # Nil /\ work[w].entry = e
      /\ entry' = [entry EXCEPT ![e].running = FALSE]
      /\ work' = [work EXCEPT ![w] = Nil]
      /\ UNCHANGED <<clk, jobs, pc, due, at, cur, pending>>
  BY <1>a DEF Finish, In, dispVars
<1>2. e \in Entries /\ entry[e] \in EntryRecords
  BY DEF IInv, Shapes, Made
<1>3. w \in Holders(e)
  BY <1>1 DEF Holders
<1>4. /\ entry' \in [Entries -> EntryRecords \cup {Nil}]
      /\ entry'[e] \in EntryRecords /\ entry'[e].running = FALSE
      /\ \A f \in Entries : f # e => entry'[f] = entry[f]
  BY <1>1, <1>2 DEF IInv, Shapes, EntryRecords
<1>5. Made' = Made
  BY <1>2, <1>4, SchedulerAssumption DEF Made
<1>6. \A x \in Workers : work'[x] = IF x = w THEN Nil ELSE work[x]
  BY <1>1 DEF IInv, Shapes
<1>7. Shapes' /\ Known'
  BY <1>1, <1>4, <1>5, <1>6 DEF IInv, Shapes, Known, Scheduled
<1>8. Holders(e) = {w}
  BY <1>1, <1>3 DEF IInv, NoOverlap
<1>9. Holders(e)' = {}
  BY <1>1, <1>6, <1>8, SchedulerAssumption DEF Holders
<1>10. \A f \in Entries : f # e => Holders(f)' = Holders(f)
  BY <1>1, <1>6 DEF Holders
<1>11. NoOverlap'
  <2> SUFFICES ASSUME NEW f \in Made
               PROVE  /\ \A x, y \in Holders(f)' : x = y
                      /\ entry'[f].running <=> Holders(f)' # {}
    BY <1>5 DEF NoOverlap
  <2>1. CASE f = e
    BY <1>4, <1>9, <2>1
  <2>2. CASE f # e
    BY <1>4, <1>10, <2>2 DEF IInv, NoOverlap, Made
  <2> QED
    BY <2>1, <2>2
<1> QED
  BY <1>7, <1>11 DEF IInv

LEMMA NextIInv == IInv /\ [Next]_vars => IInv'
<1> SUFFICES ASSUME IInv, [Next]_vars PROVE IInv'
  OBVIOUS
<1>1. CASE Tick \/ Client
  BY <1>1, ClientStep, InsertStep, WalkStep DEF Client
<1>2. ASSUME NEW d \in Dispatchers, Dispatch(d) \/ CallRunDue(d) \/ ReturnRunDue(d)
      PROVE  IInv'
  BY <1>2, WalkStep, ClaimStep, LaunchStep DEF Dispatch
<1>3. CASE LoopSleeps \/ LoopWakes \/ LoopExits
  BY <1>3, WalkStep
<1>4. ASSUME NEW w \in Workers, Worker(w)
      PROVE  IInv'
  BY <1>4, WorkStep, FinishStep DEF Worker
<1>5. CASE UNCHANGED vars
  <2>1. UNCHANGED <<clk, jobs, entry, pc, due, at, cur, work, pending>>
    BY <1>5 DEF vars, schedVars, dispVars
  <2>2. NoOverlap' /\ Made' = Made
    BY <2>1, HoldersKept
  <2> QED
    BY <2>1, <2>2 DEF IInv, Shapes, Known, Scheduled
<1> QED
  BY <1>1, <1>2, <1>3, <1>4, <1>5 DEF Next

-----------------------------------------------------------------------------
\* The inductive invariant holds in every reachable state.
THEOREM Invariance == Spec => []IInv
BY InitIInv, NextIInv, PTL DEF Spec

\* No entry has two invocations at once, and its flag is set exactly while it
\* has one: whatever the loop, direct calls of RunDue, Schedule, Unschedule and
\* Stop do around it.
THEOREM NeverOverlaps == Spec => []NoOverlap
<1>1. IInv => NoOverlap
  BY DEF IInv
<1> QED
  BY <1>1, Invariance, PTL

-----------------------------------------------------------------------------
(* One-shot jobs.                                                          *)

\* The dispatchers that can still launch e without another snapshot.
MayLaunch(e) == {d \in Dispatchers : e \in due[d] \/ cur[d] = e}

\* Once a one-shot is launched it is due no more, so that no snapshot takes it
\* up, and whoever has launched it cannot do so again.
Launched(e) == /\ entry[e] # Nil /\ ~entry[e].periodic /\ entry[e].nextDue = 0
               /\ \A i, j \in DOMAIN fired[e] : fired[e][i] = fired[e][j] => i = j
               /\ \A i \in DOMAIN fired[e] : fired[e][i] \notin MayLaunch(e)

OneShots == /\ fired \in [Entries -> Seq(Dispatchers)]
            /\ \A d \in Dispatchers : cur[d] \notin due[d]
            /\ \A e \in Entries : fired[e] # <<>> => Launched(e)

\* A step that launches nothing keeps OneShots if it leaves the launched
\* entries alone and takes up none of them.
LEMMA NothingLaunched ==
  ASSUME IInv, OneShots, fired' = fired,
         \A d \in Dispatchers : cur'[d] \notin due'[d],
         \A e \in Entries : fired[e] # <<>> =>
           /\ entry'[e] # Nil /\ entry'[e].periodic = entry[e].periodic
           /\ entry'[e].nextDue = entry[e].nextDue
           /\ MayLaunch(e)' \subseteq MayLaunch(e)
  PROVE  OneShots'
<1> SUFFICES ASSUME NEW e \in Entries, fired[e] # <<>>
             PROVE  Launched(e)'
  BY DEF OneShots
<1> QED
  BY DEF OneShots, Launched

\* Steps that touch neither the snapshots nor the entries they hold.
LEMMA QuietOneShots ==
  ASSUME IInv, OneShots, UNCHANGED <<entry, due, cur, fired>>
  PROVE  OneShots'
<1>1. \A e \in Entries : MayLaunch(e)' = MayLaunch(e)
  BY DEF MayLaunch
<1>2. \A e \in Entries : fired[e] # <<>> => entry[e] # Nil
  BY DEF OneShots, Launched
<1> QED
  BY <1>1, <1>2, NothingLaunched DEF OneShots

\* The entry that Schedule makes has never been launched.
LEMMA InsertOneShots ==
  ASSUME IInv, OneShots, ScheduleInserts
  PROVE  OneShots'
<1>1. entry[Fresh] = Nil /\ UNCHANGED <<due, cur, fired>>
  BY DEF ScheduleInserts, dispVars, Made, Fresh
<1>2. \A e \in Entries : fired[e] # <<>> => entry[e] # Nil /\ entry'[e] = entry[e]
  BY <1>1 DEF OneShots, Launched, ScheduleInserts, IInv, Shapes
<1>3. \A e \in Entries : MayLaunch(e)' = MayLaunch(e)
  BY <1>1 DEF MayLaunch
<1> QED
  BY <1>1, <1>2, <1>3, NothingLaunched DEF OneShots

\* A snapshot takes up nothing that has been launched: it is not due.
LEMMA SnapshotOneShots ==
  ASSUME IInv, OneShots, NEW d \in Dispatchers, Snapshot(d)
  PROVE  OneShots'
<1>1. /\ UNCHANGED <<entry, cur, fired>>
      /\ due' = [due EXCEPT ![d] = {e \in Scheduled : IsDueAt(e, at[d]) /\ ~entry[e].running}]
      /\ due'[d] = {e \in Scheduled : IsDueAt(e, at[d]) /\ ~entry[e].running}
      /\ \A x \in Dispatchers \ {d} : due'[x] = due[x]
  BY DEF Snapshot, schedVars, IInv, Shapes
<1>2. cur[d] = Nil /\ Nil \notin due'[d]
  <2>1. cur[d] = Nil
    BY DEF Snapshot, IInv, Known
  <2> QED
    BY <2>1, <1>1 DEF Scheduled
<1>3. \A e \in Entries : fired[e] # <<>> => entry[e] # Nil /\ MayLaunch(e)' \subseteq MayLaunch(e)
  <2> SUFFICES ASSUME NEW e \in Entries, fired[e] # <<>>
               PROVE  entry[e] # Nil /\ MayLaunch(e)' \subseteq MayLaunch(e)
    OBVIOUS
  <2>1. entry[e] # Nil /\ entry[e].nextDue = 0
    BY DEF OneShots, Launched
  <2>2. e \notin due'[d]
    BY <2>1, <1>1 DEF IsDueAt
  <2> QED
    BY <2>1, <2>2, <1>1 DEF MayLaunch
<1> QED
  BY <1>1, <1>2, <1>3, NothingLaunched DEF OneShots

\* Claim moves an entry from the snapshot into the hand, or drops it.
LEMMA ClaimOneShots ==
  ASSUME IInv, OneShots, NEW d \in Dispatchers, NEW f \in Entries, Claim(d, f)
  PROVE  OneShots'
<1>1. /\ f \in due[d] /\ due' = [due EXCEPT ![d] = @ \ {f}] /\ fired' = fired
      /\ due'[d] = due[d] \ {f} /\ \A x \in Dispatchers \ {d} : due'[x] = due[x]
  BY DEF Claim, IInv, Shapes
<1>2. /\ entry[f] \in EntryRecords
      /\ cur'[d] \in {cur[d], f} /\ \A x \in Dispatchers \ {d} : cur'[x] = cur[x]
  BY <1>1 DEF Claim, IInv, Shapes, Known, Made
<1>3. \A e \in Entries : entry[e] # Nil => /\ entry'[e] # Nil
                                           /\ entry'[e].periodic = entry[e].periodic
                                           /\ entry'[e].nextDue = entry[e].nextDue
  <2>1. CASE UNCHANGED entry
    BY <2>1
  <2>2. CASE entry' = [entry EXCEPT ![f].running = TRUE]
    <3>1. entry'[f] \in EntryRecords
      BY <1>2, <2>2 DEF IInv, Shapes, EntryRecords
    <3>2. entry'[f].periodic = entry[f].periodic /\ entry'[f].nextDue = entry[f].nextDue
      BY <1>2, <2>2 DEF IInv, Shapes, EntryRecords
    <3>3. \A e \in Entries \ {f} : entry'[e] = entry[e]
      BY <2>2 DEF IInv, Shapes
    <3> QED
      BY <3>1, <3>2, <3>3, SchedulerAssumption
  <2> QED
    BY <2>1, <2>2 DEF Claim
<1>4. \A e \in Entries : MayLaunch(e)' \subseteq MayLaunch(e)
  BY <1>1, <1>2 DEF MayLaunch
<1>5. \A x \in Dispatchers : cur'[x] \notin due'[x]
  BY <1>1, <1>2 DEF OneShots
<1>6. \A e \in Entries : fired[e] # <<>> => entry[e] # Nil
  BY DEF OneShots, Launched
<1> QED
  BY <1>1, <1>3, <1>4, <1>5, <1>6, NothingLaunched

\* A launch of a one-shot uses up its dispatcher.
LEMMA LaunchOneShots ==
  ASSUME IInv, OneShots, NEW d \in Dispatchers, Launch(d)
  PROVE  OneShots'
<1>1. PICK f \in Made : f = cur[d]
  BY DEF Launch, IInv, Known
<1>2. /\ f \in Entries /\ entry[f] \in EntryRecords /\ at[d] \in Nat
      /\ entry' = [entry EXCEPT ![f].nextDue = NextFiring(f, at[d])]
      /\ cur' = [cur EXCEPT ![d] = Nil] /\ due' = due
      /\ fired' = IF entry[f].periodic THEN fired ELSE [fired EXCEPT ![f] = Append(@, d)]
  BY <1>1 DEF Launch, IInv, Shapes, Made
<1>3. /\ \A e \in Entries \ {f} : entry'[e] = entry[e]
      /\ entry'[f].periodic = entry[f].periodic /\ entry'[f].nextDue = NextFiring(f, at[d])
      /\ entry'[f] \in [name : Names, periodic : BOOLEAN, nextDue : {NextFiring(f, at[d])},
                        running : BOOLEAN]
  BY <1>2 DEF IInv, Shapes, EntryRecords
<1>4. entry'[f] # Nil
  <2>1. NextFiring(f, at[d]) \in Nat
    BY <1>2, SchedulerAssumption DEF NextFiring
  <2> QED
    BY <1>3, <2>1, SchedulerAssumption DEF EntryRecords
<1>5. /\ \A e \in Entries : MayLaunch(e)' = MayLaunch(e) \ {x \in {d} : e = f}
      /\ d \in MayLaunch(f)
  BY <1>1, <1>2, SchedulerAssumption DEF MayLaunch, OneShots, IInv, Shapes
<1>6. \A x \in Dispatchers : cur'[x] \notin due'[x]
  <2>1. Nil \notin due[d]
    BY SchedulerAssumption DEF IInv, Shapes
  <2> QED
    BY <2>1, <1>2 DEF OneShots, IInv, Shapes
<1>7. CASE entry[f].periodic
  <2>1. fired' = fired /\ \A e \in Entries : fired[e] # <<>> => e # f /\ entry[e] # Nil
    BY <1>2, <1>7 DEF OneShots, Launched
  <2> QED
    BY <2>1, <1>3, <1>5, <1>6, NothingLaunched
<1>8. CASE ~entry[f].periodic
  <2>1. /\ fired[f] \in Seq(Dispatchers) /\ fired'[f] = Append(fired[f], d)
        /\ fired' \in [Entries -> Seq(Dispatchers)]
        /\ \A e \in Entries \ {f} : fired'[e] = fired[e]
    BY <1>2, <1>8 DEF OneShots
  <2>2. entry'[f].nextDue = 0
    BY <1>3, <1>8 DEF NextFiring
  <2>3. /\ \A i \in DOMAIN fired[f] : fired[f][i] \notin MayLaunch(f)
        /\ \A i, j \in DOMAIN fired[f] : fired[f][i] = fired[f][j] => i = j
    <3>1. CASE fired[f] # <<>>
      BY <3>1, <1>2 DEF OneShots, Launched
    <3>2. CASE fired[f] = <<>>
      BY <3>2
    <3> QED
      BY <3>1, <3>2
  <2>6. /\ \A i \in DOMAIN fired'[f] : fired'[f][i] \notin MayLaunch(f)'
        /\ \A i, j \in DOMAIN fired'[f] : fired'[f][i] = fired'[f][j] => i = j
    <3>1. DOMAIN fired'[f] = DOMAIN fired[f] \cup {Len(fired[f]) + 1}
      BY <2>1
    <3>2. \A i \in DOMAIN fired[f] : fired'[f][i] = fired[f][i] /\ fired[f][i] # d
      BY <2>1, <2>3, <1>5
    <3>3. fired'[f][Len(fired[f]) + 1] = d
      BY <2>1
    <3>4. MayLaunch(f)' = MayLaunch(f) \ {d}
      BY <1>2, <1>5
    <3> QED
      BY <2>3, <3>1, <3>2, <3>3, <3>4
  <2>4. Launched(f)'
    BY <2>2, <2>6, <1>3, <1>4, <1>8 DEF Launched
  <2>5. ASSUME NEW e \in Entries \ {f}, fired'[e] # <<>>
        PROVE  Launched(e)'
    <3>1. Launched(e) /\ fired'[e] = fired[e] /\ entry'[e] = entry[e]
      BY <2>1, <2>5, <1>3 DEF OneShots
    <3>2. MayLaunch(e)' = MayLaunch(e)
      BY <1>5
    <3> QED
      BY <3>1, <3>2 DEF Launched
  <2> QED
    BY <2>1, <2>4, <2>5, <1>6 DEF OneShots
<1> QED
  BY <1>7, <1>8

\* Clearing the flag leaves the due time.
LEMMA FinishOneShots ==
  ASSUME IInv, OneShots, NEW w \in Workers, Finish(w)
  PROVE  OneShots'
<1>1. PICK f \in Made : f = work[w].entry
  BY DEF Finish, In, IInv, Known
<1>2. /\ entry' = [entry EXCEPT ![f].running = FALSE] /\ UNCHANGED <<due, cur, fired>>
      /\ f \in Entries /\ entry[f] \in EntryRecords
  BY <1>1 DEF Finish, dispVars, IInv, Shapes, Made
<1>3. /\ entry'[f] \in EntryRecords
      /\ entry'[f].periodic = entry[f].periodic /\ entry'[f].nextDue = entry[f].nextDue
      /\ \A e \in Entries \ {f} : entry'[e] = entry[e]
  BY <1>2 DEF IInv, Shapes, EntryRecords
<1>4. \A e \in Entries : MayLaunch(e)' = MayLaunch(e)
  BY <1>2 DEF MayLaunch
<1>5. \A e \in Entries : fired[e] # <<>> => entry[e] # Nil
  BY DEF OneShots, Launched
<1> QED
  BY <1>2, <1>3, <1>4, <1>5, SchedulerAssumption, NothingLaunched DEF OneShots

LEMMA InitOneShots == Init => OneShots
BY SchedulerAssumption DEF Init, OneShots

LEMMA NextOneShots == IInv /\ OneShots /\ [Next]_vars => OneShots'
<1> SUFFICES ASSUME IInv, OneShots, [Next]_vars PROVE OneShots'
  OBVIOUS
<1>1. CASE Tick \/ Client
  <2>1. CASE ScheduleInserts
    BY <2>1, InsertOneShots
  <2>2. CASE UNCHANGED <<entry, due, cur, fired>>
    BY <2>2, QuietOneShots
  <2> QED
    BY <1>1, <2>1, <2>2 DEF Client, Tick, ScheduleChecks, ScheduleWakes, Unschedule, Start,
       CancelParent, StopStores, StopCancels, StopReturns, schedVars, dispVars
<1>2. ASSUME NEW d \in Dispatchers, Dispatch(d) \/ CallRunDue(d) \/ ReturnRunDue(d)
      PROVE  OneShots'
  <2>1. CASE CallRunDue(d) \/ ReturnRunDue(d)
    BY <2>1, QuietOneShots DEF CallRunDue, ReturnRunDue, schedVars
  <2> QED
    BY <1>2, <2>1, SnapshotOneShots, ClaimOneShots, LaunchOneShots DEF Dispatch
<1>3. CASE LoopSleeps \/ LoopWakes \/ LoopExits \/ UNCHANGED vars
  BY <1>3, QuietOneShots DEF LoopSleeps, LoopWakes, LoopExits, vars, schedVars, dispVars
<1>4. ASSUME NEW w \in Workers, Worker(w)
      PROVE  OneShots'
  <2>1. CASE AcquirePermit(w) \/ AcquireFails(w) \/ JobReturns(w)
    BY <2>1, QuietOneShots DEF AcquirePermit, AcquireFails, JobReturns, schedVars, dispVars
  <2> QED
    BY <1>4, <2>1, FinishOneShots DEF Worker
<1> QED
  BY <1>1, <1>2, <1>3, <1>4 DEF Next

\* However many goroutines call RunDue around the loop, each of them launches a
\* one-shot job at most once: only those whose snapshot is older than the first
\* launch can launch it again (RunDue, advanceNext).
THEOREM FewRepeats == Spec => []OneShotPerDispatcher
<1>1. OneShots => OneShotPerDispatcher
  BY DEF OneShots, Launched, OneShotPerDispatcher
<1>2. Spec => []OneShots
  BY InitOneShots, NextOneShots, Invariance, PTL DEF Spec
<1> QED
  BY <1>1, <1>2, PTL

\* With the loop alone a one-shot job is one: launched once at most, whatever
\* is scheduled, replaced and removed around it (Start, RunDue, advanceNext).
THEOREM OneShotsAreOne == Callers = {} => (Spec => []OneShotOnce)
<1> SUFFICES ASSUME Callers = {} PROVE Spec => []OneShotOnce
  OBVIOUS
<1>1. OneShots => OneShotOnce
  <2> SUFFICES ASSUME OneShots, NEW e \in Entries, Len(fired[e]) > 1 PROVE FALSE
    BY DEF OneShotOnce, OneShots
  <2>1. fired[e] \in Seq({Loop}) /\ fired[e] # <<>>
    BY DEF OneShots, Dispatchers
  <2>2. 1 \in DOMAIN fired[e] /\ 2 \in DOMAIN fired[e] /\ fired[e][1] = fired[e][2]
    BY <2>1
  <2> QED
    BY <2>1, <2>2 DEF OneShots, Launched
<1>2. Spec => []OneShots
  BY InitOneShots, NextOneShots, Invariance, PTL DEF Spec
<1> QED
  BY <1>1, <1>2, PTL

-----------------------------------------------------------------------------
(* The loop's sleep.                                                       *)

\* A nonempty set of times has a first one.
LEMMA EarliestIsFirst ==
  ASSUME NEW S \in SUBSET Nat, S # {}
  PROVE  Earliest(S) \in S /\ \A u \in S : Earliest(S) <= u
<1>1. \E x \in S : \A y \in S : <<y, x>> \notin OpToRel(<, Nat)
  BY NatLessThanWellFounded, WFMin
<1>2. PICK x \in S : \A y \in S : <<y, x>> \notin OpToRel(<, Nat)
  BY <1>1
<1>3. \A y \in S : ~(y < x)
  BY <1>2 DEF OpToRel
<1>4. \A y \in S : x <= y
  BY <1>3
<1> QED
  BY <1>4 DEF Earliest

\* nextSleep looks no further than the first firing ahead, or than now when
\* that is overdue.
LEMMA WakeupInTime ==
  ASSUME IInv, NEW e \in Scheduled, entry[e].nextDue # 0
  PROVE  Wakeup \in Nat /\ (Wakeup <= entry[e].nextDue \/ Wakeup <= clk)
<1>1. NextDues \in SUBSET Nat /\ entry[e].nextDue \in NextDues
  BY DEF NextDues, IInv, Known, Shapes, Made, EntryRecords
<1> DEFINE first == Earliest(NextDues)
           at0 == IF first < clk THEN clk ELSE first
<1>2. first \in Nat /\ first <= entry[e].nextDue
  BY <1>1, EarliestIsFirst
<1>3. clk \in Nat /\ clk + Idle \in Nat /\ at0 \in Nat
  BY <1>2, SchedulerAssumption DEF IInv, Shapes
<1>4. Wakeup = Earliest({clk + Idle, at0})
  BY <1>1 DEF Wakeup
<1>5. Wakeup \in {clk + Idle, at0} /\ Wakeup <= at0
  BY <1>3, <1>4, EarliestIsFirst
<1>6. at0 <= entry[e].nextDue \/ at0 = clk
  BY <1>2, <1>3
<1>7. Wakeup \in Nat
  BY <1>3, <1>5
<1>8. entry[e].nextDue \in Nat
  BY <1>1
<1> HIDE DEF at0
<1> QED
  BY <1>3, <1>5, <1>6, <1>7, <1>8

\* When only the loop launches, a step either puts it to sleep, or finds it
\* awake, or leaves its timer and the times of the entries alone, but for the
\* entry of a Schedule that is about to wake it.
LEMMA SleepStep ==
  ASSUME IInv, SleepCovers, Callers = {}, sleepUntil \in Nat, [Next]_vars
  PROVE  SleepCovers' /\ sleepUntil' \in Nat
<1>1. Dispatchers = {Loop}
  BY DEF Dispatchers
<1>2. CASE LoopSleeps
  <2>1. sleepUntil' = Wakeup /\ UNCHANGED <<clk, jobs, entry>>
    BY <1>2 DEF LoopSleeps, schedVars
  <2>2. Wakeup \in Nat
    <3>1. CASE NextDues = {}
      BY <3>1, SchedulerAssumption DEF Wakeup, IInv, Shapes
    <3>2. CASE NextDues # {}
      <4>1. PICK e \in Scheduled : entry[e].nextDue # 0
        BY <3>2 DEF NextDues
      <4> QED
        BY <4>1, WakeupInTime
    <3> QED
      BY <3>1, <3>2
  <2>3. Scheduled' = Scheduled
    BY <2>1 DEF Scheduled
  <2> QED
    BY <2>1, <2>2, <2>3, WakeupInTime DEF SleepCovers
<1>3. CASE pc'[Loop] # "sleeping" /\ sleepUntil' \in {sleepUntil, 0}
  BY <1>3 DEF SleepCovers
<1>4. CASE /\ UNCHANGED <<pc, sleepUntil>>
           /\ wake' \/ (pending' # Nil /\ pending'.placed)
  BY <1>4 DEF SleepCovers
<1>5. CASE /\ UNCHANGED <<pc, sleepUntil, jobs, wake>> /\ clk' \in Nat /\ clk' >= clk
           /\ pending = Nil \/ ~pending.placed \/ pending' = pending
           /\ \A e \in Made : entry'[e].nextDue = entry[e].nextDue
  <2>1. Scheduled' = Scheduled /\ Scheduled \subseteq Made
    BY <1>5 DEF Scheduled, IInv, Known
  <2>2. \A e \in Scheduled : /\ entry[e].nextDue \in Nat
                             /\ entry'[e].nextDue = entry[e].nextDue
    BY <1>5, <2>1 DEF IInv, Shapes, Made, EntryRecords
  <2> QED
    BY <1>5, <2>1, <2>2 DEF SleepCovers, IInv, Shapes
<1>6. CASE Tick \/ Client
  <2>1. CASE ScheduleInserts \/ ScheduleWakes \/ \E n \in Names : Unschedule(n)
    <3>1. CASE ScheduleInserts
      <4>1. pending \in ScheduleRecords /\ pending' = [pending EXCEPT !.placed = TRUE]
        BY <3>1 DEF ScheduleInserts, IInv, Shapes
      <4>2. pending' \in ScheduleRecords /\ pending'.placed
        BY <4>1 DEF ScheduleRecords
      <4> QED
        BY <1>4, <3>1, <4>2, SchedulerAssumption DEF ScheduleInserts, dispVars
    <3>2. CASE ScheduleWakes \/ \E n \in Names : Unschedule(n)
      BY <1>4, <3>2 DEF ScheduleWakes, Unschedule, SignalWake, dispVars
    <3> QED
      BY <2>1, <3>1, <3>2
  <2>2. CASE Start
    BY <1>3, <2>2 DEF Start, EnterRunDue, IInv, Shapes, Dispatchers
  <2>3. CASE \/ Tick \/ CancelParent \/ StopStores \/ StopCancels \/ StopReturns
             \/ \E n \in Names, p \in BOOLEAN, t \in 1..(MaxTime + Interval) :
                  ScheduleChecks(n, p, t)
    <3>1. /\ UNCHANGED <<pc, sleepUntil, jobs, wake, entry>>
          /\ clk' \in {clk, clk + 1} /\ (pending = Nil \/ pending' = pending)
      BY <2>3 DEF Tick, CancelParent, StopStores, StopCancels, StopReturns, ScheduleChecks,
         schedVars, dispVars
    <3> QED
      BY <1>5, <3>1 DEF IInv, Shapes
  <2> QED
    BY <1>6, <2>1, <2>2, <2>3 DEF Client
<1>7. ASSUME NEW d \in Dispatchers, Dispatch(d) \/ CallRunDue(d) \/ ReturnRunDue(d)
      PROVE  SleepCovers' /\ sleepUntil' \in Nat
  <2>1. d = Loop /\ d \notin Callers
    BY <1>1
  <2>2. pc'[Loop] # "sleeping" /\ sleepUntil' = sleepUntil
    BY <1>7, <2>1 DEF Dispatch, Snapshot, Claim, Launch, CallRunDue, ReturnRunDue, IInv, Shapes
  <2> QED
    BY <1>3, <2>2
<1>8. CASE LoopWakes \/ LoopExits
  BY <1>3, <1>8 DEF LoopWakes, LoopExits, EnterRunDue, IInv, Shapes, Dispatchers
<1>9. ASSUME NEW w \in Workers, Worker(w)
      PROVE  SleepCovers' /\ sleepUntil' \in Nat
  <2>1. /\ UNCHANGED <<pc, sleepUntil, jobs, wake, clk, pending>>
        /\ \A e \in Made : entry'[e].nextDue = entry[e].nextDue
    <3>1. CASE AcquirePermit(w) \/ AcquireFails(w) \/ JobReturns(w)
      BY <3>1 DEF AcquirePermit, AcquireFails, JobReturns, schedVars, dispVars
    <3>2. CASE Finish(w)
      <4>1. PICK f \in Made : f = work[w].entry
        BY <3>2 DEF Finish, In, IInv, Known
      <4>2. entry' = [entry EXCEPT ![f].running = FALSE] /\ entry[f] \in EntryRecords
        BY <3>2, <4>1 DEF Finish, IInv, Shapes, Made
      <4>3. \A e \in Made : entry'[e].nextDue = entry[e].nextDue
        BY <4>2 DEF IInv, Shapes, Made, EntryRecords
      <4> QED
        BY <3>2, <4>3 DEF Finish, dispVars
    <3> QED
      BY <1>9, <3>1, <3>2 DEF Worker
  <2> QED
    BY <1>5, <2>1 DEF IInv, Shapes
<1>10. CASE UNCHANGED vars
  BY <1>5, <1>10 DEF vars, schedVars, dispVars, IInv, Shapes
<1> QED
  BY <1>2, <1>6, <1>7, <1>8, <1>9, <1>10 DEF Next

\* When nobody but the loop runs what is due, a sleep never passes over a firing
\* (nextSleep, signalWake).  A direct call of RunDue that was overtaken between
\* its snapshot and its launch breaks this: it moves the due time back.
THEOREM SleepIsShort == Callers = {} => (Spec => []SleepCovers)
<1> SUFFICES ASSUME Callers = {} PROVE Spec => []SleepCovers
  OBVIOUS
<1> DEFINE Inv == SleepCovers /\ sleepUntil \in Nat
<1>1. Init => Inv
  BY DEF Init, SleepCovers, Dispatchers
<1>2. IInv /\ Inv /\ [Next]_vars => Inv'
  BY SleepStep
<1>3. Inv => SleepCovers
  OBVIOUS
<1> HIDE DEF Inv
<1> QED
  BY <1>1, <1>2, <1>3, Invariance, PTL DEF Spec
=============================================================================
