-------------------------- MODULE SemaphoreProofs ---------------------------
(***************************************************************************)
(* Safety of internal/limiter for every number of goroutines, every        *)
(* capacity and every request size.                                        *)
(***************************************************************************)
EXTENDS Semaphore, FiniteSetTheorems, TLAPS

\* mu is held between two steps by the goroutine that is about to call Wait.
MuHeldWhileParking == \A p \in Procs : mu = p <=> pc[p] = "parking"

\* What that goroutine saw when it looked for room still holds.
ParkingSawNoRoom == \A p \in Procs : pc[p] = "parking" => ~Fits(need[p])

\* The inductive invariant.
IInv == /\ TypeOK
        /\ PermitsAccounted
        /\ MuHeldWhileParking
        /\ ParkingSawNoRoom
        /\ NoLostRelease

\* The tokens of p numbered a + 1 to a + n.
Tokens(p, a, n) == {p} \X ((a + 1)..(a + n))

-----------------------------------------------------------------------------
\* The tokens of one goroutine, and all tokens, are finitely many.
LEMMA OutstandingFinite == IsFiniteSet(Outstanding)
<1>1. IsFiniteSet(1..Capacity)
  BY CapacityAssumption, FS_Interval
<1>2. IsFiniteSet(Procs \X (1..Capacity))
  BY <1>1, ProcsAssumption, FS_Product
<1> QED
  BY <1>2, FS_Subset DEF Outstanding, Pool!Outstanding

\* A block of n tokens of one goroutine counts n.
LEMMA TokenBlock ==
  ASSUME NEW p, NEW a \in Nat, NEW n \in Nat
  PROVE  IsFiniteSet(Tokens(p, a, n)) /\ Cardinality(Tokens(p, a, n)) = n
<1> DEFINE I == (a + 1)..(a + n)
<1>1. IsFiniteSet(I) /\ Cardinality(I) = n
  BY FS_Interval
<1>2. IsFiniteSet({p}) /\ Cardinality({p}) = 1
  BY FS_Singleton
<1> HIDE DEF I
<1>3. IsFiniteSet({p} \X I) /\ Cardinality({p} \X I) = 1 * n
  BY <1>1, <1>2, FS_Product
<1> QED
  BY <1>3 DEF I, Tokens

\* Nobody holds more permits than are out.
LEMMA HeldBound ==
  ASSUME TypeOK, PermitsAccounted, NEW p \in Procs
  PROVE  held[p] <= inFlight
<1> DEFINE B == Tokens(p, 0, held[p])
<1>1. held[p] \in 0..Capacity /\ held[p] \in Nat
  BY CapacityAssumption DEF TypeOK
<1>2. B \subseteq Outstanding
  BY <1>1, CapacityAssumption DEF Outstanding, Pool!Outstanding, Tokens
<1>3. IsFiniteSet(B) /\ Cardinality(B) = held[p]
  BY <1>1, TokenBlock
<1>4. Cardinality(B) <= Cardinality(Outstanding)
  BY <1>2, OutstandingFinite, FS_Subset
<1> QED
  BY <1>3, <1>4 DEF PermitsAccounted

\* n permits more in one goroutine's hands are n tokens more.
LEMMA TakeCounts ==
  ASSUME TypeOK, NEW p \in Procs, NEW n \in Nat, held[p] + n <= Capacity,
         held' = [held EXCEPT ![p] = @ + n]
  PROVE  Cardinality(Outstanding') = Cardinality(Outstanding) + n
<1> DEFINE B == Tokens(p, held[p], n)
<1>1. held \in [Procs -> 0..Capacity] /\ held[p] \in Nat
  BY CapacityAssumption DEF TypeOK
<1>2. IsFiniteSet(B) /\ Cardinality(B) = n
  BY <1>1, TokenBlock
<1>3. Outstanding' = Outstanding \cup B
  BY <1>1, CapacityAssumption DEF Outstanding, Pool!Outstanding, Tokens
<1>4. Outstanding \cap B = {}
  BY <1>1 DEF Outstanding, Pool!Outstanding, Tokens
<1> HIDE DEF B
<1>5. Cardinality(Outstanding \cup B) = Cardinality(Outstanding) + Cardinality(B) - Cardinality({})
  BY <1>2, <1>4, OutstandingFinite, FS_Union
<1>6. Cardinality(Outstanding) \in Nat
  BY OutstandingFinite, FS_CardinalityType
<1> QED
  BY <1>2, <1>3, <1>5, <1>6, FS_EmptySet

\* n permits given back are n tokens less.
LEMMA GiveCounts ==
  ASSUME TypeOK, NEW p \in Procs, NEW n \in Nat, n <= held[p],
         held' = [held EXCEPT ![p] = @ - n]
  PROVE  Cardinality(Outstanding') = Cardinality(Outstanding) - n
<1> DEFINE B == Tokens(p, held[p] - n, n)
<1>1. held \in [Procs -> 0..Capacity] /\ held[p] \in Nat /\ held[p] - n \in Nat
  BY CapacityAssumption DEF TypeOK
<1>2. IsFiniteSet(B) /\ Cardinality(B) = n
  BY <1>1, TokenBlock
<1>3. Outstanding = Outstanding' \cup B
  BY <1>1, CapacityAssumption DEF Outstanding, Pool!Outstanding, Tokens
<1>4. Outstanding' \cap B = {}
  BY <1>1 DEF Outstanding, Pool!Outstanding, Tokens
<1>5. IsFiniteSet(Outstanding')
  BY <1>3, OutstandingFinite, FS_Subset
<1> HIDE DEF B
<1>6. Cardinality(Outstanding' \cup B) = Cardinality(Outstanding') + Cardinality(B) - Cardinality({})
  BY <1>2, <1>4, <1>5, FS_Union
<1>7. Cardinality(Outstanding') \in Nat
  BY <1>5, FS_CardinalityType
<1> QED
  BY <1>2, <1>3, <1>6, <1>7, FS_EmptySet

-----------------------------------------------------------------------------
\* The arithmetic of Fits, once: inFlight and need are naturals.
LEMMA Typing ==
  ASSUME TypeOK
  PROVE  /\ inFlight \in Nat
         /\ \A p \in Procs : need[p] \in Nat /\ held[p] \in Nat
BY CapacityAssumption DEF TypeOK

\* A new semaphore satisfies the inductive invariant.
LEMMA InitIInv == Init => IInv
<1> SUFFICES ASSUME Init PROVE IInv
  OBVIOUS
<1>1. TypeOK
  BY CapacityAssumption DEF Init, TypeOK, PCs, WatcherStates
<1>2. Outstanding = {}
  BY CapacityAssumption DEF Init, Outstanding, Pool!Outstanding
<1>3. PermitsAccounted
  BY <1>2, FS_EmptySet DEF Init, PermitsAccounted
<1> QED
  BY <1>1, <1>3, ProcsAssumption
     DEF Init, IInv, MuHeldWhileParking, ParkingSawNoRoom, NoLostRelease

\* Steps that leave the count, the holders and the wait list alone.
LEMMA QuietStep ==
  ASSUME IInv, UNCHANGED <<inFlight, mu, need, held>>,
         UNCHANGED pc,
         cancelled' \in [Procs -> BOOLEAN], watcher' \in [Procs -> WatcherStates]
  PROVE  IInv'
BY DEF IInv, TypeOK, PermitsAccounted, MuHeldWhileParking, ParkingSawNoRoom,
       NoLostRelease, Fits, Outstanding, Pool!Outstanding

\* AcquireN gets past its checks: only the caller's place and request change.
LEMMA AcquireStep ==
  ASSUME IInv, NEW p \in Procs, NEW n \in Sizes, AcquireN(p, n)
  PROVE  IInv'
<1>1. n \in 1..Capacity
  BY SizesAssumption, CapacityAssumption DEF AcquireN
<1>2. TypeOK'
  BY <1>1 DEF IInv, TypeOK, AcquireN, PCs, WatcherStates
<1>3. PermitsAccounted'
  BY DEF IInv, AcquireN, PermitsAccounted, Outstanding, Pool!Outstanding
<1>4. MuHeldWhileParking' /\ ParkingSawNoRoom'
  BY DEF IInv, TypeOK, AcquireN, MuHeldWhileParking, ParkingSawNoRoom, Fits
<1>5. NoLostRelease'
  BY DEF IInv, TypeOK, AcquireN, NoLostRelease, Fits
<1> QED
  BY <1>2, <1>3, <1>4, <1>5 DEF IInv

\* Taking n permits that fit, by a goroutine that is not on the wait list.
LEMMA TakeStep ==
  ASSUME IInv, NEW p \in Procs, NEW n \in Nat, Fits(n), mu = NoProc,
         pc[p] \in {"idle", "locking"},
         pc' = [pc EXCEPT ![p] = "idle"],
         inFlight' = inFlight + n, held' = [held EXCEPT ![p] = @ + n],
         need' \in [Procs -> (Sizes \cap 0..Capacity) \cup {0}],
         \A q \in Procs \ {p} : need'[q] = need[q],
         cancelled' = cancelled, mu' = mu, watcher' \in [Procs -> WatcherStates]
  PROVE  IInv'
<1>1. inFlight \in Nat /\ held[p] \in Nat /\ held[p] <= inFlight
  BY Typing, HeldBound DEF IInv
<1>2. held[p] + n \in 0..Capacity /\ inFlight + n \in 0..Capacity
  BY <1>1, CapacityAssumption DEF Fits
<1>3. TypeOK'
  BY <1>2 DEF IInv, TypeOK, PCs
<1>4. PermitsAccounted'
  <2>1. held[p] + n <= Capacity
    BY <1>2, CapacityAssumption
  <2>2. Cardinality(Outstanding') = Cardinality(Outstanding) + n
    BY <2>1, TakeCounts DEF IInv
  <2> QED
    BY <2>2 DEF IInv, PermitsAccounted
<1>5. \A q \in Procs : pc'[q] # "parking" /\ pc[q] # "parking"
  BY ProcsAssumption DEF IInv, TypeOK, MuHeldWhileParking
<1>6. MuHeldWhileParking' /\ ParkingSawNoRoom'
  BY <1>5, ProcsAssumption DEF MuHeldWhileParking, ParkingSawNoRoom
<1>7. NoLostRelease'
  <2> SUFFICES ASSUME NEW q \in Procs, pc'[q] = "waiting", Fits(need[q])'
               PROVE  \E r \in Procs : pc'[r] = "broadcasting"
    BY DEF NoLostRelease
  <2>1. q # p /\ pc[q] = "waiting" /\ need'[q] = need[q] /\ need[q] \in Nat
    BY Typing DEF IInv, TypeOK
  <2>2. Fits(need[q])
    BY <1>1, <2>1, CapacityAssumption DEF Fits
  <2>3. PICK r \in Procs : pc[r] = "broadcasting"
    BY <2>1, <2>2 DEF IInv, NoLostRelease
  <2> QED
    BY <2>3 DEF IInv, TypeOK
<1> QED
  BY <1>3, <1>4, <1>6, <1>7 DEF IInv

\* Leaving AcquireN with n permits takes them, by TakeStep.
LEMMA GrantStep ==
  ASSUME IInv, NEW p \in Procs, Grant(p)
  PROVE  IInv'
<1>1. need[p] \in Nat
  BY Typing DEF IInv
<1>2. /\ need' \in [Procs -> (Sizes \cap 0..Capacity) \cup {0}]
      /\ \A q \in Procs \ {p} : need'[q] = need[q]
      /\ watcher' \in [Procs -> WatcherStates]
      /\ pc' = [pc EXCEPT ![p] = "idle"]
  BY CapacityAssumption DEF IInv, TypeOK, Grant, ReturnFrom, WatcherStates
<1> QED
  BY <1>1, <1>2, TakeStep DEF Grant

\* TryAcquireN takes all n permits, by TakeStep, or nothing.
LEMMA TryStep ==
  ASSUME IInv, NEW p \in Procs, NEW n \in Sizes, TryAcquireN(p, n)
  PROVE  IInv'
<1>1. CASE n > 0 /\ Fits(n) /\ inFlight' = inFlight + n
           /\ held' = [held EXCEPT ![p] = @ + n]
  <2>1. pc' = [pc EXCEPT ![p] = "idle"]
    BY DEF IInv, TypeOK, TryAcquireN
  <2>2. n \in Nat
    BY SizesAssumption
  <2>3. /\ mu = NoProc /\ pc[p] \in {"idle", "locking"} /\ mu' = mu
        /\ need' \in [Procs -> (Sizes \cap 0..Capacity) \cup {0}]
        /\ \A q \in Procs \ {p} : need'[q] = need[q]
        /\ cancelled' = cancelled /\ watcher' \in [Procs -> WatcherStates]
    BY DEF IInv, TypeOK, TryAcquireN
  <2> QED
    BY <1>1, <2>1, <2>2, <2>3, TakeStep
<1>2. CASE UNCHANGED <<inFlight, held>>
  BY <1>2, QuietStep DEF TryAcquireN, IInv, TypeOK
<1> QED
  BY <1>1, <1>2 DEF TryAcquireN

\* Leaving AcquireN with the context's error disturbs nobody else.
LEMMA GiveUpStep ==
  ASSUME IInv, NEW p \in Procs, GiveUp(p)
  PROVE  IInv'
<1>1. TypeOK'
  BY CapacityAssumption DEF IInv, TypeOK, GiveUp, ReturnFrom, PCs, WatcherStates
<1>2. PermitsAccounted'
  BY DEF IInv, GiveUp, PermitsAccounted, Outstanding, Pool!Outstanding
<1>3. MuHeldWhileParking' /\ ParkingSawNoRoom'
  BY DEF IInv, TypeOK, GiveUp, ReturnFrom, MuHeldWhileParking, ParkingSawNoRoom, Fits
<1>4. NoLostRelease'
  BY DEF IInv, TypeOK, GiveUp, ReturnFrom, NoLostRelease, Fits
<1> QED
  BY <1>1, <1>2, <1>3, <1>4 DEF IInv

\* Between ctx.Err and Wait, mu is held and there is no room.
LEMMA ParkStep ==
  ASSUME IInv, NEW p \in Procs, Park(p)
  PROVE  IInv'
<1>1. TypeOK'
  BY DEF IInv, TypeOK, Park, PCs
<1>2. PermitsAccounted'
  BY DEF IInv, Park, PermitsAccounted, Outstanding, Pool!Outstanding
<1>3. MuHeldWhileParking' /\ ParkingSawNoRoom'
  BY ProcsAssumption
     DEF IInv, TypeOK, Park, MuHeldWhileParking, ParkingSawNoRoom, Fits
<1>4. NoLostRelease'
  BY DEF IInv, TypeOK, Park, NoLostRelease, Fits
<1> QED
  BY <1>1, <1>2, <1>3, <1>4 DEF IInv

\* The step the lock is for: what p saw before Wait holds as it registers.
LEMMA WaitStep ==
  ASSUME IInv, NEW p \in Procs, Wait(p)
  PROVE  IInv'
<1>1. TypeOK'
  BY DEF IInv, TypeOK, Wait, PCs
<1>2. PermitsAccounted'
  BY DEF IInv, Wait, PermitsAccounted, Outstanding, Pool!Outstanding
<1>3. MuHeldWhileParking' /\ ParkingSawNoRoom'
  BY ProcsAssumption
     DEF IInv, TypeOK, Wait, MuHeldWhileParking, ParkingSawNoRoom, Fits
<1>4. ~Fits(need[p])
  BY DEF IInv, Wait, ParkingSawNoRoom
<1>5. NoLostRelease'
  BY <1>4 DEF IInv, TypeOK, Wait, NoLostRelease, Fits
<1> QED
  BY <1>1, <1>2, <1>3, <1>5 DEF IInv

\* ReleaseN makes room and owes a Broadcast in the same step.
LEMMA ReleaseStep ==
  ASSUME IInv, NEW p \in Procs, NEW n \in Sizes, ReleaseN(p, n)
  PROVE  IInv'
<1>1. /\ inFlight \in Nat /\ held[p] \in Nat /\ n \in Nat
      /\ held[p] <= inFlight /\ n <= held[p]
  BY Typing, HeldBound, SizesAssumption DEF IInv, ReleaseN
<1>2. TypeOK'
  BY <1>1, CapacityAssumption DEF IInv, TypeOK, ReleaseN, PCs
<1>3. PermitsAccounted'
  BY <1>1, GiveCounts DEF IInv, ReleaseN, PermitsAccounted
<1>4. \A q \in Procs : pc'[q] # "parking" /\ pc[q] # "parking"
  BY ProcsAssumption DEF IInv, TypeOK, ReleaseN, MuHeldWhileParking
<1>5. MuHeldWhileParking' /\ ParkingSawNoRoom'
  BY <1>4, ProcsAssumption DEF ReleaseN, MuHeldWhileParking, ParkingSawNoRoom
<1>6. NoLostRelease'
  BY DEF IInv, TypeOK, ReleaseN, NoLostRelease
<1> QED
  BY <1>2, <1>3, <1>5, <1>6 DEF IInv

\* A broadcast by p, from ReleaseN or from a watcher, empties the wait list.
LEMMA WakeStep ==
  ASSUME IInv, NEW p \in Procs, ReleaseBroadcast(p) \/ WatcherBroadcast(p)
  PROVE  IInv'
<1>1. TypeOK'
  BY DEF IInv, TypeOK, ReleaseBroadcast, WatcherBroadcast, WakeAll, PCs, WatcherStates
<1>2. PermitsAccounted'
  BY DEF IInv, ReleaseBroadcast, WatcherBroadcast, PermitsAccounted,
         Outstanding, Pool!Outstanding
<1>3. MuHeldWhileParking' /\ ParkingSawNoRoom'
  <2>1. \A q \in Procs : WakeAll[q] = "parking" <=> pc[q] = "parking"
    BY DEF WakeAll
  <2>2. WakeAll = [q \in Procs |-> WakeAll[q]]
    BY DEF WakeAll
  <2>3. \A q \in Procs : pc'[q] = "parking" <=> pc[q] = "parking"
    <3>1. CASE WatcherBroadcast(p)
      BY <2>1, <3>1 DEF WatcherBroadcast
    <3>2. CASE ReleaseBroadcast(p)
      BY <2>1, <2>2, <3>2 DEF ReleaseBroadcast
    <3> QED
      BY <3>1, <3>2
  <2>4. UNCHANGED <<mu, inFlight, need>>
    BY DEF ReleaseBroadcast, WatcherBroadcast
  <2> QED
    BY <2>3, <2>4 DEF IInv, MuHeldWhileParking, ParkingSawNoRoom, Fits
<1>4. NoLostRelease'
  <2>1. \A q \in Procs : WakeAll[q] # "waiting"
    BY DEF WakeAll
  <2>2. WakeAll = [q \in Procs |-> WakeAll[q]]
    BY DEF WakeAll
  <2>3. \A q \in Procs : pc'[q] # "waiting"
    BY <2>1, <2>2 DEF ReleaseBroadcast, WatcherBroadcast
  <2> QED
    BY <2>3 DEF NoLostRelease
<1> QED
  BY <1>1, <1>2, <1>3, <1>4 DEF IInv

\* Every step preserves the inductive invariant.
LEMMA NextIInv == IInv /\ [Next]_vars => IInv'
<1> SUFFICES ASSUME IInv, [Next]_vars PROVE IInv'
  OBVIOUS
<1>1. CASE UNCHANGED vars
  BY <1>1, QuietStep DEF vars, IInv, TypeOK
<1>2. CASE Next
  <2>1. PICK p \in Procs : Internal(p) \/ Call(p)
    BY <1>2 DEF Next
  <2>2. CASE Internal(p)
    <3>1. CASE WatcherExit(p)
      BY <3>1, QuietStep DEF WatcherExit, IInv, TypeOK, WatcherStates
    <3> QED
      BY <2>2, <3>1, GrantStep, GiveUpStep, ParkStep, WaitStep, WakeStep DEF Internal
  <2>3. CASE Call(p)
    <3>1. CASE Cancel(p) \/ FreshContext(p)
      BY <3>1, QuietStep DEF Cancel, FreshContext, IInv, TypeOK
    <3>2. CASE \E n \in Sizes : AcquireReturnsAtOnce(p, n) \/ ReleaseRefused(p, n)
      BY <3>2, <1>1 DEF AcquireReturnsAtOnce, ReleaseRefused
    <3> QED
      BY <2>3, <3>1, <3>2, AcquireStep, TryStep, ReleaseStep DEF Call
  <2> QED
    BY <2>1, <2>2, <2>3
<1> QED
  BY <1>1, <1>2

-----------------------------------------------------------------------------
\* The inductive invariant holds in every reachable state of the limiter.
THEOREM Invariance == Spec => []IInv
BY InitIInv, NextIInv, PTL DEF Spec

\* Types hold in every reachable state, whatever the constants.
THEOREM TypeCorrect == Spec => []TypeOK
<1>1. IInv => TypeOK
  BY DEF IInv
<1> QED
  BY <1>1, Invariance, PTL

\* limiter.go's inFlight always equals the permits that callers hold.
THEOREM PermitsAlwaysAccounted == Spec => []PermitsAccounted
<1>1. IInv => PermitsAccounted
  BY DEF IInv
<1> QED
  BY <1>1, Invariance, PTL

\* No goroutine sleeps in AcquireN while its request fits and no Broadcast of
\* ReleaseN is on its way.
THEOREM NoReleaseLost == Spec => []NoLostRelease
<1>1. IInv => NoLostRelease
  BY DEF IInv
<1> QED
  BY <1>1, Invariance, PTL

-----------------------------------------------------------------------------
\* The instance brings its own copy of the standard operator.
LEMMA SameCardinality == Pool!Cardinality(Pool!Outstanding) = Cardinality(Outstanding)
BY DEF Outstanding, Pool!Cardinality, Cardinality

\* A new semaphore is a pool with nothing taken.
LEMMA InitImplementsPool == Init => Pool!Init
BY DEF Init, Pool!Init

\* Each step of the semaphore takes, gives or leaves alone the permits.
LEMMA StepImplementsPool == IInv /\ [Next]_vars => [Pool!Next]_held
<1> SUFFICES ASSUME IInv, [Next]_vars, held' # held PROVE Pool!Next
  OBVIOUS
<1>0. Pool!Cardinality(Pool!Outstanding) = inFlight
  BY SameCardinality DEF IInv, PermitsAccounted
<1>1. Next
  BY DEF vars
<1>2. PICK p \in Procs : Internal(p) \/ Call(p)
  BY <1>1 DEF Next
<1>3. CASE Grant(p)
  <2>1. Pool!Take(p, need[p])
    BY <1>0, <1>3 DEF Grant, Fits, Pool!Take
  <2>2. need[p] # 0
    <3>1. SUFFICES ASSUME need[p] = 0 PROVE held' = held
      OBVIOUS
    <3>2. held \in [Procs -> 0..Capacity] /\ held[p] \in Nat /\ held[p] + 0 = held[p]
      BY Typing, CapacityAssumption DEF IInv, TypeOK
    <3>3. held' = [held EXCEPT ![p] = held[p]]
      BY <1>3, <3>1, <3>2 DEF Grant
    <3> QED
      BY <3>2, <3>3
  <2>3. need[p] \in Sizes
    BY <2>2 DEF IInv, TypeOK
  <2> QED
    BY <2>1, <2>3 DEF Pool!Next
<1>4. CASE \E n \in Sizes : TryAcquireN(p, n)
  <2>1. PICK n \in Sizes : TryAcquireN(p, n)
    BY <1>4
  <2>2. Pool!Take(p, n)
    BY <1>0, <2>1 DEF TryAcquireN, Fits, Pool!Take
  <2> QED
    BY <2>2 DEF Pool!Next
<1>5. CASE \E n \in Sizes : ReleaseN(p, n)
  <2>1. PICK n \in Sizes : ReleaseN(p, n)
    BY <1>5
  <2>2. Pool!Give(p, n)
    BY <2>1 DEF ReleaseN, Pool!Give
  <2> QED
    BY <2>2 DEF Pool!Next
<1> QED
  BY <1>2, <1>3, <1>4, <1>5
     DEF Internal, Call, vars, GiveUp, Park, Wait, ReleaseBroadcast, WatcherBroadcast,
         WatcherExit, Cancel, FreshContext, AcquireReturnsAtOnce, AcquireN, ReleaseRefused

\* The semaphore implements the pool of permits.
THEOREM Refinement == Spec => ImplementsPool
BY InitImplementsPool, StepImplementsPool, Invariance, PTL
   DEF Spec, ImplementsPool, Pool!Spec
=============================================================================
