------------------------ MODULE CircuitBreakerProofs ------------------------
(***************************************************************************)
(* Safety of internal/circuitbreaker for every set of callers, threshold   *)
(* and cooldown.                                                           *)
(***************************************************************************)
EXTENDS CircuitBreaker, TLAPS

\* Only a caller of Do moves the breaker to HalfOpen.
HalfOpenByCaller == state = "halfOpen" => prober \in Callers

\* Even a late write leaves a closed breaker at the threshold, not beyond, so
\* that the next failure still opens it.
ClosedAtMostThreshold == state = "closed" => failures <= Threshold

\* The inductive invariant.
IInv == /\ TypeOK
        /\ HalfOpenByCaller
        /\ HalfOpenHasProbe
        /\ ClosedAtMostThreshold
        /\ ClosedBelowThreshold

Goroutines == Callers \cup Resetters

-----------------------------------------------------------------------------
\* A new breaker is closed with no failures.
LEMMA InitIInv == Init => IInv
<1> SUFFICES ASSUME Init PROVE IInv
  OBVIOUS
<1>1. TypeOK
  <2>1. probing \in [Callers -> BOOLEAN]
    BY DEF Init
  <2>2. failures \in 0..(Threshold + 1) /\ age \in 0..Cooldown
    BY BreakerAssumption DEF Init
  <2>3. pc \in [Callers \cup Resetters -> PCs]
    BY DEF Init, PCs
  <2> QED
    BY <2>1, <2>2, <2>3 DEF Init, TypeOK, States
<1>2. HalfOpenByCaller /\ HalfOpenHasProbe
  BY DEF Init, HalfOpenByCaller, HalfOpenHasProbe
<1>3. ClosedAtMostThreshold /\ ClosedBelowThreshold
  BY BreakerAssumption DEF Init, ClosedAtMostThreshold, ClosedBelowThreshold
<1> QED
  BY <1>1, <1>2, <1>3 DEF IInv

\* A step that leaves the breaker alone, and the probe in its operation.
LEMMA QuietStep ==
  ASSUME IInv, UNCHANGED <<state, failures, history>>,
         age' \in 0..Cooldown,
         pc' \in [Goroutines -> PCs], probing' \in [Callers -> BOOLEAN],
         \A p \in Callers : probing[p] /\ pc[p] \in {"admitted", "running"} =>
           state # "halfOpen" \/ (probing'[p] /\ pc'[p] \in {"admitted", "running"})
  PROVE  IInv'
BY DEF IInv, TypeOK, HalfOpenByCaller, HalfOpenHasProbe, ClosedAtMostThreshold,
       ClosedBelowThreshold, history, Goroutines

\* allow: a call goes through, as the probe or because the breaker is closed.
LEMMA AllowStep ==
  ASSUME IInv, NEW p \in Callers, Allow(p)
  PROVE  IInv'
<1>1. CASE AllowClosed(p)
  <2>1. pc' \in [Goroutines -> PCs] /\ probing' \in [Callers -> BOOLEAN]
    BY <1>1 DEF AllowClosed, Goto, IInv, TypeOK, PCs, Goroutines
  <2> QED
    BY <1>1, <2>1, QuietStep DEF AllowClosed, IInv, TypeOK, history
<1>2. CASE AllowProbe(p)
  <2>1. TypeOK'
    BY <1>2 DEF AllowProbe, Goto, IInv, TypeOK, PCs, States
  <2>2. probing'[p] /\ pc'[p] = "admitted" /\ prober' = p
    BY <1>2 DEF AllowProbe, Goto, IInv, TypeOK
  <2> QED
    BY <1>2, <2>1, <2>2
       DEF AllowProbe, IInv, HalfOpenByCaller, HalfOpenHasProbe, ClosedAtMostThreshold,
           ClosedBelowThreshold
<1>3. CASE Refuse(p)
  BY <1>3 DEF Refuse, vars, IInv, TypeOK, HalfOpenByCaller, HalfOpenHasProbe,
              ClosedAtMostThreshold, ClosedBelowThreshold
<1> QED
  BY <1>1, <1>2, <1>3 DEF Allow

\* recordResult: the cases by state and result.  Only a failure can take the
\* count to the threshold, and then the breaker opens.
LEMMA RecordStep ==
  ASSUME IInv, NEW p \in Callers, Record(p)
  PROVE  IInv'
<1> USE DEF IInv, Goto, Returned, HalfOpenByCaller, HalfOpenHasProbe, ClosedAtMostThreshold,
            ClosedBelowThreshold, history
<1>1. CASE SuccessClosed(p)
  <2>1. TypeOK'
    BY <1>1, BreakerAssumption DEF SuccessClosed, TypeOK, PCs
  <2> QED
    BY <1>1, <2>1, BreakerAssumption DEF SuccessClosed
<1>2. CASE SuccessHalfOpen(p)
  <2>1. TypeOK'
    BY <1>2, BreakerAssumption DEF SuccessHalfOpen, TypeOK, PCs, States
  <2> QED
    BY <1>2, <2>1, BreakerAssumption DEF SuccessHalfOpen
<1>3. CASE FailClosed(p)
  <2>1. failures \in Nat /\ failures' \in 0..(Threshold + 1)
    BY <1>3, BreakerAssumption DEF FailClosed, TypeOK
  <2>2. TypeOK'
    <3>1. CASE failures' >= Threshold
      BY <1>3, <2>1, <3>1, BreakerAssumption DEF FailClosed, TypeOK, PCs, States
    <3>2. CASE ~(failures' >= Threshold)
      BY <1>3, <2>1, <3>2, BreakerAssumption DEF FailClosed, TypeOK, PCs, States
    <3> QED
      BY <3>1, <3>2
  <2>3. state' # "halfOpen" /\ (state' = "closed" => failures' < Threshold)
    BY <1>3, <2>1, BreakerAssumption DEF FailClosed
  <2> QED
    BY <2>1, <2>2, <2>3, BreakerAssumption
<1>4. CASE FailHalfOpen(p)
  <2>1. TypeOK'
    BY <1>4, BreakerAssumption DEF FailHalfOpen, TypeOK, PCs, States
  <2> QED
    BY <1>4, <2>1 DEF FailHalfOpen
<1>5. CASE ResultOpen(p)
  <2>1. TypeOK'
    BY <1>5 DEF ResultOpen, TypeOK, PCs
  <2> QED
    BY <1>5, <2>1 DEF ResultOpen
<1> QED
  BY <1>1, <1>2, <1>3, <1>4, <1>5 DEF Record

\* A panic loses the probe and is remembered; no other call's panic matters.
LEMMA PanicStep ==
  ASSUME IInv, NEW p \in Callers, OpPanics(p)
  PROVE  IInv'
<1>1. TypeOK'
  BY DEF IInv, OpPanics, Goto, TypeOK, PCs
<1>2. HalfOpenHasProbe'
  <2>1. CASE p = prober
    BY <2>1 DEF OpPanics, HalfOpenHasProbe
  <2>2. CASE p # prober
    BY <2>2 DEF IInv, OpPanics, Goto, TypeOK, HalfOpenByCaller, HalfOpenHasProbe
  <2> QED
    BY <2>1, <2>2
<1> QED
  BY <1>1, <1>2 DEF IInv, OpPanics, HalfOpenByCaller, ClosedAtMostThreshold,
                    ClosedBelowThreshold

\* The write behind the callback: at most the threshold, and remembered if late.
LEMMA WriteStep ==
  ASSUME IInv, NEW p \in Callers, WriteFailures(p)
  PROVE  IInv'
<1>1. TypeOK'
  BY BreakerAssumption DEF IInv, WriteFailures, Goto, TypeOK, PCs
<1>2. HalfOpenHasProbe'
  BY DEF IInv, WriteFailures, Goto, TypeOK, HalfOpenByCaller, HalfOpenHasProbe
<1>3. HalfOpenByCaller'
  BY DEF IInv, WriteFailures, HalfOpenByCaller
<1>4. ClosedAtMostThreshold'
  BY BreakerAssumption DEF WriteFailures, ClosedAtMostThreshold
<1>5. ClosedBelowThreshold'
  <2>1. state' = "closed" => lateWrite'
    BY DEF WriteFailures
  <2> QED
    BY <2>1 DEF ClosedBelowThreshold
<1> QED
  BY <1>1, <1>2, <1>3, <1>4, <1>5 DEF IInv

\* Reset closes the breaker with an empty count.
LEMMA ResetStep ==
  ASSUME IInv, NEW p \in Resetters, Reset(p)
  PROVE  IInv'
<1>1. TypeOK'
  BY BreakerAssumption DEF IInv, Reset, Goto, TypeOK, PCs, States, history
<1> QED
  BY <1>1, BreakerAssumption
     DEF IInv, Reset, HalfOpenByCaller, HalfOpenHasProbe, ClosedAtMostThreshold,
         ClosedBelowThreshold

\* Every step preserves the inductive invariant.
LEMMA NextIInv == IInv /\ [Next]_vars => IInv'
<1> SUFFICES ASSUME IInv, [Next]_vars PROVE IInv'
  OBVIOUS
<1>1. CASE Tick
  BY <1>1, QuietStep, BreakerAssumption DEF Tick, IInv, TypeOK, history, Goroutines
<1>2. ASSUME NEW p \in Callers, Allow(p) \/ Record(p) \/ OpPanics(p) \/ WriteFailures(p)
      PROVE  IInv'
  BY <1>2, AllowStep, RecordStep, PanicStep, WriteStep
<1>3. ASSUME NEW p \in Callers, StartProbe(p)
      PROVE  IInv'
  <2>1. pc' \in [Goroutines -> PCs] /\ pc'[p] = "running"
        /\ \A q \in Callers : q # p => pc'[q] = pc[q]
    BY <1>3 DEF StartProbe, Goto, IInv, TypeOK, PCs, Goroutines
  <2> QED
    BY <1>3, <2>1, QuietStep DEF StartProbe, IInv, TypeOK, history
<1>4. ASSUME NEW p \in Goroutines, CallbackReturns(p)
      PROVE  IInv'
  <2>1. pc' \in [Goroutines -> PCs] /\ pc[p] = "notified"
        /\ \A q \in Callers : q # p => pc'[q] = pc[q]
    BY <1>4 DEF CallbackReturns, Goto, IInv, TypeOK, PCs, Goroutines
  <2> QED
    BY <1>4, <2>1, QuietStep DEF CallbackReturns, IInv, TypeOK, history
<1>5. CASE UNCHANGED vars
  BY <1>5, QuietStep DEF vars, IInv, TypeOK, history, Goroutines
<1> QED
  BY <1>1, <1>2, <1>3, <1>4, <1>5, ResetStep DEF Next, Goroutines

-----------------------------------------------------------------------------
\* The inductive invariant holds in every reachable state of the breaker.
THEOREM Invariance == Spec => []IInv
BY InitIInv, NextIInv, PTL DEF Spec

\* Types hold in every reachable state: recordResult never counts past the
\* threshold by more than one.
THEOREM TypeCorrect == Spec => []TypeOK
<1>1. IInv => TypeOK
  BY DEF IInv
<1> QED
  BY <1>1, Invariance, PTL

\* A half-open breaker always has the probe whose result it waits for, unless
\* that probe's operation panicked.
THEOREM ProbeAlwaysThere == Spec => []HalfOpenHasProbe
<1>1. IInv => HalfOpenHasProbe
  BY DEF IInv
<1> QED
  BY <1>1, Invariance, PTL

\* A closed breaker is below its threshold, unless a failures write came late.
THEOREM ClosedHasFailuresToSpare == Spec => []ClosedBelowThreshold
<1>1. IInv => ClosedBelowThreshold
  BY DEF IInv
<1> QED
  BY <1>1, Invariance, PTL
=============================================================================
