--------------------------- MODULE CircuitBreaker ---------------------------
(***************************************************************************)
(* internal/circuitbreaker: concurrent callers of Do on one Breaker.       *)
(*                                                                         *)
(* Every step that touches the breaker runs under mu.  The steps are cut   *)
(* where mu is given up: while an operation runs, and while transition     *)
(* calls OnStateChange.  Time is the age of the last opening, which stops  *)
(* counting once the cooldown is over.  The totals of Stats are left out.  *)
(***************************************************************************)
EXTENDS Naturals, FiniteSets

CONSTANTS Callers,   \* goroutines that call Do
          Resetters, \* goroutines that call Reset
          Threshold, \* Config.Threshold
          Cooldown,  \* Config.Cooldown
          Nobody

ASSUME BreakerAssumption == /\ Threshold \in Nat \ {0} /\ Cooldown \in Nat \ {0}
                            /\ Nobody \notin Callers

VARIABLES state,    \* Breaker.state
          failures, \* Breaker.failures
          age,      \* now - openedAt, up to Cooldown
          pc,       \* where each goroutine is
          probing,  \* probing[p]: p's call was admitted as a half-open probe
          prober,   \* history: the caller that last moved Open to HalfOpen
          panicked, \* history: that caller's operation panicked
          lateWrite \* history: a failures write landed after the state had moved on

vars == <<state, failures, age, pc, probing, prober, panicked, lateWrite>>
history == <<prober, panicked, lateWrite>>

States == {"closed", "open", "halfOpen"}

PCs == {"idle",
        "running",  \* inside op
        "admitted", \* in OnStateChange(Open, HalfOpen), op to come
        "tripped",  \* in OnStateChange(HalfOpen, Open), the failures write to come
        "notified"} \* in OnStateChange, nothing to do after it

Init == /\ state = "closed"
        /\ failures = 0
        /\ age = Cooldown
        /\ pc = [p \in Callers \cup Resetters |-> "idle"]
        /\ probing = [p \in Callers |-> FALSE]
        /\ prober = Nobody
        /\ panicked = FALSE
        /\ lateWrite = FALSE

Goto(p, place) == pc' = [pc EXCEPT ![p] = place]

\* The clock moves while somebody may still be counting.
Tick == /\ age < Cooldown
        /\ age' = age + 1
        /\ UNCHANGED <<state, failures, pc, probing, history>>

-----------------------------------------------------------------------------
(* Do: allow.                                                              *)
AllowClosed(p) == /\ pc[p] = "idle" /\ state = "closed"
                  /\ Goto(p, "running")
                  /\ probing' = [probing EXCEPT ![p] = FALSE]
                  /\ UNCHANGED <<state, failures, age, history>>

\* Slip: the call is let through and the state stays Open.
AllowProbeQuietly(p) ==
  /\ pc[p] = "idle" /\ state = "open" /\ age = Cooldown
  /\ prober' = p /\ panicked' = FALSE
  /\ probing' = [probing EXCEPT ![p] = TRUE]
  /\ Goto(p, "running")
  /\ UNCHANGED <<state, failures, age, lateWrite>>

\* The cooldown is over: this call is the probe.
AllowProbe(p) == /\ pc[p] = "idle" /\ state = "open" /\ age = Cooldown
                 /\ state' = "halfOpen"
                 /\ prober' = p /\ panicked' = FALSE
                 /\ probing' = [probing EXCEPT ![p] = TRUE]
                 /\ Goto(p, "admitted")
                 /\ UNCHANGED <<failures, age, lateWrite>>

\* ErrOpen (or a context cancelled beforehand): only totals change.
Refuse(p) == /\ pc[p] = "idle"
             /\ state = "halfOpen" \/ (state = "open" /\ age < Cooldown)
             /\ UNCHANGED vars

\* OnStateChange has returned: op starts.
StartProbe(p) == /\ pc[p] = "admitted"
                 /\ Goto(p, "running")
                 /\ UNCHANGED <<state, failures, age, probing, history>>

-----------------------------------------------------------------------------
(* Do: op returns, recordResult acts on the state it finds.                *)
\* op panics: Do unwinds and recordResult is never called.
OpPanics(p) == /\ pc[p] = "running"
               /\ Goto(p, "idle")
               /\ probing' = [probing EXCEPT ![p] = FALSE]
               /\ panicked' = (panicked \/ p = prober)
               /\ UNCHANGED <<state, failures, age, prober, lateWrite>>

Returned(p) == probing' = [probing EXCEPT ![p] = FALSE]

\* The result is not counted as a failure.
SuccessClosed(p) == /\ pc[p] = "running" /\ state = "closed"
                    /\ failures' = 0
                    /\ Goto(p, "idle") /\ Returned(p)
                    /\ UNCHANGED <<state, age, history>>

\* Slip: the failure count survives the recovery.
SuccessHalfOpenKeeps(p) ==
  /\ pc[p] = "running" /\ state = "halfOpen"
  /\ state' = "closed"
  /\ Goto(p, "notified") /\ Returned(p)
  /\ UNCHANGED <<failures, age, history>>

\* Slip: recordResult ignores results in HalfOpen.
SuccessHalfOpenIgnored(p) ==
  /\ pc[p] = "running" /\ state = "halfOpen"
  /\ Goto(p, "idle") /\ Returned(p)
  /\ UNCHANGED <<state, failures, age, history>>

SuccessHalfOpen(p) == /\ pc[p] = "running" /\ state = "halfOpen"
                      /\ failures' = 0
                      /\ state' = "closed"
                      /\ Goto(p, "notified") /\ Returned(p)
                      /\ UNCHANGED <<age, history>>

FailClosed(p) == /\ pc[p] = "running" /\ state = "closed"
                 /\ failures' = failures + 1
                 /\ IF failures' >= Threshold
                    THEN age' = 0 /\ state' = "open" /\ Goto(p, "notified")
                    ELSE Goto(p, "idle") /\ UNCHANGED <<state, age>>
                 /\ Returned(p)
                 /\ UNCHANGED history

FailHalfOpen(p) == /\ pc[p] = "running" /\ state = "halfOpen"
                   /\ age' = 0
                   /\ state' = "open"
                   /\ Goto(p, "tripped") /\ Returned(p)
                   /\ UNCHANGED <<failures, history>>

\* A result that comes while the breaker is Open changes nothing but totals.
ResultOpen(p) == /\ pc[p] = "running" /\ state = "open"
                 /\ Goto(p, "idle") /\ Returned(p)
                 /\ UNCHANGED <<state, failures, age, history>>

\* The probe's OnStateChange has returned and mu is taken again: failures is
\* written whatever the state is by now.
WriteFailures(p) == /\ pc[p] = "tripped"
                    /\ failures' = Threshold
                    /\ lateWrite' = (lateWrite \/ state # "open")
                    /\ Goto(p, "idle")
                    /\ UNCHANGED <<state, age, probing, prober, panicked>>

CallbackReturns(p) == /\ pc[p] = "notified"
                      /\ Goto(p, "idle")
                      /\ UNCHANGED <<state, failures, age, probing, history>>

-----------------------------------------------------------------------------
\* Reset: closed again, no failures, openedAt long ago.
Reset(p) == /\ p \in Resetters /\ pc[p] = "idle"
            /\ failures' = 0
            /\ age' = Cooldown
            /\ state' = "closed"
            /\ Goto(p, IF state = "closed" THEN "idle" ELSE "notified")
            /\ UNCHANGED <<probing, history>>

-----------------------------------------------------------------------------
Allow(p) == AllowClosed(p) \/ AllowProbe(p) \/ Refuse(p)

Record(p) == \/ SuccessClosed(p) \/ SuccessHalfOpen(p)
             \/ FailClosed(p) \/ FailHalfOpen(p) \/ ResultOpen(p)

Next == \/ Tick
        \/ \E p \in Callers : Allow(p) \/ StartProbe(p) \/ Record(p) \/ OpPanics(p)
                              \/ WriteFailures(p)
        \/ \E p \in Callers \cup Resetters : CallbackReturns(p)
        \/ \E p \in Resetters : Reset(p)

Spec == Init /\ [][Next]_vars

\* Time passes, operations and listeners return, and callers keep calling.
Fairness == /\ WF_vars(Tick)
            /\ \A p \in Callers : /\ WF_vars(AllowClosed(p) \/ AllowProbe(p))
                                  /\ WF_vars(StartProbe(p))
                                  /\ WF_vars(Record(p)) /\ WF_vars(WriteFailures(p))
            /\ \A p \in Callers \cup Resetters : WF_vars(CallbackReturns(p))

FairSpec == Spec /\ Fairness

-----------------------------------------------------------------------------
\* Every variable keeps the type its declaration gives it; failures passes the
\* threshold by one at most.
TypeOK == /\ state \in States
          /\ failures \in 0..(Threshold + 1)
          /\ age \in 0..Cooldown
          /\ pc \in [Callers \cup Resetters -> PCs]
          /\ probing \in [Callers -> BOOLEAN]
          /\ prober \in Callers \cup {Nobody}
          /\ panicked \in BOOLEAN /\ lateWrite \in BOOLEAN

\* HalfOpen rejects every call and waits for a result, so there must be a call
\* whose result will come: the one that entered HalfOpen last, unless its
\* operation panicked, after which nothing but a stale call or Reset helps.
HalfOpenHasProbe ==
  state = "halfOpen" => \/ probing[prober] /\ pc[prober] \in {"admitted", "running"}
                        \/ panicked

\* A closed breaker has failures to spare, except after recordResult's write
\* of failures behind the callback has hit a state other than Open.
ClosedBelowThreshold == state = "closed" /\ ~lateWrite => failures < Threshold

\* The breaker does not stay in HalfOpen, unless its probe panicked.
HalfOpenEnds == (state = "halfOpen") ~> (state # "halfOpen" \/ panicked)

\* With callers coming, an open breaker lets one through in the end.
OpenEnds == (state = "open") ~> (state # "open")

\* "Half-open lets exactly one probe through; concurrent callers see ErrOpen
\* until the probe finishes."
OneProbe == \A p, q \in Callers :
  probing[p] /\ probing[q] /\ state = "halfOpen" => p = q

\* "Threshold is the consecutive-failure count that trips the breaker."
FullThreshold == state = "closed" => failures < Threshold
=============================================================================
