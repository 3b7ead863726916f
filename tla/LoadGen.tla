------------------------------ MODULE LoadGen ------------------------------
(***************************************************************************)
(* cmd/loadgen: the text UI starts an Engine, whose workers send requests  *)
(* until its deadline or a cancellation, and polls it with a LiveView      *)
(* (internal/tui/live.go) until the engine is done.                        *)
(*                                                                         *)
(* bubbletea (external) hands Update one message at a time, in any order;  *)
(* see Migrate.  A second Enter on the duration picker may come before the *)
(* message of the first, and starts a second engine.                       *)
(***************************************************************************)
EXTENDS Integers, FiniteSets, Sequences, SequencesExt

CONSTANTS Engines,   \* bound: engines one program starts
          Workers,   \* Concurrency
          Latencies, \* durations of answers
          MaxAnswers, \* bound: requests that are recorded, in all
          MaxKeys,   \* bound: Enter keys pressed
          None

VARIABLES state,     \* of each engine: "none", "running" or "done"
          cancelled, \* its runCtx is done
          worker,    \* where each of its workers is
          total, errors, latencies, \* Engine's counters
          refused,   \* requests that failed without an answer
          engine,    \* model.engine, and what model.cancel cancels
          phase,     \* "concurrency", "duration", "dashboard", "done"
          msgs,      \* messages under way to Update
          keys,      \* Enter keys pressed
          final,     \* LiveView.last, which LiveDoneMsg repeats and the last screen shows
          exit       \* the program has ended

vars == <<state, cancelled, worker, total, errors, latencies, refused, engine, phase, msgs,
          keys, final, exit>>
counters == <<total, errors, latencies, refused>>
running == <<state, cancelled, worker>>
ui == <<engine, phase, msgs, keys, final, exit>>

Init == /\ state = [e \in Engines |-> "none"]
        /\ cancelled = [e \in Engines |-> FALSE]
        /\ worker = [e \in Engines |-> [w \in Workers |-> "none"]]
        /\ total = [e \in Engines |-> 0] /\ errors = total /\ refused = total
        /\ latencies = [e \in Engines |-> <<>>]
        /\ engine = None
        /\ phase = "concurrency" /\ msgs = {}
        /\ keys = 0
        /\ final = <<>> /\ exit = FALSE

-----------------------------------------------------------------------------
(* Engine.                                                                 *)
WorkerGoes(e, w, label) == worker' = [worker EXCEPT ![e][w] = label]

\* The deadline of runCtx.
DeadlinePasses(e) == /\ state[e] = "running" /\ ~cancelled[e] /\ ~exit
                     /\ cancelled' = [cancelled EXCEPT ![e] = TRUE]
                     /\ UNCHANGED <<state, worker, counters, ui>>

\* workerLoop: ctx.Err, then the request or the end.
Loop(e, w) == /\ worker[e][w] = "looping" /\ ~exit
              /\ WorkerGoes(e, w, IF cancelled[e] THEN "left" ELSE "waiting")
              /\ UNCHANGED <<state, cancelled, counters, ui>>

\* issueOne: an answer is recorded with its latency, a failure as an error,
\* and a context.Canceled or DeadlineExceeded not at all, the http.Client's
\* own timeout in the middle of the run among them.
IssueOne(e, w) ==
  /\ worker[e][w] = "waiting" /\ ~exit
  /\ WorkerGoes(e, w, "looping")
  /\ \/ /\ FoldFunction(+, 0, total) < MaxAnswers
        /\ total' = [total EXCEPT ![e] = @ + 1]
        /\ \/ \E bad \in {0, 1}, dur \in Latencies :
                /\ errors' = [errors EXCEPT ![e] = @ + bad]
                /\ latencies' = [latencies EXCEPT ![e] = Append(@, dur)]
                /\ UNCHANGED refused
           \/ /\ errors' = [errors EXCEPT ![e] = @ + 1]
              /\ refused' = [refused EXCEPT ![e] = @ + 1]
              /\ UNCHANGED latencies
     \/ UNCHANGED counters
  /\ UNCHANGED <<state, cancelled, ui>>

\* Slip: one worker that has left is enough.
SomeLeft(e) == \E w \in Workers : worker[e][w] = "left"

AllLeft(e) == \A w \in Workers : worker[e][w] = "left"

\* wg.Wait returns and Start marks the engine done.
Join(e) == /\ state[e] = "running" /\ AllLeft(e) /\ ~exit
           /\ state' = [state EXCEPT ![e] = "done"]
           /\ UNCHANGED <<cancelled, worker, counters, ui>>

\* math.Round((n - 1) * percent / 100).
Index(n, percent) == ((n - 1) * percent + 50) \div 100

\* sort.Slice: the same elements, by way of some order of their indexes.
Sorted(seq) == LET order == CHOOSE o \in [DOMAIN seq -> DOMAIN seq] :
                              /\ IsInjective(o)
                              /\ \A i, j \in DOMAIN seq : i < j => seq[o[i]] <= seq[o[j]]
               IN  [i \in DOMAIN seq |-> seq[order[i]]]

Percentile(seq, percent) == IF seq = <<>> THEN 0
                            ELSE Sorted(seq)[Index(Len(seq), percent) + 1]

Snapshot(e) == [total |-> total[e], errors |-> errors[e],
                p50 |-> Percentile(latencies[e], 50), p95 |-> Percentile(latencies[e], 95)]

-----------------------------------------------------------------------------
(* The text UI.                                                            *)
Enter(tag) == /\ ~exit /\ keys < MaxKeys /\ phase = tag
              /\ keys' = keys + 1
              /\ msgs' = msgs \cup {<<tag, keys>>}
              /\ UNCHANGED <<running, counters, engine, phase, final, exit>>

Handles(tag) == ~exit /\ \E k \in 0..MaxKeys : <<tag, k>> \in msgs /\ msgs' = msgs \ {<<tag, k>>}

OnConcurrency == /\ Handles("concurrency")
                 /\ phase' = "duration"
                 /\ UNCHANGED <<running, counters, engine, keys, final, exit>>

Unused == {e \in Engines : state[e] = "none"}

\* A new engine, its goroutines and a LiveView with its first tick.
OnDuration(e) ==
  /\ Unused # {} /\ e = CHOOSE d \in Unused : TRUE
  /\ ~exit /\ \E k \in 0..MaxKeys : /\ <<"duration", k>> \in msgs
                                    /\ msgs' = (msgs \ {<<"duration", k>>}) \cup {<<"tick", k>>}
  /\ state' = [state EXCEPT ![e] = "running"]
  /\ worker' = [worker EXCEPT ![e] = [w \in Workers |-> "looping"]]
  /\ engine' = e /\ phase' = "dashboard"
  /\ UNCHANGED <<cancelled, counters, keys, final, exit>>

\* Slip: the sample is rendered and nobody asks for the next tick.
TicksOnce(k) == {}

TicksOn(k) == {<<"tick", k>>}

\* LiveView.Update, while it is the phase; the sampler is its engine.
OnTick == \E k \in 0..MaxKeys :
            /\ ~exit /\ <<"tick", k>> \in msgs
            /\ IF phase # "dashboard" THEN msgs' = msgs \ {<<"tick", k>>} /\ UNCHANGED final
               ELSE /\ final' = Snapshot(engine)
                    /\ msgs' = (msgs \ {<<"tick", k>>}) \cup
                         (IF state[engine] = "done" THEN {<<"live-done", k>>} ELSE TicksOn(k))
            /\ UNCHANGED <<running, counters, engine, phase, keys, exit>>

CancelsEngine == IF engine = None THEN UNCHANGED cancelled
                 ELSE cancelled' = [cancelled EXCEPT ![engine] = TRUE]

\* Final is the snapshot that reported done, which the last tick left.
OnDashboardDone == /\ Handles("live-done")
                   /\ CancelsEngine
                   /\ phase' = "done"
                   /\ UNCHANGED <<state, worker, counters, engine, keys, final, exit>>

\* q or ctrl+c.
Quit == /\ ~exit
        /\ CancelsEngine
        /\ exit' = TRUE
        /\ UNCHANGED <<state, worker, counters, engine, phase, msgs, keys, final>>

Work(e) == \/ DeadlinePasses(e) \/ Join(e)
           \/ \E w \in Workers : Loop(e, w) \/ IssueOne(e, w)

Next == \/ \E e \in Engines : Work(e) \/ OnDuration(e)
        \/ \E tag \in {"concurrency", "duration"} : Enter(tag)
        \/ OnConcurrency \/ OnTick \/ OnDashboardDone \/ Quit

\* Deadlines pass, answers come or the context ends the wait for them, and
\* goroutines and messages have their turn.
Fairness == /\ WF_vars(OnTick) /\ WF_vars(OnDashboardDone)
            /\ \A e \in Engines :
                 /\ WF_vars(DeadlinePasses(e)) /\ WF_vars(Join(e))
                 /\ \A w \in Workers : WF_vars(Loop(e, w)) /\ WF_vars(IssueOne(e, w))

Spec == Init /\ [][Next]_vars /\ Fairness

-----------------------------------------------------------------------------
(* What the last screen shows is final and adds up: nothing is recorded    *)
(* after the engine is done, every request counted was answered or failed, *)
(* half of the latencies are at p50 or below, and p95 is above it or       *)
(* equal.  A second engine, from a second Enter, takes model.engine over   *)
(* and its counters need not be final: the property is about the only one. *)
OnlyEngine == \A e \in Engines : e # engine => state[e] = "none"

FinalIsFinal ==
  phase = "done" /\ OnlyEngine =>
    LET e == engine
        l == latencies[e]
    IN  /\ final = Snapshot(e)
        /\ total[e] = Len(l) + refused[e]
        /\ 2 * Cardinality({i \in DOMAIN l : l[i] <= final.p50}) >= Len(l)
        /\ 2 * Cardinality({i \in DOMAIN l : l[i] < final.p50}) <= Len(l)
        /\ final.p50 <= final.p95

(* The dashboard comes to an end, by the deadline or by the user; a late   *)
(* message of a second Enter on the first picker leads back to the other.  *)
DashboardEnds == phase = "dashboard" ~> phase \in {"done", "duration"} \/ exit

(* Quitting cancels every engine that runs.  False of the code for a user  *)
(* who presses Enter twice on the duration: the second engine's cancel     *)
(* takes the place of the first one's.  Stated, not checked.               *)
QuitCancelsAll == exit => \A e \in Engines : state[e] = "running" => cancelled[e]
=============================================================================
