---------------------------- MODULE HealthCheck ----------------------------
(***************************************************************************)
(* internal/healthcheck: a Registry of liveness and readiness probes, each *)
(* check of which copies one of the two maps under mu, runs the copied     *)
(* probes in parallel and reports "ok" when all of them passed.            *)
(*                                                                         *)
(* A probe looks at one dependency, which goes down and comes up by itself.*)
(* One that finds it up may pass; any may return an error, panic, or run   *)
(* into the probe timeout, which is an error too.                          *)
(***************************************************************************)
EXTENDS Naturals, FiniteSets

CONSTANTS Names,  \* names of probes
          Deps,   \* what probes look at
          Checks, \* goroutines that serve /healthz and /readyz
          Nil     \* no probe of that name

VARIABLES readiness, liveness, \* name -> the dependency its probe looks at, or Nil
          shuttingDown,
          up,       \* dependencies that answer
          pc,       \* "idle", "begun", "probing" of each check
          kind,     \* "ready" or "live"
          probes,   \* the copied probes
          result,   \* what each of them came to so far
          report,   \* Report.Status of the last report
          kept,     \* probes registered ever since the check began
          seenUp,   \* dependencies that were up at some time since
          late      \* shutdown had begun before the check did

vars == <<readiness, liveness, shuttingDown, up, pc, kind, probes, result, report,
          kept, seenUp, late>>
registry == <<readiness, liveness, shuttingDown>>
check == <<pc, kind, probes, result, report, late>>

Map(k) == IF k = "ready" THEN readiness ELSE liveness

Registered(map) == {<<n, map[n]>> : n \in {m \in Names : map[m] # Nil}}

Init == /\ readiness = [n \in Names |-> Nil] /\ liveness = readiness
        /\ shuttingDown = FALSE
        /\ up \in SUBSET Deps
        /\ pc = [c \in Checks |-> "idle"]
        /\ kind = [c \in Checks |-> "ready"]
        /\ probes = [c \in Checks |-> {}]
        /\ result = [c \in Checks |-> <<>>]
        /\ report = [c \in Checks |-> "none"]
        /\ kept = probes /\ seenUp = probes
        /\ late = [c \in Checks |-> FALSE]

\* What is still registered of that which a check may count on.
Keep == kept' = [c \in Checks |-> kept[c] \cap Registered(Map(kind[c])')]

RegisterReadiness(n, d) == /\ readiness' = [readiness EXCEPT ![n] = d]
                           /\ UNCHANGED <<liveness, shuttingDown, up, check, seenUp>>
                           /\ Keep

RegisterLiveness(n, d) == /\ liveness' = [liveness EXCEPT ![n] = d]
                          /\ UNCHANGED <<readiness, shuttingDown, up, check, seenUp>>
                          /\ Keep

Unregister(n) == /\ readiness' = [readiness EXCEPT ![n] = Nil]
                 /\ liveness' = [liveness EXCEPT ![n] = Nil]
                 /\ UNCHANGED <<shuttingDown, up, check, seenUp>>
                 /\ Keep

SetShuttingDown == /\ shuttingDown' = TRUE
                   /\ UNCHANGED <<readiness, liveness, up, check, kept, seenUp>>

\* A dependency goes down or comes up.
Toggle(d) == /\ up' = IF d \in up THEN up \ {d} ELSE up \cup {d}
             /\ seenUp' = [c \in Checks |-> seenUp[c] \cup up']
             /\ UNCHANGED <<registry, check, kept>>

-----------------------------------------------------------------------------
\* CheckLiveness or CheckReadiness is called; the latter looks at
\* shuttingDown first and fails without a probe.
Begin(c, k) == /\ pc[c] = "idle"
               /\ kind' = [kind EXCEPT ![c] = k]
               /\ late' = [late EXCEPT ![c] = shuttingDown]
               /\ kept' = [kept EXCEPT ![c] = Registered(Map(k))]
               /\ seenUp' = [seenUp EXCEPT ![c] = up]
               /\ probes' = [probes EXCEPT ![c] = {}]
               /\ result' = [result EXCEPT ![c] = <<>>]
               /\ IF k = "ready" /\ shuttingDown
                  THEN report' = [report EXCEPT ![c] = "fail"] /\ UNCHANGED pc
                  ELSE /\ pc' = [pc EXCEPT ![c] = "begun"]
                       /\ report' = [report EXCEPT ![c] = "none"]
               /\ UNCHANGED <<registry, up>>

\* snapshot, and runChecks starts a goroutine for each probe.
Snapshot(c) == /\ pc[c] = "begun"
               /\ probes' = [probes EXCEPT ![c] = Registered(Map(kind[c]))]
               /\ result' = [result EXCEPT ![c] = [p \in probes'[c] |-> "running"]]
               /\ pc' = [pc EXCEPT ![c] = "probing"]
               /\ UNCHANGED <<registry, up, kind, report, kept, seenUp, late>>

Outcomes(p) == {"error", "panic"} \cup (IF p[2] \in up THEN {"nil"} ELSE {})

\* Slip: the recovered panic does not become the error.
PassedUnlessError(outcome) == outcome # "error"

\* runOne's OK: safeProbe turns a panic into an error.
Passed(outcome) == outcome = "nil"

RunOne(c, p) == /\ pc[c] = "probing" /\ p \in probes[c] /\ result[c][p] = "running"
                /\ \E o \in Outcomes(p) :
                     result' = [result EXCEPT ![c][p] = IF Passed(o) THEN "ok" ELSE "failed"]
                /\ UNCHANGED <<registry, up, pc, kind, probes, report, kept, seenUp, late>>

\* wg.Wait has returned: the aggregate.
Reports(c) == /\ pc[c] = "probing" /\ \A p \in probes[c] : result[c][p] # "running"
              /\ report' = [report EXCEPT ![c] = IF \A p \in probes[c] : result[c][p] = "ok"
                                                 THEN "ok" ELSE "fail"]
              /\ pc' = [pc EXCEPT ![c] = "idle"]
              /\ UNCHANGED <<registry, up, kind, probes, result, kept, seenUp, late>>

Next == \/ \E n \in Names : \/ \E d \in Deps : RegisterReadiness(n, d) \/ RegisterLiveness(n, d)
                            \/ Unregister(n)
        \/ SetShuttingDown
        \/ \E d \in Deps : Toggle(d)
        \/ \E c \in Checks : \/ \E k \in {"ready", "live"} : Begin(c, k)
                             \/ Snapshot(c) \/ Reports(c)
                             \/ \E p \in probes[c] : RunOne(c, p)

Spec == Init /\ [][Next]_vars

-----------------------------------------------------------------------------
(* An "ok" vouches: every probe that was registered from the beginning of  *)
(* the check to its report passed on a dependency that was up meanwhile,   *)
(* however registrations and outages interleave with the check; and a      *)
(* readiness check that says so began before the shutdown.                 *)
OkVouches == \A c \in Checks : pc[c] = "idle" /\ report[c] = "ok" =>
               /\ \A p \in kept[c] : p \in probes[c] /\ p[2] \in seenUp[c]
               /\ kind[c] = "ready" => ~late[c]

(* Once SetShuttingDown was called, readiness fails (healthcheck.go:132).  *)
(* False of the code for a check that had passed its look at the flag.     *)
(* Stated, not checked.                                                    *)
NoOkAfterShutdown ==
  [][\A c \in Checks : Reports(c) /\ kind[c] = "ready" /\ shuttingDown
                       => report'[c] = "fail"]_vars
=============================================================================
