------------------------------- MODULE Limits --------------------------------
(***************************************************************************)
(* Five parts that make callers wait, for model checking in one run:       *)
(* Bucket, ErrGroup, ManualLimiter, Retry and LoadGen.  They do not share  *)
(* state in the program, so a behaviour picks one of them, focus, which    *)
(* takes its steps while the others stay as they begin.  The properties of *)
(* an idle part hold of it trivially, and those of the focus are checked   *)
(* as if it were alone.                                                    *)
(***************************************************************************)
EXTENDS Bucket

CONSTANTS Groups, Functions, Room, \* ErrGroup
          Procs, Most, Nobody,     \* ManualLimiter
          Policies, Unset,         \* Retry
          Engines, Workers, Latencies, MaxAnswers, MaxKeys, \* LoadGen
          None

ASSUME GroupAssumption == None \notin Groups \cup Functions
ASSUME ManualAssumption == Nobody \notin Procs
ASSUME PoliciesAssumption ==
         Policies \subseteq [MaxAttempts : Int, BaseDelay : Int, MaxDelay : Int,
                             Multiplier : Int, JitterHalves : Nat]
ASSUME UnsetAssumption == Unset \notin {"nil", "exhausted", "not retryable", "cancelled"}
ASSUME LatenciesAssumption == Latencies \subseteq Nat

Counts == {1, 2}
Deltas == {-1, 1}

\* Policies for the run: every field left at its zero value; a cap that the
\* backoff reaches; jitter below a cap that is less than the first delay; a
\* single attempt.
SomePolicies ==
  {[MaxAttempts |-> 0, BaseDelay |-> 0, MaxDelay |-> 0, Multiplier |-> 0, JitterHalves |-> 0],
   [MaxAttempts |-> 5, BaseDelay |-> 2, MaxDelay |-> 10, Multiplier |-> 2, JitterHalves |-> 1],
   [MaxAttempts |-> 4, BaseDelay |-> 3, MaxDelay |-> 2, Multiplier |-> 3, JitterHalves |-> 2],
   [MaxAttempts |-> 1, BaseDelay |-> 1, MaxDelay |-> 5, Multiplier |-> 2, JitterHalves |-> 0]}

VARIABLES
  focus,
  limited, ctxDone, err, owner, fn, outcome, permits, result, \* ErrGroup
  count, mu, pc, need, cancelled, watcher, \* ManualLimiter, count for tokens
  policy, opCancelled, doPc, attempt, delays, lateCalls, opResult, \* Retry
  state, runCancelled, worker, total, errors, latencies, refused, engine, phase, msgs, keys,
  final, exit \* LoadGen

EG == INSTANCE ErrGroup
Manual == INSTANCE ManualLimiter WITH tokens <- count, Least <- 0
Do == INSTANCE Retry WITH p <- policy, cancelled <- opCancelled, pc <- doPc, result <- opResult
Load == INSTANCE LoadGen WITH cancelled <- runCancelled

groupVars == <<limited, ctxDone, err, owner, fn, outcome, permits, result>>
manualVars == <<count, mu, pc, need, cancelled, watcher>>
retryVars == <<policy, opCancelled, doPc, attempt, delays, lateCalls, opResult>>
loadVars == <<state, runCancelled, worker, total, errors, latencies, refused, engine, phase,
              msgs, keys, final, exit>>

Parts == {"bucket", "group", "manual", "retry", "load"}

LimitsInit == /\ focus \in Parts
              /\ Init /\ EG!Init /\ Manual!Init /\ Do!Init /\ Load!Init
              /\ focus = "retry" \/ policy.MaxAttempts = 0

\* The parts that part is not stay as they are.
Only(part) == /\ focus = part /\ UNCHANGED focus
              /\ part # "bucket" => UNCHANGED vars
              /\ part # "group" => UNCHANGED groupVars
              /\ part # "manual" => UNCHANGED manualVars
              /\ part # "retry" => UNCHANGED retryVars
              /\ part # "load" => UNCHANGED loadVars

LimitsNext == \/ Next /\ Only("bucket")
              \/ EG!Next /\ Only("group")
              \/ Manual!Next /\ Only("manual")
              \/ Do!Next /\ Only("retry")
              \/ Load!Next /\ Only("load")

limitsVars == <<focus, vars, groupVars, manualVars, retryVars, loadVars>>

LimitsSpec == LimitsInit /\ [][LimitsNext]_limitsVars /\ EG!Fairness /\ Load!Fairness

-----------------------------------------------------------------------------
(* What the waiting parts owe: the group's Wait and the limiter's wakeups  *)
(* (ErrGroup, ManualLimiter), and a sleep that is not too long (Bucket).   *)
WaitsAreRight == EG!WaitMeansOver /\ Manual!NoLostTokens /\ SleepsNoLonger

(* Attempts and answers: the backoff is the one planned and stops when it  *)
(* is cancelled (Retry), and the last screen of a load test is final and   *)
(* adds up (LoadGen).                                                      *)
CountsAreRight == Do!WaitsAsPlanned /\ Do!StopsWhenCancelled /\ Load!FinalIsFinal

(* What waits gets on: a caller blocked in Go (ErrGroup) and the dashboard *)
(* of a load test, which comes to its end (LoadGen).                       *)
WaitsEnd == EG!GoGetsOn /\ Load!DashboardEnds
=============================================================================
