---------------------------- MODULE AsyncWriter -----------------------------
(***************************************************************************)
(* internal/cacheutil, AsyncWriter: a bounded queue of cache-write jobs,   *)
(* its workers, and goroutines that call Flush and Close.                  *)
(*                                                                         *)
(* A worker is not named: it is busy with a job, has left, or waits.       *)
(* jobsWG is the number of unfinished jobs; the totals of Stats and the    *)
(* order of the queue are left out.  What a job does is DiskCache's.       *)
(***************************************************************************)
EXTENDS Naturals, FiniteSets

CONSTANTS Jobs,      \* write jobs, each submitted at most once per writer
          Flushers,  \* goroutines that call Flush
          Closers,   \* goroutines that call Close
          Workers,   \* NewAsyncWriter's workers
          QueueSize  \* NewAsyncWriter's queueSize

ASSUME WriterAssumption == /\ Workers \in Nat \ {0} /\ QueueSize \in Nat \ {0}
                           /\ IsFiniteSet(Jobs) /\ Flushers \cap Closers = {}

Waiters == Flushers \cup Closers

VARIABLES closed,   \* AsyncWriter.closed
          job,      \* where each job is
          gone,     \* workers that have left run
          firstErr, \* the jobs whose errors are joined in AsyncWriter.firstErr
          failures, \* history: the jobs that have failed
          at,       \* where each Flush or Close call is
          before,   \* history: what had been accepted when w's call began
          result    \* the errors w's call read

writerVars == <<closed, job, gone, firstErr, failures, at, before, result>>
callVars == <<at, before, result>>

\* A failed job has its error still to record; an ending one only jobsWG.Done.
JobStates == {"none", "refused", "queued", "running", "failed", "ending", "done"}

InState(states) == {j \in Jobs : job[j] \in states}
Accepted == Jobs \ InState({"none", "refused"})
Busy == InState({"running", "failed", "ending"})
Unfinished == Busy \cup InState({"queued"})

JobIs(j, state) == job' = [job EXCEPT ![j] = state]

NewAsyncWriter == /\ closed = FALSE
                  /\ job = [j \in Jobs |-> "none"]
                  /\ gone = 0
                  /\ firstErr = {}
                  /\ failures = {}
                  /\ at = [w \in Waiters |-> "idle"]
                  /\ before = [w \in Waiters |-> {}]
                  /\ result = [w \in Waiters |-> {}]

-----------------------------------------------------------------------------
\* Submit, under mu: refused when closed or when the queue is full.
Submit(j) ==
  /\ job[j] = "none"
  /\ JobIs(j, IF ~closed /\ Cardinality(InState({"queued"})) < QueueSize
              THEN "queued" ELSE "refused")
  /\ UNCHANGED <<closed, gone, firstErr, failures, callVars>>

\* A worker is at the receive of run's loop.
Idle == Cardinality(Busy) + gone < Workers

Receive(j) == /\ job[j] = "queued" /\ Idle
              /\ JobIs(j, "running")
              /\ UNCHANGED <<closed, gone, firstErr, failures, callVars>>

JobReturns(j, ok) == /\ job[j] = "running"
                     /\ JobIs(j, IF ok THEN "ending" ELSE "failed")
                     /\ failures' = IF ok THEN failures ELSE failures \cup {j}
                     /\ UNCHANGED <<closed, gone, firstErr, callVars>>

RecordErr(j) == /\ job[j] = "failed"
                /\ firstErr' = firstErr \cup {j}
                /\ JobIs(j, "ending")
                /\ UNCHANGED <<closed, gone, failures, callVars>>

JobDone(j) == /\ job[j] = "ending"
              /\ JobIs(j, "done")
              /\ UNCHANGED <<closed, gone, firstErr, failures, callVars>>

\* Slip: a worker only leaves once a job has been through the queue.
WorkerExitsAfterJob ==
  /\ closed /\ InState({"queued"}) = {} /\ Idle
  /\ InState({"done"}) # {}
  /\ gone' = gone + 1
  /\ UNCHANGED <<closed, job, firstErr, failures, callVars>>

\* The loop ends: the channel is closed and empty.
WorkerExits == /\ closed /\ InState({"queued"}) = {} /\ Idle
               /\ gone' = gone + 1
               /\ UNCHANGED <<closed, job, firstErr, failures, callVars>>

-----------------------------------------------------------------------------
Begin(w) == /\ at[w] = "idle"
            /\ at' = [at EXCEPT ![w] = "waiting"]
            /\ before' = [before EXCEPT ![w] = Accepted]

Flush(w) == /\ Begin(w)
            /\ UNCHANGED <<closed, job, gone, firstErr, failures, result>>

\* Close's critical section; Flush follows.
Close(w) == /\ Begin(w)
            /\ closed' = TRUE
            /\ UNCHANGED <<job, gone, firstErr, failures, result>>

\* Slip: only the queue is waited for, not the jobs in hand.
JobsWaitQueueOnly(w) ==
  /\ at[w] = "waiting" /\ InState({"queued"}) = {}
  /\ at' = [at EXCEPT ![w] = "reading"]
  /\ UNCHANGED <<closed, job, gone, firstErr, failures, before, result>>

\* jobsWG.Wait returns.
JobsWait(w) == /\ at[w] = "waiting" /\ Unfinished = {}
               /\ at' = [at EXCEPT ![w] = "reading"]
               /\ UNCHANGED <<closed, job, gone, firstErr, failures, before, result>>

\* Flush reads firstErr under mu; Close goes on to workersWG.
ReadErr(w) == /\ at[w] = "reading"
              /\ result' = [result EXCEPT ![w] = firstErr]
              /\ at' = [at EXCEPT ![w] = IF w \in Closers THEN "joining" ELSE "returned"]
              /\ UNCHANGED <<closed, job, gone, firstErr, failures, before>>

\* workersWG.Wait returns.
WorkersWait(w) == /\ at[w] = "joining" /\ gone = Workers
                  /\ at' = [at EXCEPT ![w] = "returned"]
                  /\ UNCHANGED <<closed, job, gone, firstErr, failures, before, result>>

-----------------------------------------------------------------------------
WriterTypeOK == /\ closed \in BOOLEAN
                /\ job \in [Jobs -> JobStates]
                /\ gone \in 0..Workers
                /\ Cardinality(InState({"queued"})) <= QueueSize
                /\ Cardinality(Busy) + gone <= Workers
                /\ firstErr \subseteq failures /\ failures \subseteq Jobs
                /\ at \in [Waiters -> {"idle", "waiting", "reading", "joining", "returned"}]
                /\ before \in [Waiters -> SUBSET Jobs]
                /\ result \in [Waiters -> SUBSET Jobs]

\* "Waits for all accepted jobs to finish and returns accumulated write
\* errors": a Flush that has returned has seen every job accepted before it
\* end, and reports the errors among them; a Close does so for every job that
\* was ever accepted, and leaves no worker behind.
WaitsReport == \A w \in Waiters : at[w] = "returned" =>
  LET owed == IF w \in Closers THEN Accepted ELSE before[w] IN
  /\ owed \subseteq InState({"done"})
  /\ failures \cap owed \subseteq result[w]
  /\ w \in Closers => gone = Workers
=============================================================================
