--------------------------- MODULE DiskCacheProofs ---------------------------
(***************************************************************************)
(* What internal/cacheutil and internal/fsutil promise, for every set of   *)
(* jobs, callers, workers, tokens and values: Flush and Close report what  *)
(* they waited for, sidecars vouch for the data, and no temporary file is  *)
(* left behind by a process that lives.                                    *)
(***************************************************************************)
EXTENDS DiskCache, FiniteSetTheorems, TLAPS

-----------------------------------------------------------------------------
(* The writer.                                                             *)

\* What w's call answers for: a Close for all that was accepted, a Flush for what
\* had been accepted when it began.
Owed(w) == IF w \in Closers THEN Accepted ELSE before[w]

\* How far each call has come.
CallsInOrder ==
  \A w \in Waiters :
    /\ before[w] \subseteq Accepted
    /\ w \in Closers /\ at[w] # "idle" => closed
    /\ at[w] \in {"reading", "joining", "returned"} => Owed(w) \subseteq InState({"done"})
    /\ at[w] \in {"joining", "returned"} => failures \cap Owed(w) \subseteq result[w]
    /\ w \in Closers /\ at[w] = "returned" => gone = Workers

\* An error that is not recorded yet belongs to a job in hand.
ErrorsInHand == /\ \A j \in failures : j \in firstErr \/ job[j] = "failed"
                /\ InState({"failed"}) \subseteq failures

WriterInv == WriterTypeOK /\ CallsInOrder /\ ErrorsInHand

-----------------------------------------------------------------------------
\* Sets of jobs are finite.
LEMMA JobsFinite ==
  ASSUME NEW S \in SUBSET Jobs
  PROVE  IsFiniteSet(S) /\ Cardinality(S) \in Nat
BY WriterAssumption, FS_Subset, FS_CardinalityType

\* A job that changes its state counts where it goes and no longer where it was.
LEMMA OneJobMoves ==
  ASSUME NEW S \in SUBSET Jobs, NEW T \in SUBSET Jobs, NEW j \in Jobs
  PROVE  /\ T \subseteq S => Cardinality(T) <= Cardinality(S)
         /\ T \subseteq S \cup {j} => Cardinality(T) <= Cardinality(S) + 1
         /\ j \in S /\ T \subseteq S \ {j} => Cardinality(T) + 1 <= Cardinality(S)
<1>1. IsFiniteSet(S) /\ IsFiniteSet(T) /\ Cardinality(S) \in Nat /\ Cardinality(T) \in Nat
  BY JobsFinite
<1>2. ASSUME T \subseteq S PROVE Cardinality(T) <= Cardinality(S)
  BY <1>1, <1>2, FS_Subset
<1>3. ASSUME T \subseteq S \cup {j} PROVE Cardinality(T) <= Cardinality(S) + 1
  <2>1. /\ IsFiniteSet(S \cup {j})
        /\ Cardinality(S \cup {j}) = IF j \in S THEN Cardinality(S) ELSE Cardinality(S) + 1
    BY <1>1, FS_AddElement
  <2>2. Cardinality(T) <= Cardinality(S \cup {j})
    BY <1>3, <2>1, FS_Subset
  <2> QED
    BY <1>1, <2>1, <2>2
<1>4. ASSUME j \in S, T \subseteq S \ {j} PROVE Cardinality(T) + 1 <= Cardinality(S)
  <2>1. IsFiniteSet(S \ {j}) /\ Cardinality(S \ {j}) = Cardinality(S) - 1
    BY <1>1, <1>4, FS_RemoveElement
  <2>2. Cardinality(T) <= Cardinality(S \ {j})
    BY <1>4, <2>1, FS_Subset
  <2> QED
    BY <1>1, <2>1, <2>2
<1> QED
  BY <1>2, <1>3, <1>4

\* A new writer owes nothing.
LEMMA NewWriter == NewAsyncWriter => WriterInv
<1> SUFFICES ASSUME NewAsyncWriter PROVE WriterInv
  OBVIOUS
<1>1. InState({"queued"}) = {} /\ Busy = {} /\ Accepted = {}
  BY DEF NewAsyncWriter, InState, Busy, Accepted
<1>2. Cardinality({}) = 0
  BY FS_EmptySet
<1>3. WriterTypeOK
  <2>1. Cardinality(InState({"queued"})) <= QueueSize /\ Cardinality(Busy) + 0 <= Workers
    BY <1>1, <1>2, WriterAssumption
  <2>2. gone = 0 /\ gone \in 0..Workers
    BY WriterAssumption DEF NewAsyncWriter
  <2> QED
    BY <2>1, <2>2 DEF NewAsyncWriter, WriterTypeOK, JobStates
<1>4. CallsInOrder
  BY <1>1 DEF NewAsyncWriter, CallsInOrder
<1>5. ErrorsInHand
  BY DEF NewAsyncWriter, ErrorsInHand, InState
<1> QED
  BY <1>3, <1>4, <1>5 DEF WriterInv

\* What a move of one job does to the sets of jobs.
LEMMA MoveSets ==
  ASSUME NEW j \in Jobs, NEW state \in JobStates, job \in [Jobs -> JobStates], JobIs(j, state)
  PROVE  /\ job' \in [Jobs -> JobStates] /\ job'[j] = state
         /\ \A i \in Jobs \ {j} : job'[i] = job[i]
         /\ \A states : /\ InState(states) \subseteq Jobs /\ InState(states)' \subseteq Jobs
                        /\ InState(states)' \ {j} = InState(states) \ {j}
                        /\ j \in InState(states)' <=> state \in states
                        /\ j \in InState(states) <=> job[j] \in states
BY DEF JobIs, InState

\* The calls keep what they have: a job only moves on, and is accepted only
\* while the writer is open.
LEMMA CallsKept ==
  ASSUME WriterInv, UNCHANGED <<closed, gone, callVars>>,
         Accepted \subseteq Accepted', closed => Accepted' = Accepted,
         InState({"done"}) \subseteq InState({"done"})',
         failures' \cap InState({"done"}) \subseteq failures
  PROVE  CallsInOrder'
BY DEF WriterInv, CallsInOrder, Owed, callVars

LEMMA SubmitStep ==
  ASSUME WriterInv, NEW j \in Jobs, Submit(j)
  PROVE  WriterInv'
<1>1. PICK state \in {"queued", "refused"} :
        /\ JobIs(j, state)
        /\ state = "queued" => ~closed /\ Cardinality(InState({"queued"})) < QueueSize
  BY DEF Submit
<1>2. job[j] = "none" /\ UNCHANGED <<closed, gone, firstErr, failures, callVars>>
  BY DEF Submit
<1>3. job \in [Jobs -> JobStates] /\ state \in JobStates
  BY DEF WriterInv, WriterTypeOK, JobStates
<1>4. /\ job' \in [Jobs -> JobStates] /\ job'[j] = state
      /\ \A i \in Jobs \ {j} : job'[i] = job[i]
  BY <1>1, <1>3, MoveSets
<1>5. /\ Busy' = Busy /\ InState({"done"})' = InState({"done"})
      /\ InState({"queued"})' \subseteq InState({"queued"}) \cup {j}
      /\ state = "refused" => InState({"queued"})' = InState({"queued"})
      /\ Accepted \subseteq Accepted' /\ (closed => Accepted' = Accepted)
  BY <1>1, <1>2, <1>4 DEF Busy, InState, Accepted
<1>6. Cardinality(InState({"queued"})') <= QueueSize
  <2>1. /\ InState({"queued"}) \in SUBSET Jobs /\ InState({"queued"})' \in SUBSET Jobs
        /\ Cardinality(InState({"queued"})) <= QueueSize
    BY DEF InState, WriterInv, WriterTypeOK
  <2>2. /\ Cardinality(InState({"queued"})) \in Nat /\ Cardinality(InState({"queued"})') \in Nat
    BY <2>1, JobsFinite
  <2>3. CASE state = "refused"
    BY <1>5, <2>1, <2>3
  <2>4. CASE state = "queued"
    <3>1. Cardinality(InState({"queued"})') <= Cardinality(InState({"queued"})) + 1
      BY <1>5, <2>1, OneJobMoves
    <3> QED
      BY <1>1, <2>2, <2>4, <3>1, WriterAssumption
  <2> QED
    BY <2>3, <2>4
<1>7. WriterTypeOK'
  BY <1>2, <1>4, <1>5, <1>6 DEF WriterInv, WriterTypeOK, callVars
<1>8. CallsInOrder'
  BY <1>2, <1>5, CallsKept
<1>9. ErrorsInHand'
  BY <1>1, <1>2, <1>4 DEF WriterInv, WriterTypeOK, ErrorsInHand, InState
<1> QED
  BY <1>7, <1>8, <1>9 DEF WriterInv

LEMMA ReceiveStep ==
  ASSUME WriterInv, NEW j \in Jobs, Receive(j)
  PROVE  WriterInv'
<1>1. /\ job[j] = "queued" /\ JobIs(j, "running") /\ Idle
      /\ UNCHANGED <<closed, gone, firstErr, failures, callVars>>
  BY DEF Receive
<1>2. job \in [Jobs -> JobStates] /\ "running" \in JobStates
  BY DEF WriterInv, WriterTypeOK, JobStates
<1>3. /\ job' \in [Jobs -> JobStates] /\ job'[j] = "running"
      /\ \A i \in Jobs \ {j} : job'[i] = job[i]
  BY <1>1, <1>2, MoveSets
<1>4. /\ Busy' \subseteq Busy \cup {j} /\ InState({"done"})' = InState({"done"})
      /\ InState({"queued"})' \subseteq InState({"queued"})
      /\ Accepted' = Accepted
  BY <1>1, <1>3 DEF Busy, InState, Accepted
<1>5. /\ Busy \in SUBSET Jobs /\ Busy' \in SUBSET Jobs
      /\ InState({"queued"}) \in SUBSET Jobs /\ InState({"queued"})' \in SUBSET Jobs
  BY DEF InState, Busy
<1>6. /\ Cardinality(Busy) \in Nat /\ Cardinality(Busy') \in Nat
      /\ Cardinality(InState({"queued"})) \in Nat /\ Cardinality(InState({"queued"})') \in Nat
  BY <1>5, JobsFinite
<1>7. /\ Cardinality(Busy') <= Cardinality(Busy) + 1
      /\ Cardinality(InState({"queued"})') <= Cardinality(InState({"queued"}))
  BY <1>4, <1>5, OneJobMoves
<1>8. WriterTypeOK'
  BY <1>1, <1>3, <1>6, <1>7, WriterAssumption DEF WriterInv, WriterTypeOK, callVars, Idle
<1>9. CallsInOrder'
  BY <1>1, <1>4, CallsKept
<1>10. ErrorsInHand'
  BY <1>1, <1>3 DEF WriterInv, WriterTypeOK, ErrorsInHand, InState
<1> QED
  BY <1>8, <1>9, <1>10 DEF WriterInv

\* A job in hand goes on: it returns, has its error recorded, or is done.
LEMMA HandStep ==
  ASSUME WriterInv, NEW j \in Jobs,
         JobReturns(j, TRUE) \/ JobReturns(j, FALSE) \/ RecordErr(j) \/ JobDone(j)
  PROVE  WriterInv'
<1>1. PICK state \in {"failed", "ending", "done"} : JobIs(j, state)
  BY DEF JobReturns, RecordErr, JobDone
<1>2. /\ job[j] \in {"running", "failed", "ending"}
      /\ UNCHANGED <<closed, gone, callVars>>
      /\ failures' \subseteq failures \cup {j} /\ failures \subseteq failures'
      /\ firstErr' \subseteq firstErr \cup {j} /\ firstErr \subseteq firstErr'
  BY DEF JobReturns, RecordErr, JobDone
<1>3. job \in [Jobs -> JobStates] /\ state \in JobStates
  BY DEF WriterInv, WriterTypeOK, JobStates
<1>4. /\ job' \in [Jobs -> JobStates] /\ job'[j] = state
      /\ \A i \in Jobs \ {j} : job'[i] = job[i]
  BY <1>1, <1>3, MoveSets
<1>5. /\ Busy' \subseteq Busy /\ InState({"done"}) \subseteq InState({"done"})'
      /\ InState({"queued"})' = InState({"queued"})
      /\ Accepted' = Accepted
  BY <1>2, <1>4 DEF Busy, InState, Accepted
<1>6. /\ Busy \in SUBSET Jobs /\ Busy' \in SUBSET Jobs
  BY DEF InState, Busy
<1>7. Cardinality(Busy) \in Nat /\ Cardinality(Busy') \in Nat /\ Cardinality(Busy') <= Cardinality(Busy)
  BY <1>5, <1>6, JobsFinite, OneJobMoves
<1>8. firstErr' \subseteq failures'
  <2>1. CASE RecordErr(j)
    BY <2>1 DEF RecordErr, WriterInv, WriterTypeOK, ErrorsInHand, InState
  <2>2. CASE firstErr' = firstErr
    BY <1>2, <2>2 DEF WriterInv, WriterTypeOK
  <2> QED
    BY <2>1, <2>2 DEF JobReturns, JobDone
<1>9. WriterTypeOK'
  BY <1>2, <1>4, <1>5, <1>7, <1>8, WriterAssumption DEF WriterInv, WriterTypeOK, callVars
<1>10. CallsInOrder'
  <2>1. j \notin InState({"done"})
    BY <1>2 DEF InState
  <2> QED
    BY <1>2, <1>5, <2>1, CallsKept
<1>11. ErrorsInHand'
  BY <1>4 DEF WriterInv, WriterTypeOK, ErrorsInHand, InState, JobReturns, RecordErr, JobDone,
         JobIs
<1> QED
  BY <1>9, <1>10, <1>11 DEF WriterInv

LEMMA ExitStep ==
  ASSUME WriterInv, WorkerExits
  PROVE  WriterInv'
<1>1. /\ gone' = gone + 1 /\ Cardinality(Busy) + gone < Workers
      /\ UNCHANGED <<closed, job, firstErr, failures, callVars>>
  BY DEF WorkerExits, Idle
<1>2. /\ Busy' = Busy /\ Accepted' = Accepted /\ \A states : InState(states)' = InState(states)
  BY <1>1 DEF InState, Busy, Accepted
<1>3. Cardinality(Busy) \in Nat
  BY JobsFinite DEF InState, Busy
<1>4. WriterTypeOK'
  BY <1>1, <1>2, <1>3, WriterAssumption DEF WriterInv, WriterTypeOK, callVars
<1>5. gone # Workers
  BY <1>1, <1>3, WriterAssumption DEF WriterInv, WriterTypeOK
<1> QED
  BY <1>1, <1>2, <1>4, <1>5 DEF WriterInv, CallsInOrder, ErrorsInHand, Owed, callVars

\* A call begins or goes on.
LEMMA CallStep ==
  ASSUME WriterInv,
         \/ \E w \in Flushers : Flush(w)
         \/ \E w \in Closers : Close(w)
         \/ \E w \in Waiters : Wait(w)
  PROVE  WriterInv'
<1>1. UNCHANGED <<job, gone, firstErr, failures>>
  BY DEF Flush, Close, Wait, JobsWait, ReadErr, WorkersWait
<1>2. /\ Busy' = Busy /\ Accepted' = Accepted /\ Unfinished' = Unfinished
      /\ \A states : InState(states)' = InState(states)
  BY <1>1 DEF InState, Busy, Accepted, Unfinished
<1>3. ErrorsInHand'
  BY <1>1 DEF WriterInv, ErrorsInHand, InState
<1>4. Accepted \subseteq Jobs
  BY DEF Accepted
<1>5. ASSUME NEW w \in Waiters, Begin(w), UNCHANGED result,
             closed' = closed \/ closed' = TRUE, w \in Closers => closed' = TRUE
      PROVE  WriterInv'
  <2>1. /\ at' = [at EXCEPT ![w] = "waiting"] /\ before' = [before EXCEPT ![w] = Accepted]
        /\ at[w] = "idle"
    BY <1>5 DEF Begin
  <2>2. WriterTypeOK'
    BY <1>1, <1>2, <1>4, <1>5, <2>1 DEF WriterInv, WriterTypeOK
  <2>3. CallsInOrder'
    BY <1>1, <1>2, <1>5, <2>1 DEF WriterInv, WriterTypeOK, CallsInOrder, Owed
  <2> QED
    BY <1>3, <2>2, <2>3 DEF WriterInv
<1>6. ASSUME NEW w \in Waiters, JobsWait(w)
      PROVE  WriterInv'
  <2>1. /\ at' = [at EXCEPT ![w] = "reading"] /\ at[w] = "waiting" /\ Unfinished = {}
        /\ UNCHANGED <<closed, before, result>>
    BY <1>6 DEF JobsWait
  <2>2. Accepted \subseteq InState({"done"})
    BY <2>1 DEF WriterInv, WriterTypeOK, Unfinished, Busy, Accepted, InState, JobStates
  <2>3. WriterTypeOK'
    BY <1>1, <1>2, <2>1 DEF WriterInv, WriterTypeOK
  <2>4. CallsInOrder'
    BY <1>1, <1>2, <2>1, <2>2 DEF WriterInv, WriterTypeOK, CallsInOrder, Owed
  <2> QED
    BY <1>3, <2>3, <2>4 DEF WriterInv
<1>7. ASSUME NEW w \in Waiters, ReadErr(w)
      PROVE  WriterInv'
  <2>1. PICK next \in {"joining", "returned"} :
          /\ at' = [at EXCEPT ![w] = next] /\ at[w] = "reading"
          /\ w \in Closers => next = "joining"
          /\ result' = [result EXCEPT ![w] = firstErr]
          /\ UNCHANGED <<closed, before>>
    BY <1>7 DEF ReadErr
  <2>2. failures \cap Owed(w) \subseteq firstErr
    BY <2>1 DEF WriterInv, CallsInOrder, ErrorsInHand, InState
  <2>3. WriterTypeOK'
    BY <1>1, <1>2, <2>1 DEF WriterInv, WriterTypeOK
  <2>4. CallsInOrder'
    BY <1>1, <1>2, <2>1, <2>2 DEF WriterInv, WriterTypeOK, CallsInOrder, Owed
  <2> QED
    BY <1>3, <2>3, <2>4 DEF WriterInv
<1>8. ASSUME NEW w \in Waiters, WorkersWait(w)
      PROVE  WriterInv'
  <2>1. /\ at' = [at EXCEPT ![w] = "returned"] /\ at[w] = "joining" /\ gone = Workers
        /\ UNCHANGED <<closed, before, result>>
    BY <1>8 DEF WorkersWait
  <2>2. WriterTypeOK'
    BY <1>1, <1>2, <2>1 DEF WriterInv, WriterTypeOK
  <2>3. CallsInOrder'
    BY <1>1, <1>2, <2>1 DEF WriterInv, WriterTypeOK, CallsInOrder, Owed
  <2> QED
    BY <1>3, <2>2, <2>3 DEF WriterInv
<1> QED
  BY <1>5, <1>6, <1>7, <1>8, WriterAssumption DEF Flush, Close, Wait, Waiters

\* Whatever leaves the writer alone keeps what it promises.
LEMMA WriterKept ==
  ASSUME WriterInv, UNCHANGED writerVars
  PROVE  WriterInv'
BY DEF WriterInv, WriterTypeOK, CallsInOrder, ErrorsInHand, Owed, Accepted, Busy, InState,
   writerVars

-----------------------------------------------------------------------------
(* The directory.                                                          *)

Untouched == \A i \in Items : items[i] = None

\* Where a process is in Open: what it has removed and written so far.
OpenInOrder ==
  /\ phase # "off" => version \in Versions
  /\ phase \notin {"sidecars", "open"} => written = {}
  /\ phase = "nukingExtra" => \A j \in Jobs : items[j] = None
  /\ \A t \in written : sidecar[t] = version[t]
  /\ phase = "open" => written = Tokens
  /\ \A j \in Jobs : job[j] # "none" => phase = "open"

\* Unless a Clear has stopped half-way, data goes with a full set of sidecars, of
\* its version; and when Open comes to write the sidecars, there is no data or
\* those that are there already say what it is about to write.
DataSigned ==
  ~halfClear =>
    /\ SidecarsVouch
    /\ (\E t \in Tokens : sidecar[t] = None) => Untouched
    /\ phase = "sidecars" => Untouched \/ ~Mismatched

DiskTypeOK == /\ phase \in Phases
              /\ version \in Versions \cup {Missing}
              /\ lives \in 0..MaxLives
              /\ sidecar \in [Tokens -> Values \cup {None}]
              /\ items \in [Items -> Versions \cup {None}]
              /\ written \subseteq Tokens
              /\ temp \in [Jobs \cup Tokens -> TempStates]
              /\ halfClear \in BOOLEAN

DiskInv == DiskTypeOK /\ OpenInOrder /\ DataSigned /\ TempsInUse

IInv == WriterInv /\ DiskInv

-----------------------------------------------------------------------------
LEMMA InitIInv == Init => IInv
<1> SUFFICES ASSUME Init PROVE IInv
  OBVIOUS
<1>1. WriterInv
  BY NewWriter DEF Init
<1>2. DiskTypeOK
  <2>1. sidecar \in [Tokens -> Values \cup {None}]
    BY DEF Init, Missing
  <2>2. lives \in 0..MaxLives
    BY CacheAssumption DEF Init
  <2> QED
    BY <2>1, <2>2 DEF Init, DiskTypeOK, Phases, TempStates
<1>3. OpenInOrder
  BY DEF Init, OpenInOrder, NewAsyncWriter
<1>4. DataSigned
  BY DEF Init, DataSigned, SidecarsVouch, Untouched
<1>5. TempsInUse
  BY DEF Init, TempsInUse
<1> QED
  BY <1>1, <1>2, <1>3, <1>4, <1>5 DEF IInv, DiskInv

\* Boot, CheckTokens: no data is touched.
LEMMA BootStep ==
  ASSUME IInv, Boot \/ CheckTokens
  PROVE  DiskInv'
<1>1. UNCHANGED <<writerVars, sidecar, items, written, temp, halfClear>>
  BY DEF Boot, CheckTokens
<1>2. phase \in {"off", "checking"} /\ phase' \in {"checking", "nuking", "sidecars"}
  BY DEF Boot, CheckTokens
<1>3. DiskTypeOK'
  BY <1>1, CacheAssumption DEF Boot, CheckTokens, IInv, DiskInv, DiskTypeOK, Phases
<1>4. OpenInOrder'
  BY <1>1, <1>2 DEF Boot, CheckTokens, IInv, DiskInv, OpenInOrder, writerVars
<1>5. DataSigned'
  <2>1. phase' = "sidecars" => ~Mismatched'
    BY <1>1 DEF Boot, CheckTokens, Mismatched
  <2>2. SidecarsVouch' <=> SidecarsVouch
    BY <1>1 DEF SidecarsVouch
  <2>3. Untouched' <=> Untouched
    BY <1>1 DEF Untouched
  <2> QED
    BY <1>1, <2>1, <2>2, <2>3 DEF IInv, DiskInv, DataSigned
<1>6. TempsInUse'
  BY <1>1, <1>2 DEF IInv, DiskInv, TempsInUse, Writing, writerVars
<1> QED
  BY <1>3, <1>4, <1>5, <1>6 DEF DiskInv

\* Nuke, NukedAll: data goes; when the last is gone, there is none.
LEMMA NukeStep ==
  ASSUME IInv, (\E i \in Items : Nuke(i)) \/ NukedAll
  PROVE  DiskInv'
<1>1. /\ UNCHANGED <<writerVars, version, lives, sidecar, written, temp, halfClear>>
      /\ phase \in {"nuking", "nukingExtra"} /\ phase' \in {"nuking", "nukingExtra", "sidecars"}
  BY DEF Nuke, NukedAll
<1>2. items' \in [Items -> Versions \cup {None}] /\ \A i \in Items : items'[i] \in {items[i], None}
  BY DEF Nuke, NukedAll, IInv, DiskInv, DiskTypeOK
<1>3. DiskTypeOK'
  BY <1>1, <1>2 DEF IInv, DiskInv, DiskTypeOK, Phases
<1>4. (phase' = "nukingExtra" => \A j \in Jobs : items'[j] = None)
  BY <1>2, CacheAssumption DEF Nuke, NukedAll, IInv, DiskInv, OpenInOrder, Items
<1>5. OpenInOrder'
  BY <1>1, <1>4 DEF IInv, DiskInv, OpenInOrder, writerVars
<1>6. DataSigned'
  <2>1. phase' = "sidecars" => Untouched'
    BY <1>1 DEF Nuke, NukedAll, IInv, DiskInv, OpenInOrder, Items, Untouched
  <2>2. SidecarsVouch => SidecarsVouch'
    BY <1>1, <1>2 DEF SidecarsVouch
  <2>3. Untouched => Untouched'
    BY <1>2 DEF Untouched
  <2> QED
    BY <1>1, <2>1, <2>2, <2>3 DEF IInv, DiskInv, DataSigned
<1>7. TempsInUse'
  BY <1>1 DEF IInv, DiskInv, TempsInUse, Writing, writerVars
<1> QED
  BY <1>3, <1>5, <1>6, <1>7 DEF DiskInv

\* OpenReturns: every sidecar is written, so none is in the making.
LEMMA OpenStep ==
  ASSUME IInv, OpenReturns
  PROVE  DiskInv'
<1>1. /\ UNCHANGED <<writerVars, version, lives, sidecar, items, written, temp, halfClear>>
      /\ phase = "sidecars" /\ written = Tokens /\ phase' = "open"
  BY DEF OpenReturns
<1>2. DiskTypeOK'
  BY <1>1 DEF IInv, DiskInv, DiskTypeOK, Phases
<1>3. OpenInOrder'
  BY <1>1 DEF IInv, DiskInv, OpenInOrder, writerVars
<1>4. DataSigned'
  BY <1>1 DEF IInv, DiskInv, DataSigned, SidecarsVouch, Untouched
<1>5. TempsInUse'
  BY <1>1 DEF IInv, DiskInv, TempsInUse, Writing, writerVars
<1> QED
  BY <1>2, <1>3, <1>4, <1>5 DEF DiskInv

\* A temporary file is made or filled, for the entry or sidecar being written.
LEMMA TempStep ==
  ASSUME IInv, NEW x \in Jobs \cup Tokens, Temp(x)
  PROVE  DiskInv'
<1>1. PICK state \in {"created", "full"} : TempIs(x, state)
  BY DEF Temp, CreateTemp, FillTemp
<1>2. /\ UNCHANGED <<writerVars, phase, version, lives, sidecar, items, written, halfClear>>
      /\ Writing(x)
  BY DEF Temp, CreateTemp, FillTemp
<1>3. /\ temp' \in [Jobs \cup Tokens -> TempStates]
      /\ \A y \in (Jobs \cup Tokens) \ {x} : temp'[y] = temp[y]
      /\ temp \in [Jobs \cup Tokens -> TempStates]
  BY <1>1 DEF TempIs, IInv, DiskInv, DiskTypeOK, TempStates
<1>4. DiskTypeOK'
  BY <1>2, <1>3 DEF IInv, DiskInv, DiskTypeOK
<1>5. OpenInOrder'
  BY <1>2 DEF IInv, DiskInv, OpenInOrder, writerVars
<1>6. DataSigned'
  BY <1>2 DEF IInv, DiskInv, DataSigned, SidecarsVouch, Untouched, Mismatched
<1>7. TempsInUse'
  <2> SUFFICES ASSUME NEW y \in Jobs \cup Tokens, temp'[y] # "none"
               PROVE  Writing(y)'
    BY <1>3 DEF TempsInUse
  <2>1. CASE y \in Jobs
    BY <1>2, <1>3, <2>1, CacheAssumption DEF IInv, DiskInv, TempsInUse, Writing, writerVars
  <2>2. CASE y \in Tokens
    <3>1. y = x \/ (temp[y] # "none" /\ Writing(y))
      BY <1>3 DEF IInv, DiskInv, TempsInUse
    <3>2. CASE y = x
      BY <1>2, <1>3, <2>2, <3>2, CacheAssumption DEF Writing, writerVars
    <3>3. CASE y # x /\ temp[y] # "none" /\ Writing(y)
      <4>1. x \in Jobs
        BY <1>2, <2>2, <3>3, CacheAssumption DEF Writing
      <4> QED
        BY <1>2, <1>3, <2>2, <3>3, <4>1, CacheAssumption DEF Writing, writerVars
    <3> QED
      BY <3>1, <3>2, <3>3
  <2> QED
    BY <2>1, <2>2
<1> QED
  BY <1>4, <1>5, <1>6, <1>7 DEF DiskInv

\* A write ends, and its temporary file is gone.
LEMMA TempGoes ==
  ASSUME IInv, NEW x \in Jobs \cup Tokens, TempIs(x, "none"), UNCHANGED phase,
         \A j \in Jobs \ {x} : job'[j] = job[j],
         written' \subseteq written \cup {x}
  PROVE  TempsInUse' /\ temp' \in [Jobs \cup Tokens -> TempStates]
<1>1. /\ temp' \in [Jobs \cup Tokens -> TempStates] /\ temp'[x] = "none"
      /\ \A y \in (Jobs \cup Tokens) \ {x} : temp'[y] = temp[y]
      /\ temp \in [Jobs \cup Tokens -> TempStates]
  BY DEF TempIs, IInv, DiskInv, DiskTypeOK, TempStates
<1>2. ASSUME NEW y \in Jobs \cup Tokens, temp'[y] # "none"
      PROVE  Writing(y)'
  <2>1. y # x /\ Writing(y)
    BY <1>1, <1>2 DEF IInv, DiskInv, TempsInUse
  <2> QED
    BY <1>1, <2>1 DEF Writing
<1> QED
  BY <1>1, <1>2 DEF TempsInUse

\* An entry appears under its name, signed by the sidecars of its process.
LEMMA RenameEntryStep ==
  ASSUME IInv, NEW j \in Jobs, RenameEntry(j)
  PROVE  DiskInv'
<1>1. /\ UNCHANGED <<phase, version, lives, sidecar, written, halfClear>>
      /\ items' = [items EXCEPT ![j] = version] /\ job[j] = "running"
      /\ TempIs(j, "none") /\ JobIs(j, "ending")
  BY CacheAssumption DEF RenameEntry, JobReturns
<1>2. phase = "open" /\ version \in Versions /\ j \in Items
  BY <1>1 DEF IInv, DiskInv, OpenInOrder, Items
<1>3. \A i \in Jobs \ {j} : job'[i] = job[i]
  BY <1>1 DEF JobIs, IInv, WriterInv, WriterTypeOK
<1>4. TempsInUse' /\ temp' \in [Jobs \cup Tokens -> TempStates]
  BY <1>1, <1>3, TempGoes
<1>5. sidecar = version
  BY <1>2 DEF IInv, DiskInv, OpenInOrder, DiskTypeOK, Versions
<1>6. /\ items' \in [Items -> Versions \cup {None}] /\ items'[j] = version
      /\ \A i \in Items \ {j} : items'[i] = items[i]
  BY <1>1, <1>2 DEF IInv, DiskInv, DiskTypeOK
<1>7. DiskTypeOK'
  BY <1>1, <1>4, <1>6 DEF IInv, DiskInv, DiskTypeOK
<1>8. OpenInOrder'
  BY <1>1, <1>2, <1>3 DEF IInv, DiskInv, OpenInOrder
<1>9. DataSigned'
  <2>1. \A t \in Tokens : sidecar[t] # None
    BY <1>2, <1>5, CacheAssumption DEF Versions
  <2> QED
    BY <1>1, <1>2, <1>5, <1>6, <2>1 DEF IInv, DiskInv, DataSigned, SidecarsVouch
<1> QED
  BY <1>4, <1>7, <1>8, <1>9 DEF DiskInv

LEMMA EntryFailsStep ==
  ASSUME IInv, NEW j \in Jobs, EntryFails(j)
  PROVE  DiskInv'
<1>1. /\ UNCHANGED <<phase, version, lives, sidecar, items, written, halfClear>>
      /\ TempIs(j, "none") /\ JobIs(j, "failed") /\ job[j] = "running"
  BY DEF EntryFails, JobReturns
<1>2. \A i \in Jobs \ {j} : job'[i] = job[i]
  BY <1>1 DEF JobIs, IInv, WriterInv, WriterTypeOK
<1>3. TempsInUse' /\ temp' \in [Jobs \cup Tokens -> TempStates]
  BY <1>1, <1>2, TempGoes
<1>4. DiskTypeOK'
  BY <1>1, <1>3 DEF IInv, DiskInv, DiskTypeOK
<1>5. OpenInOrder'
  BY <1>1, <1>2 DEF IInv, DiskInv, OpenInOrder
<1>6. DataSigned'
  BY <1>1 DEF IInv, DiskInv, DataSigned, SidecarsVouch, Untouched, Mismatched
<1> QED
  BY <1>3, <1>4, <1>5, <1>6 DEF DiskInv

\* A sidecar is replaced: there is no data, or it already said so.
LEMMA RenameSidecarStep ==
  ASSUME IInv, NEW t \in Tokens, RenameSidecar(t)
  PROVE  DiskInv'
<1>1. /\ UNCHANGED <<writerVars, phase, version, lives, items, halfClear>>
      /\ sidecar' = [sidecar EXCEPT ![t] = version[t]]
      /\ written' = written \cup {t}
      /\ TempIs(t, "none") /\ phase = "sidecars"
  BY CacheAssumption DEF RenameSidecar, Writing
<1>2. version \in Versions /\ version[t] \in Values
  BY <1>1 DEF IInv, DiskInv, OpenInOrder, Versions
<1>3. TempsInUse' /\ temp' \in [Jobs \cup Tokens -> TempStates]
  BY <1>1, TempGoes DEF writerVars
<1>4. /\ sidecar' \in [Tokens -> Values \cup {None}] /\ sidecar'[t] = version[t]
      /\ \A u \in Tokens \ {t} : sidecar'[u] = sidecar[u]
  BY <1>1, <1>2 DEF IInv, DiskInv, DiskTypeOK
<1>5. DiskTypeOK'
  BY <1>1, <1>3, <1>4 DEF IInv, DiskInv, DiskTypeOK
<1>6. OpenInOrder'
  BY <1>1, <1>2, <1>4 DEF IInv, DiskInv, OpenInOrder, writerVars
<1>7. DataSigned'
  <2> SUFFICES ASSUME ~halfClear PROVE DataSigned'
    BY <1>1 DEF DataSigned
  <2>1. Untouched' <=> Untouched
    BY <1>1 DEF Untouched
  <2>2. CASE Untouched
    BY <2>1, <2>2 DEF DataSigned, SidecarsVouch, Untouched
  <2>3. CASE ~Untouched
    <3>1. /\ \A u \in Tokens : sidecar[u] # None
          /\ SidecarsVouch /\ ~Mismatched
      BY <1>1, <2>3 DEF IInv, DiskInv, DataSigned
    <3>2. sidecar[t] = version[t]
      BY <3>1 DEF Mismatched
    <3>3. sidecar' = sidecar
      BY <1>1, <3>2 DEF IInv, DiskInv, DiskTypeOK
    <3>4. SidecarsVouch' /\ ~Mismatched'
      BY <1>1, <3>1, <3>3 DEF SidecarsVouch, Mismatched
    <3> QED
      BY <3>1, <3>3, <3>4 DEF DataSigned
  <2> QED
    BY <2>2, <2>3
<1> QED
  BY <1>3, <1>5, <1>6, <1>7 DEF DiskInv

\* The writer's own steps touch no file, and move no job that is being written.
LEMMA UseWriterStep ==
  ASSUME IInv, UseWriter
  PROVE  DiskInv'
<1>1. UNCHANGED diskVars /\ phase = "open"
  BY DEF UseWriter
<1>2. \A j \in Jobs : job[j] = "running" => job'[j] = "running"
  BY DEF UseWriter, Submit, Worker, Receive, RecordErr, JobDone, JobIs, WorkerExits, Flush, Close,
     Wait, JobsWait, ReadErr, WorkersWait, IInv, WriterInv, WriterTypeOK
<1>3. DiskTypeOK'
  BY <1>1 DEF IInv, DiskInv, DiskTypeOK, diskVars
<1>4. OpenInOrder'
  BY <1>1 DEF IInv, DiskInv, OpenInOrder, diskVars
<1>5. DataSigned'
  BY <1>1 DEF IInv, DiskInv, DataSigned, SidecarsVouch, Untouched, Mismatched, diskVars
<1>6. TempsInUse'
  BY <1>1, <1>2 DEF IInv, DiskInv, TempsInUse, Writing, diskVars
<1> QED
  BY <1>3, <1>4, <1>5, <1>6 DEF DiskInv

LEMMA UseExtraStep ==
  ASSUME IInv, UseExtra
  PROVE  DiskInv'
<1>1. /\ UNCHANGED <<writerVars, phase, version, lives, sidecar, written, temp, halfClear>>
      /\ items' = [items EXCEPT ![Extra] = version] /\ phase = "open"
  BY DEF UseExtra
<1>2. version \in Versions /\ Extra \in Items
  BY <1>1 DEF IInv, DiskInv, OpenInOrder, Items
<1>3. sidecar = version
  BY <1>1, <1>2 DEF IInv, DiskInv, OpenInOrder, DiskTypeOK, Versions
<1>4. /\ items' \in [Items -> Versions \cup {None}] /\ items'[Extra] = version
      /\ \A i \in Items \ {Extra} : items'[i] = items[i]
  BY <1>1, <1>2 DEF IInv, DiskInv, DiskTypeOK
<1>5. DiskTypeOK'
  BY <1>1, <1>4 DEF IInv, DiskInv, DiskTypeOK
<1>6. OpenInOrder'
  BY <1>1 DEF IInv, DiskInv, OpenInOrder, writerVars
<1>7. DataSigned'
  <2>1. \A t \in Tokens : sidecar[t] # None
    BY <1>2, <1>3, CacheAssumption DEF Versions
  <2> QED
    BY <1>1, <1>2, <1>3, <1>4, <2>1 DEF IInv, DiskInv, DataSigned, SidecarsVouch
<1>8. TempsInUse'
  BY <1>1 DEF IInv, DiskInv, TempsInUse, Writing, writerVars
<1> QED
  BY <1>5, <1>6, <1>7, <1>8 DEF DiskInv

\* A Clear that goes through leaves nothing; one that stops is remembered.
LEMMA ClearStep ==
  ASSUME IInv, Clear
  PROVE  DiskInv'
<1>1. /\ UNCHANGED <<writerVars, phase, version, lives, written, temp>> /\ phase = "off"
      /\ halfClear' = (\/ \E t \in Tokens : sidecar'[t] # None
                       \/ \E i \in Items : items'[i] # None)
  BY DEF Clear
<1>2. /\ sidecar' \in [Tokens -> Values \cup {None}]
      /\ items' \in [Items -> Versions \cup {None}]
  BY DEF Clear, IInv, DiskInv, DiskTypeOK
<1>3. DiskTypeOK'
  BY <1>1, <1>2 DEF IInv, DiskInv, DiskTypeOK
<1>4. OpenInOrder'
  BY <1>1 DEF IInv, DiskInv, OpenInOrder, writerVars
<1>5. DataSigned'
  BY <1>1 DEF DataSigned, SidecarsVouch, Untouched
<1>6. TempsInUse'
  BY <1>1 DEF IInv, DiskInv, TempsInUse, Writing, writerVars
<1> QED
  BY <1>3, <1>4, <1>5, <1>6 DEF DiskInv

\* A death loses memory; the files stay signed as they were.
LEMMA DeathStep ==
  ASSUME IInv, OpenFailsOrProcessDies
  PROVE  IInv'
<1>1. Ends
  BY DEF OpenFailsOrProcessDies
<1>2. NewAsyncWriter'
  BY <1>1 DEF Ends, NewAsyncWriter
<1>3. WriterInv'
  <2>1. (NewAsyncWriter => WriterInv)'
    BY NewWriter, PTL
  <2> QED
    BY <1>2, <2>1
<1>4. DiskTypeOK'
  BY <1>1 DEF Ends, IInv, DiskInv, DiskTypeOK, Phases, TempStates
<1>5. OpenInOrder'
  BY <1>1 DEF Ends, OpenInOrder
<1>6. DataSigned'
  BY <1>1 DEF Ends, IInv, DiskInv, DataSigned, SidecarsVouch, Untouched
<1>7. TempsInUse'
  BY <1>1 DEF Ends, TempsInUse
<1> QED
  BY <1>3, <1>4, <1>5, <1>6, <1>7 DEF IInv, DiskInv

-----------------------------------------------------------------------------
LEMMA NextIInv == IInv /\ [Next]_vars => IInv'
<1> SUFFICES ASSUME IInv, [Next]_vars PROVE IInv'
  OBVIOUS
<1>1. CASE Open
  <2>1. WriterInv'
    BY <1>1, WriterKept DEF IInv, Open, Boot, CheckTokens, Nuke, NukedAll, OpenReturns
  <2> QED
    BY <1>1, <2>1, BootStep, NukeStep, OpenStep DEF Open, IInv
<1>2. ASSUME NEW t \in Tokens, WriteSidecar(t) PROVE IInv'
  <2>1. WriterInv'
    BY <1>2, WriterKept DEF IInv, WriteSidecar, Temp, CreateTemp, FillTemp, RenameSidecar
  <2> QED
    BY <1>2, <2>1, TempStep, RenameSidecarStep DEF WriteSidecar, IInv
<1>3. ASSUME NEW j \in Jobs, WriteEntry(j) PROVE IInv'
  <2>1. CASE Temp(j)
    <3>1. WriterInv'
      BY <2>1, WriterKept DEF IInv, Temp, CreateTemp, FillTemp
    <3> QED
      BY <2>1, <3>1, TempStep DEF IInv
  <2>2. CASE RenameEntry(j)
    BY <2>2, HandStep, RenameEntryStep DEF IInv, RenameEntry
  <2>3. CASE EntryFails(j)
    BY <2>3, HandStep, EntryFailsStep DEF IInv, EntryFails
  <2> QED
    BY <1>3, <2>1, <2>2, <2>3 DEF WriteEntry
<1>4. CASE UseWriter
  <2>1. WriterInv'
    BY <1>4, SubmitStep, ReceiveStep, HandStep, ExitStep, CallStep DEF UseWriter, Worker, IInv
  <2> QED
    BY <1>4, <2>1, UseWriterStep DEF IInv
<1>5. CASE UseExtra \/ Clear
  <2>1. WriterInv'
    BY <1>5, WriterKept DEF IInv, UseExtra, Clear
  <2> QED
    BY <1>5, <2>1, UseExtraStep, ClearStep DEF IInv
<1>6. CASE UNCHANGED vars
  <2>1. UNCHANGED writerVars /\ UNCHANGED diskVars
    BY <1>6 DEF vars
  <2>2. WriterInv'
    BY <2>1, WriterKept DEF IInv
  <2>3. DiskTypeOK' /\ OpenInOrder' /\ DataSigned' /\ TempsInUse'
    BY <2>1 DEF IInv, DiskInv, DiskTypeOK, OpenInOrder, DataSigned, SidecarsVouch, Untouched,
       Mismatched, TempsInUse, Writing, writerVars, diskVars
  <2> QED
    BY <2>2, <2>3 DEF IInv, DiskInv
<1> QED
  BY <1>1, <1>2, <1>3, <1>4, <1>5, <1>6, DeathStep DEF Next

\* The inductive invariant holds in every reachable state.
THEOREM Invariance == Spec => []IInv
BY InitIInv, NextIInv, PTL DEF Spec

\* Every variable keeps its type: the queue never holds more than its size, and
\* no more workers are busy or gone than there are.
THEOREM TypeCorrect == Spec => []TypeOK
<1>1. IInv => TypeOK
  BY DEF IInv, WriterInv, DiskInv, DiskTypeOK, TypeOK
<1> QED
  BY <1>1, Invariance, PTL

\* A Flush reports the errors of every job accepted before it, and a Close
\* those of every job accepted at all, when its workers have gone
\* (AsyncWriter.Flush, Close).
THEOREM CallsReport == Spec => []WaitsReport
<1>1. IInv => WaitsReport
  BY DEF IInv, WriterInv, CallsInOrder, Owed, WaitsReport
<1> QED
  BY <1>1, Invariance, PTL

\* Whichever process died where, data whose sidecars are all there is of the
\* version they name, unless a Clear stopped half-way (VersionedDir.Open).
THEOREM SidecarsCanBeTrusted == Spec => []SidecarsVouchUnlessHalfClear
<1>1. IInv => SidecarsVouchUnlessHalfClear
  BY DEF IInv, DiskInv, DataSigned, SidecarsVouchUnlessHalfClear
<1> QED
  BY <1>1, Invariance, PTL

\* While a process lives, a temporary file belongs to a write in progress
\* (writeAtomic).
THEOREM NoTempLeft == Spec => []TempsInUse
<1>1. IInv => TempsInUse
  BY DEF IInv, DiskInv
<1> QED
  BY <1>1, Invariance, PTL
=============================================================================
