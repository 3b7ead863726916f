----------------------------- MODULE DiskCache ------------------------------
(***************************************************************************)
(* A cache on disk made of internal/cacheutil's VersionedDir and           *)
(* AsyncWriter and internal/fsutil's writeAtomic: processes that live one  *)
(* after the other open the directory with the tokens they were built      *)
(* with, write entries through the writer, clear the root, fail, and die   *)
(* between any two steps.                                                  *)
(*                                                                         *)
(* An entry is known by the tokens of the process that wrote it.  A death  *)
(* loses memory, never a file operation that was done.                     *)
(***************************************************************************)
EXTENDS AsyncWriter

CONSTANTS Tokens,   \* names of the sidecar files
          Values,   \* values that a token has had
          MaxLives, \* bound: processes that call Open
          None      \* no such file

Versions == [Tokens -> Values]
Missing == [t \in Tokens |-> None]

\* The cached data: one entry per job, and what ExtraDirs and ExtraFiles name.
Extra == "extra"
Items == Jobs \cup {Extra}

ASSUME CacheAssumption == /\ Tokens \cap Jobs = {} /\ Extra \notin Jobs
                          /\ None \notin Values /\ MaxLives \in Nat

VARIABLES phase,     \* where the process is in Open; "off": there is none
          version,   \* the tokens it was built with, if there is one
          lives,     \* processes so far
          sidecar,   \* the sidecar files
          items,     \* the cached data: who wrote each item
          written,   \* tokens whose sidecar this Open has written
          temp,      \* the temporary file of each write in progress
          halfClear  \* history: a Clear has stopped half-way

diskVars == <<phase, version, lives, sidecar, items, written, temp, halfClear>>
vars == <<writerVars, diskVars>>

Phases == {"off", "checking", "nuking", "nukingExtra", "sidecars", "open"}

TempStates == {"none", "created", "full"}

Init == /\ NewAsyncWriter
        /\ phase = "off"
        /\ version = Missing
        /\ lives = 0
        /\ sidecar = Missing
        /\ items = [i \in Items |-> None]
        /\ written = {}
        /\ temp = [x \in Jobs \cup Tokens |-> "none"]
        /\ halfClear = FALSE

-----------------------------------------------------------------------------
(* VersionedDir.Open.                                                      *)
Boot == /\ phase = "off" /\ lives < MaxLives
        /\ version' \in Versions
        /\ lives' = lives + 1
        /\ phase' = "checking"
        /\ UNCHANGED <<writerVars, sidecar, items, written, temp, halfClear>>

\* Slip: only the first token is compared.
MismatchedFirst == LET t == CHOOSE u \in Tokens : TRUE IN sidecar[t] \notin {None, version[t]}

\* tokensMismatched: a sidecar that is missing agrees with any token.
Mismatched == \E t \in Tokens : sidecar[t] \notin {None, version[t]}

CheckTokens == /\ phase = "checking"
               /\ phase' = IF Mismatched THEN "nuking" ELSE "sidecars"
               /\ UNCHANGED <<writerVars, version, lives, sidecar, items, written, temp, halfClear>>

\* nukeEntries: RemoveAll takes the entries one by one, then come the extras.
Nuke(i) == /\ \/ phase = "nuking" /\ i \in Jobs
              \/ phase = "nukingExtra" /\ i = Extra
           /\ items[i] # None
           /\ items' = [items EXCEPT ![i] = None]
           /\ UNCHANGED <<writerVars, phase, version, lives, sidecar, written, temp, halfClear>>

NukedAll == /\ \/ /\ phase = "nuking" /\ \A j \in Jobs : items[j] = None
                  /\ phase' = "nukingExtra"
               \/ /\ phase = "nukingExtra" /\ items[Extra] = None
                  /\ phase' = "sidecars"
            /\ UNCHANGED <<writerVars, version, lives, sidecar, items, written, temp, halfClear>>

\* Every sidecar is written: Open returns, and the process makes its writer.
OpenReturns == /\ phase = "sidecars" /\ written = Tokens
               /\ phase' = "open"
               /\ UNCHANGED <<writerVars, version, lives, sidecar, items, written, temp, halfClear>>

-----------------------------------------------------------------------------
(* writeAtomic, of an entry by its job or of a sidecar by Open.            *)
Writing(x) == \/ x \in Jobs /\ job[x] = "running"
              \/ x \in Tokens \ written /\ phase = "sidecars" /\ \A t \in Tokens \ {x} : temp[t] = "none"

TempIs(x, state) == temp' = [temp EXCEPT ![x] = state]

CreateTemp(x) == /\ Writing(x) /\ temp[x] = "none"
                 /\ TempIs(x, "created")
                 /\ UNCHANGED <<writerVars, phase, version, lives, sidecar, items, written, halfClear>>

\* The mode is set, the payload written, synced, and the file closed.
FillTemp(x) == /\ Writing(x) /\ temp[x] = "created"
               /\ TempIs(x, "full")
               /\ UNCHANGED <<writerVars, phase, version, lives, sidecar, items, written, halfClear>>

\* The rename makes the file appear under its name, in one step.
RenameEntry(j) == /\ Writing(j) /\ temp[j] = "full"
                  /\ items' = [items EXCEPT ![j] = version]
                  /\ TempIs(j, "none")
                  /\ JobReturns(j, TRUE)
                  /\ UNCHANGED <<phase, version, lives, sidecar, written, halfClear>>

RenameSidecar(t) == /\ Writing(t) /\ temp[t] = "full"
                    /\ sidecar' = [sidecar EXCEPT ![t] = version[t]]
                    /\ written' = written \cup {t}
                    /\ TempIs(t, "none")
                    /\ UNCHANGED <<writerVars, phase, version, lives, items, halfClear>>

\* Slip: the error return does not clean up.
EntryFailsKeepingTemp(j) ==
  /\ Writing(j)
  /\ JobReturns(j, FALSE)
  /\ UNCHANGED diskVars

\* A step of the write fails: the temporary file goes, the job has failed.
EntryFails(j) == /\ Writing(j)
                 /\ TempIs(j, "none")
                 /\ JobReturns(j, FALSE)
                 /\ UNCHANGED <<phase, version, lives, sidecar, items, written, halfClear>>

\* The process is no more, or gives up its cache.
Ends == /\ phase' = "off"
        /\ version' = Missing
        /\ written' = {}
        /\ temp' = [x \in Jobs \cup Tokens |-> "none"]
        /\ job' = [j \in Jobs |-> "none"]
        /\ closed' = FALSE /\ gone' = 0
        /\ firstErr' = {} /\ failures' = {}
        /\ at' = [w \in Waiters |-> "idle"]
        /\ before' = [w \in Waiters |-> {}]
        /\ result' = [w \in Waiters |-> {}]
        /\ UNCHANGED <<lives, sidecar, items, halfClear>>

\* Any step of Open fails and Open returns the error, or the process dies,
\* its temporary files left behind under names nobody will use again.  (One
\* such death is the panic of jobsWG.Wait when a Submit follows the last Done
\* before the waiter has run.)
OpenFailsOrProcessDies == phase # "off" /\ Ends

-----------------------------------------------------------------------------
\* The open cache's user keeps something in an extra directory or file.
UseExtra == /\ phase = "open" /\ items[Extra] # version
            /\ items' = [items EXCEPT ![Extra] = version]
            /\ UNCHANGED <<writerVars, phase, version, lives, sidecar, written, temp, halfClear>>

\* Clear, between two processes: os.RemoveAll of the root, in the order in
\* which the directory is read.  It goes through, or it stops at a file it
\* cannot remove or dies.
Clear == /\ phase = "off" /\ ~halfClear
         /\ \E side \in SUBSET Tokens, data \in SUBSET Items :
              /\ sidecar' = [t \in Tokens |-> IF t \in side THEN None ELSE sidecar[t]]
              /\ items' = [i \in Items |-> IF i \in data THEN None ELSE items[i]]
         /\ halfClear' = (\/ \E t \in Tokens : sidecar'[t] # None
                          \/ \E i \in Items : items'[i] # None)
         /\ UNCHANGED <<writerVars, phase, version, lives, written, temp>>

-----------------------------------------------------------------------------
Open == \/ Boot \/ CheckTokens \/ (\E i \in Items : Nuke(i)) \/ NukedAll \/ OpenReturns

Temp(x) == CreateTemp(x) \/ FillTemp(x)

WriteEntry(j) == Temp(j) \/ RenameEntry(j) \/ EntryFails(j)

WriteSidecar(t) == Temp(t) \/ RenameSidecar(t)

Worker(j) == Receive(j) \/ RecordErr(j) \/ JobDone(j)

Wait(w) == JobsWait(w) \/ ReadErr(w) \/ WorkersWait(w)

UseWriter == /\ phase = "open"
             /\ \/ \E j \in Jobs : Submit(j) \/ Worker(j)
                \/ WorkerExits
                \/ \E w \in Flushers : Flush(w)
                \/ \E w \in Closers : Close(w)
                \/ \E w \in Waiters : Wait(w)
             /\ UNCHANGED diskVars

Next == \/ Open
        \/ \E t \in Tokens : WriteSidecar(t)
        \/ \E j \in Jobs : WriteEntry(j)
        \/ UseWriter
        \/ UseExtra \/ Clear \/ OpenFailsOrProcessDies

Spec == Init /\ [][Next]_vars

\* Workers and waiting callers go on, and file operations return, while the
\* process lives.  Nobody has to submit, flush or close.
Fairness == /\ \A j \in Jobs : /\ WF_vars(WriteEntry(j))
                               /\ WF_vars(Worker(j) /\ UNCHANGED diskVars)
            /\ WF_vars(WorkerExits /\ UNCHANGED diskVars)
            /\ \A w \in Waiters : WF_vars(Wait(w) /\ UNCHANGED diskVars)

FairSpec == Spec /\ Fairness

-----------------------------------------------------------------------------
\* Every variable keeps the type its declaration gives it.
TypeOK == /\ WriterTypeOK
          /\ phase \in Phases
          /\ version \in Versions \cup {Missing}
          /\ lives \in 0..MaxLives
          /\ sidecar \in [Tokens -> Values \cup {None}]
          /\ items \in [Items -> Versions \cup {None}]
          /\ written \subseteq Tokens
          /\ temp \in [Jobs \cup Tokens -> TempStates]
          /\ halfClear \in BOOLEAN

\* "Readers that see the new sidecar can trust the entries subtree matches":
\* whatever has its tokens' sidecars in place holds data of that version only,
\* after failed and interrupted Opens too.
SidecarsVouch == (\A t \in Tokens : sidecar[t] # None) =>
                    \A i \in Items : items[i] \in {None, sidecar}

\* That, as long as no Clear has stopped half-way.
SidecarsVouchUnlessHalfClear == ~halfClear => SidecarsVouch

\* A failed write takes its temporary file away: as long as the process lives,
\* a temporary file belongs to a write in progress.
TempsInUse == \A x \in DOMAIN temp : temp[x] # "none" => Writing(x)

\* Close returns, unless the process dies, whatever the jobs come to.
CloseReturns == \A w \in Closers :
  (at[w] \notin {"idle", "returned"}) ~> (at[w] = "returned" \/ phase = "off")
=============================================================================
