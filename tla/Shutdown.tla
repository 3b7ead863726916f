------------------------------ MODULE Shutdown ------------------------------
(***************************************************************************)
(* internal/shutdown: the Coordinator.  Subsystems register and deregister *)
(* hooks, several goroutines call Shutdown, and the first of them runs the *)
(* hooks, each in a goroutine of its own under a time limit.               *)
(***************************************************************************)
EXTENDS Naturals, FiniteSets, Sequences, SequencesExt

CONSTANTS Callers, \* goroutines that call Shutdown
          Hooks,   \* registrations
          Names,   \* names they are registered under
          Bounded, \* New was given a positive hookTimeout
          Nil

ASSUME ShutdownAssumption ==
  /\ Nil \notin Hooks \cup Callers \cup [name : Names, idx : Nat]
  /\ Bounded \in BOOLEAN

VARIABLES hooks,   \* Coordinator.hooks: what is registered, in order
          closure, \* per registration, what its deregister function captured
          gone,    \* history: registrations whose deregister ran before Shutdown
          started, \* Coordinator.started
          doneCh,  \* Coordinator.doneCh is closed
          pc,      \* where each caller of Shutdown is
          runner,  \* history: the first caller
          ctxDone, \* the runner's context is cancelled or past its deadline
          copied,  \* the runner's copy of hooks
          todo,    \* how many of them its loop has left
          hookAt,  \* each hook's goroutine
          outcome, \* what runHook made of each hook
          ret      \* what each Shutdown call returned

regVars == <<hooks, closure, gone>>
runVars == <<copied, todo, hookAt, outcome>>
vars == <<regVars, started, doneCh, pc, runner, ctxDone, runVars, ret>>

Init == /\ hooks = <<>>
        /\ closure = [h \in Hooks |-> Nil]
        /\ gone = {}
        /\ started = FALSE
        /\ doneCh = FALSE
        /\ pc = [p \in Callers |-> "idle"]
        /\ runner = Nil
        /\ ctxDone = FALSE
        /\ copied = <<>>
        /\ todo = 0
        /\ hookAt = [h \in Hooks |-> "none"]
        /\ outcome = [h \in Hooks |-> "none"]
        /\ ret = [p \in Callers |-> "none"]

-----------------------------------------------------------------------------
(* Register and the function it returns, both under mu.                    *)
\* Nothing stops a registration once Shutdown has copied the hooks.
Register(h, n) ==
  /\ closure[h] = Nil
  /\ hooks' = Append(hooks, [name |-> n, id |-> h])
  /\ closure' = [closure EXCEPT ![h] = [name |-> n, idx |-> Len(hooks) + 1]]
  /\ UNCHANGED <<gone, started, doneCh, pc, runner, ctxDone, runVars, ret>>

\* Slip: the name is not compared.
RemovableByIndex(h) ==
  closure[h].idx <= Len(hooks)

\* The guard of deregister: the captured index still has the captured name.
Removable(h) == /\ closure[h].idx <= Len(hooks)
                /\ hooks[closure[h].idx].name = closure[h].name

\* Once Shutdown has begun, deregister returns at once.
Deregister(h) ==
  /\ closure[h] # Nil /\ ~started
  /\ hooks' = IF Removable(h) THEN RemoveAt(hooks, closure[h].idx) ELSE hooks
  /\ gone' = gone \cup {h}
  /\ UNCHANGED <<closure, started, doneCh, pc, runner, ctxDone, runVars, ret>>

-----------------------------------------------------------------------------
(* Shutdown.                                                               *)
\* The first call copies the hooks.
ShutdownFirst(p) ==
  /\ pc[p] = "idle" /\ ~started
  /\ started' = TRUE
  /\ runner' = p
  /\ copied' = hooks
  /\ todo' = Len(hooks)
  /\ pc' = [pc EXCEPT ![p] = "looping"]
  /\ UNCHANGED <<regVars, doneCh, ctxDone, hookAt, outcome, ret>>

\* Any other call waits for doneCh.
ShutdownAgain(p) ==
  /\ pc[p] = "idle" /\ started
  /\ pc' = [pc EXCEPT ![p] = "waiting"]
  /\ UNCHANGED <<regVars, started, doneCh, runner, ctxDone, runVars, ret>>

WaitReturns(p) ==
  /\ pc[p] = "waiting" /\ doneCh
  /\ pc' = [pc EXCEPT ![p] = "returned"]
  /\ ret' = [ret EXCEPT ![p] = "nil"]
  /\ UNCHANGED <<regVars, started, doneCh, runner, ctxDone, runVars>>

\* The context given to the first call ends.
ContextEnds == /\ started /\ ~ctxDone
               /\ ctxDone' = TRUE
               /\ UNCHANGED <<regVars, started, doneCh, pc, runner, runVars, ret>>

\* Slip: the loop goes from the first to the last.
NextFirstToLast == copied[Len(copied) - todo + 1].id

\* The hook the loop is at: the last of those left.
NextHook == copied[todo].id

\* The loop runs a hook in a new goroutine.
StartHook == /\ runner # Nil /\ pc[runner] = "looping"
             /\ todo > 0 /\ ~ctxDone
             /\ hookAt' = [hookAt EXCEPT ![NextHook] = "running"]
             /\ pc' = [pc EXCEPT ![runner] = "inHook"]
             /\ UNCHANGED <<regVars, started, doneCh, runner, ctxDone, copied, todo, outcome,
                            ret>>

\* A hook returns nil, returns an error, or panics and is recovered.
HookReturns(h) == /\ hookAt[h] = "running"
                  /\ \E r \in {"ok", "failed"} : hookAt' = [hookAt EXCEPT ![h] = r]
                  /\ UNCHANGED <<regVars, started, doneCh, pc, runner, ctxDone, copied, todo,
                                 outcome, ret>>

Settle(result) == /\ outcome' = [outcome EXCEPT ![NextHook] = result]
                  /\ todo' = todo - 1
                  /\ pc' = [pc EXCEPT ![runner] = "looping"]
                  /\ UNCHANGED <<regVars, started, doneCh, runner, ctxDone, copied, hookAt, ret>>

\* runHook's select: the hook has sent its result.
HookDone == /\ runner # Nil /\ pc[runner] = "inHook"
            /\ hookAt[NextHook] # "running"
            /\ Settle(hookAt[NextHook])

\* Slip: only the caller's context bounds the hook.
HookTimesOutByContext ==
  /\ runner # Nil /\ pc[runner] = "inHook"
  /\ ctxDone
  /\ Settle("timedOut")

\* runHook's select: the hook's own deadline, or the context it derives from.
\* The hook goes on in the background.
HookTimesOut == /\ runner # Nil /\ pc[runner] = "inHook"
                /\ Bounded \/ ctxDone
                /\ Settle("timedOut")

Complete(result) == /\ doneCh' = TRUE
                    /\ pc' = [pc EXCEPT ![runner] = "returned"]
                    /\ ret' = [ret EXCEPT ![runner] = result]
                    /\ UNCHANGED <<regVars, started, runner, ctxDone, runVars>>

\* The loop finds the context ended and leaves the other hooks out.
Abort == /\ runner # Nil /\ pc[runner] = "looping"
         /\ todo > 0 /\ ctxDone
         /\ Complete("error")

Errors == \E h \in Hooks : outcome[h] \in {"failed", "timedOut"}

\* Slip: only errors that the hooks returned are joined.
FinishReturnedOnly ==
  /\ runner # Nil /\ pc[runner] = "looping"
  /\ todo = 0
  /\ Complete(IF \E h \in Hooks : outcome[h] = "failed" THEN "error" ELSE "nil")

\* Slip: the loop stops at the first error.
FinishAtError ==
  /\ runner # Nil /\ pc[runner] = "looping"
  /\ todo = 0 \/ Errors
  /\ Complete(IF Errors THEN "error" ELSE "nil")

\* Every hook has run: join the errors, close doneCh.
Finish == /\ runner # Nil /\ pc[runner] = "looping"
          /\ todo = 0
          /\ Complete(IF Errors THEN "error" ELSE "nil")

-----------------------------------------------------------------------------
Next == \/ \E h \in Hooks, n \in Names : Register(h, n)
        \/ \E h \in Hooks : Deregister(h) \/ HookReturns(h)
        \/ \E p \in Callers : ShutdownFirst(p) \/ ShutdownAgain(p) \/ WaitReturns(p)
        \/ ContextEnds
        \/ StartHook \/ HookDone \/ HookTimesOut \/ Abort \/ Finish

Spec == Init /\ [][Next]_vars

\* The callers run, and the per-hook timer fires; no hook has to return.
Fairness == /\ \A p \in Callers : WF_vars(WaitReturns(p))
            /\ WF_vars(StartHook) /\ WF_vars(HookDone \/ HookTimesOut)
            /\ WF_vars(Abort) /\ WF_vars(Finish)

FairSpec == Spec /\ Fairness

-----------------------------------------------------------------------------
Registered == {h \in Hooks : closure[h] # Nil}
Present == {hooks[i].id : i \in DOMAIN hooks}

\* Every variable keeps the type its declaration gives it.
TypeOK == /\ hooks \in Seq([name : Names, id : Hooks])
          /\ closure \in [Hooks -> [name : Names, idx : Nat \ {0}] \cup {Nil}]
          /\ gone \subseteq Hooks
          /\ started \in BOOLEAN /\ doneCh \in BOOLEAN /\ ctxDone \in BOOLEAN
          /\ pc \in [Callers -> {"idle", "looping", "inHook", "waiting", "returned"}]
          /\ runner \in Callers \cup {Nil}
          /\ copied \in Seq([name : Names, id : Hooks])
          /\ todo \in 0..Len(copied)
          /\ hookAt \in [Hooks -> {"none", "running", "ok", "failed"}]
          /\ outcome \in [Hooks -> {"none", "ok", "failed", "timedOut"}]
          /\ ret \in [Callers -> {"none", "nil", "error"}]

\* A subsystem loses its hook only to a deregister of the same name: with
\* distinct names, no subsystem can take out another's.
LostByName == \A h \in Registered \ Present :
  \E g \in gone : closure[g].name = closure[h].name

\* "Dependents close before their dependencies": a hook is started only when
\* each hook registered after it has been waited for, to its end or its limit.
LastInFirstOut == \A i, j \in DOMAIN copied :
  i < j /\ hookAt[copied[i].id] # "none" => outcome[copied[j].id] # "none"

\* A nil from the call that ran the hooks means that every hook that was
\* registered when it began has returned nil.
NilMeansAllClosed == runner # Nil /\ ret[runner] = "nil" =>
  \A i \in DOMAIN copied : hookAt[copied[i].id] = "ok"

\* "A stuck subsystem cannot hang the whole shutdown": every call returns, if
\* hooks have a bound, or once the first caller's context has ended.
ShutdownReturns == \A p \in Callers :
  (pc[p] \notin {"idle", "returned"} /\ (Bounded \/ ctxDone)) ~> (pc[p] = "returned")

\* Hooks left out or cut short have an ended context to blame: without one,
\* closing doneCh means every hook was started.
DoneMeansAllStarted == doneCh /\ ~ctxDone =>
  \A i \in DOMAIN copied : hookAt[copied[i].id] # "none"

\* "Returns a deregister function that removes the hook if Shutdown has not
\* yet been invoked."
DeregisterRemoves == ~started => Present = Registered \ gone

\* "Subsequent calls block on the original run and return the same error."
SameError == \A p \in Callers :
  pc[p] = "returned" /\ ret[runner] # "none" => ret[p] = ret[runner]
=============================================================================
