------------------------------ MODULE ErrGroup ------------------------------
(***************************************************************************)
(* internal/errgroup: groups of goroutines whose first error cancels the   *)
(* group's context and is what Wait returns.  A group has no limiter or    *)
(* the one that all limited groups share, and that limiter is PermitPool,  *)
(* which Semaphore implements: one permit per function under way.          *)
(*                                                                         *)
(* Each group has one caller, which calls Go and TryGo and then Wait, as   *)
(* the package doc shows.  SetLimit and SetLimiter come before any Go, as  *)
(* their doc demands.                                                      *)
(***************************************************************************)
EXTENDS Naturals, FiniteSets

CONSTANTS Groups,    \* groups in use at one time
          Functions, \* functions handed to Go or TryGo, each once
          Room,      \* capacity of the shared limiter
          None       \* no error, no group

VARIABLES limited,  \* limited[g]: the group has the limiter
          ctxDone,  \* the derived context of the group is cancelled
          err,      \* Group.err: None, or the function whose Go or run failed
          owner,    \* the group a function was handed to
          fn,       \* where each function is
          outcome,  \* what its caller or its own return came to
          permits,  \* permits[f]: permits of the limiter taken for f
          result    \* what Wait returned to the caller: "pending" before that

vars == <<limited, ctxDone, err, owner, fn, outcome, permits, result>>

Pool == INSTANCE PermitPool WITH Procs <- Functions, Capacity <- Room,
                                 Sizes <- {1}, held <- permits

Of(g) == {f \in Functions : owner[f] = g}

\* The caller of g is inside Go, waiting for a permit.
InGo(g) == \E f \in Of(g) : fn[f] = "acquiring"

\* Group.wg counts the goroutines between wg.Add and wg.Done.
Counted(g) == {f \in Of(g) : fn[f] \in {"running", "failed", "finished", "released"}}

Init == /\ limited = [g \in Groups |-> FALSE]
        /\ ctxDone = [g \in Groups |-> FALSE]
        /\ err = [g \in Groups |-> None]
        /\ owner = [f \in Functions |-> None]
        /\ fn = [f \in Functions |-> "unused"]
        /\ outcome = [f \in Functions |-> "none"]
        /\ permits = [f \in Functions |-> 0]
        /\ result = [g \in Groups |-> "pending"]

\* recordErr: the first error is kept and cancels the context.
RecordErr(g, f) == IF err[g] = None
                   THEN /\ err' = [err EXCEPT ![g] = f]
                        /\ ctxDone' = [ctxDone EXCEPT ![g] = TRUE]
                   ELSE UNCHANGED <<err, ctxDone>>

\* The context given to WithContext is cancelled by its owner.
ParentCancels(g) == /\ ~ctxDone[g]
                    /\ ctxDone' = [ctxDone EXCEPT ![g] = TRUE]
                    /\ UNCHANGED <<limited, err, owner, fn, outcome, permits, result>>

SetLimiter(g) == /\ Of(g) = {} /\ ~limited[g] /\ result[g] = "pending"
                 /\ limited' = [limited EXCEPT ![g] = TRUE]
                 /\ UNCHANGED <<ctxDone, err, owner, fn, outcome, permits, result>>

CallerFree(g) == result[g] = "pending" /\ ~InGo(g)

Spawn(g, f) == /\ owner' = [owner EXCEPT ![f] = g]
               /\ fn' = [fn EXCEPT ![f] = "running"]

\* Go, and TryGo, of a group without limiter: no look at the context.
GoUnlimited(g, f) == /\ CallerFree(g) /\ fn[f] = "unused" /\ ~limited[g]
                     /\ Spawn(g, f)
                     /\ UNCHANGED <<limited, ctxDone, err, outcome, permits, result>>

TryGo(g, f) == /\ CallerFree(g) /\ fn[f] = "unused" /\ limited[g]
               /\ Pool!Take(f, 1)
               /\ Spawn(g, f)
               /\ UNCHANGED <<limited, ctxDone, err, outcome, result>>

\* Acquire refuses a context that is done, the group records the error and
\* Go returns without a goroutine.
Refuse(g, f) == /\ RecordErr(g, f)
                /\ owner' = [owner EXCEPT ![f] = g]
                /\ fn' = [fn EXCEPT ![f] = "done"]
                /\ outcome' = [outcome EXCEPT ![f] = "refused"]
                /\ UNCHANGED <<limited, permits, result>>

Go(g, f) == /\ CallerFree(g) /\ fn[f] = "unused" /\ limited[g]
            /\ IF ctxDone[g]
               THEN Refuse(g, f)
               ELSE /\ owner' = [owner EXCEPT ![f] = g]
                    /\ fn' = [fn EXCEPT ![f] = "acquiring"]
                    /\ UNCHANGED <<limited, ctxDone, err, outcome, permits, result>>

\* The blocked Acquire gets its permit, even if the context is done by now.
Admit(g, f) == /\ owner[f] = g /\ fn[f] = "acquiring"
               /\ Pool!Take(f, 1)
               /\ Spawn(g, f)
               /\ UNCHANGED <<limited, ctxDone, err, outcome, result>>

\* It may instead notice the context while there is no room.
GiveUp(g, f) == /\ owner[f] = g /\ fn[f] = "acquiring" /\ ctxDone[g]
                /\ Cardinality(Pool!Outstanding) = Room
                /\ Refuse(g, f)

-----------------------------------------------------------------------------
(* run: the function, recordErr, then the deferred release and wg.Done.    *)
Returns(g, f) == /\ owner[f] = g /\ fn[f] = "running"
                 /\ \/ /\ fn' = [fn EXCEPT ![f] = "finished"]
                       /\ outcome' = [outcome EXCEPT ![f] = "nil"]
                    \/ /\ fn' = [fn EXCEPT ![f] = "failed"]
                       /\ outcome' = [outcome EXCEPT ![f] = "error"]
                 /\ UNCHANGED <<limited, ctxDone, err, owner, permits, result>>

Records(g, f) == /\ owner[f] = g /\ fn[f] = "failed"
                 /\ RecordErr(g, f)
                 /\ fn' = [fn EXCEPT ![f] = "finished"]
                 /\ UNCHANGED <<limited, owner, outcome, permits, result>>

\* Slip: a function that failed keeps its permit.
ReleaseIfNil(g, f) == /\ owner[f] = g /\ fn[f] = "finished"
                      /\ IF limited[g] /\ outcome[f] = "nil"
                         THEN Pool!Give(f, 1) ELSE UNCHANGED permits
                      /\ fn' = [fn EXCEPT ![f] = "released"]
                      /\ UNCHANGED <<limited, ctxDone, err, owner, outcome, result>>

Release(g, f) == /\ owner[f] = g /\ fn[f] = "finished"
                 /\ IF limited[g] THEN Pool!Give(f, 1) ELSE UNCHANGED permits
                 /\ fn' = [fn EXCEPT ![f] = "released"]
                 /\ UNCHANGED <<limited, ctxDone, err, owner, outcome, result>>

\* Slip: the goroutine counts itself out once its function has returned.
DoneEarly(g, f) == /\ owner[f] = g /\ fn[f] \in {"finished", "failed", "released"}
                   /\ fn' = [fn EXCEPT ![f] = "done"]
                   /\ UNCHANGED <<limited, ctxDone, err, owner, outcome, permits, result>>

Done(g, f) == /\ owner[f] = g /\ fn[f] = "released"
              /\ fn' = [fn EXCEPT ![f] = "done"]
              /\ UNCHANGED <<limited, ctxDone, err, owner, outcome, permits, result>>

\* Wait returns Group.err and cancels the context in any case.
Wait(g) == /\ CallerFree(g) /\ Counted(g) = {}
           /\ ctxDone' = [ctxDone EXCEPT ![g] = TRUE]
           /\ result' = [result EXCEPT ![g] = IF err[g] = None THEN "nil" ELSE "error"]
           /\ UNCHANGED <<limited, err, owner, fn, outcome, permits>>

Run(g, f) == Admit(g, f) \/ Returns(g, f) \/ Records(g, f) \/ Release(g, f) \/ Done(g, f)

Next == \E g \in Groups :
          \/ ParentCancels(g) \/ SetLimiter(g) \/ Wait(g)
          \/ \E f \in Functions :
               GoUnlimited(g, f) \/ TryGo(g, f) \/ Go(g, f) \/ GiveUp(g, f) \/ Run(g, f)

\* Functions return and scheduled goroutines run on.  Nothing is asked of
\* GiveUp: the limiter may lose the broadcast of a cancellation.
Fairness == \A g \in Groups, f \in Functions : WF_vars(Run(g, f))

Spec == Init /\ [][Next]_vars /\ Fairness

-----------------------------------------------------------------------------
(* When Wait has returned, every function of the group has come to its     *)
(* end and its permit is back with the limiter, where another group may    *)
(* need it; and nil means that each of them returned nil and none was      *)
(* turned away for want of a live context.                                 *)
WaitMeansOver ==
  \A g \in Groups : result[g] # "pending" =>
    \A f \in Of(g) : /\ fn[f] = "done" /\ permits[f] = 0
                     /\ (result[g] = "nil") = (\A e \in Of(g) : outcome[e] = "nil")

(* A caller blocked in Go gets on, with its permit or an error: permits    *)
(* come back whatever the functions before it came to, in its group or     *)
(* in another one on the same limiter.                                     *)
GoGetsOn == \A g \in Groups : InGo(g) ~> ~InGo(g)
=============================================================================
