---------------------------- MODULE ManualLimiter ---------------------------
(***************************************************************************)
(* internal/ratelimit, Manual: the limiter whose count a test sets.  WaitN *)
(* waits on a condition variable; Set and Add broadcast once they have     *)
(* unlocked, a watcher goroutine broadcasts when the context of a call     *)
(* ends.  A step is what runs under one hold of mu, except that cond.Wait  *)
(* registers the caller in a step of its own, mu still held: a watcher     *)
(* does not take mu and may broadcast before that.                         *)
(***************************************************************************)
EXTENDS Integers

CONSTANTS Procs,  \* goroutines that call the limiter
          Counts, \* the values of n in Set, AllowN and WaitN
          Deltas, \* the values of delta in Add
          Least, Most, \* bounds on the count
          Nobody  \* mu is free

VARIABLES tokens,    \* Manual.tokens
          mu,        \* who holds mu between two steps
          pc,        \* where each goroutine is
          need,      \* n of its WaitN
          cancelled, \* the context of its WaitN is done
          watcher    \* its watcher has yet to notice that

vars == <<tokens, mu, pc, need, cancelled, watcher>>

Init == /\ tokens = 0 /\ mu = Nobody
        /\ pc = [p \in Procs |-> "idle"]
        /\ need = [p \in Procs |-> 0]
        /\ cancelled = [p \in Procs |-> FALSE]
        /\ watcher = [p \in Procs |-> FALSE]

Broadcast == pc' = [q \in Procs |-> IF pc[q] = "waiting" THEN "locking" ELSE pc[q]]

\* Set and Add up to their unlock; the broadcast follows.
Change(p, n) == /\ pc[p] = "idle" /\ mu = Nobody /\ n \in Least..Most
                /\ tokens' = n
                /\ pc' = [pc EXCEPT ![p] = "broadcasting"]
                /\ UNCHANGED <<mu, need, cancelled, watcher>>

Set(p, n) == Change(p, n)

\* Slip: Add leaves the callers asleep.
AddQuietly(p, delta) == /\ pc[p] = "idle" /\ mu = Nobody /\ tokens + delta \in Least..Most
                        /\ tokens' = tokens + delta
                        /\ UNCHANGED <<pc, mu, need, cancelled, watcher>>

Add(p, delta) == Change(p, tokens + delta)

Broadcasts(p) == /\ pc[p] = "broadcasting"
                 /\ pc' = [q \in Procs |-> CASE q = p -> "idle"
                                             [] pc[q] = "waiting" -> "locking"
                                             [] OTHER -> pc[q]]
                 /\ UNCHANGED <<tokens, mu, need, cancelled, watcher>>

AllowN(p, n) == /\ pc[p] = "idle" /\ mu = Nobody /\ tokens >= n
                /\ tokens' = tokens - n
                /\ UNCHANGED <<mu, pc, need, cancelled, watcher>>

\* The watcher is spawned before anything is looked at; the context may be
\* done already.
WaitN(p, n) == /\ pc[p] = "idle" /\ n > 0
               /\ pc' = [pc EXCEPT ![p] = "locking"]
               /\ need' = [need EXCEPT ![p] = n]
               /\ watcher' = [watcher EXCEPT ![p] = TRUE]
               /\ \E done \in BOOLEAN : cancelled' = [cancelled EXCEPT ![p] = done]
               /\ UNCHANGED <<tokens, mu>>

Returns(p) == /\ pc' = [pc EXCEPT ![p] = "idle"]
              /\ watcher' = [watcher EXCEPT ![p] = FALSE]
              /\ UNCHANGED <<mu, need, cancelled>>

\* With mu: enough tokens, whatever the context.
Granted(p) == /\ pc[p] = "locking" /\ mu = Nobody /\ tokens >= need[p]
              /\ tokens' = tokens - need[p]
              /\ Returns(p)

\* With mu: too few, and the context is done.
Refused(p) == /\ pc[p] = "locking" /\ mu = Nobody /\ tokens < need[p] /\ cancelled[p]
              /\ Returns(p)
              /\ UNCHANGED tokens

\* With mu: too few and a live context; mu is kept until cond.Wait has
\* registered the caller.
Parks(p) == /\ pc[p] = "locking" /\ mu = Nobody /\ tokens < need[p] /\ ~cancelled[p]
            /\ mu' = p
            /\ pc' = [pc EXCEPT ![p] = "parking"]
            /\ UNCHANGED <<tokens, need, cancelled, watcher>>

Registers(p) == /\ pc[p] = "parking"
                /\ mu' = Nobody
                /\ pc' = [pc EXCEPT ![p] = "waiting"]
                /\ UNCHANGED <<tokens, need, cancelled, watcher>>

Cancel(p) == /\ pc[p] \notin {"idle", "broadcasting"} /\ ~cancelled[p]
             /\ cancelled' = [cancelled EXCEPT ![p] = TRUE]
             /\ UNCHANGED <<tokens, mu, pc, need, watcher>>

\* The watcher broadcasts once, without mu.
Watches(p) == /\ watcher[p] /\ cancelled[p]
              /\ watcher' = [watcher EXCEPT ![p] = FALSE]
              /\ Broadcast
              /\ UNCHANGED <<tokens, mu, need, cancelled>>

Next == \E p \in Procs :
          \/ \E n \in Counts : Set(p, n) \/ AllowN(p, n) \/ WaitN(p, n)
          \/ \E delta \in Deltas : Add(p, delta)
          \/ Broadcasts(p) \/ Granted(p) \/ Refused(p) \/ Parks(p) \/ Registers(p)
          \/ Cancel(p) \/ Watches(p)

Spec == Init /\ [][Next]_vars

-----------------------------------------------------------------------------
(* No wakeup is lost between the check for tokens and the sleep: a caller  *)
(* asleep on tokens that are there has a broadcast coming.                 *)
NoLostTokens == \A p \in Procs : pc[p] = "waiting" /\ tokens >= need[p] =>
                                   \E q \in Procs : pc[q] = "broadcasting"

(* A cancelled caller is woken, too - unless the watcher's broadcast fell  *)
(* between its check of the context and its registration.  False of the    *)
(* code (the caller sleeps until the next Set or Add) and not checked.     *)
CancelNoticed == \A p \in Procs : pc[p] = "waiting" /\ cancelled[p] => watcher[p]
=============================================================================
