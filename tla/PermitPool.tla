----------------------------- MODULE PermitPool -----------------------------
(***************************************************************************)
(* What internal/limiter promises, with no lock, condition variable or     *)
(* context in sight: permits are taken n at a time, all or nothing, never  *)
(* more than Capacity of them are out, and a holder gives back only what   *)
(* it holds.                                                               *)
(***************************************************************************)
EXTENDS Naturals, FiniteSets

CONSTANTS Procs,    \* goroutines that use the limiter
          Capacity, \* what NewSemaphore was given
          Sizes     \* values of n that callers pass

VARIABLE held       \* held[p]: permits that p has acquired and not released

\* One token per permit that is out.
Outstanding == {t \in Procs \X (1..Capacity) : t[2] <= held[t[1]]}

Init == held = [p \in Procs |-> 0]

Take(p, n) == /\ Cardinality(Outstanding) + n <= Capacity
              /\ held' = [held EXCEPT ![p] = @ + n]

Give(p, n) == /\ n <= held[p]
              /\ held' = [held EXCEPT ![p] = @ - n]

Next == \E p \in Procs, n \in Sizes : Take(p, n) \/ Give(p, n)

Spec == Init /\ [][Next]_held
=============================================================================
