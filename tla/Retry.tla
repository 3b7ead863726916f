------------------------------- MODULE Retry -------------------------------
(***************************************************************************)
(* internal/retry: Executor.Do calls op until it returns nil, fails with   *)
(* an error that is not Retryable, or MaxAttempts is reached, and sleeps   *)
(* between the attempts; a cancelled context ends it.                      *)
(*                                                                         *)
(* Delays are integers in units of BaseDelay's default, 100 ms; Multiplier *)
(* is an integer and JitterFraction a number of halves.                    *)
(***************************************************************************)
EXTENDS Integers, Sequences

CONSTANTS Policies, \* the policies in use, zero fields included
          Unset     \* no result yet

VARIABLES p,         \* the Policy of this call
          cancelled, \* ctx is done
          pc,        \* where Do is
          attempt,
          delays,    \* the sleeps asked for
          lateCalls, \* calls of op that began on a cancelled context
          result

vars == <<p, cancelled, pc, attempt, delays, lateCalls, result>>

Default(field, value) == IF field <= 0 THEN value ELSE field

maxAttempts == Default(p.MaxAttempts, 3)
baseDelay == Default(p.BaseDelay, 1)
maxDelay == Default(p.MaxDelay, 50)
multiplier == Default(p.Multiplier, 2)

Capped(d) == IF d >= maxDelay THEN maxDelay ELSE d

\* Slip: the delay grows before the first sleep already.
GrownOnceMore(n) == LET d[i \in 0..n] == IF i = 0 THEN baseDelay ELSE Capped(d[i - 1] * multiplier)
                    IN  d[n]

\* The loop of computeDelay: the cap applies from the second delay on.
Grown(n) == LET d[i \in 1..n] == IF i = 1 THEN baseDelay ELSE Capped(d[i - 1] * multiplier)
            IN  d[n]

NotNegative(d) == IF d < 0 THEN 0 ELSE d

\* What the jitter may make of a delay.
Jittered(base) == LET spread == (p.JitterHalves * base) \div 2
                  IN  {NotNegative(base + offset) : offset \in (-spread)..spread}

Init == /\ p \in Policies
        /\ cancelled = FALSE
        /\ pc = "checking"
        /\ attempt = 1
        /\ delays = <<>>
        /\ lateCalls = 0
        /\ result = Unset

Cancel == /\ ~cancelled
          /\ cancelled' = TRUE
          /\ UNCHANGED <<p, pc, attempt, delays, lateCalls, result>>

Returns(r) == pc' = "done" /\ result' = r

\* Slip: the sleep is trusted to notice the cancellation.
SeesDoneAtFirst == cancelled /\ attempt = 1

SeesDone == cancelled

\* The head of the loop.
Check == /\ pc = "checking"
         /\ IF SeesDone THEN Returns("cancelled") ELSE pc' = "calling" /\ UNCHANGED result
         /\ UNCHANGED <<p, cancelled, attempt, delays, lateCalls>>

CallOp == /\ pc = "calling"
          /\ pc' = "called"
          /\ lateCalls' = IF cancelled THEN lateCalls + 1 ELSE lateCalls
          /\ UNCHANGED <<p, cancelled, attempt, delays, result>>

\* op returns: the last attempt ends Do before Retryable is asked.
OpReturns == /\ pc = "called"
             /\ \/ Returns("nil")
                \/ attempt = maxAttempts /\ Returns("exhausted")
                \/ attempt < maxAttempts /\ Returns("not retryable")
             /\ UNCHANGED <<p, cancelled, attempt, delays, lateCalls>>

OpFails == /\ pc = "called" /\ attempt < maxAttempts
           /\ \E d \in Jittered(Grown(attempt)) : delays' = Append(delays, d)
           /\ pc' = "sleeping"
           /\ UNCHANGED <<p, cancelled, attempt, lateCalls, result>>

\* The timer, or a delay of zero on a live context, ends the sleep; select
\* may take the timer though the context is done.
SleepEnds == /\ pc = "sleeping"
             /\ cancelled => delays[Len(delays)] > 0
             /\ attempt' = attempt + 1
             /\ pc' = "checking"
             /\ UNCHANGED <<p, cancelled, delays, lateCalls, result>>

SleepCancelled == /\ pc = "sleeping" /\ cancelled
                  /\ Returns("cancelled")
                  /\ UNCHANGED <<p, cancelled, attempt, delays, lateCalls>>

Next == \/ Cancel \/ Check \/ CallOp \/ OpReturns \/ OpFails \/ SleepEnds \/ SleepCancelled

Spec == Init /\ [][Next]_vars

-----------------------------------------------------------------------------
(* Cancellation stops the retries: one call of op at most begins on a      *)
(* cancelled context, the one that had its check behind it, although a     *)
(* sleep may end with the timer and not notice.                            *)
StopsWhenCancelled == lateCalls <= 1

\* BaseDelay * Multiplier^(n-1), capped from the second delay on.
Planned(n) == LET power[i \in 0..n] == IF i = 0 THEN 1 ELSE multiplier * power[i - 1]
                  d == baseDelay * power[n - 1]
              IN  IF n = 1 \/ d < maxDelay THEN d ELSE maxDelay

(* Do sleeps as its Policy plans: after attempt n for the n-th delay of    *)
(* the capped exponential backoff, give or take the jitter, and as often   *)
(* as it tried again; it ends as exhausted only with all attempts made.    *)
WaitsAsPlanned == /\ \A n \in 1..Len(delays) :
                       2 * delays[n] <= (2 + p.JitterHalves) * Planned(n)
                         /\ 2 * delays[n] + 1 >= (2 - p.JitterHalves) * Planned(n)
                  /\ result = "exhausted" => Len(delays) = maxAttempts - 1
=============================================================================
