------------------------------- MODULE Bucket -------------------------------
(***************************************************************************)
(* internal/ratelimit, Bucket: a token bucket that counts its refill only  *)
(* when it is asked.  Callers try (AllowN) or wait (WaitN); a wait that    *)
(* finds too little sleeps on a timer of its own and tries again, so a     *)
(* refill may be counted by any of them.                                   *)
(*                                                                         *)
(* Time and the fractions of a token are integers: the rounding of the     *)
(* code's float64 is not modelled, its truncation of the sleep to whole    *)
(* units of time is.  The clock does not run backwards (System).           *)
(***************************************************************************)
EXTENDS Integers

CONSTANTS Callers,   \* goroutines that share the bucket
          Rate,      \* New's ratePerSec, in fractions of a token per tick
          Burst,     \* New's burst
          PerToken,  \* fractions in a token
          ShortNap,  \* the millisecond WaitN sleeps when its wait rounds to 0
          MaxTime    \* bound: the last tick

ASSUME RateAssumption == Rate \in Nat \ {0}
ASSUME BurstAssumption == Burst \in Nat \ {0}
ASSUME PerTokenAssumption == PerToken \in Nat \ {0}
ASSUME NapAssumption == ShortNap \in Nat \ {0}

VARIABLES now,      \* the clock
          tokens,   \* Bucket.tokens, in fractions
          lastFill, \* Bucket.lastFill
          wants,    \* n of the WaitN a caller is in, 0 when it is in none
          timer,    \* when the sleep of that WaitN ends
          since,    \* history: when a window of observation was opened
          granted   \* history: fractions granted since then

vars == <<now, tokens, lastFill, wants, timer, since, granted>>

Cap == Burst * PerToken

AtMostCap(x) == IF x > Cap THEN Cap ELSE x

Init == /\ now = 0 /\ tokens = Cap /\ lastFill = 0
        /\ wants = [c \in Callers |-> 0]
        /\ timer = [c \in Callers |-> 0]
        /\ since = 0 /\ granted = 0

Tick == /\ now < MaxTime
        /\ now' = now + 1
        /\ UNCHANGED <<tokens, lastFill, wants, timer, since, granted>>

\* Slip: the cap is applied to what is added, not to the sum.
RefillUncapped == tokens + AtMostCap((now - lastFill) * Rate)

\* refillLocked: what tokens comes to; lastFill becomes now.
Refill == AtMostCap(tokens + (now - lastFill) * Rate)

\* With mu: refill, then take n tokens.
Grant(n) == /\ n * PerToken <= Refill
            /\ tokens' = Refill - n * PerToken
            /\ lastFill' = now
            /\ granted' = granted + n * PerToken
            /\ UNCHANGED <<now, since>>

\* With mu: refill, and there is too little for n.
Short(n) == /\ n * PerToken > Refill
            /\ tokens' = Refill
            /\ lastFill' = now
            /\ UNCHANGED <<now, since, granted>>

\* AllowN (n > 0), and Tokens, which only refills.
AllowN(n) == (Grant(n) \/ Short(n)) /\ UNCHANGED <<wants, timer>>

Tokens == /\ tokens' = Refill /\ lastFill' = now
          /\ UNCHANGED <<now, wants, timer, since, granted>>

\* Slip: the sleep lasts as if the bucket were empty.
NapFromEmpty(n) == (n * PerToken) \div Rate + 1

\* How long WaitN sleeps for n tokens.
Nap(n) == LET wait == (n * PerToken - Refill) \div Rate
          IN  IF wait <= 0 THEN ShortNap ELSE wait

\* WaitN takes its tokens or goes to sleep, at its call and after each sleep.
WaitN(c, n) == \/ Grant(n) /\ wants' = [wants EXCEPT ![c] = 0] /\ UNCHANGED timer
               \/ /\ Short(n)
                  /\ wants' = [wants EXCEPT ![c] = n]
                  /\ timer' = [timer EXCEPT ![c] = now + Nap(n)]

CallWaitN(c, n) == wants[c] = 0 /\ WaitN(c, n)

\* The timer fires, late perhaps.
Wakes(c) == wants[c] > 0 /\ now >= timer[c] /\ WaitN(c, wants[c])

\* The caller's context ends first.
Cancelled(c) == /\ wants[c] > 0
                /\ wants' = [wants EXCEPT ![c] = 0]
                /\ UNCHANGED <<now, tokens, lastFill, timer, since, granted>>

OpenWindow == /\ since' = now /\ granted' = 0
              /\ UNCHANGED <<now, tokens, lastFill, wants, timer>>

Next == \/ Tick \/ Tokens \/ OpenWindow
        \/ \E n \in 1..Burst : AllowN(n) \/ \E c \in Callers : CallWaitN(c, n)
        \/ \E c \in Callers : Wakes(c) \/ Cancelled(c)

Spec == Init /\ [][Next]_vars

-----------------------------------------------------------------------------
TypeOK == /\ now \in Nat /\ lastFill \in 0..now /\ since \in 0..now
          /\ tokens \in 0..Cap /\ granted \in Nat
          /\ wants \in [Callers -> 0..Burst]
          /\ timer \in [Callers -> Nat]

\* What the bucket holds once the refill due is counted.
Level == AtMostCap(tokens + (now - lastFill) * Rate)

(* Whoever counts the refills and in whatever order the callers come, in   *)
(* any window the bucket grants no more than its burst and what the rate   *)
(* brings in that window: the promise of the package doc ("a token bucket  *)
(* with refill rate and burst").                                           *)
WindowBound == granted <= Cap + (now - since) * Rate

Eager == INSTANCE TokenBucket WITH level <- Level

(* The lazy bucket implements the one that gains Rate at every tick.       *)
ImplementsTokenBucket == Eager!Spec

(* A wait does not sleep through its own tokens: while its timer runs, the *)
(* bucket has not had what it wants for longer than the short nap.         *)
SleepsNoLonger ==
  \A c \in Callers : wants[c] > 0 /\ now < timer[c] =>
    Level < wants[c] * PerToken \/ timer[c] - now < ShortNap
=============================================================================
