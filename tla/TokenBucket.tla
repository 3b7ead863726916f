---------------------------- MODULE TokenBucket -----------------------------
(***************************************************************************)
(* What internal/ratelimit promises of a Bucket, without its laziness: it  *)
(* gains Rate at every tick of the clock, never holds more than Burst      *)
(* tokens, and gives n tokens only when it has them.  Amounts are counted  *)
(* in fractions of a token, PerToken of them to one.                       *)
(***************************************************************************)
EXTENDS Integers

CONSTANTS Rate,     \* fractions gained per tick
          Burst,    \* capacity in tokens
          PerToken  \* fractions in a token

VARIABLES now,  \* the clock
          level \* fractions in the bucket

Cap == Burst * PerToken

AtMostCap(x) == IF x > Cap THEN Cap ELSE x

Init == now = 0 /\ level = Cap

Tick == now' = now + 1 /\ level' = AtMostCap(level + Rate)

Take(n) == n * PerToken <= level /\ level' = level - n * PerToken /\ UNCHANGED now

Next == Tick \/ \E n \in 1..Burst : Take(n)

Spec == Init /\ [][Next]_<<now, level>>
=============================================================================
