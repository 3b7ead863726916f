---------------------------- MODULE LimitsProofs ----------------------------
(***************************************************************************)
(* Proofs about the parts that Limits puts side by side: Bucket, for any   *)
(* callers, rate, burst and clock, with the refinement of the eager token  *)
(* bucket; ManualLimiter and ErrGroup, for any goroutines, groups and      *)
(* functions; Retry, for any policies, where the delay that grows and is   *)
(* capped on the way is the one planned; LoadGen, for any engines, workers *)
(* and latencies, with what the percentiles of a sequence are; and what    *)
(* Limits asks of the five together.                                       *)
(***************************************************************************)
EXTENDS Limits, Sequences, FiniteSetTheorems, WellFoundedInduction, TLAPS

-----------------------------------------------------------------------------
(* Bucket.                                                                 *)
\* What the induction needs beyond the types: grants and contents together
\* stay within the bound, so that no contents are left out of account.
BucketInv == TypeOK /\ granted + Level <= Cap + (now - since) * Rate

\* The refill of one tick is Rate more of it, whatever was due before.
LEMMA OneMoreTick ==
  ASSUME NEW a \in Int, NEW b \in Int
  PROVE  (a + 1 - b) * Rate = (a - b) * Rate + Rate
<1> DEFINE d == a - b
<1>1. d \in Int /\ a + 1 - b = d + 1 OBVIOUS
<1>2. (d + 1) * Rate = d * Rate + Rate BY <1>1, RateAssumption
<1> QED BY <1>1, <1>2

LEMMA CapIsNat == Cap \in Nat /\ \A n \in 1..Burst : n * PerToken \in Nat
BY BurstAssumption, PerTokenAssumption DEF Cap

\* The refill due is no loss.
LEMMA RefillIsNat ==
  ASSUME NEW a \in Nat, NEW b \in 0..a
  PROVE  (a - b) * Rate \in Nat
BY RateAssumption

LEMMA LevelType == TypeOK => Level \in 0..Cap
BY CapIsNat, RefillIsNat DEF TypeOK, Level, AtMostCap

LEMMA LevelTypeNext == TypeOK' => Level' \in 0..Cap
<1>1. (TypeOK => Level \in 0..Cap)' BY LevelType, PTL
<1> QED BY <1>1 DEF Cap

\* A bucket filled at this moment holds what its count says.
LEMMA NothingDue ==
  ASSUME NEW t \in 0..Cap, NEW a \in Nat
  PROVE  AtMostCap(t + (a - a) * Rate) = t
<1>1. a - a = 0 OBVIOUS
<1>2. 0 * Rate = 0 BY RateAssumption
<1>3. t + (a - a) * Rate = t + 0 BY <1>1, <1>2, Zenon
<1> QED BY <1>3, CapIsNat DEF AtMostCap

LEMMA LevelWhenFilled ==
  ASSUME tokens' \in 0..Cap, now' \in Nat, lastFill' = now'
  PROVE  Level' = tokens'
<1>1. AtMostCap(tokens' + (now' - now') * Rate) = tokens' BY NothingDue
<1> QED BY <1>1, Zenon DEF Level

-----------------------------------------------------------------------------
LEMMA BucketStarts == Init => BucketInv
<1> SUFFICES ASSUME Init PROVE BucketInv OBVIOUS
<1>1. (now - lastFill) * Rate = 0 /\ (now - since) * Rate = 0
  BY RateAssumption DEF Init
<1>2. TypeOK BY CapIsNat, BurstAssumption DEF Init, TypeOK
<1> QED BY <1>1, <1>2, CapIsNat DEF Init, BucketInv, Level, AtMostCap

LEMMA TickStep == BucketInv /\ Tick => BucketInv'
<1> SUFFICES ASSUME BucketInv, Tick PROVE BucketInv' OBVIOUS
<1>1. TypeOK' BY DEF BucketInv, TypeOK, Tick, Cap
<1>2. /\ (now' - lastFill') * Rate = (now - lastFill) * Rate + Rate
      /\ (now' - since') * Rate = (now - since) * Rate + Rate
  <2>1. now \in Int /\ lastFill \in Int /\ since \in Int BY DEF BucketInv, TypeOK
  <2>2. now' = now + 1 /\ lastFill' = lastFill /\ since' = since BY DEF Tick
  <2>3. now' - lastFill' = now + 1 - lastFill /\ now' - since' = now + 1 - since
    BY <2>1, <2>2
  <2>4. /\ (now + 1 - lastFill) * Rate = (now - lastFill) * Rate + Rate
        /\ (now + 1 - since) * Rate = (now - since) * Rate + Rate
    BY <2>1, OneMoreTick
  <2> QED BY <2>3, <2>4, Zenon
<1>3. (now - lastFill) * Rate \in Nat /\ (now - since) * Rate \in Nat
  BY RefillIsNat DEF BucketInv, TypeOK
<1> QED BY <1>1, <1>2, <1>3, CapIsNat, RateAssumption
        DEF BucketInv, TypeOK, Tick, Level, AtMostCap, Cap

LEMMA GrantStep ==
  ASSUME BucketInv, NEW n \in 1..Burst, Grant(n)
  PROVE  /\ tokens' \in 0..Cap /\ granted' \in Nat
         /\ Level' = Level - n * PerToken
         /\ granted' + Level' = granted + Level
<1>1. n * PerToken \in Nat BY CapIsNat
<1>2. Refill = Level BY DEF Refill, Level
<1>3. Level \in 0..Cap BY LevelType DEF BucketInv
<1>4. tokens' \in 0..Cap /\ granted' \in Nat
  <2>1. Cap \in Nat BY CapIsNat
  <2>2. granted \in Nat BY DEF BucketInv, TypeOK
  <2> QED BY <1>1, <1>2, <1>3, <2>1, <2>2 DEF Grant
<1>5. Level' = tokens' BY <1>4, LevelWhenFilled DEF Grant, BucketInv, TypeOK
<1> QED BY <1>1, <1>2, <1>3, <1>4, <1>5 DEF Grant, BucketInv, TypeOK

LEMMA RefillStep ==
  ASSUME BucketInv, tokens' = Refill, lastFill' = now, now' = now
  PROVE  tokens' \in 0..Cap /\ Level' = Level
<1>1. Refill = Level BY DEF Refill, Level
<1>2. tokens' \in 0..Cap BY <1>1, LevelType DEF BucketInv
<1> QED BY <1>1, <1>2, LevelWhenFilled DEF BucketInv, TypeOK

LEMMA NapType == ASSUME BucketInv, NEW n \in 1..Burst PROVE Nap(n) \in Nat
<1>1. Refill \in 0..Cap BY LevelType DEF BucketInv, Refill, Level
<1>2. (n * PerToken - Refill) \div Rate \in Int
  BY <1>1, CapIsNat, RateAssumption
<1> QED BY <1>2, NapAssumption DEF Nap

LEMMA WaitStep ==
  ASSUME BucketInv, NEW c \in Callers, NEW n \in 1..Burst, WaitN(c, n)
  PROVE  BucketInv'
<1>1. CASE Grant(n) /\ wants' = [wants EXCEPT ![c] = 0] /\ UNCHANGED timer
  <2>1. wants' \in [Callers -> 0..Burst] BY <1>1, BurstAssumption DEF BucketInv, TypeOK
  <2>2. TypeOK' BY <1>1, <2>1, GrantStep DEF BucketInv, TypeOK, Grant, Cap
  <2> QED BY <1>1, <2>2, GrantStep DEF BucketInv, Grant, Cap
<1>2. CASE /\ Short(n) /\ wants' = [wants EXCEPT ![c] = n]
           /\ timer' = [timer EXCEPT ![c] = now + Nap(n)]
  <2>1. wants' \in [Callers -> 0..Burst] BY <1>2 DEF BucketInv, TypeOK
  <2>2. timer' \in [Callers -> Nat] BY <1>2, NapType DEF BucketInv, TypeOK
  <2>3. tokens' \in 0..Cap /\ Level' = Level BY <1>2, RefillStep DEF Short
  <2>4. TypeOK' BY <1>2, <2>1, <2>2, <2>3 DEF BucketInv, TypeOK, Short, Cap
  <2> QED BY <1>2, <2>3, <2>4 DEF BucketInv, Short, Cap
<1> QED BY <1>1, <1>2 DEF WaitN

LEMMA BucketStep == BucketInv /\ [Next]_vars => BucketInv'
<1> SUFFICES ASSUME BucketInv, [Next]_vars PROVE BucketInv' OBVIOUS
<1>1. CASE Tick BY <1>1, TickStep
<1>2. CASE Tokens
  <2>1. tokens' \in 0..Cap /\ Level' = Level BY <1>2, RefillStep DEF Tokens
  <2> QED BY <1>2, <2>1 DEF BucketInv, TypeOK, Tokens, Cap
<1>3. CASE OpenWindow
  <2>1. Level' = Level /\ Level \in 0..Cap
    BY <1>3, LevelType DEF OpenWindow, Level, AtMostCap, Cap, BucketInv
  <2>2. (now' - since') * Rate = 0 BY <1>3, RateAssumption DEF OpenWindow, BucketInv, TypeOK
  <2> QED BY <1>3, <2>1, <2>2, CapIsNat DEF BucketInv, TypeOK, OpenWindow, Cap
<1>4. ASSUME NEW n \in 1..Burst, AllowN(n) PROVE BucketInv'
  <2>1. CASE Grant(n)
    BY <1>4, <2>1, GrantStep DEF AllowN, BucketInv, TypeOK, Grant, Cap
  <2>2. CASE Short(n)
    <3>1. tokens' \in 0..Cap /\ Level' = Level BY <2>2, RefillStep DEF Short
    <3> QED BY <1>4, <2>2, <3>1 DEF AllowN, BucketInv, TypeOK, Short, Cap
  <2> QED BY <1>4, <2>1, <2>2 DEF AllowN
<1>5. ASSUME NEW n \in 1..Burst, NEW c \in Callers, CallWaitN(c, n) PROVE BucketInv'
  BY <1>5, WaitStep DEF CallWaitN
<1>6. ASSUME NEW c \in Callers, Wakes(c) PROVE BucketInv'
  <2>1. wants[c] \in 1..Burst BY <1>6 DEF Wakes, BucketInv, TypeOK
  <2> QED BY <1>6, <2>1, WaitStep DEF Wakes
<1>7. ASSUME NEW c \in Callers, Cancelled(c) PROVE BucketInv'
  BY <1>7, BurstAssumption DEF Cancelled, BucketInv, TypeOK, Level, AtMostCap, Cap
<1>8. CASE UNCHANGED vars
  BY <1>8 DEF vars, BucketInv, TypeOK, Level, AtMostCap, Cap
<1> QED BY <1>1, <1>2, <1>3, <1>4, <1>5, <1>6, <1>7, <1>8 DEF Next

(* The inductive invariant: what was granted in the window and what is in  *)
(* the bucket are together within the burst and the refill of the window.  *)
THEOREM BucketInvariance == Spec => []BucketInv
BY BucketStarts, BucketStep, PTL DEF Spec

(* No window of time is granted more than the burst and its own refill,    *)
(* whoever counts the refills (refillLocked) and when.                     *)
THEOREM GrantsBounded == Spec => []WindowBound
<1>1. ASSUME BucketInv PROVE WindowBound
  <2>1. now \in Nat /\ since \in 0..now /\ granted \in Nat BY <1>1 DEF BucketInv, TypeOK
  <2>2. (now - since) * Rate \in Nat BY <2>1, RefillIsNat
  <2>3. Level \in Nat /\ Cap \in Nat BY <1>1, LevelType, CapIsNat DEF BucketInv
  <2>4. granted + Level <= Cap + (now - since) * Rate BY <1>1 DEF BucketInv
  <2> QED BY <2>1, <2>2, <2>3, <2>4 DEF WindowBound
<1> QED BY <1>1, BucketInvariance, PTL

-----------------------------------------------------------------------------
\* Every step counts its refills, then takes or leaves: an abstract step or
\* none at all.
LEMMA StepSimulation == BucketInv /\ [Next]_vars => [Eager!Next]_<<now, Level>>
<1> SUFFICES ASSUME BucketInv, [Next]_vars PROVE [Eager!Next]_<<now, Level>> OBVIOUS
<1>1. CASE Tick
  <2>1. (now' - lastFill') * Rate = (now - lastFill) * Rate + Rate
    <3>1. now \in Int /\ lastFill \in Int BY DEF BucketInv, TypeOK
    <3>2. now' = now + 1 /\ lastFill' = lastFill BY <1>1 DEF Tick
    <3>3. now' - lastFill' = now + 1 - lastFill BY <3>1, <3>2
    <3>4. (now + 1 - lastFill) * Rate = (now - lastFill) * Rate + Rate
      BY <3>1, OneMoreTick
    <3> QED BY <3>3, <3>4, Zenon
  <2>2. (now - lastFill) * Rate \in Nat BY RefillIsNat DEF BucketInv, TypeOK
  <2>3. Level' = Eager!AtMostCap(Level + Rate)
    BY <1>1, <2>1, <2>2, CapIsNat, RateAssumption
    DEF BucketInv, TypeOK, Tick, Level, AtMostCap, Cap, Eager!AtMostCap, Eager!Cap
  <2> QED BY <1>1, <2>3 DEF Tick, Eager!Next, Eager!Tick
<1>2. CASE Tokens BY <1>2, RefillStep DEF Tokens
<1>3. CASE OpenWindow BY <1>3 DEF OpenWindow, Level, AtMostCap, Cap
<1>4. ASSUME NEW n \in 1..Burst, Grant(n) PROVE Eager!Next
  <2>1. Level' = Level - n * PerToken BY <1>4, GrantStep
  <2>2. n * PerToken <= Level BY <1>4 DEF Grant, Refill, Level
  <2> QED BY <1>4, <2>1, <2>2 DEF Grant, Eager!Next, Eager!Take
<1>5. ASSUME NEW n \in 1..Burst, Short(n) PROVE UNCHANGED <<now, Level>>
  BY <1>5, RefillStep DEF Short
<1>6. ASSUME NEW n \in 1..Burst, AllowN(n) PROVE [Eager!Next]_<<now, Level>>
  BY <1>4, <1>5, <1>6 DEF AllowN
<1>7. ASSUME NEW n \in 1..Burst, NEW c \in Callers, WaitN(c, n)
      PROVE  [Eager!Next]_<<now, Level>>
  BY <1>4, <1>5, <1>7 DEF WaitN
<1>8. ASSUME NEW c \in Callers, Wakes(c) PROVE [Eager!Next]_<<now, Level>>
  <2>1. wants[c] \in 1..Burst BY <1>8 DEF Wakes, BucketInv, TypeOK
  <2> QED BY <1>7, <1>8, <2>1 DEF Wakes
<1>9. ASSUME NEW c \in Callers, Cancelled(c) PROVE UNCHANGED <<now, Level>>
  BY <1>9 DEF Cancelled, Level, AtMostCap, Cap
<1>10. CASE UNCHANGED vars BY <1>10 DEF vars, Level, AtMostCap, Cap
<1> QED BY <1>1, <1>2, <1>3, <1>6, <1>7, <1>8, <1>9, <1>10 DEF Next, CallWaitN

LEMMA InitSimulation == Init => Eager!Init
<1> SUFFICES ASSUME Init PROVE Eager!Init OBVIOUS
<1>1. (now - lastFill) * Rate = 0 BY RateAssumption DEF Init
<1> QED BY <1>1, CapIsNat DEF Init, Level, AtMostCap, Cap, Eager!Init, Eager!Cap

(* The lazy Bucket implements the bucket that gains Rate at every tick, at *)
(* every rate, burst and number of callers.                                *)
THEOREM Refinement == Spec => ImplementsTokenBucket
<1>1. ASSUME BucketInv, [Next]_vars PROVE [Eager!Next]_<<now, Level>>
  BY <1>1, StepSimulation
<1> QED BY <1>1, InitSimulation, BucketInvariance, PTL
        DEF Spec, ImplementsTokenBucket, Eager!Spec

-----------------------------------------------------------------------------
\* Asleep(c): how far the sleep of c is from its tokens.  While it has k ticks to go,
\* either the refill of these k ticks does not yet exceed what it wants, or only the
\* short nap is left.
Asleep(c) ==
  LET k == timer[c] - now
  IN  \/ Level + k * Rate <= wants[c] * PerToken
      \/ k < ShortNap
      \/ k = ShortNap /\ Level < wants[c] * PerToken

SleepInv == \A c \in Callers : wants[c] > 0 /\ now < timer[c] => Asleep(c)

LEMMA QuotientBound ==
  ASSUME NEW x \in Int PROVE (x \div Rate) \in Int /\ (x \div Rate) * Rate <= x
BY RateAssumption

LEMMA SleepSuffices == BucketInv /\ SleepInv => SleepsNoLonger
<1> SUFFICES ASSUME BucketInv, SleepInv, NEW c \in Callers, wants[c] > 0, now < timer[c]
             PROVE  Level < wants[c] * PerToken \/ timer[c] - now < ShortNap
  BY DEF SleepsNoLonger
<1> DEFINE k == timer[c] - now
<1>1. k \in Nat \ {0} /\ wants[c] \in 1..Burst BY DEF BucketInv, TypeOK
<1>2. k * Rate \in Nat \ {0} BY <1>1, RateAssumption
<1>3. Level \in Nat /\ wants[c] * PerToken \in Nat BY <1>1, LevelType, CapIsNat DEF BucketInv
<1>4. Asleep(c) BY DEF SleepInv
<1> QED BY <1>2, <1>3, <1>4 DEF Asleep

\* Nothing but a tick adds to the bucket.
LEMMA SleepGoesOn ==
  ASSUME BucketInv, BucketInv', SleepInv, now' = now, Level' <= Level,
         NEW c \in Callers, wants'[c] = wants[c], timer'[c] = timer[c],
         wants'[c] > 0, now' < timer'[c]
  PROVE  Asleep(c)'
<1>1. Asleep(c) BY DEF SleepInv
<1>2. wants[c] \in 1..Burst /\ now \in Nat /\ timer[c] \in Nat BY DEF BucketInv, TypeOK
<1>3. Level \in Int /\ Level' \in Int /\ wants[c] * PerToken \in Int
      /\ (timer[c] - now) * Rate \in Int
  <2>1. Level \in 0..Cap /\ Level' \in 0..Cap BY LevelType, LevelTypeNext DEF BucketInv
  <2> QED BY <1>2, <2>1, CapIsNat, RateAssumption
<1>4. (timer'[c] - now') * Rate = (timer[c] - now) * Rate
      /\ wants'[c] * PerToken = wants[c] * PerToken
      /\ timer'[c] - now' = timer[c] - now
  OBVIOUS
<1> QED BY <1>1, <1>2, <1>3, <1>4 DEF Asleep

LEMMA SleepTick == BucketInv /\ SleepInv /\ Tick => SleepInv'
<1> SUFFICES ASSUME BucketInv, SleepInv, Tick, NEW c \in Callers,
                    wants'[c] > 0, now' < timer'[c]
             PROVE  Asleep(c)'
  BY DEF SleepInv
<1>1. now' = now + 1 /\ UNCHANGED <<tokens, lastFill, wants, timer>> BY DEF Tick
<1>2. wants[c] \in 1..Burst /\ now \in Nat /\ timer[c] \in Nat /\ lastFill \in 0..now
      /\ tokens \in Nat
  <2>1. wants \in [Callers -> 0..Burst] /\ wants[c] > 0 BY <1>1 DEF BucketInv, TypeOK
  <2> QED BY <2>1, CapIsNat, BurstAssumption DEF BucketInv, TypeOK
<1>3. Asleep(c) BY <1>1, <1>2 DEF SleepInv
<1>4. (timer[c] - now) * Rate = (timer'[c] - now') * Rate + Rate
  <2> DEFINE k == timer[c] - now - 1
  <2>1. k \in Int /\ timer[c] - now = k + 1 /\ timer'[c] - now' = k BY <1>1, <1>2
  <2>2. (k + 1) * Rate = k * Rate + Rate BY <2>1, RateAssumption
  <2> QED BY <2>1, <2>2
<1>5. Level' <= Level + Rate
  <2>1. (now' - lastFill') * Rate = (now - lastFill) * Rate + Rate
    <3>1. now \in Int /\ lastFill \in Int BY <1>2
    <3>2. now' - lastFill' = now + 1 - lastFill BY <1>1, <3>1
    <3>3. (now + 1 - lastFill) * Rate = (now - lastFill) * Rate + Rate BY <3>1, OneMoreTick
    <3> QED BY <3>2, <3>3, Zenon
  <2>2. (now - lastFill) * Rate \in Nat BY <1>2, RefillIsNat
  <2> QED BY <1>1, <1>2, <2>1, <2>2, CapIsNat, RateAssumption DEF Level, AtMostCap, Cap
<1>6. Level \in Int /\ Level' \in Int /\ wants[c] * PerToken \in Int /\ Rate \in Int
      /\ (timer'[c] - now') * Rate \in Int
  <2>1. BucketInv' BY TickStep
  <2>2. Level \in 0..Cap /\ Level' \in 0..Cap BY <2>1, LevelType, LevelTypeNext DEF BucketInv
  <2>3. timer'[c] - now' \in Int BY <1>1, <1>2
  <2> QED BY <1>2, <2>2, <2>3, CapIsNat, RateAssumption
<1>7. wants'[c] * PerToken = wants[c] * PerToken BY <1>1
<1> QED BY <1>1, <1>2, <1>3, <1>4, <1>5, <1>6, <1>7, NapAssumption DEF Asleep

LEMMA SleepWait ==
  ASSUME BucketInv, BucketInv', SleepInv,
         NEW c \in Callers, NEW n \in 1..Burst, WaitN(c, n)
  PROVE  SleepInv'
<1> SUFFICES ASSUME NEW d \in Callers, wants'[d] > 0, now' < timer'[d] PROVE Asleep(d)'
  BY DEF SleepInv
<1>1. Level' <= Level /\ now' = now
  <2>1. CASE Grant(n)
    BY <2>1, GrantStep, CapIsNat, LevelType DEF Grant, BucketInv
  <2>2. CASE Short(n)
    BY <2>2, RefillStep, CapIsNat, LevelType DEF Short, BucketInv
  <2> QED BY <2>1, <2>2 DEF WaitN
<1>2. CASE d # c
  <2>1. wants'[d] = wants[d] /\ timer'[d] = timer[d]
    BY <1>2 DEF WaitN, BucketInv, TypeOK
  <2> QED BY <1>1, <2>1, SleepGoesOn
<1>3. CASE d = c
  <2>1. Short(n) /\ wants'[d] = n /\ timer'[d] = now + Nap(n)
    BY <1>3 DEF WaitN, BucketInv, TypeOK
  <2>2. Level' = Level BY <2>1, RefillStep DEF Short
  <2>3. Refill = Level /\ Level \in Int /\ n * PerToken \in Int /\ now \in Nat
    BY LevelType, CapIsNat DEF BucketInv, TypeOK, Refill, Level
  <2>4. Nap(n) \in Nat /\ timer'[d] - now' = Nap(n) BY <1>1, <2>1, <2>3, NapType
  <2>5. Level < n * PerToken BY <2>1, <2>3 DEF Short
  <2>6. \/ Nap(n) = ShortNap
        \/ Nap(n) = (n * PerToken - Refill) \div Rate
    BY DEF Nap
  <2>7. CASE Nap(n) = ShortNap
    BY <2>1, <2>2, <2>4, <2>5, <2>7 DEF Asleep
  <2>8. CASE Nap(n) = (n * PerToken - Refill) \div Rate
    <3>1. Nap(n) * Rate <= n * PerToken - Level /\ Nap(n) * Rate \in Int
      BY <2>3, <2>4, <2>8, QuotientBound, RateAssumption
    <3>2. Level + Nap(n) * Rate <= n * PerToken BY <2>3, <3>1
    <3>3. Level' + (timer'[d] - now') * Rate <= wants'[d] * PerToken
      BY <2>1, <2>2, <2>4, <3>2
    <3> QED BY <3>3 DEF Asleep
  <2> QED BY <2>6, <2>7, <2>8
<1> QED BY <1>2, <1>3

LEMMA SleepStep == BucketInv /\ SleepInv /\ [Next]_vars => SleepInv'
<1> SUFFICES ASSUME BucketInv, SleepInv, [Next]_vars PROVE SleepInv' OBVIOUS
<1>1. BucketInv' BY BucketStep
<1>2. Level \in Int BY LevelType, CapIsNat DEF BucketInv
<1>3. ASSUME now' = now, Level' <= Level, UNCHANGED <<wants, timer>> PROVE SleepInv'
  BY <1>1, <1>3, SleepGoesOn DEF SleepInv
<1>4. CASE Tick BY <1>4, SleepTick
<1>5. CASE Tokens
  BY <1>2, <1>3, <1>5, RefillStep DEF Tokens
<1>6. CASE OpenWindow
  BY <1>2, <1>3, <1>6 DEF OpenWindow, Level, AtMostCap, Cap
<1>7. ASSUME NEW n \in 1..Burst, AllowN(n) PROVE SleepInv'
  <2>1. CASE Grant(n)
    <3>1. Level' <= Level BY <1>2, <2>1, GrantStep, CapIsNat
    <3> QED BY <1>3, <1>7, <2>1, <3>1 DEF AllowN, Grant
  <2>2. CASE Short(n)
    BY <1>2, <1>3, <1>7, <2>2, RefillStep DEF AllowN, Short
  <2> QED BY <1>7, <2>1, <2>2 DEF AllowN
<1>8. ASSUME NEW n \in 1..Burst, NEW c \in Callers, CallWaitN(c, n) PROVE SleepInv'
  BY <1>1, <1>8, SleepWait DEF CallWaitN
<1>9. ASSUME NEW c \in Callers, Wakes(c) PROVE SleepInv'
  <2>1. wants[c] \in 1..Burst BY <1>9 DEF Wakes, BucketInv, TypeOK
  <2> QED BY <1>1, <1>9, <2>1, SleepWait DEF Wakes
<1>10. ASSUME NEW c \in Callers, Cancelled(c) PROVE SleepInv'
  <2>1. UNCHANGED <<now, timer>> /\ Level' <= Level
    BY <1>2, <1>10 DEF Cancelled, Level, AtMostCap, Cap
  <2>2. \A d \in Callers : wants'[d] > 0 => wants'[d] = wants[d]
    BY <1>10 DEF Cancelled, BucketInv, TypeOK
  <2> QED BY <1>1, <2>1, <2>2, SleepGoesOn DEF SleepInv
<1>11. CASE UNCHANGED vars
  BY <1>2, <1>3, <1>11 DEF vars, Level, AtMostCap, Cap
<1> QED BY <1>4, <1>5, <1>6, <1>7, <1>8, <1>9, <1>10, <1>11 DEF Next

-----------------------------------------------------------------------------
(* ManualLimiter: whoever parks holds mu until it is registered, so the    *)
(* tokens it found missing are still missing when it goes to sleep.        *)
ManualInv ==
  /\ count \in Int
  /\ need \in [Procs -> Nat]
  /\ pc \in [Procs -> {"idle", "locking", "parking", "waiting", "broadcasting"}]
  /\ \A p \in Procs : pc[p] = "parking" => mu = p /\ count < need[p]
  /\ Manual!NoLostTokens

LEMMA ManualStarts == Manual!Init => ManualInv
BY DEF Manual!Init, ManualInv, Manual!NoLostTokens

LEMMA ManualStep == ManualInv /\ [Manual!Next]_manualVars => ManualInv'
<1> SUFFICES ASSUME ManualInv, [Manual!Next]_manualVars PROVE ManualInv'
  OBVIOUS
<1> USE DEF ManualInv, Manual!NoLostTokens
\* A change of the count goes with a broadcast to come.
<1>1. ASSUME NEW p \in Procs, NEW n \in Int, Manual!Change(p, n) PROVE ManualInv'
  <2>1. /\ pc' = [pc EXCEPT ![p] = "broadcasting"] /\ pc'[p] = "broadcasting"
        /\ mu = Nobody /\ count' = n /\ UNCHANGED <<mu, need>>
    BY <1>1 DEF Manual!Change
  <2>2. \A q \in Procs : pc[q] # "parking"
    BY <2>1, ManualAssumption
  <2> QED
    BY <2>1, <2>2
<1>2. ASSUME NEW p \in Procs, NEW n \in Counts, Manual!Set(p, n) PROVE ManualInv'
  BY <1>1, <1>2 DEF Manual!Set, Counts
<1>3. ASSUME NEW p \in Procs, NEW delta \in Deltas, Manual!Add(p, delta) PROVE ManualInv'
  BY <1>1, <1>3 DEF Manual!Add, Deltas
\* Tokens that go while mu is free lose nobody a wakeup.
<1>4. ASSUME NEW n \in Nat, mu = Nobody, count' = count - n, UNCHANGED <<mu, need>>,
             NEW p \in Procs, pc[p] # "broadcasting",
             pc' = pc \/ pc' = [pc EXCEPT ![p] = "idle"]
      PROVE  ManualInv'
  <2>1. \A q \in Procs : pc[q] # "parking"
    BY <1>4, ManualAssumption
  <2>2. count' \in Int /\ count' <= count
    BY <1>4
  <2>3. \A q \in Procs : (pc[q] = "broadcasting" => pc'[q] = "broadcasting")
                         /\ (pc'[q] \in {"waiting", "parking"} => pc'[q] = pc[q])
    BY <1>4
  <2>4. pc' \in [Procs -> {"idle", "locking", "parking", "waiting", "broadcasting"}]
    BY <1>4
  <2> QED
    BY <1>4, <2>1, <2>2, <2>3, <2>4
<1>5. ASSUME NEW p \in Procs, NEW n \in Counts, Manual!AllowN(p, n) PROVE ManualInv'
  BY <1>4, <1>5 DEF Manual!AllowN, Counts
<1>6. ASSUME NEW p \in Procs, NEW n \in Counts, Manual!WaitN(p, n) PROVE ManualInv'
  BY <1>6 DEF Manual!WaitN, Counts
\* A broadcast leaves nobody asleep.
<1>7. ASSUME NEW p \in Procs, Manual!Broadcasts(p) PROVE ManualInv'
  <2>1. /\ pc' \in [Procs -> {"idle", "locking", "parking", "waiting", "broadcasting"}]
        /\ \A q \in Procs : /\ pc'[q] # "waiting"
                            /\ pc'[q] = "parking" => pc[q] = "parking"
    BY <1>7 DEF Manual!Broadcasts
  <2> QED
    BY <1>7, <2>1 DEF Manual!Broadcasts
<1>8. ASSUME NEW p \in Procs, Manual!Watches(p) PROVE ManualInv'
  <2>1. /\ pc' \in [Procs -> {"idle", "locking", "parking", "waiting", "broadcasting"}]
        /\ \A q \in Procs : /\ pc'[q] # "waiting"
                            /\ pc'[q] = "parking" => pc[q] = "parking"
    BY <1>8 DEF Manual!Watches, Manual!Broadcast
  <2> QED
    BY <1>8, <2>1 DEF Manual!Watches
<1>9. ASSUME NEW p \in Procs, Manual!Granted(p) PROVE ManualInv'
  BY <1>4, <1>9 DEF Manual!Granted, Manual!Returns
<1>10. ASSUME NEW p \in Procs, Manual!Refused(p) PROVE ManualInv'
  BY <1>10 DEF Manual!Refused, Manual!Returns
<1>11. ASSUME NEW p \in Procs, Manual!Parks(p) PROVE ManualInv'
  BY <1>11, ManualAssumption DEF Manual!Parks
<1>12. ASSUME NEW p \in Procs, Manual!Registers(p) PROVE ManualInv'
  BY <1>12 DEF Manual!Registers
<1>13. ASSUME NEW p \in Procs, Manual!Cancel(p) PROVE ManualInv'
  BY <1>13 DEF Manual!Cancel
<1>14. CASE UNCHANGED manualVars
  BY <1>14 DEF manualVars
<1> QED
  BY <1>2, <1>3, <1>5, <1>6, <1>7, <1>8, <1>9, <1>10, <1>11, <1>12, <1>13, <1>14
  DEF Manual!Next

-----------------------------------------------------------------------------
(* ErrGroup.                                                               *)
Ended == {"finished", "released", "done"}

GroupTypeOK ==
  /\ limited \in [Groups -> BOOLEAN]
  /\ ctxDone \in [Groups -> BOOLEAN]
  /\ err \in [Groups -> Functions \cup {None}]
  /\ owner \in [Functions -> Groups \cup {None}]
  /\ fn \in [Functions -> {"unused", "acquiring", "running", "failed"} \cup Ended]
  /\ outcome \in [Functions -> {"none", "nil", "error", "refused"}]
  /\ permits \in [Functions -> {0, 1}]
  /\ result \in [Groups -> {"pending", "nil", "error"}]

\* A function belongs to a group from its Go on, holds a permit of the limiter exactly
\* while it runs, and has come to something exactly when it has returned.
FunctionsInOrder ==
  \A f \in Functions :
    /\ owner[f] = None <=> fn[f] = "unused"
    /\ permits[f] = 1 <=> /\ fn[f] \in {"running", "failed", "finished"}
                          /\ limited[owner[f]]
    /\ fn[f] = "acquiring" => limited[owner[f]]
    /\ fn[f] \in {"unused", "acquiring", "running"} => outcome[f] = "none"
    /\ fn[f] = "failed" => outcome[f] = "error"
    /\ fn[f] \in {"finished", "released"} => outcome[f] \in {"nil", "error"}
    /\ fn[f] = "done" => outcome[f] \in {"nil", "error", "refused"}

\* Spoilt(f): f has given its group an error.
Spoilt(f) == outcome[f] = "refused" \/ (outcome[f] = "error" /\ fn[f] \in Ended)

\* The group's error stands for some error of its functions.
ErrStands == \A g \in Groups : err[g] = None <=> \A f \in EG!Of(g) : ~Spoilt(f)

GroupInv == GroupTypeOK /\ FunctionsInOrder /\ ErrStands /\ EG!WaitMeansOver

LEMMA GroupStarts == EG!Init => GroupInv
BY GroupAssumption DEF EG!Init, GroupInv, GroupTypeOK, FunctionsInOrder, ErrStands, Spoilt,
   EG!WaitMeansOver, EG!Of, Ended

\* What a step does to one function, and to its group, while the caller has yet to
\* come back from Wait.
LEMMA OneFunctionMoves ==
  ASSUME GroupInv, GroupTypeOK', FunctionsInOrder', NEW g \in Groups, NEW f \in Functions,
         owner[f] \in {g, None}, owner'[f] = g, UNCHANGED <<limited, result>>,
         result[g] = "pending", ~Spoilt(f),
         \A e \in Functions \ {f} : /\ owner'[e] = owner[e] /\ fn'[e] = fn[e]
                                    /\ outcome'[e] = outcome[e] /\ permits'[e] = permits[e],
         \A h \in Groups \ {g} : err'[h] = err[h],
         err'[g] = None <=> (err[g] = None /\ ~Spoilt(f)')
  PROVE  GroupInv'
<1>1. \A e \in Functions \ {f} : Spoilt(e)' <=> Spoilt(e)
  BY DEF Spoilt
<1>2. /\ EG!Of(g)' = EG!Of(g) \cup {f}
      /\ \A h \in Groups \ {g} : EG!Of(h)' = EG!Of(h) /\ f \notin EG!Of(h)
  BY GroupAssumption DEF EG!Of
<1>3. ErrStands'
  BY <1>1, <1>2 DEF GroupInv, ErrStands, EG!Of
<1>4. EG!WaitMeansOver'
  <2> SUFFICES ASSUME NEW h \in Groups, result'[h] # "pending", NEW e \in EG!Of(h)'
               PROVE  /\ fn'[e] = "done" /\ permits'[e] = 0
                      /\ (result'[h] = "nil") = (\A d \in EG!Of(h)' : outcome'[d] = "nil")
    BY DEF EG!WaitMeansOver
  <2>1. h # g /\ result[h] # "pending"
    OBVIOUS
  <2>2. EG!Of(h)' = EG!Of(h) /\ f \notin EG!Of(h) /\ EG!Of(h) \subseteq Functions
    BY <1>2, <2>1 DEF EG!Of
  <2>3. \A d \in EG!Of(h) : fn'[d] = fn[d] /\ permits'[d] = permits[d] /\ outcome'[d] = outcome[d]
    BY <2>2
  <2>4. /\ fn[e] = "done" /\ permits[e] = 0
        /\ (result[h] = "nil") = (\A d \in EG!Of(h) : outcome[d] = "nil")
    BY <2>1, <2>2 DEF GroupInv, EG!WaitMeansOver
  <2>5. /\ fn'[e] = "done" /\ permits'[e] = 0
        /\ result'[h] = result[h]
        /\ (\A d \in EG!Of(h)' : outcome'[d] = "nil") <=> (\A d \in EG!Of(h) : outcome[d] = "nil")
    BY <2>2, <2>3, <2>4
  <2> QED
    BY <2>4, <2>5, Zenon
<1> QED
  BY <1>3, <1>4 DEF GroupInv

\* What the functions came to stands as long as none of them moves.
LEMMA NoFunctionMoves ==
  ASSUME GroupInv, GroupTypeOK', FunctionsInOrder',
         UNCHANGED <<err, owner, fn, outcome, permits, result>>
  PROVE  GroupInv'
<1>1. \A g \in Groups : EG!Of(g)' = EG!Of(g)
  BY DEF EG!Of
<1>2. \A f \in Functions : Spoilt(f)' <=> Spoilt(f)
  BY DEF Spoilt
<1>3. ErrStands'
  BY <1>1, <1>2 DEF GroupInv, ErrStands, EG!Of
<1>4. EG!WaitMeansOver'
  BY <1>1 DEF GroupInv, EG!WaitMeansOver
<1> QED
  BY <1>3, <1>4 DEF GroupInv

\* The first error is kept.
LEMMA RecordErrStep ==
  ASSUME GroupTypeOK, NEW g \in Groups, NEW f \in Functions, EG!RecordErr(g, f)
  PROVE  /\ err' \in [Groups -> Functions \cup {None}] /\ ctxDone' \in [Groups -> BOOLEAN]
         /\ err'[g] # None /\ \A h \in Groups \ {g} : err'[h] = err[h]
<1>1. CASE err[g] = None
  BY <1>1, GroupAssumption DEF EG!RecordErr, GroupTypeOK
<1>2. CASE err[g] # None
  BY <1>2 DEF EG!RecordErr, GroupTypeOK
<1> QED
  BY <1>1, <1>2

LEMMA GroupStep == GroupInv /\ [EG!Next]_groupVars => GroupInv'
<1> SUFFICES ASSUME GroupInv, [EG!Next]_groupVars PROVE GroupInv'
  OBVIOUS
<1>a. GroupTypeOK /\ FunctionsInOrder
  BY DEF GroupInv
\* Steps of a group as a whole.
<1>1. ASSUME NEW g \in Groups, EG!ParentCancels(g) PROVE GroupInv'
  <2>1. GroupTypeOK' /\ FunctionsInOrder'
    BY <1>a, <1>1 DEF EG!ParentCancels, GroupTypeOK, FunctionsInOrder
  <2> QED
    BY <1>1, <2>1, NoFunctionMoves DEF EG!ParentCancels
<1>2. ASSUME NEW g \in Groups, EG!SetLimiter(g) PROVE GroupInv'
  <2>1. /\ limited' = [limited EXCEPT ![g] = TRUE]
        /\ UNCHANGED <<ctxDone, err, owner, fn, outcome, permits, result>>
        /\ \A f \in Functions : owner[f] # g
    BY <1>2 DEF EG!SetLimiter, EG!Of
  <2>2. GroupTypeOK'
    BY <1>a, <2>1 DEF GroupTypeOK
  <2>3. \A f \in Functions : fn[f] # "unused" => limited'[owner[f]] = limited[owner[f]]
    BY <1>a, <2>1 DEF GroupTypeOK, FunctionsInOrder
  <2>4. FunctionsInOrder'
    BY <1>a, <2>1, <2>3 DEF FunctionsInOrder
  <2> QED
    BY <2>1, <2>2, <2>4, NoFunctionMoves
<1>3. ASSUME NEW g \in Groups, EG!Wait(g) PROVE GroupInv'
  <2>1. /\ result' = [result EXCEPT ![g] = IF err[g] = None THEN "nil" ELSE "error"]
        /\ ctxDone' = [ctxDone EXCEPT ![g] = TRUE]
        /\ UNCHANGED <<limited, err, owner, fn, outcome, permits>>
    BY <1>3 DEF EG!Wait
  <2>2. GroupTypeOK'
    BY <1>a, <2>1 DEF GroupTypeOK
  <2>3. FunctionsInOrder' /\ ErrStands'
    BY <2>1 DEF GroupInv, FunctionsInOrder, ErrStands, Spoilt, EG!Of
  <2>4. \A f \in EG!Of(g) : /\ fn[f] = "done" /\ permits[f] = 0
                            /\ outcome[f] \in {"nil", "error", "refused"}
    <3> SUFFICES ASSUME NEW f \in Functions, owner[f] = g
                 PROVE  /\ fn[f] = "done" /\ permits[f] = 0
                        /\ outcome[f] \in {"nil", "error", "refused"}
      BY DEF EG!Of
    <3>1. fn[f] \notin {"acquiring", "running", "failed", "finished", "released"}
      BY <1>3 DEF EG!Wait, EG!CallerFree, EG!InGo, EG!Counted, EG!Of
    <3>2. fn[f] # "unused"
      BY <1>a, GroupAssumption DEF FunctionsInOrder
    <3> QED
      BY <1>a, <3>1, <3>2 DEF GroupTypeOK, FunctionsInOrder, Ended
  <2>5. (err[g] = None) = (\A f \in EG!Of(g) : outcome[f] = "nil")
    <3>1. err[g] = None <=> \A f \in EG!Of(g) : ~Spoilt(f)
      BY DEF GroupInv, ErrStands
    <3>2. \A f \in EG!Of(g) : Spoilt(f) <=> outcome[f] # "nil"
      BY <2>4 DEF Spoilt, Ended
    <3> QED
      BY <3>1, <3>2
  <2>6. EG!WaitMeansOver'
    <3> SUFFICES ASSUME NEW h \in Groups, result'[h] # "pending", NEW f \in EG!Of(h)
                 PROVE  /\ fn[f] = "done" /\ permits[f] = 0
                        /\ (result'[h] = "nil") = (\A e \in EG!Of(h) : outcome[e] = "nil")
      BY <2>1 DEF EG!WaitMeansOver, EG!Of
    <3>1. CASE h = g
      BY <1>a, <2>1, <2>4, <2>5, <3>1 DEF GroupTypeOK
    <3>2. CASE h # g
      BY <1>a, <2>1, <3>2 DEF GroupTypeOK, GroupInv, EG!WaitMeansOver
    <3> QED
      BY <3>1, <3>2
  <2> QED
    BY <2>2, <2>3, <2>6 DEF GroupInv
\* A caller that has come back from Wait has no function left to move.
<1>4. ASSUME NEW g \in Groups, NEW f \in Functions, owner[f] = g, fn[f] # "done"
      PROVE  result[g] = "pending"
  BY <1>4 DEF GroupInv, EG!WaitMeansOver, EG!Of
<1>5. ASSUME NEW g \in Groups, NEW f \in Functions, EG!CallerFree(g), fn[f] = "unused"
      PROVE  owner[f] = None /\ result[g] = "pending" /\ outcome[f] = "none" /\ permits[f] = 0
  BY <1>a, <1>5 DEF EG!CallerFree, GroupTypeOK, FunctionsInOrder
\* Go and TryGo.
<1>6. ASSUME NEW g \in Groups, NEW f \in Functions, EG!GoUnlimited(g, f) PROVE GroupInv'
  <2>1. /\ owner' = [owner EXCEPT ![f] = g] /\ fn' = [fn EXCEPT ![f] = "running"]
        /\ UNCHANGED <<limited, ctxDone, err, outcome, permits, result>>
        /\ owner[f] = None /\ result[g] = "pending" /\ outcome[f] = "none" /\ permits[f] = 0
        /\ ~limited[g]
    BY <1>5, <1>6 DEF EG!GoUnlimited, EG!Spawn
  <2>2. GroupTypeOK' /\ FunctionsInOrder'
    BY <1>a, <2>1, GroupAssumption DEF GroupTypeOK, FunctionsInOrder
  <2> QED
    BY <1>a, <2>1, <2>2, OneFunctionMoves DEF GroupTypeOK, Spoilt
<1>7. ASSUME NEW g \in Groups, NEW f \in Functions, EG!TryGo(g, f) PROVE GroupInv'
  <2>1. /\ owner' = [owner EXCEPT ![f] = g] /\ fn' = [fn EXCEPT ![f] = "running"]
        /\ permits' = [permits EXCEPT ![f] = @ + 1]
        /\ UNCHANGED <<limited, ctxDone, err, outcome, result>>
        /\ owner[f] = None /\ result[g] = "pending" /\ outcome[f] = "none" /\ permits[f] = 0
        /\ limited[g]
    BY <1>5, <1>7 DEF EG!TryGo, EG!Spawn, EG!Pool!Take
  <2>2. GroupTypeOK' /\ FunctionsInOrder'
    BY <1>a, <2>1, GroupAssumption DEF GroupTypeOK, FunctionsInOrder
  <2> QED
    BY <1>a, <2>1, <2>2, OneFunctionMoves DEF GroupTypeOK, Spoilt
<1>8. ASSUME NEW g \in Groups, NEW f \in Functions, EG!Refuse(g, f),
             owner[f] \in {g, None}, result[g] = "pending", outcome[f] = "none", permits[f] = 0
      PROVE  GroupInv'
  <2>1. /\ owner' = [owner EXCEPT ![f] = g] /\ fn' = [fn EXCEPT ![f] = "done"]
        /\ outcome' = [outcome EXCEPT ![f] = "refused"]
        /\ UNCHANGED <<limited, permits, result>>
    BY <1>8 DEF EG!Refuse
  <2>2. /\ err' \in [Groups -> Functions \cup {None}] /\ ctxDone' \in [Groups -> BOOLEAN]
        /\ err'[g] # None /\ \A h \in Groups \ {g} : err'[h] = err[h]
    BY <1>a, <1>8, RecordErrStep DEF EG!Refuse
  <2>3. GroupTypeOK' /\ FunctionsInOrder'
    BY <1>a, <1>8, <2>1, <2>2, GroupAssumption DEF GroupTypeOK, FunctionsInOrder, Ended
  <2>4. ~Spoilt(f) /\ Spoilt(f)'
    BY <1>a, <1>8, <2>1 DEF Spoilt, GroupTypeOK
  <2> QED
    BY <1>a, <1>8, <2>1, <2>2, <2>3, <2>4, OneFunctionMoves DEF GroupTypeOK
<1>9. ASSUME NEW g \in Groups, NEW f \in Functions, EG!Go(g, f) PROVE GroupInv'
  <2>1. /\ owner[f] = None /\ result[g] = "pending" /\ outcome[f] = "none" /\ permits[f] = 0
        /\ limited[g]
    BY <1>5, <1>9 DEF EG!Go
  <2>2. CASE EG!Refuse(g, f)
    BY <1>8, <2>1, <2>2
  <2>3. CASE /\ owner' = [owner EXCEPT ![f] = g] /\ fn' = [fn EXCEPT ![f] = "acquiring"]
             /\ UNCHANGED <<limited, ctxDone, err, outcome, permits, result>>
    <3>1. GroupTypeOK' /\ FunctionsInOrder'
      BY <1>a, <2>1, <2>3, GroupAssumption DEF GroupTypeOK, FunctionsInOrder
    <3> QED
      BY <1>a, <2>1, <2>3, <3>1, OneFunctionMoves DEF GroupTypeOK, Spoilt
  <2> QED
    BY <1>9, <2>2, <2>3 DEF EG!Go
<1>10. ASSUME NEW g \in Groups, NEW f \in Functions, EG!Admit(g, f) PROVE GroupInv'
  <2>1. /\ owner' = [owner EXCEPT ![f] = g] /\ fn' = [fn EXCEPT ![f] = "running"]
        /\ permits' = [permits EXCEPT ![f] = @ + 1]
        /\ UNCHANGED <<limited, ctxDone, err, outcome, result>>
        /\ owner[f] = g /\ fn[f] = "acquiring"
    BY <1>10 DEF EG!Admit, EG!Spawn, EG!Pool!Take
  <2>2. outcome[f] = "none" /\ permits[f] = 0 /\ result[g] = "pending" /\ limited[g]
    BY <1>a, <1>4, <2>1 DEF GroupTypeOK, FunctionsInOrder
  <2>3. GroupTypeOK' /\ FunctionsInOrder'
    BY <1>a, <2>1, <2>2, GroupAssumption DEF GroupTypeOK, FunctionsInOrder
  <2> QED
    BY <1>a, <2>1, <2>2, <2>3, OneFunctionMoves DEF GroupTypeOK, Spoilt
<1>11. ASSUME NEW g \in Groups, NEW f \in Functions, EG!GiveUp(g, f) PROVE GroupInv'
  <2>1. owner[f] = g /\ fn[f] = "acquiring" /\ EG!Refuse(g, f)
    BY <1>11 DEF EG!GiveUp
  <2>2. outcome[f] = "none" /\ permits[f] = 0 /\ result[g] = "pending"
    BY <1>a, <1>4, <2>1 DEF GroupTypeOK, FunctionsInOrder
  <2> QED
    BY <1>8, <2>1, <2>2
\* run.
<1>12. ASSUME NEW g \in Groups, NEW f \in Functions, EG!Returns(g, f) PROVE GroupInv'
  <2>1. PICK s \in {"finished", "failed"}, o \in {"nil", "error"} :
          /\ fn' = [fn EXCEPT ![f] = s] /\ outcome' = [outcome EXCEPT ![f] = o]
          /\ s = "failed" <=> o = "error"
    BY <1>12 DEF EG!Returns
  <2>2. /\ UNCHANGED <<limited, ctxDone, err, owner, permits, result>>
        /\ owner[f] = g /\ fn[f] = "running"
    BY <1>12 DEF EG!Returns
  <2>3. GroupTypeOK' /\ FunctionsInOrder'
    BY <1>a, <2>1, <2>2 DEF GroupTypeOK, FunctionsInOrder, Ended
  <2>4. ~Spoilt(f) /\ ~Spoilt(f)'
    BY <1>a, <2>1, <2>2 DEF Spoilt, GroupTypeOK, FunctionsInOrder, Ended
  <2> QED
    BY <1>a, <1>4, <2>1, <2>2, <2>3, <2>4, OneFunctionMoves DEF GroupTypeOK
<1>13. ASSUME NEW g \in Groups, NEW f \in Functions, EG!Records(g, f) PROVE GroupInv'
  <2>1. /\ fn' = [fn EXCEPT ![f] = "finished"] /\ UNCHANGED <<limited, owner, outcome, permits, result>>
        /\ owner[f] = g /\ fn[f] = "failed" /\ outcome[f] = "error"
    BY <1>a, <1>13 DEF EG!Records, FunctionsInOrder
  <2>2. /\ err' \in [Groups -> Functions \cup {None}] /\ ctxDone' \in [Groups -> BOOLEAN]
        /\ err'[g] # None /\ \A h \in Groups \ {g} : err'[h] = err[h]
    BY <1>a, <1>13, RecordErrStep DEF EG!Records
  <2>3. GroupTypeOK' /\ FunctionsInOrder'
    BY <1>a, <2>1, <2>2 DEF GroupTypeOK, FunctionsInOrder, Ended
  <2>4. ~Spoilt(f) /\ Spoilt(f)'
    BY <1>a, <2>1 DEF Spoilt, GroupTypeOK, Ended
  <2> QED
    BY <1>a, <1>4, <2>1, <2>2, <2>3, <2>4, OneFunctionMoves DEF GroupTypeOK
\* Release and Done: what the group was given stands, and nothing is left to give.
<1>14. ASSUME NEW g \in Groups, NEW f \in Functions, NEW s \in {"released", "done"},
              owner[f] = g, fn[f] \in {"finished", "released"}, fn' = [fn EXCEPT ![f] = s],
              UNCHANGED <<limited, ctxDone, err, owner, outcome, result>>,
              permits' \in [Functions -> {0, 1}], permits'[f] = 0,
              \A e \in Functions \ {f} : permits'[e] = permits[e]
       PROVE  GroupInv'
  <2>1. fn'[f] = s /\ \A e \in Functions \ {f} : fn'[e] = fn[e]
    BY <1>a, <1>14 DEF GroupTypeOK
  <2>2. GroupTypeOK'
    BY <1>a, <1>14 DEF GroupTypeOK, Ended
  <2>3. FunctionsInOrder'
    BY <1>a, <1>14, <2>1 DEF FunctionsInOrder
  <2>4. \A h \in Groups : EG!Of(h)' = EG!Of(h)
    BY <1>14 DEF EG!Of
  <2>5. \A e \in Functions : Spoilt(e)' <=> Spoilt(e)
    BY <1>14, <2>1 DEF Spoilt, Ended
  <2>6. ErrStands'
    BY <1>14, <2>4, <2>5 DEF GroupInv, ErrStands, EG!Of
  <2>7. \A h \in Groups : result[h] # "pending" => f \notin EG!Of(h)
    BY <1>4, <1>14 DEF EG!Of
  <2>8. \A h \in Groups : \A e \in EG!Of(h) : e \in Functions
    BY DEF EG!Of
  <2>9. EG!WaitMeansOver'
    <3> SUFFICES ASSUME NEW h \in Groups, result'[h] # "pending", NEW e \in EG!Of(h)'
                 PROVE  /\ fn'[e] = "done" /\ permits'[e] = 0
                        /\ (result'[h] = "nil") = (\A d \in EG!Of(h)' : outcome'[d] = "nil")
      BY DEF EG!WaitMeansOver
    <3>1. result[h] # "pending" /\ result'[h] = result[h] /\ outcome' = outcome
      BY <1>14
    <3>2. EG!Of(h)' = EG!Of(h) /\ e \in EG!Of(h)
      BY <2>4
    <3>3. e \in Functions \ {f}
      BY <2>7, <2>8, <3>1, <3>2
    <3>4. /\ fn[e] = "done" /\ permits[e] = 0
          /\ (result[h] = "nil") = (\A d \in EG!Of(h) : outcome[d] = "nil")
      BY <3>1, <3>2 DEF GroupInv, EG!WaitMeansOver
    <3>5. (\A d \in EG!Of(h)' : outcome'[d] = "nil") <=> (\A d \in EG!Of(h) : outcome[d] = "nil")
      BY <3>1, <3>2
    <3>6. fn'[e] = "done" /\ permits'[e] = 0
      BY <1>14, <2>1, <3>3, <3>4
    <3> QED
      BY <3>1, <3>4, <3>5, <3>6, Zenon
  <2> QED
    BY <2>2, <2>3, <2>6, <2>9 DEF GroupInv
<1>15. ASSUME NEW g \in Groups, NEW f \in Functions, EG!Release(g, f) PROVE GroupInv'
  <2>1. CASE limited[g]
    <3>1. permits[f] = 1
      BY <1>a, <1>15, <2>1 DEF EG!Release, FunctionsInOrder
    <3>2. permits' = [permits EXCEPT ![f] = 0]
      BY <1>a, <1>15, <2>1, <3>1 DEF EG!Release, EG!Pool!Give, GroupTypeOK
    <3> QED
      BY <1>a, <1>14, <1>15, <3>2 DEF EG!Release, GroupTypeOK
  <2>2. CASE ~limited[g]
    <3>1. permits[f] = 0 /\ UNCHANGED permits
      BY <1>a, <1>15, <2>2 DEF EG!Release, FunctionsInOrder, GroupTypeOK
    <3> QED
      BY <1>a, <1>14, <1>15, <3>1 DEF EG!Release, GroupTypeOK
  <2> QED
    BY <2>1, <2>2
<1>16. ASSUME NEW g \in Groups, NEW f \in Functions, EG!Done(g, f) PROVE GroupInv'
  <2>1. permits[f] = 0
    BY <1>a, <1>16 DEF EG!Done, FunctionsInOrder, GroupTypeOK
  <2> QED
    BY <1>a, <1>14, <1>16, <2>1 DEF EG!Done, GroupTypeOK
<1>17. CASE UNCHANGED groupVars
  <2>1. GroupTypeOK' /\ FunctionsInOrder'
    BY <1>a, <1>17 DEF groupVars, GroupTypeOK, FunctionsInOrder
  <2> QED
    BY <1>17, <2>1, NoFunctionMoves DEF groupVars
<1> QED
  BY <1>1, <1>2, <1>3, <1>6, <1>7, <1>9, <1>10, <1>11, <1>12, <1>13, <1>15, <1>16, <1>17
  DEF EG!Next, EG!Run

-----------------------------------------------------------------------------
(* Numbers: least ones, induction on an interval, and loops.              *)
\* A nonempty set of numbers has a least one.
LEMMA HasLeast ==
  ASSUME NEW S \in SUBSET Nat, S # {}
  PROVE  \E l \in S : \A x \in S : l <= x
<1>1. PICK l \in S : \A x \in S : <<x, l>> \notin OpToRel(<, Nat)
  BY NatLessThanWellFounded, WFMin
<1>2. \A x \in S : ~(x < l) BY <1>1 DEF OpToRel
<1> QED BY <1>2

\* A set that holds lo, and with each number the next one, holds all up to n.
LEMMA Climbs ==
  ASSUME NEW lo \in Nat, NEW n \in Nat, NEW S, lo \in S,
         \A i \in lo..n - 1 : i \in S => i + 1 \in S
  PROVE  \A i \in lo..n : i \in S
<1> DEFINE Missed == {i \in lo..n : i \notin S}
<1>1. Missed = {}
  <2> SUFFICES ASSUME Missed # {} PROVE FALSE OBVIOUS
  <2>1. PICK i \in Missed : \A j \in Missed : i <= j
    <3>1. Missed \in SUBSET Nat OBVIOUS
    <3> HIDE DEF Missed
    <3> QED BY <3>1, HasLeast
  <2>2. i \in lo..n /\ i \notin S /\ i # lo BY <2>1
  <2>3. i - 1 \in lo..n - 1 /\ i - 1 \in lo..n /\ i - 1 + 1 = i /\ ~(i <= i - 1) BY <2>2
  <2>4. i - 1 \notin Missed
    <3> HIDE DEF Missed
    <3> QED BY <2>1, <2>3
  <2> QED BY <2>2, <2>3, <2>4
<1> QED BY <1>1

\* What a loop computes that applies F again and again.
LEMMA LoopRuns ==
  ASSUME NEW F \in [Nat -> Nat], NEW b \in Nat
  PROVE  \E f \in [Nat -> Nat] : f[0] = b /\ \A i \in Nat : f[i + 1] = F[f[i]]
<1> DEFINE Runs(n) == {g \in [0..n -> Nat] : g[0] = b /\ \A i \in 1..n : g[i] = F[g[i - 1]]}
           Run == {k \in Nat : Runs(k) # {}}
<1>1. ASSUME NEW n \in Nat PROVE Runs(n) # {}
  <2>1. 0 \in Run
    <3>1. [i \in 0..0 |-> b] \in Runs(0) OBVIOUS
    <3> QED BY <3>1
  <2>2. ASSUME NEW k \in 0..n - 1, k \in Run PROVE k + 1 \in Run
    <3>1. PICK g \in Runs(k) : TRUE BY <2>2
    <3> DEFINE h == [i \in 0..k + 1 |-> IF i = k + 1 THEN F[g[k]] ELSE g[i]]
    <3>2. /\ g \in [0..k -> Nat] /\ g[0] = b
          /\ \A i \in 1..k : g[i] = F[g[i - 1]]
      BY <3>1
    <3>3. h \in [0..k + 1 -> Nat] /\ h[0] = b
      <4>1. \A i \in 0..k + 1 : i # k + 1 => i \in 0..k OBVIOUS
      <4>2. k \in 0..k /\ F[g[k]] \in Nat BY <3>2
      <4>3. 0 \in 0..k + 1 /\ 0 # k + 1 OBVIOUS
      <4> QED BY <3>2, <4>1, <4>2, <4>3
    <3>4. ASSUME NEW i \in 1..k + 1 PROVE h[i] = F[h[i - 1]]
      <4>1. i - 1 \in 0..k + 1 /\ i - 1 # k + 1 /\ i \in 0..k + 1 OBVIOUS
      <4>2. i # k + 1 => i \in 1..k OBVIOUS
      <4>3. h[i - 1] = g[i - 1] BY <4>1
      <4>4. h[i] = IF i = k + 1 THEN F[g[k]] ELSE g[i] BY <4>1
      <4>5. i = k + 1 => i - 1 = k OBVIOUS
      <4> HIDE DEF h
      <4> QED BY <3>2, <4>2, <4>3, <4>4, <4>5
    <3>5. h \in Runs(k + 1) BY <3>3, <3>4
    <3>6. k + 1 \in Nat OBVIOUS
    <3> QED BY <3>5, <3>6
  <2> HIDE DEF Run
  <2>3. \A k \in 0..n : k \in Run BY <2>1, <2>2, Climbs
  <2>4. n \in Run BY <2>3
  <2> HIDE DEF Runs
  <2> QED BY <2>4 DEF Run
<1> DEFINE G(n) == CHOOSE g \in Runs(n) : TRUE
           f == [n \in Nat |-> G(n)[n]]
<1>2. \A n \in Nat : G(n) \in Runs(n) BY <1>1
<1> HIDE DEF G
<1>3. \A n \in Nat : /\ G(n) \in [0..n -> Nat] /\ G(n)[0] = b
                     /\ \A i \in 1..n : G(n)[i] = F[G(n)[i - 1]]
  BY <1>2
<1> HIDE DEF Runs
\* A run goes like every longer one.
<1>4. ASSUME NEW n \in Nat PROVE \A i \in 0..n : G(n)[i] = G(n + 1)[i]
  <2> DEFINE Same == {i \in 0..n : G(n)[i] = G(n + 1)[i]}
  <2>1. n + 1 \in Nat OBVIOUS
  <2>2. 0 \in Same
    <3>1. G(n)[0] = b /\ G(n + 1)[0] = b BY <1>3, <2>1
    <3> QED BY <3>1
  <2>3. ASSUME NEW i \in 0..n - 1, i \in Same PROVE i + 1 \in Same
    <3>1. i + 1 \in 1..n /\ i + 1 \in 1..n + 1 /\ i + 1 - 1 = i BY <2>1
    <3>2. G(n)[i + 1] = F[G(n)[i]] /\ G(n + 1)[i + 1] = F[G(n + 1)[i]] BY <1>3, <2>1, <3>1
    <3>3. G(n)[i] = G(n + 1)[i] BY <2>3
    <3> QED BY <3>1, <3>2, <3>3
  <2> HIDE DEF Same
  <2>4. \A i \in 0..n : i \in Same BY <2>2, <2>3, Climbs
  <2> QED BY <2>4 DEF Same
<1>5. f \in [Nat -> Nat] /\ f[0] = b BY <1>3
<1>6. ASSUME NEW n \in Nat PROVE f[n + 1] = F[f[n]]
  <2>1. f[n + 1] = G(n + 1)[n + 1] /\ f[n] = G(n)[n] OBVIOUS
  <2>2. n + 1 \in Nat /\ n + 1 \in 1..n + 1 /\ n + 1 - 1 = n /\ n \in 0..n OBVIOUS
  <2>3. G(n + 1)[n + 1] = F[G(n + 1)[n]] BY <1>3, <2>2
  <2>4. G(n)[n] = G(n + 1)[n] BY <1>4, <2>2
  <2> QED BY <2>1, <2>3, <2>4
<1> QED BY <1>5, <1>6

-----------------------------------------------------------------------------
(* Retry.                                                                  *)
\* Zero and negative fields are replaced, so all of them are positive.
LEMMA PolicyTypes ==
  ASSUME policy \in Policies
  PROVE  /\ Do!maxAttempts \in Nat \ {0} /\ Do!baseDelay \in Nat \ {0}
         /\ Do!maxDelay \in Nat \ {0} /\ Do!multiplier \in Nat \ {0}
         /\ policy.JitterHalves \in Nat
BY PoliciesAssumption DEF Do!maxAttempts, Do!baseDelay, Do!maxDelay, Do!multiplier, Do!Default

\* The loop of computeDelay, one round after the other.
LEMMA GrownIs ==
  ASSUME policy \in Policies
  PROVE  /\ Do!Grown(1) = Do!baseDelay
         /\ \A n \in Nat \ {0} : /\ Do!Grown(n) \in Nat
                                 /\ Do!Grown(n + 1) = Do!Capped(Do!Grown(n) * Do!multiplier)
<1> DEFINE b == Do!baseDelay
           c == Do!maxDelay
           m == Do!multiplier
           F == [x \in Nat |-> IF x * m >= c THEN c ELSE x * m]
           Step(d, k) == [i \in 1..k |-> IF i = 1 THEN b ELSE
                                      IF d[i - 1] * m >= c THEN c ELSE d[i - 1] * m]
           D(k) == CHOOSE d : d = Step(d, k)
<1>1. \A k \in Nat \ {0} : Do!Grown(k) = D(k)[k] BY DEF Do!Grown, Do!Capped
<1>2. b \in Nat \ {0} /\ c \in Nat \ {0} /\ m \in Nat \ {0} BY PolicyTypes
<1>3. \A x \in Nat : F[x] = Do!Capped(x * m) BY DEF Do!Capped
<1> HIDE DEF b, c, m
<1>4. F \in [Nat -> Nat] /\ b \in Nat
  <2>1. \A x \in Nat : x * m \in Nat BY <1>2
  <2> QED BY <1>2, <2>1
<1>5. PICK f \in [Nat -> Nat] : f[0] = b /\ \A i \in Nat : f[i + 1] = F[f[i]]
  <2> HIDE DEF F
  <2> QED BY <1>4, LoopRuns
<1>6. ASSUME NEW k \in Nat \ {0} PROVE D(k)[k] = f[k - 1]
  <2> DEFINE g == [i \in 1..k |-> f[i - 1]]
  <2>1. g = Step(g, k)
    <3>1. ASSUME NEW i \in 1..k, i # 1
          PROVE  g[i] = F[g[i - 1]] /\ g[i - 1] \in Nat
      <4>1. i - 1 - 1 \in Nat /\ i - 1 - 1 + 1 = i - 1 /\ i - 1 \in 1..k BY <3>1
      <4>2. g[i] = f[i - 1] /\ g[i - 1] = f[i - 1 - 1] BY <4>1
      <4> HIDE DEF F, g
      <4> QED BY <1>5, <4>1, <4>2
    <3>2. g[1] = b BY <1>5
    <3>3. \A i \in 1..k : g[i] = IF i = 1 THEN b ELSE
                              IF g[i - 1] * m >= c THEN c ELSE g[i - 1] * m
      <4> SUFFICES ASSUME NEW i \in 1..k, i # 1
                   PROVE  F[g[i - 1]] = IF g[i - 1] * m >= c THEN c ELSE g[i - 1] * m
        BY <3>1, <3>2
      <4>1. g[i - 1] \in Nat BY <3>1
      <4> HIDE DEF g
      <4> QED BY <4>1
    <3> QED BY <3>3
  <2>2. D(k) = Step(D(k), k)
    <3>1. \E d : d = Step(d, k) BY <2>1
    <3> HIDE DEF Step
    <3> QED BY <3>1, Zenon
  <2> HIDE DEF D
  <2>3. \A i \in 1..k : D(k)[i] = IF i = 1 THEN b ELSE
                            IF D(k)[i - 1] * m >= c THEN c ELSE D(k)[i - 1] * m
    <3>1. \A i \in 1..k : Step(D(k), k)[i] = IF i = 1 THEN b ELSE
                            IF D(k)[i - 1] * m >= c THEN c ELSE D(k)[i - 1] * m
      OBVIOUS
    <3> HIDE DEF Step
    <3> QED BY <2>2, <3>1
  <2>4. D(k)[1] = f[0] BY <1>5, <2>3
  <2>5. \A i \in 1..k : i # 1 /\ D(k)[i - 1] \in Nat => D(k)[i] = F[D(k)[i - 1]]
    BY <2>3
  <2> HIDE DEF F
  <2>6. \A i \in 1..k : D(k)[i] = f[i - 1]
    <3> DEFINE Same == {i \in 1..k : D(k)[i] = f[i - 1]}
    <3>1. 1 \in Same BY <2>4
    <3>2. ASSUME NEW i \in 1..k - 1, i \in Same PROVE i + 1 \in Same
      <4>1. /\ i + 1 \in 1..k /\ i + 1 # 1 /\ i + 1 - 1 = i
            /\ i - 1 \in Nat /\ i - 1 + 1 = i
        OBVIOUS
      <4>2. D(k)[i] = f[i - 1] BY <3>2
      <4>3. D(k)[i + 1] = F[D(k)[i]] BY <1>5, <2>5, <4>1, <4>2
      <4>4. f[i] = F[f[i - 1]] BY <1>5, <4>1
      <4> QED BY <4>1, <4>2, <4>3, <4>4
    <3> HIDE DEF Same
    <3>3. \A i \in 1..k : i \in Same BY <3>1, <3>2, Climbs
    <3> QED BY <3>3 DEF Same
  <2> QED BY <2>6
<1>7. \A k \in Nat \ {0} : Do!Grown(k) = f[k - 1] BY <1>1, <1>6
<1>8. ASSUME NEW n \in Nat \ {0}
      PROVE  /\ Do!Grown(n) \in Nat
             /\ Do!Grown(n + 1) = Do!Capped(Do!Grown(n) * Do!multiplier)
  <2>1. n - 1 \in Nat /\ n + 1 \in Nat \ {0} /\ n + 1 - 1 = n /\ n - 1 + 1 = n OBVIOUS
  <2>2. Do!Grown(n) = f[n - 1] /\ Do!Grown(n + 1) = f[n] BY <1>7, <2>1
  <2>3. f[n] = F[f[n - 1]] /\ f[n - 1] \in Nat
    <3> HIDE DEF F
    <3> QED BY <1>5, <2>1
  <2>4. F[f[n - 1]] = Do!Capped(f[n - 1] * m) BY <1>3, <2>3
  <2> QED BY <2>2, <2>3, <2>4 DEF m
<1> QED BY <1>5, <1>7, <1>8 DEF b

\* The loop of the plan, the same with the power of the multiplier.
LEMMA PowerIs ==
  ASSUME policy \in Policies
  PROVE  \E g \in [Nat -> Nat] :
           /\ g[0] = 1 /\ \A i \in Nat : g[i + 1] = g[i] * Do!multiplier
           /\ \A n \in Nat \ {0} :
                Do!Planned(n) = IF n = 1 \/ Do!baseDelay * g[n - 1] < Do!maxDelay
                                THEN Do!baseDelay * g[n - 1] ELSE Do!maxDelay
<1> DEFINE m == Do!multiplier
           F == [x \in Nat |-> x * m]
           Step(d, k) == [i \in 0..k |-> IF i = 0 THEN 1 ELSE m * d[i - 1]]
           D(k) == CHOOSE d : d = Step(d, k)
<1>1. \A k \in Nat \ {0} :
        Do!Planned(k) = IF k = 1 \/ Do!baseDelay * D(k)[k - 1] < Do!maxDelay
                        THEN Do!baseDelay * D(k)[k - 1] ELSE Do!maxDelay
  BY DEF Do!Planned
<1>2. m \in Nat \ {0} BY PolicyTypes
<1> HIDE DEF m
<1>3. F \in [Nat -> Nat] /\ 1 \in Nat
  <2>1. \A x \in Nat : x * m \in Nat BY <1>2
  <2> QED BY <2>1
<1>4. PICK g \in [Nat -> Nat] : g[0] = 1 /\ \A i \in Nat : g[i + 1] = F[g[i]]
  <2> HIDE DEF F
  <2> QED BY <1>3, LoopRuns
<1>5. \A i \in Nat : g[i + 1] = g[i] * m BY <1>4
<1> HIDE DEF F
<1>6. ASSUME NEW k \in Nat PROVE \A i \in 0..k : D(k)[i] = g[i]
  <2> DEFINE h == [i \in 0..k |-> g[i]]
  <2>1. h = Step(h, k)
    <3>1. ASSUME NEW i \in 0..k PROVE h[i] = IF i = 0 THEN 1 ELSE m * h[i - 1]
      <4>1. i # 0 => i - 1 \in Nat /\ i - 1 + 1 = i /\ i - 1 \in 0..k OBVIOUS
      <4>2. h[i] = g[i] /\ (i # 0 => h[i - 1] = g[i - 1]) BY <4>1
      <4>3. i # 0 => g[i] = g[i - 1] * m BY <1>5, <4>1
      <4>4. i # 0 => g[i - 1] \in Nat BY <1>4, <4>1
      <4> HIDE DEF h
      <4> QED BY <1>2, <1>4, <4>2, <4>3, <4>4
    <3> QED BY <3>1
  <2>2. D(k) = Step(D(k), k)
    <3>1. \E d : d = Step(d, k) BY <2>1
    <3> HIDE DEF Step
    <3> QED BY <3>1, Zenon
  <2> HIDE DEF D, h
  <2>3. \A i \in 0..k : D(k)[i] = IF i = 0 THEN 1 ELSE m * D(k)[i - 1]
    <3>1. \A i \in 0..k : Step(D(k), k)[i] = IF i = 0 THEN 1 ELSE m * D(k)[i - 1]
      OBVIOUS
    <3> HIDE DEF Step
    <3> QED BY <2>2, <3>1
  <2> DEFINE Same == {i \in 0..k : D(k)[i] = g[i]}
  <2>4. 0 \in Same BY <1>4, <2>3
  <2>5. ASSUME NEW i \in 0..k - 1, i \in Same PROVE i + 1 \in Same
    <3>1. i + 1 \in 0..k /\ i + 1 # 0 /\ i + 1 - 1 = i /\ i \in Nat OBVIOUS
    <3>2. D(k)[i] = g[i] /\ g[i] \in Nat BY <1>4, <2>5, <3>1
    <3>3. D(k)[i + 1] = m * D(k)[i] BY <2>3, <3>1
    <3>4. g[i + 1] = g[i] * m BY <1>5, <3>1
    <3>5. D(k)[i + 1] = g[i + 1] BY <1>2, <3>2, <3>3, <3>4
    <3> QED BY <3>1, <3>5
  <2> HIDE DEF Same
  <2>6. \A i \in 0..k : i \in Same BY <2>4, <2>5, Climbs
  <2> QED BY <2>6 DEF Same
<1>7. \A n \in Nat \ {0} : D(n)[n - 1] = g[n - 1]
  <2>1. \A n \in Nat \ {0} : n \in Nat /\ n - 1 \in 0..n OBVIOUS
  <2> HIDE DEF D
  <2> QED BY <1>6, <2>1
<1> HIDE DEF D
<1>8. \A n \in Nat \ {0} :
        Do!Planned(n) = IF n = 1 \/ Do!baseDelay * g[n - 1] < Do!maxDelay
                        THEN Do!baseDelay * g[n - 1] ELSE Do!maxDelay
  BY <1>1, <1>7
<1> QED BY <1>4, <1>5, <1>8 DEF m

\* Multiplying and capping on the way comes to the same as at the end.
LEMMA GrownAsPlanned ==
  ASSUME policy \in Policies, NEW n \in Nat \ {0}
  PROVE  Do!Grown(n) = Do!Planned(n) /\ Do!Grown(n) \in Nat
<1> DEFINE b == Do!baseDelay
           c == Do!maxDelay
           m == Do!multiplier
<1>1. b \in Nat \ {0} /\ c \in Nat \ {0} /\ m \in Nat \ {0} BY PolicyTypes
<1>2. PICK g \in [Nat -> Nat] :
           /\ g[0] = 1 /\ \A i \in Nat : g[i + 1] = g[i] * m
           /\ \A k \in Nat \ {0} :
                Do!Planned(k) = IF k = 1 \/ b * g[k - 1] < c THEN b * g[k - 1] ELSE c
  BY PowerIs
<1> DEFINE Good == {k \in Nat \ {0} : Do!Grown(k) = Do!Planned(k)}
<1>3. 1 \in Good
  <2>1. Do!Planned(1) = b * g[1 - 1] BY <1>2
  <2>2. b * g[1 - 1] = b BY <1>1, <1>2
  <2> QED BY <2>1, <2>2, GrownIs
<1>4. ASSUME NEW k \in 1..n - 1, k \in Good PROVE k + 1 \in Good
  <2>1. k \in Nat \ {0} /\ k + 1 \in Nat \ {0} /\ k + 1 # 1 /\ k + 1 - 1 = k
        /\ k - 1 \in Nat /\ k - 1 + 1 = k
    OBVIOUS
  <2> DEFINE x == b * g[k - 1]
             y == b * g[k]
  <2>2. g[k] = g[k - 1] * m /\ g[k - 1] \in Nat BY <1>2, <2>1
  <2>3. x \in Nat /\ y = x * m /\ y >= x /\ c * m >= c
    <3>1. \A u, v \in Nat : u * v \in Nat OBVIOUS
    <3>2. x \in Nat BY <1>1, <2>2, <3>1
    <3>3. \A u, v, w \in Nat : u * (v * w) = (u * v) * w OBVIOUS
    <3>4. y = x * m BY <1>1, <2>2, <3>3
    <3>5. \A u \in Nat, v \in Nat \ {0} : u * v >= u OBVIOUS
    <3> HIDE DEF x, y
    <3> QED BY <1>1, <3>2, <3>4, <3>5
  <2>4. Do!Planned(k) = IF k = 1 \/ x < c THEN x ELSE c BY <1>2, <2>1
  <2>5. Do!Planned(k + 1) = IF y < c THEN y ELSE c BY <1>2, <2>1
  <2>6. Do!Grown(k) = Do!Planned(k) BY <1>4
  <2>7. Do!Grown(k + 1) = IF Do!Grown(k) * m >= c THEN c ELSE Do!Grown(k) * m
    BY <2>1, GrownIs DEF Do!Capped
  <2> HIDE DEF x, y, b, c, m
  <2>8. Do!Grown(k + 1) = Do!Planned(k + 1)
    <3>1. CASE Do!Planned(k) = x BY <1>1, <2>3, <2>5, <2>6, <2>7, <3>1
    <3>2. CASE Do!Planned(k) = c /\ ~(x < c) BY <1>1, <2>3, <2>5, <2>6, <2>7, <3>2
    <3> QED BY <2>4, <3>1, <3>2
  <2> QED BY <2>1, <2>8
<1> HIDE DEF Good
<1>5. \A k \in 1..n : k \in Good BY <1>3, <1>4, Climbs
<1> QED BY <1>5, GrownIs DEF Good

\* Attempts and sleeps go together, and a call of op that began late was the
\* last one.
RetryInv ==
  /\ policy \in Policies /\ opCancelled \in BOOLEAN
  /\ attempt \in 1..Do!maxAttempts /\ delays \in Seq(Nat)
  /\ doPc \in {"checking", "calling", "called"} => Len(delays) = attempt - 1
  /\ doPc = "sleeping" => Len(delays) = attempt /\ attempt < Do!maxAttempts
  /\ lateCalls \in {0, 1} /\ (lateCalls = 1 => opCancelled /\ doPc # "calling")
  /\ doPc # "done" => opResult = Unset
  /\ Do!WaitsAsPlanned

\* The jitter takes away or adds its fraction at most.
LEMMA JitterBounds ==
  ASSUME policy \in Policies, NEW base \in Nat, NEW d \in Do!Jittered(base)
  PROVE  /\ d \in Nat
         /\ 2 * d <= (2 + policy.JitterHalves) * base
         /\ 2 * d + 1 >= (2 - policy.JitterHalves) * base
<1> DEFINE j == policy.JitterHalves
           spread == (j * base) \div 2
<1>1. j \in Nat BY PolicyTypes
<1> HIDE DEF j
<1>2. j * base \in Nat BY <1>1
<1>3. spread \in Nat /\ 2 * spread <= j * base /\ j * base <= 2 * spread + 1 BY <1>2
<1>4. (2 + j) * base = 2 * base + j * base /\ (2 - j) * base = 2 * base - j * base BY <1>1
<1>5. PICK offset \in (-spread)..spread : d = Do!NotNegative(base + offset)
  BY DEF Do!Jittered, j
<1> HIDE DEF spread
<1>6. d = IF base + offset < 0 THEN 0 ELSE base + offset BY <1>5 DEF Do!NotNegative
<1>7. d \in Nat /\ 2 * d <= 2 * base + j * base /\ 2 * d + 1 >= 2 * base - j * base
  BY <1>2, <1>3, <1>5, <1>6
<1> QED BY <1>4, <1>7 DEF j

LEMMA RetryStarts == Do!Init => RetryInv
<1> SUFFICES ASSUME Do!Init PROVE RetryInv OBVIOUS
<1>1. policy \in Policies /\ attempt = 1 /\ delays = <<>> /\ doPc = "checking"
      /\ opCancelled = FALSE /\ lateCalls = 0 /\ opResult = Unset
  BY DEF Do!Init
<1>2. Do!maxAttempts \in Nat \ {0} BY <1>1, PolicyTypes
<1>3. Len(delays) = 0 /\ delays \in Seq(Nat) BY <1>1
<1>4. opResult # "exhausted" BY <1>1, UnsetAssumption
<1>5. Do!WaitsAsPlanned BY <1>3, <1>4 DEF Do!WaitsAsPlanned
<1>6. attempt \in 1..Do!maxAttempts /\ 0 = attempt - 1 BY <1>1, <1>2
<1>7. lateCalls \in {0, 1} /\ lateCalls # 1 BY <1>1
<1>8. opCancelled \in BOOLEAN BY <1>1, Zenon
<1>9. doPc # "sleeping" /\ Len(delays) = attempt - 1 BY <1>1, <1>3, <1>6
<1> QED BY <1>1, <1>3, <1>5, <1>6, <1>7, <1>8, <1>9 DEF RetryInv

\* What the plan says does not change with the variables of the call.
LEMMA SamePlan ==
  ASSUME policy' = policy
  PROVE  Do!maxAttempts' = Do!maxAttempts /\ \A n \in Nat : Do!Planned(n)' = Do!Planned(n)
BY DEF Do!Planned, Do!maxAttempts, Do!baseDelay, Do!maxDelay, Do!multiplier

LEMMA PlanKept ==
  ASSUME RetryInv, policy' = policy, delays' = delays,
         opResult' = "exhausted" => Len(delays) = Do!maxAttempts - 1
  PROVE  Do!WaitsAsPlanned'
<1>1. Do!maxAttempts' = Do!maxAttempts /\ \A n \in Nat : Do!Planned(n)' = Do!Planned(n)
  BY SamePlan
<1>2. ASSUME NEW n \in 1..Len(delays) PROVE n \in Nat BY DEF RetryInv
<1> QED BY <1>1, <1>2 DEF RetryInv, Do!WaitsAsPlanned

LEMMA RetryStep == RetryInv /\ [Do!Next]_retryVars => RetryInv'
<1> SUFFICES ASSUME RetryInv, [Do!Next]_retryVars PROVE RetryInv' OBVIOUS
<1>0. /\ policy \in Policies /\ opCancelled \in BOOLEAN
      /\ attempt \in 1..Do!maxAttempts /\ delays \in Seq(Nat)
      /\ Do!maxAttempts \in Nat \ {0} /\ Len(delays) \in Nat
  BY PolicyTypes DEF RetryInv
<1>1. CASE Do!OpFails
  <2>1. PICK d \in Do!Jittered(Do!Grown(attempt)) : delays' = Append(delays, d)
    BY <1>1 DEF Do!OpFails
  <2>2. /\ doPc = "called" /\ attempt < Do!maxAttempts /\ doPc' = "sleeping"
        /\ policy' = policy /\ opCancelled' = opCancelled /\ attempt' = attempt
        /\ lateCalls' = lateCalls /\ opResult' = opResult
    BY <1>1 DEF Do!OpFails
  <2>3. Do!maxAttempts' = Do!maxAttempts /\ \A n \in Nat : Do!Planned(n)' = Do!Planned(n)
    BY <2>2, SamePlan
  <2>4. attempt \in Nat \ {0} BY <1>0
  <2>5. Do!Grown(attempt) = Do!Planned(attempt) /\ Do!Grown(attempt) \in Nat
    BY <1>0, <2>4, GrownAsPlanned
  <2>6. /\ d \in Nat
        /\ 2 * d <= (2 + policy.JitterHalves) * Do!Planned(attempt)
        /\ 2 * d + 1 >= (2 - policy.JitterHalves) * Do!Planned(attempt)
    BY <1>0, <2>5, JitterBounds
  <2>7. Len(delays) = attempt - 1 BY <2>2 DEF RetryInv
  <2>8. delays' \in Seq(Nat) /\ Len(delays') = attempt BY <1>0, <2>1, <2>4, <2>6, <2>7
  <2>9. ASSUME NEW n \in 1..Len(delays')
        PROVE  /\ 2 * delays'[n] <= (2 + policy'.JitterHalves) * Do!Planned(n)'
               /\ 2 * delays'[n] + 1 >= (2 - policy'.JitterHalves) * Do!Planned(n)'
    <3>1. n \in Nat /\ Do!Planned(n)' = Do!Planned(n) BY <2>3, <2>4, <2>8
    <3>2. CASE n = attempt
      <4>1. delays'[n] = d BY <1>0, <2>1, <2>4, <2>7, <3>2
      <4> QED BY <2>2, <2>6, <3>1, <3>2, <4>1
    <3>3. CASE n # attempt
      <4>1. n \in 1..Len(delays) BY <2>4, <2>7, <2>8, <3>3
      <4>2. delays'[n] = delays[n] BY <1>0, <2>1, <2>6, <4>1
      <4> QED BY <2>2, <3>1, <4>1, <4>2 DEF RetryInv, Do!WaitsAsPlanned
    <3> QED BY <3>2, <3>3
  <2>10. opResult' # "exhausted" BY <2>2, UnsetAssumption DEF RetryInv
  <2>11. Do!WaitsAsPlanned' BY <2>9, <2>10 DEF Do!WaitsAsPlanned
  <2> QED BY <1>0, <2>2, <2>3, <2>8, <2>11 DEF RetryInv
<1>2. ASSUME Do!Cancel \/ Do!Check \/ Do!CallOp \/ Do!OpReturns \/ Do!SleepEnds
             \/ Do!SleepCancelled \/ UNCHANGED retryVars
      PROVE  RetryInv'
  <2>1. policy' = policy /\ delays' = delays
    BY <1>2 DEF Do!Cancel, Do!Check, Do!CallOp, Do!OpReturns, Do!SleepEnds,
                Do!SleepCancelled, retryVars
  <2>2. opResult' = "exhausted" => Len(delays) = Do!maxAttempts - 1
    BY <1>0, <1>2, UnsetAssumption
    DEF RetryInv, Do!WaitsAsPlanned, Do!Cancel, Do!Check, Do!CallOp, Do!OpReturns, Do!SleepEnds,
        Do!SleepCancelled, Do!Returns, retryVars
  <2>3. Do!WaitsAsPlanned' BY <2>1, <2>2, PlanKept
  <2>4. Do!maxAttempts' = Do!maxAttempts BY <2>1, SamePlan
  <2>5. CASE Do!Cancel BY <1>0, <2>1, <2>3, <2>4, <2>5 DEF RetryInv, Do!Cancel
  <2>6. CASE Do!Check
    BY <1>0, <2>1, <2>3, <2>4, <2>6 DEF RetryInv, Do!Check, Do!SeesDone, Do!Returns
  <2>7. CASE Do!CallOp BY <1>0, <2>1, <2>3, <2>4, <2>7 DEF RetryInv, Do!CallOp
  <2>8. CASE Do!OpReturns
    BY <1>0, <2>1, <2>3, <2>4, <2>8 DEF RetryInv, Do!OpReturns, Do!Returns
  <2>9. CASE Do!SleepEnds BY <1>0, <2>1, <2>3, <2>4, <2>9 DEF RetryInv, Do!SleepEnds
  <2>10. CASE Do!SleepCancelled
    BY <1>0, <2>1, <2>3, <2>4, <2>10 DEF RetryInv, Do!SleepCancelled, Do!Returns
  <2>11. CASE UNCHANGED retryVars
    BY <1>0, <2>1, <2>3, <2>4, <2>11 DEF RetryInv, retryVars
  <2> QED BY <1>2, <2>5, <2>6, <2>7, <2>8, <2>9, <2>10, <2>11
<1> QED BY <1>1, <1>2 DEF Do!Next

LEMMA LateCallsAreFew == RetryInv => Do!WaitsAsPlanned /\ Do!StopsWhenCancelled
BY DEF RetryInv, Do!StopsWhenCancelled

-----------------------------------------------------------------------------
(* LoadGen.                                                                *)
\* By taking one of the least indexes after the other.
LEMMA SortingOrder ==
  ASSUME NEW seq \in Seq(Nat)
  PROVE  \E o \in [DOMAIN seq -> DOMAIN seq] :
           /\ \A i, j \in DOMAIN seq : o[i] = o[j] => i = j
           /\ \A i, j \in DOMAIN seq : i < j => seq[o[i]] <= seq[o[j]]
<1> DEFINE n == Len(seq)
           Orders(k, D) == {o \in [1..k -> D] :
                              /\ \A i, j \in 1..k : o[i] = o[j] => i = j
                              /\ \A i, j \in 1..k : i < j => seq[o[i]] <= seq[o[j]]}
           Good == {k \in Nat : \A D \in SUBSET (1..n) : Cardinality(D) = k => Orders(k, D) # {}}
<1>1. n \in Nat /\ DOMAIN seq = 1..n /\ \A i \in 1..n : seq[i] \in Nat OBVIOUS
<1>2. IsFiniteSet(1..n) /\ Cardinality(1..n) = n BY <1>1, FS_Interval
<1> HIDE DEF n
<1>3. 0 \in Good
  <2>1. ASSUME NEW D PROVE [i \in 1..0 |-> 0] \in Orders(0, D) OBVIOUS
  <2> HIDE DEF Orders
  <2> QED BY <2>1
<1>4. ASSUME NEW k \in 0..n - 1, k \in Good PROVE k + 1 \in Good
  <2> SUFFICES ASSUME NEW D \in SUBSET (1..n), Cardinality(D) = k + 1
               PROVE  Orders(k + 1, D) # {}
    <3>1. k + 1 \in Nat OBVIOUS
    <3> HIDE DEF Orders
    <3> QED BY <3>1
  <2>1. IsFiniteSet(D) /\ D # {}
    <3>1. IsFiniteSet(D) BY <1>2, FS_Subset
    <3>2. Cardinality({}) = 0 /\ k + 1 # 0 BY FS_EmptySet
    <3> QED BY <3>1, <3>2
  <2>2. PICK m \in D : \A i \in D : seq[m] <= seq[i]
    <3> DEFINE V == {seq[i] : i \in D}
    <3>1. V \in SUBSET Nat /\ V # {} BY <1>1, <2>1
    <3>2. PICK v \in V : \A x \in V : v <= x
      <4> HIDE DEF V
      <4> QED BY <3>1, HasLeast
    <3> QED BY <3>2
  <2> DEFINE R == D \ {m}
  <2>3. Cardinality(R) = k
    <3>1. Cardinality(R) = Cardinality(D) - 1 BY <2>1, FS_RemoveElement
    <3> QED BY <3>1
  <2>4. PICK o \in Orders(k, R) : TRUE
    <3>1. R \in SUBSET (1..n) OBVIOUS
    <3> HIDE DEF Orders, R
    <3> QED BY <1>4, <2>3, <3>1
  <2>5. /\ o \in [1..k -> R] /\ \A i, j \in 1..k : o[i] = o[j] => i = j
        /\ \A i, j \in 1..k : i < j => seq[o[i]] <= seq[o[j]]
    BY <2>4
  <2> DEFINE q == [i \in 1..k + 1 |-> IF i = 1 THEN m ELSE o[i - 1]]
  <2>6. \A i \in 1..k + 1 : i # 1 => i - 1 \in 1..k OBVIOUS
  <2>7. /\ q[1] = m
        /\ \A i \in 1..k + 1 : i # 1 => q[i] = o[i - 1] /\ q[i] \in R
    BY <2>5, <2>6
  <2>8. q \in [1..k + 1 -> D]
    <3>1. \A i \in 1..k + 1 : q[i] \in D BY <2>7
    <3> QED BY <3>1
  <2> HIDE DEF q, Orders
  <2>9. ASSUME NEW i \in 1..k + 1, NEW j \in 1..k + 1, q[i] = q[j] PROVE i = j
    <3>1. CASE i = 1 BY <2>7, <2>9, <3>1
    <3>2. CASE j = 1 BY <2>7, <2>9, <3>2
    <3>3. CASE i # 1 /\ j # 1
      <4>1. i - 1 = j - 1 BY <2>5, <2>6, <2>7, <2>9, <3>3
      <4> QED BY <4>1
    <3> QED BY <3>1, <3>2, <3>3
  <2>10. ASSUME NEW i \in 1..k + 1, NEW j \in 1..k + 1, i < j PROVE seq[q[i]] <= seq[q[j]]
    <3>1. j # 1 /\ (i # 1 => i - 1 < j - 1) BY <2>10
    <3>2. CASE i = 1
      <4>1. q[j] \in D /\ q[i] = m BY <2>7, <3>1, <3>2
      <4> QED BY <2>2, <4>1
    <3>3. CASE i # 1 BY <2>5, <2>6, <2>7, <3>1, <3>3
    <3> QED BY <3>2, <3>3
  <2>11. q \in Orders(k + 1, D) BY <2>8, <2>9, <2>10 DEF Orders
  <2> QED BY <2>11
<1> HIDE DEF Good
<1>5. \A k \in 0..n : k \in Good BY <1>1, <1>3, <1>4, Climbs
<1>6. n \in Good BY <1>1, <1>5
<1>7. Orders(n, 1..n) # {}
  <2> HIDE DEF Orders
  <2> QED BY <1>2, <1>6 DEF Good
<1>8. PICK o \in Orders(n, 1..n) : TRUE BY <1>7
<1> QED BY <1>1, <1>8

\* The element at a place of the sorted copy has as many at or below it as
\* there are places up to its own, and fewer below it.
LEMMA Ranks ==
  ASSUME NEW seq \in Seq(Nat), NEW k \in 1..Len(seq)
  PROVE  LET v == Load!Sorted(seq)[k]
         IN  /\ v \in Nat
             /\ Cardinality({i \in DOMAIN seq : seq[i] <= v}) >= k
             /\ Cardinality({i \in DOMAIN seq : seq[i] < v}) <= k - 1
             /\ \A j \in k..Len(seq) : v <= Load!Sorted(seq)[j]
<1> DEFINE n == Len(seq)
           Fits(o) == /\ Load!IsInjective(o)
                      /\ \A i, j \in DOMAIN seq : i < j => seq[o[i]] <= seq[o[j]]
           order == CHOOSE o \in [DOMAIN seq -> DOMAIN seq] : Fits(o)
           v == seq[order[k]]
           Low == {i \in DOMAIN seq : seq[i] <= v}
           Less == {i \in DOMAIN seq : seq[i] < v}
           High == {i \in DOMAIN seq : seq[i] >= v}
<1>1. n \in Nat /\ DOMAIN seq = 1..n /\ \A i \in 1..n : seq[i] \in Nat OBVIOUS
<1>2. \E o \in [DOMAIN seq -> DOMAIN seq] : Fits(o)
  <2>1. PICK o \in [DOMAIN seq -> DOMAIN seq] :
          /\ \A i, j \in DOMAIN seq : o[i] = o[j] => i = j
          /\ \A i, j \in DOMAIN seq : i < j => seq[o[i]] <= seq[o[j]]
    BY SortingOrder
  <2>2. DOMAIN o = DOMAIN seq OBVIOUS
  <2>3. Load!IsInjective(o) BY <2>1, <2>2 DEF Load!IsInjective
  <2> QED BY <2>1, <2>3
<1>3. order \in [DOMAIN seq -> DOMAIN seq] /\ Fits(order)
  <2> HIDE DEF Fits
  <2> QED BY <1>2, Zenon
<1>4. Load!Sorted(seq) = [i \in DOMAIN seq |-> seq[order[i]]] BY DEF Load!Sorted
<1> HIDE DEF order
<1>5. /\ order \in [1..n -> 1..n]
      /\ \A i, j \in 1..n : order[i] = order[j] => i = j
      /\ \A i, j \in 1..n : i < j => seq[order[i]] <= seq[order[j]]
  BY <1>1, <1>3 DEF Load!IsInjective
<1>6. k \in 1..n /\ v \in Nat
  <2>1. order[k] \in 1..n BY <1>5
  <2> QED BY <1>1, <2>1
<1>7. ASSUME NEW j \in 1..n PROVE seq[order[j]] \in Nat
  BY <1>1, <1>5
<1>8. /\ \A j \in 1..n : j <= k => seq[order[j]] <= v
      /\ \A j \in 1..n : j >= k => v <= seq[order[j]]
  <2>1. \A i, j \in 1..n : i <= j => seq[order[i]] <= seq[order[j]]
    <3> SUFFICES ASSUME NEW i \in 1..n, NEW j \in 1..n, i <= j
                 PROVE  seq[order[i]] <= seq[order[j]]
      OBVIOUS
    <3>1. CASE i = j BY <1>7, <3>1
    <3>2. CASE i < j BY <1>5, <3>2
    <3> QED BY <1>1, <3>1, <3>2
  <2> QED BY <1>1, <1>6, <2>1
<1> HIDE DEF v, n
<1>9. IsFiniteSet(1..n) /\ Cardinality(1..n) = n BY <1>1, FS_Interval
<1>10. Cardinality(Low) >= k
  <2> DEFINE f == [i \in 1..k |-> order[i]]
  <2>1. \A i \in 1..k : i \in 1..n /\ i <= k BY <1>1, <1>6
  <2>2. f \in [1..k -> Low] BY <1>1, <1>5, <1>8, <2>1
  <2>3. \A i, j \in 1..k : f[i] = f[j] => i = j BY <1>5, <2>1
  <2>4. DOMAIN f = 1..k OBVIOUS
  <2> HIDE DEF f, Low
  <2>5. f \in Injection(1..k, Low) BY <2>2, <2>3, <2>4 DEF Injection, IsInjective
  <2>6. IsFiniteSet(Low)
    <3>1. Low \in SUBSET (1..n) BY <1>1 DEF Low
    <3> QED BY <1>9, <3>1, FS_Subset
  <2>7. Cardinality(1..k) <= Cardinality(Low) BY <2>5, <2>6, FS_Injection
  <2>8. Cardinality(1..k) = k BY <1>1, <1>6, FS_Interval
  <2>9. Cardinality(Low) \in Nat BY <2>6, FS_CardinalityType
  <2> QED BY <1>6, <1>1, <2>7, <2>8, <2>9
<1>11. Cardinality(Less) <= k - 1
  <2> DEFINE f == [i \in k..n |-> order[i]]
  <2>1. \A i \in k..n : i \in 1..n /\ i >= k BY <1>1, <1>6
  <2>2. f \in [k..n -> High] BY <1>1, <1>5, <1>6, <1>7, <1>8, <2>1
  <2>3. \A i, j \in k..n : f[i] = f[j] => i = j BY <1>5, <2>1
  <2>4. DOMAIN f = k..n OBVIOUS
  <2>5. High \in SUBSET (1..n) /\ Less \in SUBSET (1..n) BY <1>1
  <2>6. High \cup Less = 1..n /\ High \cap Less = {} BY <1>1, <1>6
  <2> HIDE DEF f, High, Less
  <2>7. f \in Injection(k..n, High) BY <2>2, <2>3, <2>4 DEF Injection, IsInjective
  <2>8. IsFiniteSet(High) /\ IsFiniteSet(Less) BY <1>9, <2>5, FS_Subset
  <2>9. Cardinality(k..n) <= Cardinality(High) BY <2>7, <2>8, FS_Injection
  <2>10. Cardinality(k..n) = n - k + 1 BY <1>1, <1>6, FS_Interval
  <2>11. Cardinality(High) \in Nat /\ Cardinality(Less) \in Nat
    BY <2>8, FS_CardinalityType
  <2>12. n = Cardinality(High) + Cardinality(Less) - Cardinality({})
    <3>1. Cardinality(High \cup Less)
            = Cardinality(High) + Cardinality(Less) - Cardinality(High \cap Less)
      BY <2>8, FS_Union
    <3> QED BY <1>9, <2>6, <3>1
  <2>13. Cardinality({}) = 0 BY FS_EmptySet
  <2> QED BY <1>1, <1>6, <2>9, <2>10, <2>11, <2>12, <2>13
<1>12. Load!Sorted(seq)[k] = v /\ \A j \in k..n : v <= Load!Sorted(seq)[j]
  <2>1. \A j \in k..n : j \in 1..n /\ j >= k BY <1>1, <1>6
  <2>2. k \in DOMAIN seq /\ \A j \in k..n : j \in DOMAIN seq BY <1>1, <1>6, <2>1
  <2> QED BY <1>4, <1>8, <2>1, <2>2 DEF v
<1> QED BY <1>6, <1>10, <1>11, <1>12 DEF n

\* Half of them are at the median or below it, and half at most below.
LEMMA Percentiles ==
  ASSUME NEW seq \in Seq(Nat)
  PROVE  LET p50 == Load!Percentile(seq, 50)
         IN  /\ 2 * Cardinality({i \in DOMAIN seq : seq[i] <= p50}) >= Len(seq)
             /\ 2 * Cardinality({i \in DOMAIN seq : seq[i] < p50}) <= Len(seq)
             /\ p50 <= Load!Percentile(seq, 95)
<1> DEFINE n == Len(seq)
           k == Load!Index(n, 50) + 1
           l == Load!Index(n, 95) + 1
           v == Load!Sorted(seq)[k]
           Low == {i \in DOMAIN seq : seq[i] <= v}
           Less == {i \in DOMAIN seq : seq[i] < v}
<1>1. CASE seq = <<>>
  <2>1. Load!Percentile(seq, 50) = 0 /\ Load!Percentile(seq, 95) = 0
    BY <1>1 DEF Load!Percentile
  <2>2. DOMAIN seq = {} /\ Len(seq) = 0 BY <1>1
  <2>3. Cardinality({i \in DOMAIN seq : seq[i] <= 0}) = 0
        /\ Cardinality({i \in DOMAIN seq : seq[i] < 0}) = 0
    <3>1. {i \in DOMAIN seq : seq[i] <= 0} = {} /\ {i \in DOMAIN seq : seq[i] < 0} = {} BY <2>2
    <3> QED BY <3>1, FS_EmptySet
  <2> QED BY <2>1, <2>2, <2>3
<1>2. CASE seq # <<>>
  <2>1. n \in Nat \ {0} BY <1>2
  <2> HIDE DEF n
  <2>2. k \in 1..n /\ l \in k..n /\ 2 * k >= n /\ 2 * (k - 1) <= n BY <2>1 DEF Load!Index
  <2>3. Load!Percentile(seq, 50) = v /\ Load!Percentile(seq, 95) = Load!Sorted(seq)[l]
    BY <1>2 DEF Load!Percentile, n
  <2> HIDE DEF k, l
  <2>4. /\ Cardinality(Low) >= k /\ Cardinality(Less) <= k - 1
        /\ \A j \in k..n : v <= Load!Sorted(seq)[j]
    BY <2>2, Ranks DEF n
  <2>5. Cardinality(Low) \in Nat /\ Cardinality(Less) \in Nat
    <3>1. DOMAIN seq = 1..n /\ n \in Nat BY DEF n
    <3>2. IsFiniteSet(DOMAIN seq) BY <3>1, FS_Interval
    <3>3. IsFiniteSet(Low) /\ IsFiniteSet(Less) BY <3>2, FS_Subset
    <3> QED BY <3>3, FS_CardinalityType
  <2>6. 2 * Cardinality(Low) >= n /\ 2 * Cardinality(Less) <= n
    <3> HIDE DEF Low, Less
    <3> QED BY <2>1, <2>2, <2>4, <2>5
  <2> QED BY <2>2, <2>3, <2>4, <2>6 DEF n
<1> QED BY <1>1, <1>2

Underway(tags) == \E k \in 0..MaxKeys, tag \in tags : <<tag, k>> \in msgs

CountersAgree ==
  /\ total \in [Engines -> Nat] /\ errors \in [Engines -> Nat]
  /\ refused \in [Engines -> Nat] /\ latencies \in [Engines -> Seq(Nat)]
  /\ \A e \in Engines : total[e] = Len(latencies[e]) + refused[e]

\* What the last screen rests on: the engine that is done works no more, and
\* with no engine beside it the last snapshot was taken after that.
LoadInv ==
  /\ state \in [Engines -> {"none", "running", "done"}]
  /\ worker \in [Engines -> [Workers -> {"none", "looping", "waiting", "left"}]]
  /\ CountersAgree
  /\ \A e \in Engines : state[e] = "done" => Load!AllLeft(e)
  /\ phase \in {"dashboard", "done"} \/ Underway({"tick", "live-done"}) =>
       engine \in Engines /\ state[engine] # "none"
  /\ (phase = "done" \/ Underway({"live-done"})) /\ Load!OnlyEngine =>
       state[engine] = "done" /\ final = Load!Snapshot(engine)

LEMMA LoadStarts == Load!Init => LoadInv
<1> SUFFICES ASSUME Load!Init PROVE LoadInv OBVIOUS
<1>1. /\ state = [e \in Engines |-> "none"]
      /\ worker = [e \in Engines |-> [w \in Workers |-> "none"]]
      /\ total = [e \in Engines |-> 0] /\ errors = total /\ refused = total
      /\ latencies = [e \in Engines |-> <<>>]
      /\ phase = "concurrency" /\ msgs = {}
  BY DEF Load!Init
<1>2. CountersAgree BY <1>1 DEF CountersAgree
<1>3. /\ state \in [Engines -> {"none", "running", "done"}]
      /\ worker \in [Engines -> [Workers -> {"none", "looping", "waiting", "left"}]]
      /\ \A e \in Engines : state[e] # "done"
  BY <1>1
<1>4. phase \notin {"dashboard", "done"} /\ \A tags : ~Underway(tags) BY <1>1 DEF Underway
<1> QED BY <1>2, <1>3, <1>4 DEF LoadInv

\* The snapshot goes by the counters of the engine alone.
LEMMA SameSnapshot ==
  ASSUME engine' = engine, total'[engine] = total[engine], errors'[engine] = errors[engine],
         latencies'[engine] = latencies[engine]
  PROVE  Load!Snapshot(engine)' = Load!Snapshot(engine)
BY DEF Load!Snapshot, Load!Percentile, Load!Sorted, Load!Index

\* issueOne adds to the counters of its engine, to each what belongs to it.
LEMMA IssueCounts ==
  ASSUME CountersAgree, NEW e \in Engines, NEW w \in Workers, Load!IssueOne(e, w)
  PROVE  /\ CountersAgree'
         /\ \A d \in Engines : d # e => /\ total'[d] = total[d] /\ errors'[d] = errors[d]
                                        /\ latencies'[d] = latencies[d]
<1>1. CASE UNCHANGED <<total, errors, latencies, refused>>
  BY <1>1 DEF CountersAgree
<1>2. ASSUME NEW bad \in {0, 1}, NEW dur \in Latencies,
             total' = [total EXCEPT ![e] = @ + 1], errors' = [errors EXCEPT ![e] = @ + bad],
             latencies' = [latencies EXCEPT ![e] = Append(@, dur)], refused' = refused
      PROVE  CountersAgree'
  <2>1. latencies[e] \in Seq(Nat) /\ dur \in Nat BY LatenciesAssumption DEF CountersAgree
  <2>2. Append(latencies[e], dur) \in Seq(Nat)
        /\ Len(Append(latencies[e], dur)) = Len(latencies[e]) + 1
    BY <2>1
  <2>3. /\ total' \in [Engines -> Nat] /\ errors' \in [Engines -> Nat]
        /\ refused' \in [Engines -> Nat] /\ latencies' \in [Engines -> Seq(Nat)]
    BY <1>2, <2>2 DEF CountersAgree
  <2>4. ASSUME NEW d \in Engines PROVE total'[d] = Len(latencies'[d]) + refused'[d]
    <3>1. /\ total[d] = Len(latencies[d]) + refused[d]
          /\ Len(latencies[d]) \in Nat /\ refused[d] \in Nat /\ refused'[d] = refused[d]
      BY <1>2 DEF CountersAgree
    <3>2. CASE d = e
      <4>1. total'[d] = total[d] + 1 /\ latencies'[d] = Append(latencies[d], dur)
        BY <1>2, <3>2 DEF CountersAgree
      <4>2. Len(latencies'[d]) = Len(latencies[d]) + 1 BY <2>2, <3>2, <4>1
      <4> QED BY <3>1, <4>1, <4>2
    <3>3. CASE d # e BY <1>2, <3>1, <3>3 DEF CountersAgree
    <3> QED BY <3>2, <3>3
  <2> QED BY <2>3, <2>4 DEF CountersAgree
<1>3. ASSUME total' = [total EXCEPT ![e] = @ + 1], errors' = [errors EXCEPT ![e] = @ + 1],
             refused' = [refused EXCEPT ![e] = @ + 1], latencies' = latencies
      PROVE  CountersAgree'
  <2>1. latencies[e] \in Seq(Nat) BY DEF CountersAgree
  <2> QED BY <1>3, <2>1 DEF CountersAgree
<1>4. \/ UNCHANGED <<total, errors, latencies, refused>>
      \/ \E bad \in {0, 1}, dur \in Latencies :
           /\ total' = [total EXCEPT ![e] = @ + 1] /\ errors' = [errors EXCEPT ![e] = @ + bad]
           /\ latencies' = [latencies EXCEPT ![e] = Append(@, dur)] /\ refused' = refused
      \/ /\ total' = [total EXCEPT ![e] = @ + 1] /\ errors' = [errors EXCEPT ![e] = @ + 1]
         /\ refused' = [refused EXCEPT ![e] = @ + 1] /\ latencies' = latencies
  BY DEF Load!IssueOne, Load!counters
<1>5. CountersAgree' BY <1>1, <1>2, <1>3, <1>4
<1> QED BY <1>4, <1>5 DEF CountersAgree

\* The engines: the screens and the messages stay.
LEMMA EngineStep ==
  ASSUME LoadInv, NEW e \in Engines, Load!Work(e)
  PROVE  LoadInv'
<1>1. /\ state' \in [Engines -> {"none", "running", "done"}]
      /\ worker' \in [Engines -> [Workers -> {"none", "looping", "waiting", "left"}]]
  <2>1. CASE Load!DeadlinePasses(e) BY <2>1 DEF LoadInv, Load!DeadlinePasses
  <2>2. CASE Load!Join(e) BY <2>2 DEF LoadInv, Load!Join
  <2>3. ASSUME NEW w \in Workers, Load!Loop(e, w) \/ Load!IssueOne(e, w)
        PROVE  /\ state' \in [Engines -> {"none", "running", "done"}]
               /\ worker' \in [Engines -> [Workers -> {"none", "looping", "waiting", "left"}]]
    <3>1. PICK label \in {"looping", "waiting", "left"} :
            worker' = [worker EXCEPT ![e][w] = label] /\ state' = state
      BY <2>3 DEF Load!Loop, Load!IssueOne, Load!WorkerGoes
    <3> QED BY <3>1 DEF LoadInv
  <2> QED BY <2>1, <2>2, <2>3 DEF Load!Work
<1>2. engine' = engine /\ phase' = phase /\ msgs' = msgs /\ final' = final
  BY DEF Load!Work, Load!DeadlinePasses, Load!Join, Load!Loop, Load!IssueOne, Load!ui
<1>3. ASSUME NEW d \in Engines
      PROVE  /\ state'[d] = "none" <=> state[d] = "none"
             /\ state[d] = "done" => state'[d] = "done"
  BY DEF LoadInv, Load!Work, Load!DeadlinePasses, Load!Join, Load!Loop, Load!IssueOne
\* An engine that is done has no worker left to take a step.
<1>4. ASSUME NEW w \in Workers, Load!Loop(e, w) \/ Load!IssueOne(e, w)
      PROVE  state[e] # "done"
  BY <1>4 DEF LoadInv, Load!Loop, Load!IssueOne, Load!AllLeft
<1>5. CountersAgree' /\ \A d \in Engines : state[d] = "done" => /\ total'[d] = total[d]
                                                                /\ errors'[d] = errors[d]
                                                                /\ latencies'[d] = latencies[d]
  <2>1. CASE Load!DeadlinePasses(e) \/ Load!Join(e) \/ \E w \in Workers : Load!Loop(e, w)
    BY <2>1 DEF LoadInv, CountersAgree, Load!DeadlinePasses, Load!Join, Load!Loop, Load!counters
  <2>2. ASSUME NEW w \in Workers, Load!IssueOne(e, w)
        PROVE  CountersAgree' /\ \A d \in Engines :
                                   state[d] = "done" => /\ total'[d] = total[d]
                                                        /\ errors'[d] = errors[d]
                                                        /\ latencies'[d] = latencies[d]
    BY <1>4, <2>2, IssueCounts DEF LoadInv
  <2> QED BY <2>1, <2>2 DEF Load!Work
<1>6. ASSUME NEW d \in Engines, state'[d] = "done" PROVE Load!AllLeft(d)'
  <2>1. CASE Load!DeadlinePasses(e)
    BY <1>6, <2>1 DEF LoadInv, Load!DeadlinePasses, Load!AllLeft
  <2>2. CASE Load!Join(e) BY <1>6, <2>2 DEF LoadInv, Load!Join, Load!AllLeft
  <2>3. ASSUME NEW w \in Workers, Load!Loop(e, w) \/ Load!IssueOne(e, w)
        PROVE  Load!AllLeft(d)'
    <3>1. d # e /\ state[d] = "done"
      BY <1>4, <1>6, <2>3 DEF Load!Loop, Load!IssueOne
    <3>2. worker'[d] = worker[d]
      BY <2>3, <3>1 DEF LoadInv, Load!Loop, Load!IssueOne, Load!WorkerGoes
    <3> QED BY <3>1, <3>2 DEF LoadInv, Load!AllLeft
  <2> QED BY <2>1, <2>2, <2>3 DEF Load!Work
<1>7. Underway({"tick", "live-done"})' <=> Underway({"tick", "live-done"})
  BY <1>2 DEF Underway
<1>8. Underway({"live-done"})' <=> Underway({"live-done"}) BY <1>2 DEF Underway
<1>9. phase' \in {"dashboard", "done"} \/ Underway({"tick", "live-done"})' =>
        engine' \in Engines /\ state'[engine'] # "none"
  BY <1>2, <1>3, <1>7 DEF LoadInv
<1>10. ASSUME phase' = "done" \/ Underway({"live-done"})', Load!OnlyEngine'
       PROVE  state'[engine'] = "done" /\ final' = Load!Snapshot(engine)'
  <2>1. Load!OnlyEngine BY <1>2, <1>3, <1>10 DEF Load!OnlyEngine
  <2>2. state[engine] = "done" /\ final = Load!Snapshot(engine)
    BY <1>2, <1>8, <1>10, <2>1 DEF LoadInv
  <2>3. engine \in Engines
    <3>1. phase = "done" \/ Underway({"tick", "live-done"})
      BY <1>2, <1>8, <1>10 DEF Underway
    <3> QED BY <3>1 DEF LoadInv
  <2>4. Load!Snapshot(engine)' = Load!Snapshot(engine)
    BY <1>2, <1>5, <2>2, <2>3, SameSnapshot
  <2> QED BY <1>2, <1>3, <2>2, <2>3, <2>4
<1> QED BY <1>1, <1>5, <1>6, <1>9, <1>10 DEF LoadInv

\* The screens and the messages: the counters and the engines there were stay.
LEMMA ScreensStep ==
  ASSUME LoadInv,
         \/ \E tag \in {"concurrency", "duration"} : Load!Enter(tag)
         \/ Load!OnConcurrency \/ Load!OnTick \/ Load!OnDashboardDone \/ Load!Quit
  PROVE  LoadInv'
<1>1. /\ state' = state /\ worker' = worker /\ total' = total /\ errors' = errors
      /\ refused' = refused /\ latencies' = latencies /\ engine' = engine
  BY DEF Load!Enter, Load!OnConcurrency, Load!OnTick, Load!OnDashboardDone, Load!Quit,
         Load!running, Load!counters
<1>2. Load!Snapshot(engine)' = Load!Snapshot(engine) BY <1>1, SameSnapshot
<1>3. /\ CountersAgree' /\ (Load!OnlyEngine' <=> Load!OnlyEngine)
      /\ \A e \in Engines : state'[e] = "done" => Load!AllLeft(e)'
  BY <1>1 DEF LoadInv, CountersAgree, Load!OnlyEngine, Load!AllLeft
\* What comes of a message was there, on the way or on the screen.
<1>4. phase' \in {"dashboard", "done"} \/ Underway({"tick", "live-done"})' =>
        phase \in {"dashboard", "done"} \/ Underway({"tick", "live-done"})
  <2>1. CASE \E tag \in {"concurrency", "duration"} : Load!Enter(tag)
    BY <2>1 DEF Load!Enter, Underway
  <2>2. CASE Load!OnConcurrency BY <2>2 DEF Load!OnConcurrency, Load!Handles, Underway
  <2>3. CASE Load!OnTick BY <2>3 DEF Load!OnTick, Underway
  <2>4. CASE Load!OnDashboardDone BY <2>4 DEF Load!OnDashboardDone, Load!Handles, Underway
  <2>5. CASE Load!Quit BY <2>5 DEF Load!Quit, Underway
  <2> QED BY <2>1, <2>2, <2>3, <2>4, <2>5
<1>5. phase' \in {"dashboard", "done"} \/ Underway({"tick", "live-done"})' =>
        engine' \in Engines /\ state'[engine'] # "none"
  BY <1>1, <1>4 DEF LoadInv
<1>6. ASSUME phase' = "done" \/ Underway({"live-done"})', Load!OnlyEngine
      PROVE  state[engine] = "done" /\ final' = Load!Snapshot(engine)
  <2>1. CASE \E tag \in {"concurrency", "duration"} : Load!Enter(tag)
    BY <1>6, <2>1 DEF LoadInv, Load!Enter, Underway
  <2>2. CASE Load!OnConcurrency
    BY <1>6, <2>2 DEF LoadInv, Load!OnConcurrency, Load!Handles, Underway
  <2>3. CASE Load!OnTick
    <3>1. CASE phase # "dashboard" BY <1>6, <2>3, <3>1 DEF LoadInv, Load!OnTick, Underway
    <3>2. CASE phase = "dashboard"
      <4>1. PICK k \in 0..MaxKeys :
              /\ final' = Load!Snapshot(engine) /\ phase' = phase
              /\ msgs' = (msgs \ {<<"tick", k>>}) \cup
                   (IF state[engine] = "done" THEN {<<"live-done", k>>} ELSE {<<"tick", k>>})
        BY <2>3, <3>2 DEF Load!OnTick, Load!TicksOn
      <4>2. Underway({"live-done"}) \/ state[engine] = "done"
        BY <1>6, <3>2, <4>1 DEF Underway
      <4> QED BY <1>6, <4>1, <4>2 DEF LoadInv
    <3> QED BY <3>1, <3>2
  <2>4. CASE Load!OnDashboardDone
    <3>1. Underway({"live-done"}) /\ final' = final
      BY <2>4 DEF Load!OnDashboardDone, Load!Handles, Underway
    <3> QED BY <1>6, <3>1 DEF LoadInv
  <2>5. CASE Load!Quit BY <1>6, <2>5 DEF LoadInv, Load!Quit, Underway
  <2> QED BY <2>1, <2>2, <2>3, <2>4, <2>5
<1> QED BY <1>1, <1>2, <1>3, <1>5, <1>6 DEF LoadInv

\* A second engine takes the place of the first, which there is if the last
\* screen is shown or on its way.
LEMMA StartStep ==
  ASSUME LoadInv, NEW e \in Engines, Load!OnDuration(e)
  PROVE  LoadInv'
<1>1. /\ state[e] = "none" /\ state' = [state EXCEPT ![e] = "running"]
      /\ worker' = [worker EXCEPT ![e] = [w \in Workers |-> "looping"]]
      /\ engine' = e /\ phase' = "dashboard"
      /\ total' = total /\ errors' = errors /\ refused' = refused /\ latencies' = latencies
  <2>1. /\ Load!Unused # {} /\ e = CHOOSE d \in Load!Unused : TRUE
        /\ state' = [state EXCEPT ![e] = "running"]
        /\ worker' = [worker EXCEPT ![e] = [w \in Workers |-> "looping"]]
        /\ engine' = e /\ phase' = "dashboard"
        /\ total' = total /\ errors' = errors /\ refused' = refused /\ latencies' = latencies
    BY DEF Load!OnDuration, Load!counters
  <2>2. e \in Load!Unused BY <2>1
  <2> QED BY <2>1, <2>2 DEF Load!Unused
<1>2. /\ state' \in [Engines -> {"none", "running", "done"}]
      /\ worker' \in [Engines -> [Workers -> {"none", "looping", "waiting", "left"}]]
  BY <1>1 DEF LoadInv
<1>3. CountersAgree' BY <1>1 DEF LoadInv, CountersAgree
<1>4. /\ state'[e] = "running"
      /\ \A d \in Engines : d # e => state'[d] = state[d] /\ worker'[d] = worker[d]
  BY <1>1 DEF LoadInv
<1>5. \A d \in Engines : state'[d] = "done" => Load!AllLeft(d)'
  BY <1>4 DEF LoadInv, Load!AllLeft
<1>6. ASSUME phase' = "done" \/ Underway({"live-done"})', Load!OnlyEngine'
      PROVE  FALSE
  <2>1. PICK k \in 0..MaxKeys :
          msgs' = (msgs \ {<<"duration", k>>}) \cup {<<"tick", k>>}
    BY DEF Load!OnDuration
  <2>2. Underway({"tick", "live-done"}) BY <1>1, <1>6, <2>1 DEF Underway
  <2>3. engine \in Engines /\ state[engine] # "none" BY <2>2 DEF LoadInv
  <2>4. engine # e BY <1>1, <2>3
  <2>5. state'[engine] = "none" BY <1>1, <1>6, <2>3, <2>4 DEF Load!OnlyEngine
  <2> QED BY <1>4, <2>3, <2>4, <2>5
<1> QED BY <1>1, <1>2, <1>3, <1>4, <1>5, <1>6 DEF LoadInv

LEMMA LoadStep == LoadInv /\ [Load!Next]_loadVars => LoadInv'
<1> SUFFICES ASSUME LoadInv, [Load!Next]_loadVars PROVE LoadInv' OBVIOUS
<1>1. CASE UNCHANGED loadVars
  <2>1. /\ state' = state /\ worker' = worker /\ total' = total /\ errors' = errors
        /\ refused' = refused /\ latencies' = latencies /\ engine' = engine
        /\ phase' = phase /\ msgs' = msgs /\ final' = final
    BY <1>1 DEF loadVars
  <2>2. Load!Snapshot(engine)' = Load!Snapshot(engine) BY <2>1, SameSnapshot
  <2> QED BY <2>1, <2>2 DEF LoadInv, CountersAgree, Underway, Load!OnlyEngine, Load!AllLeft
<1> QED BY <1>1, EngineStep, ScreensStep, StartStep DEF Load!Next

\* Done and alone: the snapshot on the screen is the last one there can be.
LEMMA LoadIsFinal == LoadInv => Load!FinalIsFinal
<1> SUFFICES ASSUME LoadInv, phase = "done", Load!OnlyEngine PROVE Load!FinalIsFinal
  BY DEF Load!FinalIsFinal
<1> DEFINE l == latencies[engine]
<1>1. /\ final = Load!Snapshot(engine) /\ engine \in Engines
      /\ total[engine] = Len(l) + refused[engine]
      /\ l \in Seq(Nat)
  BY DEF LoadInv, CountersAgree
<1>2. final.p50 = Load!Percentile(l, 50) /\ final.p95 = Load!Percentile(l, 95)
  BY <1>1 DEF Load!Snapshot
<1>3. /\ 2 * Cardinality({i \in DOMAIN l : l[i] <= final.p50}) >= Len(l)
      /\ 2 * Cardinality({i \in DOMAIN l : l[i] < final.p50}) <= Len(l)
      /\ final.p50 <= final.p95
  <2> HIDE DEF l
  <2>1. LET p50 == Load!Percentile(l, 50)
        IN  /\ 2 * Cardinality({i \in DOMAIN l : l[i] <= p50}) >= Len(l)
            /\ 2 * Cardinality({i \in DOMAIN l : l[i] < p50}) <= Len(l)
            /\ p50 <= Load!Percentile(l, 95)
    BY <1>1, Percentiles
  <2> QED BY <1>2, <2>1
<1>4. \A S : Load!Cardinality(S) = Cardinality(S) BY DEF Load!Cardinality, Cardinality
<1> QED BY <1>1, <1>3, <1>4 DEF Load!FinalIsFinal

-----------------------------------------------------------------------------
(* The parts together.                                                     *)
LimitsInv == BucketInv /\ SleepInv /\ ManualInv /\ GroupInv

\* Whichever part is the focus, each of them takes a step of its own or none.
LEMMA EachPartSteps ==
  [LimitsNext]_limitsVars =>
    /\ [Next]_vars /\ [Manual!Next]_manualVars /\ [EG!Next]_groupVars
    /\ [Do!Next]_retryVars /\ [Load!Next]_loadVars
BY DEF LimitsNext, limitsVars, Only

LEMMA LimitsInvariance == LimitsSpec => []LimitsInv
<1>1. LimitsInit => LimitsInv
  <2> SUFFICES ASSUME LimitsInit PROVE LimitsInv OBVIOUS
  <2>1. Init /\ Manual!Init /\ EG!Init BY DEF LimitsInit
  <2>2. SleepInv BY <2>1 DEF Init, SleepInv
  <2> QED BY <2>1, <2>2, BucketStarts, ManualStarts, GroupStarts DEF LimitsInv
<1>2. LimitsInv /\ [LimitsNext]_limitsVars => LimitsInv'
  BY EachPartSteps, BucketStep, SleepStep, ManualStep, GroupStep DEF LimitsInv
<1> QED BY <1>1, <1>2, PTL DEF LimitsSpec

(* Waits end as they should, for any callers, goroutines and groups: a     *)
(* group's Wait returns when every function has come to its end and given  *)
(* its permit back, and returns nil exactly when each of them did          *)
(* (errgroup, Wait); nobody sleeps through tokens it could have (manual    *)
(* limiter, WaitN); and no sleep lasts beyond the arrival of its tokens by *)
(* more than the short nap (Bucket, WaitN).                                *)
THEOREM WaitsEndRight == LimitsSpec => []WaitsAreRight
<1>1. LimitsInv => WaitsAreRight
  BY SleepSuffices DEF LimitsInv, WaitsAreRight, GroupInv, ManualInv
<1> QED BY <1>1, LimitsInvariance, PTL

CountsInv == RetryInv /\ LoadInv

(* Attempts go with sleeps and answers with counters, at every state of    *)
(* the five parts together.                                                *)
THEOREM CountsInvariance == LimitsSpec => []CountsInv
<1>1. LimitsInit => CountsInv BY RetryStarts, LoadStarts DEF LimitsInit, CountsInv
<1>2. CountsInv /\ [LimitsNext]_limitsVars => CountsInv'
  BY EachPartSteps, RetryStep, LoadStep DEF CountsInv
<1> QED BY <1>1, <1>2, PTL DEF LimitsSpec

(* Attempts and answers come out right, for any policies, latencies,       *)
(* engines and workers: Do sleeps as its policy plans, give or take the    *)
(* jitter, and calls op on a cancelled context at most once (retry, Do);   *)
(* and the last screen shows what the only engine counted until its last   *)
(* worker left, with percentiles that are ones (loadgen, Snapshot).        *)
THEOREM CountsComeRight == LimitsSpec => []CountsAreRight
<1>1. CountsInv => CountsAreRight
  BY LateCallsAreFew, LoadIsFinal DEF CountsInv, CountsAreRight
<1> QED BY <1>1, CountsInvariance, PTL
=============================================================================
