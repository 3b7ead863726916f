---------------------------- MODULE BusesProofs -----------------------------
(***************************************************************************)
(* Proofs about the event buses, for any subscriptions, publishers and     *)
(* buffers.  The Async bus (EventBusAsync): the order of a publisher's     *)
(* events, what can be left in the channel of a worker that has gone, and  *)
(* whom Close has waited for.  The Sync bus (SyncBus) and the inspector    *)
(* (Inspect): no event is lost.                                            *)
(***************************************************************************)
EXTENDS Buses, FiniteSetTheorems, SequenceTheorems, WellFoundedInduction, TLAPS

\* The event of p's present Publish may still come to s.
Pending(p, s) == pubPc[p] = "checked" \/ s \in todo[p]

\* The events that s has handled and those in its channel are numbered
\* upwards, and the one that may still come is last.
HandledBehind ==
  \A s \in Subs, p \in Publishers :
    /\ handled[s][p] <= calls[p]
    /\ Pending(p, s) => handled[s][p] < calls[p]

QueueBehind ==
  \A s \in Subs : \A i \in DOMAIN ch[s] :
    /\ handled[s][ch[s][i].by] < ch[s][i].num
    /\ ch[s][i].num <= calls[ch[s][i].by]
    /\ Pending(ch[s][i].by, s) => ch[s][i].num < calls[ch[s][i].by]

QueueOrdered ==
  \A s \in Subs : \A i, j \in DOMAIN ch[s] :
    i < j /\ ch[s][i].by = ch[s][j].by => ch[s][i].num < ch[s][j].num

\* A worker is told to stop when its subscription leaves the map, for good,
\* and does not drain before that.
StopIsFinal ==
  \A s \in Subs :
    /\ stop[s] => s \notin subs
    /\ stop[s] \/ s \in subs => subPc[s] \notin {"none", "checked"}
    /\ subPc[s] \in {"draining", "drainHandling", "exited"} => stop[s]

\* What is in the channel of a worker that has gone was sent since, by
\* publishers that are done with s.
LateOnce ==
  \A s \in Subs : subPc[s] = "exited" =>
    \A i, j \in DOMAIN ch[s] : /\ s \notin todo[ch[s][i].by]
                               /\ ch[s][i].by = ch[s][j].by => i = j

EarlyWork == \A s \in early : s \in Workers \/ subPc[s] = "exited"

Order == HandledBehind /\ QueueBehind /\ QueueOrdered

AsyncInv == TypeOK /\ Order /\ StopIsFinal /\ LateOnce /\ EarlyWork /\ CloseWaitsForEarly

USE DEF SubPCs

\* What a channel holds.
LEMMA InChannel ==
  ASSUME TypeOK, NEW s \in Subs
  PROVE  /\ ch[s] \in Seq(Events) /\ Len(ch[s]) \in Nat /\ DOMAIN ch[s] = 1..Len(ch[s])
         /\ \A i \in DOMAIN ch[s] : /\ ch[s][i].by \in Publishers
                                   /\ ch[s][i].num \in 1..MaxPublishes
<1>1. ch[s] \in Seq(Events) BY DEF TypeOK
<1>2. Len(ch[s]) \in Nat /\ DOMAIN ch[s] = 1..Len(ch[s]) BY <1>1, LenProperties
<1>3. \A i \in 1..Len(ch[s]) : ch[s][i] \in Events BY <1>1, ElementOfSeq
<1> QED BY <1>1, <1>2, <1>3 DEF Events

-----------------------------------------------------------------------------
LEMMA StartsWell == Init => AsyncInv
<1> SUFFICES ASSUME Init PROVE AsyncInv OBVIOUS
<1>1. ch \in [Subs -> Seq(Events)] /\ \A s \in Subs : ch[s] = <<>> BY DEF Init
<1>2. bufferSize \in Nat BY BusAssumption DEF Init
<1>3. \A s \in Subs : Len(ch[s]) <= bufferSize BY <1>1, <1>2
<1>4. handled \in [Subs -> [Publishers -> 0..MaxPublishes]] BY BusAssumption DEF Init
<1>5. calls \in [Publishers -> 0..MaxPublishes] BY BusAssumption DEF Init
<1>6. TypeOK BY <1>1, <1>3, <1>4, <1>5 DEF Init, TypeOK
<1>7. Order BY <1>1 DEF Init, Order, HandledBehind, QueueBehind, QueueOrdered, Pending
<1>8. StopIsFinal /\ LateOnce /\ EarlyWork /\ CloseWaitsForEarly
  BY DEF Init, StopIsFinal, LateOnce, EarlyWork, CloseWaitsForEarly
<1> QED BY <1>6, <1>7, <1>8 DEF AsyncInv

-----------------------------------------------------------------------------
(* Subscriptions.                                                          *)
\* Steps of a subscription, its worker or Close that move no event.
LEMMA OrderKeeps ==
  ASSUME Order, UNCHANGED <<ch, pubVars, handled>>
  PROVE  Order'
BY DEF Order, HandledBehind, QueueBehind, QueueOrdered, Pending, pubVars

LEMMA LateOnceKeeps ==
  ASSUME LateOnce, ch' = ch, todo' = todo,
         \A t \in Subs : subPc'[t] = "exited" => subPc[t] = "exited" \/ ch[t] = <<>>
  PROVE  LateOnce'
<1>1. DOMAIN <<>> = {} OBVIOUS
<1> QED BY <1>1 DEF LateOnce

LEMMA SubscribeStep ==
  ASSUME AsyncInv, NEW s \in Subs,
         SubscribeChecks(s) \/ SubscribePlaces(s) \/ SubscribeSpawns(s) \/ Unsubscribe(s)
  PROVE  AsyncInv'
<1> USE DEF SubscribeChecks, SubscribePlaces, SubscribeSpawns, Unsubscribe, SubGoto, workVars,
            pubVars, config
<1>1. TypeOK' BY DEF AsyncInv, TypeOK
<1>2. Order' BY OrderKeeps DEF AsyncInv
<1>3. StopIsFinal' BY DEF AsyncInv, TypeOK, StopIsFinal
<1>4. LateOnce'
  <2>1. \A t \in Subs : subPc'[t] = "exited" => subPc[t] = "exited" BY DEF AsyncInv, TypeOK
  <2>2. ch' = ch /\ todo' = todo OBVIOUS
  <2> QED BY <2>1, <2>2, LateOnceKeeps DEF AsyncInv
<1>5. EarlyWork' /\ CloseWaitsForEarly'
  BY DEF AsyncInv, TypeOK, EarlyWork, CloseWaitsForEarly, Workers
<1> QED BY <1>1, <1>2, <1>3, <1>4, <1>5 DEF AsyncInv

-----------------------------------------------------------------------------
(* Publish.                                                                *)
LEMMA PublishStep ==
  ASSUME AsyncInv, NEW p \in Publishers,
         PublishChecks(p) \/ PublishCopies(p) \/ PublishReturns(p)
  PROVE  AsyncInv'
<1> USE DEF PublishChecks, PublishCopies, PublishReturns, config, workVars
<1>0. \A q \in Publishers : calls[q] \in 0..MaxPublishes /\ calls[q] \in Nat
  BY BusAssumption DEF AsyncInv, TypeOK
<1>1. TypeOK'
  <2>1. calls' \in [Publishers -> 0..MaxPublishes]
    <3>1. CASE PublishChecks(p)
      <4>1. calls[p] + 1 \in 0..MaxPublishes BY <3>1, <1>0, BusAssumption
      <4> QED BY <3>1, <4>1 DEF AsyncInv, TypeOK
    <3>2. CASE calls' = calls BY <3>2 DEF AsyncInv, TypeOK
    <3> QED BY <3>1, <3>2
  <2>2. pubPc' \in [Publishers -> {"idle", "checked", "sending"}] BY DEF AsyncInv, TypeOK
  <2>3. todo' \in [Publishers -> SUBSET Subs] BY DEF AsyncInv, TypeOK
  <2> QED BY <2>1, <2>2, <2>3 DEF AsyncInv, TypeOK
<1>2. Order'
  <2>0. \A q \in Publishers : /\ calls'[q] \in Nat /\ calls[q] <= calls'[q]
                              /\ \A t \in Subs : Pending(q, t)' => \/ calls[q] < calls'[q]
                                                                  \/ Pending(q, t)
    <3> SUFFICES ASSUME NEW q \in Publishers
                 PROVE  /\ calls'[q] \in Nat /\ calls[q] <= calls'[q]
                        /\ \A t \in Subs : Pending(q, t)' => \/ calls[q] < calls'[q]
                                                            \/ Pending(q, t)
      OBVIOUS
    <3>1. CASE PublishChecks(p) BY <3>1, <1>0 DEF AsyncInv, TypeOK, Pending
    <3>2. CASE PublishCopies(p) BY <3>2, <1>0 DEF AsyncInv, TypeOK, Pending
    <3>3. CASE PublishReturns(p) BY <3>3, <1>0 DEF AsyncInv, TypeOK, Pending
    <3> QED BY <3>1, <3>2, <3>3
  <2>1. HandledBehind'
    <3> SUFFICES ASSUME NEW s \in Subs, NEW q \in Publishers
                 PROVE  /\ handled[s][q] <= calls'[q]
                        /\ Pending(q, s)' => handled[s][q] < calls'[q]
      BY DEF HandledBehind
    <3>1. handled[s][q] \in Nat BY BusAssumption DEF AsyncInv, TypeOK
    <3> QED BY <3>1, <2>0, <1>0 DEF AsyncInv, Order, HandledBehind
  <2>2. QueueBehind'
    <3> SUFFICES ASSUME NEW s \in Subs, NEW i \in DOMAIN ch[s]
                 PROVE  /\ handled[s][ch[s][i].by] < ch[s][i].num
                        /\ ch[s][i].num <= calls'[ch[s][i].by]
                        /\ Pending(ch[s][i].by, s)' => ch[s][i].num < calls'[ch[s][i].by]
      BY DEF QueueBehind
    <3> DEFINE q == ch[s][i].by
               num == ch[s][i].num
    <3>1. q \in Publishers /\ num \in Nat BY InChannel, BusAssumption DEF AsyncInv
    <3>2. handled[s][q] < num /\ num <= calls[q] /\ (Pending(q, s) => num < calls[q])
      BY DEF AsyncInv, Order, QueueBehind
    <3>3. Pending(q, s)' => Pending(q, s) \/ calls[q] < calls'[q] BY <2>0, <3>1
    <3>4. ch' = ch OBVIOUS
    <3> HIDE DEF num
    <3>5. calls[q] \in Nat /\ calls'[q] \in Nat /\ calls[q] <= calls'[q] BY <3>1, <2>0, <1>0
    <3>6. num <= calls'[q] BY <3>1, <3>2, <3>5
    <3>7. Pending(q, s)' => num < calls'[q] BY <3>1, <3>2, <3>3, <3>5
    <3> QED BY <3>2, <3>6, <3>7 DEF num
  <2>3. QueueOrdered' BY DEF AsyncInv, Order, QueueOrdered
  <2> QED BY <2>1, <2>2, <2>3 DEF Order
<1>3. StopIsFinal' BY DEF AsyncInv, StopIsFinal
<1>4. LateOnce'
  <2> SUFFICES ASSUME NEW s \in Subs, subPc[s] = "exited", NEW i \in DOMAIN ch[s]
               PROVE  s \notin todo'[ch[s][i].by]
    BY DEF AsyncInv, LateOnce
  <2>1. ch[s][i].by \in Publishers BY InChannel DEF AsyncInv
  <2>2. s \notin subs /\ s \notin todo[ch[s][i].by] BY DEF AsyncInv, StopIsFinal, LateOnce
  <2> QED BY <2>1, <2>2 DEF AsyncInv, TypeOK
<1>5. EarlyWork' /\ CloseWaitsForEarly'
  BY DEF AsyncInv, EarlyWork, CloseWaitsForEarly, Workers
<1> QED BY <1>1, <1>2, <1>3, <1>4, <1>5 DEF AsyncInv

\* A subscriber is served without an event.
LEMMA PassStep ==
  ASSUME AsyncInv, NEW p \in Publishers, NEW s \in Subs, Drop(p, s) \/ SkipStopped(p, s)
  PROVE  AsyncInv'
<1> USE DEF Drop, SkipStopped, Served, config, workVars
<1>1. TypeOK' BY DEF AsyncInv, TypeOK
<1>2. \A q \in Publishers : todo'[q] \subseteq todo[q] BY DEF AsyncInv, TypeOK
<1>3. Order'
  <2>1. \A q \in Publishers, t \in Subs : Pending(q, t)' => Pending(q, t)
    BY <1>2 DEF Pending
  <2>2. \A t \in Subs : \A i \in DOMAIN ch[t] : ch[t][i].by \in Publishers
    BY InChannel DEF AsyncInv
  <2> QED BY <2>1, <2>2 DEF AsyncInv, Order, HandledBehind, QueueBehind, QueueOrdered
<1>4. StopIsFinal' BY DEF AsyncInv, StopIsFinal
<1>5. LateOnce'
  <2>1. \A t \in Subs : \A i \in DOMAIN ch[t] : ch[t][i].by \in Publishers
    BY InChannel DEF AsyncInv
  <2> QED BY <1>2, <2>1 DEF AsyncInv, LateOnce
<1>6. EarlyWork' /\ CloseWaitsForEarly'
  BY DEF AsyncInv, EarlyWork, CloseWaitsForEarly, Workers
<1> QED BY <1>1, <1>3, <1>4, <1>5, <1>6 DEF AsyncInv

LEMMA SendStep ==
  ASSUME AsyncInv, NEW p \in Publishers, NEW s \in Subs, Send(p, s)
  PROVE  AsyncInv'
<1> DEFINE e == [by |-> p, num |-> calls[p]]
           n == Len(ch[s])
<1> USE DEF Send, Served, config
<1>1. handled[s][p] < calls[p] BY DEF AsyncInv, Order, HandledBehind, Pending
<1>2. e \in Events BY <1>1, BusAssumption DEF AsyncInv, TypeOK, Order, HandledBehind, Events
<1>3. /\ ch[s] \in Seq(Events) /\ n \in Nat
      /\ DOMAIN ch[s] = 1..n
  BY InChannel DEF AsyncInv
<1>4. /\ ch'[s] \in Seq(Events) /\ Len(ch'[s]) = n + 1
      /\ DOMAIN ch'[s] = 1..(n + 1)
      /\ \A i \in 1..n : ch'[s][i] = ch[s][i]
      /\ ch'[s][n + 1] = e
  <2>1. ch'[s] = Append(ch[s], e) BY DEF AsyncInv, TypeOK
  <2> HIDE DEF e, n
  <2> QED BY <2>1, <1>2, <1>3, AppendProperties, LenProperties
<1>5. \A t \in Subs \ {s} : ch'[t] = ch[t] BY DEF AsyncInv, TypeOK
<1>6. todo'[p] = todo[p] \ {s} /\ \A q \in Publishers \ {p} : todo'[q] = todo[q]
  BY DEF AsyncInv, TypeOK
<1>7. TypeOK'
  <2>1. ch' \in [Subs -> Seq(Events)] BY <1>4, <1>5 DEF AsyncInv, TypeOK
  <2>2. \A t \in Subs : Len(ch'[t]) <= bufferSize
    BY <1>3, <1>4, <1>5, BusAssumption DEF AsyncInv, TypeOK
  <2> QED BY <2>1, <2>2 DEF AsyncInv, TypeOK
<1>8. \A i \in 1..n : ch[s][i].by = p => ch[s][i].num < calls[p]
  BY <1>3 DEF AsyncInv, Order, QueueBehind, Pending
<1>9. \A q \in Publishers, t \in Subs : Pending(q, t)' => Pending(q, t)
  BY <1>6 DEF Pending
<1>10. \A t \in Subs : \A i \in DOMAIN ch[t] :
         ch[t][i].by \in Publishers /\ ch[t][i].num \in 1..MaxPublishes
  BY InChannel DEF AsyncInv
<1>11. Order'
  <2>1. HandledBehind' BY <1>9 DEF AsyncInv, Order, HandledBehind
  <2>2. QueueBehind'
    <3> SUFFICES ASSUME NEW t \in Subs, NEW i \in DOMAIN ch'[t]
                 PROVE  /\ handled[t][ch'[t][i].by] < ch'[t][i].num
                        /\ ch'[t][i].num <= calls[ch'[t][i].by]
                        /\ Pending(ch[t][i].by, t)' => ch'[t][i].num < calls[ch'[t][i].by]
      BY DEF QueueBehind
    <3>1. CASE t = s /\ i = n + 1
      <4>1. ~Pending(p, s)' BY <1>6 DEF Pending
      <4> QED BY <1>1, <1>4, <3>1, <4>1 DEF AsyncInv, TypeOK
    <3>2. CASE ~(t = s /\ i = n + 1)
      <4>1. i \in DOMAIN ch[t] /\ ch'[t][i] = ch[t][i] BY <1>3, <1>4, <1>5, <3>2
      <4> QED BY <4>1, <1>9, <1>10 DEF AsyncInv, Order, QueueBehind
    <3> QED BY <3>1, <3>2
  <2>3. QueueOrdered'
    <3> SUFFICES ASSUME NEW t \in Subs, NEW i \in DOMAIN ch'[t], NEW j \in DOMAIN ch'[t],
                        i < j, ch'[t][i].by = ch'[t][j].by
                 PROVE  ch'[t][i].num < ch'[t][j].num
      BY DEF QueueOrdered
    <3>1. CASE t # s BY <1>5, <3>1 DEF AsyncInv, Order, QueueOrdered
    <3>2. CASE t = s /\ j = n + 1 BY <1>3, <1>4, <1>8, <3>2
    <3>3. CASE t = s /\ j # n + 1
      <4>1. i \in 1..n /\ j \in 1..n BY <1>3, <1>4, <3>3
      <4> QED BY <4>1, <1>3, <1>4, <3>3 DEF AsyncInv, Order, QueueOrdered
    <3> QED BY <3>1, <3>2, <3>3
  <2> QED BY <2>1, <2>2, <2>3 DEF Order
<1>12. StopIsFinal' BY DEF AsyncInv, StopIsFinal
<1>13. LateOnce'
  <2> SUFFICES ASSUME NEW t \in Subs, subPc[t] = "exited",
                      NEW i \in DOMAIN ch'[t], NEW j \in DOMAIN ch'[t]
               PROVE  /\ t \notin todo'[ch'[t][i].by]
                      /\ ch'[t][i].by = ch'[t][j].by => i = j
    BY DEF LateOnce
  <2>1. CASE t # s BY <2>1, <1>5, <1>6, <1>10 DEF AsyncInv, LateOnce
  <2>2. CASE t = s
    <3>1. \A k \in 1..n : ch[s][k].by # p BY <1>3, <2>2 DEF AsyncInv, LateOnce
    <3> QED BY <2>2, <3>1, <1>3, <1>4, <1>6, <1>10 DEF AsyncInv, LateOnce
  <2> QED BY <2>1, <2>2
<1>14. EarlyWork' /\ CloseWaitsForEarly'
  BY DEF AsyncInv, EarlyWork, CloseWaitsForEarly, Workers
<1> QED BY <1>7, <1>11, <1>12, <1>13, <1>14 DEF AsyncInv

-----------------------------------------------------------------------------
(* The worker.                                                             *)
LEMMA TakeStep ==
  ASSUME AsyncInv, NEW s \in Subs, WorkerTakes(s)
  PROVE  /\ AsyncInv'
         /\ \A t \in Subs, p \in Publishers : handled'[t][p] >= handled[t][p]
<1> DEFINE e == Head(ch[s])
           n == Len(ch[s])
<1>1. PICK from \in {"waiting", "draining"}, to \in {"handling", "drainHandling"} :
        /\ Take(s, from, to)
        /\ to = "drainHandling" <=> from = "draining"
  BY DEF WorkerTakes
<1> USE DEF Take, HandleHead, SubGoto, config, pubVars
<1>2. ch[s] \in Seq(Events) /\ ch[s] # <<>> /\ n \in Nat /\ DOMAIN ch[s] = 1..n
  BY <1>1, InChannel DEF AsyncInv
<1>3. /\ ch'[s] \in Seq(Events) /\ Len(ch'[s]) = n - 1 /\ n >= 1
      /\ DOMAIN ch'[s] = 1..(n - 1)
      /\ \A i \in 1..(n - 1) : ch'[s][i] = ch[s][i + 1]
  <2>1. ch'[s] = Tail(ch[s]) BY <1>1 DEF AsyncInv, TypeOK
  <2> QED BY <2>1, <1>2, HeadTailProperties
<1>4. e = ch[s][1] /\ 1 \in DOMAIN ch[s] /\ e.by \in Publishers /\ e.num \in 1..MaxPublishes
  <2>1. e = ch[s][1] /\ 1 \in DOMAIN ch[s] BY <1>2, <1>3
  <2> QED BY <2>1, InChannel DEF AsyncInv
<1>5. \A t \in Subs \ {s} : ch'[t] = ch[t] BY <1>1 DEF AsyncInv, TypeOK
<1>6. /\ handled'[s][e.by] = e.num
      /\ \A t \in Subs, p \in Publishers :
           t # s \/ p # e.by => handled'[t][p] = handled[t][p]
      /\ handled' \in [Subs -> [Publishers -> 0..MaxPublishes]]
  BY <1>1, <1>4, BusAssumption DEF AsyncInv, TypeOK
<1>7. handled[s][e.by] < e.num BY <1>4 DEF AsyncInv, Order, QueueBehind
<1>8. TypeOK'
  <2>1. ch' \in [Subs -> Seq(Events)] BY <1>1, <1>3, <1>5 DEF AsyncInv, TypeOK
  <2>2. \A t \in Subs : Len(ch'[t]) <= bufferSize
    <3>1. n <= bufferSize /\ bufferSize \in Nat BY BusAssumption DEF AsyncInv, TypeOK
    <3>2. n - 1 <= bufferSize BY <3>1, <1>2
    <3> QED BY <3>2, <1>3, <1>5 DEF AsyncInv, TypeOK
  <2> QED BY <1>1, <1>6, <2>1, <2>2 DEF AsyncInv, TypeOK
<1>9. \A p \in Publishers, t \in Subs : Pending(p, t)' <=> Pending(p, t)
  BY <1>1 DEF Pending
<1>10. calls' = calls /\ todo' = todo /\ subs' = subs /\ stop' = stop /\ early' = early
  BY <1>1
<1>11. Order'
  <2>1. HandledBehind'
    BY <1>4, <1>6, <1>9, <1>10 DEF AsyncInv, Order, HandledBehind, QueueBehind
  <2>2. QueueBehind'
    <3> SUFFICES ASSUME NEW t \in Subs, NEW i \in DOMAIN ch'[t]
                 PROVE  /\ handled'[t][ch'[t][i].by] < ch'[t][i].num
                        /\ ch'[t][i].num <= calls[ch'[t][i].by]
                        /\ Pending(ch[t][i].by, t)' => ch'[t][i].num < calls[ch'[t][i].by]
      BY <1>10 DEF QueueBehind
    <3>1. CASE t = s
      <4>1. i + 1 \in DOMAIN ch[s] /\ ch'[s][i] = ch[s][i + 1] /\ 1 < i + 1
        BY <1>2, <1>3, <3>1
      <4>2. ch[s][i + 1].by \in Publishers BY <4>1, InChannel DEF AsyncInv
      <4>3. ch[s][i + 1].by = e.by => e.num < ch[s][i + 1].num
        BY <4>1, <1>4 DEF AsyncInv, Order, QueueOrdered
      <4> QED BY <3>1, <4>1, <4>2, <4>3, <1>6, <1>9 DEF AsyncInv, Order, QueueBehind
    <3>2. CASE t # s
      <4>1. ch[t][i].by \in Publishers /\ i \in DOMAIN ch[t]
        BY <3>2, <1>5, InChannel DEF AsyncInv
      <4> QED BY <3>2, <4>1, <1>5, <1>6, <1>9 DEF AsyncInv, Order, QueueBehind
    <3> QED BY <3>1, <3>2
  <2>3. QueueOrdered'
    <3> SUFFICES ASSUME NEW t \in Subs, NEW i \in DOMAIN ch'[t], NEW j \in DOMAIN ch'[t],
                        i < j, ch'[t][i].by = ch'[t][j].by
                 PROVE  ch'[t][i].num < ch'[t][j].num
      BY DEF QueueOrdered
    <3>1. CASE t # s BY <1>5, <3>1 DEF AsyncInv, Order, QueueOrdered
    <3>2. CASE t = s
      <4>1. /\ i + 1 \in DOMAIN ch[s] /\ j + 1 \in DOMAIN ch[s] /\ i + 1 < j + 1
            /\ ch'[s][i] = ch[s][i + 1] /\ ch'[s][j] = ch[s][j + 1]
        <5>1. i \in 1..(n - 1) /\ j \in 1..(n - 1) BY <1>3, <3>2
        <5> HIDE DEF n
        <5>2. i + 1 \in 1..n /\ j + 1 \in 1..n /\ i + 1 < j + 1 BY <5>1, <1>2
        <5> QED BY <5>1, <5>2, <1>2, <1>3
      <4> QED BY <3>2, <4>1 DEF AsyncInv, Order, QueueOrdered
    <3> QED BY <3>1, <3>2
  <2> QED BY <2>1, <2>2, <2>3 DEF Order
<1>12. StopIsFinal' BY <1>1 DEF AsyncInv, TypeOK, StopIsFinal
<1>13. LateOnce' BY <1>1, <1>5 DEF AsyncInv, TypeOK, LateOnce
<1>14. EarlyWork' /\ CloseWaitsForEarly'
  BY <1>1 DEF AsyncInv, TypeOK, EarlyWork, CloseWaitsForEarly, Workers
<1>15. \A t \in Subs, p \in Publishers : handled'[t][p] >= handled[t][p]
  <2> SUFFICES ASSUME NEW t \in Subs, NEW p \in Publishers
               PROVE  handled'[t][p] >= handled[t][p]
    OBVIOUS
  <2>1. handled[t][p] \in Nat BY BusAssumption DEF AsyncInv, TypeOK
  <2>2. CASE t = s /\ p = e.by BY <2>1, <2>2, <1>4, <1>6, <1>7, BusAssumption
  <2>3. CASE ~(t = s /\ p = e.by) BY <2>1, <2>3, <1>6
  <2> QED BY <2>2, <2>3
<1> QED BY <1>8, <1>11, <1>12, <1>13, <1>14, <1>15 DEF AsyncInv

LEMMA WorkerStep ==
  ASSUME AsyncInv, NEW s \in Subs, HandlerReturns(s) \/ SeesStop(s) \/ WorkerExits(s)
  PROVE  AsyncInv'
<1> USE DEF HandlerReturns, SeesStop, WorkerExits, SubGoto, config, pubVars
<1>1. TypeOK' BY DEF AsyncInv, TypeOK
<1>2. Order' BY OrderKeeps DEF AsyncInv
<1>3. StopIsFinal' BY DEF AsyncInv, TypeOK, StopIsFinal
<1>4. LateOnce'
  <2>1. \A t \in Subs : subPc'[t] = "exited" => subPc[t] = "exited" \/ ch[t] = <<>>
    BY DEF AsyncInv, TypeOK
  <2>2. ch' = ch /\ todo' = todo OBVIOUS
  <2> QED BY <2>1, <2>2, LateOnceKeeps DEF AsyncInv
<1>5. EarlyWork' /\ CloseWaitsForEarly'
  BY DEF AsyncInv, TypeOK, EarlyWork, CloseWaitsForEarly, Workers
<1> QED BY <1>1, <1>2, <1>3, <1>4, <1>5 DEF AsyncInv

LEMMA CloseStep ==
  ASSUME AsyncInv, CloseBegins \/ CloseStops \/ CloseReturns
  PROVE  AsyncInv'
<1> USE DEF CloseBegins, CloseStops, CloseReturns, config, workVars, pubVars
<1>1. TypeOK' BY DEF AsyncInv, TypeOK, Workers
<1>2. Order' BY OrderKeeps DEF AsyncInv
<1>3. StopIsFinal' BY DEF AsyncInv, TypeOK, StopIsFinal
<1>4. LateOnce' BY DEF AsyncInv, LateOnce
<1>5. EarlyWork' BY DEF AsyncInv, EarlyWork, Workers
<1>6. CloseWaitsForEarly' BY DEF AsyncInv, EarlyWork, CloseWaitsForEarly, Workers
<1> QED BY <1>1, <1>2, <1>3, <1>4, <1>5, <1>6 DEF AsyncInv

-----------------------------------------------------------------------------
LEMMA Inductive == AsyncInv /\ [Next]_vars => AsyncInv'
<1> SUFFICES ASSUME AsyncInv, [Next]_vars PROVE AsyncInv' OBVIOUS
<1>1. CASE UNCHANGED vars
  <2> USE <1>1 DEF vars, config, workVars, pubVars
  <2>1. TypeOK' BY DEF AsyncInv, TypeOK
  <2>2. Order' BY OrderKeeps DEF AsyncInv
  <2>3. StopIsFinal' /\ LateOnce' BY DEF AsyncInv, StopIsFinal, LateOnce
  <2>4. EarlyWork' /\ CloseWaitsForEarly'
    BY DEF AsyncInv, EarlyWork, CloseWaitsForEarly, Workers
  <2> QED BY <2>1, <2>2, <2>3, <2>4 DEF AsyncInv
<1>2. ASSUME NEW s \in Subs,
             \/ SubscribeChecks(s) \/ SubscribePlaces(s) \/ SubscribeSpawns(s) \/ Unsubscribe(s)
      PROVE  AsyncInv'
  BY <1>2, SubscribeStep
<1>3. ASSUME NEW s \in Subs, Work(s) PROVE AsyncInv'
  BY <1>3, TakeStep, WorkerStep DEF Work
<1>4. ASSUME NEW p \in Publishers, PublishChecks(p) \/ PublishCopies(p) \/ PublishReturns(p)
      PROVE  AsyncInv'
  BY <1>4, PublishStep
<1>5. ASSUME NEW p \in Publishers, Serve(p) PROVE AsyncInv'
  BY <1>5, SendStep, PassStep DEF Serve
<1>6. CASE CloseBegins \/ CloseStops \/ CloseReturns BY <1>6, CloseStep
<1> QED BY <1>1, <1>2, <1>3, <1>4, <1>5, <1>6 DEF Next

\* The inductive invariant holds in every behaviour.
THEOREM AsyncInvariance == Spec => []AsyncInv
BY StartsWell, Inductive, PTL DEF Spec

\* Every variable keeps its type: channels never exceed their buffers, and
\* what is in them was published.
THEOREM TypeCorrect == Spec => []TypeOK
<1>1. AsyncInv => TypeOK BY DEF AsyncInv
<1> QED BY <1>1, AsyncInvariance, PTL

\* A subscriber handles a publisher's events in the order of its calls
\* (runSub, Publish).
THEOREM InOrder == Spec => OrderKept
<1>1. ASSUME AsyncInv, [Next]_vars
      PROVE  [\A s \in Subs, p \in Publishers : handled'[s][p] >= handled[s][p]]_vars
  <2>1. CASE \E s \in Subs : WorkerTakes(s) BY <1>1, <2>1, TakeStep
  <2>2. CASE handled' = handled
    <3>1. \A s \in Subs, p \in Publishers : handled[s][p] \in Nat
      BY <1>1, BusAssumption DEF AsyncInv, TypeOK
    <3> QED BY <2>2, <3>1
  <2>3. UNCHANGED vars \/ handled' = handled \/ \E s \in Subs : WorkerTakes(s)
    BY <1>1 DEF Next, Serve, Work, SubscribeChecks, SubscribePlaces, SubscribeSpawns,
                Unsubscribe, PublishChecks, PublishCopies, PublishReturns, Send, Drop,
                SkipStopped, HandlerReturns, SeesStop, WorkerExits, CloseBegins, CloseStops,
                CloseReturns
  <2> QED BY <2>1, <2>2, <2>3
<1> QED BY <1>1, AsyncInvariance, PTL DEF Spec, OrderKept

\* A worker leaves at most one event of each publisher behind (runSub's
\* draining, against a Publish that copied the map before).
THEOREM LittleIsStranded == Spec => []StrandedBound
<1>1. ASSUME AsyncInv PROVE StrandedBound
  <2> SUFFICES ASSUME NEW s \in Subs, subPc[s] = "exited"
               PROVE  /\ Len(ch[s]) <= Cardinality(Publishers)
                      /\ \A i, j \in DOMAIN ch[s] : ch[s][i].by = ch[s][j].by => i = j
    BY DEF StrandedBound
  <2> DEFINE n == Len(ch[s])
             f == [i \in 1..n |-> ch[s][i].by]
  <2>1. /\ ch[s] \in Seq(Events) /\ n \in Nat /\ DOMAIN ch[s] = 1..n
        /\ \A i \in 1..n : ch[s][i].by \in Publishers
    BY <1>1, InChannel DEF AsyncInv
  <2>2. \A i, j \in DOMAIN ch[s] : ch[s][i].by = ch[s][j].by => i = j
    BY <1>1 DEF AsyncInv, LateOnce
  <2>3. f \in Injection(1..n, Publishers) BY <2>1, <2>2 DEF Injection, IsInjective
  <2>4. Cardinality(1..n) <= Cardinality(Publishers)
    BY <2>3, BusAssumption, FS_Injection
  <2>5. Cardinality(1..n) = n BY <2>1, FS_Interval
  <2> QED BY <2>2, <2>4, <2>5
<1> QED BY <1>1, AsyncInvariance, PTL

\* Close has waited for every subscription that was complete when it began
\* (Close, closedWg).
THEOREM CloseWaits == Spec => []CloseWaitsForEarly
<1>1. AsyncInv => CloseWaitsForEarly BY DEF AsyncInv
<1> QED BY <1>1, AsyncInvariance, PTL

-----------------------------------------------------------------------------
(* Sorting, for the Sync bus.                                              *)
\* A finite set of ids has its elements in ascending order.
Enumerates(s, set) ==
  /\ s \in [1..Cardinality(set) -> set]
  /\ Sync!ToSet(s) = set
  /\ \A i, j \in DOMAIN s : i < j => s[i] < s[j]

\* A nonempty set of numbers has a least one, and a greatest one if it is bounded.
LEMMA HasLeast ==
  ASSUME NEW S \in SUBSET Nat, S # {}
  PROVE  \E l \in S : \A x \in S : l <= x
<1>1. \E x \in S : \A y \in S : <<y, x>> \notin OpToRel(<, Nat)
  BY NatLessThanWellFounded, WFMin
<1>2. PICK x \in S : \A y \in S : <<y, x>> \notin OpToRel(<, Nat)
  BY <1>1
<1>3. \A y \in S : ~(y < x)
  BY <1>2 DEF OpToRel
<1> QED
  BY <1>3

LEMMA HasGreatest ==
  ASSUME NEW m \in Nat, NEW S \in SUBSET (0..m), S # {}
  PROVE  \E g \in S : \A x \in S : x <= g
<1> DEFINE Bounds == {u \in Nat : \A x \in S : x <= u}
<1>1. m \in Bounds OBVIOUS
<1>2. PICK u \in Bounds : \A v \in Bounds : u <= v
  <2>1. Bounds \in SUBSET Nat OBVIOUS
  <2> HIDE DEF Bounds
  <2> QED BY <1>1, <2>1, HasLeast
<1>4. \A x \in S : x <= u OBVIOUS
<1>5. u \in S
  <2> SUFFICES ASSUME u \notin S PROVE FALSE OBVIOUS
  <2>1. PICK x \in S : TRUE OBVIOUS
  <2>2. x \in Nat /\ x <= u /\ x # u BY <1>4
  <2>3. u - 1 \in Bounds BY <1>4, <2>2
  <2> QED BY <1>2, <2>3
<1> QED BY <1>4, <1>5

LEMMA IDsFinite ==
  ASSUME NEW m \in Nat, NEW S \in SUBSET (0..m)
  PROVE  IsFiniteSet(S) /\ Cardinality(S) \in Nat
<1>1. IsFiniteSet(0..m) BY FS_Interval
<1>2. IsFiniteSet(S) BY <1>1, FS_Subset
<1> QED BY <1>2, FS_CardinalityType

\* By a smallest counterexample: without its greatest element the set has an enumeration,
\* which that element ends.
LEMMA EnumerationExists ==
  ASSUME NEW m \in Nat, NEW S \in SUBSET (0..m)
  PROVE  \E s : Enumerates(s, S)
<1> DEFINE Bad == {n \in Nat : \E T \in SUBSET (0..m) :
                      Cardinality(T) = n /\ ~ \E s : Enumerates(s, T)}
<1>0. \A T \in SUBSET (0..m) : IsFiniteSet(T) /\ Cardinality(T) \in Nat
  BY IDsFinite
<1>1. Bad = {}
  <2> SUFFICES ASSUME Bad # {} PROVE FALSE OBVIOUS
  <2>1. PICK n \in Bad : \A k \in Bad : n <= k
    <3>1. Bad \in SUBSET Nat OBVIOUS
    <3> HIDE DEF Bad
    <3> QED BY <3>1, HasLeast
  <2>3. PICK T \in SUBSET (0..m) : Cardinality(T) = n /\ ~ \E s : Enumerates(s, T)
    OBVIOUS
  <2>4. CASE T = {}
    <3>1. Cardinality(T) = 0 BY <2>4, FS_EmptySet
    <3>2. Enumerates(<<>>, T) BY <2>4, <3>1 DEF Enumerates, Sync!ToSet
    <3> QED BY <3>2, <2>3
  <2>5. CASE T # {}
    <3>1. PICK g \in T : \A x \in T : x <= g BY <2>5, HasGreatest
    <3> DEFINE R == T \ {g}
    <3>2. Cardinality(R) = n - 1 /\ R \in SUBSET (0..m) /\ n \in Nat /\ n - 1 \in Nat
      <4>1. IsFiniteSet(T) /\ n \in Nat BY <1>0, <2>3
      <4>2. Cardinality(R) = n - 1
        BY <4>1, <2>3, FS_RemoveElement
      <4>3. R \in SUBSET (0..m) OBVIOUS
      <4> QED BY <4>1, <4>2, <4>3, <1>0
    <3>3. n - 1 \notin Bad BY <2>1, <3>2
    <3>4. PICK s : Enumerates(s, R) BY <3>2, <3>3
    <3> DEFINE t == [i \in 1..n |-> IF i = n THEN g ELSE s[i]]
    <3>5. DOMAIN s = 1..(n - 1) /\ \A i \in 1..(n - 1) : s[i] \in R
      BY <3>4, <3>2 DEF Enumerates
    <3>6. t \in [1..Cardinality(T) -> T] BY <3>5, <3>2, <2>3
    <3>7. Sync!ToSet(t) = T
      <4>1. \A x \in R : \E i \in 1..(n - 1) : s[i] = x
        BY <3>4, <3>5 DEF Enumerates, Sync!ToSet
      <4>2. \A x \in R : \E i \in 1..n : t[i] = x
        <5> SUFFICES ASSUME NEW x \in R PROVE \E i \in 1..n : t[i] = x OBVIOUS
        <5>1. PICK i \in 1..(n - 1) : s[i] = x BY <4>1
        <5>2. i \in 1..n /\ i # n BY <3>2
        <5> QED BY <5>1, <5>2
      <4>3. n \in 1..n /\ t[n] = g BY <3>2
      <4>4. \A x \in T : \E i \in 1..n : t[i] = x BY <4>2, <4>3
      <4>5. \A i \in 1..n : t[i] \in T BY <3>6, <2>3
      <4> QED BY <4>4, <4>5 DEF Sync!ToSet
    <3>8. \A i, j \in DOMAIN t : i < j => t[i] < t[j]
      <4> SUFFICES ASSUME NEW i \in 1..n, NEW j \in 1..n, i < j PROVE t[i] < t[j] OBVIOUS
      <4>1. i \in 1..(n - 1) /\ t[i] = s[i] BY <3>2
      <4>2. CASE j = n
        <5>0. i \in 1..(n - 1) BY <4>1
        <5>1. s[i] \in T /\ s[i] # g BY <5>0, <3>5
        <5>2. s[i] \in Nat /\ g \in Nat
          <6>1. T \subseteq Nat OBVIOUS
          <6> QED BY <6>1, <5>1
        <5>3. s[i] <= g BY <5>1, <3>1
        <5> QED BY <4>1, <4>2, <5>1, <5>2, <5>3
      <4>3. CASE j # n
        <5>1. j \in 1..(n - 1) /\ t[j] = s[j] BY <4>3, <3>2
        <5> QED BY <4>1, <5>1, <3>4, <3>5 DEF Enumerates
      <4> QED BY <4>2, <4>3
    <3> QED BY <3>6, <3>7, <3>8, <2>3 DEF Enumerates
  <2> QED BY <2>4, <2>5
<1> QED BY <1>0, <1>1

\* What the sort makes of the ids of a map.
LEMMA SortedIDs ==
  ASSUME NEW m \in Nat, NEW S \in SUBSET (0..m)
  PROVE  Enumerates(Sync!sortIDs(S), S) /\ Sync!sortIDs(S) \in Seq(Nat)
<1>1. \E s \in [1..Cardinality(S) -> S] :
         /\ Sync!ToSet(s) = S
         /\ \A i, j \in DOMAIN s : i < j => s[i] < s[j]
  BY EnumerationExists DEF Enumerates
<1>2. Enumerates(Sync!sortIDs(S), S)
  <2> DEFINE D == [1..Cardinality(S) -> S]
             P(s) == /\ Sync!ToSet(s) = S
                     /\ \A i, j \in DOMAIN s : i < j => s[i] < s[j]
  <2>1. Sync!sortIDs(S) = CHOOSE s \in D : P(s)
    <3>1. Sync!Cardinality(S) = Cardinality(S) BY DEF Sync!Cardinality, Cardinality
    <3> QED BY <3>1 DEF Sync!sortIDs
  <2>2. \E s \in D : P(s) BY <1>1
  <2> HIDE DEF D, P
  <2>3. Sync!sortIDs(S) \in D /\ P(Sync!sortIDs(S)) BY <2>1, <2>2
  <2> QED BY <2>3 DEF D, P, Enumerates
<1>3. Cardinality(S) \in Nat BY IDsFinite
<1>4. Sync!sortIDs(S) \in [1..Cardinality(S) -> Nat]
  <2>1. S \subseteq Nat OBVIOUS
  <2>2. Sync!sortIDs(S) \in [1..Cardinality(S) -> S] BY <1>2 DEF Enumerates
  <2> QED BY <2>1, <2>2
<1> QED BY <1>2, <1>3, <1>4, SeqDef

-----------------------------------------------------------------------------
(* The Sync bus.                                                           *)
\* The handlers of one Publish: those it has called and those it will call.
Line(p) == called[p] \o toCall[p]

SyncTypeOK ==
  /\ nextID \in Nat /\ handlers \subseteq 0..nextID
  /\ pc \in [SyncPublishers -> {"idle", "sorting", "calling"}]
  /\ ids \in [SyncPublishers -> SUBSET (0..nextID)] /\ before = ids
  /\ kept \in [SyncPublishers -> SUBSET (0..nextID)]
  /\ toCall \in [SyncPublishers -> Seq(Nat)] /\ called \in [SyncPublishers -> Seq(Nat)]

\* A handler that stays is in both copies of the map.
KeptStay == \A p \in SyncPublishers : kept[p] \subseteq ids[p] \cap handlers

LinedUp(p) ==
  /\ \A i \in DOMAIN Line(p) : Line(p)[i] \in before[p]
  /\ \A i, j \in DOMAIN Line(p) : i < j => Line(p)[i] < Line(p)[j]
  /\ pc[p] = "calling" => \A h \in kept[p] : \E i \in DOMAIN Line(p) : Line(p)[i] = h
  /\ pc[p] # "calling" => toCall[p] = <<>>
  /\ pc[p] = "sorting" => called[p] = <<>>

InLine == \A p \in SyncPublishers : LinedUp(p)

SyncInv == SyncTypeOK /\ KeptStay /\ InLine

\* The line of a publisher: what was called comes first.
LEMMA LineIs ==
  ASSUME SyncTypeOK, NEW p \in SyncPublishers
  PROVE  /\ called[p] \in Seq(Nat) /\ toCall[p] \in Seq(Nat)
         /\ Len(called[p]) \in Nat /\ Len(toCall[p]) \in Nat
         /\ Line(p) \in Seq(Nat)
         /\ DOMAIN Line(p) = 1..(Len(called[p]) + Len(toCall[p]))
         /\ \A i \in 1..Len(called[p]) : i \in DOMAIN Line(p) /\ Line(p)[i] = called[p][i]
<1>1. called[p] \in Seq(Nat) /\ toCall[p] \in Seq(Nat) BY DEF SyncTypeOK
<1>2. Len(called[p]) \in Nat /\ Len(toCall[p]) \in Nat BY <1>1, LenProperties
<1>3. /\ Line(p) \in Seq(Nat) /\ Len(Line(p)) = Len(called[p]) + Len(toCall[p])
      /\ \A i \in 1..(Len(called[p]) + Len(toCall[p])) :
           Line(p)[i] = IF i <= Len(called[p]) THEN called[p][i]
                        ELSE toCall[p][i - Len(called[p])]
  BY <1>1, ConcatProperties DEF Line
<1>4. DOMAIN Line(p) = 1..(Len(called[p]) + Len(toCall[p])) BY <1>3, LenProperties
<1>5. \A i \in 1..Len(called[p]) : i \in DOMAIN Line(p) /\ Line(p)[i] = called[p][i]
  <2> SUFFICES ASSUME NEW i \in 1..Len(called[p])
               PROVE  i \in DOMAIN Line(p) /\ Line(p)[i] = called[p][i]
    OBVIOUS
  <2>0. \A m, n \in Nat : \A k \in 1..m : k \in 1..(m + n) /\ k <= m OBVIOUS
  <2>1. i \in 1..(Len(called[p]) + Len(toCall[p])) /\ i <= Len(called[p]) BY <1>2, <2>0
  <2> QED BY <2>1, <1>3, <1>4
<1> QED BY <1>1, <1>2, <1>3, <1>4, <1>5

\* Calling the next handler does not change the line.
LEMMA CallMovesAlong ==
  ASSUME NEW c \in Seq(Nat), NEW t \in Seq(Nat), t # <<>>
  PROVE  /\ Append(c, Head(t)) \in Seq(Nat) /\ Tail(t) \in Seq(Nat)
         /\ Append(c, Head(t)) \o Tail(t) = c \o t
<1>1. /\ Head(t) \in Nat /\ Tail(t) \in Seq(Nat) /\ Len(t) \in Nat /\ Len(t) >= 1
      /\ Head(t) = t[1] /\ Len(Tail(t)) = Len(t) - 1
      /\ \A i \in 1..(Len(t) - 1) : Tail(t)[i] = t[i + 1]
  BY HeadTailProperties, LenProperties, EmptySeq
<1>2. /\ Append(c, Head(t)) \in Seq(Nat) /\ Len(Append(c, Head(t))) = Len(c) + 1
      /\ \A i \in 1..Len(c) : Append(c, Head(t))[i] = c[i]
      /\ Append(c, Head(t))[Len(c) + 1] = Head(t)
      /\ Len(c) \in Nat
  BY <1>1, AppendProperties, LenProperties
<1> DEFINE a == Append(c, Head(t))
           b == Tail(t)
<1>3. /\ a \o b \in Seq(Nat) /\ Len(a \o b) = Len(c) + Len(t)
      /\ \A i \in 1..(Len(c) + Len(t)) :
           (a \o b)[i] = IF i <= Len(c) + 1 THEN a[i] ELSE b[i - (Len(c) + 1)]
  <2> HIDE DEF a, b
  <2>1. a \in Seq(Nat) /\ b \in Seq(Nat) /\ Len(a) = Len(c) + 1 /\ Len(b) = Len(t) - 1
    BY <1>1, <1>2 DEF a, b
  <2>2. Len(a) + Len(b) = Len(c) + Len(t) BY <2>1, <1>1, <1>2
  <2>3. /\ a \o b \in Seq(Nat) /\ Len(a \o b) = Len(a) + Len(b)
        /\ \A i \in 1..(Len(a) + Len(b)) :
             (a \o b)[i] = IF i <= Len(a) THEN a[i] ELSE b[i - Len(a)]
    BY <2>1, ConcatProperties
  <2> QED BY <2>1, <2>2, <2>3
<1>4. /\ c \o t \in Seq(Nat) /\ Len(c \o t) = Len(c) + Len(t)
      /\ \A i \in 1..(Len(c) + Len(t)) :
           (c \o t)[i] = IF i <= Len(c) THEN c[i] ELSE t[i - Len(c)]
  BY ConcatProperties
<1>5. \A i \in 1..(Len(c) + Len(t)) : (a \o b)[i] = (c \o t)[i]
  <2> SUFFICES ASSUME NEW i \in 1..(Len(c) + Len(t)) PROVE (a \o b)[i] = (c \o t)[i] OBVIOUS
  <2>1. (a \o b)[i] = (IF i <= Len(c) + 1 THEN a[i] ELSE b[i - (Len(c) + 1)]) BY <1>3
  <2>2. (c \o t)[i] = (IF i <= Len(c) THEN c[i] ELSE t[i - Len(c)]) BY <1>4
  <2>3. CASE i <= Len(c)
    <3>1. i <= Len(c) + 1 /\ i \in 1..Len(c) BY <2>3, <1>2
    <3> QED BY <3>1, <2>1, <2>2, <2>3, <1>2
  <2>4. CASE i = Len(c) + 1
    <3>1. i <= Len(c) + 1 /\ ~(i <= Len(c)) /\ i - Len(c) = 1 BY <2>4, <1>2
    <3> QED BY <3>1, <2>1, <2>2, <2>4, <1>1, <1>2
  <2>5. CASE i > Len(c) + 1
    <3> DEFINE k == i - (Len(c) + 1)
    <3>1. /\ ~(i <= Len(c) + 1) /\ ~(i <= Len(c)) /\ k \in 1..(Len(t) - 1)
          /\ k + 1 = i - Len(c)
      BY <2>5, <1>1, <1>2
    <3> QED BY <3>1, <2>1, <2>2, <1>1
  <2> QED BY <2>3, <2>4, <2>5, <1>2
<1>6. a \o b = c \o t
  <2> HIDE DEF a, b
  <2> QED BY <1>3, <1>4, <1>5, SeqEqual
<1> QED BY <1>1, <1>2, <1>6

LEMMA SyncStarts == Sync!Init => SyncInv
<1> SUFFICES ASSUME Sync!Init PROVE SyncInv OBVIOUS
<1> USE DEF Sync!Init
<1>1. SyncTypeOK /\ KeptStay BY DEF SyncTypeOK, KeptStay
<1>2. \A p \in SyncPublishers : DOMAIN Line(p) = {}
  <2> SUFFICES ASSUME NEW p \in SyncPublishers PROVE DOMAIN Line(p) = {} OBVIOUS
  <2>1. called[p] = <<>> /\ toCall[p] = <<>> OBVIOUS
  <2> QED BY <2>1, <1>1, LineIs
<1>3. InLine BY <1>2 DEF InLine, LinedUp
<1> QED BY <1>1, <1>3 DEF SyncInv

\* A step of one publisher leaves the others as they are.
OtherwiseAlike(q) ==
  /\ called'[q] = called[q] /\ toCall'[q] = toCall[q] /\ pc'[q] = pc[q]
  /\ kept'[q] = kept[q] /\ before'[q] = before[q]

LEMMA OthersStay ==
  ASSUME InLine, NEW p \in SyncPublishers, LinedUp(p)',
         \A q \in SyncPublishers \ {p} : OtherwiseAlike(q)
  PROVE  InLine'
<1> SUFFICES ASSUME NEW q \in SyncPublishers, q # p PROVE LinedUp(q)'
  BY DEF InLine
<1>1. OtherwiseAlike(q) /\ LinedUp(q) BY DEF InLine
<1>2. Line(q)' = Line(q) BY <1>1 DEF Line, OtherwiseAlike
<1> QED BY <1>1, <1>2 DEF LinedUp, OtherwiseAlike

\* Subscribe adds to the map alone, Unsubscribe takes from it and from what stays, so the
\* second copy of a Publish contains what has stayed since the first.
LEMMA SyncKeeps == SyncInv /\ (Sync!Next \/ UNCHANGED syncVars) => SyncInv'
<1> SUFFICES ASSUME SyncInv, Sync!Next \/ UNCHANGED syncVars PROVE SyncInv' OBVIOUS
<1> USE DEF SyncInv
<1>0. \A n, k \in Nat : n <= k => 0..n \subseteq 0..k OBVIOUS
<1>1. CASE UNCHANGED syncVars
  <2> USE <1>1 DEF syncVars
  <2>1. SyncTypeOK' /\ KeptStay' BY DEF SyncTypeOK, KeptStay
  <2>2. InLine' BY DEF InLine, LinedUp, Line
  <2> QED BY <2>1, <2>2
<1>2. CASE Sync!Subscribe
  <2> USE <1>2 DEF Sync!Subscribe, Sync!publish
  <2>1. nextID' \in Nat /\ 0..nextID \subseteq 0..nextID' /\ nextID \in 0..nextID'
    BY DEF SyncTypeOK
  <2>2. SyncTypeOK'
    <3>1. handlers' \subseteq 0..nextID' BY <2>1 DEF SyncTypeOK
    <3>2. ids' \in [SyncPublishers -> SUBSET (0..nextID')] BY <2>1 DEF SyncTypeOK
    <3>3. kept' \in [SyncPublishers -> SUBSET (0..nextID')] BY <2>1 DEF SyncTypeOK
    <3> QED BY <2>1, <3>1, <3>2, <3>3 DEF SyncTypeOK
  <2>3. KeptStay' BY DEF KeptStay
  <2>4. InLine' BY DEF InLine, LinedUp, Line
  <2> QED BY <2>2, <2>3, <2>4
<1>3. ASSUME NEW id \in 0..MaxID, Sync!Unsubscribe(id) PROVE SyncInv'
  <2> USE <1>3 DEF Sync!Unsubscribe, Sync!publish
  <2>1. SyncTypeOK' /\ KeptStay' BY DEF SyncTypeOK, KeptStay
  <2>2. InLine'
    <3>1. \A p \in SyncPublishers : kept'[p] \subseteq kept[p] OBVIOUS
    <3> QED BY <3>1 DEF InLine, LinedUp, Line
  <2> QED BY <2>1, <2>2
<1>4. ASSUME NEW p \in SyncPublishers, Sync!CopyIDs(p) PROVE SyncInv'
  <2> USE <1>4 DEF Sync!CopyIDs
  <2>1. SyncTypeOK' BY DEF SyncTypeOK
  <2>2. KeptStay' BY DEF SyncTypeOK, KeptStay
  <2>3. LinedUp(p)'
    <3>1. called'[p] = <<>> /\ toCall'[p] = <<>> /\ pc'[p] = "sorting"
      BY DEF SyncTypeOK, InLine, LinedUp
    <3>2. Line(p)' = <<>> \o <<>> BY <3>1 DEF Line
    <3>3. DOMAIN Line(p)' = {} BY <3>2
    <3> QED BY <3>1, <3>3 DEF LinedUp
  <2>4. \A q \in SyncPublishers \ {p} : OtherwiseAlike(q) BY DEF SyncTypeOK, OtherwiseAlike
  <2> QED BY <2>1, <2>2, <2>3, <2>4, OthersStay
<1>5. ASSUME NEW p \in SyncPublishers, Sync!CopyHandlers(p) PROVE SyncInv'
  <2> USE <1>5 DEF Sync!CopyHandlers
  <2> DEFINE S == Sync!StillThere(p)
             s == Sync!sortIDs(S)
  <2>1. S \in SUBSET (0..nextID) /\ S = ids[p] \cap handlers /\ nextID \in Nat
    BY DEF SyncTypeOK, Sync!StillThere
  <2>2. s \in Seq(Nat) /\ Enumerates(s, S) BY <2>1, SortedIDs
  <2>3. toCall'[p] = s /\ pc'[p] = "calling" /\ called'[p] = <<>>
    BY DEF SyncTypeOK, InLine, LinedUp
  <2>4. SyncTypeOK' BY <2>2 DEF SyncTypeOK
  <2>5. KeptStay' BY DEF KeptStay
  <2>6. LinedUp(p)'
    <3>1. Line(p)' = s
      <4>1. Line(p)' = <<>> \o s BY <2>3 DEF Line
      <4> HIDE DEF s
      <4> QED BY <4>1, <2>2, ConcatEmptySeq
    <3>2. kept'[p] \subseteq S BY <2>1 DEF KeptStay
    <3>3. S \subseteq before'[p] BY <2>1 DEF SyncTypeOK
    <3>4. /\ \A i \in DOMAIN s : s[i] \in S
          /\ \A h \in S : \E i \in DOMAIN s : s[i] = h
          /\ \A i, j \in DOMAIN s : i < j => s[i] < s[j]
      BY <2>2 DEF Enumerates, Sync!ToSet
    <3> HIDE DEF s, S
    <3> QED BY <2>3, <3>1, <3>2, <3>3, <3>4 DEF LinedUp
  <2>7. \A q \in SyncPublishers \ {p} : OtherwiseAlike(q) BY DEF SyncTypeOK, OtherwiseAlike
  <2> QED BY <2>4, <2>5, <2>6, <2>7, OthersStay
<1>6. ASSUME NEW p \in SyncPublishers, Sync!Call(p) PROVE SyncInv'
  <2> USE <1>6 DEF Sync!Call
  <2>1. /\ called[p] \in Seq(Nat) /\ toCall[p] \in Seq(Nat) /\ toCall[p] # <<>>
        /\ called'[p] = Append(called[p], Head(toCall[p])) /\ toCall'[p] = Tail(toCall[p])
    BY DEF SyncTypeOK
  <2>2. called'[p] \in Seq(Nat) /\ toCall'[p] \in Seq(Nat) /\ Line(p)' = Line(p)
    BY <2>1, CallMovesAlong DEF Line
  <2>3. SyncTypeOK' BY <2>1, <2>2 DEF SyncTypeOK
  <2>4. KeptStay' BY DEF KeptStay
  <2>5. LinedUp(p)' BY <2>2 DEF InLine, LinedUp
  <2>6. \A q \in SyncPublishers \ {p} : OtherwiseAlike(q) BY DEF SyncTypeOK, OtherwiseAlike
  <2> QED BY <2>3, <2>4, <2>5, <2>6, OthersStay
<1>7. ASSUME NEW p \in SyncPublishers, Sync!Return(p) \/ Sync!Panic(p) PROVE SyncInv'
  <2> USE <1>7 DEF Sync!Return, Sync!Panic
  <2>1. called'[p] = called[p] /\ toCall'[p] = <<>> /\ pc'[p] = "idle" BY DEF SyncTypeOK
  <2>2. SyncTypeOK'
    <3>1. <<>> \in Seq(Nat) OBVIOUS
    <3>2. toCall' \in [SyncPublishers -> Seq(Nat)]
      <4>1. CASE Sync!Return(p) BY <4>1 DEF SyncTypeOK
      <4>2. CASE Sync!Panic(p) BY <4>2, <3>1 DEF SyncTypeOK
      <4> QED BY <4>1, <4>2
    <3> QED BY <3>2 DEF SyncTypeOK
  <2>3. KeptStay' BY DEF KeptStay
  <2>4. LinedUp(p)'
    <3>1. Line(p)' = called[p]
      <4>1. Line(p)' = called[p] \o <<>> /\ called[p] \in Seq(Nat)
        BY <2>1 DEF Line, SyncTypeOK
      <4> QED BY <4>1, ConcatEmptySeq
    <3>2. /\ DOMAIN called[p] = 1..Len(called[p])
          /\ \A i \in DOMAIN called[p] : i \in DOMAIN Line(p) /\ Line(p)[i] = called[p][i]
      <4>1. called[p] \in Seq(Nat) BY DEF SyncTypeOK
      <4>2. DOMAIN called[p] = 1..Len(called[p]) BY <4>1, LenProperties
      <4> QED BY <4>2, LineIs
    <3> QED BY <2>1, <3>1, <3>2 DEF InLine, LinedUp
  <2>5. \A q \in SyncPublishers \ {p} : OtherwiseAlike(q) BY DEF SyncTypeOK, OtherwiseAlike
  <2> QED BY <2>2, <2>3, <2>4, <2>5, OthersStay
<1> QED BY <1>1, <1>2, <1>3, <1>4, <1>5, <1>6, <1>7 DEF Sync!Next

\* What the run checks of the Sync bus.
LEMMA SyncDelivers == SyncInv => Sync!Delivers
<1> SUFFICES ASSUME SyncInv, NEW p \in SyncPublishers
             PROVE  /\ Sync!ToSet(called[p]) \subseteq before[p]
                    /\ \A i, j \in 1..Len(called[p]) : i < j => called[p][i] < called[p][j]
                    /\ pc[p] = "calling" => kept[p] \subseteq Sync!ToSet(called[p] \o toCall[p])
  BY DEF Sync!Delivers
<1>1. /\ \A i \in 1..Len(called[p]) : i \in DOMAIN Line(p) /\ Line(p)[i] = called[p][i]
      /\ DOMAIN called[p] = 1..Len(called[p])
  BY LineIs, LenProperties DEF SyncInv
<1>2. LinedUp(p) BY DEF SyncInv, InLine
<1>3. Sync!ToSet(called[p]) \subseteq before[p] BY <1>1, <1>2 DEF Sync!ToSet, LinedUp
<1>4. \A i, j \in 1..Len(called[p]) : i < j => called[p][i] < called[p][j]
  BY <1>1, <1>2 DEF LinedUp
<1>5. pc[p] = "calling" => kept[p] \subseteq Sync!ToSet(called[p] \o toCall[p])
  BY <1>2 DEF LinedUp, Line, Sync!ToSet
<1> QED BY <1>3, <1>4, <1>5

-----------------------------------------------------------------------------
(* The inspector.                                                          *)
Published == busCalls["scenario"]
Latest == busHandled["inspector"]["scenario"]
Queue == busCh["inspector"]
Coming == busPubPc["scenario"] = "checked" \/ busTodo["scenario"] # {}
AtWork == busSubPc["inspector"] \in {"handling", "drainHandling"}

InsTypeOK ==
  /\ busSubs \subseteq {"inspector"}
  /\ busSubPc \in [{"inspector"} -> SubPCs]
  /\ busCh \in [{"inspector"} -> Seq([by : {"scenario"}, num : Nat])]
  /\ busPubPc \in [{"scenario"} -> {"idle", "checked", "sending"}]
  /\ busTodo \in [{"scenario"} -> SUBSET {"inspector"}]
  /\ busCalls \in [{"scenario"} -> Nat]
  /\ busHandled \in [{"inspector"} -> [{"scenario"} -> Nat]]
  /\ total \in Nat /\ dropped \in Nat /\ recent \in Seq(Nat) /\ last \in Seq(Nat)

\* The numbers go upwards from the last event handled over those in the queue to
\* the one that may still come.
Numbered ==
  /\ Latest <= Published /\ (Coming => Latest < Published)
  /\ \A i \in DOMAIN Queue : /\ Latest < Queue[i].num /\ Queue[i].num <= Published
                             /\ Coming => Queue[i].num < Published
  /\ \A i, j \in DOMAIN Queue : i < j => Queue[i].num < Queue[j].num
  /\ busPubPc["scenario"] # "sending" => busTodo["scenario"] = {}

\* recent is the end of last, r and l for short.
EndOf(r, l) == /\ Len(r) = IF Len(l) < RingCap THEN Len(l) ELSE RingCap
               /\ \A i \in DOMAIN r : r[i] = l[i + (Len(l) - Len(r))]

Shown ==
  /\ Len(last) = total /\ EndOf(recent, last)
  /\ \A i, j \in DOMAIN last : i < j => last[i] < last[j]
  /\ \A i \in DOMAIN last : last[i] <= Latest /\ (AtWork => last[i] < Latest)

Count == total + dropped + Len(Queue) + (IF Coming THEN 1 ELSE 0) + (IF AtWork THEN 1 ELSE 0)

Accounted ==
  /\ ui = "picker" => /\ scenario = "none" /\ busPubPc["scenario"] = "idle"
                      /\ busSubPc["inspector"] = "none"
                      /\ Count = 0 /\ Published = 0
  /\ ui = "live" => busSubs = {"inspector"} /\ Published = Count

InsInv == InsTypeOK /\ Numbered /\ Shown /\ Accounted

\* What the inspector's queue holds.
LEMMA InQueue ==
  ASSUME InsTypeOK
  PROVE  /\ Queue \in Seq([by : {"scenario"}, num : Nat]) /\ Len(Queue) \in Nat
         /\ DOMAIN Queue = 1..Len(Queue) /\ \A i \in DOMAIN Queue : Queue[i].num \in Nat
         /\ Published \in Nat /\ Latest \in Nat /\ total \in Nat /\ dropped \in Nat
<1>1. Queue \in Seq([by : {"scenario"}, num : Nat]) BY DEF InsTypeOK, Queue
<1>2. Len(Queue) \in Nat /\ DOMAIN Queue = 1..Len(Queue) BY <1>1, LenProperties
<1>3. \A i \in 1..Len(Queue) : Queue[i] \in [by : {"scenario"}, num : Nat]
  BY <1>1, ElementOfSeq
<1>4. Published \in Nat /\ Latest \in Nat /\ total \in Nat /\ dropped \in Nat
  BY DEF InsTypeOK, Published, Latest
<1> QED BY <1>1, <1>2, <1>3, <1>4

LEMMA InsStarts == Ins!Init => InsInv
<1> SUFFICES ASSUME Ins!Init PROVE InsInv OBVIOUS
<1> USE DEF Ins!Init, Ins!Bus!Init, Ins!Handler, Ins!Producer
<1>1. Queue = <<>> /\ Published = 0 /\ Latest = 0 /\ ~Coming /\ ~AtWork
  BY DEF Queue, Published, Latest, Coming, AtWork
<1>2. DOMAIN <<>> = {} /\ Len(<<>>) = 0 /\ \A S : <<>> \in Seq(S) OBVIOUS
<1>3. InsTypeOK BY <1>2 DEF InsTypeOK, SubPCs
<1>4. Numbered BY <1>1, <1>2 DEF Numbered
<1>5. Shown BY <1>1, <1>2, RingAssumption DEF Shown, EndOf
<1>6. Accounted BY <1>1, <1>2 DEF Accounted, Count
<1> QED BY <1>3, <1>4, <1>5, <1>6 DEF InsInv

\* Steps that move no event.
LEMMA QuietStep ==
  ASSUME InsInv, InsTypeOK',
         UNCHANGED <<busCh, busCalls, busHandled, busPubPc, busTodo, total, recent, last, dropped>>,
         AtWork' = AtWork,
         ui' = "picker" => /\ ui = "picker" /\ scenario' = scenario
                           /\ busSubPc'["inspector"] = "none",
         ui' = "live" => \/ ui = "live" /\ busSubs' = busSubs
                         \/ ui = "picker" /\ busSubs' = {"inspector"}
  PROVE  InsInv'
<1>1. /\ Queue' = Queue /\ Published' = Published /\ Latest' = Latest /\ Coming' = Coming
      /\ Count' = Count
  BY DEF Queue, Published, Latest, Coming, Count
<1>2. Numbered' BY <1>1 DEF InsInv, Numbered
<1>3. Shown' BY <1>1 DEF InsInv, Shown, EndOf
<1>4. Accounted' BY <1>1 DEF InsInv, Accounted
<1> QED BY <1>2, <1>3, <1>4 DEF InsInv

LEMMA OnPickerStep == InsInv /\ Ins!OnPicker => InsInv'
<1> SUFFICES ASSUME InsInv, Ins!OnPicker PROVE InsInv' OBVIOUS
<1> USE DEF Ins!OnPicker, Ins!Handler, Ins!busRest, Ins!inspector
<1>1. InsTypeOK' BY DEF InsInv, InsTypeOK, SubPCs
<1>2. busSubPc["inspector"] = "none" /\ busSubPc'["inspector"] = "waiting"
  BY DEF InsInv, InsTypeOK, Accounted
<1>3. AtWork' = AtWork BY <1>2 DEF AtWork
<1> QED BY <1>1, <1>3, QuietStep

LEMMA BeginStep == InsInv /\ Ins!PublishBegins => InsInv'
<1> SUFFICES ASSUME InsInv, Ins!PublishBegins PROVE InsInv' OBVIOUS
<1> USE DEF Ins!PublishBegins, Ins!Bus!PublishChecks, Ins!Producer, Ins!session, Ins!inspector,
            Ins!Bus!config, Ins!Bus!workVars
<1>1. /\ busPubPc["scenario"] = "idle" /\ busTodo["scenario"] = {} /\ ~Coming
      /\ Published \in Nat
  BY InQueue DEF InsInv, Numbered, Coming
<1>2. /\ busPubPc' = [busPubPc EXCEPT !["scenario"] = "checked"]
      /\ busCalls' = [busCalls EXCEPT !["scenario"] = @ + 1]
      /\ UNCHANGED <<busSubs, busSubPc, busCh, busTodo, busHandled, ui, scenario, total, recent,
                     last, dropped>>
  OBVIOUS
<1>3. InsTypeOK' BY <1>2 DEF InsInv, InsTypeOK
<1>4. Published' = Published + 1 /\ Coming' /\ busPubPc'["scenario"] = "checked"
  BY <1>2 DEF InsInv, InsTypeOK, Published, Coming
<1>5. Queue' = Queue /\ Latest' = Latest /\ AtWork' = AtWork
  BY <1>2 DEF Queue, Latest, AtWork
<1>6. Numbered'
  <2>1. busTodo'["scenario"] = {} BY <1>1, <1>2
  <2> QED BY <1>1, <1>4, <1>5, <2>1, InQueue DEF InsInv, Numbered
<1>7. Shown' BY <1>2, <1>5 DEF InsInv, Shown, EndOf
<1>8. Accounted'
  <2>1. Count' = Count + 1 BY <1>1, <1>2, <1>4, <1>5, InQueue DEF InsInv, Count
  <2>2. ui' # "picker" BY <1>2 DEF InsInv, Accounted
  <2> QED BY <2>1, <2>2, <1>2, <1>4 DEF InsInv, Accounted
<1> QED BY <1>3, <1>6, <1>7, <1>8 DEF InsInv

LEMMA GoesOnStep == InsInv /\ Ins!PublishGoesOn => InsInv'
<1> SUFFICES ASSUME InsInv, Ins!PublishGoesOn PROVE InsInv' OBVIOUS
<1> USE DEF Ins!PublishGoesOn, Ins!Producer, Ins!Handler, Ins!session, Ins!inspector,
            Ins!Bus!config, Ins!Bus!workVars
<1>1. UNCHANGED <<busSubs, busSubPc, busCalls, busHandled, ui, scenario, total, recent, last,
                  dropped>>
  BY DEF Ins!Bus!PublishCopies, Ins!Bus!Send, Ins!Bus!PublishReturns
<1>2. Published' = Published /\ Latest' = Latest /\ AtWork' = AtWork
  BY <1>1 DEF Published, Latest, AtWork
<1>3. Shown' BY <1>1, <1>2 DEF InsInv, Shown, EndOf
<1>4. busPubPc["scenario"] # "idle" /\ ui' # "picker"
  BY <1>1 DEF InsInv, Accounted, Ins!Bus!PublishCopies, Ins!Bus!Send, Ins!Bus!PublishReturns
<1>5. CASE Ins!Bus!PublishCopies("scenario")
  <2> USE <1>5 DEF Ins!Bus!PublishCopies
  <2>1. /\ Coming /\ busTodo'["scenario"] = busSubs /\ busPubPc'["scenario"] = "sending"
        /\ busCh' = busCh
    BY DEF InsInv, InsTypeOK, Coming
  <2>2. InsTypeOK' BY <1>1, <2>1 DEF InsInv, InsTypeOK
  <2>3. Queue' = Queue /\ (Coming' <=> busSubs # {}) BY <2>1 DEF Queue, Coming
  <2>4. Numbered' BY <1>2, <2>1, <2>3 DEF InsInv, Numbered
  <2>5. Accounted'
    <3>1. CASE ui = "live"
      <4>1. busSubs = {"inspector"} /\ Published = Count BY <3>1 DEF InsInv, Accounted
      <4>2. Coming' BY <4>1, <2>3
      <4>3. Count' = Count BY <1>1, <1>2, <2>1, <2>3, <4>2 DEF Count
      <4> QED BY <1>1, <1>2, <1>4, <4>1, <4>3 DEF Accounted
    <3>2. CASE ui # "live" BY <1>1, <1>4, <3>2 DEF Accounted
    <3> QED BY <3>1, <3>2
  <2> QED BY <2>2, <1>3, <2>4, <2>5 DEF InsInv
<1>6. CASE Ins!Bus!Send("scenario", "inspector")
  <2> USE <1>6 DEF Ins!Bus!Send, Ins!Bus!Served
  <2> DEFINE e == [by |-> "scenario", num |-> Published]
             n == Len(Queue)
  <2>1. /\ busPubPc["scenario"] = "sending" /\ "inspector" \in busTodo["scenario"]
        /\ busPubPc' = busPubPc /\ busTodo'["scenario"] = {}
    BY DEF InsInv, InsTypeOK
  <2>2. Coming /\ ~Coming' BY <2>1 DEF Coming
  <2>3. /\ Published \in Nat /\ Queue \in Seq([by : {"scenario"}, num : Nat]) /\ n \in Nat
        /\ DOMAIN Queue = 1..n /\ total \in Nat /\ dropped \in Nat /\ Latest \in Nat
        /\ \A i \in DOMAIN Queue : Queue[i].num \in Nat
    BY InQueue DEF InsInv
  <2>4. Queue' = Append(Queue, e) BY DEF InsInv, InsTypeOK, Queue, Published
  <2>5. /\ Queue' \in Seq([by : {"scenario"}, num : Nat]) /\ Len(Queue') = n + 1
        /\ DOMAIN Queue' = 1..(n + 1)
        /\ \A i \in 1..n : Queue'[i] = Queue[i]
        /\ Queue'[n + 1] = e
    <3>1. e \in [by : {"scenario"}, num : Nat] BY <2>3
    <3> HIDE DEF e, n
    <3> QED BY <2>3, <2>4, <3>1, AppendProperties, LenProperties DEF n
  <2>6. InsTypeOK'
    <3>1. busCh' \in [{"inspector"} -> Seq([by : {"scenario"}, num : Nat])]
      BY <2>5 DEF InsInv, InsTypeOK, Queue
    <3>2. busTodo' \in [{"scenario"} -> SUBSET {"inspector"}] BY DEF InsInv, InsTypeOK
    <3> QED BY <1>1, <2>1, <3>1, <3>2 DEF InsInv, InsTypeOK
  <2>7. Numbered'
    <3>1. Latest' <= Published' BY <1>2 DEF InsInv, Numbered
    <3>2. \A i \in DOMAIN Queue' : Latest' < Queue'[i].num /\ Queue'[i].num <= Published'
      <4> SUFFICES ASSUME NEW i \in 1..(n + 1)
                   PROVE  Latest < Queue'[i].num /\ Queue'[i].num <= Published
        BY <1>2, <2>5
      <4>1. CASE i = n + 1 BY <4>1, <2>5, <2>2, <2>3 DEF InsInv, Numbered
      <4>2. CASE i # n + 1
        <5>1. i \in DOMAIN Queue /\ Queue'[i] = Queue[i] BY <4>2, <2>3, <2>5
        <5> QED BY <5>1 DEF InsInv, Numbered
      <4> QED BY <4>1, <4>2
    <3>3. \A i, j \in DOMAIN Queue' : i < j => Queue'[i].num < Queue'[j].num
      <4> SUFFICES ASSUME NEW i \in 1..(n + 1), NEW j \in 1..(n + 1), i < j
                   PROVE  Queue'[i].num < Queue'[j].num
        BY <2>5
      <4>1. i \in DOMAIN Queue /\ Queue'[i] = Queue[i] BY <2>3, <2>5
      <4>2. CASE j = n + 1 BY <4>1, <4>2, <2>5, <2>2 DEF InsInv, Numbered
      <4>3. CASE j # n + 1
        <5>0. j \in 1..n BY <4>3, <2>3
        <5>1. j \in DOMAIN Queue /\ Queue'[j] = Queue[j] BY <5>0, <2>3, <2>5
        <5> QED BY <4>1, <5>1 DEF InsInv, Numbered
      <4> QED BY <4>2, <4>3
    <3> QED BY <2>1, <2>2, <3>1, <3>2, <3>3 DEF Numbered
  <2>8. Accounted'
    <3>1. Count' = Count BY <1>1, <1>2, <2>2, <2>3, <2>5 DEF Count
    <3> QED BY <1>1, <1>2, <1>4, <3>1 DEF InsInv, Accounted
  <2> QED BY <2>6, <1>3, <2>7, <2>8 DEF InsInv
<1>7. CASE Ins!Bus!PublishReturns("scenario")
  <2> USE <1>7 DEF Ins!Bus!PublishReturns
  <2>1. /\ busPubPc["scenario"] = "sending" /\ busTodo["scenario"] = {} /\ busTodo' = busTodo
        /\ busPubPc'["scenario"] = "idle" /\ busCh' = busCh
    BY DEF InsInv, InsTypeOK
  <2>2. InsTypeOK' BY <1>1, <2>1 DEF InsInv, InsTypeOK
  <2>3. Queue' = Queue /\ ~Coming /\ ~Coming' BY <2>1 DEF Queue, Coming
  <2>4. Numbered' BY <1>2, <2>1, <2>3 DEF InsInv, Numbered
  <2>5. Count' = Count BY <1>1, <1>2, <2>3 DEF Count
  <2>6. Accounted' BY <1>1, <1>2, <1>4, <2>5 DEF InsInv, Accounted
  <2> QED BY <2>2, <1>3, <2>4, <2>6 DEF InsInv
<1> QED BY <1>5, <1>6, <1>7

LEMMA DropsStep == InsInv /\ Ins!PublishDrops => InsInv'
<1> SUFFICES ASSUME InsInv, Ins!PublishDrops PROVE InsInv' OBVIOUS
<1> USE DEF Ins!PublishDrops, Ins!Bus!Drop, Ins!Bus!Served, Ins!Producer, Ins!Handler,
            Ins!session, Ins!inspector, Ins!Bus!config, Ins!Bus!workVars
<1>1. /\ UNCHANGED <<busSubs, busSubPc, busCh, busCalls, busHandled, busPubPc, ui, scenario,
                     total, recent, last>>
      /\ dropped' = dropped + 1
  OBVIOUS
<1>2. /\ busPubPc["scenario"] = "sending" /\ "inspector" \in busTodo["scenario"]
      /\ busTodo'["scenario"] = {} /\ busTodo' \in [{"scenario"} -> SUBSET {"inspector"}]
  BY DEF InsInv, InsTypeOK
<1>3. /\ Published' = Published /\ Latest' = Latest /\ AtWork' = AtWork /\ Queue' = Queue
      /\ Coming /\ ~Coming'
  BY <1>1, <1>2 DEF Published, Latest, AtWork, Queue, Coming
<1>4. InsTypeOK' BY <1>1, <1>2 DEF InsInv, InsTypeOK
<1>5. Numbered' BY <1>2, <1>3 DEF InsInv, Numbered
<1>6. Shown' BY <1>1, <1>3 DEF InsInv, Shown, EndOf
<1>7. Count' = Count BY <1>1, <1>3, InQueue DEF InsInv, Count
<1>8. Accounted' BY <1>1, <1>2, <1>3, <1>7 DEF InsInv, Accounted
<1> QED BY <1>4, <1>5, <1>6, <1>8 DEF InsInv

\* The worker takes the first event of the queue.
LEMMA TakesStep == InsInv /\ Ins!Bus!WorkerTakes("inspector")
                   /\ UNCHANGED <<ui, cancelled, scenario, done, total, recent, last, dropped>>
                   => InsInv'
<1> SUFFICES ASSUME InsInv, Ins!Bus!WorkerTakes("inspector"),
                    UNCHANGED <<ui, cancelled, scenario, done, total, recent, last, dropped>>
             PROVE  InsInv'
  OBVIOUS
<1> DEFINE n == Len(Queue)
<1>1. PICK from \in {"waiting", "draining"}, to \in {"handling", "drainHandling"} :
        Ins!Bus!Take("inspector", from, to)
  BY DEF Ins!Bus!WorkerTakes
<1> USE <1>1 DEF Ins!Bus!Take, Ins!Bus!HandleHead, Ins!Bus!SubGoto, Ins!Bus!config,
                 Ins!Bus!pubVars
<1>2. /\ Queue \in Seq([by : {"scenario"}, num : Nat]) /\ Queue # <<>> /\ n \in Nat
      /\ DOMAIN Queue = 1..n /\ Published \in Nat /\ Latest \in Nat
      /\ \A i \in DOMAIN Queue : Queue[i].num \in Nat /\ Queue[i].by = "scenario"
  <2>1. Queue # <<>> BY DEF Queue
  <2>2. \A i \in 1..Len(Queue) : Queue[i] \in [by : {"scenario"}, num : Nat]
    BY InQueue, ElementOfSeq DEF InsInv
  <2> QED BY <2>1, <2>2, InQueue DEF InsInv
<1>3. /\ Queue' \in Seq([by : {"scenario"}, num : Nat]) /\ Len(Queue') = n - 1 /\ n >= 1
      /\ DOMAIN Queue' = 1..(n - 1)
      /\ \A i \in 1..(n - 1) : Queue'[i] = Queue[i + 1]
      /\ Head(Queue) = Queue[1]
  <2>1. Queue' = Tail(Queue) BY DEF InsInv, InsTypeOK, Queue
  <2> QED BY <2>1, <1>2, HeadTailProperties, LenProperties
<1>4. 1 \in DOMAIN Queue /\ Latest' = Queue[1].num
  <2>1. 1 \in DOMAIN Queue BY <1>2, <1>3
  <2>2. Head(Queue).by = "scenario" /\ Head(Queue).num = Queue[1].num BY <1>2, <1>3, <2>1
  <2> QED BY <2>1, <2>2 DEF InsInv, InsTypeOK, Latest, Queue
<1>5. /\ UNCHANGED <<busSubs, busPubPc, busTodo, busCalls>>
      /\ Published' = Published /\ Coming' = Coming
  BY DEF Published, Coming
<1>6. ~AtWork /\ AtWork' BY DEF InsInv, InsTypeOK, AtWork
<1>7. InsTypeOK'
  <2>1. busCh' \in [{"inspector"} -> Seq([by : {"scenario"}, num : Nat])]
    BY <1>3 DEF InsInv, InsTypeOK, Queue
  <2>2. busHandled' \in [{"inspector"} -> [{"scenario"} -> Nat]]
    <3>1. Head(Queue).by = "scenario" /\ Head(Queue).num \in Nat BY <1>2, <1>3, <1>4
    <3> QED BY <3>1 DEF InsInv, InsTypeOK, Queue
  <2>3. busSubPc' \in [{"inspector"} -> SubPCs] BY DEF InsInv, InsTypeOK, SubPCs
  <2> QED BY <1>5, <2>1, <2>2, <2>3 DEF InsInv, InsTypeOK
<1>8. Numbered'
  <2>1. Latest' <= Published' /\ (Coming' => Latest' < Published')
    BY <1>4, <1>5 DEF InsInv, Numbered
  <2>2. ASSUME NEW i \in DOMAIN Queue'
        PROVE  /\ i + 1 \in DOMAIN Queue /\ 1 < i + 1 /\ Queue'[i] = Queue[i + 1]
    <3>1. i \in 1..(n - 1) BY <1>3
    <3> HIDE DEF n
    <3>2. i + 1 \in 1..n /\ 1 < i + 1 BY <3>1, <1>2
    <3> QED BY <3>1, <3>2, <1>2, <1>3
  <2>3. \A i \in DOMAIN Queue' : /\ Latest' < Queue'[i].num /\ Queue'[i].num <= Published'
                                 /\ Coming' => Queue'[i].num < Published'
    BY <1>4, <1>5, <2>2 DEF InsInv, Numbered
  <2>4. \A i, j \in DOMAIN Queue' : i < j => Queue'[i].num < Queue'[j].num
    <3> SUFFICES ASSUME NEW i \in DOMAIN Queue', NEW j \in DOMAIN Queue', i < j
                 PROVE  Queue'[i].num < Queue'[j].num
      OBVIOUS
    <3>1. /\ i + 1 \in DOMAIN Queue /\ Queue'[i] = Queue[i + 1]
          /\ j + 1 \in DOMAIN Queue /\ Queue'[j] = Queue[j + 1]
      BY <2>2
    <3>2. i + 1 < j + 1
      <4>1. i \in 1..(n - 1) /\ j \in 1..(n - 1) BY <1>3
      <4>2. i \in Nat /\ j \in Nat BY <4>1
      <4> QED BY <4>2
    <3> QED BY <3>1, <3>2 DEF InsInv, Numbered
  <2> QED BY <1>5, <2>1, <2>3, <2>4 DEF InsInv, Numbered
<1>9. Shown'
  <2>1. \A i \in DOMAIN last : last[i] \in Nat
    <3>1. last \in Seq(Nat) BY DEF InsInv, InsTypeOK
    <3>2. DOMAIN last = 1..Len(last) BY <3>1, LenProperties
    <3> QED BY <3>1, <3>2, ElementOfSeq
  <2>2. Latest < Latest' /\ Latest' \in Nat BY <1>2, <1>4 DEF InsInv, Numbered
  <2>3. \A i \in DOMAIN last : last[i] < Latest'
    <3> SUFFICES ASSUME NEW i \in DOMAIN last PROVE last[i] < Latest' OBVIOUS
    <3>1. last[i] <= Latest /\ last[i] \in Nat BY <2>1 DEF InsInv, Shown
    <3> QED BY <3>1, <2>2, <1>2
  <2>4. \A i \in DOMAIN last : last[i] <= Latest' BY <2>1, <2>2, <2>3
  <2> QED BY <2>3, <2>4 DEF InsInv, Shown, EndOf
<1>10. Accounted'
  <2>1. Count' = Count BY <1>2, <1>3, <1>5, <1>6, InQueue DEF InsInv, Count
  <2>2. ui # "picker" BY DEF InsInv, Accounted
  <2> QED BY <2>1, <2>2, <1>5 DEF InsInv, Accounted
<1> QED BY <1>7, <1>8, <1>9, <1>10 DEF InsInv

\* The ring goes on being the end of what was handled.
LEMMA RingTurns ==
  ASSUME NEW r \in Seq(Nat), NEW l \in Seq(Nat), NEW e \in Nat, EndOf(r, l)
  PROVE  LET more == Append(r, e)
             kept1 == IF Len(more) > RingCap THEN Ins!Trimmed(more) ELSE more
         IN  kept1 \in Seq(Nat) /\ EndOf(kept1, Append(l, e))
<1> DEFINE more == Append(r, e)
           now1 == Append(l, e)
           n == Len(l)
           k == Len(r)
<1>1. /\ more \in Seq(Nat) /\ Len(more) = k + 1 /\ k \in Nat /\ DOMAIN r = 1..k
      /\ more[k + 1] = e /\ \A i \in 1..k : more[i] = r[i]
  BY AppendProperties, LenProperties
<1>2. /\ now1 \in Seq(Nat) /\ Len(now1) = n + 1 /\ n \in Nat
      /\ now1[n + 1] = e /\ \A i \in 1..n : now1[i] = l[i]
  BY AppendProperties, LenProperties
<1>3. /\ k = IF n < RingCap THEN n ELSE RingCap
      /\ \A i \in 1..k : r[i] = l[i + (n - k)]
  BY <1>1 DEF EndOf
<1>4. \A i \in 1..(k + 1) : more[i] = now1[i + (n - k)]
  <2> SUFFICES ASSUME NEW i \in 1..(k + 1) PROVE more[i] = now1[i + (n - k)] OBVIOUS
  <2> HIDE DEF more, now1, n, k
  <2>0. k <= n BY <1>1, <1>2, <1>3, RingAssumption
  <2>1. CASE i = k + 1
    <3>1. i + (n - k) = n + 1 BY <2>1, <1>1, <1>2
    <3> QED BY <2>1, <3>1, <1>1, <1>2
  <2>2. CASE i # k + 1
    <3>1. i \in 1..k /\ i + (n - k) \in 1..n BY <2>0, <2>2, <1>1, <1>2
    <3> QED BY <3>1, <1>1, <1>2, <1>3
  <2> QED BY <2>1, <2>2
<1>5. CASE Len(more) > RingCap
  <2> DEFINE t == Ins!Trimmed(more)
  <2>1. k = RingCap /\ ~(n < RingCap)
    <3> HIDE DEF more, now1, n, k
    <3> QED BY <1>1, <1>2, <1>3, <1>5, RingAssumption
  <2>2. t = SubSeq(more, 2, k + 1)
    <3>1. Len(more) - RingCap + 1 = 2 /\ Len(more) = k + 1
      <4> HIDE DEF more, now1, n, k
      <4> QED BY <1>1, <2>1, RingAssumption
    <3> QED BY <3>1 DEF Ins!Trimmed
  <2>3. \A i \in 2..(k + 1) : more[i] \in Nat
    <3>1. \A i \in 2..(k + 1) : i \in 1..Len(more) BY <1>1
    <3> QED BY <3>1, <1>1, ElementOfSeq
  <2>4. /\ t \in Seq(Nat) /\ Len(t) = k /\ DOMAIN t = 1..k
        /\ \A i \in 1..k : t[i] = more[i + 1]
    <3> HIDE DEF more, now1, n, k, t
    <3>1. 2 \in Int /\ k + 1 \in Int /\ (k + 1) - 2 + 1 = k BY <1>1
    <3>2. /\ t \in Seq(Nat) /\ Len(t) = IF 2 <= k + 1 THEN (k + 1) - 2 + 1 ELSE 0
          /\ \A i \in 1..((k + 1) - 2 + 1) : t[i] = more[2 + i - 1]
      BY <3>1, <2>2, <2>3, SubSeqProperties
    <3>3. Len(t) = k BY <3>1, <3>2, <1>1
    <3>4. \A i \in 1..k : 2 + i - 1 = i + 1 BY <1>1
    <3> QED BY <3>1, <3>2, <3>3, <3>4, LenProperties
  <2>5. Len(t) = IF Len(now1) < RingCap THEN Len(now1) ELSE RingCap
    <3> HIDE DEF more, now1, n, k, t
    <3> QED BY <2>1, <2>4, <1>2, RingAssumption
  <2>6. \A i \in DOMAIN t : t[i] = now1[i + (Len(now1) - Len(t))]
    <3> SUFFICES ASSUME NEW i \in 1..k PROVE t[i] = now1[i + (Len(now1) - Len(t))]
      BY <2>4
    <3> HIDE DEF more, now1, n, k, t
    <3>1. /\ i + 1 \in 1..(k + 1) /\ (i + 1) + (n - k) = i + ((n + 1) - k)
      BY <1>1, <1>2
    <3> QED BY <3>1, <2>4, <1>2, <1>4
  <2> QED BY <1>5, <2>4, <2>5, <2>6 DEF EndOf
<1>6. CASE ~(Len(more) > RingCap)
  <2>1. k = n /\ k + 1 <= RingCap
    <3> HIDE DEF more, now1, n, k
    <3> QED BY <1>1, <1>2, <1>3, <1>6, RingAssumption
  <2>2. DOMAIN more = 1..(k + 1) BY <1>1, LenProperties
  <2>3. Len(more) = IF Len(now1) < RingCap THEN Len(now1) ELSE RingCap
    <3> HIDE DEF more, now1, n, k
    <3> QED BY <2>1, <1>1, <1>2, RingAssumption
  <2>4. \A i \in DOMAIN more : more[i] = now1[i + (Len(now1) - Len(more))]
    <3>1. Len(now1) - Len(more) = n - k BY <1>1, <1>2, <2>1
    <3> HIDE DEF more, now1, n, k
    <3> QED BY <3>1, <2>2, <1>4
  <2> QED BY <1>6, <1>1, <2>3, <2>4 DEF EndOf
<1> QED BY <1>5, <1>6

LEMMA LastOrBefore == \A m \in Nat : \A i \in 1..(m + 1) : i # m + 1 => i \in 1..m
OBVIOUS

LEMMA HandleStep == InsInv /\ Ins!Handle => InsInv'
<1> SUFFICES ASSUME InsInv, Ins!Handle PROVE InsInv' OBVIOUS
<1> USE DEF Ins!Handle, Ins!Handler, Ins!Producer, Ins!session, Ins!Bus!HandlerReturns,
            Ins!Bus!SubGoto, Ins!Bus!config, Ins!Bus!pubVars
<1>1. /\ UNCHANGED <<busSubs, busCh, busPubPc, busTodo, busCalls, busHandled, ui, scenario,
                     dropped>>
      /\ total' = total + 1 /\ last' = Append(last, Latest)
      /\ recent' = IF Len(Append(recent, Latest)) > RingCap
                   THEN Ins!Trimmed(Append(recent, Latest)) ELSE Append(recent, Latest)
  BY DEF Latest
<1>2. /\ Published' = Published /\ Latest' = Latest /\ Queue' = Queue /\ Coming' = Coming
      /\ AtWork /\ ~AtWork'
  <2>1. busSubPc'["inspector"] \in {"waiting", "draining"} BY DEF InsInv, InsTypeOK
  <2> QED BY <1>1, <2>1 DEF Published, Latest, Queue, Coming, AtWork
<1>3. Latest \in Nat /\ last \in Seq(Nat) /\ recent \in Seq(Nat) /\ EndOf(recent, last)
  BY InQueue DEF InsInv, InsTypeOK, Shown
<1>4. recent' \in Seq(Nat) /\ EndOf(recent', last')
  BY <1>1, <1>3, RingTurns
<1>5. /\ last' \in Seq(Nat) /\ Len(last') = Len(last) + 1 /\ Len(last) \in Nat
      /\ DOMAIN last = 1..Len(last) /\ DOMAIN last' = 1..(Len(last) + 1)
      /\ last'[Len(last) + 1] = Latest /\ \A i \in 1..Len(last) : last'[i] = last[i]
  BY <1>1, <1>3, AppendProperties, LenProperties
<1>6. InsTypeOK'
  <2>1. busSubPc' \in [{"inspector"} -> SubPCs] BY DEF InsInv, InsTypeOK, SubPCs
  <2> QED BY <1>1, <1>4, <1>5, <2>1 DEF InsInv, InsTypeOK
<1>7. Numbered' BY <1>1, <1>2 DEF InsInv, Numbered
<1>8. Shown'
  <2>1. \A i \in DOMAIN last : last[i] \in Nat /\ last[i] < Latest
    BY <1>2, <1>3, <1>5, ElementOfSeq DEF InsInv, Shown
  <2>2. \A i, j \in DOMAIN last' : i < j => last'[i] < last'[j]
    <3> SUFFICES ASSUME NEW i \in 1..(Len(last) + 1), NEW j \in 1..(Len(last) + 1), i < j
                 PROVE  last'[i] < last'[j]
      BY <1>5
    <3>1. i \in 1..Len(last) BY <1>5
    <3>2. CASE j = Len(last) + 1 BY <3>1, <3>2, <2>1, <1>5
    <3>3. CASE j # Len(last) + 1
      <4>1. j \in 1..Len(last) BY <3>3, <1>5, LastOrBefore
      <4> QED BY <3>1, <4>1, <1>5 DEF InsInv, Shown
    <3> QED BY <3>2, <3>3
  <2>3. \A i \in DOMAIN last' : last'[i] <= Latest'
    <3> SUFFICES ASSUME NEW i \in 1..(Len(last) + 1) PROVE last'[i] <= Latest
      BY <1>2, <1>5
    <3>1. CASE i = Len(last) + 1 BY <3>1, <1>3, <1>5
    <3>2. CASE i # Len(last) + 1
      <4>1. i \in 1..Len(last) BY <3>2, <1>5, LastOrBefore
      <4>2. last'[i] = last[i] /\ last[i] \in Nat /\ last[i] < Latest BY <4>1, <2>1, <1>5
      <4> QED BY <4>2, <1>3
    <3> QED BY <3>1, <3>2
  <2>4. Len(last') = total' BY <1>1, <1>5 DEF InsInv, Shown
  <2> QED BY <1>2, <1>4, <2>2, <2>3, <2>4 DEF Shown
<1>9. Accounted'
  <2>1. Count' = Count BY <1>1, <1>2, InQueue DEF InsInv, Count
  <2>2. ui # "picker" BY <1>2 DEF InsInv, Accounted, AtWork
  <2> QED BY <2>1, <2>2, <1>1, <1>2 DEF InsInv, Accounted
<1> QED BY <1>6, <1>7, <1>8, <1>9 DEF InsInv

LEMMA InsKeeps == InsInv /\ (Ins!Next \/ UNCHANGED insVars) => InsInv'
<1> SUFFICES ASSUME InsInv, Ins!Next \/ UNCHANGED insVars PROVE InsInv' OBVIOUS
<1> USE DEF Ins!Handler, Ins!Producer
<1>1. CASE UNCHANGED insVars
  <2> USE <1>1 DEF insVars
  <2>1. InsTypeOK' BY DEF InsInv, InsTypeOK
  <2>2. AtWork' = AtWork BY DEF AtWork
  <2>3. ui = "picker" => busSubPc["inspector"] = "none" BY DEF InsInv, Accounted
  <2> QED BY <2>1, <2>2, <2>3, QuietStep
<1>2. CASE Ins!ScenarioLeaves
  <2> USE <1>2 DEF Ins!ScenarioLeaves, Ins!busVars, Ins!busRest, Ins!inspector
  <2>1. InsTypeOK' BY DEF InsInv, InsTypeOK
  <2>2. AtWork' = AtWork BY DEF AtWork
  <2>3. ui' = ui /\ ui # "picker" /\ busSubs' = busSubs BY DEF InsInv, Accounted
  <2> QED BY <2>1, <2>2, <2>3, QuietStep
<1>3. CASE Ins!WorkerGoesOn
  <2>1. CASE Ins!Bus!WorkerTakes("inspector")
    BY <1>3, <2>1, TakesStep DEF Ins!WorkerGoesOn, Ins!session, Ins!inspector
  <2>2. CASE Ins!Bus!WorkerExits("inspector")
    <3> USE <1>3, <2>2 DEF Ins!WorkerGoesOn, Ins!Bus!WorkerExits, Ins!Bus!SubGoto,
                           Ins!Bus!config, Ins!Bus!pubVars, Ins!session, Ins!inspector
    <3>1. InsTypeOK' BY DEF InsInv, InsTypeOK, SubPCs
    <3>2. AtWork' = AtWork BY DEF InsInv, InsTypeOK, AtWork
    <3>3. ui' = ui /\ ui # "picker" /\ busSubs' = busSubs BY DEF InsInv, Accounted
    <3> QED BY <3>1, <3>2, <3>3, QuietStep
  <2> QED BY <1>3, <2>1, <2>2 DEF Ins!WorkerGoesOn
<1>4. CASE Ins!WorkerSeesStop
  <2> USE <1>4 DEF Ins!WorkerSeesStop, Ins!Bus!SeesStop, Ins!Bus!SubGoto, Ins!Bus!config,
                   Ins!Bus!pubVars, Ins!session, Ins!inspector
  <2>1. InsTypeOK' BY DEF InsInv, InsTypeOK, SubPCs
  <2>2. AtWork' = AtWork BY DEF InsInv, InsTypeOK, AtWork
  <2>3. ui' = ui /\ ui # "picker" /\ busSubs' = busSubs BY DEF InsInv, Accounted
  <2> QED BY <2>1, <2>2, <2>3, QuietStep
<1>5. CASE Ins!Quit
  <2> USE <1>5 DEF Ins!Quit, Ins!busVars, Ins!busRest
  <2>1. InsTypeOK' BY DEF InsInv, InsTypeOK
  <2>2. AtWork' = AtWork BY DEF AtWork
  <2>3. ui' \notin {"picker", "live"} OBVIOUS
  <2> QED BY <2>1, <2>2, <2>3, QuietStep
<1>6. CASE Ins!Unsubscribes \/ Ins!Close
  <2> USE <1>6 DEF Ins!Unsubscribes, Ins!Close, Ins!Bus!Unsubscribe, Ins!Bus!CloseBegins,
                   Ins!Bus!CloseStops, Ins!Bus!CloseReturns, Ins!Bus!config, Ins!Bus!workVars,
                   Ins!Bus!pubVars, Ins!inspector
  <2>0. /\ UNCHANGED <<busCh, busCalls, busHandled, busPubPc, busTodo, busSubPc,
                       total, recent, last, dropped>>
        /\ busSubs' \subseteq busSubs /\ ui' \notin {"picker", "live"}
    OBVIOUS
  <2>1. InsTypeOK' BY <2>0 DEF InsInv, InsTypeOK
  <2>2. AtWork' = AtWork BY <2>0 DEF AtWork
  <2> QED BY <2>0, <2>1, <2>2, QuietStep
<1> QED
  BY <1>1, <1>2, <1>3, <1>4, <1>5, <1>6, OnPickerStep, BeginStep, GoesOnStep, DropsStep,
     HandleStep
  DEF Ins!Next

\* What the run checks of the inspector.
LEMMA InsAccounts == InsInv => Ins!EventsAccounted
<1> SUFFICES ASSUME InsInv PROVE Ins!EventsAccounted OBVIOUS
<1> USE DEF Ins!Handler, Ins!Producer
<1> DEFINE k == Len(recent)
           n == Len(last)
<1>1. /\ recent \in Seq(Nat) /\ last \in Seq(Nat) /\ k \in Nat /\ n \in Nat
      /\ DOMAIN recent = 1..k /\ DOMAIN last = 1..n
      /\ k = (IF n < RingCap THEN n ELSE RingCap) /\ n = total
      /\ \A i \in 1..k : recent[i] = last[i + (n - k)]
  BY LenProperties DEF InsInv, InsTypeOK, Shown, EndOf
<1>2. ui = "live" =>
        busCalls["scenario"] = total + dropped + Len(busCh["inspector"]) + Ins!UnderWay
                               + Ins!InHandler
  BY DEF InsInv, Accounted, Count, Published, Queue, Coming, AtWork, Ins!UnderWay,
         Ins!InHandler
<1>3. k <= n
  <2> HIDE DEF k, n
  <2> QED BY <1>1, RingAssumption
<1>4. Ins!IsSuffix(recent, last)
  <2> DEFINE r == [i \in 1..k |-> recent[(k - i) + 1]]
             l == [i \in 1..n |-> last[(n - i) + 1]]
  <2>1. \A i \in 1..k : r[i] = l[i]
    <3> SUFFICES ASSUME NEW i \in 1..k PROVE recent[(k - i) + 1] = last[(n - i) + 1]
      BY <1>1, <1>3
    <3> HIDE DEF k, n
    <3>1. /\ (k - i) + 1 \in 1..k /\ ((k - i) + 1) + (n - k) = (n - i) + 1
      BY <1>1
    <3> QED BY <3>1, <1>1
  <2>2. r \in Seq(Nat) /\ l \in Seq(Nat)
    <3>1. \A i \in 1..k : (k - i) + 1 \in 1..k
      <4> HIDE DEF k, n
      <4> QED BY <1>1
    <3>2. \A i \in 1..n : (n - i) + 1 \in 1..n
      <4> HIDE DEF k, n
      <4> QED BY <1>1
    <3>3. \A i \in 1..k : recent[(k - i) + 1] \in Nat BY <3>1, <1>1, ElementOfSeq
    <3>4. \A i \in 1..n : last[(n - i) + 1] \in Nat BY <3>2, <1>1, ElementOfSeq
    <3>5. r \in [1..k -> Nat] /\ l \in [1..n -> Nat] BY <3>3, <3>4
    <3>6. k \in Nat /\ n \in Nat BY <1>1
    <3> HIDE DEF r, l, k, n
    <3> QED BY <3>5, <3>6, SeqDef
  <2>3. Len(r) = k /\ Len(l) = n
    <3>1. DOMAIN r = 1..k /\ DOMAIN l = 1..n OBVIOUS
    <3> HIDE DEF r, l, k, n
    <3>2. DOMAIN r = 1..Len(r) /\ Len(r) \in Nat /\ DOMAIN l = 1..Len(l) /\ Len(l) \in Nat
      BY <2>2, LenProperties
    <3> QED BY <3>1, <3>2, <1>1
  <2>5. SubSeq(r, 1, k) = SubSeq(l, 1, k)
    <3> HIDE DEF r, l, k, n
    <3>1. \A i \in 1..k : r[i] \in Nat /\ l[i] \in Nat
      BY <2>1, <2>2, <2>3, ElementOfSeq
    <3>2. 1 \in Int /\ k \in Int /\ k - 1 + 1 = k BY <1>1
    <3>3. /\ SubSeq(r, 1, k) \in Seq(Nat) /\ SubSeq(l, 1, k) \in Seq(Nat)
          /\ Len(SubSeq(r, 1, k)) = Len(SubSeq(l, 1, k))
          /\ \A i \in 1..(k - 1 + 1) : /\ SubSeq(r, 1, k)[i] = r[1 + i - 1]
                                      /\ SubSeq(l, 1, k)[i] = l[1 + i - 1]
      BY <3>1, <3>2, SubSeqProperties
    <3>4. Len(SubSeq(r, 1, k)) = k
      <4>1. Len(SubSeq(r, 1, k)) = IF 1 <= k THEN k - 1 + 1 ELSE 0
        BY <3>1, <3>2, SubSeqProperties
      <4> QED BY <4>1, <1>1
    <3>5. \A i \in 1..k : SubSeq(r, 1, k)[i] = SubSeq(l, 1, k)[i]
      <4>1. \A i \in 1..k : 1 + i - 1 = i OBVIOUS
      <4> QED BY <4>1, <3>2, <3>3, <2>1
    <3> QED BY <3>3, <3>4, <3>5, SeqEqual
  <2>4. Ins!IsSuffix(recent, last) <=> Len(r) <= Len(l) /\ SubSeq(r, 1, Len(r)) = SubSeq(l, 1, Len(r))
    BY DEF Ins!IsSuffix, Ins!IsPrefix, Ins!Reverse
  <2> QED BY <2>3, <2>4, <2>5, <1>3
<1>5. Len(recent) = (IF total < RingCap THEN total ELSE RingCap) BY <1>1
<1>6. \A i \in 1..(Len(last) - 1) : last[i] < last[i + 1]
  <2> SUFFICES ASSUME NEW i \in 1..(n - 1) PROVE last[i] < last[i + 1] OBVIOUS
  <2>1. i \in 1..n /\ i + 1 \in 1..n /\ i < i + 1
    <3> HIDE DEF n
    <3> QED BY <1>1
  <2> QED BY <2>1, <1>1 DEF InsInv, Shown
<1> QED BY <1>2, <1>4, <1>5, <1>6 DEF Ins!EventsAccounted

-----------------------------------------------------------------------------
\* An event reaches those it is for: a Sync Publish calls the handlers that stay, in
\* their order and each once (Sync.Publish), and the inspector's counts cover every
\* event of a scenario (producer.go, model.go): for any publishers, subscriptions,
\* ring, queue and number of events.
THEOREM AllReached == BusesSpec => []NoneLost
<1>1. BusesInit => SyncInv /\ InsInv BY SyncStarts, InsStarts DEF BusesInit
<1>2. (SyncInv /\ InsInv) /\ [BusesNext]_<<focus, vars, syncVars, insVars>>
        => (SyncInv /\ InsInv)'
  <2> SUFFICES ASSUME SyncInv, InsInv, [BusesNext]_<<focus, vars, syncVars, insVars>>
               PROVE  SyncInv' /\ InsInv'
    OBVIOUS
  <2>1. Sync!Next \/ UNCHANGED syncVars BY DEF BusesNext, Only
  <2>2. Ins!Next \/ UNCHANGED insVars BY DEF BusesNext, Only
  <2> QED BY <2>1, <2>2, SyncKeeps, InsKeeps
<1>3. SyncInv /\ InsInv => NoneLost BY SyncDelivers, InsAccounts DEF NoneLost
<1> QED BY <1>1, <1>2, <1>3, PTL DEF BusesSpec
=============================================================================
