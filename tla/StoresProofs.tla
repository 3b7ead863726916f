---------------------------- MODULE StoresProofs ----------------------------
(***************************************************************************)
(* Proofs about the parts of Stores, for any keys, values, requests and    *)
(* times.  KV implements KVStore: the inductive invariant adds to the      *)
(* types what the removals rest on, that the clock a Get or a Sweep went   *)
(* by is not ahead of the clock, so what was expired by it is expired now. *)
(* The caches answer with nothing staler than they owe: their invariants   *)
(* say how old what they hold, or are about to store, can be.  Mem keeps a *)
(* tree, since every directory above an entry is there, and the migrator   *)
(* a prefix of the migrations.  What is handed out is whole: the responses *)
(* of the chain, the rows of a walk through the pages up to its cursor,    *)
(* the spans of a tracker and the listings of Mem; and a patient user runs *)
(* the migration on the screen.                                            *)
(***************************************************************************)
EXTENDS Stores, Sequences, FiniteSetTheorems, WellFoundedInduction, TLAPS

DroppingExpired == \A c \in Callers : pc[c] = "dropping" => Expired(seen[c], now)

SweepNotAhead == sweepAt <= now

KVInv == TypeOK /\ DroppingExpired /\ SweepNotAhead

LEMMA ExpiryType == ASSUME TypeOK, NEW ttl \in TTLs PROVE Expiry(ttl) \in Nat
BY TTLsAssumption DEF TypeOK, Expiry

LEMMA PutType ==
  ASSUME TypeOK, NEW k \in Keys, NEW v \in Values, NEW ttl \in TTLs, Put(k, v, ttl)
  PROVE  entries' \in [Keys -> Entries \cup {Absent}]
BY ExpiryType DEF TypeOK, Put, Entries

\* What has expired stays so.
LEMMA ExpiredStays ==
  ASSUME NEW e \in Entries \cup {Absent}, NEW t \in Nat, NEW u \in Nat, t <= u,
         Expired(e, t)
  PROVE  Expired(e, u)
BY DEF Expired, Entries

LEMMA KVStartsWell == Init => KVInv
<1> SUFFICES ASSUME Init PROVE KVInv OBVIOUS
<1>1. pc \in [Callers -> {"idle", "checking", "dropping", "computing"}] BY DEF Init
<1>2. entries \in [Keys -> Entries \cup {Absent}] BY DEF Init
<1>3. seen \in [Callers -> Entries \cup {Absent}] /\ orSet \in [Callers -> BOOLEAN]
  BY DEF Init
<1>4. /\ now \in Nat /\ sweepAt \in Nat /\ toSweep \subseteq Keys /\ stop \in BOOLEAN
     /\ deletes \in {0, 1}
  BY DEF Init
<1>5. key \in [Callers -> Keys] /\ janitor \in {"off", "waiting", "sweeping", "gone"}
  BY DEF Init
<1>6. TypeOK BY <1>1, <1>2, <1>3, <1>4, <1>5 DEF TypeOK
<1>7. DroppingExpired BY DEF Init, DroppingExpired
<1>8. SweepNotAhead BY DEF Init, SweepNotAhead
<1> QED BY <1>6, <1>7, <1>8 DEF KVInv

LEMMA TickStep == KVInv /\ Tick => KVInv'
<1> SUFFICES ASSUME KVInv, Tick PROVE KVInv' OBVIOUS
<1>1. TypeOK' BY DEF KVInv, TypeOK, Tick, call, sweep
<1>2. DroppingExpired'
  <2> SUFFICES ASSUME NEW c \in Callers, pc'[c] = "dropping"
               PROVE  Expired(seen'[c], now')
    BY DEF DroppingExpired
  <2>1. Expired(seen[c], now) BY DEF Tick, call, KVInv, DroppingExpired
  <2>2. /\ seen[c] \in Entries \cup {Absent} /\ now \in Nat /\ now' \in Nat
        /\ now <= now' /\ seen' = seen
    BY DEF KVInv, TypeOK, Tick, call
  <2>3. Expired(seen[c], now') BY <2>1, <2>2, ExpiredStays
  <2> QED BY <2>2, <2>3
<1>3. SweepNotAhead' BY DEF KVInv, TypeOK, SweepNotAhead, Tick, sweep
<1> QED BY <1>1, <1>2, <1>3 DEF KVInv

LEMMA LookupStep == ASSUME KVInv, NEW c \in Callers, Lookup(c) PROVE KVInv'
<1> USE DEF KVInv, SweepNotAhead, sweep
<1>1. ASSUME NEW k \in Keys, NEW set \in BOOLEAN, Read(c, k, set) PROVE KVInv'
  <2>1. TypeOK' BY <1>1 DEF TypeOK, Read
  <2>2. DroppingExpired' BY <1>1 DEF TypeOK, DroppingExpired, Read, Expired
  <2> QED BY <1>1, <2>1, <2>2 DEF Read
<1>2. CASE Checks(c)
  <2>1. TypeOK' BY <1>2 DEF TypeOK, Checks, Goto, AfterMiss
  <2>2. DroppingExpired'
    BY <1>2 DEF TypeOK, DroppingExpired, Checks, Goto, AfterMiss, Expired
  <2> QED BY <1>2, <2>1, <2>2 DEF Checks
<1>3. CASE Drops(c)
  <2>1. TypeOK' BY <1>3 DEF TypeOK, Drops, Goto, AfterMiss
  <2>2. DroppingExpired'
    BY <1>3 DEF TypeOK, DroppingExpired, Drops, Goto, AfterMiss, Expired
  <2> QED BY <1>3, <2>1, <2>2 DEF Drops
<1>4. CASE ComputeFails(c)
  BY <1>4 DEF TypeOK, DroppingExpired, ComputeFails, Goto, Expired
<1>5. ASSUME NEW v \in Values, NEW ttl \in TTLs, StoresComputed(c, v, ttl) PROVE KVInv'
  <2>1. entries' \in [Keys -> Entries \cup {Absent}]
    BY <1>5, PutType DEF StoresComputed, TypeOK
  <2>2. TypeOK' BY <1>5, <2>1 DEF TypeOK, StoresComputed, Goto
  <2>3. DroppingExpired'
    BY <1>5 DEF TypeOK, DroppingExpired, StoresComputed, Goto, Expired
  <2> QED BY <1>5, <2>2, <2>3 DEF StoresComputed
<1> QED BY <1>1, <1>2, <1>3, <1>4, <1>5 DEF Lookup

LEMMA JanitorStep == KVInv /\ Janitor => KVInv'
BY DEF KVInv, TypeOK, DroppingExpired, SweepNotAhead, Janitor, SweepBegins, SweepEnds,
       JanitorStops, SweepsShard, call, Expired

LEMMA KVInductive == KVInv /\ [Next]_vars => KVInv'
<1> SUFFICES ASSUME KVInv, [Next]_vars PROVE KVInv' OBVIOUS
<1>1. CASE Tick BY <1>1, TickStep
<1>2. CASE Close
  BY <1>2 DEF Close, KVInv, TypeOK, DroppingExpired, SweepNotAhead, call, sweep, Expired
<1>3. CASE Janitor BY <1>3, JanitorStep
<1>4. ASSUME NEW k \in Keys, Delete(k) PROVE KVInv'
  BY <1>4 DEF Delete, KVInv, TypeOK, DroppingExpired, SweepNotAhead, call, sweep, Expired
<1>5. ASSUME NEW k \in Keys, NEW v \in Values, NEW ttl \in TTLs, SetWithTTL(k, v, ttl)
      PROVE  KVInv'
  <2>1. entries' \in [Keys -> Entries \cup {Absent}]
    BY <1>5, PutType DEF SetWithTTL, KVInv
  <2> QED BY <1>5, <2>1
       DEF SetWithTTL, KVInv, TypeOK, DroppingExpired, SweepNotAhead, call, sweep, Expired
<1>6. ASSUME NEW c \in Callers, Lookup(c) PROVE KVInv' BY <1>6, LookupStep
<1>7. CASE UNCHANGED vars
  BY <1>7 DEF vars, call, sweep, KVInv, TypeOK, DroppingExpired, SweepNotAhead, Expired
<1> QED BY <1>1, <1>2, <1>3, <1>4, <1>5, <1>6, <1>7 DEF Next

(* Types, and the two facts removals rest on, at every state.              *)
THEOREM KVInvariance == Spec => []KVInv
BY KVStartsWell, KVInductive, PTL DEF Spec

-----------------------------------------------------------------------------
\* Removing what has expired changes nothing that is live.
LEMMA RemovalUnseen ==
  ASSUME KVInv, NEW k \in Keys, Expired(entries[k], now), now' = now,
         entries' = [entries EXCEPT ![k] = Absent]
  PROVE  Live' = Live
<1>1. ASSUME NEW j \in Keys PROVE Live'[j] = Live[j]
  <2>1. CASE j = k
    BY <2>1 DEF Live, Expired, KVInv, TypeOK
  <2>2. CASE j # k
    BY <2>2 DEF Live, KVInv, TypeOK, Expired
  <2> QED BY <2>1, <2>2
<1> QED BY <1>1 DEF Live

LEMMA UnchangedUnseen == entries' = entries /\ now' = now => Live' = Live
BY DEF Live, Expired

\* An entry put in has its time before it, or no end at all, unless ttl is 0
\* for none.
LEMMA PutSeen ==
  ASSUME KVInv, NEW k \in Keys, NEW v \in Values, NEW ttl \in TTLs, Put(k, v, ttl),
         UNCHANGED <<now, deletes>>
  PROVE  Store!Put(k, v, ttl)
<1> DEFINE e == [value |-> v, expiresAt |-> Expiry(ttl)]
<1>1. ~Expired(e, now) BY TTLsAssumption DEF Expired, Expiry, KVInv, TypeOK
<1>2. Expiry(ttl) = Store!Expiry(ttl) BY DEF Expiry, Store!Expiry
<1>3. ASSUME NEW j \in Keys PROVE Live'[j] = [Live EXCEPT ![k] = e][j]
  BY <1>1 DEF Live, Put, KVInv, TypeOK, Expired
<1>4. Live' = [Live EXCEPT ![k] = e] BY <1>3 DEF Live
<1> QED BY <1>2, <1>4 DEF Store!Put

LEMMA RemoveSeen ==
  ASSUME KVInv, NEW k \in Keys, now' = now, deletes' = 1 - deletes,
         entries' = [entries EXCEPT ![k] = Absent]
  PROVE  Store!Remove(k)
<1>1. ASSUME NEW j \in Keys PROVE Live'[j] = [Live EXCEPT ![k] = Absent][j]
  BY DEF Live, KVInv, TypeOK, Expired
<1>2. Live' = [Live EXCEPT ![k] = Absent] BY <1>1 DEF Live
<1> QED BY <1>2 DEF Store!Remove

LEMMA TickSeen == KVInv /\ Tick => Store!Tick
<1> SUFFICES ASSUME KVInv, Tick PROVE Store!Tick OBVIOUS
<1>1. now' = now + 1 /\ entries' = entries /\ deletes' = deletes /\ now \in Nat
  BY DEF Tick, KVInv, TypeOK
<1>2. ASSUME NEW k \in Keys
      PROVE  Live'[k] = IF Store!Over(Live[k], now + 1) THEN Absent ELSE Live[k]
  <2>1. entries[k] \in Entries \cup {Absent} BY DEF KVInv, TypeOK
  <2> QED BY <1>1, <2>1 DEF Live, Expired, Store!Over, Entries
<1> QED BY <1>1, <1>2 DEF Store!Tick, Live

LEMMA StepSimulation == KVInv /\ [Next]_vars => [Store!Next]_<<now, Live, deletes>>
<1> SUFFICES ASSUME KVInv, [Next]_vars PROVE [Store!Next]_<<now, Live, deletes>> OBVIOUS
<1>1. CASE Tick BY <1>1, TickSeen DEF Store!Next
<1>2. CASE Close \/ SweepBegins \/ SweepEnds \/ JanitorStops
  BY <1>2, UnchangedUnseen DEF Close, SweepBegins, SweepEnds, JanitorStops
<1>3. ASSUME NEW k \in Keys, SweepsShard(k) PROVE UNCHANGED <<now, Live, deletes>>
  <2>1. CASE Expired(entries[k], sweepAt)
    <3>1. entries[k] \in Entries \cup {Absent} BY DEF KVInv, TypeOK
    <3>2. Expired(entries[k], now)
      BY <2>1, <3>1, ExpiredStays DEF KVInv, TypeOK, SweepNotAhead
    <3> QED BY <1>3, <2>1, <3>2, RemovalUnseen DEF SweepsShard
  <2>2. CASE ~Expired(entries[k], sweepAt)
    BY <1>3, <2>2, UnchangedUnseen DEF SweepsShard
  <2> QED BY <2>1, <2>2
<1>4. ASSUME NEW k \in Keys, Delete(k) PROVE Store!Next
  BY <1>4, RemoveSeen DEF Delete, Store!Next
<1>5. ASSUME NEW k \in Keys, NEW v \in Values, NEW ttl \in TTLs, SetWithTTL(k, v, ttl)
      PROVE  Store!Next
  BY <1>5, PutSeen DEF SetWithTTL, Store!Next
<1>6. ASSUME NEW c \in Callers, Lookup(c) PROVE [Store!Next]_<<now, Live, deletes>>
  <2>1. CASE \/ \E k \in Keys, set \in BOOLEAN : Read(c, k, set)
             \/ Checks(c) \/ ComputeFails(c)
    BY <2>1, UnchangedUnseen DEF Read, Checks, ComputeFails
  <2>2. CASE Drops(c)
    <3>1. key[c] \in Keys BY DEF KVInv, TypeOK
    <3> DEFINE cur == entries[key[c]]
    <3>2. CASE cur # Absent /\ cur.expiresAt = seen[c].expiresAt
      <4>1. Expired(seen[c], now) BY <2>2 DEF KVInv, DroppingExpired, Drops
      <4>2. Expired(cur, now) BY <3>2, <4>1 DEF Expired
      <4> QED BY <2>2, <3>1, <3>2, <4>2, RemovalUnseen DEF Drops
    <3>3. CASE ~(cur # Absent /\ cur.expiresAt = seen[c].expiresAt)
      BY <2>2, <3>3, UnchangedUnseen DEF Drops
    <3> QED BY <3>2, <3>3
  <2>3. ASSUME NEW v \in Values, NEW ttl \in TTLs, StoresComputed(c, v, ttl)
        PROVE  Store!Next
    <3>1. key[c] \in Keys BY DEF KVInv, TypeOK
    <3> QED BY <2>3, <3>1, PutSeen DEF StoresComputed, Store!Next
  <2> QED BY <1>6, <2>1, <2>2, <2>3 DEF Lookup
<1>7. CASE UNCHANGED vars BY <1>7, UnchangedUnseen DEF vars
<1> QED BY <1>1, <1>2, <1>3, <1>4, <1>5, <1>6, <1>7 DEF Next, Janitor

LEMMA InitSimulation == Init => Store!Init
BY DEF Init, Store!Init, Live, Expired

(* Memory implements the store whose entries vanish at their time: no      *)
(* removal by Get, Sweep or the janitor takes anything that is live.       *)
THEOREM Refinement == Spec => ImplementsStore
<1>1. ASSUME KVInv, [Next]_vars PROVE [Store!Next]_<<now, Live, deletes>>
  BY <1>1, StepSimulation
<1> QED BY <1>1, InitSimulation, KVInvariance, PTL DEF Spec, ImplementsStore, Store!Spec

-----------------------------------------------------------------------------
-----------------------------------------------------------------------------
JwksTypes == /\ jwksNow \in Nat
             /\ published \subseteq Kids
             /\ retiredAt \in [Kids -> Nat \cup {Never}]
             /\ keys = None \/ keys \subseteq Kids
             /\ fetchedAt \in Nat \cup {Never}
             /\ jwksPc \in [Requests -> {"idle", "fetching", "answered", "looking"}]
             /\ kid \in [Requests -> Kids]
             /\ startedAt \in [Requests -> Nat]
             /\ document \in [Requests -> SUBSET Kids]
             /\ servedKey \in [Requests -> Kids \cup {None}]

PublishedStay == \A k \in published : retiredAt[k] = Never

KeysInTime == \A r \in Requests : jwksPc[r] # "idle" =>
                startedAt[r] <= jwksNow /\ jwksNow <= startedAt[r] + Patience

\* What a fetch was answered with was published since the request began.
DocumentsRecent ==
  \A r \in Requests : jwksPc[r] = "answered" =>
    \A k \in document[r] : retiredAt[k] = Never \/ startedAt[r] <= retiredAt[k]

\* What was stored was published Patience before it was, or later.
KeysRecent ==
  keys # None =>
    /\ fetchedAt # Never
    /\ fetchedAt <= jwksNow
    /\ \A k \in keys : retiredAt[k] = Never \/ fetchedAt <= retiredAt[k] + Patience

\* A request that looks for a second time found the keys young, or they are
\* newer than the request.
SecondLook == \A r \in Requests : jwksPc[r] = "looking" =>
                fetchedAt # Never /\ startedAt[r] <= fetchedAt + Interval

JwksInv == /\ JwksTypes /\ PublishedStay /\ KeysInTime
           /\ DocumentsRecent /\ KeysRecent /\ SecondLook

LEMMA JwksStartsWell == Jwks!Init => JwksInv
<1> SUFFICES ASSUME Jwks!Init PROVE JwksInv OBVIOUS
<1> USE DEF Jwks!Init
<1>1. JwksTypes
  <2>1. published \subseteq Kids /\ jwksNow \in Nat OBVIOUS
  <2>2. retiredAt \in [Kids -> Nat \cup {Never}] /\ fetchedAt \in Nat \cup {Never} OBVIOUS
  <2>3. keys = None OBVIOUS
  <2>4. servedKey \in [Requests -> Kids \cup {None}] OBVIOUS
  <2>5. /\ jwksPc \in [Requests -> {"idle", "fetching", "answered", "looking"}]
        /\ kid \in [Requests -> Kids] /\ startedAt \in [Requests -> Nat]
    OBVIOUS
  <2>6. document \in [Requests -> SUBSET Kids] OBVIOUS
  <2> QED BY <2>1, <2>2, <2>3, <2>4, <2>5, <2>6 DEF JwksTypes
<1>2. PublishedStay /\ KeysInTime /\ DocumentsRecent /\ KeysRecent /\ SecondLook
  BY DEF PublishedStay, KeysInTime, DocumentsRecent, KeysRecent, SecondLook
<1> QED BY <1>1, <1>2 DEF JwksInv

LEMMA JwksTickStep == JwksInv /\ Jwks!Tick => JwksInv'
<1> SUFFICES ASSUME JwksInv, Jwks!Tick PROVE JwksInv' OBVIOUS
<1> USE CachesAssumption DEF Jwks!Tick, Jwks!provider, Jwks!cache, JwksInv
<1>1. JwksTypes' BY DEF JwksTypes
<1>2. KeysInTime' BY DEF KeysInTime, JwksTypes
<1>3. KeysRecent' BY DEF KeysRecent, JwksTypes
<1>4. PublishedStay' /\ DocumentsRecent' /\ SecondLook'
  BY DEF PublishedStay, DocumentsRecent, SecondLook
<1> QED BY <1>1, <1>2, <1>3, <1>4

LEMMA RotateStep == JwksInv /\ Jwks!Rotate => JwksInv'
<1> SUFFICES ASSUME JwksInv, NEW new \in Kids \ published, NEW old \in published,
                    retiredAt[new] = Never,
                    published' = (published \ {old}) \cup {new},
                    retiredAt' = [retiredAt EXCEPT ![old] = jwksNow],
                    UNCHANGED <<jwksNow, Jwks!cache, jwksPc, kid, startedAt, document,
                                servedKey>>
             PROVE  JwksInv'
  BY DEF Jwks!Rotate
<1> USE CachesAssumption DEF Jwks!cache, JwksInv
<1>1. JwksTypes' BY DEF JwksTypes
<1>2. PublishedStay' BY DEF PublishedStay, JwksTypes
<1>3. KeysInTime' /\ SecondLook' BY DEF KeysInTime, SecondLook
<1>4. ASSUME NEW k \in Kids, retiredAt'[k] # Never
      PROVE  retiredAt'[k] = jwksNow \/ retiredAt'[k] = retiredAt[k]
  BY DEF JwksTypes
<1>5. DocumentsRecent'
  BY <1>4 DEF DocumentsRecent, JwksTypes, KeysInTime
<1>6. KeysRecent' BY <1>4 DEF KeysRecent, JwksTypes
<1> QED BY <1>1, <1>2, <1>3, <1>5, <1>6

LEMMA KeyStep == ASSUME JwksInv, NEW r \in Requests, NEW k \in Kids, Jwks!Key(r, k)
                 PROVE  JwksInv'
<1> USE CachesAssumption DEF Jwks!Key, Jwks!provider, Jwks!cache, JwksInv, Jwks!Goto, Jwks!Serve
<1>1. JwksTypes' BY DEF JwksTypes
<1>2. KeysInTime' BY DEF KeysInTime, JwksTypes
<1>3. PublishedStay' /\ KeysRecent' BY DEF PublishedStay, KeysRecent
<1>4. DocumentsRecent' BY DEF DocumentsRecent, JwksTypes
<1>5. SecondLook' BY DEF SecondLook, JwksTypes, Jwks!MayRefresh
<1> QED BY <1>1, <1>2, <1>3, <1>4, <1>5

LEMMA FetchStep == ASSUME JwksInv, NEW r \in Requests,
                          Jwks!Answered(r) \/ Jwks!FetchFails(r) \/ Jwks!Looks(r)
                   PROVE  JwksInv'
<1> USE CachesAssumption DEF Jwks!Answered, Jwks!FetchFails, Jwks!Looks, Jwks!provider,
        Jwks!cache, JwksInv, Jwks!Goto, Jwks!Serve
<1>1. JwksTypes' BY DEF JwksTypes
<1>2. KeysInTime' BY DEF KeysInTime, JwksTypes
<1>3. PublishedStay' /\ KeysRecent' BY DEF PublishedStay, KeysRecent
<1>4. DocumentsRecent' BY DEF DocumentsRecent, JwksTypes, PublishedStay
<1>5. SecondLook' BY DEF SecondLook, JwksTypes
<1> QED BY <1>1, <1>2, <1>3, <1>4, <1>5

LEMMA RefreshesStep == ASSUME JwksInv, NEW r \in Requests, Jwks!Refreshes(r) PROVE JwksInv'
<1> USE CachesAssumption DEF Jwks!Refreshes, Jwks!provider, JwksInv, Jwks!Goto
<1>1. JwksTypes' BY DEF JwksTypes
<1>2. KeysInTime' BY DEF KeysInTime, JwksTypes
<1>3. PublishedStay' BY DEF PublishedStay
<1>4. DocumentsRecent' BY DEF DocumentsRecent, JwksTypes
<1>5. KeysRecent'
  <2>1. startedAt[r] <= jwksNow /\ jwksNow <= startedAt[r] + Patience BY DEF KeysInTime
  <2>2. ASSUME NEW k \in document[r]
        PROVE  retiredAt[k] = Never \/ jwksNow <= retiredAt[k] + Patience
    <3>1. retiredAt[k] = Never \/ startedAt[r] <= retiredAt[k] BY DEF DocumentsRecent
    <3>2. k \in Kids BY DEF JwksTypes
    <3> QED BY <2>1, <3>1, <3>2 DEF JwksTypes
  <2> QED BY <2>2 DEF KeysRecent, JwksTypes
<1>6. SecondLook' BY DEF SecondLook, JwksTypes, KeysInTime
<1> QED BY <1>1, <1>2, <1>3, <1>4, <1>5, <1>6

LEMMA JwksInductive == JwksInv /\ (Jwks!Next \/ UNCHANGED jwksVars) => JwksInv'
<1>1. ASSUME JwksInv, UNCHANGED jwksVars PROVE JwksInv'
  BY <1>1 DEF JwksInv, jwksVars, JwksTypes, PublishedStay, KeysInTime, DocumentsRecent,
           KeysRecent, SecondLook
<1> QED BY <1>1, JwksTickStep, RotateStep, KeyStep, FetchStep, RefreshesStep DEF Jwks!Next

\* What the cache holds when it is served: young, or the request is.
LEMMA ServedInTime ==
  ASSUME JwksInv, JwksInv', Jwks!Next, NEW r \in Requests, NEW k \in Kids,
         servedKey[r] # k, servedKey'[r] = k
  PROVE  retiredAt[k] = Never \/ jwksNow - retiredAt[k] <= Jwks!Bound
<1> USE CachesAssumption DEF JwksInv
<1>1. PICK s \in Requests :
        \/ \E j \in Kids : Jwks!Key(s, j) /\ Jwks!Fresh /\ j \in keys /\ Jwks!Serve(s, j)
        \/ \E j \in Kids : Jwks!Key(s, j) /\ servedKey' = [servedKey EXCEPT ![s] = None]
        \/ Jwks!Looks(s)
  BY DEF Jwks!Next, Jwks!Tick, Jwks!Rotate, Jwks!Answered, Jwks!FetchFails, Jwks!Refreshes,
         Jwks!Key
<1>2. s = r /\ keys # None /\ k \in keys /\ (Jwks!Fresh \/ Jwks!Looks(r))
  BY <1>1 DEF Jwks!Looks, Jwks!Serve, JwksTypes, Jwks!Fresh
<1>3. retiredAt[k] = Never \/ fetchedAt <= retiredAt[k] + Patience
  BY <1>2 DEF KeysRecent
<1>4. fetchedAt \in Nat /\ jwksNow \in Nat /\ retiredAt[k] \in Nat \cup {Never}
      /\ startedAt[r] \in Nat
  BY <1>2 DEF KeysRecent, JwksTypes
<1>5. CASE Jwks!Fresh BY <1>3, <1>4, <1>5 DEF Jwks!Fresh, Jwks!Bound
<1>6. CASE Jwks!Looks(r)
  <2>1. jwksNow <= startedAt[r] + Patience /\ startedAt[r] <= fetchedAt + Interval
    BY <1>6 DEF Jwks!Looks, KeysInTime, SecondLook
  <2> QED BY <1>3, <1>4, <2>1 DEF Jwks!Bound
<1> QED BY <1>2, <1>5, <1>6

-----------------------------------------------------------------------------
PingTypes == /\ pingNow \in Nat
             /\ dbUp \in BOOLEAN /\ lastUp \in Nat
             /\ at \in Nat \cup {Never} /\ healthy \in BOOLEAN
             /\ pingPc \in [Requests -> {"idle", "pinging", "pinged"}]
             /\ pingBegan \in [Requests -> Nat]
             /\ passed \in [Requests -> BOOLEAN]
             /\ answer \in [Requests -> {"none", "ok", "unhealthy"}]

UpIsNow == lastUp <= pingNow /\ (dbUp => lastUp = pingNow)

\* A ping that passed found the database up after it began, and a state that
\* says healthy found it so after its stamp.
PingsTrue == \A r \in Requests :
               /\ pingPc[r] # "idle" => pingBegan[r] <= pingNow
               /\ pingPc[r] = "pinged" /\ passed[r] => pingBegan[r] <= lastUp

StateTrue == at # Never /\ healthy => at <= lastUp

PingInv == PingTypes /\ UpIsNow /\ PingsTrue /\ StateTrue

LEMMA PingStartsWell == Health!Init => PingInv
<1> SUFFICES ASSUME Health!Init PROVE PingInv OBVIOUS
<1> USE DEF Health!Init
<1>1. PingTypes BY DEF PingTypes
<1>2. UpIsNow /\ PingsTrue /\ StateTrue BY DEF UpIsNow, PingsTrue, StateTrue
<1> QED BY <1>1, <1>2 DEF PingInv

LEMMA PingInductive == PingInv /\ (Health!Next \/ UNCHANGED pingVars) => PingInv'
<1> USE DEF PingInv, Health!database
<1>1. ASSUME PingInv, Health!Tick PROVE PingInv'
  BY <1>1 DEF Health!Tick, PingTypes, UpIsNow, PingsTrue, StateTrue
<1>2. ASSUME PingInv, Health!DatabaseTurns PROVE PingInv'
  BY <1>2 DEF Health!DatabaseTurns, PingTypes, UpIsNow, PingsTrue, StateTrue
<1>3. ASSUME PingInv, NEW r \in Requests, Health!Load(r) PROVE PingInv'
  BY <1>3 DEF Health!Load, Health!Answer, PingTypes, UpIsNow, PingsTrue, StateTrue
<1>4. ASSUME PingInv, NEW r \in Requests, Health!Ping(r) PROVE PingInv'
  BY <1>4 DEF Health!Ping, PingTypes, UpIsNow, PingsTrue, StateTrue
<1>5. ASSUME PingInv, NEW r \in Requests, Health!Store(r) PROVE PingInv'
  BY <1>5 DEF Health!Store, Health!Stamp, Health!Answer, PingTypes, UpIsNow, PingsTrue,
           StateTrue
<1>6. ASSUME PingInv, UNCHANGED pingVars PROVE PingInv'
  BY <1>6 DEF pingVars, PingTypes, UpIsNow, PingsTrue, StateTrue
<1> QED BY <1>1, <1>2, <1>3, <1>4, <1>5, <1>6 DEF Health!Next

LEMMA OkInTime == ASSUME PingInv, NEW r \in Requests, Health!Load(r), answer'[r] = "ok"
                  PROVE  pingNow - lastUp <= TTL
<1>1. at # Never /\ healthy /\ pingNow - at <= TTL
  BY CachesAssumption DEF Health!Load, Health!Answer, PingInv, PingTypes
<1> QED BY <1>1, CachesAssumption DEF PingInv, PingTypes, StateTrue

-----------------------------------------------------------------------------
UsersTypes == /\ usersNow \in Nat
              /\ content \in 0..MaxVersion
              /\ replacedAt \in [0..MaxVersion -> Nat \cup {None}]
              /\ entry \in 0..MaxVersion \cup {None}
              /\ expires \in Nat
              /\ usersPc \in [Requests -> {"idle", "missed", "read"}]
              /\ usersBegan \in [Requests -> Nat]
              /\ rows \in [Requests -> 0..MaxVersion \cup {None}]
              /\ servedList \in [Requests -> 0..MaxVersion \cup {None}]

LaterStand == \A v \in 0..MaxVersion : content <= v => replacedAt[v] = None

ListsInTime == \A r \in Requests : usersPc[r] # "idle" =>
                 usersBegan[r] <= usersNow /\ usersNow <= usersBegan[r] + Patience

\* The rows in hand were the table's after the request began.
RowsRecent == \A r \in Requests : usersPc[r] = "read" =>
                /\ rows[r] # None
                /\ replacedAt[rows[r]] = None \/ usersBegan[r] <= replacedAt[rows[r]]

\* An entry has TTL left at most, and is gone Patience + TTL after its list
\* was replaced.
EntryRecent ==
  entry # None =>
    /\ usersNow <= expires /\ expires <= usersNow + TTL
    /\ replacedAt[entry] = None \/ expires <= replacedAt[entry] + Patience + TTL

UsersInv == UsersTypes /\ LaterStand /\ ListsInTime /\ RowsRecent /\ EntryRecent

LEMMA UsersStartsWell == Users!Init => UsersInv
BY CachesAssumption DEF Users!Init, UsersInv, UsersTypes, LaterStand, ListsInTime,
                        RowsRecent, EntryRecent

LEMMA UsersInductive == UsersInv /\ (Users!Next \/ UNCHANGED usersVars) => UsersInv'
<1> USE CachesAssumption DEF UsersInv, Users!table, Users!cache
<1>1. ASSUME UsersInv, Users!Tick PROVE UsersInv'
  <2> USE <1>1 DEF Users!Tick
  <2>1. UsersTypes' BY DEF UsersTypes
  <2>2. LaterStand' /\ RowsRecent' BY DEF LaterStand, RowsRecent
  <2>3. ListsInTime' BY DEF ListsInTime, UsersTypes
  <2>4. EntryRecent' BY DEF EntryRecent, UsersTypes
  <2> QED BY <2>1, <2>2, <2>3, <2>4
<1>2. ASSUME UsersInv, Users!TableChanges PROVE UsersInv'
  <2> USE <1>2 DEF Users!TableChanges
  <2>1. UsersTypes' BY DEF UsersTypes
  <2>2. LaterStand' BY DEF LaterStand, UsersTypes
  <2>3. ASSUME NEW v \in 0..MaxVersion, replacedAt'[v] # None
        PROVE  replacedAt'[v] = usersNow \/ replacedAt'[v] = replacedAt[v]
    BY DEF UsersTypes
  <2>4. RowsRecent' BY <2>3 DEF RowsRecent, UsersTypes, ListsInTime
  <2>5. ListsInTime' BY DEF ListsInTime
  <2>6. EntryRecent' BY <2>3 DEF EntryRecent, UsersTypes
  <2> QED BY <2>1, <2>2, <2>4, <2>5, <2>6
<1>3. ASSUME UsersInv, NEW r \in Requests, Users!Get(r) \/ Users!GetUsers(r) PROVE UsersInv'
  <2> USE <1>3 DEF Users!Get, Users!GetUsers
  <2>1. UsersTypes' BY DEF UsersTypes
  <2>2. content' = content /\ replacedAt' = replacedAt /\ entry' = entry
        /\ expires' = expires /\ usersNow' = usersNow
    OBVIOUS
  <2>3. ListsInTime'
    <3>1. CASE Users!Get(r) BY <3>1, CachesAssumption DEF Users!Get, ListsInTime, UsersTypes
    <3>2. CASE Users!GetUsers(r) BY <3>2 DEF Users!GetUsers, ListsInTime, UsersTypes
    <3> QED BY <3>1, <3>2
  <2>4. RowsRecent' BY DEF RowsRecent, UsersTypes, LaterStand
  <2>5. LaterStand' /\ EntryRecent' BY <2>2 DEF LaterStand, EntryRecent
  <2> QED BY <2>1, <2>2, <2>3, <2>4, <2>5
<1>4. ASSUME UsersInv, NEW r \in Requests, Users!SetAndServe(r) PROVE UsersInv'
  <2> USE <1>4 DEF Users!SetAndServe, Users!Expires
  <2>1. UsersTypes' BY DEF UsersTypes
  <2>2. LaterStand' BY DEF LaterStand
  <2>3. ListsInTime' BY DEF ListsInTime, UsersTypes
  <2>4. RowsRecent' BY DEF RowsRecent, UsersTypes
  <2>5. EntryRecent' BY DEF EntryRecent, UsersTypes, RowsRecent, ListsInTime
  <2> QED BY <2>1, <2>2, <2>3, <2>4, <2>5
<1>5. ASSUME UsersInv, UNCHANGED usersVars PROVE UsersInv'
  BY <1>5 DEF usersVars, UsersTypes, LaterStand, ListsInTime, RowsRecent, EntryRecent
<1> QED BY <1>1, <1>2, <1>3, <1>4, <1>5 DEF Users!Next

LEMMA ListInTime ==
  ASSUME UsersInv, NEW r \in Requests, servedList'[r] # None,
         Users!Get(r) \/ Users!SetAndServe(r)
  PROVE  replacedAt[servedList'[r]] = None
         \/ usersNow - replacedAt[servedList'[r]] <= Patience + TTL
<1> USE CachesAssumption DEF UsersInv
<1>1. CASE Users!Get(r)
  <2>1. entry # None /\ servedList'[r] = entry BY <1>1 DEF Users!Get, UsersTypes
  <2> QED BY <2>1 DEF EntryRecent, UsersTypes
<1>2. CASE Users!SetAndServe(r)
  <2>1. servedList'[r] = rows[r] /\ usersPc[r] = "read"
    BY <1>2 DEF Users!SetAndServe, UsersTypes
  <2> QED BY <2>1 DEF RowsRecent, ListsInTime, UsersTypes
<1> QED BY <1>1, <1>2

-----------------------------------------------------------------------------
\* A nonempty set of numbers has a least one, and a greatest one if it is finite.
LEMMA HasLeast ==
  ASSUME NEW S \in SUBSET Nat, S # {}
  PROVE  \E l \in S : \A x \in S : l <= x
<1>1. PICK l \in S : \A x \in S : <<x, l>> \notin OpToRel(<, Nat)
  BY NatLessThanWellFounded, WFMin
<1>2. \A x \in S : ~(x < l) BY <1>1 DEF OpToRel
<1> QED BY <1>2

\* By a smallest counterexample: one element less, and there is a greatest.
LEMMA HasGreatest ==
  ASSUME NEW S \in SUBSET Nat, S # {}, IsFiniteSet(S)
  PROVE  \E g \in S : \A x \in S : x <= g
<1> DEFINE Bad == {n \in Nat : \E T \in SUBSET S :
                      Cardinality(T) = n /\ T # {} /\ ~ \E g \in T : \A x \in T : x <= g}
<1>0. \A T \in SUBSET S : IsFiniteSet(T) /\ Cardinality(T) \in Nat
  BY FS_Subset, FS_CardinalityType
<1>1. Bad = {}
  <2> SUFFICES ASSUME Bad # {} PROVE FALSE OBVIOUS
  <2>1. PICK n \in Bad : \A k \in Bad : n <= k
    <3>1. Bad \in SUBSET Nat OBVIOUS
    <3> HIDE DEF Bad
    <3> QED BY <3>1, HasLeast
  <2>2. PICK T \in SUBSET S : Cardinality(T) = n /\ T # {}
                              /\ ~ \E g \in T : \A x \in T : x <= g
    OBVIOUS
  <2>3. PICK y \in T : TRUE BY <2>2
  <2> DEFINE R == T \ {y}
  <2>4. Cardinality(R) = n - 1 /\ n \in Nat /\ n - 1 \in Nat
    <3>1. Cardinality(R) = Cardinality(T) - 1 BY <1>0, FS_RemoveElement
    <3> QED BY <1>0, <2>2, <3>1
  <2>5. R # {} BY <2>2
  <2>6. PICK g \in R : \A x \in R : x <= g
    <3>1. n - 1 \notin Bad BY <2>1, <2>4
    <3> HIDE DEF R
    <3>2. R \in SUBSET S BY DEF R
    <3> QED BY <3>1, <3>2, <2>4, <2>5
  <2>7. g \in Nat /\ y \in Nat OBVIOUS
  <2>8. \A x \in T : x <= IF g <= y THEN y ELSE g BY <2>6, <2>7
  <2> QED BY <2>2, <2>8
<1>2. Cardinality(S) \notin Bad BY <1>1
<1> QED BY <1>0, <1>2

LEMMA MinIs ==
  ASSUME NEW S \in SUBSET Nat, S # {}
  PROVE  Migration!Min(S) \in S /\ \A x \in S : Migration!Min(S) <= x
BY HasLeast DEF Migration!Min

LEMMA MaxIs ==
  ASSUME NEW S \in SUBSET Nat, S # {}, IsFiniteSet(S)
  PROVE  Migration!Max(S) \in S /\ \A x \in S : x <= Migration!Max(S)
<1>1. PICK g \in S : \A x \in S : x <= g BY HasGreatest
<1>2. \A x \in S : g >= x BY <1>1
<1>3. Migration!Max(S) \in S /\ \A x \in S : Migration!Max(S) >= x
  BY <1>2 DEF Migration!Max
<1> QED BY <1>3

MigrateInv == applied \in Migration!Promised!Prefixes /\ maxApplied \in Migration!Ends

\* What an operation does to the migrations.
LEMMA OperationStep ==
  ASSUME MigrateInv, NEW a, Migration!Runs(a)
  PROVE  MigrateInv' /\ Migration!Promised!Next
<1> USE StandInsAssumption DEF MigrateInv, Migration!Promised!Prefixes, Migration!Ends
<1>0. applied \subseteq Versions /\ maxApplied \in Nat /\ maxApplied \in applied \cup {0}
  OBVIOUS
<1>1. CASE Migration!UpAll
  <2> DEFINE S == Versions \cup {maxApplied}
  <2>1. IsFiniteSet(S) BY FS_AddElement
  <2>2. S \in SUBSET Nat /\ S # {} BY <1>0
  <2>3. Migration!Max(S) \in S /\ \A x \in S : x <= Migration!Max(S)
    <3> HIDE DEF S
    <3> QED BY <2>1, <2>2, MaxIs
  <2>4. applied' = Versions /\ maxApplied' = Migration!Max(S)
    BY <1>1 DEF Migration!UpAll
  <2>5. maxApplied' \in Migration!Ends'
    <3>1. maxApplied' \in Versions \cup {0} BY <1>0, <2>3, <2>4
    <3>2. \A w \in Versions : w <= maxApplied' BY <2>3, <2>4
    <3> QED BY <2>4, <3>1, <3>2
  <2>6. applied' \in Migration!Promised!Prefixes BY <2>4
  <2> QED BY <2>4, <2>5, <2>6 DEF Migration!Promised!Next, Migration!Promised!UpAll
<1>2. CASE applied # Versions /\ Migration!UpOne
  <2> DEFINE v == Migration!Min(Versions \ applied)
  <2>1. Versions \ applied \in SUBSET Nat /\ Versions \ applied # {} BY <1>0, <1>2
  <2>2. v \in Versions \ applied /\ \A x \in Versions \ applied : v <= x BY <2>1, MinIs
  <2>3. {v, maxApplied} \in SUBSET Nat /\ {v, maxApplied} # {} BY <1>0, <2>2
  <2>4. IsFiniteSet({v, maxApplied})
    <3>1. IsFiniteSet({} \cup {v}) BY FS_EmptySet, FS_AddElement
    <3>2. IsFiniteSet(({} \cup {v}) \cup {maxApplied}) BY <3>1, FS_AddElement
    <3>3. ({} \cup {v}) \cup {maxApplied} = {v, maxApplied} OBVIOUS
    <3> QED BY <3>2, <3>3
  <2>5. applied' = applied \cup {v} /\ maxApplied' = Migration!Max({v, maxApplied})
    BY <1>2 DEF Migration!UpOne
  <2> HIDE DEF v
  <2>6. /\ maxApplied' \in {v, maxApplied}
        /\ \A x \in {v, maxApplied} : x <= maxApplied'
    BY <2>3, <2>4, <2>5, MaxIs
  <2>7. applied' \in Migration!Promised!Prefixes BY <1>0, <2>2, <2>5
  <2>8. maxApplied' \in Migration!Ends'
    <3>1. maxApplied' \in applied' \cup {0} BY <1>0, <2>5, <2>6
    <3>2. ASSUME NEW w \in applied' PROVE w <= maxApplied'
      BY <1>0, <2>2, <2>5, <2>6
    <3> QED BY <3>1, <3>2
  <2> QED BY <2>2, <2>5, <2>7, <2>8 DEF Migration!Promised!Next, Migration!Promised!UpOne
<1>3. CASE maxApplied # 0 /\ Migration!DownOne
  <2>1. applied' = applied \ {maxApplied} /\ maxApplied \in applied
    BY <1>0, <1>3 DEF Migration!DownOne
  <2>2. applied' \in Migration!Promised!Prefixes BY <1>0, <2>1
  <2>3. maxApplied' \in Migration!Ends'
    <3>1. CASE applied' = {} BY <1>3, <3>1 DEF Migration!DownOne, Migration!Highest
    <3>2. CASE applied' # {}
      <4>1. applied' \in SUBSET Nat /\ IsFiniteSet(applied') BY <1>0, <2>1, FS_Subset
      <4>2. maxApplied' = Migration!Max(applied')
        BY <1>3, <3>2 DEF Migration!DownOne, Migration!Highest
      <4>3. maxApplied' \in applied' /\ \A x \in applied' : x <= maxApplied'
        BY <3>2, <4>1, <4>2, MaxIs
      <4> QED BY <4>3
    <3> QED BY <3>1, <3>2
  <2> QED BY <2>1, <2>2, <2>3 DEF Migration!Promised!Next, Migration!Promised!DownOne
<1> QED BY <1>1, <1>2, <1>3 DEF Migration!Runs, Migration!NoChange

LEMMA MigrateStep ==
  ASSUME MigrateInv, Migration!Next \/ UNCHANGED migrateVars
  PROVE  MigrateInv' /\ [Migration!Promised!Next]_applied
<1>1. ASSUME UNCHANGED <<applied, maxApplied>> PROVE MigrateInv'
  BY <1>1 DEF MigrateInv, Migration!Promised!Prefixes, Migration!Ends
<1>2. \/ \E a : Migration!Runs(a)
      \/ UNCHANGED <<applied, maxApplied>>
  BY DEF Migration!Next, migrateVars, Migration!RunHeadless, Migration!ChooseAction,
         Migration!LoadStatus, Migration!RunMigration, Migration!ReadNewVersion,
         Migration!Answer, Migration!Quit, Migration!OnTaskDone, Migration!OnPicker,
         Migration!OnConfirm, Migration!migrator
<1> QED BY <1>1, <1>2, OperationStep

LEMMA MigrateStartsWell == Migration!Init => MigrateInv /\ Migration!Promised!Init
BY DEF Migration!Init, MigrateInv, Migration!Promised!Prefixes, Migration!Ends,
       Migration!Promised!Init

-----------------------------------------------------------------------------
Dirs == {p \in DOMAIN files : files[p] = Dir}

Data == [p \in {q \in DOMAIN files : files[q] # Dir} |-> files[p]]

MemTypes == /\ files \in [DOMAIN files -> Contents \cup {Dir}]
            /\ DOMAIN files \subseteq {<<>>} \cup Mem!Tree!Paths

\* The root is there, and so is every directory above an entry.
DirsAbove == /\ <<>> \in Dirs
             /\ \A p \in DOMAIN files : \A m \in 0..(Len(p) - 1) : SubSeq(p, 1, m) \in Dirs

MemInv == MemTypes /\ DirsAbove

LEMMA PathType ==
  ASSUME NEW p \in {<<>>} \cup Mem!Tree!Paths
  PROVE  /\ p \in Seq(Names)
         /\ p \in Mem!Tree!Paths => Len(p) \in 1..Depth /\ p # <<>>
<1> USE StandInsAssumption
<1>1. CASE p = <<>> /\ p \notin Mem!Tree!Paths BY <1>1
<1>2. CASE p \in Mem!Tree!Paths
  <2>1. PICK n \in 1..Depth : p \in [1..n -> Names] BY <1>2 DEF Mem!Tree!Paths
  <2>2. p \in Seq(Names) /\ Len(p) = n BY <2>1
  <2> QED BY <2>1, <2>2
<1> QED BY <1>1, <1>2

LEMMA PathPrefix ==
  ASSUME NEW p \in Seq(Names), NEW k \in 0..Len(p), NEW m \in 0..k
  PROVE  /\ Len(SubSeq(p, 1, k)) = k
         /\ SubSeq(SubSeq(p, 1, k), 1, m) = SubSeq(p, 1, m)
         /\ SubSeq(p, 1, k) \in Seq(Names)
OBVIOUS

\* A prefix of a path is the root or a path.
LEMMA PrefixPath ==
  ASSUME NEW p \in Mem!Tree!Paths, NEW k \in 0..Len(p)
  PROVE  SubSeq(p, 1, k) \in {<<>>} \cup Mem!Tree!Paths
<1>1. p \in Seq(Names) /\ Len(p) \in 1..Depth BY PathType
<1>2. CASE k = 0 BY <1>1, <1>2
<1>3. CASE k > 0
  <2>1. k \in 1..Depth BY <1>1, <1>3, StandInsAssumption
  <2>2. SubSeq(p, 1, k) = [i \in 1..k |-> p[i]] BY <1>1, <1>3
  <2>3. \A i \in 1..k : p[i] \in Names BY <1>1
  <2>4. SubSeq(p, 1, k) \in [1..k -> Names] BY <2>2, <2>3
  <2> QED BY <2>1, <2>4 DEF Mem!Tree!Paths
<1> QED BY <1>2, <1>3

LEMMA WholePath == ASSUME NEW p \in Seq(Names)
                   PROVE  SubSeq(p, 1, Len(p)) = p /\ SubSeq(p, 1, 0) = <<>>
OBVIOUS

LEMMA WriteFileStep ==
  ASSUME MemInv, NEW path \in Mem!Tree!Paths, NEW c \in Contents, Mem!WriteFile(path, c),
         files' # files
  PROVE  MemInv' /\ Mem!Tree!WriteFile(path, c)
<1> USE StandInsAssumption DEF MemInv, MemTypes, Dirs, Mem!IsDir, Mem!Has
<1>0. path \in Seq(Names) /\ Len(path) \in Nat \ {0} /\ path # <<>> BY PathType
<1>1. /\ ~Mem!IsDir(path) /\ Mem!ParentIsDir(path)
      /\ files' = [p \in DOMAIN files \cup {path} |-> IF p \in {path} THEN c ELSE files[p]]
  BY DEF Mem!WriteFile, Mem!Fails, Mem!Stores
<1>2. DOMAIN files' = DOMAIN files \cup {path} BY <1>1
<1>3. MemTypes' BY <1>1, <1>2
<1>4. Dirs' = Dirs BY <1>1, <1>2
<1>5. SubSeq(path, 1, Len(path) - 1) \in Dirs
  <2>1. CASE Len(path) = 1
    <3>1. SubSeq(path, 1, Len(path) - 1) = <<>> BY <1>0, <2>1, WholePath
    <3> QED BY <3>1 DEF DirsAbove
  <2>2. CASE Len(path) # 1 BY <1>0, <1>1, <2>2 DEF Mem!ParentIsDir, Mem!Seqs!Front
  <2> QED BY <2>1, <2>2
<1>6. ASSUME NEW m \in 0..(Len(path) - 1) PROVE SubSeq(path, 1, m) \in Dirs
  <2> DEFINE front == SubSeq(path, 1, Len(path) - 1)
  <2>1. Len(front) = Len(path) - 1 /\ SubSeq(front, 1, m) = SubSeq(path, 1, m)
    <3>1. Len(path) - 1 \in 0..Len(path) /\ m \in 0..(Len(path) - 1) BY <1>0
    <3> QED BY <1>0, <3>1, PathPrefix
  <2>2. CASE m = Len(path) - 1 BY <1>5, <2>2
  <2>3. CASE m # Len(path) - 1
    <3>1. m \in 0..(Len(front) - 1) BY <1>0, <2>1, <2>3
    <3>2. SubSeq(front, 1, m) \in Dirs BY <1>5, <3>1 DEF DirsAbove
    <3> QED BY <2>1, <3>2
  <2> QED BY <2>2, <2>3
<1>7. DirsAbove' BY <1>2, <1>4, <1>6 DEF DirsAbove
<1>8. Data' = [p \in DOMAIN Data \cup {path} |-> IF p = path THEN c ELSE Data[p]]
  BY <1>1, <1>2 DEF Data
<1>9. Mem!Tree!Seqs!Front(path) \in Dirs /\ path \notin Dirs
  BY <1>1, <1>5 DEF Mem!Tree!Seqs!Front
<1> QED BY <1>3, <1>4, <1>7, <1>8, <1>9 DEF Mem!Tree!WriteFile, Mem!Tree!Files, Data

LEMMA NearestIs ==
  ASSUME NEW path \in Seq(Names)
  PROVE  /\ Mem!Nearest(path) \in 0..Len(path)
         /\ Mem!Nearest(path) = 0 \/ Mem!Has(SubSeq(path, 1, Mem!Nearest(path)))
         /\ \A m \in (Mem!Nearest(path) + 1)..Len(path) : ~Mem!Has(SubSeq(path, 1, m))
<1> DEFINE S == {n \in 0..Len(path) : n = 0 \/ Mem!Has(SubSeq(path, 1, n))}
           Is(n) == /\ n = 0 \/ Mem!Has(SubSeq(path, 1, n))
                    /\ \A m \in (n + 1)..Len(path) : ~Mem!Has(SubSeq(path, 1, m))
<1>1. IsFiniteSet(S)
  <2>1. IsFiniteSet(0..Len(path)) BY FS_Interval
  <2> QED BY <2>1, FS_Subset
<1>2. S \in SUBSET Nat /\ 0 \in S OBVIOUS
<1>3. PICK g \in S : \A x \in S : x <= g
  <2> HIDE DEF S
  <2> QED BY <1>1, <1>2, HasGreatest
<1>4. \E n \in 0..Len(path) : Is(n) BY <1>3
<1>5. Mem!Nearest(path) = CHOOSE n \in 0..Len(path) : Is(n) BY DEF Mem!Nearest
<1> HIDE DEF Is
<1>6. Mem!Nearest(path) \in 0..Len(path) /\ Is(Mem!Nearest(path)) BY <1>4, <1>5
<1> QED BY <1>6 DEF Is

LEMMA MkdirAllStep ==
  ASSUME MemInv, NEW path \in Mem!Tree!Paths, Mem!MkdirAll(path), files' # files
  PROVE  MemInv' /\ Mem!Tree!MkdirAll(path)
<1> USE StandInsAssumption DEF MemInv
<1>0. path \in Seq(Names) /\ Len(path) \in Nat BY PathType
<1> DEFINE n == Mem!Nearest(path)
           New == {SubSeq(path, 1, m) : m \in (n + 1)..Len(path)}
<1>1. /\ n \in 0..Len(path)
      /\ n = 0 \/ Mem!Has(SubSeq(path, 1, n))
      /\ \A m \in (n + 1)..Len(path) : ~Mem!Has(SubSeq(path, 1, m))
  BY <1>0, NearestIs
<1>2. /\ n > 0 => Mem!IsDir(SubSeq(path, 1, n))
      /\ files' = [p \in DOMAIN files \cup New |-> IF p \in New THEN Dir ELSE files[p]]
  BY DEF Mem!MkdirAll, Mem!Fails, Mem!Stores
<1> HIDE DEF n
<1>3. SubSeq(path, 1, n) \in Dirs
  <2>1. CASE n = 0 BY <1>0, <2>1, WholePath DEF DirsAbove
  <2>2. CASE n # 0 BY <1>1, <1>2, <2>2 DEF Mem!IsDir, Mem!Has, Dirs
  <2> QED BY <2>1, <2>2
<1>4. ASSUME NEW m \in 0..n PROVE SubSeq(path, 1, m) \in Dirs
  <2>1. CASE m = n BY <1>3, <2>1
  <2>2. CASE m # n
    <3> DEFINE near == SubSeq(path, 1, n)
    <3>1. Len(near) = n /\ SubSeq(near, 1, m) = SubSeq(path, 1, m)
      BY <1>0, <1>1, PathPrefix
    <3>2. m \in 0..(Len(near) - 1) BY <1>1, <2>2, <3>1
    <3>3. near \in DOMAIN files BY <1>3 DEF Dirs
    <3>4. SubSeq(near, 1, m) \in Dirs BY <3>2, <3>3 DEF DirsAbove
    <3> QED BY <3>1, <3>4
  <2> QED BY <2>1, <2>2
<1>5. New \cap DOMAIN files = {} BY <1>1 DEF Mem!Has
<1>6. New \subseteq Mem!Tree!Paths
  <2> SUFFICES ASSUME NEW m \in (n + 1)..Len(path) PROVE SubSeq(path, 1, m) \in Mem!Tree!Paths
    OBVIOUS
  <2>1. m \in 0..Len(path) /\ m # 0 BY <1>1
  <2>2. Len(SubSeq(path, 1, m)) = m BY <1>0, <2>1, PathPrefix
  <2>3. SubSeq(path, 1, m) \in {<<>>} \cup Mem!Tree!Paths BY <2>1, PrefixPath
  <2>4. SubSeq(path, 1, m) # <<>> BY <2>1, <2>2
  <2> QED BY <2>3, <2>4
<1>7. Mem!Tree!Above(path) = {SubSeq(path, 1, m) : m \in 0..n} \cup New
  BY <1>0, <1>1 DEF Mem!Tree!Above
<1> HIDE DEF New
<1>8. DOMAIN files' = DOMAIN files \cup New /\ MemTypes'
  BY <1>2, <1>6 DEF MemTypes
<1>9. Dirs' = Dirs \cup New BY <1>2, <1>8 DEF Dirs
<1>10. Dirs' = Dirs \cup Mem!Tree!Above(path) BY <1>4, <1>7, <1>9
<1>11. Mem!Tree!Above(path) \cap DOMAIN Data = {}
  <2>1. DOMAIN Data = DOMAIN files \ Dirs BY DEF Data, Dirs
  <2> QED BY <1>4, <1>5, <1>7, <2>1
<1>12. Data' = Data
  <2>1. {q \in DOMAIN files' : files'[q] # Dir} = {q \in DOMAIN files : files[q] # Dir}
    <3>1. \A q \in DOMAIN files : files'[q] = files[q] BY <1>2, <1>5
    <3>2. \A q \in New : files'[q] = Dir BY <1>2
    <3> QED BY <1>8, <3>1, <3>2
  <2>2. \A q \in DOMAIN files : q \notin New => files'[q] = files[q] BY <1>2, <1>8
  <2> QED BY <1>5, <2>1, <2>2 DEF Data
<1>13. DirsAbove'
  <2>1. <<>> \in Dirs' BY <1>9 DEF DirsAbove
  <2>2. ASSUME NEW p \in DOMAIN files, NEW m \in 0..(Len(p) - 1)
        PROVE  SubSeq(p, 1, m) \in Dirs'
    BY <1>9 DEF DirsAbove
  <2>3. ASSUME NEW p \in New, NEW m \in 0..(Len(p) - 1)
        PROVE  SubSeq(p, 1, m) \in Dirs'
    <3>1. PICK k \in (n + 1)..Len(path) : p = SubSeq(path, 1, k) BY DEF New
    <3>2. k \in 0..Len(path) BY <1>1
    <3>3. Len(p) = k BY <1>0, <3>1, <3>2, PathPrefix
    <3>4. m \in 0..k BY <3>3
    <3>5. SubSeq(p, 1, m) = SubSeq(path, 1, m) BY <1>0, <3>1, <3>2, <3>4, PathPrefix
    <3>6. m \in 0..Len(path) BY <3>2, <3>4
    <3>7. SubSeq(path, 1, m) \in Mem!Tree!Above(path) BY <3>6 DEF Mem!Tree!Above
    <3> QED BY <1>10, <3>5, <3>7
  <2> QED BY <1>8, <2>1, <2>2, <2>3 DEF DirsAbove
<1> QED BY <1>8, <1>10, <1>11, <1>12, <1>13 DEF Mem!Tree!MkdirAll, Mem!Tree!Files, Data, Dirs

\* What is above an entry has it below.
LEMMA BelowIs ==
  ASSUME MemInv, NEW p \in DOMAIN files, NEW m \in 0..(Len(p) - 1),
         NEW path \in Mem!Tree!Paths, SubSeq(p, 1, m) = path
  PROVE  p \in Mem!Below(path)
<1>1. p \in Seq(Names) /\ path \in Seq(Names) BY PathType DEF MemInv, MemTypes
<1>2. m \in 0..Len(p) /\ m # Len(p) BY <1>1
<1>3. Len(path) = m BY <1>1, <1>2, PathPrefix
<1>4. SubSeq(path, 1, Len(path)) = path BY <1>1, WholePath
<1>5. p # path /\ Len(path) <= Len(p) BY <1>1, <1>2, <1>3
<1>6. SubSeq(path, 1, Len(path)) = SubSeq(p, 1, Len(path)) BY <1>3, <1>4
<1> QED BY <1>5, <1>6 DEF Mem!Below, Mem!Seqs!IsPrefix

LEMMA RemoveStep ==
  ASSUME MemInv, NEW path \in Mem!Tree!Paths, Mem!Remove(path), files' # files
  PROVE  MemInv' /\ Mem!Tree!Remove(path)
<1> USE DEF MemInv
<1>0. path \in Seq(Names) /\ path # <<>> BY PathType
<1>1. /\ path \in DOMAIN files
      /\ path \notin Dirs \/ Mem!Below(path) = {}
      /\ files' = [p \in DOMAIN files \ {path} |-> files[p]]
  BY DEF Mem!Remove, Mem!Fails, Mem!Has, Mem!IsDir, Dirs
<1>2. DOMAIN files' = DOMAIN files \ {path} /\ MemTypes' BY <1>1 DEF MemTypes
<1>3. Dirs' = Dirs \ {path} BY <1>1, <1>2 DEF Dirs
<1>4. ASSUME NEW p \in DOMAIN files, NEW m \in 0..(Len(p) - 1)
      PROVE  SubSeq(p, 1, m) # path
  <2> SUFFICES ASSUME SubSeq(p, 1, m) = path PROVE FALSE OBVIOUS
  <2>1. path \in Dirs BY DEF DirsAbove
  <2>2. p \in Mem!Below(path) BY BelowIs
  <2> QED BY <1>1, <2>1, <2>2
<1>5. DirsAbove' BY <1>0, <1>2, <1>3, <1>4 DEF DirsAbove
<1>6. CASE path \notin Dirs
  <2>1. Dirs' = Dirs BY <1>3, <1>6
  <2>2. Data' = [p \in DOMAIN Data \ {path} |-> Data[p]]
    <3>1. DOMAIN Data \ {path} = {q \in DOMAIN files' : files'[q] # Dir}
      BY <1>1, <1>2 DEF Data
    <3> QED BY <1>1, <1>2, <3>1 DEF Data
  <2>3. path \in DOMAIN Data BY <1>1, <1>6 DEF Data, Dirs
  <2> QED BY <1>2, <1>5, <2>1, <2>2, <2>3
       DEF Mem!Tree!Remove, Mem!Tree!Files, Data, Dirs
<1>7. CASE path \in Dirs
  <2>1. Data' = Data
    <3>1. {q \in DOMAIN files' : files'[q] # Dir} = {q \in DOMAIN files : files[q] # Dir}
      BY <1>1, <1>2, <1>7 DEF Dirs
    <3>2. \A q \in DOMAIN files' : files'[q] = files[q] BY <1>1, <1>2
    <3> QED BY <1>2, <3>1, <3>2 DEF Data
  <2>2. Mem!Tree!Children(path) = {}
    <3> SUFFICES ASSUME NEW p \in DOMAIN files, p # <<>>, Mem!Tree!Seqs!Front(p) = path
                 PROVE  FALSE
      BY DEF Mem!Tree!Children, Mem!Tree!Files
    <3>1. p \in Seq(Names) BY PathType DEF MemTypes
    <3>2. Len(p) - 1 \in 0..(Len(p) - 1) BY <3>1
    <3>3. SubSeq(p, 1, Len(p) - 1) = path BY DEF Mem!Tree!Seqs!Front
    <3> QED BY <1>4, <3>2, <3>3
  <2> QED BY <1>2, <1>3, <1>5, <1>7, <2>1, <2>2
       DEF Mem!Tree!Remove, Mem!Tree!Files, Data, Dirs
<1> QED BY <1>6, <1>7

LEMMA MemStep ==
  ASSUME MemInv, Mem!Next \/ UNCHANGED memVars
  PROVE  MemInv' /\ [Mem!Tree!Next]_<<Dirs, Data>>
<1>1. CASE files' = files BY <1>1 DEF MemInv, MemTypes, DirsAbove, Dirs, Data
<1>2. CASE files' # files
  <2>1. Mem!Next BY <1>2 DEF memVars
  <2>2. PICK path \in Mem!Tree!Paths :
          \/ \E c \in Contents : Mem!WriteFile(path, c)
          \/ Mem!MkdirAll(path) \/ Mem!Remove(path)
    BY <1>2, <2>1 DEF Mem!Next, Mem!ReadFile, Mem!Fails
  <2> QED BY <1>2, <2>2, WriteFileStep, MkdirAllStep, RemoveStep DEF Mem!Tree!Next
<1> QED BY <1>1, <1>2

LEMMA MemStartsWell == Mem!Init => MemInv /\ Mem!Tree!Init
<1> SUFFICES ASSUME Mem!Init PROVE MemInv /\ Mem!Tree!Init OBVIOUS
<1>1. files = [p \in {<<>>} |-> Dir] BY DEF Mem!Init
<1>2. Dirs = {<<>>} /\ DOMAIN files = {<<>>} BY <1>1 DEF Dirs
<1>3. {q \in DOMAIN files : files[q] # Dir} = {} BY <1>1
<1>4. Data = <<>> BY <1>3 DEF Data
<1>5. MemTypes BY <1>1 DEF MemTypes
<1>6. DirsAbove BY <1>2 DEF DirsAbove
<1> QED BY <1>2, <1>4, <1>5, <1>6 DEF MemInv, Mem!Tree!Init, Dirs, Data

\* The first name below a directory is that of a child.
LEMMA ChildBelow ==
  ASSUME NEW S, NEW path \in Seq(S), NEW p \in Seq(S), p # path, Mem!Seqs!IsPrefix(path, p)
  PROVE  /\ Len(path) < Len(p)
         /\ Append(path, p[Len(path) + 1]) = SubSeq(p, 1, Len(path) + 1)
<1>1. Len(path) <= Len(p) /\ SubSeq(path, 1, Len(path)) = SubSeq(p, 1, Len(path))
  BY DEF Mem!Seqs!IsPrefix
<1>2. \A i \in 1..Len(path) : path[i] = p[i]
  <2>1. \A i \in 1..Len(path) : SubSeq(path, 1, Len(path))[i] = path[i]
                                /\ SubSeq(p, 1, Len(path))[i] = p[i]
    BY <1>1
  <2> QED BY <1>1, <2>1
<1>3. Len(path) # Len(p) BY <1>2
<1>4. Len(path) < Len(p) BY <1>1, <1>3
<1>5. Append(path, p[Len(path) + 1]) = SubSeq(p, 1, Len(path) + 1) BY <1>2, <1>4
<1> QED BY <1>4, <1>5

LEMMA ListingsAreChildren == MemInv => Mem!ListsChildren
<1> SUFFICES ASSUME MemInv, NEW path \in DOMAIN files, Mem!IsDir(path),
                    NEW l \in Mem!Listings(path)
             PROVE  {Append(path, n) : n \in DOMAIN l} = Mem!Tree!Children(path)
  BY DEF Mem!ListsChildren
<1> DEFINE k == Len(path)
<1>1. \A p \in DOMAIN files : p \in Seq(Names) BY PathType DEF MemInv, MemTypes
<1>2. path \in Seq(Names) /\ k \in Nat BY <1>1
<1>3. Mem!Tree!Children(path) = {p \in DOMAIN files : p # <<>> /\ Mem!Tree!Seqs!Front(p) = path}
  BY DEF Mem!Tree!Children, Mem!Tree!Files
<1>4. DOMAIN l = {p[k + 1] : p \in Mem!Below(path)} BY DEF Mem!Listings
<1>5. ASSUME NEW p \in Mem!Below(path) PROVE Append(path, p[k + 1]) \in Mem!Tree!Children(path)
  <2> DEFINE q == SubSeq(p, 1, k + 1)
  <2>1. p \in DOMAIN files /\ p # path /\ Mem!Seqs!IsPrefix(path, p) BY DEF Mem!Below
  <2>2. p \in Seq(Names) BY <1>1, <2>1
  <2>3. k < Len(p) /\ Append(path, p[k + 1]) = q BY <1>2, <2>1, <2>2, ChildBelow
  <2>4. q \in DOMAIN files
    <3>1. CASE k + 1 = Len(p) BY <2>1, <2>2, <3>1, WholePath
    <3>2. CASE k + 1 # Len(p)
      <4>1. k + 1 \in 0..(Len(p) - 1) BY <1>2, <2>2, <2>3, <3>2
      <4> QED BY <2>1, <4>1 DEF MemInv, DirsAbove, Dirs
    <3> QED BY <3>1, <3>2
  <2>5. p[k + 1] \in Names BY <1>2, <2>2, <2>3
  <2>6. q # <<>> /\ Mem!Tree!Seqs!Front(q) = path
    <3>1. Append(path, p[k + 1]) # <<>>
          /\ SubSeq(Append(path, p[k + 1]), 1, Len(Append(path, p[k + 1])) - 1) = path
      BY <1>2, <2>5
    <3> QED BY <2>3, <3>1 DEF Mem!Tree!Seqs!Front
  <2> QED BY <1>3, <2>3, <2>4, <2>6
<1>6. ASSUME NEW q \in Mem!Tree!Children(path)
      PROVE  q \in Mem!Below(path) /\ q = Append(path, q[k + 1])
  <2>1. q \in DOMAIN files /\ q # <<>> /\ SubSeq(q, 1, Len(q) - 1) = path
    BY <1>3 DEF Mem!Tree!Seqs!Front
  <2>2. q \in Seq(Names) BY <1>1, <2>1
  <2>3. k = Len(q) - 1 BY <2>1, <2>2
  <2>4. q = Append(path, q[k + 1]) /\ q # path BY <2>1, <2>2, <2>3
  <2>5. SubSeq(path, 1, k) = SubSeq(q, 1, k) BY <1>2, <2>1, <2>3, WholePath
  <2>6. Mem!Seqs!IsPrefix(path, q) BY <2>2, <2>3, <2>5 DEF Mem!Seqs!IsPrefix
  <2> QED BY <2>1, <2>4, <2>6 DEF Mem!Below
<1> QED BY <1>4, <1>5, <1>6

-----------------------------------------------------------------------------
(* The chain of handlers.                                                  *)
\* What bodies are made of: the content of requests, and Recover's text.
Content == Requests \cup {Handlers!ErrorText}

ChainTypes == /\ chainPc \in [Requests -> {"none", "handling", "returning", "panicking",
                                           "done", "recovered"}]
              /\ zip \in [Requests -> BOOLEAN] /\ writes \in [Requests -> Nat]
              /\ gz \in [Requests -> Writers \cup {None}]
              /\ pool \subseteq Writers
              /\ target \in [Writers -> Requests \cup {None}]
              /\ kept \in [Writers -> Seq(Content)]
              /\ begun \in [Writers -> BOOLEAN]
              /\ sent \in [Requests -> Handlers!Statuses \cup {0}]
              /\ body \in [Requests -> Seq(Content)]
              /\ wrote \in [Requests -> [status : Handlers!Statuses, wrote : BOOLEAN]]
              /\ stats \in [Handlers!Statuses -> Nat]

\* A writer is one request's, writes to it and is not in the pool.
WritersApart ==
  \A r \in Requests : gz[r] # None =>
    /\ target[gz[r]] = r /\ gz[r] \notin pool
    /\ chainPc[r] \in {"handling", "returning", "panicking"}
    /\ \A q \in Requests : gz[q] = gz[r] => q = r

\* The content of a request is its own, with its client or in its writer, and what
\* Recover adds comes last.
AllAre(data, r) == \A i \in DOMAIN data : data[i] = r

ContentOf(r) ==
  IF chainPc[r] = "recovered" THEN body[r] = Append(Handlers!Own(r), Handlers!ErrorText)
  ELSE /\ AllAre(body[r], r)
       /\ gz[r] = None => Len(body[r]) = writes[r]
       /\ gz[r] # None => Len(body[r]) + Len(kept[gz[r]]) = writes[r] /\ AllAre(kept[gz[r]], r)

ContentWhole == \A r \in Requests : ContentOf(r)

\* The recorder has seen the status that the client got, if anybody set one.
SeenRight(r) == /\ wrote[r].wrote => sent[r] = wrote[r].status
                /\ ~wrote[r].wrote => sent[r] = 0 /\ wrote[r].status = 200

StatusSeen == \A r \in Requests :
                chainPc[r] \in {"none", "handling", "returning", "panicking"} => SeenRight(r)

ChainInv == ChainTypes /\ WritersApart /\ ContentWhole /\ StatusSeen /\ Handlers!TrafficAgrees

\* The statuses of all requests but one stay.
OnlyOf(r) == /\ sent' \in [Requests -> Handlers!Statuses \cup {0}]
             /\ wrote' \in [Requests -> [status : Handlers!Statuses, wrote : BOOLEAN]]
             /\ \A q \in Requests \ {r} : sent'[q] = sent[q] /\ wrote'[q] = wrote[q]
             /\ SeenRight(r)'

LEMMA HeaderIs ==
  ASSUME ChainTypes, NEW r \in Requests, SeenRight(r), NEW code \in Handlers!Statuses,
         Handlers!SendHeader(r, code)
  PROVE  OnlyOf(r)
<1> DEFINE Seen == [status : Handlers!Statuses, wrote : BOOLEAN]
<1>1. wrote[r] \in Seen /\ sent[r] \in Handlers!Statuses \cup {0} BY DEF ChainTypes
<1>2. sent' = [sent EXCEPT ![r] = IF sent[r] = 0 THEN code ELSE sent[r]]
  BY DEF Handlers!SendHeader, Handlers!Settled
<1>3. wrote' = [wrote EXCEPT ![r] = IF wrote[r].wrote THEN wrote[r]
                                    ELSE [status |-> code, wrote |-> TRUE]]
  BY DEF Handlers!SendHeader, Handlers!Seen
<1>4. wrote'[r] = IF wrote[r].wrote THEN wrote[r] ELSE [status |-> code, wrote |-> TRUE]
  BY <1>3 DEF ChainTypes
<1>5. sent'[r] = IF sent[r] = 0 THEN code ELSE sent[r] BY <1>2 DEF ChainTypes
<1>6. wrote'[r] \in Seen BY <1>1, <1>4
<1>7. wrote' \in [Requests -> Seen] BY <1>3, <1>6 DEF ChainTypes
<1>8. sent' \in [Requests -> Handlers!Statuses \cup {0}] BY <1>1, <1>2 DEF ChainTypes
<1>9. SeenRight(r)'
  <2>1. CASE wrote[r].wrote
    <3>1. sent[r] = wrote[r].status /\ sent[r] # 0
      BY <1>1, <2>1 DEF SeenRight, Handlers!Statuses
    <3> QED BY <1>4, <1>5, <2>1, <3>1 DEF SeenRight
  <2>2. CASE ~wrote[r].wrote
    <3>1. sent'[r] = code BY <1>5, <2>2 DEF SeenRight
    <3>2. wrote'[r].wrote /\ wrote'[r].status = code BY <1>4, <2>2
    <3> QED BY <3>1, <3>2 DEF SeenRight
  <2> QED BY <2>1, <2>2
<1>10. \A q \in Requests \ {r} : sent'[q] = sent[q] /\ wrote'[q] = wrote[q]
  BY <1>2, <1>3 DEF ChainTypes
<1> QED BY <1>7, <1>8, <1>9, <1>10 DEF OnlyOf

LEMMA SendIs ==
  ASSUME ChainTypes, NEW r \in Requests, SeenRight(r), NEW c \in Seq(Content),
         Handlers!Send(r, c)
  PROVE  /\ OnlyOf(r)
         /\ body' \in [Requests -> Seq(Content)] /\ body'[r] = body[r] \o c
         /\ \A q \in Requests \ {r} : body'[q] = body[q]
<1> DEFINE Seen == [status : Handlers!Statuses, wrote : BOOLEAN]
<1>1. wrote[r] \in Seen /\ sent[r] \in Handlers!Statuses \cup {0} /\ body[r] \in Seq(Content)
  BY DEF ChainTypes
<1>2. sent' = [sent EXCEPT ![r] = IF sent[r] = 0 THEN 200 ELSE sent[r]]
  BY DEF Handlers!Send, Handlers!Settled
<1>3. wrote' = [wrote EXCEPT ![r].wrote = TRUE] /\ body' = [body EXCEPT ![r] = @ \o c]
  BY DEF Handlers!Send
<1>4. wrote'[r] = [wrote[r] EXCEPT !.wrote = TRUE] /\ body'[r] = body[r] \o c
  BY <1>3 DEF ChainTypes
<1>5. sent'[r] = IF sent[r] = 0 THEN 200 ELSE sent[r] BY <1>2 DEF ChainTypes
<1>6. wrote'[r] \in Seen /\ wrote'[r].wrote /\ wrote'[r].status = wrote[r].status
  BY <1>1, <1>4
<1>7. wrote' \in [Requests -> Seen]
  <2>1. \A q \in Requests \ {r} : wrote'[q] = wrote[q] BY <1>3 DEF ChainTypes
  <2>2. DOMAIN wrote' = Requests BY <1>3 DEF ChainTypes
  <2>3. \A q \in Requests : wrote'[q] \in Seen BY <1>6, <2>1 DEF ChainTypes
  <2> QED BY <1>3, <2>2, <2>3 DEF ChainTypes
<1>8. sent' \in [Requests -> Handlers!Statuses \cup {0}]
  BY <1>1, <1>2 DEF ChainTypes, Handlers!Statuses
<1>9. SeenRight(r)'
  <2>1. CASE wrote[r].wrote
    <3>1. sent[r] = wrote[r].status /\ sent[r] # 0
      BY <1>1, <2>1 DEF SeenRight, Handlers!Statuses
    <3> QED BY <1>5, <1>6, <3>1 DEF SeenRight
  <2>2. CASE ~wrote[r].wrote
    <3>1. sent'[r] = 200 /\ wrote[r].status = 200 BY <1>5, <2>2 DEF SeenRight
    <3> QED BY <1>6, <3>1 DEF SeenRight
  <2> QED BY <2>1, <2>2
<1>10. \A q \in Requests \ {r} : sent'[q] = sent[q] /\ wrote'[q] = wrote[q]
  BY <1>2, <1>3 DEF ChainTypes
<1>11. body[r] \o c \in Seq(Content) BY <1>1
<1>12. body' \in [Requests -> Seq(Content)] BY <1>3, <1>11 DEF ChainTypes
<1>13. \A q \in Requests \ {r} : body'[q] = body[q] BY <1>3 DEF ChainTypes
<1> QED BY <1>4, <1>7, <1>8, <1>9, <1>10, <1>12, <1>13 DEF OnlyOf

\* The requests counted stay as they are while those that are done do.
LEMMA CountStays ==
  ASSUME Handlers!TrafficAgrees, stats' = stats,
         \A q \in Requests : (chainPc'[q] = "done" <=> chainPc[q] = "done")
                              /\ (chainPc[q] = "done" => sent'[q] = sent[q])
  PROVE  Handlers!TrafficAgrees'
<1>1. \A code : Handlers!Counted(code)' = Handlers!Counted(code) BY DEF Handlers!Counted
<1> QED BY <1>1 DEF Handlers!TrafficAgrees

LEMMA JoinAre ==
  ASSUME NEW r \in Requests, NEW s \in Seq(Content), NEW t \in Seq(Content),
         AllAre(s, r), AllAre(t, r)
  PROVE  /\ s \o t \in Seq(Content) /\ AllAre(s \o t, r)
         /\ Len(s \o t) = Len(s) + Len(t)
<1>1. \A i \in 1..Len(s) : s[i] = r BY DEF AllAre
<1>2. \A i \in 1..Len(t) : t[i] = r BY DEF AllAre
<1>3. /\ s \o t \in Seq(Content) /\ Len(s \o t) = Len(s) + Len(t)
      /\ DOMAIN (s \o t) = 1..(Len(s) + Len(t))
      /\ \A i \in 1..(Len(s) + Len(t)) : (s \o t)[i] = IF i <= Len(s) THEN s[i] ELSE t[i - Len(s)]
  OBVIOUS
<1>4. ASSUME NEW i \in 1..(Len(s) + Len(t)) PROVE (s \o t)[i] = r
  <2>1. Len(s) \in Nat /\ Len(t) \in Nat OBVIOUS
  <2>2. CASE i <= Len(s) BY <1>1, <1>3, <2>1, <2>2
  <2>3. CASE i > Len(s)
    <3>1. i - Len(s) \in 1..Len(t) BY <2>1, <2>3
    <3> QED BY <1>2, <1>3, <2>1, <2>3, <3>1
  <2> QED BY <2>1, <2>2, <2>3
<1> QED BY <1>3, <1>4 DEF AllAre

LEMMA OneIs ==
  ASSUME NEW r \in Requests
  PROVE  /\ <<r>> \in Seq(Content) /\ AllAre(<<r>>, r) /\ Len(<<r>>) = 1
         /\ <<>> \in Seq(Content) /\ AllAre(<<>>, r) /\ Len(<<>>) = 0
BY DEF AllAre, Content

\* All that a handler wrote, from the parts of it.
LEMMA AllIsOwn ==
  ASSUME ChainTypes, NEW r \in Requests, AllAre(body[r], r), Len(body[r]) = writes[r]
  PROVE  body[r] = Handlers!Own(r)
<1>1. body[r] \in Seq(Content) BY DEF ChainTypes
<1>2. body[r] = [i \in 1..Len(body[r]) |-> body[r][i]] /\ DOMAIN body[r] = 1..Len(body[r])
  BY <1>1
<1>3. \A i \in 1..writes[r] : body[r][i] = r BY <1>2 DEF AllAre
<1> QED BY <1>2, <1>3 DEF Handlers!Own

LEMMA EnterStep ==
  ASSUME ChainInv, NEW r \in Requests, Handlers!Enter(r) PROVE ChainInv'
<1> USE DEF ChainInv
<1>1. /\ chainPc[r] = "none" /\ chainPc' = [chainPc EXCEPT ![r] = "handling"]
      /\ UNCHANGED <<zip, writes, sent, body, wrote, stats>>
  BY DEF Handlers!Enter, Handlers!Goto
<1>2. gz[r] = None /\ Len(body[r]) = writes[r] /\ AllAre(body[r], r)
  BY <1>1 DEF WritersApart, ContentWhole, ContentOf
<1>3. StatusSeen' BY <1>1 DEF StatusSeen, SeenRight, ChainTypes
<1>4. Handlers!TrafficAgrees'
  <2>1. \A q \in Requests : (chainPc'[q] = "done" <=> chainPc[q] = "done") /\ sent'[q] = sent[q]
    BY <1>1 DEF ChainTypes
  <2> QED BY <1>1, <2>1, CountStays
<1>5. CASE zip[r]
  <2>1. PICK w \in pool : /\ gz' = [gz EXCEPT ![r] = w]
                          /\ pool' = pool \ {w}
                          /\ target' = [target EXCEPT ![w] = r]
                          /\ kept' = [kept EXCEPT ![w] = <<>>]
                          /\ begun' = [begun EXCEPT ![w] = FALSE]
    BY <1>5 DEF Handlers!Enter, Handlers!Target
  <2>2. w \in Writers /\ w # None BY HandedOutAssumption DEF ChainTypes
  <2>3. ChainTypes' BY <1>1, <2>1, <2>2, OneIs DEF ChainTypes
  <2>4. /\ gz'[r] = w /\ \A q \in Requests \ {r} : gz'[q] = gz[q]
        /\ target'[w] = r /\ \A u \in Writers \ {w} : target'[u] = target[u]
        /\ kept'[w] = <<>> /\ \A u \in Writers \ {w} : kept'[u] = kept[u]
        /\ chainPc'[r] = "handling" /\ \A q \in Requests \ {r} : chainPc'[q] = chainPc[q]
    BY <1>1, <2>1, <2>2 DEF ChainTypes
  <2>5. \A q \in Requests : gz[q] # w BY <2>2 DEF WritersApart
  <2>6. \A q \in Requests : gz[q] # None => gz[q] \in Writers BY DEF ChainTypes
  <2>7. WritersApart' BY <2>1, <2>2, <2>4, <2>5, <2>6 DEF WritersApart
  <2>8. ASSUME NEW q \in Requests PROVE ContentOf(q)'
    <3>1. CASE q = r
      <4>1. body'[r] = body[r] /\ writes'[r] = writes[r] /\ Len(body[r]) \in Nat
        BY <1>1 DEF ChainTypes
      <4>2. kept'[gz'[r]] = <<>> /\ gz'[r] # None BY <2>2, <2>4
      <4>3. AllAre(kept'[gz'[r]], r) /\ Len(kept'[gz'[r]]) = 0 BY <4>2, OneIs
      <4>4. AllAre(body'[r], r) /\ Len(body'[r]) + Len(kept'[gz'[r]]) = writes'[r]
        BY <1>2, <4>1, <4>3
      <4> QED BY <2>4, <3>1, <4>2, <4>3, <4>4 DEF ContentOf, AllAre, Handlers!Own
    <3>2. CASE q # r
      <4>1. gz'[q] = gz[q] /\ (gz[q] # None => kept'[gz[q]] = kept[gz[q]])
        BY <2>4, <2>5, <2>6, <3>2
      <4>2. ContentOf(q) /\ chainPc'[q] = chainPc[q] BY <2>4, <3>2 DEF ContentWhole
      <4> QED BY <1>1, <4>1, <4>2 DEF ContentOf, AllAre, Handlers!Own
    <3> QED BY <3>1, <3>2
  <2> QED BY <1>3, <1>4, <2>3, <2>7, <2>8 DEF ContentWhole
<1>6. CASE ~zip[r]
  <2>1. UNCHANGED <<gz, pool, target, kept, begun>>
    BY <1>6 DEF Handlers!Enter, Handlers!gzipVars
  <2>2. ChainTypes' BY <1>1, <2>1 DEF ChainTypes
  <2>3. WritersApart' BY <1>1, <1>2, <2>1 DEF WritersApart, ChainTypes
  <2>4. ASSUME NEW q \in Requests PROVE ContentOf(q)'
    <3>1. ContentOf(q) BY DEF ContentWhole
    <3>2. chainPc'[q] = "recovered" <=> chainPc[q] = "recovered" BY <1>1 DEF ChainTypes
    <3> QED BY <1>1, <2>1, <3>1, <3>2 DEF ContentOf, AllAre, Handlers!Own
  <2> QED BY <1>3, <1>4, <2>2, <2>3, <2>4 DEF ContentWhole
<1> QED BY <1>5, <1>6

\* A step that sets statuses of one request, if any, before it is over.
LEMMA StatusStep ==
  ASSUME ChainInv, NEW r \in Requests, OnlyOf(r) \/ UNCHANGED <<sent, wrote>>,
         chainPc[r] \in {"handling", "returning", "panicking"},
         UNCHANGED <<chainPc, stats>>
  PROVE  StatusSeen' /\ Handlers!TrafficAgrees'
<1> USE DEF ChainInv
<1>1. StatusSeen'
  <2>1. CASE OnlyOf(r)
    <3>1. SeenRight(r)' BY <2>1 DEF OnlyOf
    <3>2. \A q \in Requests \ {r} : SeenRight(q) => SeenRight(q)'
      BY <2>1 DEF OnlyOf, SeenRight
    <3> QED BY <3>1, <3>2 DEF StatusSeen
  <2>2. CASE UNCHANGED <<sent, wrote>> BY <2>2 DEF StatusSeen, SeenRight
  <2> QED BY <2>1, <2>2
<1>2. \A q \in Requests : chainPc[q] = "done" => sent'[q] = sent[q] BY DEF OnlyOf
<1>3. Handlers!TrafficAgrees' BY <1>2, CountStays
<1> QED BY <1>1, <1>3

LEMMA WriteStep ==
  ASSUME ChainInv, NEW r \in Requests, Handlers!HandlerWrites(r) PROVE ChainInv'
<1> USE DEF ChainInv
<1>1. /\ chainPc[r] = "handling" /\ UNCHANGED <<chainPc, zip, stats, gz, pool, target>>
      /\ writes' = [writes EXCEPT ![r] = @ + 1]
  BY DEF Handlers!HandlerWrites, Handlers!gzipVars
<1>2. /\ writes' \in [Requests -> Nat] /\ writes'[r] = writes[r] + 1 /\ writes[r] \in Nat
      /\ \A q \in Requests \ {r} : writes'[q] = writes[q]
  BY <1>1 DEF ChainTypes
<1>3. SeenRight(r) BY <1>1 DEF StatusSeen
<1>4. body[r] \in Seq(Content) /\ AllAre(body[r], r)
  BY <1>1 DEF ChainTypes, ContentWhole, ContentOf
<1>5. WritersApart' BY <1>1 DEF WritersApart
<1>6. CASE gz[r] = None
  <2>1. Handlers!Send(r, <<r>>) /\ UNCHANGED <<kept, begun>>
    BY <1>6 DEF Handlers!HandlerWrites, Handlers!gzipVars
  <2>2. /\ OnlyOf(r) /\ body' \in [Requests -> Seq(Content)] /\ body'[r] = body[r] \o <<r>>
        /\ \A q \in Requests \ {r} : body'[q] = body[q]
    BY <1>3, <2>1, OneIs, SendIs
  <2>3. ChainTypes' BY <1>1, <1>2, <2>1, <2>2 DEF ChainTypes, OnlyOf
  <2>4. StatusSeen' /\ Handlers!TrafficAgrees' BY <1>1, <2>2, StatusStep
  <2>5. ASSUME NEW q \in Requests PROVE ContentOf(q)'
    <3>1. CASE q = r
      <4>1. AllAre(body'[r], r) /\ Len(body'[r]) = Len(body[r]) + 1
        <5>1. <<r>> \in Seq(Content) /\ AllAre(<<r>>, r) /\ Len(<<r>>) = 1 BY OneIs
        <5>2. /\ AllAre(body[r] \o <<r>>, r)
              /\ Len(body[r] \o <<r>>) = Len(body[r]) + Len(<<r>>)
          BY <1>4, <5>1, JoinAre
        <5>3. body'[r] = body[r] \o <<r>> BY <2>2
        <5>4. AllAre(body'[r], r) BY <5>2, <5>3
        <5>5. Len(body'[r]) = Len(body[r]) + Len(<<r>>) BY <5>2, <5>3
        <5> QED BY <5>1, <5>4, <5>5
      <4>2. Len(body[r]) = writes[r] BY <1>1, <1>6 DEF ContentWhole, ContentOf
      <4> QED BY <1>1, <1>2, <1>6, <3>1, <4>1, <4>2 DEF ContentOf, AllAre, Handlers!Own
    <3>2. CASE q # r
      <4>1. ContentOf(q) BY DEF ContentWhole
      <4> QED BY <1>1, <1>2, <2>1, <2>2, <3>2, <4>1 DEF ContentOf, AllAre, Handlers!Own
    <3> QED BY <3>1, <3>2
  <2> QED BY <1>5, <2>3, <2>4, <2>5 DEF ContentWhole
<1>7. CASE gz[r] # None
  <2> DEFINE w == gz[r]
  <2>1. /\ begun' = [begun EXCEPT ![w] = TRUE]
        /\ \/ /\ Handlers!Send(target[w], kept[w] \o <<r>>)
              /\ kept' = [kept EXCEPT ![w] = <<>>]
           \/ /\ kept' = [kept EXCEPT ![w] = Append(@, r)]
              /\ UNCHANGED <<sent, body, wrote>> \/ Handlers!Send(target[w], <<>>)
    BY <1>7 DEF Handlers!HandlerWrites
  <2>2. w \in Writers /\ target[w] = r /\ kept[w] \in Seq(Content) /\ AllAre(kept[w], r)
        /\ Len(body[r]) + Len(kept[w]) = writes[r]
        /\ \A q \in Requests \ {r} : gz[q] # w
    <3>1. AllAre(kept[w], r) /\ Len(body[r]) + Len(kept[w]) = writes[r]
      BY <1>1, <1>7 DEF ContentWhole, ContentOf
    <3> QED BY <1>7, <3>1 DEF ChainTypes, WritersApart
  <2>3. Len(body[r]) \in Nat /\ Len(kept[w]) \in Nat BY <1>4, <2>2
  <2>4. kept[w] \o <<r>> \in Seq(Content) /\ AllAre(kept[w] \o <<r>>, r)
        /\ Len(kept[w] \o <<r>>) = Len(kept[w]) + 1
    BY <2>2, OneIs, JoinAre
  <2>5. Append(kept[w], r) = kept[w] \o <<r>> BY <2>2
  \* What the client has and what the writer keeps, afterwards.
  <2>6. /\ OnlyOf(r) \/ UNCHANGED <<sent, wrote>>
        /\ body' \in [Requests -> Seq(Content)] /\ kept' \in [Writers -> Seq(Content)]
        /\ \A q \in Requests \ {r} : body'[q] = body[q]
        /\ \A u \in Writers \ {w} : kept'[u] = kept[u]
        /\ AllAre(body'[r], r) /\ AllAre(kept'[w], r)
        /\ Len(body'[r]) + Len(kept'[w]) = writes[r] + 1
    <3> HIDE DEF w
    <3>1. CASE Handlers!Send(r, kept[w] \o <<r>>) /\ kept' = [kept EXCEPT ![w] = <<>>]
      <4>1. /\ OnlyOf(r) /\ body' \in [Requests -> Seq(Content)]
            /\ body'[r] = body[r] \o (kept[w] \o <<r>>)
            /\ \A q \in Requests \ {r} : body'[q] = body[q]
        BY <1>3, <2>4, <3>1, SendIs
      <4>2. AllAre(body'[r], r) /\ Len(body'[r]) = Len(body[r]) + Len(kept[w]) + 1
        <5> DEFINE c == kept[w] \o <<r>>
        <5>1. c \in Seq(Content) /\ AllAre(c, r) /\ Len(c) = Len(kept[w]) + 1 BY <2>4
        <5>2. body'[r] = body[r] \o c BY <4>1
        <5> HIDE DEF c
        <5>3. AllAre(body[r] \o c, r) /\ Len(body[r] \o c) = Len(body[r]) + Len(c)
          BY <1>4, <5>1, JoinAre
        <5>4. AllAre(body'[r], r) BY <5>2, <5>3
        <5>5. Len(body'[r]) = Len(body[r]) + Len(c) BY <5>2, <5>3
        <5>6. Len(body'[r]) = Len(body[r]) + Len(kept[w]) + 1
          <6> DEFINE a == Len(body[r])
                     b == Len(kept[w])
                     d == Len(c)
                     e == Len(body'[r])
          <6>1. a \in Nat /\ b \in Nat /\ d = b + 1 /\ e = a + d BY <2>3, <5>1, <5>5
          <6> HIDE DEF a, b, d, e
          <6>2. e = a + b + 1 BY <6>1
          <6> QED BY <6>2 DEF a, b, e
        <5> QED BY <5>4, <5>6
      <4>3. kept'[w] = <<>> /\ kept' \in [Writers -> Seq(Content)]
            /\ \A u \in Writers \ {w} : kept'[u] = kept[u]
        BY <2>2, <3>1, OneIs DEF ChainTypes
      <4>4. AllAre(kept'[w], r) /\ Len(kept'[w]) = 0 BY <4>3, OneIs
      <4>5. Len(body'[r]) + Len(kept'[w]) = writes[r] + 1
        <5>1. Len(body'[r]) = Len(body[r]) + Len(kept[w]) + 1 BY <4>2
        <5>2. Len(body[r]) + Len(kept[w]) = writes[r] BY <2>2
        <5> DEFINE a == Len(body[r])
                   b == Len(kept[w])
                   d == Len(body'[r])
                   e == Len(kept'[w])
        <5>3. a \in Nat /\ b \in Nat /\ d = a + b + 1 /\ e = 0 /\ a + b = writes[r]
          BY <2>3, <4>4, <5>1, <5>2
        <5> HIDE DEF a, b, d, e
        <5>4. d + e = writes[r] + 1 BY <5>3
        <5> QED BY <5>4 DEF d, e
      <4> QED BY <4>1, <4>2, <4>3, <4>4, <4>5
    <3>2. CASE /\ kept' = [kept EXCEPT ![w] = Append(@, r)]
               /\ UNCHANGED <<sent, body, wrote>> \/ Handlers!Send(r, <<>>)
      <4>1. /\ OnlyOf(r) \/ UNCHANGED <<sent, wrote>>
            /\ body' \in [Requests -> Seq(Content)] /\ body'[r] = body[r]
            /\ \A q \in Requests \ {r} : body'[q] = body[q]
        <5>1. CASE UNCHANGED <<sent, body, wrote>> BY <5>1 DEF ChainTypes
        <5>2. CASE Handlers!Send(r, <<>>)
          <6>1. /\ OnlyOf(r) /\ body' \in [Requests -> Seq(Content)]
                /\ body'[r] = body[r] \o <<>>
                /\ \A q \in Requests \ {r} : body'[q] = body[q]
            BY <1>3, <5>2, OneIs, SendIs
          <6>2. body[r] \o <<>> = body[r] BY <1>4
          <6> QED BY <6>1, <6>2
        <5> QED BY <3>2, <5>1, <5>2
      <4>2. kept'[w] = kept[w] \o <<r>> /\ kept' \in [Writers -> Seq(Content)]
            /\ \A u \in Writers \ {w} : kept'[u] = kept[u]
        BY <2>2, <2>4, <2>5, <3>2 DEF ChainTypes
      <4>3. Len(kept'[w]) = Len(kept[w]) + 1 /\ AllAre(kept'[w], r) BY <2>4, <4>2
      <4>4. Len(body'[r]) + Len(kept'[w]) = writes[r] + 1
        <5>1. Len(body'[r]) = Len(body[r]) BY <4>1
        <5>2. Len(body[r]) + Len(kept[w]) = writes[r] BY <2>2
        <5> DEFINE a == Len(body[r])
                   b == Len(kept[w])
                   d == Len(body'[r])
                   e == Len(kept'[w])
        <5>3. a \in Nat /\ b \in Nat /\ d = a /\ e = b + 1 /\ a + b = writes[r]
          BY <2>3, <4>3, <5>1, <5>2
        <5> HIDE DEF a, b, d, e
        <5>4. d + e = writes[r] + 1 BY <5>3
        <5> QED BY <5>4 DEF d, e
      <4>5. AllAre(body'[r], r) BY <1>4, <4>1
      <4> QED BY <4>1, <4>2, <4>3, <4>4, <4>5
    <3> QED BY <2>1, <2>2, <3>1, <3>2
  <2>7. ChainTypes' BY <1>1, <1>2, <2>1, <2>2, <2>6 DEF ChainTypes, OnlyOf
  <2>8. StatusSeen' /\ Handlers!TrafficAgrees' BY <1>1, <2>6, StatusStep
  <2>9. ASSUME NEW q \in Requests PROVE ContentOf(q)'
    <3>1. CASE q = r BY <1>1, <1>2, <1>7, <2>6, <3>1 DEF ContentOf, AllAre, Handlers!Own
    <3>2. CASE q # r
      <4>1. ContentOf(q) BY DEF ContentWhole
      <4>2. gz[q] # None => kept'[gz[q]] = kept[gz[q]] BY <2>2, <2>6, <3>2 DEF ChainTypes
      <4> QED BY <1>1, <1>2, <2>6, <3>2, <4>1, <4>2 DEF ContentOf, AllAre, Handlers!Own
    <3> QED BY <3>1, <3>2
  <2> QED BY <1>5, <2>7, <2>8, <2>9 DEF ContentWhole
<1> QED BY <1>6, <1>7

LEMMA CloseStep ==
  ASSUME ChainInv, NEW r \in Requests, Handlers!CloseGzip(r) PROVE ChainInv'
<1> USE DEF ChainInv
<1> DEFINE w == gz[r]
<1>1. /\ chainPc[r] \in {"handling", "returning", "panicking"} /\ w # None
      /\ UNCHANGED <<chainPc, zip, writes, stats, target, begun>>
      /\ Handlers!Send(target[w], kept[w])
      /\ kept' = [kept EXCEPT ![w] = <<>>] /\ pool' = pool \cup {w}
      /\ gz' = [gz EXCEPT ![r] = None]
  BY DEF Handlers!CloseGzip
<1>2. w \in Writers /\ target[w] = r /\ kept[w] \in Seq(Content) /\ AllAre(kept[w], r)
      /\ Len(body[r]) + Len(kept[w]) = writes[r]
      /\ \A q \in Requests \ {r} : gz[q] # w
  BY <1>1 DEF ChainTypes, WritersApart, ContentWhole, ContentOf
<1>3. SeenRight(r) BY <1>1 DEF StatusSeen
<1>4. body[r] \in Seq(Content) /\ AllAre(body[r], r)
  BY <1>1 DEF ChainTypes, ContentWhole, ContentOf
<1>5. /\ gz'[r] = None /\ \A q \in Requests \ {r} : gz'[q] = gz[q]
      /\ \A u \in Writers \ {w} : kept'[u] = kept[u]
  BY <1>1, <1>2 DEF ChainTypes
<1> HIDE DEF w
<1>6. /\ OnlyOf(r) /\ body' \in [Requests -> Seq(Content)] /\ body'[r] = body[r] \o kept[w]
      /\ \A q \in Requests \ {r} : body'[q] = body[q]
  <2>1. Handlers!Send(r, kept[w]) BY <1>1, <1>2
  <2> QED BY <1>2, <1>3, <2>1, SendIs
<1>7. AllAre(body'[r], r) /\ Len(body'[r]) = writes[r]
  <2>1. /\ AllAre(body[r] \o kept[w], r)
        /\ Len(body[r] \o kept[w]) = Len(body[r]) + Len(kept[w])
    BY <1>2, <1>4, JoinAre
  <2> QED BY <1>2, <1>6, <2>1
<1>8. ChainTypes'
  <2>1. kept' \in [Writers -> Seq(Content)] BY <1>1, <1>2, OneIs DEF ChainTypes
  <2>2. gz' \in [Requests -> Writers \cup {None}] /\ pool' \subseteq Writers
    BY <1>1, <1>2 DEF ChainTypes
  <2> QED BY <1>1, <1>6, <2>1, <2>2 DEF ChainTypes, OnlyOf
<1>9. StatusSeen' /\ Handlers!TrafficAgrees' BY <1>1, <1>6, StatusStep
<1>10. WritersApart' BY <1>1, <1>2, <1>5 DEF WritersApart
<1>11. ASSUME NEW q \in Requests PROVE ContentOf(q)'
  <2>1. CASE q = r BY <1>1, <1>5, <1>7, <2>1 DEF ContentOf, AllAre, Handlers!Own
  <2>2. CASE q # r
    <3>1. ContentOf(q) BY DEF ContentWhole
    <3>2. gz'[q] = gz[q] /\ (gz[q] # None => kept'[gz[q]] = kept[gz[q]])
      BY <1>2, <1>5, <2>2 DEF ChainTypes
    <3> QED BY <1>1, <1>6, <2>2, <3>1, <3>2 DEF ContentOf, AllAre, Handlers!Own
  <2> QED BY <2>1, <2>2
<1> QED BY <1>8, <1>9, <1>10, <1>11 DEF ContentWhole

\* One request more is done, and is counted under the status that it got.
LEMMA RecordStep ==
  ASSUME ChainInv, NEW r \in Requests, Handlers!Record(r) PROVE ChainInv'
<1> USE DEF ChainInv
<1> DEFINE code == wrote[r].status
<1>1. /\ chainPc[r] = "returning" /\ gz[r] = None
      /\ UNCHANGED <<zip, writes, gz, pool, target, kept, begun, body, wrote>>
      /\ stats' = [stats EXCEPT ![code] = @ + 1]
      /\ sent' = [sent EXCEPT ![r] = IF sent[r] = 0 THEN 200 ELSE sent[r]]
      /\ chainPc' = [chainPc EXCEPT ![r] = "done"]
  BY DEF Handlers!Record, Handlers!gzipVars, Handlers!Goto, Handlers!Settled
<1>2. code \in Handlers!Statuses BY DEF ChainTypes
<1>3. sent'[r] = code
  <2>1. SeenRight(r) BY <1>1 DEF StatusSeen
  <2>2. sent'[r] = IF sent[r] = 0 THEN 200 ELSE sent[r] BY <1>1 DEF ChainTypes
  <2>3. CASE wrote[r].wrote BY <1>2, <2>1, <2>2, <2>3 DEF SeenRight, Handlers!Statuses
  <2>4. CASE ~wrote[r].wrote BY <2>1, <2>2, <2>4 DEF SeenRight
  <2> QED BY <2>3, <2>4
<1>4. /\ \A q \in Requests \ {r} : sent'[q] = sent[q] /\ chainPc'[q] = chainPc[q]
      /\ chainPc'[r] = "done"
  BY <1>1 DEF ChainTypes
<1>5. ChainTypes'
  <2>1. sent' \in [Requests -> Handlers!Statuses \cup {0}]
    BY <1>1 DEF ChainTypes, Handlers!Statuses
  <2>2. stats' \in [Handlers!Statuses -> Nat] BY <1>1, <1>2 DEF ChainTypes
  <2> QED BY <1>1, <2>1, <2>2 DEF ChainTypes
<1>6. WritersApart' BY <1>1, <1>4 DEF WritersApart
<1>7. ContentWhole' BY <1>1, <1>4 DEF ContentWhole, ContentOf, AllAre, Handlers!Own
<1>8. StatusSeen' BY <1>1, <1>4 DEF StatusSeen, SeenRight
<1> HIDE DEF code
<1>9. ASSUME NEW other \in Handlers!Statuses
      PROVE  stats'[other] = Cardinality(Handlers!Counted(other)')
  <2> DEFINE C == Handlers!Counted(other)
  <2>1. C \subseteq Requests /\ r \notin C BY <1>1 DEF Handlers!Counted
  <2>2. IsFiniteSet(C) BY <2>1, HandedOutAssumption, FS_Subset
  <2>3. stats[other] = Cardinality(C)
    <3>1. Handlers!Cardinality(C) = Cardinality(C) BY DEF Handlers!Cardinality, Cardinality
    <3> QED BY <3>1 DEF Handlers!TrafficAgrees
  <2>4. CASE other = code
    <3>1. C' = C \cup {r} BY <1>3, <1>4, <2>4 DEF Handlers!Counted
    <3>2. Cardinality(C \cup {r}) = Cardinality(C) + 1
      <4> HIDE DEF C
      <4> QED BY <2>1, <2>2, FS_AddElement
    <3>3. stats'[other] = stats[other] + 1 BY <1>1, <1>2, <2>4 DEF ChainTypes
    <3> QED BY <2>3, <3>1, <3>2, <3>3
  <2>5. CASE other # code
    <3>1. C' = C BY <1>3, <1>4, <2>1, <2>5 DEF Handlers!Counted
    <3>2. stats'[other] = stats[other] BY <1>1, <1>2, <2>5 DEF ChainTypes
    <3> QED BY <2>3, <3>1, <3>2
  <2> QED BY <2>4, <2>5
<1>10. Handlers!TrafficAgrees'
  <2>1. ASSUME NEW other \in Handlers!Statuses
        PROVE  Handlers!Cardinality(Handlers!Counted(other)') = Cardinality(Handlers!Counted(other)')
    BY DEF Handlers!Cardinality, Cardinality
  <2> QED BY <1>9, <2>1 DEF Handlers!TrafficAgrees
<1> QED BY <1>5, <1>6, <1>7, <1>8, <1>10

LEMMA ChainStep ==
  ASSUME ChainInv, Handlers!Next \/ UNCHANGED chainVars PROVE ChainInv'
<1> USE DEF ChainInv
<1>1. ASSUME NEW r \in Requests, Handlers!HandlerSetsStatus(r) PROVE ChainInv'
  <2>1. PICK code \in Handlers!Statuses : Handlers!SendHeader(r, code)
    BY <1>1 DEF Handlers!HandlerSetsStatus
  <2>2. /\ chainPc[r] = "handling"
        /\ UNCHANGED <<chainPc, zip, writes, gz, pool, target, kept, begun, body, stats>>
    BY <1>1 DEF Handlers!HandlerSetsStatus, Handlers!gzipVars
  <2>3. OnlyOf(r) BY <2>1, <2>2, HeaderIs DEF StatusSeen
  <2>4. StatusSeen' /\ Handlers!TrafficAgrees' BY <2>2, <2>3, StatusStep
  <2>5. ChainTypes' BY <2>2, <2>3 DEF ChainTypes, OnlyOf
  <2>6. WritersApart' BY <2>2 DEF WritersApart
  <2>7. ContentWhole' BY <2>2 DEF ContentWhole, ContentOf, AllAre, Handlers!Own
  <2> QED BY <2>4, <2>5, <2>6, <2>7
<1>2. ASSUME NEW r \in Requests, Handlers!HandlerEnds(r) PROVE ChainInv'
  <2>1. /\ chainPc[r] = "handling"
        /\ \E place \in {"returning", "panicking"} : chainPc' = [chainPc EXCEPT ![r] = place]
        /\ UNCHANGED <<zip, writes, gz, pool, target, kept, begun, sent, body, wrote, stats>>
    BY <1>2 DEF Handlers!HandlerEnds, Handlers!gzipVars, Handlers!Goto
  <2>2. ChainTypes' BY <2>1 DEF ChainTypes
  <2>3. /\ \A q \in Requests \ {r} : chainPc'[q] = chainPc[q]
        /\ chainPc'[r] \in {"returning", "panicking"}
    BY <2>1 DEF ChainTypes
  <2>4. WritersApart' BY <2>1, <2>3 DEF WritersApart
  <2>5. ContentWhole' BY <2>1, <2>3 DEF ContentWhole, ContentOf, AllAre, Handlers!Own
  <2>6. StatusSeen' BY <2>1, <2>3 DEF StatusSeen, SeenRight
  <2>7. Handlers!TrafficAgrees'
    <3>1. \A q \in Requests : chainPc'[q] = "done" <=> chainPc[q] = "done" BY <2>1, <2>3
    <3> QED BY <2>1, <3>1, CountStays
  <2> QED BY <2>2, <2>4, <2>5, <2>6, <2>7
<1>3. ASSUME NEW r \in Requests, Handlers!Recover(r) PROVE ChainInv'
  <2>1. /\ chainPc[r] = "panicking" /\ gz[r] = None
        /\ chainPc' = [chainPc EXCEPT ![r] = "recovered"]
        /\ sent' = [sent EXCEPT ![r] = IF sent[r] = 0 THEN 500 ELSE sent[r]]
        /\ body' = [body EXCEPT ![r] = Append(@, Handlers!ErrorText)]
        /\ UNCHANGED <<zip, writes, gz, pool, target, kept, begun, wrote, stats>>
    BY <1>3 DEF Handlers!Recover, Handlers!gzipVars, Handlers!Goto, Handlers!Settled
  <2>2. ChainTypes'
    <3>1. body[r] \in Seq(Content) /\ Handlers!ErrorText \in Content BY DEF ChainTypes, Content
    <3>2. Append(body[r], Handlers!ErrorText) \in Seq(Content) BY <3>1
    <3>3. body' \in [Requests -> Seq(Content)] BY <2>1, <3>2 DEF ChainTypes
    <3> QED BY <2>1, <3>3 DEF ChainTypes, Handlers!Statuses
  <2>3. \A q \in Requests \ {r} : chainPc'[q] = chainPc[q] /\ sent'[q] = sent[q]
                                  /\ body'[q] = body[q]
    BY <2>1 DEF ChainTypes
  <2>4. chainPc'[r] = "recovered" BY <2>1 DEF ChainTypes
  <2>5. WritersApart' BY <2>1, <2>3 DEF WritersApart
  <2>6. ASSUME NEW q \in Requests PROVE ContentOf(q)'
    <3>1. CASE q = r
      <4>1. body[r] = Handlers!Own(r) BY <2>1, AllIsOwn DEF ContentWhole, ContentOf
      <4>2. body'[r] = Append(body[r], Handlers!ErrorText) BY <2>1 DEF ChainTypes
      <4> QED BY <2>1, <2>4, <3>1, <4>1, <4>2 DEF ContentOf, Handlers!Own
    <3>2. CASE q # r
      <4>1. ContentOf(q) BY DEF ContentWhole
      <4> QED BY <2>1, <2>3, <3>2, <4>1 DEF ContentOf, AllAre, Handlers!Own
    <3> QED BY <3>1, <3>2
  <2>7. StatusSeen' BY <2>1, <2>3, <2>4 DEF StatusSeen, SeenRight
  <2>8. Handlers!TrafficAgrees'
    <3>1. \A q \in Requests : (chainPc'[q] = "done" <=> chainPc[q] = "done")
                               /\ (chainPc[q] = "done" => sent'[q] = sent[q])
      BY <2>1, <2>3, <2>4
    <3> QED BY <2>1, <3>1, CountStays
  <2> QED BY <2>2, <2>5, <2>6, <2>7, <2>8 DEF ContentWhole
<1>4. CASE UNCHANGED chainVars
  <2>1. ChainTypes' /\ WritersApart' BY <1>4 DEF chainVars, ChainTypes, WritersApart
  <2>2. ContentWhole' BY <1>4 DEF chainVars, ContentWhole, ContentOf, AllAre, Handlers!Own
  <2>3. StatusSeen' BY <1>4 DEF chainVars, StatusSeen, SeenRight
  <2>4. Handlers!TrafficAgrees' BY <1>4, CountStays DEF chainVars
  <2> QED BY <2>1, <2>2, <2>3, <2>4
<1> QED BY <1>1, <1>2, <1>3, <1>4, EnterStep, WriteStep, CloseStep, RecordStep
        DEF Handlers!Next

LEMMA ChainStartsWell == Handlers!Init => ChainInv
<1> SUFFICES ASSUME Handlers!Init PROVE ChainInv OBVIOUS
<1>1. /\ chainPc = [r \in Requests |-> "none"] /\ zip \in [Requests -> BOOLEAN]
      /\ writes = [r \in Requests |-> 0] /\ gz = [r \in Requests |-> None]
      /\ pool = Writers /\ target = [w \in Writers |-> None]
      /\ kept = [w \in Writers |-> <<>>] /\ begun = [w \in Writers |-> FALSE]
      /\ sent = [r \in Requests |-> 0] /\ body = [r \in Requests |-> <<>>]
      /\ wrote = [r \in Requests |-> [status |-> 200, wrote |-> FALSE]]
      /\ stats = [code \in Handlers!Statuses |-> 0]
  BY DEF Handlers!Init
<1>2. ChainTypes BY <1>1 DEF ChainTypes, Handlers!Statuses
<1>3. WritersApart /\ StatusSeen BY <1>1 DEF WritersApart, StatusSeen, SeenRight
<1>4. ContentWhole BY <1>1 DEF ContentWhole, ContentOf, AllAre, Handlers!Own
<1>5. Handlers!TrafficAgrees
  <2>1. \A code : Handlers!Counted(code) = {} BY <1>1 DEF Handlers!Counted
  <2>2. Handlers!Cardinality({}) = 0
    <3>1. Handlers!Cardinality({}) = Cardinality({}) BY DEF Handlers!Cardinality, Cardinality
    <3> QED BY <3>1, FS_EmptySet
  <2> QED BY <1>1, <2>1, <2>2 DEF Handlers!TrafficAgrees
<1> QED BY <1>2, <1>3, <1>4, <1>5 DEF ChainInv

LEMMA ChainIsWhole == ChainInv => Handlers!TrafficAgrees /\ Handlers!BodiesWhole
<1> SUFFICES ASSUME ChainInv PROVE Handlers!BodiesWhole BY DEF ChainInv
<1>1. ASSUME NEW r \in Requests
      PROVE  /\ chainPc[r] # "recovered" => \A i \in DOMAIN body[r] : body[r][i] = r
             /\ chainPc[r] = "done" => body[r] = Handlers!Own(r)
             /\ chainPc[r] = "recovered" =>
                  body[r] = Append(Handlers!Own(r), Handlers!ErrorText)
  <2>1. ContentOf(r) BY DEF ChainInv, ContentWhole
  <2>2. chainPc[r] = "done" => gz[r] = None BY DEF ChainInv, WritersApart
  <2>3. chainPc[r] = "done" => body[r] = Handlers!Own(r)
    BY <2>1, <2>2, AllIsOwn DEF ChainInv, ContentOf
  <2> QED BY <2>1, <2>3 DEF ContentOf, AllAre
<1> QED BY <1>1 DEF Handlers!BodiesWhole

-----------------------------------------------------------------------------
(* Spans and reports.                                                      *)
PerfTypes == /\ on \in [Spans -> {"none", "root", "child"}]
             /\ attrs \in [Spans -> Nat] /\ atStop \in [Spans -> Nat]
             /\ stopped \in [Spans -> BOOLEAN] /\ stopping \in [Spans -> {0, 1}]
             /\ tracked \in [{"root", "child"} ->
                               Seq([of : Spans \cup {"child"}, attrs : Nat, kids : Nat])]

\* The attributes of a stopped span are the ones it was stopped with.
StoppedStay == \A s \in Spans :
                 /\ stopped[s] => on[s] # "none" /\ attrs[s] = atStop[s]
                 /\ ~stopped[s] => stopping[s] = 0

\* No entry holds more of the child than there is.
KidsThere == \A i \in DOMAIN tracked["root"] :
               tracked["root"][i].kids <= Len(tracked["child"])

\* The entries about a span: one when it is recorded, with what it was stopped with.
Own(s, t) == {i \in DOMAIN tracked[t] : tracked[t][i].of = s}

Recorded(s, t) ==
  IF t = on[s] /\ stopped[s] /\ stopping[s] = 0
  THEN \E i \in DOMAIN tracked[t] :
         Own(s, t) = {i} /\ tracked[t][i] = [of |-> s, attrs |-> atStop[s], kids |-> 0]
  ELSE Own(s, t) = {}

AllRecorded == \A s \in Spans : \A t \in {"root", "child"} : Recorded(s, t)

PerfInv == PerfTypes /\ StoppedStay /\ KidsThere /\ AllRecorded

Entry == [of : Spans \cup {"child"}, attrs : Nat, kids : Nat]

LEMMA IsSeq == ASSUME NEW S, NEW n \in Nat, NEW f \in [1..n -> S]
               PROVE  f \in Seq(S) /\ Len(f) = n
OBVIOUS

LEMMA SamePrefix ==
  ASSUME NEW S, NEW s \in Seq(S), NEW t \in Seq(S), Len(s) <= Len(t),
         \A i \in 1..Len(s) : s[i] = t[i]
  PROVE  Tracker!IsPrefix(s, t)
<1>1. SubSeq(s, 1, Len(s)) = SubSeq(t, 1, Len(s)) OBVIOUS
<1> QED BY <1>1 DEF Tracker!IsPrefix

\* An entry is added to one tracker, and what GetTimings told stands.
LEMMA EntryAdded ==
  ASSUME PerfTypes, KidsThere, NEW t \in {"root", "child"}, NEW e \in Entry,
         e.kids <= Len(tracked["child"]), tracked' = [tracked EXCEPT ![t] = Append(@, e)]
  PROVE  /\ tracked' \in [{"root", "child"} -> Seq(Entry)]
         /\ KidsThere'
         /\ Tracker!IsPrefix(Tracker!GetTimings, Tracker!GetTimings')
<1>1. tracked \in [{"root", "child"} -> Seq(Entry)] BY DEF PerfTypes, Entry
<1>2. tracked' \in [{"root", "child"} -> Seq(Entry)] BY <1>1
<1>3. ASSUME NEW u \in {"root", "child"}
      PROVE  /\ Len(tracked[u]) \in Nat /\ Len(tracked'[u]) \in Nat
             /\ Len(tracked[u]) <= Len(tracked'[u])
             /\ \A i \in 1..Len(tracked[u]) : tracked'[u][i] = tracked[u][i]
             /\ \A i \in 1..Len(tracked'[u]) : i > Len(tracked[u]) => tracked'[u][i] = e
  BY <1>1
<1> DEFINE root == tracked["root"]
           root2 == tracked'["root"]
           child == tracked["child"]
           child2 == tracked'["child"]
<1>4. root \in Seq(Entry) /\ root2 \in Seq(Entry) /\ child \in Seq(Entry) /\ child2 \in Seq(Entry)
  BY <1>1, <1>2
<1>5. ASSUME NEW i \in 1..Len(root)
      PROVE  root2[i] = root[i] /\ root[i].kids <= Len(child) /\ root[i].kids \in Nat
  <2>1. root2[i] = root[i] BY <1>3
  <2>2. root[i] \in Entry /\ i \in DOMAIN tracked["root"] BY <1>4
  <2> QED BY <2>1, <2>2 DEF KidsThere, Entry
<1>6. KidsThere'
  <2> SUFFICES ASSUME NEW i \in 1..Len(root2) PROVE root2[i].kids <= Len(child2)
    BY <1>4 DEF KidsThere
  <2>1. CASE i <= Len(root) BY <2>1, <1>3, <1>5
  <2>2. CASE i > Len(root) BY <2>2, <1>3 DEF Entry
  <2> QED BY <2>1, <2>2, <1>3
<1>7. ASSUME NEW i \in 1..Len(root)
      PROVE  SubSeq(child2, 1, root2[i].kids) = SubSeq(child, 1, root[i].kids)
  <2> DEFINE k == root[i].kids
  <2>1. root2[i].kids = k /\ k \in Nat /\ k <= Len(child) BY <1>5
  <2>2. \A j \in 1..Len(child) : child2[j] = child[j] /\ Len(child) <= Len(child2) BY <1>3
  <2> HIDE DEF k, child, child2
  <2>3. SubSeq(child2, 1, k) = SubSeq(child, 1, k) BY <2>1, <2>2, <1>3, <1>4
  <2> QED BY <2>1, <2>3
<1>8. Tracker!IsPrefix(Tracker!GetTimings, Tracker!GetTimings')
  <2> DEFINE Timing == [entry : Entry, kids : Seq(Entry)]
             G == [i \in 1..Len(root) |->
                     [entry |-> root[i], kids |-> SubSeq(child, 1, root[i].kids)]]
             H == [i \in 1..Len(root2) |->
                     [entry |-> root2[i], kids |-> SubSeq(child2, 1, root2[i].kids)]]
  <2>1. Tracker!GetTimings = G
    <3>1. DOMAIN root = 1..Len(root) BY <1>4
    <3> QED BY <3>1 DEF Tracker!GetTimings, Tracker!OwnChildren
  <2>2. Tracker!GetTimings' = H
    <3>1. DOMAIN root2 = 1..Len(root2) BY <1>4
    <3> QED BY <3>1 DEF Tracker!GetTimings, Tracker!OwnChildren
  <2>3. \A i \in 1..Len(root) : i \in 1..Len(root2) BY <1>3
  <2>4. \A i \in 1..Len(root) : G[i] = H[i] BY <1>5, <1>7, <2>3
  <2>5. G \in Seq(Timing) /\ Len(G) = Len(root)
    <3>1. \A i \in 1..Len(root) : root[i] \in Entry /\ SubSeq(child, 1, root[i].kids) \in Seq(Entry)
      BY <1>4, <1>5
    <3>2. \A i \in 1..Len(root) : G[i] \in Timing BY <3>1
    <3> HIDE DEF Timing
    <3>3. G \in [1..Len(root) -> Timing] BY <3>2
    <3> HIDE DEF G
    <3> QED BY <1>3, <3>3, IsSeq
  <2>6. H \in Seq(Timing) /\ Len(H) = Len(root2)
    <3>1. ASSUME NEW i \in 1..Len(root2)
          PROVE  root2[i] \in Entry /\ SubSeq(child2, 1, root2[i].kids) \in Seq(Entry)
      <4>1. root2[i] \in Entry BY <1>4
      <4>2. root2[i].kids <= Len(child2) /\ root2[i].kids \in Nat
        BY <1>4, <1>6, <4>1 DEF KidsThere, Entry
      <4> QED BY <1>4, <4>1, <4>2
    <3>2. \A i \in 1..Len(root2) : H[i] \in Timing BY <3>1
    <3> HIDE DEF Timing
    <3>3. H \in [1..Len(root2) -> Timing] BY <3>2
    <3> HIDE DEF H
    <3> QED BY <1>3, <3>3, IsSeq
  <2> HIDE DEF G, H, Timing
  <2> QED BY <1>3, <2>1, <2>2, <2>4, <2>5, <2>6, SamePrefix
<1> QED BY <1>2, <1>6, <1>8

\* An entry of somebody else leaves those of a span alone; its own is one more.
LEMMA OwnAdded ==
  ASSUME PerfTypes, NEW u \in {"root", "child"}, NEW e \in Entry,
         tracked' = [tracked EXCEPT ![u] = Append(@, e)],
         NEW s \in Spans, NEW t \in {"root", "child"}
  PROVE  /\ Own(s, t)' = IF t = u /\ e.of = s THEN Own(s, t) \cup {Len(tracked[t]) + 1}
                         ELSE Own(s, t)
         /\ \A i \in DOMAIN tracked[t] : i \in DOMAIN tracked'[t] /\ tracked'[t][i] = tracked[t][i]
         /\ t = u => Len(tracked[t]) + 1 \in DOMAIN tracked'[t]
                     /\ tracked'[t][Len(tracked[t]) + 1] = e
<1>1. tracked[t] \in Seq(Entry) BY DEF PerfTypes, Entry
<1>2. CASE t = u
  <2> DEFINE n == Len(tracked[t])
  <2>1. tracked'[t] = Append(tracked[t], e) BY <1>2 DEF PerfTypes
  <2>2. /\ DOMAIN tracked[t] = 1..n /\ DOMAIN tracked'[t] = 1..(n + 1) /\ n \in Nat
        /\ \A i \in 1..n : tracked'[t][i] = tracked[t][i]
        /\ tracked'[t][n + 1] = e
    BY <1>1, <2>1
  <2> HIDE DEF n
  <2>3. Own(s, t)' = IF e.of = s THEN Own(s, t) \cup {n + 1} ELSE Own(s, t)
    BY <2>2 DEF Own
  <2> QED BY <1>2, <2>2, <2>3 DEF n
<1>3. CASE t # u
  <2>1. tracked'[t] = tracked[t] BY <1>3 DEF PerfTypes
  <2> QED BY <1>3, <2>1 DEF Own
<1> QED BY <1>2, <1>3

LEMMA PerfStep ==
  ASSUME PerfInv, Tracker!Next \/ UNCHANGED perfVars
  PROVE  PerfInv' /\ (Tracker!Next => Tracker!IsPrefix(Tracker!GetTimings, Tracker!GetTimings'))
<1> USE DEF PerfInv
<1>1. ASSUME UNCHANGED tracked
      PROVE  /\ KidsThere' /\ \A s \in Spans, t \in {"root", "child"} : Own(s, t)' = Own(s, t)
             /\ Tracker!IsPrefix(Tracker!GetTimings, Tracker!GetTimings')
  <2>1. KidsThere' BY <1>1 DEF KidsThere
  <2>2. Tracker!GetTimings' = Tracker!GetTimings
    BY <1>1 DEF Tracker!GetTimings, Tracker!OwnChildren
  <2>3. Len(Tracker!GetTimings) <= Len(Tracker!GetTimings)
    <3>1. tracked["root"] \in Seq(Entry) BY DEF PerfTypes, Entry
    <3>2. Len(Tracker!GetTimings) \in Nat
      <4>1. DOMAIN Tracker!GetTimings = 1..Len(tracked["root"]) /\ Len(tracked["root"]) \in Nat
        BY <3>1 DEF Tracker!GetTimings
      <4>2. Tracker!GetTimings \in [1..Len(tracked["root"]) ->
                {Tracker!GetTimings[i] : i \in 1..Len(tracked["root"])}]
        BY <4>1 DEF Tracker!GetTimings
      <4> QED BY <4>1, <4>2, IsSeq
    <3> QED BY <3>2
  <2> QED BY <1>1, <2>1, <2>2, <2>3 DEF Own, Tracker!IsPrefix
<1>2. CASE UNCHANGED perfVars
  <2>1. PerfTypes' /\ StoppedStay' BY <1>2 DEF perfVars, PerfTypes, StoppedStay
  <2>2. KidsThere' BY <1>1, <1>2 DEF perfVars
  <2>3. AllRecorded' BY <1>2 DEF perfVars, AllRecorded, Recorded, Own
  <2> QED BY <1>1, <1>2, <2>1, <2>2, <2>3 DEF perfVars
<1>3. ASSUME NEW s \in Spans, Tracker!NewSpan(s) \/ Tracker!SetAttr(s) \/ Tracker!Stop(s)
      PROVE  PerfInv' /\ Tracker!IsPrefix(Tracker!GetTimings, Tracker!GetTimings')
  <2>1. UNCHANGED tracked BY <1>3 DEF Tracker!NewSpan, Tracker!SetAttr, Tracker!Stop
  <2>2. PerfTypes'
    <3>1. CASE Tracker!NewSpan(s) BY <3>1 DEF Tracker!NewSpan, PerfTypes
    <3>2. CASE Tracker!SetAttr(s) BY <3>2 DEF Tracker!SetAttr, PerfTypes
    <3>3. CASE Tracker!Stop(s)
      <4>1. stopping[s] = 0 BY <3>3 DEF Tracker!Stop, StoppedStay
      <4>2. stopping' = [stopping EXCEPT ![s] = 1] BY <3>3, <4>1 DEF Tracker!Stop, PerfTypes
      <4> QED BY <3>3, <4>2 DEF Tracker!Stop, PerfTypes
    <3> QED BY <1>3, <3>1, <3>2, <3>3
  <2>3. StoppedStay'
    BY <1>3 DEF Tracker!NewSpan, Tracker!SetAttr, Tracker!Stop, PerfTypes, StoppedStay,
                Tracker!MaySet
  <2>4. ASSUME NEW q \in Spans, NEW t \in {"root", "child"} PROVE Recorded(q, t)'
    <3>1. Recorded(q, t) /\ Own(q, t)' = Own(q, t) BY <1>1, <2>1 DEF AllRecorded
    <3>2. stopped[q] => on'[q] = on[q] /\ atStop'[q] = atStop[q] /\ stopping'[q] = stopping[q]
                        /\ stopped'[q]
      BY <1>3 DEF Tracker!NewSpan, Tracker!SetAttr, Tracker!Stop, PerfTypes, StoppedStay
    <3>3. ~stopped[q] => ~stopped'[q] \/ stopping'[q] = 1
      BY <1>3 DEF Tracker!NewSpan, Tracker!SetAttr, Tracker!Stop, PerfTypes, StoppedStay
    <3> QED BY <2>1, <3>1, <3>2, <3>3 DEF Recorded
  <2> QED BY <1>1, <2>1, <2>2, <2>3, <2>4 DEF AllRecorded
<1>4. ASSUME NEW s \in Spans, Tracker!AddEntryDetails(s)
      PROVE  PerfInv' /\ Tracker!IsPrefix(Tracker!GetTimings, Tracker!GetTimings')
  <2> DEFINE e == [of |-> s, attrs |-> attrs[s], kids |-> 0]
  <2>0. stopping[s] = 1 BY <1>4 DEF Tracker!AddEntryDetails, PerfTypes
  <2>1. /\ stopping[s] = 1 /\ stopping' = [stopping EXCEPT ![s] = 0]
        /\ stopped[s] /\ on[s] \in {"root", "child"} /\ attrs[s] = atStop[s]
        /\ UNCHANGED <<on, attrs, stopped, atStop>>
    <3>1. stopping' = [stopping EXCEPT ![s] = 0] BY <1>4, <2>0 DEF Tracker!AddEntryDetails
    <3>2. stopped[s] BY <2>0 DEF StoppedStay
    <3>3. on[s] \in {"root", "child"} BY <3>2 DEF StoppedStay, PerfTypes
    <3> QED BY <1>4, <2>0, <3>1, <3>2, <3>3 DEF Tracker!AddEntryDetails, StoppedStay
  <2>2. tracked' = [tracked EXCEPT ![on[s]] = Append(@, e)]
    BY <1>4 DEF Tracker!AddEntryDetails
  <2>3. e \in Entry /\ e.kids = 0 /\ e.of = s BY DEF Entry, PerfTypes
  <2>4. e.kids <= Len(tracked["child"]) BY <2>3 DEF PerfTypes
  <2>5. e = [of |-> s, attrs |-> atStop[s], kids |-> 0] BY <2>1
  <2> HIDE DEF e
  <2>6. /\ tracked' \in [{"root", "child"} -> Seq(Entry)] /\ KidsThere'
        /\ Tracker!IsPrefix(Tracker!GetTimings, Tracker!GetTimings')
    BY <2>1, <2>2, <2>3, <2>4, EntryAdded
  <2>7. PerfTypes' BY <2>1, <2>6 DEF PerfTypes, Entry
  <2>8. StoppedStay' BY <2>1 DEF StoppedStay, PerfTypes
  <2>9. ASSUME NEW q \in Spans, NEW t \in {"root", "child"} PROVE Recorded(q, t)'
    <3>1. Recorded(q, t) BY DEF AllRecorded
    <3>2. /\ Own(q, t)' = IF t = on[s] /\ e.of = q THEN Own(q, t) \cup {Len(tracked[t]) + 1}
                           ELSE Own(q, t)
          /\ \A i \in DOMAIN tracked[t] : i \in DOMAIN tracked'[t]
                                           /\ tracked'[t][i] = tracked[t][i]
          /\ t = on[s] => Len(tracked[t]) + 1 \in DOMAIN tracked'[t]
                          /\ tracked'[t][Len(tracked[t]) + 1] = e
      <4>1. on[s] \in {"root", "child"} BY <2>1
      <4> QED BY <2>2, <2>3, <4>1, OwnAdded
    <3>3. CASE q = s /\ t = on[s]
      <4>1. Own(q, t) = {} BY <2>1, <3>1, <3>3 DEF Recorded
      <4>2. Own(q, t)' = {Len(tracked[t]) + 1} BY <2>3, <3>2, <3>3, <4>1
      <4>3. (stopped[q] /\ stopping[q] = 0)' BY <2>1, <3>3 DEF PerfTypes
      <4>4. tracked'[t][Len(tracked[t]) + 1] = [of |-> q, attrs |-> atStop'[q], kids |-> 0]
        BY <2>1, <2>5, <3>2, <3>3
      <4> QED BY <2>1, <3>2, <3>3, <4>2, <4>3, <4>4 DEF Recorded
    <3>4. CASE ~(q = s /\ t = on[s])
      <4>1. Own(q, t)' = Own(q, t) BY <2>3, <3>2, <3>4
      <4>2. q = s => t # on[s] BY <3>4
      <4>3. (t = on[q] /\ stopped[q] /\ stopping[q] = 0)'
              <=> (t = on[q] /\ stopped[q] /\ stopping[q] = 0)
        BY <2>1, <4>2 DEF PerfTypes
      <4> QED BY <2>1, <3>1, <3>2, <4>1, <4>3 DEF Recorded
    <3> QED BY <3>3, <3>4
  <2> QED BY <2>6, <2>7, <2>8, <2>9 DEF AllRecorded
<1>5. CASE Tracker!End
  <2> DEFINE e == [of |-> "child", attrs |-> 0, kids |-> Len(tracked["child"])]
  <2>1. tracked' = [tracked EXCEPT !["root"] = Append(@, e)]
        /\ UNCHANGED <<on, attrs, stopped, stopping, atStop>>
    BY <1>5 DEF Tracker!End
  <2>2. e \in Entry /\ e.kids <= Len(tracked["child"]) /\ e.of = "child"
    BY DEF Entry, PerfTypes
  <2> HIDE DEF e
  <2>3. /\ tracked' \in [{"root", "child"} -> Seq(Entry)] /\ KidsThere'
        /\ Tracker!IsPrefix(Tracker!GetTimings, Tracker!GetTimings')
    BY <2>1, <2>2, EntryAdded
  <2>4. PerfTypes' BY <2>1, <2>3 DEF PerfTypes, Entry
  <2>5. StoppedStay' BY <2>1 DEF StoppedStay
  <2>6. ASSUME NEW q \in Spans, NEW t \in {"root", "child"} PROVE Recorded(q, t)'
    <3>1. Recorded(q, t) BY DEF AllRecorded
    <3>2. Own(q, t)' = Own(q, t) /\ \A i \in DOMAIN tracked[t] :
                                      i \in DOMAIN tracked'[t] /\ tracked'[t][i] = tracked[t][i]
      BY <2>1, <2>2, OwnAdded, HandedOutAssumption
    <3> QED BY <2>1, <3>1, <3>2 DEF Recorded
  <2> QED BY <2>3, <2>4, <2>5, <2>6 DEF AllRecorded
<1> QED BY <1>2, <1>3, <1>4, <1>5 DEF Tracker!Next

LEMMA PerfStartsWell == Tracker!Init => PerfInv
<1> SUFFICES ASSUME Tracker!Init PROVE PerfInv OBVIOUS
<1>1. PerfTypes BY DEF Tracker!Init, PerfTypes
<1>2. StoppedStay /\ KidsThere BY DEF Tracker!Init, StoppedStay, KidsThere
<1>3. AllRecorded BY DEF Tracker!Init, AllRecorded, Recorded, Own
<1> QED BY <1>1, <1>2, <1>3 DEF PerfInv

LEMMA SpansAreRecorded == PerfInv => Tracker!SpansRecorded
<1> SUFFICES ASSUME PerfInv PROVE Tracker!SpansRecorded OBVIOUS
<1>1. DOMAIN tracked = {"root", "child"} BY DEF PerfInv, PerfTypes
<1>2. \A s \in Spans : \A t \in DOMAIN tracked : Recorded(s, t)
  BY <1>1 DEF PerfInv, AllRecorded
<1> QED BY <1>2 DEF Tracker!SpansRecorded, Recorded, Own

-----------------------------------------------------------------------------
(* The walk over pages.                                                    *)
PageTypes == /\ table \subseteq Rows /\ stayed \subseteq table
             /\ build \in {1, 2}
             /\ cursor \in {None} \cup [v : {1, 2}, key : Rows]
             /\ page \in Seq(Rows)
             /\ walk \in {"going", "ended", "refused"}

InOrder == \A i \in 1..(Len(page) - 1) : page[i] < page[i + 1]

\* Up to the cursor, the client has all that stayed, and nothing beyond it.
UpToCursor == walk = "going" =>
                /\ \A i \in 1..Len(page) : page[i] <= Pages!After
                /\ \A k \in stayed : k <= Pages!After => k \in Pages!ToSet(page)

PageInv == PageTypes /\ InOrder /\ UpToCursor /\ Pages!WalkIsComplete

\* The elements of a finite set of numbers, in ascending order.
Enumerates(list, set) ==
  /\ list \in [1..Cardinality(set) -> set]
  /\ Pages!ToSet(list) = set
  /\ \A i, j \in DOMAIN list : i < j => list[i] < list[j]

\* By a smallest counterexample: without its greatest element the set has an enumeration,
\* which that element ends.
LEMMA EnumerationExists ==
  ASSUME NEW S \in SUBSET Nat, IsFiniteSet(S)
  PROVE  \E s : Enumerates(s, S)
<1> DEFINE Bad == {n \in Nat : \E T \in SUBSET S :
                      Cardinality(T) = n /\ ~ \E s : Enumerates(s, T)}
<1>0. \A T \in SUBSET S : IsFiniteSet(T) /\ Cardinality(T) \in Nat
  BY FS_Subset, FS_CardinalityType
<1>1. Bad = {}
  <2> SUFFICES ASSUME Bad # {} PROVE FALSE OBVIOUS
  <2>1. PICK n \in Bad : \A k \in Bad : n <= k
    <3>1. Bad \in SUBSET Nat OBVIOUS
    <3> HIDE DEF Bad
    <3> QED BY <3>1, HasLeast
  <2>3. PICK T \in SUBSET S : Cardinality(T) = n /\ ~ \E s : Enumerates(s, T)
    OBVIOUS
  <2>4. CASE T = {}
    <3>1. Cardinality(T) = 0 BY <2>4, FS_EmptySet
    <3>2. Enumerates(<<>>, T) BY <2>4, <3>1 DEF Enumerates, Pages!ToSet
    <3> QED BY <3>2, <2>3
  <2>5. CASE T # {}
    <3>0. T \in SUBSET Nat /\ IsFiniteSet(T) BY <1>0
    <3>1. PICK g \in T : \A x \in T : x <= g BY <2>5, <3>0, HasGreatest
    <3> DEFINE R == T \ {g}
    <3>2. Cardinality(R) = n - 1 /\ R \in SUBSET S /\ n \in Nat /\ n - 1 \in Nat
      <4>1. IsFiniteSet(T) /\ n \in Nat BY <1>0, <2>3
      <4>2. Cardinality(R) = n - 1 BY <4>1, <2>3, FS_RemoveElement
      <4>3. R \in SUBSET S OBVIOUS
      <4> QED BY <4>1, <4>2, <4>3, <1>0
    <3>3. n - 1 \notin Bad BY <2>1, <3>2
    <3>4. PICK s : Enumerates(s, R) BY <3>2, <3>3
    <3> DEFINE t == [i \in 1..n |-> IF i = n THEN g ELSE s[i]]
    <3>5. DOMAIN s = 1..(n - 1) /\ \A i \in 1..(n - 1) : s[i] \in R
      BY <3>4, <3>2 DEF Enumerates
    <3>6. t \in [1..Cardinality(T) -> T] BY <3>5, <3>2, <2>3
    <3>7. Pages!ToSet(t) = T
      <4>1. \A x \in R : \E i \in 1..(n - 1) : s[i] = x
        BY <3>4, <3>5 DEF Enumerates, Pages!ToSet
      <4>2. \A x \in R : \E i \in 1..n : t[i] = x
        <5> SUFFICES ASSUME NEW x \in R PROVE \E i \in 1..n : t[i] = x OBVIOUS
        <5>1. PICK i \in 1..(n - 1) : s[i] = x BY <4>1
        <5>2. i \in 1..n /\ i # n BY <3>2
        <5> QED BY <5>1, <5>2
      <4>3. n \in 1..n /\ t[n] = g BY <3>2
      <4>4. \A x \in T : \E i \in 1..n : t[i] = x BY <4>2, <4>3
      <4>5. \A i \in 1..n : t[i] \in T BY <3>6, <2>3
      <4> QED BY <4>4, <4>5 DEF Pages!ToSet
    <3>8. \A i, j \in DOMAIN t : i < j => t[i] < t[j]
      <4> SUFFICES ASSUME NEW i \in 1..n, NEW j \in 1..n, i < j PROVE t[i] < t[j] OBVIOUS
      <4>1. i \in 1..(n - 1) /\ t[i] = s[i] BY <3>2
      <4>2. CASE j = n
        <5>0. i \in 1..(n - 1) BY <4>1
        <5>1. s[i] \in T /\ s[i] # g BY <5>0, <3>5
        <5>2. s[i] \in Nat /\ g \in Nat
          <6>1. T \subseteq Nat OBVIOUS
          <6> QED BY <6>1, <5>1
        <5>3. s[i] <= g BY <5>1, <3>1
        <5> QED BY <4>1, <4>2, <5>1, <5>2, <5>3
      <4>3. CASE j # n
        <5>1. j \in 1..(n - 1) /\ t[j] = s[j] BY <4>3, <3>2
        <5> QED BY <4>1, <5>1, <3>4, <3>5 DEF Enumerates
      <4> QED BY <4>2, <4>3
    <3> QED BY <3>6, <3>7, <3>8, <2>3 DEF Enumerates
  <2> QED BY <2>4, <2>5
<1> QED BY <1>0, <1>1

LEMMA AscendingIs ==
  ASSUME NEW S \in SUBSET Nat, IsFiniteSet(S)
  PROVE  Enumerates(Pages!Ascending(S), S)
<1>1. \E s \in [1..Cardinality(S) -> S] :
         /\ Pages!ToSet(s) = S
         /\ \A i, j \in DOMAIN s : i < j => s[i] < s[j]
  BY EnumerationExists DEF Enumerates
<1> DEFINE D == [1..Cardinality(S) -> S]
           P(s) == /\ Pages!ToSet(s) = S
                   /\ \A i, j \in DOMAIN s : i < j => s[i] < s[j]
<1>2. Pages!Ascending(S) = CHOOSE s \in D : P(s)
  <2>1. Pages!Cardinality(S) = Cardinality(S) BY DEF Pages!Cardinality, Cardinality
  <2> QED BY <2>1 DEF Pages!Ascending
<1>3. \E s \in D : P(s) BY <1>1
<1> HIDE DEF D, P
<1>4. Pages!Ascending(S) \in D /\ P(Pages!Ascending(S)) BY <1>2, <1>3
<1> QED BY <1>4 DEF D, P, Enumerates

LEMMA JoinIs ==
  ASSUME NEW S, NEW s \in Seq(S), NEW t \in Seq(S)
  PROVE  /\ s \o t \in Seq(S) /\ Len(s \o t) = Len(s) + Len(t)
         /\ \A i \in 1..Len(s) : (s \o t)[i] = s[i]
         /\ \A i \in 1..Len(t) : (s \o t)[Len(s) + i] = t[i]
OBVIOUS

LEMMA ElementIs == ASSUME NEW S, NEW s \in Seq(S) PROVE \A i \in 1..Len(s) : s[i] \in S
OBVIOUS

LEMMA SizeIs ==
  ASSUME NEW asked \in Sizes
  PROVE  Pages!ClampPageSize(asked, Default, Cap) \in Nat \ {0}
BY HandedOutAssumption DEF Pages!ClampPageSize, Pages!AtLeast

\* What a request is answered with: the first rows behind the cursor, as many as the
\* page holds, and whether there are more.
LEMMA PageIs ==
  ASSUME NEW size \in Nat \ {0}, NEW all \in Seq(Rows), NEW after,
         Pages!Ascending(Pages!Behind(after)) = all
  PROVE  Pages!SplitPage(Pages!Fetch(after, size + 1), size) =
           IF Len(all) > size THEN [page |-> SubSeq(all, 1, size), hasMore |-> TRUE]
           ELSE [page |-> all, hasMore |-> FALSE]
<1> DEFINE n == Len(all)
           cut == IF n < size + 1 THEN n ELSE size + 1
           got == Pages!Fetch(after, size + 1)
<1>1. n \in Nat /\ got = SubSeq(all, 1, cut) BY DEF Pages!Fetch
<1> HIDE DEF got
<1>2. CASE n <= size
  <2>1. got = all BY <1>1, <1>2
  <2>2. Pages!SplitPage(got, size) = [page |-> all, hasMore |-> FALSE]
    BY <1>1, <1>2, <2>1 DEF Pages!SplitPage
  <2> QED BY <1>1, <1>2, <2>2 DEF got
<1>3. CASE n > size
  <2>1. got = SubSeq(all, 1, size + 1) /\ size + 1 <= n BY <1>1, <1>3
  <2>2. Len(got) = size + 1 /\ SubSeq(got, 1, size) = SubSeq(all, 1, size) BY <1>1, <2>1
  <2>3. ~(size < 1) /\ ~(Len(got) <= size) BY <2>2
  <2>4. Pages!SplitPage(got, size) = [page |-> SubSeq(all, 1, size), hasMore |-> TRUE]
    BY <2>2, <2>3 DEF Pages!SplitPage
  <2> QED BY <1>1, <1>3, <2>4 DEF got
<1> QED BY <1>1, <1>2, <1>3

LEMMA FirstOnes ==
  ASSUME NEW S, NEW s \in Seq(S), NEW j \in Nat, j <= Len(s)
  PROVE  /\ SubSeq(s, 1, j) \in Seq(S) /\ Len(SubSeq(s, 1, j)) = j
         /\ \A i \in 1..j : SubSeq(s, 1, j)[i] = s[i]
<1>1. SubSeq(s, 1, j) = [i \in 1..j |-> s[i]] OBVIOUS
<1>2. \A i \in 1..j : s[i] \in S OBVIOUS
<1>3. SubSeq(s, 1, j) \in [1..j -> S] BY <1>1, <1>2
<1> QED BY <1>1, <1>3, IsSeq

LEMMA RequestStep ==
  ASSUME PageInv, NEW asked \in Sizes, Pages!Request(asked)
  PROVE  PageInv'
<1> USE DEF PageInv
<1>1. Rows \in SUBSET Nat /\ IsFiniteSet(Rows) BY HandedOutAssumption
<1>2. walk = "going" /\ UNCHANGED <<table, changes, build, stayed>> BY DEF Pages!Request
<1>3. CASE ~Pages!Decodes
  <2>1. walk' = "refused" /\ UNCHANGED <<cursor, page>> BY <1>3 DEF Pages!Request
  <2>2. PageTypes' /\ InOrder' /\ UpToCursor'
    BY <1>2, <2>1 DEF PageTypes, InOrder, UpToCursor
  <2> QED BY <2>1, <2>2 DEF InOrder, Pages!WalkIsComplete
<1>4. CASE Pages!Decodes
  <2> DEFINE size == Pages!ClampPageSize(asked, Default, Cap)
             after == Pages!After
             behind == Pages!Behind(after)
             all == Pages!Ascending(behind)
             n == Len(all)
             split == Pages!SplitPage(Pages!Fetch(after, size + 1), size)
             p == split.page
             k == Len(p)
             m == Len(page)
  <2>1. /\ page' = page \o p /\ cursor' = Pages!NewPage(Pages!Fetch(after, size + 1), split)
        /\ walk' = IF cursor' = None THEN "ended" ELSE "going"
    BY <1>4 DEF Pages!Request
  <2>2. size \in Nat \ {0} BY SizeIs
  <2>3. after \in Int /\ page \in Seq(Rows) /\ m \in Nat
    <3>1. CASE cursor = None BY <3>1 DEF Pages!After, PageTypes
    <3>2. CASE cursor # None
      <4>1. cursor.key \in Nat BY <1>1, <3>2 DEF PageTypes
      <4> QED BY <3>2, <4>1 DEF Pages!After, PageTypes
    <3> QED BY <3>1, <3>2
  <2>4. behind \in SUBSET Nat /\ behind \subseteq Rows /\ IsFiniteSet(behind)
    BY <1>1, FS_Subset DEF PageTypes, Pages!Behind
  <2>5. \A i \in 1..m : page[i] \in Nat BY <1>1, <2>3, ElementIs
  <2>6. /\ \A i \in 1..m : page[i] <= after
        /\ \A x \in stayed : x <= after => x \in Pages!ToSet(page)
    BY <1>2 DEF UpToCursor
  <2> HIDE DEF size, after, behind
  <2>7. /\ all \in Seq(Rows) /\ n \in Nat /\ DOMAIN all = 1..n
        /\ Pages!ToSet(all) = behind
        /\ \A i, j \in 1..n : i < j => all[i] < all[j]
        /\ \A i \in 1..n : all[i] \in behind
    <3>1. Enumerates(all, behind) BY <2>4, AscendingIs
    <3>2. Cardinality(behind) \in Nat BY <2>4, FS_CardinalityType
    <3>3. all \in [1..Cardinality(behind) -> Rows] BY <2>4, <3>1 DEF Enumerates
    <3>4. all \in Seq(Rows) /\ n = Cardinality(behind) BY <3>2, <3>3, IsSeq
    <3>5. DOMAIN all = 1..n BY <3>4
    <3> QED BY <3>1, <3>2, <3>4, <3>5 DEF Enumerates
  <2>8. split = IF n > size THEN [page |-> SubSeq(all, 1, size), hasMore |-> TRUE]
                ELSE [page |-> all, hasMore |-> FALSE]
    BY <2>2, <2>7, PageIs DEF behind
  <2> HIDE DEF all, split, n
  <2>9. /\ split.hasMore = IF n > size THEN TRUE ELSE FALSE
        /\ p = IF n > size THEN SubSeq(all, 1, size) ELSE all
    <3>1. CASE n > size BY <2>8, <3>1
    <3>2. CASE ~(n > size) BY <2>8, <3>2
    <3> QED BY <3>1, <3>2
  <2>10. /\ p \in Seq(Rows) /\ k = IF n > size THEN size ELSE n
         /\ \A i \in 1..k : p[i] = all[i]
    <3>1. Len(all) = n BY DEF n
    <3>2. CASE n > size
      <4>1. p = SubSeq(all, 1, size) BY <2>9, <3>2
      <4>2. size \in Nat /\ size <= Len(all) BY <2>2, <2>7, <3>1, <3>2
      <4>3. /\ SubSeq(all, 1, size) \in Seq(Rows) /\ Len(SubSeq(all, 1, size)) = size
            /\ \A i \in 1..size : SubSeq(all, 1, size)[i] = all[i]
        BY <2>7, <4>2, FirstOnes
      <4>4. k = size BY <4>1, <4>3
      <4> HIDE DEF p, k
      <4> QED BY <3>2, <4>1, <4>3, <4>4
    <3>3. CASE ~(n > size)
      <4>1. p = all BY <2>9, <3>3
      <4>2. k = n BY <3>1, <4>1
      <4> HIDE DEF p, k
      <4> QED BY <2>7, <3>3, <4>1, <4>2
    <3> QED BY <3>2, <3>3
  <2> HIDE DEF p
  <2>11. k \in Nat /\ k <= n
        /\ \A i \in 1..k : p[i] = all[i] /\ p[i] \in Rows /\ p[i] \in Nat /\ after < p[i]
    <3>1. k \in Nat /\ k <= n BY <2>2, <2>7, <2>10
    <3>2. ASSUME NEW i \in 1..k PROVE p[i] = all[i] /\ p[i] \in behind
      BY <2>7, <2>10, <3>1
    <3> QED BY <2>4, <3>1, <3>2 DEF behind, Pages!Behind
  <2>12. ASSUME NEW x \in behind PROVE (\E i \in 1..k : p[i] = x) \/ (n > size /\ p[k] < x)
    <3>1. PICK i \in 1..n : all[i] = x BY <2>7 DEF Pages!ToSet
    <3>2. CASE i <= k
      <4>1. i \in 1..k /\ p[i] = x BY <2>10, <2>11, <3>1, <3>2
      <4> QED BY <4>1
    <3>3. CASE i > k
      <4>1. n > size /\ k = size /\ k \in 1..n BY <2>2, <2>7, <2>10, <3>3
      <4>2. all[k] < all[i] /\ p[k] = all[k] BY <2>7, <2>10, <2>2, <3>3, <4>1
      <4> QED BY <3>1, <4>1, <4>2
    <3> QED BY <2>11, <3>2, <3>3
  <2>13. /\ page' \in Seq(Rows) /\ Len(page') = m + k
         /\ \A i \in 1..m : page'[i] = page[i]
         /\ \A i \in 1..k : page'[m + i] = p[i]
    <3>1. page' = page \o p BY <2>1 DEF p
    <3>2. page \in Seq(Rows) /\ p \in Seq(Rows) BY <2>3, <2>10
    <3> QED BY <3>1, <3>2, JoinIs
  <2>14. InOrder'
    <3> SUFFICES ASSUME NEW i \in 1..(m + k - 1) PROVE page'[i] < page'[i + 1]
      BY <2>13 DEF InOrder
    <3>1. CASE i < m
      <4>1. i \in 1..(m - 1) /\ i \in 1..m /\ i + 1 \in 1..m BY <2>3, <3>1
      <4> QED BY <2>13, <4>1 DEF InOrder
    <3>2. CASE i = m
      <4>1. m \in 1..m /\ 1 \in 1..k BY <2>3, <2>11, <3>2
      <4>2. page'[i] = page[m] /\ page'[i + 1] = p[1] BY <2>13, <3>2, <4>1
      <4>3. page[m] <= after BY <2>6, <4>1
      <4>4. page[m] \in Nat BY <2>5, <4>1
      <4> QED BY <2>3, <2>11, <4>1, <4>2, <4>3, <4>4
    <3>3. CASE i > m
      <4>1. i - m \in 1..k /\ i - m + 1 \in 1..k /\ i = m + (i - m) /\ i + 1 = m + (i - m + 1)
        BY <2>3, <2>11, <3>3
      <4>2. page'[i] = p[i - m] /\ page'[i + 1] = p[i - m + 1]
        <5> DEFINE j == i - m
        <5>1. j \in 1..k /\ j + 1 \in 1..k BY <4>1
        <5>2. page'[m + j] = p[j] /\ page'[m + (j + 1)] = p[j + 1] BY <2>13, <5>1
        <5>3. i = m + j /\ i + 1 = m + (j + 1) BY <4>1
        <5> HIDE DEF j, k, m
        <5>4. page'[i] = p[j] /\ page'[i + 1] = p[j + 1] BY <5>2, <5>3
        <5> QED BY <5>4 DEF j
      <4>3. p[i - m] = all[i - m] /\ p[i - m + 1] = all[i - m + 1] BY <2>11, <4>1
      <4>4. i - m \in 1..n /\ i - m + 1 \in 1..n /\ i - m < i - m + 1 BY <2>7, <2>11, <4>1
      <4> QED BY <2>7, <4>2, <4>3, <4>4
    <3> QED BY <2>3, <2>11, <3>1, <3>2, <3>3
  \* What has stayed is shown, up to the cursor, or there is more behind.
  <2>15. ASSUME NEW x \in stayed
         PROVE  x \in Pages!ToSet(page') \/ (n > size /\ p[k] < x)
    <3>1. CASE x <= after
      <4>1. PICK i \in 1..m : page[i] = x
        <5>1. x \in Pages!ToSet(page) BY <2>6, <3>1
        <5>2. DOMAIN page = 1..m BY <2>3
        <5> QED BY <5>1, <5>2 DEF Pages!ToSet
      <4>2. i \in 1..(m + k) /\ page'[i] = x BY <2>3, <2>11, <2>13, <4>1
      <4> QED BY <2>13, <4>2 DEF Pages!ToSet
    <3>2. CASE ~(x <= after)
      <4>0. x \in table /\ x \in Nat BY <1>1 DEF PageTypes
      <4>1. x \in behind BY <2>3, <3>2, <4>0 DEF behind, Pages!Behind
      <4>2. ASSUME NEW i \in 1..k, p[i] = x PROVE x \in Pages!ToSet(page')
        <5>1. m + i \in 1..(m + k) /\ page'[m + i] = x BY <2>3, <2>11, <2>13, <4>2
        <5>2. m + i \in DOMAIN page' BY <2>13, <5>1
        <5> QED BY <5>1, <5>2 DEF Pages!ToSet
      <4> QED BY <2>12, <4>1, <4>2
    <3> QED BY <3>1, <3>2
  <2>16. CASE n > size
    <3>1. k = size /\ k \in 1..k /\ p # <<>> /\ split.hasMore
      <4>1. k = size /\ k \in 1..k BY <2>2, <2>10, <2>16
      <4>2. p # <<>> BY <2>2, <4>1
      <4>3. split.hasMore BY <2>9, <2>16
      <4> QED BY <4>1, <4>2, <4>3
    <3>2. cursor' = [v |-> build, key |-> p[k]]
      BY <2>1, <3>1 DEF Pages!NewPage, Pages!CursorOf, p
    <3>3. p[k] \in Rows /\ p[k] \in Nat /\ build \in {1, 2} BY <2>11, <3>1 DEF PageTypes
    <3>4. cursor' \in [v : {1, 2}, key : Rows] /\ cursor' # None
      BY <3>2, <3>3, HandedOutAssumption
    <3>5. walk' = "going" /\ Pages!After' = p[k] BY <2>1, <3>2, <3>4 DEF Pages!After
    <3>6. PageTypes' BY <1>2, <2>13, <3>4, <3>5 DEF PageTypes
    <3>7. ASSUME NEW i \in 1..(m + k) PROVE page'[i] <= p[k]
      <4>1. CASE i <= m
        <5>1. i \in 1..m /\ page'[i] = page[i] BY <2>3, <2>13, <4>1
        <5>2. page[i] <= after /\ page[i] \in Nat BY <2>5, <2>6, <5>1
        <5> QED BY <2>3, <2>11, <3>1, <3>3, <5>1, <5>2
      <4>2. CASE i > m
        <5>1. i - m \in 1..k /\ i = m + (i - m) BY <2>3, <2>11, <4>2
        <5>2. page'[i] = all[i - m] /\ p[k] = all[k] BY <2>11, <2>13, <3>1, <5>1
        <5>3. i - m \in 1..n /\ k \in 1..n BY <2>7, <2>11, <3>1, <5>1
        <5>4. i - m < k \/ i - m = k BY <2>11, <5>1
        <5>5. all[i - m] \in Nat /\ all[k] \in Nat BY <2>4, <2>7, <5>3
        <5> QED BY <2>7, <5>2, <5>3, <5>4, <5>5
      <4> QED BY <2>3, <2>11, <4>1, <4>2
    <3>8. UpToCursor'
      <4>1. \A x \in stayed' : x <= p[k] => x \in Pages!ToSet(page')
        <5> SUFFICES ASSUME NEW x \in stayed, x <= p[k] PROVE x \in Pages!ToSet(page')
          BY <1>2
        <5>1. x \in Nat BY <1>1 DEF PageTypes
        <5> QED BY <2>15, <3>3, <5>1
      <4> QED BY <2>13, <3>5, <3>7, <4>1 DEF UpToCursor
    <3> QED BY <2>14, <3>5, <3>6, <3>8 DEF InOrder, Pages!WalkIsComplete
  <2>17. CASE ~(n > size)
    <3>1. cursor' = None /\ walk' = "ended"
      BY <2>1, <2>9, <2>17 DEF Pages!NewPage
    <3>2. PageTypes' BY <1>2, <2>13, <3>1 DEF PageTypes
    <3>3. \A x \in stayed' : x \in Pages!ToSet(page') BY <1>2, <2>15, <2>17
    <3> QED BY <2>14, <3>1, <3>2, <3>3 DEF InOrder, UpToCursor, Pages!WalkIsComplete
  <2> QED BY <2>16, <2>17
<1> QED BY <1>3, <1>4

LEMMA PageStep ==
  ASSUME PageInv, Pages!Next \/ UNCHANGED pageVars
  PROVE  PageInv'
<1> USE DEF PageInv
<1>1. CASE Pages!TableChanges
  <2>1. /\ table' \subseteq Rows /\ stayed' \subseteq table' /\ stayed' \subseteq stayed
        /\ UNCHANGED <<build, cursor, page, walk>>
    BY <1>1 DEF Pages!TableChanges, PageTypes
  <2>2. Pages!After' = Pages!After BY <2>1 DEF Pages!After
  <2> QED BY <2>1, <2>2 DEF PageTypes, InOrder, UpToCursor, Pages!WalkIsComplete
<1>2. CASE Pages!NewBuild
  <2>1. build' = 2 /\ UNCHANGED <<table, cursor, page, stayed, walk>>
    BY <1>2 DEF Pages!NewBuild
  <2>2. Pages!After' = Pages!After BY <2>1 DEF Pages!After
  <2> QED BY <2>1, <2>2 DEF PageTypes, InOrder, UpToCursor, Pages!WalkIsComplete
<1>3. CASE UNCHANGED pageVars
  <2>1. Pages!After' = Pages!After BY <1>3 DEF pageVars, Pages!After
  <2> QED BY <1>3, <2>1
       DEF pageVars, PageTypes, InOrder, UpToCursor, Pages!WalkIsComplete
<1> QED BY <1>1, <1>2, <1>3, RequestStep DEF Pages!Next

LEMMA PagesStartWell == Pages!Init => PageInv
<1> SUFFICES ASSUME Pages!Init PROVE PageInv OBVIOUS
<1>1. /\ table \subseteq Rows /\ stayed = table /\ build = 1 /\ cursor = None
      /\ page = <<>> /\ walk = "going"
  BY DEF Pages!Init
<1>2. \A k \in stayed : ~(k <= Pages!After) BY <1>1, HandedOutAssumption DEF Pages!After
<1>3. PageTypes /\ InOrder BY <1>1 DEF PageTypes, InOrder
<1>4. UpToCursor BY <1>1, <1>2 DEF UpToCursor
<1> QED BY <1>1, <1>3, <1>4 DEF PageInv, InOrder, Pages!WalkIsComplete

-----------------------------------------------------------------------------
(* The screens of cmd/migrate.                                             *)
\* What is under way: nothing, one task, or one message.
NothingComes == tasks = {} /\ msgs = {}

TaskRuns(tags) == msgs = {} /\ \E task : tasks = {task} /\ task.tag \in tags

MessageComes(tags) == tasks = {} /\ \E msg : msgs = {msg} /\ msg.tag \in tags

\* For a patient user the screen says what is under way, and a Yes is for what it shows.
ScreenInv ==
  ~hasty /\ exit = "none" =>
    /\ \/ phase = "loading" /\ TaskRuns({"load-status"})
       \/ phase = "loading" /\ MessageComes({"load-status", "failed"})
       \/ phase \in {"picker", "confirm", "done"} /\ NothingComes
       \/ phase = "picker" /\ MessageComes({"action"})
       \/ phase = "confirm" /\ MessageComes({"confirm"})
       \/ phase = "running" /\ TaskRuns({"run", "ran"})
       \/ phase = "running" /\ MessageComes({"run"})
    /\ \A msg \in msgs : msg.tag = "confirm" /\ msg.yes => shown = pending

\* A step keeps what a patient user sees in step with what goes on behind the screen.
LEMMA ScreenStep ==
  ASSUME ScreenInv, Migration!Next \/ UNCHANGED migrateVars
  PROVE  ScreenInv'
<1> USE DEF Migration!user, Migration!migrator
<1> SUFFICES ASSUME ~hasty', exit' = "none" PROVE ScreenInv' BY DEF ScreenInv
<1>0. ~hasty /\ exit = "none" =>
        /\ phase = "loading" => \/ MessageComes({"load-status", "failed"})
                                \/ TaskRuns({"load-status"})
        /\ phase = "picker" => NothingComes \/ MessageComes({"action"})
        /\ phase = "confirm" => NothingComes \/ MessageComes({"confirm"})
        /\ phase = "running" => TaskRuns({"run", "ran"}) \/ MessageComes({"run"})
        /\ phase = "done" => NothingComes
        /\ phase \in {"loading", "picker", "confirm", "running", "done"}
  BY DEF ScreenInv
<1>1. CASE UNCHANGED <<phase, pending, msgs, tasks, shown, hasty, exit>>
  BY <1>1 DEF ScreenInv, NothingComes, TaskRuns, MessageComes
<1>2. ASSUME NEW a \in Migration!Actions, Migration!ChooseAction(a) PROVE ScreenInv'
  <2>1. /\ ~hasty /\ msgs = {} /\ phase' = "picker" /\ phase = "picker" /\ exit = "none"
        /\ msgs' = msgs \cup {[tag |-> "action", action |-> a, key |-> pressed']}
        /\ tasks' = tasks
    BY <1>2 DEF Migration!ChooseAction, Migration!Press
  <2>2. NothingComes \/ MessageComes({"action"}) BY <2>1, <1>0
  <2>3. tasks = {} BY <2>2 DEF NothingComes, MessageComes
  <2> DEFINE m == [tag |-> "action", action |-> a, key |-> pressed']
  <2>4. msgs' = {m} /\ m.tag = "action" BY <2>1
  <2> HIDE DEF m
  <2> QED BY <2>1, <2>3, <2>4 DEF ScreenInv, MessageComes
<1>3. ASSUME NEW yes \in BOOLEAN, Migration!Answer(yes) PROVE ScreenInv'
  <2>1. /\ ~hasty /\ msgs = {} /\ phase' = "confirm" /\ phase = "confirm" /\ exit = "none"
        /\ msgs' = msgs \cup {[tag |-> "confirm", yes |-> yes, key |-> pressed']}
        /\ tasks' = tasks /\ pending' = pending /\ (yes => shown' = pending)
    BY <1>3 DEF Migration!Answer, Migration!Press
  <2>2. NothingComes \/ MessageComes({"confirm"}) BY <2>1, <1>0
  <2>3. tasks = {} BY <2>2 DEF NothingComes, MessageComes
  <2> DEFINE m == [tag |-> "confirm", yes |-> yes, key |-> pressed']
  <2>4. msgs' = {m} /\ m.tag = "confirm" /\ m.yes = yes BY <2>1
  <2> HIDE DEF m
  <2> QED BY <2>1, <2>3, <2>4 DEF ScreenInv, MessageComes
<1>4. ASSUME NEW task \in tasks, NEW msg, Migration!Returns(task, msg),
             UNCHANGED <<phase, hasty, exit>>,
             \/ task.tag = "load-status" /\ msg.tag \in {"load-status", "failed"}
             \/ task.tag \in {"run", "ran"} /\ msg.tag = "run"
      PROVE  ScreenInv'
  <2>1. ~hasty /\ exit = "none" BY <1>4
  <2>2. msgs = {} /\ tasks = {task} /\ phase \in {"loading", "running"}
    BY <1>0, <2>1 DEF NothingComes, MessageComes, TaskRuns
  <2>3. tasks' = {} /\ msgs' = {msg} BY <1>4, <2>2 DEF Migration!Returns
  <2>4. phase = "loading" => task.tag = "load-status"
    BY <1>0, <2>1, <2>2 DEF TaskRuns, MessageComes
  <2>5. phase = "running" => task.tag \in {"run", "ran"}
    BY <1>0, <2>1, <2>2 DEF TaskRuns, MessageComes
  <2>6. CASE phase = "loading"
    <3>1. msg.tag \in {"load-status", "failed"} BY <1>4, <2>4, <2>6
    <3>2. phase' = "loading" /\ MessageComes({"load-status", "failed"})'
      BY <1>4, <2>3, <2>6, <3>1 DEF MessageComes
    <3> QED BY <2>3, <3>1, <3>2 DEF ScreenInv
  <2>7. CASE phase = "running"
    <3>1. msg.tag = "run" BY <1>4, <2>5, <2>7
    <3>2. phase' = "running" /\ MessageComes({"run"})'
      BY <1>4, <2>3, <2>7, <3>1 DEF MessageComes
    <3> QED BY <2>3, <3>1, <3>2 DEF ScreenInv
  <2> QED BY <2>2, <2>6, <2>7
<1>5. ASSUME NEW task \in tasks, NEW after, after.tag \in {"run", "ran"},
             task.tag \in {"run", "ran"}, tasks' = (tasks \ {task}) \cup {after},
             UNCHANGED <<phase, msgs, hasty, exit>>
      PROVE  ScreenInv'
  <2>1. ~hasty /\ exit = "none" BY <1>5
  <2>2. msgs = {} /\ tasks = {task} /\ phase = "running"
    BY <1>0, <1>5, <2>1 DEF NothingComes, MessageComes, TaskRuns
  <2>3. tasks' = {after} /\ msgs' = {} BY <1>5, <2>2
  <2>4. phase' = "running" /\ TaskRuns({"run", "ran"})' BY <1>5, <2>2, <2>3 DEF TaskRuns
  <2> QED BY <2>3, <2>4 DEF ScreenInv
<1>6. ASSUME NEW msg \in msgs, Migration!Handles(msg), ~hasty,
             \/ phase' = "loading" /\ \E task : tasks' = tasks \cup {task}
                                                /\ task.tag = "load-status"
             \/ phase' = "running" /\ \E task : tasks' = tasks \cup {task}
                                                /\ task.tag = "run"
             \/ phase' \in {"picker", "confirm", "done"} /\ tasks' = tasks
      PROVE  ScreenInv'
  <2>1. exit = "none" BY <1>6 DEF Migration!Handles
  <2>2. tasks = {} /\ msgs = {msg}
    BY <1>0, <1>6, <2>1 DEF NothingComes, MessageComes, TaskRuns
  <2>3. msgs' = {} BY <1>6, <2>2 DEF Migration!Handles
  <2> QED BY <1>6, <2>2, <2>3 DEF ScreenInv, TaskRuns, NothingComes
<1>7. CASE \E task \in tasks : \/ Migration!LoadStatus(task) \/ Migration!RunMigration(task)
                               \/ Migration!ReadNewVersion(task)
  <2>1. PICK task \in tasks : \/ Migration!LoadStatus(task) \/ Migration!RunMigration(task)
                              \/ Migration!ReadNewVersion(task)
    BY <1>7
  <2>2. CASE Migration!LoadStatus(task)
    <3>1. \E msg : /\ Migration!Returns(task, msg) /\ msg.tag \in {"load-status", "failed"}
                   /\ task.tag = "load-status" /\ UNCHANGED <<phase, hasty, exit>>
      BY <2>2 DEF Migration!LoadStatus
    <3> QED BY <1>4, <3>1
  <2>3. CASE Migration!ReadNewVersion(task)
    <3>1. \E msg : /\ Migration!Returns(task, msg) /\ msg.tag = "run"
                   /\ task.tag = "ran" /\ UNCHANGED <<phase, hasty, exit>>
      BY <2>3 DEF Migration!ReadNewVersion
    <3> QED BY <1>4, <3>1
  <2>4. CASE Migration!RunMigration(task)
    <3>1. task.tag = "run" /\ UNCHANGED <<phase, hasty, exit>>
      BY <2>4 DEF Migration!RunMigration
    <3> DEFINE answered == [tag |-> "run", result |-> <<>>]
               after == [tag |-> "ran", prior |-> task.prior, key |-> task.key]
    <3>2. \/ Migration!Returns(task, answered)
          \/ tasks' = (tasks \ {task}) \cup {after} /\ UNCHANGED msgs
      BY <2>4 DEF Migration!RunMigration
    <3>3. answered.tag = "run" /\ after.tag = "ran" OBVIOUS
    <3> HIDE DEF answered, after
    <3> QED BY <1>4, <1>5, <3>1, <3>2, <3>3
  <2> QED BY <2>1, <2>2, <2>3, <2>4
<1>8. CASE \E msg \in msgs : \/ Migration!OnTaskDone(msg) \/ Migration!OnPicker(msg)
                             \/ Migration!OnConfirm(msg)
  <2>1. PICK msg \in msgs : \/ Migration!OnTaskDone(msg) \/ Migration!OnPicker(msg)
                            \/ Migration!OnConfirm(msg)
    BY <1>8
  <2>2. ~hasty /\ Migration!Handles(msg)
    BY <2>1 DEF Migration!OnTaskDone, Migration!OnPicker, Migration!OnConfirm
  <2>3. CASE Migration!OnTaskDone(msg)
    <3>1. phase' \in {"picker", "done"} /\ tasks' = tasks BY <2>3 DEF Migration!OnTaskDone
    <3> QED BY <1>6, <2>2, <3>1
  <2>4. CASE Migration!OnPicker(msg)
    <3> DEFINE again == [tag |-> "load-status", key |-> msg.key]
    <3>1. \/ phase' = "loading" /\ tasks' = tasks \cup {again}
          \/ phase' = "confirm" /\ tasks' = tasks
      BY <2>4 DEF Migration!OnPicker, Migration!EntersLoading
    <3>2. again.tag = "load-status" OBVIOUS
    <3> HIDE DEF again
    <3> QED BY <1>6, <2>2, <3>1, <3>2
  <2>5. CASE Migration!OnConfirm(msg)
    <3> DEFINE again == [tag |-> "load-status", key |-> msg.key]
               run == [tag |-> "run", action |-> pending, prior |-> status, key |-> msg.key]
    <3>1. \/ phase' = "loading" /\ tasks' = tasks \cup {again}
          \/ phase' = "running" /\ tasks' = tasks \cup {run}
      BY <2>5 DEF Migration!OnConfirm, Migration!EntersLoading
    <3>2. again.tag = "load-status" /\ run.tag = "run" OBVIOUS
    <3> HIDE DEF again, run
    <3> QED BY <1>6, <2>2, <3>1, <3>2
  <2> QED BY <2>1, <2>3, <2>4, <2>5
<1>9. CASE Migration!Quit BY <1>9 DEF Migration!Quit
<1>10. (\E a \in Migration!Actions : Migration!RunHeadless(a)) \/ UNCHANGED migrateVars
         => UNCHANGED <<phase, pending, msgs, tasks, shown, hasty, exit>>
  BY DEF Migration!RunHeadless, migrateVars
<1> QED BY <1>1, <1>2, <1>3, <1>7, <1>8, <1>9, <1>10 DEF Migration!Next

\* A run begins with the answer to the screen that shows it, and alone.
LEMMA RunAsShown ==
  ASSUME ScreenInv, Migration!Next, NEW task \in tasks' \ tasks, task.tag = "run", ~hasty
  PROVE  task.action = shown /\ \A other \in tasks : other.tag \notin {"run", "ran"}
<1>1. PICK msg \in msgs : Migration!OnConfirm(msg)
  <2> USE DEF Migration!Returns, Migration!EntersLoading
  <2>1. ASSUME NEW a \in Migration!Actions PROVE ~Migration!RunHeadless(a)
    BY DEF Migration!RunHeadless
  <2>2. ASSUME NEW a \in Migration!Actions PROVE ~Migration!ChooseAction(a)
    BY DEF Migration!ChooseAction
  <2>3. ASSUME NEW t \in tasks PROVE ~Migration!LoadStatus(t)
    BY DEF Migration!LoadStatus
  <2>4. ASSUME NEW t \in tasks PROVE ~Migration!RunMigration(t)
    BY DEF Migration!RunMigration
  <2>5. ASSUME NEW t \in tasks PROVE ~Migration!ReadNewVersion(t)
    BY DEF Migration!ReadNewVersion
  <2>6. ASSUME NEW yes \in BOOLEAN PROVE ~Migration!Answer(yes)
    BY DEF Migration!Answer
  <2>7. ~Migration!Quit BY DEF Migration!Quit
  <2>8. ASSUME NEW msg \in msgs PROVE ~Migration!OnTaskDone(msg)
    BY DEF Migration!OnTaskDone
  <2>9. ASSUME NEW msg \in msgs PROVE ~Migration!OnPicker(msg)
    BY DEF Migration!OnPicker
  <2> QED BY <2>1, <2>2, <2>3, <2>4, <2>5, <2>6, <2>7, <2>8, <2>9 DEF Migration!Next
<1>2. exit = "none" /\ msg.tag = "confirm" BY <1>1 DEF Migration!OnConfirm, Migration!Handles
<1>3. msg.yes /\ task.action = pending
  BY <1>1 DEF Migration!OnConfirm, Migration!EntersLoading, Migration!Confirmed
<1>4. tasks = {} BY <1>2 DEF ScreenInv, NothingComes, TaskRuns, MessageComes
<1>5. shown = pending BY <1>2, <1>3 DEF ScreenInv
<1> QED BY <1>3, <1>4, <1>5

LEMMA ScreenStartsWell == Migration!Init => ScreenInv
<1> SUFFICES ASSUME Migration!Init PROVE ScreenInv OBVIOUS
<1> DEFINE first == [tag |-> "load-status", key |-> 0]
<1>1. phase = "loading" /\ msgs = {} /\ tasks = {first} /\ first.tag = "load-status"
  BY DEF Migration!Init
<1> HIDE DEF first
<1>2. TaskRuns({"load-status"}) BY <1>1 DEF TaskRuns
<1> QED BY <1>1, <1>2 DEF ScreenInv

-----------------------------------------------------------------------------
CachesInv == JwksInv /\ PingInv /\ UsersInv

StandInsInv == MemInv /\ MigrateInv

HandedOutInv == ChainInv /\ PageInv /\ PerfInv /\ ScreenInv

\* A step of StoresSpec is one of each part, or leaves it alone.
LEMMA PartSteps ==
  ASSUME [StoresNext]_storesVars
  PROVE  /\ [Next]_vars
         /\ Jwks!Next \/ UNCHANGED jwksVars
         /\ Health!Next \/ UNCHANGED pingVars
         /\ Users!Next \/ UNCHANGED usersVars
         /\ Handlers!Next \/ UNCHANGED chainVars
         /\ Pages!Next \/ UNCHANGED pageVars
         /\ Tracker!Next \/ UNCHANGED perfVars
         /\ Mem!Next \/ UNCHANGED memVars
         /\ Migration!Next \/ UNCHANGED migrateVars
BY DEF StoresNext, storesVars, Only

(* The types of the caches and how old what they hold can be, at every     *)
(* state of the nine parts together.                                       *)
THEOREM CachesInvariance == StoresSpec => []CachesInv
<1>1. StoresInit => CachesInv
  BY JwksStartsWell, PingStartsWell, UsersStartsWell DEF StoresInit, CachesInv
<1>2. CachesInv /\ [StoresNext]_storesVars => CachesInv'
  BY PartSteps, JwksInductive, PingInductive, UsersInductive DEF CachesInv
<1> QED BY <1>1, <1>2, PTL DEF StoresSpec

(* Retired keys, old verdicts on the database and replaced lists of users  *)
(* are served no longer than the caches owe, for any number of requests    *)
(* whose slow answers overtake each other.                                 *)
THEOREM NothingIsStale == StoresSpec => NothingStale
<1> DEFINE KeysGo == \A r \in Requests, k \in Kids :
                       servedKey[r] # k /\ servedKey'[r] = k =>
                         retiredAt[k] = Never \/ jwksNow - retiredAt[k] <= Jwks!Bound
           OkRecent == \A r \in Requests :
                         Health!Load(r) /\ answer'[r] = "ok" => pingNow - lastUp <= TTL
           ListRecent ==
             \A r \in Requests :
               LET list == servedList'[r]
               IN  list # None /\ (Users!Get(r) \/ Users!SetAndServe(r)) =>
                     replacedAt[list] = None \/ usersNow - replacedAt[list] <= Patience + TTL
<1>1. ASSUME CachesInv, CachesInv', [StoresNext]_storesVars
      PROVE  [KeysGo]_jwksVars /\ [OkRecent]_pingVars /\ [ListRecent]_usersVars
  <2>1. [KeysGo]_jwksVars
    BY <1>1, PartSteps, ServedInTime DEF CachesInv
  <2>2. OkRecent BY <1>1, OkInTime DEF CachesInv
  <2>3. ListRecent BY <1>1, ListInTime DEF CachesInv
  <2> QED BY <2>1, <2>2, <2>3
<1>2. StoresSpec => [][KeysGo]_jwksVars /\ [][OkRecent]_pingVars /\ [][ListRecent]_usersVars
  BY <1>1, CachesInvariance, PTL DEF StoresSpec
<1> QED BY <1>2 DEF NothingStale, Jwks!RetiredKeysGo, Health!OkIsRecent, Users!ListIsRecent,
            jwksVars, pingVars, usersVars, Jwks!vars, Health!vars, Users!vars

(* Mem does to its tree of directories and files what the os package       *)
(* would, or nothing, and the migrator in memory walks the migrations in   *)
(* their order: for any paths, contents and versions.                      *)
THEOREM StandInsImplement == StoresSpec => StandInsAreFaithful
<1>1. StoresInit => StandInsInv /\ Mem!Tree!Init /\ Migration!Promised!Init
  BY MemStartsWell, MigrateStartsWell DEF StoresInit, StandInsInv
<1>2. StandInsInv /\ [StoresNext]_storesVars =>
        StandInsInv' /\ [Mem!Tree!Next]_<<Dirs, Data>> /\ [Migration!Promised!Next]_applied
  BY PartSteps, MemStep, MigrateStep DEF StandInsInv
<1>3. StandInsInv => maxApplied \in Migration!Ends BY DEF StandInsInv, MigrateInv
<1>4. StoresSpec => [](maxApplied \in Migration!Ends) /\ Migration!Promised!Init
                    /\ [][Migration!Promised!Next]_applied
                    /\ Mem!Tree!Init /\ [][Mem!Tree!Next]_<<Dirs, Data>>
  BY <1>1, <1>2, <1>3, PTL DEF StoresSpec
<1>5. Mem!Tree!Init /\ [][Mem!Tree!Next]_<<Dirs, Data>> => Mem!ImplementsTree
  BY DEF Mem!ImplementsTree, Mem!Tree!Spec, Dirs, Data
<1>6. Migration!Promised!Init /\ [][Migration!Promised!Next]_applied
        /\ [](maxApplied \in Migration!Ends) => Migration!ImplementsMigrations
  BY DEF Migration!ImplementsMigrations, Migration!Promised!Spec
<1> QED BY <1>4, <1>5, <1>6 DEF StandInsAreFaithful

(* Writers, bodies, statuses and counters of the chain, pages up to their  *)
(* cursor, recorded spans and the screens of a patient user, at every      *)
(* state of the nine parts together.                                       *)
THEOREM HandedOutInvariance == StoresSpec => []HandedOutInv
<1>1. StoresInit => HandedOutInv
  BY ChainStartsWell, PagesStartWell, PerfStartsWell, ScreenStartsWell
  DEF StoresInit, HandedOutInv
<1>2. HandedOutInv /\ [StoresNext]_storesVars => HandedOutInv'
  BY PartSteps, ChainStep, PageStep, PerfStep, ScreenStep DEF HandedOutInv
<1> QED BY <1>1, <1>2, PTL DEF StoresSpec

(* Responses, rows, spans and listings are handed out whole and counted    *)
(* once, reports of timings only grow, and a migration that starts is the  *)
(* one on the screen: for any requests, writers, rows, page sizes, spans,  *)
(* paths and keys.                                                         *)
THEOREM NothingMixes == StoresSpec => NothingIsMixedUp
<1> DEFINE Whole == /\ Handlers!TrafficAgrees /\ Handlers!BodiesWhole
                    /\ Pages!WalkIsComplete
                    /\ Tracker!SpansRecorded
                    /\ Mem!ListsChildren
           Grow == Tracker!IsPrefix(Tracker!GetTimings, Tracker!GetTimings')
           AsShown == \A task \in tasks' \ tasks : task.tag = "run" /\ ~hasty =>
                        task.action = shown /\ \A other \in tasks : other.tag \notin {"run", "ran"}
<1>1. HandedOutInv /\ StandInsInv => Whole
  BY ChainIsWhole, SpansAreRecorded, ListingsAreChildren
  DEF HandedOutInv, StandInsInv, PageInv
<1>2. StandInsInv /\ [StoresNext]_storesVars => StandInsInv'
  BY PartSteps, MemStep, MigrateStep DEF StandInsInv
<1>3. StoresInit => StandInsInv BY MemStartsWell, MigrateStartsWell DEF StoresInit, StandInsInv
<1>4. StoresSpec => []StandInsInv BY <1>2, <1>3, PTL DEF StoresSpec
<1>5. HandedOutInv /\ [StoresNext]_storesVars => [Grow]_perfVars /\ [AsShown]_migrateVars
  <2> SUFFICES ASSUME HandedOutInv, [StoresNext]_storesVars
               PROVE  [Grow]_perfVars /\ [AsShown]_migrateVars
    OBVIOUS
  <2>1. [Grow]_perfVars BY PartSteps, PerfStep DEF HandedOutInv
  <2>2. [AsShown]_migrateVars
    <3> SUFFICES ASSUME Migration!Next PROVE AsShown BY PartSteps
    <3> QED BY RunAsShown DEF HandedOutInv
  <2> QED BY <2>1, <2>2
<1>6. StoresSpec => []Whole /\ [][Grow]_perfVars /\ [][AsShown]_migrateVars
  BY <1>1, <1>4, <1>5, HandedOutInvariance, PTL DEF StoresSpec
<1>7. [][Grow]_perfVars => Tracker!ReportsGrow
  BY DEF Tracker!ReportsGrow, perfVars, Tracker!vars
<1>8. [][AsShown]_migrateVars => Migration!RunsWhatWasShown
  BY DEF Migration!RunsWhatWasShown, migrateVars, Migration!vars
<1>9. []Whole /\ Tracker!ReportsGrow /\ Migration!RunsWhatWasShown => NothingIsMixedUp
  BY PTL DEF NothingIsMixedUp
<1> QED BY <1>6, <1>7, <1>8, <1>9

(* Memory implements the store also as one of the parts of Stores, as the  *)
(* run has it.                                                             *)
THEOREM StoreAmongStores == StoresSpec => ImplementsStore
<1>1. StoresInit => Init BY DEF StoresInit
<1>2. [StoresNext]_storesVars => [Next]_vars BY PartSteps
<1>3. StoresSpec => Spec BY <1>1, <1>2, PTL DEF StoresSpec, Spec
<1> QED BY <1>3, Refinement
=============================================================================
