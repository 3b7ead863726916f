--------------------------------- MODULE KV ---------------------------------
(***************************************************************************)
(* internal/kv, Memory: expired entries stay in the map until a Get, the   *)
(* janitor or a Set comes across them.  A step is one hold of a shard's    *)
(* lock or one reading of the clock: between the read of Get and its       *)
(* removal of what has expired, or between the clock of Sweep and the      *)
(* shards it visits, others go on.  Every key is in a shard of its own,    *)
(* the finest interleaving of Sweep.  The clock does not run backwards.    *)
(***************************************************************************)
EXTENDS Naturals, FiniteSets

CONSTANTS Keys, Values, Callers,
          TTLs,    \* arguments of SetWithTTL; ttl <= 0 acts as 0, Set
          MaxTime, \* bound: the last tick
          Absent   \* no entry

ASSUME TTLsAssumption == TTLs \subseteq Nat
ASSUME KeysAssumption == IsFiniteSet(Keys)
ASSUME AbsentAssumption == Absent \notin [value : Values, expiresAt : Nat]

Entries == [value : Values, expiresAt : Nat]

VARIABLES now,
          entries, \* the shards' maps: key to entry
          pc,      \* where each caller is in Get or GetOrSet
          key,     \* the key of that call
          seen,    \* the entry it read
          orSet,   \* the call is GetOrSet
          janitor, \* "off", "waiting", "sweeping" or, returned, "gone"
          sweepAt, \* Sweep's reading of the clock
          toSweep, \* shards it has not visited
          stop,    \* Memory.stop is closed
          deletes  \* history: the number of Delete calls, modulo 2

vars == <<now, entries, pc, key, seen, orSet, janitor, sweepAt, toSweep, stop,
          deletes>>
call == <<pc, key, seen, orSet>>
sweep == <<janitor, sweepAt, toSweep>>

Expiry(ttl) == IF ttl = 0 THEN 0 ELSE now + ttl

\* The entry's time is over at t.
Expired(e, t) == e # Absent /\ e.expiresAt # 0 /\ t >= e.expiresAt

Init == /\ now = 0
        /\ entries = [k \in Keys |-> Absent]
        /\ pc = [c \in Callers |-> "idle"]
        /\ key \in [Callers -> Keys]
        /\ seen = [c \in Callers |-> Absent]
        /\ orSet = [c \in Callers |-> FALSE]
        /\ janitor \in {"off", "waiting"}
        /\ sweepAt = 0 /\ toSweep = {} /\ stop = FALSE /\ deletes = 0

Tick == /\ now < MaxTime
        /\ now' = now + 1
        /\ UNCHANGED <<entries, call, sweep, stop, deletes>>

Put(k, v, ttl) ==
  entries' = [entries EXCEPT ![k] = [value |-> v, expiresAt |-> Expiry(ttl)]]

SetWithTTL(k, v, ttl) == Put(k, v, ttl) /\ UNCHANGED <<now, call, sweep, stop, deletes>>

Delete(k) == /\ entries' = [entries EXCEPT ![k] = Absent]
             /\ deletes' = 1 - deletes
             /\ UNCHANGED <<now, call, sweep, stop>>

-----------------------------------------------------------------------------
(* Get and GetOrSet.                                                       *)
Read(c, k, set) == /\ pc[c] = "idle"
                   /\ pc' = [pc EXCEPT ![c] = "checking"]
                   /\ key' = [key EXCEPT ![c] = k]
                   /\ seen' = [seen EXCEPT ![c] = entries[k]]
                   /\ orSet' = [orSet EXCEPT ![c] = set]
                   /\ UNCHANGED <<now, entries, sweep, stop, deletes>>

Goto(c, label) == pc' = [pc EXCEPT ![c] = label] /\ UNCHANGED <<key, seen, orSet>>

AfterMiss(c) == IF orSet[c] THEN "computing" ELSE "idle"

\* Absent, or expired by now, or a hit.
Checks(c) == /\ pc[c] = "checking"
             /\ Goto(c, IF seen[c] = Absent THEN AfterMiss(c)
                        ELSE IF Expired(seen[c], now) THEN "dropping" ELSE "idle")
             /\ UNCHANGED <<now, entries, sweep, stop, deletes>>

\* Slip: the entry is dropped without the second look.
DropsBlindly(c) == /\ pc[c] = "dropping"
                   /\ entries' = [entries EXCEPT ![key[c]] = Absent]
                   /\ Goto(c, AfterMiss(c))
                   /\ UNCHANGED <<now, sweep, stop, deletes>>

\* The second look, under the lock, goes by the expiry alone.
Drops(c) ==
  LET cur == entries[key[c]]
  IN  /\ pc[c] = "dropping"
      /\ entries' = IF cur # Absent /\ cur.expiresAt = seen[c].expiresAt
                    THEN [entries EXCEPT ![key[c]] = Absent] ELSE entries
      /\ Goto(c, AfterMiss(c))
      /\ UNCHANGED <<now, sweep, stop, deletes>>

\* compute fails, or its value is stored whatever is there by now.
ComputeFails(c) == /\ pc[c] = "computing"
                   /\ Goto(c, "idle")
                   /\ UNCHANGED <<now, entries, sweep, stop, deletes>>

StoresComputed(c, v, ttl) == /\ pc[c] = "computing"
                             /\ Put(key[c], v, ttl)
                             /\ Goto(c, "idle")
                             /\ UNCHANGED <<now, sweep, stop, deletes>>

-----------------------------------------------------------------------------
(* The janitor and Close.                                                  *)
SweepBegins == /\ janitor = "waiting"
               /\ janitor' = "sweeping" /\ sweepAt' = now /\ toSweep' = Keys
               /\ UNCHANGED <<now, entries, call, stop, deletes>>

SweepsShard(k) == /\ k \in toSweep
                  /\ toSweep' = toSweep \ {k}
                  /\ entries' = IF Expired(entries[k], sweepAt)
                                THEN [entries EXCEPT ![k] = Absent] ELSE entries
                  /\ UNCHANGED <<now, call, janitor, sweepAt, stop, deletes>>

SweepEnds == /\ janitor = "sweeping" /\ toSweep = {}
             /\ janitor' = "waiting"
             /\ UNCHANGED <<now, entries, call, sweepAt, toSweep, stop, deletes>>

\* Close: stopOnce closes stop; the wait for stopped is janitor = "gone".
Close == /\ ~stop /\ stop' = TRUE
         /\ UNCHANGED <<now, entries, call, sweep, deletes>>

JanitorStops == /\ janitor = "waiting" /\ stop
                /\ janitor' = "gone"
                /\ UNCHANGED <<now, entries, call, sweepAt, toSweep, stop, deletes>>

Lookup(c) == \/ \E k \in Keys, set \in BOOLEAN : Read(c, k, set)
             \/ Checks(c) \/ Drops(c) \/ ComputeFails(c)
             \/ \E v \in Values, ttl \in TTLs : StoresComputed(c, v, ttl)

Janitor == SweepBegins \/ SweepEnds \/ JanitorStops \/ \E k \in Keys : SweepsShard(k)

Next == \/ Tick \/ Close \/ Janitor
        \/ \E k \in Keys : Delete(k) \/ \E v \in Values, ttl \in TTLs : SetWithTTL(k, v, ttl)
        \/ \E c \in Callers : Lookup(c)

Spec == Init /\ [][Next]_vars

-----------------------------------------------------------------------------
TypeOK == /\ now \in Nat
          /\ entries \in [Keys -> Entries \cup {Absent}]
          /\ pc \in [Callers -> {"idle", "checking", "dropping", "computing"}]
          /\ key \in [Callers -> Keys]
          /\ seen \in [Callers -> Entries \cup {Absent}]
          /\ orSet \in [Callers -> BOOLEAN]
          /\ janitor \in {"off", "waiting", "sweeping", "gone"}
          /\ sweepAt \in Nat /\ toSweep \subseteq Keys /\ stop \in BOOLEAN
          /\ deletes \in {0, 1}

Live == [k \in Keys |-> IF Expired(entries[k], now) THEN Absent ELSE entries[k]]

Store == INSTANCE KVStore WITH live <- Live

(* However lazily and by whomever expired entries are removed, nothing     *)
(* that is still live is removed with them, and a replaced entry is not    *)
(* dropped for its predecessor's expiry: Memory implements the store whose *)
(* entries vanish at their time, and earlier by Delete alone.              *)
ImplementsStore == Store!Spec
=============================================================================
