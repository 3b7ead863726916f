------------------------------ MODULE KVStore -------------------------------
(***************************************************************************)
(* What the Store interface of internal/kv promises: a map from keys to    *)
(* values in which an entry with a time to live is gone at the very tick   *)
(* its time is over, and otherwise only when it is deleted or replaced.    *)
(***************************************************************************)
EXTENDS Naturals

CONSTANTS Keys, Values,
          TTLs,  \* times to live in use, 0 for none
          Absent \* no entry

VARIABLES now, live,
          deletes \* the number of Delete calls, modulo 2: a removal nobody asked
                  \* for leaves it alone and so is none of the steps below

Init == now = 0 /\ live = [k \in Keys |-> Absent] /\ deletes = 0

\* expiresAt = 0: for ever.
Expiry(ttl) == IF ttl = 0 THEN 0 ELSE now + ttl

Put(k, v, ttl) == /\ live' = [live EXCEPT ![k] = [value |-> v, expiresAt |-> Expiry(ttl)]]
                  /\ UNCHANGED <<now, deletes>>

Remove(k) == /\ live' = [live EXCEPT ![k] = Absent]
             /\ deletes' = 1 - deletes
             /\ UNCHANGED now

Over(e, t) == e # Absent /\ e.expiresAt # 0 /\ t >= e.expiresAt

Tick == /\ now' = now + 1
        /\ live' = [k \in Keys |-> IF Over(live[k], now + 1) THEN Absent ELSE live[k]]
        /\ UNCHANGED deletes

Next == \/ Tick
        \/ \E k \in Keys : Remove(k) \/ \E v \in Values, ttl \in TTLs : Put(k, v, ttl)

Spec == Init /\ [][Next]_<<now, live, deletes>>
=============================================================================
