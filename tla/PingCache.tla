----------------------------- MODULE PingCache -----------------------------
(***************************************************************************)
(* internal/handlers/health.go: /healthz answers from a cached ping of the *)
(* database, or pings and stores what it found under the time at which the *)
(* ping began.  Requests overlap; the state is an atomic pointer, loaded   *)
(* once and stored once by a request.  now and s.at are read from the same *)
(* clock; a ping lasts Patience ticks at most, its timeout.                *)
(***************************************************************************)
EXTENDS Integers

CONSTANTS Requests,
          TTL,      \* healthCacheTTL
          Patience, \* the timeout of a ping
          MaxTime,  \* bound: the last tick
          Never     \* no state stored yet, database never up

VARIABLES now,
          dbUp,    \* the database answers pings
          lastUp,  \* the last tick at which it did
          at, healthy, \* the stored healthState
          pc,      \* "idle", "pinging", "pinged" for each request
          began,   \* the time its ping began
          passed,  \* what its ping returned
          answer   \* what it answered: "none", "ok" or "unhealthy"

vars == <<now, dbUp, lastUp, at, healthy, pc, began, passed, answer>>
database == <<dbUp, lastUp>>

Init == /\ now = 0
        /\ dbUp = TRUE /\ lastUp = 0
        /\ at = Never /\ healthy = FALSE
        /\ pc = [r \in Requests |-> "idle"]
        /\ began = [r \in Requests |-> 0]
        /\ passed = [r \in Requests |-> FALSE]
        /\ answer = [r \in Requests |-> "none"]

Tick == /\ now < MaxTime
        /\ \A r \in Requests : pc[r] # "idle" => now < began[r] + Patience
        /\ now' = now + 1
        /\ lastUp' = IF dbUp THEN now + 1 ELSE lastUp
        /\ UNCHANGED <<dbUp, at, healthy, pc, began, passed, answer>>

DatabaseTurns == /\ dbUp' = ~dbUp
                 /\ lastUp' = IF dbUp' THEN now ELSE lastUp
                 /\ UNCHANGED <<now, at, healthy, pc, began, passed, answer>>

Answer(r, ok) == answer' = [answer EXCEPT ![r] = IF ok THEN "ok" ELSE "unhealthy"]

\* The handler's look at the stored state.
Load(r) == /\ pc[r] = "idle"
           /\ IF at = Never \/ now - at > TTL
              THEN /\ pc' = [pc EXCEPT ![r] = "pinging"]
                   /\ began' = [began EXCEPT ![r] = now]
                   /\ answer' = [answer EXCEPT ![r] = "none"]
              ELSE /\ Answer(r, healthy)
                   /\ UNCHANGED <<pc, began>>
           /\ UNCHANGED <<now, database, at, healthy, passed>>

\* The ping succeeds only if the database is up; it fails if that is down,
\* the timeout hits, or the client of this request has gone.
Ping(r) == /\ pc[r] = "pinging"
           /\ \E ok \in BOOLEAN : /\ ok => dbUp
                                  /\ passed' = [passed EXCEPT ![r] = ok]
           /\ pc' = [pc EXCEPT ![r] = "pinged"]
           /\ UNCHANGED <<now, database, at, healthy, began, answer>>

\* Slip: the state is stamped when the ping is over.
StampAfter(r) == now

\* at: time.Now() is evaluated before pool.Ping.
Stamp(r) == began[r]

Store(r) == /\ pc[r] = "pinged"
            /\ at' = Stamp(r) /\ healthy' = passed[r]
            /\ Answer(r, passed[r])
            /\ pc' = [pc EXCEPT ![r] = "idle"]
            /\ UNCHANGED <<now, database, began, passed>>

Next == Tick \/ DatabaseTurns \/ \E r \in Requests : Load(r) \/ Ping(r) \/ Store(r)

Spec == Init /\ [][Next]_vars

-----------------------------------------------------------------------------
(* A cached "ok" is never older than the cache window: the database did    *)
(* answer within TTL of it, however long the ping behind it took and       *)
(* whatever order overlapping requests stored their pings in.              *)
OkIsRecent == [][\A r \in Requests : Load(r) /\ answer'[r] = "ok" => now - lastUp <= TTL]_vars

(* An answer of "unhealthy" means that the database was down within TTL of *)
(* it.  False of the code: a client that goes away during the ping makes   *)
(* it fail for everybody.  Stated, not checked.                            *)
UnhealthyHasReason ==
  [][\A r \in Requests : answer[r] # "unhealthy" /\ answer'[r] = "unhealthy" => ~dbUp]_vars
=============================================================================
