----------------------------- MODULE UsersCache -----------------------------
(***************************************************************************)
(* internal/handlers/user.go: GET /users serves the list from the cache,   *)
(* or reads it from the database, stores it for TTL and serves it.  The    *)
(* cache (internal/cache over valkey, external) may fail any call; the     *)
(* handler then does without it.  Requests overlap, and nothing ties a     *)
(* store to the read before it.  A request lasts Patience ticks at most:   *)
(* the parameter in which the bounds are stated.  The handler sets none.   *)
(***************************************************************************)
EXTENDS Integers

CONSTANTS Requests,
          TTL,        \* the 30 seconds given to Set
          Patience,   \* how long a request may last
          MaxTime,    \* bound: the last tick
          MaxVersion, \* bound: changes of the users table
          None        \* no entry, nothing read, no list served

VARIABLES now,
          version,    \* the content of the users table
          replacedAt, \* when a version made way for the next
          entry,      \* the cached version, None if there is none
          expires,    \* the tick at which the entry is gone
          pc,         \* "idle", "missed", "read" for each request
          began,      \* when it began
          rows,       \* the version it read
          served      \* the version it served, None for an error

vars == <<now, version, replacedAt, entry, expires, pc, began, rows, served>>
table == <<version, replacedAt>>
cache == <<entry, expires>>

Init == /\ now = 0
        /\ version = 0 /\ replacedAt = [v \in 0..MaxVersion |-> None]
        /\ entry = None /\ expires = 0
        /\ pc = [r \in Requests |-> "idle"]
        /\ began = [r \in Requests |-> 0]
        /\ rows = [r \in Requests |-> None]
        /\ served = [r \in Requests |-> None]

\* The cache drops its entry when its time has come.
Tick == /\ now < MaxTime
        /\ \A r \in Requests : pc[r] # "idle" => now < began[r] + Patience
        /\ now' = now + 1
        /\ entry' = IF now + 1 >= expires THEN None ELSE entry
        /\ UNCHANGED <<table, expires, pc, began, rows, served>>

\* Somebody writes the table.
TableChanges == /\ version < MaxVersion
                /\ version' = version + 1
                /\ replacedAt' = [replacedAt EXCEPT ![version] = now]
                /\ UNCHANGED <<now, cache, pc, began, rows, served>>

\* c.Get returns the entry, or it misses or fails.
Get(r) == /\ pc[r] = "idle"
          /\ began' = [began EXCEPT ![r] = now]
          /\ \/ /\ entry # None
                /\ served' = [served EXCEPT ![r] = entry]
                /\ UNCHANGED pc
             \/ /\ pc' = [pc EXCEPT ![r] = "missed"]
                /\ served' = [served EXCEPT ![r] = None]
          /\ UNCHANGED <<now, table, cache, rows>>

\* querier.GetUsers reads the table, or fails: the answer is an error.
GetUsers(r) == /\ pc[r] = "missed"
               /\ \/ /\ rows' = [rows EXCEPT ![r] = version]
                     /\ pc' = [pc EXCEPT ![r] = "read"]
                  \/ /\ pc' = [pc EXCEPT ![r] = "idle"]
                     /\ UNCHANGED rows
               /\ UNCHANGED <<now, table, cache, began, served>>

\* Slip: Set is not told when to drop the entry.
NeverExpires == MaxTime + 1

Expires == now + TTL

\* c.Set stores the list, or fails; it is served in any case.
SetAndServe(r) == /\ pc[r] = "read"
                  /\ \/ entry' = rows[r] /\ expires' = Expires
                     \/ UNCHANGED cache
                  /\ served' = [served EXCEPT ![r] = rows[r]]
                  /\ pc' = [pc EXCEPT ![r] = "idle"]
                  /\ UNCHANGED <<now, table, began, rows>>

Next == \/ Tick \/ TableChanges
        \/ \E r \in Requests : Get(r) \/ GetUsers(r) \/ SetAndServe(r)

Spec == Init /\ [][Next]_vars

-----------------------------------------------------------------------------
(* A list that was replaced is not served for ever: although a slow        *)
(* request may put an older list over a newer one, and give it a whole TTL *)
(* again, a list that is served was current Patience + TTL ago or later.   *)
ListIsRecent ==
  [][\A r \in Requests :
       LET list == served'[r]
       IN  list # None /\ (Get(r) \/ SetAndServe(r)) =>
             replacedAt[list] = None \/ now - replacedAt[list] <= Patience + TTL]_vars
=============================================================================
