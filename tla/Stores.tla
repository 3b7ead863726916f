-------------------------------- MODULE Stores -------------------------------
(***************************************************************************)
(* Nine parts that keep something for others, for model checking in one    *)
(* run: KV, the caches of the auth and handlers packages (JWKS, PingCache, *)
(* UsersCache), the gzip pool and traffic counters of the middleware       *)
(* chain, Paginator, Perf, MemFS and Migrate.  As in Limits, a behaviour   *)
(* picks one of them and the others stay as they begin.                    *)
(***************************************************************************)
EXTENDS KV, Integers, TLC

CONSTANTS Requests,                 \* JWKS, PingCache, UsersCache, Chain
          Kids, KeyTTL, Interval,   \* JWKS
          TTL, Patience, LastTick, MaxVersion, Never, None, \* the caches
          Writers, MaxWrites,       \* Chain
          Rows, Sizes, Default, Cap, MaxChanges, \* Paginator
          Spans, MaxSets, MaxEnds,  \* Perf
          Names, Contents, Depth, Dir, \* MemFS
          Versions, MaxKeys         \* Migrate

\* What the times of the caches are; their bounds are as in their modules.
ASSUME CachesAssumption ==
  /\ KeyTTL \in Nat /\ Interval \in Nat /\ TTL \in Nat /\ Patience \in Nat
  /\ MaxVersion \in Nat
  /\ Never \notin Nat /\ None \notin Nat /\ None \notin Kids

\* A file holds no directory, and versions are numbers (migrator.go, uint64).
ASSUME StandInsAssumption == /\ Dir \notin Contents /\ Depth \in Nat
                             /\ Versions \subseteq Nat /\ IsFiniteSet(Versions)

\* Keys of rows are numbers, page sizes integers (paginator.go, int), and what
\* stands for no cursor, no writer and the child tracker is none of the others.
ASSUME HandedOutAssumption ==
  /\ IsFiniteSet(Requests) /\ None \notin Writers
  /\ Rows \subseteq Nat /\ IsFiniteSet(Rows) /\ Sizes \subseteq Int \cup {None}
  /\ Default \in Int /\ Cap \in Int
  /\ \A n \in {1, 2}, k \in Rows : None # [v |-> n, key |-> k]
  /\ "child" \notin Spans

VARIABLES
  focus,
  jwksNow, published, retiredAt, keys, fetchedAt, jwksPc, kid, startedAt, document, servedKey,
  pingNow, dbUp, lastUp, at, healthy, pingPc, pingBegan, passed, answer,
  usersNow, content, replacedAt, entry, expires, usersPc, usersBegan, rows, servedList,
  chainPc, zip, writes, gz, pool, target, kept, begun, sent, body, wrote, stats,
  table, changes, build, cursor, page, stayed, walk,
  on, attrs, stopped, stopping, atStop, tracked,
  files, err,
  applied, maxApplied, phase, status, pending, msgs, tasks, pressed, shown, hasty, done, exit

Jwks == INSTANCE JWKS WITH TTL <- KeyTTL, MaxTime <- LastTick - 1, now <- jwksNow,
                           pc <- jwksPc, answer <- document, served <- servedKey
Health == INSTANCE PingCache WITH MaxTime <- LastTick + 1, now <- pingNow, pc <- pingPc,
                                  began <- pingBegan
Users == INSTANCE UsersCache WITH MaxTime <- LastTick, now <- usersNow, version <- content,
                                  pc <- usersPc, began <- usersBegan, served <- servedList
Handlers == INSTANCE Chain WITH pc <- chainPc, status <- sent, seen <- wrote
Pages == INSTANCE Paginator WITH version <- build, shown <- page
Tracker == INSTANCE Perf WITH entries <- tracked
Mem == INSTANCE MemFS
Migration == INSTANCE Migrate WITH keys <- pressed

jwksVars == <<jwksNow, published, retiredAt, keys, fetchedAt, jwksPc, kid, startedAt,
              document, servedKey>>
pingVars == <<pingNow, dbUp, lastUp, at, healthy, pingPc, pingBegan, passed, answer>>
usersVars == <<usersNow, content, replacedAt, entry, expires, usersPc, usersBegan, rows,
               servedList>>
chainVars == <<chainPc, zip, writes, gz, pool, target, kept, begun, sent, body, wrote, stats>>
pageVars == <<table, changes, build, cursor, page, stayed, walk>>
perfVars == <<on, attrs, stopped, stopping, atStop, tracked>>
memVars == <<files, err>>
migrateVars == <<applied, maxApplied, phase, status, pending, msgs, tasks, pressed, shown,
                 hasty, done, exit>>

Parts == {"kv", "jwks", "ping", "users", "chain", "pages", "perf", "mem", "migrate"}

\* A part that is not the focus begins in one way only.
StoresInit ==
  /\ focus \in Parts
  /\ Init /\ Jwks!Init /\ Health!Init /\ Users!Init /\ Handlers!Init /\ Pages!Init
  /\ Tracker!Init /\ Mem!Init /\ Migration!Init
  /\ focus = "kv" \/ (janitor = "off" /\ \A c \in Callers : key[c] = CHOOSE k \in Keys : TRUE)
  /\ focus = "jwks" \/ LET one == CHOOSE k \in Kids : TRUE
                       IN  published = {one} /\ \A r \in Requests : kid[r] = one
  /\ focus = "chain" \/ \A r \in Requests : ~zip[r]
  /\ focus = "pages" \/ table = {}

Only(part) == /\ focus = part /\ UNCHANGED focus
              /\ part # "kv" => UNCHANGED vars
              /\ part # "jwks" => UNCHANGED jwksVars
              /\ part # "ping" => UNCHANGED pingVars
              /\ part # "users" => UNCHANGED usersVars
              /\ part # "chain" => UNCHANGED chainVars
              /\ part # "pages" => UNCHANGED pageVars
              /\ part # "perf" => UNCHANGED perfVars
              /\ part # "mem" => UNCHANGED memVars
              /\ part # "migrate" => UNCHANGED migrateVars

StoresNext == \/ Next /\ Only("kv")
              \/ Jwks!Next /\ Only("jwks")
              \/ Health!Next /\ Only("ping")
              \/ Users!Next /\ Only("users")
              \/ Handlers!Next /\ Only("chain")
              \/ Pages!Next /\ Only("pages")
              \/ Tracker!Next /\ Only("perf")
              \/ Mem!Next /\ Only("mem")
              \/ Migration!Next /\ Only("migrate")

storesVars == <<focus, vars, jwksVars, pingVars, usersVars, chainVars, pageVars, perfVars,
                memVars, migrateVars>>

StoresSpec == StoresInit /\ [][StoresNext]_storesVars

AnyRequest == Permutations(Requests)

-----------------------------------------------------------------------------
(* The stand-ins do what the real thing would: the file system in memory   *)
(* is a tree of directories and files (vfs.go, Mem), and the migrator in   *)
(* memory walks the migrations in their order (migrator.go, FakeMigrator). *)
StandInsAreFaithful == Mem!ImplementsTree /\ Migration!ImplementsMigrations

(* What the caches answer with is not older than they owe, whatever slow   *)
(* answers overwrite: keys (jwks.go), database health (health.go) and the  *)
(* list of users (user.go).                                                *)
NothingStale == Jwks!RetiredKeysGo /\ Health!OkIsRecent /\ Users!ListIsRecent

(* What is handed out is whole and counted once: responses and their       *)
(* counters (gzip.go, traffic.go), the rows of a walk over pages           *)
(* (paginator.go), spans (span.go), the children of a directory (vfs.go);  *)
(* and what was shown stands: a report of timings only grows (perf.go),    *)
(* and the migration that starts is the one on the confirmed screen        *)
(* (cmd/migrate/model.go).                                                 *)
NothingIsMixedUp == /\ [](/\ Handlers!TrafficAgrees /\ Handlers!BodiesWhole
                         /\ Pages!WalkIsComplete
                         /\ Tracker!SpansRecorded
                         /\ Mem!ListsChildren)
                    /\ Tracker!ReportsGrow /\ Migration!RunsWhatWasShown
=============================================================================
