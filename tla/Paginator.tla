------------------------------ MODULE Paginator ------------------------------
(***************************************************************************)
(* internal/paginator: a client walks a list endpoint page by page.  The   *)
(* endpoint (the caller the package documents, external) reads pageSize+1  *)
(* rows behind the cursor in the order of their keys; SplitPage, NewPage,  *)
(* Encode, Decode and ClampPageSize are the package.  Rows come and go     *)
(* between two pages, and a new build may change CursorVersion.            *)
(***************************************************************************)
EXTENDS Integers, FiniteSets, Sequences, SequencesExt

CONSTANTS Rows,        \* keys, integers
          Sizes,       \* what ?pageSize= may hold, None if it is missing
          Default, Cap, \* the arguments def and maxN of ClampPageSize
          MaxChanges,  \* bound: changes of the table
          None

VARIABLES table,   \* the rows present
          changes,
          version, \* CursorVersion of the running build
          cursor,  \* NextCursor, as the client keeps it
          shown,   \* the rows the client has got
          stayed,  \* history: the rows present since the walk began
          walk     \* "going", "ended" or "refused"

vars == <<table, changes, version, cursor, shown, stayed, walk>>

Init == /\ table \in SUBSET Rows
        /\ changes = 0 /\ version = 1
        /\ cursor = None /\ shown = <<>>
        /\ stayed = table
        /\ walk = "going"

TableChanges == /\ changes < MaxChanges
                /\ \E k \in Rows : table' = IF k \in table THEN table \ {k} ELSE table \cup {k}
                /\ stayed' = stayed \cap table'
                /\ changes' = changes + 1
                /\ UNCHANGED <<version, cursor, shown, walk>>

NewBuild == /\ version = 1
            /\ version' = 2
            /\ UNCHANGED <<table, changes, cursor, shown, stayed, walk>>

AtLeast(n, bound) == IF n < bound THEN bound ELSE n

\* The bounds themselves are put right first.
ClampPageSize(size, def, maxN) ==
  LET least == AtLeast(def, 1)
      most == AtLeast(maxN, least)
  IN  IF size = None \/ size < 1 THEN least ELSE IF size > most THEN most ELSE size

Behind(after) == {k \in table : k > after}

Ascending(set) == CHOOSE rows \in [1..Cardinality(set) -> set] :
                    /\ ToSet(rows) = set
                    /\ \A i, j \in DOMAIN rows : i < j => rows[i] < rows[j]

\* The rows behind a key, pageSize + 1 of them at most, in order.
Fetch(after, limit) ==
  LET rows == Ascending(Behind(after))
  IN  SubSeq(rows, 1, IF Len(rows) < limit THEN Len(rows) ELSE limit)

\* Slip: a page that is not full is taken for the last.
SplitPageOfFull(rows, size) == IF Len(rows) <= size + 1 THEN [page |-> rows, hasMore |-> FALSE]
                               ELSE [page |-> SubSeq(rows, 1, size), hasMore |-> TRUE]

SplitPage(rows, size) == IF size < 1 \/ Len(rows) <= size THEN [page |-> rows, hasMore |-> FALSE]
                         ELSE [page |-> SubSeq(rows, 1, size), hasMore |-> TRUE]

\* Slip: the cursor is made from the row after the page.
CursorBeyond(rows, split) == rows[Len(split.page) + 1]

CursorOf(rows, split) == split.page[Len(split.page)]

\* Encode, with the version around the caller's cursor.
NewPage(rows, split) == IF ~split.hasMore \/ split.page = <<>> THEN None
                        ELSE [v |-> version, key |-> CursorOf(rows, split)]

Decodes == cursor = None \/ cursor.v = version

After == IF cursor = None THEN -1 ELSE cursor.key

\* One request: ErrCursorVersion, or a page.
Request(asked) ==
  /\ walk = "going"
  /\ IF ~Decodes THEN walk' = "refused" /\ UNCHANGED <<cursor, shown>>
     ELSE LET size == ClampPageSize(asked, Default, Cap)
              rows == Fetch(After, size + 1)
              split == SplitPage(rows, size)
          IN  /\ shown' = shown \o split.page
              /\ cursor' = NewPage(rows, split)
              /\ walk' = IF cursor' = None THEN "ended" ELSE "going"
  /\ UNCHANGED <<table, changes, version, stayed>>

Next == TableChanges \/ NewBuild \/ \E asked \in Sizes : Request(asked)

Spec == Init /\ [][Next]_vars

-----------------------------------------------------------------------------
(* A walk that ends has shown every row that was there all the time, and   *)
(* no walk shows a row twice or out of order, whatever page sizes the      *)
(* client asks for and whatever rows come and go between its requests.     *)
WalkIsComplete == /\ walk = "ended" => stayed \subseteq ToSet(shown)
                  /\ \A i \in 1..(Len(shown) - 1) : shown[i] < shown[i + 1]
=============================================================================
