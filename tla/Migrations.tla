----------------------------- MODULE Migrations -----------------------------
(***************************************************************************)
(* What cmd/migrate promises of a Migrator: the applied migrations are the *)
(* first ones in the order of their versions, and an operation moves the   *)
(* end of that prefix by one or to the last.                               *)
(***************************************************************************)
EXTENDS Integers

CONSTANT Versions \* the versions on disk

VARIABLE applied \* the versions applied

Prefixes == {P \in SUBSET Versions : \A v \in P, w \in Versions : w < v => w \in P}

Init == applied = {}

UpAll == applied' = Versions

UpOne == \E v \in Versions \ applied : applied' = applied \cup {v} /\ applied' \in Prefixes

DownOne == \E v \in applied : applied' = applied \ {v} /\ applied' \in Prefixes

Next == UpAll \/ UpOne \/ DownOne

Spec == Init /\ [][Next]_applied
=============================================================================
