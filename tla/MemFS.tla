------------------------------- MODULE MemFS -------------------------------
(***************************************************************************)
(* internal/vfs.Mem: the file system as one map from cleaned paths to      *)
(* entries, each operation under mu.  Paths are relative; a cleaned path   *)
(* is the sequence of its names and "." is <<>>.  The modes and times of   *)
(* entries are left out, and so is Remove of ".", which deletes the entry  *)
(* of the root where os.Remove refuses.                                    *)
(***************************************************************************)
EXTENDS Naturals, Sequences

Seqs == INSTANCE SequencesExt

CONSTANTS Names, Contents, Depth, \* see FileTree
          Dir \* what stands for data in the entry of a directory

VARIABLES files, \* Mem.files: path -> what it holds, or Dir
          err    \* what the last operation returned: "nil", or the error's kind

vars == <<files, err>>

Tree == INSTANCE FileTree WITH
          dirs <- {p \in DOMAIN files : files[p] = Dir},
          data <- [p \in {q \in DOMAIN files : files[q] # Dir} |-> files[p]]

Has(path) == path \in DOMAIN files

IsDir(path) == Has(path) /\ files[path] = Dir

Fails(e) == err' = e /\ UNCHANGED files

\* Entries made or replaced.
Stores(paths, value) ==
  /\ files' = [p \in DOMAIN files \cup paths |-> IF p \in paths THEN value ELSE files[p]]
  /\ err' = "nil"

Init == files = [p \in {<<>>} |-> Dir] /\ err = "nil"

\* Slip: any entry will do for a parent.
ParentExists(path) == Len(path) = 1 \/ Has(Seqs!Front(path))

\* The root needs no look.
ParentIsDir(path) == Len(path) = 1 \/ IsDir(Seqs!Front(path))

WriteFile(path, c) == IF IsDir(path) THEN Fails("is a directory")
                      ELSE IF ~ParentIsDir(path) THEN Fails("not exist")
                      ELSE Stores({path}, c)

\* mkdirAllLocked climbs to the nearest ancestor there is, and makes what
\* is missing below it on the way back.
Nearest(path) == CHOOSE n \in 0..Len(path) :
                   /\ n = 0 \/ Has(SubSeq(path, 1, n))
                   /\ \A m \in (n + 1)..Len(path) : ~Has(SubSeq(path, 1, m))

MkdirAll(path) == LET n == Nearest(path)
                  IN  IF n > 0 /\ ~IsDir(SubSeq(path, 1, n)) THEN Fails("not a directory")
                      ELSE Stores({SubSeq(path, 1, m) : m \in (n + 1)..Len(path)}, Dir)

Below(path) == {p \in DOMAIN files : p # path /\ Seqs!IsPrefix(path, p)}

Remove(path) == IF ~Has(path) THEN Fails("not exist")
                ELSE IF IsDir(path) /\ Below(path) # {} THEN Fails("not empty")
                ELSE files' = [p \in DOMAIN files \ {path} |-> files[p]] /\ err' = "nil"

ReadFile(path) == IF ~Has(path) THEN Fails("not exist")
                  ELSE IF IsDir(path) THEN Fails("is a directory")
                  ELSE err' = "nil" /\ UNCHANGED files

\* The listing goes through the map in any order: the first entry met below
\* a child stands for the child, whose name is relativeChild's.
Listings(path) == LET names == {p[Len(path) + 1] : p \in Below(path)}
                      Met(n) == {p \in Below(path) : p[Len(path) + 1] = n}
                  IN  {l \in [names -> Below(path)] : \A n \in names : l[n] \in Met(n)}

Next == \E path \in Tree!Paths : \/ \E c \in Contents : WriteFile(path, c)
                                 \/ MkdirAll(path) \/ Remove(path) \/ ReadFile(path)

Spec == Init /\ [][Next]_vars

-----------------------------------------------------------------------------
(* Mem can stand in for the os package: it is a tree of directories and    *)
(* files, and does what it does when that tree allows it.                  *)
ImplementsTree == Tree!Spec

(* ReadDir names the children of a directory, each once, whatever is       *)
(* deeper down.                                                            *)
ListsChildren == \A path \in DOMAIN files : IsDir(path) =>
                   \A l \in Listings(path) :
                     {Append(path, n) : n \in DOMAIN l} = Tree!Children(path)

(* An entry that ReadDir lists says of the child what Stat says of it.     *)
(* False of the code: the entry may be that of a grandchild.               *)
ListsKinds == \A path \in DOMAIN files : IsDir(path) =>
                \A l \in Listings(path) : \A n \in DOMAIN l :
                  IsDir(l[n]) = IsDir(Append(path, n))
=============================================================================
