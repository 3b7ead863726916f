------------------------------ MODULE FileTree ------------------------------
(***************************************************************************)
(* What internal/vfs.FS promises: a tree of directories and files, with    *)
(* the os package's rules.  A path is the sequence of its names, the root  *)
(* is <<>>.  What Mem implements, and what OS leaves to the os package.    *)
(***************************************************************************)
EXTENDS Naturals, Sequences

Seqs == INSTANCE SequencesExt

CONSTANTS Names, Contents,
          Depth \* bound: names in a path

VARIABLES dirs, \* directories, the root among them
          data  \* path of a file -> what it holds

Paths == UNION {[1..n -> Names] : n \in 1..Depth}

Files == DOMAIN data

Children(path) == {p \in dirs \cup Files : p # <<>> /\ Seqs!Front(p) = path}

Init == dirs = {<<>>} /\ data = <<>>

\* A file is made, or overwritten, in a directory.
WriteFile(path, c) == /\ Seqs!Front(path) \in dirs /\ path \notin dirs
                      /\ data' = [p \in Files \cup {path} |-> IF p = path THEN c ELSE data[p]]
                      /\ UNCHANGED dirs

Above(path) == {SubSeq(path, 1, n) : n \in 0..Len(path)}

MkdirAll(path) == /\ Above(path) \cap Files = {}
                  /\ dirs' = dirs \cup Above(path)
                  /\ UNCHANGED data

Remove(path) == \/ /\ path \in Files
                   /\ data' = [p \in Files \ {path} |-> data[p]]
                   /\ UNCHANGED dirs
                \/ /\ path \in dirs /\ Children(path) = {}
                   /\ dirs' = dirs \ {path}
                   /\ UNCHANGED data

Next == \E path \in Paths : \/ \E c \in Contents : WriteFile(path, c)
                            \/ MkdirAll(path) \/ Remove(path)

Spec == Init /\ [][Next]_<<dirs, data>>
=============================================================================
