----------------------------- MODULE MCFileTree -----------------------------
(***************************************************************************)
(* Small instances of FileTree: two folders, or two folders and a file,    *)
(* and two interchangeable requests.                                       *)
(***************************************************************************)
EXTENDS FileTree, TLC

CONSTANTS f, g, x, y, t1, t2

OwnName  == [e \in Entries |-> e]
SameName == [e \in Entries |-> IF e \in Folders THEN e ELSE x]

Alike == Permutations(Tasks) \cup Permutations(Folders)

=============================================================================
