----------------------------- MODULE MCVersions -----------------------------
(***************************************************************************)
(* Small instances of Versions: two interchangeable requests, or one.      *)
(***************************************************************************)
EXTENDS Versions, TLC

CONSTANTS t1, t2

Requests == Permutations(Tasks)

=============================================================================
