----------------------------- MODULE MCSyncFeed -----------------------------
(***************************************************************************)
(* A small instance of SyncFeed: two entries with the same name, and, for  *)
(* the reset, one entry.                                                   *)
(***************************************************************************)
EXTENDS SyncFeed

CONSTANTS e1, e2, name

SameName == [e \in Entries |-> name]

=============================================================================
