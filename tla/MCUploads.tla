------------------------------ MODULE MCUploads ------------------------------
(***************************************************************************)
(* Small instances of Uploads: one user with a batch of two files and a    *)
(* batch of one, and two users with one batch each.                        *)
(***************************************************************************)
EXTENDS Uploads

CONSTANTS u1, u2, b1, b2, s1, s2, s3

OneOwner  == [b \in Batches |-> u1]
TwoOwners == [b \in Batches |-> IF b = b1 THEN u1 ELSE u2]
FileBatch == [s \in Sessions |-> IF s = s3 THEN b2 ELSE b1]

=============================================================================
