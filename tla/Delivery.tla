------------------------------ MODULE Delivery ------------------------------
(***************************************************************************)
(* What a resumable upload promises.  A lot of files is announced as a     *)
(* whole and room is held for it.  What has been taken of a file only      *)
(* grows; a file is delivered once, when all of it has been taken, and     *)
(* gives up its own share of the room.  A lot that is given up takes the   *)
(* files with it that were not delivered, and no others.  It is over with  *)
(* the last of its files; what is over stays as it is.                     *)
(***************************************************************************)
EXTENDS Integers

CONSTANTS
    Items, Lots, LotOf, Amounts,
    Room(_, _)  \* the room that files of these amounts need

VARIABLES
    fate,   \* [Items -> {"absent", "open", "complete", "aborted", "expired"}]
    size,   \* what was announced of a file
    taken,  \* what has been taken of it so far
    lot,    \* [Lots -> {"absent", "open", "done", "aborted", "expired"}]
    held    \* the room held for a lot

deliveryVars == <<fate, size, taken, lot, held>>

ItemsOf(b)   == {f \in Items : LotOf[f] = b}
OpenItems(b) == {f \in ItemsOf(b) : fate[f] = "open"}

DeliveryInit ==
    /\ fate = [f \in Items |-> "absent"]
    /\ size = [f \in Items |-> 0] /\ taken = [f \in Items |-> 0]
    /\ lot = [b \in Lots |-> "absent"] /\ held = [b \in Lots |-> 0]

Announce(b, amount) ==
    /\ lot[b] = "absent" /\ ItemsOf(b) # {}
    /\ lot' = [lot EXCEPT ![b] = "open"]
    /\ held' = [held EXCEPT ![b] = Room(amount, ItemsOf(b))]
    /\ fate' = [f \in Items |-> IF f \in ItemsOf(b) THEN "open" ELSE fate[f]]
    /\ size' = [f \in Items |-> IF f \in ItemsOf(b) THEN amount[f] ELSE size[f]]
    /\ taken' = [f \in Items |-> IF f \in ItemsOf(b) THEN 0 ELSE taken[f]]

Take(f) ==
    /\ fate[f] = "open"
    /\ \E n \in taken[f] .. size[f] : taken' = [taken EXCEPT ![f] = n]
    /\ UNCHANGED <<fate, size, lot, held>>

Deliver(f) ==
    LET b == LotOf[f] IN
    /\ fate[f] = "open" /\ taken[f] = size[f]
    /\ fate' = [fate EXCEPT ![f] = "complete"]
    /\ lot' = [lot EXCEPT ![b] = IF OpenItems(b) = {f} THEN "done" ELSE "open"]
    /\ held' = [held EXCEPT ![b] = held[b] - size[f]]
    /\ UNCHANGED <<size, taken>>

GiveUp(b, reason) ==
    /\ lot[b] = "open"
    /\ fate' = [f \in Items |-> IF f \in OpenItems(b) THEN reason ELSE fate[f]]
    /\ lot' = [lot EXCEPT ![b] = reason]
    /\ held' = [held EXCEPT ![b] = 0]
    /\ UNCHANGED <<size, taken>>

DeliveryNext ==
    \/ \E f \in Items : Take(f) \/ Deliver(f)
    \/ \E b \in Lots :
         \/ \E amount \in [ItemsOf(b) -> Amounts] : Announce(b, amount)
         \/ \E reason \in {"aborted", "expired"} : GiveUp(b, reason)

DeliverySpec == DeliveryInit /\ [][DeliveryNext]_deliveryVars

=============================================================================
