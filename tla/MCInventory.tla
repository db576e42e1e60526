------------------------------ MODULE MCInventory ------------------------------
(* Inventory on small instances. *)
EXTENDS Inventory

Pay(o, t, d) == [owner |-> o, tags |-> t, disks |-> d]

CONSTANTS o1, t1

(* The owner set, cleared or left, with or without the tags and the disks. *)
SmallEdits ==
    {Pay(o1, {Same}, "kept"), Pay(NoOwner, {Same}, "kept"), Pay(Same, {}, "kept"),
     Pay(o1, {t1}, "kept"), Pay(Same, {Same}, "none"), Pay(o1, {Same}, "one")}

================================================================================
