---------------------------- MODULE MCInventory -----------------------------
(***************************************************************************)
(* Instances of Inventory for TLC.                                         *)
(***************************************************************************)
EXTENDS Inventory, TLC

CONSTANTS r1, r2, i1, i2, i3, kPaid

\* Items are interchangeable, and so are requests.
InventorySymmetry == Permutations(Requests) \cup Permutations(Items)

\* One key of a paid tier without a cap, valid until time 0.
PaidTier == [k \in Keys |-> IF k = kPaid THEN "paid" ELSE "free"]
Expires == [k \in Keys |-> 0]
OneFreeItem == [t \in Tiers |-> IF t = "free" THEN 1 ELSE 0]
=============================================================================
