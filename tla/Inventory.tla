------------------------------- MODULE Inventory -------------------------------
(***************************************************************************)
(* The rows of app/routers/inventory.py: stock items and the movements     *)
(* recorded for them.  ProjectLedger runs the handlers.                    *)
(***************************************************************************)
EXTENDS Naturals, Sequences, Projects

CONSTANTS Quantities

ASSUME QuantityAssumption == Quantities \subseteq Nat \ {0}

WriteRoles == {"GA", "HR", "COST_CONTROL", "PM", "PROJECT_CONTROL", "MD", "SUPER_ADMIN"}

InventoryItem == [qty_on_hand : Nat, is_active : BOOLEAN]

ASSUME ItemAssumption == NULL \notin InventoryItem

\* "opening" is the quantity create_item was given: its audit record keeps it.
InventoryTxn ==
    [txn_type : {"in", "out", "adjustment", "opening"}, quantity : Nat,
     project : ProjectCode \cup {NULL}]

\* Mutant: an adjustment adds its quantity.
ApplyAdjustmentAdds(quantity, txn) ==
    IF txn.txn_type = "opening" THEN txn.quantity
    ELSE IF txn.txn_type = "out" THEN quantity - txn.quantity
    ELSE quantity + txn.quantity

\* _apply_txn: the quantity on hand after a movement.
Apply(quantity, txn) ==
    IF txn.txn_type = "in" THEN quantity + txn.quantity
    ELSE IF txn.txn_type = "out" THEN quantity - txn.quantity
    ELSE txn.quantity

\* record_transaction refuses inactive items and more than is in stock.
MayMove(row, txn) ==
    /\ row.is_active
    /\ txn.txn_type = "out" => row.qty_on_hand >= txn.quantity

\* update_item with is_active false, and delete_item.
MayDeactivate(row) == row.qty_on_hand = 0
================================================================================
