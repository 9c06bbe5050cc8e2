---------------------------- MODULE MCInventory -----------------------------
(***************************************************************************)
(* A small instance of Inventory: two keys that compete for two names.     *)
(***************************************************************************)
EXTENDS Inventory
=============================================================================
