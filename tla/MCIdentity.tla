----------------------------- MODULE MCIdentity -----------------------------
(***************************************************************************)
(* A small instance of Identity: two packages that may be called by each   *)
(* other's name, and one resolver.                                         *)
(***************************************************************************)
EXTENDS Identity

CONSTANTS first, second

MCListed == [package \in Packages |-> IF package = first THEN "a" ELSE "b"]
=============================================================================
