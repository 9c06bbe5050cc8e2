---------------------------- MODULE MCRetention -----------------------------
(***************************************************************************)
(* A small instance of Retention: two runs over four days, each row kept   *)
(* for one.                                                                *)
(***************************************************************************)
EXTENDS Retention
=============================================================================
