--------------------------- MODULE MCQueueOpening ---------------------------
(***************************************************************************)
(* Small instances of QueueOpening.  Runs are interchangeable.             *)
(***************************************************************************)
EXTENDS QueueOpening, TLC

RunSymmetry == Permutations(Runs)
=============================================================================
