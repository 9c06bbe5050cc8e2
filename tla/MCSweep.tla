------------------------------ MODULE MCSweep -------------------------------
(***************************************************************************)
(* A small instance of Sweep: one collector, which selects one package, a  *)
(* dispatch beside the schedule's, and two people who press for it.        *)
(***************************************************************************)
EXTENDS Sweep

MCSelection == [c \in Collectors |-> Packages]
=============================================================================
