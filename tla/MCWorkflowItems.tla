--------------------------- MODULE MCWorkflowItems ---------------------------
(***************************************************************************)
(* Small instances of WorkflowItems: one finding, an engineer, and a       *)
(* person who is both engineer and reviewer.                               *)
(***************************************************************************)
EXTENDS WorkflowItems

CONSTANTS ana, ben

\* Work only ben may begin: ana's gate opens once he has moved it.
OpensInCompliance == [k \in Findings |-> "compliance_review"]

MCRolesOf == [u \in Users |->
    CASE u = ana -> {PackagingEngineer}
      [] u = ben -> {PackagingEngineer, SecurityReviewer}]
=============================================================================
