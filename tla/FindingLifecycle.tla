-------------------------- MODULE FindingLifecycle --------------------------
(***************************************************************************)
(* What the workflow promises about one finding, whoever moves it and in   *)
(* whatever order: work on it is opened at most once, nobody can make it   *)
(* look untouched again, it ends at most once and for good, and every step *)
(* of that life leaves exactly one more row in the audit trail.            *)
(* WorkflowItems implements it.                                            *)
(***************************************************************************)
EXTENDS Naturals

CONSTANT Findings

VARIABLES
    stage,     \* per finding: unfiled, untouched, worked or ended
    entries    \* per finding: how many audit rows its life has left

Stages == {"unfiled", "untouched", "worked", "ended"}

Init ==
    /\ stage = [k \in Findings |-> "unfiled"]
    /\ entries = [k \in Findings |-> 0]

\* Work is opened; opening is not a transition and leaves no audit row.
File(k) ==
    /\ stage[k] = "unfiled"
    /\ stage' = [stage EXCEPT ![k] = "untouched"]
    /\ UNCHANGED entries

\* A move that leaves the work unfinished, and leaves a trace.
Work(k) ==
    /\ stage[k] \in {"untouched", "worked"}
    /\ stage' = [stage EXCEPT ![k] = "worked"]
    /\ entries' = [entries EXCEPT ![k] = @ + 1]

\* The one ending of a life, by a person or by the product.
Finish(k) ==
    /\ stage[k] \in {"untouched", "worked"}
    /\ stage' = [stage EXCEPT ![k] = "ended"]
    /\ entries' = [entries EXCEPT ![k] = @ + 1]

Next == \E k \in Findings : File(k) \/ Work(k) \/ Finish(k)

Spec == Init /\ [][Next]_<<stage, entries>>
=============================================================================
