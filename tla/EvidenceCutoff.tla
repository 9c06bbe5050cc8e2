--------------------------- MODULE EvidenceCutoff ---------------------------
(***************************************************************************)
(* The evidence cut-off of a policy run: core/policy_run.py's              *)
(* choose_evidence_cutoff against the collection runs that core/ledger.py  *)
(* records and core/collection.py performs.                                *)
(*                                                                         *)
(* A collection run saves its ledger row, reads the clock for the instant  *)
(* its evidence will carry, writes rows, and has its ending saved.  A      *)
(* policy run asks two questions of the ledger, one after the other: when  *)
(* did the earliest unfinished run start, and what is the newest ending    *)
(* not after that?  The answer is the instant every pass, and every replay *)
(* of the run, reads the evidence at.  So no row may be written at or      *)
(* before it once it is chosen.                                            *)
(*                                                                         *)
(* Every read of the clock is later than the one before.  The purge's own  *)
(* rows in the ledger are excluded by name from both questions and carry   *)
(* no evidence; they are not collections here.                             *)
(***************************************************************************)
EXTENDS Naturals

CONSTANTS
    Collections,    \* collection runs, single-package and sweeps alike
    MaxRows,        \* bound: rows one collection run writes
    MaxClock        \* bound: reads of the clock

ASSUME BoundsAssumption == MaxRows \in Nat /\ MaxClock \in Nat

VARIABLES
    clock,          \* the latest instant read
    collections,    \* collection_runs, and how far each run has got
    rows,           \* evidence: how many rows each collection run has written
    policy          \* the policy run choosing its cut-off

vars == <<clock, collections, rows, policy>>

\* How far a collection run has got.  Its ledger row is there, without an
\* ending, from "saved" until "ended"; a run lost to a crash, or whose ending
\* the database refused, leaves its row that way for good.
Phases == {"new", "stamped", "saved", "observing", "ending", "ended", "lost"}

Unfinished == {c \in Collections : collections[c].phase \in {"saved", "observing", "ending", "lost"}}

Finished == {c \in Collections : collections[c].phase = "ended"}

\* "Nothing is in flight"; no run starts at this instant.
Never == 0

CollectionRow == [phase : Phases, started : Nat, observed : Nat, finished : Nat]

PolicyRun == [phase : {"idle", "bounded", "chosen", "refused"}, boundary : Nat, cutoff : Nat, gap : SUBSET Collections]

Init ==
    /\ clock = 0
    /\ collections = [c \in Collections |-> [phase |-> "new", started |-> 0, observed |-> 0, finished |-> 0]]
    /\ rows = [c \in Collections |-> 0]
    /\ policy = [phase |-> "idle", boundary |-> Never, cutoff |-> 0, gap |-> {}]

Now == clock + 1

Tick ==
    /\ clock < MaxClock
    /\ clock' = Now

-----------------------------------------------------------------------------
(* A collection run *)

\* collection_run reads the clock for started_at ...
Begin(c) ==
    /\ collections[c].phase = "new"
    /\ Tick
    /\ collections' = [collections EXCEPT ![c].phase = "stamped", ![c].started = Now]
    /\ UNCHANGED <<rows, policy>>

\* ... and _recorded saves the row, from where other processes see it.  One
\* saved between the policy run's two questions falls in its gap.
Save(c) ==
    /\ collections[c].phase = "stamped"
    /\ collections' = [collections EXCEPT ![c].phase = "saved"]
    /\ policy' = IF policy.phase = "bounded" THEN [policy EXCEPT !.gap = @ \cup {c}] ELSE policy
    /\ UNCHANGED <<clock, rows>>

\* Mutant of Observe: the evidence carries the instant the run was stamped.
ObserveAtStart(c) ==
    /\ collections[c].phase = "saved"
    /\ Tick
    /\ collections' = [collections EXCEPT ![c].phase = "observing", ![c].observed = collections[c].started]
    /\ UNCHANGED <<rows, policy>>

\* collect and sweep read the clock once the row is saved; whatever the run
\* writes carries this instant.
Observe(c) ==
    /\ collections[c].phase = "saved"
    /\ Tick
    /\ collections' = [collections EXCEPT ![c].phase = "observing", ![c].observed = Now]
    /\ UNCHANGED <<rows, policy>>

\* _write_evidence, once per package of a sweep, each in its own transaction.
Write(c) ==
    /\ collections[c].phase = "observing"
    /\ rows[c] < MaxRows
    /\ rows' = [rows EXCEPT ![c] = @ + 1]
    /\ UNCHANGED <<clock, collections, policy>>

\* _write_ending reads the clock for finished_at, on every exit path ...
Finish(c) ==
    /\ collections[c].phase \in {"saved", "observing"}
    /\ Tick
    /\ collections' = [collections EXCEPT ![c].phase = "ending", ![c].finished = Now]
    /\ UNCHANGED <<rows, policy>>

\* ... and saves the ending.
SaveEnding(c) ==
    /\ collections[c].phase = "ending"
    /\ collections' = [collections EXCEPT ![c].phase = "ended"]
    /\ UNCHANGED <<clock, rows, policy>>

\* The worker is killed, or the database refuses the ending.
Lose(c) ==
    /\ collections[c].phase \in {"saved", "observing", "ending"}
    /\ collections' = [collections EXCEPT ![c].phase = "lost"]
    /\ UNCHANGED <<clock, rows, policy>>

-----------------------------------------------------------------------------
(* A policy run *)

\* The first question: the earliest start among unfinished runs.
ReadBoundary ==
    /\ policy.phase = "idle"
    /\ \/ /\ Unfinished = {}
          /\ policy' = [policy EXCEPT !.phase = "bounded", !.boundary = Never]
       \/ \E c \in Unfinished :
             /\ \A d \in Unfinished : collections[c].started <= collections[d].started
             /\ policy' = [policy EXCEPT !.phase = "bounded", !.boundary = collections[c].started]
    /\ UNCHANGED <<clock, collections, rows>>

\* Mutant of Settled: an ending counts whatever is still in flight.
AnyEnding(c) == c \in Finished

\* Endings the boundary admits.
Settled(c) == c \in Finished /\ (policy.boundary # Never => collections[c].finished <= policy.boundary)

\* The second question: the newest such ending, which is the cut-off ...
ChooseCutoff ==
    /\ policy.phase = "bounded"
    /\ \E c \in Collections :
          /\ Settled(c)
          /\ \A d \in Collections : Settled(d) => collections[d].finished <= collections[c].finished
          /\ policy' = [policy EXCEPT !.phase = "chosen", !.cutoff = collections[c].finished]
    /\ UNCHANGED <<clock, collections, rows>>

\* ... and without one, PolicyRunError.
Refuse ==
    /\ policy.phase = "bounded"
    /\ \A c \in Collections : ~Settled(c)
    /\ policy' = [policy EXCEPT !.phase = "refused"]
    /\ UNCHANGED <<clock, collections, rows>>

Next ==
    \/ \E c \in Collections :
          \/ Begin(c) \/ Save(c) \/ Observe(c) \/ Write(c)
          \/ Finish(c) \/ SaveEnding(c) \/ Lose(c)
    \/ ReadBoundary \/ ChooseCutoff \/ Refuse

Spec == Init /\ [][Next]_vars

-----------------------------------------------------------------------------
(* Properties *)

TypeOK ==
    /\ clock \in Nat
    /\ collections \in [Collections -> CollectionRow]
    /\ rows \in [Collections -> Nat]
    /\ policy \in PolicyRun

Chosen == policy.phase = "chosen"

\* The cut-off is the ending of a run that has ended, and every run the first
\* question saw, lost ones included, has only evidence later than it to write:
\* a run still going cannot reach behind the cut-off, whatever ended meanwhile.
CutoffIsSettled ==
    Chosen =>
        /\ \E c \in Finished : collections[c].finished = policy.cutoff
        /\ \A c \in Collections : (collections[c].phase = "observing" /\ c \notin policy.gap) =>
              collections[c].observed > policy.cutoff

\* Once the cut-off is chosen, a row at or before it can only come from a run
\* whose ledger row was saved between the two questions.  A run that had
\* stamped its start but was not yet visible, and one that starts afterwards,
\* are both harmless: they read their instant after they are visible.
LateEvidenceIsFromTheGap ==
    [][\A c \in Collections : (Chosen /\ rows'[c] # rows[c]) =>
          collections[c].observed > policy.cutoff \/ c \in policy.gap]_vars
=============================================================================
