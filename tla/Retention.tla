------------------------------ MODULE Retention ------------------------------
(***************************************************************************)
(* What the purge may take away (core/retention.py).  Policy runs older    *)
(* than the retention period go, with the rows they derived, unless the    *)
(* rollup points at them; evidence older than it goes when something newer *)
(* was observed, no run that stays reads it at its cut-off, and no row     *)
(* that stays cites it.                                                    *)
(*                                                                         *)
(* Of the evidence there are the vulnerability findings of one package and *)
(* advisory, and the KEV findings that cite them.  Policy runs and         *)
(* collectors go on while the purge works: it selects a batch and deletes  *)
(* it in two statements, table by table, and a table that fails does not   *)
(* stop the next.                                                          *)
(***************************************************************************)
EXTENDS Naturals, FiniteSets, FiniteSetsExt

CONSTANTS
    MaxRuns,    \* bound: policy runs
    None,
    Retention,  \* days
    RunLimit,   \* days within which a run has ended or is dead
    MaxTime,    \* bound
    MaxRows,    \* bound: evidence rows at a time
    MaxFaults   \* bound: failures of a table, kills of the purge

ASSUME RetentionAssumption == Retention \in Nat /\ RunLimit \in Nat /\ RunLimit < Retention
ASSUME BoundsAssumption    == MaxRuns \in Nat /\ MaxTime \in Nat \ {0} /\ MaxRows \in Nat /\ MaxFaults \in Nat /\ None \notin Nat

VARIABLES
    now,        \* the day
    evidence,   \* table |-> the days its rows were observed on
    cited,      \* day of a KEV finding |-> day of the finding it cites
    runs,       \* the policy runs
    derived,    \* run |-> the findings its derived rows cite, None without rows
    health,     \* the run the rollup row points at, or None
    purge,      \* the purge, if one is going on
    newest,     \* history: table |-> the last day anything was observed
    faults      \* for the bound

vars == <<now, evidence, cited, runs, derived, health, purge, newest, faults>>

Days == 1..MaxTime

Runs == 1..MaxRuns

Tables == {"kev", "findings"}

\* purge_evidence: derived rows, runs, then the evidence, the citing table
\* first.
NextTable == [derived |-> "runs", runs |-> "kev", kev |-> "findings", findings |-> "idle"]

NoRun   == [phase |-> "none", cutoff |-> 0, started |-> 0, ended |-> 0]
NoPurge == [table |-> "idle", cutoff |-> 0, batch |-> {}, watermark |-> 0, seen |-> 0]

Init ==
    /\ now = 1
    /\ evidence = [t \in Tables |-> {}]
    /\ cited = [day \in Days |-> None]
    /\ runs = [r \in Runs |-> NoRun]
    /\ derived = [r \in Runs |-> None]
    /\ health = None
    /\ purge = NoPurge
    /\ newest = [t \in Tables |-> 0]
    /\ faults = 0

Exists(r) == runs[r].phase \in {"open", "ended"}

\* Runs are numbered as they begin.
Begun == Cardinality({r \in Runs : runs[r].phase # "none"})

-----------------------------------------------------------------------------
(* The rest of the system *)

Tick ==
    /\ now < MaxTime
    /\ now' = now + 1
    /\ UNCHANGED <<evidence, cited, runs, derived, health, purge, newest, faults>>

\* A sweep observes.  A KEV finding cites the newest finding there is, if any.
Observe(t) ==
    /\ now \notin evidence[t]
    /\ Cardinality(evidence["kev"]) + Cardinality(evidence["findings"]) < MaxRows
    /\ evidence' = [evidence EXCEPT ![t] = @ \cup {now}]
    /\ cited' = IF t = "kev" /\ evidence["findings"] # {}
                THEN [cited EXCEPT ![now] = Max(evidence["findings"])] ELSE cited
    /\ newest' = [newest EXCEPT ![t] = now]
    /\ UNCHANGED <<now, runs, derived, health, purge, faults>>

\* The row of a table a run with this cut-off reads.
Reading(t, cutoff) ==
    LET visible == {day \in evidence[t] : day <= cutoff}
    IN  IF visible = {} THEN None ELSE Max(visible)

\* A policy run begins at a cut-off: behind whatever collection is unfinished,
\* or that of an earlier run it replays.
BeginRun(r) ==
    /\ r = Begun + 1
    /\ \E cutoff \in 1..now - 1 :
           runs' = [runs EXCEPT ![r] = [phase |-> "open", cutoff |-> cutoff, started |-> now, ended |-> 0]]
    /\ UNCHANGED <<now, evidence, cited, derived, health, purge, newest, faults>>

Working(r) == runs[r].phase = "open" /\ now <= runs[r].started + RunLimit

\* _execute_passes: it commits its derived rows, which cite the finding it read
\* or do not ...
DeriveRows(r) ==
    LET read == Reading("findings", runs[r].cutoff)
    IN  /\ Working(r) /\ derived[r] = None
        /\ \E cites \in SUBSET ({read} \ {None}) : derived' = [derived EXCEPT ![r] = cites]
        /\ UNCHANGED <<now, evidence, cited, runs, health, purge, newest, faults>>

\* ... compose_rollup points the rollup row at it ...
ComposeRollup(r) ==
    /\ Working(r) /\ derived[r] # None
    /\ health' = r
    /\ UNCHANGED <<now, evidence, cited, runs, derived, purge, newest, faults>>

\* ... and it ends, whether or not its package failed before either.  One that
\* is killed does not end.
EndRun(r) ==
    /\ Working(r)
    /\ runs' = [runs EXCEPT ![r].phase = "ended", ![r].ended = now]
    /\ UNCHANGED <<now, evidence, cited, derived, health, purge, newest, faults>>

RunStep(r) == BeginRun(r) \/ DeriveRows(r) \/ ComposeRollup(r) \/ EndRun(r)

-----------------------------------------------------------------------------
(* The rules of the purge *)

Older(r, cutoff) ==
    \/ runs[r].phase = "ended" /\ runs[r].ended < cutoff
    \/ runs[r].phase = "open" /\ runs[r].started < cutoff

\* Mutant of PurgeableRuns: a run that never ended is left alone.
PurgeableEnded(cutoff) == {r \in Runs : runs[r].phase = "ended" /\ runs[r].ended < cutoff /\ health # r}

\* purgeable_policy_runs.
PurgeableRuns(cutoff) == {r \in Runs : Older(r, cutoff) /\ health # r}

SurvivingRuns(cutoff) == {r \in Runs : Exists(r)} \ PurgeableRuns(cutoff)

\* Mutant of FloorRemovable: the run's cut-off is compared with the row only.
FloorAfterRuns(t, cutoff) ==
    {day \in evidence[t] :
        /\ day < cutoff
        /\ \E newer \in evidence[t] : newer > day
        /\ \A r \in SurvivingRuns(cutoff) : runs[r].cutoff # day}

\* Mutant of FloorRemovable: age alone decides.
FloorByAge(t, cutoff) ==
    {day \in evidence[t] :
        /\ day < cutoff
        /\ \A r \in SurvivingRuns(cutoff) : Reading(t, runs[r].cutoff) # day}

\* floor_removable_evidence: older than the cut-off, something is newer, and
\* no run that stays has its cut-off between the row and the next one.
FloorRemovable(t, cutoff) ==
    {day \in evidence[t] :
        /\ day < cutoff
        /\ \E newer \in evidence[t] : newer > day
        /\ ~\E r \in SurvivingRuns(cutoff) :
               /\ runs[r].cutoff >= day
               /\ ~\E next \in evidence[t] : next > day /\ next <= runs[r].cutoff}

\* removable_evidence: nor does any row that stays cite it.
Removable(t, cutoff) ==
    {day \in FloorRemovable(t, cutoff) :
        t = "findings" =>
            /\ \A r \in SurvivingRuns(cutoff) : derived[r] = None \/ day \notin derived[r]
            /\ \A k \in evidence["kev"] \ FloorRemovable("kev", cutoff) : cited[k] # day}

\* What the table's selection answers with now.
Selected(table, cutoff) ==
    CASE table = "derived" -> {r \in PurgeableRuns(cutoff) : derived[r] # None}
      [] table = "runs"    -> PurgeableRuns(cutoff)
      [] OTHER             -> Removable(table, cutoff)

\* The database refuses to delete what a row refers to.
Referred(table, row) ==
    CASE table = "runs"     -> health = row \/ derived[row] # None
      [] table = "findings" -> \/ \E k \in evidence["kev"] : cited[k] = row
                               \/ \E r \in Runs : derived[r] # None /\ row \in derived[r]
      [] OTHER              -> FALSE

-----------------------------------------------------------------------------
(* purge_evidence *)

BeginPurge ==
    /\ purge.table = "idle"
    /\ now > Retention
    /\ purge' = [NoPurge EXCEPT !.table = "derived", !.cutoff = now - Retention]
    /\ UNCHANGED <<now, evidence, cited, runs, derived, health, newest, faults>>

\* _batches: some of the selection's rows beyond the watermark, in their order.
SelectBatch ==
    LET rows == {row \in Selected(purge.table, purge.cutoff) : row > purge.watermark}
    IN  /\ purge.table # "idle" /\ purge.batch = {}
        /\ \E watermark \in rows :
               purge' = [purge EXCEPT !.batch = {row \in rows : row <= watermark}, !.watermark = watermark,
                                      !.seen = Begun]
        /\ UNCHANGED <<now, evidence, cited, runs, derived, health, newest, faults>>

\* _remove_batch: the rows nothing refers to go; the others are protected,
\* which the batch finds out together or row by row.
RemoveBatch ==
    LET table == purge.table
        gone  == {row \in purge.batch : ~Referred(table, row)}
    IN  /\ purge.batch # {}
        /\ derived' = IF table = "derived" THEN [r \in Runs |-> IF r \in gone THEN None ELSE derived[r]] ELSE derived
        /\ runs' = IF table = "runs"
                   THEN [r \in Runs |-> IF r \in gone THEN [NoRun EXCEPT !.phase = "gone"] ELSE runs[r]] ELSE runs
        /\ evidence' = IF table \in Tables THEN [evidence EXCEPT ![table] = @ \ gone] ELSE evidence
        /\ cited' = IF table = "kev" THEN [day \in Days |-> IF day \in gone THEN None ELSE cited[day]] ELSE cited
        /\ purge' = [purge EXCEPT !.batch = {}, !.seen = 0]
        /\ UNCHANGED <<now, health, newest, faults>>

\* The selection is exhausted: the table's run ends and the next one begins.
EndTable ==
    /\ purge.table # "idle" /\ purge.batch = {}
    /\ \A row \in Selected(purge.table, purge.cutoff) : row <= purge.watermark
    /\ purge' = [purge EXCEPT !.table = NextTable[@], !.watermark = 0, !.seen = 0]
    /\ UNCHANGED <<now, evidence, cited, runs, derived, health, newest, faults>>

\* _purge_table catches the database's error and the next table is purged all
\* the same.
FailTable ==
    /\ purge.table # "idle" /\ faults < MaxFaults
    /\ purge' = [purge EXCEPT !.table = NextTable[@], !.batch = {}, !.watermark = 0, !.seen = 0]
    /\ faults' = faults + 1
    /\ UNCHANGED <<now, evidence, cited, runs, derived, health, newest>>

\* The purge is killed; the next one abandons its row and starts over.
KillPurge ==
    /\ purge.table # "idle" /\ faults < MaxFaults
    /\ purge' = NoPurge
    /\ faults' = faults + 1
    /\ UNCHANGED <<now, evidence, cited, runs, derived, health, newest>>

PurgeStep == BeginPurge \/ SelectBatch \/ RemoveBatch \/ EndTable

Next ==
    \/ Tick
    \/ \E t \in Tables : Observe(t)
    \/ \E r \in Runs : RunStep(r)
    \/ PurgeStep \/ FailTable \/ KillPurge

Spec == Init /\ [][Next]_vars

\* The purge is scheduled again and again, and time passes.
FairSpec == Spec /\ WF_vars(PurgeStep) /\ WF_vars(Tick)

-----------------------------------------------------------------------------
(* Properties *)

TypeOK ==
    /\ now \in Days
    /\ evidence \in [Tables -> SUBSET Days]
    /\ cited \in [Days -> Days \cup {None}]
    /\ runs \in [Runs -> [phase : {"none", "open", "ended", "gone"}, cutoff : 0..MaxTime,
                          started : 0..MaxTime, ended : 0..MaxTime]]
    /\ \A r \in Runs : derived[r] = None \/ derived[r] \subseteq Days
    /\ health \in Runs \cup {None}
    /\ purge.table \in {"idle", "derived", "runs"} \cup Tables
    /\ newest \in [Tables -> 0..MaxTime]
    /\ faults \in 0..MaxFaults

\* A run that stays reads at its cut-off what it read before, whichever
\* tables failed and however often the purge was killed: a replay of it can
\* still find the same evidence.  Only a run that began between the selection
\* of a batch and its deletion can lose what it reads.
ReadingsSurvive ==
    [][\A r \in Runs, t \in Tables :
          (Exists(r) /\ Reading(t, runs[r].cutoff)' # Reading(t, runs[r].cutoff) /\ runs'[r] = runs[r]) =>
              (r \in PurgeableRuns(purge.cutoff) \/ r > purge.seen)]_vars

\* The current state is never purged: what was observed last, however long
\* ago, is there.
NewestStays == \A t \in Tables : newest[t] # 0 => newest[t] \in evidence[t]

\* What is old goes in the end, the runs nobody finished included, all but the
\* one the rollup points at.
OldRunsGo == []<>(\A r \in Runs : (now > Retention /\ Older(r, now - Retention)) => health = r)
=============================================================================
