---------------------------- MODULE QueueOpening ----------------------------
(***************************************************************************)
(* What a policy run does to the queues: workflow/opening.py, with the     *)
(* inventory history it reads (collectors/absence.py), the identity        *)
(* selection (collectors/selection.py), the rollup it follows              *)
(* (core/rollup.py) and the purge that erodes the history under it         *)
(* (core/retention.py).                                                    *)
(*                                                                         *)
(* The inventory observes a package as ok or, once it stops naming it, as  *)
(* not_found.  A run folds the rows up to its cut-off into a reading:      *)
(* absent or listed and, if the package came back, since when.  That       *)
(* instant, the epoch, is part of the key an item is filed under, so work  *)
(* the product closed when the package left can open again when it         *)
(* returns.                                                                *)
(*                                                                         *)
(* The step is not one transaction.  It reads, opens items one by one,     *)
(* reads again, and closes items one by one; people, collectors, the       *)
(* purge, other runs and a crash all fit in between.  An item's own moves  *)
(* are WorkflowItems'; here it is live, finished by a person or closed by  *)
(* the product.                                                            *)
(***************************************************************************)
EXTENDS Naturals, FiniteSets

CONSTANTS
    Packages,
    Runs,           \* policy runs that may ever be started
    None,           \* "no run" in a rollup row
    MaxClock,       \* bound: instants at which something is observed
    MaxLag,         \* bound: observations a fresh cut-off may lag behind
    Overlap,        \* may two runs be going at once?
    Replays,        \* may a run be started at an earlier run's cut-off?
    Routes,         \* may a person route an item to another queue?
    Purges          \* may the purge remove evidence?

ASSUME SwitchesAssumption == {Overlap, Replays, Routes, Purges} \subseteq BOOLEAN
ASSUME NoneAssumption     == None \notin Runs
ASSUME ClockAssumption    == MaxClock \in Nat /\ MaxLag \in Nat

Kinds == {"identity", "remediation"}

\* The queue each opener files its items in.
QueueOf == [kind \in Kinds |-> IF kind = "identity" THEN "identity_review" ELSE "remediation"]

\* The queues the openers file in.  To what they read, every other queue a
\* person may route an item to is like remediation.
Queues == {"identity_review", "remediation"}

\* Epoch 0 is the bare key of a package that never left.
Epochs == 0..MaxClock

\* A finding key: what, about which package, in which of its listings.
Findings == [kind : Kinds, package : Packages, epoch : Epochs]

VARIABLES
    clock,          \* the instant of the latest observation
    snapshots,      \* inventory_snapshots: package |-> its rows
    confidence,     \* package |-> unmapped, or mapped: inventory-derived or verified
    rollup,         \* package_health: package |-> the run that wrote its row
    runs,           \* policy runs and the after-run step each is in
    work            \* workflow_items: finding |-> state and queue

vars == <<clock, snapshots, confidence, rollup, runs, work>>

-----------------------------------------------------------------------------
(* Reading the inventory *)

Snapshot == [at : 1..MaxClock, state : {"ok", "not_found"}]

Reading == [absent : BOOLEAN, listed_since : Epochs]

\* The reading of a package no row mentions.
NeverSeen == [absent |-> FALSE, listed_since |-> 0]

\* Mutant of RecordPresence: an ok row does not end an absence.
RecordDepartureOnly(history, row) ==
    IF row.state = "not_found" /\ ~history.absent
    THEN [absent |-> TRUE, listed_since |-> 0]
    ELSE history

\* _record_presence: one row folded into the history so far.  An ok row ends
\* an absence and begins a listing; a first not_found begins an absence.
RecordPresence(history, row) ==
    IF row.state = "ok"
    THEN [absent |-> FALSE, listed_since |-> IF history.absent THEN row.at ELSE history.listed_since]
    ELSE IF row.state = "not_found" /\ ~history.absent
    THEN [absent |-> TRUE, listed_since |-> 0]
    ELSE history

\* fold_observations for one package: its rows up to the cut-off, oldest first.
\* It has one row at most of an instant.
HistoryOf(rows, cutoff) ==
    LET history[instant \in 0..cutoff] ==
            IF instant = 0 THEN NeverSeen
            ELSE IF \E row \in rows : row.at = instant
            THEN RecordPresence(history[instant - 1], CHOOSE row \in rows : row.at = instant)
            ELSE history[instant - 1]
    IN  history[cutoff]

\* histories_at for one package.
HistoryAt(p, cutoff) == HistoryOf(snapshots[p], cutoff)

-----------------------------------------------------------------------------
(* Runs *)

\* The packages of the catalog: an ingestion creates a package with its first
\* row, and no purge removes the newest row of one.
Catalog == {p \in Packages : snapshots[p] # {}}

Live(k) == work[k].state = "live"

Filed(k) == work[k].state # "unfiled"

\* A run with nothing in hand.  The purge dates it by when it ended, or by when
\* it started if it never did.  Of the confidences it reads, unresolved and fell
\* remember for the properties whom its first selection found unmapped, and who
\* had fallen to unmapped by its second; the program keeps neither.
Run(phase, cutoff, dated) ==
    [phase |-> phase, cutoff |-> cutoff, dated |-> dated, matched |-> {},
     readings |-> [p \in Packages |-> NeverSeen], touched |-> {}, todo |-> {},
     unresolved |-> {}, fell |-> {}]

\* A run the ledger holds.
Started(r) == runs[r].phase \notin {"idle", "purged"}

Going == {"composed", "identity", "remediation", "closing"}

Start == Run("idle", 0, 0)

Init ==
    /\ clock = 0
    /\ snapshots = [p \in Packages |-> {}]
    /\ confidence = [p \in Packages |-> "unmapped"]
    /\ rollup = [p \in Packages |-> None]
    /\ runs = [r \in Runs |-> Start]
    /\ work = [k \in Findings |-> [state |-> "unfiled", queue |-> QueueOf[k.kind]]]

\* The cut-offs a run may be started at.  A fresh one may lag behind what has
\* been observed, by a sweep that has not ended, but not behind an earlier run's
\* (EvidenceCutoff tells when it may); a replay's is that of a run in the ledger.
CutOffs ==
    {instant \in 0..clock :
        \/ instant + MaxLag >= clock /\ \A q \in Runs : Started(q) => runs[q].cutoff <= instant
        \/ Replays /\ \E q \in Runs : Started(q) /\ runs[q].cutoff = instant}

\* execute_policy_run up to the after-run steps.  The passes evaluate every
\* package; one whose pass raises is left out of the rest, the others may have
\* an advisory matched.  compose_rollup then replaces each evaluated package's
\* row whole, whichever run wrote it, or fails and leaves the old one.
Compose(r) ==
    /\ runs[r].phase = "idle"
    /\ clock > 0
    /\ Overlap \/ \A q \in Runs : runs[q].phase \notin Going
    /\ \E cutoff \in CutOffs : \E evaluated \in SUBSET Catalog :
       \E matched, written \in SUBSET evaluated :
          /\ runs' = [runs EXCEPT ![r] = [Run("composed", cutoff, clock) EXCEPT !.matched = matched]]
          /\ rollup' = [p \in Packages |-> IF p \in written THEN r ELSE rollup[p]]
    /\ UNCHANGED <<clock, snapshots, confidence, work>>

\* _packages_the_run_touches: a rollup row of this run, or unfinished work.
PackagesTheRunTouches(r) ==
    {p \in Packages : rollup[p] = r} \cup {k.package : k \in {k \in Findings : Live(k)}}

-----------------------------------------------------------------------------
(* Opening and closing *)

\* Mutant of KeyOf: the key does not name the listing.
BareKeyOf(kind, p, reading) == [kind |-> kind, package |-> p, epoch |-> 0]

\* The key a run files work under: _epoch_facts adds the instant the present
\* listing began, when the package has ever been away.
KeyOf(kind, p, reading) == [kind |-> kind, package |-> p, epoch |-> reading.listed_since]

\* Mutant of AlreadyOpen: an open item is recognised only by its key.
NothingAlreadyOpen == {}

\* Packages with an open item in the identity queue, under any key.
AlreadyOpen ==
    {k.package : k \in {k \in Findings : Live(k) /\ work[k].queue = "identity_review"}}

\* select_unresolved: every unidentified package not read as absent, in the
\* whole catalog and not only among those the run touched.
SelectUnresolved(readings) == {p \in Catalog : confidence[p] = "unmapped" /\ ~readings[p].absent}

Unmapped == {p \in Packages : confidence[p] = "unmapped"}

\* open_queue_items folds the inventory once, for the packages the run
\* touches, and _open_identity_items lists what it will open ...
SelectIdentity(r) ==
    /\ runs[r].phase = "composed"
    /\ LET touched  == PackagesTheRunTouches(r)
           readings == [p \in Packages |-> IF p \in touched THEN HistoryAt(p, runs[r].cutoff) ELSE NeverSeen]
       IN  runs' = [runs EXCEPT ![r].phase = "identity", ![r].touched = touched, ![r].readings = readings,
                                ![r].unresolved = Unmapped \cap touched,
                                ![r].todo = {KeyOf("identity", p, readings[p]) :
                                                p \in SelectUnresolved(readings) \ AlreadyOpen}]
    /\ UNCHANGED <<clock, snapshots, confidence, rollup, work>>

\* ... and _open_remediation_items from the verdicts of this run, leaving out
\* the absent and, by the confidence the package has by now, the unmapped.
SelectEvidence(r) ==
    /\ runs[r].phase = "identity"
    /\ runs[r].todo = {}
    /\ runs' = [runs EXCEPT ![r].phase = "remediation", ![r].fell = (Unmapped \cap runs[r].matched) \ runs[r].unresolved,
                            ![r].todo = {KeyOf("remediation", p, runs[r].readings[p]) :
                                            p \in {p \in runs[r].matched : /\ confidence[p] # "unmapped"
                                                                           /\ ~runs[r].readings[p].absent}}]
    /\ UNCHANGED <<clock, snapshots, confidence, rollup, work>>

\* open_keyed_item: get_or_create, so an item that exists is left as it is.
OpenKeyed(k) == IF Filed(k) THEN work ELSE [work EXCEPT ![k] = [state |-> "live", queue |-> QueueOf[k.kind]]]

\* The next item of either opener, in its own transaction.
OpenNext(r) ==
    /\ runs[r].phase \in {"identity", "remediation"}
    /\ \E k \in runs[r].todo :
          /\ work' = OpenKeyed(k)
          /\ runs' = [runs EXCEPT ![r].todo = @ \ {k}]
    /\ UNCHANGED <<clock, snapshots, confidence, rollup>>

\* Mutant of ListAbsent: a package whose row this run did not write is missed.
ListAbsentRolledUp(r) ==
    /\ runs[r].phase = "remediation"
    /\ runs[r].todo = {}
    /\ runs' = [runs EXCEPT ![r].phase = "closing",
                            ![r].todo = {k \in Findings : /\ Live(k) /\ runs[r].readings[k.package].absent
                                                          /\ rollup[k.package] = r}]
    /\ UNCHANGED <<clock, snapshots, confidence, rollup, work>>

\* _close_absent_items lists the unfinished items of the absent packages ...
ListAbsent(r) ==
    /\ runs[r].phase = "remediation"
    /\ runs[r].todo = {}
    /\ runs' = [runs EXCEPT ![r].phase = "closing",
                            ![r].todo = {k \in Findings : Live(k) /\ runs[r].readings[k.package].absent}]
    /\ UNCHANGED <<clock, snapshots, confidence, rollup, work>>

\* close_for_absence under the row lock: an item a person finished meanwhile
\* is left alone.
Closed(k) == IF Live(k) THEN [work EXCEPT ![k].state = "closed"] ELSE work

\* ... and closes them one by one.
CloseNext(r) ==
    /\ runs[r].phase = "closing"
    /\ \E k \in runs[r].todo :
          /\ work' = Closed(k)
          /\ runs' = [runs EXCEPT ![r].todo = @ \ {k}]
    /\ UNCHANGED <<clock, snapshots, confidence, rollup>>

\* The step returns and the run is recorded as ended.
End(r) ==
    /\ runs[r].phase = "closing"
    /\ runs[r].todo = {}
    /\ runs' = [runs EXCEPT ![r] = Run("done", @.cutoff, clock)]
    /\ UNCHANGED <<clock, snapshots, confidence, rollup, work>>

\* A step raises and the run ends failed, or the process dies and its row is
\* never ended: either way what is written stays and the rest is not done.
Stop(r) ==
    /\ runs[r].phase \in Going
    /\ \E dated \in {clock, runs[r].dated} : runs' = [runs EXCEPT ![r] = Run("stopped", @.cutoff, dated)]
    /\ UNCHANGED <<clock, snapshots, confidence, rollup, work>>

-----------------------------------------------------------------------------
(* Everybody else *)

\* persist_sweep, for one package: the document names it ...
Observe(p) ==
    /\ clock < MaxClock
    /\ clock' = clock + 1
    /\ snapshots' = [snapshots EXCEPT ![p] = @ \cup {[at |-> clock + 1, state |-> "ok"]}]
    /\ UNCHANGED <<confidence, rollup, runs, work>>

\* ... or no longer does, which is recorded only on the transition: when the
\* newest row is an ok one.
ObserveAbsence(p) ==
    /\ clock < MaxClock
    /\ \E row \in snapshots[p] : row.state = "ok" /\ \A other \in snapshots[p] : other.at <= row.at
    /\ clock' = clock + 1
    /\ snapshots' = [snapshots EXCEPT ![p] = @ \cup {[at |-> clock + 1, state |-> "not_found"]}]
    /\ UNCHANGED <<confidence, rollup, runs, work>>

\* The resolver or a person identifies a package ...
Identify(p) ==
    /\ p \in Catalog
    /\ confidence[p] = "unmapped"
    /\ confidence' = [confidence EXCEPT ![p] = "mapped"]
    /\ UNCHANGED <<clock, snapshots, rollup, runs, work>>

\* ... and a resolution that finds nothing this time writes unmapped over an
\* inventory-derived one or, having read it before a person's verdict, over that.
LoseIdentity(p) ==
    /\ confidence[p] = "mapped"
    /\ confidence' = [confidence EXCEPT ![p] = "unmapped"]
    /\ UNCHANGED <<clock, snapshots, rollup, runs, work>>

\* A person finishes an item ...
FinishItem(k) ==
    /\ Live(k)
    /\ work' = [work EXCEPT ![k].state = "finished"]
    /\ UNCHANGED <<clock, snapshots, confidence, rollup, runs>>

\* ... or routes it to another queue.
RouteItem(k) ==
    /\ Routes
    /\ Live(k)
    /\ \E queue \in Queues \ {work[k].queue} : work' = [work EXCEPT ![k].queue = queue]
    /\ UNCHANGED <<clock, snapshots, confidence, rollup, runs>>

\* purgeable_policy_runs: older than the horizon, cited by no rollup row.  The
\* horizon is days back, so no run still going is older.
PurgeableRuns(horizon) ==
    {r \in Runs : /\ runs[r].phase \in {"done", "stopped"}
                  /\ runs[r].dated < horizon
                  /\ \A p \in Packages : rollup[p] # r}

\* floor_removable_evidence: an older row, superseded by a newer one, that is
\* not the newest up to the cut-off of any surviving run.
RemovableRows(p, horizon) ==
    {row \in snapshots[p] :
        /\ row.at < horizon
        /\ \E newer \in snapshots[p] : newer.at > row.at
        /\ \A r \in Runs \ PurgeableRuns(horizon) :
              (Started(r) /\ runs[r].cutoff >= row.at)
                 => \E newer \in snapshots[p] : row.at < newer.at /\ newer.at <= runs[r].cutoff}

\* purge_evidence: the runs first, then the inventory rows.
Purge ==
    /\ Purges
    /\ \E horizon \in 1..clock :
          /\ runs' = [r \in Runs |-> IF r \in PurgeableRuns(horizon) THEN Run("purged", 0, 0) ELSE runs[r]]
          /\ snapshots' = [p \in Packages |-> snapshots[p] \ RemovableRows(p, horizon)]
    /\ UNCHANGED <<clock, confidence, rollup, work>>

RunStep(r) ==
    \/ Compose(r) \/ SelectIdentity(r) \/ SelectEvidence(r) \/ OpenNext(r)
    \/ ListAbsent(r) \/ CloseNext(r) \/ End(r) \/ Stop(r)

Next ==
    \/ \E r \in Runs : RunStep(r)
    \/ \E p \in Packages : Observe(p) \/ ObserveAbsence(p) \/ Identify(p) \/ LoseIdentity(p)
    \/ \E k \in Findings : FinishItem(k) \/ RouteItem(k)
    \/ Purge

Spec == Init /\ [][Next]_vars

-----------------------------------------------------------------------------
(* Properties *)

TypeOK ==
    /\ clock \in 0..MaxClock
    /\ snapshots \in [Packages -> SUBSET Snapshot]
    /\ confidence \in [Packages -> {"unmapped", "mapped"}]
    /\ rollup \in [Packages -> Runs \cup {None}]
    /\ runs \in [Runs -> [phase : Going \cup {"idle", "done", "stopped", "purged"}, cutoff : 0..MaxClock,
                          dated : 0..MaxClock, matched : SUBSET Packages,
                          readings : [Packages -> Reading], touched : SUBSET Packages, todo : SUBSET Findings,
                          unresolved : SUBSET Packages, fell : SUBSET Packages]]
    /\ work \in [Findings -> [state : {"unfiled", "live", "finished", "closed"}, queue : Queues]]

\* "A package never gets a second open identity item, whatever its keys":
\* across absences, returns and crashes, which change the key its work is
\* filed under while an item under an older key is still open.
OneOpenIdentityItem ==
    \A p \in Packages : Cardinality({k \in Findings : k.kind = "identity" /\ k.package = p /\ Live(k)}) <= 1

Ending(r) == runs[r].phase # "done" /\ runs'[r].phase = "done"

\* The items of one kind of work on a package that the product did not close.
Standing(kind, p) == {k \in Findings : k.kind = kind /\ k.package = p /\ work[k].state \in {"live", "finished"}}

\* A run that ends has missed nobody the inventory lists but who lost an
\* identity between its two selections: a package the first found unmapped has
\* an identity item, and one with an advisory matched, unless it fell in between,
\* an item of either kind, that is live or that a person finished.  An item the
\* product closed when the package left does not count, nor does what an
\* earlier run crashed before filing.
NoListedPackageIsMissed ==
    [][\A r \in Runs : Ending(r) =>
          \A p \in runs[r].touched : ~runs[r].readings[p].absent =>
              /\ p \in runs[r].unresolved => Standing("identity", p) # {}
              /\ p \in runs[r].matched \ runs[r].fell =>
                    Standing("remediation", p) # {} \/ Standing("identity", p) # {}]_vars

\* A run that ends leaves no unfinished work on a package that had left: not
\* even on one whose own row it failed to compose.
NothingOpenForWhatLeft ==
    [][\A r \in Runs : Ending(r) =>
          \A k \in Findings : (Live(k) /\ k.package \in runs[r].touched) =>
              ~runs[r].readings[k.package].absent]_vars

\* What a reader of the table calls absent: the newest row up to an instant
\* says not_found.
SaysNotFound(p, instant) ==
    \E row \in snapshots[p] :
        /\ row.at <= instant
        /\ row.state = "not_found"
        /\ \A other \in snapshots[p] : other.at <= instant => other.at <= row.at

\* The product closes an item only over a package that, at the cut-off of a
\* run then going, the inventory then last said was not there.
ClosedOnlyForAbsence ==
    [][\A k \in Findings : (Live(k) /\ work'[k].state = "closed") =>
          \E r \in Runs : runs[r].phase = "closing" /\ SaysNotFound(k.package, runs[r].cutoff)]_vars

=============================================================================
