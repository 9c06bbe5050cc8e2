----------------------------- MODULE Assessment -----------------------------
(***************************************************************************)
(* How what the collectors observed of a package becomes what the product  *)
(* says of it: sweeps of ten evidence tables (Sources), policy runs that   *)
(* execute the eight passes over them at a cut-off (PolicyPasses,          *)
(* core/policy_run.py), and the rollup row each run leaves                 *)
(* (core/rollup.py, core/confidence.py).                                   *)
(*                                                                         *)
(* Collections, runs and the people who correct an identity interleave.  A *)
(* run loads its packages before its first pass and composes the rollup    *)
(* after its last, with the packages it loaded; its passes over one        *)
(* package are one transaction, which a row that violates a constraint of  *)
(* its table rolls back.                                                   *)
(***************************************************************************)
EXTENDS PolicyPasses

CONSTANTS
    Runs,           \* policy runs that may be started
    Versions,       \* policy versions a run may be started under
    Parameters,     \* policy version |-> what it decides with
    Identities,     \* the package rows considered: confidence and order of authority
    AnswersTo(_, _),  \* table and instant |-> the replies considered
    MaxClock,       \* bound: instants
    MaxSweeps       \* bound: collections that observe the package

ASSUME BoundsAssumption    == MaxClock \in Nat \ {0} /\ MaxSweeps \in Nat

Tables == {"source", "pypi", "feedstock", "conda", "advisories", "kev", "licence",
           "assessment", "verification", "inventory"}

ASSUME IdentitiesAssumption ==
    Identities \subseteq [confidence : {"unmapped", "inventory-derived", "verified"}, order : Seq(SurfaceSet)]

\* What a source can reply, and what its table accepts.
Replies(table, now) ==
    CASE table = "source"       -> SourceReplies
      [] table = "pypi"         -> PyPIReplies
      [] table = "feedstock"    -> FeedstockReplies(now)
      [] table = "conda"        -> CondaReplies
      [] table = "advisories"   -> VulnerabilityReplies
      [] table = "kev"          -> KevReplies
      [] table = "licence"      -> LicenseReplies
      [] table = "assessment"   -> MetadataReplies
      [] table = "verification" -> VerificationReplies
      [] table = "inventory"    -> InventoryReplies

Accepts(table) ==
    CASE table = "source"       -> SurfaceAccepts
      [] table = "pypi"         -> SurfaceAccepts
      [] table = "feedstock"    -> FeedstockAccepts
      [] table = "conda"        -> CondaAccepts
      [] table = "advisories"   -> AdvisoryAccepts
      [] table = "kev"          -> KevAccepts
      [] table = "licence"      -> LicenseAccepts
      [] table = "assessment"   -> AssessmentAccepts
      [] table = "verification" -> VerificationAccepts
      [] table = "inventory"    -> InventoryAccepts

ASSUME AnswersAssumption ==
    \A table \in Tables, now \in 1..MaxClock : AnswersTo(table, now) \subseteq Replies(table, now)

ASSUME VersionsAssumption == \A version \in Versions : version \in DOMAIN Parameters /\ Readable(Parameters[version])

\* None is neither a row nor a rule.
ASSUME NothingAssumption ==
    /\ \A table \in Tables : None \notin Accepts(table)
    /\ \A version \in Versions : None \notin ToSet(Parameters[version].buckets)

VARIABLES
    clock,      \* the instant of now
    evidence,   \* table |-> its sweeps of the package, each an instant, a reply and rows
    identity,   \* the package row
    runs,       \* the policy runs
    rollup      \* the package's row of package_health, or None

vars == <<clock, evidence, identity, runs, rollup>>

-----------------------------------------------------------------------------
(* Evidence *)

\* Mutant of SweepsBy: the cut-off is not looked at.
SweepsEver(table, cutoff) == evidence[table]

\* The sweeps of a table at or before a cut-off.
SweepsBy(table, cutoff) == {sweep \in evidence[table] : sweep.at <= cutoff}

\* The newest of them, if there is one.
SweepAt(table, cutoff) ==
    CHOOSE s \in SweepsBy(table, cutoff) : \A other \in SweepsBy(table, cutoff) : other.at <= s.at

RowsAt(table, cutoff) == IF SweepsBy(table, cutoff) = {} THEN <<>> ELSE SweepAt(table, cutoff).rows

EvidenceAt(cutoff) == [table \in Tables |-> RowsAt(table, cutoff)]

ReplyAt(table, cutoff) == SweepAt(table, cutoff).reply

SweepsHeld == UNION {{table} \X evidence[table] : table \in Tables}

\* current_findings of collectors/kev.py: of every advisory, its newest match
\* the catalog's own freshness still allows, whichever sweep it is of.
KevCurrent(now) ==
    LET fresh == {f \in UNION {ToSet(s.rows) : s \in evidence["advisories"]} :
                     IsMatched(f) /\ f.at >= now - FreshFor["kev"]}
    IN  {f \in fresh : \A g \in fresh : g.advisory = f.advisory => g.at <= f.at}

\* The rows of one sweep, where the catalog is asked of some findings.
RowsFor(table, reply, at, findings) ==
    CASE table = "source"       -> SourceRows(reply, at)
      [] table = "pypi"         -> PyPIRows(reply, at)
      [] table = "feedstock"    -> FeedstockRows(reply, at)
      [] table = "conda"        -> CondaRows(reply, at)
      [] table = "advisories"   -> VulnerabilityRows(reply, at)
      [] table = "kev"          -> KevRows(reply, at, findings)
      [] table = "licence"      -> LicenseRows(reply, at)
      [] table = "assessment"   -> AssessmentRows(reply, at)
      [] table = "verification" -> VerificationRows(reply, at)
      [] table = "inventory"    -> InventoryRows(reply, at)

-----------------------------------------------------------------------------
(* The constraints of the derived tables, policies/models.py *)

CurrencyRowHolds(row) ==
    row.authority = None => \A s \in SurfaceSet : row.surfaces[s] \notin {"current", "behind"}

FeedstockRowHolds(row) ==
    /\ (row.age = None) = (row.pushed = None)
    /\ row.presence \in {"present_and_maintained", "present_and_inactive"} => row.pushed # None
    /\ row.presence \in FeedstockVerdicts => row.snapshot # None

VulnerabilityRowHolds(row) ==
    /\ row.status \in {"advisories_matched", "no_advisory_matched"} => row.finding # None
    /\ row.kev \in {"listed", "not_listed"} => row.kev_finding # None
    /\ row.risk # "" => row.status = "advisories_matched"

LicenseRowHolds(row) ==
    /\ row.outcome \in RuledLicenses \cup {"manual_review"} => row.finding # None
    /\ (row.outcome \in RuledLicenses) = (row.rule # None)

RemediationRowHolds(row) ==
    /\ row.readiness \in DecidedReadiness => row.finding # None
    /\ row.readiness = "ready" => row.surfaces["conda"].fix = "published"
    /\ row.readiness = "awaiting_build" => row.surfaces["feedstock"].fix = "published"
    /\ row.readiness = "awaiting_packaging" =>
           \E s \in {"source", "pypi"} : row.surfaces[s].fix = "published"
    /\ row.readiness = "blocked" => \A s \in SurfaceSet : row.surfaces[s].fix = "not_published"
    /\ \A s \in SurfaceSet : row.surfaces[s].fix # "not_read" => row.surfaces[s].row # None

PythonRowHolds(row) ==
    /\ row.readiness \in VerifiedReadiness => row.type = "verified" /\ row.verification # None
    /\ row.readiness \in InferredReadiness => row.type = "inferred" /\ row.assessment # None
    /\ row.readiness \notin VerifiedReadiness \cup InferredReadiness => row.type = "none"

PriorityRowHolds(row) ==
    /\ (row.bucket \in Buckets) = (row.rule # None)
    /\ row.score # None => row.score \in 1..100

\* Every row of a run meets its table's constraints.
RowsHold(rows) ==
    /\ CurrencyRowHolds(rows.currency)
    /\ FeedstockRowHolds(rows.feedstock)
    /\ VulnerabilityRowHolds(rows.vulnerability)
    /\ LicenseRowHolds(rows.licence)
    /\ RemediationRowHolds(rows.remediation)
    /\ PythonRowHolds(rows.python)
    /\ rows.work_type \in WorkTypes \cup {"unknown"}
    /\ PriorityRowHolds(rows.priority)

-----------------------------------------------------------------------------
(* Policy runs *)

\* A run that holds nothing yet.
Idle == [phase |-> "idle", cutoff |-> 0, version |-> None, loaded |-> None, rows |-> None]

Init ==
    /\ clock = 1
    /\ evidence = [table \in Tables |-> {}]
    /\ identity \in Identities
    /\ runs = [r \in Runs |-> Idle]
    /\ rollup = None

\* Time passes.
Tick ==
    /\ clock < MaxClock
    /\ clock' = clock + 1
    /\ UNCHANGED <<evidence, identity, runs, rollup>>

\* A collector asks about the package and writes what it was told.  A run reads
\* no evidence it did not find at its cut-off (EvidenceCutoff): what is observed
\* after a run started is observed at a later instant.
Observe(table) ==
    /\ Cardinality(SweepsHeld) < MaxSweeps
    /\ \A s \in evidence[table] : s.at < clock
    /\ \A r \in Runs : runs[r].phase # "idle" => runs[r].cutoff < clock
    /\ \E reply \in AnswersTo(table, clock) :
           evidence' = [evidence EXCEPT ![table] =
                           @ \cup {[at |-> clock, reply |-> reply,
                                    rows |-> RowsFor(table, reply, clock, KevCurrent(clock))]}]
    /\ UNCHANGED <<clock, identity, runs, rollup>>

\* A person corrects the identity, or the resolver earns or loses confidence in
\* it: the row changes under whatever runs are in hand.
Identify ==
    /\ \E row \in Identities : row # identity /\ identity' = row
    /\ UNCHANGED <<clock, evidence, runs, rollup>>

\* execute_policy_run opens the run and loads its packages: at the instant of
\* now or, for a replay, at an earlier run's cut-off and version.
Start(r) ==
    /\ runs[r].phase = "idle"
    /\ \E cutoff \in 1..clock, version \in Versions :
           /\ \/ cutoff = clock
              \/ \E other \in Runs : /\ runs[other].phase # "idle"
                                     /\ runs[other].cutoff = cutoff
                                     /\ runs[other].version = version
           /\ runs' = [runs EXCEPT ![r] = [phase |-> "loaded", cutoff |-> cutoff, version |-> version,
                                           loaded |-> identity, rows |-> None]]
    /\ UNCHANGED <<clock, evidence, identity, rollup>>

\* The rows the passes write for a package, in the order they are registered:
\* the work type and the priority are read off the others.
Derived(loaded, cutoff, version) ==
    LET ev    == EvidenceAt(cutoff)
        p     == Parameters[version]
        first == [currency      |-> Currency(ev, loaded.order),
                  feedstock     |-> FeedstockPresence(ev, cutoff, p.threshold, loaded.confidence),
                  vulnerability |-> Vulnerability(ev, p.severities),
                  licence       |-> License(ev, p.licences),
                  remediation   |-> Remediation(ev, cutoff),
                  python        |-> PythonReadiness(ev, cutoff)]
    IN  [currency      |-> first.currency,
         feedstock     |-> first.feedstock,
         vulnerability |-> first.vulnerability,
         licence       |-> first.licence,
         remediation   |-> first.remediation,
         python        |-> first.python,
         work_type     |-> WorkType(Verdicts(first)),
         priority      |-> Priority(Verdicts(first), p.buckets,
                                    UsageScore(Row(ev["inventory"]), p.weights))]

\* _execute_passes: all the rows of the package, or none of them.
Evaluate(r) ==
    /\ runs[r].phase = "loaded"
    /\ LET rows == Derived(runs[r].loaded, runs[r].cutoff, runs[r].version)
       IN  runs' = [runs EXCEPT ![r].phase = IF RowsHold(rows) THEN "evaluated" ELSE "failed",
                                ![r].rows  = IF RowsHold(rows) THEN rows ELSE None]
    /\ UNCHANGED <<clock, evidence, identity, rollup>>

\* Mutant of Gated: an unmapped package shows what the run derived.
Ungated(value, confidence) == value

\* gated_status: nothing is claimed of a package nobody has identified.
Gated(value, confidence) == IF confidence = "unmapped" THEN "unknown" ELSE value

\* compose_rollup: the row of an evaluated package is replaced, every verdict
\* gated by the confidence the package was loaded with; a package whose passes
\* failed keeps the row it had.
Compose(r) ==
    /\ runs[r].phase \in {"evaluated", "failed"}
    /\ runs' = [runs EXCEPT ![r].phase = "composed"]
    /\ rollup' = IF runs[r].phase = "failed" THEN rollup
                 ELSE LET rows       == runs[r].rows
                          confidence == runs[r].loaded.confidence
                      IN  [run        |-> r,
                           confidence |-> confidence,
                           currency   |-> Gated(rows.currency.overall, confidence),
                           feedstock  |-> Gated(rows.feedstock.presence, confidence),
                           work_type  |-> Gated(rows.work_type, confidence),
                           bucket     |-> Gated(rows.priority.bucket, confidence)]
    /\ UNCHANGED <<clock, evidence, identity>>

Next ==
    \/ Tick
    \/ \E table \in Tables : Observe(table)
    \/ Identify
    \/ \E r \in Runs : Start(r) \/ Evaluate(r) \/ Compose(r)

Spec == Init /\ [][Next]_vars

-----------------------------------------------------------------------------
(* Properties *)

TypeOK ==
    /\ clock \in 1..MaxClock
    /\ \A table \in Tables : \A sweep \in evidence[table] : sweep.at \in 1..clock /\ sweep.rows # <<>>
    /\ identity \in Identities
    /\ \A r \in Runs : /\ runs[r].phase \in {"idle", "loaded", "evaluated", "failed", "composed"}
                       /\ runs[r].cutoff \in 0..clock
                       /\ runs[r].loaded \in Identities \cup {None}
    /\ rollup # None => rollup.run \in Runs

\* The runs that derived rows.
Derivers == {r \in Runs : runs[r].rows # None}

\* Whatever the sources replied, no pass writes a row its table refuses, so no
\* package is left without a verdict by one pass's rolling back the other
\* seven (_execute_passes, policies/models.py).
DerivationNeverFails == \A r \in Runs : runs[r].phase # "failed"

\* Nor does a collector: a refused row would undo the sweep that wrote it
\* (Collector.collect, collectors/models.py).
EvidenceIsAccepted ==
    \A table \in Tables : \A sweep \in evidence[table] : ToSet(sweep.rows) \subseteq Accepts(table)

\* No table refuses a row, whatever the sources reply.
NoRowIsRefused == DerivationNeverFails /\ EvidenceIsAccepted

\* A feedstock is called absent only when, in the newest look, the repository
\* of its conventional name answered that it does not exist and the whole
\* staged queue answered that nobody is adding it; it is called maintained or
\* inactive only by a look no older than the version's threshold
\* (collectors/feedstock.py, policies/feedstock.py).
FeedstockVerdictsWereLookedFor ==
    \A r \in Derivers :
        LET reply     == ReplyAt("feedstock", runs[r].cutoff)
            presence  == runs[r].rows.feedstock.presence
            threshold == Parameters[runs[r].version].threshold
        IN  /\ presence = "absent" => reply.repository = "conventional_missing" /\ reply.queue = "none"
            /\ presence \in {"present_and_maintained", "present_and_inactive"} =>
                   SweepAt("feedstock", runs[r].cutoff).at >= runs[r].cutoff - threshold

\* A package is said to match no advisory only when the newest advisory reply
\* knew the package and matched nothing: not when it failed, did not know the
\* package, or could not be asked (collectors/vulnerability.py,
\* policies/vulnerability.py).
NothingMatchedWasRead ==
    \A r \in Derivers :
        runs[r].rows.vulnerability.status = "no_advisory_matched" =>
            ReplyAt("advisories", runs[r].cutoff).said = "nothing"

\* A package is said not to be on the exploited list only when it matches
\* advisories and the newest catalog reply, taken after they were read, uses
\* the scheme of every one of them and lists none; it is said to be on it only
\* for an advisory it matches now (collectors/kev.py, policies/vulnerability.py).
KevVerdictIsAboutTheseMatches ==
    \A r \in Derivers :
        LET matched == {f.advisory : f \in MatchedIn(EvidenceAt(runs[r].cutoff))}
            reply   == ReplyAt("kev", runs[r].cutoff)
            kev     == runs[r].rows.vulnerability.kev
        IN  /\ kev = "not_listed" => /\ matched # {}
                                     /\ matched \subseteq reply.schemes \ reply.listed
                                     /\ SweepAt("kev", runs[r].cutoff).at
                                            >= SweepAt("advisories", runs[r].cutoff).at
            /\ kev = "listed" => matched \cap reply.listed # {}

\* A licence is allowed only when some channel states one, and every channel
\* that serves the package was read and states one a rule of the version
\* allows as it stands (collectors/license.py, policies/licence.py).
AllowedByEveryChannel ==
    \A r \in Derivers :
        LET reply == ReplyAt("licence", runs[r].cutoff)
            rules == Parameters[runs[r].version].licences
        IN  runs[r].rows.licence.outcome = "allowed" =>
                /\ ToSet(reply) \cap DOMAIN rules # {}
                /\ \A stated \in ToSet(reply) \ {"missing"} :
                       stated \in DOMAIN rules /\ rules[stated] = "allowed"

\* No clean verdict comes of a source that did not answer: absence, no match
\* and an allowed licence were each read.
NoCleanVerdictOutOfSilence == FeedstockVerdictsWereLookedFor /\ NothingMatchedWasRead /\ AllowedByEveryChannel

\* Where a fix is said to be ready, awaiting a build or awaiting packaging, the
\* advisories are fresh and every one of them is fixed by a version some fresh
\* surface states; ready, by one the monitored channels serve
\* (policies/remediation.py).
FixesAreReadAndFresh ==
    \A r \in Derivers :
        LET cutoff    == runs[r].cutoff
            ev        == EvidenceAt(cutoff)
            readiness == runs[r].rows.remediation.readiness
            Fresh(table) == SweepAt(table, cutoff).at >= cutoff - FreshFor[table]
            States(surface, version) ==
                /\ ev[surface] # <<>> /\ Fresh(surface)
                /\ \E row \in ToSet(ev[surface]) : row.state = "ok" /\ Comparable[row.version] = version
        IN  readiness \in DecidedReadiness =>
                /\ MatchedIn(ev) # {} /\ Fresh("advisories")
                /\ \A f \in MatchedIn(ev) :
                       \E s \in (IF readiness = "ready" THEN {"conda"} ELSE SurfaceSet) :
                           Comparable[f.fixed] # "" /\ States(s, Comparable[f.fixed])

\* A package is called current only when every surface it is meant to be on was
\* read and states the same version (policies/currency.py).
CurrentMeansEverySurfaceAgrees ==
    \A r \in Derivers :
        LET ev       == EvidenceAt(runs[r].cutoff)
            meant    == {s \in SurfaceSet : ev[s] = <<>> \/ ev[s][1].state # "not_applicable"}
            Versions_(s) == {Comparable[row.version] : row \in {w \in ToSet(ev[s]) : w.state = "ok"}}
        IN  runs[r].rows.currency.overall = "current" =>
                /\ meant # {}
                /\ \A s \in meant : Versions_(s) \ {""} # {}
                /\ \E version \in Statements \ {""} : \A s \in meant : version \in Versions_(s)

\* A readiness for the Python series rests on evidence fresh at the cut-off;
\* and a fresh build that did not come out is never outvoted by what the
\* metadata claims (policies/py314_readiness.py).
ABuildOutranksAClaim ==
    \A r \in Derivers :
        LET cutoff == runs[r].cutoff
            ev     == EvidenceAt(cutoff)
            answer == runs[r].rows.python.readiness
            Fresh(table) == ev[table] # <<>> /\ ev[table][1].at >= cutoff - FreshFor[table]
        IN  /\ answer \in VerifiedReadiness => Fresh("verification")
            /\ answer \in InferredReadiness => Fresh("assessment")
            /\ (Fresh("verification") /\ ReplyAt("verification", cutoff) = "not_built") =>
                   answer \in {"verified_not_ready", "not_applicable"}

\* Neither a fix nor a readiness is claimed from what was no longer fresh at the
\* cut-off.
VerdictsRestOnFreshEvidence == FixesAreReadAndFresh /\ ABuildOutranksAClaim

\* What the rules of a version must have for the passes to agree: each asks for a
\* verdict some work type answers, and those of the first three buckets for a
\* match.
AnsweredByWork(rules) ==
    \A rule \in ToSet(rules) :
        /\ \E domain \in DOMAIN rule.when, work \in ToSet(WorkTypePrecedence) :
               work.domain = domain /\ rule.when[domain] \in work.verdicts
        /\ rule.bucket \in {"p1", "p2", "p3"} =>
               "vulnerability" \in DOMAIN rule.when /\ rule.when["vulnerability"] = "advisories_matched"

\* The passes of one run tell one story: what can be fixed is what matched,
\* what needs no fix matched nothing, and every package put in a bucket is
\* given work, the vulnerable ones the work of fixing it
\* (policies/remediation.py, priority.py, work_type.py).
PassesAgree ==
    \A r \in Derivers :
        LET rows == runs[r].rows
        IN  /\ rows.remediation.readiness \in DecidedReadiness => rows.vulnerability.status = "advisories_matched"
            /\ rows.remediation.readiness = "not_applicable" => rows.vulnerability.status = "no_advisory_matched"
            /\ rows.priority.bucket \in Buckets => rows.work_type \in WorkTypes
            /\ rows.priority.bucket \in {"p1", "p2", "p3"} => rows.work_type = "fix_vulnerability"

\* Two runs at one cut-off under one version derive the same rows, whatever was
\* collected in between; an identity corrected in between changes only the
\* currency and the confidence beside the feedstock (core/policy_run.py).
ReplaysAgree ==
    \A r, s \in Derivers :
        LET a == runs[r]  b == runs[s]
        IN  (a.cutoff = b.cutoff /\ a.version = b.version) =>
                /\ a.loaded = b.loaded => a.rows = b.rows
                /\ \A pass \in {"vulnerability", "licence", "remediation", "python"} :
                       a.rows[pass] = b.rows[pass]
                /\ a.rows.feedstock.presence = b.rows.feedstock.presence

\* The package's rollup row claims nothing of a package its run loaded
\* unmapped, and what it claims of another its own run derived, though the
\* identity and the evidence have moved on (core/rollup.py, core/confidence.py).
UnmappedClaimsNothing ==
    rollup # None =>
        LET run == runs[rollup.run]
            claims == {rollup.currency, rollup.feedstock, rollup.work_type, rollup.bucket}
        IN  IF run.loaded.confidence = "unmapped" THEN claims = {"unknown"}
            ELSE /\ rollup.currency = run.rows.currency.overall
                 /\ rollup.bucket = run.rows.priority.bucket

\* Nothing is claimed of the package that the run did not read: neither of the
\* exploited list, nor of its surfaces, nor of a package nobody has mapped.
ClaimsWereRead == KevVerdictIsAboutTheseMatches /\ CurrentMeansEverySurfaceAgrees /\ UnmappedClaimsNothing
=============================================================================
