---------------------------- MODULE PolicyPasses ----------------------------
(***************************************************************************)
(* The eight policy passes of policies/*.py as functions of the evidence a *)
(* package has at a cut-off.  "ev" gives, for each evidence table, the     *)
(* rows of the newest sweep at or before the cut-off, in order, or the     *)
(* empty sequence.  Each pass answers with the row it would write; its     *)
(* references to evidence are the evidence rows themselves, or None.       *)
(***************************************************************************)
EXTENDS Sources

CONSTANTS
    FreshFor,       \* evidence table |-> ticks its rows stay fresh
    Operands        \* expression |-> the expressions it is an AND of, or {}

\* Where a version is read from, in the default order of authority.
Surfaces == <<"source", "pypi", "feedstock", "conda">>
SurfaceSet == {"source", "pypi", "feedstock", "conda"}

ASSUME FreshnessAssumption ==
    \A table \in SurfaceSet \cup {"advisories", "kev", "assessment", "verification"} : FreshFor[table] \in Nat

\* The first row of a sequence that is among the wanted, or None.
First(rows, wanted) ==
    LET found == {i \in DOMAIN rows : rows[i] \in wanted}
    IN  IF found = {} THEN None ELSE rows[Min(found)]

Row(rows) == IF rows = <<>> THEN None ELSE rows[1]

-----------------------------------------------------------------------------
(* Currency *)

\* observed_surface: of a surface's newest sweep, a row that states a version
\* before one that does not.
ObservedSurface(ev, surface) ==
    LET stated == First(ev[surface], {row \in ToSet(ev[surface]) : row.state = "ok"})
    IN  IF stated # None THEN stated ELSE Row(ev[surface])

\* The version a row states once a tag's v is gone, or nothing.
StatedVersion(row) == IF row # None /\ row.state = "ok" THEN Comparable[row.version] ELSE ""

\* authoritative_version: the first surface of the package's order that states
\* a version.
AuthoritativeSurface(ev, order) ==
    First(order, {surface \in SurfaceSet : StatedVersion(ObservedSurface(ev, surface)) # ""})

\* surface_verdict
SurfaceVerdict(row, authority) ==
    IF row = None THEN "unknown"
    ELSE IF row.state \in Sentinels THEN row.state
    ELSE IF StatedVersion(row) = "" \/ authority = "" THEN "unknown"
    ELSE IF StatedVersion(row) = authority THEN "current" ELSE "behind"

\* CurrencyPass
Currency(ev, order) ==
    LET surface   == AuthoritativeSurface(ev, order)
        authority == IF surface = None THEN "" ELSE StatedVersion(ObservedSurface(ev, surface))
        verdicts  == [s \in SurfaceSet |-> SurfaceVerdict(ObservedSurface(ev, s), authority)]
    IN  [surfaces  |-> verdicts,
         authority |-> surface,
         overall   |-> WorstCurrency({verdicts[s] : s \in SurfaceSet})]

-----------------------------------------------------------------------------
(* Feedstock presence *)

\* presence_verdict: absence is claimed only where it was established, and
\* maintenance only from an observation no older than the threshold.
PresenceVerdict(row, cutoff, threshold) ==
    IF row = None THEN "unknown"
    ELSE IF row.state \in {"error", "unknown", "not_applicable"} THEN row.state
    ELSE IF row.state = "not_found"
    THEN IF ~row.established THEN "unknown" ELSE IF row.staged THEN "staged_recipe_pending" ELSE "absent"
    ELSE IF row.pushed = None \/ cutoff - row.at > threshold THEN "unknown"
    ELSE IF cutoff - row.pushed <= threshold THEN "present_and_maintained" ELSE "present_and_inactive"

\* FeedstockPresencePass
FeedstockPresence(ev, cutoff, threshold, confidence) ==
    LET row    == Row(ev["feedstock"])
        pushed == IF row # None /\ row.state = "ok" THEN row.pushed ELSE None
    IN  [presence   |-> PresenceVerdict(row, cutoff, threshold),
         pushed     |-> pushed,
         age        |-> IF pushed = None THEN None ELSE cutoff - pushed,
         confidence |-> confidence,
         snapshot   |-> row]

-----------------------------------------------------------------------------
(* Vulnerability and exploited advisories *)

IsMatched(finding) == finding.state = "matched"

MatchedIn(ev) == {finding \in ToSet(ev["advisories"]) : IsMatched(finding)}

\* finding_verdict: of what is not a match, only the reading that matched
\* nothing is good news.
AdvisoryVerdict(finding) ==
    IF IsMatched(finding) THEN "advisories_matched"
    ELSE IF finding.nothing THEN "no_advisory_matched" ELSE "unknown"

\* membership_verdict
MembershipVerdict(row) == IF row.state \in {"listed", "not_listed"} THEN row.state ELSE "not_established"

\* Mutant of Aligned: every cross-reference of the newest catalog sweep counts.
EveryCrossReference(ev) == ToSet(ev["kev"])

\* partition_cross_references: a cross-reference about a finding that is not of
\* the newest advisory sweep is disregarded.
Aligned(ev) ==
    {row \in ToSet(ev["kev"]) : row.about = None \/ row.about \in ToSet(ev["advisories"])}

\* unreferenced_advisories: the matches no cross-reference is about.
Unreferenced(ev) == MatchedIn(ev) \ {row.about : row \in Aligned(ev)}

\* risk_level: the worst-ranked severity a match states, or none.
RiskLevel(ev, order) ==
    LET stated == {finding.severity : finding \in MatchedIn(ev)}
    IN  Worst(order, stated \cap ToSet(order), "")

\* VulnerabilityPass
Vulnerability(ev, order) ==
    LET findings == ToSet(ev["advisories"])
        status   == WorstVulnerability({AdvisoryVerdict(f) : f \in findings})
        kev      == WorstKevMembership({MembershipVerdict(row) : row \in Aligned(ev)}
                        \cup {"not_established" : f \in Unreferenced(ev)})
    IN  [status      |-> status,
         kev         |-> kev,
         risk        |-> RiskLevel(ev, order),
         finding     |-> First(ev["advisories"], {f \in findings : AdvisoryVerdict(f) = status}),
         kev_finding |-> First(ev["kev"], {row \in Aligned(ev) : MembershipVerdict(row) = kev})]

-----------------------------------------------------------------------------
(* Licence *)

\* restrictive_rule: an AND of licences is held to the worst of its operands'
\* rules, and is never allowed by one of them.
RestrictiveRule(expression, rules) ==
    LET ruled == {e \in Operands[expression] \cap DOMAIN rules : rules[e] \in {"forbidden", "restricted"}}
        worst == WorstLicense({rules[e] : e \in ruled})
    IN  IF ruled = {} THEN None ELSE CHOOSE e \in ruled : rules[e] = worst

\* deciding_rule: the rule of the whole expression, else of an operand.
DecidingRule(expression, rules) ==
    IF expression \in DOMAIN rules THEN expression ELSE RestrictiveRule(expression, rules)

ExpressionVerdict(expression, rules) ==
    LET rule == DecidingRule(expression, rules) IN IF rule = None THEN "manual_review" ELSE rules[rule]

\* finding_verdict: a channel that states a licence is held to its rule.
LicenseVerdict(finding, rules) ==
    IF finding.state = "normalized" THEN ExpressionVerdict(finding.expression, rules) ELSE "unknown"

\* contributing_findings: a channel that does not serve the package has no vote.
Contributing(ev) == {f \in ToSet(ev["licence"]) : f.state # "not_found"}

\* LicensePass
License(ev, rules) ==
    LET voting  == Contributing(ev)
        outcome == WorstLicense({LicenseVerdict(f, rules) : f \in voting})
        cited   == IF voting = {} THEN ToSet(ev["licence"]) ELSE voting
        finding == First(ev["licence"], {f \in cited : LicenseVerdict(f, rules) = outcome})
    IN  [outcome |-> outcome,
         finding |-> finding,
         rule    |-> IF finding = None \/ outcome \notin RuledLicenses THEN None
                     ELSE DecidingRule(finding.expression, rules)]

-----------------------------------------------------------------------------
(* Remediation *)

\* Mutant of IsStale: evidence never goes stale.
NeverStale(table, row, cutoff) == FALSE

\* evidence_is_stale: nothing observed is not stale.  Every table a pass asks it
\* of is a registered collector's, and a collector declares a freshness target.
IsStale(table, row, cutoff) == row # None /\ row.at < cutoff - FreshFor[table]

\* fixed_version: the version that fixes a finding.  A range that orders
\* versions, or a version that names nothing, is not one the product compares.
FixedVersion(finding) == IF finding.fixed \in Statements THEN Comparable[finding.fixed] ELSE ""

\* surface_availability: what a surface says of a fix, and the row it says it
\* with.  Versions are compared for equality only, so a surface that states
\* another version is not read as lacking the fix.
Availability(ev, surface, fixed, cutoff) ==
    LET rows    == ev[surface]
        stated  == First(rows, {row \in ToSet(rows) : StatedVersion(row) # ""})
        carries == First(rows, {row \in ToSet(rows) : StatedVersion(row) = fixed})
    IN  IF fixed = "" \/ IsStale(surface, Row(rows), cutoff) \/ stated = None
        THEN [fix |-> "not_read", row |-> None]
        ELSE IF carries # None THEN [fix |-> "published", row |-> carries]
        ELSE [fix |-> "not_read", row |-> stated]

\* finding_readiness: the surface closest to the user that carries the fix
\* decides.  No surface reads not_published, so blocked is never reached.
FindingReadiness(ev, finding, cutoff) ==
    LET Published(s) == Availability(ev, s, FixedVersion(finding), cutoff).fix = "published"
    IN  IF FixedVersion(finding) = "" THEN "unknown"
        ELSE IF Published("conda") THEN "ready"
        ELSE IF Published("feedstock") THEN "awaiting_build"
        ELSE IF Published("source") \/ Published("pypi") THEN "awaiting_packaging"
        ELSE "unknown"

\* RemediationPass: stale advisories decide nothing; with no match, only a
\* reading that matched nothing makes remediation not applicable; with several,
\* the worst of them decides and names the row.
Remediation(ev, cutoff) ==
    LET findings  == ev["advisories"]
        stale     == IsStale("advisories", Row(findings), cutoff)
        matched   == IF stale THEN {} ELSE MatchedIn(ev)
        readiness == IF stale THEN "unknown"
                     ELSE IF matched # {}
                     THEN WorstReadiness({FindingReadiness(ev, f, cutoff) : f \in matched})
                     ELSE IF findings # <<>> /\ \A f \in ToSet(findings) : f.nothing
                     THEN "not_applicable" ELSE "unknown"
        finding   == First(findings, {f \in matched : FindingReadiness(ev, f, cutoff) = readiness})
    IN  [readiness |-> readiness,
         finding   |-> finding,
         surfaces  |-> [s \in SurfaceSet |->
                          Availability(ev, s, IF finding = None THEN "" ELSE FixedVersion(finding), cutoff)]]

-----------------------------------------------------------------------------
(* Python readiness *)

\* verified_reading and inferred_reading, of evidence that is fresh.
Reading(row) ==
    CASE row.state = "verified_compatible"   -> "verified_ready"
      [] row.state = "verification_failed"   -> "verified_not_ready"
      [] row.state = "inferred_compatible"   -> "inferred_ready"
      [] row.state = "inferred_incompatible" -> "inferred_not_ready"
      [] OTHER                               -> ""

FreshReading(ev, table, cutoff) ==
    LET row == Row(ev[table]) IN IF row = None \/ IsStale(table, row, cutoff) THEN "" ELSE Reading(row)

\* readiness_of: a build outranks a claim; either saying the question does not
\* apply settles it.
PythonReadiness(ev, cutoff) ==
    LET assessment   == Row(ev["assessment"])
        verification == Row(ev["verification"])
        verified     == FreshReading(ev, "verification", cutoff)
        inferred     == FreshReading(ev, "assessment", cutoff)
        inapplicable == \E row \in {assessment, verification} : row # None /\ row.state = "not_applicable"
        Answer(verdict, type, stale) ==
            [readiness |-> verdict, type |-> type, stale |-> stale,
             assessment   |-> IF inapplicable THEN None ELSE assessment,
             verification |-> IF inapplicable THEN None ELSE verification]
    IN  IF inapplicable THEN Answer("not_applicable", "none", FALSE)
        ELSE IF verified # "" THEN Answer(verified, "verified", IsStale("assessment", assessment, cutoff))
        ELSE IF inferred # "" THEN Answer(inferred, "inferred", IsStale("verification", verification, cutoff))
        ELSE Answer("unknown", "none", \/ IsStale("assessment", assessment, cutoff)
                                       \/ IsStale("verification", verification, cutoff))

-----------------------------------------------------------------------------
(* The passes that read the others' rows *)

\* current_verdicts: what the rows of this run say, by domain.  A pass that has
\* not written its row yet says nothing.
Verdicts(rows) ==
    [domain \in DOMAIN rows |->
        CASE domain = "currency"      -> rows[domain].overall
          [] domain = "feedstock"     -> rows[domain].presence
          [] domain = "vulnerability" -> rows[domain].status
          [] domain = "licence"       -> rows[domain].outcome
          [] domain = "remediation"   -> rows[domain].readiness
          [] domain = "python"        -> rows[domain].readiness]

Meets(verdicts, when) == \A d \in DOMAIN when : d \in DOMAIN verdicts /\ verdicts[d] = when[d]

Recommend(domain, verdicts, work) == [domain |-> domain, verdicts |-> verdicts, work |-> work]

FixFirst     == Recommend("vulnerability", {"advisories_matched"}, "fix_vulnerability")
ReviewNext   == Recommend("licence", {"forbidden", "restricted", "manual_review"}, "review_license")
LesserWork   == <<
    Recommend("feedstock", {"absent"}, "create_recipe"),
    Recommend("feedstock", {"present_and_inactive", "staged_recipe_pending"}, "update_feedstock"),
    Recommend("python", InferredReadiness, "validate_python_314"),
    Recommend("python", {"verified_not_ready"}, "file_tracking_issue"),
    Recommend("currency", {"behind"}, "file_tracking_issue")>>

\* Mutant of WorkTypePrecedence: the feedstock is seen to first.
FeedstockBeforeFix == LesserWork \o <<FixFirst, ReviewNext>>

\* WORK_TYPE_PRECEDENCE
WorkTypePrecedence == <<FixFirst, ReviewNext>> \o LesserWork

\* recommendation_for
WorkType(verdicts) ==
    LET rule == First(WorkTypePrecedence,
                    {r \in ToSet(WorkTypePrecedence) :
                         r.domain \in DOMAIN verdicts /\ verdicts[r.domain] \in r.verdicts})
    IN  IF rule = None THEN "unknown" ELSE rule.work

\* Mutant of UsageScore: the total is not capped at the ceiling.
UsageScoreUncapped(row, weights) ==
    LET total   == row.lob * weights.lob + row.component * weights.component
        ceiling == (weights.lob + weights.component) * 100
    IN  IF weights = None \/ row = None \/ row.state # "ok" \/ ceiling = 0 THEN None
        ELSE 1 + (total * 99) \div ceiling

\* usage_score: the weighted signals of the newest inventory row, scaled to
\* 1..100 against the ceiling at which every signal counts 100.
UsageScore(row, weights) ==
    LET total   == row.lob * weights.lob + row.component * weights.component
        ceiling == (weights.lob + weights.component) * 100
    IN  IF weights = None \/ row = None \/ row.state # "ok" \/ ceiling = 0 THEN None
        ELSE 1 + (Min({total, ceiling}) * 99) \div ceiling

\* matching_rule and _assign: the first rule of the policy version all of whose
\* conditions the run's verdicts meet.
Priority(verdicts, rules, score) ==
    LET rule == First(rules, {r \in ToSet(rules) : Meets(verdicts, r.when)})
    IN  [bucket |-> IF rule = None THEN "unknown" ELSE rule.bucket, rule |-> rule, score |-> score]

-----------------------------------------------------------------------------
(* The parameters of a policy version, as policies/parameters.py reads them *)

\* What a rule may ask of: the passes that answer before the priority is
\* assigned.
PriorityDomains == {"currency", "feedstock", "vulnerability", "licence", "remediation", "python"}

\* _priority_rules: rules in an order, each of which names one of the buckets
\* and asks for at least one verdict.
PriorityRulesRead(rules) ==
    /\ rules \in Seq(ToSet(rules))
    /\ \A rule \in ToSet(rules) :
           /\ rule.bucket \in Buckets
           /\ DOMAIN rule.when # {} /\ DOMAIN rule.when \subseteq PriorityDomains

\* _license_rules: an expression the product can normalise to is ruled on, once.
LicenseRulesRead(rules) == DOMAIN rules \subseteq Expressions /\ \A e \in DOMAIN rules : rules[e] \in RuledLicenses

\* _risk_order: labels that say something, worst first.
RiskOrderRead(order) == order \in Seq(ToSet(order)) /\ "" \notin ToSet(order)

\* _score_weights: none, or a whole number for each signal.
WeightsRead(weights) == weights # None => weights \in [lob : Nat, component : Nat]

\* _interval and parameters_from: a version that reads otherwise is refused as a
\* whole, and no run is executed under it.
Readable(p) ==
    /\ p.threshold \in Nat \ {0}
    /\ RiskOrderRead(p.severities)
    /\ LicenseRulesRead(p.licences)
    /\ PriorityRulesRead(p.buckets)
    /\ WeightsRead(p.weights)

\* None is nothing else, and no expression reads as the lack of one.
ASSUME NoneAssumption ==
    /\ None \notin Int \cup SurfaceSet \cup Expressions \cup Advisories
    /\ None \notin ToSet(WorkTypePrecedence)
    /\ Expressions \cap {"", "failed", "missing", "none"} = {}
=============================================================================
