------------------------------ MODULE Outcomes ------------------------------
(***************************************************************************)
(* The verdict vocabularies of core/outcomes.py and policies/outcomes.py   *)
(* and their reductions: how the verdicts of several surfaces, findings or *)
(* cross-references become the one verdict of a package.  A reduction is a *)
(* precedence, worst first, and the verdict of nothing at all; two of them *)
(* drop not_applicable before they reduce.                                 *)
(***************************************************************************)
EXTENDS Naturals, Sequences, FiniteSetsExt

\* The four outcomes that are never good news, whatever the domain.
Sentinels == {"error", "unknown", "not_found", "not_applicable"}

\* What the reduction of no verdicts at all reads.
EmptyAggregate == "unknown"

CurrencyPrecedence      == <<"error", "behind", "unknown", "not_found", "current">>
VulnerabilityPrecedence == <<"advisories_matched", "unknown", "no_advisory_matched">>
KevPrecedence           == <<"listed", "not_established", "not_listed">>
LicensePrecedence       == <<"forbidden", "restricted", "unknown", "manual_review", "allowed">>
ReadinessPrecedence     == <<"blocked", "unknown", "awaiting_packaging", "awaiting_build", "ready">>

\* The verdict a precedence ranks first among those given.
Worst(precedence, verdicts, empty) ==
    IF verdicts = {} THEN empty
    ELSE precedence[Min({i \in DOMAIN precedence : precedence[i] \in verdicts})]

\* Mutant of WorstCurrency: a surface nothing was found on has no vote either.
WorstCurrencyOfFound(verdicts) ==
    Worst(CurrencyPrecedence, verdicts \ {"not_applicable", "not_found"},
          IF verdicts = {} THEN EmptyAggregate ELSE "not_applicable")

\* worst_currency: a surface the package was never meant to be on has no vote,
\* and only a package on no surface at all reads not_applicable.
WorstCurrency(verdicts) ==
    Worst(CurrencyPrecedence, verdicts \ {"not_applicable"},
          IF verdicts = {} THEN EmptyAggregate ELSE "not_applicable")

WorstVulnerability(verdicts) == Worst(VulnerabilityPrecedence, verdicts, EmptyAggregate)

\* worst_kev_membership: a catalog nothing was asked of established nothing.
WorstKevMembership(verdicts) == Worst(KevPrecedence, verdicts, "not_established")

WorstLicense(verdicts) == Worst(LicensePrecedence, verdicts, EmptyAggregate)

WorstReadiness(verdicts) == Worst(ReadinessPrecedence, verdicts, EmptyAggregate)

FeedstockVerdicts   == {"absent", "present_and_maintained", "present_and_inactive",
                        "staged_recipe_pending"}
RuledLicenses       == {"allowed", "restricted", "forbidden"}
DecidedReadiness    == {"blocked", "awaiting_packaging", "awaiting_build", "ready"}
VerifiedReadiness   == {"verified_ready", "verified_not_ready"}
InferredReadiness   == {"inferred_ready", "inferred_not_ready"}
Buckets             == {"p1", "p2", "p3", "p4", "p5", "p6", "p7", "p8", "p9", "p10"}
WorkTypes           == {"fix_vulnerability", "review_license", "create_recipe",
                        "update_feedstock", "validate_python_314", "file_tracking_issue"}
=============================================================================
