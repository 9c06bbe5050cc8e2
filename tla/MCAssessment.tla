---------------------------- MODULE MCAssessment ----------------------------
(***************************************************************************)
(* Small instances of Assessment: the shipped priority rules, a licence    *)
(* policy of two rules, and two sets of replies.  The broad one is every   *)
(* reply a collector can meet; the deep one keeps, of most tables, one     *)
(* reply that decides something, and lets more tables be observed, by two  *)
(* interchangeable runs, over an identity that is corrected.               *)
(***************************************************************************)
EXTENDS Assessment

MCExpressions == {"MIT", "GPL", "MIT AND GPL", "MIT AND BSD"}

MCOperands == [e \in MCExpressions |-> CASE e = "MIT AND GPL" -> {"MIT", "GPL"}
                                         [] e = "MIT AND BSD" -> {"MIT", "BSD"}
                                         [] OTHER -> {}]

Bucket(name, when) == [bucket |-> name, when |-> when]

\* The rules of version 2026.09.4.
ShippedBuckets == <<
    Bucket("p1", [vulnerability |-> "advisories_matched", remediation |-> "ready"]),
    Bucket("p2", [vulnerability |-> "advisories_matched", remediation |-> "awaiting_build"]),
    Bucket("p3", [vulnerability |-> "advisories_matched"]),
    Bucket("p4", [licence |-> "forbidden"]),
    Bucket("p5", [currency |-> "behind", feedstock |-> "present_and_inactive"]),
    Bucket("p6", [currency |-> "behind", feedstock |-> "absent"]),
    Bucket("p7", [licence |-> "restricted"]),
    Bucket("p8", [python |-> "verified_not_ready"]),
    Bucket("p9", [python |-> "inferred_not_ready"]),
    Bucket("p10", [currency |-> "behind"])>>

MCParameters ==
    [full |-> [threshold |-> 1, severities |-> <<"high", "low">>,
               licences |-> [MIT |-> "allowed", GPL |-> "forbidden"],
               buckets |-> ShippedBuckets, weights |-> [lob |-> 5, component |-> 1]]]

MCFreshFor == [table \in {"source", "pypi", "feedstock", "conda", "advisories", "kev", "assessment",
                          "verification"} |-> IF table = "verification" THEN 2 ELSE 1]

\* The package row of the broad instance never changes.
OneIdentity == {[confidence |-> "verified", order |-> Surfaces]}

\* That of the deep one is corrected, and records an order of its own.
Corrected == {[confidence |-> "unmapped", order |-> Surfaces],
              [confidence |-> "verified", order |-> <<"conda", "source">>]}

ObservedInventories ==
    [state : {"ok"}, lob : {0, 100, 300}, component : {0, 50}]
    \cup [state : {"not_found"}, lob : {None}, component : {None}]

\* One advisory, or two whose fixes differ.
AdvisoryReplies ==
    LET first  == [advisory : {"a1"}, severity : {"odd"}, fixed : {"", "<2", "v1", "2", "v"}]
        second == MatchedAdvisory("a2", "low", "1")
    IN  [said : {"matched"}, matched : {<<f>> : f \in first} \cup {<<f, second>> : f \in first}]

ASSUME ShippedRulesAnswered == \A version \in Versions : AnsweredByWork(Parameters[version].buckets)

RunSymmetry == Permutations(Runs)

\* Nothing is observed at the instant in the middle: what is one or two instants
\* old at a cut-off, and what is as old as another, the other two give.
BroadAnswers(table, now) ==
    CASE now = 2                -> {}
      [] table = "source"       -> SourceReplies
      [] table = "pypi"         -> PyPIReplies
      [] table = "feedstock"    -> FeedstockReplies(now)
      [] table = "conda"        -> CondaReplies
      [] table = "advisories"   -> PlainVulnerabilityReplies \cup AdvisoryReplies
      [] table = "kev"          -> KevReplies
      [] table = "licence"      -> LicenseReplies
      [] table = "assessment"   -> MetadataReplies
      [] table = "verification" -> VerificationReplies
      [] table = "inventory"    -> ObservedInventories

DeepAnswers(table, now) ==
    CASE table = "source"     -> {[releases |-> "v1", tags |-> "unasked"], [releases |-> "missing", tags |-> "unasked"]}
      [] table = "pypi"       -> {"inapplicable"}
      [] table = "feedstock"  ->
             {[repository |-> "mapped", queue |-> "unasked", pushed |-> 0, recipe |-> "1"]}
      [] table = "conda"      -> {<<"missing", "1">>}
      [] table = "advisories" -> {[said |-> "matched", matched |-> <<MatchedAdvisory("a1", "high", "1")>>],
                                  [said |-> "matched", matched |-> <<MatchedAdvisory("a2", "high", "1")>>]}
      [] table = "kev"        -> {[read |-> "catalog", listed |-> {"a1"}, schemes |-> {"a1", "a2"}]}
      [] OTHER                -> {}
=============================================================================
