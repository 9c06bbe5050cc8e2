------------------------------- MODULE Sources -------------------------------
(***************************************************************************)
(* What each collector writes for what its sources reply: the translate,   *)
(* sentinel_evidence and sentinel_evidence_rows of collectors/*.py.  A     *)
(* reply says what the outside world said to the requests of one           *)
(* collection; an operator turns it into the rows of one sweep, all at the *)
(* same instant.                                                           *)
(*                                                                         *)
(* "failed" stands for every way of not reading an answer - the transport  *)
(* raised, the status was not usable, the document could not be parsed or  *)
(* was refused - and "missing" for a source that answered 404.             *)
(***************************************************************************)
EXTENDS Outcomes, SequencesExt

CONSTANTS
    Advisories,     \* advisory identifiers, each of a naming scheme of its own
    Labels,         \* severities and ranges of fixed versions an advisory may state
    Expressions,    \* normalised licence expressions
    None            \* no instant, no advisory, no count, no row

\* What a source may state as a version: a plain one, a tagged one, a tag that
\* names nothing once the v is gone, and nothing.
Statements == {"1", "v1", "2", "v", ""}

\* comparable_version: a leading v before a digit is a tag's, and a bare v
\* states nothing.
Comparable == [s \in Statements |-> CASE s = "v1" -> "1" [] s = "v" -> "" [] OTHER -> s]

\* The channels a deployment monitors, in the order they are asked.
Channels == <<"main", "other">>

\* The state a row records when no answer was read.
Sentinel == [failed |-> "error", missing |-> "not_found", inapplicable |-> "not_applicable"]

-----------------------------------------------------------------------------
(* Version surfaces *)

VersionRow(at, state, version) == [at |-> at, state |-> state, version |-> version]

\* source_release.py: the releases a repository publishes; where it publishes
\* none at all, and only there, its tags are asked too.
SourceReplies ==
    [releases : {"failed", "missing", "unselectable", "v1", "2", "v"}, tags : {"unasked"}]
    \cup [releases : {"none"}, tags : {"failed", "missing", "none", "unreadable", "v1"}]

\* release_facts, _tagged_instead and sentinel_evidence: tags that cannot be
\* fetched leave the releases' not_found standing, tags that cannot be read
\* fail the collection.
SourceRows(reply, at) ==
    LET stated == IF reply.releases = "none" THEN reply.tags ELSE reply.releases
    IN  <<IF reply.releases = "failed" \/ reply.tags = "unreadable"
          THEN VersionRow(at, "error", "")
          ELSE IF stated \in Statements
          THEN VersionRow(at, "ok", stated)
          ELSE VersionRow(at, "not_found", "")>>

\* pypi_release.py; inapplicable is identity having established that the
\* package has no release there.
PyPIReplies == {"failed", "missing", "inapplicable", "none", "1", "2"}

PyPIRows(reply, at) ==
    <<CASE reply = "failed"             -> VersionRow(at, "error", "")
        [] reply = "inapplicable"       -> VersionRow(at, "not_applicable", "")
        [] reply \in {"missing", "none"} -> VersionRow(at, "not_found", "")
        [] OTHER                        -> VersionRow(at, "ok", reply)>>

\* A channel asked after the first, or the first: what its own reply states.
ChannelState(reply) ==
    CASE reply = "failed"              -> "error"
      [] reply \in {"missing", "none"} -> "not_found"
      [] OTHER                         -> "ok"

\* sentinel_evidence_rows: where the first channel could not be read the others
\* are not asked, and are recorded as unread.
LaterReply(reply) == IF reply[1] = "failed" THEN "failed" ELSE reply[2]

\* conda_package.py: one row per channel; a channel's platforms carry the same
\* latest version or none, and one stands for them.
CondaReplies == {"failed", "missing", "none", "1", "2"} \X {"failed", "missing", "none", "1", "2"}

CondaRow(channel, stated, at) ==
    [at |-> at, channel |-> channel, state |-> ChannelState(stated),
     version |-> IF ChannelState(stated) = "ok" THEN stated ELSE ""]

CondaRows(reply, at) ==
    <<CondaRow(Channels[1], reply[1], at), CondaRow(Channels[2], LaterReply(reply), at)>>

-----------------------------------------------------------------------------
(* The feedstock *)

\* feedstock.py.  A package with a mapped feedstock has its repository and the
\* recipe in it read; one with none has the staged queue searched and the
\* repository of the conventional name asked for.  A repository is pushed at
\* some instant, by a clock that may be ahead, or states none that can be read.
FeedstockReplies(now) ==
    LET pushes == 0..(now + 1) \cup {None}
    IN  [repository : {"failed", "missing", "inapplicable"}, queue : {"unasked"},
         pushed : {None}, recipe : {""}]
        \cup [repository : {"mapped"}, queue : {"unasked"}, pushed : pushes, recipe : {"", "1", "2"}]
        \cup [repository : {"conventional"}, queue : {"none", "one"}, pushed : pushes, recipe : {""}]
        \cup [repository : {"conventional_missing", "conventional_failed"},
              queue : {"none", "one", "several", "truncated"}, pushed : {None}, recipe : {""}]

\* Mutant of QueueAnswered: a cut-off list of matches counts as read.
QueueListed(queue) == queue \in {"one", "none", "truncated"}

\* _queue_answered: exactly one pull request names the package, or the whole
\* queue was read and none does.
QueueAnswered(queue) == queue \in {"one", "none"}

\* Mutant of Staged: the proposal is recorded beside a repository that exists.
StagedAnyway(reply) == reply.queue = "one"

\* _absent: a recipe is proposed for a package whose repository was looked for
\* and not found.
Staged(reply) == reply.repository \in {"conventional_missing", "conventional_failed"} /\ reply.queue = "one"

\* _observed, _absent and sentinel_evidence: what is absent is established only
\* when both the conventional repository and the queue answered.
FeedstockRows(reply, at) ==
    LET found   == reply.repository \in {"mapped", "conventional"}
        looked  == reply.repository \in {"conventional_missing", "conventional_failed"}
    IN  <<[at          |-> at,
           state       |-> IF found THEN "ok"
                           ELSE IF looked THEN "not_found"
                           ELSE Sentinel[reply.repository],
           version     |-> reply.recipe,
           pushed      |-> reply.pushed,
           staged      |-> Staged(reply),
           established |-> reply.repository = "conventional_missing" /\ QueueAnswered(reply.queue)]>>

-----------------------------------------------------------------------------
(* Advisories, the catalog of exploited ones, licences *)

\* One advisory the source says matches: how severe, and the range that fixes
\* it - a version, an ordering the product does not compare, or nothing.
MatchedAdvisory(advisory, severity, fixed) ==
    [advisory |-> advisory, severity |-> severity, fixed |-> fixed]

\* vulnerability.py: a package without a purl or version cannot be asked about
\* ("unplaced"); the source may not know the package ("unidentified"); it may
\* know it and match nothing; or it may match advisories.
PlainVulnerabilityReplies ==
    [said : {"failed", "missing", "unplaced", "unidentified", "nothing"}, matched : {<<>>}]

VulnerabilityReplies ==
    PlainVulnerabilityReplies
    \cup [said : {"matched"},
          matched : Seq([advisory : Advisories, severity : Labels, fixed : Labels \cup Statements]) \ {<<>>}]

AdvisoryRow(at, state, nothing, matched) ==
    [at |-> at, state |-> state, nothing |-> nothing, advisory |-> matched.advisory,
     severity |-> matched.severity, fixed |-> matched.fixed]

NoAdvisory == MatchedAdvisory(None, "", "")

\* translate, findings_in and sentinel_evidence; "nothing" marks the detail by
\* which a pass knows the reading that matched nothing.
VulnerabilityRows(reply, at) ==
    CASE reply.said = "failed"  -> <<AdvisoryRow(at, "error", FALSE, NoAdvisory)>>
      [] reply.said = "missing" -> <<AdvisoryRow(at, "not_found", FALSE, NoAdvisory)>>
      [] reply.said = "matched" ->
             [i \in DOMAIN reply.matched |-> AdvisoryRow(at, "matched", FALSE, reply.matched[i])]
      [] OTHER                  -> <<AdvisoryRow(at, "unknown", reply.said = "nothing", NoAdvisory)>>

\* kev.py: the catalog lists some advisories and uses the schemes of some.
KevReplies ==
    [read : {"failed", "missing"}, listed : {{}}, schemes : {{}}]
    \cup {reply \in [read : {"catalog"}, listed : SUBSET Advisories, schemes : SUBSET Advisories] :
              reply.listed \subseteq reply.schemes}

KevRow(at, state, about) == [at |-> at, state |-> state, about |-> about]

\* _answer_for: a catalog that uses no identifier of the advisory's scheme says
\* nothing about the advisory.
KevAnswer(reply, advisory) ==
    IF advisory \in reply.listed THEN "listed"
    ELSE IF advisory \in reply.schemes THEN "not_listed"
    ELSE "unknown"

\* translate and sentinel_evidence, over the findings current when it ran: one
\* row for each, or one about none of them.
KevRows(reply, at, findings) ==
    LET about == SetToSeq(findings)
    IN  IF reply.read = "failed" THEN <<KevRow(at, "error", None)>>
        ELSE IF reply.read = "missing" THEN <<KevRow(at, "not_found", None)>>
        ELSE IF findings = {} THEN <<KevRow(at, "unknown", None)>>
        ELSE [i \in DOMAIN about |-> KevRow(at, KevAnswer(reply, about[i].advisory), about[i])]

\* license.py: each channel states an expression the product normalises, or
\* something it cannot, or nothing.
LicenseReplies ==
    LET stated == {"failed", "missing", "none"} \cup Expressions IN stated \X stated

LicenseRow(channel, stated, at) ==
    [at |-> at, channel |-> channel,
     state |-> CASE stated = "failed" -> "error" [] stated = "missing" -> "not_found"
                 [] stated = "none" -> "unknown" [] OTHER -> "normalized",
     expression |-> IF stated \in Expressions THEN stated ELSE ""]

LicenseRows(reply, at) ==
    <<LicenseRow(Channels[1], reply[1], at), LicenseRow(Channels[2], LaterReply(reply), at)>>

-----------------------------------------------------------------------------
(* Python readiness *)

\* python_readiness.py: what Requires-Python says of the series, whether the
\* series' classifier is declared, and whether any version classifier is.
MetadataReplies ==
    [specifier : {"failed", "missing", "inapplicable"}, classified : {FALSE}, enumerated : {FALSE}]
    \cup {reply \in [specifier : {"none", "unreadable", "admits", "excludes"},
                      classified : BOOLEAN, enumerated : BOOLEAN] :
              reply.classified => reply.enumerated}

\* assess: two signals that disagree decide nothing.
Inferred(reply) ==
    CASE reply.specifier = "none" ->
             IF reply.classified THEN "inferred_compatible" ELSE "unknown"
      [] reply.specifier = "admits" ->
             IF reply.enumerated /\ ~reply.classified THEN "unknown" ELSE "inferred_compatible"
      [] reply.specifier = "excludes" ->
             IF reply.classified THEN "unknown" ELSE "inferred_incompatible"
      [] OTHER -> "unknown"

AssessmentRows(reply, at) ==
    <<[at |-> at, state |-> IF reply.specifier \in DOMAIN Sentinel
                            THEN Sentinel[reply.specifier] ELSE Inferred(reply)]>>

\* py314_verification.py: a build under the series came out, or did not.
VerificationReplies == {"failed", "missing", "inapplicable", "built", "not_built"}

VerificationRows(reply, at) ==
    <<[at |-> at, state |-> CASE reply = "built" -> "verified_compatible"
                              [] reply = "not_built" -> "verification_failed"
                              [] OTHER -> Sentinel[reply]]>>

-----------------------------------------------------------------------------
(* The inventory *)

\* _observe and _observe_absences of collectors/tasks.py: a package the document
\* lists is counted, one it no longer lists is not.
InventoryReplies == [state : {"ok"}, lob : Nat, component : Nat]
                    \cup [state : {"not_found"}, lob : {None}, component : {None}]

InventoryRows(reply, at) ==
    <<[at |-> at, state |-> reply.state, lob |-> reply.lob, component |-> reply.component]>>

-----------------------------------------------------------------------------
(* The rows the evidence tables accept: their columns and check constraints,  *)
(* collectors/models.py                                                      *)

\* A version is stated exactly by the rows that found one.
SurfaceAccepts ==
    {row \in [at : Nat, state : {"ok"} \cup Sentinels, version : Statements] :
        (row.state = "ok") = (row.version # "")}

CondaAccepts ==
    {row \in [at : Nat, channel : ToSet(Channels), state : {"ok"} \cup Sentinels, version : Statements] :
        (row.state = "ok") = (row.version # "")}

\* What is not there has no recipe and was never pushed to; only what was not
\* found can be proposed or established to be absent.
FeedstockAccepts ==
    {row \in [at : Nat, state : {"ok"} \cup Sentinels, version : Statements, pushed : Nat \cup {None},
              staged : BOOLEAN, established : BOOLEAN] :
        /\ row.state # "ok" => row.version = "" /\ row.pushed = None
        /\ row.staged \/ row.established => row.state = "not_found"}

\* Only a match says anything of an advisory.
AdvisoryAccepts ==
    {row \in [at : Nat, state : {"matched", "error", "not_found", "unknown"}, nothing : BOOLEAN,
              advisory : Advisories \cup {None}, severity : Labels \cup {""}, fixed : Labels \cup Statements] :
        /\ row.state = "matched" => row.advisory # None /\ ~row.nothing
        /\ row.state # "matched" => row.advisory = None /\ row.severity = "" /\ row.fixed = ""}

\* An answer is about a match; a catalog that was not read answers nothing.
KevAccepts ==
    {row \in [at : Nat, state : {"listed", "not_listed", "error", "not_found", "unknown"},
              about : AdvisoryAccepts \cup {None}] :
        /\ row.state \in {"listed", "not_listed"} => row.about # None
        /\ row.state \in {"error", "not_found"} => row.about = None}

\* An expression is stated exactly by the rows that normalised one.
LicenseAccepts ==
    {row \in [at : Nat, channel : ToSet(Channels), state : {"normalized", "error", "not_found", "unknown"},
              expression : Expressions \cup {""}] :
        (row.state = "normalized") = (row.expression # "")}

AssessmentAccepts ==
    [at : Nat, state : {"inferred_compatible", "inferred_incompatible"} \cup Sentinels]

VerificationAccepts ==
    [at : Nat, state : {"verified_compatible", "verification_failed"} \cup Sentinels]

\* A package is counted exactly when it is listed.
InventoryAccepts ==
    {row \in [at : Nat, state : {"ok"} \cup Sentinels, lob : Nat \cup {None}, component : Nat \cup {None}] :
        IF row.state = "ok" THEN row.lob # None /\ row.component # None
        ELSE row.lob = None /\ row.component = None}
=============================================================================
