------------------------- MODULE Assessment_proofs -------------------------
(***************************************************************************)
(* Proofs about Assessment.                                                *)
(***************************************************************************)
EXTENDS Assessment, FiniteSetTheorems, WellFoundedInduction, NaturalsInduction, TLAPS

\* A sequence of rows, at least one, all of an instant and of a kind.
RowsOf(kind, rows, at) ==
    \E n \in Nat \ {0} : /\ DOMAIN rows = 1..n
                         /\ \A i \in 1..n : rows[i] \in kind /\ rows[i].at = at

LEMMA SourceWritten ==
    ASSUME NEW at \in Nat, NEW reply \in SourceReplies
    PROVE  RowsOf(SurfaceAccepts, SourceRows(reply, at), at)
<1>1. /\ reply.releases \in {"failed", "missing", "unselectable", "v1", "2", "v", "none"}
      /\ reply.tags \in {"unasked", "failed", "missing", "none", "unreadable", "v1"}
  BY DEF SourceReplies
<1>2. SourceRows(reply, at)[1] \in SurfaceAccepts /\ SourceRows(reply, at)[1].at = at
  BY <1>1 DEF SourceRows, VersionRow, SurfaceAccepts, Statements, Sentinels
<1>3. DOMAIN SourceRows(reply, at) = 1..1
  BY DEF SourceRows
<1> QED
  BY <1>2, <1>3 DEF RowsOf

LEMMA PyPIWritten ==
    ASSUME NEW at \in Nat, NEW reply \in PyPIReplies
    PROVE  RowsOf(SurfaceAccepts, PyPIRows(reply, at), at)
<1>2. PyPIRows(reply, at)[1] \in SurfaceAccepts /\ PyPIRows(reply, at)[1].at = at
  BY DEF PyPIRows, PyPIReplies, VersionRow, SurfaceAccepts, Statements, Sentinels
<1>3. DOMAIN PyPIRows(reply, at) = 1..1
  BY DEF PyPIRows
<1> QED
  BY <1>2, <1>3 DEF RowsOf

LEMMA CondaWritten ==
    ASSUME NEW at \in Nat, NEW reply \in CondaReplies
    PROVE  RowsOf(CondaAccepts, CondaRows(reply, at), at)
<1>1. /\ reply[1] \in {"failed", "missing", "none", "1", "2"}
      /\ LaterReply(reply) \in {"failed", "missing", "none", "1", "2"}
  BY DEF CondaReplies, LaterReply
<1>2. "main" \in ToSet(Channels) /\ "other" \in ToSet(Channels) /\ Channels[1] = "main" /\ Channels[2] = "other"
  BY DEF Channels, ToSet
<1>3. ASSUME NEW channel \in ToSet(Channels), NEW stated \in {"failed", "missing", "none", "1", "2"}
      PROVE  CondaRow(channel, stated, at) \in CondaAccepts /\ CondaRow(channel, stated, at).at = at
  BY <1>3 DEF CondaRow, CondaAccepts, ChannelState, Statements, Sentinels
<1>4. \A i \in 1..2 : CondaRows(reply, at)[i] \in CondaAccepts /\ CondaRows(reply, at)[i].at = at
  BY <1>1, <1>2, <1>3 DEF CondaRows
<1>5. DOMAIN CondaRows(reply, at) = 1..2
  BY DEF CondaRows
<1> QED
  BY <1>4, <1>5 DEF RowsOf

LEMMA FeedstockRowAccepted ==
    ASSUME NEW at \in Nat, NEW state \in {"ok"} \cup Sentinels, NEW version \in Statements,
           NEW pushed \in Nat \cup {None}, NEW staged \in BOOLEAN, NEW established \in BOOLEAN,
           state # "ok" => version = "" /\ pushed = None,
           staged \/ established => state = "not_found"
    PROVE  [at |-> at, state |-> state, version |-> version, pushed |-> pushed,
            staged |-> staged, established |-> established] \in FeedstockAccepts
BY DEF FeedstockAccepts

LEMMA FeedstockWritten ==
    ASSUME NEW at \in Nat, NEW reply \in FeedstockReplies(at)
    PROVE  RowsOf(FeedstockAccepts, FeedstockRows(reply, at), at)
<1>1. /\ reply.repository \in {"failed", "missing", "inapplicable", "mapped", "conventional",
                               "conventional_missing", "conventional_failed"}
      /\ reply.pushed \in Nat \cup {None} /\ reply.recipe \in {"", "1", "2"}
      /\ reply.repository \notin {"mapped", "conventional"} => reply.pushed = None /\ reply.recipe = ""
  <2> DEFINE pushes == 0..(at + 1) \cup {None}
  <2>0. \A x \in pushes : x \in Nat \cup {None}
    OBVIOUS
  <2>1. CASE reply \in [repository : {"failed", "missing", "inapplicable"}, queue : {"unasked"},
                        pushed : {None}, recipe : {""}]
    BY <2>1
  <2>2. CASE reply \in [repository : {"mapped"}, queue : {"unasked"}, pushed : pushes, recipe : {"", "1", "2"}]
    <3>1. reply.repository = "mapped" /\ reply.recipe \in {"", "1", "2"} /\ reply.pushed \in pushes
      BY <2>2
    <3> HIDE DEF pushes
    <3> QED
      BY <2>0, <3>1
  <2>3. CASE reply \in [repository : {"conventional"}, queue : {"none", "one"}, pushed : pushes, recipe : {""}]
    <3>1. reply.repository = "conventional" /\ reply.recipe = "" /\ reply.pushed \in pushes
      BY <2>3
    <3> HIDE DEF pushes
    <3> QED
      BY <2>0, <3>1
  <2>4. CASE reply \in [repository : {"conventional_missing", "conventional_failed"},
                        queue : {"none", "one", "several", "truncated"}, pushed : {None}, recipe : {""}]
    BY <2>4
  <2> QED
    BY <2>1, <2>2, <2>3, <2>4 DEF FeedstockReplies
<1>2. FeedstockRows(reply, at)[1] \in FeedstockAccepts /\ FeedstockRows(reply, at)[1].at = at
  <2> DEFINE state == IF reply.repository \in {"mapped", "conventional"} THEN "ok"
                      ELSE IF reply.repository \in {"conventional_missing", "conventional_failed"}
                      THEN "not_found" ELSE Sentinel[reply.repository]
             established == reply.repository = "conventional_missing" /\ QueueAnswered(reply.queue)
  <2>1. FeedstockRows(reply, at)[1] =
            [at |-> at, state |-> state, version |-> reply.recipe, pushed |-> reply.pushed,
             staged |-> Staged(reply), established |-> established]
    BY DEF FeedstockRows
  <2>2. state \in {"ok"} \cup Sentinels
    <3>1. \A missed \in {"failed", "missing", "inapplicable"} : Sentinel[missed] \in Sentinels
      BY DEF Sentinels, Sentinel
    <3>2. "not_found" \in Sentinels
      BY DEF Sentinels
    <3> QED
      BY <1>1, <3>1, <3>2
  <2>3. state # "ok" => reply.recipe = "" /\ reply.pushed = None
    BY <1>1
  <2>4. Staged(reply) \/ established => state = "not_found"
    BY DEF Staged
  <2>5. reply.recipe \in Statements /\ reply.pushed \in Nat \cup {None}
    BY <1>1 DEF Statements
  <2>6. Staged(reply) \in BOOLEAN /\ established \in BOOLEAN
    BY DEF Staged
  <2> HIDE DEF state, established
  <2>7. [at |-> at, state |-> state, version |-> reply.recipe, pushed |-> reply.pushed,
         staged |-> Staged(reply), established |-> established] \in FeedstockAccepts
    BY <2>2, <2>3, <2>4, <2>5, <2>6, FeedstockRowAccepted
  <2> QED
    BY <2>1, <2>7
<1>3. DOMAIN FeedstockRows(reply, at) = 1..1
  BY DEF FeedstockRows
<1> QED
  BY <1>2, <1>3 DEF RowsOf

LEMMA SentinelAdvisoryAccepted ==
    ASSUME NEW at \in Nat, NEW state \in {"error", "not_found", "unknown"}, NEW nothing \in BOOLEAN
    PROVE  [at |-> at, state |-> state, nothing |-> nothing, advisory |-> None,
            severity |-> "", fixed |-> ""] \in AdvisoryAccepts
<1>1. "" \in Statements
  BY DEF Statements
<1> QED
  BY <1>1 DEF AdvisoryAccepts

LEMMA AdvisoriesWritten ==
    ASSUME NEW at \in Nat, NEW reply \in VulnerabilityReplies
    PROVE  RowsOf(AdvisoryAccepts, VulnerabilityRows(reply, at), at)
<1>1. CASE reply.said = "matched"
  <2>1. /\ reply.matched \in Seq([advisory : Advisories, severity : Labels, fixed : Labels \cup Statements])
        /\ reply.matched # <<>>
    BY <1>1 DEF VulnerabilityReplies, PlainVulnerabilityReplies
  <2> DEFINE n == Len(reply.matched)
  <2>2. n \in Nat \ {0} /\ DOMAIN reply.matched = 1..n
    BY <2>1
  <2>3. ASSUME NEW i \in 1..n
        PROVE  /\ AdvisoryRow(at, "matched", FALSE, reply.matched[i]) \in AdvisoryAccepts
               /\ AdvisoryRow(at, "matched", FALSE, reply.matched[i]).at = at
    <3>1. reply.matched[i] \in [advisory : Advisories, severity : Labels, fixed : Labels \cup Statements]
      <4> DEFINE matches == [advisory : Advisories, severity : Labels, fixed : Labels \cup Statements]
                 matched == reply.matched
      <4>1. matched \in Seq(matches) /\ i \in 1..Len(matched)
        BY <2>1, <2>2
      <4> HIDE DEF matches, matched
      <4>2. matched[i] \in matches
        BY <4>1
      <4> QED
        BY <4>2 DEF matches, matched
    <3>2. /\ reply.matched[i].advisory \in Advisories /\ reply.matched[i].advisory # None
          /\ reply.matched[i].severity \in Labels /\ reply.matched[i].fixed \in Labels \cup Statements
      BY <3>1, NoneAssumption
    <3> QED
      BY <3>2 DEF AdvisoryRow, AdvisoryAccepts
  <2>4. VulnerabilityRows(reply, at) = [i \in 1..n |-> AdvisoryRow(at, "matched", FALSE, reply.matched[i])]
    BY <1>1, <2>2 DEF VulnerabilityRows
  <2> QED
    BY <2>2, <2>3, <2>4 DEF RowsOf
<1>2. CASE reply.said # "matched"
  <2>1. reply.said \in {"failed", "missing", "unplaced", "unidentified", "nothing"}
    BY <1>2 DEF VulnerabilityReplies, PlainVulnerabilityReplies
  <2>2. ASSUME NEW state \in {"error", "not_found", "unknown"}, NEW nothing \in BOOLEAN
        PROVE  /\ AdvisoryRow(at, state, nothing, NoAdvisory) \in AdvisoryAccepts
               /\ AdvisoryRow(at, state, nothing, NoAdvisory).at = at
    BY SentinelAdvisoryAccepted DEF AdvisoryRow, NoAdvisory, MatchedAdvisory
  <2>3. /\ VulnerabilityRows(reply, at)[1] \in AdvisoryAccepts
        /\ VulnerabilityRows(reply, at)[1].at = at
    BY <2>1, <2>2 DEF VulnerabilityRows
  <2>4. DOMAIN VulnerabilityRows(reply, at) = 1..1
    BY <2>1 DEF VulnerabilityRows
  <2> QED
    BY <2>3, <2>4 DEF RowsOf
<1> QED
  BY <1>1, <1>2

\* The findings the catalog was asked of at an instant: matches of then or before.
Askable(findings, at) ==
    /\ IsFiniteSet(findings)
    /\ \A f \in findings : f \in AdvisoryAccepts /\ IsMatched(f) /\ f.at <= at

\* Every finding is asked of, and nothing else.
LEMMA Enumerated ==
    ASSUME NEW S, IsFiniteSet(S)
    PROVE  /\ SetToSeq(S) \in [1..Cardinality(S) -> S]
           /\ Cardinality(S) \in Nat
           /\ Cardinality(S) = 0 <=> S = {}
<1>1. PICK n \in Nat : \E f : f \in Bijection(1..n, S)
  BY FS_NatBijection DEF ExistsBijection
<1>2. Cardinality(S) = n
  BY <1>1, FS_CountingElements DEF ExistsBijection
<1>3. \E f \in [1..Cardinality(S) -> S] : IsInjective(f)
  BY <1>1, <1>2 DEF Bijection, Injection
<1> QED
  BY <1>2, <1>3, FS_EmptySet DEF SetToSeq

LEMMA KevWritten ==
    ASSUME NEW at \in Nat, NEW reply \in KevReplies, NEW findings, Askable(findings, at)
    PROVE  RowsOf(KevAccepts, KevRows(reply, at, findings), at)
<1>1. CASE reply.read = "catalog" /\ findings # {}
  <2> DEFINE n == Cardinality(findings)
             about == SetToSeq(findings)
  <2>1. n \in Nat \ {0} /\ about \in [1..n -> findings]
    BY <1>1, Enumerated DEF Askable
  <2>2. ASSUME NEW i \in 1..n
        PROVE  /\ KevRow(at, KevAnswer(reply, about[i].advisory), about[i]) \in KevAccepts
               /\ KevRow(at, KevAnswer(reply, about[i].advisory), about[i]).at = at
    <3>1. about[i] \in AdvisoryAccepts /\ about[i] # None
      BY <2>1, NothingAssumption DEF Askable, Tables, Accepts
    <3> HIDE DEF about
    <3> QED
      BY <3>1 DEF KevRow, KevAnswer, KevAccepts
  <2>3. KevRows(reply, at, findings) =
            [i \in 1..n |-> KevRow(at, KevAnswer(reply, about[i].advisory), about[i])]
    BY <1>1, <2>1 DEF KevRows
  <2> QED
    BY <2>1, <2>2, <2>3 DEF RowsOf
<1>2. CASE reply.read # "catalog" \/ findings = {}
  <2>1. reply.read \in {"failed", "missing", "catalog"}
    BY DEF KevReplies
  <2>2. /\ KevRows(reply, at, findings)[1] \in KevAccepts
        /\ KevRows(reply, at, findings)[1].at = at
    BY <1>2, <2>1 DEF KevRows, KevRow, KevAccepts
  <2>3. DOMAIN KevRows(reply, at, findings) = 1..1
    BY <1>2, <2>1 DEF KevRows
  <2> QED
    BY <2>2, <2>3 DEF RowsOf
<1> QED
  BY <1>1, <1>2

LEMMA LicencesWritten ==
    ASSUME NEW at \in Nat, NEW reply \in LicenseReplies
    PROVE  RowsOf(LicenseAccepts, LicenseRows(reply, at), at)
<1>1. /\ reply[1] \in {"failed", "missing", "none"} \cup Expressions
      /\ LaterReply(reply) \in {"failed", "missing", "none"} \cup Expressions
  BY DEF LicenseReplies, LaterReply
<1>2. "main" \in ToSet(Channels) /\ "other" \in ToSet(Channels) /\ Channels[1] = "main" /\ Channels[2] = "other"
  BY DEF Channels, ToSet
<1>3. ASSUME NEW channel \in ToSet(Channels), NEW stated \in {"failed", "missing", "none"} \cup Expressions
      PROVE  LicenseRow(channel, stated, at) \in LicenseAccepts /\ LicenseRow(channel, stated, at).at = at
  <2>1. CASE stated \in {"failed", "missing", "none"}
    <3>1. stated \notin Expressions
      BY <2>1, NoneAssumption
    <3> QED
      BY <2>1, <3>1 DEF LicenseRow, LicenseAccepts
  <2>2. CASE stated \in Expressions
    <3>1. stated \notin {"", "failed", "missing", "none"}
      BY <2>2, NoneAssumption
    <3> QED
      BY <2>2, <3>1 DEF LicenseRow, LicenseAccepts
  <2> QED
    BY <2>1, <2>2
<1>4. \A i \in 1..2 : LicenseRows(reply, at)[i] \in LicenseAccepts /\ LicenseRows(reply, at)[i].at = at
  <2>1. /\ LicenseRow(Channels[1], reply[1], at) \in LicenseAccepts
        /\ LicenseRow(Channels[1], reply[1], at).at = at
        /\ LicenseRow(Channels[2], LaterReply(reply), at) \in LicenseAccepts
        /\ LicenseRow(Channels[2], LaterReply(reply), at).at = at
    BY <1>1, <1>2, <1>3
  <2> QED
    BY <2>1 DEF LicenseRows
<1>5. DOMAIN LicenseRows(reply, at) = 1..2
  BY DEF LicenseRows
<1> QED
  BY <1>4, <1>5 DEF RowsOf

LEMMA AssessmentsWritten ==
    ASSUME NEW at \in Nat, NEW reply \in MetadataReplies
    PROVE  RowsOf(AssessmentAccepts, AssessmentRows(reply, at), at)
<1>1. reply.specifier \in {"failed", "missing", "inapplicable", "none", "unreadable", "admits", "excludes"}
  BY DEF MetadataReplies
<1>2. AssessmentRows(reply, at)[1] \in AssessmentAccepts /\ AssessmentRows(reply, at)[1].at = at
  BY <1>1 DEF AssessmentRows, AssessmentAccepts, Sentinels, Sentinel, Inferred
<1>3. DOMAIN AssessmentRows(reply, at) = 1..1
  BY DEF AssessmentRows
<1> QED
  BY <1>2, <1>3 DEF RowsOf

LEMMA VerificationsWritten ==
    ASSUME NEW at \in Nat, NEW reply \in VerificationReplies
    PROVE  RowsOf(VerificationAccepts, VerificationRows(reply, at), at)
<1>2. VerificationRows(reply, at)[1] \in VerificationAccepts /\ VerificationRows(reply, at)[1].at = at
  BY DEF VerificationRows, VerificationReplies, VerificationAccepts, Sentinels, Sentinel
<1>3. DOMAIN VerificationRows(reply, at) = 1..1
  BY DEF VerificationRows
<1> QED
  BY <1>2, <1>3 DEF RowsOf

LEMMA InventoriesWritten ==
    ASSUME NEW at \in Nat, NEW reply \in InventoryReplies
    PROVE  RowsOf(InventoryAccepts, InventoryRows(reply, at), at)
<1>1. \/ reply.state = "ok" /\ reply.lob \in Nat /\ reply.component \in Nat
      \/ reply.state = "not_found" /\ reply.lob = None /\ reply.component = None
  BY DEF InventoryReplies
<1>2. InventoryRows(reply, at)[1] \in InventoryAccepts /\ InventoryRows(reply, at)[1].at = at
  <2> DEFINE row == InventoryRows(reply, at)[1]
  <2>1. row = [at |-> at, state |-> reply.state, lob |-> reply.lob, component |-> reply.component]
    BY DEF InventoryRows
  <2>2. None \notin Nat
    <3>1. None \notin Int
      BY NoneAssumption
    <3> QED
      BY <3>1
  <2>3. reply.state \in {"ok"} \cup Sentinels
    BY <1>1 DEF Sentinels
  <2> HIDE DEF row
  <2>4. row \in InventoryAccepts
    BY <1>1, <2>1, <2>2, <2>3 DEF InventoryAccepts
  <2> QED
    BY <2>1, <2>4 DEF row
<1>3. DOMAIN InventoryRows(reply, at) = 1..1
  BY DEF InventoryRows
<1> QED
  BY <1>2, <1>3 DEF RowsOf

\* No collector writes a row its table refuses, whatever the source replied.
LEMMA Written ==
    ASSUME NEW table \in Tables, NEW at \in Nat, NEW reply \in Replies(table, at),
           NEW findings, Askable(findings, at)
    PROVE  RowsOf(Accepts(table), RowsFor(table, reply, at, findings), at)
BY SourceWritten, PyPIWritten, CondaWritten, FeedstockWritten, AdvisoriesWritten, KevWritten,
   LicencesWritten, AssessmentsWritten, VerificationsWritten, InventoriesWritten
   DEF Tables, Replies, Accepts, RowsFor

-----------------------------------------------------------------------------
(* The first of some rows, the worst of some verdicts *)

Less == {pair \in Nat \X Nat : pair[1] < pair[2]}

\* A set of naturals has its minimum.
LEMMA Least ==
    ASSUME NEW T, T \subseteq Nat, T # {}
    PROVE  Min(T) \in T /\ \A y \in T : Min(T) <= y
<1>1. IsWellFoundedOn(Less, Nat)
  BY NatLessThanWellFounded DEF OpToRel, Less
<1>2. PICK x \in T : \A y \in T : ~(<<y, x>> \in Less)
  BY <1>1, WFMin
<1>3. ASSUME NEW y \in T PROVE x <= y
  <2>1. x \in Nat /\ y \in Nat
    OBVIOUS
  <2>2. <<y, x>> \in Nat \X Nat /\ <<y, x>>[1] = y /\ <<y, x>>[2] = x
    BY <2>1
  <2>3. ~(y < x)
    BY <1>2, <2>2 DEF Less
  <2> QED
    BY <2>1, <2>3
<1> QED
  BY <1>3 DEF Min

\* First answers with a wanted row when there is one, and with None otherwise.
LEMMA FirstOf ==
    ASSUME NEW rows, NEW wanted, DOMAIN rows \subseteq Nat
    PROVE  /\ (\A i \in DOMAIN rows : rows[i] \notin wanted) => First(rows, wanted) = None
           /\ (\E i \in DOMAIN rows : rows[i] \in wanted) =>
                  \E i \in DOMAIN rows :
                      /\ First(rows, wanted) = rows[i] /\ rows[i] \in wanted
                      /\ \A j \in DOMAIN rows : rows[j] \in wanted => i <= j
<1> DEFINE found == {i \in DOMAIN rows : rows[i] \in wanted}
<1>1. CASE found = {}
  BY <1>1 DEF First
<1>2. CASE found # {}
  <2>1. Min(found) \in found /\ \A j \in found : Min(found) <= j
    BY <1>2, Least
  <2>2. First(rows, wanted) = rows[Min(found)]
    BY <1>2 DEF First
  <2> QED
    BY <1>2, <2>1, <2>2
<1> QED
  BY <1>1, <1>2

\* The worst of some verdicts of a precedence is one of them, and none of them
\* comes before it.
LEMMA WorstOf ==
    ASSUME NEW precedence, DOMAIN precedence \subseteq Nat,
           NEW verdicts, verdicts # {}, \A v \in verdicts : \E i \in DOMAIN precedence : v = precedence[i],
           NEW empty
    PROVE  \E i \in DOMAIN precedence :
               /\ Worst(precedence, verdicts, empty) = precedence[i] /\ precedence[i] \in verdicts
               /\ \A j \in DOMAIN precedence : precedence[j] \in verdicts => i <= j
<1> DEFINE found == {i \in DOMAIN precedence : precedence[i] \in verdicts}
<1>1. found # {} /\ found \subseteq Nat
  OBVIOUS
<1>2. Min(found) \in found /\ \A j \in found : Min(found) <= j
  BY <1>1, Least
<1>3. Worst(precedence, verdicts, empty) = precedence[Min(found)]
  BY DEF Worst
<1> QED
  BY <1>2, <1>3

\* The newest of some sweeps.
LEMMA NewestOf ==
    ASSUME NEW sweeps, NEW N \in Nat, \A s \in sweeps : s.at \in 0..N, sweeps # {}
    PROVE  \E s \in sweeps : \A other \in sweeps : other.at <= s.at
<1> DEFINE ages == {a \in 0..N : \E s \in sweeps : a = N - s.at}
<1>1. ages \subseteq Nat /\ ages # {}
  <2>1. PICK s \in sweeps : TRUE
    OBVIOUS
  <2>2. N - s.at \in 0..N
    BY <2>1
  <2>3. N - s.at \in ages
    BY <2>2
  <2>4. ASSUME NEW a \in ages PROVE a \in Nat
    BY <2>4
  <2> QED
    BY <2>3, <2>4
<1>2. Min(ages) \in ages /\ \A a \in ages : Min(ages) <= a
  BY <1>1, Least
<1>3. PICK s \in sweeps : Min(ages) = N - s.at
  BY <1>2
<1>4. ASSUME NEW other \in sweeps PROVE other.at <= s.at
  <2>1. other.at \in 0..N /\ s.at \in 0..N
    OBVIOUS
  <2>2. N - other.at \in ages
    BY <2>1
  <2>3. N - s.at <= N - other.at
    BY <1>2, <1>3, <2>2
  <2> QED
    BY <2>1, <2>3
<1> QED
  BY <1>4

-----------------------------------------------------------------------------
(* The evidence that is held *)

\* What a sweep says a source replied is what its rows were made of.
Stored(table, sweep) ==
    /\ sweep.at \in 1..clock
    /\ sweep.reply \in Replies(table, sweep.at)
    /\ \E findings : /\ Askable(findings, sweep.at)
                     /\ sweep.rows = RowsFor(table, sweep.reply, sweep.at, findings)

EvidenceInv ==
    /\ clock \in Nat \ {0}
    /\ DOMAIN evidence = Tables
    /\ \A table \in Tables : /\ IsFiniteSet(evidence[table])
                             /\ \A sweep \in evidence[table] : Stored(table, sweep)

\* Rows of a kind: what is known of a sequence of them.
LEMMA RowsHeld ==
    ASSUME NEW kind, NEW rows, NEW at, RowsOf(kind, rows, at)
    PROVE  /\ rows # <<>> /\ DOMAIN rows \subseteq Nat /\ 1 \in DOMAIN rows
           /\ \A i \in DOMAIN rows : rows[i] \in ToSet(rows)
           /\ \A row \in ToSet(rows) : row \in kind /\ row.at = at /\ \E i \in DOMAIN rows : row = rows[i]
           /\ Row(rows) = rows[1]
<1>1. PICK n \in Nat \ {0} : /\ DOMAIN rows = 1..n
                             /\ \A i \in 1..n : rows[i] \in kind /\ rows[i].at = at
  BY DEF RowsOf
<1>2. 1 \in DOMAIN rows /\ DOMAIN rows \subseteq Nat
  BY <1>1
<1>3. rows # <<>>
  BY <1>2
<1>4. \A i \in DOMAIN rows : rows[i] \in ToSet(rows)
  BY DEF ToSet
<1>5. \A row \in ToSet(rows) : row \in kind /\ row.at = at /\ \E i \in DOMAIN rows : row = rows[i]
  BY <1>1 DEF ToSet
<1>6. Row(rows) = rows[1]
  BY <1>3 DEF Row
<1> QED
  BY <1>2, <1>3, <1>4, <1>5, <1>6

\* At a cut-off a table has its newest sweep, or none.
LEMMA HeldAt ==
    ASSUME EvidenceInv, NEW table \in Tables, NEW cutoff
    PROVE  \/ SweepsBy(table, cutoff) = {} /\ RowsAt(table, cutoff) = <<>>
           \/ /\ SweepAt(table, cutoff) \in evidence[table]
              /\ SweepAt(table, cutoff).at <= cutoff
              /\ Stored(table, SweepAt(table, cutoff))
              /\ RowsAt(table, cutoff) = SweepAt(table, cutoff).rows
              /\ RowsOf(Accepts(table), RowsAt(table, cutoff), SweepAt(table, cutoff).at)
<1>1. CASE SweepsBy(table, cutoff) = {}
  BY <1>1 DEF RowsAt
<1>2. CASE SweepsBy(table, cutoff) # {}
  <2> DEFINE newest == SweepAt(table, cutoff)
  <2>1. \A s \in SweepsBy(table, cutoff) : s.at \in 0..clock
    BY DEF SweepsBy, EvidenceInv, Stored
  <2>2. \E s \in SweepsBy(table, cutoff) : \A other \in SweepsBy(table, cutoff) : other.at <= s.at
    <3>1. clock \in Nat
      BY DEF EvidenceInv
    <3> QED
      BY <1>2, <2>1, <3>1, NewestOf
  <2>3. newest \in SweepsBy(table, cutoff)
    BY <2>2 DEF SweepAt
  <2>4. newest \in evidence[table] /\ newest.at <= cutoff /\ Stored(table, newest)
    BY <2>3 DEF SweepsBy, EvidenceInv
  <2>5. RowsAt(table, cutoff) = newest.rows
    BY <1>2 DEF RowsAt
  <2>6. RowsOf(Accepts(table), newest.rows, newest.at)
    <3>1. newest.at \in Nat
      BY <2>4 DEF Stored, EvidenceInv
    <3> HIDE DEF newest
    <3> QED
      BY <2>4, <3>1, Written DEF Stored
  <2> QED
    BY <2>4, <2>5, <2>6
<1> QED
  BY <1>1, <1>2

-----------------------------------------------------------------------------
(* The inductive invariant *)

RunInv(r) ==
    /\ DOMAIN runs[r] = {"phase", "cutoff", "version", "loaded", "rows"}
    /\ runs[r].phase \in {"idle", "loaded", "evaluated", "failed", "composed"}
    /\ IF runs[r].phase = "idle"
       THEN runs[r].cutoff = 0 /\ runs[r].loaded = None
       ELSE runs[r].cutoff \in 1..clock /\ runs[r].version \in Versions /\ runs[r].loaded \in Identities
    /\ runs[r].phase \in {"idle", "loaded", "failed"} => runs[r].rows = None
    /\ runs[r].phase = "evaluated" \/ runs[r].rows # None =>
           runs[r].rows = Derived(runs[r].loaded, runs[r].cutoff, runs[r].version)

RollupInv ==
    rollup # None =>
        LET run == runs[rollup.run]
        IN  /\ rollup.run \in Runs /\ run.phase = "composed"
            /\ rollup.confidence = run.loaded.confidence
            /\ rollup.currency = Gated(run.rows.currency.overall, rollup.confidence)
            /\ rollup.feedstock = Gated(run.rows.feedstock.presence, rollup.confidence)
            /\ rollup.work_type = Gated(run.rows.work_type, rollup.confidence)
            /\ rollup.bucket = Gated(run.rows.priority.bucket, rollup.confidence)

IInv ==
    /\ clock \in 1..MaxClock
    /\ EvidenceInv
    /\ identity \in Identities
    /\ DOMAIN runs = Runs
    /\ \A r \in Runs : RunInv(r)
    /\ RollupInv

LEMMA FiniteImage ==
    ASSUME NEW S, IsFiniteSet(S), NEW f, DOMAIN f = S
    PROVE  IsFiniteSet({f[x] : x \in S})
<1> DEFINE T == {f[x] : x \in S}
           g == [x \in S |-> f[x]]
<1>1. g \in Surjection(S, T)
  BY DEF Surjection
<1> HIDE DEF T, g
<1>2. IsFiniteSet(T)
  BY <1>1, FS_Surjection
<1> QED
  BY <1>2 DEF T

\* What the catalog is asked of is a finite number of matches, of now or before.
LEMMA KevCurrentAskable ==
    ASSUME EvidenceInv
    PROVE  Askable(KevCurrent(clock), clock)
<1> DEFINE held == UNION {ToSet(s.rows) : s \in evidence["advisories"]}
<1>1. ASSUME NEW s \in evidence["advisories"]
      PROVE  /\ IsFiniteSet(ToSet(s.rows))
             /\ \A f \in ToSet(s.rows) : f \in AdvisoryAccepts /\ f.at <= clock
  <2>1. "advisories" \in Tables
    BY DEF Tables
  <2>2. Stored("advisories", s)
    BY <1>1, <2>1 DEF EvidenceInv
  <2>3. s.at \in 1..clock /\ clock \in Nat
    BY <2>2 DEF Stored, EvidenceInv
  <2>4. RowsOf(AdvisoryAccepts, s.rows, s.at)
    <3>1. RowsOf(Accepts("advisories"), s.rows, s.at)
      BY <2>1, <2>2, <2>3, Written DEF Stored
    <3> QED
      BY <3>1 DEF Accepts
  <2>5. IsFiniteSet(ToSet(s.rows))
    <3>1. PICK n \in Nat \ {0} : DOMAIN s.rows = 1..n
      BY <2>4 DEF RowsOf
    <3>2. IsFiniteSet(1..n)
      BY FS_Interval
    <3>3. IsFiniteSet({s.rows[i] : i \in 1..n})
      BY <3>1, <3>2, FiniteImage
    <3> QED
      BY <3>1, <3>3 DEF ToSet
  <2>6. \A f \in ToSet(s.rows) : f \in AdvisoryAccepts /\ f.at = s.at
    BY <2>4, RowsHeld
  <2> QED
    BY <2>3, <2>5, <2>6
<1>2. IsFiniteSet(held)
  <2>1. IsFiniteSet(evidence["advisories"])
    BY DEF EvidenceInv, Tables
  <2>2. IsFiniteSet({ToSet(s.rows) : s \in evidence["advisories"]})
    <3> DEFINE g == [s \in evidence["advisories"] |-> ToSet(s.rows)]
    <3>1. IsFiniteSet({g[s] : s \in evidence["advisories"]})
      BY <2>1, FiniteImage
    <3> QED
      BY <3>1
  <2>3. \A S \in {ToSet(s.rows) : s \in evidence["advisories"]} : IsFiniteSet(S)
    BY <1>1
  <2> QED
    BY <2>2, <2>3, FS_UNION
<1>3. KevCurrent(clock) \subseteq held /\ \A f \in KevCurrent(clock) : IsMatched(f)
  BY DEF KevCurrent
<1>4. IsFiniteSet(KevCurrent(clock))
  BY <1>2, <1>3, FS_Subset
<1>5. \A f \in KevCurrent(clock) : f \in AdvisoryAccepts /\ f.at <= clock
  BY <1>1, <1>3
<1> QED
  BY <1>3, <1>4, <1>5 DEF Askable

\* What is derived at a cut-off depends on the evidence at that cut-off only.
LEMMA SameEvidence ==
    ASSUME NEW CONSTANT cutoff, NEW CONSTANT loaded, NEW CONSTANT version,
           \A table \in Tables : SweepsBy(table, cutoff)' = SweepsBy(table, cutoff)
    PROVE  Derived(loaded, cutoff, version)' = Derived(loaded, cutoff, version)
<1>1. ASSUME NEW CONSTANT table \in Tables PROVE RowsAt(table, cutoff)' = RowsAt(table, cutoff)
  <2>1. SweepsBy(table, cutoff)' = SweepsBy(table, cutoff)
    BY <1>1
  <2>2. SweepAt(table, cutoff)' = SweepAt(table, cutoff)
    BY <2>1 DEF SweepAt
  <2> QED
    BY <2>1, <2>2 DEF RowsAt
<1>2. EvidenceAt(cutoff)' = EvidenceAt(cutoff)
  BY <1>1 DEF EvidenceAt
<1> QED
  BY <1>2 DEF Derived

LEMMA InitInv == Init => IInv
<1> SUFFICES ASSUME Init PROVE IInv
  OBVIOUS
<1>1. clock \in 1..MaxClock /\ clock \in Nat \ {0}
  BY BoundsAssumption DEF Init
<1>2. EvidenceInv
  BY <1>1, FS_EmptySet DEF Init, EvidenceInv
<1>3. \A r \in Runs : RunInv(r)
  BY DEF Init, RunInv, Idle
<1> QED
  BY <1>1, <1>2, <1>3 DEF Init, IInv, RollupInv

\* Evidence is only added, and at an instant behind every cut-off in use.
LEMMA EvidenceStep ==
    ASSUME IInv, [Next]_vars
    PROVE  /\ EvidenceInv' /\ clock' \in 1..MaxClock /\ clock <= clock'
           /\ \A r \in Runs : \A table \in Tables : \A c :
                  runs[r].phase # "idle" /\ runs[r].cutoff = c => SweepsBy(table, c)' = SweepsBy(table, c)
<1>1. clock \in 1..MaxClock /\ EvidenceInv /\ MaxClock \in Nat
  BY BoundsAssumption DEF IInv
<1>2. CASE evidence' = evidence /\ clock' \in {clock, clock + 1} /\ clock' \in 1..MaxClock
  <2>1. \A table, sweep : Stored(table, sweep) => Stored(table, sweep)'
    BY <1>1, <1>2 DEF Stored
  <2>2. EvidenceInv'
    BY <1>1, <1>2, <2>1 DEF EvidenceInv
  <2> QED
    BY <1>1, <1>2, <2>2 DEF SweepsBy
<1>3. ASSUME NEW table0 \in Tables, Observe(table0)
      PROVE  /\ EvidenceInv' /\ clock' = clock
             /\ \A r \in Runs : \A table \in Tables : \A c :
                    runs[r].phase # "idle" /\ runs[r].cutoff = c => SweepsBy(table, c)' = SweepsBy(table, c)
  <2>1. PICK reply \in AnswersTo(table0, clock) :
            evidence' = [evidence EXCEPT ![table0] =
                            @ \cup {[at |-> clock, reply |-> reply,
                                     rows |-> RowsFor(table0, reply, clock, KevCurrent(clock))]}]
    BY <1>3 DEF Observe
  <2> DEFINE new == [at |-> clock, reply |-> reply, rows |-> RowsFor(table0, reply, clock, KevCurrent(clock))]
  <2>2. clock' = clock /\ runs' = runs /\ \A r \in Runs : runs[r].phase # "idle" => runs[r].cutoff < clock
    BY <1>3 DEF Observe
  <2>3. Stored(table0, new)
    <3>1. reply \in Replies(table0, clock)
      BY <1>1, <1>3, AnswersAssumption
    <3>2. new.at = clock /\ new.reply = reply /\ new.rows = RowsFor(table0, reply, clock, KevCurrent(clock))
      OBVIOUS
    <3> HIDE DEF new
    <3>3. Askable(KevCurrent(clock), new.at) /\ new.rows = RowsFor(table0, new.reply, new.at, KevCurrent(clock))
      BY <1>1, <3>2, KevCurrentAskable
    <3>4. new.at \in 1..clock
      BY <1>1, <3>2
    <3> QED
      BY <3>1, <3>2, <3>3, <3>4 DEF Stored
  <2>4. \A table, sweep : Stored(table, sweep)' <=> Stored(table, sweep)
    BY <2>2 DEF Stored
  <2>5. new.at = clock
    OBVIOUS
  <2> HIDE DEF new
  <2>6. /\ DOMAIN evidence' = Tables
        /\ \A table \in Tables : evidence'[table] = IF table = table0 THEN evidence[table] \cup {new}
                                                    ELSE evidence[table]
    BY <1>1, <2>1 DEF EvidenceInv, new
  <2>7. EvidenceInv'
    <3>1. ASSUME NEW table \in Tables
          PROVE  IsFiniteSet(evidence'[table]) /\ \A sweep \in evidence'[table] : Stored(table, sweep)
      BY <1>1, <2>3, <2>6, FS_AddElement DEF EvidenceInv
    <3> QED
      BY <1>1, <2>2, <2>4, <2>6, <3>1 DEF EvidenceInv
  <2>8. ASSUME NEW r \in Runs, NEW table \in Tables, NEW c, runs[r].phase # "idle", runs[r].cutoff = c
        PROVE  SweepsBy(table, c)' = SweepsBy(table, c)
    <3>1. c < clock /\ c \in Nat /\ clock \in Nat
      BY <1>1, <2>2, <2>8 DEF IInv, RunInv
    <3>2. ~(new.at <= c)
      BY <2>5, <3>1
    <3> QED
      BY <2>6, <3>2 DEF SweepsBy
  <2> QED
    BY <2>2, <2>7, <2>8
<1>4. Tick => evidence' = evidence /\ clock' = clock + 1 /\ clock' \in 1..MaxClock
  BY <1>1 DEF Tick
<1>5. Identify => evidence' = evidence /\ clock' = clock
  BY DEF Identify
<1>6. \A r \in Runs : Start(r) \/ Evaluate(r) \/ Compose(r) => evidence' = evidence /\ clock' = clock
  BY DEF Start, Evaluate, Compose
<1>7. UNCHANGED vars => evidence' = evidence /\ clock' = clock
  BY DEF vars
<1> QED
  BY <1>1, <1>2, <1>3, <1>4, <1>5, <1>6, <1>7 DEF Next

LEMMA RunStep ==
    ASSUME IInv, [Next]_vars, NEW r \in Runs
    PROVE  RunInv(r)'
<1>1. RunInv(r) /\ clock \in 1..MaxClock /\ clock' \in 1..MaxClock /\ clock <= clock' /\ MaxClock \in Nat
  BY EvidenceStep, BoundsAssumption DEF IInv
<1>2. PICK c, l, v : c = runs[r].cutoff /\ l = runs[r].loaded /\ v = runs[r].version
  OBVIOUS
<1>3. runs[r].phase # "idle" => Derived(l, c, v)' = Derived(l, c, v)
  <2> SUFFICES ASSUME runs[r].phase # "idle" PROVE Derived(l, c, v)' = Derived(l, c, v)
    OBVIOUS
  <2>1. \A table \in Tables : SweepsBy(table, c)' = SweepsBy(table, c)
    BY <1>2, EvidenceStep
  <2> QED
    BY <2>1, SameEvidence
<1>4. CASE runs'[r] = runs[r]
  <2>1. runs[r].phase # "idle" => runs[r].cutoff \in 1..clock'
    BY <1>1 DEF RunInv
  <2>2. runs'[r].phase = "evaluated" \/ runs'[r].rows # None =>
            runs'[r].rows = Derived(runs[r].loaded, runs[r].cutoff, runs[r].version)'
    BY <1>1, <1>2, <1>3, <1>4 DEF RunInv
  <2> QED
    BY <1>1, <1>4, <2>1, <2>2 DEF RunInv
<1>5. CASE Start(r)
  <2>1. PICK cutoff \in 1..clock, version \in Versions :
            runs' = [runs EXCEPT ![r] = [phase |-> "loaded", cutoff |-> cutoff, version |-> version,
                                         loaded |-> identity, rows |-> None]]
    BY <1>5 DEF Start
  <2>2. runs'[r] = [phase |-> "loaded", cutoff |-> cutoff, version |-> version,
                    loaded |-> identity, rows |-> None]
    BY <2>1 DEF IInv
  <2>3. cutoff \in 1..clock' /\ identity \in Identities
    BY <1>1 DEF IInv
  <2> QED
    BY <2>2, <2>3 DEF RunInv
<1>6. CASE Evaluate(r)
  <2>1. /\ runs[r].phase = "loaded" /\ clock' = clock
        /\ runs'[r] = [runs[r] EXCEPT !.phase = IF RowsHold(Derived(l, c, v)) THEN "evaluated" ELSE "failed",
                                      !.rows  = IF RowsHold(Derived(l, c, v)) THEN Derived(l, c, v) ELSE None]
    BY <1>2, <1>6 DEF Evaluate, IInv
  <2>2. /\ DOMAIN runs'[r] = {"phase", "cutoff", "version", "loaded", "rows"}
        /\ runs'[r].cutoff = c /\ runs'[r].loaded = l /\ runs'[r].version = v
        /\ runs'[r].phase = IF RowsHold(Derived(l, c, v)) THEN "evaluated" ELSE "failed"
        /\ runs'[r].rows = IF RowsHold(Derived(l, c, v)) THEN Derived(l, c, v) ELSE None
    BY <1>1, <1>2, <2>1 DEF RunInv
  <2>3. runs'[r].phase = "evaluated" \/ runs'[r].rows # None =>
            runs'[r].rows = Derived(runs[r].loaded, runs[r].cutoff, runs[r].version)'
    BY <1>3, <2>1, <2>2
  <2> QED
    BY <1>1, <1>2, <2>1, <2>2, <2>3 DEF RunInv
<1>7. CASE Compose(r)
  <2>1. runs[r].phase \in {"evaluated", "failed"} /\ runs'[r] = [runs[r] EXCEPT !.phase = "composed"] /\ clock' = clock
    BY <1>7 DEF Compose, IInv
  <2>2. /\ DOMAIN runs'[r] = {"phase", "cutoff", "version", "loaded", "rows"}
        /\ runs'[r].cutoff = c /\ runs'[r].loaded = l /\ runs'[r].version = v
        /\ runs'[r].phase = "composed" /\ runs'[r].rows = runs[r].rows
    BY <1>1, <1>2, <2>1 DEF RunInv
  <2>3. runs'[r].rows # None => runs'[r].rows = Derived(runs[r].loaded, runs[r].cutoff, runs[r].version)'
    BY <1>1, <1>2, <1>3, <2>1, <2>2 DEF RunInv
  <2> QED
    BY <1>1, <1>2, <2>1, <2>2, <2>3 DEF RunInv
<1>8. \/ runs' = runs
      \/ \E s \in Runs : Start(s) \/ Evaluate(s) \/ Compose(s)
  BY DEF Next, Tick, Observe, Identify, vars
<1>9. ASSUME NEW s \in Runs, s # r, Start(s) \/ Evaluate(s) \/ Compose(s)
      PROVE  runs'[r] = runs[r]
  BY <1>9 DEF Start, Evaluate, Compose, IInv
<1> QED
  BY <1>4, <1>5, <1>6, <1>7, <1>8, <1>9

LEMMA RollupStep ==
    ASSUME IInv, [Next]_vars
    PROVE  RollupInv'
<1>1. RollupInv /\ DOMAIN runs = Runs
  BY DEF IInv
<1>2. ASSUME rollup' = rollup, rollup # None, runs'[rollup.run] = runs[rollup.run]
      PROVE  RollupInv'
  BY <1>1, <1>2 DEF RollupInv
<1>3. CASE rollup = None /\ rollup' = rollup
  BY <1>3 DEF RollupInv
<1>4. CASE runs' = runs /\ rollup' = rollup
  BY <1>2, <1>3, <1>4
<1>5. ASSUME NEW r \in Runs, Start(r) \/ Evaluate(r)
      PROVE  RollupInv'
  <2>1. rollup' = rollup /\ runs[r].phase # "composed" /\ \A s \in Runs : s # r => runs'[s] = runs[s]
    BY <1>1, <1>5 DEF Start, Evaluate
  <2> QED
    BY <1>1, <1>2, <1>3, <2>1 DEF RollupInv
<1>6. ASSUME NEW r \in Runs, Compose(r)
      PROVE  RollupInv'
  <2>1. /\ runs[r].phase \in {"evaluated", "failed"}
        /\ runs'[r] = [runs[r] EXCEPT !.phase = "composed"]
        /\ \A s \in Runs : s # r => runs'[s] = runs[s]
    BY <1>1, <1>6 DEF Compose
  <2>2. CASE runs[r].phase = "failed"
    <3>1. rollup' = rollup
      BY <1>6, <2>2 DEF Compose
    <3> QED
      BY <1>1, <1>2, <1>3, <2>1, <3>1 DEF RollupInv
  <2>3. CASE runs[r].phase # "failed"
    <3> DEFINE rows       == runs[r].rows
               confidence == runs[r].loaded.confidence
    <3>1. rollup' = [run        |-> r,
                     confidence |-> confidence,
                     currency   |-> Gated(rows.currency.overall, confidence),
                     feedstock  |-> Gated(rows.feedstock.presence, confidence),
                     work_type  |-> Gated(rows.work_type, confidence),
                     bucket     |-> Gated(rows.priority.bucket, confidence)]
      BY <1>6, <2>3 DEF Compose
    <3>2. DOMAIN runs[r] = {"phase", "cutoff", "version", "loaded", "rows"}
      BY DEF IInv, RunInv
    <3>3. /\ runs'[r].phase = "composed" /\ runs'[r].loaded = runs[r].loaded /\ runs'[r].rows = rows
      BY <2>1, <3>2
    <3> QED
      BY <3>1, <3>3 DEF RollupInv
  <2> QED
    BY <2>2, <2>3
<1>7. \/ runs' = runs /\ rollup' = rollup
      \/ \E s \in Runs : Start(s) \/ Evaluate(s) \/ Compose(s)
  BY DEF Next, Tick, Observe, Identify, vars
<1> QED
  BY <1>4, <1>5, <1>6, <1>7

\* What the runs hold is what the evidence of their cut-offs says.
THEOREM Invariant == Spec => []IInv
<1>1. Init => IInv
  BY InitInv
<1>2. IInv /\ [Next]_vars => IInv'
  <2> SUFFICES ASSUME IInv, [Next]_vars PROVE IInv'
    OBVIOUS
  <2>1. identity' \in Identities
    BY DEF IInv, Next, Tick, Observe, Identify, Start, Evaluate, Compose, vars
  <2>2. DOMAIN runs' = Runs
    BY DEF IInv, Next, Tick, Observe, Identify, Start, Evaluate, Compose, vars
  <2> QED
    BY <2>1, <2>2, EvidenceStep, RunStep, RollupStep DEF IInv
<1> QED
  BY <1>1, <1>2, PTL DEF Spec

\* The runs that were started.
Opened == {r \in Runs : runs[r].phase # "idle"}

LEMMA OpenRun ==
    ASSUME IInv, NEW r \in Opened
    PROVE  /\ r \in Runs /\ runs[r].cutoff \in 1..clock /\ runs[r].cutoff \in Nat /\ clock \in Nat
           /\ runs[r].version \in Versions /\ runs[r].loaded \in Identities
           /\ \A table \in Tables : EvidenceAt(runs[r].cutoff)[table] = RowsAt(table, runs[r].cutoff)
<1>1. RunInv(r) /\ runs[r].phase # "idle" /\ clock \in 1..MaxClock /\ MaxClock \in Nat
  BY BoundsAssumption DEF IInv, Opened
<1> QED
  BY <1>1 DEF RunInv, EvidenceAt, Opened

LEMMA DeriversAreOpen ==
    ASSUME IInv
    PROVE  Derivers \subseteq Opened
BY DEF IInv, RunInv, Derivers, Opened

\* The rows of a run, pass by pass.
LEMMA OfRun ==
    ASSUME IInv, NEW r \in Derivers
    PROVE  /\ r \in Runs /\ runs[r].cutoff \in 1..clock /\ runs[r].cutoff \in Nat /\ clock \in Nat
           /\ runs[r].version \in Versions /\ runs[r].loaded \in Identities
           /\ \A table \in Tables : EvidenceAt(runs[r].cutoff)[table] = RowsAt(table, runs[r].cutoff)
           /\ runs[r].rows = Derived(runs[r].loaded, runs[r].cutoff, runs[r].version)
<1>1. runs[r].rows = Derived(runs[r].loaded, runs[r].cutoff, runs[r].version)
  BY DEF IInv, RunInv, Derivers
<1> QED
  BY <1>1, OpenRun, DeriversAreOpen

LEMMA PassRows ==
    ASSUME NEW loaded, NEW cutoff, NEW version
    PROVE  LET ev   == EvidenceAt(cutoff)
               p    == Parameters[version]
               rows == Derived(loaded, cutoff, version)
           IN  /\ rows.currency = Currency(ev, loaded.order)
               /\ rows.feedstock = FeedstockPresence(ev, cutoff, p.threshold, loaded.confidence)
               /\ rows.vulnerability = Vulnerability(ev, p.severities)
               /\ rows.licence = License(ev, p.licences)
               /\ rows.remediation = Remediation(ev, cutoff)
               /\ rows.python = PythonReadiness(ev, cutoff)
BY DEF Derived

-----------------------------------------------------------------------------
(* The state, the evidence, replays and the rollup *)

\* Every run is in a phase of its own making, at a cut-off that has been, over a
\* package that was (core/policy_run.py).
THEOREM TypeCorrect == Spec => []TypeOK
<1>1. IInv => TypeOK
  <2> SUFFICES ASSUME IInv PROVE TypeOK
    OBVIOUS
  <2>1. ASSUME NEW table \in Tables, NEW sweep \in evidence[table]
        PROVE  sweep.at \in 1..clock /\ sweep.rows # <<>>
    <3>1. Stored(table, sweep) /\ sweep.at \in Nat
      BY <2>1 DEF IInv, EvidenceInv, Stored
    <3>2. RowsOf(Accepts(table), sweep.rows, sweep.at)
      BY <3>1, Written DEF Stored
    <3> QED
      BY <3>1, <3>2, RowsHeld DEF Stored
  <2>2. ASSUME NEW r \in Runs
        PROVE  /\ runs[r].phase \in {"idle", "loaded", "evaluated", "failed", "composed"}
               /\ runs[r].cutoff \in 0..clock
               /\ runs[r].loaded \in Identities \cup {None}
    <3>1. RunInv(r) /\ clock \in 1..MaxClock
      BY DEF IInv
    <3> QED
      BY <3>1, BoundsAssumption DEF RunInv
  <2> QED
    BY <2>1, <2>2 DEF IInv, RollupInv, TypeOK
<1> QED
  BY <1>1, Invariant, PTL

\* No evidence table refuses a row a collector writes, whatever its source
\* replies (Collector.collect, collectors/models.py).
THEOREM EvidenceAccepted == Spec => []EvidenceIsAccepted
<1>1. IInv => EvidenceIsAccepted
  <2> SUFFICES ASSUME IInv, NEW table \in Tables, NEW sweep \in evidence[table]
               PROVE  ToSet(sweep.rows) \subseteq Accepts(table)
    BY DEF EvidenceIsAccepted
  <2>1. Stored(table, sweep) /\ sweep.at \in Nat
    BY DEF IInv, EvidenceInv, Stored
  <2>2. RowsOf(Accepts(table), sweep.rows, sweep.at)
    BY <2>1, Written DEF Stored
  <2> QED
    BY <2>2, RowsHeld
<1> QED
  BY <1>1, Invariant, PTL

\* A replay derives what the run it replays derived, whatever has been collected
\* and whoever has been identified since (core/policy_run.py).
THEOREM ReplayedAlike == Spec => []ReplaysAgree
<1>1. IInv => ReplaysAgree
  <2> SUFFICES ASSUME IInv, NEW r \in Derivers, NEW s \in Derivers,
                      runs[r].cutoff = runs[s].cutoff, runs[r].version = runs[s].version
               PROVE  /\ runs[r].loaded = runs[s].loaded => runs[r].rows = runs[s].rows
                      /\ \A pass \in {"vulnerability", "licence", "remediation", "python"} :
                             runs[r].rows[pass] = runs[s].rows[pass]
                      /\ runs[r].rows.feedstock.presence = runs[s].rows.feedstock.presence
    BY DEF ReplaysAgree
  <2>1. /\ runs[r].rows = Derived(runs[r].loaded, runs[r].cutoff, runs[r].version)
        /\ runs[s].rows = Derived(runs[s].loaded, runs[r].cutoff, runs[r].version)
    BY OfRun
  <2>2. runs[r].loaded = runs[s].loaded => runs[r].rows = runs[s].rows
    BY <2>1
  <2>3. \A pass \in {"vulnerability", "licence", "remediation", "python"} :
            runs[r].rows[pass] = runs[s].rows[pass]
    BY <2>1, PassRows
  <2>4. runs[r].rows.feedstock.presence = runs[s].rows.feedstock.presence
    <3> DEFINE ev == EvidenceAt(runs[r].cutoff)
               p  == Parameters[runs[r].version]
    <3>1. /\ runs[r].rows.feedstock = FeedstockPresence(ev, runs[r].cutoff, p.threshold, runs[r].loaded.confidence)
          /\ runs[s].rows.feedstock = FeedstockPresence(ev, runs[r].cutoff, p.threshold, runs[s].loaded.confidence)
      BY <2>1, PassRows
    <3>2. ASSUME NEW confidence
          PROVE  FeedstockPresence(ev, runs[r].cutoff, p.threshold, confidence).presence =
                     PresenceVerdict(Row(ev["feedstock"]), runs[r].cutoff, p.threshold)
      BY DEF FeedstockPresence
    <3> QED
      BY <3>1, <3>2
  <2> QED
    BY <2>2, <2>3, <2>4
<1> QED
  BY <1>1, Invariant, PTL

\* The rollup claims of a package what its own run derived, and nothing of a
\* package that run loaded unmapped (core/rollup.py, core/confidence.py).
THEOREM ClaimsAreGated == Spec => []UnmappedClaimsNothing
<1>1. IInv => UnmappedClaimsNothing
  BY DEF IInv, RollupInv, UnmappedClaimsNothing, Gated
<1> QED
  BY <1>1, Invariant, PTL

-----------------------------------------------------------------------------
(* What the reductions say *)

LEMMA WorstOfThree ==
    ASSUME NEW precedence, DOMAIN precedence = 1..3, NEW verdicts, verdicts # {},
           verdicts \subseteq {precedence[1], precedence[2], precedence[3]}, NEW empty
    PROVE  Worst(precedence, verdicts, empty) =
               IF precedence[1] \in verdicts THEN precedence[1]
               ELSE IF precedence[2] \in verdicts THEN precedence[2] ELSE precedence[3]
<1>1. DOMAIN precedence \subseteq Nat /\ \A v \in verdicts : \E i \in DOMAIN precedence : v = precedence[i]
  OBVIOUS
<1>2. PICK i \in 1..3 : /\ Worst(precedence, verdicts, empty) = precedence[i] /\ precedence[i] \in verdicts
                        /\ \A j \in 1..3 : precedence[j] \in verdicts => i <= j
  BY <1>1, WorstOf
<1>3. i = 1 \/ i = 2 \/ i = 3
  OBVIOUS
<1> QED
  BY <1>2, <1>3

LEMMA WorstOfFive ==
    ASSUME NEW precedence, DOMAIN precedence = 1..5, NEW verdicts, verdicts # {},
           verdicts \subseteq {precedence[1], precedence[2], precedence[3], precedence[4], precedence[5]},
           NEW empty
    PROVE  Worst(precedence, verdicts, empty) =
               IF precedence[1] \in verdicts THEN precedence[1]
               ELSE IF precedence[2] \in verdicts THEN precedence[2]
               ELSE IF precedence[3] \in verdicts THEN precedence[3]
               ELSE IF precedence[4] \in verdicts THEN precedence[4] ELSE precedence[5]
<1>1. DOMAIN precedence \subseteq Nat /\ \A v \in verdicts : \E i \in DOMAIN precedence : v = precedence[i]
  OBVIOUS
<1>2. PICK i \in 1..5 : /\ Worst(precedence, verdicts, empty) = precedence[i] /\ precedence[i] \in verdicts
                        /\ \A j \in 1..5 : precedence[j] \in verdicts => i <= j
  BY <1>1, WorstOf
<1>3. \A j \in 1..5 : j < i => precedence[j] \notin verdicts
  BY <1>2
<1>4. i = 1 \/ i = 2 \/ i = 3 \/ i = 4 \/ i = 5
  OBVIOUS
<1> QED
  BY <1>2, <1>3, <1>4

LEMMA VulnerabilityReduced ==
    ASSUME NEW verdicts, verdicts \subseteq {"advisories_matched", "unknown", "no_advisory_matched"}
    PROVE  WorstVulnerability(verdicts) =
               IF "advisories_matched" \in verdicts THEN "advisories_matched"
               ELSE IF "unknown" \in verdicts \/ verdicts = {} THEN "unknown" ELSE "no_advisory_matched"
<1>0. /\ DOMAIN VulnerabilityPrecedence = 1..3
      /\ VulnerabilityPrecedence[1] = "advisories_matched"
      /\ VulnerabilityPrecedence[2] = "unknown"
      /\ VulnerabilityPrecedence[3] = "no_advisory_matched"
  BY DEF VulnerabilityPrecedence
<1>1. CASE verdicts = {}
  BY <1>1 DEF WorstVulnerability, Worst, EmptyAggregate
<1>2. CASE verdicts # {}
  <2>1. WorstVulnerability(verdicts) = Worst(VulnerabilityPrecedence, verdicts, EmptyAggregate)
    BY DEF WorstVulnerability
  <2>2. verdicts \subseteq {VulnerabilityPrecedence[1], VulnerabilityPrecedence[2], VulnerabilityPrecedence[3]}
    BY <1>0
  <2>3. Worst(VulnerabilityPrecedence, verdicts, EmptyAggregate) =
            IF VulnerabilityPrecedence[1] \in verdicts THEN VulnerabilityPrecedence[1]
            ELSE IF VulnerabilityPrecedence[2] \in verdicts THEN VulnerabilityPrecedence[2] ELSE VulnerabilityPrecedence[3]
    BY <1>0, <1>2, <2>2, WorstOfThree
  <2> QED
    BY <1>0, <1>2, <2>1, <2>3
<1> QED
  BY <1>1, <1>2

LEMMA KevReduced ==
    ASSUME NEW verdicts, verdicts \subseteq {"listed", "not_established", "not_listed"}
    PROVE  WorstKevMembership(verdicts) =
               IF "listed" \in verdicts THEN "listed"
               ELSE IF "not_established" \in verdicts \/ verdicts = {} THEN "not_established" ELSE "not_listed"
<1>0. /\ DOMAIN KevPrecedence = 1..3
      /\ KevPrecedence[1] = "listed"
      /\ KevPrecedence[2] = "not_established"
      /\ KevPrecedence[3] = "not_listed"
  BY DEF KevPrecedence
<1>1. CASE verdicts = {}
  BY <1>1 DEF WorstKevMembership, Worst
<1>2. CASE verdicts # {}
  <2>1. verdicts \subseteq {KevPrecedence[1], KevPrecedence[2], KevPrecedence[3]}
    BY <1>0
  <2>2. \A empty : Worst(KevPrecedence, verdicts, empty) =
            IF KevPrecedence[1] \in verdicts THEN KevPrecedence[1]
            ELSE IF KevPrecedence[2] \in verdicts THEN KevPrecedence[2] ELSE KevPrecedence[3]
    BY <1>0, <1>2, <2>1, WorstOfThree
  <2> QED
    BY <1>0, <1>2, <2>2 DEF WorstKevMembership
<1> QED
  BY <1>1, <1>2

LEMMA LicenseReduced ==
    ASSUME NEW verdicts, verdicts \subseteq {"forbidden", "restricted", "unknown", "manual_review", "allowed"}
    PROVE  WorstLicense(verdicts) =
               IF verdicts = {} THEN "unknown"
               ELSE IF "forbidden" \in verdicts THEN "forbidden"
               ELSE IF "restricted" \in verdicts THEN "restricted"
               ELSE IF "unknown" \in verdicts THEN "unknown"
               ELSE IF "manual_review" \in verdicts THEN "manual_review" ELSE "allowed"
<1>0. /\ DOMAIN LicensePrecedence = 1..5
      /\ LicensePrecedence[1] = "forbidden"
      /\ LicensePrecedence[2] = "restricted"
      /\ LicensePrecedence[3] = "unknown"
      /\ LicensePrecedence[4] = "manual_review"
      /\ LicensePrecedence[5] = "allowed"
  BY DEF LicensePrecedence
<1>1. CASE verdicts = {}
  BY <1>1 DEF WorstLicense, Worst, EmptyAggregate
<1>2. CASE verdicts # {}
  <2>1. verdicts \subseteq {LicensePrecedence[1], LicensePrecedence[2], LicensePrecedence[3], LicensePrecedence[4], LicensePrecedence[5]}
    BY <1>0, <1>2
  <2>2. \A empty : Worst(LicensePrecedence, verdicts, empty) =
            IF LicensePrecedence[1] \in verdicts THEN LicensePrecedence[1]
            ELSE IF LicensePrecedence[2] \in verdicts THEN LicensePrecedence[2]
            ELSE IF LicensePrecedence[3] \in verdicts THEN LicensePrecedence[3]
            ELSE IF LicensePrecedence[4] \in verdicts THEN LicensePrecedence[4] ELSE LicensePrecedence[5]
    BY <1>0, <1>2, <2>1, WorstOfFive
  <2> QED
    BY <1>0, <1>2, <2>2 DEF WorstLicense
<1> QED
  BY <1>1, <1>2

LEMMA ReadinessReduced ==
    ASSUME NEW verdicts, verdicts \subseteq {"blocked", "unknown", "awaiting_packaging", "awaiting_build", "ready"},
           verdicts # {}
    PROVE  WorstReadiness(verdicts) =
               IF "blocked" \in verdicts THEN "blocked"
               ELSE IF "unknown" \in verdicts THEN "unknown"
               ELSE IF "awaiting_packaging" \in verdicts THEN "awaiting_packaging"
               ELSE IF "awaiting_build" \in verdicts THEN "awaiting_build" ELSE "ready"
<1>1. /\ DOMAIN ReadinessPrecedence = 1..5
      /\ ReadinessPrecedence[1] = "blocked"
      /\ ReadinessPrecedence[2] = "unknown"
      /\ ReadinessPrecedence[3] = "awaiting_packaging"
      /\ ReadinessPrecedence[4] = "awaiting_build"
      /\ ReadinessPrecedence[5] = "ready"
  BY DEF ReadinessPrecedence
<1>2. verdicts \subseteq {ReadinessPrecedence[1], ReadinessPrecedence[2], ReadinessPrecedence[3], ReadinessPrecedence[4], ReadinessPrecedence[5]}
  BY <1>1
<1>3. \A empty : Worst(ReadinessPrecedence, verdicts, empty) =
          IF ReadinessPrecedence[1] \in verdicts THEN ReadinessPrecedence[1]
          ELSE IF ReadinessPrecedence[2] \in verdicts THEN ReadinessPrecedence[2]
          ELSE IF ReadinessPrecedence[3] \in verdicts THEN ReadinessPrecedence[3]
          ELSE IF ReadinessPrecedence[4] \in verdicts THEN ReadinessPrecedence[4] ELSE ReadinessPrecedence[5]
  BY <1>1, <1>2, WorstOfFive
<1> QED
  BY <1>1, <1>3 DEF WorstReadiness

LEMMA CurrencyReduced ==
    ASSUME NEW verdicts, verdicts \subseteq {"error", "behind", "unknown", "not_found", "current", "not_applicable"},
           WorstCurrency(verdicts) = "current"
    PROVE  verdicts \subseteq {"current", "not_applicable"} /\ "current" \in verdicts
<1> DEFINE voting == verdicts \ {"not_applicable"}
           empty  == IF verdicts = {} THEN EmptyAggregate ELSE "not_applicable"
<1>1. voting # {}
  BY DEF WorstCurrency, Worst, EmptyAggregate
<1>2. voting \subseteq {"error", "behind", "unknown", "not_found", "current"}
  OBVIOUS
<1>3. Worst(CurrencyPrecedence, voting, empty) = "current"
  BY DEF WorstCurrency
<1>0. /\ DOMAIN CurrencyPrecedence = 1..5
      /\ CurrencyPrecedence[1] = "error"
      /\ CurrencyPrecedence[2] = "behind"
      /\ CurrencyPrecedence[3] = "unknown"
      /\ CurrencyPrecedence[4] = "not_found"
      /\ CurrencyPrecedence[5] = "current"
  BY DEF CurrencyPrecedence
<1> HIDE DEF voting, empty
<1>4. "error" \notin voting /\ "behind" \notin voting /\ "unknown" \notin voting /\ "not_found" \notin voting
  <2>1. voting \subseteq {CurrencyPrecedence[1], CurrencyPrecedence[2], CurrencyPrecedence[3], CurrencyPrecedence[4], CurrencyPrecedence[5]}
    BY <1>0, <1>1, <1>2
  <2>2. \A none : Worst(CurrencyPrecedence, voting, none) =
            IF CurrencyPrecedence[1] \in voting THEN CurrencyPrecedence[1]
            ELSE IF CurrencyPrecedence[2] \in voting THEN CurrencyPrecedence[2]
            ELSE IF CurrencyPrecedence[3] \in voting THEN CurrencyPrecedence[3]
            ELSE IF CurrencyPrecedence[4] \in voting THEN CurrencyPrecedence[4] ELSE CurrencyPrecedence[5]
    BY <1>0, <1>1, <1>2, <2>1, WorstOfFive
  <2> QED
    BY <1>0, <1>1, <1>2, <1>3, <2>2
<1>5. voting = {"current"}
  BY <1>1, <1>2, <1>4
<1> QED
  BY <1>5 DEF voting

-----------------------------------------------------------------------------
(* No clean verdict comes of silence *)

\* The newest sweep of a table at a run's cut-off, as its passes read it.
LEMMA ReadAt ==
    ASSUME IInv, NEW r \in Opened, NEW table \in Tables
    PROVE  LET cutoff == runs[r].cutoff
               rows   == EvidenceAt(cutoff)[table]
               sweep  == SweepAt(table, cutoff)
           IN  \/ rows = <<>>
               \/ /\ sweep.at \in 1..cutoff /\ sweep.at \in Nat
                  /\ sweep.reply \in Replies(table, sweep.at)
                  /\ \E findings : /\ Askable(findings, sweep.at)
                                   /\ rows = RowsFor(table, sweep.reply, sweep.at, findings)
                  /\ RowsOf(Accepts(table), rows, sweep.at)
<1>1. EvidenceInv
  BY DEF IInv
<1>2. /\ EvidenceAt(runs[r].cutoff)[table] = RowsAt(table, runs[r].cutoff)
      /\ runs[r].cutoff \in 1..clock /\ runs[r].cutoff \in Nat /\ clock \in Nat
  BY OpenRun
<1> QED
  BY <1>1, <1>2, HeldAt DEF Stored

\* The row of a table that has one row a sweep.
LEMMA RowOf ==
    ASSUME NEW table \in Tables, NEW rows, NEW at, RowsOf(Accepts(table), rows, at)
    PROVE  /\ Row(rows) = rows[1] /\ Row(rows) # None /\ rows # <<>>
           /\ Row(rows) \in Accepts(table) /\ Row(rows).at = at
<1>1. /\ Row(rows) = rows[1] /\ rows # <<>> /\ rows[1] \in ToSet(rows)
      /\ \A row \in ToSet(rows) : row \in Accepts(table) /\ row.at = at
  BY RowsHeld
<1> QED
  BY <1>1, NothingAssumption

\* A feedstock is absent where both places were looked in and answered, and
\* maintained or not as of a look within the threshold
\* (collectors/feedstock.py, policies/feedstock.py).
THEOREM FeedstockVerdictsAreLooks == Spec => []FeedstockVerdictsWereLookedFor
<1>1. IInv => FeedstockVerdictsWereLookedFor
  <2> SUFFICES ASSUME IInv, NEW r \in Derivers
               PROVE  LET reply     == ReplyAt("feedstock", runs[r].cutoff)
                          presence  == runs[r].rows.feedstock.presence
                          threshold == Parameters[runs[r].version].threshold
                      IN  /\ presence = "absent" => reply.repository = "conventional_missing" /\ reply.queue = "none"
                          /\ presence \in {"present_and_maintained", "present_and_inactive"} =>
                                 SweepAt("feedstock", runs[r].cutoff).at >= runs[r].cutoff - threshold
    BY DEF FeedstockVerdictsWereLookedFor
  <2> DEFINE cutoff    == runs[r].cutoff
             rows      == EvidenceAt(cutoff)["feedstock"]
             sweep     == SweepAt("feedstock", cutoff)
             threshold == Parameters[runs[r].version].threshold
             row       == Row(rows)
  <2>1. runs[r].rows.feedstock.presence = PresenceVerdict(row, cutoff, threshold)
    <3>1. runs[r].rows.feedstock =
              FeedstockPresence(EvidenceAt(cutoff), cutoff, threshold, runs[r].loaded.confidence)
      BY OfRun, PassRows
    <3>2. \A ev, c, t, confidence :
              FeedstockPresence(ev, c, t, confidence).presence = PresenceVerdict(Row(ev["feedstock"]), c, t)
      BY DEF FeedstockPresence
    <3> QED
      BY <3>1, <3>2
  <2>2. cutoff \in Nat /\ threshold \in Nat
    BY OfRun, VersionsAssumption DEF Readable
  <2>3. CASE rows = <<>>
    <3>1. row = None
      BY <2>3 DEF Row
    <3> QED
      BY <2>1, <3>1 DEF PresenceVerdict
  <2>4. CASE rows # <<>>
    <3>1. "feedstock" \in Tables
      BY DEF Tables
    <3>2. /\ sweep.at \in Nat /\ RowsOf(Accepts("feedstock"), rows, sweep.at)
          /\ \E findings : rows = RowsFor("feedstock", sweep.reply, sweep.at, findings)
      BY <2>4, <3>1, ReadAt, DeriversAreOpen
    <3>3. rows = FeedstockRows(sweep.reply, sweep.at)
      BY <3>2 DEF RowsFor
    <3>4. row = rows[1] /\ row # None /\ row.at = sweep.at
      BY <3>1, <3>2, RowOf
    <3>5. /\ row.established <=> (sweep.reply.repository = "conventional_missing" /\ QueueAnswered(sweep.reply.queue))
          /\ row.staged <=> Staged(sweep.reply)
      <4>1. /\ FeedstockRows(sweep.reply, sweep.at)[1].established <=>
                   (sweep.reply.repository = "conventional_missing" /\ QueueAnswered(sweep.reply.queue))
            /\ FeedstockRows(sweep.reply, sweep.at)[1].staged <=> Staged(sweep.reply)
        BY DEF FeedstockRows
      <4> HIDE DEF row, rows, sweep, cutoff, threshold
      <4> QED
        BY <3>3, <3>4, <4>1
    <3> HIDE DEF row, sweep, cutoff, threshold
    <3>6. PresenceVerdict(row, cutoff, threshold) = "absent" => row.established /\ ~row.staged
      BY <3>4 DEF PresenceVerdict
    <3>7. PresenceVerdict(row, cutoff, threshold) \in {"present_and_maintained", "present_and_inactive"} =>
              ~(cutoff - row.at > threshold)
      BY <3>4 DEF PresenceVerdict
    <3>8. PresenceVerdict(row, cutoff, threshold) = "absent" =>
              sweep.reply.repository = "conventional_missing" /\ sweep.reply.queue = "none"
      BY <3>5, <3>6 DEF QueueAnswered, Staged
    <3> QED
      BY <2>1, <2>2, <3>2, <3>4, <3>7, <3>8 DEF row, sweep, cutoff, threshold, ReplyAt
  <2> QED
    BY <2>3, <2>4
<1> QED
  BY <1>1, Invariant, PTL

\* The verdict of a finding is one of three.
LEMMA AdvisoryVerdicts ==
    ASSUME NEW findings
    PROVE  {AdvisoryVerdict(f) : f \in findings} \subseteq {"advisories_matched", "unknown", "no_advisory_matched"}
BY DEF AdvisoryVerdict

\* That no advisory matches is the reading of a source that knew the package
\* (collectors/vulnerability.py, policies/vulnerability.py).
THEOREM NoMatchIsAReading == Spec => []NothingMatchedWasRead
<1>1. IInv => NothingMatchedWasRead
  <2> SUFFICES ASSUME IInv, NEW r \in Derivers, runs[r].rows.vulnerability.status = "no_advisory_matched"
               PROVE  ReplyAt("advisories", runs[r].cutoff).said = "nothing"
    BY DEF NothingMatchedWasRead
  <2> DEFINE rows     == EvidenceAt(runs[r].cutoff)["advisories"]
             sweep    == SweepAt("advisories", runs[r].cutoff)
             verdicts == {AdvisoryVerdict(f) : f \in ToSet(rows)}
  <2>1. WorstVulnerability(verdicts) = "no_advisory_matched"
    <3>1. runs[r].rows.vulnerability =
              Vulnerability(EvidenceAt(runs[r].cutoff), Parameters[runs[r].version].severities)
      BY OfRun, PassRows
    <3>2. \A ev, order : Vulnerability(ev, order).status =
              WorstVulnerability({AdvisoryVerdict(f) : f \in ToSet(ev["advisories"])})
      BY DEF Vulnerability
    <3> QED
      BY <3>1, <3>2
  <2>2. verdicts # {} /\ \A f \in ToSet(rows) : AdvisoryVerdict(f) = "no_advisory_matched"
    <3>1. verdicts \subseteq {"advisories_matched", "unknown", "no_advisory_matched"}
      BY AdvisoryVerdicts
    <3>2. verdicts # {} /\ "advisories_matched" \notin verdicts /\ "unknown" \notin verdicts
      <4> HIDE DEF verdicts
      <4> QED
        BY <2>1, <3>1, VulnerabilityReduced
    <3> QED
      BY <3>1, <3>2
  <2>3. rows # <<>>
    BY <2>2 DEF ToSet
  <2>4. "advisories" \in Tables
    BY DEF Tables
  <2>5. /\ sweep.at \in Nat /\ RowsOf(Accepts("advisories"), rows, sweep.at)
        /\ sweep.reply \in Replies("advisories", sweep.at)
        /\ \E findings : rows = RowsFor("advisories", sweep.reply, sweep.at, findings)
    BY <2>3, <2>4, ReadAt, DeriversAreOpen
  <2>6. rows = VulnerabilityRows(sweep.reply, sweep.at) /\ sweep.reply \in VulnerabilityReplies
    BY <2>5 DEF RowsFor, Replies
  <2>7. 1 \in DOMAIN rows /\ rows[1] \in ToSet(rows)
    BY <2>5, RowsHeld
  <2>8. ~IsMatched(rows[1]) /\ rows[1].nothing
    BY <2>2, <2>7 DEF AdvisoryVerdict
  <2>9. sweep.reply.said = "nothing"
    <3> HIDE DEF rows, sweep, verdicts
    <3> QED
      BY <2>6, <2>7, <2>8 DEF VulnerabilityRows, AdvisoryRow
  <2> QED
    BY <2>9 DEF ReplyAt
<1> QED
  BY <1>1, Invariant, PTL

\* What a restrictive rule says restricts.
LEMMA RestrictiveRuled ==
    ASSUME NEW expression, NEW rules, LicenseRulesRead(rules), RestrictiveRule(expression, rules) # None
    PROVE  rules[RestrictiveRule(expression, rules)] \in {"forbidden", "restricted"}
<1> DEFINE ruled == {e \in Operands[expression] \cap DOMAIN rules : rules[e] \in {"forbidden", "restricted"}}
           verdicts == {rules[e] : e \in ruled}
           worst == WorstLicense(verdicts)
<1>1. ruled # {} /\ RestrictiveRule(expression, rules) = CHOOSE e \in ruled : rules[e] = worst
  BY DEF RestrictiveRule
<1>2. verdicts \subseteq {"forbidden", "restricted", "unknown", "manual_review", "allowed"}
      /\ verdicts \subseteq {"forbidden", "restricted"} /\ verdicts # {}
  BY <1>1
<1>3. worst \in verdicts
  <2> HIDE DEF verdicts
  <2> QED
    BY <1>2, LicenseReduced
<1>4. \E e \in ruled : rules[e] = worst
  BY <1>3
<1>5. RestrictiveRule(expression, rules) \in ruled
  <2> HIDE DEF ruled, worst
  <2> QED
    BY <1>1, <1>4
<1> QED
  BY <1>5

\* What each finding says of a licence.
LEMMA LicenseVerdicts ==
    ASSUME NEW rules, LicenseRulesRead(rules), NEW finding
    PROVE  LET verdict == LicenseVerdict(finding, rules)
               rule    == DecidingRule(finding.expression, rules)
           IN  /\ verdict \in {"forbidden", "restricted", "unknown", "manual_review", "allowed"}
               /\ verdict # "unknown" => finding.state = "normalized"
               /\ verdict = "allowed" => /\ finding.expression \in DOMAIN rules
                                         /\ rules[finding.expression] = "allowed"
               /\ verdict \in RuledLicenses => rule # None
<1> DEFINE rule == DecidingRule(finding.expression, rules)
<1>1. rule # None => \/ /\ finding.expression \in DOMAIN rules /\ rule = finding.expression
                        /\ rules[rule] \in RuledLicenses
                     \/ rules[rule] \in {"forbidden", "restricted"}
  <2>1. CASE finding.expression \in DOMAIN rules
    BY <2>1 DEF DecidingRule, LicenseRulesRead
  <2>2. CASE finding.expression \notin DOMAIN rules
    BY <2>2, RestrictiveRuled DEF DecidingRule
  <2> QED
    BY <2>1, <2>2
<1>2. LicenseVerdict(finding, rules) =
          IF finding.state # "normalized" THEN "unknown" ELSE IF rule = None THEN "manual_review" ELSE rules[rule]
  BY DEF LicenseVerdict, ExpressionVerdict
<1> HIDE DEF rule
<1> QED
  BY <1>1, <1>2 DEF RuledLicenses, rule

\* A licence is allowed where every channel that serves the package was read
\* and states one a rule allows (collectors/license.py, policies/licence.py).
THEOREM AllowedWasRead == Spec => []AllowedByEveryChannel
<1>1. IInv => AllowedByEveryChannel
  <2> SUFFICES ASSUME IInv, NEW r \in Derivers, runs[r].rows.licence.outcome = "allowed"
               PROVE  LET reply == ReplyAt("licence", runs[r].cutoff)
                          rules == Parameters[runs[r].version].licences
                      IN  /\ ToSet(reply) \cap DOMAIN rules # {}
                          /\ \A stated \in ToSet(reply) \ {"missing"} :
                                 stated \in DOMAIN rules /\ rules[stated] = "allowed"
    BY DEF AllowedByEveryChannel
  <2> DEFINE ev       == EvidenceAt(runs[r].cutoff)
             rows     == ev["licence"]
             sweep    == SweepAt("licence", runs[r].cutoff)
             rules    == Parameters[runs[r].version].licences
             voting   == Contributing(ev)
             verdicts == {LicenseVerdict(f, rules) : f \in voting}
  <2>1. WorstLicense(verdicts) = "allowed"
    <3>1. runs[r].rows.licence = License(ev, rules)
      BY OfRun, PassRows
    <3>2. \A e, p : License(e, p).outcome = WorstLicense({LicenseVerdict(f, p) : f \in Contributing(e)})
      BY DEF License
    <3> QED
      BY <3>1, <3>2
  <2>2. LicenseRulesRead(rules)
    BY OfRun, VersionsAssumption DEF Readable
  <2>3. verdicts # {} /\ \A f \in voting : LicenseVerdict(f, rules) = "allowed"
    <3>1. verdicts \subseteq {"forbidden", "restricted", "unknown", "manual_review", "allowed"}
      BY <2>2, LicenseVerdicts
    <3>2. /\ verdicts # {} /\ "forbidden" \notin verdicts /\ "restricted" \notin verdicts
          /\ "unknown" \notin verdicts /\ "manual_review" \notin verdicts
      <4> HIDE DEF verdicts
      <4> QED
        BY <2>1, <3>1, LicenseReduced
    <3> QED
      BY <3>1, <3>2
  <2>4. voting # {} /\ \A f \in voting : /\ f.state = "normalized" /\ f.expression \in DOMAIN rules
                                         /\ rules[f.expression] = "allowed"
    <3>1. \A f \in voting : /\ f.state = "normalized" /\ f.expression \in DOMAIN rules
                            /\ rules[f.expression] = "allowed"
      <4> HIDE DEF voting, rules
      <4> QED
        BY <2>2, <2>3, LicenseVerdicts
    <3> QED
      BY <2>3, <3>1
  <2>5. rows # <<>>
    BY <2>4 DEF Contributing, ToSet
  <2>6. "licence" \in Tables
    BY DEF Tables
  <2>7. /\ sweep.at \in Nat /\ sweep.reply \in Replies("licence", sweep.at)
        /\ \E findings : rows = RowsFor("licence", sweep.reply, sweep.at, findings)
    BY <2>5, <2>6, ReadAt, DeriversAreOpen
  <2>8. rows = LicenseRows(sweep.reply, sweep.at) /\ sweep.reply \in LicenseReplies
    BY <2>7 DEF RowsFor, Replies
  <2> HIDE DEF sweep, rules, verdicts
  <2> DEFINE reply == sweep.reply
             asked == LaterReply(reply)
  <2>9. /\ reply[1] \in {"failed", "missing", "none"} \cup Expressions
        /\ reply[2] \in {"failed", "missing", "none"} \cup Expressions
        /\ asked = IF reply[1] = "failed" THEN "failed" ELSE reply[2]
        /\ ToSet(reply) = {reply[1], reply[2]}
    BY <2>8 DEF LicenseReplies, LaterReply, ToSet
  <2>10. rows[1] = LicenseRow(Channels[1], reply[1], sweep.at) /\ rows[2] = LicenseRow(Channels[2], asked, sweep.at)
         /\ ToSet(rows) = {rows[1], rows[2]}
    BY <2>8 DEF LicenseRows, ToSet
  <2>11. ASSUME NEW channel, NEW stated \in {"failed", "missing", "none"} \cup Expressions,
                LicenseRow(channel, stated, sweep.at) \in voting
         PROVE  stated \in Expressions /\ stated \in DOMAIN rules /\ rules[stated] = "allowed"
    <3> DEFINE row == LicenseRow(channel, stated, sweep.at)
    <3>1. row.state = "normalized" => stated \notin {"failed", "missing", "none"}
      BY DEF LicenseRow
    <3>2. row.state = "normalized" /\ row.expression \in DOMAIN rules /\ rules[row.expression] = "allowed"
      BY <2>4, <2>11
    <3>3. stated \in Expressions
      BY <3>1, <3>2
    <3>4. row.expression = stated
      BY <3>3 DEF LicenseRow
    <3> HIDE DEF row
    <3> QED
      BY <3>2, <3>3, <3>4
  <2>12. ASSUME NEW channel, NEW stated \in {"failed", "missing", "none"} \cup Expressions,
                LicenseRow(channel, stated, sweep.at) \in ToSet(rows)
         PROVE  stated = "missing" \/ LicenseRow(channel, stated, sweep.at) \in voting
    <3>1. LicenseRow(channel, stated, sweep.at).state = "not_found" => stated = "missing"
      BY DEF LicenseRow
    <3> HIDE DEF rows
    <3> QED
      BY <2>12, <3>1 DEF Contributing, rows
  <2> HIDE DEF rows, voting
  <2>13. /\ reply[1] = "missing" \/ (reply[1] \in Expressions /\ reply[1] \in DOMAIN rules /\ rules[reply[1]] = "allowed")
         /\ asked = "missing" \/ (asked \in Expressions /\ asked \in DOMAIN rules /\ rules[asked] = "allowed")
    <3>1. LicenseRow(Channels[1], reply[1], sweep.at) \in ToSet(rows) /\ LicenseRow(Channels[2], asked, sweep.at) \in ToSet(rows)
      BY <2>10
    <3>2. asked \in {"failed", "missing", "none"} \cup Expressions
      BY <2>9
    <3> HIDE DEF asked, reply
    <3> QED
      BY <2>9, <2>11, <2>12, <3>1, <3>2
  <2>14. reply[1] # "failed" /\ asked = reply[2]
    BY <2>9, <2>13, NoneAssumption
  <2>15. ~(reply[1] = "missing" /\ reply[2] = "missing")
    <3> SUFFICES ASSUME reply[1] = "missing", asked = "missing" PROVE FALSE
      BY <2>14
    <3>1. \A row \in ToSet(rows) : row.state = "not_found"
      <4>1. \A channel : LicenseRow(channel, "missing", sweep.at).state = "not_found"
        BY DEF LicenseRow
      <4> HIDE DEF reply, asked
      <4> QED
        BY <2>10, <4>1
    <3>2. voting = {}
      BY <3>1 DEF voting, rows, Contributing
    <3> QED
      BY <2>4, <3>2
  <2> HIDE DEF reply, asked
  <2>16. /\ ToSet(reply) \cap DOMAIN rules # {}
         /\ \A stated \in ToSet(reply) \ {"missing"} : stated \in DOMAIN rules /\ rules[stated] = "allowed"
    BY <2>9, <2>13, <2>14, <2>15
  <2> QED
    BY <2>16 DEF reply, sweep, rules, ReplyAt
<1> QED
  BY <1>1, Invariant, PTL

\* Absence, no match and an allowed licence were each read.
THEOREM SilenceIsNotClean == Spec => []NoCleanVerdictOutOfSilence
BY FeedstockVerdictsAreLooks, NoMatchIsAReading, AllowedWasRead, PTL DEF NoCleanVerdictOutOfSilence

-----------------------------------------------------------------------------
(* The passes of one run tell one story *)

\* A reading that matched nothing matched nothing.
LEMMA AdvisoriesRead ==
    ASSUME IInv, NEW r \in Opened
    PROVE  LET rows == EvidenceAt(runs[r].cutoff)["advisories"]
           IN  /\ DOMAIN rows \subseteq Nat
               /\ \A f \in ToSet(rows) : f \in AdvisoryAccepts /\ f # None
               /\ \A i \in DOMAIN rows : rows[i] \in ToSet(rows)
               /\ \A f \in ToSet(rows) : \E i \in DOMAIN rows : f = rows[i]
<1> DEFINE rows == EvidenceAt(runs[r].cutoff)["advisories"]
           at   == SweepAt("advisories", runs[r].cutoff).at
<1>1. "advisories" \in Tables /\ Accepts("advisories") = AdvisoryAccepts
  BY DEF Tables, Accepts
<1>2. CASE rows = <<>>
  BY <1>2 DEF ToSet
<1>3. CASE rows # <<>>
  <2>1. RowsOf(AdvisoryAccepts, rows, at)
    BY <1>1, <1>3, ReadAt
  <2>2. None \notin AdvisoryAccepts
    BY <1>1, NothingAssumption
  <2> HIDE DEF rows, at
  <2>3. /\ DOMAIN rows \subseteq Nat
        /\ \A f \in ToSet(rows) : f \in AdvisoryAccepts
    BY <2>1, RowsHeld
  <2>4. \A i \in DOMAIN rows : rows[i] \in ToSet(rows)
    BY DEF ToSet
  <2>5. \A f \in ToSet(rows) : \E i \in DOMAIN rows : f = rows[i]
    BY DEF ToSet
  <2> QED
    BY <2>2, <2>3, <2>4, <2>5 DEF rows
<1> QED
  BY <1>2, <1>3

\* What a match's remediation can read.
LEMMA FindingReadinesses ==
    ASSUME NEW ev, NEW f, NEW cutoff
    PROVE  FindingReadiness(ev, f, cutoff) \in {"unknown", "awaiting_packaging", "awaiting_build", "ready"}
BY DEF FindingReadiness

\* What remediation reads, in two cases: nothing fresh matches, or something does.
LEMMA RemediationRead ==
    ASSUME NEW ev, NEW cutoff
    PROVE  LET row       == Remediation(ev, cutoff)
               findings  == ev["advisories"]
               stale     == IsStale("advisories", Row(findings), cutoff)
               read      == {FindingReadiness(ev, f, cutoff) : f \in MatchedIn(ev)}
               wanted    == {f \in MatchedIn(ev) : FindingReadiness(ev, f, cutoff) = row.readiness}
           IN  /\ (stale \/ MatchedIn(ev) = {}) =>
                      /\ row.readiness \in {"unknown", "not_applicable"}
                      /\ row.readiness = "not_applicable" =>
                             findings # <<>> /\ MatchedIn(ev) = {} /\ \A f \in ToSet(findings) : f.nothing
               /\ ~(stale \/ MatchedIn(ev) = {}) =>
                      /\ row.readiness \in read /\ row.readiness = WorstReadiness(read)
                      /\ row.readiness \in {"unknown", "awaiting_packaging", "awaiting_build", "ready"}
                      /\ row.finding = First(findings, wanted)
<1> DEFINE row       == Remediation(ev, cutoff)
           findings  == ev["advisories"]
           stale     == IsStale("advisories", Row(findings), cutoff)
           read      == {FindingReadiness(ev, f, cutoff) : f \in MatchedIn(ev)}
           wanted    == {f \in MatchedIn(ev) : FindingReadiness(ev, f, cutoff) = row.readiness}
<1>1. CASE stale \/ MatchedIn(ev) = {}
  BY <1>1 DEF Remediation
<1>2. CASE ~(stale \/ MatchedIn(ev) = {})
  <2>1. row.readiness = WorstReadiness(read) /\ row.finding = First(findings, wanted)
    BY <1>2 DEF Remediation
  <2>2. read # {} /\ read \subseteq {"unknown", "awaiting_packaging", "awaiting_build", "ready"}
    BY <1>2, FindingReadinesses
  <2>3. WorstReadiness(read) \in read
    <3>1. read \subseteq {"blocked", "unknown", "awaiting_packaging", "awaiting_build", "ready"}
      BY <2>2
    <3> HIDE DEF read
    <3>2. WorstReadiness(read) \in {"blocked", "unknown", "awaiting_packaging", "awaiting_build", "ready"}
      BY <2>2, <3>1, ReadinessReduced
    <3>3. PICK f \in read : TRUE
      BY <2>2
    <3>4. f = "unknown" \/ f = "awaiting_packaging" \/ f = "awaiting_build" \/ f = "ready"
      BY <2>2
    <3>5. WorstReadiness(read) =
              IF "blocked" \in read THEN "blocked"
              ELSE IF "unknown" \in read THEN "unknown"
              ELSE IF "awaiting_packaging" \in read THEN "awaiting_packaging"
              ELSE IF "awaiting_build" \in read THEN "awaiting_build" ELSE "ready"
      BY <2>2, <3>1, ReadinessReduced
    <3>6. "blocked" \notin read
      BY <2>2
    <3> QED
      BY <3>3, <3>4, <3>5, <3>6
  <2> HIDE DEF row, read
  <2>4. row.readiness \in {"unknown", "awaiting_packaging", "awaiting_build", "ready"}
    BY <2>1, <2>2, <2>3
  <2> QED
    BY <1>2, <2>1, <2>3, <2>4 DEF row, read
<1> QED
  BY <1>1, <1>2

\* The order of the work types: fixing what is vulnerable comes first, and every
\* rule names a work type.
LEMMA WorkTypesRead ==
    /\ DOMAIN WorkTypePrecedence \subseteq Nat /\ 1 \in DOMAIN WorkTypePrecedence
    /\ \A i \in DOMAIN WorkTypePrecedence : 1 <= i
    /\ WorkTypePrecedence[1] = FixFirst
    /\ \A i \in DOMAIN WorkTypePrecedence :
           WorkTypePrecedence[i] \in ToSet(WorkTypePrecedence) /\ WorkTypePrecedence[i].work \in WorkTypes
    /\ \A rule \in ToSet(WorkTypePrecedence) : \E i \in DOMAIN WorkTypePrecedence : rule = WorkTypePrecedence[i]
<1> DEFINE first == <<FixFirst, ReviewNext>>
<1>1. WorkTypePrecedence = first \o LesserWork
  BY DEF WorkTypePrecedence
<1>2. first \in Seq({FixFirst, ReviewNext}) /\ Len(first) = 2 /\ first[1] = FixFirst /\ first[2] = ReviewNext
  OBVIOUS
<1>3. DOMAIN LesserWork = 1..5 /\ Len(LesserWork) = 5 /\ \A i \in 1..5 : LesserWork[i].work \in WorkTypes
  BY DEF LesserWork, Recommend, WorkTypes
<1>7. LesserWork \in Seq({LesserWork[i] : i \in 1..5})
  BY DEF LesserWork
<1>4. FixFirst.work \in WorkTypes /\ ReviewNext.work \in WorkTypes
  BY DEF FixFirst, ReviewNext, Recommend, WorkTypes
<1> HIDE DEF first
<1>5. /\ DOMAIN (first \o LesserWork) = 1..7
      /\ \A i \in 1..7 : (first \o LesserWork)[i] = IF i <= 2 THEN first[i] ELSE LesserWork[i - 2]
  <2> DEFINE S == {FixFirst, ReviewNext} \cup {LesserWork[i] : i \in 1..5}
  <2>1. first \in Seq(S) /\ LesserWork \in Seq(S)
    BY <1>2, <1>7
  <2>2. Len(first) = 2 /\ Len(LesserWork) = 5
    BY <1>2, <1>3
  <2> HIDE DEF S
  <2>6. Len(first \o LesserWork) = Len(first) + Len(LesserWork)
    BY <2>1
  <2>7. first \o LesserWork \in Seq(S)
    BY <2>1
  <2>8. \A i \in 1..(Len(first) + Len(LesserWork)) :
            (first \o LesserWork)[i] = IF i <= Len(first) THEN first[i] ELSE LesserWork[i - Len(first)]
    BY <2>1
  <2>3. Len(first \o LesserWork) = 7 /\ first \o LesserWork \in Seq(S)
    BY <2>2, <2>6, <2>7
  <2>4. DOMAIN (first \o LesserWork) = 1..7
    BY <2>3
  <2>5. \A i \in 1..7 : (first \o LesserWork)[i] = IF i <= 2 THEN first[i] ELSE LesserWork[i - 2]
    <3> SUFFICES ASSUME NEW i \in 1..7
                 PROVE  (first \o LesserWork)[i] = IF i <= 2 THEN first[i] ELSE LesserWork[i - 2]
      OBVIOUS
    <3>1. i \in 1..(Len(first) + Len(LesserWork))
      BY <2>2
    <3>2. (first \o LesserWork)[i] = IF i <= Len(first) THEN first[i] ELSE LesserWork[i - Len(first)]
      BY <2>8, <3>1
    <3> QED
      BY <2>2, <3>2
  <2> QED
    BY <2>4, <2>5
<1>6. \A i \in 1..7 : WorkTypePrecedence[i].work \in WorkTypes
  <2> SUFFICES ASSUME NEW i \in 1..7 PROVE WorkTypePrecedence[i].work \in WorkTypes
    OBVIOUS
  <2>1. CASE i <= 2
    <3>1. i = 1 \/ i = 2
      BY <2>1
    <3> QED
      BY <1>1, <1>2, <1>4, <1>5, <3>1
  <2>2. CASE ~(i <= 2)
    <3>1. i - 2 \in 1..5
      BY <2>2
    <3> QED
      BY <1>1, <1>3, <1>5, <2>2, <3>1
  <2> QED
    BY <2>1, <2>2
<1>8. DOMAIN WorkTypePrecedence = 1..7 /\ WorkTypePrecedence[1] = FixFirst
  BY <1>1, <1>2, <1>5
<1>9. ToSet(WorkTypePrecedence) = {WorkTypePrecedence[i] : i \in 1..7}
  BY <1>8 DEF ToSet
<1> QED
  BY <1>6, <1>8, <1>9

\* A verdict some work type answers is given work, and a match that of fixing it.
LEMMA WorkGiven ==
    ASSUME NEW verdicts
    PROVE  /\ WorkType(verdicts) \in WorkTypes \cup {"unknown"}
           /\ (\E rule \in ToSet(WorkTypePrecedence) :
                  rule.domain \in DOMAIN verdicts /\ verdicts[rule.domain] \in rule.verdicts) =>
                  WorkType(verdicts) \in WorkTypes
           /\ ("vulnerability" \in DOMAIN verdicts /\ verdicts["vulnerability"] = "advisories_matched") =>
                  WorkType(verdicts) = "fix_vulnerability"
<1> DEFINE order  == WorkTypePrecedence
           wanted == {rule \in ToSet(WorkTypePrecedence) :
                         rule.domain \in DOMAIN verdicts /\ verdicts[rule.domain] \in rule.verdicts}
           rule   == First(order, wanted)
<1>1. WorkType(verdicts) = IF rule = None THEN "unknown" ELSE rule.work
  BY DEF WorkType
<1>2. /\ (\A i \in DOMAIN order : order[i] \notin wanted) => rule = None
      /\ (\E i \in DOMAIN order : order[i] \in wanted) =>
             \E i \in DOMAIN order : /\ rule = order[i] /\ order[i] \in wanted
                                     /\ \A j \in DOMAIN order : order[j] \in wanted => i <= j
  BY WorkTypesRead, FirstOf
<1>3. \A i \in DOMAIN order : order[i] # None /\ order[i].work \in WorkTypes
  BY WorkTypesRead, NoneAssumption
<1>4. FixFirst.domain = "vulnerability" /\ FixFirst.verdicts = {"advisories_matched"}
      /\ FixFirst.work = "fix_vulnerability"
  BY DEF FixFirst, Recommend
<1>5. ("vulnerability" \in DOMAIN verdicts /\ verdicts["vulnerability"] = "advisories_matched") => order[1] \in wanted
  BY <1>4, WorkTypesRead
<1>6. order[1] \in wanted => rule = order[1]
  <2> SUFFICES ASSUME order[1] \in wanted PROVE rule = order[1]
    OBVIOUS
  <2> HIDE DEF wanted, rule
  <2>1. PICK i \in DOMAIN order : rule = order[i] /\ \A j \in DOMAIN order : order[j] \in wanted => i <= j
    BY <1>2, WorkTypesRead
  <2>2. i <= 1 /\ 1 <= i /\ i \in Nat
    BY <2>1, WorkTypesRead
  <2>3. i = 1
    BY <2>2
  <2> QED
    BY <2>1, <2>3
<1>7. WorkType(verdicts) \in WorkTypes \cup {"unknown"}
  <2> HIDE DEF wanted, rule, order
  <2> QED
    BY <1>1, <1>2, <1>3
<1>8. (\E w \in ToSet(WorkTypePrecedence) : w \in wanted) => WorkType(verdicts) \in WorkTypes
  <2>1. (\E w \in ToSet(WorkTypePrecedence) : w \in wanted) => \E i \in DOMAIN order : order[i] \in wanted
    BY WorkTypesRead
  <2> HIDE DEF wanted, rule, order
  <2> QED
    BY <1>1, <1>2, <1>3, <2>1
<1>9. order[1] \in wanted => WorkType(verdicts) = "fix_vulnerability"
  <2> HIDE DEF wanted, rule
  <2> QED
    BY <1>1, <1>3, <1>4, <1>6, WorkTypesRead
<1> QED
  BY <1>5, <1>7, <1>8, <1>9

\* The rule a package is put in its bucket by.
LEMMA RuleApplied ==
    ASSUME NEW verdicts, NEW version \in Versions, NEW score
    PROVE  LET rules == Parameters[version].buckets
               row   == Priority(verdicts, rules, score)
           IN  \/ row.rule = None /\ row.bucket = "unknown"
               \/ /\ row.rule # None /\ row.rule \in ToSet(rules) /\ row.bucket = row.rule.bucket
                  /\ row.bucket \in Buckets /\ Meets(verdicts, row.rule.when)
<1> DEFINE rules  == Parameters[version].buckets
           wanted == {rule \in ToSet(rules) : Meets(verdicts, rule.when)}
           rule   == First(rules, wanted)
<1>1. /\ rules \in Seq(ToSet(rules)) /\ None \notin ToSet(rules)
      /\ \A w \in ToSet(rules) : w.bucket \in Buckets
  BY VersionsAssumption, NothingAssumption DEF Readable, PriorityRulesRead
<1>2. Priority(verdicts, rules, score) =
          [bucket |-> IF rule = None THEN "unknown" ELSE rule.bucket, rule |-> rule, score |-> score]
  BY DEF Priority
<1>3. rule = None \/ rule \in wanted
  <2>1. DOMAIN rules \subseteq Nat
    <3> HIDE DEF rules
    <3>1. DOMAIN rules = 1..Len(rules) /\ Len(rules) \in Nat
      BY <1>1
    <3> QED
      BY <3>1
  <2> HIDE DEF rules, wanted
  <2> QED
    BY <2>1, FirstOf
<1> HIDE DEF rule
<1> QED
  BY <1>1, <1>2, <1>3

LEMMA LastPasses ==
    ASSUME NEW loaded, NEW cutoff, NEW version
    PROVE  \E verdicts, score :
               LET rows == Derived(loaded, cutoff, version)
               IN  /\ rows.work_type = WorkType(verdicts)
                   /\ rows.priority = Priority(verdicts, Parameters[version].buckets, score)
                   /\ score = UsageScore(Row(EvidenceAt(cutoff)["inventory"]), Parameters[version].weights)
BY DEF Derived

\* Under rules whose every bucket asks for something some work type answers,
\* what can be fixed matched, what needs no fix did not, and a package in a
\* bucket has work to do (policies/remediation.py, priority.py, work_type.py).
THEOREM OneStory ==
    ASSUME \A version \in Versions : AnsweredByWork(Parameters[version].buckets)
    PROVE  Spec => []PassesAgree
<1>1. IInv => PassesAgree
  <2> SUFFICES ASSUME IInv, NEW r \in Derivers
               PROVE  LET rows == runs[r].rows
                      IN  /\ rows.remediation.readiness \in DecidedReadiness =>
                                 rows.vulnerability.status = "advisories_matched"
                          /\ rows.remediation.readiness = "not_applicable" =>
                                 rows.vulnerability.status = "no_advisory_matched"
                          /\ rows.priority.bucket \in Buckets => rows.work_type \in WorkTypes
                          /\ rows.priority.bucket \in {"p1", "p2", "p3"} => rows.work_type = "fix_vulnerability"
    BY DEF PassesAgree
  <2> DEFINE rows     == runs[r].rows
             version  == runs[r].version
             ev       == EvidenceAt(runs[r].cutoff)
             findings == ToSet(ev["advisories"])
             said     == {AdvisoryVerdict(f) : f \in findings}
  <2>1. rows.vulnerability.status = WorstVulnerability(said)
    <3>1. rows.vulnerability = Vulnerability(ev, Parameters[version].severities)
      BY OfRun, PassRows
    <3>2. \A e, order : Vulnerability(e, order).status =
              WorstVulnerability({AdvisoryVerdict(f) : f \in ToSet(e["advisories"])})
      BY DEF Vulnerability
    <3> QED
      BY <3>1, <3>2
  <2>2. said \subseteq {"advisories_matched", "unknown", "no_advisory_matched"}
    BY AdvisoryVerdicts
  <2>3. rows.remediation = Remediation(ev, runs[r].cutoff)
    BY OfRun, PassRows
  <2>4. rows.remediation.readiness \in DecidedReadiness => rows.vulnerability.status = "advisories_matched"
    <3> SUFFICES ASSUME rows.remediation.readiness \in DecidedReadiness
                 PROVE  rows.vulnerability.status = "advisories_matched"
      OBVIOUS
    <3>1. MatchedIn(ev) # {}
      BY <2>3, RemediationRead DEF DecidedReadiness
    <3>2. "advisories_matched" \in said
      BY <3>1 DEF MatchedIn, AdvisoryVerdict
    <3> HIDE DEF said
    <3> QED
      BY <2>1, <2>2, <3>2, VulnerabilityReduced
  <2>5. rows.remediation.readiness = "not_applicable" => rows.vulnerability.status = "no_advisory_matched"
    <3> SUFFICES ASSUME rows.remediation.readiness = "not_applicable"
                 PROVE  rows.vulnerability.status = "no_advisory_matched"
      OBVIOUS
    <3>1. ev["advisories"] # <<>> /\ MatchedIn(ev) = {} /\ \A f \in findings : f.nothing
      BY <2>3, RemediationRead
    <3>2. \A f \in findings : AdvisoryVerdict(f) = "no_advisory_matched"
      BY <3>1 DEF MatchedIn, AdvisoryVerdict
    <3>3. findings # {}
      <4>1. "advisories" \in Tables
        BY DEF Tables
      <4>2. RowsOf(Accepts("advisories"), ev["advisories"], SweepAt("advisories", runs[r].cutoff).at)
        BY <3>1, <4>1, ReadAt, DeriversAreOpen
      <4> QED
        BY <4>2, RowsHeld
    <3>4. said = {"no_advisory_matched"}
      BY <3>2, <3>3
    <3> HIDE DEF said
    <3> QED
      BY <2>1, <3>4, VulnerabilityReduced
  <2>6. PICK verdicts, score : /\ rows.work_type = WorkType(verdicts)
                               /\ rows.priority = Priority(verdicts, Parameters[version].buckets, score)
    BY OfRun, LastPasses
  <2>9. \/ rows.priority.rule = None /\ rows.priority.bucket = "unknown"
        \/ /\ rows.priority.rule # None /\ rows.priority.rule \in ToSet(Parameters[version].buckets)
           /\ rows.priority.bucket = rows.priority.rule.bucket /\ Meets(verdicts, rows.priority.rule.when)
    <3>1. PICK v \in Versions : v = version
      BY OfRun
    <3> DEFINE row == Priority(verdicts, Parameters[v].buckets, score)
    <3>2. \/ row.rule = None /\ row.bucket = "unknown"
          \/ /\ row.rule # None /\ row.rule \in ToSet(Parameters[v].buckets)
             /\ row.bucket = row.rule.bucket /\ Meets(verdicts, row.rule.when)
      BY RuleApplied
    <3>3. rows.priority = row
      BY <2>6, <3>1
    <3> HIDE DEF rows, version, row
    <3> QED
      BY <3>1, <3>2, <3>3
  <2>7. CASE rows.priority.rule = None
    <3>1. rows.priority.bucket = "unknown"
      BY <2>7, <2>9
    <3> QED
      BY <2>4, <2>5, <3>1 DEF Buckets
  <2>8. CASE rows.priority.rule # None
    <3> DEFINE rule == rows.priority.rule
    <3>1. /\ rule \in ToSet(Parameters[version].buckets) /\ rows.priority.bucket = rule.bucket
          /\ Meets(verdicts, rule.when)
      BY <2>8, <2>9
    <3>2. /\ \E domain \in DOMAIN rule.when, work \in ToSet(WorkTypePrecedence) :
                 work.domain = domain /\ rule.when[domain] \in work.verdicts
          /\ rule.bucket \in {"p1", "p2", "p3"} =>
                 "vulnerability" \in DOMAIN rule.when /\ rule.when["vulnerability"] = "advisories_matched"
      BY <3>1, OfRun DEF AnsweredByWork
    <3> HIDE DEF rule, rows
    <3>3. WorkType(verdicts) \in WorkTypes
      BY <3>1, <3>2, WorkGiven DEF Meets
    <3>4. rule.bucket \in {"p1", "p2", "p3"} => WorkType(verdicts) = "fix_vulnerability"
      BY <3>1, <3>2, WorkGiven DEF Meets
    <3> QED
      BY <2>4, <2>5, <2>6, <3>1, <3>3, <3>4 DEF rows
  <2> QED
    BY <2>7, <2>8
<1> QED
  BY <1>1, Invariant, PTL

-----------------------------------------------------------------------------
(* Verdicts rest on fresh evidence *)

\* What a table says at a run's cut-off: nothing, or rows it accepts.
LEMMA TableRead ==
    ASSUME IInv, NEW r \in Opened, NEW table \in Tables
    PROVE  LET rows == EvidenceAt(runs[r].cutoff)[table]
               at   == SweepAt(table, runs[r].cutoff).at
           IN  /\ DOMAIN rows \subseteq Nat
               /\ \A i \in DOMAIN rows : rows[i] \in ToSet(rows)
               /\ \A row \in ToSet(rows) : /\ row \in Accepts(table) /\ row # None /\ row.at = at
                                           /\ \E i \in DOMAIN rows : row = rows[i]
               /\ rows = <<>> => Row(rows) = None
               /\ rows # <<>> => /\ Row(rows) = rows[1] /\ Row(rows) # None /\ Row(rows) \in Accepts(table)
                                 /\ Row(rows).at = at /\ at \in Nat /\ Row(rows) \in ToSet(rows)
<1> DEFINE rows == EvidenceAt(runs[r].cutoff)[table]
           at   == SweepAt(table, runs[r].cutoff).at
<1>1. CASE rows = <<>>
  BY <1>1 DEF ToSet, Row
<1>2. CASE rows # <<>>
  <2>1. RowsOf(Accepts(table), rows, at) /\ at \in Nat
    BY <1>2, ReadAt
  <2> HIDE DEF rows, at
  <2>2. /\ DOMAIN rows \subseteq Nat /\ 1 \in DOMAIN rows
        /\ \A i \in DOMAIN rows : rows[i] \in ToSet(rows)
        /\ \A row \in ToSet(rows) : row \in Accepts(table) /\ row.at = at /\ \E i \in DOMAIN rows : row = rows[i]
    BY <2>1, RowsHeld
  <2>3. /\ Row(rows) = rows[1] /\ Row(rows) # None /\ Row(rows) \in Accepts(table) /\ Row(rows).at = at
    BY <2>1, RowOf
  <2>4. None \notin Accepts(table)
    BY NothingAssumption
  <2> QED
    BY <1>2, <2>1, <2>2, <2>3, <2>4 DEF rows, at
<1> QED
  BY <1>1, <1>2

LEMMA NotStale ==
    ASSUME NEW table \in {"source", "pypi", "feedstock", "conda", "advisories", "kev", "assessment", "verification"},
           NEW row, row # None, row.at \in Nat, NEW cutoff \in Nat, ~IsStale(table, row, cutoff)
    PROVE  row.at >= cutoff - FreshFor[table]
<1>1. FreshFor[table] \in Nat
  BY FreshnessAssumption DEF SurfaceSet
<1>2. ~(row.at < cutoff - FreshFor[table])
  BY DEF IsStale
<1> QED
  BY <1>1, <1>2

\* A readiness for the series is a reading, and the build's is read first.
LEMMA PythonRead ==
    ASSUME NEW ev, NEW cutoff
    PROVE  LET verified == FreshReading(ev, "verification", cutoff)
               inferred == FreshReading(ev, "assessment", cutoff)
               answer   == PythonReadiness(ev, cutoff).readiness
           IN  \/ answer = "not_applicable"
               \/ verified # "" /\ answer = verified
               \/ verified = "" /\ inferred # "" /\ answer = inferred
               \/ verified = "" /\ inferred = "" /\ answer = "unknown"
BY DEF PythonReadiness

\* What a fresh row reads.
LEMMA FreshReadings ==
    ASSUME IInv, NEW r \in Opened, NEW table \in {"assessment", "verification"}
    PROVE  LET cutoff  == runs[r].cutoff
               ev      == EvidenceAt(cutoff)
               reading == FreshReading(ev, table, cutoff)
           IN  /\ reading # "" => ev[table] # <<>> /\ ev[table][1].at >= cutoff - FreshFor[table]
               /\ reading \in {""} \cup (IF table = "verification" THEN VerifiedReadiness ELSE InferredReadiness)
<1> DEFINE cutoff  == runs[r].cutoff
           ev      == EvidenceAt(cutoff)
           row     == Row(ev[table])
           reading == FreshReading(ev, table, cutoff)
<1>1. table \in Tables /\ cutoff \in Nat
  BY OpenRun DEF Tables
<1>2. reading = IF row = None \/ IsStale(table, row, cutoff) THEN "" ELSE Reading(row)
  BY DEF FreshReading
<1>3. CASE row = None
  BY <1>2, <1>3
<1>4. CASE row # None
  <2>1. /\ ev[table] # <<>> /\ row = ev[table][1] /\ row \in Accepts(table)
        /\ row.at = SweepAt(table, runs[r].cutoff).at /\ SweepAt(table, runs[r].cutoff).at \in Nat
    BY <1>1, <1>4, TableRead
  <2>2. row.at \in Nat
    BY <2>1
  <2>3. reading # "" => row.at >= cutoff - FreshFor[table]
    <3> HIDE DEF row, cutoff, reading
    <3> QED
      BY <1>1, <1>2, <1>4, <2>2, NotStale
  <2>4. table = "verification" => row.state \in {"verified_compatible", "verification_failed"} \cup Sentinels
    BY <2>1 DEF Accepts, VerificationAccepts
  <2>5. table = "assessment" => row.state \in {"inferred_compatible", "inferred_incompatible"} \cup Sentinels
    BY <2>1 DEF Accepts, AssessmentAccepts
  <2>6. reading \in {""} \cup (IF table = "verification" THEN VerifiedReadiness ELSE InferredReadiness)
    <3> HIDE DEF row, cutoff, ev, reading
    <3>1. CASE table = "verification"
      BY <1>2, <2>4, <3>1 DEF Reading, Sentinels, VerifiedReadiness
    <3>2. CASE table = "assessment"
      BY <1>2, <2>5, <3>2 DEF Reading, Sentinels, InferredReadiness
    <3> QED
      BY <3>1, <3>2
  <2> QED
    BY <2>1, <2>3, <2>6
<1> QED
  BY <1>3, <1>4

\* A readiness for the series is read off a row fresh at the cut-off, and a
\* fresh build that did not come out is not outvoted
\* (policies/py314_readiness.py).
THEOREM BuildsOutrankClaims == Spec => []ABuildOutranksAClaim
<1>1. IInv => ABuildOutranksAClaim
  <2> SUFFICES ASSUME IInv, NEW r \in Derivers
               PROVE  LET cutoff == runs[r].cutoff
                          ev     == EvidenceAt(cutoff)
                          answer == runs[r].rows.python.readiness
                          Fresh(table) == ev[table] # <<>> /\ ev[table][1].at >= cutoff - FreshFor[table]
                      IN  /\ answer \in VerifiedReadiness => Fresh("verification")
                          /\ answer \in InferredReadiness => Fresh("assessment")
                          /\ (Fresh("verification") /\ ReplyAt("verification", cutoff) = "not_built") =>
                                 answer \in {"verified_not_ready", "not_applicable"}
    BY DEF ABuildOutranksAClaim
  <2> DEFINE cutoff   == runs[r].cutoff
             ev       == EvidenceAt(cutoff)
             answer   == runs[r].rows.python.readiness
             verified == FreshReading(ev, "verification", cutoff)
             inferred == FreshReading(ev, "assessment", cutoff)
             Fresh(table) == ev[table] # <<>> /\ ev[table][1].at >= cutoff - FreshFor[table]
  <2>1. \/ answer = "not_applicable"
        \/ verified # "" /\ answer = verified
        \/ verified = "" /\ inferred # "" /\ answer = inferred
        \/ verified = "" /\ inferred = "" /\ answer = "unknown"
    <3>1. runs[r].rows.python = PythonReadiness(ev, cutoff)
      BY OfRun, PassRows
    <3>2. answer = PythonReadiness(ev, cutoff).readiness
      BY <3>1
    <3> HIDE DEF answer, ev, cutoff
    <3> QED
      BY <3>2, PythonRead
  <2>2. /\ verified # "" => Fresh("verification")
        /\ verified \in {""} \cup VerifiedReadiness
        /\ inferred # "" => Fresh("assessment")
        /\ inferred \in {""} \cup InferredReadiness
    BY FreshReadings, DeriversAreOpen
  <2>3. (Fresh("verification") /\ ReplyAt("verification", cutoff) = "not_built") => verified = "verified_not_ready"
    <3> SUFFICES ASSUME Fresh("verification"), ReplyAt("verification", cutoff) = "not_built"
                 PROVE  verified = "verified_not_ready"
      OBVIOUS
    <3> DEFINE row   == Row(ev["verification"])
               sweep == SweepAt("verification", cutoff)
    <3>1. "verification" \in Tables /\ cutoff \in Nat
      BY OfRun DEF Tables
    <3>2. \E findings : ev["verification"] = RowsFor("verification", sweep.reply, sweep.at, findings)
      BY <3>1, ReadAt, DeriversAreOpen
    <3>3. ev["verification"] = VerificationRows("not_built", sweep.at)
      BY <3>2 DEF RowsFor, ReplyAt
    <3>4. row = ev["verification"][1] /\ row # None /\ row.at = sweep.at /\ sweep.at \in Nat
      BY <3>1, TableRead, DeriversAreOpen
    <3>5. row.state = "verification_failed"
      BY <3>3, <3>4 DEF VerificationRows
    <3>6. ~IsStale("verification", row, cutoff)
      <4>1. FreshFor["verification"] \in Nat
        BY FreshnessAssumption
      <4>2. row.at >= cutoff - FreshFor["verification"] /\ row.at \in Nat
        BY <3>4
      <4> HIDE DEF row, cutoff
      <4> QED
        BY <3>1, <4>1, <4>2 DEF IsStale
    <3>7. verified = IF row = None \/ IsStale("verification", row, cutoff) THEN "" ELSE Reading(row)
      BY DEF FreshReading
    <3> HIDE DEF row, verified
    <3> QED
      BY <3>4, <3>5, <3>6, <3>7 DEF Reading
  <2> HIDE DEF answer, verified, inferred, Fresh
  <2>4. /\ answer \in VerifiedReadiness => Fresh("verification")
        /\ answer \in InferredReadiness => Fresh("assessment")
        /\ (Fresh("verification") /\ ReplyAt("verification", cutoff) = "not_built") =>
               answer \in {"verified_not_ready", "not_applicable"}
    BY <2>1, <2>2, <2>3 DEF VerifiedReadiness, InferredReadiness
  <2> QED
    BY <2>4 DEF answer, Fresh
<1> QED
  BY <1>1, Invariant, PTL

\* A surface publishes a fix where one of its rows, none of them stale, states
\* the version.
LEMMA FixPublished ==
    ASSUME IInv, NEW r \in Opened, NEW s \in SurfaceSet, NEW fixed
    PROVE  LET cutoff == runs[r].cutoff
               ev     == EvidenceAt(cutoff)
               answer == Availability(ev, s, fixed, cutoff)
           IN  answer.fix = "published" =>
                   /\ ev[s] # <<>> /\ SweepAt(s, cutoff).at >= cutoff - FreshFor[s]
                   /\ answer.row \in ToSet(ev[s]) /\ answer.row # None
                   /\ answer.row.state = "ok" /\ Comparable[answer.row.version] = fixed
<1> DEFINE cutoff  == runs[r].cutoff
           ev      == EvidenceAt(cutoff)
           rows    == ev[s]
           at      == SweepAt(s, cutoff).at
           wanted  == {row \in ToSet(rows) : StatedVersion(row) = fixed}
           stated  == First(rows, {row \in ToSet(rows) : StatedVersion(row) # ""})
           carries == First(rows, wanted)
           answer  == Availability(ev, s, fixed, cutoff)
<1>1. /\ s \in Tables /\ cutoff \in Nat
      /\ s \in {"source", "pypi", "feedstock", "conda", "advisories", "kev", "assessment", "verification"}
  BY OpenRun DEF Tables, SurfaceSet
<1>2. answer = IF fixed = "" \/ IsStale(s, Row(rows), cutoff) \/ stated = None
               THEN [fix |-> "not_read", row |-> None]
               ELSE IF carries # None THEN [fix |-> "published", row |-> carries]
               ELSE [fix |-> "not_read", row |-> stated]
  BY DEF Availability
<1>3. /\ DOMAIN rows \subseteq Nat
      /\ rows # <<>> => Row(rows) # None /\ Row(rows).at = at /\ at \in Nat
  BY <1>1, TableRead
<1>4. carries # None => carries \in wanted
  <2>1. DOMAIN rows \subseteq Nat
    BY <1>3
  <2> HIDE DEF rows, wanted
  <2> QED
    BY <2>1, FirstOf
<1>5. rows = <<>> => carries = None
  <2>1. rows = <<>> => wanted = {}
    BY DEF ToSet
  <2> QED
    BY <1>4, <2>1
<1>6. (rows # <<>> /\ ~IsStale(s, Row(rows), cutoff)) => at >= cutoff - FreshFor[s]
  <2> HIDE DEF rows, at, cutoff
  <2> QED
    BY <1>1, <1>3, NotStale
<1>7. \A row \in wanted : StatedVersion(row) = fixed /\ row \in ToSet(rows)
  OBVIOUS
<1>8. \A row : StatedVersion(row) # "" => row.state = "ok" /\ StatedVersion(row) = Comparable[row.version]
  BY DEF StatedVersion
<1> HIDE DEF rows, at, wanted, stated, carries, answer, cutoff
<1>9. answer.fix = "published" =>
          /\ fixed # "" /\ ~IsStale(s, Row(rows), cutoff) /\ carries # None /\ answer.row = carries
  BY <1>2
<1>10. answer.fix = "published" =>
           /\ rows # <<>> /\ at >= cutoff - FreshFor[s]
           /\ answer.row \in ToSet(rows) /\ answer.row # None
           /\ answer.row.state = "ok" /\ Comparable[answer.row.version] = fixed
  BY <1>4, <1>5, <1>6, <1>7, <1>8, <1>9
<1> QED
  BY <1>10 DEF rows, at, answer, cutoff

\* A match whose fix is out somewhere: where, and by which version.
LEMMA FixFound ==
    ASSUME NEW ev, NEW f, NEW cutoff, FindingReadiness(ev, f, cutoff) # "unknown"
    PROVE  LET Published(s) == Availability(ev, s, FixedVersion(f), cutoff).fix = "published"
           IN  /\ FixedVersion(f) # "" /\ FixedVersion(f) = Comparable[f.fixed]
               /\ FindingReadiness(ev, f, cutoff) = "ready" => Published("conda")
               /\ FindingReadiness(ev, f, cutoff) = "awaiting_build" => Published("feedstock")
               /\ FindingReadiness(ev, f, cutoff) = "awaiting_packaging" => Published("source") \/ Published("pypi")
<1>1. FixedVersion(f) # ""
  BY DEF FindingReadiness
<1>2. FixedVersion(f) = Comparable[f.fixed]
  BY <1>1 DEF FixedVersion
<1> HIDE DEF FixedVersion
<1> QED
  BY <1>1, <1>2 DEF FindingReadiness

\* A fix is said to be out where the advisories are fresh and a fresh surface
\* states the version that fixes each of them (policies/remediation.py).
THEOREM FixesAreRead == Spec => []FixesAreReadAndFresh
<1>1. IInv => FixesAreReadAndFresh
  <2> SUFFICES ASSUME IInv, NEW r \in Derivers, runs[r].rows.remediation.readiness \in DecidedReadiness
               PROVE  LET cutoff    == runs[r].cutoff
                          ev        == EvidenceAt(cutoff)
                          readiness == runs[r].rows.remediation.readiness
                          Fresh(table) == SweepAt(table, cutoff).at >= cutoff - FreshFor[table]
                          States(surface, version) ==
                              /\ ev[surface] # <<>> /\ Fresh(surface)
                              /\ \E row \in ToSet(ev[surface]) : row.state = "ok" /\ Comparable[row.version] = version
                      IN  /\ MatchedIn(ev) # {} /\ Fresh("advisories")
                          /\ \A f \in MatchedIn(ev) :
                                 \E s \in (IF readiness = "ready" THEN {"conda"} ELSE SurfaceSet) :
                                     Comparable[f.fixed] # "" /\ States(s, Comparable[f.fixed])
    BY DEF FixesAreReadAndFresh
  <2> DEFINE cutoff    == runs[r].cutoff
             ev        == EvidenceAt(cutoff)
             readiness == runs[r].rows.remediation.readiness
             findings  == ev["advisories"]
             read      == {FindingReadiness(ev, f, cutoff) : f \in MatchedIn(ev)}
             Fresh(table) == SweepAt(table, cutoff).at >= cutoff - FreshFor[table]
             States(surface, version) ==
                 /\ ev[surface] # <<>> /\ Fresh(surface)
                 /\ \E row \in ToSet(ev[surface]) : row.state = "ok" /\ Comparable[row.version] = version
  <2>1. readiness = Remediation(ev, cutoff).readiness
    BY OfRun, PassRows
  <2>2. ~IsStale("advisories", Row(findings), cutoff) /\ MatchedIn(ev) # {}
    BY <2>1, RemediationRead DEF DecidedReadiness
  <2>3. /\ readiness = WorstReadiness(read)
        /\ readiness \in {"awaiting_packaging", "awaiting_build", "ready"}
    <3>1. readiness = WorstReadiness(read) /\ readiness \in {"unknown", "awaiting_packaging", "awaiting_build", "ready"}
      BY <2>1, <2>2, RemediationRead
    <3> HIDE DEF readiness, read
    <3> QED
      BY <3>1 DEF DecidedReadiness, readiness
  <2>4. Fresh("advisories")
    <3>1. "advisories" \in Tables /\ cutoff \in Nat
      BY OfRun DEF Tables
    <3>2. findings # <<>>
      BY <2>2 DEF MatchedIn, ToSet
    <3>3. /\ Row(findings) # None /\ Row(findings).at = SweepAt("advisories", cutoff).at
          /\ SweepAt("advisories", cutoff).at \in Nat
      BY <3>1, <3>2, TableRead, DeriversAreOpen
    <3> HIDE DEF cutoff, findings
    <3> QED
      BY <2>2, <3>1, <3>3, NotStale
  <2>5. /\ \A f \in MatchedIn(ev) :
               FindingReadiness(ev, f, cutoff) \in {"awaiting_packaging", "awaiting_build", "ready"}
        /\ readiness = "ready" => \A f \in MatchedIn(ev) : FindingReadiness(ev, f, cutoff) = "ready"
    <3>1. read # {} /\ read \subseteq {"unknown", "awaiting_packaging", "awaiting_build", "ready"}
      BY <2>2, FindingReadinesses
    <3>2. WorstReadiness(read) =
              IF "blocked" \in read THEN "blocked"
              ELSE IF "unknown" \in read THEN "unknown"
              ELSE IF "awaiting_packaging" \in read THEN "awaiting_packaging"
              ELSE IF "awaiting_build" \in read THEN "awaiting_build" ELSE "ready"
      <4>1. read \subseteq {"blocked", "unknown", "awaiting_packaging", "awaiting_build", "ready"}
        BY <3>1
      <4> HIDE DEF read
      <4> QED
        BY <3>1, <4>1, ReadinessReduced
    <3>3. "unknown" \notin read /\ (readiness = "ready" => "awaiting_packaging" \notin read /\ "awaiting_build" \notin read)
      <4> HIDE DEF read, readiness
      <4> QED
        BY <2>3, <3>1, <3>2
    <3>4. \A f \in MatchedIn(ev) : FindingReadiness(ev, f, cutoff) \in read
      OBVIOUS
    <3> HIDE DEF read, readiness
    <3> QED
      BY <3>1, <3>3, <3>4
  <2>6. ASSUME NEW f \in MatchedIn(ev)
        PROVE  \E s \in (IF readiness = "ready" THEN {"conda"} ELSE SurfaceSet) :
                   Comparable[f.fixed] # "" /\ States(s, Comparable[f.fixed])
    <3> DEFINE version == FixedVersion(f)
               Published(s) == Availability(ev, s, version, cutoff).fix = "published"
    <3>1. /\ version # "" /\ version = Comparable[f.fixed]
          /\ FindingReadiness(ev, f, cutoff) = "ready" => Published("conda")
          /\ FindingReadiness(ev, f, cutoff) = "awaiting_build" => Published("feedstock")
          /\ FindingReadiness(ev, f, cutoff) = "awaiting_packaging" => Published("source") \/ Published("pypi")
      <4>1. FindingReadiness(ev, f, cutoff) # "unknown"
        BY <2>5, <2>6
      <4> HIDE DEF ev, cutoff
      <4> QED
        BY <4>1, FixFound
    <3>2. PICK s \in (IF readiness = "ready" THEN {"conda"} ELSE SurfaceSet) : Published(s)
      <4> HIDE DEF readiness, Published
      <4> QED
        BY <2>5, <3>1 DEF SurfaceSet
    <3>3. s \in SurfaceSet
      BY DEF SurfaceSet
    <3>4. States(s, version)
      <4> DEFINE answer == Availability(ev, s, version, cutoff)
      <4> HIDE DEF version
      <4>1. answer.fix = "published" =>
                /\ ev[s] # <<>> /\ Fresh(s)
                /\ answer.row \in ToSet(ev[s]) /\ answer.row.state = "ok" /\ Comparable[answer.row.version] = version
        BY <3>3, FixPublished, DeriversAreOpen
      <4> HIDE DEF answer, ev, Fresh
      <4>2. answer.fix = "published"
        BY <3>2 DEF answer
      <4> QED
        BY <4>1, <4>2
    <3> HIDE DEF version, States, readiness
    <3> QED
      BY <3>1, <3>4
  <2> QED
    BY <2>2, <2>4, <2>6
<1> QED
  BY <1>1, Invariant, PTL

\* Neither a fix nor a readiness is claimed from what was stale at the cut-off.
THEOREM ClaimsAreFresh == Spec => []VerdictsRestOnFreshEvidence
BY FixesAreRead, BuildsOutrankClaims, PTL DEF VerdictsRestOnFreshEvidence

-----------------------------------------------------------------------------
(* Claims were read *)

LEMMA MembershipVerdicts ==
    ASSUME NEW rows
    PROVE  {MembershipVerdict(row) : row \in rows} \subseteq {"listed", "not_established", "not_listed"}
BY DEF MembershipVerdict

\* A cross-reference that says something is about a match the catalog was asked
\* of, and says what the catalog replied.
LEMMA CrossReference ==
    ASSUME NEW reply, NEW at, NEW findings, Askable(findings, at),
           NEW row \in ToSet(KevRows(reply, at, findings)), row.state \in {"listed", "not_listed"}
    PROVE  /\ row.about \in findings /\ IsMatched(row.about) /\ row.about.at <= at
           /\ row.state = KevAnswer(reply, row.about.advisory)
<1> DEFINE about == SetToSeq(findings)
<1>0. \A state : (row \in ToSet(<<KevRow(at, state, None)>>)) => row.state = state
  <2> SUFFICES ASSUME NEW state, row \in ToSet(<<KevRow(at, state, None)>>)
               PROVE  row.state = state
    OBVIOUS
  <2>1. ToSet(<<KevRow(at, state, None)>>) = {KevRow(at, state, None)}
    BY DEF ToSet
  <2> QED
    BY <2>1 DEF KevRow
<1>1. findings # {} /\ reply.read # "failed" /\ reply.read # "missing"
  <2>1. reply.read = "failed" => KevRows(reply, at, findings) = <<KevRow(at, "error", None)>>
    BY DEF KevRows
  <2>2. (reply.read # "failed" /\ reply.read = "missing") =>
            KevRows(reply, at, findings) = <<KevRow(at, "not_found", None)>>
    BY DEF KevRows
  <2>3. (reply.read # "failed" /\ reply.read # "missing" /\ findings = {}) =>
            KevRows(reply, at, findings) = <<KevRow(at, "unknown", None)>>
    BY DEF KevRows
  <2>4. reply.read # "failed"
    BY <1>0, <2>1
  <2>5. reply.read # "missing"
    BY <1>0, <2>2, <2>4
  <2>6. findings # {}
    BY <1>0, <2>3, <2>4, <2>5
  <2> QED
    BY <2>4, <2>5, <2>6
<1>2. KevRows(reply, at, findings) =
          [i \in DOMAIN about |-> KevRow(at, KevAnswer(reply, about[i].advisory), about[i])]
  BY <1>1 DEF KevRows
<1>3. about \in [1..Cardinality(findings) -> findings]
  BY Enumerated DEF Askable
<1> HIDE DEF about
<1>4. PICK i \in DOMAIN about : row = KevRow(at, KevAnswer(reply, about[i].advisory), about[i])
  BY <1>2 DEF ToSet
<1>5. about[i] \in findings
  BY <1>3, <1>4
<1>6. row.about = about[i] /\ row.state = KevAnswer(reply, about[i].advisory)
  BY <1>4 DEF KevRow
<1> QED
  BY <1>5, <1>6 DEF Askable

\* A package is on the exploited list for a match of now, or is not because the
\* catalog, read since, uses the scheme of every match and lists none
\* (collectors/kev.py, policies/vulnerability.py).
THEOREM KevVerdictsAreAboutMatches == Spec => []KevVerdictIsAboutTheseMatches
<1>1. IInv => KevVerdictIsAboutTheseMatches
  <2> SUFFICES ASSUME IInv, NEW r \in Derivers
               PROVE  LET matched == {f.advisory : f \in MatchedIn(EvidenceAt(runs[r].cutoff))}
                          reply   == ReplyAt("kev", runs[r].cutoff)
                          kev     == runs[r].rows.vulnerability.kev
                      IN  /\ kev = "not_listed" => /\ matched # {}
                                                   /\ matched \subseteq reply.schemes \ reply.listed
                                                   /\ SweepAt("kev", runs[r].cutoff).at
                                                          >= SweepAt("advisories", runs[r].cutoff).at
                          /\ kev = "listed" => matched \cap reply.listed # {}
    BY DEF KevVerdictIsAboutTheseMatches
  <2> DEFINE ev      == EvidenceAt(runs[r].cutoff)
             rows    == ev["kev"]
             sweep   == SweepAt("kev", runs[r].cutoff)
             reply   == sweep.reply
             aligned == Aligned(ev)
             read    == {MembershipVerdict(row) : row \in aligned}
             unread  == {"not_established" : f \in Unreferenced(ev)}
             kev     == runs[r].rows.vulnerability.kev
             matched == {f.advisory : f \in MatchedIn(ev)}
  <2>1. kev = WorstKevMembership(read \cup unread)
    <3>1. runs[r].rows.vulnerability = Vulnerability(ev, Parameters[runs[r].version].severities)
      BY OfRun, PassRows
    <3>2. \A e, order : Vulnerability(e, order).kev =
              WorstKevMembership({MembershipVerdict(row) : row \in Aligned(e)}
                  \cup {"not_established" : f \in Unreferenced(e)})
      BY DEF Vulnerability
    <3> QED
      BY <3>1, <3>2
  <2>2. read \cup unread \subseteq {"listed", "not_established", "not_listed"}
    BY MembershipVerdicts
  <2>3. ASSUME NEW row \in aligned, row.state \in {"listed", "not_listed"}
        PROVE  /\ row.about \in MatchedIn(ev) /\ row.state = KevAnswer(reply, row.about.advisory)
               /\ sweep.at >= SweepAt("advisories", runs[r].cutoff).at
    <3>1. "kev" \in Tables /\ "advisories" \in Tables
      BY DEF Tables
    <3>2. row \in ToSet(rows) /\ (row.about = None \/ row.about \in ToSet(ev["advisories"]))
      BY <2>3 DEF Aligned
    <3>3. rows # <<>>
      BY <3>2 DEF ToSet
    <3>4. /\ sweep.at \in Nat
          /\ \E findings : Askable(findings, sweep.at) /\ rows = RowsFor("kev", reply, sweep.at, findings)
      BY <3>1, <3>3, ReadAt, DeriversAreOpen
    <3>5. PICK findings : Askable(findings, sweep.at) /\ rows = KevRows(reply, sweep.at, findings)
      BY <3>4 DEF RowsFor
    <3>6. /\ row.about \in findings /\ IsMatched(row.about) /\ row.about.at <= sweep.at
          /\ row.state = KevAnswer(reply, row.about.advisory)
      <4> HIDE DEF rows, sweep, reply
      <4> QED
        BY <2>3, <3>2, <3>5, CrossReference
    <3>7. row.about # None
      BY <3>5, <3>6, <3>1, NothingAssumption DEF Askable, Accepts
    <3>8. row.about \in ToSet(ev["advisories"])
      BY <3>2, <3>7
    <3>9. row.about.at = SweepAt("advisories", runs[r].cutoff).at
      BY <3>1, <3>8, TableRead, DeriversAreOpen
    <3>10. SweepAt("advisories", runs[r].cutoff).at \in Nat
      <4>1. ev["advisories"] # <<>>
        BY <3>8 DEF ToSet
      <4> QED
        BY <3>1, <4>1, TableRead, DeriversAreOpen
    <3> QED
      BY <3>4, <3>6, <3>8, <3>9, <3>10 DEF MatchedIn
  <2>4. \A answer, advisory : /\ KevAnswer(answer, advisory) = "listed" => advisory \in answer.listed
                              /\ KevAnswer(answer, advisory) = "not_listed" =>
                                     advisory \in answer.schemes \ answer.listed
    BY DEF KevAnswer
  <2>5. kev = "listed" => matched \cap reply.listed # {}
    <3> SUFFICES ASSUME kev = "listed" PROVE matched \cap reply.listed # {}
      OBVIOUS
    <3>1. "listed" \in read
      <4>1. "listed" \in read \cup unread
        <5> DEFINE all == read \cup unread
        <5> HIDE DEF read, unread, kev, all
        <5>1. kev = WorstKevMembership(all) /\ all \subseteq {"listed", "not_established", "not_listed"}
          BY <2>1, <2>2 DEF all
        <5>2. "listed" \in all
          BY <5>1, KevReduced
        <5> QED
          BY <5>2 DEF all
      <4> QED
        BY <4>1
    <3>2. PICK row \in aligned : MembershipVerdict(row) = "listed"
      BY <3>1
    <3>3. row.state = "listed"
      BY <3>2 DEF MembershipVerdict
    <3>4. row.about \in MatchedIn(ev) /\ KevAnswer(reply, row.about.advisory) = "listed"
      BY <2>3, <3>2, <3>3
    <3> HIDE DEF reply
    <3> QED
      BY <2>4, <3>4
  <2>6. kev = "not_listed" => /\ matched # {}
                              /\ matched \subseteq reply.schemes \ reply.listed
                              /\ sweep.at >= SweepAt("advisories", runs[r].cutoff).at
    <3> SUFFICES ASSUME kev = "not_listed"
                 PROVE  /\ matched # {}
                        /\ matched \subseteq reply.schemes \ reply.listed
                        /\ sweep.at >= SweepAt("advisories", runs[r].cutoff).at
      OBVIOUS
    <3>1. read \cup unread = {"not_listed"}
      <4> DEFINE all == read \cup unread
      <4> HIDE DEF read, unread, kev, all
      <4>1. kev = WorstKevMembership(all) /\ all \subseteq {"listed", "not_established", "not_listed"}
        BY <2>1, <2>2 DEF all
      <4>2. "listed" \notin all /\ "not_established" \notin all /\ all # {}
        BY <4>1, KevReduced
      <4>3. all = {"not_listed"}
        BY <4>1, <4>2
      <4> QED
        BY <4>3 DEF all
    <3>2. Unreferenced(ev) = {} /\ aligned # {} /\ \A row \in aligned : MembershipVerdict(row) = "not_listed"
      <4>1. unread \subseteq {"not_listed"} /\ read \subseteq {"not_listed"}
        BY <3>1
      <4>2. Unreferenced(ev) = {}
        BY <4>1
      <4>3. read # {}
        BY <3>1, <4>2
      <4> QED
        BY <4>1, <4>2, <4>3
    <3>3. ASSUME NEW row \in aligned
          PROVE  /\ row.about \in MatchedIn(ev) /\ row.about.advisory \in reply.schemes \ reply.listed
                 /\ sweep.at >= SweepAt("advisories", runs[r].cutoff).at
      <4>1. row.state = "not_listed"
        BY <3>2 DEF MembershipVerdict
      <4>2. /\ row.about \in MatchedIn(ev) /\ KevAnswer(reply, row.about.advisory) = "not_listed"
            /\ sweep.at >= SweepAt("advisories", runs[r].cutoff).at
        BY <2>3, <4>1
      <4> HIDE DEF reply
      <4> QED
        BY <2>4, <4>2
    <3>4. \A f \in MatchedIn(ev) : \E row \in aligned : f = row.about
      BY <3>2 DEF Unreferenced
    <3> HIDE DEF aligned, reply
    <3> QED
      BY <3>2, <3>3, <3>4
  <2> QED
    BY <2>5, <2>6 DEF ReplyAt
<1> QED
  BY <1>1, Invariant, PTL

\* What a surface is called: current is of a row that states the authority's
\* version, not applicable of a row that says so.
LEMMA SurfaceRead ==
    ASSUME NEW row, NEW authority
    PROVE  LET verdict == SurfaceVerdict(row, authority)
           IN  /\ verdict \in {"error", "behind", "unknown", "not_found", "current", "not_applicable"}
               /\ verdict = "current" => /\ row # None /\ row.state = "ok" /\ authority # ""
                                         /\ Comparable[row.version] = authority
               /\ verdict = "not_applicable" => row # None /\ row.state = "not_applicable"
<1> DEFINE verdict == SurfaceVerdict(row, authority)
           stated  == StatedVersion(row)
<1>1. verdict = IF row = None THEN "unknown"
                ELSE IF row.state \in {"error", "unknown", "not_found", "not_applicable"} THEN row.state
                ELSE IF stated = "" \/ authority = "" THEN "unknown"
                ELSE IF stated = authority THEN "current" ELSE "behind"
  BY DEF SurfaceVerdict, Sentinels
<1>2. stated # "" => row # None /\ row.state = "ok" /\ stated = Comparable[row.version]
  BY DEF StatedVersion
<1> HIDE DEF verdict, stated
<1>3. verdict \in {"error", "behind", "unknown", "not_found", "current", "not_applicable"}
  BY <1>1
<1>4. verdict = "current" => stated # "" /\ authority # "" /\ stated = authority
  BY <1>1
<1>5. verdict = "not_applicable" => row # None /\ row.state = "not_applicable"
  BY <1>1
<1> QED
  BY <1>2, <1>3, <1>4, <1>5 DEF verdict

\* One row stands for a surface, or none of its rows says it does not apply.
LEMMA SurfaceRows ==
    ASSUME NEW s \in SurfaceSet, NEW reply, NEW at, NEW findings
    PROVE  LET rows == RowsFor(s, reply, at, findings)
           IN  ToSet(rows) = {rows[1]} \/ rows[1].state # "not_applicable"
<1> DEFINE rows == RowsFor(s, reply, at, findings)
<1>0. \A one, row : one = <<row>> => ToSet(one) = {one[1]}
  <2> SUFFICES ASSUME NEW one, NEW row, one = <<row>> PROVE ToSet(one) = {one[1]}
    OBVIOUS
  <2>1. DOMAIN one = {1}
    OBVIOUS
  <2> QED
    BY <2>1 DEF ToSet
<1>1. CASE s = "source"
  <2>1. rows = SourceRows(reply, at)
    BY <1>1 DEF RowsFor
  <2>2. PICK row : SourceRows(reply, at) = <<row>>
    BY DEF SourceRows
  <2>3. ToSet(rows) = {rows[1]}
    <3> HIDE DEF rows
    <3> QED
      BY <1>0, <2>1, <2>2
  <2> QED
    BY <2>3
<1>2. CASE s = "pypi"
  <2>1. rows = PyPIRows(reply, at)
    BY <1>2 DEF RowsFor
  <2>2. PICK row : PyPIRows(reply, at) = <<row>>
    BY DEF PyPIRows
  <2>3. ToSet(rows) = {rows[1]}
    <3> HIDE DEF rows
    <3> QED
      BY <1>0, <2>1, <2>2
  <2> QED
    BY <2>3
<1>3. CASE s = "feedstock"
  <2>1. rows = FeedstockRows(reply, at)
    BY <1>3 DEF RowsFor
  <2>2. PICK row : FeedstockRows(reply, at) = <<row>>
    BY DEF FeedstockRows
  <2>3. ToSet(rows) = {rows[1]}
    <3> HIDE DEF rows
    <3> QED
      BY <1>0, <2>1, <2>2
  <2> QED
    BY <2>3
<1>4. CASE s = "conda"
  <2>1. rows = CondaRows(reply, at)
    BY <1>4 DEF RowsFor
  <2>2. CondaRows(reply, at)[1] = CondaRow(Channels[1], reply[1], at)
    BY DEF CondaRows
  <2>3. CondaRow(Channels[1], reply[1], at).state = ChannelState(reply[1])
    BY DEF CondaRow
  <2>4. ChannelState(reply[1]) # "not_applicable"
    BY DEF ChannelState
  <2> QED
    BY <2>1, <2>2, <2>3, <2>4
<1> QED
  BY <1>1, <1>2, <1>3, <1>4 DEF SurfaceSet

\* The row a surface is read off: one that states a version, or else the first.
LEMMA SurfaceObserved ==
    ASSUME IInv, NEW r \in Opened, NEW s \in SurfaceSet
    PROVE  LET rows == EvidenceAt(runs[r].cutoff)[s]
               row  == ObservedSurface(EvidenceAt(runs[r].cutoff), s)
           IN  /\ rows = <<>> => row = None
               /\ row # None => row \in ToSet(rows) /\ row.version \in Statements
               /\ row # None => row.state = "ok" \/ row = rows[1]
               /\ (row # None /\ row.state = "ok") => rows[1].state # "not_applicable"
<1> DEFINE ev     == EvidenceAt(runs[r].cutoff)
           rows   == ev[s]
           wanted == {row \in ToSet(rows) : row.state = "ok"}
           stated == First(rows, wanted)
           row    == ObservedSurface(ev, s)
<1>0. s \in Tables
  BY DEF Tables, SurfaceSet
<1>1. row = IF stated # None THEN stated ELSE Row(rows)
  BY DEF ObservedSurface
<1>2. /\ DOMAIN rows \subseteq Nat
      /\ \A i \in DOMAIN rows : rows[i] \in ToSet(rows)
      /\ \A w \in ToSet(rows) : w \in Accepts(s) /\ w # None
      /\ rows = <<>> => Row(rows) = None
  BY <1>0, TableRead
<1>3. \A w \in Accepts(s) : w.version \in Statements
  BY DEF Accepts, SurfaceAccepts, FeedstockAccepts, CondaAccepts, SurfaceSet
<1>4. stated # None => stated \in wanted
  <2> HIDE DEF rows, wanted
  <2> QED
    BY <1>2, FirstOf
<1>5. rows # <<>> => /\ Row(rows) = rows[1] /\ rows[1] \in ToSet(rows)
                     /\ ToSet(rows) = {rows[1]} \/ rows[1].state # "not_applicable"
  <2> SUFFICES ASSUME rows # <<>>
               PROVE  /\ Row(rows) = rows[1] /\ rows[1] \in ToSet(rows)
                      /\ ToSet(rows) = {rows[1]} \/ rows[1].state # "not_applicable"
    OBVIOUS
  <2> DEFINE sweep == SweepAt(s, runs[r].cutoff)
  <2>1. /\ \E findings : rows = RowsFor(s, sweep.reply, sweep.at, findings)
        /\ RowsOf(Accepts(s), rows, sweep.at)
    BY <1>0, ReadAt
  <2>2. ToSet(rows) = {rows[1]} \/ rows[1].state # "not_applicable"
    <3> HIDE DEF rows, sweep
    <3> QED
      BY <2>1, SurfaceRows
  <2>3. 1 \in DOMAIN rows
    BY <2>1 DEF RowsOf
  <2> QED
    BY <1>2, <2>2, <2>3 DEF Row
<1>6. rows = <<>> => stated = None
  <2>1. rows = <<>> => ToSet(rows) = {}
    BY DEF ToSet
  <2> QED
    BY <1>4, <2>1
<1> HIDE DEF rows, stated, row
<1>7. row # None => row \in ToSet(rows) /\ (row.state = "ok" \/ row = rows[1])
  BY <1>1, <1>2, <1>4, <1>5
<1>8. (row # None /\ row.state = "ok") => rows[1].state # "not_applicable"
  <2>1. CASE row # None /\ row.state = "ok" /\ ToSet(rows) = {rows[1]}
    <3>1. row = rows[1]
      BY <1>7, <2>1
    <3> QED
      BY <2>1, <3>1
  <2> QED
    BY <1>1, <1>5, <1>6, <1>2, <2>1
<1> QED
  BY <1>1, <1>2, <1>3, <1>6, <1>7, <1>8 DEF rows, row

\* A package is current where every surface it is meant to be on was read and
\* states one version (policies/currency.py).
THEOREM CurrentWasRead == Spec => []CurrentMeansEverySurfaceAgrees
<1>1. IInv => CurrentMeansEverySurfaceAgrees
  <2> SUFFICES ASSUME IInv, NEW r \in Derivers, runs[r].rows.currency.overall = "current"
               PROVE  LET ev       == EvidenceAt(runs[r].cutoff)
                          meant    == {s \in SurfaceSet : ev[s] = <<>> \/ ev[s][1].state # "not_applicable"}
                          Versions_(s) == {Comparable[row.version] : row \in {w \in ToSet(ev[s]) : w.state = "ok"}}
                      IN  /\ meant # {}
                          /\ \A s \in meant : Versions_(s) \ {""} # {}
                          /\ \E version \in Statements \ {""} : \A s \in meant : version \in Versions_(s)
    BY DEF CurrentMeansEverySurfaceAgrees
  <2> DEFINE ev           == EvidenceAt(runs[r].cutoff)
             meant        == {s \in SurfaceSet : ev[s] = <<>> \/ ev[s][1].state # "not_applicable"}
             Versions_(s) == {Comparable[row.version] : row \in {w \in ToSet(ev[s]) : w.state = "ok"}}
  <2> DEFINE Overall(e, authority) ==
                 LET verdicts == [s \in SurfaceSet |-> SurfaceVerdict(ObservedSurface(e, s), authority)]
                 IN  WorstCurrency({verdicts[s] : s \in SurfaceSet})
  <2>1. PICK authority : runs[r].rows.currency.overall = Overall(ev, authority)
    <3>1. runs[r].rows.currency = Currency(ev, runs[r].loaded.order)
      BY OfRun, PassRows
    <3>2. \A e, order : \E authority : Currency(e, order).overall = Overall(e, authority)
      BY DEF Currency
    <3> HIDE DEF ev, Overall
    <3> QED
      BY <3>1, <3>2
  <2> DEFINE verdict(s) == SurfaceVerdict(ObservedSurface(ev, s), authority)
             verdicts   == {verdict(s) : s \in SurfaceSet}
  <2>2. /\ verdicts \subseteq {"error", "behind", "unknown", "not_found", "current", "not_applicable"}
        /\ WorstCurrency(verdicts) = "current"
    <3>1. \A s \in SurfaceSet : verdict(s) \in {"error", "behind", "unknown", "not_found", "current", "not_applicable"}
      BY SurfaceRead
    <3>2. verdicts = {[t \in SurfaceSet |-> verdict(t)][s] : s \in SurfaceSet}
      OBVIOUS
    <3>3. WorstCurrency({[t \in SurfaceSet |-> verdict(t)][s] : s \in SurfaceSet}) = "current"
      BY <2>1
    <3> HIDE DEF verdict
    <3> QED
      BY <3>1, <3>2, <3>3
  <2>3. verdicts \subseteq {"current", "not_applicable"} /\ "current" \in verdicts
    <3> HIDE DEF verdicts
    <3> QED
      BY <2>2, CurrencyReduced
  <2>4. ASSUME NEW s \in SurfaceSet, verdict(s) = "current"
        PROVE  /\ s \in meant /\ authority \in Versions_(s)
               /\ authority \in Statements /\ authority # ""
    <3> DEFINE row == ObservedSurface(ev, s)
    <3>1. row # None /\ row.state = "ok" /\ authority # "" /\ Comparable[row.version] = authority
      BY <2>4, SurfaceRead
    <3>2. row \in ToSet(ev[s]) /\ row.version \in Statements /\ ev[s][1].state # "not_applicable"
      BY <3>1, SurfaceObserved, DeriversAreOpen
    <3>3. Comparable[row.version] \in Statements
      BY <3>2 DEF Comparable, Statements
    <3> HIDE DEF row, ev
    <3> QED
      BY <3>1, <3>2, <3>3
  <2>5. ASSUME NEW s \in meant PROVE verdict(s) = "current"
    <3> DEFINE row == ObservedSurface(ev, s)
    <3>1. verdict(s) \in {"current", "not_applicable"}
      BY <2>3
    <3>2. SUFFICES ASSUME verdict(s) = "not_applicable" PROVE FALSE
      BY <3>1
    <3>3. row # None /\ row.state = "not_applicable"
      BY <3>2, SurfaceRead
    <3>4. ev[s] # <<>> /\ row = ev[s][1]
      BY <3>3, SurfaceObserved, DeriversAreOpen
    <3> QED
      BY <3>3, <3>4
  <2>6. PICK s \in SurfaceSet : verdict(s) = "current"
    BY <2>3
  <2>7. /\ s \in meant /\ authority \in Statements \ {""}
        /\ \A t \in meant : authority \in Versions_(t)
    BY <2>4, <2>5, <2>6
  <2> HIDE DEF meant, Versions_
  <2>8. /\ meant # {}
        /\ \A t \in meant : Versions_(t) \ {""} # {}
        /\ \E version \in Statements \ {""} : \A t \in meant : version \in Versions_(t)
    BY <2>7
  <2> QED
    BY <2>8 DEF meant, Versions_
<1> QED
  BY <1>1, Invariant, PTL

\* Nothing is claimed of the package that its run did not read (core/rollup.py,
\* policies/currency.py, policies/vulnerability.py).
THEOREM ClaimsAreRead == Spec => []ClaimsWereRead
BY KevVerdictsAreAboutMatches, CurrentWasRead, ClaimsAreGated, PTL DEF ClaimsWereRead

-----------------------------------------------------------------------------
(* No row is refused *)

\* A surface is measured against an authority there is.
LEMMA CurrencyHolds ==
    ASSUME NEW ev, NEW order
    PROVE  CurrencyRowHolds(Currency(ev, order))
<1> DEFINE surface   == AuthoritativeSurface(ev, order)
           authority == IF surface = None THEN "" ELSE StatedVersion(ObservedSurface(ev, surface))
           row       == Currency(ev, order)
<1>1. row.authority = surface
  BY DEF Currency
<1>2. row.surfaces = [s \in SurfaceSet |-> SurfaceVerdict(ObservedSurface(ev, s), authority)]
  BY DEF Currency
<1>3. \A observed : SurfaceVerdict(observed, "") \notin {"current", "behind"}
  BY DEF SurfaceVerdict, Sentinels
<1>4. surface = None => \A s \in SurfaceSet : row.surfaces[s] \notin {"current", "behind"}
  <2>1. surface = None => authority = ""
    OBVIOUS
  <2> HIDE DEF authority, surface, row
  <2> QED
    BY <1>2, <1>3, <2>1
<1> HIDE DEF surface, row
<1> QED
  BY <1>1, <1>4 DEF CurrencyRowHolds, row

\* A row of the feedstock table: what the pass reads off it.
LEMMA FeedstockHolds ==
    ASSUME IInv, NEW r \in Opened, NEW threshold, NEW confidence
    PROVE  FeedstockRowHolds(FeedstockPresence(EvidenceAt(runs[r].cutoff), runs[r].cutoff, threshold, confidence))
<1> DEFINE cutoff   == runs[r].cutoff
           ev       == EvidenceAt(cutoff)
           seen     == Row(ev["feedstock"])
           presence == PresenceVerdict(seen, cutoff, threshold)
           pushed   == IF seen # None /\ seen.state = "ok" THEN seen.pushed ELSE None
           row      == FeedstockPresence(ev, cutoff, threshold, confidence)
<1>1. /\ row.presence = presence /\ row.pushed = pushed /\ row.snapshot = seen
      /\ row.age = IF pushed = None THEN None ELSE cutoff - pushed
  BY DEF FeedstockPresence
<1>2. cutoff \in Nat /\ "feedstock" \in Tables
  BY OpenRun DEF Tables
<1>3. seen # None => seen \in FeedstockAccepts
  <2>1. seen # None => seen \in Accepts("feedstock")
    BY <1>2, TableRead
  <2> QED
    BY <2>1 DEF Accepts
<1>4. seen # None => /\ seen.pushed \in Nat \cup {None}
                     /\ seen.state \in {"ok", "error", "unknown", "not_found", "not_applicable"}
  BY <1>3 DEF FeedstockAccepts, Sentinels
<1> HIDE DEF cutoff, ev, seen, row
<1>5. (row.age = None) = (row.pushed = None)
  <2>1. pushed # None => cutoff - pushed \in Int
    BY <1>2, <1>4
  <2> HIDE DEF pushed
  <2> QED
    BY <1>1, <2>1, NoneAssumption
<1>6. presence \in {"present_and_maintained", "present_and_inactive"} => pushed # None
  <2> SUFFICES ASSUME presence \in {"present_and_maintained", "present_and_inactive"} PROVE pushed # None
    OBVIOUS
  <2>1. seen # None /\ seen.state \notin {"error", "unknown", "not_applicable", "not_found"} /\ seen.pushed # None
    BY DEF PresenceVerdict
  <2> QED
    BY <1>4, <2>1
<1>7. presence \in FeedstockVerdicts => seen # None
  BY DEF PresenceVerdict, FeedstockVerdicts
<1> HIDE DEF presence, pushed
<1> QED
  BY <1>1, <1>5, <1>6, <1>7 DEF FeedstockRowHolds, row, cutoff, ev

\* Where some row of a table is wanted, the first of them is found.
LEMMA FirstRead ==
    ASSUME IInv, NEW r \in Opened, NEW table \in Tables, NEW wanted,
           \E x \in wanted : x \in ToSet(EvidenceAt(runs[r].cutoff)[table])
    PROVE  LET first == First(EvidenceAt(runs[r].cutoff)[table], wanted)
           IN  first # None /\ first \in wanted
<1> DEFINE rows == EvidenceAt(runs[r].cutoff)[table]
<1>1. DOMAIN rows \subseteq Nat /\ \A i \in DOMAIN rows : rows[i] \in ToSet(rows)
  BY TableRead
<1>2. \A y \in ToSet(rows) : y # None /\ \E i \in DOMAIN rows : y = rows[i]
  <2> SUFFICES ASSUME NEW y \in ToSet(rows) PROVE y # None /\ \E i \in DOMAIN rows : y = rows[i]
    OBVIOUS
  <2>1. y # None
    BY TableRead
  <2>2. \E i \in DOMAIN rows : y = rows[i]
    BY DEF ToSet
  <2> QED
    BY <2>1, <2>2
<1>3. \E i \in DOMAIN rows : rows[i] \in wanted
  <2>1. \E x \in wanted : x \in ToSet(rows)
    OBVIOUS
  <2> HIDE DEF rows
  <2> QED
    BY <1>2, <2>1
<1> HIDE DEF rows
<1>4. PICK i \in DOMAIN rows : First(rows, wanted) = rows[i] /\ rows[i] \in wanted
  BY <1>1, <1>3, FirstOf
<1>5. First(rows, wanted) # None /\ First(rows, wanted) \in wanted
  BY <1>1, <1>2, <1>4
<1> QED
  BY <1>5 DEF rows

\* A reading that decided is one of the readings.
LEMMA VulnerabilityHolds ==
    ASSUME IInv, NEW r \in Opened, NEW order
    PROVE  VulnerabilityRowHolds(Vulnerability(EvidenceAt(runs[r].cutoff), order))
<1> DEFINE ev       == EvidenceAt(runs[r].cutoff)
           findings == ToSet(ev["advisories"])
           said     == {AdvisoryVerdict(f) : f \in findings}
           aligned  == Aligned(ev)
           read     == {MembershipVerdict(x) : x \in aligned}
           answers  == read \cup {"not_established" : f \in Unreferenced(ev)}
           status   == WorstVulnerability(said)
           kev      == WorstKevMembership(answers)
           deciding == {f \in findings : AdvisoryVerdict(f) = status}
           listing  == {x \in aligned : MembershipVerdict(x) = kev}
           row      == Vulnerability(ev, order)
<1>1. /\ row.status = status /\ row.kev = kev /\ row.risk = RiskLevel(ev, order)
      /\ row.finding = First(ev["advisories"], deciding) /\ row.kev_finding = First(ev["kev"], listing)
  BY DEF Vulnerability
<1>2. "advisories" \in Tables /\ "kev" \in Tables
  BY DEF Tables
<1>3. said \subseteq {"advisories_matched", "unknown", "no_advisory_matched"}
  BY AdvisoryVerdicts
<1>4. answers \subseteq {"listed", "not_established", "not_listed"}
  BY MembershipVerdicts
<1>5. \A table \in Tables : \A wanted :
          (\E x \in wanted : x \in ToSet(ev[table])) => First(ev[table], wanted) # None
  BY FirstRead
<1>6. status \in {"advisories_matched", "no_advisory_matched"} => row.finding # None
  <2>1. status \in {"advisories_matched", "no_advisory_matched"} => status \in said
    <3> HIDE DEF said
    <3> QED
      BY <1>3, VulnerabilityReduced
  <2>2. status \in said => \E f \in deciding : f \in findings
    OBVIOUS
  <2> HIDE DEF status, said, deciding, ev, row
  <2> QED
    BY <1>1, <1>2, <1>5, <2>1, <2>2
<1>7. kev \in {"listed", "not_listed"} => row.kev_finding # None
  <2>1. kev \in {"listed", "not_listed"} => kev \in answers
    <3> HIDE DEF answers
    <3> QED
      BY <1>4, KevReduced
  <2>2. (kev \in {"listed", "not_listed"} /\ kev \in answers) => \E x \in aligned : MembershipVerdict(x) = kev
    <3> HIDE DEF kev, aligned
    <3> QED
      OBVIOUS
  <2>3. \A x \in aligned : x \in ToSet(ev["kev"])
    BY DEF Aligned
  <2> HIDE DEF kev, answers, aligned, ev, row
  <2> QED
    BY <1>1, <1>2, <1>5, <2>1, <2>2, <2>3
<1>8. row.risk # "" => status = "advisories_matched"
  <2>1. RiskLevel(ev, order) # "" => MatchedIn(ev) # {}
    BY DEF RiskLevel, Worst
  <2>2. MatchedIn(ev) # {} => "advisories_matched" \in said
    BY DEF MatchedIn, AdvisoryVerdict
  <2>3. "advisories_matched" \in said => status = "advisories_matched"
    <3> HIDE DEF said
    <3> QED
      BY <1>3, VulnerabilityReduced
  <2> HIDE DEF ev, row, said, status
  <2> QED
    BY <1>1, <2>1, <2>2, <2>3
<1> HIDE DEF status, kev, row, deciding, listing, answers, said
<1> QED
  BY <1>1, <1>6, <1>7, <1>8 DEF VulnerabilityRowHolds, row

\* A licence that is ruled on names the rule, and every decided one the finding.
LEMMA LicenseHolds ==
    ASSUME IInv, NEW r \in Opened, NEW rules, LicenseRulesRead(rules)
    PROVE  LicenseRowHolds(License(EvidenceAt(runs[r].cutoff), rules))
<1> DEFINE ev       == EvidenceAt(runs[r].cutoff)
           rows     == ev["licence"]
           voting   == Contributing(ev)
           verdicts == {LicenseVerdict(f, rules) : f \in voting}
           outcome  == WorstLicense(verdicts)
           cited    == IF voting = {} THEN ToSet(rows) ELSE voting
           deciding == {f \in cited : LicenseVerdict(f, rules) = outcome}
           finding  == First(rows, deciding)
           row      == License(ev, rules)
<1>1. /\ row.outcome = outcome /\ row.finding = finding
      /\ row.rule = IF finding = None \/ outcome \notin RuledLicenses THEN None
                    ELSE DecidingRule(finding.expression, rules)
  BY DEF License
<1>2. "licence" \in Tables /\ voting \subseteq ToSet(rows)
  BY DEF Tables, Contributing
<1>4. verdicts \subseteq {"forbidden", "restricted", "unknown", "manual_review", "allowed"}
  BY LicenseVerdicts
<1>5. outcome # "unknown" => outcome \in verdicts
  <2> HIDE DEF verdicts
  <2>1. outcome \in {"forbidden", "restricted", "manual_review", "allowed", "unknown"}
    BY <1>4, LicenseReduced
  <2>2. outcome \in {"forbidden", "restricted", "manual_review"} => outcome \in verdicts
    BY <1>4, LicenseReduced
  <2>3. outcome = "allowed" => outcome \in verdicts
    <3> SUFFICES ASSUME outcome = "allowed" PROVE "allowed" \in verdicts
      OBVIOUS
    <3>1. /\ verdicts # {} /\ "forbidden" \notin verdicts /\ "restricted" \notin verdicts
          /\ "unknown" \notin verdicts /\ "manual_review" \notin verdicts
      BY <1>4, LicenseReduced
    <3> QED
      BY <1>4, <3>1
  <2> QED
    BY <2>1, <2>2, <2>3
<1>6. outcome # "unknown" => finding # None /\ LicenseVerdict(finding, rules) = outcome
  <2> SUFFICES ASSUME outcome # "unknown"
               PROVE  finding # None /\ LicenseVerdict(finding, rules) = outcome
    OBVIOUS
  <2>1. \E f \in deciding : f \in ToSet(rows)
    <3>1. PICK f \in voting : LicenseVerdict(f, rules) = outcome
      BY <1>5
    <3>2. f \in deciding /\ f \in ToSet(rows)
      <4> HIDE DEF outcome, voting, rows
      <4> QED
        BY <1>2, <3>1
    <3> QED
      BY <3>2
  <2>2. \A f \in deciding : LicenseVerdict(f, rules) = outcome
    OBVIOUS
  <2>3. finding # None /\ finding \in deciding
    <3> HIDE DEF deciding
    <3> QED
      BY <1>2, <2>1, FirstRead
  <2> HIDE DEF deciding, finding, outcome
  <2> QED
    BY <2>2, <2>3
<1>7. outcome \in RuledLicenses => outcome # "unknown"
  <2> HIDE DEF outcome
  <2> QED
    BY DEF RuledLicenses
<1>8. outcome \in RuledLicenses => DecidingRule(finding.expression, rules) # None
  <2> SUFFICES ASSUME outcome \in RuledLicenses
               PROVE  DecidingRule(finding.expression, rules) # None
    OBVIOUS
  <2>1. LicenseVerdict(finding, rules) \in RuledLicenses
    BY <1>6, <1>7
  <2> HIDE DEF finding, outcome
  <2> QED
    BY <2>1, LicenseVerdicts
<1> HIDE DEF finding, outcome, row
<1>9. outcome \in RuledLicenses \cup {"manual_review"} => row.finding # None
  BY <1>1, <1>6, <1>7
<1>10. (outcome \in RuledLicenses) = (row.rule # None)
  BY <1>1, <1>6, <1>7, <1>8
<1> QED
  BY <1>1, <1>9, <1>10 DEF LicenseRowHolds, row

\* What decides remediation is a match, with the fix where it is said to be.
LEMMA RemediationHolds ==
    ASSUME IInv, NEW r \in Opened
    PROVE  RemediationRowHolds(Remediation(EvidenceAt(runs[r].cutoff), runs[r].cutoff))
<1> DEFINE cutoff   == runs[r].cutoff
           ev       == EvidenceAt(cutoff)
           findings == ev["advisories"]
           matched  == MatchedIn(ev)
           row      == Remediation(ev, cutoff)
           deciding == {f \in matched : FindingReadiness(ev, f, cutoff) = row.readiness}
           fixed    == IF row.finding = None THEN "" ELSE FixedVersion(row.finding)
<1>1. \A s \in SurfaceSet : row.surfaces[s] = Availability(ev, s, fixed, cutoff)
  BY DEF Remediation
<1>2. row.readiness # "blocked"
  BY RemediationRead
<1>3. row.readiness \in DecidedReadiness =>
          row.finding # None /\ FindingReadiness(ev, row.finding, cutoff) = row.readiness
  <2> SUFFICES ASSUME row.readiness \in DecidedReadiness
               PROVE  row.finding # None /\ FindingReadiness(ev, row.finding, cutoff) = row.readiness
    OBVIOUS
  <2>1. /\ \E f \in matched : FindingReadiness(ev, f, cutoff) = row.readiness
        /\ row.finding = First(findings, deciding)
    <3>1. row.readiness # "unknown" /\ row.readiness # "not_applicable"
      <4> HIDE DEF row
      <4> QED
        BY DEF DecidedReadiness
    <3>2. ~(IsStale("advisories", Row(findings), cutoff) \/ matched = {})
      BY <3>1, RemediationRead
    <3>3. row.readiness \in {FindingReadiness(ev, f, cutoff) : f \in matched}
      BY <3>2, RemediationRead
    <3>4. row.finding = First(findings, deciding)
      BY <3>2, RemediationRead
    <3> HIDE DEF row, matched, ev, cutoff, findings, deciding
    <3> QED
      BY <3>3, <3>4
  <2>2. \A f \in deciding : FindingReadiness(ev, f, cutoff) = row.readiness /\ f \in ToSet(findings)
    <3>1. matched \subseteq ToSet(findings)
      BY DEF MatchedIn
    <3> HIDE DEF row, matched, ev, cutoff, findings
    <3> QED
      BY <3>1
  <2>3. \E f \in deciding : f \in ToSet(findings)
    <3>1. \E f \in deciding : TRUE
      <4> HIDE DEF row, matched, ev, cutoff
      <4> QED
        BY <2>1
    <3> HIDE DEF deciding
    <3> QED
      BY <2>2, <3>1
  <2>4. "advisories" \in Tables
    BY DEF Tables
  <2>5. First(findings, deciding) # None /\ First(findings, deciding) \in deciding
    <3> HIDE DEF deciding
    <3> QED
      BY <2>3, <2>4, FirstRead
  <2> HIDE DEF row, deciding, findings
  <2> QED
    BY <2>1, <2>2, <2>5
<1>4. \A s \in SurfaceSet : Availability(ev, s, fixed, cutoff).fix # "not_read" =>
                                Availability(ev, s, fixed, cutoff).row # None
  <2>1. \A s : Availability(ev, s, fixed, cutoff).fix \in {"not_read", "published"}
    BY DEF Availability
  <2>2. \A s \in SurfaceSet : Availability(ev, s, fixed, cutoff).fix = "published" =>
                                  Availability(ev, s, fixed, cutoff).row # None
    <3> HIDE DEF fixed
    <3> QED
      BY FixPublished
  <2> QED
    BY <2>1, <2>2
<1> HIDE DEF cutoff, ev, row
<1>5. row.readiness \in DecidedReadiness =>
          /\ row.readiness = "ready" => Availability(ev, "conda", fixed, cutoff).fix = "published"
          /\ row.readiness = "awaiting_build" => Availability(ev, "feedstock", fixed, cutoff).fix = "published"
          /\ row.readiness = "awaiting_packaging" =>
                 \/ Availability(ev, "source", fixed, cutoff).fix = "published"
                 \/ Availability(ev, "pypi", fixed, cutoff).fix = "published"
  <2> SUFFICES ASSUME row.readiness \in DecidedReadiness
               PROVE  /\ row.readiness = "ready" => Availability(ev, "conda", fixed, cutoff).fix = "published"
                      /\ row.readiness = "awaiting_build" => Availability(ev, "feedstock", fixed, cutoff).fix = "published"
                      /\ row.readiness = "awaiting_packaging" =>
                             \/ Availability(ev, "source", fixed, cutoff).fix = "published"
                             \/ Availability(ev, "pypi", fixed, cutoff).fix = "published"
    OBVIOUS
  <2>1. fixed = FixedVersion(row.finding) /\ FindingReadiness(ev, row.finding, cutoff) = row.readiness
    BY <1>3
  <2>2. row.readiness # "unknown"
    BY DEF DecidedReadiness
  <2> DEFINE finding == row.finding
  <2>3. FindingReadiness(ev, finding, cutoff) # "unknown"
    BY <2>1, <2>2
  <2> HIDE DEF finding
  <2>4. LET Published(s) == Availability(ev, s, FixedVersion(finding), cutoff).fix = "published"
        IN  /\ FindingReadiness(ev, finding, cutoff) = "ready" => Published("conda")
            /\ FindingReadiness(ev, finding, cutoff) = "awaiting_build" => Published("feedstock")
            /\ FindingReadiness(ev, finding, cutoff) = "awaiting_packaging" => Published("source") \/ Published("pypi")
    BY <2>3, FixFound
  <2>5. fixed = FixedVersion(finding) /\ FindingReadiness(ev, finding, cutoff) = row.readiness
    BY <2>1 DEF finding
  <2> HIDE DEF fixed
  <2> QED
    BY <2>4, <2>5
<1> HIDE DEF fixed
<1>6. "conda" \in SurfaceSet /\ "feedstock" \in SurfaceSet /\ "source" \in SurfaceSet /\ "pypi" \in SurfaceSet
      /\ {"ready", "awaiting_build", "awaiting_packaging"} \subseteq DecidedReadiness
  BY DEF SurfaceSet, DecidedReadiness
<1>7. /\ row.readiness = "ready" => row.surfaces["conda"].fix = "published"
      /\ row.readiness = "awaiting_build" => row.surfaces["feedstock"].fix = "published"
      /\ row.readiness = "awaiting_packaging" =>
             \E s \in {"source", "pypi"} : row.surfaces[s].fix = "published"
  BY <1>1, <1>5, <1>6
<1>8. \A s \in SurfaceSet : row.surfaces[s].fix # "not_read" => row.surfaces[s].row # None
  BY <1>1, <1>4
<1> QED
  BY <1>2, <1>3, <1>7, <1>8 DEF RemediationRowHolds, row, ev, cutoff

\* A readiness names the evidence it is read off.
LEMMA PythonHolds ==
    ASSUME IInv, NEW r \in Opened
    PROVE  PythonRowHolds(PythonReadiness(EvidenceAt(runs[r].cutoff), runs[r].cutoff))
<1> DEFINE cutoff   == runs[r].cutoff
           ev       == EvidenceAt(cutoff)
           verified == FreshReading(ev, "verification", cutoff)
           inferred == FreshReading(ev, "assessment", cutoff)
           row      == PythonReadiness(ev, cutoff)
<1>1. verified \in {""} \cup VerifiedReadiness /\ inferred \in {""} \cup InferredReadiness
  BY FreshReadings
<1>2. /\ verified # "" => Row(ev["verification"]) # None
      /\ inferred # "" => Row(ev["assessment"]) # None
  BY DEF FreshReading
<1>3. \/ row.readiness = "not_applicable" /\ row.type = "none"
      \/ verified # "" /\ row.readiness = verified /\ row.type = "verified"
                       /\ row.verification = Row(ev["verification"])
      \/ inferred # "" /\ row.readiness = inferred /\ row.type = "inferred"
                       /\ row.assessment = Row(ev["assessment"])
      \/ row.readiness = "unknown" /\ row.type = "none"
  BY DEF PythonReadiness
<1> HIDE DEF verified, inferred, row, ev, cutoff
<1>4. PythonRowHolds(row)
  BY <1>1, <1>2, <1>3 DEF PythonRowHolds, VerifiedReadiness, InferredReadiness
<1> QED
  BY <1>4 DEF row, ev, cutoff

\* The score of what is counted, scaled against what it is capped at.
LEMMA Scaled ==
    ASSUME NEW total \in Nat, NEW ceiling \in Nat \ {0}
    PROVE  1 + (Min({total, ceiling}) * 99) \div ceiling \in 1..100
<1> DEFINE least == Min({total, ceiling})
           share == (least * 99) \div ceiling
<1>1. least \in Nat /\ least <= ceiling
  BY Least
<1> HIDE DEF least
<1>2. least * 99 \in Nat /\ least * 99 <= ceiling * 99
  BY <1>1
<1>3. share \in Int /\ ceiling * share <= least * 99 /\ least * 99 < ceiling * (share + 1)
  BY <1>1, <1>2
<1> HIDE DEF share
<1>4. share <= 99
  <2> SUFFICES ASSUME share >= 100 PROVE FALSE
    BY <1>3
  <2>1. ceiling * share >= ceiling * 100
    BY <1>3
  <2> QED
    BY <1>2, <1>3, <2>1
<1>5. share >= 0
  <2> SUFFICES ASSUME share + 1 <= 0 PROVE FALSE
    BY <1>3
  <2>1. ceiling * (share + 1) <= 0
    BY <1>3
  <2> QED
    BY <1>2, <1>3, <2>1
<1>6. 1 + share \in 1..100
  BY <1>3, <1>4, <1>5
<1> QED
  BY <1>6 DEF share, least

\* A usage score is within its scale: the weights count, and so does the row.
LEMMA UsageScaled ==
    ASSUME NEW row, row = None \/ row \in InventoryAccepts, NEW weights, WeightsRead(weights),
           UsageScore(row, weights) # None
    PROVE  UsageScore(row, weights) \in 1..100
<1> DEFINE total   == row.lob * weights.lob + row.component * weights.component
           ceiling == (weights.lob + weights.component) * 100
<1>1. UsageScore(row, weights) =
          IF weights = None \/ row = None \/ row.state # "ok" \/ ceiling = 0 THEN None
          ELSE 1 + (Min({total, ceiling}) * 99) \div ceiling
  BY DEF UsageScore
<1>2. /\ weights # None /\ row # None /\ row.state = "ok" /\ ceiling # 0
      /\ UsageScore(row, weights) = 1 + (Min({total, ceiling}) * 99) \div ceiling
  BY <1>1
<1>3. row.lob \in Nat /\ row.component \in Nat
  BY <1>2 DEF InventoryAccepts
<1>4. weights.lob \in Nat /\ weights.component \in Nat
  BY <1>2 DEF WeightsRead
<1>5. total \in Nat
  <2>1. row.lob * weights.lob \in Nat /\ row.component * weights.component \in Nat
    BY <1>3, <1>4
  <2> QED
    BY <2>1
<1>6. ceiling \in Nat \ {0}
  BY <1>2, <1>4
<1> HIDE DEF total, ceiling
<1>7. 1 + (Min({total, ceiling}) * 99) \div ceiling \in 1..100
  BY <1>5, <1>6, Scaled
<1> QED
  BY <1>2, <1>7

\* A bucket is what a rule assigns, and a score is within its scale.
LEMMA PriorityHolds ==
    ASSUME IInv, NEW r \in Opened, NEW verdicts
    PROVE  LET p == Parameters[runs[r].version]
           IN  PriorityRowHolds(Priority(verdicts, p.buckets,
                                    UsageScore(Row(EvidenceAt(runs[r].cutoff)["inventory"]), p.weights)))
<1> DEFINE seen    == Row(EvidenceAt(runs[r].cutoff)["inventory"])
           weights == Parameters[runs[r].version].weights
           score   == UsageScore(seen, weights)
<1>1. PICK version \in Versions : version = runs[r].version
  BY OpenRun
<1> DEFINE row == Priority(verdicts, Parameters[version].buckets, score)
<1>2. "inventory" \in Tables
  BY DEF Tables
<1>3. seen = None \/ seen \in InventoryAccepts
  <2>1. seen = None \/ seen \in Accepts("inventory")
    BY <1>2, TableRead
  <2> QED
    BY <2>1 DEF Accepts
<1>4. WeightsRead(weights)
  BY <1>1, VersionsAssumption DEF Readable
<1>5. score # None => score \in 1..100
  <2> HIDE DEF seen, weights
  <2> QED
    BY <1>3, <1>4, UsageScaled
<1>6. row.score = score
  BY DEF Priority
<1>7. \/ row.rule = None /\ row.bucket = "unknown"
      \/ row.rule # None /\ row.bucket \in Buckets
  <2> HIDE DEF score
  <2> QED
    BY RuleApplied
<1> HIDE DEF row, score
<1>8. PriorityRowHolds(row)
  BY <1>5, <1>6, <1>7 DEF PriorityRowHolds, Buckets
<1> QED
  BY <1>1, <1>8 DEF row, score

\* What a run derives, its tables accept.
LEMMA DerivedHolds ==
    ASSUME IInv, NEW r \in Opened
    PROVE  RowsHold(Derived(runs[r].loaded, runs[r].cutoff, runs[r].version))
<1> DEFINE loaded  == runs[r].loaded
           cutoff  == runs[r].cutoff
           version == runs[r].version
           ev      == EvidenceAt(cutoff)
           p       == Parameters[version]
           rows    == Derived(loaded, cutoff, version)
<1>1. /\ rows.currency = Currency(ev, loaded.order)
      /\ rows.feedstock = FeedstockPresence(ev, cutoff, p.threshold, loaded.confidence)
      /\ rows.vulnerability = Vulnerability(ev, p.severities)
      /\ rows.licence = License(ev, p.licences)
      /\ rows.remediation = Remediation(ev, cutoff)
      /\ rows.python = PythonReadiness(ev, cutoff)
  BY PassRows
<1>2. PICK verdicts : /\ rows.work_type = WorkType(verdicts)
                      /\ rows.priority = Priority(verdicts, p.buckets, UsageScore(Row(ev["inventory"]), p.weights))
  BY LastPasses
<1>3. LicenseRulesRead(p.licences)
  BY OpenRun, VersionsAssumption DEF Readable
<1>4. CurrencyRowHolds(rows.currency)
  BY <1>1, CurrencyHolds
<1>5. FeedstockRowHolds(rows.feedstock)
  BY <1>1, FeedstockHolds
<1>6. VulnerabilityRowHolds(rows.vulnerability)
  BY <1>1, VulnerabilityHolds
<1>7. LicenseRowHolds(rows.licence)
  BY <1>1, <1>3, LicenseHolds
<1>8. RemediationRowHolds(rows.remediation)
  BY <1>1, RemediationHolds
<1>9. PythonRowHolds(rows.python)
  BY <1>1, PythonHolds
<1>10. rows.work_type \in WorkTypes \cup {"unknown"}
  BY <1>2, WorkGiven
<1>11. PriorityRowHolds(rows.priority)
  BY <1>2, PriorityHolds
<1> HIDE DEF rows
<1>12. RowsHold(rows)
  BY <1>4, <1>5, <1>6, <1>7, <1>8, <1>9, <1>10, <1>11 DEF RowsHold
<1> QED
  BY <1>12 DEF rows

\* Whatever the sources reply and the version says, no pass writes a row its
\* table refuses (core/policy_run.py, policies/models.py).
THEOREM DerivationCompletes == Spec => []DerivationNeverFails
<1>1. Init => DerivationNeverFails
  BY DEF Init, Idle, DerivationNeverFails
<1>2. IInv /\ DerivationNeverFails /\ [Next]_vars => DerivationNeverFails'
  <2> SUFFICES ASSUME IInv, DerivationNeverFails, [Next]_vars, NEW r \in Runs
               PROVE  runs'[r].phase # "failed"
    BY DEF DerivationNeverFails
  <2>1. runs[r].phase # "failed" /\ DOMAIN runs = Runs
        /\ DOMAIN runs[r] = {"phase", "cutoff", "version", "loaded", "rows"}
    BY DEF DerivationNeverFails, IInv, RunInv
  <2>2. CASE runs'[r] = runs[r]
    BY <2>1, <2>2
  <2>3. CASE Start(r)
    BY <2>1, <2>3 DEF Start
  <2>4. CASE Evaluate(r)
    <3>1. r \in Opened
      BY <2>4 DEF Evaluate, Opened
    <3>2. RowsHold(Derived(runs[r].loaded, runs[r].cutoff, runs[r].version))
      BY <3>1, DerivedHolds
    <3>3. runs'[r].phase = "evaluated"
      BY <2>1, <2>4, <3>2 DEF Evaluate
    <3> QED
      BY <3>3
  <2>5. CASE Compose(r)
    BY <2>1, <2>5 DEF Compose
  <2>6. \/ runs' = runs
        \/ \E s \in Runs : Start(s) \/ Evaluate(s) \/ Compose(s)
    BY DEF Next, Tick, Observe, Identify, vars
  <2>7. ASSUME NEW s \in Runs, s # r, Start(s) \/ Evaluate(s) \/ Compose(s)
        PROVE  runs'[r] = runs[r]
    BY <2>7, <2>1 DEF Start, Evaluate, Compose
  <2> QED
    BY <2>2, <2>3, <2>4, <2>5, <2>6, <2>7
<1> QED
  BY <1>1, <1>2, Invariant, PTL DEF Spec

\* No table refuses a row of a collector or of a pass (collectors/models.py,
\* policies/models.py).
THEOREM RowsAreAccepted == Spec => []NoRowIsRefused
BY DerivationCompletes, EvidenceAccepted, PTL DEF NoRowIsRefused

=============================================================================
