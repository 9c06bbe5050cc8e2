------------------------ MODULE QueueOpening_proofs ------------------------
(***************************************************************************)
(* Proofs about QueueOpening, for any packages, runs and instants.         *)
(*                                                                         *)
(* NothingIsLeftOpen and OneIdentityItemEach need one policy run at a time *)
(* and, where an identity item's queue matters, that nobody routes it      *)
(* elsewhere.  What a run has listed to open is for packages without an    *)
(* open identity item, one key each, and nobody else opens anything while  *)
(* it works through the list; what it has listed to close is everything    *)
(* open on what left, and nobody adds to that either.                      *)
(*                                                                         *)
(* ClosedForAbsence needs neither: it rests on what the fold of the        *)
(* inventory reads, which is proved for any rows and cut-off by taking the *)
(* least instant at which the fold would be wrong, and on the purge        *)
(* leaving the row read.                                                   *)
(*                                                                         *)
(* NobodyIsMissed puts the two together, for runs none of which looks      *)
(* behind an earlier one and an inventory that keeps its rows.  An item's  *)
(* epoch is when its package was listed; a closed one's package has been   *)
(* away since; so the key of a package that is listed now is never that of *)
(* a closed item, and what a run opens is there when it ends.              *)
(***************************************************************************)
EXTENDS QueueOpening, FiniteSetTheorems, WellFoundedInduction, TLAPS

Fields == {"phase", "cutoff", "dated", "matched", "readings", "touched", "todo", "unresolved", "fell"}

\* The rows are rows, and the runs are runs.
Shape ==
    /\ work \in [Findings -> [state : {"unfiled", "live", "finished", "closed"}, queue : Queues]]
    /\ DOMAIN runs = Runs
    /\ runs = [r \in Runs |-> runs[r]]
    /\ \A r \in Runs : DOMAIN runs[r] = Fields

\* One run at a time is between its passes and its end.
Alone == \A q, r \in Runs : runs[q].phase \in Going /\ runs[r].phase \in Going => q = r

\* What a run is about to open is not for a package that left.
OpensForTheListed ==
    \A r \in Runs : runs[r].phase \in {"identity", "remediation"} =>
        \A k \in runs[r].todo : ~runs[r].readings[k.package].absent

\* A run that is closing has everything in hand that is open on what left.
ClosesAllThatLeft ==
    \A r \in Runs : runs[r].phase = "closing" =>
        \A k \in Findings : Live(k) /\ runs[r].readings[k.package].absent => k \in runs[r].todo

Closing == Shape /\ Alone /\ OpensForTheListed /\ ClosesAllThatLeft

\* An item stays in the queue it was filed in.
InItsQueue == \A k \in Findings : work[k].queue = QueueOf[k.kind]

\* What a run is about to open as identity work has one key to the package, and
\* the package has no identity item open; remediation work is not identity work.
OpensWhatIsNotOpen ==
    \A r \in Runs :
        /\ runs[r].phase = "identity" =>
               \A k \in runs[r].todo :
                   /\ k = KeyOf("identity", k.package, runs[r].readings[k.package])
                   /\ \A j \in Findings : Live(j) /\ j.kind = "identity" => j.package # k.package
        /\ runs[r].phase = "remediation" => \A k \in runs[r].todo : k.kind = "remediation"

OneEach ==
    \A j, k \in Findings :
        Live(j) /\ Live(k) /\ j.kind = "identity" /\ k.kind = "identity" /\ j.package = k.package => j = k

Opening == Shape /\ Alone /\ InItsQueue /\ OpensWhatIsNotOpen /\ OneEach

\* A run with nothing in hand is a run.
LEMMA NewRun ==
    ASSUME NEW phase, NEW cutoff, NEW dated, NEW x, x = Run(phase, cutoff, dated)
    PROVE  DOMAIN x = Fields /\ x.phase = phase /\ x.cutoff = cutoff /\ x.todo = {}
  BY DEF Run, Fields

\* What a step of one run makes of the runs.
LEMMA RunChanged ==
    ASSUME Shape, NEW r \in Runs, NEW x, DOMAIN x = Fields, runs' = [runs EXCEPT ![r] = x]
    PROVE  /\ DOMAIN runs' = Runs
           /\ runs' = [q \in Runs |-> runs'[q]]
           /\ \A q \in Runs : DOMAIN runs'[q] = Fields
           /\ runs'[r] = x
           /\ \A q \in Runs : q # r => runs'[q] = runs[q]
  BY DEF Shape

\* What each step of a run does to it.
LEMMA ComposeChanges ==
    ASSUME Shape, NEW r \in Runs, Compose(r)
    PROVE  /\ Shape' /\ work' = work
           /\ ~Overlap => \A q \in Runs : runs[q].phase \notin Going
           /\ runs'[r].phase = "composed"
           /\ runs'[r].cutoff \in CutOffs /\ runs'[r].matched \subseteq Catalog
           /\ \A q \in Runs : q # r => runs'[q] = runs[q]
<1>1. PICK cutoff \in CutOffs, matched \in SUBSET Catalog :
          runs' = [runs EXCEPT ![r] = [Run("composed", cutoff, clock) EXCEPT !.matched = matched]]
  BY DEF Compose
<1>2. PICK old : old = Run("composed", cutoff, clock)
  OBVIOUS
<1>3. DOMAIN old = Fields /\ old.phase = "composed" /\ old.cutoff = cutoff
  BY <1>2, NewRun
<1>4. PICK x : x = [old EXCEPT !.matched = matched]
  OBVIOUS
<1>5. DOMAIN x = Fields /\ x.phase = "composed" /\ x.cutoff = cutoff /\ x.matched = matched
  BY <1>3, <1>4 DEF Fields
<1>6. runs' = [runs EXCEPT ![r] = x]
  BY <1>1, <1>2, <1>4, Zenon
<1> QED
  BY <1>5, <1>6, RunChanged DEF Compose, Shape

LEMMA SelectIdentityChanges ==
    ASSUME Shape, NEW r \in Runs, SelectIdentity(r)
    PROVE  /\ Shape' /\ UNCHANGED work
           /\ runs[r].phase = "composed" /\ runs'[r].phase = "identity"
           /\ runs'[r].cutoff = runs[r].cutoff /\ runs'[r].matched = runs[r].matched
           /\ runs'[r].touched = PackagesTheRunTouches(r)
           /\ runs'[r].unresolved = Unmapped \cap runs'[r].touched
           /\ \A p \in Packages : runs'[r].readings[p] =
                  IF p \in runs'[r].touched THEN HistoryAt(p, runs[r].cutoff) ELSE NeverSeen
           /\ runs'[r].todo = {KeyOf("identity", p, runs'[r].readings[p]) :
                                   p \in SelectUnresolved(runs'[r].readings) \ AlreadyOpen}
           /\ \A q \in Runs : q # r => runs'[q] = runs[q]
<1> DEFINE touched  == PackagesTheRunTouches(r)
           readings == [p \in Packages |-> IF p \in touched THEN HistoryAt(p, runs[r].cutoff) ELSE NeverSeen]
<1>1. runs' = [runs EXCEPT ![r].phase = "identity", ![r].touched = touched, ![r].readings = readings,
                           ![r].unresolved = Unmapped \cap touched,
                           ![r].todo = {KeyOf("identity", p, readings[p]) :
                                           p \in SelectUnresolved(readings) \ AlreadyOpen}]
  BY DEF SelectIdentity
<1> HIDE DEF touched, readings
<1>2. PICK todo : todo = {KeyOf("identity", p, readings[p]) : p \in SelectUnresolved(readings) \ AlreadyOpen}
  OBVIOUS
<1>3. PICK old : old = runs[r]
  OBVIOUS
<1>4. DOMAIN old = Fields
  BY <1>3 DEF Shape
<1>5. PICK x : x = [old EXCEPT !.phase = "identity", !.touched = touched, !.readings = readings,
                          !.unresolved = Unmapped \cap touched, !.todo = todo]
  OBVIOUS
<1>6. DOMAIN x = Fields /\ x.phase = "identity" /\ x.readings = readings /\ x.todo = todo
  BY <1>4, <1>5 DEF Fields
<1>7. runs' = [runs EXCEPT ![r].phase = "identity", ![r].touched = touched, ![r].readings = readings,
                           ![r].unresolved = Unmapped \cap touched, ![r].todo = todo]
  BY <1>1, <1>2, Zenon
<1>8. runs' = [runs EXCEPT ![r] = x]
  BY <1>3, <1>5, <1>7 DEF Shape
<1>9. /\ DOMAIN runs' = Runs /\ runs' = [q \in Runs |-> runs'[q]]
      /\ \A q \in Runs : DOMAIN runs'[q] = Fields
      /\ runs'[r] = x
      /\ \A q \in Runs : q # r => runs'[q] = runs[q]
  BY <1>6, <1>8, RunChanged
<1>10. UNCHANGED work /\ runs[r].phase = "composed"
  BY DEF SelectIdentity
<1>11. Shape'
  BY <1>9, <1>10 DEF Shape
<1>12. runs'[r].readings = readings /\ runs'[r].todo = todo /\ runs'[r].phase = "identity"
  BY <1>6, <1>9
<1>14. /\ runs'[r].cutoff = runs[r].cutoff /\ runs'[r].matched = runs[r].matched
       /\ runs'[r].touched = PackagesTheRunTouches(r)
       /\ runs'[r].unresolved = Unmapped \cap runs'[r].touched
  BY <1>3, <1>4, <1>5, <1>9 DEF Fields, touched
<1>15. \A p \in Packages : runs'[r].readings[p] =
           IF p \in runs'[r].touched THEN HistoryAt(p, runs[r].cutoff) ELSE NeverSeen
  BY <1>12, <1>14 DEF readings, touched
<1>13. runs'[r].todo = {KeyOf("identity", p, runs'[r].readings[p]) :
                            p \in SelectUnresolved(runs'[r].readings) \ AlreadyOpen}
  BY <1>2, <1>12, Zenon
<1> QED
  BY <1>9, <1>10, <1>11, <1>12, <1>13, <1>14, <1>15

\* What a run set out from and read stays as it is.
Kept(r) ==
    /\ runs'[r].cutoff = runs[r].cutoff
    /\ runs'[r].matched = runs[r].matched
    /\ runs'[r].touched = runs[r].touched
    /\ runs'[r].unresolved = runs[r].unresolved

\* A run whose list is set and whose reading stays: ListAbsent.
LEMMA ListSet ==
    ASSUME Shape, NEW r \in Runs, NEW phase, NEW todo,
           runs' = [runs EXCEPT ![r].phase = phase, ![r].todo = todo]
    PROVE  /\ DOMAIN runs' = Runs /\ runs' = [q \in Runs |-> runs'[q]]
           /\ \A q \in Runs : DOMAIN runs'[q] = Fields
           /\ runs'[r].phase = phase /\ runs'[r].todo = todo /\ runs'[r].readings = runs[r].readings
           /\ \A q \in Runs : q # r => runs'[q] = runs[q]
<1>1. PICK old : old = runs[r]
  OBVIOUS
<1>2. PICK x : x = [old EXCEPT !.phase = phase, !.todo = todo]
  OBVIOUS
<1>3. DOMAIN x = Fields /\ x.phase = phase /\ x.todo = todo /\ x.readings = runs[r].readings
  BY <1>1, <1>2 DEF Shape, Fields
<1>4. runs' = [runs EXCEPT ![r] = x]
  BY <1>1, <1>2 DEF Shape
<1> QED
  BY <1>3, <1>4, RunChanged

LEMMA ListSetKeeps ==
    ASSUME Shape, NEW r \in Runs, NEW phase, NEW todo,
           runs' = [runs EXCEPT ![r].phase = phase, ![r].todo = todo]
    PROVE  Kept(r) /\ runs'[r].fell = runs[r].fell
  BY DEF Shape, Fields, Kept

\* A run that has done one key of its list.
LEMMA OneKeyDone ==
    ASSUME Shape, NEW r \in Runs, NEW k, runs' = [runs EXCEPT ![r].todo = @ \ {k}]
    PROVE  /\ DOMAIN runs' = Runs /\ runs' = [q \in Runs |-> runs'[q]]
           /\ \A q \in Runs : DOMAIN runs'[q] = Fields
           /\ runs'[r].phase = runs[r].phase /\ runs'[r].todo = runs[r].todo \ {k}
           /\ runs'[r].readings = runs[r].readings
           /\ Kept(r) /\ runs'[r].fell = runs[r].fell
           /\ \A q \in Runs : q # r => runs'[q] = runs[q]
<1>1. PICK old : old = runs[r]
  OBVIOUS
<1>2. PICK x : x = [old EXCEPT !.todo = old.todo \ {k}]
  OBVIOUS
<1>3. DOMAIN x = Fields /\ x.phase = runs[r].phase /\ x.todo = runs[r].todo \ {k} /\ x.readings = runs[r].readings
  BY <1>1, <1>2 DEF Shape, Fields
<1>4. /\ x.cutoff = runs[r].cutoff /\ x.matched = runs[r].matched /\ x.touched = runs[r].touched
      /\ x.unresolved = runs[r].unresolved /\ x.fell = runs[r].fell
  BY <1>1, <1>2 DEF Shape, Fields
<1>5. runs' = [runs EXCEPT ![r] = x]
  BY <1>1, <1>2 DEF Shape
<1> QED
  BY <1>3, <1>4, <1>5, RunChanged DEF Kept

\* What listing the advisories does to a run.
LEMMA EvidenceListed ==
    ASSUME Shape, NEW r \in Runs, SelectEvidence(r)
    PROVE  /\ Shape' /\ UNCHANGED <<clock, snapshots, confidence, rollup, work>> /\ Kept(r)
           /\ runs[r].phase = "identity" /\ runs[r].todo = {} /\ runs'[r].phase = "remediation"
           /\ runs'[r].readings = runs[r].readings
           /\ runs'[r].fell = (Unmapped \cap runs[r].matched) \ runs[r].unresolved
           /\ runs'[r].todo = {KeyOf("remediation", p, runs[r].readings[p]) :
                                   p \in {p \in runs[r].matched : /\ confidence[p] # "unmapped"
                                                                  /\ ~runs[r].readings[p].absent}}
           /\ \A q \in Runs : q # r => runs'[q] = runs[q]
<1>1. PICK fell, todo : /\ fell = (Unmapped \cap runs[r].matched) \ runs[r].unresolved
                        /\ todo = {KeyOf("remediation", p, runs[r].readings[p]) :
                                       p \in {p \in runs[r].matched : /\ confidence[p] # "unmapped"
                                                                      /\ ~runs[r].readings[p].absent}}
                        /\ runs' = [runs EXCEPT ![r].phase = "remediation", ![r].fell = fell, ![r].todo = todo]
  BY Zenon DEF SelectEvidence
<1>2. PICK old : old = runs[r]
  OBVIOUS
<1>3. PICK x : x = [old EXCEPT !.phase = "remediation", !.fell = fell, !.todo = todo]
  OBVIOUS
<1>4. DOMAIN x = Fields /\ x.phase = "remediation" /\ x.fell = fell /\ x.todo = todo /\ x.readings = runs[r].readings
  BY <1>2, <1>3 DEF Shape, Fields
<1>5. /\ x.cutoff = runs[r].cutoff /\ x.matched = runs[r].matched /\ x.touched = runs[r].touched
      /\ x.unresolved = runs[r].unresolved
  BY <1>2, <1>3 DEF Shape, Fields
<1>6. runs' = [runs EXCEPT ![r] = x]
  <2>1. runs' = [runs EXCEPT ![r].phase = "remediation", ![r].fell = fell, ![r].todo = todo]
    BY <1>1
  <2> QED
    BY <1>2, <1>3, <2>1 DEF Shape
<1>7. /\ DOMAIN runs' = Runs /\ runs' = [q \in Runs |-> runs'[q]]
      /\ \A q \in Runs : DOMAIN runs'[q] = Fields
      /\ runs'[r] = x
      /\ \A q \in Runs : q # r => runs'[q] = runs[q]
  BY <1>4, <1>6, RunChanged
<1>8. /\ UNCHANGED <<clock, snapshots, confidence, rollup, work>>
      /\ runs[r].phase = "identity" /\ runs[r].todo = {}
  BY DEF SelectEvidence
<1>9. Shape'
  BY <1>7, <1>8 DEF Shape
<1>10. Kept(r)
  BY <1>5, <1>7 DEF Kept
<1> QED
  BY <1>1, <1>4, <1>7, <1>8, <1>9, <1>10

\* A run that is over.
LEMMA Over ==
    ASSUME Shape, NEW r \in Runs, End(r) \/ Stop(r)
    PROVE  /\ Shape' /\ UNCHANGED work
           /\ runs'[r].phase \in {"done", "stopped"} /\ runs'[r].cutoff = runs[r].cutoff
           /\ \A q \in Runs : q # r => runs'[q] = runs[q]
<1>1. CASE End(r)
  <2>1. PICK x : x = Run("done", runs[r].cutoff, clock)
    OBVIOUS
  <2>2. DOMAIN x = Fields /\ x.phase = "done" /\ x.cutoff = runs[r].cutoff
    BY <2>1, NewRun
  <2>3. runs' = [runs EXCEPT ![r] = x]
    BY <1>1, <2>1 DEF End
  <2> QED
    BY <1>1, <2>2, <2>3, RunChanged DEF End, Shape
<1>2. CASE Stop(r)
  <2>1. PICK dated : runs' = [runs EXCEPT ![r] = Run("stopped", runs[r].cutoff, dated)]
    BY <1>2 DEF Stop
  <2>2. PICK x : x = Run("stopped", runs[r].cutoff, dated)
    OBVIOUS
  <2>3. DOMAIN x = Fields /\ x.phase = "stopped" /\ x.cutoff = runs[r].cutoff
    BY <2>2, NewRun
  <2>4. runs' = [runs EXCEPT ![r] = x]
    BY <2>1, <2>2
  <2> QED
    BY <1>2, <2>3, <2>4, RunChanged DEF Stop, Shape
<1> QED
  BY <1>1, <1>2

\* Opening an item makes at most that item live, and keeps the rows rows.
LEMMA OpenedOne ==
    ASSUME Shape, NEW k, work' = OpenKeyed(k)
    PROVE  /\ work' \in [Findings -> [state : {"unfiled", "live", "finished", "closed"}, queue : Queues]]
           /\ \A j \in Findings : work'[j] = work[j] \/ (j = k /\ work'[j].queue = QueueOf[k.kind])
<1>1. \A j \in Findings : QueueOf[j.kind] \in Queues
  BY DEF Findings, Kinds, QueueOf, Queues
<1>2. CASE Filed(k)
  BY <1>2 DEF OpenKeyed, Shape
<1>3. CASE ~Filed(k)
  <2>1. work' = [work EXCEPT ![k] = [state |-> "live", queue |-> QueueOf[k.kind]]]
    BY <1>3 DEF OpenKeyed
  <2>2. CASE k \in Findings
    BY <1>1, <2>1, <2>2 DEF Shape
  <2>3. CASE k \notin Findings
    BY <2>1, <2>3 DEF Shape
  <2> QED
    BY <2>2, <2>3
<1> QED
  BY <1>2, <1>3

\* Closing an item closes it and changes no other.
LEMMA ClosedOne ==
    ASSUME Shape, NEW k, work' = Closed(k)
    PROVE  /\ work' \in [Findings -> [state : {"unfiled", "live", "finished", "closed"}, queue : Queues]]
           /\ \A j \in Findings : /\ work'[j] = work[j] \/ work'[j].state = "closed"
                                  /\ work'[j].queue = work[j].queue
                                  /\ j = k => work'[j].state # "live"
<1>1. CASE Live(k)
  <2>1. work' = [work EXCEPT ![k].state = "closed"]
    BY <1>1 DEF Closed
  <2>2. CASE k \in Findings
    BY <2>1, <2>2 DEF Shape
  <2>3. CASE k \notin Findings
    BY <2>1, <2>3 DEF Shape
  <2> QED
    BY <2>2, <2>3
<1>2. CASE ~Live(k)
  BY <1>2 DEF Closed, Shape, Live
<1> QED
  BY <1>1, <1>2

\* What people, collectors and the purge do: nothing new is open, no run starts
\* or changes its list, and without routing no item changes its queue.
LEMMA EverybodyElse ==
    ASSUME Shape,
           \/ \E p \in Packages : Observe(p) \/ ObserveAbsence(p) \/ Identify(p) \/ LoseIdentity(p)
           \/ \E k \in Findings : FinishItem(k) \/ RouteItem(k)
           \/ Purge
    PROVE  /\ Shape'
           /\ \A k \in Findings : Live(k)' => Live(k)
           /\ ~Routes => \A k \in Findings : work'[k].queue = work[k].queue
           /\ \A r \in Runs : runs'[r] = runs[r] \/ runs'[r].phase \notin Going
<1>1. CASE \E p \in Packages : Observe(p) \/ ObserveAbsence(p) \/ Identify(p) \/ LoseIdentity(p)
  BY <1>1 DEF Observe, ObserveAbsence, Identify, LoseIdentity, Shape, Live
<1>2. ASSUME NEW k \in Findings, FinishItem(k) \/ RouteItem(k)
      PROVE  /\ Shape'
             /\ \A j \in Findings : Live(j)' => Live(j)
             /\ ~Routes => \A j \in Findings : work'[j].queue = work[j].queue
             /\ runs' = runs
  BY <1>2 DEF FinishItem, RouteItem, Shape, Live
<1>3. CASE Purge
  <2>1. PICK horizon : runs' = [r \in Runs |-> IF r \in PurgeableRuns(horizon) THEN Run("purged", 0, 0) ELSE runs[r]]
    BY <1>3, Zenon DEF Purge
  <2>2. PICK gone : gone = Run("purged", 0, 0)
    OBVIOUS
  <2>3. DOMAIN gone = Fields /\ gone.phase \notin Going
    BY <2>2, NewRun DEF Going
  <2>4. \A r \in Runs : runs'[r] = runs[r] \/ runs'[r] = gone
    BY <2>1, <2>2, Zenon
  <2>5. UNCHANGED work
    BY <1>3 DEF Purge
  <2>6. Shape'
    BY <2>1, <2>3, <2>4, <2>5 DEF Shape
  <2> QED
    BY <2>3, <2>4, <2>5, <2>6 DEF Live
<1> QED
  BY <1>1, <1>2, <1>3

-----------------------------------------------------------------------------
(* What closes *)

\* A step that opens nothing, starts no run and changes no list keeps Closing.
LEMMA QuietCloses ==
    ASSUME Closing, Shape', \A k \in Findings : Live(k)' => Live(k),
           \A r \in Runs : runs'[r] = runs[r] \/ runs'[r].phase \notin Going
    PROVE  Closing'
<1>1. Alone'
  BY DEF Closing, Alone
<1>2. OpensForTheListed'
  BY DEF Closing, OpensForTheListed, Going
<1>3. ClosesAllThatLeft'
  <2>1. ASSUME NEW r \in Runs, runs'[r].phase = "closing", NEW k \in Findings, Live(k)',
               runs'[r].readings[k.package].absent
        PROVE  k \in runs'[r].todo
    <3>1. runs'[r] = runs[r]
      BY <2>1 DEF Going
    <3> QED
      BY <2>1, <3>1 DEF Closing, ClosesAllThatLeft
  <2> QED
    BY <2>1 DEF ClosesAllThatLeft
<1> QED
  BY <1>1, <1>2, <1>3 DEF Closing

\* Every step of a run keeps Closing, as long as no other run is going.
LEMMA RunStepCloses ==
    ASSUME ~Overlap, Closing, NEW r \in Runs, RunStep(r)
    PROVE  Closing'
<1> USE DEF Going
<1>1. CASE Compose(r)
  <2>1. /\ Shape' /\ work' = work /\ runs'[r].phase = "composed"
        /\ \A q \in Runs : q # r => runs'[q] = runs[q] /\ runs[q].phase \notin Going
    BY <1>1, ComposeChanges DEF Closing
  <2> QED
    BY <2>1 DEF Closing, Alone, OpensForTheListed, ClosesAllThatLeft, Live
<1>2. CASE SelectIdentity(r)
  <2>1. /\ Shape' /\ work' = work
        /\ runs[r].phase = "composed" /\ runs'[r].phase = "identity"
        /\ runs'[r].todo = {KeyOf("identity", p, runs'[r].readings[p]) :
                                p \in SelectUnresolved(runs'[r].readings) \ AlreadyOpen}
        /\ \A q \in Runs : q # r => runs'[q] = runs[q]
    BY <1>2, SelectIdentityChanges DEF Closing
  <2>2. \A k \in runs'[r].todo : ~runs'[r].readings[k.package].absent
    BY <2>1 DEF KeyOf, SelectUnresolved
  <2> QED
    BY <2>1, <2>2 DEF Closing, Alone, OpensForTheListed, ClosesAllThatLeft, Live
<1>3. CASE SelectEvidence(r)
  <2>1. /\ Shape' /\ UNCHANGED work /\ runs[r].phase = "identity" /\ runs'[r].phase = "remediation"
        /\ runs'[r].readings = runs[r].readings
        /\ \A q \in Runs : q # r => runs'[q] = runs[q]
    BY <1>3, EvidenceListed DEF Closing
  <2>2. \A k \in runs'[r].todo : ~runs'[r].readings[k.package].absent
    <3>1. runs'[r].todo = {KeyOf("remediation", p, runs[r].readings[p]) :
                              p \in {p \in runs[r].matched : /\ confidence[p] # "unmapped"
                                                             /\ ~runs[r].readings[p].absent}}
      BY <1>3, EvidenceListed DEF Closing
    <3> QED
      BY <2>1, <3>1 DEF KeyOf
  <2> QED
    BY <2>1, <2>2 DEF Closing, Alone, OpensForTheListed, ClosesAllThatLeft, Live
<1>4. CASE OpenNext(r)
  <2>1. PICK k \in runs[r].todo : work' = OpenKeyed(k) /\ runs' = [runs EXCEPT ![r].todo = @ \ {k}]
    BY <1>4 DEF OpenNext
  <2>2. /\ DOMAIN runs' = Runs /\ runs' = [q \in Runs |-> runs'[q]]
        /\ \A q \in Runs : DOMAIN runs'[q] = Fields
        /\ runs'[r].phase = runs[r].phase /\ runs'[r].todo = runs[r].todo \ {k}
        /\ runs'[r].readings = runs[r].readings
        /\ \A q \in Runs : q # r => runs'[q] = runs[q]
    BY <2>1, OneKeyDone DEF Closing
  <2>3. work' \in [Findings -> [state : {"unfiled", "live", "finished", "closed"}, queue : Queues]]
    BY <2>1, OpenedOne DEF Closing
  <2>4. runs[r].phase \in {"identity", "remediation"}
    BY <1>4 DEF OpenNext
  <2>5. \A q \in Runs : runs'[q].phase # "closing"
    BY <2>2, <2>4 DEF Closing, Alone
  <2>6. Alone'
    BY <2>2 DEF Closing, Alone
  <2>7. OpensForTheListed'
    BY <2>2, <2>4 DEF Closing, OpensForTheListed
  <2> QED
    BY <2>2, <2>3, <2>5, <2>6, <2>7 DEF Closing, Shape, ClosesAllThatLeft
<1>5. CASE ListAbsent(r)
  <2>1. PICK todo : /\ todo = {k \in Findings : Live(k) /\ runs[r].readings[k.package].absent}
                    /\ runs' = [runs EXCEPT ![r].phase = "closing", ![r].todo = todo]
    BY <1>5, Zenon DEF ListAbsent
  <2>2. UNCHANGED work /\ runs[r].phase = "remediation"
    BY <1>5 DEF ListAbsent
  <2>3. /\ DOMAIN runs' = Runs /\ runs' = [q \in Runs |-> runs'[q]]
        /\ \A q \in Runs : DOMAIN runs'[q] = Fields
        /\ runs'[r].phase = "closing" /\ runs'[r].todo = todo /\ runs'[r].readings = runs[r].readings
        /\ \A q \in Runs : q # r => runs'[q] = runs[q]
    <3>1. PICK phase : phase = "closing" /\ runs' = [runs EXCEPT ![r].phase = phase, ![r].todo = todo]
      BY <2>1
    <3> QED
      BY <3>1, ListSet DEF Closing
  <2> QED
    BY <2>1, <2>2, <2>3 DEF Closing, Shape, Alone, OpensForTheListed, ClosesAllThatLeft, Live
<1>6. CASE CloseNext(r)
  <2>1. PICK k \in runs[r].todo : work' = Closed(k) /\ runs' = [runs EXCEPT ![r].todo = @ \ {k}]
    BY <1>6 DEF CloseNext
  <2>2. /\ DOMAIN runs' = Runs /\ runs' = [q \in Runs |-> runs'[q]]
        /\ \A q \in Runs : DOMAIN runs'[q] = Fields
        /\ runs'[r].phase = runs[r].phase /\ runs'[r].todo = runs[r].todo \ {k}
        /\ runs'[r].readings = runs[r].readings
        /\ \A q \in Runs : q # r => runs'[q] = runs[q]
    BY <2>1, OneKeyDone DEF Closing
  <2>3. /\ work' \in [Findings -> [state : {"unfiled", "live", "finished", "closed"}, queue : Queues]]
        /\ \A j \in Findings : Live(j)' => Live(j) /\ j # k
    BY <2>1, ClosedOne DEF Closing, Live
  <2>4. Alone' /\ OpensForTheListed'
    BY <2>2 DEF Closing, Alone, OpensForTheListed
  <2>5. ClosesAllThatLeft'
    BY <2>2, <2>3 DEF Closing, ClosesAllThatLeft
  <2> QED
    BY <2>2, <2>3, <2>4, <2>5 DEF Closing, Shape
<1>7. CASE End(r) \/ Stop(r)
  <2>1. /\ Shape' /\ work' = work /\ runs'[r].phase \in {"done", "stopped"}
        /\ \A q \in Runs : q # r => runs'[q] = runs[q]
    BY <1>7, Over DEF Closing
  <2>2. \A q \in Runs : runs'[q] = runs[q] \/ runs'[q].phase \notin Going
    BY <2>1
  <2> QED
    BY <2>1, <2>2, QuietCloses DEF Live
<1> QED
  BY <1>1, <1>2, <1>3, <1>4, <1>5, <1>6, <1>7 DEF RunStep

\* Closing holds at first.
LEMMA InitShape == Init => Shape /\ (\A r \in Runs : runs[r].phase = "idle") /\ \A k \in Findings : ~Live(k)
<1> SUFFICES ASSUME Init PROVE Shape /\ (\A r \in Runs : runs[r].phase = "idle") /\ \A k \in Findings : ~Live(k)
  OBVIOUS
<1>1. PICK x : x = Start
  OBVIOUS
<1>2. DOMAIN x = Fields /\ x.phase = "idle"
  BY <1>1, NewRun DEF Start
<1>3. runs = [r \in Runs |-> x]
  BY <1>1 DEF Init
<1>4. \A k \in Findings : QueueOf[k.kind] \in Queues
  BY DEF Findings, Kinds, QueueOf, Queues
<1>5. work \in [Findings -> [state : {"unfiled", "live", "finished", "closed"}, queue : Queues]]
  BY <1>4 DEF Init
<1>6. \A k \in Findings : ~Live(k)
  BY DEF Init, Live
<1> QED
  BY <1>2, <1>3, <1>5, <1>6 DEF Shape

LEMMA InitClosing == Init => Closing
  BY InitShape DEF Closing, Alone, OpensForTheListed, ClosesAllThatLeft, Going

LEMMA NextClosing == ~Overlap /\ Closing /\ [Next]_vars => Closing'
<1> SUFFICES ASSUME ~Overlap, Closing, [Next]_vars PROVE Closing'
  OBVIOUS
<1>1. ASSUME NEW r \in Runs, RunStep(r) PROVE Closing'
  BY <1>1, RunStepCloses
<1>2. CASE \/ \E p \in Packages : Observe(p) \/ ObserveAbsence(p) \/ Identify(p) \/ LoseIdentity(p)
           \/ \E k \in Findings : FinishItem(k) \/ RouteItem(k)
           \/ Purge
  BY <1>2, EverybodyElse, QuietCloses DEF Closing
<1>3. CASE UNCHANGED vars
  BY <1>3, QuietCloses DEF vars, Closing, Shape, Live
<1> QED
  BY <1>1, <1>2, <1>3 DEF Next

\* Only its own End ends a run.
LEMMA OnlyEndEnds ==
    ASSUME Shape, [Next]_vars, NEW r \in Runs, Ending(r)
    PROVE  End(r)
<1>1. ASSUME NEW q \in Runs, RunStep(q) PROVE End(r)
  <2>1. CASE Compose(q)
    BY <1>1, <2>1, ComposeChanges DEF Ending
  <2>2. CASE SelectIdentity(q)
    BY <1>1, <2>2, SelectIdentityChanges DEF Ending
  <2>3. CASE SelectEvidence(q)
    <3>1. runs'[q].phase = "remediation" /\ \A z \in Runs : z # q => runs'[z] = runs[z]
      BY <2>3, EvidenceListed
    <3> QED
      BY <3>1 DEF Ending
  <2>4. CASE OpenNext(q)
    BY <2>4 DEF OpenNext, Shape, Fields, Ending
  <2>5. CASE ListAbsent(q)
    BY <2>5 DEF ListAbsent, Shape, Fields, Ending
  <2>6. CASE CloseNext(q)
    BY <2>6 DEF CloseNext, Shape, Fields, Ending
  <2>7. CASE End(q)
    BY <1>1, <2>7, Over DEF Ending
  <2>8. CASE Stop(q)
    <3>1. PICK dated : runs' = [runs EXCEPT ![q] = Run("stopped", runs[q].cutoff, dated)]
      BY <2>8, Zenon DEF Stop
    <3>2. PICK x : x = Run("stopped", runs[q].cutoff, dated)
      OBVIOUS
    <3>3. DOMAIN x = Fields /\ x.phase = "stopped"
      BY <3>2, NewRun
    <3>4. runs' = [runs EXCEPT ![q] = x]
      BY <3>1, <3>2, Zenon
    <3> QED
      BY <3>3, <3>4, RunChanged DEF Ending
  <2> QED
    BY <1>1, <2>1, <2>2, <2>3, <2>4, <2>5, <2>6, <2>7, <2>8 DEF RunStep
<1>2. CASE \/ \E p \in Packages : Observe(p) \/ ObserveAbsence(p) \/ Identify(p) \/ LoseIdentity(p)
           \/ \E k \in Findings : FinishItem(k) \/ RouteItem(k)
  BY <1>2 DEF Observe, ObserveAbsence, Identify, LoseIdentity, FinishItem, RouteItem, Ending
<1>3. CASE Purge
  <2>1. PICK horizon : runs' = [q \in Runs |-> IF q \in PurgeableRuns(horizon) THEN Run("purged", 0, 0) ELSE runs[q]]
    BY <1>3, Zenon DEF Purge
  <2>2. Run("purged", 0, 0).phase = "purged"
    BY NewRun
  <2> QED
    BY <2>1, <2>2 DEF Ending
<1>4. CASE UNCHANGED vars
  BY <1>4 DEF vars, Ending
<1> QED
  BY <1>1, <1>2, <1>3, <1>4 DEF Next

\* A run that ends leaves nothing open on what had left at its cut-off, however
\* long it took and whatever people, collectors and the purge did meanwhile
\* (_close_absent_items), as long as no two runs overlap.
THEOREM NothingIsLeftOpen ==
    ASSUME ~Overlap
    PROVE  Spec => NothingOpenForWhatLeft
<1> DEFINE Ends == \A r \in Runs : Ending(r) =>
          \A k \in Findings : (Live(k) /\ k.package \in runs[r].touched) => ~runs[r].readings[k.package].absent
<1>1. ASSUME Closing, [Next]_vars PROVE Ends
  <2>1. ASSUME NEW r \in Runs, Ending(r) PROVE runs[r].phase = "closing" /\ runs[r].todo = {}
    BY <1>1, <2>1, OnlyEndEnds DEF End, Closing
  <2> QED
    BY <1>1, <2>1 DEF Closing, ClosesAllThatLeft
<1>2. Closing /\ [Next]_vars => [Ends]_vars
  BY <1>1
<1> QED
  BY InitClosing, NextClosing, <1>2, PTL DEF Spec, NothingOpenForWhatLeft

-----------------------------------------------------------------------------
(* What opens *)

\* A step that opens nothing, starts no run, changes no list and routes no item
\* keeps Opening.
LEMMA QuietOpens ==
    ASSUME Opening, Shape', \A k \in Findings : Live(k)' => Live(k),
           \A k \in Findings : work'[k].queue = work[k].queue,
           \A r \in Runs : runs'[r] = runs[r] \/ runs'[r].phase \notin Going
    PROVE  Opening'
<1>1. Alone'
  BY DEF Opening, Alone
<1>2. InItsQueue'
  BY DEF Opening, InItsQueue
<1>3. OpensWhatIsNotOpen'
  <2>1. ASSUME NEW r \in Runs, runs'[r].phase \in {"identity", "remediation"}
        PROVE  runs'[r] = runs[r]
    BY <2>1 DEF Going
  <2> QED
    BY <2>1 DEF Opening, OpensWhatIsNotOpen
<1>4. OneEach'
  BY DEF Opening, OneEach
<1> QED
  BY <1>1, <1>2, <1>3, <1>4 DEF Opening

\* Opening the next item keeps one open identity item per package.
LEMMA OpenNextOpens ==
    ASSUME Opening, NEW r \in Runs, OpenNext(r)
    PROVE  Opening'
<1>1. PICK k \in runs[r].todo : work' = OpenKeyed(k) /\ runs' = [runs EXCEPT ![r].todo = @ \ {k}]
  BY DEF OpenNext
<1>2. /\ DOMAIN runs' = Runs /\ runs' = [q \in Runs |-> runs'[q]]
      /\ \A q \in Runs : DOMAIN runs'[q] = Fields
      /\ runs'[r].phase = runs[r].phase /\ runs'[r].todo = runs[r].todo \ {k}
      /\ runs'[r].readings = runs[r].readings
      /\ \A q \in Runs : q # r => runs'[q] = runs[q]
  BY <1>1, OneKeyDone DEF Opening
<1>3. /\ work' \in [Findings -> [state : {"unfiled", "live", "finished", "closed"}, queue : Queues]]
      /\ \A j \in Findings : work'[j] = work[j] \/ (j = k /\ work'[j].queue = QueueOf[k.kind])
  BY <1>1, OpenedOne DEF Opening
<1>4. runs[r].phase \in {"identity", "remediation"}
  BY DEF OpenNext
<1>5. Shape'
  BY <1>2, <1>3 DEF Shape
<1>6. Alone'
  BY <1>2 DEF Opening, Alone
<1>7. InItsQueue'
  BY <1>3 DEF Opening, InItsQueue
<1>8. \A j \in Findings : Live(j)' => Live(j) \/ j = k
  BY <1>3 DEF Live
<1>9. \A q \in Runs : runs'[q].phase \in {"identity", "remediation"} => q = r
  BY <1>2, <1>4 DEF Opening, Alone, Going
<1>10. CASE runs[r].phase = "identity"
  <2>1. /\ k = KeyOf("identity", k.package, runs[r].readings[k.package])
        /\ \A j \in Findings : Live(j) /\ j.kind = "identity" => j.package # k.package
    BY <1>10 DEF Opening, OpensWhatIsNotOpen
  <2>2. ASSUME NEW i \in runs'[r].todo
        PROVE  /\ i = KeyOf("identity", i.package, runs'[r].readings[i.package])
               /\ i.package # k.package
               /\ \A j \in Findings : Live(j) /\ j.kind = "identity" => j.package # i.package
    BY <1>2, <1>10, <2>1 DEF Opening, OpensWhatIsNotOpen
  <2>3. OpensWhatIsNotOpen'
    BY <1>2, <1>8, <1>9, <1>10, <2>2 DEF OpensWhatIsNotOpen
  <2>4. OneEach'
    BY <1>8, <2>1 DEF Opening, OneEach
  <2> QED
    BY <1>5, <1>6, <1>7, <2>3, <2>4 DEF Opening
<1>11. CASE runs[r].phase = "remediation"
  <2>1. k.kind = "remediation"
    BY <1>11 DEF Opening, OpensWhatIsNotOpen
  <2>2. OpensWhatIsNotOpen'
    BY <1>2, <1>9, <1>11 DEF Opening, OpensWhatIsNotOpen
  <2>3. OneEach'
    BY <1>8, <2>1 DEF Opening, OneEach
  <2> QED
    BY <1>5, <1>6, <1>7, <2>2, <2>3 DEF Opening
<1> QED
  BY <1>4, <1>10, <1>11

\* Every step of a run keeps Opening, as long as no other run is going.
LEMMA RunStepOpens ==
    ASSUME ~Overlap, Opening, NEW r \in Runs, RunStep(r)
    PROVE  Opening'
<1>1. CASE Compose(r)
  <2>1. /\ Shape' /\ work' = work /\ runs'[r].phase = "composed"
        /\ \A q \in Runs : q # r => runs'[q] = runs[q] /\ runs[q].phase \notin Going
    BY <1>1, ComposeChanges DEF Opening
  <2> QED
    BY <2>1 DEF Opening, Alone, InItsQueue, OpensWhatIsNotOpen, OneEach, Live
<1>2. CASE SelectIdentity(r)
  <2>1. /\ Shape' /\ work' = work
        /\ runs[r].phase = "composed" /\ runs'[r].phase = "identity"
        /\ runs'[r].todo = {KeyOf("identity", p, runs'[r].readings[p]) :
                                p \in SelectUnresolved(runs'[r].readings) \ AlreadyOpen}
        /\ \A q \in Runs : q # r => runs'[q] = runs[q]
    BY <1>2, SelectIdentityChanges DEF Opening
  <2>2. \A j \in Findings : Live(j) /\ j.kind = "identity" => j.package \in AlreadyOpen
    BY DEF AlreadyOpen, Opening, InItsQueue, QueueOf, Kinds
  <2>3. ASSUME NEW i \in runs'[r].todo
        PROVE  /\ i = KeyOf("identity", i.package, runs'[r].readings[i.package])
               /\ i.package \notin AlreadyOpen
    <3>1. PICK p \in SelectUnresolved(runs'[r].readings) \ AlreadyOpen :
              i = KeyOf("identity", p, runs'[r].readings[p])
      BY <2>1, <2>3
    <3>2. i.package = p
      BY <3>1 DEF KeyOf
    <3> QED
      BY <3>1, <3>2
  <2>4. OpensWhatIsNotOpen'
    BY <2>1, <2>2, <2>3 DEF Opening, OpensWhatIsNotOpen, Live
  <2>5. Alone'
    BY <2>1 DEF Opening, Alone, Going
  <2> QED
    BY <2>1, <2>4, <2>5 DEF Opening, InItsQueue, OneEach, Live
<1>3. CASE SelectEvidence(r)
  <2>1. /\ Shape' /\ UNCHANGED work /\ runs[r].phase = "identity" /\ runs'[r].phase = "remediation"
        /\ \A q \in Runs : q # r => runs'[q] = runs[q]
    BY <1>3, EvidenceListed DEF Opening
  <2>2. \A k \in runs'[r].todo : k.kind = "remediation"
    <3>1. runs'[r].todo = {KeyOf("remediation", p, runs[r].readings[p]) :
                              p \in {p \in runs[r].matched : /\ confidence[p] # "unmapped"
                                                             /\ ~runs[r].readings[p].absent}}
      BY <1>3, EvidenceListed DEF Opening
    <3> QED
      BY <3>1 DEF KeyOf
  <2>3. OpensWhatIsNotOpen'
    BY <2>1, <2>2 DEF Opening, OpensWhatIsNotOpen, Live
  <2> QED
    BY <2>1, <2>3 DEF Opening, Alone, InItsQueue, OneEach, Live, Going
<1>4. CASE OpenNext(r)
  BY <1>4, OpenNextOpens
<1>5. CASE ListAbsent(r)
  <2>1. PICK phase, todo : phase = "closing" /\ runs' = [runs EXCEPT ![r].phase = phase, ![r].todo = todo]
    BY <1>5, Zenon DEF ListAbsent
  <2>2. UNCHANGED work /\ runs[r].phase = "remediation"
    BY <1>5 DEF ListAbsent
  <2>3. /\ DOMAIN runs' = Runs /\ runs' = [q \in Runs |-> runs'[q]]
        /\ \A q \in Runs : DOMAIN runs'[q] = Fields
        /\ runs'[r].phase = "closing"
        /\ \A q \in Runs : q # r => runs'[q] = runs[q]
    BY <2>1, ListSet DEF Opening
  <2> QED
    BY <2>2, <2>3 DEF Opening, Shape, Alone, InItsQueue, OpensWhatIsNotOpen, OneEach, Live, Going
<1>6. CASE CloseNext(r)
  <2>1. PICK k \in runs[r].todo : work' = Closed(k) /\ runs' = [runs EXCEPT ![r].todo = @ \ {k}]
    BY <1>6 DEF CloseNext
  <2>2. /\ DOMAIN runs' = Runs /\ runs' = [q \in Runs |-> runs'[q]]
        /\ \A q \in Runs : DOMAIN runs'[q] = Fields
        /\ runs'[r].phase = runs[r].phase /\ runs[r].phase = "closing"
        /\ \A q \in Runs : q # r => runs'[q] = runs[q]
    BY <1>6, <2>1, OneKeyDone DEF Opening, CloseNext
  <2>3. /\ work' \in [Findings -> [state : {"unfiled", "live", "finished", "closed"}, queue : Queues]]
        /\ \A j \in Findings : (Live(j)' => Live(j)) /\ work'[j].queue = work[j].queue
    BY <2>1, ClosedOne DEF Opening, Live
  <2>4. OpensWhatIsNotOpen'
    BY <2>2, <2>3 DEF Opening, OpensWhatIsNotOpen
  <2>5. Alone' /\ InItsQueue' /\ OneEach'
    BY <2>2, <2>3 DEF Opening, Alone, InItsQueue, OneEach
  <2> QED
    BY <2>2, <2>3, <2>4, <2>5 DEF Opening, Shape
<1>7. CASE End(r) \/ Stop(r)
  <2>1. /\ Shape' /\ work' = work /\ runs'[r].phase \in {"done", "stopped"}
        /\ \A q \in Runs : q # r => runs'[q] = runs[q]
    BY <1>7, Over DEF Opening
  <2>2. \A q \in Runs : runs'[q] = runs[q] \/ runs'[q].phase \notin Going
    BY <2>1 DEF Going
  <2> QED
    BY <2>1, <2>2, QuietOpens DEF Live
<1> QED
  BY <1>1, <1>2, <1>3, <1>4, <1>5, <1>6, <1>7 DEF RunStep

LEMMA InitOpening == Init => Opening
<1> SUFFICES ASSUME Init PROVE Opening
  OBVIOUS
<1>1. InItsQueue
  BY DEF Init, InItsQueue
<1> QED
  BY <1>1, InitShape DEF Opening, Alone, OpensWhatIsNotOpen, OneEach, Going

LEMMA NextOpening == ~Overlap /\ ~Routes /\ Opening /\ [Next]_vars => Opening'
<1> SUFFICES ASSUME ~Overlap, ~Routes, Opening, [Next]_vars PROVE Opening'
  OBVIOUS
<1>1. ASSUME NEW r \in Runs, RunStep(r) PROVE Opening'
  BY <1>1, RunStepOpens
<1>2. CASE \/ \E p \in Packages : Observe(p) \/ ObserveAbsence(p) \/ Identify(p) \/ LoseIdentity(p)
           \/ \E k \in Findings : FinishItem(k) \/ RouteItem(k)
           \/ Purge
  BY <1>2, EverybodyElse, QuietOpens DEF Opening
<1>3. CASE UNCHANGED vars
  BY <1>3, QuietOpens DEF vars, Opening, Shape, Live
<1> QED
  BY <1>1, <1>2, <1>3 DEF Next

\* No package ever has two open identity items, whatever absences and returns
\* make of their keys and wherever a run stops (open_queue_items), as long as
\* no two runs overlap and nobody routes one out of its queue.
THEOREM OneIdentityItemEach ==
    ASSUME ~Overlap, ~Routes
    PROVE  Spec => []OneOpenIdentityItem
<1>1. ASSUME Opening PROVE OneOpenIdentityItem
  <2>1. ASSUME NEW p \in Packages
        PROVE  Cardinality({k \in Findings : k.kind = "identity" /\ k.package = p /\ Live(k)}) <= 1
    <3> DEFINE open == {k \in Findings : k.kind = "identity" /\ k.package = p /\ Live(k)}
    <3>1. \A j, k \in open : j = k
      BY <1>1 DEF Opening, OneEach
    <3>2. CASE open = {}
      BY <3>2, FS_EmptySet
    <3>3. CASE open # {}
      <4>1. PICK k : k \in open
        BY <3>3
      <4>2. open = {k}
        BY <3>1, <4>1
      <4>3. Cardinality(open) = 1
        BY <4>2, FS_Singleton
      <4> QED
        BY <4>3
    <3> QED
      BY <3>2, <3>3
  <2> QED
    BY <2>1 DEF OneOpenIdentityItem
<1>2. Opening => OneOpenIdentityItem
  BY <1>1
<1> QED
  BY InitOpening, NextOpening, <1>2, PTL DEF Spec
-----------------------------------------------------------------------------
(* What the fold reads *)

Less == {pair \in Nat \X Nat : pair[1] < pair[2]}

\* A set of naturals has a least one.
LEMMA Least ==
    ASSUME NEW T, T \subseteq Nat, T # {}
    PROVE  \E least \in T : \A y \in T : least <= y
<1>1. IsWellFoundedOn(Less, Nat)
  BY NatLessThanWellFounded DEF OpToRel, Less
<1>2. PICK x \in T : \A y \in T : ~(<<y, x>> \in Less)
  BY <1>1, WFMin
<1>3. ASSUME NEW y \in T PROVE x <= y
  <2>1. x \in Nat /\ y \in Nat
    OBVIOUS
  <2>2. <<y, x>> \in Nat \X Nat /\ <<y, x>>[1] = y /\ <<y, x>>[2] = x
    BY <2>1
  <2>3. ~(y < x)
    BY <1>2, <2>2 DEF Less
  <2> QED
    BY <2>1, <2>3
<1> QED
  BY <1>3

\* The history of a package at an instant, from that of the instant before.
StepOf(rows, history, instant) ==
    IF instant = 0 THEN NeverSeen
    ELSE IF \E row \in rows : row.at = instant
    THEN RecordPresence(history[instant - 1], CHOOSE row \in rows : row.at = instant)
    ELSE history[instant - 1]

Folds(rows, cutoff, history) == history = [instant \in 0..cutoff |-> StepOf(rows, history, instant)]

\* There is such a history up to every cut-off.
LEMMA FoldExists ==
    ASSUME NEW rows, NEW cutoff \in Nat
    PROVE  \E history : Folds(rows, cutoff, history)
<1> DEFINE Without == {n \in Nat : ~\E history : Folds(rows, n, history)}
<1>1. ASSUME NEW n \in Without, \A m \in Without : n <= m
      PROVE  FALSE
  <2>1. CASE n = 0
    <3>1. PICK history : history = [instant \in 0..0 |-> NeverSeen]
      OBVIOUS
    <3>2. history = [instant \in 0..0 |-> StepOf(rows, history, instant)]
      BY <3>1 DEF StepOf
    <3> QED
      BY <1>1, <2>1, <3>2 DEF Folds
  <2>2. CASE n # 0
    <3>1. n - 1 \in Nat /\ n - 1 \notin Without
      BY <1>1, <2>2
    <3>2. PICK shorter : Folds(rows, n - 1, shorter)
      BY <3>1
    <3>3. PICK history : history = [instant \in 0..n |-> IF instant = n THEN StepOf(rows, shorter, n)
                                                        ELSE shorter[instant]]
      OBVIOUS
    <3>4. ASSUME NEW instant \in 0..n
          PROVE  history[instant] = StepOf(rows, history, instant)
      <4>1. \A i \in 0..(n - 1) : history[i] = shorter[i] /\ shorter[i] = StepOf(rows, shorter, i)
        BY <3>2, <3>3 DEF Folds
      <4>2. instant # 0 => instant - 1 \in 0..(n - 1)
        BY <3>4
      <4>3. StepOf(rows, history, instant) = StepOf(rows, shorter, instant)
        BY <4>1, <4>2 DEF StepOf
      <4> QED
        BY <3>3, <4>1, <4>3
    <3>5. history = [instant \in 0..n |-> StepOf(rows, history, instant)]
      BY <3>3, <3>4
    <3> QED
      BY <1>1, <3>5 DEF Folds
  <2> QED
    BY <2>1, <2>2
<1>2. Without = {}
  BY <1>1, Least
<1> QED
  BY <1>2

\* The fold is one.
LEMMA FoldIs ==
    ASSUME NEW rows, NEW cutoff \in Nat
    PROVE  \E history : Folds(rows, cutoff, history) /\ HistoryOf(rows, cutoff) = history[cutoff]
<1>1. PICK history : history = CHOOSE h : Folds(rows, cutoff, h)
  OBVIOUS
<1>2. Folds(rows, cutoff, history)
  BY <1>1, FoldExists
<1>3. HistoryOf(rows, cutoff) = history[cutoff]
  BY <1>1 DEF HistoryOf, Folds, StepOf
<1> QED
  BY <1>2, <1>3

\* What a reading has to do with the rows up to the cut-off: absent says the
\* newest is a not_found; a listing began with an ok row, or was never left, and
\* every absence is behind it.
Reads(rows, cutoff, reading) ==
    /\ reading.absent \in BOOLEAN /\ reading.listed_since \in 0..cutoff
    /\ reading.absent => \E row \in rows : /\ row.at <= cutoff /\ row.state = "not_found"
                                           /\ \A other \in rows : other.at <= cutoff => other.at <= row.at
    /\ reading.listed_since # 0 => \E row \in rows : row.at = reading.listed_since /\ row.state = "ok"
    /\ \A row \in rows : row.at <= cutoff /\ row.state = "not_found" => reading.absent \/ row.at < reading.listed_since

\* One row of a package at most at an instant.
Rows(rows) ==
    /\ \A row \in rows : row.at \in Nat \ {0} /\ row.state \in {"ok", "not_found"}
    /\ \A a, b \in rows : a.at = b.at => a = b

\* The fold of one more row reads right, if that of the rows before did.
LEMMA ReadsOnARow ==
    ASSUME NEW rows, Rows(rows), NEW n \in Nat, NEW before, Reads(rows, n, before),
           NEW row \in rows, row.at = n + 1
    PROVE  Reads(rows, n + 1, RecordPresence(before, row))
<1>1. \A other \in rows : other.at <= n + 1 => other.at <= n \/ other = row
  BY DEF Rows
<1>2. CASE row.state = "ok"
  <2>1. PICK after : after = RecordPresence(before, row)
    OBVIOUS
  <2>2. ~after.absent /\ after.absent \in BOOLEAN
        /\ after.listed_since = IF before.absent THEN n + 1 ELSE before.listed_since
    BY <1>2, <2>1 DEF RecordPresence
  <2>3. \A other \in rows : other.at <= n + 1 /\ other.state = "not_found" => other.at <= n
    BY <1>1, <1>2
  <2> QED
    BY <1>2, <2>1, <2>2, <2>3 DEF Reads, Rows
<1>3. CASE row.state = "not_found" /\ ~before.absent
  <2>1. PICK after : after = RecordPresence(before, row)
    OBVIOUS
  <2>2. after.absent = TRUE /\ after.listed_since = 0
    BY <1>3, <2>1 DEF RecordPresence
  <2>3. row.at <= n + 1 /\ \A other \in rows : other.at <= n + 1 => other.at <= row.at
    OBVIOUS
  <2>4. 0 \in 0..(n + 1)
    OBVIOUS
  <2>5. Reads(rows, n + 1, after)
    BY <1>3, <2>2, <2>3, <2>4 DEF Reads
  <2> QED
    BY <2>1, <2>5
<1>4. CASE row.state = "not_found" /\ before.absent
  <2>1. RecordPresence(before, row) = before
    BY <1>4 DEF RecordPresence
  <2>2. row.at <= n + 1 /\ \A other \in rows : other.at <= n + 1 => other.at <= row.at
    OBVIOUS
  <2>3. before.listed_since \in 0..(n + 1)
    BY DEF Reads
  <2>4. Reads(rows, n + 1, before)
    BY <1>4, <2>2, <2>3 DEF Reads
  <2> QED
    BY <2>1, <2>4
<1> QED
  BY <1>2, <1>3, <1>4 DEF Rows

\* The fold of the rows of a package up to a cut-off reads right (fold_observations).
LEMMA FoldReads ==
    ASSUME NEW rows, Rows(rows), NEW cutoff \in Nat
    PROVE  Reads(rows, cutoff, HistoryOf(rows, cutoff))
<1>1. PICK history : Folds(rows, cutoff, history) /\ HistoryOf(rows, cutoff) = history[cutoff]
  BY FoldIs
<1>2. \A n \in 0..cutoff : history[n] = StepOf(rows, history, n)
  BY <1>1 DEF Folds
<1> DEFINE Wrong == {n \in 0..cutoff : ~Reads(rows, n, history[n])}
<1>3. ASSUME NEW n \in Wrong, \A m \in Wrong : n <= m
      PROVE  FALSE
  <2>1. CASE n = 0
    <3>1. history[n] = NeverSeen
      BY <1>2, <2>1 DEF StepOf
    <3>2. \A row \in rows : ~(row.at <= 0)
      BY DEF Rows
    <3>3. PICK reading : reading = history[n]
      OBVIOUS
    <3>4. reading.absent = FALSE /\ reading.listed_since = 0
      BY <3>1, <3>3 DEF NeverSeen
    <3>5. Reads(rows, 0, reading)
      <4>1. reading.absent \in BOOLEAN /\ ~reading.absent /\ reading.listed_since \in 0..0
        <5>1. 0 \in 0..0
          OBVIOUS
        <5>2. reading.absent \in BOOLEAN /\ ~reading.absent
          BY <3>4, Zenon
        <5> QED
          BY <3>4, <5>1, <5>2
      <4>2. \A row \in rows : row.at <= 0 /\ row.state = "not_found" => reading.absent \/ row.at < reading.listed_since
        BY <3>2
      <4> QED
        BY <3>4, <4>1, <4>2 DEF Reads
    <3> QED
      BY <1>3, <2>1, <3>3, <3>5
  <2>2. CASE n # 0
    <3>1. PICK m \in Nat : n = m + 1 /\ m \in 0..cutoff /\ m \notin Wrong
      <4>1. n - 1 \in Nat /\ n = (n - 1) + 1 /\ n - 1 \in 0..cutoff /\ ~(n <= n - 1)
        BY <2>2
      <4> QED
        BY <1>3, <4>1
    <3>2. Reads(rows, m, history[m])
      BY <3>1
    <3>3. CASE \E row \in rows : row.at = n
      <4>1. PICK row : row = CHOOSE found \in rows : found.at = n
        OBVIOUS
      <4>2. row \in rows /\ row.at = m + 1
        BY <3>1, <3>3, <4>1
      <4>3. history[n] = RecordPresence(history[m], row)
        BY <1>2, <2>2, <3>1, <3>3, <4>1 DEF StepOf
      <4> QED
        BY <3>1, <3>2, <4>2, <4>3, ReadsOnARow
    <3>4. CASE ~\E row \in rows : row.at = n
      <4>1. history[n] = history[m]
        BY <1>2, <2>2, <3>1, <3>4 DEF StepOf
      <4>2. \A row \in rows : row.at <= n => row.at <= m
        BY <3>1, <3>4 DEF Rows
      <4>3. \A row \in rows : row.at <= m => row.at <= n
        BY <3>1 DEF Rows
      <4> QED
        BY <3>1, <3>2, <4>1, <4>2, <4>3 DEF Reads
    <3> QED
      BY <3>3, <3>4
  <2> QED
    BY <2>1, <2>2
<1>4. Wrong = {}
  <2>1. Wrong \subseteq Nat
    OBVIOUS
  <2> HIDE DEF Wrong
  <2> QED
    BY <1>3, <2>1, Least
<1> QED
  BY <1>1, <1>4
-----------------------------------------------------------------------------
(* What is closed had left *)

Looking == {"identity", "remediation", "closing"}

\* Rows are of instants past, one of a package at an instant.
Dated ==
    /\ clock \in 0..MaxClock
    /\ DOMAIN snapshots = Packages
    /\ \A p \in Packages : Rows(snapshots[p]) /\ \A row \in snapshots[p] : row.at <= clock

\* A run reads at an instant past.
Behind == \A r \in Runs : runs[r].cutoff \in 0..clock

\* What a run has read as absent is not there, at its cut-off.
ReadsAbsence ==
    \A r \in Runs : runs[r].phase \in Looking =>
        \A p \in Packages : runs[r].readings[p].absent => SaysNotFound(p, runs[r].cutoff)

\* What a run is about to close is on what it has read as absent.
ClosesTheAbsent ==
    \A r \in Runs : runs[r].phase = "closing" =>
        \A k \in runs[r].todo : k \in Findings /\ runs[r].readings[k.package].absent

Absences == Shape /\ Dated /\ Behind /\ ReadsAbsence /\ ClosesTheAbsent

\* What the two later lists of a run are.
LEMMA AbsentListed ==
    ASSUME Shape, NEW r \in Runs, ListAbsent(r)
    PROVE  /\ Shape' /\ UNCHANGED <<clock, snapshots, confidence, rollup, work>> /\ Kept(r)
           /\ runs'[r].fell = runs[r].fell
           /\ runs[r].phase = "remediation" /\ runs[r].todo = {} /\ runs'[r].phase = "closing"
           /\ runs'[r].readings = runs[r].readings
           /\ runs'[r].todo = {k \in Findings : Live(k) /\ runs[r].readings[k.package].absent}
           /\ \A q \in Runs : q # r => runs'[q] = runs[q]
<1>1. PICK phase, todo : /\ phase = "closing"
                         /\ todo = {k \in Findings : Live(k) /\ runs[r].readings[k.package].absent}
                         /\ runs' = [runs EXCEPT ![r].phase = phase, ![r].todo = todo]
  BY Zenon DEF ListAbsent
<1>2. runs' = [runs EXCEPT ![r].phase = phase, ![r].todo = todo]
  BY <1>1
<1>3. /\ DOMAIN runs' = Runs /\ runs' = [q \in Runs |-> runs'[q]]
      /\ \A q \in Runs : DOMAIN runs'[q] = Fields
      /\ runs'[r].phase = phase /\ runs'[r].todo = todo /\ runs'[r].readings = runs[r].readings
      /\ \A q \in Runs : q # r => runs'[q] = runs[q]
  BY <1>2, ListSet
<1>4. Kept(r) /\ runs'[r].fell = runs[r].fell
  BY <1>2, ListSetKeeps
<1>5. /\ UNCHANGED <<clock, snapshots, confidence, rollup, work>>
      /\ runs[r].phase = "remediation" /\ runs[r].todo = {}
  BY DEF ListAbsent
<1>6. Shape'
  BY <1>3, <1>5 DEF Shape
<1> QED
  BY <1>1, <1>3, <1>4, <1>5, <1>6

\* One key of a list done, by an opener or by the closer.
LEMMA KeyDone ==
    ASSUME Shape, NEW r \in Runs, OpenNext(r) \/ CloseNext(r)
    PROVE  \E k \in runs[r].todo :
               /\ work' = IF runs[r].phase = "closing" THEN Closed(k) ELSE OpenKeyed(k)
               /\ Shape' /\ UNCHANGED <<clock, snapshots, confidence, rollup>> /\ Kept(r)
               /\ runs'[r].phase = runs[r].phase /\ runs[r].phase \in Looking
               /\ runs'[r].todo = runs[r].todo \ {k} /\ runs'[r].readings = runs[r].readings
               /\ \A q \in Runs : q # r => runs'[q] = runs[q]
<1>1. PICK k \in runs[r].todo :
          /\ work' = IF runs[r].phase = "closing" THEN Closed(k) ELSE OpenKeyed(k)
          /\ runs' = [runs EXCEPT ![r].todo = @ \ {k}]
  BY DEF OpenNext, CloseNext
<1>2. /\ DOMAIN runs' = Runs /\ runs' = [q \in Runs |-> runs'[q]]
      /\ \A q \in Runs : DOMAIN runs'[q] = Fields
      /\ runs'[r].phase = runs[r].phase /\ runs'[r].todo = runs[r].todo \ {k}
      /\ runs'[r].readings = runs[r].readings
      /\ Kept(r)
      /\ \A q \in Runs : q # r => runs'[q] = runs[q]
  BY <1>1, OneKeyDone
<1>3. work' \in [Findings -> [state : {"unfiled", "live", "finished", "closed"}, queue : Queues]]
  BY <1>1, OpenedOne, ClosedOne
<1>4. UNCHANGED <<clock, snapshots, confidence, rollup>> /\ runs[r].phase \in Looking
  BY DEF OpenNext, CloseNext, Looking
<1>5. Shape'
  BY <1>2, <1>3 DEF Shape
<1> QED
  BY <1>1, <1>2, <1>4, <1>5

\* The fold reads every package of the table right.
LEMMA HistoryReads ==
    ASSUME Dated, NEW p \in Packages, NEW cutoff \in 0..clock
    PROVE  Reads(snapshots[p], cutoff, HistoryAt(p, cutoff))
  BY FoldReads DEF Dated, HistoryAt

LEMMA AbsencesInit == Init => Absences
<1> SUFFICES ASSUME Init PROVE Absences
  OBVIOUS
<1>1. Shape /\ \A r \in Runs : runs[r].phase = "idle"
  BY InitShape
<1>2. Start.cutoff = 0
  BY NewRun DEF Start
<1>3. Dated /\ Behind
  BY <1>2, ClockAssumption DEF Init, Dated, Rows, Behind
<1> QED
  BY <1>1, <1>3 DEF Absences, ReadsAbsence, ClosesTheAbsent, Looking

\* The steps of a run.
LEMMA AbsencesRunStep ==
    ASSUME Absences, NEW r \in Runs, RunStep(r)
    PROVE  Absences'
<1> USE DEF Absences, Looking
<1>1. UNCHANGED <<clock, snapshots>>
  BY DEF RunStep, Compose, SelectIdentity, SelectEvidence, OpenNext, ListAbsent, CloseNext, End, Stop
<1>2. Dated' /\ \A p \in Packages : \A cutoff : SaysNotFound(p, cutoff)' = SaysNotFound(p, cutoff)
  BY <1>1 DEF Dated, SaysNotFound
<1>3. CASE Compose(r)
  <2>1. /\ Shape' /\ runs'[r].phase = "composed" /\ runs'[r].cutoff \in CutOffs
        /\ \A q \in Runs : q # r => runs'[q] = runs[q]
    BY <1>3, ComposeChanges
  <2>2. CutOffs \subseteq 0..clock
    BY DEF CutOffs, Behind, Dated
  <2>3. Behind'
    BY <1>1, <2>1, <2>2 DEF Behind
  <2> QED
    BY <1>2, <2>1, <2>3 DEF ReadsAbsence, ClosesTheAbsent
<1>4. CASE SelectIdentity(r)
  <2>1. /\ Shape' /\ runs'[r].phase = "identity" /\ runs'[r].cutoff = runs[r].cutoff
        /\ \A p \in Packages : runs'[r].readings[p] =
               IF p \in runs'[r].touched THEN HistoryAt(p, runs[r].cutoff) ELSE NeverSeen
        /\ \A q \in Runs : q # r => runs'[q] = runs[q]
    BY <1>4, SelectIdentityChanges
  <2>2. Behind'
    BY <1>1, <2>1 DEF Behind
  <2>3. \A p \in Packages : runs'[r].readings[p].absent => SaysNotFound(p, runs[r].cutoff)
    <3>1. ~NeverSeen.absent
      BY DEF NeverSeen
    <3>2. \A p \in Packages : HistoryAt(p, runs[r].cutoff).absent => SaysNotFound(p, runs[r].cutoff)
      BY HistoryReads DEF Behind, Reads, SaysNotFound
    <3> QED
      BY <2>1, <3>1, <3>2
  <2> QED
    BY <1>2, <2>1, <2>2, <2>3 DEF ReadsAbsence, ClosesTheAbsent
<1>5. CASE SelectEvidence(r)
  <2>1. /\ Shape' /\ Kept(r) /\ runs[r].phase = "identity" /\ runs'[r].phase = "remediation"
        /\ runs'[r].readings = runs[r].readings
        /\ \A q \in Runs : q # r => runs'[q] = runs[q]
    BY <1>5, EvidenceListed
  <2> QED
    BY <1>1, <1>2, <2>1 DEF Kept, Behind, ReadsAbsence, ClosesTheAbsent
<1>6. CASE ListAbsent(r)
  <2>1. /\ Shape' /\ Kept(r) /\ runs[r].phase = "remediation" /\ runs'[r].phase = "closing"
        /\ runs'[r].readings = runs[r].readings
        /\ runs'[r].todo = {k \in Findings : Live(k) /\ runs[r].readings[k.package].absent}
        /\ \A q \in Runs : q # r => runs'[q] = runs[q]
    BY <1>6, AbsentListed
  <2> QED
    BY <1>1, <1>2, <2>1 DEF Kept, Behind, ReadsAbsence, ClosesTheAbsent
<1>7. CASE OpenNext(r) \/ CloseNext(r)
  <2>1. PICK k \in runs[r].todo :
            /\ Shape' /\ Kept(r) /\ runs'[r].phase = runs[r].phase
            /\ runs'[r].todo = runs[r].todo \ {k} /\ runs'[r].readings = runs[r].readings
            /\ \A q \in Runs : q # r => runs'[q] = runs[q]
    BY <1>7, KeyDone
  <2> QED
    BY <1>1, <1>2, <2>1 DEF Kept, Behind, ReadsAbsence, ClosesTheAbsent
<1>8. CASE End(r) \/ Stop(r)
  <2>1. /\ Shape' /\ runs'[r].phase \in {"done", "stopped"} /\ runs'[r].cutoff = runs[r].cutoff
        /\ \A q \in Runs : q # r => runs'[q] = runs[q]
    BY <1>8, Over
  <2> QED
    BY <1>1, <1>2, <2>1 DEF Behind, ReadsAbsence, ClosesTheAbsent
<1> QED
  BY <1>3, <1>4, <1>5, <1>6, <1>7, <1>8 DEF RunStep

\* What the inventory observes is past every cut-off in use.
LEMMA AbsencesObserved ==
    ASSUME Absences, NEW p \in Packages, Observe(p) \/ ObserveAbsence(p)
    PROVE  Absences'
<1> USE DEF Absences
<1>1. PICK row : /\ row.at = clock + 1 /\ row.state \in {"ok", "not_found"}
                 /\ snapshots' = [snapshots EXCEPT ![p] = @ \cup {row}]
  BY DEF Observe, ObserveAbsence
<1>2. clock' = clock + 1 /\ clock < MaxClock /\ UNCHANGED <<confidence, rollup, runs, work>>
  BY DEF Observe, ObserveAbsence
<1>3. /\ snapshots'[p] = snapshots[p] \cup {row} /\ DOMAIN snapshots' = Packages
      /\ \A q \in Packages : q # p => snapshots'[q] = snapshots[q]
  BY <1>1 DEF Dated
<1>4. clock \in Nat /\ MaxClock \in Nat
  BY ClockAssumption DEF Dated
<1>5. Dated'
  BY <1>1, <1>2, <1>3, <1>4 DEF Dated, Rows
<1>6. ASSUME NEW q \in Packages, NEW cutoff \in 0..clock, SaysNotFound(q, cutoff)
      PROVE  SaysNotFound(q, cutoff)'
  BY <1>1, <1>3, <1>4, <1>6 DEF SaysNotFound
<1>7. Behind' /\ Shape'
  BY <1>2, <1>4 DEF Behind, Shape
<1>8. ReadsAbsence'
  BY <1>2, <1>6 DEF ReadsAbsence, Behind
<1>9. ClosesTheAbsent'
  BY <1>2 DEF ClosesTheAbsent
<1> QED
  BY <1>5, <1>7, <1>8, <1>9

\* The purge leaves the row a run has read: no run that is going is old, and the
\* row is the newest up to its cut-off.
LEMMA AbsencesPurged ==
    ASSUME Absences, Purge
    PROVE  Absences'
<1> USE DEF Absences
<1>1. PICK horizon \in 1..clock :
          /\ runs' = [r \in Runs |-> IF r \in PurgeableRuns(horizon) THEN Run("purged", 0, 0) ELSE runs[r]]
          /\ snapshots' = [p \in Packages |-> snapshots[p] \ RemovableRows(p, horizon)]
  BY DEF Purge
<1>2. UNCHANGED <<clock, confidence, rollup, work>>
  BY DEF Purge
<1>3. Shape'
  BY EverybodyElse
<1>4. PICK gone : gone = Run("purged", 0, 0)
  OBVIOUS
<1>5. gone.phase = "purged" /\ gone.cutoff = 0
  BY <1>4, NewRun
<1>6. \A r \in Runs : runs'[r] = IF r \in PurgeableRuns(horizon) THEN gone ELSE runs[r]
  BY <1>1, <1>4
<1>7. Dated'
  BY <1>1, <1>2 DEF Dated, Rows
<1>8. Behind'
  BY <1>2, <1>5, <1>6 DEF Behind, Dated
<1>9. ASSUME NEW r \in Runs, runs'[r].phase \in Looking
      PROVE  r \notin PurgeableRuns(horizon) /\ runs'[r] = runs[r]
  BY <1>5, <1>6, <1>9 DEF Looking
<1>10. ASSUME NEW r \in Runs, runs'[r].phase \in Looking, NEW p \in Packages, SaysNotFound(p, runs[r].cutoff)
       PROVE  SaysNotFound(p, runs[r].cutoff)'
  <2>1. PICK row \in snapshots[p] :
            /\ row.at <= runs[r].cutoff /\ row.state = "not_found"
            /\ \A other \in snapshots[p] : other.at <= runs[r].cutoff => other.at <= row.at
    BY <1>10 DEF SaysNotFound
  <2>2. runs[r].phase \notin {"idle", "purged"} /\ runs[r].cutoff \in Nat /\ row.at \in Nat
    BY <1>9, <1>10 DEF Looking, Behind, Dated, Rows
  <2>3. \A newer \in snapshots[p] : ~(row.at < newer.at /\ newer.at <= runs[r].cutoff)
    BY <2>1, <2>2 DEF Dated, Rows
  <2>4. r \in Runs \ PurgeableRuns(horizon)
    BY <1>9, <1>10
  <2>5. row \notin RemovableRows(p, horizon)
    BY <2>1, <2>2, <2>3, <2>4 DEF RemovableRows, Started
  <2>6. snapshots'[p] = snapshots[p] \ RemovableRows(p, horizon)
    BY <1>1
  <2>7. runs'[r] = runs[r]
    BY <1>9, <1>10
  <2> QED
    BY <2>1, <2>5, <2>6, <2>7 DEF SaysNotFound
<1>11. ReadsAbsence'
  BY <1>9, <1>10 DEF ReadsAbsence
<1>12. ClosesTheAbsent'
  BY <1>9 DEF ClosesTheAbsent, Looking
<1> QED
  BY <1>3, <1>7, <1>8, <1>11, <1>12

LEMMA AbsencesNext == Absences /\ [Next]_vars => Absences'
<1> SUFFICES ASSUME Absences, [Next]_vars PROVE Absences'
  OBVIOUS
<1>1. ASSUME NEW r \in Runs, RunStep(r) PROVE Absences'
  BY <1>1, AbsencesRunStep
<1>2. ASSUME NEW p \in Packages, Observe(p) \/ ObserveAbsence(p) PROVE Absences'
  BY <1>2, AbsencesObserved
<1>3. CASE \/ \E p \in Packages : Identify(p) \/ LoseIdentity(p)
           \/ \E k \in Findings : FinishItem(k) \/ RouteItem(k)
  <2>1. Shape'
    BY <1>3, EverybodyElse DEF Absences
  <2>2. UNCHANGED <<clock, snapshots, runs>>
    BY <1>3 DEF Identify, LoseIdentity, FinishItem, RouteItem
  <2> QED
    BY <2>1, <2>2 DEF Absences, Dated, Behind, ReadsAbsence, ClosesTheAbsent, SaysNotFound
<1>4. CASE Purge
  BY <1>4, AbsencesPurged
<1>5. CASE UNCHANGED vars
  BY <1>5 DEF vars, Absences, Shape, Dated, Behind, ReadsAbsence, ClosesTheAbsent, SaysNotFound
<1> QED
  BY <1>1, <1>2, <1>3, <1>4, <1>5 DEF Next

\* Whatever overlaps, is replayed, routed or purged, an item is closed only over
\* a package that the inventory last said was not there, at the cut-off of a run
\* that is closing (_close_absent_items, floor_removable_evidence).
THEOREM ClosedForAbsence == Spec => ClosedOnlyForAbsence
<1> DEFINE Justified == \A k \in Findings : (Live(k) /\ work'[k].state = "closed") =>
          \E r \in Runs : runs[r].phase = "closing" /\ SaysNotFound(k.package, runs[r].cutoff)
<1>1. ASSUME Absences, [Next]_vars, NEW k \in Findings, Live(k), work'[k].state = "closed"
      PROVE  \E r \in Runs : runs[r].phase = "closing" /\ SaysNotFound(k.package, runs[r].cutoff)
  <2>1. ASSUME NEW r \in Runs, RunStep(r)
        PROVE  runs[r].phase = "closing" /\ k \in runs[r].todo
    <3>1. CASE OpenNext(r)
      <4>1. PICK j : work' = OpenKeyed(j)
        BY <3>1 DEF OpenNext
      <4>2. work'[k] = work[k] \/ ~Filed(k)
        BY <1>1, <4>1 DEF OpenKeyed, Absences, Shape
      <4> QED
        BY <1>1, <4>1, <4>2 DEF Live, Filed
    <3>2. CASE CloseNext(r)
      <4>1. PICK j \in runs[r].todo : work' = Closed(j) /\ runs[r].phase = "closing"
        BY <3>2 DEF CloseNext
      <4>2. j # k => work'[k] = work[k]
        BY <4>1 DEF Closed, Absences, Shape
      <4> QED
        BY <1>1, <4>1, <4>2 DEF Live
    <3>3. CASE Compose(r) \/ SelectIdentity(r) \/ SelectEvidence(r) \/ ListAbsent(r) \/ End(r) \/ Stop(r)
      <4>1. work' = work
        BY <3>3 DEF Compose, SelectIdentity, SelectEvidence, ListAbsent, End, Stop
      <4> QED
        BY <1>1, <4>1 DEF Live
    <3> QED
      BY <2>1, <3>1, <3>2, <3>3 DEF RunStep
  <2>2. ASSUME NEW r \in Runs, RunStep(r)
        PROVE  runs[r].phase = "closing" /\ SaysNotFound(k.package, runs[r].cutoff)
    BY <1>1, <2>1, <2>2 DEF Absences, ReadsAbsence, ClosesTheAbsent, Looking, Findings
  <2>3. ~\/ \E p \in Packages : Observe(p) \/ ObserveAbsence(p) \/ Identify(p) \/ LoseIdentity(p)
         \/ \E j \in Findings : FinishItem(j) \/ RouteItem(j)
         \/ Purge
         \/ UNCHANGED vars
    BY <1>1 DEF Observe, ObserveAbsence, Identify, LoseIdentity, FinishItem, RouteItem, Purge, vars, Live, Absences, Shape
  <2> QED
    BY <1>1, <2>2, <2>3 DEF Next
<1>2. Absences /\ [Next]_vars => [Justified]_vars
  BY <1>1
<1> QED
  BY AbsencesInit, AbsencesNext, <1>2, PTL DEF Spec, ClosedOnlyForAbsence
-----------------------------------------------------------------------------
(* Whom a run has not missed *)

\* What a run has read of each package it touches is so at its cut-off.
ReadsRight(r) ==
    \A p \in Packages : IF p \in runs[r].touched THEN Reads(snapshots[p], runs[r].cutoff, runs[r].readings[p])
                        ELSE runs[r].readings[p] = NeverSeen

\* What a run is about to open is keyed by what it has read.
Keyed(kind, r) ==
    \A k \in runs[r].todo : k.package \in Catalog /\ k = KeyOf(kind, k.package, runs[r].readings[k.package])

InHand(kind, r, p) == KeyOf(kind, p, runs[r].readings[p]) \in runs[r].todo

Listed(r, p) == p \in runs[r].touched /\ ~runs[r].readings[p].absent

\* A listed package the run found without an identity has an identity item, or
\* the run is about to open it one.
IdentityDue(r) ==
    \A p \in Packages : Listed(r, p) /\ p \in runs[r].unresolved =>
        Standing("identity", p) # {} \/ (runs[r].phase = "identity" /\ InHand("identity", r, p))

\* A listed package with an advisory that did not lose its identity before the
\* run listed the advisories has an item, or the run is about to open it one.
EvidenceDue(r) ==
    \A p \in Packages : Listed(r, p) /\ p \in runs[r].matched \ runs[r].fell =>
        \/ Standing("remediation", p) # {} \/ Standing("identity", p) # {}
        \/ runs[r].phase = "remediation" /\ InHand("remediation", r, p)

\* What a run has in hand is right.
Right(r) ==
    /\ runs[r].phase \in Going => runs[r].matched \subseteq Catalog
    /\ runs[r].phase \in Looking => runs[r].touched \subseteq Catalog /\ ReadsRight(r) /\ IdentityDue(r)
    /\ runs[r].phase \in {"identity", "remediation"} => Keyed(runs[r].phase, r)
    /\ runs[r].phase \in {"remediation", "closing"} => EvidenceDue(r)

\* An item's epoch is when its package was listed, at the cut-off of some run
\* and of whatever run is going.
UnderAListing(k) ==
    /\ k.package \in Catalog
    /\ k.epoch # 0 => \E row \in snapshots[k.package] : row.at = k.epoch /\ row.state = "ok"
    /\ \E q \in Runs : Started(q) /\ k.epoch <= runs[q].cutoff
    /\ \A r \in Runs : runs[r].phase \in Going => k.epoch <= runs[r].cutoff

\* The package has been away since that listing: some run read so, and whatever
\* run is going does.
AwaySince(k) ==
    \E row \in snapshots[k.package] :
        /\ row.state = "not_found" /\ k.epoch < row.at
        /\ \E q \in Runs : Started(q) /\ row.at <= runs[q].cutoff
        /\ \A r \in Runs : runs[r].phase \in Going => row.at <= runs[r].cutoff

Tables ==
    /\ \A p \in Packages : rollup[p] # None => p \in Catalog
    /\ \A k \in Findings : Filed(k) => UnderAListing(k)
    /\ \A k \in Findings : work[k].state = "closed" => AwaySince(k)

Filing == Opening /\ Absences /\ Tables /\ \A r \in Runs : Right(r)

\* Rows past the cut-off change nothing that was read.
LEMMA ReadsPast ==
    ASSUME NEW rows, NEW more, Rows(more), NEW cutoff \in Nat, NEW reading, Reads(rows, cutoff, reading),
           rows \subseteq more, \A row \in more : row \in rows \/ cutoff < row.at
    PROVE  Reads(more, cutoff, reading)
<1>1. \A row \in more : row.at <= cutoff => row \in rows
  BY DEF Rows
<1> QED
  BY <1>1 DEF Reads

\* The key of what a run has read is one items may have.
LEMMA KeyIsAKey ==
    ASSUME Dated, Behind, NEW r \in Runs, ReadsRight(r), NEW p \in Packages, NEW kind \in Kinds
    PROVE  KeyOf(kind, p, runs[r].readings[p]) \in Findings
<1>1. runs[r].readings[p].listed_since \in 0..MaxClock
  <2>1. CASE p \in runs[r].touched
    BY <2>1, ClockAssumption DEF ReadsRight, Reads, Behind, Dated
  <2>2. CASE p \notin runs[r].touched
    BY <2>2, ClockAssumption DEF ReadsRight, NeverSeen
  <2> QED
    BY <2>1, <2>2
<1> QED
  BY <1>1 DEF KeyOf, Findings, Epochs

\* While rows are only added and no run starts, listings and absences stay.
LEMMA ListingStays ==
    ASSUME NEW k \in Findings, \A p \in Packages : snapshots[p] \subseteq snapshots'[p],
           \A q \in Runs : Started(q) => Started(q)' /\ runs'[q].cutoff = runs[q].cutoff,
           \A q \in Runs : runs'[q].phase \in Going => runs[q].phase \in Going /\ runs'[q].cutoff = runs[q].cutoff
    PROVE  (UnderAListing(k) => UnderAListing(k)') /\ (AwaySince(k) => AwaySince(k)')
<1>1. k.package \in Packages
  BY DEF Findings
<1>2. Catalog \subseteq Catalog'
  BY DEF Catalog
<1> QED
  BY <1>1, <1>2 DEF UnderAListing, AwaySince

\* Items that stand still stand if the step closes none of that package.
LEMMA StandingStays ==
    ASSUME NEW kind, NEW p, Standing(kind, p) # {},
           \A k \in Findings : k.package = p /\ work[k].state \in {"live", "finished"}
                                   => work'[k].state \in {"live", "finished"}
    PROVE  Standing(kind, p)' # {}
<1>1. PICK k : k \in Standing(kind, p)
  OBVIOUS
<1>2. k \in Standing(kind, p)'
  BY <1>1 DEF Standing
<1> QED
  BY <1>2

\* A run that is not going has nothing in hand.
LEMMA IdleIsRight ==
    ASSUME NEW r \in Runs, runs'[r].phase \notin Going
    PROVE  Right(r)'
  BY DEF Right, Going, Looking

\* What a run has in hand stays right while others observe, identify, finish.
LEMMA RightStays ==
    ASSUME Dated, Dated', Behind, NEW r \in Runs, Right(r), runs'[r] = runs[r],
           \A p \in Packages : snapshots[p] \subseteq snapshots'[p],
           \A p \in Packages : \A row \in snapshots'[p] : row \in snapshots[p] \/ clock < row.at,
           \A k \in Findings : work[k].state \in {"live", "finished"} => work'[k].state \in {"live", "finished"}
    PROVE  Right(r)'
<1>1. Catalog \subseteq Catalog'
  BY DEF Catalog
<1>2. \A kind : \A p \in Packages : Standing(kind, p) # {} => Standing(kind, p)' # {}
  BY StandingStays
<1>3. ReadsRight(r) => ReadsRight(r)'
  <2>1. ASSUME NEW p \in Packages, Reads(snapshots[p], runs[r].cutoff, runs[r].readings[p])
        PROVE  Reads(snapshots'[p], runs[r].cutoff, runs[r].readings[p])
    <3>1. runs[r].cutoff \in Nat /\ clock \in Nat /\ runs[r].cutoff <= clock
      BY DEF Behind, Dated
    <3>2. Rows(snapshots'[p])
      BY DEF Dated
    <3>3. \A row \in snapshots'[p] : row \in snapshots[p] \/ runs[r].cutoff < row.at
      BY <3>1, <3>2 DEF Rows
    <3> QED
      BY <2>1, <3>1, <3>2, <3>3, ReadsPast
  <2> QED
    BY <2>1 DEF ReadsRight
<1>4. Keyed("identity", r) => Keyed("identity", r)'
  BY <1>1 DEF Keyed
<1>5. Keyed("remediation", r) => Keyed("remediation", r)'
  BY <1>1 DEF Keyed
<1>6. IdentityDue(r) => IdentityDue(r)'
  BY <1>2 DEF IdentityDue, Listed, InHand
<1>7. EvidenceDue(r) => EvidenceDue(r)'
  BY <1>2 DEF EvidenceDue, Listed, InHand
<1> QED
  BY <1>1, <1>3, <1>4, <1>5, <1>6, <1>7 DEF Right

LEMMA FilingInit == Init => Filing
<1> SUFFICES ASSUME Init PROVE Filing
  OBVIOUS
<1>1. Opening /\ Absences
  BY InitOpening, AbsencesInit
<1>2. \A r \in Runs : Right(r)
  BY InitShape DEF Right, Going, Looking
<1>3. Tables
  BY DEF Init, Tables, Filed
<1> QED
  BY <1>1, <1>2, <1>3 DEF Filing

\* A run starts behind no other: its cut-off is past every listing an item is
\* filed under and every absence one was closed for.
LEMMA ComposeFiles ==
    ASSUME ~Overlap, ~Replays, Filing, Opening', Absences', NEW r \in Runs, Compose(r)
    PROVE  Filing'
<1>1. /\ runs'[r].phase = "composed" /\ runs'[r].matched \subseteq Catalog /\ runs'[r].cutoff \in CutOffs
      /\ \A q \in Runs : runs[q].phase \notin Going
      /\ \A q \in Runs : q # r => runs'[q] = runs[q]
  BY ComposeChanges DEF Filing, Absences
<1>2. /\ runs'[r].cutoff \in Nat
      /\ \A q \in Runs : Started(q) => q # r /\ runs[q].cutoff \in Nat /\ runs[q].cutoff <= runs'[r].cutoff
  <2>1. \A q \in Runs : runs[q].cutoff \in Nat
    BY DEF Filing, Absences, Behind, Dated
  <2>2. runs'[r].cutoff \in Nat /\ \A q \in Runs : Started(q) => runs[q].cutoff <= runs'[r].cutoff
    BY <1>1 DEF CutOffs
  <2>3. ~Started(r)
    BY DEF Compose, Started
  <2> QED
    BY <2>1, <2>2, <2>3
<1>3. UNCHANGED <<clock, snapshots, work>>
  BY DEF Compose
<1>4. Catalog' = Catalog
  BY <1>3 DEF Catalog
<1>5. \A q \in Runs : Right(q)'
  <2>1. Right(r)'
    BY <1>1, <1>4 DEF Right, Looking
  <2>2. \A q \in Runs : q # r => Right(q)'
    BY <1>1, IdleIsRight
  <2> QED
    BY <2>1, <2>2
<1>6. \A p \in Packages : rollup'[p] # None => p \in Catalog
  <2>1. PICK evaluated \in SUBSET Catalog : \E written \in SUBSET evaluated :
            rollup' = [p \in Packages |-> IF p \in written THEN r ELSE rollup[p]]
    BY DEF Compose
  <2> QED
    BY <2>1 DEF Filing, Tables
<1>7. \A q \in Runs : (runs'[q].phase \in Going => q = r) /\ (Started(q) => Started(q)' /\ runs'[q].cutoff = runs[q].cutoff)
  BY <1>1, <1>2 DEF Started
<1>8. clock \in Nat /\ \A p \in Packages : \A row \in snapshots[p] : row.at \in Nat /\ row.at <= clock
  BY DEF Filing, Absences, Dated, Rows
<1>9. ASSUME NEW k \in Findings
      PROVE  (UnderAListing(k) => UnderAListing(k)') /\ (AwaySince(k) => AwaySince(k)')
  <2>1. k.package \in Packages /\ k.epoch \in Nat
    BY ClockAssumption DEF Findings, Epochs
  <2>2. ASSUME NEW at \in Nat, \E q \in Runs : Started(q) /\ at <= runs[q].cutoff
        PROVE  /\ \E q \in Runs : Started(q)' /\ at <= runs'[q].cutoff
               /\ \A q \in Runs : runs'[q].phase \in Going => at <= runs'[q].cutoff
    <3>1. PICK q \in Runs : Started(q) /\ at <= runs[q].cutoff
      BY <2>2
    <3>2. at <= runs'[r].cutoff
      BY <1>2, <3>1
    <3> QED
      BY <1>7, <3>1, <3>2
  <2>3. UnderAListing(k) => UnderAListing(k)'
    BY <1>3, <1>4, <2>1, <2>2 DEF UnderAListing
  <2>4. ASSUME AwaySince(k) PROVE AwaySince(k)'
    <3>1. PICK row \in snapshots[k.package] :
              /\ row.state = "not_found" /\ k.epoch < row.at
              /\ \E q \in Runs : Started(q) /\ row.at <= runs[q].cutoff
      BY <2>4 DEF AwaySince
    <3>2. row.at \in Nat
      BY <1>8, <2>1, <3>1
    <3>3. /\ \E q \in Runs : Started(q)' /\ row.at <= runs'[q].cutoff
          /\ \A q \in Runs : runs'[q].phase \in Going => row.at <= runs'[q].cutoff
      BY <2>2, <3>1, <3>2
    <3> QED
      BY <1>3, <3>1, <3>3 DEF AwaySince
  <2> QED
    BY <2>3, <2>4
<1>10. Tables'
  BY <1>3, <1>4, <1>6, <1>9 DEF Filing, Tables, Filed
<1> QED
  BY <1>5, <1>10 DEF Filing

\* While no run is started, only the packages of the run matter.
LEMMA AloneIsRight ==
    ASSUME Filing, NEW r \in Runs, runs[r].phase \in Going, Right(r)',
           \A q \in Runs : q # r => runs'[q] = runs[q]
    PROVE  \A q \in Runs : Right(q)'
<1>1. \A q \in Runs : q # r => runs'[q].phase \notin Going
  BY DEF Filing, Opening, Alone
<1> QED
  BY <1>1, IdleIsRight

LEMMA TablesStay ==
    ASSUME Filing, UNCHANGED <<rollup, work>>,
           \A p \in Packages : snapshots[p] \subseteq snapshots'[p],
           \A q \in Runs : Started(q) => Started(q)' /\ runs'[q].cutoff = runs[q].cutoff,
           \A q \in Runs : runs'[q].phase \in Going => runs[q].phase \in Going /\ runs'[q].cutoff = runs[q].cutoff
    PROVE  Tables'
<1>1. Catalog \subseteq Catalog'
  BY DEF Catalog
<1>2. \A k \in Findings : (UnderAListing(k) => UnderAListing(k)') /\ (AwaySince(k) => AwaySince(k)')
  BY ListingStays
<1> QED
  BY <1>1, <1>2 DEF Filing, Tables, Filed

\* The run reads, and lists whoever has no identity and no item for that.
LEMMA SelectIdentityFiles ==
    ASSUME Filing, Opening', Absences', NEW r \in Runs, SelectIdentity(r)
    PROVE  Filing'
<1>1. /\ runs[r].phase = "composed" /\ runs'[r].phase = "identity"
      /\ runs'[r].cutoff = runs[r].cutoff /\ runs'[r].matched = runs[r].matched
      /\ runs'[r].touched = PackagesTheRunTouches(r)
      /\ runs'[r].unresolved = Unmapped \cap runs'[r].touched
      /\ \A q \in Runs : q # r => runs'[q] = runs[q]
  BY SelectIdentityChanges DEF Filing, Absences
<1>2. \A p \in Packages : runs'[r].readings[p] =
          IF p \in runs'[r].touched THEN HistoryAt(p, runs[r].cutoff) ELSE NeverSeen
  BY SelectIdentityChanges DEF Filing, Absences
<1>3. PICK reading : reading = runs'[r].readings
  OBVIOUS
<1>4. runs'[r].todo = {KeyOf("identity", p, reading[p]) : p \in SelectUnresolved(reading) \ AlreadyOpen}
  <2>1. runs'[r].todo = {KeyOf("identity", p, runs'[r].readings[p]) :
                            p \in SelectUnresolved(runs'[r].readings) \ AlreadyOpen}
    BY SelectIdentityChanges DEF Filing, Absences
  <2> QED
    BY <1>3, <2>1, Zenon
<1>5. UNCHANGED <<clock, snapshots, confidence, rollup, work>>
  BY DEF SelectIdentity
<1>6. Catalog' = Catalog /\ \A kind, p : Standing(kind, p)' = Standing(kind, p)
  BY <1>5 DEF Catalog, Standing
<1>7. Tables'
  BY <1>1, <1>5, TablesStay DEF Going, Started
<1>8. PackagesTheRunTouches(r) \subseteq Catalog
  <2>1. \A p \in Packages : rollup[p] = r => p \in Catalog
    BY NoneAssumption DEF Filing, Tables
  <2>2. \A k \in Findings : Live(k) => k.package \in Catalog
    BY DEF Filing, Tables, Live, Filed, UnderAListing
  <2> QED
    BY <2>1, <2>2 DEF PackagesTheRunTouches
<1>9. ReadsRight(r)'
  <2>1. runs[r].cutoff \in 0..clock
    BY DEF Filing, Absences, Behind
  <2>2. \A p \in Packages : Reads(snapshots[p], runs[r].cutoff, HistoryAt(p, runs[r].cutoff))
    BY <2>1, HistoryReads DEF Filing, Absences
  <2> QED
    BY <1>1, <1>2, <1>5, <2>2 DEF ReadsRight
<1>10. ASSUME NEW p \in Packages, Listed(r, p)', p \in runs'[r].unresolved
       PROVE  Standing("identity", p)' # {} \/ InHand("identity", r, p)'
  <2>1. p \in SelectUnresolved(reading)
    BY <1>1, <1>3, <1>5, <1>8, <1>10 DEF Listed, SelectUnresolved, Unmapped
  <2>2. CASE p \in AlreadyOpen
    <3>1. PICK k \in Findings : Live(k) /\ work[k].queue = "identity_review" /\ k.package = p
      BY <2>2 DEF AlreadyOpen
    <3>2. k.kind = "identity"
      BY <3>1 DEF Filing, Opening, InItsQueue, QueueOf, Findings, Kinds
    <3>3. k \in Standing("identity", p)
      BY <3>1, <3>2 DEF Standing, Live
    <3> QED
      BY <1>6, <3>3
  <2>3. CASE p \notin AlreadyOpen
    <3>1. KeyOf("identity", p, reading[p]) \in runs'[r].todo
      BY <1>4, <2>1, <2>3
    <3> QED
      BY <1>3, <3>1 DEF InHand
  <2> QED
    BY <2>2, <2>3
<1>11. IdentityDue(r)'
  BY <1>1, <1>10 DEF IdentityDue
<1>12. Keyed("identity", r)'
  <2>1. ASSUME NEW k \in runs'[r].todo
        PROVE  k.package \in Catalog /\ k = KeyOf("identity", k.package, reading[k.package])
    <3>1. PICK p \in SelectUnresolved(reading) : k = KeyOf("identity", p, reading[p])
      BY <1>4, <2>1
    <3>2. k.package = p /\ p \in Catalog
      BY <3>1 DEF KeyOf, SelectUnresolved
    <3> QED
      BY <3>1, <3>2
  <2> QED
    BY <1>3, <1>6, <2>1 DEF Keyed
<1>13. runs[r].matched \subseteq Catalog
  BY <1>1 DEF Filing, Right, Going
<1>14. Right(r)'
  BY <1>1, <1>6, <1>8, <1>9, <1>11, <1>12, <1>13 DEF Right
<1>15. \A q \in Runs : Right(q)'
  BY <1>1, <1>14, AloneIsRight DEF Going
<1> QED
  BY <1>7, <1>15 DEF Filing

\* The run lists whoever has an identity and an advisory.
LEMMA SelectEvidenceFiles ==
    ASSUME Filing, Opening', Absences', NEW r \in Runs, SelectEvidence(r)
    PROVE  Filing'
<1>1. /\ Kept(r) /\ UNCHANGED <<clock, snapshots, confidence, rollup, work>>
      /\ runs[r].phase = "identity" /\ runs[r].todo = {} /\ runs'[r].phase = "remediation"
      /\ runs'[r].readings = runs[r].readings
      /\ runs'[r].fell = (Unmapped \cap runs[r].matched) \ runs[r].unresolved
      /\ \A q \in Runs : q # r => runs'[q] = runs[q]
  BY EvidenceListed DEF Filing, Absences
<1>2. PICK reading : reading = runs[r].readings
  OBVIOUS
<1>3. PICK chosen : chosen = {p \in runs[r].matched : confidence[p] # "unmapped" /\ ~reading[p].absent}
  OBVIOUS
<1>4. runs'[r].todo = {KeyOf("remediation", p, reading[p]) : p \in chosen}
  <2>1. runs'[r].todo = {KeyOf("remediation", p, runs[r].readings[p]) :
                            p \in {p \in runs[r].matched : /\ confidence[p] # "unmapped"
                                                           /\ ~runs[r].readings[p].absent}}
    BY EvidenceListed DEF Filing, Absences
  <2> QED
    BY <1>2, <1>3, <2>1, Zenon
<1>5. Catalog' = Catalog /\ \A kind, p : Standing(kind, p)' = Standing(kind, p)
  BY <1>1 DEF Catalog, Standing
<1>6. /\ runs[r].matched \subseteq Catalog /\ runs[r].touched \subseteq Catalog
      /\ ReadsRight(r) /\ IdentityDue(r)
  BY <1>1 DEF Filing, Right, Going, Looking
<1>7. Tables'
  BY <1>1, TablesStay DEF Going, Started, Kept
<1>8. ReadsRight(r)'
  BY <1>1, <1>6 DEF ReadsRight, Kept
<1>9. \A p \in Packages : Listed(r, p)' = Listed(r, p)
  BY <1>1 DEF Listed, Kept
<1>10. \A p \in Packages : Listed(r, p) /\ p \in runs[r].unresolved => Standing("identity", p) # {}
  BY <1>1, <1>6 DEF IdentityDue, InHand
<1>11. IdentityDue(r)'
  BY <1>1, <1>5, <1>9, <1>10 DEF IdentityDue, Kept
<1>12. EvidenceDue(r)'
  <2>1. ASSUME NEW p \in Packages, Listed(r, p)', p \in runs'[r].matched \ runs'[r].fell
        PROVE  Standing("identity", p)' # {} \/ InHand("remediation", r, p)'
    <3>1. CASE confidence[p] = "unmapped"
      <4>1. p \in runs[r].unresolved
        BY <1>1, <2>1, <3>1 DEF Unmapped, Kept
      <4> QED
        BY <1>5, <1>9, <1>10, <2>1, <4>1
    <3>2. CASE confidence[p] # "unmapped"
      <4>1. p \in chosen
        BY <1>1, <1>2, <1>3, <1>9, <2>1, <3>2 DEF Listed, Kept
      <4> QED
        BY <1>1, <1>2, <1>4, <4>1 DEF InHand
    <3> QED
      BY <3>1, <3>2
  <2> QED
    BY <1>1, <2>1 DEF EvidenceDue
<1>13. Keyed("remediation", r)'
  <2>1. ASSUME NEW k \in runs'[r].todo
        PROVE  k.package \in Catalog /\ k = KeyOf("remediation", k.package, reading[k.package])
    <3>1. PICK p \in chosen : k = KeyOf("remediation", p, reading[p])
      BY <1>4, <2>1
    <3>2. k.package = p /\ p \in Catalog
      BY <1>3, <1>6, <3>1 DEF KeyOf
    <3> QED
      BY <3>1, <3>2
  <2> QED
    BY <1>1, <1>2, <1>5, <2>1 DEF Keyed
<1>14. Right(r)'
  <2>1. runs'[r].matched \subseteq Catalog' /\ runs'[r].touched \subseteq Catalog'
    BY <1>1, <1>5, <1>6 DEF Kept
  <2> QED
    BY <1>1, <1>8, <1>11, <1>12, <1>13, <2>1 DEF Right
<1>15. \A q \in Runs : Right(q)'
  BY <1>1, <1>14, AloneIsRight DEF Going
<1> QED
  BY <1>7, <1>15 DEF Filing

\* The run turns to what it will close, having opened all it was to open.
LEMMA ListAbsentFiles ==
    ASSUME Filing, Opening', Absences', NEW r \in Runs, ListAbsent(r)
    PROVE  Filing'
<1>1. /\ Kept(r) /\ UNCHANGED <<clock, snapshots, confidence, rollup, work>>
      /\ runs[r].phase = "remediation" /\ runs[r].todo = {} /\ runs'[r].phase = "closing"
      /\ runs'[r].readings = runs[r].readings /\ runs'[r].fell = runs[r].fell
      /\ \A q \in Runs : q # r => runs'[q] = runs[q]
  BY AbsentListed DEF Filing, Absences
<1>2. Catalog' = Catalog /\ \A kind, p : Standing(kind, p)' = Standing(kind, p)
  BY <1>1 DEF Catalog, Standing
<1>3. /\ runs[r].matched \subseteq Catalog /\ runs[r].touched \subseteq Catalog
      /\ ReadsRight(r) /\ IdentityDue(r) /\ EvidenceDue(r)
  BY <1>1 DEF Filing, Right, Going, Looking
<1>4. Tables'
  BY <1>1, TablesStay DEF Going, Started, Kept
<1>5. ReadsRight(r)'
  BY <1>1, <1>3 DEF ReadsRight, Kept
<1>6. \A p \in Packages : Listed(r, p)' = Listed(r, p)
  BY <1>1 DEF Listed, Kept
<1>7. IdentityDue(r)'
  BY <1>1, <1>2, <1>3, <1>6 DEF IdentityDue, Kept
<1>8. EvidenceDue(r)'
  BY <1>1, <1>2, <1>3, <1>6 DEF EvidenceDue, InHand, Kept
<1>9. Right(r)'
  <2>1. runs'[r].matched \subseteq Catalog' /\ runs'[r].touched \subseteq Catalog'
    BY <1>1, <1>2, <1>3 DEF Kept
  <2> QED
    BY <1>1, <1>5, <1>7, <1>8, <2>1 DEF Right
<1>10. \A q \in Runs : Right(q)'
  BY <1>1, <1>9, AloneIsRight DEF Going
<1> QED
  BY <1>4, <1>10 DEF Filing

\* The item the run opens for a listed package is not one it closed before.
LEMMA NotClosedBefore ==
    ASSUME Filing, NEW r \in Runs, runs[r].phase \in Looking, NEW k \in Findings, Listed(r, k.package),
           k.epoch = runs[r].readings[k.package].listed_since
    PROVE  work[k].state # "closed"
<1> SUFFICES ASSUME work[k].state = "closed" PROVE FALSE
  OBVIOUS
<1>1. PICK row \in snapshots[k.package] :
          row.state = "not_found" /\ k.epoch < row.at /\ row.at <= runs[r].cutoff
  BY DEF Filing, Tables, AwaySince, Looking, Going
<1>2. k.package \in Packages /\ k.epoch \in Nat /\ row.at \in Nat
  BY <1>1, ClockAssumption DEF Filing, Absences, Dated, Rows, Findings, Epochs
<1>3. Reads(snapshots[k.package], runs[r].cutoff, runs[r].readings[k.package])
  BY <1>2 DEF Filing, Right, ReadsRight, Listed
<1> QED
  BY <1>1, <1>2, <1>3 DEF Reads, Listed

LEMMA OpenNextFiles ==
    ASSUME Filing, Opening', Absences', NEW r \in Runs, OpenNext(r)
    PROVE  Filing'
<1>1. PICK kind : kind = runs[r].phase /\ kind \in Kinds
  BY DEF OpenNext, Kinds
<1>2. UNCHANGED <<clock, snapshots, confidence, rollup>>
  BY DEF OpenNext
<1>3. PICK k \in runs[r].todo : work' = OpenKeyed(k) /\ runs' = [runs EXCEPT ![r].todo = @ \ {k}]
  BY DEF OpenNext
<1>4. /\ Kept(r) /\ runs'[r].phase = runs[r].phase /\ runs'[r].fell = runs[r].fell
      /\ runs'[r].todo = runs[r].todo \ {k} /\ runs'[r].readings = runs[r].readings
      /\ \A q \in Runs : q # r => runs'[q] = runs[q]
  BY <1>3, OneKeyDone DEF Filing, Absences
<1>5. /\ runs[r].matched \subseteq Catalog /\ runs[r].touched \subseteq Catalog
      /\ ReadsRight(r) /\ IdentityDue(r) /\ Keyed(kind, r)
      /\ kind = "remediation" => EvidenceDue(r)
  BY <1>1 DEF Filing, Right, Going, Looking, Kinds
<1>6. k.package \in Catalog /\ k = KeyOf(kind, k.package, runs[r].readings[k.package])
  BY <1>5 DEF Keyed
<1>7. k.package \in Packages /\ k \in Findings
  BY <1>1, <1>5, <1>6, KeyIsAKey DEF Catalog, Filing, Absences
<1>8. k.kind = kind /\ k.epoch = runs[r].readings[k.package].listed_since
  BY <1>6 DEF KeyOf
<1>9. Catalog' = Catalog
  BY <1>2 DEF Catalog
<1>10. /\ \A j \in Findings : j # k => work'[j] = work[j]
       /\ work'[k] = work[k] \/ work'[k].state = "live"
       /\ work'[k].state # "unfiled"
  BY <1>3, <1>7 DEF OpenKeyed, Filed, Filing, Absences, Shape
<1>11. \A j \in Findings : work[j].state \in {"live", "finished"} => work'[j].state \in {"live", "finished"}
  BY <1>10
<1>12. \A kd, p : Standing(kd, p) # {} => Standing(kd, p)' # {}
  BY <1>11, StandingStays
<1>13. Listed(r, k.package) => Standing(kind, k.package)' # {}
  <2>1. SUFFICES ASSUME Listed(r, k.package) PROVE Standing(kind, k.package)' # {}
    OBVIOUS
  <2>2. work[k].state # "closed"
    BY <1>1, <1>7, <1>8, <2>1, NotClosedBefore DEF Looking, Kinds
  <2>3. work[k].state \in {"unfiled", "live", "finished", "closed"}
    BY <1>7 DEF Filing, Absences, Shape
  <2>4. work'[k].state \in {"live", "finished"}
    BY <1>10, <2>2, <2>3
  <2>5. k \in Standing(kind, k.package)'
    BY <1>7, <1>8, <2>4 DEF Standing
  <2> QED
    BY <2>5
<1>14. \A p \in Packages : /\ Listed(r, p)' = Listed(r, p)
                           /\ InHand(kind, r, p) => InHand(kind, r, p)' \/ p = k.package
  <2>1. ASSUME NEW p \in Packages, InHand(kind, r, p), ~InHand(kind, r, p)'
        PROVE  p = k.package
    <3>1. KeyOf(kind, p, runs[r].readings[p]) = k
      BY <1>4, <2>1 DEF InHand
    <3> QED
      BY <3>1 DEF KeyOf
  <2> QED
    BY <1>4, <2>1 DEF Listed, Kept
<1>15. ReadsRight(r)'
  BY <1>2, <1>4, <1>5 DEF ReadsRight, Kept
<1>16. IdentityDue(r)'
  BY <1>1, <1>2, <1>4, <1>5, <1>12, <1>13, <1>14 DEF IdentityDue, Kept
<1>17. kind = "remediation" => EvidenceDue(r)'
  BY <1>1, <1>4, <1>5, <1>12, <1>13, <1>14 DEF EvidenceDue, Kept
<1>18. Keyed(kind, r)'
  BY <1>4, <1>5, <1>9 DEF Keyed
<1>19. Right(r)'
  <2>1. runs'[r].matched \subseteq Catalog' /\ runs'[r].touched \subseteq Catalog'
    BY <1>4, <1>5, <1>9 DEF Kept
  <2>2. runs'[r].phase = kind /\ kind # "closing"
    BY <1>1, <1>4 DEF Kinds
  <2> QED
    BY <1>15, <1>16, <1>17, <1>18, <2>1, <2>2 DEF Right
<1>20. \A q \in Runs : Right(q)'
  BY <1>1, <1>4, <1>19, AloneIsRight DEF Going, Kinds
<1>21. \A q \in Runs : runs'[q].phase \in Going => runs[q].phase \in Going /\ runs'[q].cutoff = runs[q].cutoff
  BY <1>4 DEF Kept
<1>25. \A q \in Runs : Started(q) => Started(q)' /\ runs'[q].cutoff = runs[q].cutoff
  BY <1>4 DEF Kept, Started
<1>22. \A j \in Findings : (UnderAListing(j) => UnderAListing(j)') /\ (AwaySince(j) => AwaySince(j)')
  BY <1>2, <1>21, <1>25, ListingStays
<1>23. UnderAListing(k)
  <2>1. PICK since : since = k.epoch
    OBVIOUS
  <2>2. /\ since # 0 => \E row \in snapshots[k.package] : row.at = since /\ row.state = "ok"
        /\ since <= runs[r].cutoff
    <3>1. runs[r].cutoff \in Nat
      BY DEF Filing, Absences, Behind, Dated
    <3>2. CASE k.package \in runs[r].touched
      <4>1. Reads(snapshots[k.package], runs[r].cutoff, runs[r].readings[k.package])
        BY <1>5, <1>7, <3>2 DEF ReadsRight
      <4> QED
        BY <1>8, <2>1, <3>1, <4>1 DEF Reads
    <3>3. CASE k.package \notin runs[r].touched
      <4>1. since = 0
        BY <1>5, <1>7, <1>8, <2>1, <3>3 DEF ReadsRight, NeverSeen
      <4> QED
        BY <3>1, <4>1
    <3> QED
      BY <3>2, <3>3
  <2>3. Started(r) /\ \A q \in Runs : runs[q].phase \in Going => q = r
    BY <1>1 DEF Filing, Opening, Alone, Going, Kinds, Started
  <2> QED
    BY <1>6, <2>1, <2>2, <2>3 DEF UnderAListing
<1>24. Tables'
  <2>1. \A p \in Packages : rollup'[p] # None => p \in Catalog'
    BY <1>2, <1>9 DEF Filing, Tables
  <2>2. \A j \in Findings : Filed(j)' => UnderAListing(j)'
    BY <1>10, <1>22, <1>23 DEF Filing, Tables, Filed
  <2>3. \A j \in Findings : work'[j].state = "closed" => AwaySince(j)'
    BY <1>10, <1>22 DEF Filing, Tables
  <2> QED
    BY <2>1, <2>2, <2>3 DEF Tables
<1> QED
  BY <1>20, <1>24 DEF Filing

\* The run closes what it read as absent, and so nothing that is due.
LEMMA CloseNextFiles ==
    ASSUME Filing, Opening', Absences', NEW r \in Runs, CloseNext(r)
    PROVE  Filing'
<1>1. UNCHANGED <<clock, snapshots, confidence, rollup>> /\ runs[r].phase = "closing"
  BY DEF CloseNext
<1>2. PICK k \in runs[r].todo : work' = Closed(k) /\ runs' = [runs EXCEPT ![r].todo = @ \ {k}]
  BY DEF CloseNext
<1>3. /\ Kept(r) /\ runs'[r].phase = runs[r].phase /\ runs'[r].fell = runs[r].fell
      /\ runs'[r].todo = runs[r].todo \ {k} /\ runs'[r].readings = runs[r].readings
      /\ \A q \in Runs : q # r => runs'[q] = runs[q]
  BY <1>2, OneKeyDone DEF Filing, Absences
<1>4. k \in Findings /\ runs[r].readings[k.package].absent
  BY <1>1 DEF Filing, Absences, ClosesTheAbsent
<1>5. /\ runs[r].matched \subseteq Catalog /\ runs[r].touched \subseteq Catalog
      /\ ReadsRight(r) /\ IdentityDue(r) /\ EvidenceDue(r)
  BY <1>1 DEF Filing, Right, Going, Looking
<1>6. Catalog' = Catalog
  BY <1>1 DEF Catalog
<1>7. /\ \A j \in Findings : j # k => work'[j] = work[j]
      /\ work'[k] = work[k] \/ (Live(k) /\ work'[k].state = "closed")
  BY <1>2, <1>4 DEF Closed, Filing, Absences, Shape
<1>8. \A kind, p : p # k.package /\ Standing(kind, p) # {} => Standing(kind, p)' # {}
  <2>1. ASSUME NEW kind, NEW p, p # k.package, Standing(kind, p) # {} PROVE Standing(kind, p)' # {}
    <3>1. \A j \in Findings : j.package = p /\ work[j].state \in {"live", "finished"}
                                  => work'[j].state \in {"live", "finished"}
      BY <1>7, <2>1
    <3> QED
      BY <2>1, <3>1, StandingStays
  <2> QED
    BY <2>1
<1>9. \A p \in Packages : /\ Listed(r, p)' = Listed(r, p)
                          /\ Listed(r, p) => p # k.package
  BY <1>3, <1>4 DEF Listed, Kept
<1>10. ReadsRight(r)'
  BY <1>1, <1>3, <1>5 DEF ReadsRight, Kept
<1>11. IdentityDue(r)'
  BY <1>1, <1>3, <1>5, <1>8, <1>9 DEF IdentityDue, Kept
<1>12. EvidenceDue(r)'
  BY <1>1, <1>3, <1>5, <1>8, <1>9 DEF EvidenceDue, Kept
<1>13. Right(r)'
  <2>1. runs'[r].matched \subseteq Catalog' /\ runs'[r].touched \subseteq Catalog'
    BY <1>3, <1>5, <1>6 DEF Kept
  <2> QED
    BY <1>1, <1>3, <1>10, <1>11, <1>12, <2>1 DEF Right
<1>14. \A q \in Runs : Right(q)'
  BY <1>1, <1>3, <1>13, AloneIsRight DEF Going
<1>15. \A j \in Findings : (UnderAListing(j) => UnderAListing(j)') /\ (AwaySince(j) => AwaySince(j)')
  BY <1>1, <1>3, ListingStays DEF Kept, Started
<1>16. Live(k) => AwaySince(k)
  <2> SUFFICES ASSUME Live(k) PROVE AwaySince(k)
    OBVIOUS
  <2>1. k.package \in Packages /\ k.epoch \in Nat
    BY <1>4, ClockAssumption DEF Findings, Epochs
  <2>2. k.epoch # 0 => \E row \in snapshots[k.package] : row.at = k.epoch /\ row.state = "ok"
    BY <1>4 DEF Filing, Tables, UnderAListing, Live, Filed
  <2>3. k.epoch <= runs[r].cutoff
    BY <1>1, <1>4 DEF Filing, Tables, UnderAListing, Live, Filed, Going
  <2>4. PICK row \in snapshots[k.package] :
            /\ row.at <= runs[r].cutoff /\ row.state = "not_found"
            /\ \A other \in snapshots[k.package] : other.at <= runs[r].cutoff => other.at <= row.at
    BY <1>1, <1>4, <2>1 DEF Filing, Absences, ReadsAbsence, Looking, SaysNotFound
  <2>5. Rows(snapshots[k.package])
    BY <2>1 DEF Filing, Absences, Dated
  <2>6. k.epoch < row.at
    <3>1. CASE k.epoch = 0
      BY <2>4, <2>5, <3>1 DEF Rows
    <3>2. CASE k.epoch # 0
      <4>1. PICK other \in snapshots[k.package] : other.at = k.epoch /\ other.state = "ok"
        BY <2>2, <3>2
      <4>2. other # row
        BY <2>4, <4>1
      <4>3. other.at <= row.at /\ other.at # row.at
        BY <2>3, <2>4, <2>5, <4>1, <4>2 DEF Rows
      <4> QED
        BY <2>1, <2>4, <2>5, <4>1, <4>3 DEF Rows
    <3> QED
      BY <3>1, <3>2
  <2>7. Started(r) /\ \A q \in Runs : runs[q].phase \in Going => q = r
    BY <1>1 DEF Filing, Opening, Alone, Going, Started
  <2> QED
    BY <2>4, <2>6, <2>7 DEF AwaySince
<1>17. Tables'
  <2>1. \A p \in Packages : rollup'[p] # None => p \in Catalog'
    BY <1>1, <1>6 DEF Filing, Tables
  <2>2. \A j \in Findings : Filed(j)' => UnderAListing(j)'
    BY <1>7, <1>15 DEF Filing, Tables, Filed, Live
  <2>3. \A j \in Findings : work'[j].state = "closed" => AwaySince(j)'
    BY <1>7, <1>15, <1>16 DEF Filing, Tables
  <2> QED
    BY <2>1, <2>2, <2>3 DEF Tables
<1> QED
  BY <1>14, <1>17 DEF Filing

\* What the inventory, the resolver and people do meanwhile.
LEMMA OthersFile ==
    ASSUME Filing, Opening', Absences',
           \/ \E p \in Packages : Observe(p) \/ ObserveAbsence(p) \/ Identify(p) \/ LoseIdentity(p)
           \/ \E k \in Findings : FinishItem(k)
           \/ UNCHANGED vars
    PROVE  Filing'
<1>1. runs' = runs /\ rollup' = rollup
  BY DEF Observe, ObserveAbsence, Identify, LoseIdentity, FinishItem, vars
<1>2. \A p \in Packages : /\ snapshots[p] \subseteq snapshots'[p]
                          /\ \A row \in snapshots'[p] : row \in snapshots[p] \/ clock < row.at
  <2>1. CASE snapshots' = snapshots
    BY <2>1
  <2>2. ASSUME NEW p \in Packages, Observe(p) \/ ObserveAbsence(p)
        PROVE  \A q \in Packages : /\ snapshots[q] \subseteq snapshots'[q]
                                   /\ \A row \in snapshots'[q] : row \in snapshots[q] \/ clock < row.at
    <3>1. PICK row : row.at = clock + 1 /\ snapshots' = [snapshots EXCEPT ![p] = @ \cup {row}]
      BY <2>2 DEF Observe, ObserveAbsence
    <3>2. clock < clock + 1
      BY DEF Filing, Absences, Dated
    <3> QED
      BY <3>1, <3>2 DEF Filing, Absences, Dated
  <2> QED
    BY <2>1, <2>2 DEF Identify, LoseIdentity, FinishItem, vars
<1>3. \A k \in Findings : \/ work'[k] = work[k]
                          \/ work[k].state = "live" /\ work'[k].state = "finished"
  <2>1. CASE work' = work
    BY <2>1
  <2>2. ASSUME NEW j \in Findings, FinishItem(j)
        PROVE  \A k \in Findings : \/ work'[k] = work[k]
                                   \/ work[k].state = "live" /\ work'[k].state = "finished"
    BY <2>2 DEF FinishItem, Live, Filing, Absences, Shape
  <2> QED
    BY <2>1, <2>2 DEF Observe, ObserveAbsence, Identify, LoseIdentity, vars
<1>4. \A r \in Runs : Right(r)'
  BY <1>1, <1>2, <1>3, RightStays DEF Filing, Absences
<1>5. \A k \in Findings : (UnderAListing(k) => UnderAListing(k)') /\ (AwaySince(k) => AwaySince(k)')
  BY <1>1, <1>2, ListingStays DEF Started
<1>6. Tables'
  <2>1. Catalog \subseteq Catalog'
    BY <1>2 DEF Catalog
  <2>2. \A p \in Packages : rollup'[p] # None => p \in Catalog'
    BY <1>1, <2>1 DEF Filing, Tables
  <2>3. \A k \in Findings : Filed(k)' => UnderAListing(k)'
    BY <1>3, <1>5 DEF Filing, Tables, Filed
  <2>4. \A k \in Findings : work'[k].state = "closed" => AwaySince(k)'
    BY <1>3, <1>5 DEF Filing, Tables
  <2> QED
    BY <2>2, <2>3, <2>4 DEF Tables
<1> QED
  BY <1>4, <1>6 DEF Filing

LEMMA FilingNext == ~Overlap /\ ~Replays /\ ~Routes /\ ~Purges /\ Filing /\ [Next]_vars => Filing'
<1> SUFFICES ASSUME ~Overlap, ~Replays, ~Routes, ~Purges, Filing, [Next]_vars PROVE Filing'
  OBVIOUS
<1>1. Opening' /\ Absences'
  BY NextOpening, AbsencesNext DEF Filing
<1>2. ASSUME NEW r \in Runs, End(r) \/ Stop(r) PROVE Filing'
  <2>1. /\ runs'[r].phase \in {"done", "stopped"} /\ runs'[r].cutoff = runs[r].cutoff
        /\ \A q \in Runs : q # r => runs'[q] = runs[q]
    BY <1>2, Over DEF Filing, Absences
  <2>2. UNCHANGED <<snapshots, rollup, work>> /\ runs[r].phase \in Going
    BY <1>2 DEF End, Stop, Going
  <2>3. \A q \in Runs : runs'[q].phase \notin Going
    BY <2>1, <2>2 DEF Filing, Opening, Alone, Going
  <2>4. Tables'
    BY <2>1, <2>2, <2>3, TablesStay DEF Started
  <2> QED
    BY <1>1, <2>3, <2>4, IdleIsRight DEF Filing
<1>3. ASSUME NEW r \in Runs, RunStep(r) PROVE Filing'
  BY <1>1, <1>2, <1>3, ComposeFiles, SelectIdentityFiles, SelectEvidenceFiles, OpenNextFiles, ListAbsentFiles,
     CloseNextFiles DEF RunStep
<1>4. ~Purge /\ \A k \in Findings : ~RouteItem(k)
  BY DEF Purge, RouteItem
<1> QED
  BY <1>1, <1>3, <1>4, OthersFile DEF Next

\* A run that ends has missed nobody the inventory lists, whoever is identified
\* or loses an identity meanwhile: a package its first selection found unmapped
\* has an identity item, and one with an advisory that did not fall to unmapped
\* by its second has an item, live or finished by a person, whatever was closed
\* when the package was away before and wherever an earlier run stopped
\* (open_queue_items), as long as runs are one at a time, none behind an earlier
\* one, no item leaves its queue and no evidence is purged.
THEOREM NobodyIsMissed ==
    ASSUME ~Overlap, ~Replays, ~Routes, ~Purges
    PROVE  Spec => NoListedPackageIsMissed
<1> DEFINE Served == \A r \in Runs : Ending(r) =>
          \A p \in runs[r].touched : ~runs[r].readings[p].absent =>
              /\ p \in runs[r].unresolved => Standing("identity", p) # {}
              /\ p \in runs[r].matched \ runs[r].fell =>
                    Standing("remediation", p) # {} \/ Standing("identity", p) # {}
<1>1. ASSUME Filing, [Next]_vars PROVE Served
  <2>1. ASSUME NEW r \in Runs, Ending(r), NEW p \in runs[r].touched, ~runs[r].readings[p].absent
        PROVE  /\ p \in runs[r].unresolved => Standing("identity", p) # {}
               /\ p \in runs[r].matched \ runs[r].fell =>
                     Standing("remediation", p) # {} \/ Standing("identity", p) # {}
    <3>1. runs[r].phase = "closing"
      BY <1>1, <2>1, OnlyEndEnds DEF End, Filing, Absences
    <3>2. runs[r].touched \subseteq Catalog /\ IdentityDue(r) /\ EvidenceDue(r)
      BY <1>1, <3>1 DEF Filing, Right, Looking
    <3>3. p \in Packages /\ Listed(r, p)
      BY <2>1, <3>2 DEF Catalog, Listed
    <3> QED
      BY <3>1, <3>2, <3>3 DEF IdentityDue, EvidenceDue
  <2> QED
    BY <2>1
<1>2. Filing /\ [Next]_vars => [Served]_vars
  BY <1>1
<1> QED
  BY FilingInit, FilingNext, <1>2, PTL DEF Spec, NoListedPackageIsMissed
-----------------------------------------------------------------------------
(* Types *)

PolicyRun == [phase : Going \cup {"idle", "done", "stopped", "purged"}, cutoff : 0..MaxClock,
              dated : 0..MaxClock, matched : SUBSET Packages,
              readings : [Packages -> Reading], touched : SUBSET Packages, todo : SUBSET Findings,
              unresolved : SUBSET Packages, fell : SUBSET Packages]

\* The fold of rows is a reading.
LEMMA HistoryIsAReading ==
    ASSUME Dated, NEW p \in Packages, NEW cutoff \in 0..clock
    PROVE  HistoryAt(p, cutoff) \in Reading
<1>1. cutoff \in Nat /\ 0..cutoff \subseteq Epochs
  BY ClockAssumption DEF Dated, Epochs
<1>2. PICK history : Folds(snapshots[p], cutoff, history) /\ HistoryAt(p, cutoff) = history[cutoff]
  BY <1>1, FoldIs DEF HistoryAt
<1>3. \A n \in 0..cutoff : history[n] = StepOf(snapshots[p], history, n)
  BY <1>2 DEF Folds
<1> DEFINE Wrong == {n \in 0..cutoff : history[n] \notin Reading}
<1>4. ASSUME NEW n \in Wrong, \A m \in Wrong : n <= m
      PROVE  FALSE
  <2>1. CASE n = 0
    <3>1. history[n] = NeverSeen
      BY <1>3, <2>1 DEF StepOf
    <3>2. NeverSeen \in Reading
      BY ClockAssumption DEF NeverSeen, Reading, Epochs
    <3> QED
      BY <1>4, <3>1, <3>2
  <2>2. CASE n # 0
    <3>1. n - 1 \in 0..cutoff /\ ~(n <= n - 1)
      BY <2>2
    <3>2. history[n - 1] \in Reading
      BY <1>4, <3>1
    <3>3. CASE \E row \in snapshots[p] : row.at = n
      <4>1. PICK row : row = CHOOSE found \in snapshots[p] : found.at = n
        OBVIOUS
      <4>2. row.at \in Epochs
        BY <1>1, <3>3, <4>1
      <4>3. history[n] = RecordPresence(history[n - 1], row)
        BY <1>3, <2>2, <3>3, <4>1 DEF StepOf
      <4>4. history[n] \in Reading
        <5>1. PICK before \in Reading : before = history[n - 1]
          BY <3>2
        <5>2. 0 \in Epochs
          BY ClockAssumption DEF Epochs
        <5>3. before.listed_since \in Epochs
          BY DEF Reading
        <5>4. [absent |-> FALSE, listed_since |-> IF before.absent THEN row.at ELSE before.listed_since] \in Reading
          BY <4>2, <5>3 DEF Reading
        <5>5. [absent |-> TRUE, listed_since |-> 0] \in Reading
          BY <5>2 DEF Reading
        <5> QED
          BY <4>3, <5>1, <5>4, <5>5 DEF RecordPresence
      <4> QED
        BY <1>4, <4>4
    <3>4. CASE ~\E row \in snapshots[p] : row.at = n
      BY <1>3, <1>4, <2>2, <3>2, <3>4 DEF StepOf
    <3> QED
      BY <3>3, <3>4
  <2> QED
    BY <2>1, <2>2
<1>5. Wrong = {}
  <2>1. Wrong \subseteq Nat
    OBVIOUS
  <2> HIDE DEF Wrong
  <2> QED
    BY <1>4, <2>1, Least
<1>6. cutoff \in 0..cutoff
  BY <1>1
<1> QED
  BY <1>2, <1>5, <1>6

\* A run with nothing in hand is one.
LEMMA NewRunTyped ==
    ASSUME NEW phase \in Going \cup {"idle", "done", "stopped", "purged"},
           NEW cutoff \in 0..MaxClock, NEW dated \in 0..MaxClock
    PROVE  Run(phase, cutoff, dated) \in PolicyRun
<1>1. NeverSeen \in Reading
  BY ClockAssumption DEF NeverSeen, Reading, Epochs
<1> QED
  BY <1>1 DEF Run, PolicyRun

Typed == TypeOK /\ Absences

LEMMA TypedInit == Init => Typed
<1> SUFFICES ASSUME Init PROVE Typed
  OBVIOUS
<1>1. Start \in PolicyRun
  <2>1. 0 \in 0..MaxClock
    BY ClockAssumption
  <2> QED
    BY <2>1, NewRunTyped DEF Start
<1>2. \A kind \in Kinds : QueueOf[kind] \in Queues
  BY DEF Kinds, QueueOf, Queues
<1>3. work \in [Findings -> [state : {"unfiled", "live", "finished", "closed"}, queue : Queues]]
  BY <1>2 DEF Init, Findings
<1>4. runs \in [Runs -> PolicyRun]
  BY <1>1 DEF Init
<1>5. clock \in 0..MaxClock /\ snapshots \in [Packages -> SUBSET Snapshot]
  BY ClockAssumption DEF Init
<1>6. confidence \in [Packages -> {"unmapped", "mapped"}] /\ rollup \in [Packages -> Runs \cup {None}]
  BY DEF Init
<1> QED
  BY <1>3, <1>4, <1>5, <1>6, AbsencesInit DEF Typed, TypeOK, PolicyRun

\* Each step of a run leaves runs that are runs.
LEMMA RunStepTyped ==
    ASSUME Typed, NEW r \in Runs, RunStep(r)
    PROVE  runs' \in [Runs -> PolicyRun] /\ rollup' \in [Packages -> Runs \cup {None}]
<1> USE DEF Typed
<1>1. runs \in [Runs -> PolicyRun] /\ rollup \in [Packages -> Runs \cup {None}]
  BY DEF TypeOK, PolicyRun
<1>2. clock \in 0..MaxClock /\ \A q \in Runs : runs[q].cutoff \in 0..MaxClock /\ runs[q].dated \in 0..MaxClock
  BY <1>1 DEF TypeOK, PolicyRun
<1>3. CASE Compose(r)
  <2>1. PICK cutoff \in CutOffs, evaluated \in SUBSET Catalog :
            \E matched, written \in SUBSET evaluated :
               /\ runs' = [runs EXCEPT ![r] = [Run("composed", cutoff, clock) EXCEPT !.matched = matched]]
               /\ rollup' = [p \in Packages |-> IF p \in written THEN r ELSE rollup[p]]
    BY <1>3 DEF Compose
  <2>2. PICK matched \in SUBSET evaluated, written \in SUBSET evaluated :
               /\ runs' = [runs EXCEPT ![r] = [Run("composed", cutoff, clock) EXCEPT !.matched = matched]]
               /\ rollup' = [p \in Packages |-> IF p \in written THEN r ELSE rollup[p]]
    BY <2>1
  <2>3. cutoff \in 0..MaxClock
    <3>1. cutoff \in 0..clock
      BY DEF CutOffs
    <3> QED
      BY <1>2, <3>1, ClockAssumption
  <2>4. PICK new \in PolicyRun : new = Run("composed", cutoff, clock)
    BY <1>2, <2>3, NewRunTyped DEF Going
  <2>5. [new EXCEPT !.matched = matched] \in PolicyRun
    BY DEF PolicyRun, Catalog
  <2>6. runs' \in [Runs -> PolicyRun]
    BY <1>1, <2>2, <2>4, <2>5
  <2> QED
    BY <1>1, <2>2, <2>6
<1>4. CASE SelectIdentity(r)
  <2> DEFINE touched  == PackagesTheRunTouches(r)
             readings == [p \in Packages |-> IF p \in touched THEN HistoryAt(p, runs[r].cutoff) ELSE NeverSeen]
             todo     == {KeyOf("identity", p, readings[p]) : p \in SelectUnresolved(readings) \ AlreadyOpen}
  <2>1. runs' = [runs EXCEPT ![r].phase = "identity", ![r].touched = touched, ![r].readings = readings,
                             ![r].unresolved = Unmapped \cap touched, ![r].todo = todo]
    BY <1>4 DEF SelectIdentity
  <2>2. touched \subseteq Packages
    BY DEF PackagesTheRunTouches, Findings
  <2>3. readings \in [Packages -> Reading]
    <3>1. NeverSeen \in Reading
      BY ClockAssumption DEF NeverSeen, Reading, Epochs
    <3>2. \A p \in Packages : HistoryAt(p, runs[r].cutoff) \in Reading
      BY HistoryIsAReading DEF Absences, Behind
    <3> QED
      BY <3>1, <3>2
  <2> HIDE DEF readings, touched
  <2>4. todo \subseteq Findings
    BY <2>3 DEF SelectUnresolved, Catalog, KeyOf, Findings, Kinds, Reading
  <2>5. PICK old \in PolicyRun : old = runs[r]
    BY <1>1
  <2> HIDE DEF todo
  <2>6. [old EXCEPT !.phase = "identity", !.touched = touched, !.readings = readings,
                 !.unresolved = Unmapped \cap touched, !.todo = todo] \in PolicyRun
    BY <2>2, <2>3, <2>4 DEF PolicyRun, Going, Unmapped
  <2>7. runs' \in [Runs -> PolicyRun]
    BY <1>1, <2>1, <2>5, <2>6
  <2> QED
    BY <1>1, <1>4, <2>7 DEF SelectIdentity
<1>5. CASE SelectEvidence(r)
  <2> DEFINE todo == {KeyOf("remediation", p, runs[r].readings[p]) :
                         p \in {p \in runs[r].matched : confidence[p] # "unmapped" /\ ~runs[r].readings[p].absent}}
  <2> DEFINE fell == (Unmapped \cap runs[r].matched) \ runs[r].unresolved
  <2>1. runs' = [runs EXCEPT ![r].phase = "remediation", ![r].fell = fell, ![r].todo = todo]
    BY <1>5 DEF SelectEvidence
  <2>2. fell \in SUBSET Packages
    BY DEF Unmapped
  <2>3. PICK old \in PolicyRun : old = runs[r]
    BY <1>1
  <2>4. todo \subseteq Findings
    BY <2>3 DEF PolicyRun, KeyOf, Findings, Kinds, Reading
  <2> HIDE DEF todo, fell
  <2>5. [old EXCEPT !.phase = "remediation", !.fell = fell, !.todo = todo] \in PolicyRun
    BY <2>2, <2>4 DEF PolicyRun, Going
  <2> QED
    BY <1>1, <1>5, <2>1, <2>3, <2>5 DEF SelectEvidence
<1>6. CASE ListAbsent(r)
  <2>1. PICK todo \in SUBSET Findings : runs' = [runs EXCEPT ![r].phase = "closing", ![r].todo = todo]
    BY <1>6 DEF ListAbsent
  <2>2. PICK old \in PolicyRun : old = runs[r]
    BY <1>1
  <2>3. [old EXCEPT !.phase = "closing", !.todo = todo] \in PolicyRun
    BY DEF PolicyRun, Going
  <2> QED
    BY <1>1, <1>6, <2>1, <2>2, <2>3 DEF ListAbsent
<1>7. CASE OpenNext(r) \/ CloseNext(r)
  <2>1. PICK k : runs' = [runs EXCEPT ![r].todo = @ \ {k}]
    BY <1>7 DEF OpenNext, CloseNext
  <2>2. PICK old \in PolicyRun : old = runs[r]
    BY <1>1
  <2>3. [old EXCEPT !.todo = @ \ {k}] \in PolicyRun
    BY DEF PolicyRun
  <2> QED
    BY <1>1, <1>7, <2>1, <2>2, <2>3 DEF OpenNext, CloseNext
<1>8. CASE End(r)
  <2>1. Run("done", runs[r].cutoff, clock) \in PolicyRun
    BY <1>2, NewRunTyped
  <2>2. runs' = [runs EXCEPT ![r] = Run("done", runs[r].cutoff, clock)]
    BY <1>8 DEF End
  <2> QED
    BY <1>1, <1>8, <2>1, <2>2 DEF End
<1>9. CASE Stop(r)
  <2>1. PICK dated \in {clock, runs[r].dated} : runs' = [runs EXCEPT ![r] = Run("stopped", runs[r].cutoff, dated)]
    BY <1>9 DEF Stop
  <2>2. Run("stopped", runs[r].cutoff, dated) \in PolicyRun
    BY <1>2, <2>1, NewRunTyped
  <2> QED
    BY <1>1, <1>9, <2>1, <2>2 DEF Stop
<1> QED
  BY <1>3, <1>4, <1>5, <1>6, <1>7, <1>8, <1>9 DEF RunStep

LEMMA TypedNext == Typed /\ [Next]_vars => Typed'
<1> SUFFICES ASSUME Typed, [Next]_vars PROVE Typed'
  OBVIOUS
<1>1. Absences'
  BY AbsencesNext DEF Typed
<1>2. work' \in [Findings -> [state : {"unfiled", "live", "finished", "closed"}, queue : Queues]] /\ clock' \in 0..MaxClock
  BY <1>1 DEF Absences, Shape, Dated
<1>3. /\ runs \in [Runs -> PolicyRun] /\ rollup \in [Packages -> Runs \cup {None}]
      /\ snapshots \in [Packages -> SUBSET Snapshot] /\ confidence \in [Packages -> {"unmapped", "mapped"}]
  BY DEF Typed, TypeOK, PolicyRun
<1>4. runs' \in [Runs -> PolicyRun] /\ rollup' \in [Packages -> Runs \cup {None}]
  <2>1. ASSUME NEW r \in Runs, RunStep(r) PROVE runs' \in [Runs -> PolicyRun] /\ rollup' \in [Packages -> Runs \cup {None}]
    BY <2>1, RunStepTyped
  <2>2. CASE Purge
    <3>1. PICK horizon : runs' = [r \in Runs |-> IF r \in PurgeableRuns(horizon) THEN Run("purged", 0, 0) ELSE runs[r]]
      BY <2>2, Zenon DEF Purge
    <3>2. Run("purged", 0, 0) \in PolicyRun
      BY NewRunTyped, ClockAssumption
    <3> QED
      BY <1>3, <2>2, <3>1, <3>2 DEF Purge
  <2>3. CASE UNCHANGED <<runs, rollup>>
    BY <1>3, <2>3
  <2>4. CASE \/ \E p \in Packages : Observe(p) \/ ObserveAbsence(p) \/ Identify(p) \/ LoseIdentity(p)
             \/ \E k \in Findings : FinishItem(k) \/ RouteItem(k)
             \/ UNCHANGED vars
    BY <2>3, <2>4 DEF Observe, ObserveAbsence, Identify, LoseIdentity, FinishItem, RouteItem, vars
  <2> QED
    BY <2>1, <2>2, <2>4 DEF Next
<1>5. snapshots' \in [Packages -> SUBSET Snapshot]
  <2>1. CASE UNCHANGED snapshots
    BY <1>3, <2>1
  <2>2. ASSUME NEW p \in Packages, Observe(p) \/ ObserveAbsence(p) PROVE snapshots' \in [Packages -> SUBSET Snapshot]
    <3>1. clock + 1 \in 1..MaxClock
      BY <2>2, ClockAssumption DEF Observe, ObserveAbsence, Typed, TypeOK
    <3>2. [at |-> clock + 1, state |-> "ok"] \in Snapshot /\ [at |-> clock + 1, state |-> "not_found"] \in Snapshot
      BY <3>1 DEF Snapshot
    <3> QED
      BY <1>3, <2>2, <3>2 DEF Observe, ObserveAbsence
  <2>3. CASE Purge
    <3>1. PICK horizon : snapshots' = [p \in Packages |-> snapshots[p] \ RemovableRows(p, horizon)]
      BY <2>3 DEF Purge
    <3> QED
      BY <1>3, <3>1
  <2>4. ASSUME NEW r \in Runs, RunStep(r) PROVE UNCHANGED snapshots
    BY <2>4 DEF RunStep, Compose, SelectIdentity, SelectEvidence, OpenNext, ListAbsent, CloseNext, End, Stop
  <2> QED
    BY <2>1, <2>2, <2>3, <2>4 DEF Next, Identify, LoseIdentity, FinishItem, RouteItem, vars
<1>6. confidence' \in [Packages -> {"unmapped", "mapped"}]
  <2>1. CASE UNCHANGED confidence
    BY <1>3, <2>1
  <2>2. ASSUME NEW p \in Packages, Identify(p) \/ LoseIdentity(p) PROVE confidence' \in [Packages -> {"unmapped", "mapped"}]
    BY <1>3, <2>2 DEF Identify, LoseIdentity
  <2>3. ASSUME NEW r \in Runs, RunStep(r) PROVE UNCHANGED confidence
    BY <2>3 DEF RunStep, Compose, SelectIdentity, SelectEvidence, OpenNext, ListAbsent, CloseNext, End, Stop
  <2> QED
    BY <2>1, <2>2, <2>3 DEF Next, Observe, ObserveAbsence, FinishItem, RouteItem, Purge, vars
<1> QED
  BY <1>1, <1>2, <1>3, <1>4, <1>5, <1>6 DEF Typed, TypeOK, PolicyRun

\* The tables and what a run carries between its steps keep their types,
\* whatever overlaps, is replayed, routed or purged (open_queue_items,
\* fold_observations).
THEOREM TypeCorrect == Spec => []TypeOK
<1>1. Typed => TypeOK
  BY DEF Typed
<1> QED
  BY TypedInit, TypedNext, <1>1, PTL DEF Spec
=============================================================================
