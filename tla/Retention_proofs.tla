-------------------------- MODULE Retention_proofs --------------------------
(***************************************************************************)
(* Proofs about Retention, for any number of runs, days, rows and faults.  *)
(*                                                                         *)
(* The purge decides about a batch in one statement and deletes it in      *)
(* another.  The argument is what stays true in between: each row of the   *)
(* batch is older than the newest of its table, and each run that was      *)
(* there at the selection and is not itself to be purged reads a later row *)
(* than it, or has its cut-off before it.  Evidence only grows meanwhile,  *)
(* a run that was to be purged cannot come back to life, because it is     *)
(* older than any run may take to end, and a new run has a later number.   *)
(***************************************************************************)
EXTENDS Retention, FiniteSetTheorems, WellFoundedInduction, TLAPS

(* The largest of some numbers *)

Less == {pair \in Nat \X Nat : pair[1] < pair[2]}

\* A set of naturals has a least element.
LEMMA Least ==
    ASSUME NEW T, T \subseteq Nat, T # {}
    PROVE  \E x \in T : \A y \in T : x <= y
<1>1. IsWellFoundedOn(Less, Nat)
  BY NatLessThanWellFounded DEF OpToRel, Less
<1>2. PICK x \in T : \A y \in T : ~(<<y, x>> \in Less)
  BY <1>1, WFMin
<1>3. ASSUME NEW y \in T PROVE x <= y
  <2>1. x \in Nat /\ y \in Nat
    OBVIOUS
  <2>2. <<y, x>> \in Nat \X Nat /\ <<y, x>>[1] = y /\ <<y, x>>[2] = x
    BY <2>1
  <2>3. ~(y < x)
    BY <1>2, <2>2 DEF Less
  <2> QED
    BY <2>1, <2>3
<1> QED
  BY <1>3

\* A bounded one has a greatest.
LEMMA Greatest ==
    ASSUME NEW N \in Nat, NEW T, T \subseteq 0..N, T # {}
    PROVE  \E x \in T : \A y \in T : y <= x
<1> DEFINE U == {u \in 0..N : N - u \in T}
<1>1. \A y \in T : N - y \in U
  <2> SUFFICES ASSUME NEW y \in T PROVE N - y \in U
    OBVIOUS
  <2>1. N - y \in 0..N /\ N - (N - y) = y
    OBVIOUS
  <2> QED
    BY <2>1
<1>2. U \subseteq Nat /\ U # {}
  <2>1. PICK y \in T : TRUE
    OBVIOUS
  <2>2. N - y \in U
    BY <1>1
  <2>3. U \subseteq Nat
    OBVIOUS
  <2> HIDE DEF U
  <2> QED
    BY <2>2, <2>3
<1>3. PICK u \in U : \A v \in U : u <= v
  <2> HIDE DEF U
  <2> QED
    BY <1>2, Least
<1>4. \A y \in T : y <= N - u
  <2> SUFFICES ASSUME NEW y \in T PROVE y <= N - u
    OBVIOUS
  <2>1. u <= N - y
    BY <1>1, <1>3
  <2> QED
    BY <2>1
<1> QED
  BY <1>3, <1>4

\* Max answers with it.
LEMMA MaxIsGreatest ==
    ASSUME NEW N \in Nat, NEW T, T \subseteq 0..N, T # {}
    PROVE  Max(T) \in T /\ \A y \in T : y <= Max(T)
<1>1. \E x \in T : \A y \in T : x >= y
  BY Greatest
<1> QED
  BY <1>1 DEF Max

\* What loses anything but its largest keeps it as the largest.
LEMMA MaxStays ==
    ASSUME NEW N \in Nat, NEW T, T \subseteq 0..N, NEW S, S \subseteq T, T # {}, Max(T) \in S
    PROVE  Max(S) = Max(T)
<1>1. Max(T) \in T /\ \A y \in T : y <= Max(T)
  BY MaxIsGreatest
<1>2. S \subseteq 0..N /\ S # {}
  OBVIOUS
<1>3. Max(S) \in S /\ \A y \in S : y <= Max(S)
  BY <1>2, MaxIsGreatest
<1>4. Max(S) \in 0..N /\ Max(T) \in 0..N /\ Max(S) <= Max(T) /\ Max(T) <= Max(S)
  BY <1>1, <1>2, <1>3
<1> QED
  BY <1>4

-----------------------------------------------------------------------------
(* The invariant *)

PurgeType ==
    [table : {"idle", "derived", "runs"} \cup Tables, cutoff : Nat, batch : SUBSET Nat, watermark : Nat, seen : Nat]

RunType == [phase : {"none", "open", "ended", "gone"}, cutoff : 0..MaxTime, started : 0..MaxTime, ended : 0..MaxTime]

Typed ==
    /\ now \in Days
    /\ evidence \in [Tables -> SUBSET Days]
    /\ cited \in [Days -> Days \cup {None}]
    /\ runs \in [Runs -> RunType]
    /\ derived \in [Runs -> (SUBSET Days) \cup {None}]
    /\ health \in Runs \cup {None}
    /\ purge \in PurgeType
    /\ newest \in [Tables -> 0..MaxTime]
    /\ faults \in 0..MaxFaults

\* The newest of a table is in it, and nothing in it is from the future.
EvidenceDated ==
    \A t \in Tables :
        /\ newest[t] <= now
        /\ \A day \in evidence[t] : day <= newest[t]
        /\ newest[t] # 0 => newest[t] \in evidence[t]

\* A run reads at a day gone by.
RunsAreBehind == \A r \in Runs : Exists(r) => runs[r].cutoff < now

\* A purge spares what is younger than the retention period, and knows no run
\* that has not begun.
PurgeIsBehind ==
    /\ purge.table # "idle" => purge.cutoff + Retention <= now
    /\ purge.batch # {} => purge.table # "idle"
    /\ purge.seen <= Begun

\* What is about to be deleted is not the newest of its table.
BatchIsOld == purge.table \in Tables => \A day \in purge.batch : day < newest[purge.table]

\* Nor is it what a run that stays reads.
BatchIsUnread ==
    purge.table \in Tables =>
        \A day \in purge.batch, r \in Runs :
            (Exists(r) /\ r \notin PurgeableRuns(purge.cutoff) /\ r <= purge.seen) =>
                \/ runs[r].cutoff < day
                \/ \E next \in evidence[purge.table] : day < next /\ next <= runs[r].cutoff

Inv == Typed /\ EvidenceDated /\ RunsAreBehind /\ PurgeIsBehind /\ BatchIsOld /\ BatchIsUnread

\* Nothing has happened yet.
LEMMA InitInv == Init => Inv
<1> SUFFICES ASSUME Init PROVE Inv
  OBVIOUS
<1>1. Typed
  <2>1. NoRun \in RunType
    BY BoundsAssumption DEF NoRun, RunType
  <2>2. NoPurge \in PurgeType
    BY DEF NoPurge, PurgeType
  <2>3. 1 \in Days /\ 0 \in 0..MaxTime /\ 0 \in 0..MaxFaults
    BY BoundsAssumption DEF Days
  <2>4. evidence \in [Tables -> SUBSET Days] /\ newest \in [Tables -> 0..MaxTime]
    BY <2>3 DEF Init
  <2>5. runs \in [Runs -> RunType]
    BY <2>1 DEF Init
  <2>7. derived \in [Runs -> (SUBSET Days) \cup {None}]
    BY DEF Init
  <2>6. cited \in [Days -> Days \cup {None}]
    BY DEF Init
  <2> QED
    BY <2>2, <2>3, <2>4, <2>5, <2>6, <2>7 DEF Init, Typed
<1>2. Begun \in Nat
  <2>1. IsFiniteSet(Runs)
    BY BoundsAssumption, FS_Interval DEF Runs
  <2>2. IsFiniteSet({r \in Runs : runs[r].phase # "none"})
    BY <2>1, FS_Subset
  <2> QED
    BY <2>2, FS_CardinalityType DEF Begun
<1> QED
  BY <1>1, <1>2
  DEF Init, Inv, EvidenceDated, RunsAreBehind, Exists, PurgeIsBehind, BatchIsOld, BatchIsUnread, NoRun, NoPurge, Tables

-----------------------------------------------------------------------------
(* What is read *)

\* The days there are, and the evidence of a table, are numbers up to MaxTime.
LEMMA DaysAreBounded ==
    /\ MaxTime \in Nat
    /\ Days \subseteq 0..MaxTime
    /\ None \notin Days
BY BoundsAssumption DEF Days

\* A reading is the newest row not after the cut-off, or None without one.
LEMMA ReadingIsNewest ==
    ASSUME NEW days, days \subseteq Days, NEW cutoff,
           NEW visible, visible = {day \in days : day <= cutoff}
    PROVE  visible # {} => Max(visible) \in visible /\ \A day \in visible : day <= Max(visible)
<1>1. visible \subseteq 0..MaxTime /\ MaxTime \in Nat
  BY DaysAreBounded
<1> QED
  BY <1>1, MaxIsGreatest

\* It is a row of the table.
LEMMA ReadingTyped ==
    ASSUME Typed, NEW t \in Tables, NEW cutoff
    PROVE  Reading(t, cutoff) = None \/ Reading(t, cutoff) \in evidence[t]
<1> DEFINE visible == {day \in evidence[t] : day <= cutoff}
<1>1. evidence[t] \subseteq Days
  BY DEF Typed
<1>2. visible # {} => Max(visible) \in visible
  BY <1>1, ReadingIsNewest
<1>3. Reading(t, cutoff) = IF visible = {} THEN None ELSE Max(visible)
  BY DEF Reading
<1> QED
  BY <1>2, <1>3

-----------------------------------------------------------------------------
(* How many runs have begun *)

\* It is a number, and a run that has begun stays counted.
LEMMA BegunTyped ==
    ASSUME NEW kept \in SUBSET Runs
    PROVE  IsFiniteSet(kept) /\ Cardinality(kept) \in Nat
<1>1. IsFiniteSet(Runs)
  BY BoundsAssumption, FS_Interval DEF Runs
<1>2. IsFiniteSet(kept)
  BY <1>1, FS_Subset
<1> QED
  BY <1>2, FS_CardinalityType

LEMMA BegunGrows ==
    ASSUME \A r \in Runs : runs[r].phase # "none" => runs'[r].phase # "none"
    PROVE  Begun \in Nat /\ Begun' \in Nat /\ Begun <= Begun'
<1> DEFINE before == {r \in Runs : runs[r].phase # "none"}
           after  == {r \in Runs : runs'[r].phase # "none"}
<1>1. before \in SUBSET after /\ before \in SUBSET Runs /\ after \in SUBSET Runs
  OBVIOUS
<1>2. Begun = Cardinality(before) /\ Begun' = Cardinality(after)
  BY DEF Begun
<1> HIDE DEF before, after
<1>3. Cardinality(before) <= Cardinality(after)
  BY <1>1, BegunTyped, FS_Subset
<1> QED
  BY <1>1, <1>2, <1>3, BegunTyped

-----------------------------------------------------------------------------
(* The rest of the system *)

\* What a table loses or gains of one day, and what a run becomes, keep types.
LEMMA TypedParts ==
    ASSUME Typed
    PROVE  /\ now \in 1..MaxTime /\ MaxTime \in Nat
           /\ \A t \in Tables : evidence[t] \subseteq Days /\ newest[t] \in Nat
           /\ \A r \in Runs : /\ runs[r] \in RunType
                              /\ runs[r].cutoff \in Nat /\ runs[r].started \in Nat /\ runs[r].ended \in Nat
           /\ purge.cutoff \in Nat /\ purge.batch \subseteq Nat /\ purge.watermark \in Nat /\ purge.seen \in Nat
<1>1. now \in 1..MaxTime /\ MaxTime \in Nat
  BY BoundsAssumption DEF Typed, Days
<1>2. \A t \in Tables : evidence[t] \subseteq Days /\ newest[t] \in Nat
  BY <1>1 DEF Typed
<1>3. \A r \in Runs : runs[r] \in RunType
  BY DEF Typed
<1>4. \A r \in Runs : runs[r].cutoff \in Nat /\ runs[r].started \in Nat /\ runs[r].ended \in Nat
  BY <1>1, <1>3 DEF RunType
<1>5. purge.cutoff \in Nat /\ purge.batch \subseteq Nat /\ purge.watermark \in Nat /\ purge.seen \in Nat
  BY DEF Typed, PurgeType
<1> QED
  BY <1>1, <1>2, <1>3, <1>4, <1>5

\* A day goes by.
LEMMA TickStep ==
    ASSUME Inv, Tick
    PROVE  Inv'
<1>1. now' = now + 1 /\ now \in Nat /\ now' \in Days
  BY TypedParts DEF Tick, Inv, Days
<1>2. Typed'
  BY <1>1 DEF Tick, Inv, Typed
<1>3. EvidenceDated'
  BY <1>1, TypedParts DEF Tick, Inv, EvidenceDated
<1>4. RunsAreBehind'
  BY <1>1, TypedParts DEF Tick, Inv, RunsAreBehind, Exists
<1>5. PurgeIsBehind'
  <2>1. Begun' = Begun
    BY DEF Tick, Begun
  <2> QED
    BY <1>1, <2>1, TypedParts, RetentionAssumption DEF Tick, Inv, PurgeIsBehind
<1>6. BatchIsOld' /\ BatchIsUnread'
  BY DEF Tick, Inv, BatchIsOld, BatchIsUnread, Exists, PurgeableRuns, Older
<1> QED
  BY <1>2, <1>3, <1>4, <1>5, <1>6 DEF Inv

\* A sweep observes today: the tables only gain, later than anything in them.
LEMMA ObserveStep ==
    ASSUME Inv, NEW t \in Tables, Observe(t)
    PROVE  Inv'
<1>1. /\ evidence' = [evidence EXCEPT ![t] = @ \cup {now}]
      /\ newest' = [newest EXCEPT ![t] = now]
      /\ UNCHANGED <<now, runs, derived, health, purge, faults>>
  BY DEF Observe
<1>2. now \in Days /\ now \in 0..MaxTime /\ now \in Nat
  BY TypedParts DEF Inv, Typed
<1>3. \A u \in Tables : /\ evidence'[u] = IF u = t THEN evidence[u] \cup {now} ELSE evidence[u]
                        /\ newest'[u] = IF u = t THEN now ELSE newest[u]
  BY <1>1 DEF Inv, Typed
<1>4. cited' \in [Days -> Days \cup {None}]
  <2>1. evidence["findings"] # {} => Max(evidence["findings"]) \in Days
    <3>1. evidence["findings"] \subseteq 0..MaxTime /\ evidence["findings"] \subseteq Days /\ MaxTime \in Nat
      BY TypedParts, DaysAreBounded DEF Inv, Tables
    <3> QED
      BY <3>1, MaxIsGreatest
  <2> QED
    BY <2>1 DEF Observe, Inv, Typed
<1>5. Typed'
  <2>1. evidence' \in [Tables -> SUBSET Days]
    BY <1>1, <1>2 DEF Inv, Typed
  <2>2. newest' \in [Tables -> 0..MaxTime]
    BY <1>1, <1>2 DEF Inv, Typed
  <2> QED
    BY <1>1, <1>4, <2>1, <2>2 DEF Inv, Typed
<1>6. EvidenceDated'
  <2> SUFFICES ASSUME NEW u \in Tables
               PROVE  /\ newest'[u] <= now
                      /\ \A day \in evidence'[u] : day <= newest'[u]
                      /\ newest'[u] # 0 => newest'[u] \in evidence'[u]
    BY <1>1 DEF EvidenceDated
  <2>1. /\ newest[u] <= now
        /\ \A day \in evidence[u] : day <= newest[u]
        /\ newest[u] # 0 => newest[u] \in evidence[u]
    BY DEF Inv, EvidenceDated
  <2>2. evidence[u] \subseteq Nat /\ newest[u] \in Nat
    BY TypedParts DEF Inv, Days
  <2>3. CASE u = t
    <3>1. newest'[u] = now /\ evidence'[u] = evidence[u] \cup {now}
      BY <1>3, <2>3
    <3> QED
      BY <1>2, <2>1, <2>2, <3>1
  <2>4. CASE u # t
    <3>1. newest'[u] = newest[u] /\ evidence'[u] = evidence[u]
      BY <1>3, <2>4
    <3> QED
      BY <2>1, <3>1
  <2> QED
    BY <2>3, <2>4
<1>7. RunsAreBehind'
  BY <1>1 DEF Inv, RunsAreBehind, Exists
<1>8. PurgeIsBehind'
  <2>1. Begun' = Begun
    BY <1>1 DEF Begun
  <2> QED
    BY <1>1, <2>1 DEF Inv, PurgeIsBehind
<1>9. BatchIsOld'
  <2> SUFFICES ASSUME purge.table \in Tables, NEW day \in purge.batch PROVE day < newest'[purge.table]
    BY <1>1 DEF BatchIsOld
  <2>1. day < newest[purge.table] /\ newest[purge.table] <= now
    BY DEF Inv, BatchIsOld, EvidenceDated
  <2>2. day \in Nat /\ newest[purge.table] \in Nat
    BY TypedParts DEF Inv
  <2>3. newest'[purge.table] = now \/ newest'[purge.table] = newest[purge.table]
    BY <1>3
  <2>4. day < now
    BY <1>2, <2>1, <2>2
  <2> QED
    BY <2>1, <2>3, <2>4
<1>10. BatchIsUnread'
  <2> SUFFICES ASSUME purge.table \in Tables, NEW day \in purge.batch, NEW r \in Runs,
                      Exists(r), r \notin PurgeableRuns(purge.cutoff), r <= purge.seen
               PROVE  \/ runs[r].cutoff < day
                      \/ \E next \in evidence'[purge.table] : day < next /\ next <= runs[r].cutoff
    BY <1>1 DEF BatchIsUnread, Exists, PurgeableRuns, Older
  <2> QED
    BY <1>3 DEF Inv, BatchIsUnread
<1> QED
  BY <1>5, <1>6, <1>7, <1>8, <1>9, <1>10 DEF Inv

\* A run begins behind today, with a number the purge has not seen.
LEMMA BeginRunStep ==
    ASSUME Inv, NEW r \in Runs, BeginRun(r)
    PROVE  Inv'
<1>1. PICK cutoff \in 1..now - 1 :
          runs' = [runs EXCEPT ![r] = [phase |-> "open", cutoff |-> cutoff, started |-> now, ended |-> 0]]
  BY DEF BeginRun
<1>2. r = Begun + 1 /\ UNCHANGED <<now, evidence, cited, derived, health, purge, newest, faults>>
  BY DEF BeginRun
<1>3. now \in 0..MaxTime /\ cutoff \in 0..MaxTime /\ cutoff < now
  <2>1. now \in 1..MaxTime /\ MaxTime \in Nat
    BY TypedParts DEF Inv
  <2> QED
    BY <2>1
<1> DEFINE run == [phase |-> "open", cutoff |-> cutoff, started |-> now, ended |-> 0]
<1>4. run \in RunType
  BY <1>3, BoundsAssumption DEF RunType
<1>5. runs' \in [Runs -> RunType] /\ runs'[r] = run /\ \A q \in Runs \ {r} : runs'[q] = runs[q]
  <2> HIDE DEF run
  <2>1. runs' = [runs EXCEPT ![r] = run]
    BY <1>1 DEF run
  <2> QED
    BY <1>4, <2>1 DEF Inv, Typed
<1>6. Typed' /\ EvidenceDated'
  BY <1>2, <1>5 DEF Inv, Typed, EvidenceDated
<1>7. RunsAreBehind'
  <2>1. runs'[r].cutoff < now
    BY <1>3, <1>5
  <2> QED
    BY <1>2, <1>5, <2>1 DEF Inv, RunsAreBehind, Exists
<1>8. Begun \in Nat /\ Begun' \in Nat /\ Begun <= Begun'
  <2>1. \A q \in Runs : runs[q].phase # "none" => runs'[q].phase # "none"
    BY <1>5
  <2> QED
    BY <2>1, BegunGrows
<1>9. PurgeIsBehind'
  BY <1>2, <1>8, TypedParts DEF Inv, PurgeIsBehind
<1>10. BatchIsOld'
  BY <1>2 DEF Inv, BatchIsOld
<1>11. BatchIsUnread'
  <2> SUFFICES ASSUME purge.table \in Tables, NEW day \in purge.batch, NEW q \in Runs,
                      Exists(q)', q \notin PurgeableRuns(purge.cutoff)', q <= purge.seen
               PROVE  \/ runs'[q].cutoff < day
                      \/ \E next \in evidence[purge.table] : day < next /\ next <= runs'[q].cutoff
    BY <1>2 DEF BatchIsUnread
  <2>1. q # r
    BY <1>2, <1>8, TypedParts DEF Inv, PurgeIsBehind
  <2>2. runs'[q] = runs[q] /\ Exists(q) /\ q \notin PurgeableRuns(purge.cutoff)
    BY <1>2, <1>5, <2>1 DEF Exists, PurgeableRuns, Older
  <2> QED
    BY <2>2 DEF Inv, BatchIsUnread
<1> QED
  BY <1>6, <1>7, <1>9, <1>10, <1>11 DEF Inv

\* A run at work is too young for the purge, so no run that was to be purged
\* stays after all when it gets on.
LEMMA WorkingStep ==
    ASSUME Inv, NEW r \in Runs, Working(r), UNCHANGED <<now, evidence, cited, purge, newest, faults>>,
           runs' \in [Runs -> RunType], \A q \in Runs \ {r} : runs'[q] = runs[q],
           Exists(r)', runs'[r].cutoff = runs[r].cutoff,
           derived' \in [Runs -> (SUBSET Days) \cup {None}],
           health' = health \/ health' = r
    PROVE  Inv'
<1>1. runs[r].phase = "open" /\ now <= runs[r].started + RunLimit
  BY DEF Working
<1>2. Typed' /\ EvidenceDated'
  BY DEF Inv, Typed, EvidenceDated
<1>3. RunsAreBehind'
  <2> SUFFICES ASSUME NEW q \in Runs, Exists(q)' PROVE runs'[q].cutoff < now
    BY DEF RunsAreBehind
  <2>1. Exists(q) /\ runs'[q].cutoff = runs[q].cutoff
    BY <1>1 DEF Exists
  <2> QED
    BY <2>1 DEF Inv, RunsAreBehind
<1>4. PurgeIsBehind'
  <2>1. \A q \in Runs : runs[q].phase # "none" => runs'[q].phase # "none"
    BY DEF Exists
  <2>2. Begun \in Nat /\ Begun' \in Nat /\ Begun <= Begun'
    BY <2>1, BegunGrows
  <2> QED
    BY <2>2, TypedParts DEF Inv, PurgeIsBehind
<1>5. BatchIsOld'
  BY DEF Inv, BatchIsOld
<1>6. BatchIsUnread'
  <2> SUFFICES ASSUME purge.table \in Tables, NEW day \in purge.batch, NEW q \in Runs,
                      Exists(q)', q \notin PurgeableRuns(purge.cutoff)', q <= purge.seen
               PROVE  \/ runs'[q].cutoff < day
                      \/ \E next \in evidence[purge.table] : day < next /\ next <= runs'[q].cutoff
    BY DEF BatchIsUnread
  <2>1. CASE q = r
    <3>1. ~Older(r, purge.cutoff)
      <4>1. purge.cutoff + Retention <= now
        BY DEF Inv, PurgeIsBehind, Tables
      <4>2. runs[r].started \in Nat /\ purge.cutoff \in Nat /\ now \in Nat
        BY TypedParts DEF Inv
      <4>3. ~(runs[r].started < purge.cutoff)
        BY <1>1, <4>1, <4>2, RetentionAssumption
      <4> QED
        BY <1>1, <4>3 DEF Older
    <3>2. Exists(r) /\ r \notin PurgeableRuns(purge.cutoff)
      BY <1>1, <3>1 DEF Exists, PurgeableRuns
    <3> QED
      BY <2>1, <3>2 DEF Inv, BatchIsUnread
  <2>2. CASE q # r
    <3>1. runs'[q] = runs[q] /\ (health = q => health' # q \/ health' = health) /\ (health' = q => health = q)
      BY <2>2
    <3>2. Exists(q) /\ q \notin PurgeableRuns(purge.cutoff)
      BY <3>1 DEF Exists, PurgeableRuns, Older
    <3> QED
      BY <3>1, <3>2 DEF Inv, BatchIsUnread
  <2> QED
    BY <2>1, <2>2
<1> QED
  BY <1>2, <1>3, <1>4, <1>5, <1>6 DEF Inv

LEMMA DeriveRowsStep ==
    ASSUME Inv, NEW r \in Runs, DeriveRows(r)
    PROVE  Inv'
<1> DEFINE read == Reading("findings", runs[r].cutoff)
<1>1. {read} \ {None} \subseteq Days
  <2>1. read = None \/ read \in evidence["findings"]
    BY ReadingTyped DEF Inv, Tables
  <2>2. evidence["findings"] \subseteq Days
    BY TypedParts DEF Inv, Tables
  <2> QED
    BY <2>1, <2>2
<1>2. PICK cites \in SUBSET ({read} \ {None}) : derived' = [derived EXCEPT ![r] = cites]
  BY DEF DeriveRows
<1>3. cites \in (SUBSET Days) \cup {None}
  BY <1>1
<1>4. derived' \in [Runs -> (SUBSET Days) \cup {None}]
  BY <1>2, <1>3 DEF Inv, Typed
<1>5. Working(r) /\ UNCHANGED <<now, evidence, cited, runs, health, purge, newest, faults>>
  BY DEF DeriveRows
<1>6. runs' \in [Runs -> RunType] /\ Exists(r)'
  BY <1>5 DEF Inv, Typed, Working, Exists
<1> QED
  BY <1>4, <1>5, <1>6, WorkingStep

LEMMA ComposeRollupStep ==
    ASSUME Inv, NEW r \in Runs, ComposeRollup(r)
    PROVE  Inv'
<1>1. Working(r) /\ health' = r /\ UNCHANGED <<now, evidence, cited, runs, derived, purge, newest, faults>>
  BY DEF ComposeRollup
<1>2. runs' \in [Runs -> RunType] /\ Exists(r)' /\ derived' \in [Runs -> (SUBSET Days) \cup {None}]
  BY <1>1 DEF Inv, Typed, Working, Exists
<1> QED
  BY <1>1, <1>2, WorkingStep

LEMMA EndRunStep ==
    ASSUME Inv, NEW r \in Runs, EndRun(r)
    PROVE  Inv'
<1>1. /\ Working(r) /\ runs' = [runs EXCEPT ![r].phase = "ended", ![r].ended = now]
      /\ UNCHANGED <<now, evidence, cited, derived, health, purge, newest, faults>>
  BY DEF EndRun
<1>2. runs[r] \in RunType /\ now \in 0..MaxTime
  BY TypedParts DEF Inv
<1>3. /\ runs' \in [Runs -> RunType] /\ runs'[r].phase = "ended" /\ runs'[r].cutoff = runs[r].cutoff
      /\ \A q \in Runs \ {r} : runs'[q] = runs[q]
  BY <1>1, <1>2 DEF Inv, Typed, RunType
<1>4. Exists(r)' /\ derived' \in [Runs -> (SUBSET Days) \cup {None}]
  BY <1>1, <1>3 DEF Inv, Typed, Exists
<1> QED
  BY <1>1, <1>3, <1>4, WorkingStep

-----------------------------------------------------------------------------
(* The purge *)

\* A purge that begins, ends a table, loses one or is killed has no batch.
LEMMA NoBatchStep ==
    ASSUME Inv, UNCHANGED <<now, evidence, cited, runs, derived, health, newest>>,
           faults' \in 0..MaxFaults,
           purge' \in PurgeType, purge'.batch = {}, purge'.seen = 0,
           purge'.table # "idle" => purge'.cutoff + Retention <= now
    PROVE  Inv'
<1>1. Typed' /\ EvidenceDated' /\ RunsAreBehind'
  BY DEF Inv, Typed, EvidenceDated, RunsAreBehind, Exists
<1>2. Begun' = Begun /\ Begun \in Nat
  BY BegunGrows DEF Begun
<1>3. PurgeIsBehind'
  BY <1>2 DEF PurgeIsBehind
<1>4. BatchIsOld' /\ BatchIsUnread'
  BY DEF BatchIsOld, BatchIsUnread
<1> QED
  BY <1>1, <1>3, <1>4 DEF Inv

LEMMA BeginPurgeStep ==
    ASSUME Inv, BeginPurge
    PROVE  Inv'
<1>1. now \in Nat /\ Retention \in Nat /\ now > Retention
  BY TypedParts, RetentionAssumption DEF Inv, BeginPurge
<1>2. purge' = [table |-> "derived", cutoff |-> now - Retention, batch |-> {}, watermark |-> 0, seen |-> 0]
  BY DEF BeginPurge, NoPurge
<1>3. purge' \in PurgeType /\ purge'.batch = {} /\ purge'.seen = 0 /\ purge'.cutoff + Retention <= now
  BY <1>1, <1>2 DEF PurgeType
<1>4. faults' \in 0..MaxFaults /\ UNCHANGED <<now, evidence, cited, runs, derived, health, newest>>
  BY DEF BeginPurge, Inv, Typed
<1> QED
  BY <1>3, <1>4, NoBatchStep

\* The next table, or none.
LEMMA NextTableTyped ==
    ASSUME NEW table \in {"derived", "runs"} \cup Tables
    PROVE  NextTable[table] \in {"idle", "derived", "runs"} \cup Tables
<1>1. /\ NextTable["derived"] = "runs" /\ NextTable["runs"] = "kev"
      /\ NextTable["kev"] = "findings" /\ NextTable["findings"] = "idle"
  BY DEF NextTable
<1>2. table \in {"derived", "runs", "kev", "findings"}
  BY DEF Tables
<1> QED
  BY <1>1, <1>2 DEF Tables

LEMMA LeaveTableStep ==
    ASSUME Inv, EndTable \/ FailTable
    PROVE  Inv'
<1>1. purge.table # "idle" /\ purge \in PurgeType /\ NextTable[purge.table] \in {"idle", "derived", "runs"} \cup Tables
  BY NextTableTyped DEF EndTable, FailTable, Inv, Typed, PurgeType
<1>2. /\ purge' \in PurgeType /\ purge'.batch = {} /\ purge'.seen = 0
      /\ purge'.cutoff = purge.cutoff
  <2>1. CASE EndTable
    <3>1. purge' = [purge EXCEPT !.table = NextTable[purge.table], !.watermark = 0, !.seen = 0] /\ purge.batch = {}
      BY <2>1 DEF EndTable
    <3> QED
      BY <1>1, <3>1 DEF PurgeType
  <2>2. CASE FailTable
    <3>1. purge' = [purge EXCEPT !.table = NextTable[purge.table], !.batch = {}, !.watermark = 0, !.seen = 0]
      BY <2>2 DEF FailTable
    <3> QED
      BY <1>1, <3>1 DEF PurgeType
  <2> QED
    BY <2>1, <2>2
<1>3. purge.cutoff + Retention <= now
  BY <1>1 DEF Inv, PurgeIsBehind
<1>4. faults' \in 0..MaxFaults /\ UNCHANGED <<now, evidence, cited, runs, derived, health, newest>>
  BY BoundsAssumption DEF EndTable, FailTable, Inv, Typed
<1> QED
  BY <1>2, <1>3, <1>4, NoBatchStep

LEMMA KillPurgeStep ==
    ASSUME Inv, KillPurge
    PROVE  Inv'
<1>1. purge' \in PurgeType /\ purge'.batch = {} /\ purge'.seen = 0 /\ purge'.table = "idle"
  BY DEF KillPurge, NoPurge, PurgeType
<1>2. faults' \in 0..MaxFaults /\ UNCHANGED <<now, evidence, cited, runs, derived, health, newest>>
  BY BoundsAssumption DEF KillPurge, Inv, Typed
<1> QED
  BY <1>1, <1>2, NoBatchStep

\* What a table's selection answers with.
LEMMA SelectedTyped ==
    ASSUME Inv, NEW table \in {"derived", "runs"} \cup Tables, NEW cutoff
    PROVE  /\ Selected(table, cutoff) \subseteq Nat
           /\ table \in Tables => Selected(table, cutoff) \subseteq FloorRemovable(table, cutoff)
<1>1. Runs \subseteq Nat
  BY BoundsAssumption DEF Runs
<1>2. CASE table = "derived"
  BY <1>1, <1>2 DEF Selected, PurgeableRuns, Tables
<1>3. CASE table = "runs"
  BY <1>1, <1>3 DEF Selected, PurgeableRuns, Tables
<1>4. CASE table \in Tables
  <2>1. Selected(table, cutoff) = Removable(table, cutoff)
    BY <1>4 DEF Selected, Tables
  <2>2. Removable(table, cutoff) \subseteq FloorRemovable(table, cutoff)
    BY DEF Removable
  <2>3. FloorRemovable(table, cutoff) \subseteq evidence[table]
    BY DEF FloorRemovable
  <2>4. evidence[table] \subseteq Nat
    BY <1>4, TypedParts DEF Inv, Days
  <2> QED
    BY <2>1, <2>2, <2>3, <2>4
<1> QED
  BY <1>2, <1>3, <1>4

\* What is selected is neither the newest nor read by a run that stays.
LEMMA SelectBatchStep ==
    ASSUME Inv, SelectBatch
    PROVE  Inv'
<1> DEFINE rows == {row \in Selected(purge.table, purge.cutoff) : row > purge.watermark}
<1>1. PICK watermark \in rows :
          purge' = [purge EXCEPT !.batch = {row \in rows : row <= watermark}, !.watermark = watermark, !.seen = Begun]
  BY DEF SelectBatch
<1>2. purge.table # "idle" /\ UNCHANGED <<now, evidence, cited, runs, derived, health, newest, faults>>
  BY DEF SelectBatch
<1>3. purge \in PurgeType /\ purge.table \in {"derived", "runs"} \cup Tables
  BY <1>2 DEF Inv, Typed, PurgeType
<1>4. rows \subseteq Nat /\ watermark \in Nat /\ Begun \in Nat /\ Begun' = Begun
  <2>1. Selected(purge.table, purge.cutoff) \subseteq Nat
    BY <1>3, SelectedTyped
  <2>2. Begun' = Begun /\ Begun \in Nat
    BY <1>2, BegunGrows DEF Begun
  <2> QED
    BY <2>1, <2>2
<1>5. /\ purge' \in PurgeType /\ purge'.table = purge.table /\ purge'.cutoff = purge.cutoff
      /\ purge'.batch \subseteq rows /\ purge'.seen = Begun
  <2> HIDE DEF rows
  <2> QED
    BY <1>1, <1>3, <1>4 DEF PurgeType
<1>6. Typed' /\ EvidenceDated' /\ RunsAreBehind'
  BY <1>2, <1>5 DEF Inv, Typed, EvidenceDated, RunsAreBehind, Exists
<1>7. PurgeIsBehind'
  BY <1>2, <1>4, <1>5 DEF Inv, PurgeIsBehind
<1>8. purge.table \in Tables => purge'.batch \subseteq FloorRemovable(purge.table, purge.cutoff)
  <2>1. rows \subseteq Selected(purge.table, purge.cutoff)
    OBVIOUS
  <2> HIDE DEF rows
  <2> QED
    BY <1>3, <1>5, <2>1, SelectedTyped
<1>9. BatchIsOld'
  <2> SUFFICES ASSUME purge.table \in Tables, NEW day \in purge'.batch PROVE day < newest[purge.table]
    BY <1>2, <1>5 DEF BatchIsOld
  <2>1. day \in evidence[purge.table] /\ \E newer \in evidence[purge.table] : newer > day
    BY <1>8 DEF FloorRemovable
  <2>2. \A newer \in evidence[purge.table] : newer <= newest[purge.table] /\ newer \in Nat
    BY TypedParts DEF Inv, EvidenceDated, Days
  <2>3. newest[purge.table] \in Nat
    BY TypedParts DEF Inv
  <2> QED
    BY <2>1, <2>2, <2>3
<1>10. BatchIsUnread'
  <2> SUFFICES ASSUME purge.table \in Tables, NEW day \in purge'.batch, NEW r \in Runs,
                      Exists(r), r \notin PurgeableRuns(purge.cutoff)
               PROVE  \/ runs[r].cutoff < day
                      \/ \E next \in evidence[purge.table] : day < next /\ next <= runs[r].cutoff
    BY <1>2, <1>5 DEF BatchIsUnread, Exists, PurgeableRuns, Older
  <2>1. r \in SurvivingRuns(purge.cutoff)
    BY DEF SurvivingRuns
  <2>2. ~(/\ runs[r].cutoff >= day
          /\ ~\E next \in evidence[purge.table] : next > day /\ next <= runs[r].cutoff)
    BY <1>8, <2>1 DEF FloorRemovable
  <2>3. day \in Nat /\ runs[r].cutoff \in Nat /\ evidence[purge.table] \subseteq Nat
    BY <1>4, <1>5, TypedParts DEF Inv, Days
  <2> QED
    BY <2>2, <2>3
<1> QED
  BY <1>6, <1>7, <1>9, <1>10 DEF Inv

\* What is deleted was in the batch.
Gone == {row \in purge.batch : ~Referred(purge.table, row)}

LEMMA RemovedIsGone ==
    ASSUME Inv, RemoveBatch
    PROVE  /\ \A t \in Tables : evidence'[t] = IF t = purge.table THEN evidence[t] \ Gone ELSE evidence[t]
           /\ evidence' \in [Tables -> SUBSET Days]
<1>1. evidence' = IF purge.table \in Tables THEN [evidence EXCEPT ![purge.table] = @ \ Gone] ELSE evidence
  BY DEF RemoveBatch, Gone
<1> QED
  BY <1>1 DEF Inv, Typed

\* Deleting a batch leaves the newest.
LEMMA RemoveBatchStep ==
    ASSUME Inv, RemoveBatch
    PROVE  Inv'
<1>1. UNCHANGED <<now, health, newest, faults>>
  BY DEF RemoveBatch
<1>2. \A r \in Runs : runs'[r] = runs[r] \/ (runs'[r] = [NoRun EXCEPT !.phase = "gone"] /\ runs'[r] \in RunType)
  <2>1. [NoRun EXCEPT !.phase = "gone"] \in RunType
    BY BoundsAssumption DEF NoRun, RunType
  <2> QED
    BY <2>1 DEF RemoveBatch
<1>3. runs' \in [Runs -> RunType]
  <2>1. [NoRun EXCEPT !.phase = "gone"] \in RunType
    BY BoundsAssumption DEF NoRun, RunType
  <2> QED
    BY <2>1 DEF RemoveBatch, Inv, Typed
<1>4. derived' \in [Runs -> (SUBSET Days) \cup {None}]
  BY DEF RemoveBatch, Inv, Typed
<1>5. cited' \in [Days -> Days \cup {None}]
  BY DEF RemoveBatch, Inv, Typed
<1>6. purge' \in PurgeType /\ purge'.batch = {} /\ purge'.seen = 0 /\ purge'.table = purge.table /\ purge'.cutoff = purge.cutoff
  BY DEF RemoveBatch, Inv, Typed, PurgeType
<1>7. Typed'
  BY <1>1, <1>3, <1>4, <1>5, <1>6, RemovedIsGone DEF Inv, Typed
<1>8. EvidenceDated'
  <2> SUFFICES ASSUME NEW t \in Tables
               PROVE  /\ newest[t] <= now
                      /\ \A day \in evidence'[t] : day <= newest[t]
                      /\ newest[t] # 0 => newest[t] \in evidence'[t]
    BY <1>1 DEF EvidenceDated
  <2>1. /\ newest[t] <= now
        /\ \A day \in evidence[t] : day <= newest[t]
        /\ newest[t] # 0 => newest[t] \in evidence[t]
    BY DEF Inv, EvidenceDated
  <2>2. t = purge.table => newest[t] \notin Gone
    <3>1. newest[t] \in Nat
      BY TypedParts DEF Inv
    <3> QED
      BY <3>1 DEF Inv, BatchIsOld, Gone
  <2> QED
    BY <2>1, <2>2, RemovedIsGone
<1>9. RunsAreBehind'
  BY <1>1, <1>2 DEF Inv, RunsAreBehind, Exists, NoRun
<1>10. PurgeIsBehind'
  <2>1. \A r \in Runs : runs[r].phase # "none" => runs'[r].phase # "none"
    BY <1>2 DEF NoRun
  <2>2. Begun' \in Nat
    BY <2>1, BegunGrows
  <2> QED
    BY <1>1, <1>6, <2>2 DEF Inv, PurgeIsBehind
<1>11. BatchIsOld' /\ BatchIsUnread'
  BY <1>6 DEF BatchIsOld, BatchIsUnread
<1> QED
  BY <1>7, <1>8, <1>9, <1>10, <1>11 DEF Inv

\* Every step keeps the invariant.
LEMMA NextInv == Inv /\ [Next]_vars => Inv'
<1> SUFFICES ASSUME Inv, [Next]_vars PROVE Inv'
  OBVIOUS
<1>1. CASE Next
  BY <1>1, TickStep, ObserveStep, BeginRunStep, DeriveRowsStep, ComposeRollupStep, EndRunStep, BeginPurgeStep,
     SelectBatchStep, RemoveBatchStep, LeaveTableStep, KillPurgeStep DEF Next, RunStep, PurgeStep
<1>2. CASE UNCHANGED vars
  <2>1. Typed' /\ EvidenceDated' /\ RunsAreBehind' /\ PurgeIsBehind' /\ BatchIsOld'
    BY <1>2 DEF vars, Inv, Typed, EvidenceDated, RunsAreBehind, PurgeIsBehind, BatchIsOld, Exists, Begun
  <2>2. BatchIsUnread'
    BY <1>2 DEF vars, Inv, BatchIsUnread, Exists, PurgeableRuns, Older
  <2> QED
    BY <2>1, <2>2 DEF Inv
<1> QED
  BY <1>1, <1>2

\* The invariant holds in every reachable state.
THEOREM Invariant == Spec => []Inv
BY InitInv, NextInv, PTL DEF Spec

\* Every table the purge deletes from keeps its type.
THEOREM TypeCorrect == Spec => []TypeOK
<1>1. Inv => TypeOK
  <2>1. ASSUME Typed PROVE TypeOK
    <3>1. \A r \in Runs : derived[r] = None \/ derived[r] \subseteq Days
      BY <2>1 DEF Typed
    <3> QED
      BY <2>1, <3>1 DEF Typed, TypeOK, RunType, PurgeType
  <2> QED
    BY <2>1 DEF Inv
<1> QED
  BY <1>1, Invariant, PTL

\* The current state of no table is purged, however old it has become.
THEOREM NewestIsKept == Spec => []NewestStays
<1>1. Inv => NewestStays
  BY DEF Inv, EvidenceDated, NewestStays
<1> QED
  BY <1>1, Invariant, PTL

-----------------------------------------------------------------------------
(* What a run reads *)

\* A reading depends on the rows up to the cut-off only.
LEMMA SameVisible ==
    ASSUME NEW t \in Tables, NEW cutoff, NEW r \in Runs, runs[r].cutoff = cutoff, runs'[r] = runs[r],
           {day \in evidence'[t] : day <= cutoff} = {day \in evidence[t] : day <= cutoff}
    PROVE  Reading(t, runs[r].cutoff)' = Reading(t, runs[r].cutoff)
BY DEF Reading

\* What is observed today is behind no run's cut-off.
LEMMA ObservedIsUnread ==
    ASSUME Inv, NEW u \in Tables, Observe(u), NEW t \in Tables, NEW r \in Runs, Exists(r)
    PROVE  Reading(t, runs[r].cutoff)' = Reading(t, runs[r].cutoff)
<1>1. runs' = runs /\ evidence'[t] = IF t = u THEN evidence[t] \cup {now} ELSE evidence[t]
  BY DEF Observe, Inv, Typed
<1>2. ~(now <= runs[r].cutoff)
  BY TypedParts DEF Inv, RunsAreBehind
<1>3. {day \in evidence'[t] : day <= runs[r].cutoff} = {day \in evidence[t] : day <= runs[r].cutoff}
  BY <1>1, <1>2
<1> QED
  BY <1>1, <1>3, SameVisible

\* What a run that stays reads is in no batch, so it is there when the batch
\* is gone.
LEMMA RemovedIsUnread ==
    ASSUME Inv, RemoveBatch, NEW t \in Tables, NEW r \in Runs, Exists(r), runs'[r] = runs[r],
           r \notin PurgeableRuns(purge.cutoff), r <= purge.seen
    PROVE  Reading(t, runs[r].cutoff)' = Reading(t, runs[r].cutoff)
<1> DEFINE cutoff  == runs[r].cutoff
           visible == {day \in evidence[t] : day <= cutoff}
           left    == {day \in evidence'[t] : day <= cutoff}
<1>1. evidence'[t] = IF t = purge.table THEN evidence[t] \ Gone ELSE evidence[t]
  BY RemovedIsGone
<1>2. evidence[t] \subseteq Days /\ evidence[t] \subseteq Nat /\ cutoff \in Nat
  BY TypedParts DEF Inv, Days
<1>3. Reading(t, runs[r].cutoff) = IF visible = {} THEN None ELSE Max(visible)
  BY DEF Reading
<1>4. Reading(t, runs[r].cutoff)' = IF left = {} THEN None ELSE Max(left)
  BY DEF Reading
<1>5. left \subseteq visible
  BY <1>1
<1>6. CASE visible = {}
  <2> HIDE DEF left, visible
  <2> QED
    BY <1>3, <1>4, <1>5, <1>6
<1>7. CASE visible # {}
  <2>1. Max(visible) \in visible /\ \A day \in visible : day <= Max(visible)
    BY <1>2, <1>7, ReadingIsNewest
  <2>2. Max(visible) \in evidence[t] /\ Max(visible) <= cutoff /\ Max(visible) \in Nat
    <3> HIDE DEF cutoff
    <3> QED
      BY <1>2, <2>1
  <2>3. ~(t = purge.table /\ Max(visible) \in Gone)
    <3> SUFFICES ASSUME t = purge.table, Max(visible) \in purge.batch PROVE FALSE
      BY DEF Gone
    <3>1. \/ cutoff < Max(visible)
          \/ \E next \in evidence[t] : Max(visible) < next /\ next <= cutoff
      BY DEF Inv, BatchIsUnread
    <3>2. ~(cutoff < Max(visible))
      BY <1>2, <2>2
    <3>3. PICK next \in evidence[t] : Max(visible) < next /\ next <= cutoff
      BY <3>1, <3>2
    <3>4. next \in visible /\ next \in Nat
      BY <1>2, <3>3
    <3>5. next <= Max(visible)
      BY <2>1, <3>4
    <3> HIDE DEF visible, cutoff
    <3> QED
      BY <2>2, <3>3, <3>4, <3>5
  <2>4. Max(visible) \in left
    <3>1. Max(visible) \in evidence'[t]
      BY <1>1, <2>2, <2>3
    <3> QED
      BY <2>2, <3>1
  <2>5. visible \subseteq 0..MaxTime /\ MaxTime \in Nat
    BY <1>2, DaysAreBounded
  <2>6. Max(left) = Max(visible)
    <3> HIDE DEF left, visible
    <3> QED
      BY <1>5, <1>7, <2>4, <2>5, MaxStays
  <2>7. left # {}
    BY <2>4
  <2> HIDE DEF left, visible
  <2> QED
    BY <1>3, <1>4, <1>7, <2>6, <2>7
<1> QED
  BY <1>6, <1>7

\* A run that stays reads at its cut-off what it read before, whatever fails
\* and however often the purge is killed, unless it began between the
\* selection of a batch and its deletion.
THEOREM ReadingsAreKept == Spec => ReadingsSurvive
<1> DEFINE Survives ==
        \A r \in Runs, t \in Tables :
            (Exists(r) /\ Reading(t, runs[r].cutoff)' # Reading(t, runs[r].cutoff) /\ runs'[r] = runs[r]) =>
                (r \in PurgeableRuns(purge.cutoff) \/ r > purge.seen)
<1>1. ASSUME Inv, [Next]_vars PROVE Survives
  <2> SUFFICES ASSUME NEW r \in Runs, NEW t \in Tables, Exists(r), runs'[r] = runs[r],
                      r \notin PurgeableRuns(purge.cutoff), ~(r > purge.seen)
               PROVE  Reading(t, runs[r].cutoff)' = Reading(t, runs[r].cutoff)
    BY <1>1
  <2>1. r <= purge.seen
    BY <1>1, BoundsAssumption, TypedParts DEF Inv, Runs
  <2>2. CASE evidence' = evidence
    BY <2>2, SameVisible
  <2>3. ASSUME NEW u \in Tables, Observe(u) PROVE Reading(t, runs[r].cutoff)' = Reading(t, runs[r].cutoff)
    BY <1>1, <2>3, ObservedIsUnread
  <2>4. CASE RemoveBatch
    BY <1>1, <2>1, <2>4, RemovedIsUnread
  <2>5. evidence' = evidence \/ (\E u \in Tables : Observe(u)) \/ RemoveBatch
    BY <1>1 DEF Next, PurgeStep, vars, Tick, RunStep, BeginRun, DeriveRows, ComposeRollup, EndRun, BeginPurge,
                SelectBatch, EndTable, FailTable, KillPurge
  <2> QED
    BY <2>2, <2>3, <2>4, <2>5
<1>2. Inv /\ [Next]_vars => [Survives]_vars
  BY <1>1
<1> QED
  BY <1>2, Invariant, PTL DEF Spec, ReadingsSurvive
=============================================================================
