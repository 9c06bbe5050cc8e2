--------------------------- MODULE Digest_proofs ----------------------------
(***************************************************************************)
(* Proofs about EvidenceCutoff, for any number of collection runs, alone   *)
(* and inside Digest; and about Digest, for any number of digesters.       *)
(*                                                                         *)
(* The cut-off: whoever was in flight at the first question started at or  *)
(* after the boundary and so observes after it, while the cut-off is not   *)
(* after it; whoever was not yet visible, and does not become so before    *)
(* the second question, observes after the cut-off was already past.       *)
(*                                                                         *)
(* The digest: what a digest read of the stored ones is a prefix of an     *)
(* append-only sequence, so what it took from the newest of that prefix    *)
(* can be asked of it again at any later time.  The windows join because   *)
(* each begins where the newest of its prefix ended; the row between two   *)
(* is in the window of the first stored digest that ended after it.        *)
(***************************************************************************)
EXTENDS Digest, FiniteSetTheorems, WellFoundedInduction, TLAPS

\* No instant on a row is later than the clock, and a run that has been begun
\* has a start, before what it observes.
RowsAreDated ==
    \A c \in Collections :
        /\ collections[c].started <= clock
        /\ collections[c].finished <= clock
        /\ collections[c].phase # "new" => collections[c].started > Never
        /\ collections[c].phase = "observing" => collections[c].started < collections[c].observed

\* Between the two questions: every run in flight is in the gap or started at
\* or after the boundary.
BoundaryHolds ==
    policy.phase = "bounded" =>
        \A c \in Unfinished \ policy.gap : policy.boundary # Never /\ policy.boundary <= collections[c].started

\* The cut-off is never in the future.
CutoffIsPast == Chosen => policy.cutoff <= clock

IInv == TypeOK /\ RowsAreDated /\ BoundaryHolds /\ CutoffIsPast /\ CutoffIsSettled

\* Nothing has happened yet.
LEMMA InitIInv == Init => IInv
BY DEF Init, IInv, TypeOK, CollectionRow, PolicyRun, Phases, RowsAreDated, BoundaryHolds, Unfinished,
       CutoffIsPast, CutoffIsSettled, Chosen, Never

\* A collection run's step keeps the invariant.
LEMMA CollectionStep ==
    ASSUME IInv, NEW c \in Collections,
           Begin(c) \/ Save(c) \/ Observe(c) \/ Write(c) \/ Finish(c) \/ SaveEnding(c) \/ Lose(c)
    PROVE  IInv'
<1> USE DEF Now, Tick
<1>1. TypeOK'
  BY DEF IInv, TypeOK, CollectionRow, PolicyRun, Phases,
         Begin, Save, Observe, Write, Finish, SaveEnding, Lose
<1>2. RowsAreDated'
  BY DEF IInv, TypeOK, CollectionRow, RowsAreDated, Never, Phases,
         Begin, Save, Observe, Write, Finish, SaveEnding, Lose
<1>3. BoundaryHolds'
  BY DEF IInv, TypeOK, CollectionRow, PolicyRun, Phases, RowsAreDated, BoundaryHolds, Unfinished,
         Begin, Save, Observe, Write, Finish, SaveEnding, Lose
<1>4. CutoffIsPast'
  BY DEF IInv, TypeOK, PolicyRun, CutoffIsPast, Chosen,
         Begin, Save, Observe, Write, Finish, SaveEnding, Lose
<1>5. CutoffIsSettled'
  BY DEF IInv, TypeOK, CollectionRow, PolicyRun, Phases, CutoffIsPast, CutoffIsSettled, Chosen, Finished,
         Begin, Save, Observe, Write, Finish, SaveEnding, Lose
<1> QED
  BY <1>1, <1>2, <1>3, <1>4, <1>5 DEF IInv

\* Whoever is in flight when the cut-off is chosen, and was not in the gap,
\* observes after it: cut-off, boundary, start and observation come in order.
LEMMA ChoiceIsBehind ==
    ASSUME IInv, ChooseCutoff, NEW c \in Collections \ policy.gap, collections[c].phase = "observing"
    PROVE  policy'.cutoff < collections[c].observed
<1>1. PICK e \in Collections :
          /\ Settled(e)
          /\ policy' = [policy EXCEPT !.phase = "chosen", !.cutoff = collections[e].finished]
  BY DEF ChooseCutoff
<1>2. policy.boundary # Never /\ policy.boundary <= collections[c].started
  BY DEF IInv, BoundaryHolds, Unfinished, ChooseCutoff
<1>3. policy'.cutoff = collections[e].finished
  BY <1>1 DEF IInv, TypeOK, PolicyRun
<1>4. collections[e].finished <= policy.boundary
  BY <1>1, <1>2 DEF Settled
<1>5. collections[c].started < collections[c].observed
  BY DEF IInv, RowsAreDated
<1> QED
  BY <1>2, <1>3, <1>4, <1>5 DEF IInv, TypeOK, CollectionRow, PolicyRun

\* A policy run's step keeps the invariant.
LEMMA PolicyStep ==
    ASSUME IInv, ReadBoundary \/ ChooseCutoff \/ Refuse
    PROVE  IInv'
<1>1. CASE ReadBoundary
  <2>1. ASSUME Unfinished = {}, policy' = [policy EXCEPT !.phase = "bounded", !.boundary = Never]
        PROVE  TypeOK' /\ BoundaryHolds'
    BY <1>1, <2>1 DEF ReadBoundary, IInv, TypeOK, PolicyRun, BoundaryHolds, Unfinished, Never
  <2>2. ASSUME \E c \in Unfinished :
                   /\ \A d \in Unfinished : collections[c].started <= collections[d].started
                   /\ policy' = [policy EXCEPT !.phase = "bounded", !.boundary = collections[c].started]
        PROVE  TypeOK' /\ BoundaryHolds'
    <3>1. PICK c \in Unfinished :
              /\ \A d \in Unfinished : collections[c].started <= collections[d].started
              /\ policy' = [policy EXCEPT !.phase = "bounded", !.boundary = collections[c].started]
      BY <2>2
    <3>2. collections[c].started \in Nat /\ collections[c].started > Never
      BY DEF IInv, TypeOK, CollectionRow, RowsAreDated, Unfinished
    <3>3. TypeOK'
      BY <1>1, <3>1, <3>2 DEF ReadBoundary, IInv, TypeOK, PolicyRun
    <3>4. policy'.boundary = collections[c].started /\ policy'.gap = policy.gap
      BY <3>1 DEF IInv, TypeOK, PolicyRun
    <3>5. \A d \in Unfinished : policy'.boundary # Never /\ policy'.boundary <= collections[d].started
      BY <3>1, <3>2, <3>4 DEF Never
    <3>6. Unfinished' = Unfinished /\ collections' = collections
      BY <1>1 DEF ReadBoundary, Unfinished
    <3>7. BoundaryHolds'
      BY <3>5, <3>6 DEF BoundaryHolds
    <3> QED
      BY <3>3, <3>7
  <2>4. TypeOK' /\ BoundaryHolds'
    BY <1>1, <2>1, <2>2 DEF ReadBoundary
  <2>3. RowsAreDated' /\ CutoffIsPast' /\ CutoffIsSettled'
    BY <1>1 DEF ReadBoundary, IInv, TypeOK, PolicyRun, RowsAreDated, CutoffIsPast, CutoffIsSettled, Chosen
  <2> QED
    BY <2>3, <2>4 DEF IInv
<1>2. CASE ChooseCutoff
  <2>1. PICK e \in Collections :
            /\ Settled(e)
            /\ policy' = [policy EXCEPT !.phase = "chosen", !.cutoff = collections[e].finished]
    BY <1>2 DEF ChooseCutoff
  <2>2. /\ policy'.phase = "chosen"
        /\ policy'.cutoff = collections[e].finished
        /\ policy'.gap = policy.gap
    BY <2>1 DEF IInv, TypeOK, PolicyRun
  <2>3. TypeOK'
    BY <1>2, <2>1 DEF ChooseCutoff, IInv, TypeOK, CollectionRow, PolicyRun
  <2>4. RowsAreDated' /\ BoundaryHolds'
    BY <1>2, <2>2 DEF ChooseCutoff, IInv, RowsAreDated, BoundaryHolds
  <2>5. CutoffIsPast'
    BY <1>2, <2>2 DEF ChooseCutoff, IInv, RowsAreDated, CutoffIsPast
  <2>6. \A c \in Collections \ policy.gap : collections[c].phase = "observing" => policy'.cutoff < collections[c].observed
    BY <1>2, ChoiceIsBehind
  <2>7. CutoffIsSettled'
    BY <1>2, <2>1, <2>2, <2>3, <2>6 DEF ChooseCutoff, CutoffIsSettled, Chosen, Settled, Finished, IInv, TypeOK, CollectionRow, PolicyRun
  <2> QED
    BY <2>3, <2>4, <2>5, <2>7 DEF IInv
<1>3. CASE Refuse
  BY <1>3 DEF Refuse, IInv, TypeOK, PolicyRun, RowsAreDated, BoundaryHolds, CutoffIsPast, CutoffIsSettled, Chosen
<1> QED
  BY <1>1, <1>2, <1>3

\* Every step keeps the invariant.
LEMMA NextIInv == IInv /\ [Next]_vars => IInv'
<1> SUFFICES ASSUME IInv, [Next]_vars PROVE IInv'
  OBVIOUS
<1>1. CASE Next
  BY <1>1, CollectionStep, PolicyStep DEF Next
<1>2. CASE UNCHANGED vars
  BY <1>2 DEF vars, IInv, TypeOK, RowsAreDated, BoundaryHolds, Unfinished, CutoffIsPast, CutoffIsSettled, Chosen, Finished
<1> QED
  BY <1>1, <1>2

\* Time that goes by keeps it too.
LEMMA TickIInv == IInv /\ Tick /\ UNCHANGED <<collections, rows, policy>> => IInv'
BY DEF Tick, Now, IInv, TypeOK, CollectionRow, PolicyRun, RowsAreDated, BoundaryHolds, Unfinished,
       CutoffIsPast, CutoffIsSettled, Chosen, Finished

\* The invariant holds in every reachable state.
THEOREM Invariant == Spec => []IInv
BY InitIInv, NextIInv, PTL DEF Spec

\* Every variable of choose_evidence_cutoff's world keeps its type.
THEOREM TypeCorrect == Spec => []TypeOK
<1>1. IInv => TypeOK
  BY DEF IInv
<1> QED
  BY <1>1, Invariant, PTL

\* The cut-off is a recorded ending that every run the first question saw can
\* only write beyond.
THEOREM Settles == Spec => []CutoffIsSettled
<1>1. IInv => CutoffIsSettled
  BY DEF IInv
<1> QED
  BY <1>1, Invariant, PTL

\* A step that writes a row at or behind the cut-off is a step of a run of the
\* gap.
LEMMA LateOnlyInGap ==
    ASSUME IInv, Next, NEW c \in Collections, Chosen, rows'[c] # rows[c]
    PROVE  collections[c].observed > policy.cutoff \/ c \in policy.gap
<1>1. Write(c)
  BY DEF Next, IInv, TypeOK, Begin, Save, Observe, Write, Finish, SaveEnding, Lose,
         ReadBoundary, ChooseCutoff, Refuse
<1> QED
  BY <1>1 DEF Write, IInv, CutoffIsSettled

\* A row written at or behind the chosen cut-off comes from a run saved between
\* the two questions, and from no other.
THEOREM OnlyTheGapIsLate == Spec => LateEvidenceIsFromTheGap
<1>1. IInv /\ [Next]_vars =>
        [\A c \in Collections : (Chosen /\ rows'[c] # rows[c]) =>
            collections[c].observed > policy.cutoff \/ c \in policy.gap]_vars
  BY LateOnlyInGap DEF vars
<1> QED
  BY <1>1, Invariant, PTL DEF Spec, LateEvidenceIsFromTheGap

-----------------------------------------------------------------------------
(* The largest of some numbers *)

Less == {pair \in Nat \X Nat : pair[1] < pair[2]}

\* A set of naturals has a least element.
LEMMA Least ==
    ASSUME NEW T, T \subseteq Nat, T # {}
    PROVE  \E x \in T : \A y \in T : x <= y
<1>1. IsWellFoundedOn(Less, Nat)
  BY NatLessThanWellFounded DEF OpToRel, Less
<1>2. PICK x \in T : \A y \in T : ~(<<y, x>> \in Less)
  BY <1>1, WFMin
<1>3. ASSUME NEW y \in T PROVE x <= y
  <2>1. x \in Nat /\ y \in Nat
    OBVIOUS
  <2>2. <<y, x>> \in Nat \X Nat /\ <<y, x>>[1] = y /\ <<y, x>>[2] = x
    BY <2>1
  <2>3. ~(y < x)
    BY <1>2, <2>2 DEF Less
  <2> QED
    BY <2>1, <2>3
<1> QED
  BY <1>3

\* A bounded one has a greatest.
LEMMA Greatest ==
    ASSUME NEW N \in Nat, NEW T, T \subseteq 0..N, T # {}
    PROVE  \E x \in T : \A y \in T : y <= x
<1> DEFINE U == {u \in 0..N : N - u \in T}
<1>1. \A y \in T : N - y \in U
  <2> SUFFICES ASSUME NEW y \in T PROVE N - y \in U
    OBVIOUS
  <2>1. N - y \in 0..N /\ N - (N - y) = y
    OBVIOUS
  <2> QED
    BY <2>1
<1>2. U \subseteq Nat /\ U # {}
  <2>1. PICK y \in T : TRUE
    OBVIOUS
  <2>2. N - y \in U
    BY <1>1
  <2>3. U \subseteq Nat
    OBVIOUS
  <2> HIDE DEF U
  <2> QED
    BY <2>2, <2>3
<1>3. PICK u \in U : \A v \in U : u <= v
  <2> HIDE DEF U
  <2> QED
    BY <1>2, Least
<1>4. \A y \in T : y <= N - u
  <2> SUFFICES ASSUME NEW y \in T PROVE y <= N - u
    OBVIOUS
  <2>1. u <= N - y
    BY <1>1, <1>3
  <2> QED
    BY <2>1
<1> QED
  BY <1>3, <1>4

-----------------------------------------------------------------------------
(* The newest of some stored digests *)

\* The i-th is the newest of those with these numbers.
Dominates(ds, i, ids) ==
    /\ i \in ids
    /\ \A j \in ids : ds[j].until < ds[i].until \/ (ds[j].until = ds[i].until /\ j <= i)

\* There is a newest one.
LEMMA SomeDominates ==
    ASSUME NEW ds \in Seq(Digest), NEW N \in Nat, \A i \in 1..Len(ds) : ds[i].until <= N,
           NEW ids, ids \subseteq 1..Len(ds), ids # {}
    PROVE  \E i \in ids : Dominates(ds, i, ids)
<1>1. \A i \in 1..Len(ds) : ds[i].until \in Nat
  <2>1. \A i \in 1..Len(ds) : ds[i] \in Digest
    OBVIOUS
  <2> QED
    BY <2>1 DEF Digest
<1> DEFINE Untils == {ds[i].until : i \in ids}
<1>2. PICK u \in Untils : \A v \in Untils : v <= u
  <2>1. Untils \subseteq 0..N
    BY <1>1
  <2>2. Untils # {}
    OBVIOUS
  <2> HIDE DEF Untils
  <2> QED
    BY <2>1, <2>2, Greatest
<1> DEFINE Latest == {i \in ids : ds[i].until = u}
<1>3. PICK e \in Latest : \A j \in Latest : j <= e
  <2>1. Latest \subseteq 0..Len(ds)
    <3>1. Latest \subseteq ids /\ 1..Len(ds) \subseteq 0..Len(ds)
      OBVIOUS
    <3> HIDE DEF Latest
    <3> QED
      BY <3>1
  <2>2. Latest # {}
    <3>1. PICK i \in ids : ds[i].until = u
      OBVIOUS
    <3> QED
      BY <3>1
  <2>3. Len(ds) \in Nat
    OBVIOUS
  <2> HIDE DEF Latest
  <2> QED
    BY <2>1, <2>2, <2>3, Greatest
<1>4. \A j \in ids : ds[j].until < ds[e].until \/ (ds[j].until = ds[e].until /\ j <= e)
  <2> SUFFICES ASSUME NEW j \in ids PROVE ds[j].until < ds[e].until \/ (ds[j].until = ds[e].until /\ j <= e)
    OBVIOUS
  <2>1. ds[j].until <= u /\ ds[e].until = u
    BY <1>2
  <2>2. ds[j].until = u => j <= e
    BY <1>3
  <2>3. ds[j].until \in Nat /\ u \in Nat
    BY <1>1
  <2> QED
    BY <2>1, <2>2, <2>3
<1> QED
  BY <1>4 DEF Dominates

\* Newest answers with it.
LEMMA NewestDominates ==
    ASSUME digests \in Seq(Digest), NEW N \in Nat, \A i \in 1..Len(digests) : digests[i].until <= N,
           NEW ids, ids \subseteq 1..Len(digests), ids # {}
    PROVE  Dominates(digests, Newest(ids), ids)
BY SomeDominates DEF Dominates, Newest

-----------------------------------------------------------------------------
(* Types of the digest *)

\* What a digester holds before it has read anything.
LEMMA BlankTyped == Blank \in Digest
<1>1. (CHOOSE o \in Overall : TRUE) \in Overall
  BY LedgerAssumption
<1> QED
  BY <1>1 DEF Blank, Digest, Figures

\* The digest's own variables keep their types.
DigestTyped ==
    /\ digests \in Seq(Digest) /\ Len(digests) <= MaxDigests
    /\ composing \in [Digesters -> [phase : DigestPhases, digest : Digest]]

\* Where a window begins is an instant, perhaps before the first.
LEMMA WindowStartTyped ==
    ASSUME DigestTyped, NEW now \in Nat, NEW N \in Nat, \A i \in 1..Len(digests) : digests[i].until <= N
    PROVE  WindowStart(now, Len(digests)) \in Int
<1>1. Len(digests) \in Nat /\ Window \in Nat
  BY WindowAssumption DEF DigestTyped
<1>2. ASSUME Len(digests) > 0 PROVE digests[Newest(1..Len(digests))].until \in Nat
  <2>1. Dominates(digests, Newest(1..Len(digests)), 1..Len(digests))
    <3>1. 1..Len(digests) \subseteq 1..Len(digests) /\ 1..Len(digests) # {}
      BY <1>1, <1>2
    <3> QED
      BY <3>1, NewestDominates DEF DigestTyped
  <2>2. digests[Newest(1..Len(digests))] \in Digest
    BY <2>1 DEF Dominates, DigestTyped
  <2> QED
    BY <2>2 DEF Digest
<1> QED
  BY <1>1, <1>2 DEF WindowStart, Limit

\* Nothing counts more rows than the ledger has.
LEMMA FiguresTyped ==
    ASSUME NEW counted, NEW kind, counted \subseteq Collections
    PROVE  Cardinality(counted \cap kind) \in Nat
<1>1. counted \cap kind \in SUBSET Collections
  OBVIOUS
<1>2. IsFiniteSet(counted \cap kind)
  BY <1>1, LedgerAssumption, FS_Subset
<1> QED
  BY <1>2, FS_CardinalityType

\* An instant a digest can name is a natural number.
LEMMA SinceTyped ==
    ASSUME DigestTyped, NEW d \in Digest, 0 < d.known, d.known <= Len(digests),
           NEW N \in Nat, \A i \in 1..Len(digests) : digests[i].until <= N
    PROVE  Since(d) \in Nat
<1>1. \A i \in 1..Len(digests) : digests[i] \in Digest
  BY DEF DigestTyped
<1>2. d.known \in Nat /\ Len(digests) \in Nat
  BY DEF Digest, DigestTyped
<1>3. ASSUME NEW ids, ids \subseteq 1..Len(digests), ids # {} PROVE digests[Newest(ids)].until \in Nat
  <2>1. Newest(ids) \in ids
    BY <1>3, NewestDominates DEF Dominates, DigestTyped
  <2>2. digests[Newest(ids)] \in Digest
    BY <1>1, <1>3, <2>1
  <2> QED
    BY <2>2 DEF Digest
<1>4. Changed \subseteq 1..Len(digests)
  BY DEF Changed
<1>5. 1..d.known \subseteq 1..Len(digests) /\ 1..d.known # {}
  BY <1>2
<1> QED
  BY <1>3, <1>4, <1>5 DEF Since

-----------------------------------------------------------------------------
(* What a digest has read of the stored ones *)

\* Its clock was read after that of every digest it met.
Stamped(d, ds, now) == d.until <= now /\ d.met <= Len(ds) /\ \A m \in 1..d.met : ds[m].until < d.until

\* Its window begins where the newest of those it knew ended, or one window
\* before its own end.
Joined(d, ds) ==
    /\ d.met <= d.known /\ d.known <= Len(ds)
    /\ d.known = 0 => d.from = d.until - Window
    /\ d.known > 0 => \E e \in 1..d.known :
           /\ Dominates(ds, e, 1..d.known)
           /\ d.from = IF d.until - ds[e].until \in 0..Limit THEN ds[e].until ELSE d.until - Window

\* It says that nothing changed only with the figures of that digest.
News(d, ds) ==
    ~d.changed => d.known > 0 /\ \E e \in 1..d.known : Dominates(ds, e, 1..d.known) /\ d.figures = ds[e].figures

ChangedIn(ds) == {i \in 1..Len(ds) : ds[i].changed}

\* It names the newest that changed, if nothing was stored since it began.
Names(d, ds) ==
    (~d.changed /\ d.met = Len(ds) /\ ChangedIn(ds) # {}) =>
        \E e \in ChangedIn(ds) : Dominates(ds, e, ChangedIn(ds)) /\ d.since = ds[e].until

\* What is appended to a sequence is at its end.
LEMMA AppendLast ==
    ASSUME NEW ds \in Seq(Digest), NEW x \in Digest
    PROVE  /\ Append(ds, x) \in Seq(Digest)
           /\ Len(ds) \in Nat
           /\ Len(Append(ds, x)) = Len(ds) + 1
           /\ \A i \in 1..Len(ds) : Append(ds, x)[i] = ds[i]
           /\ Append(ds, x)[Len(ds) + 1] = x
OBVIOUS

\* What was read of a prefix is read of it again after more is stored.
LEMMA DominatesLater ==
    ASSUME NEW ds \in Seq(Digest), NEW x \in Digest, NEW i, NEW ids, ids \subseteq 1..Len(ds), Dominates(ds, i, ids)
    PROVE  Dominates(Append(ds, x), i, ids)
BY AppendLast DEF Dominates

\* So a digest in hand has read what it read, however many are stored and
\* however late it has become.
LEMMA StillRead ==
    ASSUME NEW ds \in Seq(Digest), NEW x \in Digest, NEW d \in Digest
    PROVE  /\ \A now, later \in Nat : Stamped(d, ds, now) /\ now <= later => Stamped(d, Append(ds, x), later)
           /\ Joined(d, ds) => Joined(d, Append(ds, x))
           /\ Joined(d, ds) /\ News(d, ds) => News(d, Append(ds, x))
<1>1. d.until \in Nat /\ d.met \in Nat /\ d.known \in Nat
  BY DEF Digest
<1>2. \A now, later \in Nat : Stamped(d, ds, now) /\ now <= later => Stamped(d, Append(ds, x), later)
  BY <1>1, AppendLast DEF Stamped
<1>3. ASSUME Joined(d, ds) PROVE 1..d.known \subseteq 1..Len(ds) /\ d.known <= Len(Append(ds, x))
  BY <1>1, <1>3, AppendLast DEF Joined
<1>4. ASSUME Joined(d, ds), d.known > 0 PROVE Joined(d, Append(ds, x))
  <2>1. PICK e \in 1..d.known :
            /\ Dominates(ds, e, 1..d.known)
            /\ d.from = IF d.until - ds[e].until \in 0..Limit THEN ds[e].until ELSE d.until - Window
    BY <1>4 DEF Joined
  <2>2. Dominates(Append(ds, x), e, 1..d.known) /\ Append(ds, x)[e] = ds[e]
    BY <1>3, <1>4, <2>1, DominatesLater, AppendLast
  <2> QED
    BY <1>1, <1>3, <1>4, <2>1, <2>2 DEF Joined
<1>5. Joined(d, ds) => Joined(d, Append(ds, x))
  BY <1>1, <1>3, <1>4 DEF Joined
<1>6. ASSUME Joined(d, ds), News(d, ds), ~d.changed PROVE News(d, Append(ds, x))
  <2>1. PICK e \in 1..d.known : Dominates(ds, e, 1..d.known) /\ d.figures = ds[e].figures
    BY <1>6 DEF News
  <2>2. Dominates(Append(ds, x), e, 1..d.known) /\ Append(ds, x)[e] = ds[e]
    BY <1>3, <1>6, <2>1, DominatesLater, AppendLast
  <2> QED
    BY <1>6, <2>1, <2>2 DEF News
<1> QED
  BY <1>2, <1>5, <1>6 DEF News

-----------------------------------------------------------------------------
(* The invariant of Digest *)

StoredHolds(ds, now) ==
    \A i \in 1..Len(ds) : Stamped(ds[i], ds, now) /\ Joined(ds[i], ds) /\ News(ds[i], ds) /\ ds[i].known < i

HeldHolds(held, ds, now) ==
    /\ held.phase # "idle" => Stamped(held.digest, ds, now)
    /\ held.phase \in {"continuing", "composed", "delivered"} => Joined(held.digest, ds)
    /\ held.phase \in {"composed", "delivered"} => News(held.digest, ds)
    /\ held.phase = "delivered" => Names(held.digest, ds)

\* The i-th names the one before it that changed last, all since being equal.
Traced(ds, i) ==
    ~ds[i].changed => \E j \in 1..(i - 1) :
        /\ ds[j].until = ds[i].since
        /\ ds[j].changed
        /\ \A m \in (j + 1)..i : ~ds[m].changed
        /\ \A m \in j..i : ds[m].figures = ds[i].figures

InTurn(ds) == \A i \in 1..Len(ds) : ds[i].met = i - 1

DInv ==
    /\ IInv
    /\ DigestTyped
    /\ StoredHolds(digests, clock)
    /\ \A k \in Digesters : HeldHolds(composing[k], digests, clock)
    /\ InTurn(digests) => \A i \in 1..Len(digests) : Traced(digests, i)

\* Nothing is stored and nothing in hand.
LEMMA InitDInv == DigestInit => DInv
<1> SUFFICES ASSUME DigestInit PROVE DInv
  OBVIOUS
<1>1. digests = <<>> /\ Len(digests) = 0 /\ digests \in Seq(Digest)
  BY DEF DigestInit
<1>2. DigestTyped
  BY <1>1, BlankTyped, WindowAssumption DEF DigestInit, DigestTyped, DigestPhases
<1>3. \A k \in Digesters : composing[k].phase = "idle"
  BY DEF DigestInit
<1> QED
  BY <1>1, <1>2, <1>3, InitIInv DEF DigestInit, DInv, StoredHolds, HeldHolds

\* As time goes by, what was stamped stays so.
LEMMA StampedLater ==
    ASSUME NEW d \in Digest, NEW ds, NEW now \in Nat, NEW later \in Nat, now <= later, Stamped(d, ds, now)
    PROVE  Stamped(d, ds, later)
BY DEF Stamped, Digest

\* A step that stores nothing keeps the invariant if what one digester then
\* holds meets it.
LEMMA HeldStep ==
    ASSUME DInv, IInv', clock <= clock', digests' = digests,
           NEW k \in Digesters, NEW held \in [phase : DigestPhases, digest : Digest],
           composing' = [composing EXCEPT ![k] = held],
           HeldHolds(held, digests, clock')
    PROVE  DInv'
<1>1. clock \in Nat /\ clock' \in Nat
  BY DEF DInv, IInv, TypeOK
<1>2. DigestTyped'
  BY DEF DInv, DigestTyped
<1>3. \A i \in 1..Len(digests) : digests[i] \in Digest
  BY DEF DInv, DigestTyped
<1>4. StoredHolds(digests, clock')
  BY <1>1, <1>3, StampedLater DEF DInv, StoredHolds
<1>5. ASSUME NEW l \in Digesters PROVE HeldHolds(composing'[l], digests, clock')
  <2>1. CASE l = k
    BY <2>1 DEF DInv, DigestTyped
  <2>2. CASE l # k
    <3>1. composing'[l] = composing[l] /\ composing[l].digest \in Digest
      BY <2>2 DEF DInv, DigestTyped
    <3>2. HeldHolds(composing[l], digests, clock)
      BY DEF DInv
    <3> QED
      BY <1>1, <3>1, <3>2, StampedLater DEF HeldHolds
  <2> QED
    BY <2>1, <2>2
<1> QED
  BY <1>2, <1>4, <1>5 DEF DInv

\* Every digest that is stored, and every one in hand, has ended by now.
LEMMA Dated ==
    ASSUME DInv
    PROVE  /\ clock \in Nat
           /\ \A i \in 1..Len(digests) : digests[i].until <= clock
BY DEF DInv, IInv, TypeOK, StoredHolds, Stamped

\* A digest begins later than whatever is stored.
LEMMA StartStep ==
    ASSUME DInv, NEW k \in Digesters, StartDigest(k)
    PROVE  DInv'
<1> DEFINE d    == [Blank EXCEPT !.until = Now, !.met = Len(digests)]
           held == [phase |-> "stamped", digest |-> d]
<1>1. IInv' /\ clock <= clock' /\ clock' = clock + 1 /\ digests' = digests
  BY TickIInv, Dated DEF StartDigest, DInv, Tick, Now
<1>2. d \in Digest /\ d.until = clock + 1 /\ d.met = Len(digests)
  <2>1. Len(digests) \in Nat /\ Now = clock + 1 /\ Now \in Nat
    BY Dated DEF Now, DInv, DigestTyped
  <2> QED
    BY <2>1, BlankTyped DEF Digest
<1>3. held \in [phase : DigestPhases, digest : Digest]
  BY <1>2 DEF DigestPhases
<1>4. composing' = [composing EXCEPT ![k] = held]
  BY DEF StartDigest
<1>5. Stamped(d, digests, clock')
  <2>1. \A m \in 1..Len(digests) : digests[m].until \in Nat
    <3>1. \A m \in 1..Len(digests) : digests[m] \in Digest
      BY DEF DInv, DigestTyped
    <3> QED
      BY <3>1 DEF Digest
  <2>2. Len(digests) \in Nat
    BY DEF DInv, DigestTyped
  <2> HIDE DEF d
  <2> QED
    BY <1>1, <1>2, <2>1, <2>2, Dated DEF Stamped
<1>6. HeldHolds(held, digests, clock')
  BY <1>5 DEF HeldHolds
<1> HIDE DEF held
<1> QED
  BY <1>1, <1>3, <1>4, <1>6, HeldStep

\* Steps that leave the ledger alone keep its invariant.
LEMMA LedgerStays ==
    ASSUME DInv, UNCHANGED vars
    PROVE  IInv' /\ clock <= clock'
BY NextIInv, Dated DEF DInv, vars

\* What a digester holds keeps its type.
LEMMA HeldTyped ==
    ASSUME DInv, NEW k \in Digesters
    PROVE  composing[k].digest \in Digest /\ composing[k].phase \in DigestPhases
BY DEF DInv, DigestTyped

\* It asks for the newest stored digest and takes the start of its window from
\* there.
LEMMA ContinueStep ==
    ASSUME DInv, NEW k \in Digesters, Continue(k)
    PROVE  DInv'
<1> DEFINE d    == composing[k].digest
           n    == Len(digests)
           e    == [d EXCEPT !.known = n, !.from = WindowStart(d.until, n)]
           held == [phase |-> "continuing", digest |-> e]
<1>1. IInv' /\ clock <= clock' /\ clock' = clock /\ digests' = digests
  BY LedgerStays DEF Continue, vars
<1>2. d \in Digest /\ n \in Nat /\ d.until \in Nat /\ Stamped(d, digests, clock)
  BY HeldTyped DEF Continue, DInv, DigestTyped, HeldHolds, Digest
<1>3. WindowStart(d.until, n) \in Int
  BY <1>2, WindowStartTyped, Dated DEF DInv
<1>4. e \in Digest /\ e.known = n /\ e.from = WindowStart(d.until, n) /\ e.until = d.until /\ e.met = d.met
  BY <1>2, <1>3 DEF Digest
<1>5. held \in [phase : DigestPhases, digest : Digest] /\ composing' = [composing EXCEPT ![k] = held]
  BY <1>4 DEF DigestPhases, Continue
<1>6. Stamped(e, digests, clock')
  <2> HIDE DEF e
  <2> QED
    BY <1>1, <1>2, <1>4 DEF Stamped
<1>7. Joined(e, digests)
  <2>1. CASE n = 0
    <3> HIDE DEF e
    <3> QED
      BY <1>2, <1>4, <2>1 DEF Joined, Stamped, WindowStart
  <2>2. CASE n > 0
    <3>1. 1..n \subseteq 1..n /\ 1..n # {}
      BY <1>2, <2>2
    <3>2. Dominates(digests, Newest(1..n), 1..n)
      BY <3>1, NewestDominates, Dated DEF DInv, DigestTyped
    <3>3. Newest(1..n) \in 1..n
      BY <3>2 DEF Dominates
    <3> HIDE DEF e
    <3> QED
      BY <1>2, <1>4, <2>2, <3>2, <3>3 DEF Joined, Stamped, WindowStart
  <2> QED
    BY <1>2, <2>1, <2>2
<1>8. HeldHolds(held, digests, clock')
  BY <1>6, <1>7 DEF HeldHolds
<1> HIDE DEF held
<1> QED
  BY <1>1, <1>5, <1>8, HeldStep

\* It counts the rows of its window and compares its figures with those of the
\* digest it continues.
LEMMA ComposeStep ==
    ASSUME DInv, NEW k \in Digesters, Compose(k)
    PROVE  DInv'
<1> DEFINE d       == composing[k].digest
           counted == {c \in Visible : InWindow(c, d)}
           F(o)    == [running |-> Cardinality(counted \cap Unfinished),
                       ended |-> Cardinality(counted \cap Finished), overall |-> o]
           E(o)    == [d EXCEPT !.seen = Visible, !.figures = F(o),
                                !.changed = d.known = 0 \/ F(o) # digests[Newest(1..d.known)].figures]
<1>1. IInv' /\ clock <= clock' /\ clock' = clock /\ digests' = digests
  BY LedgerStays DEF Compose, vars
<1>2. d \in Digest /\ Stamped(d, digests, clock) /\ Joined(d, digests)
  BY HeldTyped DEF Compose, DInv, HeldHolds
<1>3. PICK o \in Overall : composing' = [composing EXCEPT ![k] = [phase |-> "composed", digest |-> E(o)]]
  BY DEF Compose
<1>4. Visible \subseteq Collections /\ counted \subseteq Collections
  BY DEF Visible, Unfinished, Finished
<1>5. F(o) \in Figures
  <2> HIDE DEF counted
  <2> QED
    BY <1>4, FiguresTyped DEF Figures
<1> DEFINE e    == E(o)
           held == [phase |-> "composed", digest |-> e]
<1>6. /\ e \in Digest
      /\ e.from = d.from /\ e.until = d.until /\ e.met = d.met /\ e.known = d.known
      /\ e.figures = F(o)
      /\ e.changed = (d.known = 0 \/ F(o) # digests[Newest(1..d.known)].figures)
  <2> HIDE DEF F, counted
  <2> QED
    BY <1>2, <1>4, <1>5 DEF Digest
<1>7. held \in [phase : DigestPhases, digest : Digest] /\ composing' = [composing EXCEPT ![k] = held]
  BY <1>3, <1>6 DEF DigestPhases
<1>8. Stamped(e, digests, clock') /\ Joined(e, digests)
  <2> HIDE DEF e, d
  <2> QED
    BY <1>1, <1>2, <1>6 DEF Stamped, Joined
<1>9. News(e, digests)
  <2> SUFFICES ASSUME ~e.changed
               PROVE  d.known > 0 /\ \E i \in 1..d.known : Dominates(digests, i, 1..d.known) /\ F(o) = digests[i].figures
    <3> HIDE DEF e, d, F
    <3> QED
      BY <1>6 DEF News
  <2>1. d.known \in Nat /\ d.known <= Len(digests) /\ d.known # 0 /\ F(o) = digests[Newest(1..d.known)].figures
    <3> HIDE DEF e, d, F
    <3> QED
      BY <1>2, <1>6 DEF Joined, Digest
  <2>2. 1..d.known \subseteq 1..Len(digests) /\ 1..d.known # {}
    <3> HIDE DEF d
    <3>1. Len(digests) \in Nat
      BY DEF DInv, DigestTyped
    <3> QED
      BY <2>1, <3>1
  <2>3. Dominates(digests, Newest(1..d.known), 1..d.known)
    <3> HIDE DEF d
    <3> QED
      BY <2>2, NewestDominates, Dated DEF DInv, DigestTyped
  <2>4. Newest(1..d.known) \in 1..d.known
    BY <2>3 DEF Dominates
  <2> HIDE DEF d, F
  <2> QED
    BY <2>1, <2>3, <2>4
<1>10. HeldHolds(held, digests, clock')
  <2> HIDE DEF e
  <2> QED
    BY <1>8, <1>9 DEF HeldHolds
<1> HIDE DEF held
<1> QED
  BY <1>1, <1>7, <1>10, HeldStep

\* Its text names the newest digest that changed.
LEMMA DeliverStep ==
    ASSUME DInv, NEW k \in Digesters, Deliver(k)
    PROVE  DInv'
<1> DEFINE d    == composing[k].digest
           e    == IF d.changed THEN d ELSE [d EXCEPT !.since = Since(d)]
           held == [phase |-> "delivered", digest |-> e]
<1>1. IInv' /\ clock <= clock' /\ clock' = clock /\ digests' = digests
  BY LedgerStays DEF Deliver, vars
<1>2. d \in Digest /\ Stamped(d, digests, clock) /\ Joined(d, digests) /\ News(d, digests)
  BY HeldTyped DEF Deliver, DInv, HeldHolds
<1>3. ASSUME ~d.changed PROVE Since(d) \in Nat
  <2>1. 0 < d.known /\ d.known <= Len(digests)
    BY <1>2, <1>3 DEF News, Joined
  <2> HIDE DEF d
  <2> QED
    BY <1>2, <2>1, SinceTyped, Dated DEF DInv
<1>4. /\ e \in Digest
      /\ e.from = d.from /\ e.until = d.until /\ e.met = d.met /\ e.known = d.known
      /\ e.figures = d.figures /\ e.changed = d.changed
      /\ ~d.changed => e.since = Since(d)
  BY <1>2, <1>3 DEF Digest
<1>5. held \in [phase : DigestPhases, digest : Digest] /\ composing' = [composing EXCEPT ![k] = held]
  BY <1>4 DEF DigestPhases, Deliver
<1>6. Stamped(e, digests, clock') /\ Joined(e, digests) /\ News(e, digests)
  <2> HIDE DEF e, d
  <2> QED
    BY <1>1, <1>2, <1>4 DEF Stamped, Joined, News
<1>7. Names(e, digests)
  <2> SUFFICES ASSUME ~d.changed, ChangedIn(digests) # {}
               PROVE  \E i \in ChangedIn(digests) :
                          Dominates(digests, i, ChangedIn(digests)) /\ Since(d) = digests[i].until
    <3> HIDE DEF e, d
    <3> QED
      BY <1>4 DEF Names
  <2>1. Changed = ChangedIn(digests) /\ ChangedIn(digests) \subseteq 1..Len(digests)
    BY DEF Changed, ChangedIn
  <2>2. Dominates(digests, Newest(ChangedIn(digests)), ChangedIn(digests))
    BY <2>1, NewestDominates, Dated DEF DInv, DigestTyped
  <2>3. Since(d) = digests[Newest(ChangedIn(digests))].until
    BY <2>1 DEF Since
  <2> HIDE DEF d
  <2> QED
    BY <2>2, <2>3 DEF Dominates
<1>8. HeldHolds(held, digests, clock')
  <2> HIDE DEF e
  <2> QED
    BY <1>6, <1>7 DEF HeldHolds
<1> HIDE DEF held
<1> QED
  BY <1>1, <1>5, <1>8, HeldStep

\* A digest that is lost leaves nothing.
LEMMA AbandonStep ==
    ASSUME DInv, NEW k \in Digesters, Abandon(k)
    PROVE  DInv'
<1> DEFINE held == [phase |-> "idle", digest |-> Blank]
<1>1. IInv' /\ clock <= clock' /\ digests' = digests
  BY LedgerStays DEF Abandon, vars
<1>2. held \in [phase : DigestPhases, digest : Digest] /\ composing' = [composing EXCEPT ![k] = held]
  BY BlankTyped DEF DigestPhases, Abandon
<1>3. HeldHolds(held, digests, clock')
  BY DEF HeldHolds
<1> HIDE DEF held
<1> QED
  BY <1>1, <1>2, <1>3, HeldStep

\* While digests are composed one after another, each ends after those before.
LEMMA InTurnAscends ==
    ASSUME NEW ds \in Seq(Digest), NEW now, StoredHolds(ds, now), InTurn(ds),
           NEW i \in 1..Len(ds), NEW m \in 1..Len(ds), m < i
    PROVE  ds[m].until < ds[i].until
<1>1. Stamped(ds[i], ds, now) /\ ds[i].met = i - 1
  BY DEF StoredHolds, InTurn
<1>2. m \in 1..(i - 1)
  OBVIOUS
<1> QED
  BY <1>1, <1>2 DEF Stamped

\* A digest that saw nothing stored while it was composed, and says nothing
\* changed, has the figures of the last one stored; so it traces back to the
\* same change, or to that last one.
LEMMA TracedOn ==
    ASSUME NEW ds \in Seq(Digest), NEW now, StoredHolds(ds, now), InTurn(ds),
           \A i \in 1..Len(ds) : Traced(ds, i),
           NEW d \in Digest, Joined(d, ds), News(d, ds), Names(d, ds), d.met = Len(ds), ~d.changed
    PROVE  Traced(Append(ds, d), Len(ds) + 1)
<1> DEFINE n    == Len(ds)
           more == Append(ds, d)
<1>0. n \in Nat /\ more[n + 1] = d /\ \A i \in 1..n : more[i] = ds[i] /\ ds[i] \in Digest
  BY AppendLast
<1>1. d.known = n /\ n > 0
  BY <1>0 DEF Joined, News, Digest
<1>2. \A i, m \in 1..n : m < i => ds[m].until < ds[i].until
  BY InTurnAscends
<1>3. \A i \in 1..n : ds[i].until \in Nat
  BY <1>0 DEF Digest
<1>4. d.figures = ds[n].figures
  <2>1. PICK e \in 1..n : Dominates(ds, e, 1..n) /\ d.figures = ds[e].figures
    BY <1>1 DEF News
  <2>2. e = n
    BY <1>0, <1>1, <1>2, <1>3, <2>1 DEF Dominates
  <2> QED
    BY <2>1, <2>2
<1>5. PICK j \in 1..n :
          /\ ds[j].changed
          /\ \A m \in (j + 1)..n : ~ds[m].changed
          /\ \A m \in j..n : ds[m].figures = ds[n].figures
  <2>1. CASE ds[n].changed
    <3>1. n \in 1..n /\ (n + 1)..n = {} /\ n..n = {n}
      BY <1>0, <1>1
    <3> QED
      BY <2>1, <3>1
  <2>2. CASE ~ds[n].changed
    <3>1. n \in 1..n /\ 1..(n - 1) \subseteq 1..n
      BY <1>0, <1>1
    <3>2. Traced(ds, n)
      BY <3>1
    <3> QED
      BY <2>2, <3>1, <3>2 DEF Traced
  <2> QED
    BY <2>1, <2>2
<1>6. d.since = ds[j].until
  <2>1. j \in ChangedIn(ds) /\ ChangedIn(ds) \subseteq 1..j
    <3> SUFFICES ASSUME NEW i \in 1..n, ds[i].changed PROVE i <= j
      BY <1>0, <1>5 DEF ChangedIn
    <3> QED
      BY <1>0, <1>5
  <2>2. PICK e \in ChangedIn(ds) : Dominates(ds, e, ChangedIn(ds)) /\ d.since = ds[e].until
    BY <2>1 DEF Names
  <2>3. e \in 1..j /\ e \in 1..n
    BY <2>1 DEF ChangedIn
  <2>4. ~(ds[e].until < ds[j].until)
    BY <1>0, <1>3, <2>1, <2>2, <2>3 DEF Dominates
  <2>5. e = j
    BY <1>0, <1>2, <2>3, <2>4
  <2> QED
    BY <2>2, <2>5
<1>7. j \in 1..((n + 1) - 1) /\ more[j] = ds[j]
  BY <1>0
<1>8. \A m \in (j + 1)..(n + 1) : ~more[m].changed
  <2> SUFFICES ASSUME NEW m \in (j + 1)..(n + 1) PROVE ~more[m].changed
    OBVIOUS
  <2>1. CASE m = n + 1
    BY <1>0, <2>1
  <2>2. CASE m # n + 1
    <3>1. m \in (j + 1)..n /\ m \in 1..n
      BY <1>0, <2>2
    <3> HIDE DEF more
    <3> QED
      BY <1>0, <1>5, <3>1
  <2> QED
    BY <2>1, <2>2
<1>9. \A m \in j..(n + 1) : more[m].figures = more[n + 1].figures
  <2> SUFFICES ASSUME NEW m \in j..(n + 1) PROVE more[m].figures = more[n + 1].figures
    OBVIOUS
  <2>1. CASE m = n + 1
    BY <2>1
  <2>2. CASE m # n + 1
    <3>1. m \in j..n /\ m \in 1..n
      BY <1>0, <2>2
    <3> HIDE DEF more
    <3> QED
      BY <1>0, <1>4, <1>5, <3>1
  <2> QED
    BY <2>1, <2>2
<1> HIDE DEF more, n
<1>10. Traced(more, n + 1)
  BY <1>0, <1>5, <1>6, <1>7, <1>8, <1>9 DEF Traced
<1> QED
  BY <1>10 DEF more, n

\* Storing one more leaves what the earlier ones trace back to.
LEMMA TracedStill ==
    ASSUME NEW ds \in Seq(Digest), NEW d \in Digest, NEW i \in 1..Len(ds), Traced(ds, i)
    PROVE  Traced(Append(ds, d), i)
<1>1. \A m \in 1..i : Append(ds, d)[m] = ds[m]
  BY AppendLast
<1> QED
  BY <1>1 DEF Traced

\* Storing a delivered digest keeps the invariant.
LEMMA StoreStep ==
    ASSUME DInv, NEW k \in Digesters, Store(k)
    PROVE  DInv'
<1> DEFINE ds   == digests
           d    == composing[k].digest
           more == Append(digests, composing[k].digest)
           idle == [phase |-> "idle", digest |-> Blank]
<1>1. IInv' /\ clock' = clock /\ clock \in Nat
  BY LedgerStays, Dated DEF Store, vars
<1>2. ds \in Seq(Digest) /\ d \in Digest /\ StoredHolds(ds, clock)
  BY HeldTyped DEF DInv, DigestTyped
<1>3. /\ more \in Seq(Digest) /\ Len(ds) \in Nat /\ Len(more) = Len(ds) + 1
      /\ \A i \in 1..Len(ds) : more[i] = ds[i] /\ ds[i] \in Digest
      /\ more[Len(ds) + 1] = d
  BY <1>2, AppendLast
<1>4. /\ composing[k].phase = "delivered" /\ Len(ds) < MaxDigests /\ digests' = more
      /\ composing' = [composing EXCEPT ![k] = idle]
  BY DEF Store
<1>5. Stamped(d, ds, clock) /\ Joined(d, ds) /\ News(d, ds) /\ Names(d, ds)
  BY <1>4 DEF DInv, HeldHolds
<1>6. idle \in [phase : DigestPhases, digest : Digest]
  BY BlankTyped DEF DigestPhases
<1>7. DigestTyped'
  <2>1. Len(more) <= MaxDigests
    BY <1>3, <1>4, WindowAssumption
  <2>2. composing' \in [Digesters -> [phase : DigestPhases, digest : Digest]]
    <3> HIDE DEF idle
    <3> QED
      BY <1>4, <1>6 DEF DInv, DigestTyped
  <2> HIDE DEF more
  <2> QED
    BY <1>3, <1>4, <2>1, <2>2 DEF DigestTyped
<1> HIDE DEF more, d, ds
<1>8. \A x \in Digest : /\ Stamped(x, ds, clock) => Stamped(x, more, clock)
                        /\ Joined(x, ds) => Joined(x, more)
                        /\ Joined(x, ds) /\ News(x, ds) => News(x, more)
  <2>1. more = Append(ds, d)
    BY DEF more, ds, d
  <2> QED
    BY <1>1, <1>2, <2>1, StillRead
<1>9. StoredHolds(more, clock)
  <2> SUFFICES ASSUME NEW i \in 1..Len(more)
               PROVE  Stamped(more[i], more, clock) /\ Joined(more[i], more) /\ News(more[i], more) /\ more[i].known < i
    BY DEF StoredHolds
  <2>1. CASE i \in 1..Len(ds)
    BY <1>2, <1>3, <1>8, <2>1 DEF StoredHolds
  <2>2. CASE i = Len(ds) + 1
    <3>1. d.known < Len(ds) + 1
      BY <1>2, <1>3, <1>5 DEF Joined, Digest
    <3> QED
      BY <1>2, <1>3, <1>5, <1>8, <2>2, <3>1
  <2> QED
    BY <1>3, <2>1, <2>2
<1>10. ASSUME NEW l \in Digesters PROVE HeldHolds(composing'[l], more, clock)
  <2>1. CASE l = k
    <3>1. composing'[l].phase = "idle"
      BY <1>4, <2>1 DEF DInv, DigestTyped
    <3> QED
      BY <3>1 DEF HeldHolds
  <2>2. CASE l # k
    <3>1. composing'[l] = composing[l] /\ composing[l].digest \in Digest
      BY <1>4, <2>2 DEF DInv, DigestTyped
    <3>2. HeldHolds(composing[l], ds, clock)
      BY DEF DInv, ds
    <3>3. ASSUME composing[l].phase = "delivered" PROVE Names(composing[l].digest, more)
      <4>1. composing[l].digest.met <= Len(ds) /\ composing[l].digest.met \in Nat
        BY <3>1, <3>2, <3>3 DEF HeldHolds, Stamped, Digest
      <4> QED
        BY <1>3, <4>1 DEF Names
    <3> QED
      BY <1>8, <3>1, <3>2, <3>3 DEF HeldHolds
  <2> QED
    BY <2>1, <2>2
<1>11. ASSUME InTurn(more), NEW i \in 1..Len(more) PROVE Traced(more, i)
  <2>1. InTurn(ds) /\ d.met = Len(ds)
    BY <1>3, <1>11 DEF InTurn
  <2>2. \A m \in 1..Len(ds) : Traced(ds, m)
    BY <2>1 DEF DInv, ds
  <2>3. more = Append(ds, d)
    BY DEF more, ds, d
  <2>4. CASE i \in 1..Len(ds)
    BY <1>2, <2>2, <2>3, <2>4, TracedStill
  <2>5. CASE i = Len(ds) + 1 /\ ~d.changed
    BY <1>2, <1>5, <2>1, <2>2, <2>3, <2>5, TracedOn
  <2>6. CASE i = Len(ds) + 1 /\ d.changed
    BY <1>3, <2>6 DEF Traced
  <2> QED
    BY <1>3, <2>4, <2>5, <2>6
<1> QED
  BY <1>1, <1>4, <1>7, <1>9, <1>10, <1>11 DEF DInv

\* The ledger's own steps, and time, leave the digests as they are.
LEMMA LedgerStep ==
    ASSUME DInv, UNCHANGED digestVars, IInv', clock <= clock'
    PROVE  DInv'
<1>1. digests' = digests /\ composing' = composing
  BY DEF digestVars
<1>2. clock \in Nat /\ clock' \in Nat
  BY DEF DInv, IInv, TypeOK
<1>3. \A i \in 1..Len(digests) : digests[i] \in Digest
  BY DEF DInv, DigestTyped
<1>4. StoredHolds(digests, clock')
  BY <1>2, <1>3, StampedLater DEF DInv, StoredHolds
<1>5. ASSUME NEW l \in Digesters PROVE HeldHolds(composing[l], digests, clock')
  <2>1. HeldHolds(composing[l], digests, clock) /\ composing[l].digest \in Digest
    BY HeldTyped DEF DInv
  <2> QED
    BY <1>2, <2>1, StampedLater DEF HeldHolds
<1> QED
  BY <1>1, <1>4, <1>5 DEF DInv, DigestTyped

\* The clock never goes back.
LEMMA ClockAdvances ==
    ASSUME IInv, Next
    PROVE  clock <= clock'
<1>1. Tick \/ clock' = clock
  <2>1. ASSUME NEW c \in Collections,
               Begin(c) \/ Save(c) \/ Observe(c) \/ Write(c) \/ Finish(c) \/ SaveEnding(c) \/ Lose(c)
        PROVE  Tick \/ clock' = clock
    BY <2>1 DEF Begin, Save, Observe, Write, Finish, SaveEnding, Lose
  <2>2. ASSUME ReadBoundary \/ ChooseCutoff \/ Refuse PROVE clock' = clock
    BY <2>2 DEF ReadBoundary, ChooseCutoff, Refuse
  <2> QED
    BY <2>1, <2>2 DEF Next
<1>2. clock \in Nat
  BY DEF IInv, TypeOK
<1> QED
  BY <1>1, <1>2 DEF Tick, Now

\* Every step of Digest keeps its invariant.
LEMMA DigestNextDInv == DInv /\ [DigestNext]_allVars => DInv'
<1> SUFFICES ASSUME DInv, [DigestNext]_allVars PROVE DInv'
  OBVIOUS
<1>1. CASE \E k \in Digesters :
              StartDigest(k) \/ Continue(k) \/ Compose(k) \/ Deliver(k) \/ Store(k) \/ Abandon(k)
  BY <1>1, StartStep, ContinueStep, ComposeStep, DeliverStep, StoreStep, AbandonStep
<1>2. CASE Wait
  <2>1. IInv' /\ clock <= clock'
    BY <1>2, TickIInv, Dated DEF Wait, DInv, Tick, Now
  <2> QED
    BY <1>2, <2>1, LedgerStep DEF Wait, digestVars
<1>3. CASE Next /\ UNCHANGED digestVars
  <2>1. IInv' /\ clock <= clock'
    BY <1>3, NextIInv, ClockAdvances DEF DInv
  <2> QED
    BY <1>3, <2>1, LedgerStep
<1>4. CASE UNCHANGED allVars
  <2>1. IInv' /\ clock <= clock' /\ UNCHANGED digestVars
    BY <1>4, LedgerStays DEF allVars
  <2> QED
    BY <2>1, LedgerStep
<1> QED
  BY <1>1, <1>2, <1>3, <1>4 DEF DigestNext

\* The invariant holds in every reachable state of Digest.
THEOREM DigestInvariant == DigestSpec => []DInv
BY InitDInv, DigestNextDInv, PTL DEF DigestSpec

-----------------------------------------------------------------------------
(* The properties of the digest *)

\* Of the digests a continued digest knows, the newest.
LEMMA KnownNewest ==
    ASSUME NEW ds \in Seq(Digest), NEW d \in Digest, Joined(d, ds), d.known > 0
    PROVE  \E e \in 1..d.known :
              /\ e \in 1..Len(ds)
              /\ \A j \in 1..d.known : ds[j].until <= ds[e].until
              /\ d.from = IF d.until - ds[e].until \in 0..Limit THEN ds[e].until ELSE d.until - Window
<1>1. PICK e \in 1..d.known :
          /\ Dominates(ds, e, 1..d.known)
          /\ d.from = IF d.until - ds[e].until \in 0..Limit THEN ds[e].until ELSE d.until - Window
  BY DEF Joined
<1>2. d.known \in Nat /\ d.known <= Len(ds) /\ Len(ds) \in Nat
  BY DEF Digest, Joined
<1>3. \A i \in 1..d.known : i \in 1..Len(ds) /\ ds[i] \in Digest
  BY <1>2
<1>4. \A i \in 1..d.known : ds[i].until \in Nat
  BY <1>3 DEF Digest
<1>5. \A j \in 1..d.known : ds[j].until <= ds[e].until
  BY <1>1, <1>4 DEF Dominates
<1> QED
  BY <1>1, <1>3, <1>5

\* A digest that nothing overtook begins no earlier than any it knew ended.
LEMMA BeginsBehind ==
    ASSUME NEW ds \in Seq(Digest), NEW d \in Digest, Joined(d, ds),
           \A i \in 1..d.known : ds[i].until <= d.until,
           NEW i \in 1..d.known
    PROVE  ds[i].until <= d.from
<1>1. d.known \in Nat /\ d.until \in Nat /\ d.known > 0
  BY DEF Digest
<1>2. PICK e \in 1..d.known :
          /\ e \in 1..Len(ds)
          /\ \A j \in 1..d.known : ds[j].until <= ds[e].until
          /\ d.from = IF d.until - ds[e].until \in 0..Limit THEN ds[e].until ELSE d.until - Window
  BY <1>1, KnownNewest
<1>3. i \in 1..Len(ds)
  BY <1>1 DEF Joined
<1>4. ds[e] \in Digest /\ ds[i] \in Digest
  BY <1>2, <1>3
<1>5. ds[e].until \in Nat /\ ds[i].until \in Nat
  BY <1>4 DEF Digest
<1>6. ds[i].until <= ds[e].until /\ ds[e].until <= d.until /\ Window \in Nat
  BY <1>2, WindowAssumption
<1>7. CASE d.until - ds[e].until \in 0..Limit
  BY <1>2, <1>6, <1>7
<1>8. CASE d.until - ds[e].until \notin 0..Limit
  <2>1. d.until - ds[e].until > 2 * Window
    BY <1>1, <1>5, <1>6, <1>8 DEF Limit
  <2>2. d.from = d.until - Window
    BY <1>2, <1>8
  <2> QED
    BY <1>1, <1>5, <1>6, <2>1, <2>2
<1> QED
  BY <1>7, <1>8

\* The windows of stored digests leave nothing out between the i-th and one that
\* ended within the limit after it: of the digests that ended after the row
\* began, the first one stored continues from before it.
LEMMA NothingBetween ==
    ASSUME NEW ds \in Seq(Digest), NEW now, StoredHolds(ds, now),
           NEW n \in 0..Len(ds), NEW i \in 1..n, NEW e \in 1..n,
           \A j \in 1..n : ds[j].until > ds[i].until => ds[j].known >= i,
           NEW t \in Nat, ds[i].until <= t, t < ds[e].until,
           \A j \in 1..n : ds[j].until - ds[i].until <= Limit
    PROVE  \E j \in 1..n : ds[j].from <= t /\ t < ds[j].until
<1>0. \A j \in 1..n : /\ ds[j] \in Digest /\ Joined(ds[j], ds) /\ ds[j].known < j
                      /\ ds[j].until \in Nat /\ ds[j].known \in Nat
  <2> SUFFICES ASSUME NEW j \in 1..n
               PROVE  /\ ds[j] \in Digest /\ Joined(ds[j], ds) /\ ds[j].known < j
                      /\ ds[j].until \in Nat /\ ds[j].known \in Nat
    OBVIOUS
  <2>1. j \in 1..Len(ds)
    OBVIOUS
  <2>2. ds[j] \in Digest
    BY <2>1
  <2> QED
    BY <2>1, <2>2 DEF StoredHolds, Digest
<1> DEFINE After == {j \in 1..n : t < ds[j].until}
<1>1. PICK j \in After : \A m \in After : j <= m
  <2>1. After \subseteq Nat /\ e \in After
    OBVIOUS
  <2> HIDE DEF After
  <2> QED
    BY <2>1, Least
<1>2. j \in 1..n /\ t < ds[j].until /\ ds[j].known >= i
  <2>1. j \in 1..n /\ t < ds[j].until
    OBVIOUS
  <2>2. ds[j].until > ds[i].until
    BY <1>0, <2>1
  <2> QED
    BY <2>1, <2>2
<1>3. \A m \in 1..ds[j].known : m \in 1..n /\ ds[m].until <= t
  <2> SUFFICES ASSUME NEW m \in 1..ds[j].known PROVE m \in 1..n /\ ds[m].until <= t
    OBVIOUS
  <2>1. m \in 1..n /\ m < j
    BY <1>0, <1>2
  <2>2. m \notin After
    <3> HIDE DEF After
    <3> QED
      BY <1>1, <1>2, <2>1
  <2> QED
    BY <1>0, <2>1, <2>2
<1>4. PICK f \in 1..ds[j].known :
          /\ \A m \in 1..ds[j].known : ds[m].until <= ds[f].until
          /\ ds[j].from = IF ds[j].until - ds[f].until \in 0..Limit THEN ds[f].until ELSE ds[j].until - Window
  <2>1. ds[j].known > 0
    BY <1>0, <1>2
  <2> QED
    BY <1>0, <1>2, <2>1, KnownNewest
<1>5. /\ ds[f].until \in Nat /\ ds[j].until \in Nat /\ ds[i].until \in Nat
      /\ ds[f].until <= t /\ ds[i].until <= ds[f].until
      /\ ds[j].until - ds[i].until <= Limit
  <2>1. i \in 1..ds[j].known
    BY <1>0, <1>2
  <2> QED
    BY <1>0, <1>2, <1>3, <1>4, <2>1
<1>6. ds[j].until - ds[f].until \in 0..Limit
  BY <1>2, <1>5, WindowAssumption DEF Limit
<1> QED
  BY <1>2, <1>4, <1>5, <1>6

\* What the operator was told continues what was stored, and begins behind it
\* unless something overtook it.
LEMMA ToldHolds ==
    ASSUME DInv, NEW d \in Told, ~Overtaken(d)
    PROVE  /\ d \in Digest /\ Joined(d, digests)
           /\ d.known \in 0..Len(digests) /\ d.until \in Nat
           /\ \A i \in 1..d.known :
                  /\ i \in 1..Len(digests)
                  /\ digests[i].until \in Nat
                  /\ digests[i].until <= d.until
                  /\ digests[i].until <= d.from
<1>1. d \in Digest /\ Joined(d, digests)
  <2>1. CASE \E i \in 1..Len(digests) : d = digests[i]
    <3>1. PICK i \in 1..Len(digests) : d = digests[i]
      BY <2>1
    <3>2. digests[i] \in Digest
      BY DEF DInv, DigestTyped
    <3> QED
      BY <3>1, <3>2 DEF DInv, StoredHolds
  <2>2. CASE \E k \in Digesters : composing[k].phase = "delivered" /\ d = composing[k].digest
    BY <2>2, HeldTyped DEF DInv, HeldHolds
  <2> QED
    BY <2>1, <2>2 DEF Told
<1>2. d.known \in 0..Len(digests) /\ d.until \in Nat /\ digests \in Seq(Digest) /\ Len(digests) \in Nat
  <2>1. digests \in Seq(Digest) /\ Len(digests) \in Nat
    BY DEF DInv, DigestTyped
  <2> QED
    BY <1>1, <2>1 DEF Joined, Digest
<1>3. \A i \in 1..d.known : i \in 1..Len(digests) /\ digests[i] \in Digest
  BY <1>2
<1>4. \A i \in 1..d.known : digests[i].until \in Nat
  BY <1>3 DEF Digest
<1>5. \A i \in 1..d.known : digests[i].until <= d.until
  BY <1>2, <1>4 DEF Overtaken
<1> QED
  BY <1>1, <1>2, <1>3, <1>4, <1>5, BeginsBehind

\* Windows neither overlap nor, within the limit, leave a gap: the rows of the
\* ledger are reported once, whichever digests were lost on the way.
THEOREM WindowsAreJoined == DigestSpec => []WindowsJoin
<1>1. DInv => WindowsJoin
  <2> SUFFICES ASSUME DInv, NEW d \in Told, ~Overtaken(d)
               PROVE  /\ \A i \in 1..d.known : Counted(digests[i]) \cap Counted(d) = {}
                      /\ \A i \in 1..d.known, c \in d.seen :
                            (/\ Followed(i, d.known) /\ d.until - digests[i].until <= Limit
                             /\ digests[i].until <= collections[c].started /\ collections[c].started < d.until) =>
                                \/ c \in Counted(d)
                                \/ \E j \in 1..d.known : InWindow(c, digests[j])
    BY DEF WindowsJoin
  <2>1. /\ d \in Digest /\ Joined(d, digests)
        /\ d.known \in 0..Len(digests) /\ d.until \in Nat
        /\ \A i \in 1..d.known :
               /\ i \in 1..Len(digests)
               /\ digests[i].until \in Nat
               /\ digests[i].until <= d.until
               /\ digests[i].until <= d.from
    BY ToldHolds
  <2>2. \A c \in Collections : collections[c].started \in Nat
    BY DEF DInv, IInv, TypeOK, CollectionRow
  <2>3. d.seen \subseteq Collections /\ d.from \in Int /\ digests \in Seq(Digest) /\ StoredHolds(digests, clock)
    BY <2>1 DEF Digest, DInv, DigestTyped
  <2>4. ASSUME NEW i \in 1..d.known, NEW c \in Counted(digests[i]), c \in Counted(d) PROVE FALSE
    <3>1. c \in Collections
      BY <2>3, <2>4 DEF Counted
    <3>2. collections[c].started < digests[i].until /\ d.from <= collections[c].started
      BY <2>4 DEF Counted, InWindow
    <3> QED
      BY <2>1, <2>2, <2>3, <3>1, <3>2
  <2>5. ASSUME NEW i \in 1..d.known, NEW c \in d.seen,
               Followed(i, d.known), d.until - digests[i].until <= Limit,
               digests[i].until <= collections[c].started, collections[c].started < d.until,
               c \notin Counted(d)
        PROVE  \E j \in 1..d.known : InWindow(c, digests[j])
    <3>1. PICK e \in 1..d.known :
              /\ \A j \in 1..d.known : digests[j].until <= digests[e].until
              /\ d.from = IF d.until - digests[e].until \in 0..Limit THEN digests[e].until ELSE d.until - Window
      <4>1. d.known > 0
        BY <2>1
      <4> QED
        BY <2>1, <2>3, <4>1, KnownNewest
    <3>2. collections[c].started \in Nat
      BY <2>2, <2>3
    <3>3. d.until - digests[e].until \in 0..Limit
      <4>1. /\ digests[i].until <= digests[e].until /\ digests[e].until <= d.until
            /\ digests[i].until \in Nat /\ digests[e].until \in Nat
        BY <2>1, <3>1
      <4> QED
        BY <2>1, <2>5, <4>1, WindowAssumption DEF Limit
    <3>4. collections[c].started < digests[e].until
      BY <2>1, <2>5, <3>1, <3>2, <3>3 DEF Counted, InWindow
    <3>5. \A j \in 1..d.known : digests[j].until - digests[i].until <= Limit
      BY <2>1, <2>5, WindowAssumption DEF Limit
    <3>6. \E j \in 1..d.known : digests[j].from <= collections[c].started /\ collections[c].started < digests[j].until
      BY <2>1, <2>3, <2>5, <3>2, <3>4, <3>5, NothingBetween DEF Followed
    <3> QED
      BY <3>6 DEF InWindow
  <2> QED
    BY <2>4, <2>5
<1> QED
  BY <1>1, DigestInvariant, PTL

\* A digest that says nothing changed is right, and names the digest whose
\* change was the last.
THEOREM UnchangedIsTrue == DigestSpec => []UnchangedNamesTheChange
<1>1. DInv => UnchangedNamesTheChange
  <2> SUFFICES ASSUME DInv, \A i \in 1..Len(digests) : Alone(i), NEW i \in 1..Len(digests), ~digests[i].changed
               PROVE  \E j \in 1..(i - 1) :
                          /\ digests[j].until = digests[i].since
                          /\ digests[j].changed
                          /\ \A m \in j..i : digests[m].figures = digests[i].figures
    BY DEF UnchangedNamesTheChange
  <2>1. InTurn(digests)
    BY DEF Alone, InTurn
  <2>2. Traced(digests, i)
    BY <2>1 DEF DInv
  <2> QED
    BY <2>2 DEF Traced
<1> QED
  BY <1>1, DigestInvariant, PTL

\* The digest's own variables, and the ledger's beside it, keep their types.
THEOREM DigestTypeCorrect == DigestSpec => []DigestTypeOK
<1>1. DInv => DigestTypeOK
  BY DEF DInv, IInv, DigestTyped, DigestTypeOK
<1> QED
  BY <1>1, DigestInvariant, PTL

\* The cut-off settles in a system that composes digests too.
THEOREM SettlesBesideDigests == DigestSpec => []CutoffIsSettled
<1>1. DInv => CutoffIsSettled
  BY DEF DInv, IInv
<1> QED
  BY <1>1, DigestInvariant, PTL

\* And there too only a run saved between the two questions writes behind it.
THEOREM OnlyTheGapIsLateBesideDigests == DigestSpec => LateEvidenceIsFromTheGap
<1>1. DInv /\ [DigestNext]_allVars =>
        [\A c \in Collections : (Chosen /\ rows'[c] # rows[c]) =>
            collections[c].observed > policy.cutoff \/ c \in policy.gap]_vars
  <2> SUFFICES ASSUME DInv, [DigestNext]_allVars, NEW c \in Collections, Chosen, rows'[c] # rows[c]
               PROVE  collections[c].observed > policy.cutoff \/ c \in policy.gap
    BY DEF vars
  <2>1. Next
    BY DEF DigestNext, allVars, vars, StartDigest, Continue, Compose, Deliver, Store, Abandon, Wait
  <2> QED
    BY <2>1, LateOnlyInGap DEF DInv
<1> QED
  BY <1>1, DigestInvariant, PTL DEF DigestSpec, LateEvidenceIsFromTheGap
=============================================================================
