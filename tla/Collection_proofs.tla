-------------------------- MODULE Collection_proofs --------------------------
(***************************************************************************)
(* Proofs about Collection, for any workers, bodies, allowance and bounds. *)
(*                                                                         *)
(* The argument for the allowance: while a window lasts its counter cannot *)
(* expire, since it was created no earlier than the window began, so what  *)
(* was granted in the window is always covered by what is counted.  The    *)
(* argument for a refusal is the same with the memo in the counter's       *)
(* place.  What a run records follows from what its phase says it knows.   *)
(***************************************************************************)
EXTENDS Collection, TLAPS

\* What the collections charged for so many requests may put on the wire.
Wire(requests) == (1 + Further) * requests

\* A counter in use was created no earlier than its window began; the future is
\* ungranted; and what is granted in the window that lasts is counted by a
\* counter that outlives it.
CountersCover ==
    \A k \in Windows :
        /\ counter[k].until = Start \/ counter[k].until.window > k
        /\ granted[k] <= Wire(Calls)
        /\ k >= now.window => (granted[k] = 0 \/ (counter[k].until.window > k /\ granted[k] <= Wire(counter[k].used)))

\* A remembered refusal outlives its window.
MemosCover == \A k \in Windows : refusals[k] > 0 => memo[k].window > k

Calling == {"charging", "counting", "granted", "asking"}

Quiet == {"idle", "failing", "ending"}

\* What the phase of a run says of it.
Says(r) ==
    /\ r.at.window <= now.window
    /\ r.late => refusals[r.at.window] > 0
    /\ (r.late /\ r.phase \in Calling) => now.window > r.at.window
    /\ r.phase \notin Quiet => source \in r.seen
    /\ r.phase \in {"answered", "recorded"} => r.answer \in r.seen
    /\ r.phase = "recorded" => /\ r.wrote \in {"ok", "not_found"}
                               /\ r.answer \in Bodies => r.answer \in recorded
    /\ r.phase = "ending" => /\ r.verdict # "undeclared"
                             /\ r.verdict = "succeeded" => r.wrote \in {"ok", "not_found", "not_applicable"}
                             /\ r.verdict = "skipped" => r.wrote = "nothing"

RunsSay == \A w \in Workers : Says(runs[w])

IInv ==
    /\ TypeOK
    /\ CountersCover
    /\ MemosCover
    /\ RunsSay
    /\ RememberedWasRecorded

USE BodiesAssumption, AllowanceAssumption, BoundsAssumption

\* An idle run is well typed and says nothing.
LEMMA IdleRun ==
    /\ Idle \in Run
    /\ Idle.phase = "idle" /\ Idle.at = Start /\ Idle.late = FALSE
    /\ Start \in Instants /\ Start.window = 0
BY DEF Idle, Run, Phases, Instants, Start, Windows

\* More charged is more on the wire, in proportion.
LEMMA WireIs ==
    /\ \A a \in Nat : Wire(a) \in Nat
    /\ \A a, b \in Nat : Wire(a + b) = Wire(a) + Wire(b)
    /\ \A a, b \in Nat : a <= b => Wire(a) <= Wire(b)
<1>1. PICK f \in Nat : f = 1 + Further
  OBVIOUS
<1>2. \A a \in Nat : Wire(a) = f * a
  BY <1>1 DEF Wire
<1>3. \A a, b \in Nat : f * a \in Nat /\ f * (a + b) = f * a + f * b
  OBVIOUS
<1>4. \A a, b \in Nat : Wire(a) \in Nat /\ Wire(a + b) = Wire(a) + Wire(b)
  BY <1>2, <1>3
<1>5. ASSUME NEW a \in Nat, NEW b \in Nat, a <= b PROVE Wire(a) <= Wire(b)
  <2>1. b - a \in Nat /\ b = a + (b - a)
    BY <1>5
  <2>2. Wire(b) = Wire(a) + Wire(b - a) /\ Wire(a) \in Nat /\ Wire(b - a) \in Nat
    BY <1>4, <2>1
  <2> QED
    BY <2>2
<1> QED
  BY <1>4, <1>5

\* The initial states satisfy the invariant.
LEMMA InitIInv == Init => IInv
<1> SUFFICES ASSUME Init PROVE IInv
  OBVIOUS
<1>1. TypeOK
  BY IdleRun DEF Init, TypeOK, Instants, Start, Windows
<1>2. CountersCover /\ MemosCover
  BY IdleRun, WireIs DEF Init, CountersCover, MemosCover, Windows
<1>3. RunsSay
  BY IdleRun DEF Init, RunsSay, Says, Calling, Quiet
<1>4. RememberedWasRecorded
  BY DEF Init, RememberedWasRecorded
<1> QED
  BY <1>1, <1>2, <1>3, <1>4 DEF IInv

\* A step of one worker leaves the other runs what they were, and what they
\* know stays true.
LEMMA NextRun ==
    ASSUME IInv, NEW w \in Workers, NEW v \in Run, runs' = [runs EXCEPT ![w] = v],
           UNCHANGED world, recorded \subseteq recorded',
           \A k \in Windows : refusals[k] > 0 => refusals'[k] > 0,
           Says(v)'
    PROVE  runs' \in [Workers -> Run] /\ RunsSay'
<1>1. \A u \in Workers : runs'[u] = IF u = w THEN v ELSE runs[u]
  BY DEF IInv, TypeOK
<1>2. runs' \in [Workers -> Run]
  BY DEF IInv, TypeOK
<1>3. ASSUME NEW u \in Workers \ {w} PROVE Says(runs[u])'
  <2>1. runs'[u] = runs[u] /\ Says(runs[u]) /\ now' = now /\ source' = source
    BY <1>1 DEF IInv, RunsSay, world
  <2>2. runs[u].at.window \in Windows
    BY DEF IInv, TypeOK, Run, Instants
  <2> QED
    BY <2>1, <2>2 DEF Says
<1>4. Says(runs[w])'
  BY <1>1
<1> QED
  BY <1>2, <1>3, <1>4 DEF RunsSay

\* A closed run: its ending and what it wrote, and nothing else.
LEMMA ClosedRun ==
    ASSUME IInv, NEW w \in Workers, UNCHANGED <<world, recorded, refusals>>,
           NEW verdict \in {"succeeded", "failed", "skipped"},
           NEW wrote \in {"nothing", "ok", "not_found", "not_applicable", "error"},
           verdict = "succeeded" => wrote \in {"ok", "not_found", "not_applicable"},
           verdict = "skipped" => wrote = "nothing",
           Close(w, verdict, wrote)
    PROVE  runs' \in [Workers -> Run] /\ RunsSay'
<1>1. PICK v : v = [Idle EXCEPT !.phase = "ending", !.verdict = verdict, !.wrote = wrote]
  OBVIOUS
<1>2. verdict \in {"undeclared", "succeeded", "failed", "skipped"}
  OBVIOUS
<1>3. /\ v \in Run /\ v.at.window = 0 /\ v.late = FALSE
      /\ v.phase = "ending" /\ v.verdict = verdict /\ v.wrote = wrote
  <2>1. v = [phase |-> "ending", at |-> Start, forced |-> FALSE, late |-> FALSE, remembered |-> None,
             answer |-> None, wrote |-> wrote, verdict |-> verdict, seen |-> {}]
    BY <1>1 DEF Idle
  <2> QED
    BY <1>2, <2>1, IdleRun DEF Run, Phases
<1>4. UNCHANGED world /\ recorded \subseteq recorded' /\ \A k \in Windows : refusals[k] > 0 => refusals'[k] > 0
  OBVIOUS
<1>5. now'.window >= 0
  BY DEF IInv, TypeOK, world, Instants, Windows
<1>6. Says(v)'
  BY <1>3, <1>5 DEF Says, Calling, Quiet
<1>7. runs' = [runs EXCEPT ![w] = v]
  BY <1>1 DEF Close
<1> QED
  BY <1>3, <1>4, <1>6, <1>7, NextRun

\* An idle or failing run says nothing.
LEMMA QuietRun ==
    ASSUME IInv, NEW w \in Workers, UNCHANGED <<world, recorded>>,
           \A k \in Windows : refusals[k] > 0 => refusals'[k] > 0,
           Fail(w) \/ runs' = [runs EXCEPT ![w] = Idle]
    PROVE  runs' \in [Workers -> Run] /\ RunsSay'
<1>1. PICK v : /\ v \in {Idle, [Idle EXCEPT !.phase = "failing"]}
               /\ runs' = [runs EXCEPT ![w] = v]
  BY DEF Fail
<1>2. v \in Run /\ v.phase \in {"idle", "failing"} /\ v.late = FALSE /\ v.at.window = 0
  <2>1. CASE v = Idle
    BY <2>1, IdleRun
  <2>2. CASE v = [Idle EXCEPT !.phase = "failing"]
    <3>1. v = [phase |-> "failing", at |-> Start, forced |-> FALSE, late |-> FALSE, remembered |-> None,
               answer |-> None, wrote |-> "nothing", verdict |-> "undeclared", seen |-> {}]
      BY <2>2 DEF Idle
    <3> QED
      BY <3>1, IdleRun DEF Run, Phases
  <2> QED
    BY <1>1, <2>1, <2>2
<1>3. UNCHANGED world /\ recorded \subseteq recorded'
  OBVIOUS
<1>4. now'.window >= 0
  BY DEF IInv, TypeOK, world, Instants, Windows
<1>5. Says(v)'
  BY <1>2, <1>4 DEF Says, Calling, Quiet
<1> QED
  BY <1>1, <1>2, <1>3, <1>5, NextRun
-----------------------------------------------------------------------------
(* The steps of a collection *)

\* What a run is, spelled out.
LEMMA RunFields ==
    ASSUME IInv, NEW w \in Workers
    PROVE  /\ runs[w] \in Run /\ Says(runs[w])
           /\ runs[w].at \in Instants /\ runs[w].at.window \in Windows
           /\ now \in Instants /\ now.window \in Windows /\ Windows \subseteq Nat
<1>1. runs[w] \in Run /\ Says(runs[w]) /\ now \in Instants
  BY DEF IInv, TypeOK, RunsSay
<1>2. runs[w].at \in Instants
  BY <1>1 DEF Run
<1> QED
  BY <1>1, <1>2 DEF Instants, Windows

\* Steps that close a run, give it up or reset it, and share nothing.
LEMMA LeavingIInv ==
    ASSUME IInv, NEW w \in Workers,
           Skip(w) \/ NotApplicable(w) \/ Failed(w) \/ WriteError(w) \/ Raises(w) \/ NoAnswer(w) \/ End(w) \/ Die(w)
    PROVE  IInv'
<1>1. UNCHANGED <<world, limits, entry, recorded, count>> /\ recent' \in BOOLEAN
  BY DEF Skip, NotApplicable, Failed, WriteError, Raises, NoAnswer, End, Die, tables, IInv, TypeOK
<1>2. UNCHANGED <<world, recorded, refusals>>
  BY <1>1 DEF count
<1>3. \A k \in Windows : refusals[k] > 0 => refusals'[k] > 0
  BY <1>2
<1>4. runs' \in [Workers -> Run] /\ RunsSay'
  <2>1. CASE Skip(w)
    BY <2>1, <1>2, ClosedRun DEF Skip
  <2>2. CASE NotApplicable(w)
    BY <2>2, <1>2, ClosedRun DEF NotApplicable
  <2>3. CASE Failed(w) \/ WriteError(w)
    BY <2>3, <1>2, ClosedRun DEF Failed, WriteError
  <2>4. CASE Raises(w)
    <3>1. runs[w].wrote \in {"nothing", "ok", "not_found", "not_applicable", "error"}
      BY RunFields DEF Run
    <3> QED
      BY <2>4, <3>1, <1>2, ClosedRun DEF Raises
  <2>5. CASE NoAnswer(w)
    BY <2>5, <1>2, <1>3, QuietRun DEF NoAnswer
  <2>6. CASE End(w) \/ Die(w)
    BY <2>6, <1>2, <1>3, QuietRun DEF End, Die
  <2> QED
    BY <2>1, <2>2, <2>3, <2>4, <2>5, <2>6
<1> QED
  BY <1>1, <1>4 DEF IInv, TypeOK, world, limits, count, CountersCover, MemosCover, RememberedWasRecorded

\* Begin.
LEMMA BeginIInv == ASSUME IInv, NEW w \in Workers, Begin(w) PROVE IInv'
<1>1. UNCHANGED <<world, limits, entry, tables, granted, refusals>> /\ begun' = begun + 1
  BY DEF Begin
<1> DEFINE late == refusals[now.window] > 0
<1>0. PICK forced \in BOOLEAN :
        runs' = [runs EXCEPT ![w] = [Idle EXCEPT !.phase = "begun", !.at = now, !.forced = forced,
                                                 !.late = late, !.seen = {source}]]
  BY DEF Begin
<1>2. PICK v : /\ v = [Idle EXCEPT !.phase = "begun", !.at = now, !.forced = forced, !.late = late, !.seen = {source}]
               /\ runs' = [runs EXCEPT ![w] = v]
  BY <1>0
<1>3. late \in BOOLEAN /\ (late => refusals[now.window] > 0)
  OBVIOUS
<1> HIDE DEF late
<1>4. v = [phase |-> "begun", at |-> now, forced |-> forced, late |-> late, remembered |-> None,
           answer |-> None, wrote |-> "nothing", verdict |-> "undeclared", seen |-> {source}]
  BY <1>2 DEF Idle
<1>8. v \in Run
  BY <1>4, <1>3, RunFields DEF Run, Phases, IInv, TypeOK
<1>5. Says(v)'
  BY <1>1, <1>4, <1>3, RunFields DEF Says, Calling, Quiet, world
<1>6. UNCHANGED world /\ recorded \subseteq recorded' /\ \A k \in Windows : refusals[k] > 0 => refusals'[k] > 0
  BY <1>1 DEF tables
<1>7. runs' \in [Workers -> Run] /\ RunsSay'
  BY <1>2, <1>8, <1>5, <1>6, NextRun
<1> QED
  BY <1>1, <1>7 DEF IInv, TypeOK, world, limits, tables, CountersCover, MemosCover, RememberedWasRecorded

\* CheckRefusal: a run that is let through although a refusal was remembered
\* before it began looks when that refusal's window is over.
LEMMA CheckRefusalIInv == ASSUME IInv, NEW w \in Workers, CheckRefusal(w) PROVE IInv'
<1>1. UNCHANGED <<world, limits, entry, tables, count>>
  BY DEF CheckRefusal
<1>2. UNCHANGED world /\ recorded' = recorded /\ refusals' = refusals
  BY <1>1 DEF tables, count
<1>3. runs' \in [Workers -> Run] /\ RunsSay'
  <2>1. CASE Fail(w)
    BY <2>1, <1>2, QuietRun
  <2>2. CASE ~Fail(w)
    <3>1. PICK v : v = [runs[w] EXCEPT !.phase = "charging", !.forced = FALSE]
      OBVIOUS
    <3>2. ~Before(now, memo[runs[w].at.window]) /\ runs' = [runs EXCEPT ![w] = v]
      BY <2>2, <3>1 DEF CheckRefusal, IInv, TypeOK
    <3>3. /\ v \in Run /\ v.phase = "charging" /\ v.at = runs[w].at /\ v.late = runs[w].late
          /\ v.seen = runs[w].seen
      BY <3>1, RunFields DEF Run, Phases
    <3>4. runs[w].late => now.window > runs[w].at.window
      <4>1. runs[w].late => memo[runs[w].at.window].window > runs[w].at.window
        BY RunFields DEF IInv, MemosCover, Says
      <4>2. memo[runs[w].at.window].window \in Nat
        BY RunFields DEF IInv, TypeOK
      <4> QED
        BY <3>2, <4>1, <4>2, RunFields DEF Before
    <3>5. runs[w].phase = "begun"
      BY DEF CheckRefusal, In
    <3>6. Says(v)'
      BY <1>2, <3>3, <3>4, <3>5, RunFields DEF Says, Calling, Quiet, world
    <3> QED
      BY <1>2, <3>2, <3>3, <3>6, NextRun
  <2> QED
    BY <2>1, <2>2
<1> QED
  BY <1>1, <1>3 DEF IInv, TypeOK, world, limits, tables, count, CountersCover, MemosCover, RememberedWasRecorded

\* AddCounter: a counter is only replaced when nothing is granted on it.
LEMMA AddCounterIInv == ASSUME IInv, NEW w \in Workers, AddCounter(w) PROVE IInv'
<1> DEFINE k == runs[w].at.window
<1>1. UNCHANGED <<world, memo, entry, tables, count>>
  BY DEF AddCounter
<1>2. UNCHANGED world /\ recorded' = recorded /\ refusals' = refusals
  BY <1>1 DEF tables, count
<1>3. runs' \in [Workers -> Run] /\ RunsSay'
  <2>1. PICK v : v = [runs[w] EXCEPT !.phase = "counting"]
    OBVIOUS
  <2>2. runs' = [runs EXCEPT ![w] = v] /\ runs[w].phase = "charging"
    BY <2>1 DEF AddCounter, In, IInv, TypeOK
  <2>3. /\ v \in Run /\ v.phase = "counting" /\ v.at = runs[w].at /\ v.late = runs[w].late
        /\ v.seen = runs[w].seen
    BY <2>1, RunFields DEF Run, Phases
  <2>4. Says(v)'
    BY <1>2, <2>2, <2>3, RunFields DEF Says, Calling, Quiet, world
  <2> QED
    BY <1>2, <2>2, <2>3, <2>4, NextRun
<1>4. /\ OneWindowOn \in [window : Nat, tick : 0..Ticks - 1] /\ OneWindowOn.window = now.window + 1
      /\ k \in Windows /\ k <= now.window
  BY RunFields DEF OneWindowOn, Instants, Says
<1>5. counter' = [counter EXCEPT ![k] = IF Counting(k) THEN counter[k] ELSE [used |-> 0, until |-> OneWindowOn]]
  BY DEF AddCounter
<1>6. counter' \in [Windows -> [used : Nat, until : [window : Nat, tick : 0..Ticks - 1]]]
  BY <1>4, <1>5 DEF IInv, TypeOK
<1>7. CountersCover'
  <2>1. ASSUME NEW j \in Windows, j # k \/ Counting(k)
        PROVE  counter'[j] = counter[j]
    BY <1>5, <2>1, <1>4 DEF IInv, TypeOK
  <2>2. ASSUME ~Counting(k)
        PROVE  /\ counter'[k].until.window > k /\ counter'[k].used = 0
               /\ k >= now.window => granted[k] = 0
    <3>1. counter'[k] = [used |-> 0, until |-> OneWindowOn]
      BY <1>4, <1>5, <2>2 DEF IInv, TypeOK
    <3>2. counter[k].until.window \in Nat
      BY <1>4 DEF IInv, TypeOK
    <3>3. counter[k].until.window <= now.window
      BY <2>2, <3>2, RunFields DEF Counting, Before
    <3> QED
      BY <1>4, <3>1, <3>2, <3>3, RunFields DEF IInv, CountersCover
  <2> QED
    BY <1>1, <1>4, <2>1, <2>2, RunFields DEF IInv, CountersCover, world, count
<1> QED
  BY <1>1, <1>3, <1>6, <1>7 DEF IInv, TypeOK, world, tables, count, MemosCover, RememberedWasRecorded

\* Charge: what it grants, it has counted.
LEMMA ChargeIInv == ASSUME IInv, NEW w \in Workers, Charge(w) PROVE IInv'
<1> DEFINE k    == runs[w].at.window
           base == IF Counting(k) THEN counter[k].used ELSE 0
           used == base + RequestCost
           fits == used <= Calls
           till == IF Counting(k) THEN counter[k].until ELSE OneWindowOn
<1>1. UNCHANGED <<world, memo, entry, tables, begun, refusals>>
  BY DEF Charge
<1>2. UNCHANGED world /\ recorded' = recorded /\ refusals' = refusals
  BY <1>1 DEF tables
<1>3. runs' \in [Workers -> Run] /\ RunsSay'
  <2>1. CASE Fail(w)
    BY <2>1, <1>2, QuietRun
  <2>2. CASE ~Fail(w)
    <3>1. PICK v : v = [runs[w] EXCEPT !.phase = "granted"]
      OBVIOUS
    <3>2. runs' = [runs EXCEPT ![w] = v] /\ runs[w].phase = "counting"
      BY <2>2, <3>1 DEF Charge, In, IInv, TypeOK
    <3>3. /\ v \in Run /\ v.phase = "granted" /\ v.at = runs[w].at /\ v.late = runs[w].late
          /\ v.seen = runs[w].seen
      BY <3>1, RunFields DEF Run, Phases
    <3>4. Says(v)'
      BY <1>2, <3>2, <3>3, RunFields DEF Says, Calling, Quiet, world
    <3> QED
      BY <1>2, <3>2, <3>3, <3>4, NextRun
  <2> QED
    BY <2>1, <2>2
<1>4. /\ OneWindowOn \in [window : Nat, tick : 0..Ticks - 1] /\ OneWindowOn.window = now.window + 1
      /\ k \in Windows /\ k <= now.window
  BY RunFields DEF OneWindowOn, Instants, Says
<1>5. counter[k] \in [used : Nat, until : [window : Nat, tick : 0..Ticks - 1]] /\ granted[k] \in Nat
  BY <1>4 DEF IInv, TypeOK
<1>6. base \in Nat /\ till \in [window : Nat, tick : 0..Ticks - 1] /\ till.window > k
  <2>1. CASE Counting(k)
    <3>1. counter[k].until # Start
      BY <2>1, RunFields DEF Counting, Before, Start, Instants
    <3> QED
      BY <2>1, <3>1, <1>4, <1>5 DEF IInv, CountersCover
  <2>2. CASE ~Counting(k)
    BY <2>2, <1>4, RunFields
  <2> QED
    BY <2>1, <2>2
<1>7. RequestCost \in Nat /\ WorstCase = Wire(RequestCost) /\ used \in Nat
  BY <1>6 DEF RequestCost, WorstCase, Wire
<1>8. /\ Wire(base) \in Nat /\ Wire(RequestCost) \in Nat
      /\ Wire(used) = Wire(base) + Wire(RequestCost) /\ Wire(base) <= Wire(used)
      /\ fits => Wire(used) <= Wire(Calls)
  <2> HIDE DEF base
  <2>1. PICK before \in Nat : before = base
    BY <1>6
  <2>2. PICK cost \in Nat : cost = RequestCost
    BY <1>7
  <2>3. before + cost \in Nat /\ before <= before + cost
    OBVIOUS
  <2>4. /\ Wire(before) \in Nat /\ Wire(cost) \in Nat /\ Wire(before + cost) = Wire(before) + Wire(cost)
        /\ Wire(before) <= Wire(before + cost)
    BY <2>3, WireIs
  <2>5. before + cost <= Calls => Wire(before + cost) <= Wire(Calls)
    BY <2>3, WireIs
  <2> QED
    BY <2>1, <2>2, <2>4, <2>5
<1>16. k = now.window => granted[k] <= Wire(base)
  <2>1. ASSUME k = now.window, granted[k] # 0 PROVE Counting(k) /\ granted[k] <= Wire(counter[k].used)
    BY <2>1, <1>4, <1>5, RunFields DEF IInv, CountersCover, Counting, Before
  <2> QED
    BY <1>5, <1>8, <2>1
<1>9. /\ counter' = [counter EXCEPT ![k] = [used |-> used, until |-> till]]
      /\ granted' = [granted EXCEPT ![k] = IF fits /\ k = now.window THEN granted[k] + WorstCase ELSE granted[k]]
  BY DEF Charge, Counting
<1>10. /\ counter'[k].used = used /\ counter'[k].until.window > k
       /\ \A j \in Windows \ {k} : counter'[j] = counter[j] /\ granted'[j] = granted[j]
       /\ granted'[k] = IF fits /\ k = now.window THEN granted[k] + WorstCase ELSE granted[k]
  BY <1>4, <1>6, <1>9 DEF IInv, TypeOK
<1>11. /\ counter' \in [Windows -> [used : Nat, until : [window : Nat, tick : 0..Ticks - 1]]]
       /\ granted' \in [Windows -> Nat]
  BY <1>4, <1>5, <1>6, <1>7, <1>8, <1>9 DEF IInv, TypeOK
<1> HIDE DEF base, till, used
<1>12. granted'[k] <= Wire(Calls) /\ (k >= now.window => granted'[k] = 0 \/ granted'[k] <= Wire(used))
  <2>1. CASE fits /\ k = now.window
    <3>1. granted'[k] = granted[k] + Wire(RequestCost) /\ granted[k] <= Wire(base)
      BY <2>1, <1>7, <1>10, <1>16
    <3>2. granted'[k] <= Wire(used)
      BY <3>1, <1>5, <1>8
    <3>3. Wire(Calls) \in Nat
      BY WireIs
    <3>4. Wire(used) \in Nat /\ Wire(used) <= Wire(Calls)
      BY <2>1, <1>8
    <3>5. granted'[k] \in Nat
      BY <3>1, <1>5, <1>8
    <3> QED
      BY <3>2, <3>3, <3>4, <3>5
  <2>2. CASE ~(fits /\ k = now.window)
    <3>1. granted'[k] = granted[k] /\ granted[k] <= Wire(Calls)
      BY <2>2, <1>4, <1>10 DEF IInv, CountersCover
    <3>2. k >= now.window => k = now.window
      BY <1>4, RunFields
    <3>3. k = now.window => granted[k] <= Wire(used)
      BY <1>5, <1>8, <1>16
    <3> QED
      BY <3>1, <3>2, <3>3
  <2> QED
    BY <2>1, <2>2
<1>13. CountersCover'
  <2>1. now' = now
    BY <1>1 DEF world
  <2> HIDE DEF k, used, fits
  <2> QED
    BY <1>10, <1>12, <2>1 DEF IInv, CountersCover
<1> QED
  BY <1>1, <1>3, <1>11, <1>13 DEF IInv, TypeOK, world, tables, MemosCover, RememberedWasRecorded

\* ReadCache, Unauthorized, Served and NotModified: the run alone moves on.
LEMMA AskingIInv ==
    ASSUME IInv, NEW w \in Workers, ReadCache(w) \/ Unauthorized(w) \/ Served(w) \/ NotModified(w)
    PROVE  IInv'
<1>1. UNCHANGED <<world, limits, entry, tables, count>>
  BY DEF ReadCache, Unauthorized, Served, NotModified
<1>2. UNCHANGED world /\ recorded' = recorded /\ refusals' = refusals
  BY <1>1 DEF tables, count
<1>3. source \in Bodies \cup {Gone} /\ entry \in Bodies \cup {None}
  BY DEF IInv, TypeOK
<1>4. runs' \in [Workers -> Run] /\ RunsSay'
  <2>1. PICK v : /\ runs' = [runs EXCEPT ![w] = v]
                 /\ \/ v = [runs[w] EXCEPT !.phase = "asking", !.remembered = entry] /\ runs[w].phase = "granted"
                    \/ v = [runs[w] EXCEPT !.phase = "refused"] /\ runs[w].phase = "asking"
                    \/ /\ v = [runs[w] EXCEPT !.phase = "answered", !.answer = source, !.remembered = None]
                       /\ runs[w].phase = "asking"
    <3>1. CASE ReadCache(w)
      BY <3>1 DEF ReadCache, In, IInv, TypeOK
    <3>2. CASE Unauthorized(w)
      BY <3>2 DEF Unauthorized, In, IInv, TypeOK
    <3>3. CASE Served(w) \/ NotModified(w)
      BY <3>3 DEF Served, NotModified, Replayed, In, IInv, TypeOK
    <3> QED
      BY <3>1, <3>2, <3>3
  <2>2. /\ v \in Run /\ v.at = runs[w].at /\ v.late = runs[w].late /\ v.seen = runs[w].seen
        /\ \/ v.phase = "asking" /\ runs[w].phase = "granted"
           \/ v.phase = "refused" /\ runs[w].phase = "asking"
           \/ v.phase = "answered" /\ runs[w].phase = "asking" /\ v.answer = source
    BY <1>3, <2>1, RunFields DEF Run, Phases
  <2>3. Says(v)'
    BY <1>2, <2>2, RunFields DEF Says, Calling, Quiet, world
  <2> QED
    BY <1>2, <2>1, <2>2, <2>3, NextRun
<1> QED
  BY <1>1, <1>4 DEF IInv, TypeOK, world, limits, tables, count, CountersCover, MemosCover, RememberedWasRecorded

\* RememberRefusal.
LEMMA RememberRefusalIInv == ASSUME IInv, NEW w \in Workers, RememberRefusal(w) PROVE IInv'
<1> DEFINE k == runs[w].at.window
<1>1. UNCHANGED <<world, counter, entry, tables, begun, granted>> /\ Fail(w)
  BY DEF RememberRefusal
<1>2. /\ OneWindowOn \in [window : Nat, tick : 0..Ticks - 1] /\ OneWindowOn.window = now.window + 1
      /\ k \in Windows /\ k <= now.window
  BY RunFields DEF OneWindowOn, Instants, Says
<1>3. /\ memo' = [memo EXCEPT ![k] = OneWindowOn]
      /\ refusals' = [refusals EXCEPT ![k] = refusals[k] + 1]
  BY DEF RememberRefusal
<1>4. /\ memo' \in [Windows -> [window : Nat, tick : 0..Ticks - 1]]
      /\ refusals' \in [Windows -> Nat]
      /\ \A j \in Windows : refusals[j] > 0 => refusals'[j] > 0
  BY <1>2, <1>3 DEF IInv, TypeOK
<1>5. runs' \in [Workers -> Run] /\ RunsSay'
  <2>1. UNCHANGED <<world, recorded>>
    BY <1>1 DEF tables
  <2> QED
    BY <1>1, <1>4, <2>1, QuietRun
<1>6. MemosCover'
  <2>1. memo'[k].window > k
    BY <1>2, <1>3, RunFields DEF IInv, TypeOK
  <2>2. \A j \in Windows \ {k} : memo'[j] = memo[j] /\ refusals'[j] = refusals[j]
    BY <1>3 DEF IInv, TypeOK
  <2> QED
    BY <2>1, <2>2 DEF IInv, MemosCover
<1> QED
  BY <1>1, <1>4, <1>5, <1>6 DEF IInv, TypeOK, world, tables, CountersCover, RememberedWasRecorded

\* WriteEvidence.
LEMMA WriteEvidenceIInv == ASSUME IInv, NEW w \in Workers, WriteEvidence(w) PROVE IInv'
<1> DEFINE answer == runs[w].answer
<1>1. /\ UNCHANGED <<world, limits, entry, recent, count>> /\ runs[w].phase = "answered"
      /\ recorded' = recorded \cup ({answer} \cap Bodies)
  BY DEF WriteEvidence, In
<1>2. UNCHANGED world /\ recorded \subseteq recorded' /\ refusals' = refusals /\ now' = now /\ source' = source
  BY <1>1 DEF count, world
<1>3. runs' \in [Workers -> Run] /\ RunsSay'
  <2> DEFINE wrote == IF answer = Gone THEN "not_found" ELSE "ok"
  <2>1. PICK v : v = [runs[w] EXCEPT !.phase = "recorded", !.wrote = wrote]
    OBVIOUS
  <2>2. runs' = [runs EXCEPT ![w] = v]
    BY <2>1 DEF WriteEvidence, IInv, TypeOK
  <2>3. wrote \in {"ok", "not_found"}
    OBVIOUS
  <2> HIDE DEF wrote
  <2>4. /\ v \in Run /\ v.phase = "recorded" /\ v.at = runs[w].at /\ v.late = runs[w].late
        /\ v.seen = runs[w].seen /\ v.answer = runs[w].answer /\ v.wrote = wrote
    BY <2>1, <2>3, RunFields DEF Run, Phases
  <2>5. Says(v)'
    BY <1>1, <1>2, <2>3, <2>4, RunFields DEF Says, Calling, Quiet
  <2> QED
    BY <1>2, <2>2, <2>4, <2>5, NextRun
<1>4. recorded' \subseteq Bodies
  BY <1>1 DEF IInv, TypeOK
<1> QED
  BY <1>1, <1>3, <1>4 DEF IInv, TypeOK, world, limits, count, CountersCover, MemosCover, RememberedWasRecorded

\* Remember: what is remembered has its row.
LEMMA RememberIInv == ASSUME IInv, NEW w \in Workers, Remember(w) PROVE IInv'
<1>1. UNCHANGED <<world, limits, tables, count>> /\ runs[w].phase = "recorded" /\ Close(w, "succeeded", runs[w].wrote)
  BY DEF Remember, In
<1>2. runs' \in [Workers -> Run] /\ RunsSay'
  <2>1. runs[w].wrote \in {"ok", "not_found"}
    BY <1>1, RunFields DEF Says
  <2>2. UNCHANGED <<world, recorded, refusals>>
    BY <1>1 DEF tables, count
  <2> QED
    BY <1>1, <2>1, <2>2, ClosedRun
<1>3. entry' \in Bodies \cup {None} /\ entry' \in recorded \cup {None}
  <2>1. runs[w].answer \in Bodies \cup {Gone} /\ (runs[w].answer \in Bodies => runs[w].answer \in recorded)
    BY <1>1, RunFields DEF Says, Run
  <2> QED
    BY <2>1 DEF Remember, IInv, TypeOK, RememberedWasRecorded
<1> QED
  BY <1>1, <1>2, <1>3 DEF IInv, TypeOK, world, limits, tables, count, CountersCover, MemosCover, RememberedWasRecorded
-----------------------------------------------------------------------------
(* Everything else *)

\* Time passes: what was said of a window that is over is not asked again.
LEMMA TickIInv == ASSUME IInv, Tick PROVE IInv'
<1>1. UNCHANGED <<source, limits, entry, tables, runs, count>>
  BY DEF Tick
<1>2. now' \in Instants /\ now'.window >= now.window
  <2>1. now \in Instants /\ now.window \in Nat /\ now.tick \in 0..Ticks - 1
    BY DEF IInv, TypeOK, Instants, Windows
  <2>2. CASE now.tick < Ticks - 1
    <3>1. now' = [now EXCEPT !.tick = now.tick + 1]
      BY <2>2 DEF Tick
    <3> QED
      BY <2>1, <2>2, <3>1 DEF Instants
  <2>3. CASE ~(now.tick < Ticks - 1)
    <3>1. now' = [window |-> now.window + 1, tick |-> 0] /\ now'.window <= MaxWindow
      BY <2>3 DEF Tick
    <3> QED
      BY <2>1, <3>1 DEF Instants, Windows
  <2> QED
    BY <2>2, <2>3
<1>3. now.window \in Nat /\ now'.window \in Nat
  BY <1>2 DEF IInv, TypeOK, Instants, Windows
<1>4. RunsSay'
  <2> SUFFICES ASSUME NEW w \in Workers PROVE Says(runs[w])'
    BY DEF RunsSay
  <2>1. Says(runs[w]) /\ runs[w].at.window \in Nat
    BY RunFields
  <2> QED
    BY <1>1, <1>2, <1>3, <2>1 DEF Says, tables, count
<1>5. CountersCover'
  <2> SUFFICES ASSUME NEW k \in Windows
               PROVE  /\ counter[k].until = Start \/ counter[k].until.window > k
                      /\ granted[k] <= Wire(Calls)
                      /\ k >= now'.window =>
                           (granted[k] = 0 \/ (counter[k].until.window > k /\ granted[k] <= Wire(counter[k].used)))
    BY <1>1 DEF CountersCover, limits, count
  <2>1. k >= now'.window => k >= now.window
    BY <1>2, <1>3 DEF Windows
  <2> QED
    BY <2>1 DEF IInv, CountersCover
<1> QED
  BY <1>1, <1>2, <1>4, <1>5 DEF IInv, TypeOK, limits, tables, count, MemosCover, RememberedWasRecorded

\* The source changes under the collections that are under way.
LEMMA PublishIInv == ASSUME IInv, Publish PROVE IInv'
<1>1. UNCHANGED <<now, limits, entry, tables, count>>
  BY DEF Publish
<1>2. PICK content \in (Bodies \cup {Gone}) \ {source} :
        /\ source' = content
        /\ runs' = [w \in Workers |-> IF runs[w].phase \in {"idle", "failing", "ending"} THEN runs[w]
                                      ELSE [runs[w] EXCEPT !.seen = runs[w].seen \cup {content}]]
  BY DEF Publish
<1>3. ASSUME NEW w \in Workers PROVE runs'[w] \in Run /\ Says(runs[w])'
  <2>1. CASE runs[w].phase \in Quiet
    <3>1. runs'[w] = runs[w]
      BY <1>2, <2>1 DEF Quiet
    <3> QED
      BY <1>1, <2>1, <3>1, RunFields DEF Says, Quiet, tables, count
  <2>2. CASE runs[w].phase \notin Quiet
    <3>1. PICK v : v = [runs[w] EXCEPT !.seen = runs[w].seen \cup {content}]
      OBVIOUS
    <3>2. runs'[w] = v
      BY <1>2, <2>2, <3>1 DEF Quiet
    <3>3. /\ v \in Run /\ v.phase = runs[w].phase /\ v.at = runs[w].at /\ v.late = runs[w].late
          /\ v.answer = runs[w].answer /\ v.wrote = runs[w].wrote /\ v.seen = runs[w].seen \cup {content}
      BY <3>1, RunFields DEF Run
    <3>4. now' = now /\ recorded' = recorded /\ refusals' = refusals /\ source' = content
      BY <1>1, <1>2 DEF tables, count
    <3>5. Says(v)'
      BY <2>2, <3>3, <3>4, RunFields DEF Says, Quiet
    <3> QED
      BY <3>2, <3>3, <3>5
  <2> QED
    BY <2>1, <2>2
<1>4. runs' \in [Workers -> Run]
  BY <1>2, <1>3
<1>5. RunsSay'
  BY <1>3 DEF RunsSay
<1> QED
  BY <1>1, <1>2, <1>4, <1>5 DEF IInv, TypeOK, limits, tables, count, CountersCover, MemosCover, RememberedWasRecorded

\* Every step preserves the invariant.
LEMMA NextIInv == IInv /\ [Next]_vars => IInv'
<1> SUFFICES ASSUME IInv, [Next]_vars PROVE IInv'
  OBVIOUS
<1>1. ASSUME NEW w \in Workers, Ask(w) \/ Answer(w) \/ Record(w) PROVE IInv'
  BY <1>1, LeavingIInv, BeginIInv, CheckRefusalIInv, AddCounterIInv, ChargeIInv, AskingIInv, RememberRefusalIInv,
     WriteEvidenceIInv, RememberIInv
     DEF Ask, Answer, Record
<1>2. CASE Tick
  BY <1>2, TickIInv
<1>3. CASE Publish
  BY <1>3, PublishIInv
<1>4. CASE Lapse \/ Evict \/ UNCHANGED vars
  <2>1. UNCHANGED <<world, limits, recorded, runs, count>> /\ recent' \in BOOLEAN /\ entry' \in {entry, None}
    BY <1>4 DEF Lapse, Evict, vars, tables, IInv, TypeOK
  <2>2. RunsSay'
    BY <2>1 DEF IInv, RunsSay, Says, world, count
  <2> QED
    BY <2>1, <2>2 DEF IInv, TypeOK, world, limits, count, CountersCover, MemosCover, RememberedWasRecorded
<1> QED
  BY <1>1, <1>2, <1>3, <1>4 DEF Next

LEMMA Invariant == Spec => []IInv
BY InitIInv, NextIInv, PTL DEF Spec

-----------------------------------------------------------------------------
(* What follows *)

\* The collections granted while a window lasts fit its allowance, whoever races
\* to create its counter, and what they put on the wire exceeds it only by the
\* further calls they are not charged for: acquire of core/rate_limit.py,
\* _recipe_instead of collectors/feedstock.py.
THEOREM Allowance == Spec => []AllowanceHolds
<1>1. IInv => AllowanceHolds
  BY DEF IInv, CountersCover, AllowanceHolds, Wire
<1> QED
  BY <1>1, Invariant, PTL

\* A collection that begins after a refusal was remembered in its window makes
\* no call while the window lasts: _credential_refused_earlier of
\* core/collection.py.
THEOREM RefusalIsHeeded == Spec => []NoCallOnceRefused
<1>1. IInv => NoCallOnceRefused
  BY DEF IInv, RunsSay, Says, Calling, NoCallOnceRefused
<1> QED
  BY <1>1, Invariant, PTL

\* What a run records is what the source served since the instant it carries:
\* _replayed of core/collection.py hands on the entry its own request named.
THEOREM Current == Spec => []EvidenceIsCurrent
<1>1. IInv => EvidenceIsCurrent
  BY DEF IInv, RunsSay, Says, EvidenceIsCurrent
<1> QED
  BY <1>1, Invariant, PTL

\* A remembered response has its row: _remember is the last step of collect.
THEOREM Remembered == Spec => []RememberedWasRecorded
<1>1. IInv => RememberedWasRecorded
  BY DEF IInv
<1> QED
  BY <1>1, Invariant, PTL

\* The ledger's ending agrees with what was written: the declared verdicts of
\* collect and _write_ending of core/ledger.py.
THEOREM Endings == Spec => []EndingMatchesEvidence
<1>1. IInv => EndingMatchesEvidence
  BY DEF IInv, RunsSay, Says, EndingMatchesEvidence, Ended, In
<1> QED
  BY <1>1, Invariant, PTL

\* The variables keep their types.
THEOREM TypeCorrect == Spec => []TypeOK
<1>1. IInv => TypeOK
  BY DEF IInv
<1> QED
  BY <1>1, Invariant, PTL
=============================================================================
