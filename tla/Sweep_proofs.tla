---------------------------- MODULE Sweep_proofs ----------------------------
(***************************************************************************)
(* Proofs about Sweep, for any collectors, packages, workers and people,   *)
(* and about the hand-over of background jobs, for any jobs, workers and   *)
(* redeliveries.                                                           *)
(*                                                                         *)
(* The argument: a dispatch gets clear of its query only while no other of *)
(* its collector has a row, and whatever opens later finds its row; a      *)
(* press is accepted only while no other of its package waits, and waiting *)
(* never begins again; a message exists only for a request that got as far *)
(* as its commit, and from there its row is never absent again.            *)
(***************************************************************************)
EXTENDS Sweep, BackgroundJobs, TLAPS

\* A recollection and a run are of some package.
Named ==
    /\ \A u \in Pressers : presses[u].package \in Packages \/ presses[u] = NoPress
    /\ \A w \in Workers : runs[w].package \in Packages \/ runs[w] = NoRun

IInv == TypeOK /\ Named

USE SelectionAssumption, BoundsAssumption

\* One recollection is replaced by another of the same package, or forgotten.
LEMMA OnePressChanges ==
    ASSUME IInv, NEW u \in Pressers, NEW press \in Press,
           press.package \in Packages \/ press = NoPress,
           presses' = [presses EXCEPT ![u] = press]
    PROVE  /\ presses' \in [Pressers -> Press]
           /\ \A v \in Pressers : presses'[v].package \in Packages \/ presses'[v] = NoPress
BY DEF IInv, TypeOK, Named

\* So is one worker's run.
LEMMA OneRunChanges ==
    ASSUME IInv, NEW w \in Workers, NEW run \in Run,
           run.package \in Packages \/ run = NoRun,
           runs' = [runs EXCEPT ![w] = run]
    PROVE  /\ runs' \in [Workers -> Run]
           /\ \A v \in Workers : runs'[v].package \in Packages \/ runs'[v] = NoRun
BY DEF IInv, TypeOK, Named

\* A recollection nobody has made is a recollection, and a run of nothing is a
\* run.
LEMMA Nothings == NoPress \in Press /\ NoRun \in Run /\ NoDispatch \in Dispatch
BY DEF NoPress, Press, NoRun, Run, NoDispatch, Dispatch

\* Where nothing is awaited, taking something from it changes nothing.
LEMMA NothingTaken ==
    ASSUME NEW S, S = {}
    PROVE  [NoRun EXCEPT !.answers = S] = NoRun /\ [NoPress EXCEPT !.awaiting = S] = NoPress
<1>1. [NoRun EXCEPT !.answers = S] = NoRun
  BY DEF NoRun
<1>2. [NoPress EXCEPT !.awaiting = S] = NoPress
  <2>1. \A press \in Press : [press EXCEPT !.awaiting = press.awaiting] = press
    BY DEF Press
  <2>2. S = NoPress.awaiting
    BY DEF NoPress
  <2> QED
    BY <2>1, <2>2, NoPress \in Press DEF NoPress, Press
<1> QED
  BY <1>1, <1>2

\* Runs forget a recollection that is gone.
LEMMA AnswersForgotten ==
    ASSUME IInv, NEW u \in Pressers,
           runs' = [w \in Workers |-> [runs[w] EXCEPT !.answers = @ \ {u}]]
    PROVE  /\ runs' \in [Workers -> Run]
           /\ \A w \in Workers : runs'[w].package \in Packages \/ runs'[w] = NoRun
<1>1. [NoRun EXCEPT !.answers = @ \ {u}] = NoRun
  <2>1. NoRun.answers \ {u} = {}
    BY DEF NoRun
  <2> QED
    BY <2>1, NothingTaken
<1>2. \A w \in Workers : runs'[w] \in Run /\ runs'[w].package = runs[w].package
  BY DEF IInv, TypeOK, Run
<1>3. runs' \in [Workers -> Run]
  BY <1>2
<1> QED
  BY <1>1, <1>2, <1>3 DEF IInv, Named

\* Nothing goes on yet.
LEMMA InitIInv == Init => IInv
BY Nothings DEF Init, IInv, TypeOK, Named

\* What a dispatch, the schedule and the broker do touches the dispatches, their
\* messages and the rows of killed ones only.
LEMMA DispatchTypes ==
    ASSUME IInv,
           \/ \E c \in Collectors : OpenScheduled(c) \/ OpenOther(c) \/ PurgeAbandoned(c)
           \/ \E d \in Dispatches : DispatchStep(d) \/ RefuseOffer(d) \/ Interrupt(d) \/ KillDispatch(d)
           \/ \E c \in Collectors, p \in Packages : ExpireOffer(c, p)
    PROVE  IInv'
<1> USE Nothings DEF IInv, TypeOK, Named
<1>1. ASSUME NEW c \in Collectors, OpenScheduled(c) \/ OpenOther(c) PROVE IInv'
  <2>1. PICK d \in Dispatches : Open(d)
    BY <1>1 DEF OpenScheduled, OpenOther, Dispatches
  <2>2. dispatches' \in [Dispatches -> Dispatch]
    BY <2>1 DEF Open, Dispatch
  <2>3. extra' \in 0..MaxExtra
    BY <1>1 DEF OpenScheduled, OpenOther, Open
  <2> QED
    BY <1>1, <2>2, <2>3 DEF OpenScheduled, OpenOther, Open
<1>2. ASSUME NEW c \in Collectors, PurgeAbandoned(c) PROVE IInv'
  BY <1>2 DEF PurgeAbandoned
<1>3. ASSUME NEW d \in Dispatches, SkipDispatch(d) \/ EndDispatch(d) PROVE IInv'
  BY <1>3 DEF SkipDispatch, EndDispatch
<1>4. ASSUME NEW d \in Dispatches, EnterDispatch(d) PROVE IInv'
  <2>1. [phase |-> "clear", todo |-> Selection[d[1]]] \in Dispatch
    BY DEF Dispatches, Dispatch
  <2> QED
    BY <1>4, <2>1 DEF EnterDispatch
<1>5. ASSUME NEW d \in Dispatches, Enqueue(d) PROVE IInv'
  <2>1. PICK p \in dispatches[d].todo :
            /\ dispatches' = [dispatches EXCEPT ![d] = [phase |-> "enqueuing", todo |-> @.todo \ {p}]]
            /\ offers' = [offers EXCEPT ![d[1]][p] = IF @ < MaxOffers THEN @ + 1 ELSE @]
    BY <1>5 DEF Enqueue
  <2>2. d[1] \in Collectors /\ p \in Packages
    BY DEF Dispatches, Dispatch
  <2>3. (IF offers[d[1]][p] < MaxOffers THEN offers[d[1]][p] + 1 ELSE offers[d[1]][p]) \in 0..MaxOffers
    BY <2>2
  <2>4. offers' \in [Collectors -> [Packages -> 0..MaxOffers]]
    BY <2>1, <2>2, <2>3
  <2>5. dispatches' \in [Dispatches -> Dispatch]
    BY <2>1 DEF Dispatch
  <2> QED
    BY <1>5, <2>4, <2>5 DEF Enqueue
<1>6. ASSUME NEW d \in Dispatches, RefuseOffer(d) \/ Interrupt(d) \/ KillDispatch(d) PROVE IInv'
  <2>1. faults' \in 0..MaxFaults
    BY <1>6 DEF RefuseOffer, Interrupt, KillDispatch, Fault
  <2>2. abandoned' \subseteq Collectors
    BY <1>6 DEF RefuseOffer, Interrupt, KillDispatch, Dispatches
  <2>3. dispatches' \in [Dispatches -> Dispatch]
    <3>1. CASE RefuseOffer(d)
      BY <3>1 DEF RefuseOffer, Dispatch
    <3>2. CASE Interrupt(d) \/ KillDispatch(d)
      BY <3>2 DEF Interrupt, KillDispatch
    <3> QED
      BY <1>6, <3>1, <3>2
  <2> QED
    BY <1>6, <2>1, <2>2, <2>3 DEF RefuseOffer, Interrupt, KillDispatch
<1>7. ASSUME NEW c \in Collectors, NEW p \in Packages, ExpireOffer(c, p) PROVE IInv'
  <2>1. offers' \in [Collectors -> [Packages -> 0..MaxOffers]]
    BY <1>7 DEF ExpireOffer
  <2> QED
    BY <1>7, <2>1 DEF ExpireOffer
<1> QED
  BY <1>1, <1>2, <1>3, <1>4, <1>5, <1>6, <1>7 DEF DispatchStep

\* What a worker does and what becomes of its row.
LEMMA RunTypes ==
    ASSUME IInv,
           \/ \E c \in Collectors, p \in Packages, w \in Workers : TakeOffer(w, c, p)
           \/ \E u \in Pressers, c \in Collectors, w \in Workers : TakeTicket(w, u, c)
           \/ \E w \in Workers : EndRun(w) \/ KillRun(w)
           \/ \E p \in Packages : AgeLost(p)
    PROVE  IInv'
<1> USE Nothings DEF IInv, TypeOK, Named
<1>1. ASSUME NEW c \in Collectors, NEW p \in Packages, NEW w \in Workers, TakeOffer(w, c, p) PROVE IInv'
  <2> DEFINE run == [collector |-> c, package |-> p, answers |-> Asked(p)]
  <2>1. offers' \in [Collectors -> [Packages -> 0..MaxOffers]]
    BY <1>1 DEF TakeOffer
  <2>2. run \in Run /\ run.package \in Packages
    BY DEF Asked, Run
  <2>3. runs' = [runs EXCEPT ![w] = run]
    BY <1>1 DEF TakeOffer
  <2> HIDE DEF run
  <2> QED
    BY <1>1, <2>1, <2>2, <2>3, OneRunChanges DEF TakeOffer
<1>2. ASSUME NEW u \in Pressers, NEW c \in Collectors, NEW w \in Workers, TakeTicket(w, u, c) PROVE IInv'
  <2> DEFINE run == [collector |-> c, package |-> presses[u].package, answers |-> Asked(presses[u].package)]
             press == [presses[u] EXCEPT !.tickets = @ \ {c}]
  <2>1. presses[u].package \in Packages
    BY <1>2 DEF TakeTicket, NoPress
  <2>2. run \in Run /\ run.package \in Packages
    BY <2>1 DEF Asked, Run
  <2>3. press \in Press /\ press.package \in Packages
    BY <2>1 DEF Press
  <2>4. runs' = [runs EXCEPT ![w] = run] /\ presses' = [presses EXCEPT ![u] = press]
    BY <1>2 DEF TakeTicket
  <2> HIDE DEF run, press
  <2> QED
    BY <1>2, <2>2, <2>3, <2>4, OneRunChanges, OnePressChanges DEF TakeTicket
<1>3. ASSUME NEW w \in Workers, EndRun(w) PROVE IInv'
  <2>1. \A u \in Pressers : presses'[u] \in Press
    BY <1>3 DEF EndRun, Press
  <2>2. \A u \in Pressers : presses[u] = NoPress => presses'[u] = NoPress
    <3>1. NoPress.awaiting \ {runs[w].collector} = {}
      BY DEF NoPress
    <3>2. [NoPress EXCEPT !.awaiting = @ \ {runs[w].collector}] = NoPress
      BY <3>1, NothingTaken
    <3> QED
      BY <1>3, <3>2 DEF EndRun
  <2>3. \A u \in Pressers : presses'[u].package = presses[u].package
    BY <1>3 DEF EndRun, Press
  <2>4. presses' \in [Pressers -> Press]
    BY <1>3, <2>1 DEF EndRun
  <2> QED
    BY <1>3, <2>2, <2>3, <2>4, OneRunChanges DEF EndRun
<1>4. ASSUME NEW w \in Workers, KillRun(w) PROVE IInv'
  <2>1. faults' \in 0..MaxFaults
    BY <1>4 DEF KillRun, Fault
  <2> QED
    BY <1>4, <2>1, OneRunChanges DEF KillRun
<1>5. ASSUME NEW p \in Packages, AgeLost(p) PROVE IInv'
  BY <1>5 DEF AgeLost
<1> QED
  BY <1>1, <1>2, <1>3, <1>4, <1>5

\* What becomes of a recollection.
LEMMA PressTypes ==
    ASSUME IInv,
           \/ \E u \in Pressers, c \in Collectors : ExpireTicket(u, c)
           \/ \E p \in Packages, u \in Pressers : Ask(u, p)
           \/ \E u \in Pressers :
                  RefusePress(u) \/ AcceptPress(u) \/ Publish(u) \/ LosePublications(u) \/ AgePress(u) \/ Forget(u)
    PROVE  IInv'
<1> USE Nothings DEF IInv, TypeOK, Named
<1>1. ASSUME NEW u \in Pressers, NEW c \in Collectors, ExpireTicket(u, c) PROVE IInv'
  <2> DEFINE press == [presses[u] EXCEPT !.tickets = @ \ {c}]
  <2>1. press \in Press /\ press.package \in Packages
    <3>1. NoPress.tickets = {}
      BY DEF NoPress
    <3>2. presses[u].package \in Packages
      BY <1>1, <3>1 DEF ExpireTicket
    <3> QED
      BY <3>2 DEF Press
  <2>2. presses' = [presses EXCEPT ![u] = press]
    BY <1>1 DEF ExpireTicket
  <2> HIDE DEF press
  <2> QED
    BY <1>1, <2>1, <2>2, OnePressChanges DEF ExpireTicket
<1>2. ASSUME NEW p \in Packages, NEW u \in Pressers, Ask(u, p) PROVE IInv'
  <2> DEFINE offered == {c \in Collectors : p \in Selection[c]}
             press == [NoPress EXCEPT !.phase = "asked", !.package = p, !.awaiting = offered,
                                      !.todo = offered, !.recent = TRUE]
  <2>1. press \in Press /\ press.package \in Packages
    BY DEF Press, NoPress
  <2>2. presses' = [presses EXCEPT ![u] = press]
    BY <1>2 DEF Ask
  <2> HIDE DEF press
  <2> QED
    BY <1>2, <2>1, <2>2, OnePressChanges DEF Ask
<1>3. ASSUME NEW u \in Pressers, RefusePress(u) \/ Forget(u) PROVE IInv'
  <2>1. presses' = [presses EXCEPT ![u] = NoPress]
    BY <1>3 DEF RefusePress, Forget
  <2> QED
    BY <1>3, <2>1, OnePressChanges, AnswersForgotten DEF RefusePress, Forget
<1>4. ASSUME NEW u \in Pressers, AcceptPress(u) \/ AgePress(u) PROVE IInv'
  <2>1. PICK phase \in {"asked", "accepted"}, recent \in BOOLEAN :
            presses' = [presses EXCEPT ![u] = [presses[u] EXCEPT !.phase = phase, !.recent = recent]]
    <3>1. CASE AcceptPress(u)
      <4>1. presses' = [presses EXCEPT ![u] = [presses[u] EXCEPT !.phase = "accepted", !.recent = presses[u].recent]]
        BY <3>1 DEF AcceptPress, Press
      <4> QED
        BY <4>1 DEF Press
    <3>2. CASE AgePress(u)
      <4>1. presses' = [presses EXCEPT ![u] = [presses[u] EXCEPT !.phase = "accepted", !.recent = FALSE]]
        <5>1. \A press \in Press : press.phase = "accepted" =>
                  [press EXCEPT !.recent = FALSE] = [press EXCEPT !.phase = "accepted", !.recent = FALSE]
          BY DEF Press
        <5> QED
          BY <3>2, <5>1 DEF AgePress
      <4> QED
        BY <4>1
    <3> QED
      BY <1>4, <3>1, <3>2
  <2> DEFINE press == [presses[u] EXCEPT !.phase = phase, !.recent = recent]
  <2>2. presses[u].package \in Packages
    BY <1>4 DEF AcceptPress, AgePress, NoPress
  <2>3. press \in Press /\ press.package \in Packages
    BY <2>2 DEF Press
  <2> HIDE DEF press
  <2> QED
    BY <1>4, <2>1, <2>3, OnePressChanges DEF AcceptPress, AgePress, press
<1>5. ASSUME NEW u \in Pressers, Publish(u) PROVE IInv'
  <2>1. PICK c \in presses[u].todo : presses' = [presses EXCEPT ![u].todo = @ \ {c}, ![u].tickets = @ \cup {c}]
    BY <1>5 DEF Publish
  <2> DEFINE press == [presses[u] EXCEPT !.todo = @ \ {c}, !.tickets = @ \cup {c}]
  <2>2. presses[u].package \in Packages
    BY <1>5 DEF Publish, NoPress
  <2>3. press \in Press /\ press.package \in Packages
    BY <2>2 DEF Press
  <2>4. presses' = [presses EXCEPT ![u] = press]
    BY <2>1 DEF Press
  <2> HIDE DEF press
  <2> QED
    BY <1>5, <2>3, <2>4, OnePressChanges DEF Publish
<1>6. ASSUME NEW u \in Pressers, LosePublications(u) PROVE IInv'
  <2>1. PICK unpublished \in SUBSET presses[u].todo \ {{}} : presses' = [presses EXCEPT ![u].todo = @ \ unpublished]
    BY <1>6 DEF LosePublications
  <2> DEFINE press == [presses[u] EXCEPT !.todo = @ \ unpublished]
  <2>2. presses[u].package \in Packages
    BY <1>6 DEF LosePublications, NoPress
  <2>3. press \in Press /\ press.package \in Packages
    BY <2>2 DEF Press
  <2>4. presses' = [presses EXCEPT ![u] = press]
    BY <2>1
  <2>5. faults' \in 0..MaxFaults
    BY <1>6 DEF LosePublications, Fault
  <2> HIDE DEF press
  <2> QED
    BY <1>6, <2>3, <2>4, <2>5, OnePressChanges DEF LosePublications
<1> QED
  BY <1>1, <1>2, <1>3, <1>4, <1>5, <1>6

\* Every step keeps the types.
LEMMA NextIInv == IInv /\ [Next]_vars => IInv'
<1>1. IInv /\ Next => IInv'
  BY DispatchTypes, RunTypes, PressTypes DEF Next
<1>2. IInv /\ UNCHANGED vars => IInv'
  BY DEF vars, IInv, TypeOK, Named
<1> QED
  BY <1>1, <1>2

\* The state is always of the shape the tables and messages have
\* (collectors/sweep.py, recollection.py).
THEOREM TypeCorrect == Spec => []TypeOK
<1>1. Init => IInv
  BY InitIInv
<1>2. IInv /\ [Next]_vars => IInv'
  BY NextIInv
<1>3. IInv => TypeOK
  BY DEF IInv
<1> QED
  BY <1>1, <1>2, <1>3, PTL DEF Spec

-----------------------------------------------------------------------------
(* One drain at a time *)

\* A step leaves what other dispatches are doing alone, and a dispatch gets
\* clear only while no other of its collector has a row.
LEMMA DrainStep == IInv /\ OneDrain /\ [Next]_vars => OneDrain'
<1> SUFFICES ASSUME IInv, OneDrain, [Next]_vars,
                    NEW d \in Dispatches, NEW e \in Dispatches, d # e, d[1] = e[1],
                    Offering(d)', Offering(e)'
             PROVE  FALSE
  BY DEF OneDrain
<1> USE DEF Offering
<1>1. ASSUME NEW f \in Dispatches, Offering(f)', ~Offering(f)
      PROVE  EnterDispatch(f)
  <2> SUFFICES ASSUME ~EnterDispatch(f)
               PROVE  dispatches'[f].phase = dispatches[f].phase \/ ~Offering(f)'
    BY <1>1
  <2>1. CASE \E g \in Dispatches : Open(g)
    BY <2>1 DEF Open, IInv, TypeOK, Dispatch
  <2>2. CASE \E g \in Dispatches : SkipDispatch(g) \/ EndDispatch(g) \/ Interrupt(g) \/ KillDispatch(g)
    BY <2>2 DEF SkipDispatch, EndDispatch, Interrupt, KillDispatch, IInv, TypeOK, NoDispatch
  <2>3. CASE \E g \in Dispatches : EnterDispatch(g)
    BY <2>3 DEF EnterDispatch, IInv, TypeOK
  <2>4. CASE \E g \in Dispatches : Enqueue(g) \/ RefuseOffer(g)
    BY <1>1, <2>4 DEF Enqueue, RefuseOffer, IInv, TypeOK, Dispatch
  <2>5. CASE UNCHANGED dispatches
    BY <2>5
  <2>6. CASE \E c \in Collectors : OpenScheduled(c) \/ OpenOther(c) \/ PurgeAbandoned(c)
    BY <2>1, <2>5, <2>6 DEF OpenScheduled, OpenOther, PurgeAbandoned, Dispatches
  <2>7. CASE UNCHANGED vars
    BY <2>5, <2>7 DEF vars
  <2>8. CASE \/ \E c \in Collectors, p \in Packages : ExpireOffer(c, p) \/ \E w \in Workers : TakeOffer(w, c, p)
             \/ \E u \in Pressers, c \in Collectors : ExpireTicket(u, c) \/ \E w \in Workers : TakeTicket(w, u, c)
             \/ \E w \in Workers : EndRun(w) \/ KillRun(w)
    BY <2>5, <2>8 DEF ExpireOffer, TakeOffer, ExpireTicket, TakeTicket, EndRun, KillRun
  <2>9. CASE \/ \E p \in Packages : AgeLost(p) \/ \E u \in Pressers : Ask(u, p)
             \/ \E u \in Pressers :
                    RefusePress(u) \/ AcceptPress(u) \/ Publish(u) \/ LosePublications(u) \/ AgePress(u) \/ Forget(u)
    BY <2>5, <2>9 DEF AgeLost, Ask, RefusePress, AcceptPress, Publish, LosePublications, AgePress, Forget
  <2> QED
    BY <2>2, <2>3, <2>4, <2>6, <2>7, <2>8, <2>9 DEF Next, DispatchStep
<1>2. ASSUME NEW f \in Dispatches, NEW g \in Dispatches, f # g, f[1] = g[1], EnterDispatch(f), Offering(g)'
      PROVE  FALSE
  <2>1. dispatches[g].phase = "none"
    BY <1>2 DEF EnterDispatch, AlreadyDraining
  <2>2. dispatches'[g] = dispatches[g]
    BY <1>2 DEF EnterDispatch, IInv, TypeOK
  <2> QED
    BY <1>2, <2>1, <2>2
<1> QED
  BY <1>1, <1>2 DEF OneDrain

\* Two dispatches of one collector never offer its inventory at once: a saved
\* row and a query keep any number of them apart (_already_draining).
THEOREM DrainsAlone == Spec => []OneDrain
<1>1. Init => IInv /\ OneDrain
  BY InitIInv DEF Init, OneDrain, Offering, NoDispatch
<1>2. IInv /\ OneDrain /\ [Next]_vars => (IInv /\ OneDrain)'
  BY NextIInv, DrainStep
<1> QED
  BY <1>1, <1>2, PTL DEF Spec

-----------------------------------------------------------------------------
(* One press waits *)

\* A recent recollection that was accepted and has not been answered.
Waits(u) == presses[u].phase = "accepted" /\ presses[u].recent /\ presses[u].awaiting # {}

\* Whoever waits after a step waited before it, or has just been accepted.
LEMMA WhoWaits ==
    ASSUME IInv, [Next]_vars, NEW u \in Pressers, Waits(u)'
    PROVE  presses'[u].package = presses[u].package /\ (Waits(u) \/ AcceptPress(u))
<1> USE DEF Waits, IInv, TypeOK
<1>1. CASE UNCHANGED presses
  BY <1>1
<1>2. CASE \E w \in Workers : EndRun(w)
  BY <1>2 DEF EndRun, Press
<1>3. CASE \E v \in Pressers, c \in Collectors : ExpireTicket(v, c) \/ \E w \in Workers : TakeTicket(w, v, c)
  <2>1. PICK v \in Pressers, c \in Collectors : presses' = [presses EXCEPT ![v].tickets = @ \ {c}]
    BY <1>3 DEF ExpireTicket, TakeTicket
  <2> QED
    BY <2>1 DEF Press
<1>4. CASE \E v \in Pressers, p \in Packages : Ask(v, p)
  <2>1. PICK v \in Pressers, p \in Packages : Ask(v, p)
    BY <1>4
  <2>2. presses'[v].phase = "asked"
    BY <2>1 DEF Ask, NoPress
  <2>3. v # u
    BY <2>2
  <2>4. presses'[u] = presses[u]
    BY <2>1, <2>3 DEF Ask
  <2> QED
    BY <2>4
<1>5. CASE \E v \in Pressers : RefusePress(v) \/ Forget(v)
  BY <1>5 DEF RefusePress, Forget, NoPress
<1>6. CASE \E v \in Pressers : AcceptPress(v)
  <2>1. PICK v \in Pressers : AcceptPress(v)
    BY <1>6
  <2>2. CASE u = v
    BY <2>1, <2>2 DEF AcceptPress, Press
  <2>3. CASE u # v
    BY <2>1, <2>3 DEF AcceptPress
  <2> QED
    BY <2>2, <2>3
<1>7. CASE \E v \in Pressers : Publish(v) \/ LosePublications(v) \/ AgePress(v)
  <2>1. PICK v \in Pressers : Publish(v) \/ LosePublications(v) \/ AgePress(v)
    BY <1>7
  <2>2. CASE u # v
    BY <2>1, <2>2 DEF Publish, LosePublications, AgePress
  <2>3. CASE u = v /\ Publish(v)
    BY <2>3 DEF Publish, Press
  <2>4. CASE u = v /\ LosePublications(v)
    BY <2>4 DEF LosePublications, Press
  <2>5. CASE u = v /\ AgePress(v)
    BY <2>5 DEF AgePress, Press
  <2> QED
    BY <2>1, <2>2, <2>3, <2>4, <2>5
<1>8. CASE \/ \E c \in Collectors : OpenScheduled(c) \/ OpenOther(c) \/ PurgeAbandoned(c)
           \/ \E d \in Dispatches : DispatchStep(d) \/ RefuseOffer(d) \/ Interrupt(d) \/ KillDispatch(d)
           \/ \E c \in Collectors, p \in Packages : ExpireOffer(c, p) \/ \E w \in Workers : TakeOffer(w, c, p)
           \/ \E w \in Workers : KillRun(w)
           \/ \E p \in Packages : AgeLost(p)
  BY <1>1, <1>8 DEF OpenScheduled, OpenOther, Open, PurgeAbandoned, DispatchStep, SkipDispatch, EnterDispatch,
                    Enqueue, EndDispatch, RefuseOffer, Interrupt, KillDispatch, ExpireOffer, TakeOffer, KillRun, AgeLost
<1>9. CASE UNCHANGED vars
  BY <1>1, <1>9 DEF vars
<1> QED
  BY <1>2, <1>3, <1>4, <1>5, <1>6, <1>7, <1>8, <1>9 DEF Next

\* Whoever is accepted finds nobody waiting for the package.
LEMMA PressStep == IInv /\ OnePressWaits /\ [Next]_vars => OnePressWaits'
<1> SUFFICES ASSUME IInv, OnePressWaits, [Next]_vars,
                    NEW u \in Pressers, NEW v \in Pressers, u # v,
                    Waits(u)', Waits(v)', presses'[u].package = presses'[v].package
             PROVE  FALSE
  BY DEF OnePressWaits, Waits
<1>1. ASSUME NEW x \in Pressers, NEW y \in Pressers, x # y, AcceptPress(x), Waits(y)',
             presses[x].package = presses[y].package
      PROVE  FALSE
  <2>1. presses'[y] = presses[y]
    BY <1>1 DEF AcceptPress, IInv, TypeOK
  <2> QED
    BY <1>1, <2>1 DEF AcceptPress, Pending, Waits
<1>2. /\ presses'[u].package = presses[u].package /\ (Waits(u) \/ AcceptPress(u))
      /\ presses'[v].package = presses[v].package /\ (Waits(v) \/ AcceptPress(v))
  BY WhoWaits
<1>3. ~(Waits(u) /\ Waits(v) /\ presses[u].package = presses[v].package)
  BY DEF OnePressWaits, Waits
<1> QED
  BY <1>1, <1>2, <1>3

\* Of one package at most one recent recollection waits, however many people
\* press for it and whatever collectors select it (_require_nothing_in_flight).
THEOREM PressesWaitAlone == Spec => []OnePressWaits
<1>1. Init => IInv /\ OnePressWaits
  BY InitIInv DEF Init, OnePressWaits, NoPress
<1>2. IInv /\ OnePressWaits /\ [Next]_vars => (IInv /\ OnePressWaits)'
  BY NextIInv, PressStep
<1> QED
  BY <1>1, <1>2, PTL DEF Spec

-----------------------------------------------------------------------------
(* The jobs a request hands over *)

\* Before its commit a job has no row, from there to the hand-over it has one,
\* and nothing is sent for a job that has none.
RequestKnowsItsRow ==
    \A j \in Jobs :
        /\ request[j] \in {"new", "open"} => row[j] = "absent"
        /\ request[j] \in {"committed", "refused"} => row[j] # "absent"
        /\ row[j] = "absent" => messages[j] = 0 /\ \A w \in JobWorkers : workers[w].job # j

JobIInv == JobTypeOK /\ RequestKnowsItsRow

USE NoJobAssumption, CopiesAssumption

\* Nothing has been requested yet.
LEMMA InitJobIInv == JobInit => JobIInv
BY DEF JobInit, JobIInv, JobTypeOK, RequestKnowsItsRow, Free, InProgressStates, Terminal

\* What the request's side does keeps the invariant.
LEMMA HandOverStep ==
    ASSUME JobIInv, NEW j \in Jobs, HandOver(j)
    PROVE  JobIInv'
<1>1. JobTypeOK'
  BY DEF HandOver, RequestJob, Rollback, Commit, PublishJob, PublishBreaks, PublishRaises, FailUnpublished, WebDies,
         JobIInv, JobTypeOK, Free, InProgressStates, Terminal
<1>2. RequestKnowsItsRow'
  BY DEF HandOver, RequestJob, Rollback, Commit, PublishJob, PublishBreaks, PublishRaises, FailUnpublished, WebDies,
         JobIInv, JobTypeOK, RequestKnowsItsRow
<1> QED
  BY <1>1, <1>2 DEF JobIInv

\* A worker's slot holds the job it was given, or none.
LEMMA WorkerSlots ==
    ASSUME JobIInv, NEW w \in JobWorkers, NEW v, v = Free \/ v \in [job : Jobs, phase : {"received", "running"}],
           workers' = [workers EXCEPT ![w] = v]
    PROVE  /\ workers' \in [JobWorkers -> {Free} \cup [job : Jobs, phase : {"received", "running"}]]
           /\ \A u \in JobWorkers : workers'[u] = IF u = w THEN v ELSE workers[u]
BY DEF JobIInv, JobTypeOK

\* What a worker does keeps the invariant.
LEMMA JobWorkerStep ==
    ASSUME JobIInv, NEW w \in JobWorkers, NEW j \in Jobs,
           Receive(w, j) \/ Work(w, j) \/ RunnerRaises(w) \/ WorkerDies(w)
    PROVE  JobIInv'
<1>1. CASE Receive(w, j)
  <2>1. row[j] # "absent"
    BY <1>1 DEF Receive, JobIInv, RequestKnowsItsRow
  <2>2. \A u \in JobWorkers : workers'[u] = IF u = w THEN [job |-> j, phase |-> "received"] ELSE workers[u]
    BY <1>1 DEF Receive, JobIInv, JobTypeOK
  <2>3. JobTypeOK'
    BY <1>1 DEF Receive, JobIInv, JobTypeOK
  <2>4. \A i \in Jobs : messages[i] = 0 => messages'[i] = 0
    BY <1>1 DEF Receive, JobIInv, JobTypeOK
  <2> QED
    BY <1>1, <2>1, <2>2, <2>3, <2>4 DEF Receive, JobIInv, RequestKnowsItsRow
<1>2. CASE StartJob(w, j)
  <2>1. workers[w].job = j /\ row[j] # "absent"
    BY <1>2 DEF StartJob, Received, Startable, InProgressStates
  <2>2. \A u \in JobWorkers : workers'[u].job = workers[u].job
    BY <1>2, <2>1 DEF StartJob, Received, JobIInv, JobTypeOK, Free
  <2>3. JobTypeOK'
    BY <1>2 DEF StartJob, Received, JobIInv, JobTypeOK, Free, InProgressStates
  <2> QED
    BY <1>2, <2>1, <2>2, <2>3 DEF StartJob, JobIInv, JobTypeOK, RequestKnowsItsRow
<1>3. CASE FinishJob(w, j)
  <2>1. row[j] # "absent"
    BY <1>3 DEF FinishJob, JobIInv, RequestKnowsItsRow
  <2>2. \A u \in JobWorkers : workers'[u] = IF u = w THEN Free ELSE workers[u]
    BY <1>3 DEF FinishJob, JobIInv, JobTypeOK
  <2>3. JobTypeOK'
    BY <1>3 DEF FinishJob, JobIInv, JobTypeOK, Terminal
  <2> QED
    BY <1>3, <2>1, <2>2, <2>3 DEF FinishJob, JobIInv, JobTypeOK, RequestKnowsItsRow, Free, Terminal
<1>4. CASE StartRefused(w, j) \/ RunnerRaises(w) \/ WorkerDies(w)
  <2>1. \A u \in JobWorkers : workers'[u] = IF u = w THEN Free ELSE workers[u]
    BY <1>4 DEF StartRefused, RunnerRaises, WorkerDies, JobIInv, JobTypeOK
  <2>2. dropped' \subseteq Jobs
    BY <1>4 DEF StartRefused, RunnerRaises, WorkerDies, JobIInv, JobTypeOK, Free
  <2>3. JobTypeOK'
    BY <1>4, <2>2 DEF StartRefused, RunnerRaises, WorkerDies, JobIInv, JobTypeOK
  <2> QED
    BY <1>4, <2>1, <2>3 DEF StartRefused, RunnerRaises, WorkerDies, JobIInv, RequestKnowsItsRow, Free
<1> QED
  BY <1>1, <1>2, <1>3, <1>4 DEF Work

\* Every step keeps the invariant.
LEMMA NextJobIInv == JobIInv /\ [JobNext]_jobVars => JobIInv'
<1> SUFFICES ASSUME JobIInv, [JobNext]_jobVars PROVE JobIInv'
  OBVIOUS
<1>1. CASE \E j \in Jobs : HandOver(j)
  BY <1>1, HandOverStep
<1>2. CASE \E w \in JobWorkers, j \in Jobs : Receive(w, j) \/ Work(w, j)
  BY <1>2, JobWorkerStep
<1>3. CASE \E w \in JobWorkers : RunnerRaises(w) \/ WorkerDies(w)
  <2>1. PICK w \in JobWorkers : RunnerRaises(w) \/ WorkerDies(w)
    BY <1>3
  <2>2. \E j \in Jobs : TRUE
    BY <2>1 DEF RunnerRaises, WorkerDies, JobIInv, JobTypeOK, Free
  <2> QED
    BY <2>1, <2>2, JobWorkerStep
<1>4. CASE UNCHANGED jobVars
  BY <1>4 DEF jobVars, JobIInv, JobTypeOK, RequestKnowsItsRow
<1> QED
  BY <1>1, <1>2, <1>3, <1>4 DEF JobNext

\* The invariant holds in every reachable state.
THEOREM JobInvariant == JobSpec => []JobIInv
BY InitJobIInv, NextJobIInv, PTL DEF JobSpec

\* Every variable keeps its type.
THEOREM JobTypeCorrect == JobSpec => []JobTypeOK
<1>1. JobIInv => JobTypeOK
  BY DEF JobIInv
<1> QED
  BY <1>1, JobInvariant, PTL

\* Nobody is ever sent to a job whose row is not committed.
THEOREM JobsAreThere == JobSpec => []NoWorkerMissesItsJob
<1>1. JobIInv => NoWorkerMissesItsJob
  BY DEF JobIInv, JobTypeOK, RequestKnowsItsRow, NoWorkerMissesItsJob
<1> QED
  BY <1>1, JobInvariant, PTL

\* A finished job never goes back in progress, whatever is handed over again.
THEOREM NeverRestarts == JobSpec => FinishedNeverRestarts
<1>1. JobIInv /\ [JobNext]_jobVars => [\A j \in Jobs : row[j] \in Terminal => row'[j] \in Terminal]_jobVars
  <2> SUFFICES ASSUME JobIInv, [JobNext]_jobVars, NEW j \in Jobs, row[j] \in Terminal
               PROVE  row'[j] \in Terminal
    BY DEF jobVars
  <2>1. CASE UNCHANGED row
    BY <2>1
  <2>2. ASSUME NEW i \in Jobs, Commit(i)
        PROVE  row'[j] \in Terminal
    <3>1. row[i] = "absent"
      BY <2>2 DEF Commit, JobIInv, RequestKnowsItsRow
    <3>2. i # j
      BY <3>1 DEF Terminal
    <3> QED
      BY <2>2, <3>2 DEF Commit, JobIInv, JobTypeOK
  <2>4. ASSUME NEW i \in Jobs, FailUnpublished(i)
        PROVE  row'[j] \in Terminal
    <3>1. row'[j] = IF i = j THEN "failed" ELSE row[j]
      BY <2>4 DEF FailUnpublished, JobIInv, JobTypeOK
    <3> QED
      BY <3>1 DEF Terminal
  <2>3. ASSUME NEW w \in JobWorkers, NEW i \in Jobs, StartJob(w, i) \/ FinishJob(w, i)
        PROVE  row'[j] \in Terminal
    BY <2>3 DEF StartJob, FinishJob, Startable, InProgressStates, JobIInv, JobTypeOK, Terminal
  <2> QED
    BY <2>1, <2>2, <2>3, <2>4 DEF JobNext, jobVars, HandOver, Work, RequestJob, Rollback, PublishJob, PublishBreaks, PublishRaises, WebDies,
                            Receive, StartRefused, RunnerRaises, WorkerDies
<1> QED
  BY <1>1, JobInvariant, PTL DEF JobSpec, FinishedNeverRestarts
=============================================================================
