------------------------------- MODULE Sweep --------------------------------
(***************************************************************************)
(* Who asks for a package to be collected.  The schedule dispatches one    *)
(* sweep after another of every collector, each of which offers the        *)
(* packages the collector selects to the workers (collectors/sweep.py);    *)
(* people ask for one package to be collected again                        *)
(* (collectors/recollection.py).  Both decide by what the run ledger says, *)
(* and both send messages that expire.                                     *)
(*                                                                         *)
(* Time is left out.  That a row has left the recollection window, that a  *)
(* message has expired or that the purge has come to a row are steps,      *)
(* taken in the order the settings give them.                              *)
(***************************************************************************)
EXTENDS Naturals, FiniteSets

CONSTANTS
    Collectors,
    Packages,
    Selection,      \* collector |-> the packages it selects
    Workers,        \* that collect
    Pressers,       \* recollections not forgotten yet
    None,
    MaxOffers,      \* bound: messages of one package and collector that wait
    MaxExtra,       \* bound: dispatches beside the schedule's
    MaxFaults       \* bound: kills, refusals of the broker and soft time limits

ASSUME SelectionAssumption == Selection \in [Collectors -> SUBSET Packages]
ASSUME BoundsAssumption    == MaxOffers \in Nat \ {0} /\ MaxExtra \in Nat /\ MaxFaults \in Nat

VARIABLES
    dispatches, \* the dispatches going on
    abandoned,  \* collectors with the running row of a dispatch that was killed
    offers,     \* collector |-> package |-> messages that wait
    runs,       \* worker |-> the collection it is in
    lost,       \* packages with a recent unfinished row of a killed worker
    presses,    \* presser |-> a recollection
    extra,      \* dispatches beside the schedule's, for the bound
    faults      \* for the bound

vars == <<dispatches, abandoned, offers, runs, lost, presses, extra, faults>>

\* The schedule's dispatch of a collector, and one that came at another time:
\* at start-up, by command, or from a queue that was not drained for a while.
Dispatches == Collectors \X {"scheduled", "other"}

NoDispatch == [phase |-> "none", todo |-> {}]
NoRun      == [collector |-> None, package |-> None, answers |-> {}]
NoPress    == [phase |-> "none", package |-> None, awaiting |-> {}, todo |-> {}, tickets |-> {}, recent |-> FALSE]

Init ==
    /\ dispatches = [d \in Dispatches |-> NoDispatch]
    /\ abandoned = {}
    /\ offers = [c \in Collectors |-> [p \in Packages |-> 0]]
    /\ runs = [w \in Workers |-> NoRun]
    /\ lost = {}
    /\ presses = [u \in Pressers |-> NoPress]
    /\ extra = 0
    /\ faults = 0

Fault == faults < MaxFaults /\ faults' = faults + 1

-----------------------------------------------------------------------------
(* dispatch *)

\* The dispatch's own row is saved, running, before it looks at anything.
Open(d) ==
    /\ dispatches[d].phase = "none"
    /\ dispatches' = [dispatches EXCEPT ![d].phase = "opened"]
    /\ UNCHANGED <<abandoned, offers, runs, lost, presses, faults>>

OpenScheduled(c) == Open(<<c, "scheduled">>) /\ UNCHANGED extra

OpenOther(c) == extra < MaxExtra /\ extra' = extra + 1 /\ Open(<<c, "other">>)

\* Mutant of AlreadyDraining: only a dispatch that has begun to offer counts.
OnlyEnqueuing(d) ==
    \/ d[1] \in abandoned
    \/ \E e \in Dispatches \ {d} : e[1] = d[1] /\ dispatches[e].phase = "enqueuing"

\* _already_draining: another row of the collector is running.
AlreadyDraining(d) ==
    \/ d[1] \in abandoned
    \/ \E e \in Dispatches \ {d} : e[1] = d[1] /\ dispatches[e].phase # "none"

\* The dispatch is skipped ...
SkipDispatch(d) ==
    /\ dispatches[d].phase = "opened"
    /\ AlreadyDraining(d)
    /\ dispatches' = [dispatches EXCEPT ![d] = NoDispatch]
    /\ UNCHANGED <<abandoned, offers, runs, lost, presses, extra, faults>>

\* ... or finds nobody in its way, and has the collector's selection to offer.
EnterDispatch(d) ==
    /\ dispatches[d].phase = "opened"
    /\ ~AlreadyDraining(d)
    /\ dispatches' = [dispatches EXCEPT ![d] = [phase |-> "clear", todo |-> Selection[d[1]]]]
    /\ UNCHANGED <<abandoned, offers, runs, lost, presses, extra, faults>>

\* The query has answered, and what it answered is acted upon.
Offering(d) == dispatches[d].phase \in {"clear", "enqueuing"}

\* _enqueue_each, for one package.
Enqueue(d) ==
    /\ Offering(d)
    /\ \E p \in dispatches[d].todo :
           /\ dispatches' = [dispatches EXCEPT ![d] = [phase |-> "enqueuing", todo |-> @.todo \ {p}]]
           /\ offers' = [offers EXCEPT ![d[1]][p] = IF @ < MaxOffers THEN @ + 1 ELSE @]
    /\ UNCHANGED <<abandoned, runs, lost, presses, extra, faults>>

\* The broker refuses one package; the others are still offered.
RefuseOffer(d) ==
    /\ Fault
    /\ Offering(d)
    /\ \E p \in dispatches[d].todo : dispatches' = [dispatches EXCEPT ![d].todo = @ \ {p}]
    /\ UNCHANGED <<abandoned, offers, runs, lost, presses, extra>>

\* _finalized: whatever the ending, the row is no longer running.
EndDispatch(d) ==
    /\ Offering(d) /\ dispatches[d].todo = {}
    /\ dispatches' = [dispatches EXCEPT ![d] = NoDispatch]
    /\ UNCHANGED <<abandoned, offers, runs, lost, presses, extra, faults>>

\* The soft time limit, or a selection that cannot be read: the run ends
\* partial or failed.
Interrupt(d) ==
    /\ Fault
    /\ dispatches[d].phase # "none"
    /\ dispatches' = [dispatches EXCEPT ![d] = NoDispatch]
    /\ UNCHANGED <<abandoned, offers, runs, lost, presses, extra>>

\* The worker is killed and nobody ends the row.
KillDispatch(d) ==
    /\ Fault
    /\ dispatches[d].phase # "none"
    /\ dispatches' = [dispatches EXCEPT ![d] = NoDispatch]
    /\ abandoned' = abandoned \cup {d[1]}
    /\ UNCHANGED <<offers, runs, lost, presses, extra>>

\* Mutant of PurgeAbandoned: the purge selects ended rows only.
PurgeEndedOnly(c) == c \in abandoned /\ UNCHANGED vars

\* The purge deletes an unfinished row older than the retention period.
PurgeAbandoned(c) ==
    /\ c \in abandoned
    /\ abandoned' = abandoned \ {c}
    /\ UNCHANGED <<dispatches, offers, runs, lost, presses, extra, faults>>

\* A message lives for the collector's cadence.
ExpireOffer(c, p) ==
    /\ offers[c][p] > 0
    /\ offers' = [offers EXCEPT ![c][p] = @ - 1]
    /\ UNCHANGED <<dispatches, abandoned, runs, lost, presses, extra, faults>>

-----------------------------------------------------------------------------
(* A worker's collection run, as the ledger sees it *)

\* The recollections of a package that a run which starts now answers: those
\* whose instant is not after the start.
Asked(p) == {u \in Pressers : presses[u].phase # "none" /\ presses[u].package = p}

TakeOffer(w, c, p) ==
    /\ runs[w] = NoRun /\ offers[c][p] > 0
    /\ offers' = [offers EXCEPT ![c][p] = @ - 1]
    /\ runs' = [runs EXCEPT ![w] = [collector |-> c, package |-> p, answers |-> Asked(p)]]
    /\ UNCHANGED <<dispatches, abandoned, lost, presses, extra, faults>>

TakeTicket(w, u, c) ==
    /\ runs[w] = NoRun /\ c \in presses[u].tickets
    /\ presses' = [presses EXCEPT ![u].tickets = @ \ {c}]
    /\ runs' = [runs EXCEPT ![w] = [collector |-> c, package |-> presses[u].package,
                                    answers |-> Asked(presses[u].package)]]
    /\ UNCHANGED <<dispatches, abandoned, offers, lost, extra, faults>>

\* A run that finished, however it ended, is the answer of its collector to
\* every recollection it started after.
EndRun(w) ==
    /\ runs[w] # NoRun
    /\ presses' = [u \in Pressers |-> IF u \in runs[w].answers
                                      THEN [presses[u] EXCEPT !.awaiting = @ \ {runs[w].collector}]
                                      ELSE presses[u]]
    /\ runs' = [runs EXCEPT ![w] = NoRun]
    /\ UNCHANGED <<dispatches, abandoned, offers, lost, extra, faults>>

\* The worker is killed; the message was acknowledged when it was taken.
KillRun(w) ==
    /\ Fault
    /\ runs[w] # NoRun
    /\ lost' = lost \cup {runs[w].package}
    /\ runs' = [runs EXCEPT ![w] = NoRun]
    /\ UNCHANGED <<dispatches, abandoned, offers, presses, extra>>

\* The row is older than the window.
AgeLost(p) ==
    /\ p \in lost
    /\ lost' = lost \ {p}
    /\ UNCHANGED <<dispatches, abandoned, offers, runs, presses, extra, faults>>

-----------------------------------------------------------------------------
(* request_recollection *)

\* The instant and the collectors that select the package are read first.
Ask(u, p) ==
    LET offered == {c \in Collectors : p \in Selection[c]}
    IN  /\ presses[u] = NoPress
        /\ offered # {}
        /\ presses' = [presses EXCEPT ![u] = [NoPress EXCEPT !.phase = "asked", !.package = p, !.awaiting = offered,
                                                             !.todo = offered, !.recent = TRUE]]
        /\ UNCHANGED <<dispatches, abandoned, offers, runs, lost, extra, faults>>

\* runs_in_flight.
InFlight(p) == p \in lost \/ \E w \in Workers : runs[w].package = p

\* Mutant of Pending: a row waits until it is answered.
PendingForGood(p) ==
    \E u \in Pressers : presses[u].phase = "accepted" /\ presses[u].package = p /\ presses[u].awaiting # {}

\* Mutant of Pending: the ledger alone decides.
NeverPending(p) == FALSE

\* pending_recollection: a row within the window with a collector that has not
\* answered.
Pending(p) ==
    \E u \in Pressers : /\ presses[u].phase = "accepted" /\ presses[u].package = p
                        /\ presses[u].recent /\ presses[u].awaiting # {}

\* With the package locked: refused ...
RefusePress(u) ==
    /\ presses[u].phase = "asked"
    /\ InFlight(presses[u].package) \/ Pending(presses[u].package)
    /\ presses' = [presses EXCEPT ![u] = NoPress]
    /\ runs' = [w \in Workers |-> [runs[w] EXCEPT !.answers = @ \ {u}]]
    /\ UNCHANGED <<dispatches, abandoned, offers, lost, extra, faults>>

\* ... or the row is committed.
AcceptPress(u) ==
    /\ presses[u].phase = "asked"
    /\ ~InFlight(presses[u].package) /\ ~Pending(presses[u].package)
    /\ presses' = [presses EXCEPT ![u].phase = "accepted"]
    /\ UNCHANGED <<dispatches, abandoned, offers, runs, lost, extra, faults>>

\* _publish, for one collector.
Publish(u) ==
    /\ presses[u].phase = "accepted"
    /\ \E c \in presses[u].todo :
           presses' = [presses EXCEPT ![u].todo = @ \ {c}, ![u].tickets = @ \cup {c}]
    /\ UNCHANGED <<dispatches, abandoned, offers, runs, lost, extra, faults>>

\* The broker refuses some messages, or the process dies before it sent them.
LosePublications(u) ==
    /\ Fault
    /\ presses[u].phase = "accepted"
    /\ \E unpublished \in SUBSET presses[u].todo \ {{}} :
           presses' = [presses EXCEPT ![u].todo = @ \ unpublished]
    /\ UNCHANGED <<dispatches, abandoned, offers, runs, lost, extra>>

\* The row is older than the window.
AgePress(u) ==
    /\ presses[u].phase = "accepted" /\ presses[u].recent
    /\ presses' = [presses EXCEPT ![u].recent = FALSE]
    /\ UNCHANGED <<dispatches, abandoned, offers, runs, lost, extra, faults>>

\* A message lives for the window from its publication, so it outlives the
\* row's.
ExpireTicket(u, c) ==
    /\ c \in presses[u].tickets /\ ~presses[u].recent
    /\ presses' = [presses EXCEPT ![u].tickets = @ \ {c}]
    /\ UNCHANGED <<dispatches, abandoned, offers, runs, lost, extra, faults>>

\* Nothing depends on the row any more.
Forget(u) ==
    /\ presses[u].phase = "accepted" /\ ~presses[u].recent
    /\ presses[u].todo = {} /\ presses[u].tickets = {}
    /\ presses' = [presses EXCEPT ![u] = NoPress]
    /\ runs' = [w \in Workers |-> [runs[w] EXCEPT !.answers = @ \ {u}]]
    /\ UNCHANGED <<dispatches, abandoned, offers, lost, extra, faults>>

DispatchStep(d) == SkipDispatch(d) \/ EnterDispatch(d) \/ Enqueue(d) \/ EndDispatch(d)

Next ==
    \/ \E c \in Collectors : OpenScheduled(c) \/ OpenOther(c) \/ PurgeAbandoned(c)
    \/ \E d \in Dispatches : DispatchStep(d) \/ RefuseOffer(d) \/ Interrupt(d) \/ KillDispatch(d)
    \/ \E c \in Collectors, p \in Packages : ExpireOffer(c, p) \/ \E w \in Workers : TakeOffer(w, c, p)
    \/ \E u \in Pressers, c \in Collectors : ExpireTicket(u, c) \/ \E w \in Workers : TakeTicket(w, u, c)
    \/ \E w \in Workers : EndRun(w) \/ KillRun(w)
    \/ \E p \in Packages : AgeLost(p) \/ \E u \in Pressers : Ask(u, p)
    \/ \E u \in Pressers :
           RefusePress(u) \/ AcceptPress(u) \/ Publish(u) \/ LosePublications(u) \/ AgePress(u) \/ Forget(u)

\* The schedule ticks, a dispatch and a run that were not killed come to their
\* end, messages expire, the purge runs, and time passes over every row.
Fairness ==
    /\ \A c \in Collectors : WF_vars(OpenScheduled(c)) /\ WF_vars(PurgeAbandoned(c))
    /\ \A d \in Dispatches : WF_vars(DispatchStep(d))
    /\ \A c \in Collectors, p \in Packages : WF_vars(ExpireOffer(c, p))
    /\ \A w \in Workers : WF_vars(EndRun(w))
    /\ \A p \in Packages : WF_vars(AgeLost(p))
    /\ \A u \in Pressers : WF_vars(AgePress(u))

Spec == Init /\ [][Next]_vars

FairSpec == Spec /\ Fairness

-----------------------------------------------------------------------------
(* Properties *)

Dispatch == [phase : {"none", "opened", "clear", "enqueuing"}, todo : SUBSET Packages]

Run == [collector : Collectors \cup {None}, package : Packages \cup {None}, answers : SUBSET Pressers]

Press == [phase : {"none", "asked", "accepted"}, package : Packages \cup {None},
          awaiting : SUBSET Collectors, todo : SUBSET Collectors, tickets : SUBSET Collectors,
          recent : BOOLEAN]

TypeOK ==
    /\ dispatches \in [Dispatches -> Dispatch]
    /\ abandoned \subseteq Collectors
    /\ offers \in [Collectors -> [Packages -> 0..MaxOffers]]
    /\ runs \in [Workers -> Run]
    /\ lost \subseteq Packages
    /\ presses \in [Pressers -> Press]
    /\ extra \in 0..MaxExtra
    /\ faults \in 0..MaxFaults

\* Two dispatches of one collector never offer its inventory at once, though
\* all that keeps them apart is a row each saves and a query each makes
\* (_already_draining).
OneDrain ==
    \A d, e \in Dispatches :
        (d # e /\ d[1] = e[1]) => ~(Offering(d) /\ Offering(e))

\* Every package a collector selects is offered again and again, whatever
\* dispatches were skipped, cut short or killed: a killed one's row stops the
\* sweeps of its collector until the purge has deleted it.
OfferedAgain ==
    \A c \in Collectors : \A p \in Selection[c] : []<>(offers[c][p] > 0)

\* Of one package, at most one recent recollection waits for an answer,
\* however many people press at once and whatever runs end between their
\* reading of the clock and their turn at the lock (_require_nothing_in_flight).
OnePressWaits ==
    \A u, v \in Pressers :
        (/\ u # v /\ presses[u].phase = "accepted" /\ presses[v].phase = "accepted"
         /\ presses[u].package = presses[v].package /\ presses[u].recent /\ presses[v].recent) =>
            (presses[u].awaiting = {} \/ presses[v].awaiting = {})

\* No recollection keeps its package to itself: messages that were never
\* published, expired or died with their worker stop the next one only for
\* the window, never for the retention period (runs_in_flight).
PackageComesFree ==
    \A p \in Packages : []<>(~Pending(p) /\ p \notin lost)
=============================================================================
