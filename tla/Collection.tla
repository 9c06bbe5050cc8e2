----------------------------- MODULE Collection -----------------------------
(***************************************************************************)
(* One collector at work on one package: Collector.collect of              *)
(* core/collection.py, the allowance it spends and the refusal it          *)
(* remembers (core/rate_limit.py), the response it may ask to have         *)
(* confirmed instead of sent again (core/response_cache.py), and the run's *)
(* ending (core/ledger.py).                                                *)
(*                                                                         *)
(* Collections overlap: the schedule and people asking for a recollection  *)
(* start them, on any worker.  Everything they share is in the cache, in   *)
(* steps between which anybody may act.                                    *)
(*                                                                         *)
(* An instant is an allowance window and a tick within it.  A counter or a *)
(* refusal written at some instant is kept for one window's length, to the *)
(* same tick of the next window.                                           *)
(***************************************************************************)
EXTENDS Naturals, FiniteSets

CONSTANTS
    Workers,
    Bodies,         \* what the source may serve
    Unreadable,     \* the bodies the collector's translate gets nothing from
    Gone,           \* the source's answer that there is no such resource
    None,
    Calls,          \* the allowance: requests a window
    Retries,        \* of one call, by the transport
    Further,        \* calls a collection makes while it translates its answer
    Ticks,          \* in a window
    MaxWindow,      \* bound
    MaxRuns         \* bound

ASSUME BodiesAssumption    == Unreadable \subseteq Bodies /\ Gone \notin Bodies /\ None \notin Bodies \cup {Gone}
ASSUME AllowanceAssumption == Calls \in Nat /\ Retries \in Nat /\ Further \in Nat
ASSUME BoundsAssumption    == Ticks \in Nat \ {0} /\ MaxWindow \in Nat /\ MaxRuns \in Nat

VARIABLES
    now,            \* the instant
    source,         \* what the source serves
    counter,        \* the cache: window |-> requests counted and until when
    memo,           \* the cache: window |-> until when a refusal is remembered
    entry,          \* the cache: the response remembered, or None
    recorded,       \* the bodies the evidence table has a row of
    recent,         \* is there a success within the observation window?
    runs,           \* worker |-> the collection it is in
    begun,          \* collections started
    granted,        \* history: window |-> the worst case of what was granted while it lasted
    refusals        \* history: window |-> 401s remembered for it

world  == <<now, source>>
limits == <<counter, memo>>
tables == <<recorded, recent>>
count  == <<begun, granted, refusals>>

vars == <<world, limits, entry, tables, runs, count>>

Windows == 0..MaxWindow

Instants == [window : Windows, tick : 0..Ticks - 1]

Start == [window |-> 0, tick |-> 0]

Before(a, b) == a.window < b.window \/ (a.window = b.window /\ a.tick < b.tick)

\* window_seconds from now, which is when the cache drops what is written now.
OneWindowOn == [window |-> now.window + 1, tick |-> now.tick]

Idle == [phase |-> "idle", at |-> Start, forced |-> FALSE, late |-> FALSE, remembered |-> None,
         answer |-> None, wrote |-> "nothing", verdict |-> "undeclared", seen |-> {}]

Init ==
    /\ now = Start
    /\ source \in Bodies \cup {Gone}
    /\ counter = [k \in Windows |-> [used |-> 0, until |-> Start]]
    /\ memo = [k \in Windows |-> Start]
    /\ entry = None
    /\ recorded = {}
    /\ recent = FALSE
    /\ runs = [w \in Workers |-> Idle]
    /\ begun = 0
    /\ granted = [k \in Windows |-> 0]
    /\ refusals = [k \in Windows |-> 0]

-----------------------------------------------------------------------------
(* Before the call *)

In(w, phase) == runs[w].phase = phase

\* The run has its ending and what it wrote; nothing else of it matters now.
Close(w, verdict, wrote) ==
    runs' = [runs EXCEPT ![w] = [Idle EXCEPT !.phase = "ending", !.verdict = verdict, !.wrote = wrote]]

\* The run is to record a failure.
Fail(w) == runs' = [runs EXCEPT ![w] = [Idle EXCEPT !.phase = "failing"]]

\* The ledger row is saved and the one instant of this observation is read.
Begin(w) ==
    /\ In(w, "idle")
    /\ begun < MaxRuns
    /\ \E forced \in BOOLEAN :
          runs' = [runs EXCEPT ![w] = [Idle EXCEPT !.phase = "begun", !.at = now, !.forced = forced,
                                                   !.late = refusals[now.window] > 0, !.seen = {source}]]
    /\ begun' = begun + 1
    /\ UNCHANGED <<world, limits, entry, tables, granted, refusals>>

\* _inside_window: a success within the observation window, unless forced.
Suppressed(w) == recent /\ ~runs[w].forced

Skip(w) ==
    /\ In(w, "begun")
    /\ Suppressed(w)
    /\ Close(w, "skipped", "nothing")
    /\ UNCHANGED <<world, limits, entry, tables, count>>

\* The question does not apply to the package: a row, and no call.
NotApplicable(w) ==
    /\ In(w, "begun")
    /\ ~Suppressed(w)
    /\ Close(w, "succeeded", "not_applicable")
    /\ UNCHANGED <<world, limits, entry, tables, count>>

\* _credential_refused_earlier, then the allowance.
CheckRefusal(w) ==
    /\ In(w, "begun")
    /\ ~Suppressed(w)
    /\ IF Before(now, memo[runs[w].at.window]) THEN Fail(w)
       ELSE runs' = [runs EXCEPT ![w].phase = "charging", ![w].forced = FALSE]
    /\ UNCHANGED <<world, limits, entry, tables, count>>

Counting(k) == Before(now, counter[k].until)

\* acquire: cache.add, the window of the instant the run read ...
AddCounter(w) ==
    LET k == runs[w].at.window IN
    /\ In(w, "charging")
    /\ counter' = [counter EXCEPT ![k] = IF Counting(k) THEN @ ELSE [used |-> 0, until |-> OneWindowOn]]
    /\ runs' = [runs EXCEPT ![w].phase = "counting"]
    /\ UNCHANGED <<world, memo, entry, tables, count>>

\* Mutant of RequestCost: one collection counts as one request.
OneRequest == 1

\* request_cost.
RequestCost == 1 + Retries

\* What a collection may put on the wire: its call and those it makes further,
\* which nobody charges for, each with the transport's own retries.
WorstCase == (1 + Further) * (1 + Retries)

\* ... then cache.incr, or cache.set when the counter is gone by now.
Charge(w) ==
    LET k    == runs[w].at.window
        used == (IF Counting(k) THEN counter[k].used ELSE 0) + RequestCost
        fits == used <= Calls
    IN
    /\ In(w, "counting")
    /\ counter' = [counter EXCEPT ![k] = [used |-> used, until |-> IF Counting(k) THEN @.until ELSE OneWindowOn]]
    /\ IF fits THEN runs' = [runs EXCEPT ![w].phase = "granted"] ELSE Fail(w)
    /\ granted' = [granted EXCEPT ![k] = IF fits /\ k = now.window THEN @ + WorstCase ELSE @]
    /\ UNCHANGED <<world, memo, entry, tables, begun, refusals>>

\* _remembered: the entry the request will ask to have confirmed.
ReadCache(w) ==
    /\ In(w, "granted")
    /\ runs' = [runs EXCEPT ![w].phase = "asking", ![w].remembered = entry]
    /\ UNCHANGED <<world, limits, entry, tables, count>>

-----------------------------------------------------------------------------
(* The call *)

\* No answer, a failing status, or "not modified" to a request that sent no
\* validator.
NoAnswer(w) ==
    /\ In(w, "asking")
    /\ Fail(w)
    /\ UNCHANGED <<world, limits, entry, tables, count>>

\* 401 to the declared credential ...
Unauthorized(w) ==
    /\ In(w, "asking")
    /\ runs' = [runs EXCEPT ![w].phase = "refused"]
    /\ UNCHANGED <<world, limits, entry, tables, count>>

\* Mutant of RememberRefusal: a lifetime that rounds to nothing.
RememberBriefly(w) ==
    /\ In(w, "refused")
    /\ memo' = [memo EXCEPT ![runs[w].at.window] = now]
    /\ refusals' = [refusals EXCEPT ![runs[w].at.window] = @ + 1]
    /\ Fail(w)
    /\ UNCHANGED <<world, counter, entry, tables, begun, granted>>

\* ... is remembered for the window of the instant the run read.
RememberRefusal(w) ==
    /\ In(w, "refused")
    /\ memo' = [memo EXCEPT ![runs[w].at.window] = OneWindowOn]
    /\ refusals' = [refusals EXCEPT ![runs[w].at.window] = @ + 1]
    /\ Fail(w)
    /\ UNCHANGED <<world, counter, entry, tables, begun, granted>>

\* The resource, or that there is none.
Served(w) ==
    /\ In(w, "asking")
    /\ runs' = [runs EXCEPT ![w].phase = "answered", ![w].answer = source, ![w].remembered = None]
    /\ UNCHANGED <<world, limits, entry, tables, count>>

\* Mutant of Replayed: the entry is read again when the answer is in.
ReplayedAfresh(w) == entry

\* _replayed: the body of the entry the request was made from.
Replayed(w) == runs[w].remembered

\* "Not modified": what was remembered is what the source serves.
NotModified(w) ==
    /\ In(w, "asking")
    /\ runs[w].remembered # None
    /\ runs[w].remembered = source
    /\ runs' = [runs EXCEPT ![w].phase = "answered", ![w].answer = Replayed(w), ![w].remembered = None]
    /\ UNCHANGED <<world, limits, entry, tables, count>>

-----------------------------------------------------------------------------
(* After the call *)

\* Mutant of Failed: the row is written and no ending declared.
FailedUndeclared(w) ==
    /\ In(w, "failing")
    /\ Close(w, "undeclared", "error")
    /\ UNCHANGED <<world, limits, entry, tables, count>>

\* _failed: the ending is declared and a row carrying error written.
Failed(w) ==
    /\ In(w, "failing")
    /\ Close(w, "failed", "error")
    /\ UNCHANGED <<world, limits, entry, tables, count>>

\* translate breaks or finds nothing: a row carrying error, and a failed run.
WriteError(w) ==
    /\ In(w, "answered")
    /\ runs[w].answer \in Unreadable
    /\ Close(w, "failed", "error")
    /\ UNCHANGED <<world, limits, entry, tables, count>>

\* The evidence of an answer that reads, in one transaction.
WriteEvidence(w) ==
    LET answer == runs[w].answer IN
    /\ In(w, "answered")
    /\ answer \notin Unreadable
    /\ recorded' = recorded \cup ({answer} \cap Bodies)
    /\ runs' = [runs EXCEPT ![w].phase = "recorded", ![w].wrote = IF answer = Gone THEN "not_found" ELSE "ok"]
    /\ UNCHANGED <<world, limits, entry, recent, count>>

\* Mutant of Remember: before the evidence is written.
RememberFirst(w) ==
    /\ runs[w].phase \in {"answered", "recorded"}
    /\ entry' = IF runs[w].answer = Gone THEN None ELSE runs[w].answer
    /\ IF In(w, "recorded")
       THEN Close(w, "succeeded", runs[w].wrote)
       ELSE UNCHANGED runs
    /\ UNCHANGED <<world, limits, tables, count>>

\* _remember and _forget, last: an answer without a validator is not kept.
Remember(w) ==
    /\ In(w, "recorded")
    /\ IF runs[w].answer = Gone THEN entry' = None ELSE entry' \in {entry, runs[w].answer}
    /\ Close(w, "succeeded", runs[w].wrote)
    /\ UNCHANGED <<world, limits, tables, count>>

\* An exception nobody expected leaves collect: a write refused, the cache out
\* of reach, the soft time limit.  Whatever was declared, the run failed.
Raises(w) ==
    /\ runs[w].phase \notin {"idle", "ending"}
    /\ Close(w, "failed", runs[w].wrote)
    /\ UNCHANGED <<world, limits, entry, tables, count>>

\* _write_ending; a run that declared nothing succeeded.
Ended(w) == IF runs[w].verdict = "undeclared" THEN "succeeded" ELSE runs[w].verdict

End(w) ==
    /\ In(w, "ending")
    /\ recent' = (recent \/ Ended(w) = "succeeded")
    /\ runs' = [runs EXCEPT ![w] = Idle]
    /\ UNCHANGED <<world, limits, entry, recorded, count>>

\* The process is killed, or the database refuses the ending.
Die(w) ==
    /\ ~In(w, "idle")
    /\ runs' = [runs EXCEPT ![w] = Idle]
    /\ UNCHANGED <<world, limits, entry, tables, count>>

-----------------------------------------------------------------------------
(* Everything else *)

Tick ==
    /\ now' = IF now.tick < Ticks - 1 THEN [now EXCEPT !.tick = @ + 1]
              ELSE [window |-> now.window + 1, tick |-> 0]
    /\ now'.window <= MaxWindow
    /\ UNCHANGED <<source, limits, entry, tables, runs, count>>

\* The source publishes, withdraws or brings back.
Publish ==
    /\ \E content \in (Bodies \cup {Gone}) \ {source} :
          /\ source' = content
          /\ runs' = [w \in Workers |-> IF runs[w].phase \in {"idle", "failing", "ending"} THEN runs[w]
                                       ELSE [runs[w] EXCEPT !.seen = @ \cup {content}]]
    /\ UNCHANGED <<now, limits, entry, tables, count>>

\* The last success leaves the observation window.
Lapse ==
    /\ recent
    /\ recent' = FALSE
    /\ UNCHANGED <<world, limits, entry, recorded, runs, count>>

\* The remembered response expires or is evicted.
Evict ==
    /\ entry # None
    /\ entry' = None
    /\ UNCHANGED <<world, limits, tables, runs, count>>

Ask(w) ==
    \/ Begin(w) \/ Skip(w) \/ NotApplicable(w) \/ CheckRefusal(w)
    \/ AddCounter(w) \/ Charge(w) \/ ReadCache(w)

Answer(w) == NoAnswer(w) \/ Unauthorized(w) \/ RememberRefusal(w) \/ Served(w) \/ NotModified(w)

Record(w) ==
    \/ Failed(w) \/ WriteError(w) \/ WriteEvidence(w) \/ Remember(w)
    \/ Raises(w) \/ End(w) \/ Die(w)

Next ==
    \/ \E w \in Workers : Ask(w) \/ Answer(w) \/ Record(w)
    \/ Tick \/ Publish \/ Lapse \/ Evict

Spec == Init /\ [][Next]_vars
-----------------------------------------------------------------------------
(* Properties *)

Phases == {"idle", "begun", "charging", "counting", "granted", "asking", "refused", "failing",
           "answered", "recorded", "ending"}

Run == [phase : Phases, at : Instants, forced : BOOLEAN, late : BOOLEAN,
        remembered : Bodies \cup {None}, answer : Bodies \cup {Gone, None},
        wrote : {"nothing", "ok", "not_found", "not_applicable", "error"},
        verdict : {"undeclared", "succeeded", "failed", "skipped"},
        seen : SUBSET (Bodies \cup {Gone})]

TypeOK ==
    /\ now \in Instants
    /\ source \in Bodies \cup {Gone}
    /\ counter \in [Windows -> [used : Nat, until : [window : Nat, tick : 0..Ticks - 1]]]
    /\ memo \in [Windows -> [window : Nat, tick : 0..Ticks - 1]]
    /\ entry \in Bodies \cup {None}
    /\ recorded \subseteq Bodies
    /\ recent \in BOOLEAN
    /\ runs \in [Workers -> Run]
    /\ begun \in Nat
    /\ granted \in [Windows -> Nat]
    /\ refusals \in [Windows -> Nat]

\* "The allowance counts requests, not collections": however collections race
\* to start a window, and however often their calls are retried, those granted
\* while a window lasts fit its allowance.  So do all their requests, where a
\* collection makes no call but the one it is charged for; each it makes further
\* may put the whole allowance on the wire again, and no more.
AllowanceHolds == \A k \in Windows : granted[k] <= (1 + Further) * Calls

\* A collection that begins after a refused credential was remembered in its
\* window makes no call, unless it is so slow that the window is over when it
\* looks.
NoCallOnceRefused ==
    \A w \in Workers :
        (runs[w].late /\ runs[w].phase \in {"charging", "counting", "granted", "asking"})
            => now.window > runs[w].at.window

\* What a run is about to record, or has recorded, is what the source served
\* at some moment since the instant it is stamped with: an older body that
\* somebody else put in the cache meanwhile is never replayed as an answer.
EvidenceIsCurrent ==
    \A w \in Workers : runs[w].phase \in {"answered", "recorded"} => runs[w].answer \in runs[w].seen

\* "Nothing is remembered until the evidence for that payload is in the
\* table": no body that failed to translate is ever asked to be confirmed.
RememberedWasRecorded == entry \in recorded \cup {None}

\* "Never a clean result": a run that ends well has recorded what its source
\* said, one that was suppressed has recorded nothing, and one that recorded an
\* error has failed.
EndingMatchesEvidence ==
    \A w \in Workers : In(w, "ending") =>
        /\ Ended(w) = "succeeded" => runs[w].wrote \in {"ok", "not_found", "not_applicable"}
        /\ Ended(w) = "skipped" => runs[w].wrote = "nothing"
=============================================================================
