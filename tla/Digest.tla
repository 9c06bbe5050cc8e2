------------------------------- MODULE Digest -------------------------------
(***************************************************************************)
(* The operator's digest: collectors/digest.py's compose_digest, composed  *)
(* with the ledger of EvidenceCutoff that it counts.                       *)
(*                                                                         *)
(* A digest is composed once a day by a scheduled task, and by hand with a *)
(* management command; nothing keeps the two apart.  Each reads the clock, *)
(* asks for the newest stored digest to continue its window from, counts   *)
(* the ledger rows that started in the window, compares its figures with   *)
(* that digest's, delivers what it says and only then stores it.  The      *)
(* worker may die anywhere in between, after the delivery too.             *)
(***************************************************************************)
EXTENDS EvidenceCutoff, Integers, Sequences, FiniteSets

CONSTANTS
    Digesters,      \* the scheduled task and those run by hand
    Overall,        \* what the figures say besides the ledger: inventory, packages, the newest policy run
    Window,         \* DIGEST_WINDOW
    MaxDigests      \* bound: digests stored

ASSUME WindowAssumption == Window \in Nat \ {0} /\ MaxDigests \in Nat
ASSUME LedgerAssumption == IsFiniteSet(Collections) /\ Overall # {}

VARIABLES
    digests,        \* operator_digests, in the order stored; append-only
    composing       \* what each digester holds

digestVars == <<digests, composing>>

allVars == <<vars, digestVars>>

\* CONTINUATION_LIMIT
Limit == 2 * Window

Figures == [running : Nat, ended : Nat, overall : Overall]

\* met and known are how many digests were stored when the clock was read and
\* when the newest one was asked for; seen is the ledger as it was counted.
\* The code keeps none of the three.
Digest == [from : Int, until : Nat, met : Nat, known : Nat, seen : SUBSET Collections,
           figures : Figures, changed : BOOLEAN, since : Nat]

DigestPhases == {"idle", "stamped", "continuing", "composed", "delivered"}

Blank == [from |-> 0, until |-> 0, met |-> 0, known |-> 0, seen |-> {},
          figures |-> [running |-> 0, ended |-> 0, overall |-> CHOOSE o \in Overall : TRUE],
          changed |-> FALSE, since |-> 0]

DigestInit ==
    /\ Init
    /\ digests = <<>>
    /\ composing = [k \in Digesters |-> [phase |-> "idle", digest |-> Blank]]

\* Of some stored digests the newest: latest observed_at, then latest id.
Newest(ids) ==
    CHOOSE i \in ids : \A j \in ids :
        \/ digests[j].until < digests[i].until
        \/ digests[j].until = digests[i].until /\ j <= i

\* Mutant of WindowStart: every digest reports its own day.
AlwaysOneDay(now, n) == now - Window

\* window_start_for: where the newest digest ended, unless that is after now
\* or longer ago than the limit.
WindowStart(now, n) ==
    IF n > 0 /\ now - digests[Newest(1..n)].until \in 0..Limit
    THEN digests[Newest(1..n)].until
    ELSE now - Window

InWindow(c, d) == d.from <= collections[c].started /\ collections[c].started < d.until

\* Rows other processes can see.
Visible == Unfinished \cup Finished

\* The ledger rows a digest reports.
Counted(d) == {c \in d.seen : InWindow(c, d)}

-----------------------------------------------------------------------------
(* compose_digest *)

\* The clock, which ends the window ...
StartDigest(k) ==
    /\ composing[k].phase = "idle"
    /\ Tick
    /\ composing' = [composing EXCEPT ![k] = [phase |-> "stamped", digest |-> [Blank EXCEPT !.until = Now, !.met = Len(digests)]]]
    /\ UNCHANGED <<collections, rows, policy, digests>>

\* ... the newest stored digest, where it begins ...
Continue(k) ==
    LET d == composing[k].digest IN
    /\ composing[k].phase = "stamped"
    /\ composing' = [composing EXCEPT ![k] = [phase |-> "continuing",
            digest |-> [d EXCEPT !.known = Len(digests), !.from = WindowStart(d.until, Len(digests))]]]
    /\ UNCHANGED <<vars, digests>>

\* ... the ledger rows of the window by the state they hold now, the other
\* figures, and whether any differs from that digest's.
Compose(k) ==
    LET d == composing[k].digest
        counted == {c \in Visible : InWindow(c, d)}
    IN
    /\ composing[k].phase = "continuing"
    /\ \E overall \in Overall :
          LET figures == [running |-> Cardinality(counted \cap Unfinished),
                          ended |-> Cardinality(counted \cap Finished), overall |-> overall]
          IN  composing' = [composing EXCEPT ![k] = [phase |-> "composed",
                  digest |-> [d EXCEPT !.seen = Visible, !.figures = figures,
                                       !.changed = d.known = 0 \/ figures # digests[Newest(1..d.known)].figures]]]
    /\ UNCHANGED <<vars, digests>>

\* The stored digests whose figures were news.
Changed == {i \in 1..Len(digests) : digests[i].changed}

\* Mutant of Since: the digest before this one.
SincePrevious(d) == digests[Newest(1..d.known)].until

\* The instant an unchanged digest names: that of the newest digest which did
\* change, asked for afresh.
Since(d) ==
    IF Changed # {}
    THEN digests[Newest(Changed)].until
    ELSE digests[Newest(1..d.known)].until

\* The text is rendered and sent to every declared channel.
Deliver(k) ==
    LET d == composing[k].digest IN
    /\ composing[k].phase = "composed"
    /\ composing' = [composing EXCEPT ![k] = [phase |-> "delivered",
            digest |-> IF d.changed THEN d ELSE [d EXCEPT !.since = Since(d)]]]
    /\ UNCHANGED <<vars, digests>>

Store(k) ==
    /\ composing[k].phase = "delivered"
    /\ Len(digests) < MaxDigests
    /\ digests' = Append(digests, composing[k].digest)
    /\ composing' = [composing EXCEPT ![k] = [phase |-> "idle", digest |-> Blank]]
    /\ UNCHANGED vars

\* The worker dies, or the database refuses the row.
Abandon(k) ==
    /\ composing[k].phase # "idle"
    /\ composing' = [composing EXCEPT ![k] = [phase |-> "idle", digest |-> Blank]]
    /\ UNCHANGED <<vars, digests>>

\* Time goes by.
Wait == Tick /\ UNCHANGED <<collections, rows, policy, digestVars>>

DigestNext ==
    \/ \E k \in Digesters :
          StartDigest(k) \/ Continue(k) \/ Compose(k) \/ Deliver(k) \/ Store(k) \/ Abandon(k)
    \/ Wait
    \/ Next /\ UNCHANGED digestVars

DigestSpec == DigestInit /\ [][DigestNext]_allVars

-----------------------------------------------------------------------------
(* Properties *)

DigestTypeOK ==
    /\ TypeOK
    /\ digests \in Seq(Digest) /\ Len(digests) <= MaxDigests
    /\ composing \in [Digesters -> [phase : DigestPhases, digest : Digest]]

\* What the operator has been told: stored, or delivered and about to be.
Told == {digests[i] : i \in 1..Len(digests)}
            \cup {composing[k].digest : k \in {l \in Digesters : composing[l].phase = "delivered"}}

\* A digest whose clock was read before that of one already stored.
Overtaken(d) == \E i \in 1..d.known : digests[i].until > d.until

\* Every stored digest that ended after the i-th could see it when it began its
\* window.
Followed(i, n) == \A j \in 1..n : digests[j].until > digests[i].until => digests[j].known >= i

\* "A late tick loses no rows and a by-hand run double-counts nothing"
\* (digest.py:198): a digest that nothing overtook counts no row a stored one
\* has counted, however often the one before it was delivered and lost; and
\* when a stored one ended within the limit before it, every row since then
\* that it can see is counted once, except one saved after the digest whose
\* window held it was composed.  Two digests that began their windows without
\* seeing each other may leave rows between them.
WindowsJoin ==
    \A d \in Told : ~Overtaken(d) =>
        /\ \A i \in 1..d.known : Counted(digests[i]) \cap Counted(d) = {}
        /\ \A i \in 1..d.known, c \in d.seen :
              (/\ Followed(i, d.known) /\ d.until - digests[i].until <= Limit
               /\ digests[i].until <= collections[c].started /\ collections[c].started < d.until) =>
                  \/ c \in Counted(d)
                  \/ \E j \in 1..d.known : InWindow(c, digests[j])

\* No other digest was stored while the i-th was composed.
Alone(i) == digests[i].met = i - 1

\* "Nothing changed since the digest of ..." is true of the figures, over any
\* number of quiet days and lost digests, while the stored digests were
\* composed one after another: the digest named did change, and has the
\* figures of this one and of every one in between.
UnchangedNamesTheChange ==
    (\A i \in 1..Len(digests) : Alone(i)) =>
        \A i \in 1..Len(digests) : ~digests[i].changed =>
            \E j \in 1..(i - 1) :
                /\ digests[j].until = digests[i].since
                /\ digests[j].changed
                /\ \A m \in j..i : digests[m].figures = digests[i].figures
=============================================================================
