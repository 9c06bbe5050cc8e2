# Verification of conda-sentinel

conda-sentinel watches the health of an organisation's conda packages. Collectors gather evidence
from outside services into append-only tables. A nightly policy run reads that evidence as of one
cut-off, composes one rollup row per package, and then opens items in review queues and closes the
ones whose package left the inventory. People move items through a workflow by an API. Celery workers
with a Redis broker and a Redis cache carry the work; PostgreSQL holds the state.

This directory holds TLA+ models of the parts of that system where the order of things matters, the
TLC configurations that check them on small instances, and proofs for every value of the constants.
Paths below are relative to `src/src/django_apps/conda_sentinel/` unless they start elsewhere.

## 1. Inventory

| Component | State it keeps | Operations | Talks to | What makes it correct |
|---|---|---|---|---|
| Workflow items (`workflow/states.py`, `services.py`, `api/views.py`) | one row per finding: state, queue, claim; one audit row per move | open under a key, move, close for absence | policy run, API users | only declared moves by people entitled to them; claims never taken over; endings final; the trail explains the row |
| Queue opening (`workflow/opening.py`, `collectors/absence.py`, `selection.py`) | which finding keys have been filed | fold the inventory history, open, close, item by item | rollup, inventory rows, workflow items, purge | nobody who needs work is missed; none is left for a package that left; none twice |
| Policy run and rollup (`core/policy_run.py`, `rollup.py`) | the run ledger, one rollup row per package | choose a cut-off, run the passes per package, compose, run the steps after | collection ledger, evidence | the cut-off is settled; a replay reads what the run read |
| Policy passes (`policies/`) | none: pure decisions | evaluate one package | evidence | the decision tables and their outcome order |
| Collector base (`core/collection.py`, `response_cache.py`) | remembered responses | collect, sweep | rate limiter, ledger, evidence tables, the outside source | evidence is current, never a clean result out of a failure |
| Rate limiter (`core/rate_limit.py`) | a counter per window, a remembered refusal | acquire, remember, look up | cache | requests of a window fit the allowance |
| Ledger (`core/ledger.py`) | one row per run, with its ending | record, end on every exit | everything that runs | every ending is true |
| Background jobs (`core/jobs.py`, `tasks.py`) | one row per job | request, publish on commit, run, finish | broker, API | a job asked for ends, once |
| Sweep dispatch and recollection (`collectors/sweep.py`, `recollection.py`) | dispatch rows, queued messages | offer every package on schedule, or one on demand | broker, ledger | no package starved, no overlap |
| Identity (`identity/services.py`) | the package row: identity and confidence | resolve, override | collectors, people | a person's verdict is not undone by a machine |
| Inventory ingestion and administration (`collectors/tasks.py`, `inventory.py`, `watchlist.py`) | snapshots, inventory entries, audit rows | ingest a document, change an entry | openers, people | presence and absence as the document says |
| Retention (`core/retention.py`) | deletes from nearly every table | purge in batches, table by table | everything | what a surviving row cites or a surviving run reads stays |
| Digest (`collectors/digest.py`, `core/delivery.py`) | digest rows | compose, deliver, record | ledger, mail and webhooks | windows join without a gap |
| Signing keys and authorization (`src/src/config/authorization/`) | a key set with an expiry and a refetch limit | look up, refetch | identity provider | a valid key is found, the provider not flooded |
| Surfaces, freshness, health, start-up checks | none, or a flag | read and render | the tables | covered by unit tests |

The hard behaviours are these. Requests, scheduled tasks and people's clicks interleave: only the row
lock and the single transaction are atomic, and much is read before them and used after. A worker
acknowledges a message before it runs, so a killed process simply stops; Redis may hand a message over
again. Rows in the ledger outlive the process that opened them. The steps after a policy run commit
item by item, so a crash leaves some done. Time is read at several places of one operation, and the
cache forgets what it was told at an instant of its own.

`PROJECT.json` lists each hazard at its line with the properties that watch it, or the reason none
does.

## 2. Modules

### WorkflowStates, WorkflowItems, FindingLifecycle

`WorkflowStates` holds the transition tables of `workflow/states.py`: states, queues and their owners,
the moves a person may make with the roles and reasons each demands, and the product's own move.

`WorkflowItems` has the tables `items` (the row) and `trail` (its audit rows), and `requests`, what
each person is in the middle of. `apply_transition`, `open_keyed_item` and `close_for_absence` are each
one transaction with the row lock held, so each is one step. A person's move is four: the page is
rendered (and fixes the state they will expect), the view's gate reads the queue (`Permit`, `Forbid`),
the service moves or refuses. `Move` ranges over every target state, queue and reason a body may
carry.

`FindingLifecycle` is the contract: a finding is unfiled, untouched, worked or ended; it is filed once
and ends once, and each step leaves one audit row. `WorkflowItems` implements it under the mapping
`StageOf`.

### QueueOpening

What the step after a policy run does to the queues. `snapshots` are the inventory's rows, folded by
`RecordPresence` into a `Reading` (absent, or listed since when); the instant of the present listing,
the epoch, is part of the finding key. `runs` holds each run's cut-off, the readings it took and what
it still has to open or close. One action per read and per item, because every item is its own
transaction: `Compose`, `SelectIdentity`, `SelectEvidence`, `OpenNext`, `ListAbsent`, `CloseNext`,
`End`, and `Stop` for a crash or a step that raised. Beside them run the ingestion, the resolver,
people, and the purge of old runs and rows. A fresh cut-off may lag behind what has been observed, by a
collection that has not ended (`MaxLag` observations), but not behind an earlier run's.

Four switches say what the environment may do: `Overlap` (two runs at once: nothing in the code
prevents it), `Replays` (a run at an old run's cut-off), `Routes` (a person sends an item to another
queue), `Purges`. They are constants because what holds depends on them: without them nobody is missed
and nothing is left open, with them only `ClosedOnlyForAbsence` remains, and the theorems name the
switches they need off.

Identity is reduced to unmapped and mapped (the code's inventory-derived and verified), because this is
what the openers tell apart. A package may become mapped and may fall back (`LoseIdentity`) at any
moment, also between the two selections of one run, each of which reads the confidence of that moment;
`unresolved` and `fell` of a run remember for the properties what they read. The verdicts of the passes
are reduced to whether an advisory matched, and an item's own moves to live, finished by a person,
closed by the product. Of the queues, only whether an item is in the identity queue is read, so the
remediation queue stands for every other.

### Sources, Outcomes, PolicyPasses, Assessment

How what an outside source answers becomes what the product says of a package.

`Sources` gives, for each of the nine collectors (conda-forge source, PyPI, the feedstock, the channels,
vulnerabilities, KEV, licences, Python metadata and its verification), the kinds of replies its source
can give (a repository may have been pushed in what is still the future) and the evidence rows its
`collect` writes for each: failures, "not found", "not applicable", truncated lists, mixed channels.
Versions are members of a small set of statements that compare as the code compares them once a leading
`v` is gone; expressions are model values with the operands the code would find in them. It also says
which rows each evidence table accepts, from the columns and check constraints of
`collectors/models.py`.

`Outcomes` has the precedence tables and the functions that take the worst of several verdicts
(`policies/outcomes.py`). `PolicyPasses` is the eight passes as functions of the evidence at a
cut-off, of the confidence and of the parameters of a policy version: `Currency`,
`FeedstockPresence`, `Vulnerability`, `License`, `Remediation`, `PythonReadiness`, `WorkType`,
`Priority`. Later passes read the rows of earlier ones, in registration order. `Readable` is what
`policies/parameters.py` lets a version say; a version that says otherwise is refused as a whole.
`IsStale` has no branch for a table whose collector is not registered: `collectors/apps.py` registers
all of them at boot, each with a freshness target.

`Assessment` composes them. `Observe` is one sweep of one table, `Identify` a correction of the
package row, `Start` a run at a cut-off (an old one, for a replay), `Evaluate` its passes over the
package in one transaction, which a row refused by a check constraint of its table rolls back, and
`Compose` the rollup with the confidence gate of `core/confidence.py`. The gate and the passes use the
package row the run loaded at its start.

### Identity

The package row and who writes it. `ResolveShell` creates it unresolved. A resolver goes through
`Cache` (what the package holds now), `Resolve` (the index and PyPI have answered, or not),
`ReadRow` (the unlocked read at the start of the recording transaction) and `RecordResolution`, which
saves the columns that differ from that read, the mapping outcomes and the feedstock rows.
`OverrideIdentity` holds the row lock from read to commit and is one step. Names are unique; a claimed
one is refused.

### Inventory

What is watched. People `AddEntry`, `ChangeEntry` and `RetireEntry`; a watchlist file is imported entry
by entry and with `--replace` retires what it does not name; an ingestion reads the active entries,
creates a shell for every new package, records who is listed and derives who is not. Imports and
ingestions may stop anywhere. Any record may be refused (`Fail`), of a package that exists as well: for a
shell whose name is taken it is the only thing that can happen. An ingestion names its failures and goes
on; an absence that is refused ends it (`Die`). An ingestion reads the database source; one ingestion and
one import at a time. `Rename` is an override on the package's side, which is how a name can
be taken when a shell would need it.

### Sweep

Who asks for a package to be collected. A dispatch saves its own row, looks for another that is
draining (`AlreadyDraining`), offers the packages of its collector's selection one message at a time,
and ends; a killed one leaves its row running until the purge deletes it. A press (manual
recollection) reads the clock, then under the package's lock looks at the recent rows and accepts or
refuses, and publishes one message per collector after its commit. Messages expire, workers take them
and may be killed. Time is left out: that a row has left the window or a message has expired is a step
of its own, in the order the settings give those times. A collector has two places for dispatches going
at once, which is what the race between saving a row and looking for others needs; the code bounds
their number by nothing.

### Retention

The purge. `SelectBatch` fixes a batch of a table, `RemoveBatch` takes it away; between the two, policy
runs go on and collectors write. A policy run commits its derived rows (`DeriveRows`), the rollup row
that points at it (`ComposeRollup`) and its ending (`EndRun`) one after the other, may omit the first
two for a package that failed, and may be killed between any of them. Derived rows go first, then runs,
then the citing evidence, then what it cites. `FailTable` is a table that raised (later tables go on),
`KillPurge` a process that stopped. The newest row of a table, what a run that stays reads at its
cut-off, and what a surviving row cites are kept. Two tables with one reader key stand for the roster:
one that cites and one that is cited.

### EvidenceCutoff

How `choose_evidence_cutoff` picks the instant a run reads the evidence at, against the collection
runs that write it. The clock read for `started_at` and the save of the row are two steps, as are the
clock read and the save of an ending; the two queries of the policy run are two steps. A run lost to a
crash keeps its unfinished row.

### Digest

`compose_digest`, over the ledger of `EvidenceCutoff`, which it extends. Nothing keeps the scheduled task
and one enqueued by hand apart, so there are several `Digesters`. Each goes through `StartDigest` (the
clock, which ends the window), `Continue` (the newest stored digest, from which `WindowStart` takes the
beginning), `Compose` (the rows that started in the window, counted by whether they have ended, and the
comparison with that digest's figures), `Deliver` (with `Since`, asked of the table again), `Store`; and
may be lost at any of them by `Abandon`. What the figures say besides the ledger is one value. `Followed` is
the case in which a digest can answer for what came before it: whoever stored meanwhile had stored before
it looked, or overtook it, or left a later one.

### BackgroundJobs

The life of a row of `background_jobs`: the request's transaction, publication on commit, a publish
that raises although the broker kept the message, one that raises what `_publish` does not name
(`PublishBreaks`), redelivery, and workers that are killed. The row
constraint `job_finish_stamp_matches_its_state` is the guard `Startable`; `start_job` and `finish_job`
look at no state themselves. Its names (`JobInit`, `JobNext`, `JobSpec`) say whose they are, because
`Sweep_proofs` extends both models.

### Collection

`Collector.collect` for one package, by several workers at once, with everything they share: the
allowance counter, the remembered refusal, the remembered response, the evidence table, and the
observation window. An instant is an allowance window and a tick in it; `until` of the counter and of
the memo is the same tick one window later, as `window_seconds` makes it. `AddCounter` and `Charge`
are `cache.add` and `cache.incr` (or `cache.set`, when the counter went away in between). The source
publishes, withdraws and brings back at any moment, and a "not modified" answer compares with what it
serves then. `Raises` is any exception nobody named, at any step; `Die` a killed process.

`sweep`, which performs these steps for many packages with one call and without a remembered response,
is not modelled.

Some collectors make further calls while they translate the answer (`collectors/feedstock.py:1817`,
`source_release.py:1318`, `resolve_identity.py:1380`). They pass no limiter, and the constant `Further`
says how many there are at most. Their answers are part of the body, their failure does not fail the
collection, and a 401 one of them gets is not remembered: of them only the number matters here.

`granted` counts, per window, the requests that what was granted may put on the wire in the worst case
(`WorstCase`: the charged call and the further ones, each with its retries), while that window lasts. A
grant made in the name of a window that is already over is not in it: the code promises an allowance
per window of the instant the run read, not per sliding minute.

The counter and the memo are taken to be in the cache until their time is up; the remembered response
may be evicted. An allowance cannot hold over a cache that forgets counters early or cannot be reached,
which production lets pass (`IGNORE_EXCEPTIONS` in `src/src/config/settings/production.py`): what the
run and the theorem say of the allowance, they say of a cache that works.

## 3. Runs

| Run | Question | Bounds, and why they are enough |
|---|---|---|
| `workflow_items` | do the two tables agree, are claims safe, is the one-life contract met | one finding, an engineer and a person who is engineer and reviewer, four audit rows: enough to leave a queue, be claimed, be released and come back while an old page is still open. Items do not interact, so one is enough |
| `queue_opening` | with runs one after another, is nobody missed, nothing left open, nothing filed twice | one package, three runs, three observations (listed, gone, back), with a crash in any run, a cut-off that lags behind all of them, and an identity gained and lost at will; about 3.7 million states |
| `queue_opening_rough` | with overlapping runs, replays, routing and the purge, what still holds | two runs, three observations, every switch on; replays provide the old cut-offs, so fresh ones do not lag here; about 3.3 million states |
| `ledger_readers` | is the cut-off settled; do digests join | for the cut-off, two collection runs and seven reads of the clock, enough for a run that ended and one in flight or saved between the queries, and the proofs hold for any number; for digests, one ledger row, two digesters, three digests, a window of three ticks, so that one may be overtaken, lost after its delivery, come past the limit, or begin before another has stored and end after it. The constraint `OneReader` looks at one of the two readers at a time, which share only the ledger and write nothing in it, and at no more digests in hand than may still be stored; about 1.4 million states |
| `background_jobs` | does every job end, once | two jobs, two workers, one redelivery each: the same job on both workers at once |
| `collection` | allowance, refusals, evidence, memory, endings | two workers, three collections, two windows, two readable bodies and one that is not, allowance 4 with one retry, so that two calls fit and the third does not, one further call each; about 1.7 million states up to symmetry. One tick a window: the proofs hold for any number |
| `assessment` | does any reply yield a verdict cleaner or fresher than what was read, or a row its table refuses | every reply of every source, sweeps of any tables at the first and the last of three instants, one run at any of them: a rule reads at most two tables that the same verdict depends on, and freshness needs three instants (fresh, stale, never); about 750,000 states |
| `assessment_deep` | do the verdicts of one run agree, and of two | chosen replies (one for each way a pass decides), four sweeps, two runs and a corrected identity, so that a run loads the package before the correction and a replay reads behind newer sweeps; about 490,000 states |
| `identity` | do names follow the corrections, is confidence earned | two packages and two names so that each may want the other's, one resolver whose three reads go stale, one override each; about 430,000 states |
| `inventory` | does a file respect what is retired, do rows follow documents, is everybody observed | two keys competing for two names, five changes (decisions of people, imports, renames, deaths and refused records): retire, add another, rename, bring back; about 240,000 states |
| `sweep` | do dispatches and presses exclude each other, is nothing starved | one collector, one package, two workers, two people, a dispatch beside the schedule's, two faults: one for a dispatch and one for a run in the same behaviour; about 290,000 states |
| `retention` | does a run that stays keep what it reads | two runs, four days, retention of one day, two evidence rows at a time in two tables, one fault: a row read by one run, superseded, or cited, and a purge that meets a run begun meanwhile; about two million states. A row superseded and cited at once takes a third: only the proofs, which bound nothing, have it |

Every run passes. Deadlock is not checked where a model may come to rest: a bound is reached, or every
job has ended. `workflow_items` checks it: somebody can always ask again.

`Sources`, `Outcomes` and `PolicyPasses` have no runs of their own: `assessment` evaluates them. A
definition named in a comment as a mutant of another is a plausible mistake in that code; every
property is broken by at least one of them under its own run, which shows that the property depends on
the code and that the bounds reach the case.

### Observations

What modelling showed and no run states as a claim. The models contain each of these behaviours; the
properties are worded so that they say what is left.

Openers (`workflow/opening.py`):

- `select_unresolved` (`:215`) says the opening "is a function of the run". The selection offers every
  unidentified package of the catalog while the readings cover only packages the run touched: an absent
  package whose pass failed is opened an item, which the next good run closes.
- "At most one open identity item per package. A package with an open item under any key gets no
  second one" (`:220`) looks only into the identity queue. Routed elsewhere, gone and back, the package
  gets a second one: hence the assumption `~Routes` of `OneIdentityItemEach`.
- A replay from before a package returned closes work opened after it; its key is then used up, and
  the next run does not open it again.
- The purge may remove the absence a key's epoch was derived from. The key reverts and the same
  remediation is filed beside its live item.

- A package mapped at the first selection of a run and unmapped at the second gets neither an identity
  item (`workflow/opening.py:242`) nor a remediation one (`:321`) from that run. Confidence does fall: a
  resolution that finds nothing this time writes unmapped (`collectors/resolve_identity.py:1066`,
  `identity/services.py:781`). It is the `fell` of `NoListedPackageIsMissed`.

Runs and jobs:

- `choose_evidence_cutoff` promises an instant that "no in-flight run can still write behind"
  (`core/policy_run.py:226`), from two queries without a common snapshot: a run saved after the first
  can write behind a cut-off that another run's ending sets before the second.
  `LateEvidenceIsFromTheGap` shows this is the only way.
- "Every exit below moves it to a terminal one" (`core/tasks.py:101`): an exception `run_job` does not
  name, the soft time limit among them, leaves the row running for good. `EveryJobEnds` excepts it.
- `finish_job` overwrites an ending with another one (`core/jobs.py:352`).
- `_publish` names one exception, kombu's `OperationalError` (`core/jobs.py:320`): after any other one
  the row stays queued and nothing sweeps it. `EveryJobEnds` excepts it.
- "The allowance counts requests, not collections" (`core/rate_limit.py:20`), "the allowance is spent in
  requests" (`src/docs/conda-sentinel/operations.md:130`): not the further calls of a collection, which
  nobody charges ("is not counted against it", `collectors/feedstock.py:1807`, recorded there as
  deferred). With `Further` of them the requests of a window come to `1 + Further` times its allowance,
  which is what `AllowanceHolds` bounds; it is the allowance itself for a collector that makes none.
- A wrong credential costs up to one call per worker and window: whoever had already looked for a
  refusal goes on (`core/collection.py:1827`).

Digests (`collectors/digest.py`):

- "A late tick loses no rows and a by-hand run double-counts nothing" (`:198`). A digest whose clock was
  read before that of one stored meanwhile reports its own day whatever the other counted (`:426`): the
  `Overtaken` of `WindowsJoin`. Two digests that begin their windows without seeing each other may leave
  rows between them that neither counts, when the later window begins after the end of the other: the
  `Followed` of `WindowsJoin`. A run that had read its start but not saved its row when its window was
  counted is in no digest.
- A row is counted by where it started, in the state it holds then. A run still running when its window
  is counted is reported as running, and its failure by no later digest.
- With two digests composed at once, "nothing changed since" may name a digest whose figures are
  others: the newest changed digest is asked for after the comparison. Hence `Alone` in
  `UnchangedNamesTheChange`.

Workflow:

- A move that names a queue re-routes the item whatever the move is; the docstring of
  `apply_transition` (`workflow/services.py:232`) says the queue is otherwise ignored.
- The view's gate reads the queue before the lock (`workflow/api/views.py:107`), so a person may make
  a move in a queue they do not own, having owned the one the item was in when they asked. The role of
  the move itself is checked under the lock.

Policies and identity:

- The reason recorded for priority `p3` (`policies/data/policy-parameters.toml:317`, "no fixed version
  has been established anywhere") is also recorded when a fix is awaiting packaging.
- `resolution_for` takes a package for established from what this resolution found
  (`collectors/resolve_identity.py:1066`) and ignores a release mapping carried forward. After an
  outage of PyPI the mapping stays and the confidence falls from inventory-derived to unmapped; the
  module's docstring (`:33`) speaks of the mappings.
- `verified` can be lost to a stale read: "a resolution never overwrites a verified confidence with a
  lower one" (`identity/services.py:731`) is decided on a row read without a lock.
  `VerifiedFallsOnlyToAStaleRead` says this is the only way. With two resolvers on one package
  `ConfidenceIsEarned` can break as well.
- An override renames a package and leaves the purls that name it as they were.

Inventory:

- A key retired for another of the same name, or a package renamed to it, keeps the second key's shell
  from ever being created: the `Blocked` of `ListedIsObserved`.
- A file respects what is retired and nothing more: an import writes its name over the one a person gave
  an active entry, and with `--replace` an entry brought back after the list of what to retire was taken
  may be retired again.
- A package whose record is refused keeps the row it has, a not_found as well: the run names it as a
  failure, and the next ingestion writes it.
- A `--replace` file that gives a name to another key, or swaps two names, is refused: additions come
  before retirements.
- When everything is retired the empty document is refused, and the departures are not recorded.

Sweeps:

- Two dispatches that open together may each see the other and both skip.
- A killed dispatch's row stops its collector until the purge deletes it, 90 days by default.
- A scheduled sweep's run of a package answers a press before the press's own message is taken; that
  message may be taken after the window.

Retention:

- A run that begins between the selection of a batch and its deletion may lose an uncited reading: the
  `purge.seen` of `ReadingsSurvive`.
- A run whose own deletion failed keeps its row and no longer protects the evidence it read.

## 4. Fairness

Safety properties are checked and proved of `Spec`, without fairness. Liveness is checked of
`FairSpec`, in four modules:

- `BackgroundJobs`. Weak fairness of a request that has begun (a web server answers), of the on-commit
  publication (taken, refused or broken) and of the request recording a refused one, of a worker on the
  job it has; strong fairness of a job's messages being received: workers come and go, and the export
  queue is drained in order. Nothing is assumed of `RequestJob`, of failures, or of the broker repeating
  itself. A process that dies with the job in its hands is outside what the code can promise, so
  `EveryJobEnds` excepts exactly the jobs in `dropped`.
- `Inventory`. Weak fairness of `IngestionStep`: the schedule asks for an ingestion again and again and
  one that is running goes on. Nothing is assumed of people, of an import, of records not
  being refused, or of the process not dying; deaths and refusals of a record that could be written are
  bounded by `MaxChanges`, so that in the end one ingestion is left alone.
- `Sweep`. The schedule ticks, a dispatch and a run that were not killed come to their end, messages
  expire, the purge runs, and time passes over every row. That a worker takes a message is not assumed:
  `OfferedAgain` speaks of what is offered, and `PackageComesFree` has to hold when nobody takes it.
- `Retention`. Weak fairness of the purge's steps (it is on a schedule) and of time. Faults are
  bounded; a purge that fails for ever removes nothing for ever.

## 5. Proofs

The proof modules extend their model and TLAPS, and prove every listed theorem for all values of
the constants under the named assumptions of the model.

- `WorkflowItems_proofs`. `StepKinds`: every step files an item, records a declared move (row and audit
  row together), or only touches requests. From it follow `TypeCorrect`, `ClaimCorrect`,
  `TrailCorrect` and `DeclaredCorrect`, each inductive over that case split, the action properties
  `EndingsFinal` and `ClaimsSafe`, and `Refinement`: every step maps to a step of `FindingLifecycle` or
  a stutter.
- `QueueOpening_proofs`. Two inductive invariants over `Shape` (rows are rows, runs are runs) and
  `Alone` (one run between its passes and its end, which is what `~Overlap` gives) assume nothing of the
  fold of the inventory's history. `NothingIsLeftOpen` rests on `Closing`: what a run is about to open
  is not for a package that left, and a run that is closing has in hand everything open on one that did;
  people only take from the open items. `OneIdentityItemEach` (assuming `~Routes` as well) rests on
  `Opening`: every item is in its queue, what a run is about to open has one key to the package and the
  package none open. The other two rest on what the fold computes. `FoldReads` says it of any rows and
  cut-off: absent means that the newest row is a not_found, and a listing began with an ok row later
  than every not_found. It is an induction over the instants, carried out by taking the least instant at
  which the fold would be wrong (`Least`). `ClosedForAbsence` has the invariant `Absences`: what a going
  run has read as absent is so in the table at its cut-off, and its closing list is of such packages. It
  needs none of the switches: the purge leaves the row that was read. `NobodyIsMissed` has `Filing`, on
  top of `Opening` and `Absences`: an item's epoch is when its package was listed (`UnderAListing`), the
  package of a closed item has been away since (`AwaySince`), and each package a run owes work, by what
  its selections read of the confidences, has it or the run is about to open it (`IdentityDue`,
  `EvidenceDue`). So no key a run opens is a closed item's (`NotClosedBefore`). A fresh cut-off may lag,
  but not behind an earlier run's: an item then never has a listing later than what a run reads. It
  assumes `~Overlap`, `~Replays`, `~Routes` and `~Purges`, as its run does: a purge that removes the
  rows of an absence makes the fold forget the epoch, and the key is then that of the closed item.
  `TypeCorrect` assumes no switch; it is the only check of the module's type invariant.
- `Digest_proofs`, for the cut-off and for digests. `CutoffIsSettled` is not inductive: it says nothing
  before the choice. The strengthening adds that dates are not in the future and that, between the two
  queries, whoever is in flight is in the gap or started at or after the boundary. From it `Settles` and
  `OnlyTheGapIsLate`, and since a digest writes nothing in the ledger, the same beside digests
  (`SettlesBesideDigests`, `OnlyTheGapIsLateBesideDigests`). `WindowsAreJoined`: of the stored digests
  that end after a row's start and before the digest in hand, take the earliest; what began its window was
  stored before it, and if it did not reach back to the row there would be an earlier one. The induction
  over the sequence of digests is that choice of a least element. `UnchangedIsTrue`: what a digest carries
  since it looked at the table stays an initial part of it.
- `Collection_proofs`. `AllowanceHolds` needs to know that a counter in use outlives its window (it was
  made no earlier than the window began) and that it covers what was granted while the window lasts;
  `Wire` says what a count may put on the wire, further calls included.
  `NoCallOnceRefused` needs the same of the memo. `Says` states what each phase of a run implies: what the
  source has served since the run began, what has been written, what was declared. From the one
  invariant: `Allowance`, `RefusalIsHeeded`, `Current`, `Remembered`, `Endings`.
- `Identity_proofs`, for identity and for the inventory. Besides typing: `Valued` (an established
  mapping has its value in the row), `Remembered` (what a resolver cached as established had its value,
  and a resolution that could not ask PyPI is `Sound`: it re-asserts it) and `Named` (the row's name is
  the newest of the trail). From these `NamesAreOverrides`, `VerdictsFallOnlyToStaleReads` and
  `FailuresLowerNothing`, for any number of packages, names, resolvers and overrides. `ConfidenceEarned`
  has a second invariant on top of it, `EarnedInv`: what a resolver has in hand `Rests` on what it came
  to and on the feedstock rows there are, and only a person changes the confidence it read. It assumes
  `[]OneAtATime`: no two resolvers hold what they came to about one package. Without it the property is
  false (section 3), and `record_resolution` itself does not prevent two of one package. Of the
  inventory, in the same module: `RetiresTheUnnamed`: what an import has left to retire is not in its
  file. `DoneIsSaid`: what an ingestion is done with says what its document said, or is among its
  failures. From these `FilesRespectRetirement` and `RowsFollowTheDocument`, for any keys and names. One
  import and one ingestion at a time, as the model has it.
- `Retention_proofs`. A batch is decided in one statement and deleted in another, so `ReadingsSurvive`
  and `NewestStays` need to know what happened between: `EvidenceDated` (nothing is dated in the
  future), `RunsAreBehind` (a run reads at a cut-off no later than its begin), `PurgeIsBehind` (the
  purge's horizon and its instant have passed), `BatchIsOld` (what is in the batch is past retention and
  superseded by a row that is not in the batch) and `BatchIsUnread` (no run that stays, but one begun
  since, reads a row of it). Of what a run does, only its begin and the writers' steps matter to these;
  deriving, composing and ending change none of it. `NewestIsKept` and `ReadingsAreKept` hold for any
  runs, tables, readers and retention.
- `Sweep_proofs`, for sweeps and for background jobs. `OneDrain` is inductive over typing and `Named` (a
  press and a run are of some package): a dispatch gets clear only while no other of its collector has a
  row, so none is offering; and whoever opens later finds its row. Likewise `OnePressWaits`: a press is
  accepted under the package's lock only while no other waits, and waiting never begins again. Of
  background jobs: the request's progress determines whether its row exists, and nothing is sent for a
  job without one; from that `JobsAreThere` and `NeverRestarts`.
- `Assessment_proofs`, for any advisories, labels, expressions, readable parameters, identities, replies,
  runs and bounds. The first part says of each collector what `Sources` makes it write: rows of the shape
  the table accepts, all at the instant of the sweep (`Written`). The inductive invariant `IInv` relates
  the present to what made it: `EvidenceInv` (the rows of every sweep are those of a reply its source can
  give, the catalog's asked of matches of then or earlier), `RunInv` (whatever a run derived is
  `Derived` of the evidence of its cut-off, though sweeps have been added since) and `RollupInv` (the
  rollup gates what its run derived by what its run loaded). `RunInv` is kept because an observation is
  later than every cut-off in use (`EvidenceStep`), and so the evidence at a cut-off never changes
  (`SameEvidence`). Every property of the two runs then follows from a state of `IInv`, by what the
  passes read: the reductions (`VulnerabilityReduced`, ... `CurrencyReduced`), the first wanted row of a
  table (`FirstOf`, `FirstRead`), and what a fresh row, an availability or a cross-reference implies
  (`FreshReadings`, `FixPublished`, `CrossReference`). `SilenceIsNotClean`, `ClaimsAreFresh`,
  `ClaimsAreRead` and `ReplayedAlike` take no further assumption. `RowsAreAccepted` has a lemma for the
  constraints of each derived table (`CurrencyHolds` ... `PriorityHolds`), over `EvidenceAccepted` for
  the evidence tables. `OneStory` assumes `AnsweredByWork` of every version's rules: each rule asks for a
  verdict some work type answers, and the first three buckets ask for a match. The code does not enforce
  it; the shipped rules have it (`ShippedRulesAnswered` of `MCAssessment`).

Checked by TLC only:

- liveness: `EveryJobEnds`, `ListedIsObserved`, `DepartureIsRecorded`, `OfferedAgain`,
  `PackageComesFree`, `OldRunsGo`. The prover does not do liveness under fairness.

## 6. Not modelled, and what is left

- `SigningKeys` (`src/src/config/authorization/jwks.py`): expiry, the refetch limit and rotation of a
  key set kept in one process. Listed as a hazard.
- Process drain and health: two flags that only rise.
- Start-up checks, settings, observability: predicates and constants, evaluated once.
- Surfaces and API views: read-only queries and rendering, a large part of the source's lines. The one
  view that writes is in `WorkflowItems`.
- Parsing of third-party documents, SPDX expressions and version specifiers: modelled by what they
  decide (`Sources`), never character by character.

Limits of what is modelled: one collector, and so no two sharing an allowance, in the run of `Sweep`;
one reader key and two tables, and no second purge beside a live one, in `Retention`; two dispatches of
a collector at once in `Sweep`; one ingestion at a time, of the database source, in `Inventory`; a
selection that does not change while it is offered; one package in the runs of `QueueOpening`,
`Collection` and `Assessment`, which never relate two; rendering, and what a channel answers, in
`Digest`.

The order in which the rest would be done: `SigningKeys`; the composition of `Sweep` with `Collection`,
in which a message taken is a `Begin`.
