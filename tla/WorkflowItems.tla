---------------------------- MODULE WorkflowItems ----------------------------
(***************************************************************************)
(* The queue items of workflow/: the rows of workflow_items and            *)
(* workflow_transitions, and the three functions of workflow/services.py   *)
(* that write them.                                                        *)
(*                                                                         *)
(*   open_keyed_item    the policy run files work under a finding key      *)
(*   apply_transition   a person moves an item, through the API view       *)
(*   close_for_absence  the product resolves an item by itself             *)
(*                                                                         *)
(* Each of them is one database transaction holding the row lock, so each  *)
(* is one step.  What is NOT one step is a person's move: the page is      *)
(* rendered, later the view reads the item's queue to choose the           *)
(* permission, later still apply_transition takes the lock.  Everybody     *)
(* else may run in between.                                                *)
(***************************************************************************)
EXTENDS WorkflowStates, Naturals, Sequences

CONSTANTS
    Findings,       \* finding keys work can be filed under
    OpeningQueue,   \* the queue the opener files each finding in
    Users,          \* people calling the transition endpoint
    RolesOf,        \* granted_roles: the product roles each person holds
    System,         \* the author of the product's own move
    None,           \* the null claim, and "no item" in a request
    MaxTrail        \* bound: audit rows one item may collect

ASSUME FindingsAssumption == OpeningQueue \in [Findings -> Queues]
ASSUME UsersAssumption    == RolesOf \in [Users -> SUBSET AnyProductRole]
ASSUME AuthorsAssumption  == System \notin Users /\ None \notin Users /\ System # None
ASSUME BoundAssumption    == MaxTrail \in Nat

VARIABLES
    items,      \* workflow_items: finding |-> state, queue, claimed_by
    trail,      \* workflow_transitions: finding |-> its audit rows, in order
    requests    \* person |-> the move they are in the middle of asking for

vars == <<items, trail, requests>>

-----------------------------------------------------------------------------
(* The rows *)

\* The finding has no row yet; a state no row can carry.
NoItem == [state |-> "none", queue |-> "none", claimed_by |-> None]

ItemRow == [state : ItemStates, queue : Queues, claimed_by : Users \cup {None}]

AuditRow == [from : ItemStates, to : ItemStates, queue : Queues,
             author : Users \cup {System}, reason : BOOLEAN]

Idle == [phase |-> "idle", item |-> None, expected |-> "none"]

Request == {Idle} \cup [phase : {"rendered", "permitted"}, item : Findings, expected : ItemStates]

Exists(k) == items[k] # NoItem

LastRow(k) == trail[k][Len(trail[k])]

Init ==
    /\ items = [k \in Findings |-> NoItem]
    /\ trail = [k \in Findings |-> <<>>]
    /\ requests = [u \in Users |-> Idle]

-----------------------------------------------------------------------------
(* What the functions of services.py do to the two tables *)

\* The item row after a move.  The claim is the mover's in in_progress and
\* nobody's anywhere else.
MovedItem(row, to, queue, claimant) ==
    [state |-> to, queue |-> queue,
     claimed_by |-> IF to = "in_progress" THEN claimant ELSE None]

\* Mutant of Record: the audit row keeps the queue the item was moved from.
RecordOldQueue(k, to, queue, author, reason) ==
    /\ items' = [items EXCEPT ![k] = MovedItem(@, to, queue, author)]
    /\ trail' = [trail EXCEPT ![k] = Append(@, [from |-> items[k].state, to |-> to, queue |-> items[k].queue,
                                               author |-> author, reason |-> reason])]

\* Save the item and append its audit row, in one transaction.
Record(k, to, queue, author, reason) ==
    /\ items' = [items EXCEPT ![k] = MovedItem(@, to, queue, author)]
    /\ trail' = [trail EXCEPT ![k] = Append(@, [from |-> items[k].state, to |-> to, queue |-> queue,
                                               author |-> author, reason |-> reason])]

\* open_keyed_item.  Finding the row that already exists writes nothing, so
\* only the creating outcome of get_or_create is a step.
OpenItem(k) ==
    /\ ~Exists(k)
    /\ items' = [items EXCEPT ![k] = [state |-> "open", queue |-> OpeningQueue[k], claimed_by |-> None]]
    /\ UNCHANGED <<trail, requests>>

\* _require_expected.
RequireExpected(k, expected) == items[k].state = expected

\* _require_role: the locked row's move, the roles the person holds now.
RequireRole(u, declared) == RolesOf[u] \cap declared.roles # {}

\* _require_justification.
RequireJustification(declared, reason) == declared.needs_reason => reason

\* apply_transition: the four checks under the row lock, then the move.  The
\* queue a body names is used whatever the move is; "" keeps the current one.
ApplyTransition(u, k, expected, to, queue, reason) ==
    /\ Len(trail[k]) < MaxTrail
    /\ RequireExpected(k, expected)
    /\ \E declared \in TransitionFor(items[k].state, to) :      \* _require_declared
          /\ RequireRole(u, declared)
          /\ RequireJustification(declared, reason)
    /\ Record(k, to, IF queue = "" THEN items[k].queue ELSE queue, u, reason)

\* close_for_absence: an item already at an ending is left alone.
CloseForAbsence(k) ==
    /\ Exists(k)
    /\ Len(trail[k]) < MaxTrail
    /\ \E declared \in SystemTransitionFor(items[k].state) :
          Record(k, declared.to, items[k].queue, System, TRUE)
    /\ UNCHANGED requests

-----------------------------------------------------------------------------
(* A person's move through the API *)

\* The person reads the item; the state shown is the one they will expect.
Render(u, k) ==
    /\ requests[u] = Idle
    /\ Exists(k)
    /\ requests' = [requests EXCEPT ![u] = [phase |-> "rendered", item |-> k, expected |-> items[k].state]]
    /\ UNCHANGED <<items, trail>>

\* The view's gate: the role owning the queue the item is in at this read.
OwnsQueue(u, k) == QUEUE_OWNERS[items[k].queue] \in RolesOf[u]

\* WorkflowItemTransitionAPIView.initial lets the request through ...
Permit(u) ==
    /\ requests[u].phase = "rendered"
    /\ OwnsQueue(u, requests[u].item)
    /\ requests' = [requests EXCEPT ![u].phase = "permitted"]
    /\ UNCHANGED <<items, trail>>

\* ... or answers 403.
Forbid(u) ==
    /\ requests[u].phase = "rendered"
    /\ ~OwnsQueue(u, requests[u].item)
    /\ requests' = [requests EXCEPT ![u] = Idle]
    /\ UNCHANGED <<items, trail>>

\* post: the service makes the move ...
Move(u) ==
    /\ requests[u].phase = "permitted"
    /\ \E to \in ItemStates, queue \in Queues \cup {""}, reason \in BOOLEAN :
          ApplyTransition(u, requests[u].item, requests[u].expected, to, queue, reason)
    /\ requests' = [requests EXCEPT ![u] = Idle]

\* ... or refuses it, and the view answers 409 with nothing written.  A body
\* can always name a move nobody declared, so a refusal is always possible.
Refuse(u) ==
    /\ requests[u].phase = "permitted"
    /\ requests' = [requests EXCEPT ![u] = Idle]
    /\ UNCHANGED <<items, trail>>

Next ==
    \/ \E k \in Findings : OpenItem(k) \/ CloseForAbsence(k)
    \/ \E u \in Users : \/ \E k \in Findings : Render(u, k)
                        \/ Permit(u) \/ Forbid(u) \/ Move(u) \/ Refuse(u)

Spec == Init /\ [][Next]_vars

-----------------------------------------------------------------------------
(* Properties *)

\* Every variable holds the rows its table can hold.
TypeOK ==
    /\ items \in [Findings -> ItemRow \cup {NoItem}]
    /\ trail \in [Findings -> Seq(AuditRow)]
    /\ requests \in [Users -> Request]

\* An item is claimed exactly while it is in progress: the constraint
\* CLAIMED_ONLY_IN_PROGRESS, which the two writers have to meet themselves.
ClaimedOnlyInProgress ==
    \A k \in Findings : items[k].claimed_by # None <=> items[k].state = "in_progress"

\* The audit trail alone explains the item: it starts at open, each row picks
\* up where the one before left off, and it ends at the row's present state,
\* queue and claimant.  A move with no audit row, an audit row with no move,
\* or a row describing another move breaks it.
AuditTrailExplainsItem ==
    \A k \in Findings :
        /\ trail[k] = <<>> => items[k] \in {NoItem, [state |-> "open", queue |-> OpeningQueue[k], claimed_by |-> None]}
        /\ trail[k] # <<>> =>
              /\ trail[k][1].from = "open"
              /\ items[k].state = LastRow(k).to
              /\ items[k].queue = LastRow(k).queue
              /\ items[k].state = "in_progress" => items[k].claimed_by = LastRow(k).author
        /\ \A i \in 1..(Len(trail[k]) - 1) : trail[k][i].to = trail[k][i + 1].from

\* Every audited move is one the tables declare for its author: a person made
\* it under a role the move requires and with a reason where one is demanded,
\* or the product closed a live item with a reason.
EveryMoveWasDeclared ==
    \A k \in Findings : \A i \in 1..Len(trail[k]) :
        LET row == trail[k][i] IN
        IF row.author = System
        THEN row.reason /\ SystemTransitionFor(row.from) = {[from |-> row.from, to |-> row.to]}
        ELSE \E t \in TransitionFor(row.from, row.to) :
                RolesOf[row.author] \cap t.roles # {} /\ (t.needs_reason => row.reason)

\* An ending is final: no person, run or replay changes a resolved or accepted
\* item or adds to its trail.
EndingsAreFinal ==
    [][\A k \in Findings : items[k].state \in TerminalStates =>
            items'[k] = items[k] /\ trail'[k] = trail[k]]_vars

\* A claim changes hands only by being given up: while somebody holds it,
\* nobody else can take it over in one step, however stale their page.
ClaimIsNeverTakenOver ==
    [][\A k \in Findings : items[k].claimed_by # None =>
            items'[k].claimed_by \in {items[k].claimed_by, None}]_vars

\* The service's contract: work is filed once, ends once, and each step of it
\* leaves one audit row.
StageOf(row) ==
    IF row.state = "none" THEN "unfiled"
    ELSE IF row.state = "open" THEN "untouched"
    ELSE IF row.state \in TerminalStates THEN "ended" ELSE "worked"

Lifecycle == INSTANCE FindingLifecycle WITH
    stage   <- [k \in Findings |-> StageOf(items[k])],
    entries <- [k \in Findings |-> Len(trail[k])]

ImplementsLifecycle == Lifecycle!Spec
=============================================================================
