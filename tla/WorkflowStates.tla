--------------------------- MODULE WorkflowStates ---------------------------
(***************************************************************************)
(* The tables of workflow/states.py: what a queue item can be, which role  *)
(* owns each queue, which moves a person may make, and the one move the    *)
(* product makes by itself.  Declared as data, exactly as the source does; *)
(* WorkflowItems interprets them.                                          *)
(***************************************************************************)

SecurityReviewer  == "security_reviewer"
PackagingEngineer == "packaging_engineer"
Leadership        == "leadership"

AnyProductRole == {SecurityReviewer, PackagingEngineer, Leadership}

ItemStates == {"open", "triaged", "routed", "in_progress", "resolved", "accepted"}

TerminalStates == {"resolved", "accepted"}

LiveStates == ItemStates \ TerminalStates

Queues == {"identity_review", "remediation", "compliance_review"}

\* The role that owns each queue.
QUEUE_OWNERS ==
    [q \in Queues |-> CASE q = "identity_review"   -> Leadership
                        [] q = "remediation"       -> PackagingEngineer
                        [] q = "compliance_review" -> SecurityReviewer]

\* A move a person may make: its endpoints, the roles that may make it, and
\* whether it demands a reason.
Human(from, to, roles, reason) ==
    [from |-> from, to |-> to, roles |-> roles, needs_reason |-> reason]

\* Mutant of TRANSITIONS: releasing a claim puts the item back to open.
ReopeningTransitions ==
    { Human("open",        "triaged",     AnyProductRole,     FALSE),
      Human("triaged",     "in_progress", AnyProductRole,     FALSE),
      Human("in_progress", "resolved",    AnyProductRole,     FALSE),
      Human("in_progress", "open",        AnyProductRole,     FALSE),
      Human("triaged",     "accepted",    {SecurityReviewer}, TRUE) }

TRANSITIONS ==
    { Human("open",        "triaged",     AnyProductRole,     FALSE),
      Human("triaged",     "routed",      AnyProductRole,     FALSE),
      Human("triaged",     "in_progress", AnyProductRole,     FALSE),
      Human("routed",      "in_progress", AnyProductRole,     FALSE),
      Human("in_progress", "resolved",    AnyProductRole,     FALSE),
      Human("in_progress", "triaged",     AnyProductRole,     FALSE),
      Human("triaged",     "accepted",    {SecurityReviewer}, TRUE) }

\* Mutant of TransitionFor: the table is searched by target alone.
TransitionTo(from, to) == {t \in TRANSITIONS : t.to = to}

\* transition_for: the declarations joining two states (at most one).
TransitionFor(from, to) == {t \in TRANSITIONS : t.from = from /\ t.to = to}

\* The product's own table: every state that is not an ending, to resolved.
SYSTEM_TRANSITIONS == {[from |-> s, to |-> "resolved"] : s \in LiveStates}

SystemTransitionFor(from) == {t \in SYSTEM_TRANSITIONS : t.from = from}
=============================================================================
