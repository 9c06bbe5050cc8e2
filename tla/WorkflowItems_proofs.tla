------------------------- MODULE WorkflowItems_proofs -------------------------
(***************************************************************************)
(* Proofs about WorkflowItems, for any findings, people, roles and bound.  *)
(*                                                                         *)
(* The argument: a step either files an item, or records a declared move   *)
(* (item row and audit row together), or touches requests only             *)
(* (StepKinds).  Each invariant is then preserved case by case.            *)
(***************************************************************************)
EXTENDS WorkflowItems, TLAPS

\* A recorded move is one the tables declare for its author.
DeclaredMove(from, to, author, reason) ==
    IF author = System
    THEN from \in LiveStates /\ to = "resolved" /\ reason
    ELSE \E t \in TransitionFor(from, to) :
            RolesOf[author] \cap t.roles # {} /\ (t.needs_reason => reason)

\* A step that records a move of finding k, and nothing of any other finding.
RecordsMove(k, to, queue, author, reason) ==
    /\ Exists(k)
    /\ DeclaredMove(items[k].state, to, author, reason)
    /\ Record(k, to, queue, author, reason)

\* The two sentinel records, field by field.
LEMMA SentinelFields ==
    /\ NoItem.state = "none" /\ NoItem.queue = "none" /\ NoItem.claimed_by = None
    /\ Idle.phase = "idle" /\ Idle.item = None /\ Idle.expected = "none"
BY DEF NoItem, Idle

\* The tables only ever join a live state to a state other than open, and only
\* a person's move leads to in_progress.
LEMMA DeclaredMovesStartLive ==
    ASSUME NEW from, NEW to, NEW author, NEW reason, DeclaredMove(from, to, author, reason)
    PROVE  /\ from \in LiveStates /\ to \in ItemStates /\ to # "open"
           /\ to = "in_progress" => author # System
<1>1. CASE author = System
    BY <1>1 DEF DeclaredMove, LiveStates, ItemStates, TerminalStates
<1>2. CASE author # System
    <2>1. PICK t \in TRANSITIONS : t.from = from /\ t.to = to
        BY <1>2 DEF DeclaredMove, TransitionFor
    <2>2. QED
        BY <1>2, <2>1 DEF TRANSITIONS, Human, LiveStates, ItemStates, TerminalStates
<1>3. QED
    BY <1>1, <1>2

\* Every step is of one of three kinds.
LEMMA StepKinds ==
    ASSUME TypeOK, [Next]_vars
    PROVE  \/ \E k \in Findings : OpenItem(k)
           \/ \E k \in Findings, to \in ItemStates, queue \in Queues,
                 author \in Users \cup {System}, reason \in BOOLEAN :
                    RecordsMove(k, to, queue, author, reason)
           \/ UNCHANGED <<items, trail>>
<1>1. CASE UNCHANGED vars
    BY <1>1 DEF vars
<1>2. ASSUME NEW k \in Findings, CloseForAbsence(k)
      PROVE  RecordsMove(k, "resolved", items[k].queue, System, TRUE) /\ items[k].queue \in Queues
    <2>1. items[k] \in ItemRow /\ Exists(k)
        BY <1>2 DEF TypeOK, CloseForAbsence, Exists
    <2>2. PICK d \in SystemTransitionFor(items[k].state) :
              Record(k, d.to, items[k].queue, System, TRUE)
        BY <1>2 DEF CloseForAbsence
    <2>3. d.to = "resolved" /\ items[k].state \in LiveStates
        BY <2>2 DEF SystemTransitionFor, SYSTEM_TRANSITIONS
    <2>4. QED
        BY <2>1, <2>2, <2>3 DEF RecordsMove, DeclaredMove, ItemRow
<1>3. ASSUME NEW u \in Users, Move(u)
      PROVE  \E k \in Findings, to \in ItemStates, queue \in Queues, reason \in BOOLEAN :
                RecordsMove(k, to, queue, u, reason)
    <2>0. u # System
        BY AuthorsAssumption
    <2>1. PICK to \in ItemStates, named \in Queues \cup {""}, reason \in BOOLEAN :
              ApplyTransition(u, requests[u].item, requests[u].expected, to, named, reason)
        BY <1>3 DEF Move
    <2> DEFINE k == requests[u].item
               queue == IF named = "" THEN items[k].queue ELSE named
    <2>2. k \in Findings /\ requests[u].expected \in ItemStates
        <3>1. requests[u] \in Request /\ requests[u].phase = "permitted"
            BY <1>3 DEF Move, TypeOK
        <3>2. requests[u] # Idle
            BY <3>1, SentinelFields
        <3>3. QED
            BY <3>1, <3>2 DEF Request
    <2>3. items[k].state = requests[u].expected
        BY <2>1 DEF ApplyTransition, RequireExpected
    <2>4. items[k] # NoItem
        <3>1. "none" \notin ItemStates
            BY DEF ItemStates
        <3>2. QED
            BY <2>2, <2>3, <3>1, SentinelFields
    <2>5. items[k] \in ItemRow
        BY <2>2, <2>4 DEF TypeOK
    <2>6. queue \in Queues
        BY <2>1, <2>5 DEF ItemRow
    <2>7. DeclaredMove(items[k].state, to, u, reason)
        BY <2>0, <2>1 DEF ApplyTransition, DeclaredMove, RequireRole, RequireJustification
    <2>8. Record(k, to, queue, u, reason)
        BY <2>1 DEF ApplyTransition
    <2>9. QED
        BY <2>1, <2>2, <2>4, <2>6, <2>7, <2>8 DEF RecordsMove, Exists
<1>4. ASSUME NEW u \in Users, \/ \E k \in Findings : Render(u, k)
                              \/ Permit(u) \/ Forbid(u) \/ Refuse(u)
      PROVE  UNCHANGED <<items, trail>>
    BY <1>4 DEF Render, Permit, Forbid, Refuse
<1>5. QED
    BY <1>1, <1>2, <1>3, <1>4 DEF Next, ItemStates

-----------------------------------------------------------------------------
(* Types *)

\* A recorded move leaves well-typed rows.
LEMMA RecordTypes ==
    ASSUME TypeOK, NEW k \in Findings, NEW to \in ItemStates, NEW queue \in Queues,
           NEW author \in Users \cup {System}, NEW reason \in BOOLEAN,
           RecordsMove(k, to, queue, author, reason)
    PROVE  /\ items' \in [Findings -> ItemRow \cup {NoItem}]
           /\ trail' \in [Findings -> Seq(AuditRow)]
           /\ items[k] \in ItemRow
<1>1. items[k] \in ItemRow
    BY DEF TypeOK, RecordsMove, Exists
<1>2. to = "in_progress" => author \in Users
    BY DeclaredMovesStartLive DEF RecordsMove
<1>3. MovedItem(items[k], to, queue, author) \in ItemRow
    BY <1>2 DEF MovedItem, ItemRow
<1>4. [from |-> items[k].state, to |-> to, queue |-> queue, author |-> author, reason |-> reason] \in AuditRow
    BY <1>1 DEF AuditRow, ItemRow
<1>5. QED
    BY <1>1, <1>3, <1>4 DEF TypeOK, RecordsMove, Record

\* The requests stay requests.
LEMMA RequestTypes ==
    ASSUME TypeOK, [Next]_vars
    PROVE  requests' \in [Users -> Request]
<1>1. ASSUME NEW u \in Users, NEW k \in Findings, Render(u, k)
      PROVE  requests' \in [Users -> Request]
    <2>1. items[k] \in ItemRow
        BY <1>1 DEF Render, TypeOK, Exists
    <2>2. QED
        BY <1>1, <2>1 DEF Render, TypeOK, Request, ItemRow
<1>2. ASSUME NEW u \in Users, Permit(u)
      PROVE  requests' \in [Users -> Request]
    <2>1. requests[u] \in Request /\ requests[u].phase = "rendered"
        BY <1>2 DEF Permit, TypeOK
    <2>2. requests[u] # Idle
        BY <2>1, SentinelFields
    <2>3. [requests[u] EXCEPT !.phase = "permitted"] \in Request
        BY <2>1, <2>2 DEF Request
    <2>4. requests' = [requests EXCEPT ![u] = [requests[u] EXCEPT !.phase = "permitted"]]
        BY <1>2 DEF Permit
    <2>5. QED
        BY <2>3, <2>4 DEF TypeOK
<1>3. ASSUME NEW u \in Users, Forbid(u) \/ Move(u) \/ Refuse(u)
      PROVE  requests' \in [Users -> Request]
    BY <1>3 DEF Forbid, Move, Refuse, TypeOK, Request
<1>4. ASSUME \/ \E k \in Findings : OpenItem(k) \/ CloseForAbsence(k)
             \/ UNCHANGED vars
      PROVE  requests' \in [Users -> Request]
    BY <1>4 DEF OpenItem, CloseForAbsence, TypeOK, vars
<1>5. QED
    BY <1>1, <1>2, <1>3, <1>4 DEF Next

LEMMA TypeStep == ASSUME TypeOK, [Next]_vars PROVE TypeOK'
<1>1. CASE \E k \in Findings : OpenItem(k)
    <2>1. PICK k \in Findings : OpenItem(k)
        BY <1>1
    <2>2. [state |-> "open", queue |-> OpeningQueue[k], claimed_by |-> None] \in ItemRow
        BY FindingsAssumption DEF ItemRow, ItemStates
    <2>3. QED
        BY <2>1, <2>2, RequestTypes DEF OpenItem, TypeOK
<1>2. CASE \E k \in Findings, to \in ItemStates, queue \in Queues,
              author \in Users \cup {System}, reason \in BOOLEAN :
                 RecordsMove(k, to, queue, author, reason)
    <2>1. PICK k \in Findings, to \in ItemStates, queue \in Queues,
               author \in Users \cup {System}, reason \in BOOLEAN :
                 RecordsMove(k, to, queue, author, reason)
        BY <1>2
    <2>2. /\ items' \in [Findings -> ItemRow \cup {NoItem}]
          /\ trail' \in [Findings -> Seq(AuditRow)]
        BY <2>1, RecordTypes
    <2>3. QED
        BY <2>2, RequestTypes DEF TypeOK
<1>3. CASE UNCHANGED <<items, trail>>
    BY <1>3, RequestTypes DEF TypeOK
<1>4. QED
    BY <1>1, <1>2, <1>3, StepKinds

\* Every reachable state is well typed.
THEOREM TypeCorrect == Spec => []TypeOK
<1>1. Init => TypeOK
    BY DEF Init, TypeOK, Request
<1>2. QED
    BY <1>1, TypeStep, PTL DEF Spec

-----------------------------------------------------------------------------
(* The claim and the trail *)

LEMMA ClaimStep ==
    ASSUME TypeOK, ClaimedOnlyInProgress, [Next]_vars
    PROVE  ClaimedOnlyInProgress'
<1>1. CASE \E k \in Findings : OpenItem(k)
    BY <1>1 DEF OpenItem, TypeOK, ClaimedOnlyInProgress
<1>2. CASE \E k \in Findings, to \in ItemStates, queue \in Queues,
              author \in Users \cup {System}, reason \in BOOLEAN :
                 RecordsMove(k, to, queue, author, reason)
    <2>1. PICK k \in Findings, to \in ItemStates, queue \in Queues,
               author \in Users \cup {System}, reason \in BOOLEAN :
                 RecordsMove(k, to, queue, author, reason)
        BY <1>2
    <2>2. to = "in_progress" => author \in Users
        BY <2>1, DeclaredMovesStartLive DEF RecordsMove
    <2>3. author \in Users => author # None
        BY AuthorsAssumption
    <2>4. items' = [items EXCEPT ![k] = MovedItem(items[k], to, queue, author)]
        BY <2>1 DEF RecordsMove, Record
    <2>5. QED
        BY <2>2, <2>3, <2>4 DEF MovedItem, TypeOK, ClaimedOnlyInProgress
<1>3. CASE UNCHANGED <<items, trail>>
    BY <1>3 DEF ClaimedOnlyInProgress
<1>4. QED
    BY <1>1, <1>2, <1>3, StepKinds

\* An item is claimed exactly while it is in progress.
THEOREM ClaimCorrect == Spec => []ClaimedOnlyInProgress
<1>1. Init => ClaimedOnlyInProgress
    BY DEF Init, ClaimedOnlyInProgress, NoItem
<1>2. QED
    BY <1>1, TypeCorrect, ClaimStep, PTL DEF Spec

\* What a recorded move does to the two tables, row by row.
Effect(k, to, queue, author, reason) ==
    /\ \A j \in Findings : j # k => items'[j] = items[j] /\ trail'[j] = trail[j]
    /\ items'[k] = MovedItem(items[k], to, queue, author)
    /\ Len(trail'[k]) = Len(trail[k]) + 1 /\ Len(trail[k]) \in Nat
    /\ \A i \in 1..Len(trail[k]) : trail'[k][i] = trail[k][i]
    /\ trail'[k][Len(trail[k]) + 1] =
          [from |-> items[k].state, to |-> to, queue |-> queue, author |-> author, reason |-> reason]

LEMMA RecordEffect ==
    ASSUME TypeOK, NEW k \in Findings, NEW to \in ItemStates, NEW queue \in Queues,
           NEW author \in Users \cup {System}, NEW reason \in BOOLEAN,
           RecordsMove(k, to, queue, author, reason)
    PROVE  Effect(k, to, queue, author, reason)
<1> DEFINE row == [from |-> items[k].state, to |-> to, queue |-> queue, author |-> author, reason |-> reason]
<1>1. /\ items' = [items EXCEPT ![k] = MovedItem(items[k], to, queue, author)]
      /\ trail' = [trail EXCEPT ![k] = Append(trail[k], row)]
    BY DEF RecordsMove, Record
<1>2. trail[k] \in Seq(AuditRow) /\ row \in AuditRow
    <2>1. items[k] \in ItemRow
        BY RecordTypes
    <2>2. QED
        BY <2>1 DEF TypeOK, AuditRow, ItemRow
<1>3. trail'[k] = Append(trail[k], row)
    BY <1>1 DEF TypeOK
<1>4. /\ Len(trail'[k]) = Len(trail[k]) + 1 /\ Len(trail[k]) \in Nat
      /\ \A i \in 1..Len(trail[k]) : trail'[k][i] = trail[k][i]
      /\ trail'[k][Len(trail[k]) + 1] = row
    BY <1>2, <1>3
<1>5. QED
    BY <1>1, <1>4 DEF TypeOK, Effect

LEMMA TrailStep ==
    ASSUME TypeOK, AuditTrailExplainsItem, [Next]_vars
    PROVE  AuditTrailExplainsItem'
<1> DEFINE Opened(k) == [state |-> "open", queue |-> OpeningQueue[k], claimed_by |-> None]
           Explains(k) ==
              /\ trail[k] = <<>> => items[k] \in {NoItem, Opened(k)}
              /\ trail[k] # <<>> =>
                    /\ trail[k][1].from = "open"
                    /\ items[k].state = LastRow(k).to
                    /\ items[k].queue = LastRow(k).queue
                    /\ items[k].state = "in_progress" => items[k].claimed_by = LastRow(k).author
              /\ \A i \in 1..(Len(trail[k]) - 1) : trail[k][i].to = trail[k][i + 1].from
<1>0. \A k \in Findings : Explains(k)
    BY DEF AuditTrailExplainsItem
<1>1. CASE \E k \in Findings : OpenItem(k)
    <2>1. PICK k \in Findings : OpenItem(k)
        BY <1>1
    <2>2. trail[k] = <<>>
        <3>1. SUFFICES ASSUME trail[k] # <<>> PROVE FALSE
            OBVIOUS
        <3>2. items[k].state = LastRow(k).to /\ items[k].state = "none"
            BY <1>0, <2>1, <3>1, SentinelFields DEF OpenItem, Exists
        <3>3. LastRow(k) \in AuditRow
            BY <3>1 DEF TypeOK, LastRow
        <3>4. QED
            BY <3>2, <3>3 DEF AuditRow, ItemStates
    <2>3. items'[k] = Opened(k) /\ trail'[k] = <<>>
        BY <2>1, <2>2 DEF OpenItem, TypeOK
    <2>4. Explains(k)'
        BY <2>3
    <2>5. ASSUME NEW j \in Findings, j # k PROVE Explains(j)'
        BY <1>0, <2>1, <2>5 DEF OpenItem, TypeOK, LastRow
    <2>6. QED
        BY <2>4, <2>5 DEF AuditTrailExplainsItem
<1>2. CASE \E k \in Findings, to \in ItemStates, queue \in Queues,
              author \in Users \cup {System}, reason \in BOOLEAN :
                 RecordsMove(k, to, queue, author, reason)
    <2>1. PICK k \in Findings, to \in ItemStates, queue \in Queues,
               author \in Users \cup {System}, reason \in BOOLEAN :
                 RecordsMove(k, to, queue, author, reason)
        BY <1>2
    <2> DEFINE n == Len(trail[k])
    <2>0. Effect(k, to, queue, author, reason)
        BY <2>1, RecordEffect
    <2>2. /\ \A j \in Findings : j # k => items'[j] = items[j] /\ trail'[j] = trail[j]
          /\ items'[k] = MovedItem(items[k], to, queue, author)
          /\ Len(trail'[k]) = n + 1 /\ n \in Nat
          /\ \A i \in 1..n : trail'[k][i] = trail[k][i]
          /\ trail'[k][n + 1] =
                [from |-> items[k].state, to |-> to, queue |-> queue, author |-> author, reason |-> reason]
        BY <2>0 DEF Effect
    <2>3. trail'[k] # <<>>
        BY <2>2
    <2>4. /\ items'[k].state = LastRow(k)'.to
          /\ items'[k].queue = LastRow(k)'.queue
          /\ items'[k].state = "in_progress" => items'[k].claimed_by = LastRow(k)'.author
        BY <2>2 DEF MovedItem, LastRow
    <2>5. ASSUME trail[k] = <<>>
          PROVE  n = 0 /\ items[k].state = "open"
        BY <1>0, <2>1, <2>5 DEF RecordsMove, Exists
    <2>6. ASSUME trail[k] # <<>>
          PROVE  n >= 1 /\ trail[k][1].from = "open" /\ trail[k][n].to = items[k].state
        BY <1>0, <2>6 DEF LastRow, TypeOK
    <2>7. trail'[k][1].from = "open"
        <3>1. CASE trail[k] = <<>>
            BY <2>2, <2>5, <3>1
        <3>2. CASE trail[k] # <<>>
            BY <2>2, <2>6, <3>2
        <3>3. QED
            BY <3>1, <3>2
    <2>8. ASSUME NEW i \in 1..n
          PROVE  trail'[k][i].to = trail'[k][i + 1].from
        <3>1. CASE i = n
            <4>1. trail[k] # <<>> /\ trail[k][n].to = items[k].state
                BY <2>2, <2>5, <2>6, <3>1
            <4>2. trail'[k][n].to = items[k].state
                BY <2>2, <3>1, <4>1
            <4>3. trail'[k][n + 1].from = items[k].state
                BY <2>2
            <4>4. QED
                BY <3>1, <4>2, <4>3
        <3>2. CASE i # n
            <4>1. i \in 1..(n - 1) /\ i + 1 \in 1..n /\ i \in 1..n
                BY <2>2, <3>2
            <4>2. trail[k][i].to = trail[k][i + 1].from
                BY <1>0, <4>1
            <4>3. QED
                BY <2>2, <4>1, <4>2
        <3>3. QED
            BY <3>1, <3>2
    <2>9. Explains(k)'
        BY <2>2, <2>3, <2>4, <2>7, <2>8
    <2>10. ASSUME NEW j \in Findings, j # k PROVE Explains(j)'
        BY <1>0, <2>2, <2>10 DEF LastRow
    <2>11. QED
        BY <2>9, <2>10 DEF AuditTrailExplainsItem
<1>3. CASE UNCHANGED <<items, trail>>
    BY <1>3 DEF AuditTrailExplainsItem, LastRow
<1>4. QED
    BY <1>1, <1>2, <1>3, StepKinds

\* In every reachable state the audit trail of an item is an unbroken chain
\* from open to the state, queue and claimant the item row now holds.
THEOREM TrailCorrect == Spec => []AuditTrailExplainsItem
<1>1. Init => AuditTrailExplainsItem
    BY DEF Init, AuditTrailExplainsItem
<1>2. QED
    BY <1>1, TypeCorrect, TrailStep, PTL DEF Spec

-----------------------------------------------------------------------------
(* Every audited move was declared *)

LEMMA DeclaredStep ==
    ASSUME TypeOK, EveryMoveWasDeclared, [Next]_vars
    PROVE  EveryMoveWasDeclared'
<1> DEFINE Declared(row) ==
        IF row.author = System
        THEN row.reason /\ SystemTransitionFor(row.from) = {[from |-> row.from, to |-> row.to]}
        ELSE \E t \in TransitionFor(row.from, row.to) :
                RolesOf[row.author] \cap t.roles # {} /\ (t.needs_reason => row.reason)
<1>0. \A k \in Findings : \A i \in 1..Len(trail[k]) : Declared(trail[k][i])
    BY DEF EveryMoveWasDeclared
<1>1. CASE \E k \in Findings : OpenItem(k)
    BY <1>1 DEF OpenItem, EveryMoveWasDeclared
<1>2. CASE \E k \in Findings, to \in ItemStates, queue \in Queues,
              author \in Users \cup {System}, reason \in BOOLEAN :
                 RecordsMove(k, to, queue, author, reason)
    <2>1. PICK k \in Findings, to \in ItemStates, queue \in Queues,
               author \in Users \cup {System}, reason \in BOOLEAN :
                 RecordsMove(k, to, queue, author, reason)
        BY <1>2
    <2> DEFINE n == Len(trail[k])
               row == [from |-> items[k].state, to |-> to, queue |-> queue, author |-> author, reason |-> reason]
    <2>0. Effect(k, to, queue, author, reason)
        BY <2>1, RecordEffect
    <2>2. /\ \A j \in Findings : j # k => trail'[j] = trail[j]
          /\ Len(trail'[k]) = n + 1 /\ n \in Nat
          /\ \A i \in 1..n : trail'[k][i] = trail[k][i]
          /\ trail'[k][n + 1] = row
        BY <2>0 DEF Effect
    <2>3. Declared(row)
        <3>1. DeclaredMove(items[k].state, to, author, reason)
            BY <2>1 DEF RecordsMove
        <3>2. CASE author = System
            BY <3>1, <3>2 DEF DeclaredMove, SystemTransitionFor, SYSTEM_TRANSITIONS
        <3>3. CASE author # System
            BY <3>1, <3>3 DEF DeclaredMove
        <3>4. QED
            BY <3>2, <3>3
    <2>4. ASSUME NEW j \in Findings, NEW i \in 1..Len(trail'[j])
          PROVE  Declared(trail'[j][i])
        <3>1. CASE j # k
            BY <1>0, <2>2, <3>1
        <3>2. CASE j = k /\ i \in 1..n
            BY <1>0, <2>2, <3>2
        <3>3. CASE j = k /\ i = n + 1
            BY <2>2, <2>3, <3>3
        <3>4. QED
            BY <2>2, <3>1, <3>2, <3>3
    <2>5. QED
        BY <2>4 DEF EveryMoveWasDeclared
<1>3. CASE UNCHANGED <<items, trail>>
    BY <1>3 DEF EveryMoveWasDeclared
<1>4. QED
    BY <1>1, <1>2, <1>3, StepKinds

\* No audit row records a move its author was not entitled to by the tables.
THEOREM DeclaredCorrect == Spec => []EveryMoveWasDeclared
<1>1. Init => EveryMoveWasDeclared
    BY DEF Init, EveryMoveWasDeclared
<1>2. QED
    BY <1>1, TypeCorrect, DeclaredStep, PTL DEF Spec

-----------------------------------------------------------------------------
(* Endings are final, and a claim is never taken over *)

LEMMA EndingStep ==
    ASSUME TypeOK, [Next]_vars, NEW k \in Findings, items[k].state \in TerminalStates
    PROVE  items'[k] = items[k] /\ trail'[k] = trail[k]
<1>1. CASE \E j \in Findings : OpenItem(j)
    <2>1. PICK j \in Findings : OpenItem(j)
        BY <1>1
    <2>2. items[j].state = "none"
        BY <2>1, SentinelFields DEF OpenItem, Exists
    <2>3. j # k
        BY <2>2 DEF TerminalStates
    <2>4. QED
        BY <2>1, <2>3 DEF OpenItem, TypeOK
<1>2. CASE \E j \in Findings, to \in ItemStates, queue \in Queues,
              author \in Users \cup {System}, reason \in BOOLEAN :
                 RecordsMove(j, to, queue, author, reason)
    <2>1. PICK j \in Findings, to \in ItemStates, queue \in Queues,
               author \in Users \cup {System}, reason \in BOOLEAN :
                 RecordsMove(j, to, queue, author, reason)
        BY <1>2
    <2>2. items[j].state \in LiveStates
        BY <2>1, DeclaredMovesStartLive DEF RecordsMove
    <2>3. j # k
        BY <2>2 DEF LiveStates
    <2>4. Effect(j, to, queue, author, reason)
        BY <2>1, RecordEffect
    <2>5. QED
        BY <2>3, <2>4 DEF Effect
<1>3. CASE UNCHANGED <<items, trail>>
    BY <1>3
<1>4. QED
    BY <1>1, <1>2, <1>3, StepKinds

\* No step of anybody's changes an item that has ended, or its trail.
THEOREM EndingsFinal == Spec => EndingsAreFinal
<1>1. TypeOK /\ [Next]_vars =>
        [\A k \in Findings : items[k].state \in TerminalStates =>
            items'[k] = items[k] /\ trail'[k] = trail[k]]_vars
    BY EndingStep
<1>2. QED
    BY <1>1, TypeCorrect, PTL DEF Spec, EndingsAreFinal

LEMMA TakeOverStep ==
    ASSUME TypeOK, ClaimedOnlyInProgress, [Next]_vars, NEW k \in Findings, items[k].claimed_by # None
    PROVE  items'[k].claimed_by \in {items[k].claimed_by, None}
<1>0. items[k].state = "in_progress"
    BY DEF ClaimedOnlyInProgress
<1>1. CASE \E j \in Findings : OpenItem(j)
    <2>1. PICK j \in Findings : OpenItem(j)
        BY <1>1
    <2>2. j # k
        BY <1>0, <2>1, SentinelFields DEF OpenItem, Exists
    <2>3. QED
        BY <2>1, <2>2 DEF OpenItem, TypeOK
<1>2. CASE \E j \in Findings, to \in ItemStates, queue \in Queues,
              author \in Users \cup {System}, reason \in BOOLEAN :
                 RecordsMove(j, to, queue, author, reason)
    <2>1. PICK j \in Findings, to \in ItemStates, queue \in Queues,
               author \in Users \cup {System}, reason \in BOOLEAN :
                 RecordsMove(j, to, queue, author, reason)
        BY <1>2
    <2>0. Effect(j, to, queue, author, reason)
        BY <2>1, RecordEffect
    <2>2. CASE j # k
        BY <2>0, <2>2 DEF Effect
    <2>3. CASE j = k
        <3>1. to # "in_progress"
            <4>1. DeclaredMove("in_progress", to, author, reason)
                BY <1>0, <2>1, <2>3 DEF RecordsMove
            <4>2. QED
                BY <4>1 DEF DeclaredMove, TransitionFor, TRANSITIONS, Human
        <3>2. items'[k].claimed_by = None
            BY <2>0, <2>3, <3>1 DEF Effect, MovedItem
        <3>3. QED
            BY <3>2
    <2>4. QED
        BY <2>2, <2>3
<1>3. CASE UNCHANGED <<items, trail>>
    BY <1>3
<1>4. QED
    BY <1>1, <1>2, <1>3, StepKinds

\* While somebody holds an item, no step makes it somebody else's.
THEOREM ClaimsSafe == Spec => ClaimIsNeverTakenOver
<1>1. TypeOK /\ ClaimedOnlyInProgress /\ [Next]_vars =>
        [\A k \in Findings : items[k].claimed_by # None =>
            items'[k].claimed_by \in {items[k].claimed_by, None}]_vars
    BY TakeOverStep
<1>2. QED
    BY <1>1, TypeCorrect, ClaimCorrect, PTL DEF Spec, ClaimIsNeverTakenOver

-----------------------------------------------------------------------------
(* Refinement *)

\* A step files the finding, moves it on, ends it, or does not touch its life.
LEMMA LifecycleStep ==
    ASSUME TypeOK, [Next]_vars
    PROVE  [Lifecycle!Next]_<<[k \in Findings |-> StageOf(items[k])], [k \in Findings |-> Len(trail[k])]>>
<1> DEFINE stage == [k \in Findings |-> StageOf(items[k])]
           entries == [k \in Findings |-> Len(trail[k])]
<1>1. CASE \E k \in Findings : OpenItem(k)
    <2>1. PICK k \in Findings : OpenItem(k)
        BY <1>1
    <2>2. stage[k] = "unfiled"
        BY <2>1, SentinelFields DEF OpenItem, Exists, StageOf
    <2>3. items'[k].state = "open" /\ \A j \in Findings : j # k => items'[j] = items[j]
        BY <2>1 DEF OpenItem, TypeOK
    <2>4. StageOf(items'[k]) = "untouched"
        BY <2>3 DEF StageOf
    <2>5. stage' = [stage EXCEPT ![k] = "untouched"]
        BY <2>3, <2>4
    <2>6. entries' = entries
        BY <2>1 DEF OpenItem
    <2>7. Lifecycle!File(k)
        BY <2>2, <2>5, <2>6 DEF Lifecycle!File
    <2>8. QED
        BY <2>7 DEF Lifecycle!Next
<1>2. CASE \E k \in Findings, to \in ItemStates, queue \in Queues,
              author \in Users \cup {System}, reason \in BOOLEAN :
                 RecordsMove(k, to, queue, author, reason)
    <2>1. PICK k \in Findings, to \in ItemStates, queue \in Queues,
               author \in Users \cup {System}, reason \in BOOLEAN :
                 RecordsMove(k, to, queue, author, reason)
        BY <1>2
    <2>2. items[k].state \in LiveStates /\ to # "open" /\ to \in ItemStates
        BY <2>1, DeclaredMovesStartLive DEF RecordsMove
    <2>3. stage[k] \in {"untouched", "worked"}
        BY <2>2 DEF StageOf, LiveStates, ItemStates, TerminalStates
    <2>4. /\ \A j \in Findings : j # k => items'[j] = items[j] /\ trail'[j] = trail[j]
          /\ items'[k] = MovedItem(items[k], to, queue, author)
          /\ Len(trail'[k]) = Len(trail[k]) + 1
        <3>1. Effect(k, to, queue, author, reason)
            BY <2>1, RecordEffect
        <3>2. QED
            BY <3>1 DEF Effect
    <2>9. items'[k].state = to
        BY <2>4 DEF MovedItem
    <2>5. entries' = [entries EXCEPT ![k] = @ + 1]
        BY <2>4
    <2>6. CASE to \in TerminalStates
        <3>1. StageOf(items'[k]) = "ended"
            BY <2>9, <2>6 DEF StageOf, TerminalStates
        <3>2. stage' = [stage EXCEPT ![k] = "ended"]
            BY <2>4, <3>1
        <3>3. Lifecycle!Finish(k)
            BY <2>3, <2>5, <3>2 DEF Lifecycle!Finish
        <3>4. QED
            BY <3>3 DEF Lifecycle!Next
    <2>7. CASE to \notin TerminalStates
        <3>1. StageOf(items'[k]) = "worked"
            BY <2>2, <2>9, <2>7 DEF StageOf, ItemStates, TerminalStates
        <3>2. stage' = [stage EXCEPT ![k] = "worked"]
            BY <2>4, <3>1
        <3>3. Lifecycle!Work(k)
            BY <2>3, <2>5, <3>2 DEF Lifecycle!Work
        <3>4. QED
            BY <3>3 DEF Lifecycle!Next
    <2>8. QED
        BY <2>6, <2>7
<1>3. CASE UNCHANGED <<items, trail>>
    BY <1>3
<1>4. QED
    BY <1>1, <1>2, <1>3, StepKinds

\* The tables and the three services implement the one-life contract.
THEOREM Refinement == Spec => ImplementsLifecycle
<1>1. Init => Lifecycle!Init
    BY SentinelFields DEF Init, Lifecycle!Init, StageOf
<1>2. QED
    BY <1>1, LifecycleStep, TypeCorrect, PTL DEF Spec, ImplementsLifecycle, Lifecycle!Spec
=============================================================================
