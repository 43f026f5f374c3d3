------------------------------ MODULE GoalBackend ------------------------------
(***************************************************************************)
(* The goal's side of the binding and recovery protocol                    *)
(* (src/src/backend.ts): the backend record of a goal and the pure         *)
(* transitions over it.  A goal is reduced to the work its current stage   *)
(* is, its working memory and its backend; reasons are text for the human  *)
(* and left out, as are the peer's own names (peerId, taskId).             *)
(***************************************************************************)
EXTENDS PeerProtocol

CONSTANT MaxRetainedOperations   \* MAX_RETAINED_OPERATIONS, 16 in the code

ASSUME MaxRetainedAssumption == MaxRetainedOperations \in Nat \ {0}

BackendStates ==
  {"unbound", "binding-pending", "bound-available", "bound-unavailable", "detached"}

Binding == [work : Works, selection : Selections, revision : Nat]

PendingOperation ==
  [ id : Operations, kind : Mutations, scope : Scope, expected : Nat,
    payload : Payloads, previous : BackendStates ]

RetainedOperation ==
  [ id : Operations, kind : Mutations, scope : Scope, expected : Nat,
    payload : Payloads, outcome : {"committed", "quarantined"},
    receipt : Receipt \cup {Nothing} ]

ASSUME NullAssumption == Nothing \notin Binding \cup PendingOperation

Backend ==
  [ state : BackendStates, binding : Binding \cup {Nothing},
    pending : PendingOperation \cup {Nothing}, operations : Seq(RetainedOperation) ]

Goal == [work : Works, notes : Contents, backend : Backend]

EmptyBackend ==
  [state |-> "unbound", binding |-> Nothing, pending |-> Nothing, operations |-> <<>>]

GoalScope(g, selection) == [work |-> g.work, selection |-> selection]

GoalOwnsMemory(b) == b.state \in {"unbound", "detached"}

BackendAdmitsExecution(b) == b.state \notin {"binding-pending", "bound-unavailable"}

ReachableState(kind) == IF kind = "detach" THEN "detached" ELSE "bound-available"

-----------------------------------------------------------------------------
(* The reader of a snapshot.                                               *)

IsCompleteReceipt(receipt, record) ==
  /\ receipt # Nothing
  /\ receipt.id = record.id
  /\ receipt.payload = record.payload
  /\ receipt.scope = record.scope

IsRetainedOperation(record) ==
  IF record.outcome = "committed"
  THEN IsCompleteReceipt(record.receipt, record)
  ELSE record.receipt = Nothing

RetainedIds(b) == {record.id : record \in ToSet(b.operations)}

ClaimsAuthority(b) == b.state \in {"bound-available", "bound-unavailable"}

IsGoalBackend(b) ==
  /\ b \in Backend
  /\ Len(b.operations) <= MaxRetainedOperations
  /\ \A record \in ToSet(b.operations) : IsRetainedOperation(record)
  /\ Cardinality(RetainedIds(b)) = Len(b.operations)
  /\ b.pending # Nothing => b.pending.id \notin RetainedIds(b)
  /\ ClaimsAuthority(b) <=> b.binding # Nothing
  /\ ClaimsAuthority(b) => b.binding.revision # 0
  /\ b.state = "binding-pending" <=> (b.pending # Nothing /\ b.pending.kind = "bind")
  /\ GoalOwnsMemory(b) => b.pending = Nothing
  /\ b.state = "unbound" =>
       \A record \in ToSet(b.operations) : record.outcome = "quarantined"

IsBackendConsistentWithGoal(g) ==
  /\ g.backend.binding # Nothing => g.backend.binding.work = g.work
  /\ g.backend.pending # Nothing => g.backend.pending.scope.work = g.work
  /\ \A record \in ToSet(g.backend.operations) : record.scope.work = g.work

-----------------------------------------------------------------------------
(* Step 1: the intent.                                                     *)

SameIntent(one, other) ==
  /\ one.kind = other.kind
  /\ one.scope = other.scope
  /\ one.expected = other.expected
  /\ one.payload = other.payload

(* Mutant: the records kept of quarantined ids are not consulted.          *)
FaultyReplay(b, request) ==
  IF b.pending # Nothing /\ b.pending.id = request.id
  THEN IF SameIntent(request, b.pending) THEN "pending" ELSE "conflict"
  ELSE IF \E r \in ToSet(b.operations) : r.id = request.id /\ r.outcome = "committed"
       THEN "identical" ELSE "novel"

Replay(b, request) ==
  IF b.pending # Nothing /\ b.pending.id = request.id
  THEN IF SameIntent(request, b.pending) THEN "pending" ELSE "conflict"
  ELSE IF request.id \notin RetainedIds(b) THEN "novel"
  ELSE LET record == CHOOSE r \in ToSet(b.operations) : r.id = request.id
       IN IF ~SameIntent(request, record) THEN "conflict"
          ELSE IF record.outcome = "committed" THEN "identical" ELSE "quarantined"

OperationIsLegal(b, kind, expected) ==
  IF kind = "bind"
  THEN b.state \in {"unbound", "detached", "binding-pending"} /\ expected = 0
  ELSE /\ b.state = "bound-available"
       /\ expected # 0
       /\ expected = b.binding.revision

RequestOf(pending) ==
  [ id |-> pending.id, kind |-> pending.kind, scope |-> pending.scope,
    expected |-> pending.expected, payload |-> pending.payload ]

PendingFrom(g, request) ==
  [ id |-> request.id, kind |-> request.kind, scope |-> request.scope,
    expected |-> request.expected, payload |-> request.payload,
    previous |-> g.backend.state ]

(* Only novel, legal work on a free slot becomes an intent; a bind moves   *)
(* the state with it, so that nothing executes during the switch.          *)
BeginOperation(g, request) ==
  LET b == g.backend
  IN IF /\ Replay(b, request) = "novel"
        /\ OperationIsLegal(b, request.kind, request.expected)
        /\ b.pending = Nothing
     THEN [g EXCEPT !.backend.pending = PendingFrom(g, request),
                    !.backend.state = IF request.kind = "bind" THEN "binding-pending" ELSE @]
     ELSE g

-----------------------------------------------------------------------------
(* Ways out of an intent.                                                  *)

(* Mutant: nothing is ever evicted.                                        *)
FaultyRetain(operations, record) ==
  Append(RemoveFirstMatch(operations, LAMBDA r : r.id = record.id), record)

(* No two records share an id: the filter of the code drops one at most.   *)
Retain(operations, record) ==
  LET kept == Append(RemoveFirstMatch(operations, LAMBDA r : r.id = record.id), record)
  IN SubSeq(kept, Max({1, Len(kept) - MaxRetainedOperations + 1}), Len(kept))

RecordOf(pending, outcome, receipt) ==
  [ id |-> pending.id, kind |-> pending.kind, scope |-> pending.scope,
    expected |-> pending.expected, payload |-> pending.payload,
    outcome |-> outcome, receipt |-> receipt ]

(* A state whose intent is gone: bound if there is a binding.              *)
SettledState(preferred, binding) ==
  IF preferred # "binding-pending" THEN preferred
  ELSE IF binding # Nothing THEN "bound-available" ELSE "unbound"

Quarantine(g) ==
  LET b == g.backend
  IN [g EXCEPT !.backend =
        [ b EXCEPT !.state = SettledState(b.pending.previous, b.binding),
                   !.pending = Nothing,
                   !.operations = Retain(@, RecordOf(b.pending, "quarantined", Nothing)) ]]

AbandonOperation(g) ==
  IF g.backend.pending = Nothing THEN g ELSE Quarantine(g)

(* Mutant: an intent of another branch waits for its branch.               *)
FaultyReconcileSelection(g, selection) == g

ReconcileSelection(g, selection) ==
  IF g.backend.pending = Nothing THEN g
  ELSE IF g.backend.pending.scope.selection = selection THEN g ELSE Quarantine(g)

FailOperation(g, code) ==
  IF g.backend.pending = Nothing THEN g
  ELSE IF code \in TerminalCodes THEN Quarantine(g)
  ELSE [g EXCEPT !.backend.state = IF @ = "bound-available" THEN "bound-unavailable" ELSE @]

(* A write or bind acknowledged: the binding follows the receipt.          *)
InstallBinding(g, receipt) ==
  LET b == g.backend
  IN [g EXCEPT !.backend =
        [ b EXCEPT !.state = ReachableState(b.pending.kind),
                   !.binding = [ work |-> g.work,
                                 selection |-> b.pending.scope.selection,
                                 revision |-> receipt.revision ],
                   !.pending = Nothing,
                   !.operations = Retain(@, RecordOf(b.pending, "committed", receipt)) ]]

(* Mutant: the detached goal goes on with its own, older record.           *)
FaultyReleaseBinding(g, receipt, export) ==
  LET b == g.backend
  IN [g EXCEPT !.backend =
        [ b EXCEPT !.state = "detached",
                   !.binding = Nothing,
                   !.pending = Nothing,
                   !.operations = Retain(@, RecordOf(b.pending, "committed", receipt)) ]]

(* A detach acknowledged: the exported record becomes the goal's.          *)
ReleaseBinding(g, receipt, export) ==
  LET b == g.backend
  IN [g EXCEPT !.notes = export,
               !.backend =
                 [ b EXCEPT !.state = "detached",
                            !.binding = Nothing,
                            !.pending = Nothing,
                            !.operations = Retain(@, RecordOf(b.pending, "committed", receipt)) ]]

(* Mutant: a detach is accepted without the record it should bring back.   *)
FaultyAcceptReceipt(g, answer, selection, export) ==
  LET b == g.backend
      code == VerifyReceipt(RequestOf(b.pending), answer)
  IN IF b.pending = Nothing THEN g
     ELSE IF b.pending.scope.selection # selection THEN Quarantine(g)
     ELSE IF code = "pending" THEN g
     ELSE IF code # "verified" THEN FailOperation(g, code)
     ELSE IF b.pending.kind = "detach" THEN ReleaseBinding(g, answer.receipt, export)
     ELSE IF b.pending.kind # "bind" /\ b.binding = Nothing THEN Quarantine(g)
     ELSE InstallBinding(g, answer.receipt)

(* Step 3.  An answer that leaves the goal as it was is held for a retry   *)
(* or refused; without an intent there is nothing it could change.         *)
AcceptReceipt(g, answer, selection, export) ==
  LET b == g.backend
      code == VerifyReceipt(RequestOf(b.pending), answer)
  IN IF b.pending = Nothing THEN g
     ELSE IF b.pending.scope.selection # selection THEN Quarantine(g)
     ELSE IF code = "pending" THEN g
     ELSE IF code # "verified" THEN FailOperation(g, code)
     ELSE IF b.pending.kind = "detach"
          THEN IF export = Nothing THEN g ELSE ReleaseBinding(g, answer.receipt, export)
     ELSE IF b.pending.kind # "bind" /\ b.binding = Nothing THEN Quarantine(g)
     ELSE InstallBinding(g, answer.receipt)

-----------------------------------------------------------------------------
(* Losing and regaining the peer; the end of a stage.                      *)

MarkPeerUnavailable(g) ==
  IF ClaimsAuthority(g.backend) THEN [g EXCEPT !.backend.state = "bound-unavailable"] ELSE g

MarkPeerAvailable(g, request, answer) ==
  LET b == g.backend
  IN IF /\ b.state = "bound-unavailable"
        /\ VerifyReceipt(request, answer) = "verified"
        /\ answer.receipt.scope = GoalScope(g, b.binding.selection)
     THEN [g EXCEPT !.backend.state = "bound-available",
                    !.backend.binding.revision = answer.receipt.revision]
     ELSE g

(* endStageBinding and a goal that replaces this one both leave nothing.   *)
NextWork(g) == [work |-> g.work + 1, notes |-> EmptyNotes, backend |-> EmptyBackend]

=============================================================================
