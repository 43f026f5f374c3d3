------------------------------ MODULE PeerBinding ------------------------------
(***************************************************************************)
(* A goal bound to a peer that keeps its working memory: the operations of *)
(* src/src/backend.ts driven against an unreliable peer.                   *)
(*                                                                         *)
(* The driver is the one the protocol contract asks for                    *)
(* (src/docs/peer-protocol.md, section 5) and the tests are written as:    *)
(* it persists the goal after every operation, plans an intent before it   *)
(* asks the peer (beginOperation, then runPeerOperation of the pending     *)
(* intent), and lets no other operation of this goal run while it awaits   *)
(* an answer.  The branch selection belongs to the human and moves at any  *)
(* time.  A crash loses the call in flight and nothing else, as the goal   *)
(* is persisted with each step.                                            *)
(***************************************************************************)
EXTENDS GoalBackend

VARIABLES
  goal,       \* the goal, in memory and on file
  selection,  \* the branch the human has selected
  call,       \* the peer call that runPeerOperation or a probe awaits
  sent,       \* mutations sent, that the peer may still commit
  log         \* the peer's commits

vars == <<goal, selection, call, sent, log>>

NoCall ==
  [phase |-> "none", request |-> Nothing, selection |-> Nothing, export |-> Nothing]

Call ==
  [ phase : {"export", "operation", "probe"}, request : Request, selection : Selections,
    export : Contents \cup {Nothing} ]

TypeOK ==
  /\ goal \in Goal
  /\ selection \in Selections
  /\ call \in Call \cup {NoCall}
  /\ sent \subseteq Request
  /\ log \in Seq(Commit)

Init ==
  /\ goal = [work |-> 1, notes |-> EmptyNotes, backend |-> EmptyBackend]
  /\ selection \in Selections
  /\ call = NoCall
  /\ sent = {}
  /\ log = <<>>

Idle == call = NoCall

Awaiting(request, phase, export) ==
  [phase |-> phase, request |-> request, selection |-> selection, export |-> export]

-----------------------------------------------------------------------------
(* The driver.                                                             *)

(* A request the peer would not commit now, it never will: revisions only  *)
(* go up, and what it has committed it does not commit again.              *)
StillLive(requests, peerLog) ==
  {request \in requests : PeerCommits(peerLog, request) # peerLog}

(* What a bind migrates is the memory in force; a write brings new notes.  *)
PayloadsOf(kind) ==
  CASE kind = "bind" -> {[of |-> "bind", notes |-> goal.notes]}
    [] kind = "write" -> [of : {"write"}, notes : Notes]
    [] kind = "detach" -> {Nothing}

PlannedRevision(kind) ==
  IF kind = "bind" \/ goal.backend.binding = Nothing THEN 0 ELSE goal.backend.binding.revision

(* An id that the backend has forgotten but the peer may know is not used  *)
(* again: ids are random, and what is planned anew gets a new one.         *)
ForgottenIntent(request) ==
  /\ Replay(goal.backend, request) = "novel"
  /\ \E other \in sent \cup ToSet(log) :
       other.id = request.id /\ other.scope.work = goal.work

(* Any id in use may be named again; of the new ones the next is taken.    *)
NamedIds ==
  {other.id : other \in sent \cup ToSet(log)} \cup RetainedIds(goal.backend)
    \cup (IF goal.backend.pending = Nothing THEN {} ELSE {goal.backend.pending.id})

Nameable(n) == \A m \in 1..(n - 1) : OperationId(m) \in NamedIds

PlanOperation(n, kind) ==
  /\ Idle
  /\ Nameable(n)
  /\ \E payload \in PayloadsOf(kind) :
       LET request == [ id |-> OperationId(n), kind |-> kind, scope |-> GoalScope(goal, selection),
                        expected |-> PlannedRevision(kind), payload |-> payload ]
       IN /\ ~ForgottenIntent(request)
          /\ goal' = BeginOperation(goal, request)
  /\ UNCHANGED <<selection, call, sent, log>>

(* The export is read first, at the revision the detach was planned on.    *)
ExportRead(request) ==
  [request EXCEPT !.id = ReadId(request.id), !.kind = "read"]

(* runPeerOperation up to its first await.  An intent planned on another   *)
(* branch is a conflict for it, and nothing is asked.                      *)
RunOperation ==
  /\ Idle
  /\ goal.backend.pending # Nothing
  /\ goal.backend.pending.scope.selection = selection
  /\ LET request == RequestOf(goal.backend.pending)
     IN IF request.kind = "detach"
        THEN /\ call' = Awaiting(ExportRead(request), "export", Nothing)
             /\ UNCHANGED sent
        ELSE /\ call' = Awaiting(request, "operation", Nothing)
             /\ sent' = StillLive(sent \cup {request}, log)
  /\ UNCHANGED <<goal, selection, log>>

(* The export read has been answered.  A read that failed for good, or     *)
(* that brings no record, holds the detach; one that failed for now also   *)
(* marks the peer unavailable; a record is kept for the release.           *)
AfterExport(answer) ==
  LET code == VerifyReceipt(call.request, answer)
      request == RequestOf(goal.backend.pending)
  IN IF code = "verified" /\ answer.projection # Nothing
     THEN /\ call' = [ call EXCEPT !.phase = "operation", !.request = request,
                                   !.export = answer.projection ]
          /\ sent' = StillLive(sent \cup {request}, log')
          /\ UNCHANGED goal
     ELSE /\ call' = NoCall
          /\ goal' = IF code \in TerminalCodes \cup {"verified"}
                     THEN goal ELSE FailOperation(goal, code)
          /\ sent' = StillLive(sent, log')

AfterOperation(answer) ==
  /\ call' = NoCall
  /\ goal' = AcceptReceipt(goal, answer, call.selection, call.export)
  /\ sent' = StillLive(sent, log')

AfterProbe(answer) ==
  /\ call' = NoCall
  /\ goal' = MarkPeerAvailable(goal, call.request, answer)
  /\ sent' = StillLive(sent, log')

Resume(answer) ==
  \/ call.phase = "export" /\ AfterExport(answer)
  \/ call.phase = "operation" /\ AfterOperation(answer)
  \/ call.phase = "probe" /\ AfterProbe(answer)

(* callPeer returns at its deadline, whatever the peer did or will do.     *)
Deadline ==
  /\ ~Idle
  /\ UNCHANGED <<selection, log>>
  /\ Resume(Failure(call.request.id, "timeout"))

(* A probe of a lost peer: a read of the working set in force.             *)
ProbePeer ==
  /\ Idle
  /\ goal.backend.state = "bound-unavailable"
  /\ call' = Awaiting(
       [ id |-> ProbeId, kind |-> "read",
         scope |-> GoalScope(goal, goal.backend.binding.selection),
         expected |-> goal.backend.binding.revision, payload |-> Nothing ],
       "probe", Nothing)
  /\ UNCHANGED <<goal, selection, sent, log>>

LosePeer ==
  /\ Idle
  /\ goal' = MarkPeerUnavailable(goal)
  /\ UNCHANGED <<selection, call, sent, log>>

Abandon ==
  /\ Idle
  /\ goal.backend.pending # Nothing
  /\ goal' = AbandonOperation(goal)
  /\ UNCHANGED <<selection, call, sent, log>>

Reconcile ==
  /\ Idle
  /\ goal.backend.pending # Nothing
  /\ goal' = ReconcileSelection(goal, selection)
  /\ UNCHANGED <<selection, call, sent, log>>

(* Answers that do not settle the request at hand: it is postponed or not  *)
(* understood, or the answer is to some other request.                     *)
OtherAnswers(request) ==
  {Failure(id, "refused") : id \in Operations \ {request.id}}
    \cup {Failure(Nothing, "incompatible")}
    \cup {Pending(id) : id \in Operations}
    \cup {Committed(receipt, Nothing) : receipt \in Receipts(log)}

(* A late callback: an answer to a call nobody awaits any more.            *)
LateAnswer ==
  /\ Idle
  /\ goal.backend.pending # Nothing
  /\ \E answer \in OtherAnswers(RequestOf(goal.backend.pending)) :
       goal' = AcceptReceipt(goal, answer, selection, Nothing)
  /\ UNCHANGED <<selection, call, sent, log>>

Crash ==
  /\ ~Idle
  /\ call' = NoCall
  /\ UNCHANGED <<goal, selection, sent, log>>

-----------------------------------------------------------------------------
(* The rest of the goal, and the human.                                    *)

UpdateMemory ==
  /\ Idle
  /\ GoalOwnsMemory(goal.backend)
  /\ \E notes \in Notes : goal' = [goal EXCEPT !.notes = notes]
  /\ UNCHANGED <<selection, call, sent, log>>

CompleteStage ==
  /\ Idle
  /\ goal.work < MaxWorks
  /\ BackendAdmitsExecution(goal.backend)
  /\ goal' = NextWork(goal)
  /\ UNCHANGED <<selection, call, sent, log>>

ReplaceGoal ==
  /\ Idle
  /\ goal.work < MaxWorks
  /\ goal' = NextWork(goal)
  /\ UNCHANGED <<selection, call, sent, log>>

MoveSelection ==
  /\ selection' \in Selections \ {selection}
  /\ UNCHANGED <<goal, call, sent, log>>

-----------------------------------------------------------------------------
(* The peer.                                                               *)

(* It handles the request that is awaited, now or once more, and its       *)
(* answer arrives; the transport may drop the id of an error from it, and  *)
(* the record of a read.                                                   *)
AnswersOf(peerLog, request) ==
  LET answer == PeerAnswer(peerLog, request)
  IN {answer} \cup
       IF answer.status = "error" THEN {[answer EXCEPT !.id = Nothing]}
       ELSE {[answer EXCEPT !.projection = Nothing]}

PeerAnswers ==
  /\ ~Idle
  /\ log' = PeerCommits(log, call.request)
  /\ \E answer \in AnswersOf(log', call.request) : Resume(answer)
  /\ UNCHANGED selection

(* It does not: another answer comes instead.                              *)
PeerDeclines ==
  /\ ~Idle
  /\ UNCHANGED <<selection, log>>
  /\ \E answer \in OtherAnswers(call.request) : Resume(answer)

(* It handles a request, and the answer is lost or the caller has stopped  *)
(* waiting for it.                                                         *)
PeerHandles ==
  /\ \E request \in sent :
       /\ log' = PeerCommits(log, request)
       /\ log' # log
       /\ sent' = StillLive(sent, log')
  /\ UNCHANGED <<goal, selection, call>>

-----------------------------------------------------------------------------

Next ==
  \/ \E n \in 1..MaxOperations[goal.work], kind \in Mutations : PlanOperation(n, kind)
  \/ RunOperation
  \/ Deadline
  \/ ProbePeer
  \/ LosePeer
  \/ Abandon
  \/ Reconcile
  \/ LateAnswer
  \/ Crash
  \/ UpdateMemory
  \/ CompleteStage
  \/ ReplaceGoal
  \/ MoveSelection
  \/ PeerAnswers
  \/ PeerDeclines
  \/ PeerHandles

Spec == Init /\ [][Next]_vars

=============================================================================
