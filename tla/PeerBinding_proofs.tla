-------------------------- MODULE PeerBinding_proofs --------------------------
(***************************************************************************)
(* Proofs about a bound goal, for any number of works and operation ids,   *)
(* any retention limit and any contents: the reader accepts what the       *)
(* operations leave behind, what is acknowledged is committed, verdicts    *)
(* are final, an awaited answer ends an intent only if it settles it, and  *)
(* the goal and its peer keep one working memory between them.             *)
(***************************************************************************)
EXTENDS PeerBindingProperties, GoalBackend_proofs

-----------------------------------------------------------------------------
(* The inductive invariant.                                                *)

(* A call asks for what the goal says is to be asked, and the goal stands  *)
(* still until it ends; a detach holds the record that was in force.       *)
CallInv ==
  LET b == goal.backend
  IN /\ call \in Call \cup {NoCall}
     /\ call.phase \in {"export", "operation"} =>
          /\ b.pending # Nothing
          /\ b.pending.scope.selection = call.selection
     /\ call.phase = "export" =>
          b.pending.kind = "detach" /\ call.request = ExportRead(RequestOf(b.pending))
     /\ call.phase = "operation" =>
          /\ call.request = RequestOf(b.pending)
          /\ b.pending.kind = "detach" => call.export = log[b.binding.revision].notes
     /\ call.phase = "probe" =>
          /\ b.state = "bound-unavailable"
          /\ call.request =
               [ id |-> ProbeId, kind |-> "read",
                 scope |-> GoalScope(goal, b.binding.selection),
                 expected |-> b.binding.revision, payload |-> Nothing ]

SentInv == \A request \in sent : request \in Request /\ WellPlanned(request)

BindingInv ==
  /\ SoundLog(log)
  /\ SoundGoal(goal, log)
  /\ selection \in Selections
  /\ SentInv
  /\ CallInv

(* It implies what the runs check.                                         *)
LEMMA BindingInvImplies ==
  BindingInv => TypeOK /\ Loadable /\ AcknowledgedIsCommitted
<1> SUFFICES ASSUME BindingInv PROVE TypeOK /\ Loadable /\ AcknowledgedIsCommitted
  OBVIOUS
<1>1. TypeOK
  BY DEF BindingInv, SoundGoal, SoundLog, SentInv, CallInv, TypeOK
<1>2. Loadable
  BY SoundIsReadable DEF BindingInv, Loadable
<1>3. AcknowledgedIsCommitted
  BY DEF BindingInv, SoundGoal, SoundOperations, SoundBinding, AcknowledgedIsCommitted
<1> QED
  BY <1>1, <1>2, <1>3

LEMMA InitEstablishes ==
  Init => BindingInv
<1> SUFFICES ASSUME Init PROVE BindingInv
  OBVIOUS
<1>1. /\ goal.work = 1 /\ goal.notes = EmptyNotes
      /\ goal.backend.state = "unbound" /\ goal.backend.binding = Nothing
      /\ goal.backend.pending = Nothing /\ goal.backend.operations = <<>>
  BY DEF Init, EmptyBackend
<1>2. goal \in Goal
  BY BoundsAssumption
     DEF Init, EmptyBackend, Goal, Backend, BackendStates, Contents, Works
<1>3. /\ SoundOperations(goal.backend.operations, goal.work, log)
      /\ NoneCommitted(goal.backend.operations)
  BY <1>1, EmptySeq, MaxRetainedAssumption DEF SoundOperations, NoneCommitted, ToSet
<1>4. SoundGoal(goal, log)
  BY <1>1, <1>2, <1>3 DEF SoundGoal, SoundBinding, SoundIntent, ClaimsAuthority
<1>5. SoundLog(log)
  BY EmptySeq DEF Init, SoundLog
<1>6. CallInv
  BY DEF Init, CallInv, NoCall
<1> QED
  BY <1>4, <1>5, <1>6 DEF Init, BindingInv, SentInv

-----------------------------------------------------------------------------
(* What is asked, and what may be answered.                                *)

Asked(request) ==
  /\ request \in Request
  /\ request.kind \in Mutations => WellPlanned(request)
  /\ request.kind = "read" => request.id \notin Operations

LEMMA ReadIdsAreTheirOwn ==
  /\ ProbeId \notin Operations
  /\ \A id : ReadId(id) \notin Operations
BY DEF ProbeId, ReadId, Operations, OperationId

LEMMA ExportIsAsked ==
  ASSUME NEW request \in Request, WellPlanned(request)
  PROVE  LET read == ExportRead(request)
         IN /\ Asked(read) /\ read.kind = "read"
            /\ read.scope = request.scope /\ read.expected = request.expected
<1> DEFINE read == ExportRead(request)
<1>1. read = [request EXCEPT !.id = ReadId(request.id), !.kind = "read"]
  BY DEF ExportRead
<1>2. ReadId(request.id) \in RequestIds
  BY DEF WellPlanned, RequestIds
<1> HIDE DEF read
<1>3. /\ read \in Request /\ read.kind = "read" /\ read.id = ReadId(request.id)
      /\ read.scope = request.scope /\ read.expected = request.expected
  BY <1>1, <1>2 DEF Request
<1> QED
  BY <1>3, ReadIdsAreTheirOwn DEF Asked, Mutations, read

LEMMA CallIsAsked ==
  ASSUME BindingInv, ~Idle
  PROVE  Asked(call.request)
<1>1. call \in Call
  BY DEF BindingInv, CallInv, Idle
<1>2. CASE call.phase = "export"
  BY <1>2, PendingRequest, ExportIsAsked DEF BindingInv, CallInv
<1>3. CASE call.phase = "operation"
  <2>1. call.request \in Request /\ WellPlanned(call.request)
    BY <1>3, PendingRequest DEF BindingInv, CallInv
  <2> QED
    BY <2>1 DEF Asked, WellPlanned, Mutations
<1>4. CASE call.phase = "probe"
  BY <1>1, <1>4, ReadIdsAreTheirOwn DEF BindingInv, CallInv, Asked, Call, Mutations
<1> QED
  BY <1>1, <1>2, <1>3, <1>4 DEF Call

LEMMA TimeoutFits ==
  ASSUME NEW request
  PROVE  FitAnswer(log, request, Failure(request.id, "timeout"))
BY DEF FitAnswer, Failure, PeerErrorCodes, RetryableCodes

LEMMA OtherAnswersFit ==
  ASSUME SoundLog(log), NEW request, Asked(request), NEW answer \in OtherAnswers(request)
  PROVE  FitAnswer(log, request, answer)
<1>1. CASE \E id : answer = Failure(id, "refused")
  BY <1>1 DEF FitAnswer, Failure, PeerErrorCodes, TerminalCodes
<1>2. CASE answer = Failure(Nothing, "incompatible")
  BY <1>2 DEF FitAnswer, Failure, PeerErrorCodes, RetryableCodes
<1>3. CASE \E id : answer = Pending(id)
  BY <1>3 DEF FitAnswer, Pending
<1>4. CASE \E receipt \in Receipts(log) : answer = Committed(receipt, Nothing)
  <2>1. PICK receipt \in Receipts(log) : answer = Committed(receipt, Nothing)
    BY <1>4
  <2>2. /\ answer.status = "committed" /\ answer.id = receipt.id /\ answer.receipt = receipt
        /\ receipt.id \in Operations
    BY <2>1, ReceiptIsTrue DEF Committed
  <2> QED
    BY <2>2 DEF FitAnswer, Asked
<1> QED
  BY <1>1, <1>2, <1>3, <1>4 DEF OtherAnswers

(* The peer's own answer, once it has handled the request.                 *)
LEMMA PeerAnswersFit ==
  ASSUME SoundLog(log), NEW request, Asked(request), NEW later,
         later = PeerCommits(log, request), NEW answer \in AnswersOf(later, request)
  PROVE  FitAnswer(later, request, answer)
<1> DEFINE given == PeerAnswer(later, request)
           held == SelectedRevision(later, request.scope.work)
<1>1. SoundLog(later) /\ request \in Request /\ request.kind \in Mutations \cup {"read"}
  BY CommitsSound DEF Asked, Request
<1>2. CASE HasCommitted(later, request.id)
  <2>1. PICK i \in DOMAIN later : later[i].id = request.id
    BY <1>2 DEF HasCommitted
  <2>2. /\ ReceiptOf(later, request.id) \in Receipts(later)
        /\ ReceiptOf(later, request.id).id = request.id /\ request.id \in Operations
    BY <1>1, <2>1, CommitTypes DEF Receipts, ReceiptOf, SoundLog
  <2>3. request.kind # "read"
    BY <2>2 DEF Asked
  <2>4. \/ given = Failure(request.id, "replay-conflict")
        \/ given = Committed(ReceiptOf(later, request.id), Nothing)
    BY <1>2 DEF PeerAnswer
  <2>5. CASE given = Failure(request.id, "replay-conflict")
    BY <2>5 DEF AnswersOf, FitAnswer, Failure, PeerErrorCodes, TerminalCodes
  <2>6. CASE given = Committed(ReceiptOf(later, request.id), Nothing)
    <3> DEFINE receipt == ReceiptOf(later, request.id)
    <3>1. /\ answer.status = "committed" /\ answer.receipt = receipt
      BY <2>6 DEF AnswersOf, Committed
    <3> QED
      BY <2>2, <2>3, <3>1 DEF FitAnswer
  <2> QED
    BY <2>4, <2>5, <2>6
<1>3. CASE ~HasCommitted(later, request.id) /\ PeerRefusal(later, request) # "none"
  <2>1. given = Failure(request.id, PeerRefusal(later, request))
    BY <1>3 DEF PeerAnswer
  <2>2. PeerRefusal(later, request) \in PeerErrorCodes
    BY <1>3 DEF PeerRefusal, PeerErrorCodes, TerminalCodes
  <2> QED
    BY <2>1, <2>2 DEF AnswersOf, FitAnswer, Failure
<1>4. CASE ~HasCommitted(later, request.id) /\ PeerRefusal(later, request) = "none"
  <2> DEFINE receipt == [ id |-> request.id, scope |-> request.scope,
                          revision |-> held, payload |-> request.payload ]
  <2>1. given = Committed(receipt, later[held].notes)
    BY <1>4 DEF PeerAnswer
  <2>2. request.kind = "read"
    <3> SUFFICES ASSUME request.kind # "read" PROVE FALSE
      OBVIOUS
    <3>1. CASE later = log /\ (HasCommitted(log, request.id) \/ PeerRefusal(log, request) # "none")
      BY <1>4, <3>1
    <3>2. CASE \E commit : commit.id = request.id /\ later = Append(log, commit)
      <4>1. PICK commit : commit.id = request.id /\ later = Append(log, commit)
        BY <3>2
      <4>2. later[Len(log) + 1] = commit /\ Len(log) + 1 \in DOMAIN later
        BY <4>1, CommitTypes DEF SoundLog
      <4> QED
        BY <1>4, <4>1, <4>2 DEF HasCommitted
    <3> QED
      BY <3>1, <3>2 DEF PeerCommits
  <2>3. held \in DOMAIN later /\ later[held].scope.work = request.scope.work
    BY <1>1, <1>4, <2>2, HeldIsACommit DEF PeerRefusal, SoundLog
  <2>4. request.expected # 0 => held = request.expected
    BY <1>4, <2>2 DEF PeerRefusal
  <2> HIDE DEF held
  <2>5. /\ answer.status = "committed" /\ answer.receipt = receipt
        /\ answer.projection \in {Nothing, later[held].notes}
    BY <2>1 DEF AnswersOf, Committed
  <2> QED
    BY <2>2, <2>3, <2>4, <2>5 DEF FitAnswer, Mutations
<1> QED
  BY <1>2, <1>3, <1>4

-----------------------------------------------------------------------------
(* Every step keeps the invariant.                                         *)

LEMMA StillLiveSound ==
  ASSUME SentInv, NEW later, NEW requests,
         \A request \in requests : request \in Request /\ WellPlanned(request)
  PROVE  \A request \in StillLive(requests, later) : request \in Request /\ WellPlanned(request)
BY DEF StillLive

(* A goal that changes while nothing is asked of the peer.                 *)
LEMMA IdleGoalStep ==
  ASSUME BindingInv, Idle, SoundGoal(goal', log), UNCHANGED <<selection, call, sent, log>>
  PROVE  BindingInv'
<1>1. CallInv'
  BY DEF Idle, NoCall, CallInv
<1> QED
  BY <1>1 DEF BindingInv, SentInv

LEMMA EndOfCall ==
  ASSUME SoundLog(log'), SoundGoal(goal', log'), selection' \in Selections, SentInv',
         call' = NoCall
  PROVE  BindingInv'
BY DEF BindingInv, CallInv, NoCall

(* A verified export read brings the record in force.                      *)
LEMMA ExportInForce ==
  ASSUME BindingInv, call.phase = "export", SoundLog(log'), Continues(log, log'),
         NEW answer, FitAnswer(log', call.request, answer),
         VerifyReceipt(call.request, answer) = "verified", answer.projection # Nothing
  PROVE  /\ answer.projection = log'[goal.backend.binding.revision].notes
         /\ answer.projection \in Contents
<1> DEFINE b == goal.backend
           request == RequestOf(b.pending)
<1>1. b.pending # Nothing /\ b.pending.kind = "detach" /\ call.request = ExportRead(request)
  BY DEF BindingInv, CallInv
<1>2. /\ request \in Request /\ WellPlanned(request)
      /\ request.expected = b.pending.expected
  BY <1>1, PendingRequest DEF BindingInv
<1>3. call.request.kind = "read" /\ call.request.expected = b.pending.expected
  BY <1>1, <1>2, ExportIsAsked
<1>4. b.pending.expected = b.binding.revision /\ b.binding.revision \in DOMAIN log'
  BY <1>1 DEF BindingInv, SoundGoal, SoundIntent, SoundBinding, Continues
<1>5. b.binding.revision # 0 /\ log'[b.binding.revision].notes \in Contents
  BY <1>4, CommitTypes DEF SoundLog
<1>6. answer.status = "committed" /\ answer.id = call.request.id
  BY VerdictMeans
<1> HIDE DEF b
<1>7. /\ answer.receipt.revision = b.binding.revision
      /\ answer.projection \in {Nothing, log'[answer.receipt.revision].notes}
  BY <1>3, <1>4, <1>5, <1>6 DEF FitAnswer
<1> QED
  BY <1>5, <1>7 DEF b

LEMMA ExportPreserves ==
  ASSUME BindingInv, call.phase = "export", SoundLog(log'), Continues(log, log'),
         NEW answer, FitAnswer(log', call.request, answer), AfterExport(answer),
         selection' = selection
  PROVE  BindingInv'
<1> DEFINE b == goal.backend
           request == RequestOf(b.pending)
<1>1. b.pending # Nothing /\ b.pending.kind = "detach" /\ call \in Call
  BY DEF BindingInv, CallInv, NoCall
<1>2. request \in Request /\ WellPlanned(request)
  BY <1>1, PendingRequest DEF BindingInv
<1>3. SoundGoal(goal, log')
  BY SoundAsLogGrows DEF BindingInv
<1>4. CASE VerifyReceipt(call.request, answer) = "verified" /\ answer.projection # Nothing
  <2>1. /\ call' = [ call EXCEPT !.phase = "operation", !.request = request,
                                 !.export = answer.projection ]
        /\ sent' = StillLive(sent \cup {request}, log')
        /\ goal' = goal
    BY <1>4 DEF AfterExport
  <2>2. SentInv'
    BY <1>2, <2>1, StillLiveSound DEF BindingInv, SentInv
  <2>3. /\ answer.projection = log'[b.binding.revision].notes
        /\ answer.projection \in Contents
    BY <1>4, ExportInForce
  <2> HIDE DEF request
  <2>4. /\ call' \in Call /\ call'.phase = "operation" /\ call'.request = request
        /\ call'.export = answer.projection /\ call'.selection = call.selection
    BY <1>1, <1>2, <2>1, <2>3 DEF Call
  <2>5. CallInv'
    BY <1>1, <2>1, <2>3, <2>4 DEF BindingInv, CallInv, request
  <2> QED
    BY <1>3, <2>1, <2>2, <2>5 DEF BindingInv
<1>5. CASE ~(VerifyReceipt(call.request, answer) = "verified" /\ answer.projection # Nothing)
  <2>1. /\ call' = NoCall
        /\ goal' = goal \/ \E code : goal' = FailOperation(goal, code)
        /\ sent' = StillLive(sent, log')
    BY <1>5 DEF AfterExport
  <2>2. SoundGoal(goal', log')
    BY <1>3, <2>1, FailSound
  <2>3. SentInv'
    BY <2>1, StillLiveSound DEF BindingInv, SentInv
  <2> QED
    BY <2>1, <2>2, <2>3, EndOfCall DEF BindingInv
<1> QED
  BY <1>4, <1>5

LEMMA ResumePreserves ==
  ASSUME BindingInv, ~Idle, SoundLog(log'), Continues(log, log'),
         NEW answer, FitAnswer(log', call.request, answer), Resume(answer),
         selection' = selection
  PROVE  BindingInv'
<1>1. SoundGoal(goal, log')
  BY SoundAsLogGrows DEF BindingInv
<1>2. call \in Call
  BY DEF BindingInv, CallInv, Idle
<1>3. CASE call.phase = "export"
  BY <1>3, ExportPreserves DEF Resume
<1>4. CASE call.phase = "operation"
  <2>1. /\ call' = NoCall /\ sent' = StillLive(sent, log')
        /\ goal' = AcceptReceipt(goal, answer, call.selection, call.export)
    BY <1>4 DEF Resume, AfterOperation
  <2>2. call.export \in Contents \cup {Nothing}
    BY <1>2 DEF Call
  <2>3. SoundGoal(goal', log')
    BY <1>1, <1>4, <2>1, <2>2, AcceptSound DEF BindingInv, CallInv
  <2>4. SentInv'
    BY <2>1, StillLiveSound DEF BindingInv, SentInv
  <2> QED
    BY <2>1, <2>3, <2>4, EndOfCall DEF BindingInv
<1>5. CASE call.phase = "probe"
  <2>1. /\ call' = NoCall /\ sent' = StillLive(sent, log')
        /\ goal' = MarkPeerAvailable(goal, call.request, answer)
    BY <1>5 DEF Resume, AfterProbe
  <2>2. /\ goal.backend.state = "bound-unavailable"
        /\ call.request.kind = "read"
        /\ call.request.expected = goal.backend.binding.revision
    BY <1>5 DEF BindingInv, CallInv
  <2>3. SoundGoal(goal', log')
    BY <1>1, <2>1, <2>2, AvailableSound
  <2>4. SentInv'
    BY <2>1, StillLiveSound DEF BindingInv, SentInv
  <2> QED
    BY <2>1, <2>3, <2>4, EndOfCall DEF BindingInv
<1> QED
  BY <1>2, <1>3, <1>4, <1>5 DEF Call

LEMMA PlanPreserves ==
  ASSUME BindingInv, NEW n \in 1..MaxOperations[goal.work], NEW kind \in Mutations,
         PlanOperation(n, kind)
  PROVE  BindingInv'
<1> DEFINE b == goal.backend
<1>1. PICK payload \in PayloadsOf(kind) :
        LET request == [ id |-> OperationId(n), kind |-> kind,
                         scope |-> GoalScope(goal, selection),
                         expected |-> PlannedRevision(kind), payload |-> payload ]
        IN ~ForgottenIntent(request) /\ goal' = BeginOperation(goal, request)
  BY DEF PlanOperation
<1> DEFINE request == [ id |-> OperationId(n), kind |-> kind,
                        scope |-> GoalScope(goal, selection),
                        expected |-> PlannedRevision(kind), payload |-> payload ]
<1>2. /\ goal \in Goal /\ goal.work \in Works /\ goal.notes \in Contents /\ b \in Backend
      /\ selection \in Selections
  BY DEF BindingInv, SoundGoal, Goal
<1>3. OperationId(n) \in Operations
  BY <1>2 DEF Operations
<1>4. PlannedRevision(kind) \in Nat
  <2>1. b.binding # Nothing => b.binding.revision \in Nat
    BY <1>2 DEF Backend, Binding
  <2> QED
    BY <2>1 DEF PlannedRevision
<1>5. /\ kind = "bind" => payload = [of |-> "bind", notes |-> goal.notes]
      /\ kind = "write" => payload \in [of : {"write"}, notes : Notes]
      /\ kind = "detach" => payload = Nothing
      /\ payload \in Payloads
  BY <1>2 DEF PayloadsOf, Payloads, Mutations, Contents
<1>6. request \in Request
  BY <1>2, <1>3, <1>4, <1>5 DEF Request, RequestIds, GoalScope, Scope
<1>7. /\ request.id = OperationId(n) /\ request.kind = kind /\ request.payload = payload
      /\ request.scope.work = goal.work
  BY DEF GoalScope
<1>8. WellPlanned(request)
  BY <1>2, <1>3, <1>5, <1>7 DEF WellPlanned
<1> HIDE DEF request
<1>9. ~ForgottenIntent(request) /\ goal' = BeginOperation(goal, request)
  BY <1>1 DEF request
<1>10. Replay(b, request) = "novel" =>
         \A i \in DOMAIN log : ~(log[i].id = request.id /\ log[i].scope.work = goal.work)
  BY <1>9 DEF ForgottenIntent, ToSet
<1>11. request.kind = "bind" => request.payload.notes = goal.notes
  BY <1>5, <1>7
<1>12. SoundGoal(goal', log)
  BY <1>6, <1>7, <1>8, <1>9, <1>10, <1>11, PlannedSound DEF BindingInv
<1> QED
  BY <1>12, IdleGoalStep DEF PlanOperation

LEMMA RunPreserves ==
  ASSUME BindingInv, RunOperation
  PROVE  BindingInv'
<1> DEFINE b == goal.backend
           request == RequestOf(b.pending)
<1>1. /\ b.pending # Nothing /\ b.pending.scope.selection = selection
      /\ goal' = goal /\ selection' = selection /\ log' = log
  BY DEF RunOperation
<1>2. request \in Request /\ WellPlanned(request) /\ request.kind = b.pending.kind
  BY <1>1, PendingRequest DEF BindingInv
<1>3. selection \in Selections
  BY DEF BindingInv
<1>4. CASE request.kind = "detach"
  <2>1. call' = Awaiting(ExportRead(request), "export", Nothing) /\ sent' = sent
    BY <1>4 DEF RunOperation
  <2>2. ExportRead(request) \in Request
    BY <1>2, ExportIsAsked DEF Asked
  <2>3. /\ call' \in Call /\ call'.phase = "export" /\ call'.request = ExportRead(request)
        /\ call'.selection = selection
    BY <1>3, <2>1, <2>2 DEF Awaiting, Call
  <2>4. CallInv'
    BY <1>1, <1>2, <1>4, <2>3 DEF CallInv
  <2> QED
    BY <1>1, <2>1, <2>4 DEF BindingInv, SentInv
<1>5. CASE request.kind # "detach"
  <2>1. /\ call' = Awaiting(request, "operation", Nothing)
        /\ sent' = StillLive(sent \cup {request}, log)
    BY <1>5 DEF RunOperation
  <2> HIDE DEF request
  <2>2. /\ call' \in Call /\ call'.phase = "operation" /\ call'.request = request
        /\ call'.selection = selection
    BY <1>2, <1>3, <2>1 DEF Awaiting, Call
  <2>3. CallInv'
    BY <1>1, <1>2, <1>5, <2>2 DEF CallInv, request
  <2>4. SentInv'
    BY <1>2, <2>1, StillLiveSound DEF BindingInv, SentInv
  <2> QED
    BY <1>1, <2>3, <2>4 DEF BindingInv
<1> QED
  BY <1>4, <1>5

LEMMA ProbePreserves ==
  ASSUME BindingInv, ProbePeer
  PROVE  BindingInv'
<1> DEFINE b == goal.backend
           request == [ id |-> ProbeId, kind |-> "read",
                        scope |-> GoalScope(goal, b.binding.selection),
                        expected |-> b.binding.revision, payload |-> Nothing ]
<1>1. /\ call' = Awaiting(request, "probe", Nothing) /\ b.state = "bound-unavailable"
      /\ goal' = goal /\ sent' = sent /\ log' = log /\ selection' = selection
  BY DEF ProbePeer
<1>2. b.binding \in Binding /\ goal.work \in Works /\ selection \in Selections
  BY <1>1 DEF BindingInv, SoundGoal, SoundBinding, ClaimsAuthority, Goal, Backend
<1>3. request \in Request
  BY <1>2 DEF Request, RequestIds, GoalScope, Scope, Binding, Payloads
<1> HIDE DEF request
<1>4. call' \in Call /\ call'.phase = "probe" /\ call'.request = request
  BY <1>1, <1>2, <1>3 DEF Awaiting, Call
<1>5. CallInv'
  BY <1>1, <1>4 DEF CallInv, request
<1> QED
  BY <1>1, <1>5 DEF BindingInv, SentInv

LEMMA MemoryPreserves ==
  ASSUME BindingInv, UpdateMemory
  PROVE  BindingInv'
<1> DEFINE b == goal.backend
<1>1. PICK notes \in Notes : goal' = [goal EXCEPT !.notes = notes]
  BY DEF UpdateMemory
<1>2. goal' \in Goal /\ goal'.work = goal.work /\ goal'.backend = b
  BY <1>1 DEF BindingInv, SoundGoal, Goal, Contents
<1>3. b.pending = Nothing
  BY DEF UpdateMemory, BindingInv, SoundGoal
<1>4. SoundGoal(goal', log)
  BY <1>2, <1>3 DEF BindingInv, SoundGoal, SoundBinding, SoundIntent
<1> QED
  BY <1>4, IdleGoalStep DEF UpdateMemory

(* The peer handles a request nobody waits for any more.                   *)
LEMMA HandlesPreserves ==
  ASSUME BindingInv, PeerHandles
  PROVE  BindingInv'
<1>1. PICK request \in sent : log' = PeerCommits(log, request) /\ sent' = StillLive(sent, log')
  BY DEF PeerHandles
<1>2. SoundLog(log') /\ Continues(log, log')
  BY <1>1, CommitsSound DEF BindingInv, SentInv
<1>3. /\ goal' = goal /\ selection' = selection /\ call' = call
  BY DEF PeerHandles
<1>4. SoundGoal(goal', log')
  BY <1>2, <1>3, SoundAsLogGrows DEF BindingInv
<1>5. SentInv'
  BY <1>1, StillLiveSound DEF BindingInv, SentInv
<1>6. CallInv'
  <2>1. ASSUME call.phase = "operation", goal.backend.pending.kind = "detach"
        PROVE  log'[goal.backend.binding.revision] = log[goal.backend.binding.revision]
    BY <1>2, <2>1
       DEF BindingInv, CallInv, SoundGoal, SoundIntent, SoundBinding, Continues
  <2> QED
    BY <1>3, <2>1 DEF BindingInv, CallInv
<1> QED
  BY <1>2, <1>3, <1>4, <1>5, <1>6 DEF BindingInv

(* Any answer that can end a call: to a log that has gone on, it fits.     *)
LEMMA AnswersFit ==
  ASSUME BindingInv, Deadline \/ PeerAnswers \/ PeerDeclines
  PROVE  /\ ~Idle /\ SoundLog(log') /\ Continues(log, log') /\ selection' = selection
         /\ \E answer :
              /\ FitAnswer(log', call.request, answer) /\ Resume(answer)
              /\ \/ answer = Failure(call.request.id, "timeout")
                 \/ answer \in ReachableAnswers
<1>0. Asked(call.request) /\ SoundLog(log)
  BY CallIsAsked DEF Deadline, PeerAnswers, PeerDeclines, BindingInv
<1>1. CASE Deadline
  BY <1>0, <1>1, TimeoutFits DEF Deadline, Continues
<1>2. CASE PeerAnswers
  <2>1. log' = PeerCommits(log, call.request)
    BY <1>2 DEF PeerAnswers
  <2>2. PICK answer \in AnswersOf(log', call.request) : Resume(answer)
    BY <1>2 DEF PeerAnswers
  <2>3. FitAnswer(log', call.request, answer)
    BY <1>0, <2>1, PeerAnswersFit
  <2>4. SoundLog(log') /\ Continues(log, log')
    BY <1>0, <2>1, CommitsSound DEF Asked
  <2> QED
    BY <1>2, <2>1, <2>2, <2>3, <2>4 DEF PeerAnswers, ReachableAnswers
<1>3. CASE PeerDeclines
  <2>1. PICK answer \in OtherAnswers(call.request) : Resume(answer)
    BY <1>3 DEF PeerDeclines
  <2>2. FitAnswer(log', call.request, answer)
    BY <1>0, <1>3, <2>1, OtherAnswersFit DEF PeerDeclines
  <2> QED
    BY <1>0, <1>3, <2>1, <2>2 DEF PeerDeclines, ReachableAnswers, Continues
<1> QED
  BY <1>1, <1>2, <1>3

LEMMA StepPreserves ==
  ASSUME BindingInv, [Next]_vars
  PROVE  BindingInv'
<1>0. SoundLog(log) /\ SoundGoal(goal, log)
  BY DEF BindingInv
<1>1. ASSUME NEW n \in 1..MaxOperations[goal.work], NEW kind \in Mutations,
             PlanOperation(n, kind)
      PROVE  BindingInv'
  BY <1>1, PlanPreserves
<1>2. CASE RunOperation
  BY <1>2, RunPreserves
<1>3. CASE Deadline \/ PeerAnswers \/ PeerDeclines
  BY <1>3, AnswersFit, ResumePreserves
<1>4. CASE ProbePeer
  BY <1>4, ProbePreserves
<1>5. CASE LosePeer
  BY <1>0, <1>5, UnavailableSound, IdleGoalStep DEF LosePeer
<1>6. CASE Abandon
  BY <1>0, <1>6, QuarantineSound, IdleGoalStep DEF Abandon, AbandonOperation
<1>7. CASE Reconcile
  BY <1>0, <1>7, QuarantineSound, IdleGoalStep DEF Reconcile, ReconcileSelection
<1>8. CASE LateAnswer
  <2>1. PICK answer \in OtherAnswers(RequestOf(goal.backend.pending)) :
          goal' = AcceptReceipt(goal, answer, selection, Nothing)
    BY <1>8 DEF LateAnswer
  <2>2. Asked(RequestOf(goal.backend.pending))
    BY <1>0, <1>8, PendingRequest DEF LateAnswer, Asked, WellPlanned, Mutations
  <2>3. FitAnswer(log, RequestOf(goal.backend.pending), answer)
    BY <1>0, <2>1, <2>2, OtherAnswersFit
  <2>4. SoundGoal(goal', log)
    BY <1>0, <2>1, <2>3, AcceptSound
  <2> QED
    BY <1>8, <2>4, IdleGoalStep DEF LateAnswer
<1>9. CASE Crash
  BY <1>9, EndOfCall DEF Crash, BindingInv, SentInv
<1>10. CASE UpdateMemory
  BY <1>10, MemoryPreserves
<1>11. CASE CompleteStage \/ ReplaceGoal
  BY <1>0, <1>11, NextWorkSound, IdleGoalStep DEF CompleteStage, ReplaceGoal
<1>12. CASE MoveSelection
  BY <1>12 DEF MoveSelection, BindingInv, SentInv, CallInv
<1>13. CASE PeerHandles
  BY <1>13, HandlesPreserves
<1>14. CASE UNCHANGED vars
  BY <1>14 DEF vars, BindingInv, SentInv, CallInv
<1> QED
  BY <1>1, <1>2, <1>3, <1>4, <1>5, <1>6, <1>7, <1>8, <1>9, <1>10, <1>11, <1>12,
     <1>13, <1>14 DEF Next

-----------------------------------------------------------------------------
(* The theorems.                                                           *)

(* The inductive invariant holds throughout.                               *)
THEOREM BindingInvariant ==
  Spec => []BindingInv
<1>1. BindingInv /\ [Next]_vars => BindingInv'
  BY StepPreserves
<1> QED
  BY <1>1, InitEstablishes, PTL DEF Spec

(* The goal, the call, the requests under way and the peer's log are of    *)
(* their types, for every number of works, ids and retained operations.    *)
THEOREM BindingTypes ==
  Spec => []TypeOK
BY BindingInvariant, BindingInvImplies, PTL

(* No operation leaves a state behind that the reader of the session file  *)
(* refuses (isGoalBackend, isBackendConsistentWithGoal).                   *)
THEOREM EveryStateIsLoadable ==
  Spec => []Loadable
BY BindingInvariant, BindingInvImplies, PTL

(* What is kept as acknowledged, and what is bound to, the peer committed  *)
(* (acceptReceipt, verifyReceipt, markPeerAvailable).                      *)
THEOREM AcknowledgedMeansCommitted ==
  Spec => []AcknowledgedIsCommitted
BY BindingInvariant, BindingInvImplies, PTL

-----------------------------------------------------------------------------
(* Verdicts.                                                               *)

(* No operation changes a record that it keeps: what is new has an id of   *)
(* its own.                                                                *)
RecordsStay(g, h) ==
  \A new \in ToSet(h.backend.operations) :
    new \in ToSet(g.backend.operations) \/ new.id \notin RetainedIds(g.backend)

LEMMA WayOutKeepsRecords ==
  ASSUME NEW g, NEW peerLog, SoundLog(peerLog), SoundGoal(g, peerLog),
         g.backend.pending # Nothing, NEW h, NEW outcome, NEW receipt,
         \/ outcome = "quarantined" /\ receipt = Nothing
         \/ /\ outcome = "committed"
            /\ receipt \in Receipts(peerLog) /\ Answers(receipt, g.backend.pending),
         h.backend.operations =
           Retain(g.backend.operations, RecordOf(g.backend.pending, outcome, receipt))
  PROVE  RecordsStay(g, h)
<1> DEFINE record == RecordOf(g.backend.pending, outcome, receipt)
<1>1. /\ record.id = g.backend.pending.id
      /\ ToSet(h.backend.operations) \subseteq ToSet(g.backend.operations) \cup {record}
  BY RecordSound
<1>2. g.backend.pending.id \notin RetainedIds(g.backend)
  BY DEF SoundGoal, SoundIntent
<1> HIDE DEF record
<1> QED
  BY <1>1, <1>2 DEF RecordsStay

LEMMA QuarantineKeepsRecords ==
  ASSUME NEW g, NEW peerLog, SoundLog(peerLog), SoundGoal(g, peerLog),
         g.backend.pending # Nothing
  PROVE  RecordsStay(g, Quarantine(g))
<1>1. Quarantine(g).backend.operations =
        Retain(g.backend.operations, RecordOf(g.backend.pending, "quarantined", Nothing))
  BY QuarantineFields
<1> QED
  BY <1>1, WayOutKeepsRecords

LEMMA AcceptKeepsRecords ==
  ASSUME NEW g, NEW peerLog, SoundLog(peerLog), SoundGoal(g, peerLog),
         NEW answer, NEW sel, NEW export \in Contents \cup {Nothing},
         g.backend.pending # Nothing,
         FitAnswer(peerLog, RequestOf(g.backend.pending), answer)
  PROVE  RecordsStay(g, AcceptReceipt(g, answer, sel, export))
<1> DEFINE b == g.backend
           h == AcceptReceipt(g, answer, sel, export)
           code == VerifyReceipt(RequestOf(b.pending), answer)
           receipt == answer.receipt
<1>1. CASE Waits(g, h)
  BY <1>1 DEF Waits, RecordsStay
<1>2. CASE h = Quarantine(g)
  BY <1>2, QuarantineKeepsRecords
<1>3. CASE h = ReleaseBinding(g, receipt, export) /\ code = "verified" /\ export # Nothing
  <2>1. receipt \in Receipts(peerLog) /\ Answers(receipt, b.pending)
    BY <1>3, VerifiedAnswers
  <2>2. h.backend.operations = Retain(b.operations, RecordOf(b.pending, "committed", receipt))
    BY <1>3, <2>1, ReleaseFields
  <2> QED
    BY <2>1, <2>2, WayOutKeepsRecords
<1>4. CASE h = InstallBinding(g, receipt) /\ code = "verified" /\ b.pending.kind # "detach"
  <2>1. receipt \in Receipts(peerLog) /\ Answers(receipt, b.pending)
    BY <1>4, VerifiedAnswers
  <2>2. h.backend.operations = Retain(b.operations, RecordOf(b.pending, "committed", receipt))
    BY <1>4, <2>1, InstallFields
  <2> QED
    BY <2>1, <2>2, WayOutKeepsRecords
<1> QED
  BY <1>1, <1>2, <1>3, <1>4, AcceptCases

LEMMA StepKeepsRecords ==
  ASSUME BindingInv, [Next]_vars
  PROVE  goal'.work = goal.work => RecordsStay(goal, goal')
<1>0. /\ SoundLog(log) /\ SoundGoal(goal, log) /\ goal \in Goal /\ goal.work \in Nat
  BY DEF BindingInv, SoundGoal, Goal, Works
<1>1. CASE goal'.backend.operations = goal.backend.operations
  BY <1>1 DEF RecordsStay
<1>2. ASSUME NEW n \in 1..MaxOperations[goal.work], NEW kind \in Mutations,
             PlanOperation(n, kind)
      PROVE  goal'.backend.operations = goal.backend.operations
  BY <1>0, <1>2, PlannedFields DEF PlanOperation
<1>3. CASE Deadline \/ PeerAnswers \/ PeerDeclines
  <2>1. PICK answer : FitAnswer(log', call.request, answer) /\ Resume(answer)
    BY <1>3, AnswersFit
  <2>2. SoundLog(log') /\ SoundGoal(goal, log') /\ call \in Call
    BY <1>0, <1>3, AnswersFit, SoundAsLogGrows DEF BindingInv, CallInv, Idle
  <2>3. CASE call.phase = "export"
    <3>1. goal' = goal
            \/ \E code : code \notin TerminalCodes /\ goal' = FailOperation(goal, code)
      BY <2>1, <2>3 DEF Resume, AfterExport
    <3> QED
      BY <1>0, <1>1, <3>1, FailSound
  <2>4. CASE call.phase = "operation"
    <3>1. goal' = AcceptReceipt(goal, answer, call.selection, call.export)
      BY <2>1, <2>4 DEF Resume, AfterOperation
    <3>2. call.export \in Contents \cup {Nothing}
      BY <2>2 DEF Call
    <3> QED
      BY <2>1, <2>2, <2>4, <3>1, <3>2, AcceptKeepsRecords DEF BindingInv, CallInv
  <2>5. CASE call.phase = "probe"
    <3>1. goal' = MarkPeerAvailable(goal, call.request, answer)
      BY <2>1, <2>5 DEF Resume, AfterProbe
    <3>2. goal.backend.state = "bound-unavailable" /\ call.request.kind = "read"
          /\ call.request.expected = goal.backend.binding.revision
      BY <2>5 DEF BindingInv, CallInv
    <3> QED
      BY <1>1, <2>1, <2>2, <3>1, <3>2, AvailableSound
  <2> QED
    BY <2>2, <2>3, <2>4, <2>5 DEF Call
<1>4. CASE LosePeer
  BY <1>0, <1>1, <1>4, UnavailableSound DEF LosePeer
<1>5. CASE Abandon
  BY <1>0, <1>5, QuarantineKeepsRecords DEF Abandon, AbandonOperation
<1>6. CASE Reconcile
  BY <1>0, <1>1, <1>6, QuarantineKeepsRecords DEF Reconcile, ReconcileSelection
<1>7. CASE LateAnswer
  <2>1. PICK answer \in OtherAnswers(RequestOf(goal.backend.pending)) :
          goal' = AcceptReceipt(goal, answer, selection, Nothing)
    BY <1>7 DEF LateAnswer
  <2>2. Asked(RequestOf(goal.backend.pending))
    BY <1>0, <1>7, PendingRequest DEF LateAnswer, Asked, WellPlanned, Mutations
  <2>3. FitAnswer(log, RequestOf(goal.backend.pending), answer)
    BY <1>0, <2>1, <2>2, OtherAnswersFit
  <2> QED
    BY <1>0, <1>7, <2>1, <2>3, AcceptKeepsRecords DEF LateAnswer
<1>8. CASE UpdateMemory
  <2>1. goal'.backend = goal.backend
    BY <1>0, <1>8 DEF UpdateMemory, Goal
  <2> QED
    BY <1>1, <2>1
<1>9. CASE CompleteStage \/ ReplaceGoal
  <2>1. goal'.work = goal.work + 1
    BY <1>9 DEF CompleteStage, ReplaceGoal, NextWork
  <2> QED
    BY <1>0, <2>1
<1>10. CASE RunOperation \/ ProbePeer \/ Crash \/ MoveSelection \/ PeerHandles \/ UNCHANGED vars
  BY <1>1, <1>10 DEF RunOperation, ProbePeer, Crash, MoveSelection, PeerHandles, vars
<1> QED
  BY <1>1, <1>2, <1>3, <1>4, <1>5, <1>6, <1>7, <1>8, <1>9, <1>10 DEF Next

LEMMA StepKeepsVerdicts ==
  ASSUME BindingInv, [Next]_vars, goal'.work = goal.work,
         NEW old \in ToSet(goal.backend.operations)
  PROVE  /\ \A new \in ToSet(goal'.backend.operations) : new.id = old.id => new = old
         /\ (goal'.backend.pending # Nothing /\ goal'.backend.pending.id = old.id)
              => old.id \notin RetainedIds(goal'.backend)
<1>1. RecordsStay(goal, goal')
  BY StepKeepsRecords
<1>2. \A one, other \in ToSet(goal.backend.operations) : one.id = other.id => one = other
  BY DEF BindingInv, SoundGoal, SoundOperations, ToSet
<1>3. goal'.backend.pending # Nothing =>
        goal'.backend.pending.id \notin RetainedIds(goal'.backend)
  BY StepPreserves DEF BindingInv, SoundGoal, SoundIntent
<1> QED
  BY <1>1, <1>2, <1>3 DEF RecordsStay, RetainedIds

(* Once an operation id has its verdict, no step changes the record while  *)
(* it is kept, nor takes up the id again (retain, resolveReplay).          *)
THEOREM VerdictsStand ==
  Spec => VerdictsAreFinal
<1>1. BindingInv /\ [Next]_vars =>
        [goal'.work = goal.work =>
           \A old \in ToSet(goal.backend.operations) :
             /\ \A new \in ToSet(goal'.backend.operations) : new.id = old.id => new = old
             /\ (goal'.backend.pending # Nothing /\ goal'.backend.pending.id = old.id)
                  => old.id \notin RetainedIds(goal'.backend)]_vars
  BY StepKeepsVerdicts
<1> QED
  BY <1>1, BindingInvariant, PTL DEF Spec, VerdictsAreFinal

-----------------------------------------------------------------------------
(* Intents.                                                                *)

(* While a call is awaited, an intent ends by an answer that settles it.   *)
LEMMA CallSettlesIntent ==
  ASSUME BindingInv, [Next]_vars, goal.backend.pending # Nothing,
         goal'.backend.pending = Nothing, ~Idle
  PROVE  /\ call.phase = "operation"
         /\ \E answer \in ReachableAnswers :
              Settles(answer, goal.backend.pending) /\ Resume(answer)
<1> DEFINE b == goal.backend
<1>0. SoundLog(log) /\ SoundGoal(goal, log)
  BY DEF BindingInv
<1>1. goal' # goal
  OBVIOUS
<1>2. Deadline \/ PeerAnswers \/ PeerDeclines
  BY <1>1 DEF Next, vars, PlanOperation, RunOperation, ProbePeer, LosePeer, Abandon, Reconcile,
              LateAnswer, Crash, UpdateMemory, CompleteStage, ReplaceGoal, MoveSelection,
              PeerHandles
<1>3. PICK answer :
        /\ FitAnswer(log', call.request, answer) /\ Resume(answer)
        /\ answer = Failure(call.request.id, "timeout") \/ answer \in ReachableAnswers
  BY <1>2, AnswersFit
<1>4. SoundLog(log') /\ SoundGoal(goal, log')
  BY <1>0, <1>2, AnswersFit, SoundAsLogGrows
<1>5. call.phase # "export"
  <2> SUFFICES ASSUME call.phase = "export" PROVE FALSE
    OBVIOUS
  <2>1. goal' = goal \/ \E code : code \notin TerminalCodes /\ goal' = FailOperation(goal, code)
    BY <1>3 DEF Resume, AfterExport
  <2> QED
    BY <1>0, <2>1, FailSound
<1>6. call.phase # "probe"
  <2> SUFFICES ASSUME call.phase = "probe" PROVE FALSE
    OBVIOUS
  <2>1. goal' = MarkPeerAvailable(goal, call.request, answer)
    BY <1>3 DEF Resume, AfterProbe
  <2>2. b.state = "bound-unavailable" /\ call.request.kind = "read"
        /\ call.request.expected = b.binding.revision
    BY DEF BindingInv, CallInv
  <2> QED
    BY <1>3, <1>4, <2>1, <2>2, AvailableSound
<1>7. call.phase = "operation"
  BY <1>3, <1>5, <1>6 DEF Resume
<1> DEFINE code == VerifyReceipt(RequestOf(b.pending), answer)
<1>8. /\ goal' = AcceptReceipt(goal, answer, call.selection, call.export)
      /\ b.pending.scope.selection = call.selection
      /\ call.request = RequestOf(b.pending) /\ call.request.id = b.pending.id
  BY <1>3, <1>7 DEF Resume, AfterOperation, BindingInv, CallInv, RequestOf
<1>9. ~Waits(goal, goal')
  BY DEF Waits
<1>10. code \in TerminalCodes \/ code = "verified"
  BY <1>4, <1>8, <1>9, AcceptCases
<1> HIDE DEF code
<1>11. \/ answer.status = "committed" /\ answer.id = b.pending.id
       \/ /\ answer.status = "error" /\ answer.code \in TerminalCodes
          /\ answer.id \in {b.pending.id, Nothing}
  BY <1>3, <1>8, <1>10, VerdictMeans DEF code
<1>12. answer # Failure(call.request.id, "timeout")
  BY <1>11 DEF Failure, TerminalCodes
<1>13. Settles(answer, b.pending)
  BY <1>11 DEF Settles
<1> QED
  BY <1>3, <1>7, <1>12, <1>13

(* A deadline, a crash or an answer to something else leaves an awaited    *)
(* intent to be retried (acceptReceipt, failOperation).                    *)
THEOREM IntentsOutliveTheirCalls ==
  Spec => IntentsSurvive
<1>1. BindingInv /\ [Next]_vars =>
        [LET pending == goal.backend.pending
         IN (pending # Nothing /\ goal'.backend.pending = Nothing /\ ~Idle)
              => /\ call.phase = "operation"
                 /\ \E answer \in ReachableAnswers :
                      Settles(answer, pending) /\ Resume(answer)]_vars
  BY CallSettlesIntent
<1> QED
  BY <1>1, BindingInvariant, PTL DEF Spec, IntentsSurvive

-----------------------------------------------------------------------------
(* Working memory.                                                         *)

KeepsStep == [Abstract!Move]_<<goal.work, Owner, Version, MemoryInForce>>

(* A step that leaves the binding and the notes leaves the memory.         *)
LEMMA MemoryStays ==
  ASSUME BindingInv, Continues(log, log'), goal'.work = goal.work,
         goal'.backend.binding = goal.backend.binding, goal'.notes = goal.notes
  PROVE  goal'.work = goal.work /\ Version' = Version /\ MemoryInForce' = MemoryInForce
BY DEF BindingInv, SoundGoal, SoundBinding, Continues, Version, MemoryInForce

LEMMA StaysPut ==
  ASSUME BindingInv, BindingInv', Continues(log, log'), goal'.work = goal.work,
         goal'.backend.binding = goal.backend.binding, goal'.notes = goal.notes,
         \/ goal'.backend.state = goal.backend.state
         \/ ClaimsAuthority(goal.backend) /\ ClaimsAuthority(goal'.backend)
  PROVE  KeepsStep
<1>1. Owner' = Owner
  <2>1. SoundGoal(goal, log) /\ SoundGoal(goal, log)'
    BY DEF BindingInv
  <2>2. CASE goal'.backend.state = goal.backend.state
    BY <2>2 DEF Owner, GoalOwnsMemory, ClaimsAuthority
  <2>3. CASE ClaimsAuthority(goal.backend) /\ ClaimsAuthority(goal'.backend)
    BY <2>3 DEF Owner, GoalOwnsMemory, ClaimsAuthority
  <2> QED
    BY <2>2, <2>3
<1> QED
  BY <1>1, MemoryStays DEF KeepsStep

(* A quarantined bind calls the move off; anything else stays where it is. *)
LEMMA QuarantineMoves ==
  ASSUME BindingInv, BindingInv', Continues(log, log'), goal.backend.pending # Nothing,
         goal' = Quarantine(goal)
  PROVE  KeepsStep
<1> DEFINE b == goal.backend
<1>1. /\ goal'.work = goal.work /\ goal'.notes = goal.notes
      /\ goal'.backend.binding = b.binding /\ goal'.backend.state = b.pending.previous
  BY QuarantineFields DEF BindingInv
<1>3. CASE b.pending.kind = "bind"
  <2>1. b.state = "binding-pending" /\ b.pending.previous \in {"unbound", "detached"}
    BY <1>3 DEF BindingInv, SoundGoal, SoundIntent
  <2>2. Owner = "moving" /\ Owner' = "goal"
    BY <1>1, <2>1 DEF Owner, GoalOwnsMemory, ClaimsAuthority
  <2> QED
    BY <1>1, <2>2, MemoryStays DEF KeepsStep, Abstract!Move, Abstract!CancelMove
<1>4. CASE b.pending.kind # "bind"
  <2>1. ClaimsAuthority(b) /\ ClaimsAuthority(goal'.backend)
    BY <1>1, <1>4 DEF BindingInv, SoundGoal, SoundIntent, ClaimsAuthority
  <2> QED
    BY <1>1, <2>1, StaysPut
<1> QED
  BY <1>3, <1>4

(* An acknowledged bind arrives with the memory it carried, at a first     *)
(* revision; an acknowledged write goes to a later one.                    *)
LEMMA InstallMoves ==
  ASSUME BindingInv, BindingInv', Continues(log, log'), goal.backend.pending # Nothing,
         goal.backend.pending.kind # "detach", NEW receipt \in Receipts(log'),
         Answers(receipt, goal.backend.pending), goal' = InstallBinding(goal, receipt)
  PROVE  KeepsStep
<1> DEFINE b == goal.backend
           revision == receipt.revision
<1>0. SoundLog(log) /\ SoundLog(log') /\ SoundGoal(goal, log) /\ SoundGoal(goal, log')
  BY SoundAsLogGrows DEF BindingInv
<1>1. /\ goal'.work = goal.work /\ goal'.backend.binding # Nothing
      /\ goal'.backend.binding.revision = revision
      /\ goal'.backend.state = "bound-available"
  BY <1>0, InstallFields
<1>2. /\ revision \in DOMAIN log' /\ log'[revision].id = b.pending.id
      /\ log'[revision].scope.work = goal.work
      /\ log'[revision].payload = b.pending.payload
  BY <1>0, ReceiptIsTrue DEF Answers, SoundGoal, SoundIntent
<1>3. WellPlanned(b.pending) /\ b.pending.kind \in {"bind", "write"}
  BY <1>0 DEF SoundGoal, SoundIntent, WellPlanned, Mutations
<1>4. b.pending.payload # Nothing
  BY <1>3, NothingAssumption DEF WellPlanned, Contents
<1>5. log'[revision].notes = b.pending.payload.notes
  BY <1>0, <1>2, <1>4 DEF SoundLog
<1>6. /\ Version' = revision /\ MemoryInForce' = b.pending.payload.notes
      /\ Owner' = "peer" /\ revision \in Nat \ {0}
  <2>1. Version' = revision /\ MemoryInForce' = log'[revision].notes
    BY <1>1 DEF Version, MemoryInForce
  <2>2. Owner' = "peer"
    BY <1>1 DEF Owner, GoalOwnsMemory, ClaimsAuthority
  <2> QED
    BY <1>0, <1>2, <1>5, <2>1, <2>2, CommitTypes DEF SoundLog
<1>7. CASE b.pending.kind = "bind"
  <2>1. b.state = "binding-pending" /\ b.binding = Nothing /\ b.pending.payload.notes = goal.notes
    BY <1>0, <1>7 DEF SoundGoal, SoundIntent, SoundBinding, ClaimsAuthority
  <2>2. Owner = "moving" /\ Version = 0 /\ MemoryInForce = goal.notes
    BY <2>1 DEF Owner, GoalOwnsMemory, ClaimsAuthority, Version, MemoryInForce
  <2>3. Version' > Version
    BY <1>6, <2>2
  <2> QED
    BY <1>1, <1>6, <2>1, <2>2, <2>3 DEF KeepsStep, Abstract!Move, Abstract!Arrive
<1>8. CASE b.pending.kind = "write"
  <2>1. ClaimsAuthority(b) /\ b.binding # Nothing /\ revision > b.binding.revision
    BY <1>0, <1>2, <1>8 DEF SoundGoal, SoundIntent, SoundBinding
  <2>2. Owner = "peer" /\ Version = b.binding.revision
    BY <2>1 DEF Owner, GoalOwnsMemory, ClaimsAuthority, Version
  <2>3. b.pending.payload.notes \in Notes
    BY <1>3, <1>8 DEF WellPlanned
  <2> QED
    BY <1>1, <1>6, <2>1, <2>2, <2>3 DEF KeepsStep, Abstract!Move, Abstract!Write
<1> QED
  BY <1>3, <1>7, <1>8

(* An acknowledged detach brings back the record that was in force.        *)
LEMMA ReleaseMoves ==
  ASSUME BindingInv, BindingInv', Continues(log, log'), goal.backend.pending # Nothing,
         goal.backend.pending.kind = "detach", NEW receipt \in Receipts(log'),
         Answers(receipt, goal.backend.pending), NEW export \in Contents,
         export = log[goal.backend.binding.revision].notes,
         goal' = ReleaseBinding(goal, receipt, export)
  PROVE  KeepsStep
<1> DEFINE b == goal.backend
<1>0. SoundLog(log') /\ SoundGoal(goal, log) /\ SoundGoal(goal, log')
  BY SoundAsLogGrows DEF BindingInv
<1>1. /\ goal'.work = goal.work /\ goal'.notes = export
      /\ goal'.backend.binding = Nothing /\ goal'.backend.state = "detached"
  BY <1>0, ReleaseFields
<1>2. ClaimsAuthority(b) /\ b.binding # Nothing
  BY <1>0 DEF SoundGoal, SoundIntent, SoundBinding
<1>3. Owner = "peer" /\ MemoryInForce = export
  BY <1>2 DEF Owner, GoalOwnsMemory, ClaimsAuthority, MemoryInForce
<1>4. Owner' = "goal" /\ Version' = 0 /\ MemoryInForce' = export
  BY <1>1 DEF Owner, GoalOwnsMemory, ClaimsAuthority, Version, MemoryInForce
<1> QED
  BY <1>1, <1>3, <1>4 DEF KeepsStep, Abstract!Move, Abstract!MoveBack

LEMMA AcceptMoves ==
  ASSUME BindingInv, BindingInv', Continues(log, log'), goal.backend.pending # Nothing,
         NEW answer, NEW sel, NEW export \in Contents \cup {Nothing},
         FitAnswer(log', RequestOf(goal.backend.pending), answer),
         (export # Nothing /\ goal.backend.pending.kind = "detach") =>
           export = log[goal.backend.binding.revision].notes,
         goal' = AcceptReceipt(goal, answer, sel, export)
  PROVE  KeepsStep
<1> DEFINE b == goal.backend
           code == VerifyReceipt(RequestOf(b.pending), answer)
           receipt == answer.receipt
<1>0. SoundLog(log') /\ SoundGoal(goal, log')
  BY SoundAsLogGrows DEF BindingInv
<1>1. CASE Waits(goal, goal')
  BY <1>1, StaysPut DEF Waits
<1>2. CASE goal' = Quarantine(goal)
  BY <1>2, QuarantineMoves
<1>3. CASE /\ goal' = ReleaseBinding(goal, receipt, export)
           /\ code = "verified" /\ export # Nothing /\ b.pending.kind = "detach"
  <2>1. receipt \in Receipts(log') /\ Answers(receipt, b.pending)
    BY <1>0, <1>3, VerifiedAnswers
  <2> QED
    BY <1>3, <2>1, ReleaseMoves
<1>4. CASE /\ goal' = InstallBinding(goal, receipt)
           /\ code = "verified" /\ b.pending.kind # "detach"
  <2>1. receipt \in Receipts(log') /\ Answers(receipt, b.pending)
    BY <1>0, <1>4, VerifiedAnswers
  <2> QED
    BY <1>4, <2>1, InstallMoves
<1> QED
  BY <1>0, <1>1, <1>2, <1>3, <1>4, AcceptCases

LEMMA AnswerMoves ==
  ASSUME BindingInv, BindingInv', Deadline \/ PeerAnswers \/ PeerDeclines
  PROVE  KeepsStep
<1>1. PICK answer : FitAnswer(log', call.request, answer) /\ Resume(answer)
  BY AnswersFit
<1>2. Continues(log, log') /\ SoundLog(log') /\ SoundGoal(goal, log') /\ call \in Call
  BY AnswersFit, SoundAsLogGrows DEF BindingInv, CallInv, Idle
<1>3. CASE call.phase = "export"
  <2>1. goal' = goal \/ \E code : code \notin TerminalCodes /\ goal' = FailOperation(goal, code)
    BY <1>1, <1>3 DEF Resume, AfterExport
  <2>2. Waits(goal, goal')
    BY <1>2, <2>1, FailSound DEF Waits, ClaimsAuthority
  <2> QED
    BY <1>2, <2>2, StaysPut DEF Waits
<1>4. CASE call.phase = "operation"
  <2>1. goal' = AcceptReceipt(goal, answer, call.selection, call.export)
    BY <1>1, <1>4 DEF Resume, AfterOperation
  <2>2. call.export \in Contents \cup {Nothing}
    BY <1>2 DEF Call
  <2> QED
    BY <1>1, <1>2, <1>4, <2>1, <2>2, AcceptMoves DEF BindingInv, CallInv
<1>5. CASE call.phase = "probe"
  <2>1. goal' = MarkPeerAvailable(goal, call.request, answer)
    BY <1>1, <1>5 DEF Resume, AfterProbe
  <2>2. goal.backend.state = "bound-unavailable" /\ call.request.kind = "read"
        /\ call.request.expected = goal.backend.binding.revision
    BY <1>5 DEF BindingInv, CallInv
  <2> QED
    BY <1>1, <1>2, <2>1, <2>2, AvailableSound, StaysPut DEF ClaimsAuthority
<1> QED
  BY <1>2, <1>3, <1>4, <1>5 DEF Call

LEMMA StepMoves ==
  ASSUME BindingInv, [Next]_vars
  PROVE  KeepsStep
<1>0. BindingInv' /\ SoundLog(log) /\ SoundGoal(goal, log) /\ goal \in Goal
  BY StepPreserves DEF BindingInv, SoundGoal
<1>1. ASSUME goal' = goal, Continues(log, log')
      PROVE  KeepsStep
  BY <1>0, <1>1, StaysPut
<1>2. log' = log => Continues(log, log')
  BY DEF Continues
<1>3. ASSUME NEW n \in 1..MaxOperations[goal.work], NEW kind \in Mutations,
             PlanOperation(n, kind)
      PROVE  KeepsStep
  <2>1. log' = log /\ \E request : goal' = BeginOperation(goal, request)
    BY <1>3 DEF PlanOperation
  <2>2. /\ goal'.work = goal.work /\ goal'.notes = goal.notes
        /\ goal'.backend.binding = goal.backend.binding
        /\ \/ goal'.backend.state = goal.backend.state
           \/ /\ goal'.backend.state = "binding-pending"
              /\ goal.backend.state \in {"unbound", "detached"}
    BY <1>0, <2>1, PlannedFields
  <2>3. CASE goal'.backend.state = goal.backend.state
    BY <1>0, <1>2, <2>1, <2>2, <2>3, StaysPut
  <2>4. CASE /\ goal'.backend.state = "binding-pending"
             /\ goal.backend.state \in {"unbound", "detached"}
    <3>1. Owner = "goal" /\ Owner' = "moving"
      BY <2>4 DEF Owner, GoalOwnsMemory, ClaimsAuthority
    <3> QED
      BY <1>2, <2>1, <2>2, <3>1, MemoryStays DEF KeepsStep, Abstract!Move, Abstract!StartMove
  <2> QED
    BY <2>2, <2>3, <2>4
<1>4. CASE Deadline \/ PeerAnswers \/ PeerDeclines
  BY <1>0, <1>4, AnswerMoves
<1>5. CASE LosePeer
  <2>1. Continues(log, log') /\ goal' = MarkPeerUnavailable(goal)
    BY <1>2, <1>5 DEF LosePeer
  <2> QED
    BY <1>0, <2>1, UnavailableSound, StaysPut DEF ClaimsAuthority
<1>6. CASE Abandon
  BY <1>0, <1>2, <1>6, QuarantineMoves DEF Abandon, AbandonOperation
<1>7. CASE Reconcile
  BY <1>0, <1>1, <1>2, <1>7, QuarantineMoves DEF Reconcile, ReconcileSelection
<1>8. CASE LateAnswer
  <2>1. PICK answer \in OtherAnswers(RequestOf(goal.backend.pending)) :
          goal' = AcceptReceipt(goal, answer, selection, Nothing)
    BY <1>8 DEF LateAnswer
  <2>2. Asked(RequestOf(goal.backend.pending))
    BY <1>0, <1>8, PendingRequest DEF LateAnswer, Asked, WellPlanned, Mutations
  <2>3. FitAnswer(log', RequestOf(goal.backend.pending), answer) /\ Continues(log, log')
    BY <1>0, <1>2, <1>8, <2>1, <2>2, OtherAnswersFit DEF LateAnswer
  <2> QED
    BY <1>0, <1>8, <2>1, <2>3, AcceptMoves DEF LateAnswer
<1>9. CASE UpdateMemory
  <2>1. PICK notes \in Notes : goal' = [goal EXCEPT !.notes = notes]
    BY <1>9 DEF UpdateMemory
  <2>2. goal'.work = goal.work /\ goal'.backend = goal.backend /\ goal'.notes = notes
    BY <1>0, <2>1 DEF Goal
  <2>3. goal.backend.binding = Nothing
    BY <1>0, <1>9
       DEF UpdateMemory, GoalOwnsMemory, SoundGoal, SoundBinding, ClaimsAuthority
  <2>4. goal.backend.state \in {"unbound", "detached"}
    BY <1>9 DEF UpdateMemory, GoalOwnsMemory
  <2>5. Owner = "goal" /\ Owner' = "goal"
    BY <2>2, <2>4 DEF Owner, GoalOwnsMemory, ClaimsAuthority
  <2>6. Version' = Version
    BY <2>2, <2>3 DEF Version
  <2>7. MemoryInForce' = notes
    BY <2>2, <2>3 DEF MemoryInForce
  <2> QED
    BY <2>2, <2>5, <2>6, <2>7 DEF KeepsStep, Abstract!Move, Abstract!Update
<1>10. CASE CompleteStage \/ ReplaceGoal
  <2>1. /\ goal'.work = goal.work + 1 /\ goal'.notes = EmptyNotes
        /\ goal'.backend.state = "unbound" /\ goal'.backend.binding = Nothing
    BY <1>10 DEF CompleteStage, ReplaceGoal, NextWork, EmptyBackend
  <2>2. Owner' = "goal" /\ Version' = 0 /\ MemoryInForce' = EmptyNotes
    BY <2>1 DEF Owner, GoalOwnsMemory, ClaimsAuthority, Version, MemoryInForce
  <2> QED
    BY <2>1, <2>2 DEF KeepsStep, Abstract!Move, Abstract!NextWork
<1>11. CASE RunOperation \/ ProbePeer \/ Crash \/ MoveSelection \/ UNCHANGED vars
  BY <1>1, <1>2, <1>11 DEF RunOperation, ProbePeer, Crash, MoveSelection, vars
<1>12. CASE PeerHandles
  <2>1. Continues(log, log')
    BY <1>0, <1>12, CommitsSound DEF PeerHandles, BindingInv, SentInv
  <2> QED
    BY <1>1, <1>12, <2>1 DEF PeerHandles
<1> QED
  BY <1>3, <1>4, <1>5, <1>6, <1>7, <1>8, <1>9, <1>10, <1>11, <1>12 DEF Next

LEMMA InitStarts ==
  Init => Abstract!Start
BY DEF Init, EmptyBackend, Abstract!Start, Owner, GoalOwnsMemory, ClaimsAuthority,
       Version, MemoryInForce

(* The goal and its peer implement one working memory with one authority:  *)
(* it is never lost or mixed up by a move, and while it is bound it only   *)
(* goes to a later revision.                                               *)
THEOREM OneWorkingMemory ==
  Spec => KeepsWorkingMemory
<1>1. BindingInv /\ [Next]_vars => [Abstract!Move]_<<goal.work, Owner, Version, MemoryInForce>>
  BY StepMoves DEF KeepsStep
<1> QED
  BY <1>1, InitStarts, BindingInvariant, PTL DEF Spec, KeepsWorkingMemory, Abstract!Promise

=============================================================================
