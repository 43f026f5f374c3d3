------------------------- MODULE PeerBindingProperties -------------------------
(***************************************************************************)
(* What the binding guarantees when answers are lost, late, misdirected or *)
(* refused, the driver crashes and the human moves between branches.       *)
(***************************************************************************)
EXTENDS PeerBinding

(* Whatever the operations leave behind, the reader of the session file    *)
(* accepts it: no writer mints a state the validator refuses (isGoalBackend*)
(* and isBackendConsistentWithGoal, tests B15 and B21).                    *)
Loadable == IsGoalBackend(goal.backend) /\ IsBackendConsistentWithGoal(goal)

(* What the goal keeps as acknowledged, and what it is bound to, the peer  *)
(* has committed: never a postponed, refused, foreign or invented result   *)
(* (acceptReceipt, verifyReceipt, markPeerAvailable).                      *)
AcknowledgedIsCommitted ==
  LET b == goal.backend
  IN /\ \A record \in ToSet(b.operations) :
          record.outcome = "committed" => record.receipt \in Receipts(log)
     /\ b.binding # Nothing =>
          /\ b.binding.revision \in DOMAIN log
          /\ log[b.binding.revision].scope.work = goal.work

(* The verdict on an operation id is final while its record is kept: a     *)
(* quarantined operation is never published by a late receipt, and an      *)
(* acknowledged one keeps its receipt (retain, resolveReplay).             *)
VerdictsAreFinal ==
  [][goal'.work = goal.work =>
       \A old \in ToSet(goal.backend.operations) :
         /\ \A new \in ToSet(goal'.backend.operations) : new.id = old.id => new = old
         /\ (goal'.backend.pending # Nothing /\ goal'.backend.pending.id = old.id)
              => old.id \notin RetainedIds(goal'.backend)]_vars

(* An awaited answer ends an intent only if it is an answer to that intent *)
(* and says that it is committed or can never be; a deadline, a crash or   *)
(* an answer meant for another operation keeps it for the retry            *)
(* (acceptReceipt, failOperation; docs/peer-protocol.md section 4.3).      *)
Settles(answer, pending) ==
  /\ answer.id \in {pending.id, Nothing}
  /\ \/ answer.status = "committed"
     \/ answer.status = "error" /\ answer.code \in TerminalCodes

ReachableAnswers ==
  OtherAnswers(call.request) \cup
    (IF log' = PeerCommits(log, call.request) THEN AnswersOf(log', call.request) ELSE {})

IntentsSurvive ==
  [][LET pending == goal.backend.pending
     IN (pending # Nothing /\ goal'.backend.pending = Nothing /\ ~Idle)
          => /\ call.phase = "operation"
             /\ \E answer \in ReachableAnswers : Settles(answer, pending) /\ Resume(answer)]_vars

(* The working memory of the goal and of the peer is one memory with one   *)
(* authority, carried over unchanged by a bind and by a detach and never   *)
(* taken back to an earlier revision while it is bound.                    *)
MemoryInForce ==
  IF goal.backend.binding = Nothing THEN goal.notes
  ELSE log[goal.backend.binding.revision].notes

Version ==
  IF goal.backend.binding = Nothing THEN 0 ELSE goal.backend.binding.revision

Owner ==
  CASE GoalOwnsMemory(goal.backend) -> "goal"
    [] goal.backend.state = "binding-pending" -> "moving"
    [] ClaimsAuthority(goal.backend) -> "peer"

Abstract == INSTANCE WorkingMemory WITH
  work <- goal.work,
  owner <- Owner,
  version <- Version,
  memory <- MemoryInForce

KeepsWorkingMemory == Abstract!Promise

-----------------------------------------------------------------------------
(* Liveness.  The driver retries a pending intent and reconciles one whose *)
(* branch is gone; a call ends at its deadline at the latest; a peer asked *)
(* again and again gives its answer, some time, before that.               *)

RetryFairness ==
  /\ SF_vars(RunOperation)
  /\ WF_vars(Deadline)
  /\ SF_vars(PeerAnswers)
  /\ WF_vars(Reconcile)

FairSpec == Spec /\ RetryFairness

(* A switch to a peer is never stuck: whatever is lost, repeated or        *)
(* crashes, execution is not withheld by it for ever (the four partial     *)
(* write boundaries of docs/peer-protocol.md section 5.1).                 *)
SwitchesEnd ==
  goal.backend.state = "binding-pending" ~> goal.backend.state # "binding-pending"

=============================================================================
