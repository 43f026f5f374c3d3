------------------------- MODULE GoalRuntimeProperties -------------------------
(***************************************************************************)
(* What the extension guarantees.  Every property relates at least two of  *)
(* the parties: the goal in memory and the session file, the continuation  *)
(* owner and the host's queue, what the agent was told and what is saved.  *)
(***************************************************************************)
EXTENDS GoalRuntime

-----------------------------------------------------------------------------
(* The session file.                                                       *)

(* The goal in memory is the one a reader of the session file would find   *)
(* (up to the pause a restore imposes), also after a failed append:        *)
(* nothing acts on state that could not be saved (flush, restoreBranchGoal)*)
MemoryIsCommitted ==
  Up(host) =>
    /\ store.goal = store.lastPersisted
    /\ store.goal \in {store.leaf, RestoreBranchGoal(store.leaf)}

(* A completion the agent may have acknowledged again by replaying the     *)
(* call is saved: the session's goal has passed that step (completeStage   *)
(* persists before it remembers).                                          *)
AcknowledgedStepsAreDurable ==
  \A record \in ToSet(accepted) :
    (store.leaf # NoGoal /\ store.leaf.goalId = record.identity.goalId) =>
      \/ store.leaf.index > record.identity.index
      \/ store.leaf.status = "complete"

(* A goal that is not active becomes so only by a command of the human:    *)
(* neither a restart, a failed append, a late tool call nor a delivered    *)
(* message revives it (restoreBranchGoal, README "restored work waits").   *)
WorkRestartsOnlyByHuman ==
  [][~IsActive(store.goal) /\ IsActive(store'.goal)
       => StartGoal \/ ResumeCommand]_vars

(* The goal on file moves only as the goal ledger allows, whatever the     *)
(* interleaving of handlers, failed appends, crashes and restarts, as long *)
(* as the human stays on one branch.                                       *)
Ledger == INSTANCE GoalLedger WITH committed <- store.lastPersisted,
                                   issued <- used["goals"]

ImplementsLedger == Ledger!LedgerSpec

-----------------------------------------------------------------------------
(* The continuation owner and the host.                                    *)

(* At most one goal message is in the host's queue, through clears that    *)
(* could not withdraw it, restarts of the goal and retries of the timer    *)
(* (continuation.ts: "at most one pending goal continuation").             *)
OneGoalMessage == Len(host.goalQueue) <= 1

(* At most one retry is armed: no lifecycle change overwrites the handle   *)
(* of a timer that is still running (request, clearTimer).                 *)
OneTimer ==
  /\ Cardinality(cont.timers) <= 1
  /\ (cont.scheduledFor = 0) = (cont.timers = {})

(* The message whose delivery arms the next context boundary is the one    *)
(* the owner sent last, never an older one left in the queue               *)
(* (goalMessageDelivered knows the sender of a message only by its type).  *)
AckMatchesMessage ==
  [][(cont.phase = "queued" /\ cont'.phase = "delivered")
       => Head(host.goalQueue) = cont.sentFor]_vars

(* A goal that is paused, blocked, complete or gone has nothing scheduled  *)
(* and no loop that a later command would take for its own.                *)
NoWorkForStoppedGoal ==
  (Up(host) /\ ~IsActive(store.goal)) =>
    /\ cont.phase = "idle"
    /\ cont.timers = {}
    /\ ~Outstanding(cont)

(* A goal message is sent only for an active goal with every fuse intact,  *)
(* and never while a peer owns the session; the timer's own way to the     *)
(* host included (requestContinuation, request).                           *)
SendsAreAdmitted ==
  [][Len(host'.goalQueue) > Len(host.goalQueue) =>
       /\ IsActive(store'.goal)
       /\ ~Exhausted(store'.goal.execution)
       /\ ~yielding]_vars

(* The extension's abort, which is process-global, never cancels the loop  *)
(* a user's message is driving: a user's message in front of the queued    *)
(* one is on record (withdrawGoalWork, outstanding).  Nothing records a    *)
(* peer's: see AbortsSparePeerLoop in GoalRuntimeClaims.                   *)
AbortsSpareUserLoop ==
  [][(host'.loop = "running" /\ host'.aborted /\ ~host.aborted /\ ~HumanAborts)
       => host.work # "user"]_vars

(* A running loop driven by a message of the active goal, once recognised  *)
(* as the goal's, stays recognised until it ends, is cancelled or another  *)
(* message takes it over -- across the step boundary it reports, timers,   *)
(* compactions and failed appends -- so that a pause can still stop it     *)
(* (clearSchedule keeps ownership, withdrawGoalWork).                      *)
GoalLoop ==
  /\ host.loop = "running" /\ host.started /\ ~host.aborted
  /\ host.work = "goal"
  /\ IsActive(store.goal)

GoalLoopStaysRecognised ==
  [][(GoalLoop /\ Outstanding(cont) /\ GoalLoop') => Outstanding(cont')]_vars

(* The owner waits for the delivery of a message that is not there, and    *)
(* refuses every request meanwhile (request, phase "queued").              *)
WaitsForNothing == cont.phase = "queued" /\ host.goalQueue = <<>>

(* Only a human's abort, of which the owner is not told, can take the      *)
(* message it waits for: the extension's own aborts, deliveries, timers    *)
(* and lifecycle changes leave the owner and the queue in step             *)
(* (withdrawGoalWork, clear, clearSchedule).                               *)
OnlyHumanLosesMessage ==
  [][WaitsForNothing' /\ ~WaitsForNothing => HumanAborts]_vars

-----------------------------------------------------------------------------
(* Liveness.  The host delivers what is queued, starts and ends its loops, *)
(* settles after an agent_end, and the event loop runs a due timer.        *)

HostFairness ==
  /\ WF_vars(\E sender \in Senders : DeliverMessage(sender))
  /\ WF_vars(AgentStart)
  /\ WF_vars(AgentEnd)
  /\ WF_vars(HostSettles)
  /\ WF_vars(TimerFires)

FairSpec == Spec /\ HostFairness

Stalled == Up(host) /\ IsActive(store.goal) /\ ~store.persistenceBroken /\ host.loop # "running"

(* An active goal does not stay idle: the host is driven into another loop *)
(* or the goal stops being active, also after a human's abort (agent_end,  *)
(* the retry timer, one kickoff after a completed step).  It may fall      *)
(* asleep in two cases: its state cannot be saved, or a human's abort has  *)
(* drained the message the owner waits for, whose phase "queued" then      *)
(* refuses every request until a change of the goal clears it.             *)
KeepsGoing ==
  [](~yielding) =>
    (Stalled ~> (~Up(host) \/ ~IsActive(store.goal) \/ store.persistenceBroken
                 \/ host.loop = "running" \/ WaitsForNothing))

=============================================================================
