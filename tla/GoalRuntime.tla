----------------------------- MODULE GoalRuntime -----------------------------
(***************************************************************************)
(* The extension (src/src/runtime.ts with persistence.ts and commands.ts)  *)
(* between the host that calls its handlers, the agent that calls its      *)
(* tools, the human that types commands and the session file it appends    *)
(* snapshots to.  JavaScript runs a handler to its end, so a handler is    *)
(* one action; an append may fail in any of them, and the process may die  *)
(* between any two.                                                        *)
(***************************************************************************)
EXTENDS SessionHost, SequencesExt

CONSTANTS
  Limits,          \* the configured limits, one of LimitSettings
  HumanSteps,      \* steps with a criterion only a human can decide
  ToolCalls,       \* tool-call ids
  MaxAccepted,     \* retained accepted completions (MAX_ACCEPTED_COMPLETIONS)
  MaxGoals,        \* bound: goals ever started
  MaxSteps,        \* bound: steps of a goal
  MaxRevision,     \* bound: memory revisions within one step
  MaxMessages,     \* bound: user and peer messages ever sent
  MaxFailures,     \* bound: appends that ever fail
  MaxRestarts,     \* bound: sessions started again
  MaxNavigations,  \* bound: branches restored in a running session
  MaxAborts,       \* bound: loops the human aborts
  TrailLength      \* bound: older snapshots tree navigation can return to

ASSUME LimitsAssumption == Limits \in LimitSettings

ASSUME BoundsAssumption ==
  /\ {MaxGoals, MaxSteps, MaxRevision, MaxMessages, MaxFailures, MaxRestarts,
      MaxNavigations, MaxAborts, TrailLength} \subseteq Nat
  /\ MaxAccepted \in Positive

VARIABLES
  store,      \* persistence.ts, and the session file behind it
  cont,       \* the continuation owner
  host,       \* the host
  yielding,   \* a live pi-orchestrate feature owns the session
  accepted,   \* acceptedCompletions, oldest first
  used        \* how much of each bound is used

vars == <<store, cont, host, yielding, accepted, used>>

(* persistenceBroken stands for lastWriteFailed too: every caller of flush *)
(* and appendClear copies one into the other.  leaf is the snapshot the    *)
(* selected branch reconstructs to; trail are snapshots before it.         *)
StoreState ==
  [ goal              : GoalRecord \cup {NoGoal},
    lastPersisted     : GoalRecord \cup {NoGoal},
    persistenceBroken : BOOLEAN,
    leaf              : GoalRecord \cup {NoGoal},
    trail             : Seq(GoalRecord \cup {NoGoal}),
    failures          : Nat ]

Bounds == {"goals", "messages", "restarts", "navigations", "aborts"}

Completion == [call : ToolCalls, identity : Identity]

TypeOK ==
  /\ store \in StoreState
  /\ cont \in ContinuationState
  /\ host \in HostState
  /\ yielding \in BOOLEAN
  /\ accepted \in Seq(Completion)
  /\ used \in [Bounds -> Nat]

Init ==
  /\ store = [ goal |-> NoGoal, lastPersisted |-> NoGoal, persistenceBroken |-> FALSE,
               leaf |-> NoGoal, trail |-> <<>>, failures |-> 0 ]
  /\ cont = InitialContinuation
  /\ host = IdleHost
  /\ yielding \in BOOLEAN
  /\ accepted = <<>>
  /\ used = [bound \in Bounds |-> 0]

Use(bound, limit) ==
  /\ used[bound] < limit
  /\ used' = [used EXCEPT ![bound] = @ + 1]

-----------------------------------------------------------------------------
(* Persistence.  Each operator gives the stores a call can leave behind.   *)

Remember(s) ==
  IF TrailLength = 0 THEN s.trail
  ELSE LET longer == Append(s.trail, s.leaf) IN
       IF Len(longer) <= TrailLength THEN longer ELSE Tail(longer)

Committed(s, g) ==
  [s EXCEPT !.goal = g, !.lastPersisted = g, !.persistenceBroken = FALSE,
            !.leaf = g, !.trail = Remember(s)]

(* Faulty: the uncommitted goal stays in memory, or nobody is told.        *)
RolledBackNot(s) == [s EXCEPT !.persistenceBroken = TRUE, !.failures = @ + 1]

RolledBackSilently(s) == [s EXCEPT !.goal = s.lastPersisted, !.failures = @ + 1]

(* flush discards the snapshot it could not append ...                     *)
RolledBack(s) ==
  [s EXCEPT !.goal = s.lastPersisted, !.persistenceBroken = TRUE, !.failures = @ + 1]

(* ... and appendClear keeps the goal it could not clear.                  *)
NotCleared(s) == [s EXCEPT !.persistenceBroken = TRUE, !.failures = @ + 1]

MayFail(s, outcome) == IF s.failures < MaxFailures THEN {outcome} ELSE {}

(* persist: setGoalSnapshot, flush, trackPersistence.  goalsEquivalent     *)
(* compares the JSON text of two goals: what is equal in value but not in  *)
(* text, a time stamp included, is appended by the code and skipped here.  *)
(* A reader finds the same goal either way.                                *)
PersistOutcomes(s, g) ==
  IF g = s.lastPersisted THEN {[s EXCEPT !.goal = g]}
  ELSE {Committed(s, g)} \cup MayFail(s, RolledBack([s EXCEPT !.goal = g]))

FlushOutcomes(s) == IF s.goal = NoGoal THEN {s} ELSE PersistOutcomes(s, s.goal)

ClearOutcomes(s) == {Committed(s, NoGoal)} \cup MayFail(s, NotCleared(s))

(* session_start and session_tree: the branch decides, and active work     *)
(* comes back paused.                                                      *)
Restored(s, snapshot) ==
  [s EXCEPT !.goal = RestoreBranchGoal(snapshot),
            !.lastPersisted = RestoreBranchGoal(snapshot),
            !.leaf = snapshot]

-----------------------------------------------------------------------------
(* The runtime's helpers.  s, c and h are the store, the continuation and  *)
(* the host as the handler has left them so far.                           *)

Withdrawn(c, h) == IF Outstanding(c) THEN Abort(h) ELSE h

(* Faulty: the host is told to stop, the owner is not.                     *)
WithdrawGoalWorkHalfway(c, h) ==
  /\ cont' = c
  /\ host' = Withdrawn(c, h)

WithdrawGoalWork(c, h) ==
  /\ cont' = ClearContinuation(c)
  /\ host' = Withdrawn(c, h)

PausesForExhaustion(s, g, c, h) ==
  /\ store' \in PersistOutcomes(s, PauseForExhaustion(g))
  /\ WithdrawGoalWork(c, h)

(* continuation.request, as its callers outside the owner reach it and as  *)
(* the owner's own timer reaches it.                                       *)
OwnerRequest(g, c, h, boundary) ==
  /\ cont' = AfterRequest(c, g, boundary, yielding, HasPendingMessages(h), IsIdle(h))
  /\ host' = IF Sends(c, g, boundary, yielding, HasPendingMessages(h), IsIdle(h))
             THEN SendGoalMessage(h, g) ELSE h

(* Faulty: the admission gate is left out.                                 *)
MustPauseNever(s) == FALSE

MustPause(s) == IsActive(s.goal) /\ ~yielding /\ Exhausted(s.goal.execution)

RequestContinuation(s, c, h, boundary) ==
  \/ /\ s.persistenceBroken
     /\ store' = s /\ cont' = c /\ host' = h
  \/ /\ ~s.persistenceBroken /\ MustPause(s)
     /\ PausesForExhaustion(s, s.goal, c, h)
  \/ /\ ~s.persistenceBroken /\ ~MustPause(s)
     /\ store' = s
     /\ OwnerRequest(s.goal, c, h, boundary)

(* Whether a request or a context is charged to the goal.                  *)
Chargeable(s) == IsActive(s.goal) /\ ~yielding /\ ~s.persistenceBroken

(* applyCharge on a goal whose fuses all hold.                             *)
Charged(s, e) == PersistOutcomes(s, WithExecution(s.goal, e))

-----------------------------------------------------------------------------
(* Commands of the human.                                                  *)

(* /goal and /goal-multi, once the human has confirmed the steps.          *)
StartGoal ==
  /\ Up(host)
  /\ Use("goals", MaxGoals)
  /\ \E steps \in 1..MaxSteps :
       \E s \in PersistOutcomes(store, NewGoal(used["goals"] + 1, steps, Limits)) :
         RequestContinuation(s, ClearContinuation(cont), Withdrawn(cont, host), FALSE)
  /\ UNCHANGED <<yielding, accepted>>

PauseCommand ==
  /\ Up(host)
  /\ CanPause(store.goal)
  /\ store' \in PersistOutcomes(store, PauseGoal(store.goal))
  /\ WithdrawGoalWork(cont, host)
  /\ UNCHANGED <<yielding, accepted, used>>

ResumeCommand ==
  /\ Up(host)
  /\ CanResume(store.goal)
  /\ \E s \in PersistOutcomes(store, ApplyResumeGrant(ResumeGoal(store.goal))) :
       RequestContinuation(s, ClearContinuation(cont), Withdrawn(cont, host), FALSE)
  /\ UNCHANGED <<yielding, accepted, used>>

ClearCommand ==
  /\ Up(host)
  /\ store.goal # NoGoal
  /\ store' \in ClearOutcomes(store)
  /\ WithdrawGoalWork(cont, host)
  /\ UNCHANGED <<yielding, accepted, used>>

-----------------------------------------------------------------------------
(* Tools of the agent.  A call carries the identity of the snapshot it was *)
(* made from, which may be any the agent has seen.                         *)

SeenIdentities ==
  [goalId : 1..used["goals"], index : 0..(MaxSteps - 1), generation : 0..(MaxSteps - 1)]

ToolsRun == host.loop = "running" /\ host.started /\ host.work # "none"

(* rejectUnboundTerminal, and the same three checks of updateMemory.       *)
Bound(identity) == identity = IdentityOf(store.goal)

(* A call is remembered once, as the latest.                               *)
RememberCompletion(call, identity) ==
  LET others == RemoveFirstMatch(accepted, LAMBDA record : record.call = call)
      longer == Append(others, [call |-> call, identity |-> identity])
  IN  IF Len(longer) > MaxAccepted THEN Tail(longer) ELSE longer

(* A replay of an accepted completion is acknowledged before any check of  *)
(* the goal's status or step.                                              *)
IsReplay(call, identity) ==
  /\ store.goal # NoGoal
  /\ identity.goalId = store.goal.goalId
  /\ \E record \in ToSet(accepted) :
       record = [call |-> call, identity |-> identity]

(* update_goal complete, with evidence that covers the step's criteria.    *)
CompleteStage(call, identity, handoff) ==
  LET withdraws == QueuedStale(cont)
      h == IF withdraws THEN Abort(host) ELSE host
      c == ClearSchedule(cont)
  IN
  /\ ToolsRun
  /\ ~yielding
  /\ ~store.persistenceBroken
  /\ IsActive(store.goal)
  /\ ~IsReplay(call, identity)
  /\ Bound(identity)
  /\ store.goal.index + 1 \notin HumanSteps
  /\ \E s \in PersistOutcomes(store, AcceptCompletion(store.goal, handoff)) :
       \/ /\ s.persistenceBroken
          /\ store' = s /\ cont' = c /\ host' = h
          /\ UNCHANGED accepted
       \/ /\ ~s.persistenceBroken
          /\ accepted' = RememberCompletion(call, identity)
          /\ \/ /\ IsActive(s.goal)
                /\ RequestContinuation(s, c, h, FALSE)
             \/ /\ ~IsActive(s.goal)
                /\ store' = s /\ cont' = ClearContinuation(c) /\ host' = h
  /\ UNCHANGED <<yielding, used>>

(* update_goal blocked.                                                    *)
BlockStage(identity) ==
  /\ ToolsRun
  /\ ~yielding
  /\ ~store.persistenceBroken
  /\ CanBlock(store.goal)
  /\ Bound(identity)
  /\ store' \in PersistOutcomes(store, BlockGoal(store.goal))
  /\ WithdrawGoalWork(cont, host)
  /\ UNCHANGED <<yielding, accepted, used>>

(* Faulty: a goal that does not run is credited as well.                   *)
CreditedGoalsAlways(g, refs) == CreditOutcomes(g, refs)

(* The goals an update of the memory may lead to: refs are the verified    *)
(* evidence it names, which a goal that is not active never credits.       *)
CreditedGoals(g, refs) == IF IsActive(g) THEN CreditOutcomes(g, refs) ELSE {g}

MemoryOutcomes(g, revision, notes, refs) ==
  IF notes = g.memory.notes THEN CreditedGoals(g, refs) \ {g}
  ELSE IF revision = g.memory.revision
       THEN {WriteMemory(credited, notes) : credited \in CreditedGoals(g, refs)}
       ELSE {}

(* update_goal_memory.                                                     *)
UpdateMemory(identity, revision, notes, refs) ==
  /\ ToolsRun
  /\ ~yielding
  /\ ~store.persistenceBroken
  /\ store.goal # NoGoal
  /\ store.goal.status # "complete"
  /\ Bound(identity)
  /\ \E next \in MemoryOutcomes(store.goal, revision, notes, refs) :
       store' \in PersistOutcomes(store, next)
  /\ UNCHANGED <<cont, host, yielding, accepted, used>>

CallTools ==
  \E identity \in SeenIdentities :
    \/ \E call \in ToolCalls, handoff \in {EmptyNotes} \cup Notes :
         CompleteStage(call, identity, handoff)
    \/ BlockStage(identity)
    \/ \E revision \in 0..(MaxRevision - 1), notes \in {EmptyNotes} \cup Notes,
          refs \in SUBSET Evidence :
         UpdateMemory(identity, revision, notes, refs)

-----------------------------------------------------------------------------
(* Events of the host.                                                     *)

(* message_start and message_end: the second finds its work done.          *)
DeliverMessage(sender) ==
  /\ CanDeliver(host, sender)
  /\ host' = Deliver(host, sender)
  /\ cont' = CASE sender = "goal" -> GoalMessageDelivered(cont, store.goal, yielding)
               [] sender = "user" -> UserMessageDelivered(cont)
               [] sender = "peer" -> cont
  /\ UNCHANGED <<store, yielding, accepted, used>>

(* startAgentTurn: the turn bound starts over, whatever the goal's status. *)
TurnStores ==
  IF store.goal = NoGoal \/ store.persistenceBroken THEN {store}
  ELSE Charged(store, BeginAgentTurn(store.goal.execution))

AgentStart ==
  /\ CanStartLoop(host)
  /\ host' = StartLoop(host)
  /\ cont' = AgentLoopStarted(cont)
  /\ store' \in TurnStores
  /\ UNCHANGED <<yielding, accepted, used>>

TurnStart ==
  /\ Working(host)
  /\ cont' = AgentLoopStarted(cont)
  /\ store' \in TurnStores
  /\ UNCHANGED <<host, yielding, accepted, used>>

(* before_provider_request: a charge that blows a fuse, and one a blown    *)
(* fuse refuses, pause the goal.                                           *)
ProviderRequest ==
  LET e == ChargeRequest(store.goal.execution)
      charged == WithExecution(store.goal, e)
  IN
  /\ Working(host)
  /\ Chargeable(store)
  /\ \/ /\ Exhausted(store.goal.execution)
        /\ PausesForExhaustion(store, store.goal, cont, host)
     \/ /\ ~Exhausted(store.goal.execution) /\ ~Exhausted(e)
        /\ store' \in Charged(store, e)
        /\ UNCHANGED <<cont, host>>
     \/ /\ ~Exhausted(store.goal.execution) /\ Exhausted(e)
        /\ \E s \in Charged(store, e) : PausesForExhaustion(s, charged, cont, host)
  /\ UNCHANGED <<yielding, accepted, used>>

(* chargeAtContextBoundary, on a store s just flushed.                     *)
ContextStep(s) ==
  LET e == ChargeContext(s.goal.execution)
      charged == WithExecution(s.goal, e)
  IN
  \/ /\ ~Chargeable(s)
     /\ RequestContinuation(s, cont, host, TRUE)
  \/ /\ Chargeable(s) /\ Exhausted(s.goal.execution)
     /\ \E s1 \in PersistOutcomes(s, PauseForExhaustion(s.goal)) :
          RequestContinuation(s1, ClearContinuation(cont), Withdrawn(cont, host), TRUE)
  \/ /\ Chargeable(s) /\ ~Exhausted(s.goal.execution) /\ ~Exhausted(e)
     /\ \E s1 \in Charged(s, e) : RequestContinuation(s1, cont, host, TRUE)
  \/ /\ Chargeable(s) /\ ~Exhausted(s.goal.execution) /\ Exhausted(e)
     /\ \E s1 \in Charged(s, e) :
        \E s2 \in PersistOutcomes(s1, PauseForExhaustion(charged)) :
          RequestContinuation(s2, ClearContinuation(cont), Withdrawn(cont, host), TRUE)

(* session_before_compact and session_compact: one full context is spent,  *)
(* then the boundary may refresh the snapshot.                             *)
Compaction ==
  /\ Up(host)
  /\ \E s \in FlushOutcomes(store) : ContextStep(s)
  /\ UNCHANGED <<yielding, accepted, used>>

(* agent_end: keep going.                                                  *)
AgentEnd ==
  /\ CanEndLoop(host)
  /\ \E state \in {"ending", "idle"} :
       RequestContinuation(store, AgentLoopEnded(cont), EndLoop(host, state), FALSE)
  /\ UNCHANGED <<yielding, accepted, used>>

(* The retry timer calls the owner's own request.                          *)
TimerFires ==
  /\ Up(host)
  /\ \E t \in cont.timers :
       OwnerRequest(store.goal, TimerFired(cont, t), host, t.boundary)
  /\ UNCHANGED <<store, yielding, accepted, used>>

(* session_tree, and a session_start within the running process.           *)
RestoreBranch ==
  /\ Up(host)
  /\ Use("navigations", MaxNavigations)
  /\ \E snapshot \in {store.leaf} \cup ToSet(store.trail) :
       store' = Restored(store, snapshot)
  /\ cont' = ClearContinuation(cont)
  /\ UNCHANGED <<host, yielding, accepted>>

(* session_shutdown: everything is flushed already.                        *)
SessionShutdown ==
  /\ Up(host)
  /\ store' \in FlushOutcomes(store)
  /\ cont' = ClearContinuation(cont)
  /\ host' = DownHost
  /\ UNCHANGED <<yielding, accepted, used>>

-----------------------------------------------------------------------------
(* The world around: the process dies, the host winds down, messages of    *)
(* others arrive, the orchestrator takes and gives back the session.       *)

Crash ==
  /\ Up(host)
  /\ host' = DownHost
  /\ cont' = InitialContinuation
  /\ UNCHANGED <<store, yielding, accepted, used>>

SessionStart ==
  /\ ~Up(host)
  /\ Use("restarts", MaxRestarts)
  /\ store' = [Restored(store, store.leaf) EXCEPT !.persistenceBroken = FALSE]
  /\ cont' = InitialContinuation
  /\ host' = IdleHost
  /\ accepted' = <<>>
  /\ UNCHANGED yielding

HostSettles ==
  /\ host.loop = "ending"
  /\ host' = [host EXCEPT !.loop = "idle"]
  /\ UNCHANGED <<store, cont, yielding, accepted, used>>

MessageArrives ==
  /\ Up(host)
  /\ Use("messages", MaxMessages)
  /\ \E sender \in {"user", "peer"} : host' = [host EXCEPT !.waiting[sender] = @ + 1]
  /\ UNCHANGED <<store, cont, yielding, accepted>>

(* The human cancels the turn; the host may or may not drain its queue.    *)
HumanAborts ==
  /\ Working(host)
  /\ Use("aborts", MaxAborts)
  /\ host' \in {Abort(host), [host EXCEPT !.aborted = TRUE]}
  /\ UNCHANGED <<store, cont, yielding, accepted>>

OwnershipChanges ==
  /\ yielding' = ~yielding
  /\ UNCHANGED <<store, cont, host, accepted, used>>

-----------------------------------------------------------------------------

Commands == StartGoal \/ PauseCommand \/ ResumeCommand \/ ClearCommand

HostEvents ==
  \/ \E sender \in Senders : DeliverMessage(sender)
  \/ AgentStart \/ TurnStart \/ ProviderRequest \/ Compaction \/ AgentEnd
  \/ TimerFires \/ HostSettles

Sessions == RestoreBranch \/ SessionShutdown \/ Crash \/ SessionStart

Next == Commands \/ CallTools \/ HostEvents \/ Sessions
        \/ MessageArrives \/ HumanAborts \/ OwnershipChanges

Spec == Init /\ [][Next]_vars

=============================================================================
