----------------------------- MODULE Continuation -----------------------------
(***************************************************************************)
(* The single continuation owner (src/src/continuation.ts): at most one    *)
(* goal message is handed to the host at a time, and the owner records who *)
(* triggered the agent loop in flight.  Its closure variables are one      *)
(* record; the functions below are the closures' bodies.                   *)
(***************************************************************************)
EXTENDS GoalState

Phases == {"idle", "queued", "delivered"}

Triggers == {"none", "goal", "user"}

(* Goal ids start at 1; 0 stands for null.                                 *)
Identity == [goalId : Nat, index : Nat, generation : Nat]

NoIdentity == [goalId |-> 0, index |-> 0, generation |-> 0]

IdentityOf(g) ==
  [goalId |-> g.goalId, index |-> g.index, generation |-> g.execution.generation]

(* timers are the armed timeouts with what their callbacks captured; the   *)
(* code's timer handle designates the one scheduled for scheduledFor.      *)
ContinuationState ==
  [ phase                : Phases,
    sentFor              : Identity,
    timers               : SUBSET [goalId : Nat, boundary : BOOLEAN],
    scheduledFor         : Nat,
    loopTrigger          : Triggers,
    goalLoopInFlight     : BOOLEAN,
    userMessageSinceSend : BOOLEAN ]

InitialContinuation ==
  [ phase                |-> "idle",
    sentFor              |-> NoIdentity,
    timers               |-> {},
    scheduledFor         |-> 0,
    loopTrigger          |-> "none",
    goalLoopInFlight     |-> FALSE,
    userMessageSinceSend |-> FALSE ]

ClearTimer(c) ==
  [c EXCEPT !.timers = {t \in @ : t.goalId # c.scheduledFor}, !.scheduledFor = 0]

(* Faulty: the handle is forgotten while its timer still runs.             *)
ClearContinuationLeaky(c) ==
  [InitialContinuation EXCEPT !.timers = c.timers]

(* clear: full invalidation on a lifecycle change.                         *)
ClearContinuation(c) ==
  [InitialContinuation EXCEPT !.timers = ClearTimer(c).timers]

(* Faulty: the loop that reports its completion is forgotten too.          *)
ClearScheduleDisowning(c) == ClearContinuation(c)

(* clearSchedule: drops the scheduling, keeps the loop's ownership.        *)
ClearSchedule(c) ==
  [ClearTimer(c) EXCEPT !.phase = "idle",
                        !.sentFor = NoIdentity,
                        !.userMessageSinceSend = FALSE]

-----------------------------------------------------------------------------
(* request, with what it reads of its surroundings: the goal g, whether a  *)
(* peer owns the session, and the host's hasPendingMessages and isIdle.    *)

MayRequest(c, g, boundary, yields) ==
  /\ IsActive(g)
  /\ ~yields
  /\ c.phase # "queued"
  /\ boundary => c.phase = "delivered"

(* Faulty: what the host still has to deliver is not asked for.            *)
SendsRegardless(c, g, boundary, yields, pending, idle) ==
  MayRequest(c, g, boundary, yields) /\ idle

Sends(c, g, boundary, yields, pending, idle) ==
  MayRequest(c, g, boundary, yields) /\ ~pending /\ idle

(* Faulty: a busy host is not asked again.                                 *)
DefersNever(c, g, boundary, yields, pending, idle) == FALSE

Defers(c, g, boundary, yields, pending, idle) ==
  MayRequest(c, g, boundary, yields) /\ ~pending /\ ~idle

MarkSent(c, g) ==
  [ClearTimer(c) EXCEPT !.phase = "queued",
                        !.sentFor = IdentityOf(g),
                        !.userMessageSinceSend = FALSE]

ArmTimer(c, g, boundary) ==
  IF c.scheduledFor = g.goalId THEN c
  ELSE [c EXCEPT !.scheduledFor = g.goalId,
                 !.timers = @ \cup {[goalId |-> g.goalId, boundary |-> boundary]}]

AfterRequest(c, g, boundary, yields, pending, idle) ==
  IF Sends(c, g, boundary, yields, pending, idle) THEN MarkSent(c, g)
  ELSE IF Defers(c, g, boundary, yields, pending, idle) THEN ArmTimer(c, g, boundary)
  ELSE IF MayRequest(c, g, boundary, yields) THEN ClearTimer(c)
  ELSE c

(* The head of a timer's callback; a request follows it.                   *)
TimerFired(c, t) == [c EXCEPT !.timers = @ \ {t}, !.scheduledFor = 0]

-----------------------------------------------------------------------------
(* Deliveries and loop boundaries.                                         *)

SameGoal(c, g) == g # NoGoal /\ g.goalId = c.sentFor.goalId

OwnedDelivery(c, g, yields) == SameGoal(c, g) /\ g.status = "active" /\ ~yields

GoalMessageDelivered(c, g, yields) ==
  LET owned   == OwnedDelivery(c, g, yields)
      current == owned /\ c.sentFor = IdentityOf(g)
  IN  IF c.phase # "queued" THEN c
      ELSE [c EXCEPT !.loopTrigger = IF owned THEN "goal" ELSE "none",
                     !.phase = IF current THEN "delivered" ELSE "idle",
                     !.sentFor = IF current THEN @ ELSE NoIdentity]

UserMessageDelivered(c) ==
  [c EXCEPT !.userMessageSinceSend = @ \/ c.phase # "idle",
            !.loopTrigger = "user"]

AgentLoopStarted(c) ==
  [c EXCEPT !.goalLoopInFlight = @ \/ c.loopTrigger = "goal"]

AgentLoopEnded(c) ==
  [c EXCEPT !.goalLoopInFlight = FALSE, !.loopTrigger = "none"]

(* Faulty: a user message in front of the goal's is not looked for.         *)
OutstandingRegardless(c) ==
  c.phase = "queued" \/ (c.goalLoopInFlight /\ c.loopTrigger = "goal")

(* Cancellation provably targets goal-owned work.                          *)
Outstanding(c) ==
  \/ c.phase = "queued" /\ ~c.userMessageSinceSend
  \/ c.goalLoopInFlight /\ c.loopTrigger = "goal"

QueuedStale(c) ==
  c.phase = "queued" /\ ~c.userMessageSinceSend /\ ~c.goalLoopInFlight

=============================================================================
