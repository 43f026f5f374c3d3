------------------------------ MODULE Allowance ------------------------------
(***************************************************************************)
(* The durable accounting of a goal (src/src/allowance.ts): an execution   *)
(* record carries four finite fuses -- lifetime, total, turn and           *)
(* no-progress -- together with the limits that were in force when it was  *)
(* granted.  The operators below are the only writers of that record.      *)
(* Every one is a function of the record it is given, as in the code.      *)
(***************************************************************************)
EXTENDS Integers, FiniteSets

CONSTANTS
  MaxCreditedEvidence,      \* bound of the dedupe record of a goal
  MaxCreditGrantHeadroom    \* distance kept below that bound

ASSUME CreditBoundsAssumption ==
  /\ MaxCreditedEvidence \in Nat
  /\ MaxCreditGrantHeadroom \in 1..MaxCreditedEvidence

Positive == Nat \ {0}

Least(a, b) == IF a <= b THEN a ELSE b

Greatest(a, b) == IF a >= b THEN a ELSE b

(* GoalExecution, without tokenUsage, which nothing reads.                 *)
ExecutionRecord ==
  [ generation          : Nat,
    noProgressRemaining : Nat,
    totalRemaining      : Nat,
    turnRequests        : Nat,
    lifetimeRequests    : Nat,
    noProgressLimit     : Positive,
    totalLimit          : Positive,
    turnLimit           : Positive,
    evidenceGrant       : Positive,
    lifetimeCeiling     : Positive ]

(* The reader's verdict on a persisted record: the counters are within the *)
(* limits they are spent from, and the limits are ordered hardest last.    *)
IsGoalExecution(e) ==
  /\ e \in ExecutionRecord
  /\ e.noProgressRemaining <= e.noProgressLimit
  /\ e.totalRemaining <= e.totalLimit
  /\ e.turnRequests <= e.turnLimit
  /\ e.lifetimeRequests <= e.lifetimeCeiling
  /\ e.turnLimit <= e.totalLimit
  /\ e.totalLimit <= e.lifetimeCeiling

-----------------------------------------------------------------------------
(* The limits of a goal.                                                   *)

(* Limits as they are configured: any positive integers.                   *)
LimitSettings ==
  [ noProgressLimit : Positive,
    totalLimit      : Positive,
    turnLimit       : Positive,
    evidenceGrant   : Positive,
    lifetimeCeiling : Positive ]

ClampedLimits(limits) ==
  [limits EXCEPT !.turnLimit = Least(@, limits.totalLimit),
                 !.lifetimeCeiling = Greatest(@, limits.totalLimit)]

FreshExecution(limits) ==
  LET clamped == ClampedLimits(limits) IN
  [ generation          |-> 0,
    noProgressRemaining |-> limits.noProgressLimit,
    totalRemaining      |-> limits.totalLimit,
    turnRequests        |-> 0,
    lifetimeRequests    |-> 0,
    noProgressLimit     |-> limits.noProgressLimit,
    totalLimit          |-> limits.totalLimit,
    turnLimit           |-> clamped.turnLimit,
    evidenceGrant       |-> clamped.evidenceGrant,
    lifetimeCeiling     |-> clamped.lifetimeCeiling ]

-----------------------------------------------------------------------------
(* Admission.                                                              *)

(* Faulty: the renewable fuses are named before the terminal ones.         *)
AllowanceExhaustionSoftestFirst(e) ==
  IF e.noProgressRemaining <= 0 THEN "no-progress"
  ELSE IF e.turnRequests >= e.turnLimit THEN "turn-loop"
  ELSE IF e.totalRemaining <= 0 THEN "total"
  ELSE IF e.lifetimeRequests >= e.lifetimeCeiling THEN "lifetime"
  ELSE "none"

(* Which fuse is blown, hardest first.                                     *)
AllowanceExhaustion(e) ==
  IF e.lifetimeRequests >= e.lifetimeCeiling THEN "lifetime"
  ELSE IF e.totalRemaining <= 0 THEN "total"
  ELSE IF e.turnRequests >= e.turnLimit THEN "turn-loop"
  ELSE IF e.noProgressRemaining <= 0 THEN "no-progress"
  ELSE "none"

ExhaustionReasons == {"lifetime", "total", "turn-loop", "no-progress"}

Exhausted(e) == AllowanceExhaustion(e) # "none"

(* Faulty: a request and its retry are both charged, without a floor.      *)
ChargeRequestTwice(e) ==
  [e EXCEPT !.totalRemaining = @ - 2, !.turnRequests = @ + 1, !.lifetimeRequests = @ + 1]

(* One provider request.  A blown fuse refuses the charge.                 *)
ChargeRequest(e) ==
  IF Exhausted(e) THEN e
  ELSE [e EXCEPT !.totalRemaining = Greatest(0, @ - 1),
                 !.turnRequests = @ + 1,
                 !.lifetimeRequests = @ + 1]

(* One full context window.                                                *)
ChargeContext(e) ==
  IF Exhausted(e) THEN e
  ELSE [e EXCEPT !.noProgressRemaining = Greatest(0, @ - 1)]

BeginAgentTurn(e) == [e EXCEPT !.turnRequests = 0]

(* Faulty: a resume hands out a fresh working total as well.               *)
ResumeGrantRefilling(e) ==
  [e EXCEPT !.noProgressRemaining = e.noProgressLimit,
            !.turnRequests = 0,
            !.totalRemaining = e.totalLimit]

ResumeGrant(e) ==
  [e EXCEPT !.noProgressRemaining = e.noProgressLimit, !.turnRequests = 0]

(* How many credits one goal may ever be granted.                          *)
CreditGrantCap(e) ==
  Least(e.lifetimeCeiling, MaxCreditedEvidence - MaxCreditGrantHeadroom)

(* Faulty: the grant is not cut at the limit, or it is the whole total.    *)
RenewForEvidenceUncut(e, n) ==
  [e EXCEPT !.noProgressRemaining = e.noProgressLimit,
            !.turnRequests = 0,
            !.totalRemaining = @ + e.evidenceGrant * n]

RenewForEvidenceWholly(e, n) ==
  [e EXCEPT !.noProgressRemaining = e.noProgressLimit,
            !.turnRequests = 0,
            !.totalRemaining = e.totalLimit]

(* What n freshly credited references renew.                               *)
RenewForEvidence(e, n) ==
  [e EXCEPT !.noProgressRemaining = e.noProgressLimit,
            !.turnRequests = 0,
            !.totalRemaining = Least(e.totalLimit, @ + e.evidenceGrant * n)]

(* Faulty: the next step starts a new life, or keeps the old generation.   *)
NextStepExecutionReborn(e) ==
  [e EXCEPT !.generation = @ + 1,
            !.noProgressRemaining = e.noProgressLimit,
            !.totalRemaining = e.totalLimit,
            !.turnRequests = 0,
            !.lifetimeRequests = 0]

NextStepExecutionUnnumbered(e) ==
  [e EXCEPT !.noProgressRemaining = e.noProgressLimit,
            !.totalRemaining = e.totalLimit,
            !.turnRequests = 0]

(* The grant of the next step: budgets afresh, lifetime carried across.    *)
NextStepExecution(e) ==
  [e EXCEPT !.generation = @ + 1,
            !.noProgressRemaining = e.noProgressLimit,
            !.totalRemaining = e.totalLimit,
            !.turnRequests = 0]

=============================================================================
