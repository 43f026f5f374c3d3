---------------------------- MODULE GoalState_proofs ----------------------------
(***************************************************************************)
(* Lemmas about the goal record, for any limits, any number of steps and   *)
(* any finite set of evidence: what the reader of a snapshot checks,       *)
(* strengthened until every transition keeps it (Sound).  The proofs about *)
(* the ledger and about the validation of evidence rest on them.           *)
(***************************************************************************)
EXTENDS GoalState, FiniteSetTheorems, TLAPS

-----------------------------------------------------------------------------
(* The execution record.                                                   *)

SameLimits(e, f) ==
  /\ f.noProgressLimit = e.noProgressLimit
  /\ f.totalLimit = e.totalLimit
  /\ f.turnLimit = e.turnLimit
  /\ f.evidenceGrant = e.evidenceGrant
  /\ f.lifetimeCeiling = e.lifetimeCeiling

(* The fields of a record are numbers; membership and arithmetic are kept  *)
(* apart in the proofs below.                                              *)
LEMMA FieldTypes ==
  ASSUME NEW e \in ExecutionRecord
  PROVE  /\ e.generation \in Nat /\ e.noProgressRemaining \in Nat
         /\ e.totalRemaining \in Nat /\ e.turnRequests \in Nat
         /\ e.lifetimeRequests \in Nat
         /\ e.noProgressLimit \in Nat /\ e.noProgressLimit > 0
         /\ e.totalLimit \in Nat /\ e.totalLimit > 0
         /\ e.turnLimit \in Nat /\ e.turnLimit > 0
         /\ e.evidenceGrant \in Nat /\ e.evidenceGrant > 0
         /\ e.lifetimeCeiling \in Nat /\ e.lifetimeCeiling > 0
BY DEF ExecutionRecord, Positive

(* Whatever limits are configured, a fresh grant passes the reader: the    *)
(* clamps order the limits (freshExecution against isGoalExecution).       *)
LEMMA FreshIsReadable ==
  ASSUME NEW limits \in LimitSettings
  PROVE  /\ IsGoalExecution(FreshExecution(limits))
         /\ FreshExecution(limits).generation = 0
         /\ FreshExecution(limits).lifetimeRequests = 0
         /\ FreshExecution(limits).totalRemaining = FreshExecution(limits).totalLimit
BY DEF LimitSettings, FreshExecution, ClampedLimits, IsGoalExecution,
       ExecutionRecord, Positive, Least, Greatest

(* The chain of checks names a fuse exactly when one is blown.             *)
LEMMA FusesHold ==
  ASSUME NEW e, IsGoalExecution(e), ~Exhausted(e)
  PROVE  /\ e.lifetimeRequests < e.lifetimeCeiling
         /\ e.totalRemaining > 0
         /\ e.turnRequests < e.turnLimit
         /\ e.noProgressRemaining > 0
<1>1. e.lifetimeRequests < e.lifetimeCeiling
  BY FieldTypes DEF IsGoalExecution, Exhausted, AllowanceExhaustion
<1>2. e.totalRemaining > 0
  BY <1>1 DEF IsGoalExecution, ExecutionRecord, Positive, Exhausted, AllowanceExhaustion
<1>3. e.turnRequests < e.turnLimit
  BY <1>1, <1>2 DEF IsGoalExecution, ExecutionRecord, Positive, Exhausted, AllowanceExhaustion
<1>4. e.noProgressRemaining > 0
  BY <1>1, <1>2, <1>3
     DEF IsGoalExecution, ExecutionRecord, Positive, Exhausted, AllowanceExhaustion
<1> QED
  BY <1>1, <1>2, <1>3, <1>4

(* An admitted request moves one unit from the total to the lifetime.      *)
LEMMA ChargeRequestMovesOne ==
  ASSUME NEW e, IsGoalExecution(e), ~Exhausted(e)
  PROVE  /\ IsGoalExecution(ChargeRequest(e))
         /\ SameLimits(e, ChargeRequest(e))
         /\ ChargeRequest(e).generation = e.generation
         /\ ChargeRequest(e).lifetimeRequests = e.lifetimeRequests + 1
         /\ ChargeRequest(e).totalRemaining = e.totalRemaining - 1
<1> DEFINE f == ChargeRequest(e)
<1>1. e \in ExecutionRecord
  BY DEF IsGoalExecution
<1>2. /\ e.lifetimeRequests + 1 \in Nat /\ e.turnRequests + 1 \in Nat
      /\ e.totalRemaining - 1 \in Nat /\ Greatest(0, e.totalRemaining - 1) = e.totalRemaining - 1
  BY <1>1, FieldTypes, FusesHold DEF Greatest
<1>3. f = [e EXCEPT !.generation = e.generation,
                    !.noProgressRemaining = e.noProgressRemaining,
                    !.totalRemaining = e.totalRemaining - 1,
                    !.turnRequests = e.turnRequests + 1,
                    !.lifetimeRequests = e.lifetimeRequests + 1]
  BY <1>1, <1>2 DEF ChargeRequest, ExecutionRecord
<1> HIDE DEF f
<1>4. /\ f \in ExecutionRecord /\ SameLimits(e, f)
      /\ f.generation = e.generation
      /\ f.noProgressRemaining = e.noProgressRemaining
      /\ f.totalRemaining = e.totalRemaining - 1
      /\ f.turnRequests = e.turnRequests + 1
      /\ f.lifetimeRequests = e.lifetimeRequests + 1
  <2>1. f \in ExecutionRecord
    BY <1>1, <1>2, <1>3, FieldTypes DEF ExecutionRecord
  <2>2. SameLimits(e, f)
    BY <1>1, <1>2, <1>3 DEF ExecutionRecord, SameLimits
  <2> QED
    BY <1>1, <1>2, <1>3, <2>1, <2>2 DEF ExecutionRecord
<1>5. IsGoalExecution(f)
  BY <1>1, <1>4, FieldTypes, FusesHold DEF IsGoalExecution, SameLimits
<1> QED
  BY <1>4, <1>5 DEF f

(* The counters that the other transitions of a step leave alone.          *)
SameSpending(e, f) ==
  /\ SameLimits(e, f)
  /\ f.generation = e.generation
  /\ f.lifetimeRequests = e.lifetimeRequests
  /\ f.totalRemaining = e.totalRemaining

(* Whatever changes only the two renewable counters, within their limits.  *)
LEMMA RenewableCounters ==
  ASSUME NEW e, IsGoalExecution(e), NEW p \in Nat, NEW u \in Nat,
         p <= e.noProgressLimit, u <= e.turnLimit,
         NEW f, f = [e EXCEPT !.noProgressRemaining = p, !.turnRequests = u]
  PROVE  IsGoalExecution(f) /\ SameSpending(e, f)
<1>1. e \in ExecutionRecord
  BY DEF IsGoalExecution
<1>2. f = [e EXCEPT !.generation = e.generation, !.noProgressRemaining = p,
                    !.totalRemaining = e.totalRemaining, !.turnRequests = u,
                    !.lifetimeRequests = e.lifetimeRequests]
  BY <1>1 DEF ExecutionRecord
<1>3. /\ f \in ExecutionRecord /\ SameLimits(e, f)
      /\ f.generation = e.generation /\ f.noProgressRemaining = p
      /\ f.totalRemaining = e.totalRemaining /\ f.turnRequests = u
      /\ f.lifetimeRequests = e.lifetimeRequests
  <2>1. f \in ExecutionRecord
    BY <1>1, <1>2, FieldTypes DEF ExecutionRecord
  <2>2. SameLimits(e, f)
    BY <1>1, <1>2 DEF ExecutionRecord, SameLimits
  <2> QED
    BY <1>1, <1>2, <2>1, <2>2 DEF ExecutionRecord
<1>4. IsGoalExecution(f)
  BY <1>1, <1>3, FieldTypes DEF IsGoalExecution, SameLimits
<1> QED
  BY <1>3, <1>4 DEF SameSpending

LEMMA ChargeContextSpendsNoRequest ==
  ASSUME NEW e, IsGoalExecution(e)
  PROVE  IsGoalExecution(ChargeContext(e)) /\ SameSpending(e, ChargeContext(e))
<1> DEFINE p == Greatest(0, e.noProgressRemaining - 1)
<1>1. e \in ExecutionRecord
  BY DEF IsGoalExecution
<1>2. p \in Nat /\ p <= e.noProgressLimit /\ e.turnRequests <= e.turnLimit
  BY <1>1, FieldTypes DEF Greatest, IsGoalExecution
<1>3. CASE Exhausted(e)
  BY <1>3 DEF ChargeContext, SameSpending, SameLimits
<1>4. CASE ~Exhausted(e)
  <2>1. ChargeContext(e)
          = [e EXCEPT !.noProgressRemaining = p, !.turnRequests = e.turnRequests]
    BY <1>1, <1>4 DEF ChargeContext, ExecutionRecord
  <2> QED
    BY <1>1, <1>2, <2>1, FieldTypes, RenewableCounters
<1> QED
  BY <1>3, <1>4

LEMMA BeginAgentTurnSpendsNoRequest ==
  ASSUME NEW e, IsGoalExecution(e)
  PROVE  IsGoalExecution(BeginAgentTurn(e)) /\ SameSpending(e, BeginAgentTurn(e))
<1>1. e \in ExecutionRecord
  BY DEF IsGoalExecution
<1>2. BeginAgentTurn(e)
        = [e EXCEPT !.noProgressRemaining = e.noProgressRemaining, !.turnRequests = 0]
  BY <1>1 DEF BeginAgentTurn, ExecutionRecord
<1>3. e.noProgressRemaining <= e.noProgressLimit /\ 0 <= e.turnLimit
  BY <1>1, FieldTypes DEF IsGoalExecution
<1> QED
  BY <1>1, <1>2, <1>3, FieldTypes, RenewableCounters

LEMMA ResumeGrantSpendsNoRequest ==
  ASSUME NEW e, IsGoalExecution(e)
  PROVE  /\ IsGoalExecution(ResumeGrant(e))
         /\ SameSpending(e, ResumeGrant(e))
         /\ ResumeGrant(e).noProgressRemaining = e.noProgressLimit
         /\ ResumeGrant(e).turnRequests = 0
<1>1. e \in ExecutionRecord
  BY DEF IsGoalExecution
<1>2. ResumeGrant(e)
        = [e EXCEPT !.noProgressRemaining = e.noProgressLimit, !.turnRequests = 0]
  BY DEF ResumeGrant
<1>3. IsGoalExecution(ResumeGrant(e)) /\ SameSpending(e, ResumeGrant(e))
  <2>1. /\ e.noProgressLimit \in Nat /\ e.noProgressLimit <= e.noProgressLimit
        /\ 0 <= e.turnLimit
    BY <1>1, FieldTypes
  <2> QED
    BY <1>2, <2>1, RenewableCounters
<1>4. ResumeGrant(e).noProgressRemaining = e.noProgressLimit /\ ResumeGrant(e).turnRequests = 0
  BY <1>1, <1>2 DEF ExecutionRecord
<1> QED
  BY <1>3, <1>4

LEMMA NextStepKeepsLifetime ==
  ASSUME NEW e, IsGoalExecution(e)
  PROVE  /\ IsGoalExecution(NextStepExecution(e))
         /\ SameLimits(e, NextStepExecution(e))
         /\ NextStepExecution(e).generation = e.generation + 1
         /\ NextStepExecution(e).lifetimeRequests = e.lifetimeRequests
         /\ NextStepExecution(e).totalRemaining = e.totalLimit
<1> DEFINE f == NextStepExecution(e)
<1>1. e \in ExecutionRecord
  BY DEF IsGoalExecution
<1>2. f = [e EXCEPT !.generation = e.generation + 1,
                    !.noProgressRemaining = e.noProgressLimit,
                    !.totalRemaining = e.totalLimit,
                    !.turnRequests = 0,
                    !.lifetimeRequests = e.lifetimeRequests]
  BY <1>1 DEF NextStepExecution, ExecutionRecord
<1> HIDE DEF f
<1>3. /\ f \in ExecutionRecord /\ SameLimits(e, f)
      /\ f.generation = e.generation + 1
      /\ f.noProgressRemaining = e.noProgressLimit
      /\ f.totalRemaining = e.totalLimit
      /\ f.turnRequests = 0
      /\ f.lifetimeRequests = e.lifetimeRequests
  <2>1. f \in ExecutionRecord
    <3>1. e.generation + 1 \in Nat
      BY <1>1, FieldTypes
    <3> QED
      BY <1>1, <1>2, <3>1, FieldTypes DEF ExecutionRecord
  <2>2. SameLimits(e, f)
    BY <1>1, <1>2 DEF ExecutionRecord, SameLimits
  <2> QED
    BY <1>1, <1>2, <2>1, <2>2 DEF ExecutionRecord
<1>4. IsGoalExecution(f)
  BY <1>1, <1>3, FieldTypes DEF IsGoalExecution, SameLimits
<1> QED
  BY <1>3, <1>4 DEF f

(* Evidence returns at most its grant, and never above the total.          *)
LEMMA RenewalIsBounded ==
  ASSUME NEW e, IsGoalExecution(e), NEW n \in Nat
  PROVE  /\ IsGoalExecution(RenewForEvidence(e, n))
         /\ SameLimits(e, RenewForEvidence(e, n))
         /\ RenewForEvidence(e, n).generation = e.generation
         /\ RenewForEvidence(e, n).lifetimeRequests = e.lifetimeRequests
         /\ RenewForEvidence(e, n).totalRemaining <= e.totalRemaining + e.evidenceGrant * n
<1> DEFINE grant == e.evidenceGrant * n
           total == Least(e.totalLimit, e.totalRemaining + grant)
           f == RenewForEvidence(e, n)
<1>1. e \in ExecutionRecord
  BY DEF IsGoalExecution
<1>2. grant \in Nat
  BY <1>1, FieldTypes
<1>3. f = [e EXCEPT !.generation = e.generation,
                    !.noProgressRemaining = e.noProgressLimit,
                    !.totalRemaining = total,
                    !.turnRequests = 0,
                    !.lifetimeRequests = e.lifetimeRequests]
  BY <1>1 DEF RenewForEvidence, ExecutionRecord
<1> HIDE DEF grant, f
<1>4. total \in Nat /\ total <= e.totalLimit /\ total <= e.totalRemaining + grant
  BY <1>1, <1>2, FieldTypes DEF Least
<1> HIDE DEF total
<1>5. /\ f \in ExecutionRecord /\ SameLimits(e, f)
      /\ f.generation = e.generation
      /\ f.noProgressRemaining = e.noProgressLimit
      /\ f.totalRemaining = total
      /\ f.turnRequests = 0
      /\ f.lifetimeRequests = e.lifetimeRequests
  <2>1. f \in ExecutionRecord
    BY <1>1, <1>3, <1>4, FieldTypes DEF ExecutionRecord
  <2>2. SameLimits(e, f)
    BY <1>1, <1>3, <1>4 DEF ExecutionRecord, SameLimits
  <2> QED
    BY <1>1, <1>3, <1>4, <2>1, <2>2 DEF ExecutionRecord
<1>6. IsGoalExecution(f)
  BY <1>1, <1>4, <1>5, FieldTypes DEF IsGoalExecution, SameLimits
<1> QED
  BY <1>4, <1>5, <1>6 DEF f, grant

-----------------------------------------------------------------------------
(* The inductive invariant, of one goal.                                   *)

(* The step that a goal works on, pauses at or is blocked at is its active *)
(* one, so that a resume lands on a snapshot the reader accepts; and an    *)
(* active goal carries no pause reason.                                    *)
WellShaped(g) ==
  /\ g \in GoalRecord
  /\ IsGoalExecution(g.execution)
  /\ g.index < Len(g.stages)
  /\ g.status # "complete" => g.stages[g.index + 1] = "active"
  /\ g.status = "active" => g.pauseReason = "none"

Ordered(g) ==
  /\ g.execution.generation = g.index
  /\ \A i \in DOMAIN g.stages :
       /\ i <= g.index => g.stages[i] = "complete"
       /\ i > g.index + 1 => g.stages[i] = "pending"

Counted(g) ==
  /\ g.creditGrants = Cardinality(g.creditedEvidence)
  /\ g.creditGrants <= CreditGrantCap(g.execution)

Conserved(g) ==
  g.execution.lifetimeRequests + g.execution.totalRemaining
    <= (g.index + 1) * g.execution.totalLimit + g.creditGrants * g.execution.evidenceGrant

(* A fuse that no resume renews is blown.                                  *)
Terminal(e) == e.lifetimeRequests >= e.lifetimeCeiling \/ e.totalRemaining <= 0

TrueReason(g) ==
  g.status = "paused" =>
    /\ g.pauseReason \in {"no-progress", "turn-loop"} => ~Terminal(g.execution)
    /\ g.pauseReason \in {"lifetime", "total"} => Terminal(g.execution)

Sound(g) ==
  WellShaped(g) /\ Ordered(g) /\ Counted(g) /\ Conserved(g) /\ TrueReason(g)

(* The reader's bound on the dedupe record follows from the grant cap,     *)
(* which keeps its headroom below it.                                      *)
LEMMA CapIsBelowTheRecord ==
  ASSUME NEW e \in ExecutionRecord
  PROVE  CreditGrantCap(e) \in Int /\ CreditGrantCap(e) < MaxCreditedEvidence
BY CreditBoundsAssumption, FieldTypes DEF CreditGrantCap, Least

LEMMA SoundIsReadable ==
  ASSUME NEW g, Sound(g)
  PROVE  IsMultiGoal(g)
<1>1. g \in GoalRecord /\ IsGoalExecution(g.execution) /\ g.execution \in ExecutionRecord
  BY DEF Sound, WellShaped, IsGoalExecution
<1>2. Cardinality(g.creditedEvidence) <= MaxCreditedEvidence
  BY <1>1, CapIsBelowTheRecord, CreditBoundsAssumption DEF Sound, Counted, GoalRecord
<1>3. g.index < StageCount(g)
  BY DEF Sound, WellShaped, StageCount
<1>4. \A i \in DOMAIN g.stages : g.stages[i] = "active" => i = g.index + 1
  <2>1. g.index \in Nat /\ g.stages \in Seq(StageStatus)
    BY <1>1 DEF GoalRecord
  <2>2. ASSUME NEW i \in DOMAIN g.stages, g.stages[i] = "active"
        PROVE  ~(i <= g.index) /\ ~(i > g.index + 1) /\ i \in Nat
    BY <2>1, <2>2 DEF Sound, Ordered
  <2> QED
    BY <2>1, <2>2
<1>5. g.status = "active" => CurrentStatus(g) = "active"
  BY DEF Sound, WellShaped, CurrentStatus
<1>6. g.creditGrants >= Cardinality(g.creditedEvidence)
  BY <1>1 DEF Sound, Counted, GoalRecord
<1> QED
  BY <1>1, <1>2, <1>3, <1>4, <1>5, <1>6 DEF IsMultiGoal

(* What a resume leaves of an exhaustion.                                  *)
LEMMA ResumeLeavesTheTerminal ==
  ASSUME NEW e, IsGoalExecution(e)
  PROVE  Exhausted(ResumeGrant(e)) <=> Terminal(e)
<1> DEFINE f == ResumeGrant(e)
<1>1. e \in ExecutionRecord
  BY DEF IsGoalExecution
<1>2. /\ f.noProgressRemaining = e.noProgressLimit /\ f.turnRequests = 0
      /\ f.lifetimeRequests = e.lifetimeRequests /\ f.totalRemaining = e.totalRemaining
      /\ f.lifetimeCeiling = e.lifetimeCeiling /\ f.turnLimit = e.turnLimit
  BY ResumeGrantSpendsNoRequest DEF SameSpending, SameLimits
<1> HIDE DEF f
<1>3. ASSUME Terminal(e) PROVE Exhausted(f)
  BY <1>1, <1>2, <1>3, FieldTypes DEF Terminal, Exhausted, AllowanceExhaustion
<1>4. ASSUME ~Terminal(e) PROVE ~Exhausted(f)
  <2>1. ~(f.lifetimeRequests >= f.lifetimeCeiling) /\ ~(f.totalRemaining <= 0)
        /\ ~(f.turnRequests >= f.turnLimit) /\ ~(f.noProgressRemaining <= 0)
    BY <1>1, <1>2, <1>4, FieldTypes DEF Terminal
  <2> QED
    BY <2>1 DEF Exhausted, AllowanceExhaustion
<1> QED
  BY <1>3, <1>4 DEF f

-----------------------------------------------------------------------------
(* Every transition of the record keeps it sound.                          *)

LEMMA SoundTypes ==
  ASSUME NEW g, Sound(g)
  PROVE  /\ g \in GoalRecord /\ g # NoGoal
         /\ g.execution \in ExecutionRecord /\ IsGoalExecution(g.execution)
         /\ g.index \in Nat /\ g.creditGrants \in Nat
         /\ g.stages \in Seq(StageStatus)
         /\ g.status \in GoalStatus
BY NoGoalAssumption DEF Sound, WellShaped, GoalRecord

LEMMA NewGoalSound ==
  ASSUME NEW id \in Nat, NEW steps \in Nat, steps > 0, NEW limits \in LimitSettings
  PROVE  Sound(NewGoal(id, steps, limits))
<1> DEFINE g == NewGoal(id, steps, limits)
           e == FreshExecution(limits)
<1>1. /\ g.goalId = id /\ g.status = "active" /\ g.index = 0 /\ g.memory = EmptyMemory
      /\ g.execution = e /\ g.pauseReason = "none" /\ g.creditedEvidence = {}
      /\ g.creditGrants = 0
      /\ g.stages = [i \in 1..steps |-> IF i = 1 THEN "active" ELSE "pending"]
  BY DEF NewGoal
<1>2. /\ IsGoalExecution(e) /\ e.generation = 0 /\ e.lifetimeRequests = 0
      /\ e.totalRemaining = e.totalLimit /\ e \in ExecutionRecord
  BY FreshIsReadable DEF IsGoalExecution
<1>3. g.stages \in Seq(StageStatus) /\ Len(g.stages) = steps
  BY <1>1 DEF StageStatus
<1>4. g \in GoalRecord
  BY <1>2, <1>3 DEF GoalRecord, NewGoal, EmptyMemory, Memory, GoalStatus, PauseReasons
<1>5. WellShaped(g)
  BY <1>1, <1>2, <1>3, <1>4 DEF WellShaped
<1>6. Ordered(g)
  BY <1>1, <1>2 DEF Ordered
<1>7. Counted(g)
  <2>1. CreditGrantCap(e) >= 0
    BY <1>2, CreditBoundsAssumption, FieldTypes DEF CreditGrantCap, Least
  <2> QED
    BY <1>1, <2>1, FS_EmptySet DEF Counted
<1>8. Conserved(g)
  BY <1>1, <1>2, FieldTypes DEF Conserved
<1>9. TrueReason(g)
  BY <1>1 DEF TrueReason
<1> QED
  BY <1>5, <1>6, <1>7, <1>8, <1>9 DEF Sound

(* A goal whose status and pause reason alone change.                      *)
LEMMA StatusMoveSound ==
  ASSUME NEW g, Sound(g), NEW st \in {"active", "paused", "blocked"},
         NEW reason \in PauseReasons,
         g.status # "complete",
         st = "active" => reason = "none",
         NEW h, h = [g EXCEPT !.status = st, !.pauseReason = reason],
         TrueReason(h)
  PROVE  Sound(h)
<1>1. /\ h.status = st /\ h.pauseReason = reason /\ h.index = g.index
      /\ h.stages = g.stages /\ h.execution = g.execution
      /\ h.creditedEvidence = g.creditedEvidence /\ h.creditGrants = g.creditGrants
  BY SoundTypes DEF GoalRecord
<1>2. h \in GoalRecord
  BY SoundTypes DEF GoalRecord, GoalStatus
<1>3. WellShaped(h)
  BY <1>1, <1>2 DEF Sound, WellShaped
<1>4. Ordered(h) /\ Counted(h) /\ Conserved(h)
  BY <1>1 DEF Sound, Ordered, Counted, Conserved
<1> QED
  BY <1>3, <1>4 DEF Sound

(* A goal that spends, or whose renewable counters change.                 *)
LEMMA WithExecutionSound ==
  ASSUME NEW g, Sound(g), NEW e, IsGoalExecution(e),
         SameLimits(g.execution, e),
         e.generation = g.execution.generation,
         e.lifetimeRequests + e.totalRemaining
           <= g.execution.lifetimeRequests + g.execution.totalRemaining,
         g.status = "paused" => (Terminal(e) <=> Terminal(g.execution))
  PROVE  Sound(WithExecution(g, e))
<1> DEFINE h == WithExecution(g, e)
<1>0. e \in ExecutionRecord
  BY DEF IsGoalExecution
<1>1. /\ h.status = g.status /\ h.pauseReason = g.pauseReason /\ h.index = g.index
      /\ h.stages = g.stages /\ h.execution = e
      /\ h.creditedEvidence = g.creditedEvidence /\ h.creditGrants = g.creditGrants
  BY SoundTypes DEF GoalRecord, WithExecution
<1>2. h \in GoalRecord
  BY <1>0, SoundTypes DEF GoalRecord, WithExecution
<1> HIDE DEF h
<1>3. WellShaped(h)
  BY <1>1, <1>2 DEF Sound, WellShaped
<1>4. Ordered(h)
  BY <1>1 DEF Sound, Ordered
<1>5. Counted(h)
  BY <1>1 DEF Sound, Counted, CreditGrantCap, SameLimits
<1>6. Conserved(h)
  <2> DEFINE bound == (g.index + 1) * g.execution.totalLimit
                        + g.creditGrants * g.execution.evidenceGrant
  <2>1. bound \in Int
    BY SoundTypes, FieldTypes
  <2>2. g.execution.lifetimeRequests + g.execution.totalRemaining <= bound
    BY DEF Sound, Conserved
  <2>3. (h.index + 1) * h.execution.totalLimit + h.creditGrants * h.execution.evidenceGrant = bound
    BY <1>1 DEF SameLimits
  <2> HIDE DEF bound
  <2>4. e.lifetimeRequests + e.totalRemaining <= bound
    BY <1>0, <2>1, <2>2, SoundTypes, FieldTypes
  <2> QED
    BY <1>1, <2>3, <2>4 DEF Conserved
<1>7. TrueReason(h)
  BY <1>1 DEF Sound, TrueReason
<1> QED
  BY <1>3, <1>4, <1>5, <1>6, <1>7 DEF Sound, h

LEMMA SameSpendingSound ==
  ASSUME NEW g, Sound(g), NEW e, IsGoalExecution(e), SameSpending(g.execution, e)
  PROVE  Sound(WithExecution(g, e))
<1>1. SameLimits(g.execution, e) /\ e.generation = g.execution.generation
  BY DEF SameSpending
<1>2. e.lifetimeRequests + e.totalRemaining
        <= g.execution.lifetimeRequests + g.execution.totalRemaining
  BY SoundTypes, FieldTypes DEF SameSpending
<1>3. Terminal(e) <=> Terminal(g.execution)
  BY DEF SameSpending, SameLimits, Terminal
<1> QED
  BY <1>1, <1>2, <1>3, WithExecutionSound

LEMMA PauseSound ==
  ASSUME NEW g, Sound(g), IsActive(g)
  PROVE  Sound(PauseGoal(g))
<1>1. g.status = "active" /\ g.pauseReason = "none" /\ g \in GoalRecord
  BY SoundTypes DEF IsActive, Sound, WellShaped
<1>2. PauseGoal(g) = [g EXCEPT !.status = "paused", !.pauseReason = "none"]
  BY <1>1 DEF PauseGoal, GoalRecord
<1>3. PauseGoal(g).pauseReason = "none"
  BY <1>1 DEF PauseGoal, GoalRecord
<1>4. TrueReason(PauseGoal(g))
  BY <1>3 DEF TrueReason
<1> QED
  BY <1>1, <1>2, <1>4, StatusMoveSound DEF PauseReasons

LEMMA BlockSound ==
  ASSUME NEW g, Sound(g), IsActive(g)
  PROVE  Sound(BlockGoal(g))
<1>1. g.status = "active" /\ g.pauseReason = "none" /\ g \in GoalRecord
  BY SoundTypes DEF IsActive, Sound, WellShaped
<1>2. BlockGoal(g) = [g EXCEPT !.status = "blocked", !.pauseReason = "none"]
  BY <1>1 DEF BlockGoal, GoalRecord
<1>3. BlockGoal(g).status = "blocked"
  BY <1>1 DEF BlockGoal, GoalRecord
<1>4. TrueReason(BlockGoal(g))
  BY <1>3 DEF TrueReason
<1> QED
  BY <1>1, <1>2, <1>4, StatusMoveSound DEF PauseReasons

LEMMA ResumeSound ==
  ASSUME NEW g, Sound(g), CanResume(g)
  PROVE  Sound(ApplyResumeGrant(ResumeGoal(g)))
<1> DEFINE h == ResumeGoal(g)
<1>1. g.status # "complete" /\ g \in GoalRecord
  BY SoundTypes DEF CanResume
<1>2. h.status = "active"
  BY <1>1 DEF ResumeGoal, GoalRecord
<1>3. TrueReason(h)
  BY <1>2 DEF TrueReason
<1>4. Sound(h)
  BY <1>1, <1>3, StatusMoveSound DEF ResumeGoal, PauseReasons
<1> HIDE DEF h
<1>5. IsGoalExecution(ResumeGrant(h.execution)) /\ SameSpending(h.execution, ResumeGrant(h.execution))
  BY <1>4, SoundTypes, ResumeGrantSpendsNoRequest
<1>6. ApplyResumeGrant(h) = WithExecution(h, ResumeGrant(h.execution))
  BY DEF ApplyResumeGrant, WithExecution
<1> QED
  BY <1>4, <1>5, <1>6, SameSpendingSound DEF h

(* The reason that allowanceExhaustion gives is terminal exactly when the  *)
(* fuse is: the checks run hardest first.                                  *)
LEMMA ReasonIsHardestFirst ==
  ASSUME NEW e, IsGoalExecution(e)
  PROVE  /\ AllowanceExhaustion(e) \in PauseReasons
         /\ AllowanceExhaustion(e) \in {"lifetime", "total"} <=> Terminal(e)
<1>1. CASE Terminal(e)
  BY <1>1, FieldTypes DEF IsGoalExecution, Terminal, AllowanceExhaustion, PauseReasons,
     ExhaustionReasons
<1>2. CASE ~Terminal(e)
  <2>1. ~(e.lifetimeRequests >= e.lifetimeCeiling) /\ ~(e.totalRemaining <= 0)
    BY <1>2 DEF Terminal
  <2>2. AllowanceExhaustion(e) \in {"turn-loop", "no-progress", "none"}
    BY <2>1 DEF AllowanceExhaustion
  <2> QED
    BY <1>2, <2>2 DEF PauseReasons, ExhaustionReasons
<1> QED
  BY <1>1, <1>2

LEMMA ExhaustionPauseSound ==
  ASSUME NEW g, Sound(g), IsActive(g)
  PROVE  Sound(PauseForExhaustion(g))
<1> DEFINE reason == AllowanceExhaustion(g.execution)
           h == [g EXCEPT !.status = "paused", !.pauseReason = reason]
<1>1. g.status = "active" /\ g \in GoalRecord /\ IsGoalExecution(g.execution)
  BY SoundTypes DEF IsActive
<1>2. PauseForExhaustion(g) = h
  BY DEF PauseForExhaustion, PauseGoal
<1>3. reason \in PauseReasons /\ (reason \in {"lifetime", "total"} <=> Terminal(g.execution))
  BY <1>1, ReasonIsHardestFirst
<1> HIDE DEF reason
<1>4. h.pauseReason = reason /\ h.execution = g.execution
  BY <1>1 DEF GoalRecord
<1>5. TrueReason(h)
  BY <1>3, <1>4 DEF TrueReason
<1> QED
  BY <1>1, <1>2, <1>3, <1>5, StatusMoveSound

LEMMA RestoreSound ==
  ASSUME NEW g, Sound(g)
  PROVE  Sound(RestoreBranchGoal(g))
<1>1. CASE IsActive(g)
  <2> DEFINE h == [g EXCEPT !.status = "paused", !.pauseReason = "restored"]
  <2>1. RestoreBranchGoal(g) = h
    BY <1>1 DEF RestoreBranchGoal
  <2>2. h.pauseReason = "restored"
    BY SoundTypes DEF GoalRecord
  <2>3. TrueReason(h)
    BY <2>2 DEF TrueReason
  <2>4. g.status # "complete"
    BY <1>1 DEF IsActive
  <2> QED
    BY <2>1, <2>3, <2>4, StatusMoveSound DEF PauseReasons
<1>2. CASE ~IsActive(g)
  BY <1>2 DEF RestoreBranchGoal
<1> QED
  BY <1>1, <1>2

LEMMA WriteMemorySound ==
  ASSUME NEW g, Sound(g), NEW notes \in Notes \cup {EmptyNotes}
  PROVE  Sound(WriteMemory(g, notes))
<1> DEFINE h == WriteMemory(g, notes)
<1>1. /\ h.status = g.status /\ h.pauseReason = g.pauseReason /\ h.index = g.index
      /\ h.stages = g.stages /\ h.execution = g.execution
      /\ h.creditedEvidence = g.creditedEvidence /\ h.creditGrants = g.creditGrants
  BY SoundTypes DEF GoalRecord, WriteMemory
<1>2. g.memory \in Memory
  BY SoundTypes DEF GoalRecord
<1>3. [revision |-> g.memory.revision + 1, notes |-> notes] \in Memory
  BY <1>2 DEF Memory
<1>4. h \in GoalRecord
  BY <1>3, SoundTypes DEF GoalRecord, WriteMemory
<1> QED
  BY <1>1, <1>4 DEF Sound, WellShaped, Ordered, Counted, Conserved, TrueReason

(* A goal rewritten in the fields a completion touches.                    *)
LEMMA RewrittenLast ==
  ASSUME NEW g \in GoalRecord, NEW ss \in Seq(StageStatus), NEW st \in GoalStatus,
         NEW memory \in Memory, NEW reason \in PauseReasons
  PROVE  [g EXCEPT !.stages = ss, !.status = st,
                   !.memory = memory, !.pauseReason = reason] \in GoalRecord
BY Zenon DEF GoalRecord

LEMMA RewrittenNext ==
  ASSUME NEW g \in GoalRecord, NEW ss \in Seq(StageStatus), NEW k \in Nat,
         NEW e \in ExecutionRecord, NEW memory \in Memory, NEW reason \in PauseReasons
  PROVE  [g EXCEPT !.stages = ss, !.index = k, !.execution = e,
                   !.memory = memory, !.pauseReason = reason] \in GoalRecord
BY Zenon DEF GoalRecord

(* A step of a sequence is marked.                                         *)
LEMMA Marked ==
  ASSUME NEW s \in Seq(StageStatus), NEW k \in 1..Len(s), NEW st \in StageStatus
  PROVE  /\ [s EXCEPT ![k] = st] \in Seq(StageStatus)
         /\ Len([s EXCEPT ![k] = st]) = Len(s)
         /\ DOMAIN [s EXCEPT ![k] = st] = DOMAIN s
         /\ [s EXCEPT ![k] = st][k] = st
         /\ \A i \in DOMAIN s : i # k => [s EXCEPT ![k] = st][i] = s[i]
BY DEF StageStatus

LEMMA Distributes ==
  ASSUME NEW a \in Nat, NEW b \in Nat
  PROVE  (a + 1) * b = a * b + b
OBVIOUS

(* The last step: nothing of the budgets changes.                          *)
LEMMA LastStepSound ==
  ASSUME NEW g, Sound(g), IsActive(g), IsLastStage(g)
  PROVE  Sound([CompleteCurrentStage(g) EXCEPT !.memory = EmptyMemory, !.pauseReason = "none"])
<1> DEFINE k == g.index + 1
           marked == [g.stages EXCEPT ![k] = "complete"]
           h == [CompleteCurrentStage(g) EXCEPT !.memory = EmptyMemory, !.pauseReason = "none"]
<1>1. h = [g EXCEPT !.stages = marked, !.status = "complete",
                    !.memory = EmptyMemory, !.pauseReason = "none"]
  BY SoundTypes DEF CompleteCurrentStage, GoalRecord
<1>2. /\ g.stages \in Seq(StageStatus) /\ k \in 1..Len(g.stages) /\ g.index \in Nat
      /\ Len(g.stages) \in Nat /\ g.index < Len(g.stages)
  BY SoundTypes DEF Sound, WellShaped
<1>3. /\ marked \in Seq(StageStatus) /\ Len(marked) = Len(g.stages)
      /\ DOMAIN marked = DOMAIN g.stages
      /\ marked[k] = "complete"
      /\ \A i \in DOMAIN g.stages : i # k => marked[i] = g.stages[i]
  BY <1>2, Marked DEF StageStatus
<1> HIDE DEF h, marked
<1>4. /\ h.status = "complete" /\ h.pauseReason = "none" /\ h.index = g.index
      /\ h.stages = marked /\ h.execution = g.execution
      /\ h.creditedEvidence = g.creditedEvidence /\ h.creditGrants = g.creditGrants
  BY <1>1, SoundTypes DEF GoalRecord
<1>5. h \in GoalRecord
  <2>1. EmptyMemory \in Memory
    BY DEF EmptyMemory, Memory
  <2>2. "complete" \in GoalStatus /\ "none" \in PauseReasons
    BY DEF GoalStatus, PauseReasons
  <2> QED
    BY <1>1, <1>3, <2>1, <2>2, SoundTypes, RewrittenLast
<1>6. WellShaped(h)
  BY <1>2, <1>3, <1>4, <1>5 DEF Sound, WellShaped
<1>7. Ordered(h)
  <2> SUFFICES ASSUME NEW i \in DOMAIN g.stages
               PROVE  /\ i <= g.index => marked[i] = "complete"
                      /\ i > g.index + 1 => marked[i] = "pending"
    BY <1>3, <1>4 DEF Sound, Ordered
  <2>1. i \in Nat
    BY <1>2
  <2>2. /\ i <= g.index => g.stages[i] = "complete"
        /\ i > g.index + 1 => g.stages[i] = "pending"
    BY DEF Sound, Ordered
  <2>3. CASE i = k
    BY <1>2, <1>3, <2>3
  <2>4. CASE i # k
    BY <1>3, <2>2, <2>4
  <2> QED
    BY <2>3, <2>4
<1>8. Counted(h) /\ Conserved(h)
  BY <1>4 DEF Sound, Counted, Conserved
<1>9. TrueReason(h)
  BY <1>4 DEF TrueReason
<1> QED
  BY <1>6, <1>7, <1>8, <1>9 DEF Sound, h

(* One more step: its working total is what the conservation allows.       *)
LEMMA NextStepSound ==
  ASSUME NEW g, Sound(g), IsActive(g), ~IsLastStage(g),
         NEW handoff \in Notes \cup {EmptyNotes}
  PROVE  Sound([CompleteCurrentStage(g) EXCEPT
                  !.memory = [revision |-> 0, notes |-> handoff],
                  !.execution = NextStepExecution(@),
                  !.pauseReason = "none"])
<1> DEFINE k == g.index + 1
           e == NextStepExecution(g.execution)
           h == [CompleteCurrentStage(g) EXCEPT
                   !.memory = [revision |-> 0, notes |-> handoff],
                   !.execution = NextStepExecution(@),
                   !.pauseReason = "none"]
           marked == [g.stages EXCEPT ![k] = "complete"]
           stages == [marked EXCEPT ![k + 1] = "active"]
<1>1. h = [g EXCEPT !.stages = stages, !.index = k, !.execution = e,
                    !.memory = [revision |-> 0, notes |-> handoff], !.pauseReason = "none"]
  <2>1. g.index + 2 = k + 1
    BY SoundTypes
  <2> QED
    BY <2>1, SoundTypes DEF CompleteCurrentStage, GoalRecord
<1> HIDE DEF h, e, stages
<1>2. /\ h.status = g.status /\ h.pauseReason = "none" /\ h.index = k
      /\ h.stages = stages /\ h.execution = e
      /\ h.creditedEvidence = g.creditedEvidence /\ h.creditGrants = g.creditGrants
  BY <1>1, SoundTypes DEF GoalRecord
<1>3. /\ g.stages \in Seq(StageStatus) /\ k \in Nat /\ g.index \in Nat
      /\ Len(g.stages) \in Nat /\ k < Len(g.stages) /\ k >= 1
  BY SoundTypes DEF IsLastStage, StageCount
<1>4. /\ stages \in Seq(StageStatus) /\ Len(stages) = Len(g.stages)
      /\ DOMAIN stages = DOMAIN g.stages
      /\ stages[k] = "complete" /\ stages[k + 1] = "active"
      /\ \A i \in DOMAIN g.stages : i \notin {k, k + 1} => stages[i] = g.stages[i]
  <2> USE DEF stages
  <2>1. "complete" \in StageStatus /\ "active" \in StageStatus
    BY DEF StageStatus
  <2>2. /\ marked \in Seq(StageStatus) /\ Len(marked) = Len(g.stages)
        /\ DOMAIN marked = DOMAIN g.stages
        /\ marked[k] = "complete"
        /\ \A i \in DOMAIN g.stages : i # k => marked[i] = g.stages[i]
    BY <1>3, <2>1, Marked
  <2> HIDE DEF marked
  <2>3. k + 1 \in 1..Len(marked) /\ k \in DOMAIN marked /\ k # k + 1
    BY <1>3, <2>2
  <2> QED
    BY <2>1, <2>2, <2>3, Marked
<1>5. /\ IsGoalExecution(e) /\ SameLimits(g.execution, e)
      /\ e.generation = g.execution.generation + 1
      /\ e.lifetimeRequests = g.execution.lifetimeRequests
      /\ e.totalRemaining = g.execution.totalLimit
      /\ e \in ExecutionRecord
  BY SoundTypes, NextStepKeepsLifetime DEF IsGoalExecution, e
<1>6. h \in GoalRecord
  <2> DEFINE memory == [revision |-> 0, notes |-> handoff]
  <2>1. memory \in Memory
    BY DEF Memory
  <2>2. "none" \in PauseReasons
    BY DEF PauseReasons
  <2>3. h = [g EXCEPT !.stages = stages, !.index = k, !.execution = e,
                      !.memory = memory, !.pauseReason = "none"]
    BY <1>1
  <2> HIDE DEF memory, k
  <2> QED
    BY <1>3, <1>4, <1>5, <2>1, <2>2, <2>3, SoundTypes, RewrittenNext
<1>7. WellShaped(h)
  BY <1>2, <1>3, <1>4, <1>5, <1>6 DEF Sound, WellShaped
<1>8. Ordered(h)
  <2> SUFFICES ASSUME NEW i \in DOMAIN g.stages
               PROVE  /\ i <= k => stages[i] = "complete"
                      /\ i > k + 1 => stages[i] = "pending"
    BY <1>2, <1>4, <1>5 DEF Sound, Ordered
  <2>1. i \in Nat
    BY <1>3
  <2>2. i <= g.index => g.stages[i] = "complete"
    BY DEF Sound, Ordered
  <2>3. i > k => g.stages[i] = "pending"
    BY <1>3 DEF Sound, Ordered
  <2> QED
    BY <1>3, <1>4, <2>1, <2>2, <2>3
<1>9. Counted(h)
  BY <1>2, <1>5 DEF Sound, Counted, CreditGrantCap, SameLimits
<1>10. Conserved(h)
  <2> DEFINE total == g.execution.totalLimit
             paid == g.creditGrants * g.execution.evidenceGrant
  <2>1. total \in Nat /\ paid \in Nat /\ k * total \in Nat
        /\ g.execution.lifetimeRequests \in Nat /\ g.execution.totalRemaining \in Nat
    BY <1>3, SoundTypes, FieldTypes
  <2>2. g.execution.lifetimeRequests + g.execution.totalRemaining <= k * total + paid
    BY DEF Sound, Conserved
  <2>3. (k + 1) * total = k * total + total
    BY <1>3, <2>1, Distributes
  <2>4. (h.index + 1) * h.execution.totalLimit + h.creditGrants * h.execution.evidenceGrant
          = (k + 1) * total + paid
    BY <1>2, <1>5 DEF SameLimits
  <2>5. h.execution.lifetimeRequests + h.execution.totalRemaining
          = g.execution.lifetimeRequests + total
    BY <1>2, <1>5
  <2> HIDE DEF total, paid
  <2> QED
    BY <2>1, <2>2, <2>3, <2>4, <2>5 DEF Conserved
<1>11. TrueReason(h)
  BY <1>2 DEF TrueReason, IsActive
<1> QED
  BY <1>7, <1>8, <1>9, <1>10, <1>11 DEF Sound, h

LEMMA AcceptCompletionSound ==
  ASSUME NEW g, Sound(g), IsActive(g), NEW handoff \in Notes \cup {EmptyNotes}
  PROVE  Sound(AcceptCompletion(g, handoff))
<1>1. g \in GoalRecord /\ g.status = "active"
  BY SoundTypes DEF IsActive
<1>2. CASE IsLastStage(g)
  <2>1. CompleteCurrentStage(g).status = "complete"
    BY <1>1, <1>2 DEF CompleteCurrentStage, GoalRecord
  <2> QED
    BY <1>2, <2>1, LastStepSound DEF AcceptCompletion
<1>3. CASE ~IsLastStage(g)
  <2>1. CompleteCurrentStage(g).status = "active"
    BY <1>1, <1>3 DEF CompleteCurrentStage, GoalRecord
  <2> QED
    BY <1>3, <2>1, NextStepSound DEF AcceptCompletion
<1> QED
  BY <1>2, <1>3

LEMMA RewrittenCredit ==
  ASSUME NEW g \in GoalRecord, NEW ev \in SUBSET Evidence, NEW c \in Nat,
         NEW e \in ExecutionRecord
  PROVE  [g EXCEPT !.creditedEvidence = ev, !.creditGrants = c, !.execution = e] \in GoalRecord
BY Zenon DEF GoalRecord

LEMMA ProductOfSum ==
  ASSUME NEW a \in Nat, NEW b \in Nat, NEW c \in Nat
  PROVE  (a + b) * c = a * c + c * b /\ a * c \in Nat /\ c * b \in Nat
OBVIOUS

(* References that were never credited before pay once each, within the    *)
(* cap, and raise what may still be spent by at most their grants.         *)
LEMMA CreditKeysSound ==
  ASSUME NEW g, Sound(g), IsActive(g), NEW fresh \in SUBSET (Evidence \ g.creditedEvidence),
         Cardinality(fresh) <= GrantsLeft(g)
  PROVE  Sound(CreditKeys(g, fresh))
<1> DEFINE n == Cardinality(fresh)
           ev == g.creditedEvidence \cup fresh
           e == RenewForEvidence(g.execution, n)
           h == [g EXCEPT !.creditedEvidence = ev, !.creditGrants = g.creditGrants + n,
                          !.execution = e]
<1>1. CASE fresh = {}
  BY <1>1 DEF CreditKeys
<1>2. CASE fresh # {}
  <2>1. /\ n \in Nat /\ ev \in SUBSET Evidence
        /\ Cardinality(ev) = Cardinality(g.creditedEvidence) + n
    <3>1. g.creditedEvidence \in SUBSET Evidence
      BY SoundTypes DEF GoalRecord
    <3>2. IsFiniteSet(g.creditedEvidence) /\ IsFiniteSet(fresh)
      BY <3>1, EvidenceAssumption, FS_Subset
    <3>3. g.creditedEvidence \cap fresh = {}
      OBVIOUS
    <3>4. /\ Cardinality(g.creditedEvidence) \in Nat /\ n \in Nat
          /\ Cardinality(g.creditedEvidence \cap fresh) = 0
      BY <3>2, <3>3, FS_CardinalityType, FS_EmptySet
    <3>5. Cardinality(ev) = Cardinality(g.creditedEvidence) + n
                              - Cardinality(g.creditedEvidence \cap fresh)
      BY <3>2, FS_Union
    <3> QED
      BY <3>1, <3>4, <3>5
  <2>2. CreditKeys(g, fresh) = h
    BY <1>2 DEF CreditKeys
  <2> HIDE DEF n, ev
  <2>3. /\ IsGoalExecution(e) /\ e \in ExecutionRecord /\ SameLimits(g.execution, e)
        /\ e.generation = g.execution.generation
        /\ e.lifetimeRequests = g.execution.lifetimeRequests
        /\ e.totalRemaining <= g.execution.totalRemaining + g.execution.evidenceGrant * n
    BY <2>1, SoundTypes, RenewalIsBounded DEF IsGoalExecution
  <2> HIDE DEF e
  <2>4. g.creditGrants + n \in Nat
    BY <2>1, SoundTypes
  <2>5. h \in GoalRecord
    BY <2>1, <2>3, <2>4, SoundTypes, RewrittenCredit
  <2>6. /\ h.status = g.status /\ h.pauseReason = g.pauseReason /\ h.index = g.index
        /\ h.stages = g.stages /\ h.execution = e
        /\ h.creditedEvidence = ev /\ h.creditGrants = g.creditGrants + n
    BY SoundTypes DEF GoalRecord
  <2> HIDE DEF h
  <2>7. WellShaped(h)
    BY <2>3, <2>5, <2>6 DEF Sound, WellShaped
  <2>8. Ordered(h)
    BY <2>3, <2>6 DEF Sound, Ordered
  <2>9. Counted(h)
    <3> DEFINE cap == CreditGrantCap(g.execution)
    <3>1. cap \in Int /\ g.creditGrants <= cap
          /\ g.creditGrants = Cardinality(g.creditedEvidence)
      BY SoundTypes, CapIsBelowTheRecord DEF Sound, Counted
    <3>2. CreditGrantCap(e) = cap
      BY <2>3 DEF CreditGrantCap, SameLimits
    <3>3. n <= Greatest(0, cap - g.creditGrants)
      BY DEF GrantsLeft, n
    <3> HIDE DEF cap
    <3>4. g.creditGrants + n <= cap
      BY <2>1, <3>1, <3>3, SoundTypes DEF Greatest
    <3> QED
      BY <2>1, <2>6, <3>1, <3>2, <3>4 DEF Counted
  <2>10. Conserved(h)
    <3> DEFINE G == g.execution.evidenceGrant
               steps == (g.index + 1) * g.execution.totalLimit
               paid == g.creditGrants * G
               more == G * n
    <3>1. /\ steps \in Nat /\ G \in Nat /\ paid \in Nat /\ more \in Nat
          /\ (g.creditGrants + n) * G = paid + more
      BY <2>1, SoundTypes, FieldTypes, ProductOfSum
    <3>2. g.execution.lifetimeRequests + g.execution.totalRemaining <= steps + paid
      BY DEF Sound, Conserved
    <3>3. e.lifetimeRequests = g.execution.lifetimeRequests
          /\ e.totalRemaining <= g.execution.totalRemaining + more
      BY <2>3
    <3>4. (h.index + 1) * h.execution.totalLimit + h.creditGrants * h.execution.evidenceGrant
            = steps + (g.creditGrants + n) * G
      BY <2>3, <2>6 DEF SameLimits
    <3> HIDE DEF steps, paid, more
    <3>5. e.lifetimeRequests + e.totalRemaining <= steps + (paid + more)
      BY <2>3, <3>1, <3>2, <3>3, SoundTypes, FieldTypes
    <3> QED
      BY <2>6, <3>1, <3>4, <3>5 DEF Conserved
  <2>11. TrueReason(h)
    BY <2>6 DEF TrueReason, IsActive
  <2> QED
    BY <2>2, <2>7, <2>8, <2>9, <2>10, <2>11 DEF Sound
<1> QED
  BY <1>1, <1>2

LEMMA CreditSound ==
  ASSUME NEW g, Sound(g), IsActive(g),
         NEW refs \in SUBSET Evidence, NEW h \in CreditOutcomes(g, refs)
  PROVE  Sound(h)
<1> DEFINE novel == NovelKeys(g, refs)
<1>1. PICK fresh \in SUBSET novel :
         /\ Cardinality(fresh) = Least(Cardinality(novel), GrantsLeft(g))
         /\ h = CreditKeys(g, fresh)
  BY DEF CreditOutcomes
<1>2. novel \in SUBSET (Evidence \ g.creditedEvidence)
  BY DEF NovelKeys
<1>3. Cardinality(novel) \in Nat /\ GrantsLeft(g) \in Int
  <2>1. IsFiniteSet(novel)
    BY <1>2, EvidenceAssumption, FS_Subset
  <2> QED
    BY <2>1, FS_CardinalityType, SoundTypes, CapIsBelowTheRecord DEF GrantsLeft, Greatest
<1>4. Cardinality(fresh) <= GrantsLeft(g)
  BY <1>1, <1>3 DEF Least
<1> QED
  BY <1>1, <1>2, <1>4, CreditKeysSound

=============================================================================
