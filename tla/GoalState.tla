------------------------------ MODULE GoalState ------------------------------
(***************************************************************************)
(* The goal record (src/src/state.ts, src/src/allowance.ts) and the pure   *)
(* transitions the runtime applies to it.  Titles, criteria texts and      *)
(* timestamps are left out; criteria are present on every stage, as every  *)
(* goal started by this version has them.                                  *)
(***************************************************************************)
EXTENDS Allowance, Sequences

CONSTANTS
  NoGoal,      \* the absent goal (null)
  Evidence,    \* credit keys of verified evidence references
  Notes,       \* contents of the working memory
  EmptyNotes   \* the memory a step starts with, or a handoff is absent

ASSUME NotesAssumption == EmptyNotes \notin Notes

ASSUME EvidenceAssumption == IsFiniteSet(Evidence)

GoalStatus == {"active", "paused", "blocked", "complete"}

StageStatus == {"pending", "active", "complete"}

PauseReasons == {"none", "restored", "migrated"} \cup ExhaustionReasons

Memory == [revision : Nat, notes : Notes \cup {EmptyNotes}]

EmptyMemory == [revision |-> 0, notes |-> EmptyNotes]

(* Stage i of the code's zero-based array is stages[i + 1].                *)
GoalRecord ==
  [ goalId           : Nat,
    status           : GoalStatus,
    index            : Nat,
    stages           : Seq(StageStatus),
    memory           : Memory,
    execution        : ExecutionRecord,
    pauseReason      : PauseReasons,
    creditedEvidence : SUBSET Evidence,
    creditGrants     : Nat ]

ASSUME NoGoalAssumption == NoGoal \notin GoalRecord

StageCount(g) == Len(g.stages)

CurrentStatus(g) == g.stages[g.index + 1]

(* The reader: what a persisted snapshot must satisfy to be loaded.        *)
IsMultiGoal(g) ==
  /\ g \in GoalRecord
  /\ IsGoalExecution(g.execution)
  /\ Cardinality(g.creditedEvidence) <= MaxCreditedEvidence
  /\ g.creditGrants >= Cardinality(g.creditedEvidence)
  /\ g.index < StageCount(g)
  /\ \A i \in DOMAIN g.stages : g.stages[i] = "active" => i = g.index + 1
  /\ g.status = "active" => CurrentStatus(g) = "active"

IsSnapshot(g) == g = NoGoal \/ IsMultiGoal(g)

IsActive(g) == g # NoGoal /\ g.status = "active"

-----------------------------------------------------------------------------

(* A goal started from human-confirmed steps.                              *)
NewGoal(id, steps, limits) ==
  [ goalId           |-> id,
    status           |-> "active",
    index            |-> 0,
    stages           |-> [i \in 1..steps |-> IF i = 1 THEN "active" ELSE "pending"],
    memory           |-> EmptyMemory,
    execution        |-> FreshExecution(limits),
    pauseReason      |-> "none",
    creditedEvidence |-> {},
    creditGrants     |-> 0 ]

(* setGoalStatus: the three lifecycle moves and when each is legal.        *)
CanPause(g) == IsActive(g)

CanBlock(g) == IsActive(g)

CanResume(g) == g # NoGoal /\ g.status \in {"paused", "blocked"}

PauseGoal(g) == [g EXCEPT !.status = "paused"]

BlockGoal(g) == [g EXCEPT !.status = "blocked"]

ResumeGoal(g) == [g EXCEPT !.status = "active", !.pauseReason = "none"]

(* The pause of an exhausted goal names the fuse.                          *)
PauseForExhaustion(g) ==
  [PauseGoal(g) EXCEPT !.pauseReason = AllowanceExhaustion(g.execution)]

(* The grant of an explicit resume, on the goal that resumes.              *)
ApplyResumeGrant(g) == [g EXCEPT !.execution = ResumeGrant(@)]

(* completeCurrentStage.                                                   *)
IsLastStage(g) == g.index >= StageCount(g) - 1

CompleteCurrentStage(g) ==
  IF IsLastStage(g)
  THEN [g EXCEPT !.stages[g.index + 1] = "complete", !.status = "complete"]
  ELSE [g EXCEPT !.stages[g.index + 1] = "complete",
                 !.stages[g.index + 2] = "active",
                 !.index = @ + 1]

(* acceptCompletion: the step's memory goes, the next step's grant comes.  *)
AcceptCompletion(g, handoff) ==
  LET completed == CompleteCurrentStage(g) IN
  IF completed.status = "complete"
  THEN [completed EXCEPT !.memory = EmptyMemory, !.pauseReason = "none"]
  ELSE [completed EXCEPT !.memory = [revision |-> 0, notes |-> handoff],
                         !.execution = NextStepExecution(@),
                         !.pauseReason = "none"]

(* Faulty: what was paused when the session ended goes on when it opens.   *)
RestoreBranchGoalRevived(g) ==
  IF g # NoGoal /\ g.status = "paused" THEN ResumeGoal(g) ELSE g

(* What a restored snapshot becomes: work never restarts by itself.        *)
RestoreBranchGoal(g) ==
  IF IsActive(g) THEN [g EXCEPT !.status = "paused", !.pauseReason = "restored"]
  ELSE g

(* Faulty: references are not compared with those credited before.         *)
NovelKeysUnfiltered(g, keys) == keys

(* creditVerifiedEvidence: the novel keys, cut to what the cap leaves.     *)
NovelKeys(g, keys) == keys \ g.creditedEvidence

GrantsLeft(g) == Greatest(0, CreditGrantCap(g.execution) - g.creditGrants)

CreditKeys(g, fresh) ==
  IF fresh = {} THEN g
  ELSE [g EXCEPT !.creditedEvidence = @ \cup fresh,
                 !.creditGrants = @ + Cardinality(fresh),
                 !.execution = RenewForEvidence(@, Cardinality(fresh))]

(* The keys of an update arrive in some order; any cut of them may win.    *)
CreditOutcomes(g, keys) ==
  LET novel == NovelKeys(g, keys)
      count == Least(Cardinality(novel), GrantsLeft(g))
  IN  { CreditKeys(g, fresh) :
          fresh \in {f \in SUBSET novel : Cardinality(f) = count} }

WriteMemory(g, notes) ==
  [g EXCEPT !.memory = [revision |-> @.revision + 1, notes |-> notes]]

WithExecution(g, e) == [g EXCEPT !.execution = e]

=============================================================================
