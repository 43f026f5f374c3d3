------------------------------ MODULE GoalLedger ------------------------------
(***************************************************************************)
(* What the goal record promises, whatever the host does: the abstract     *)
(* specification of src/src/state.ts and src/src/allowance.ts.  The only   *)
(* variable of interest is the committed goal.  Each step is one           *)
(* transition of that record; any of them may be followed, in the same     *)
(* step, by the pause of a goal whose fuses no longer hold.                *)
(***************************************************************************)
EXTENDS GoalState

CONSTANTS
  Limits,      \* the configured limits, one of LimitSettings
  MaxGoals,    \* bound: goals ever started
  MaxSteps,    \* bound: steps of a goal
  MaxRevision  \* bound: memory revisions within one step

ASSUME LedgerAssumption ==
  /\ Limits \in LimitSettings
  /\ MaxGoals \in Nat /\ MaxSteps \in Nat /\ MaxRevision \in Nat

VARIABLES
  committed,   \* the goal a reader of the session would find, as restored
  issued       \* goal ids given out

ledgerVars == <<committed, issued>>

LedgerTypeOK ==
  /\ committed \in GoalRecord \cup {NoGoal}
  /\ issued \in Nat

LedgerInit == committed = NoGoal /\ issued = 0

(* g, or g paused because a fuse of it is blown.                           *)
Settled(g) ==
  {g} \cup (IF IsActive(g) /\ Exhausted(g.execution)
            THEN {PauseForExhaustion(g)} ELSE {})

Commits(g) ==
  /\ committed' \in Settled(g)
  /\ UNCHANGED issued

(* A goal id is spent even when its first snapshot is lost.                *)
Start ==
  /\ issued < MaxGoals
  /\ issued' = issued + 1
  /\ \E steps \in 1..MaxSteps :
       committed' \in {committed} \cup Settled(NewGoal(issued + 1, steps, Limits))

Clear == committed # NoGoal /\ committed' = NoGoal /\ UNCHANGED issued

Pause == CanPause(committed) /\ Commits(PauseGoal(committed))

ExhaustionPause ==
  /\ IsActive(committed)
  /\ Exhausted(committed.execution)
  /\ Commits(PauseForExhaustion(committed))

Block == CanBlock(committed) /\ Commits(BlockGoal(committed))

Resume == CanResume(committed) /\ Commits(ApplyResumeGrant(ResumeGoal(committed)))

SpendRequest ==
  /\ IsActive(committed)
  /\ ~Exhausted(committed.execution)
  /\ Commits(WithExecution(committed, ChargeRequest(committed.execution)))

SpendContext ==
  /\ IsActive(committed)
  /\ ~Exhausted(committed.execution)
  /\ Commits(WithExecution(committed, ChargeContext(committed.execution)))

BeginTurn ==
  /\ committed # NoGoal
  /\ Commits(WithExecution(committed, BeginAgentTurn(committed.execution)))

Complete ==
  /\ IsActive(committed)
  /\ \E handoff \in {EmptyNotes} \cup Notes : Commits(AcceptCompletion(committed, handoff))

(* Evidence pays while the goal runs; notes are kept as long as it exists. *)
Credit ==
  /\ IsActive(committed)
  /\ \E refs \in SUBSET Evidence : \E g \in CreditOutcomes(committed, refs) : Commits(g)

TakeNotes ==
  /\ committed # NoGoal
  /\ committed.status # "complete"
  /\ committed.memory.revision < MaxRevision
  /\ \E notes \in {EmptyNotes} \cup Notes, refs \in SUBSET Evidence :
     \E g \in IF IsActive(committed) THEN CreditOutcomes(committed, refs) ELSE {committed} :
       Commits(WriteMemory(g, notes))

Restore == Commits(RestoreBranchGoal(committed))

LedgerNext ==
  \/ Start \/ Clear \/ Pause \/ ExhaustionPause \/ Block \/ Resume
  \/ SpendRequest \/ SpendContext \/ BeginTurn
  \/ Complete \/ Credit \/ TakeNotes \/ Restore

LedgerSpec == LedgerInit /\ [][LedgerNext]_ledgerVars

-----------------------------------------------------------------------------
(* Properties.                                                             *)

(* Every goal the writers produce satisfies the reader: a snapshot is      *)
(* never skipped as malformed when the session is loaded again             *)
(* (isMultiGoal and isGoalExecution against every writer of the record).   *)
Loadable == IsSnapshot(committed)

(* Conservation: the requests a goal has been charged and those its step   *)
(* may still spend never exceed one working total per step begun and one   *)
(* evidence grant per credited reference (allowance.ts, state.ts).         *)
BudgetConserved ==
  committed # NoGoal =>
    LET e == committed.execution IN
    e.lifetimeRequests + e.totalRemaining
      <= (committed.index + 1) * e.totalLimit + committed.creditGrants * e.evidenceGrant

(* A reference pays at most once in the life of a goal, and the number of  *)
(* paid references stays below the bound of the dedupe record, so that no  *)
(* digest is ever evicted (creditVerifiedEvidence, creditGrantCap).        *)
EvidencePaysOnce ==
  committed # NoGoal =>
    /\ committed.creditGrants = Cardinality(committed.creditedEvidence)
    /\ committed.creditGrants <= CreditGrantCap(committed.execution)
    /\ committed.creditGrants < MaxCreditedEvidence

(* The steps before the current one are complete, those after it pending,  *)
(* and the generation counts the transitions: what the identity binding of *)
(* the tools relies on (acceptCompletion, rejectUnboundTerminal).          *)
StepsInOrder ==
  committed # NoGoal =>
    /\ committed.execution.generation = committed.index
    /\ \A i \in DOMAIN committed.stages :
         /\ i <= committed.index => committed.stages[i] = "complete"
         /\ i > committed.index + 1 => committed.stages[i] = "pending"

(* A pause that names a renewable fuse can be resumed, and one that names  *)
(* another cannot: the order of the checks in allowanceExhaustion.         *)
PauseReasonIsTrue ==
  (committed # NoGoal /\ committed.status = "paused") =>
    /\ committed.pauseReason \in {"no-progress", "turn-loop"}
         => ~Exhausted(ResumeGrant(committed.execution))
    /\ committed.pauseReason \in {"lifetime", "total"}
         => Exhausted(ResumeGrant(committed.execution))

SameGoalStep ==
  committed # NoGoal /\ committed' # NoGoal /\ committed'.goalId = committed.goalId

(* While a goal lives nothing takes back a lifetime request, a step or a   *)
(* credited reference.                                                     *)
NothingIsRefunded ==
  [][SameGoalStep =>
       /\ committed'.execution.lifetimeRequests >= committed.execution.lifetimeRequests
       /\ committed'.index >= committed.index
       /\ committed.creditedEvidence \subseteq committed'.creditedEvidence]_ledgerVars

(* The working total of a step grows only for new evidence; a resume, a    *)
(* new turn, a restart or a memory update never refills it.                *)
TotalGrowsOnlyForEvidence ==
  [][(SameGoalStep /\ committed'.index = committed.index) =>
       committed'.execution.totalRemaining - committed.execution.totalRemaining
         <= committed.execution.evidenceGrant
              * (committed'.creditGrants - committed.creditGrants)]_ledgerVars

=============================================================================
