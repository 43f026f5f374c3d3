--------------------------- MODULE GoalLedger_proofs ---------------------------
(***************************************************************************)
(* Proofs about the goal ledger, for any limits, any number of steps and   *)
(* any finite set of evidence.  The inductive invariant is that the        *)
(* committed goal is Sound (GoalState_proofs).                             *)
(***************************************************************************)
EXTENDS GoalLedger, GoalState_proofs

-----------------------------------------------------------------------------
(* The inductive invariant of the ledger, and what follows from it.        *)

LedgerInv ==
  /\ committed = NoGoal \/ Sound(committed)
  /\ issued \in Nat

(* The pause that may follow a transition in the same step.                *)
LEMMA SettledSound ==
  ASSUME NEW g, Sound(g), NEW h \in Settled(g)
  PROVE  Sound(h)
BY ExhaustionPauseSound DEF Settled

LEMMA LedgerInitEstablishes ==
  LedgerInit => LedgerInv
BY DEF LedgerInit, LedgerInv

LEMMA CommitsKeepsSound ==
  ASSUME LedgerInv, NEW g, Sound(g), Commits(g)
  PROVE  LedgerInv'
<1>1. committed' \in Settled(g) /\ issued' = issued
  BY DEF Commits
<1>2. Sound(committed')
  BY <1>1, SettledSound
<1> QED
  BY <1>1, <1>2 DEF LedgerInv

LEMMA LedgerStepPreserves ==
  ASSUME LedgerInv, [LedgerNext]_ledgerVars
  PROVE  LedgerInv'
<1>0. committed # NoGoal => Sound(committed)
  BY DEF LedgerInv
<1>1. CASE Start
  <2>1. PICK steps \in 1..MaxSteps :
          committed' \in {committed} \cup Settled(NewGoal(issued + 1, steps, Limits))
    BY <1>1 DEF Start
  <2>2. issued + 1 \in Nat /\ issued' = issued + 1
    BY <1>1 DEF Start, LedgerInv
  <2>3. steps \in Nat /\ steps > 0
    BY LedgerAssumption
  <2>4. Sound(NewGoal(issued + 1, steps, Limits))
    BY <2>2, <2>3, LedgerAssumption, NewGoalSound
  <2>5. committed' = committed \/ Sound(committed')
    BY <2>1, <2>4, SettledSound
  <2> QED
    BY <2>2, <2>5 DEF LedgerInv
<1>2. CASE Clear
  BY <1>2 DEF Clear, LedgerInv
<1>3. CASE Pause
  <2>1. Sound(PauseGoal(committed)) /\ Commits(PauseGoal(committed))
    BY <1>0, <1>3, PauseSound DEF Pause, CanPause, IsActive
  <2> QED
    BY <2>1, CommitsKeepsSound
<1>4. CASE ExhaustionPause
  <2>1. Sound(PauseForExhaustion(committed)) /\ Commits(PauseForExhaustion(committed))
    BY <1>0, <1>4, ExhaustionPauseSound DEF ExhaustionPause, IsActive
  <2> QED
    BY <2>1, CommitsKeepsSound
<1>5. CASE Block
  <2>1. Sound(BlockGoal(committed)) /\ Commits(BlockGoal(committed))
    BY <1>0, <1>5, BlockSound DEF Block, CanBlock, IsActive
  <2> QED
    BY <2>1, CommitsKeepsSound
<1>6. CASE Resume
  <2>1. /\ Sound(ApplyResumeGrant(ResumeGoal(committed)))
        /\ Commits(ApplyResumeGrant(ResumeGoal(committed)))
    BY <1>0, <1>6, ResumeSound DEF Resume, CanResume
  <2> QED
    BY <2>1, CommitsKeepsSound
<1>7. CASE SpendRequest
  <2> DEFINE e == ChargeRequest(committed.execution)
  <2>1. /\ Sound(committed) /\ ~Exhausted(committed.execution)
        /\ Commits(WithExecution(committed, e))
    BY <1>0, <1>7 DEF SpendRequest, IsActive
  <2>2. /\ IsGoalExecution(e) /\ SameLimits(committed.execution, e)
        /\ e.generation = committed.execution.generation
        /\ e.lifetimeRequests = committed.execution.lifetimeRequests + 1
        /\ e.totalRemaining = committed.execution.totalRemaining - 1
    BY <2>1, SoundTypes, ChargeRequestMovesOne
  <2> HIDE DEF e
  <2>3. e.lifetimeRequests + e.totalRemaining
          <= committed.execution.lifetimeRequests + committed.execution.totalRemaining
    BY <2>1, <2>2, SoundTypes, FieldTypes
  <2>4. committed.status # "paused"
    BY <1>7 DEF SpendRequest, IsActive
  <2>5. Sound(WithExecution(committed, e))
    BY <2>1, <2>2, <2>3, <2>4, WithExecutionSound
  <2> QED
    BY <2>1, <2>5, CommitsKeepsSound
<1>8. CASE SpendContext
  <2> DEFINE e == ChargeContext(committed.execution)
  <2>1. Sound(committed) /\ Commits(WithExecution(committed, e))
    BY <1>0, <1>8 DEF SpendContext, IsActive
  <2>2. Sound(WithExecution(committed, e))
    BY <2>1, SoundTypes, ChargeContextSpendsNoRequest, SameSpendingSound
  <2> QED
    BY <2>1, <2>2, CommitsKeepsSound
<1>9. CASE BeginTurn
  <2> DEFINE e == BeginAgentTurn(committed.execution)
  <2>1. Sound(committed) /\ Commits(WithExecution(committed, e))
    BY <1>0, <1>9 DEF BeginTurn
  <2>2. Sound(WithExecution(committed, e))
    BY <2>1, SoundTypes, BeginAgentTurnSpendsNoRequest, SameSpendingSound
  <2> QED
    BY <2>1, <2>2, CommitsKeepsSound
<1>10. CASE Complete
  <2>1. PICK handoff \in {EmptyNotes} \cup Notes : Commits(AcceptCompletion(committed, handoff))
    BY <1>10 DEF Complete
  <2>2. Sound(committed) /\ IsActive(committed)
    BY <1>0, <1>10 DEF Complete, IsActive
  <2>3. Sound(AcceptCompletion(committed, handoff))
    BY <2>2, AcceptCompletionSound
  <2> QED
    BY <2>1, <2>3, CommitsKeepsSound
<1>11. CASE Credit
  <2>1. PICK refs \in SUBSET Evidence : \E g \in CreditOutcomes(committed, refs) : Commits(g)
    BY <1>11 DEF Credit
  <2>2. PICK g \in CreditOutcomes(committed, refs) : Commits(g)
    BY <2>1
  <2>3. Sound(committed) /\ IsActive(committed)
    BY <1>0, <1>11 DEF Credit, IsActive
  <2>4. Sound(g)
    BY <2>3, CreditSound
  <2> QED
    BY <2>2, <2>4, CommitsKeepsSound
<1>12. CASE TakeNotes
  <2>1. PICK notes \in {EmptyNotes} \cup Notes, refs \in SUBSET Evidence :
          \E g \in IF IsActive(committed) THEN CreditOutcomes(committed, refs) ELSE {committed} :
            Commits(WriteMemory(g, notes))
    BY <1>12 DEF TakeNotes
  <2>2. PICK g \in IF IsActive(committed) THEN CreditOutcomes(committed, refs) ELSE {committed} :
          Commits(WriteMemory(g, notes))
    BY <2>1
  <2>3. Sound(committed)
    BY <1>0, <1>12 DEF TakeNotes
  <2>4. Sound(g)
    BY <2>3, CreditSound
  <2>5. Sound(WriteMemory(g, notes))
    BY <2>4, WriteMemorySound
  <2> QED
    BY <2>2, <2>5, CommitsKeepsSound
<1>13. CASE Restore
  <2>1. CASE committed = NoGoal
    <3>1. RestoreBranchGoal(committed) = NoGoal /\ Settled(NoGoal) = {NoGoal}
      BY <2>1 DEF RestoreBranchGoal, Settled, IsActive
    <3> QED
      BY <1>13, <3>1 DEF Restore, Commits, LedgerInv
  <2>2. CASE committed # NoGoal
    <3>1. Sound(RestoreBranchGoal(committed))
      BY <1>0, <2>2, RestoreSound
    <3> QED
      BY <1>13, <3>1, CommitsKeepsSound DEF Restore
  <2> QED
    BY <2>1, <2>2
<1>14. CASE UNCHANGED ledgerVars
  BY <1>14 DEF ledgerVars, LedgerInv
<1> QED
  BY <1>1, <1>2, <1>3, <1>4, <1>5, <1>6, <1>7, <1>8, <1>9, <1>10, <1>11, <1>12, <1>13, <1>14
     DEF LedgerNext

(* Every goal on record is sound, in every state of the ledger.            *)
THEOREM LedgerIsSound ==
  LedgerSpec => []LedgerInv
<1>1. LedgerInit => LedgerInv
  BY LedgerInitEstablishes
<1>2. LedgerInv /\ [LedgerNext]_ledgerVars => LedgerInv'
  BY LedgerStepPreserves
<1> QED
  BY <1>1, <1>2, PTL DEF LedgerSpec

(* What is committed is a goal record of the declared shape, or nothing,   *)
(* for any limits, numbers of steps and evidence.                          *)
THEOREM LedgerIsTyped ==
  LedgerSpec => []LedgerTypeOK
<1>1. LedgerInv => LedgerTypeOK
  BY SoundTypes DEF LedgerInv, LedgerTypeOK
<1> QED
  BY <1>1, LedgerIsSound, PTL

(* Every goal the writers of state.ts and allowance.ts produce satisfies   *)
(* the readers isMultiGoal and isGoalExecution: no snapshot is ever        *)
(* skipped as malformed when the session is loaded.                        *)
THEOREM EverySnapshotLoads ==
  LedgerSpec => []Loadable
<1>1. LedgerInv => Loadable
  BY SoundIsReadable DEF LedgerInv, Loadable, IsSnapshot
<1> QED
  BY <1>1, LedgerIsSound, PTL

(* The requests a goal was charged and those its step may still spend are  *)
(* covered by one working total per step and one grant per credited        *)
(* reference (chargeRequest, nextStepExecution, creditVerifiedEvidence).   *)
THEOREM NoBudgetFromNowhere ==
  LedgerSpec => []BudgetConserved
<1>1. LedgerInv => BudgetConserved
  BY DEF LedgerInv, BudgetConserved, Sound, Conserved
<1> QED
  BY <1>1, LedgerIsSound, PTL

(* A reference pays at most once in a goal's life, and the dedupe record   *)
(* never reaches the size at which a digest would be evicted               *)
(* (creditVerifiedEvidence, creditGrantCap).                               *)
THEOREM NoReferencePaysTwice ==
  LedgerSpec => []EvidencePaysOnce
<1>1. LedgerInv => EvidencePaysOnce
  <2> SUFFICES ASSUME LedgerInv, committed # NoGoal
               PROVE  /\ committed.creditGrants = Cardinality(committed.creditedEvidence)
                      /\ committed.creditGrants <= CreditGrantCap(committed.execution)
                      /\ committed.creditGrants < MaxCreditedEvidence
    BY DEF EvidencePaysOnce
  <2>1. Sound(committed)
    BY DEF LedgerInv
  <2>2. /\ committed.creditGrants = Cardinality(committed.creditedEvidence)
        /\ committed.creditGrants <= CreditGrantCap(committed.execution)
    BY <2>1 DEF Sound, Counted
  <2>3. committed.creditGrants < MaxCreditedEvidence
    BY <2>1, <2>2, SoundTypes, CapIsBelowTheRecord, CreditBoundsAssumption
  <2> QED
    BY <2>2, <2>3
<1> QED
  BY <1>1, LedgerIsSound, PTL

(* The steps of a goal are completed in order, and the generation of its   *)
(* execution is the number of transitions made: the identity a completion  *)
(* is bound to (acceptCompletion, rejectUnboundTerminal).                  *)
THEOREM StepsStayInOrder ==
  LedgerSpec => []StepsInOrder
<1>1. LedgerInv => StepsInOrder
  BY DEF LedgerInv, StepsInOrder, Sound, Ordered
<1> QED
  BY <1>1, LedgerIsSound, PTL

(* A goal paused for a fuse that a resume renews can run again once it is  *)
(* resumed, and one paused for a terminal fuse cannot: what the report of  *)
(* pauseReason tells the human to do (allowanceExhaustion).                *)
THEOREM PauseReasonsAreTrue ==
  LedgerSpec => []PauseReasonIsTrue
<1>1. LedgerInv => PauseReasonIsTrue
  <2> SUFFICES ASSUME LedgerInv, committed # NoGoal, committed.status = "paused"
               PROVE  /\ committed.pauseReason \in {"no-progress", "turn-loop"}
                           => ~Exhausted(ResumeGrant(committed.execution))
                      /\ committed.pauseReason \in {"lifetime", "total"}
                           => Exhausted(ResumeGrant(committed.execution))
    BY DEF PauseReasonIsTrue
  <2>1. Sound(committed)
    BY DEF LedgerInv
  <2>2. Exhausted(ResumeGrant(committed.execution)) <=> Terminal(committed.execution)
    BY <2>1, SoundTypes, ResumeLeavesTheTerminal
  <2> QED
    BY <2>1, <2>2 DEF Sound, TrueReason
<1> QED
  BY <1>1, LedgerIsSound, PTL

-----------------------------------------------------------------------------
(* What no step takes back.                                                *)

(* The fields that are accounts, as opposed to status and memory.          *)
SameBooks(g, h) ==
  /\ h.goalId = g.goalId /\ h.index = g.index /\ h.execution = g.execution
  /\ h.creditedEvidence = g.creditedEvidence /\ h.creditGrants = g.creditGrants

Keeps(g, h) ==
  /\ h.goalId = g.goalId
  /\ h.execution.lifetimeRequests >= g.execution.lifetimeRequests
  /\ h.index >= g.index
  /\ g.creditedEvidence \subseteq h.creditedEvidence
  /\ h.index = g.index =>
       h.execution.totalRemaining - g.execution.totalRemaining
         <= g.execution.evidenceGrant * (h.creditGrants - g.creditGrants)

LEMMA NoGrantNoGain ==
  ASSUME NEW grant \in Nat, NEW n \in Nat
  PROVE  grant * (n - n) = 0
OBVIOUS

LEMMA SpendingKeeps ==
  ASSUME NEW g, Sound(g), NEW h, h.goalId = g.goalId, h.index = g.index,
         h.creditedEvidence = g.creditedEvidence, h.creditGrants = g.creditGrants,
         h.execution.lifetimeRequests >= g.execution.lifetimeRequests,
         h.execution.totalRemaining \in Nat,
         h.execution.totalRemaining <= g.execution.totalRemaining
  PROVE  Keeps(g, h)
<1>1. g.execution.evidenceGrant * (h.creditGrants - g.creditGrants) = 0
  BY SoundTypes, FieldTypes, NoGrantNoGain
<1>2. h.execution.totalRemaining - g.execution.totalRemaining <= 0
  BY SoundTypes, FieldTypes
<1>3. h.index >= g.index
  BY SoundTypes
<1> QED
  BY <1>1, <1>2, <1>3 DEF Keeps

LEMMA SameBooksKeep ==
  ASSUME NEW g, Sound(g), NEW h, SameBooks(g, h)
  PROVE  Keeps(g, h)
<1>1. /\ h.execution.lifetimeRequests >= g.execution.lifetimeRequests
      /\ h.execution.totalRemaining \in Nat
      /\ h.execution.totalRemaining <= g.execution.totalRemaining
  BY SoundTypes, FieldTypes DEF SameBooks
<1> QED
  BY <1>1, SpendingKeeps DEF SameBooks

(* Moves of status and memory leave the books alone.                       *)
LEMMA BooksLeftAlone ==
  ASSUME NEW g, Sound(g)
  PROVE  /\ SameBooks(g, PauseGoal(g)) /\ SameBooks(g, BlockGoal(g))
         /\ SameBooks(g, ResumeGoal(g)) /\ SameBooks(g, PauseForExhaustion(g))
         /\ SameBooks(g, RestoreBranchGoal(g))
         /\ \A notes \in Notes \cup {EmptyNotes} : SameBooks(g, WriteMemory(g, notes))
<1>0. g \in GoalRecord
  BY SoundTypes
<1>1. SameBooks(g, PauseGoal(g)) /\ SameBooks(g, BlockGoal(g)) /\ SameBooks(g, ResumeGoal(g))
  BY <1>0 DEF GoalRecord, PauseGoal, BlockGoal, ResumeGoal, SameBooks
<1>2. SameBooks(g, PauseForExhaustion(g))
  BY <1>0 DEF GoalRecord, PauseForExhaustion, PauseGoal, SameBooks
<1>3. SameBooks(g, RestoreBranchGoal(g))
  BY <1>0 DEF GoalRecord, RestoreBranchGoal, SameBooks
<1>4. ASSUME NEW notes \in Notes \cup {EmptyNotes}
      PROVE  SameBooks(g, WriteMemory(g, notes))
  BY <1>0 DEF GoalRecord, WriteMemory, SameBooks
<1> QED
  BY <1>1, <1>2, <1>3, <1>4

LEMMA WithExecutionKeeps ==
  ASSUME NEW g, Sound(g), NEW e \in ExecutionRecord,
         e.lifetimeRequests >= g.execution.lifetimeRequests,
         e.totalRemaining <= g.execution.totalRemaining
  PROVE  Keeps(g, WithExecution(g, e))
<1> DEFINE h == WithExecution(g, e)
<1>1. /\ h.goalId = g.goalId /\ h.index = g.index /\ h.execution = e
      /\ h.creditedEvidence = g.creditedEvidence /\ h.creditGrants = g.creditGrants
  BY SoundTypes DEF GoalRecord, WithExecution
<1> HIDE DEF h
<1> QED
  BY <1>1, FieldTypes, SpendingKeeps DEF h

LEMMA ResumeKeeps ==
  ASSUME NEW g, Sound(g), CanResume(g)
  PROVE  Keeps(g, ApplyResumeGrant(ResumeGoal(g)))
<1> DEFINE e == ResumeGrant(g.execution)
           h == ApplyResumeGrant(ResumeGoal(g))
<1>1. /\ h.goalId = g.goalId /\ h.index = g.index /\ h.execution = e
      /\ h.creditedEvidence = g.creditedEvidence /\ h.creditGrants = g.creditGrants
  BY SoundTypes DEF GoalRecord, ResumeGoal, ApplyResumeGrant
<1>2. /\ e \in ExecutionRecord
      /\ e.lifetimeRequests = g.execution.lifetimeRequests
      /\ e.totalRemaining = g.execution.totalRemaining
  BY SoundTypes, ResumeGrantSpendsNoRequest DEF IsGoalExecution, SameSpending
<1> HIDE DEF e, h
<1>3. /\ h.execution.lifetimeRequests >= g.execution.lifetimeRequests
      /\ h.execution.totalRemaining \in Nat
      /\ h.execution.totalRemaining <= g.execution.totalRemaining
  BY <1>1, <1>2, SoundTypes, FieldTypes
<1> QED
  BY <1>1, <1>3, SpendingKeeps DEF h

LEMMA AcceptCompletionKeeps ==
  ASSUME NEW g, Sound(g), IsActive(g), NEW handoff \in Notes \cup {EmptyNotes}
  PROVE  Keeps(g, AcceptCompletion(g, handoff))
<1> DEFINE h == AcceptCompletion(g, handoff)
<1>1. g \in GoalRecord /\ g.status = "active"
  BY SoundTypes DEF IsActive
<1>2. CASE IsLastStage(g)
  <2>1. SameBooks(g, h)
    BY <1>1, <1>2 DEF AcceptCompletion, CompleteCurrentStage, GoalRecord, SameBooks
  <2> QED
    BY <2>1, SameBooksKeep
<1>3. CASE ~IsLastStage(g)
  <2>1. /\ h.goalId = g.goalId /\ h.index = g.index + 1
        /\ h.execution = NextStepExecution(g.execution)
        /\ h.creditedEvidence = g.creditedEvidence
    BY <1>1, <1>3 DEF AcceptCompletion, CompleteCurrentStage, GoalRecord
  <2> HIDE DEF h
  <2>2. h.execution.lifetimeRequests = g.execution.lifetimeRequests
    BY <2>1, SoundTypes, NextStepKeepsLifetime
  <2>3. h.index >= g.index /\ h.index # g.index
    BY <2>1, SoundTypes
  <2>4. h.execution.lifetimeRequests >= g.execution.lifetimeRequests
    BY <2>2, SoundTypes, FieldTypes
  <2> QED
    BY <2>1, <2>3, <2>4 DEF Keeps, h
<1> QED
  BY <1>2, <1>3

LEMMA CreditKeeps ==
  ASSUME NEW g, Sound(g), NEW refs \in SUBSET Evidence, NEW h \in CreditOutcomes(g, refs)
  PROVE  Keeps(g, h)
<1> DEFINE novel == NovelKeys(g, refs)
<1>1. PICK fresh \in SUBSET novel : h = CreditKeys(g, fresh)
  BY DEF CreditOutcomes
<1>2. CASE fresh = {}
  BY <1>1, <1>2, SameBooksKeep DEF CreditKeys, SameBooks
<1>3. CASE fresh # {}
  <2> DEFINE n == Cardinality(fresh)
             e == RenewForEvidence(g.execution, n)
  <2>1. n \in Nat
    <3>1. fresh \in SUBSET Evidence
      BY DEF NovelKeys
    <3> QED
      BY <3>1, EvidenceAssumption, FS_Subset, FS_CardinalityType
  <2>2. /\ h.goalId = g.goalId /\ h.index = g.index /\ h.execution = e
        /\ h.creditedEvidence = g.creditedEvidence \cup fresh
        /\ h.creditGrants = g.creditGrants + n
    BY <1>1, <1>3, SoundTypes DEF CreditKeys, GoalRecord
  <2> HIDE DEF n
  <2>3. /\ e \in ExecutionRecord
        /\ e.lifetimeRequests = g.execution.lifetimeRequests
        /\ e.totalRemaining <= g.execution.totalRemaining + g.execution.evidenceGrant * n
    BY <2>1, SoundTypes, RenewalIsBounded DEF IsGoalExecution
  <2> HIDE DEF e
  <2>4. h.creditGrants - g.creditGrants = n
    BY <2>1, <2>2, SoundTypes
  <2> DEFINE paid == g.execution.evidenceGrant * n
  <2>5. paid \in Nat
    BY <2>1, SoundTypes, FieldTypes
  <2>6. e.totalRemaining <= g.execution.totalRemaining + paid
    BY <2>3
  <2>7. g.execution.evidenceGrant * (h.creditGrants - g.creditGrants) = paid
    BY <2>4
  <2> HIDE DEF paid
  <2>8. e.totalRemaining - g.execution.totalRemaining <= paid
    BY <2>3, <2>5, <2>6, SoundTypes, FieldTypes
  <2>9. h.index >= g.index /\ e.lifetimeRequests >= g.execution.lifetimeRequests
    BY <2>2, <2>3, SoundTypes, FieldTypes
  <2> QED
    BY <2>2, <2>7, <2>8, <2>9 DEF Keeps
<1> QED
  BY <1>2, <1>3

(* A pause or a note in the same step changes none of it.                  *)
LEMMA KeepsThenSameBooks ==
  ASSUME NEW g, NEW h, NEW k, Keeps(g, h), SameBooks(h, k)
  PROVE  Keeps(g, k)
BY DEF Keeps, SameBooks

LEMMA SettledBooks ==
  ASSUME NEW g, Sound(g), NEW h \in Settled(g)
  PROVE  SameBooks(g, h)
BY BooksLeftAlone DEF Settled, SameBooks

LEMMA CommitsKeeps ==
  ASSUME NEW g, Sound(g), Keeps(committed, g), Commits(g)
  PROVE  Keeps(committed, committed') /\ issued' = issued
<1>1. committed' \in Settled(g) /\ issued' = issued
  BY DEF Commits
<1>2. SameBooks(g, committed')
  BY <1>1, SettledBooks
<1> QED
  BY <1>1, <1>2, KeepsThenSameBooks

(* Whatever happens to a goal that stays, its accounts are kept; a goal    *)
(* that appears has a new id.                                              *)
LEMMA LedgerStepKeeps ==
  ASSUME LedgerInv, [LedgerNext]_ledgerVars
  PROVE  \/ committed' = NoGoal /\ issued' = issued
         \/ committed' = committed /\ issued' \in {issued, issued + 1}
         \/ committed # NoGoal /\ Keeps(committed, committed') /\ issued' = issued
         \/ committed'.goalId = issued + 1 /\ issued' = issued + 1
<1>0. committed # NoGoal => Sound(committed)
  BY DEF LedgerInv
<1>1. CASE Start
  <2>1. PICK steps \in 1..MaxSteps :
          committed' \in {committed} \cup Settled(NewGoal(issued + 1, steps, Limits))
    BY <1>1 DEF Start
  <2>2. issued + 1 \in Nat /\ issued' = issued + 1
    BY <1>1 DEF Start, LedgerInv
  <2> DEFINE g == NewGoal(issued + 1, steps, Limits)
  <2>3. Sound(g) /\ g.goalId = issued + 1
    BY <2>2, LedgerAssumption, NewGoalSound DEF NewGoal
  <2> HIDE DEF g
  <2>4. committed' \in Settled(g) => committed'.goalId = issued + 1
    BY <2>3, SettledBooks DEF SameBooks
  <2> QED
    BY <2>1, <2>2, <2>4 DEF g
<1>2. CASE Clear
  BY <1>2 DEF Clear
<1>3. CASE Pause
  <2>1. Sound(committed) /\ IsActive(committed) /\ Commits(PauseGoal(committed))
    BY <1>0, <1>3 DEF Pause, CanPause, IsActive
  <2> QED
    BY <1>3, <2>1, PauseSound, BooksLeftAlone, SameBooksKeep, CommitsKeeps, SoundTypes
<1>4. CASE ExhaustionPause
  <2>1. Sound(committed) /\ IsActive(committed) /\ Commits(PauseForExhaustion(committed))
    BY <1>0, <1>4 DEF ExhaustionPause, IsActive
  <2> QED
    BY <2>1, ExhaustionPauseSound, BooksLeftAlone, SameBooksKeep, CommitsKeeps, SoundTypes
<1>5. CASE Block
  <2>1. Sound(committed) /\ IsActive(committed) /\ Commits(BlockGoal(committed))
    BY <1>0, <1>5 DEF Block, CanBlock, IsActive
  <2> QED
    BY <2>1, BlockSound, BooksLeftAlone, SameBooksKeep, CommitsKeeps, SoundTypes
<1>6. CASE Resume
  <2>1. /\ Sound(committed) /\ CanResume(committed)
        /\ Commits(ApplyResumeGrant(ResumeGoal(committed)))
    BY <1>0, <1>6 DEF Resume, CanResume
  <2> QED
    BY <2>1, ResumeSound, ResumeKeeps, CommitsKeeps, SoundTypes
<1>7. CASE SpendRequest
  <2> DEFINE e == ChargeRequest(committed.execution)
  <2>1. /\ Sound(committed) /\ committed.status = "active" /\ ~Exhausted(committed.execution)
        /\ Commits(WithExecution(committed, e))
    BY <1>0, <1>7 DEF SpendRequest, IsActive
  <2>2. /\ IsGoalExecution(e) /\ e \in ExecutionRecord /\ SameLimits(committed.execution, e)
        /\ e.generation = committed.execution.generation
        /\ e.lifetimeRequests = committed.execution.lifetimeRequests + 1
        /\ e.totalRemaining = committed.execution.totalRemaining - 1
    BY <2>1, SoundTypes, ChargeRequestMovesOne DEF IsGoalExecution
  <2> HIDE DEF e
  <2>3. /\ e.lifetimeRequests + e.totalRemaining
             <= committed.execution.lifetimeRequests + committed.execution.totalRemaining
        /\ e.lifetimeRequests >= committed.execution.lifetimeRequests
        /\ e.totalRemaining <= committed.execution.totalRemaining
    BY <2>1, <2>2, SoundTypes, FieldTypes
  <2>4. Sound(WithExecution(committed, e))
    BY <2>1, <2>2, <2>3, WithExecutionSound
  <2>5. Keeps(committed, WithExecution(committed, e))
    BY <2>1, <2>2, <2>3, WithExecutionKeeps
  <2> QED
    BY <2>1, <2>4, <2>5, CommitsKeeps, SoundTypes
<1>8. CASE SpendContext
  <2> DEFINE e == ChargeContext(committed.execution)
  <2>1. Sound(committed) /\ Commits(WithExecution(committed, e))
    BY <1>0, <1>8 DEF SpendContext, IsActive
  <2>2. IsGoalExecution(e) /\ SameSpending(committed.execution, e)
    BY <2>1, SoundTypes, ChargeContextSpendsNoRequest
  <2> HIDE DEF e
  <2>3. Sound(WithExecution(committed, e))
    BY <2>1, <2>2, SameSpendingSound
  <2>4. e \in ExecutionRecord /\ e.lifetimeRequests >= committed.execution.lifetimeRequests
        /\ e.totalRemaining <= committed.execution.totalRemaining
    BY <2>1, <2>2, SoundTypes, FieldTypes DEF SameSpending, IsGoalExecution
  <2> QED
    BY <2>1, <2>3, <2>4, WithExecutionKeeps, CommitsKeeps, SoundTypes
<1>9. CASE BeginTurn
  <2> DEFINE e == BeginAgentTurn(committed.execution)
  <2>1. Sound(committed) /\ Commits(WithExecution(committed, e))
    BY <1>0, <1>9 DEF BeginTurn
  <2>2. IsGoalExecution(e) /\ SameSpending(committed.execution, e)
    BY <2>1, SoundTypes, BeginAgentTurnSpendsNoRequest
  <2> HIDE DEF e
  <2>3. Sound(WithExecution(committed, e))
    BY <2>1, <2>2, SameSpendingSound
  <2>4. e \in ExecutionRecord /\ e.lifetimeRequests >= committed.execution.lifetimeRequests
        /\ e.totalRemaining <= committed.execution.totalRemaining
    BY <2>1, <2>2, SoundTypes, FieldTypes DEF SameSpending, IsGoalExecution
  <2> QED
    BY <2>1, <2>3, <2>4, WithExecutionKeeps, CommitsKeeps, SoundTypes
<1>10. CASE Complete
  <2>1. PICK handoff \in {EmptyNotes} \cup Notes : Commits(AcceptCompletion(committed, handoff))
    BY <1>10 DEF Complete
  <2>2. Sound(committed) /\ IsActive(committed)
    BY <1>0, <1>10 DEF Complete, IsActive
  <2> QED
    BY <2>1, <2>2, AcceptCompletionSound, AcceptCompletionKeeps, CommitsKeeps, SoundTypes
<1>11. CASE Credit
  <2>1. PICK refs \in SUBSET Evidence : \E g \in CreditOutcomes(committed, refs) : Commits(g)
    BY <1>11 DEF Credit
  <2>2. PICK g \in CreditOutcomes(committed, refs) : Commits(g)
    BY <2>1
  <2>3. Sound(committed) /\ IsActive(committed)
    BY <1>0, <1>11 DEF Credit, IsActive
  <2> QED
    BY <2>2, <2>3, CreditSound, CreditKeeps, CommitsKeeps, SoundTypes
<1>12. CASE TakeNotes
  <2>1. PICK notes \in {EmptyNotes} \cup Notes, refs \in SUBSET Evidence :
          \E g \in IF IsActive(committed) THEN CreditOutcomes(committed, refs) ELSE {committed} :
            Commits(WriteMemory(g, notes))
    BY <1>12 DEF TakeNotes
  <2>2. PICK g \in IF IsActive(committed) THEN CreditOutcomes(committed, refs) ELSE {committed} :
          Commits(WriteMemory(g, notes))
    BY <2>1
  <2>3. Sound(committed)
    BY <1>0, <1>12 DEF TakeNotes
  <2>4. Sound(g) /\ Keeps(committed, g)
    <3>1. CASE IsActive(committed)
      BY <2>2, <2>3, <3>1, CreditSound, CreditKeeps
    <3>2. CASE ~IsActive(committed)
      BY <2>2, <2>3, <3>2, SameBooksKeep DEF SameBooks
    <3> QED
      BY <3>1, <3>2
  <2>5. Sound(WriteMemory(g, notes)) /\ SameBooks(g, WriteMemory(g, notes))
    BY <2>4, WriteMemorySound, BooksLeftAlone
  <2>6. Keeps(committed, WriteMemory(g, notes))
    BY <2>4, <2>5, KeepsThenSameBooks
  <2> QED
    BY <2>2, <2>3, <2>5, <2>6, CommitsKeeps, SoundTypes
<1>13. CASE Restore
  <2>1. CASE committed = NoGoal
    <3>1. RestoreBranchGoal(committed) = NoGoal /\ Settled(NoGoal) = {NoGoal}
      BY <2>1 DEF RestoreBranchGoal, Settled, IsActive
    <3> QED
      BY <1>13, <3>1 DEF Restore, Commits
  <2>2. CASE committed # NoGoal
    <3>1. Sound(committed) /\ Commits(RestoreBranchGoal(committed))
      BY <1>0, <1>13, <2>2 DEF Restore
    <3> QED
      BY <2>2, <3>1, RestoreSound, BooksLeftAlone, SameBooksKeep, CommitsKeeps
  <2> QED
    BY <2>1, <2>2
<1>14. CASE UNCHANGED ledgerVars
  BY <1>14 DEF ledgerVars
<1> QED
  BY <1>1, <1>2, <1>3, <1>4, <1>5, <1>6, <1>7, <1>8, <1>9, <1>10, <1>11, <1>12, <1>13, <1>14
     DEF LedgerNext

(* Ids are given out in order, so that a goal that appears is never taken  *)
(* for the one before it.                                                  *)
Numbered == committed # NoGoal => committed.goalId \in Nat /\ committed.goalId <= issued

LEMMA LedgerStepNumbers ==
  ASSUME LedgerInv, Numbered, [LedgerNext]_ledgerVars
  PROVE  Numbered'
<1>1. issued \in Nat
  BY DEF LedgerInv
<1>2. CASE committed' = NoGoal
  BY <1>2 DEF Numbered
<1>3. CASE committed' = committed /\ issued' \in {issued, issued + 1}
  BY <1>1, <1>3 DEF Numbered
<1>4. CASE committed # NoGoal /\ Keeps(committed, committed') /\ issued' = issued
  BY <1>4 DEF Numbered, Keeps
<1>5. CASE committed'.goalId = issued + 1 /\ issued' = issued + 1
  BY <1>1, <1>5 DEF Numbered
<1> QED
  BY <1>2, <1>3, <1>4, <1>5, LedgerStepKeeps

LEMMA SameGoalKeeps ==
  ASSUME LedgerInv, Numbered, [LedgerNext]_ledgerVars, SameGoalStep
  PROVE  Keeps(committed, committed')
<1>1. committed # NoGoal /\ committed' # NoGoal /\ committed'.goalId = committed.goalId
  BY DEF SameGoalStep
<1>2. Sound(committed) /\ issued \in Nat
  BY <1>1 DEF LedgerInv
<1>3. committed' = committed => Keeps(committed, committed')
  BY <1>2, SameBooksKeep DEF SameBooks
<1>4. committed'.goalId # issued + 1
  BY <1>1, <1>2 DEF Numbered
<1> QED
  BY <1>1, <1>3, <1>4, LedgerStepKeeps

(* While a goal lives, nothing takes back a lifetime request, a step or a  *)
(* credited reference: not a resume, a restore, the next step, nor a pause *)
(* (applyResumeGrant, nextStepExecution, restoreBranchGoal).               *)
THEOREM NoRefund ==
  LedgerSpec => NothingIsRefunded
<1>1. LedgerInit => Numbered
  BY DEF LedgerInit, Numbered
<1>2. LedgerInv /\ Numbered /\ [LedgerNext]_ledgerVars => Numbered'
  BY LedgerStepNumbers
<1>3. LedgerInv /\ Numbered /\ [LedgerNext]_ledgerVars
        => [SameGoalStep =>
              /\ committed'.execution.lifetimeRequests >= committed.execution.lifetimeRequests
              /\ committed'.index >= committed.index
              /\ committed.creditedEvidence \subseteq committed'.creditedEvidence]_ledgerVars
  BY SameGoalKeeps DEF Keeps
<1> QED
  BY <1>1, <1>2, <1>3, LedgerIsSound, PTL DEF LedgerSpec, NothingIsRefunded

(* The working total of a step grows only for new evidence, by at most one *)
(* grant per reference (creditVerifiedEvidence against every other writer).*)
THEOREM OnlyEvidenceRefills ==
  LedgerSpec => TotalGrowsOnlyForEvidence
<1>1. LedgerInit => Numbered
  BY DEF LedgerInit, Numbered
<1>2. LedgerInv /\ Numbered /\ [LedgerNext]_ledgerVars => Numbered'
  BY LedgerStepNumbers
<1>3. LedgerInv /\ Numbered /\ [LedgerNext]_ledgerVars
        => [(SameGoalStep /\ committed'.index = committed.index) =>
              committed'.execution.totalRemaining - committed.execution.totalRemaining
                <= committed.execution.evidenceGrant
                     * (committed'.creditGrants - committed.creditGrants)]_ledgerVars
  BY SameGoalKeeps DEF Keeps
<1> QED
  BY <1>1, <1>2, <1>3, LedgerIsSound, PTL DEF LedgerSpec, TotalGrowsOnlyForEvidence

=============================================================================
