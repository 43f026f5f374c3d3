------------------------ MODULE SnapshotUpgrade_proofs ------------------------
(***************************************************************************)
(* Theorems about a goal of an older build, read by this one: for any      *)
(* default limits, totals, evidence and numbers of goals and steps, what   *)
(* this build makes of it is readable, nothing the older build did is      *)
(* lost, and nothing it paid for is paid for again.                        *)
(***************************************************************************)
EXTENDS SnapshotUpgrade, GoalState_proofs, SequenceTheorems

-----------------------------------------------------------------------------
(* What an older build may have written.                                   *)

BareGoal ==
  [goalId : Nat, status : GoalStatus, index : Nat, stages : Seq(StageStatus)]

FullGoal(executions) ==
  [ goalId : Nat, status : GoalStatus, index : Nat, stages : Seq(StageStatus),
    memory : Memory, pauseReason : PauseReasons, execution : executions ]

ListedGoal ==
  [ goalId : Nat, status : GoalStatus, index : Nat, stages : Seq(StageStatus),
    memory : Memory, pauseReason : PauseReasons, execution : ExecutionRecord,
    creditedEvidence : Seq(Evidence) ]

PreSplitExecution ==
  [ generation : Nat, noProgressRemaining : Nat, totalRemaining : Nat,
    lifetimeRequests : Nat, noProgressLimit : Positive, totalLimit : Positive ]

LegacyKeys == {LegacyKey(ref) : ref \in Evidence}

StepListExecution ==
  [ generation : Nat, noProgressRemaining : Nat, totalRemaining : Nat,
    turnRequests : Nat, lifetimeRequests : Nat, noProgressLimit : Positive,
    totalLimit : Positive, turnLimit : Positive, evidenceGrant : Positive,
    lifetimeCeiling : Positive, creditedEvidence : Seq(LegacyKeys) ]

(* The record this build reads out of one that kept its limits.            *)
Core(e) ==
  [ generation          |-> e.generation,
    noProgressRemaining |-> e.noProgressRemaining,
    totalRemaining      |-> e.totalRemaining,
    turnRequests        |-> e.turnRequests,
    lifetimeRequests    |-> e.lifetimeRequests,
    noProgressLimit     |-> e.noProgressLimit,
    totalLimit          |-> e.totalLimit,
    turnLimit           |-> e.turnLimit,
    evidenceGrant       |-> e.evidenceGrant,
    lifetimeCeiling     |-> e.lifetimeCeiling ]

(* And out of one that had a total and no other limit.                     *)
Filled(e) ==
  [ generation          |-> e.generation,
    noProgressRemaining |-> e.noProgressRemaining,
    totalRemaining      |-> e.totalRemaining,
    turnRequests        |-> 0,
    lifetimeRequests    |-> e.lifetimeRequests,
    noProgressLimit     |-> e.noProgressLimit,
    totalLimit          |-> e.totalLimit,
    turnLimit           |-> Least(DefaultLimits.turnLimit, e.totalLimit),
    evidenceGrant       |-> DefaultLimits.evidenceGrant,
    lifetimeCeiling     |-> Greatest(DefaultLimits.lifetimeCeiling, e.totalLimit) ]

(* No step but the current one is active, and that one is until the goal   *)
(* is complete.                                                            *)
StepsFit(stages, index, status) ==
  /\ index < Len(stages)
  /\ \A i \in DOMAIN stages : stages[i] = "active" => i = index + 1
  /\ status # "complete" => stages[index + 1] = "active"

Shaped(g) == StepsFit(g.stages, g.index, g.status)

PreSplitGoal(g) ==
  /\ g \in FullGoal(PreSplitExecution)
  /\ Shaped(g) /\ g.pauseReason = "none"
  /\ g.execution.noProgressRemaining <= g.execution.noProgressLimit
  /\ g.execution.totalRemaining <= g.execution.totalLimit

StepListGoal(g) ==
  /\ g \in FullGoal(StepListExecution)
  /\ Shaped(g) /\ g.pauseReason = "none"
  /\ IsGoalExecution(Core(g.execution))
  /\ Len(g.execution.creditedEvidence) <= LegacyMaxCredited

GoalListGoal(g) ==
  /\ g \in ListedGoal
  /\ Shaped(g) /\ g.pauseReason = "none"
  /\ IsGoalExecution(g.execution)
  /\ Len(g.creditedEvidence) <= MaxCreditedEvidence

OldGoalOf(b, g) ==
  /\ b = "v1" => g \in BareGoal /\ Shaped(g)
  /\ b = "preSplit" => PreSplitGoal(g)
  /\ b = "stepList" => StepListGoal(g)
  /\ b = "goalList" => GoalListGoal(g)

(* A list that is not full has forgotten nothing.                          *)
Remembers(list, bound, refs) == Len(list) < bound => refs \subseteq ToSet(list)

OldCredits(b, g, refs) ==
  /\ b \in {"v1", "preSplit"} => refs = {}
  /\ b = "stepList" =>
       Remembers(g.execution.creditedEvidence, LegacyMaxCredited, {LegacyKey(ref) : ref \in refs})
  /\ b = "goalList" => Remembers(g.creditedEvidence, MaxCreditedEvidence, refs)

-----------------------------------------------------------------------------
(* What this build has, once it has read one.                              *)

(* What the reader of a snapshot checks and the writers keep.  A goal of   *)
(* this build is Sound beyond that; one of an older build has credits that *)
(* nobody counted and any generation.                                      *)
Acceptable(g) ==
  /\ g \in GoalRecord
  /\ IsGoalExecution(g.execution)
  /\ Shaped(g)
  /\ g.status = "active" => g.pauseReason = "none"
  /\ Cardinality(g.creditedEvidence) <= MaxCreditedEvidence
  /\ g.creditGrants >= Cardinality(g.creditedEvidence)

Runs(g) == g.status \in {"active", "blocked"}

(* What was paid is on record, or nothing more will be.                    *)
PaysOnce(g, refs) ==
  refs \subseteq g.creditedEvidence \/ g.creditGrants >= CreditGrantCap(g.execution)

(* The goal is what reading the older build's last snapshot gives, unless  *)
(* the reader skipped it.                                                  *)
ReadBack ==
  old # NoGoal =>
    /\ build = "v1" => committed = MigrateV1Goal(old)
    /\ (build # "v1" /\ IsOldMultiGoal(old)) => committed = CloneGoal(old)

UpgradeInv ==
  /\ UpgradeTypeOK
  /\ committed # NoGoal =>
       /\ Acceptable(committed)
       /\ Runs(committed) => confirmed
       /\ PaysOnce(committed, paid)
  /\ build = "current" => old = NoGoal
  /\ old # NoGoal => OldGoalOf(build, old) /\ OldCredits(build, old, paid)
  /\ ReadBack

-----------------------------------------------------------------------------
(* The reader's record of an execution, field by field.                    *)

(* A total and no other limit: the defaults fit it.                        *)
LEMMA FilledIs ==
  ASSUME NEW e \in PreSplitExecution
  PROVE  NormalizeExecution(e) = Filled(e)
<1> DEFINE kept == Restrict(e, DOMAIN e \ {"creditedEvidence"})
           limits == OrderedLimits(e)
           names == {"generation", "noProgressRemaining", "totalRemaining",
                     "lifetimeRequests", "noProgressLimit", "totalLimit"}
<1>1. DOMAIN e = names
  BY DEF PreSplitExecution
<1>2. DOMAIN kept = names /\ \A f \in names : kept[f] = e[f]
  BY <1>1 DEF Restrict
<1>3. /\ DOMAIN limits = FillableLimits
      /\ limits["turnLimit"] = Least(DefaultLimits.turnLimit, e.totalLimit)
      /\ limits["evidenceGrant"] = DefaultLimits.evidenceGrant
      /\ limits["lifetimeCeiling"] = Greatest(DefaultLimits.lifetimeCeiling, e.totalLimit)
  BY <1>1 DEF OrderedLimits, FillableLimits, Restrict, FilledFrom
<1> HIDE DEF kept, limits
<1>4. NormalizeExecution(e) = FilledFrom(kept, FilledFrom([turnRequests |-> 0], limits))
  BY DEF NormalizeExecution, kept, limits
<1> QED
  BY <1>1, <1>2, <1>3, <1>4 DEF Filled, FilledFrom, FillableLimits

CoreNames ==
  {"generation", "noProgressRemaining", "totalRemaining", "turnRequests",
   "lifetimeRequests", "noProgressLimit", "totalLimit", "turnLimit",
   "evidenceGrant", "lifetimeCeiling"}

(* All limits present: none of them is touched.                            *)
LEMMA CoreIs ==
  ASSUME NEW e, DOMAIN e \ {"creditedEvidence"} = CoreNames
  PROVE  NormalizeExecution(e) = Core(e)
<1> DEFINE kept == Restrict(e, DOMAIN e \ {"creditedEvidence"})
           limits == OrderedLimits(e)
<1>1. DOMAIN kept = CoreNames /\ \A f \in CoreNames : kept[f] = e[f]
  BY DEF Restrict
<1>2. DOMAIN e \cap FillableLimits = FillableLimits
  BY DEF FillableLimits, CoreNames
<1>3. DOMAIN limits = FillableLimits /\ \A f \in FillableLimits : limits[f] = e[f]
  BY <1>2 DEF OrderedLimits, FillableLimits, Restrict, FilledFrom
<1> HIDE DEF kept, limits
<1>4. NormalizeExecution(e) = FilledFrom(kept, FilledFrom([turnRequests |-> 0], limits))
  BY DEF NormalizeExecution, kept, limits
<1> QED
  BY <1>1, <1>3, <1>4 DEF Core, CoreNames, FilledFrom, FillableLimits

LEMMA StepListIs ==
  ASSUME NEW e \in StepListExecution
  PROVE  /\ NormalizeExecution(e) = Core(e)
         /\ Core(e) \in ExecutionRecord
         /\ DOMAIN e = CoreNames \cup {"creditedEvidence"}
         /\ e.creditedEvidence \in Seq(LegacyKeys)
<1>1. DOMAIN e = CoreNames \cup {"creditedEvidence"}
  BY DEF StepListExecution, CoreNames
<1>2. DOMAIN e \ {"creditedEvidence"} = CoreNames
  BY <1>1 DEF CoreNames
<1>3. Core(e) \in ExecutionRecord
  BY DEF StepListExecution, Core, ExecutionRecord
<1>4. e.creditedEvidence \in Seq(LegacyKeys)
  BY DEF StepListExecution
<1> QED
  BY <1>1, <1>2, <1>3, <1>4, CoreIs

LEMMA CurrentIs ==
  ASSUME NEW e \in ExecutionRecord
  PROVE  NormalizeExecution(e) = e /\ Core(e) = e /\ DOMAIN e = CoreNames
<1>1. DOMAIN e = CoreNames /\ Core(e) = e
  BY DEF ExecutionRecord, Core, CoreNames
<1>2. DOMAIN e \ {"creditedEvidence"} = CoreNames
  BY <1>1 DEF CoreNames
<1> QED
  BY <1>1, <1>2, CoreIs

(* The defaults fit any total, so that only what was spent decides.        *)
LEMMA FilledIsReadable ==
  ASSUME NEW e \in PreSplitExecution,
         e.noProgressRemaining <= e.noProgressLimit, e.totalRemaining <= e.totalLimit
  PROVE  /\ Filled(e) \in ExecutionRecord
         /\ e.lifetimeRequests <= DefaultLimits.lifetimeCeiling => IsGoalExecution(Filled(e))
<1> DEFINE turn == Least(DefaultLimits.turnLimit, e.totalLimit)
           grant == DefaultLimits.evidenceGrant
           ceiling == Greatest(DefaultLimits.lifetimeCeiling, e.totalLimit)
<1>1. /\ e.generation \in Nat /\ e.noProgressRemaining \in Nat /\ e.totalRemaining \in Nat
      /\ e.lifetimeRequests \in Nat
      /\ e.noProgressLimit \in Positive /\ e.totalLimit \in Positive
  BY DEF PreSplitExecution
<1>2. DefaultLimits.lifetimeCeiling \in Positive /\ DefaultLimits.turnLimit \in Positive
      /\ grant \in Positive
  BY UpgradeAssumption DEF LimitSettings
<1>3. /\ turn \in Positive /\ turn <= e.totalLimit
      /\ ceiling \in Positive /\ e.totalLimit <= ceiling
      /\ DefaultLimits.lifetimeCeiling <= ceiling
  BY <1>1, <1>2 DEF Least, Greatest, Positive
<1> HIDE DEF turn, grant, ceiling
<1>4. Filled(e) = [ generation |-> e.generation, noProgressRemaining |-> e.noProgressRemaining,
                    totalRemaining |-> e.totalRemaining, turnRequests |-> 0,
                    lifetimeRequests |-> e.lifetimeRequests,
                    noProgressLimit |-> e.noProgressLimit, totalLimit |-> e.totalLimit,
                    turnLimit |-> turn, evidenceGrant |-> grant, lifetimeCeiling |-> ceiling ]
  BY DEF Filled, turn, grant, ceiling
<1>5. Filled(e) \in ExecutionRecord
  BY <1>1, <1>2, <1>3, <1>4 DEF ExecutionRecord
<1>6. ASSUME e.lifetimeRequests <= DefaultLimits.lifetimeCeiling
      PROVE  IsGoalExecution(Filled(e))
  <2>1. e.lifetimeRequests <= ceiling
    BY <1>1, <1>2, <1>3, <1>6 DEF Positive
  <2> QED
    BY <1>1, <1>3, <1>4, <1>5, <2>1 DEF IsGoalExecution, Positive
<1> QED
  BY <1>5, <1>6

-----------------------------------------------------------------------------
(* Sets of what a list holds.                                              *)

LEMMA ListCardinality ==
  ASSUME NEW S, NEW list \in Seq(S)
  PROVE  /\ ToSet(list) \subseteq S
         /\ IsFiniteSet(ToSet(list))
         /\ Cardinality(ToSet(list)) \in Nat
         /\ Cardinality(ToSet(list)) <= Len(list)
<1>1. Len(list) \in Nat /\ DOMAIN list = 1..Len(list) /\ \A i \in DOMAIN list : list[i] \in S
  BY LenProperties, ElementOfSeq
<1>2. list \in Surjection(1..Len(list), ToSet(list))
  BY <1>1 DEF ToSet, Surjection
<1>3. IsFiniteSet(1..Len(list)) /\ Cardinality(1..Len(list)) = Len(list)
  BY <1>1, FS_Interval
<1>4. IsFiniteSet(ToSet(list)) /\ Cardinality(ToSet(list)) <= Cardinality(1..Len(list))
  BY <1>2, <1>3, FS_Surjection
<1> QED
  BY <1>1, <1>3, <1>4, FS_CardinalityType DEF ToSet

(* What a list with a bound keeps of one more element.                     *)
LEMMA LastOfGrown ==
  ASSUME NEW S, NEW list \in Seq(S), NEW x \in S, NEW bound \in Nat \ {0},
         Len(list) <= bound
  PROVE  /\ LastOf(Append(list, x), bound) \in Seq(S)
         /\ Len(LastOf(Append(list, x), bound)) <= bound
         /\ Len(LastOf(Append(list, x), bound)) < bound =>
              /\ Len(list) < bound
              /\ ToSet(LastOf(Append(list, x), bound)) = ToSet(list) \cup {x}
<1> DEFINE grown == Append(list, x)
           n == Len(list)
<1>1. n \in Nat /\ grown \in Seq(S) /\ Len(grown) = n + 1
      /\ \A i \in 1..n : grown[i] = list[i]
      /\ grown[n + 1] = x /\ DOMAIN list = 1..n /\ DOMAIN grown = 1..(n + 1)
  BY LenProperties, AppendProperties
<1>2. CASE n < bound
  <2>1. Greatest(1, Len(grown) - bound + 1) = 1
    BY <1>1, <1>2 DEF Greatest
  <2>2. LastOf(grown, bound) = SubSeq(grown, 1, Len(grown))
    BY <2>1 DEF LastOf
  <2>3. LastOf(grown, bound) = grown
    BY <1>1, <2>2, SubSeqFull
  <2>4. ToSet(grown) = ToSet(list) \cup {x}
    BY <1>1 DEF ToSet
  <2> QED
    BY <1>1, <1>2, <2>3, <2>4
<1>3. CASE n = bound
  <2>1. Greatest(1, Len(grown) - bound + 1) = 2
    BY <1>1, <1>3 DEF Greatest
  <2>2. LastOf(grown, bound) = SubSeq(grown, 2, n + 1)
    BY <1>1, <2>1 DEF LastOf
  <2>3. SubSeq(grown, 2, n + 1) \in Seq(S) /\ Len(SubSeq(grown, 2, n + 1)) = n
    BY <1>1, <1>3, SubSeqProperties
  <2> QED
    BY <1>3, <2>2, <2>3
<1> QED
  BY <1>1, <1>2, <1>3

(* A list within its bound is taken over whole.                            *)
LEMMA LastOfWhole ==
  ASSUME NEW S, NEW list \in Seq(S), NEW bound \in Nat \ {0}, Len(list) <= bound
  PROVE  LastOf(list, bound) = list
<1>1. Len(list) \in Nat
  BY LenProperties
<1>2. Greatest(1, Len(list) - bound + 1) = 1
  BY <1>1 DEF Greatest
<1> QED
  BY <1>1, <1>2, SubSeqFull DEF LastOf

-----------------------------------------------------------------------------
(* What the reader makes of an older goal is acceptable.                   *)

LEMMA BuiltAcceptable ==
  ASSUME NEW id \in Nat, NEW st \in GoalStatus, NEW k \in Nat,
         NEW ss \in Seq(StageStatus), StepsFit(ss, k, st), NEW memory \in Memory,
         NEW e, IsGoalExecution(e),
         NEW reason \in PauseReasons, st = "active" => reason = "none",
         NEW ev \in SUBSET Evidence, NEW grants \in Nat,
         Cardinality(ev) <= MaxCreditedEvidence, grants >= Cardinality(ev),
         NEW g, g = [ goalId |-> id, status |-> st, index |-> k, stages |-> ss,
                      memory |-> memory, execution |-> e, pauseReason |-> reason,
                      creditedEvidence |-> ev, creditGrants |-> grants ]
  PROVE  Acceptable(g)
<1>1. e \in ExecutionRecord
  BY DEF IsGoalExecution
<1>2. g \in GoalRecord
  BY <1>1 DEF GoalRecord
<1> QED
  BY <1>2 DEF Acceptable, Shaped

LEMMA MigratedAcceptable ==
  ASSUME NEW g \in BareGoal, Shaped(g)
  PROVE  Acceptable(MigrateV1Goal(g)) /\ ~Runs(MigrateV1Goal(g))
<1> DEFINE st == IF g.status = "complete" THEN "complete" ELSE "paused"
           reason == IF g.status = "complete" THEN "none" ELSE "migrated"
           e == FreshExecution(DefaultLimits)
<1>1. /\ g.goalId \in Nat /\ g.index \in Nat /\ g.stages \in Seq(StageStatus)
      /\ g.status \in GoalStatus
  BY DEF BareGoal
<1>2. /\ st \in GoalStatus /\ reason \in PauseReasons /\ st # "active"
      /\ st \notin {"active", "blocked"}
      /\ EmptyMemory \in Memory
  BY DEF GoalStatus, PauseReasons, EmptyMemory, Memory
<1>3. StepsFit(g.stages, g.index, st)
  BY DEF Shaped, StepsFit
<1>4. IsGoalExecution(e)
  BY UpgradeAssumption, FreshIsReadable
<1>5. /\ Cardinality({}) <= MaxCreditedEvidence /\ 0 >= Cardinality({})
      /\ {} \in SUBSET Evidence /\ 0 \in Nat
  BY FS_EmptySet, CreditBoundsAssumption
<1> DEFINE m == MigrateV1Goal(g)
<1>6. m = [ goalId |-> g.goalId, status |-> st, index |-> g.index, stages |-> g.stages,
            memory |-> EmptyMemory, execution |-> e, pauseReason |-> reason,
            creditedEvidence |-> {}, creditGrants |-> 0 ]
  BY DEF MigrateV1Goal
<1> HIDE DEF st, reason, e, m
<1>7. Acceptable(m)
  <2>1. st = "active" => reason = "none"
    BY <1>2
  <2> QED
    BY <1>1, <1>2, <1>3, <1>4, <1>5, <1>6, <2>1, BuiltAcceptable
<1>8. m.status = st
  BY <1>6
<1> QED
  BY <1>2, <1>7, <1>8 DEF Runs, m

(* The fields that every older build but the first has.                    *)
LEMMA FullFields ==
  ASSUME NEW executions, NEW g \in FullGoal(executions)
  PROVE  /\ g.goalId \in Nat /\ g.status \in GoalStatus /\ g.index \in Nat
         /\ g.stages \in Seq(StageStatus) /\ g.memory \in Memory
         /\ g.pauseReason \in PauseReasons /\ g.execution \in executions
         /\ DOMAIN g = {"goalId", "status", "index", "stages", "memory", "pauseReason", "execution"}
         /\ "creditedEvidence" \notin DOMAIN g
BY DEF FullGoal

LEMMA ListedFields ==
  ASSUME NEW g \in ListedGoal
  PROVE  /\ g.goalId \in Nat /\ g.status \in GoalStatus /\ g.index \in Nat
         /\ g.stages \in Seq(StageStatus) /\ g.memory \in Memory
         /\ g.pauseReason \in PauseReasons /\ g.execution \in ExecutionRecord
         /\ g.creditedEvidence \in Seq(Evidence)
         /\ "creditedEvidence" \in DOMAIN g
BY DEF ListedGoal

(* Whatever the list, its elements are counted at least once each; and a   *)
(* full one leaves nothing of the cap.                                     *)
LEMMA GrantsCoverTheList ==
  ASSUME NEW list \in Seq(Evidence), NEW e \in ExecutionRecord, NEW bound \in Nat \ {0},
         Len(list) <= bound, bound <= MaxCreditedEvidence,
         NEW grants,
         grants = IF Len(list) >= bound THEN Greatest(CreditGrantCap(e), Len(list)) ELSE Len(list)
  PROVE  /\ grants \in Nat
         /\ grants >= Cardinality(ToSet(list))
         /\ ToSet(list) \subseteq Evidence
         /\ Cardinality(ToSet(list)) <= MaxCreditedEvidence
         /\ Len(list) < bound \/ grants >= CreditGrantCap(e)
<1> DEFINE n == Len(list)
           cap == CreditGrantCap(e)
           card == Cardinality(ToSet(list))
<1>1. n \in Nat /\ cap \in Int /\ card \in Nat /\ card <= n /\ ToSet(list) \subseteq Evidence
      /\ MaxCreditedEvidence \in Nat
  BY LenProperties, ListCardinality, CapIsBelowTheRecord, CreditBoundsAssumption
<1> HIDE DEF n, cap, card
<1>2. grants = IF n >= bound THEN Greatest(cap, n) ELSE n
  BY DEF n, cap
<1>3. n <= bound
  BY DEF n
<1>4. grants \in Nat /\ grants >= n /\ (n < bound \/ grants >= cap)
  BY <1>1, <1>2, <1>3 DEF Greatest
<1>5. card <= MaxCreditedEvidence /\ grants >= card
  BY <1>1, <1>3, <1>4
<1> QED
  BY <1>1, <1>4, <1>5 DEF n, cap, card

LEMMA CloneIs ==
  ASSUME NEW g, NEW e, NormalizeExecution(g.execution) = e, IsGoalExecution(e),
         g.goalId \in Nat, g.status \in GoalStatus, g.index \in Nat,
         g.stages \in Seq(StageStatus), g.memory \in Memory,
         Shaped(g), g.pauseReason = "none",
         NEW list \in Seq(Evidence), MigrateCreditedEvidence(g) = list,
         NEW bound \in Nat \ {0}, Len(list) <= bound, bound <= MaxCreditedEvidence,
         bound = IF "creditedEvidence" \in DOMAIN g THEN MaxCreditedEvidence
                 ELSE LegacyMaxCredited
  PROVE  /\ Acceptable(CloneGoal(g))
         /\ \A refs : Remembers(list, bound, refs) => PaysOnce(CloneGoal(g), refs)
<1> DEFINE grants == MigrateCreditGrants(g, e)
           h == CloneGoal(g)
<1>1. grants = IF Len(list) >= bound THEN Greatest(CreditGrantCap(e), Len(list)) ELSE Len(list)
  BY DEF MigrateCreditGrants
<1>2. e \in ExecutionRecord
  BY DEF IsGoalExecution
<1>3. /\ grants \in Nat
      /\ grants >= Cardinality(ToSet(list))
      /\ ToSet(list) \in SUBSET Evidence
      /\ Cardinality(ToSet(list)) <= MaxCreditedEvidence
      /\ Len(list) < bound \/ grants >= CreditGrantCap(e)
  BY <1>1, <1>2, GrantsCoverTheList
<1>4. h = [ goalId |-> g.goalId, status |-> g.status, index |-> g.index, stages |-> g.stages,
            memory |-> g.memory, execution |-> e, pauseReason |-> g.pauseReason,
            creditedEvidence |-> ToSet(list), creditGrants |-> grants ]
  BY DEF CloneGoal
<1> HIDE DEF grants, h
<1>5. g.pauseReason \in PauseReasons /\ StepsFit(g.stages, g.index, g.status)
  BY DEF PauseReasons, Shaped
<1>6. Acceptable(h)
  BY <1>3, <1>4, <1>5, BuiltAcceptable
<1>7. h.creditedEvidence = ToSet(list) /\ h.creditGrants = grants /\ h.execution = e
  BY <1>4
<1>8. ASSUME NEW refs, Remembers(list, bound, refs) PROVE PaysOnce(h, refs)
  BY <1>3, <1>7, <1>8 DEF Remembers, PaysOnce
<1> QED
  BY <1>6, <1>8 DEF h

(* A goal whose build had no list: nothing to take over.                   *)
LEMMA PreSplitRead ==
  ASSUME NEW g, PreSplitGoal(g)
  PROVE  /\ IsOldMultiGoal(g) => Acceptable(CloneGoal(g))
         /\ g.execution.lifetimeRequests <= DefaultLimits.lifetimeCeiling => IsOldMultiGoal(g)
<1> DEFINE e == g.execution
<1>1. /\ g.goalId \in Nat /\ g.status \in GoalStatus /\ g.index \in Nat
      /\ g.stages \in Seq(StageStatus) /\ g.memory \in Memory
      /\ g.execution \in PreSplitExecution
      /\ "creditedEvidence" \notin DOMAIN g
  BY FullFields DEF PreSplitGoal
<1>2. "creditedEvidence" \notin DOMAIN e
  BY <1>1 DEF PreSplitExecution
<1>3. NormalizeExecution(e) = Filled(e)
  BY <1>1, FilledIs
<1>4. e.lifetimeRequests <= DefaultLimits.lifetimeCeiling => IsGoalExecution(Filled(e))
  BY <1>1, FilledIsReadable DEF PreSplitGoal
<1>5. LegacyList(g) = <<>> /\ OwnList(g) = <<>>
  BY <1>1, <1>2 DEF LegacyList, OwnList
<1>6. /\ LegacyMaxCredited \in Nat \ {0} /\ LegacyMaxCredited <= MaxCreditedEvidence
      /\ MaxCreditedEvidence \in Nat
      /\ <<>> \in Seq(Evidence) /\ Len(<<>>) = 0 /\ DOMAIN <<>> = {}
  BY UpgradeAssumption, CreditBoundsAssumption
<1>7. LastOf(<<>>, LegacyMaxCredited) = <<>>
  <2>1. Len(<<>>) <= LegacyMaxCredited
    BY <1>6
  <2> QED
    BY <1>6, <2>1, LastOfWhole
<1>8. MigrateCreditedEvidence(g) = <<>>
  BY <1>1, <1>5, <1>6, <1>7 DEF MigrateCreditedEvidence
<1>9. ASSUME IsOldMultiGoal(g) PROVE Acceptable(CloneGoal(g))
  <2>1. IsGoalExecution(NormalizeExecution(e))
    BY <1>9 DEF IsOldMultiGoal
  <2>2. Len(<<>>) <= LegacyMaxCredited
    BY <1>6
  <2> HIDE DEF e
  <2> QED
    BY <1>1, <1>6, <1>8, <2>1, <2>2, CloneIs DEF PreSplitGoal, e
<1>10. ASSUME e.lifetimeRequests <= DefaultLimits.lifetimeCeiling PROVE IsOldMultiGoal(g)
  <2>1. IsGoalExecution(NormalizeExecution(e))
    BY <1>3, <1>4, <1>10
  <2>2. Len(LegacyList(g)) <= LegacyMaxCredited /\ Len(OwnList(g)) <= MaxCreditedEvidence
    BY <1>5, <1>6
  <2> QED
    BY <2>1, <2>2 DEF IsOldMultiGoal, PreSplitGoal, Shaped, StepsFit, StageCount, CurrentStatus
<1> QED
  BY <1>9, <1>10

(* A goal whose step kept the list: the keys become digests.               *)
LEMMA StepListRead ==
  ASSUME NEW g, StepListGoal(g)
  PROVE  /\ IsOldMultiGoal(g)
         /\ Acceptable(CloneGoal(g))
         /\ \A refs : OldCredits("stepList", g, refs) => PaysOnce(CloneGoal(g), refs)
<1> DEFINE e == g.execution
           keys == e.creditedEvidence
           list == [i \in DOMAIN keys |-> CreditKeyDigest(keys[i])]
<1>1. /\ g.goalId \in Nat /\ g.status \in GoalStatus /\ g.index \in Nat
      /\ g.stages \in Seq(StageStatus) /\ g.memory \in Memory
      /\ g.execution \in StepListExecution
      /\ "creditedEvidence" \notin DOMAIN g
  BY FullFields DEF StepListGoal
<1>2. /\ NormalizeExecution(e) = Core(e) /\ "creditedEvidence" \in DOMAIN e
      /\ keys \in Seq(LegacyKeys) /\ IsGoalExecution(Core(e))
      /\ Len(keys) <= LegacyMaxCredited
  BY <1>1, StepListIs DEF StepListGoal
<1>3. LegacyList(g) = keys /\ OwnList(g) = <<>>
  BY <1>1, <1>2 DEF LegacyList, OwnList
<1>4. /\ LegacyMaxCredited \in Nat \ {0} /\ LegacyMaxCredited <= MaxCreditedEvidence
      /\ MaxCreditedEvidence \in Nat /\ Len(<<>>) = 0
  BY UpgradeAssumption, CreditBoundsAssumption
<1>5. \A ref : CreditKeyDigest(LegacyKey(ref)) = ref
  BY DEF CreditKeyDigest, LegacyKey
<1>6. \A i \in DOMAIN keys : CreditKeyDigest(keys[i]) \in Evidence /\ keys[i] = LegacyKey(CreditKeyDigest(keys[i]))
  BY <1>2, <1>5, ElementOfSeq DEF LegacyKeys
<1>7. list \in Seq(Evidence) /\ Len(list) = Len(keys) /\ DOMAIN list = DOMAIN keys
  <2>1. DOMAIN keys = 1..Len(keys) /\ Len(keys) \in Nat
    BY <1>2, LenProperties
  <2> QED
    BY <1>6, <2>1, IsASeq
<1>8. MigrateCreditedEvidence(g) = list
  BY <1>1, <1>2, <1>3, <1>4, LastOfWhole DEF MigrateCreditedEvidence
<1>9. IsOldMultiGoal(g)
  BY <1>2, <1>3, <1>4 DEF IsOldMultiGoal, StepListGoal, Shaped, StepsFit, StageCount, CurrentStatus
<1>10. ASSUME NEW refs, OldCredits("stepList", g, refs)
       PROVE  Remembers(list, LegacyMaxCredited, refs)
  <2> SUFFICES ASSUME Len(keys) < LegacyMaxCredited, NEW ref \in refs PROVE ref \in ToSet(list)
    BY <1>7 DEF Remembers
  <2>1. LegacyKey(ref) \in ToSet(keys)
    BY <1>10 DEF OldCredits, Remembers
  <2>2. PICK i \in DOMAIN keys : keys[i] = LegacyKey(ref)
    BY <2>1 DEF ToSet
  <2>3. list[i] = ref /\ i \in DOMAIN list
    BY <1>5, <1>7, <2>2
  <2> QED
    BY <2>3 DEF ToSet
<1>11. /\ Acceptable(CloneGoal(g))
       /\ \A refs : Remembers(list, LegacyMaxCredited, refs) => PaysOnce(CloneGoal(g), refs)
  <2> HIDE DEF list, keys, e
  <2>1. Len(list) <= LegacyMaxCredited
    BY <1>2, <1>7
  <2>2. Shaped(g) /\ g.pauseReason = "none"
    BY DEF StepListGoal
  <2>3. NormalizeExecution(g.execution) = Core(e)
    BY <1>2 DEF e
  <2> QED
    BY <1>1, <1>2, <1>4, <1>7, <1>8, <2>1, <2>2, <2>3, CloneIs
<1> QED
  BY <1>9, <1>10, <1>11

(* A goal that kept the list itself.                                       *)
LEMMA GoalListRead ==
  ASSUME NEW g, GoalListGoal(g)
  PROVE  /\ IsOldMultiGoal(g)
         /\ Acceptable(CloneGoal(g))
         /\ \A refs : OldCredits("goalList", g, refs) => PaysOnce(CloneGoal(g), refs)
<1> DEFINE e == g.execution
           list == g.creditedEvidence
<1>1. /\ g.goalId \in Nat /\ g.status \in GoalStatus /\ g.index \in Nat
      /\ g.stages \in Seq(StageStatus) /\ g.memory \in Memory
      /\ e \in ExecutionRecord /\ list \in Seq(Evidence)
      /\ "creditedEvidence" \in DOMAIN g
      /\ Shaped(g) /\ g.pauseReason = "none"
      /\ IsGoalExecution(e) /\ Len(list) <= MaxCreditedEvidence
  BY ListedFields DEF GoalListGoal
<1>2. NormalizeExecution(e) = e /\ "creditedEvidence" \notin DOMAIN e
  BY <1>1, CurrentIs DEF CoreNames
<1>3. LegacyList(g) = <<>> /\ OwnList(g) = list
  BY <1>1, <1>2 DEF LegacyList, OwnList
<1>4. MaxCreditedEvidence \in Nat \ {0} /\ LegacyMaxCredited \in Nat /\ Len(<<>>) = 0
  BY UpgradeAssumption, CreditBoundsAssumption
<1>5. MigrateCreditedEvidence(g) = list
  BY <1>1, <1>3 DEF MigrateCreditedEvidence
<1>6. IsOldMultiGoal(g)
  BY <1>1, <1>2, <1>3, <1>4 DEF IsOldMultiGoal, Shaped, StepsFit, StageCount, CurrentStatus
<1>7. /\ Acceptable(CloneGoal(g))
      /\ \A refs : Remembers(list, MaxCreditedEvidence, refs) => PaysOnce(CloneGoal(g), refs)
  <2> HIDE DEF list, e
  <2>1. NormalizeExecution(g.execution) = e
    BY <1>2 DEF e
  <2> QED
    BY <1>1, <1>4, <1>5, <2>1, CloneIs
<1> QED
  BY <1>6, <1>7 DEF OldCredits

-----------------------------------------------------------------------------
(* What the steps of this build make of it.                                *)

LEMMA AcceptableTypes ==
  ASSUME NEW g, Acceptable(g)
  PROVE  /\ g \in GoalRecord /\ g # NoGoal
         /\ g.execution \in ExecutionRecord /\ IsGoalExecution(g.execution)
         /\ g.index \in Nat /\ g.creditGrants \in Nat /\ g.stages \in Seq(StageStatus)
         /\ g.status \in GoalStatus /\ g.creditedEvidence \in SUBSET Evidence
         /\ IsFiniteSet(g.creditedEvidence) /\ Cardinality(g.creditedEvidence) \in Nat
         /\ g.index < Len(g.stages) /\ Len(g.stages) \in Nat
         /\ CreditGrantCap(g.execution) \in Int
         /\ CreditGrantCap(g.execution) < MaxCreditedEvidence
<1>1. /\ g \in GoalRecord /\ g # NoGoal
      /\ g.execution \in ExecutionRecord /\ IsGoalExecution(g.execution)
      /\ g.index \in Nat /\ g.creditGrants \in Nat /\ g.stages \in Seq(StageStatus)
      /\ g.status \in GoalStatus /\ g.creditedEvidence \in SUBSET Evidence
      /\ g.index < Len(g.stages)
  BY NoGoalAssumption DEF Acceptable, GoalRecord, Shaped, StepsFit
<1>2. IsFiniteSet(g.creditedEvidence)
  BY <1>1, EvidenceAssumption, FS_Subset
<1> QED
  BY <1>1, <1>2, FS_CardinalityType, CapIsBelowTheRecord, LenProperties

LEMMA AcceptableIsReadable ==
  ASSUME NEW g, Acceptable(g)
  PROVE  IsMultiGoal(g)
BY DEF Acceptable, Shaped, StepsFit, IsMultiGoal, StageCount, CurrentStatus

(* The goal goes on: nothing credited is forgotten, the cap stays where it *)
(* was, and what is added was below it.                                    *)
Advances(g, h) ==
  /\ Acceptable(h)
  /\ g.creditedEvidence \subseteq h.creditedEvidence
  /\ g.creditGrants <= h.creditGrants
  /\ CreditGrantCap(h.execution) = CreditGrantCap(g.execution)
  /\ h.creditedEvidence = g.creditedEvidence \/ g.creditGrants < CreditGrantCap(g.execution)

LEMMA AdvancesKeepsPaid ==
  ASSUME NEW g, Acceptable(g), NEW h, Advances(g, h), NEW refs, PaysOnce(g, refs)
  PROVE  /\ PaysOnce(h, refs)
         /\ (h.creditedEvidence \ g.creditedEvidence) \cap refs = {}
<1>1. h.creditGrants \in Nat /\ g.creditGrants \in Nat /\ CreditGrantCap(g.execution) \in Int
  BY AcceptableTypes DEF Advances
<1> QED
  BY <1>1 DEF Advances, PaysOnce

(* A goal rewritten in fields that credit nothing.                         *)
LEMMA SameCreditsAdvance ==
  ASSUME NEW g, Acceptable(g), NEW h, h \in GoalRecord,
         IsGoalExecution(h.execution),
         h.execution.lifetimeCeiling = g.execution.lifetimeCeiling,
         Shaped(h), h.status = "active" => h.pauseReason = "none",
         h.creditedEvidence = g.creditedEvidence, h.creditGrants = g.creditGrants
  PROVE  Advances(g, h)
<1>1. CreditGrantCap(h.execution) = CreditGrantCap(g.execution)
  BY DEF CreditGrantCap
<1>2. Acceptable(h)
  BY DEF Acceptable
<1> QED
  BY <1>1, <1>2, AcceptableTypes DEF Advances

LEMMA StaysAdvance ==
  ASSUME NEW g, Acceptable(g)
  PROVE  Advances(g, g)
BY AcceptableTypes DEF Advances

LEMMA AdvancesOn ==
  ASSUME NEW g, Acceptable(g), NEW h, Advances(g, h), NEW k, Advances(h, k),
         k.creditedEvidence = h.creditedEvidence
  PROVE  Advances(g, k)
<1>1. g.creditGrants \in Nat /\ h.creditGrants \in Nat /\ k.creditGrants \in Nat
  BY AcceptableTypes DEF Advances
<1> QED
  BY <1>1 DEF Advances

LEMMA StatusMoveAdvances ==
  ASSUME NEW g, Acceptable(g), NEW st \in {"active", "paused", "blocked"},
         NEW reason \in PauseReasons,
         g.status # "complete",
         st = "active" => reason = "none",
         NEW h, h = [g EXCEPT !.status = st, !.pauseReason = reason]
  PROVE  Advances(g, h) /\ h.status = st /\ h.execution = g.execution
<1>1. /\ h.status = st /\ h.pauseReason = reason /\ h.index = g.index
      /\ h.stages = g.stages /\ h.execution = g.execution
      /\ h.creditedEvidence = g.creditedEvidence /\ h.creditGrants = g.creditGrants
  BY AcceptableTypes DEF GoalRecord
<1>2. h \in GoalRecord
  BY AcceptableTypes DEF GoalRecord, GoalStatus
<1>3. Shaped(h)
  BY <1>1 DEF Acceptable, Shaped, StepsFit
<1> QED
  BY <1>1, <1>2, <1>3, AcceptableTypes, SameCreditsAdvance

LEMMA WithExecutionAdvances ==
  ASSUME NEW g, Acceptable(g), NEW e, IsGoalExecution(e),
         e.lifetimeCeiling = g.execution.lifetimeCeiling
  PROVE  /\ Advances(g, WithExecution(g, e))
         /\ WithExecution(g, e).status = g.status
         /\ WithExecution(g, e).execution = e
         /\ WithExecution(g, e).creditedEvidence = g.creditedEvidence
<1> DEFINE h == WithExecution(g, e)
<1>1. e \in ExecutionRecord
  BY DEF IsGoalExecution
<1>2. /\ h.status = g.status /\ h.pauseReason = g.pauseReason /\ h.index = g.index
      /\ h.stages = g.stages /\ h.execution = e
      /\ h.creditedEvidence = g.creditedEvidence /\ h.creditGrants = g.creditGrants
  BY AcceptableTypes DEF GoalRecord, WithExecution
<1>3. h \in GoalRecord
  BY <1>1, AcceptableTypes DEF GoalRecord, WithExecution
<1> HIDE DEF h
<1>4. Shaped(h) /\ (h.status = "active" => h.pauseReason = "none")
  BY <1>2 DEF Acceptable, Shaped, StepsFit
<1>5. Advances(g, h)
  BY <1>2, <1>3, <1>4, SameCreditsAdvance
<1> QED
  BY <1>2, <1>5 DEF h

LEMMA PausedAdvances ==
  ASSUME NEW g, Acceptable(g), g.status # "complete", NEW reason \in PauseReasons,
         NEW h, h = [g EXCEPT !.status = "paused", !.pauseReason = reason]
  PROVE  Advances(g, h) /\ h.status = "paused"
<1>1. "paused" \in {"active", "paused", "blocked"} /\ "paused" # "active"
  OBVIOUS
<1> QED
  BY <1>1, StatusMoveAdvances, Zenon

LEMMA PauseAdvances ==
  ASSUME NEW g, Acceptable(g), IsActive(g)
  PROVE  Advances(g, PauseGoal(g)) /\ ~Runs(PauseGoal(g))
<1>1. g.status = "active" /\ g.pauseReason = "none" /\ g \in GoalRecord
  BY AcceptableTypes DEF IsActive, Acceptable
<1>2. PauseGoal(g) = [g EXCEPT !.status = "paused", !.pauseReason = "none"]
  BY <1>1 DEF PauseGoal, GoalRecord
<1>3. "none" \in PauseReasons /\ g.status # "complete"
  BY <1>1 DEF PauseReasons
<1>4. Advances(g, PauseGoal(g)) /\ PauseGoal(g).status = "paused"
  BY <1>2, <1>3, PausedAdvances
<1> QED
  BY <1>4 DEF Runs

LEMMA BlockAdvances ==
  ASSUME NEW g, Acceptable(g), IsActive(g)
  PROVE  Advances(g, BlockGoal(g))
<1>1. g.status = "active" /\ g.pauseReason = "none" /\ g \in GoalRecord
  BY AcceptableTypes DEF IsActive, Acceptable
<1>2. BlockGoal(g) = [g EXCEPT !.status = "blocked", !.pauseReason = "none"]
  BY <1>1 DEF BlockGoal, GoalRecord
<1> QED
  BY <1>1, <1>2, StatusMoveAdvances DEF PauseReasons

LEMMA RestoreAdvances ==
  ASSUME NEW g, Acceptable(g)
  PROVE  /\ Advances(g, RestoreBranchGoal(g))
         /\ Runs(RestoreBranchGoal(g)) => Runs(g)
<1>1. CASE IsActive(g)
  <2> DEFINE h == [g EXCEPT !.status = "paused", !.pauseReason = "restored"]
  <2>1. RestoreBranchGoal(g) = h
    BY <1>1 DEF RestoreBranchGoal
  <2>2. g.status = "active"
    BY <1>1 DEF IsActive
  <2> HIDE DEF h
  <2>3. Advances(g, h) /\ h.status = "paused"
    <3>1. "restored" \in PauseReasons /\ g.status # "complete"
      BY <2>2 DEF PauseReasons
    <3>2. h = [g EXCEPT !.status = "paused", !.pauseReason = "restored"]
      BY DEF h
    <3> QED
      BY <3>1, <3>2, PausedAdvances
  <2> QED
    BY <2>1, <2>3 DEF Runs
<1>2. CASE ~IsActive(g)
  BY <1>2, StaysAdvance DEF RestoreBranchGoal
<1> QED
  BY <1>1, <1>2

LEMMA ExhaustionPauseAdvances ==
  ASSUME NEW g, Acceptable(g), IsActive(g)
  PROVE  /\ Advances(g, PauseForExhaustion(g))
         /\ PauseForExhaustion(g).creditedEvidence = g.creditedEvidence
         /\ ~Runs(PauseForExhaustion(g))
<1> DEFINE reason == AllowanceExhaustion(g.execution)
           h == [g EXCEPT !.status = "paused", !.pauseReason = reason]
<1>1. g.status = "active" /\ g \in GoalRecord /\ IsGoalExecution(g.execution)
  BY AcceptableTypes DEF IsActive
<1>2. PauseForExhaustion(g) = h
  BY DEF PauseForExhaustion, PauseGoal
<1>3. reason \in PauseReasons
  BY <1>1, ReasonIsHardestFirst
<1> HIDE DEF reason
<1>4. h.creditedEvidence = g.creditedEvidence
  BY <1>1 DEF GoalRecord
<1> HIDE DEF h
<1>5. h = [g EXCEPT !.status = "paused", !.pauseReason = reason] /\ g.status # "complete"
  BY <1>1 DEF h
<1>6. Advances(g, h) /\ h.status = "paused"
  BY <1>3, <1>5, PausedAdvances
<1> QED
  BY <1>2, <1>4, <1>6 DEF Runs

LEMMA ResumeAdvances ==
  ASSUME NEW g, Acceptable(g), CanResume(g)
  PROVE  Advances(g, ApplyResumeGrant(ResumeGoal(g)))
<1> DEFINE h == ResumeGoal(g)
           e == ResumeGrant(h.execution)
<1>1. g.status # "complete" /\ g \in GoalRecord
  BY AcceptableTypes DEF CanResume
<1>2. Advances(g, h) /\ Acceptable(h)
  <2>1. h = [g EXCEPT !.status = "active", !.pauseReason = "none"]
    BY DEF ResumeGoal
  <2>2. "active" \in {"active", "paused", "blocked"} /\ "none" \in PauseReasons
    BY DEF PauseReasons
  <2> HIDE DEF h
  <2>3. Advances(g, h)
    BY <1>1, <2>1, <2>2, StatusMoveAdvances
  <2> QED
    BY <2>3 DEF Advances
<1> HIDE DEF h
<1>3. IsGoalExecution(e) /\ e.lifetimeCeiling = h.execution.lifetimeCeiling
  BY <1>2, AcceptableTypes, ResumeGrantSpendsNoRequest DEF SameSpending, SameLimits
<1>4. ApplyResumeGrant(h) = WithExecution(h, e)
  BY DEF ApplyResumeGrant, WithExecution
<1> HIDE DEF e
<1>5. /\ Advances(h, WithExecution(h, e))
      /\ WithExecution(h, e).creditedEvidence = h.creditedEvidence
  BY <1>2, <1>3, WithExecutionAdvances
<1>6. Advances(g, WithExecution(h, e))
  BY <1>2, <1>5, AdvancesOn
<1> QED
  BY <1>4, <1>6 DEF h

-----------------------------------------------------------------------------
(* The completion of a step, whichever build does it.                      *)

LastMarked(ss, k) == [ss EXCEPT ![k + 1] = "complete"]

NextMarked(ss, k) == [LastMarked(ss, k) EXCEPT ![k + 2] = "active"]

LEMMA LastMarkedFits ==
  ASSUME NEW ss \in Seq(StageStatus), NEW k \in Nat, StepsFit(ss, k, "active")
  PROVE  LastMarked(ss, k) \in Seq(StageStatus) /\ StepsFit(LastMarked(ss, k), k, "complete")
<1> DEFINE n == k + 1
           m == [ss EXCEPT ![n] = "complete"]
<1>1. n \in 1..Len(ss) /\ Len(ss) \in Nat /\ DOMAIN ss = 1..Len(ss) /\ "complete" \in StageStatus
  BY LenProperties DEF StepsFit, StageStatus
<1>2. LastMarked(ss, k) = m
  BY DEF LastMarked
<1> HIDE DEF n
<1>3. /\ m \in Seq(StageStatus) /\ Len(m) = Len(ss) /\ DOMAIN m = DOMAIN ss
      /\ m[n] = "complete" /\ \A i \in DOMAIN ss : i # n => m[i] = ss[i]
  BY <1>1, Marked
<1> HIDE DEF m
<1>4. \A i \in DOMAIN ss : ss[i] = "active" => i = n
  BY DEF StepsFit, n
<1>5. \A i \in DOMAIN m : m[i] = "active" => i = k + 1
  BY <1>3, <1>4
<1>6. k < Len(m)
  BY <1>3 DEF StepsFit
<1> QED
  BY <1>2, <1>3, <1>5, <1>6 DEF StepsFit

LEMMA NextMarkedFits ==
  ASSUME NEW ss \in Seq(StageStatus), NEW k \in Nat, StepsFit(ss, k, "active"),
         k < Len(ss) - 1
  PROVE  NextMarked(ss, k) \in Seq(StageStatus) /\ StepsFit(NextMarked(ss, k), k + 1, "active")
<1> DEFINE n == k + 2
           m == LastMarked(ss, k)
           p == [m EXCEPT ![n] = "active"]
<1>1. /\ m \in Seq(StageStatus)
      /\ \A i \in DOMAIN m : m[i] # "active"
      /\ Len(m) = Len(ss) /\ Len(ss) \in Nat
  <2>1. Len(m) = Len(ss) /\ Len(ss) \in Nat
    BY LenProperties, ExceptSeq DEF LastMarked, StageStatus
  <2>2. m \in Seq(StageStatus) /\ \A i \in DOMAIN m : m[i] = "active" => i = k + 1
    BY LastMarkedFits DEF StepsFit
  <2>3. m[k + 1] = "complete"
    BY LenProperties, ExceptSeq DEF LastMarked, StageStatus, StepsFit
  <2> QED
    BY <2>1, <2>2, <2>3
<1>2. NextMarked(ss, k) = p
  BY DEF NextMarked
<1> HIDE DEF m
<1>3. n \in 1..Len(m) /\ "active" \in StageStatus /\ n = (k + 1) + 1
  BY <1>1 DEF StageStatus
<1> HIDE DEF n
<1>4. /\ p \in Seq(StageStatus) /\ Len(p) = Len(m) /\ DOMAIN p = DOMAIN m
      /\ p[n] = "active" /\ \A i \in DOMAIN m : i # n => p[i] = m[i]
  BY <1>1, <1>3, Marked
<1> HIDE DEF p
<1>5. \A i \in DOMAIN p : p[i] = "active" => i = (k + 1) + 1
  BY <1>1, <1>3, <1>4
<1>6. k + 1 < Len(p)
  BY <1>1, <1>4
<1>7. p[(k + 1) + 1] = "active"
  BY <1>3, <1>4
<1> QED
  BY <1>2, <1>4, <1>5, <1>6, <1>7 DEF StepsFit

LEMMA LastStepAdvances ==
  ASSUME NEW g, Acceptable(g), IsActive(g), IsLastStage(g)
  PROVE  Advances(g, [CompleteCurrentStage(g) EXCEPT !.memory = EmptyMemory, !.pauseReason = "none"])
<1> DEFINE marked == LastMarked(g.stages, g.index)
           h == [CompleteCurrentStage(g) EXCEPT !.memory = EmptyMemory, !.pauseReason = "none"]
<1>1. h = [g EXCEPT !.stages = marked, !.status = "complete",
                    !.memory = EmptyMemory, !.pauseReason = "none"]
  BY AcceptableTypes DEF CompleteCurrentStage, GoalRecord, LastMarked
<1>2. marked \in Seq(StageStatus) /\ StepsFit(marked, g.index, "complete")
  BY AcceptableTypes, LastMarkedFits DEF Acceptable, Shaped, IsActive
<1> HIDE DEF h, marked
<1>3. /\ h.status = "complete" /\ h.pauseReason = "none" /\ h.index = g.index
      /\ h.stages = marked /\ h.execution = g.execution
      /\ h.creditedEvidence = g.creditedEvidence /\ h.creditGrants = g.creditGrants
  BY <1>1, AcceptableTypes DEF GoalRecord
<1>4. h \in GoalRecord
  <2>1. EmptyMemory \in Memory
    BY DEF EmptyMemory, Memory
  <2>2. "complete" \in GoalStatus /\ "none" \in PauseReasons
    BY DEF GoalStatus, PauseReasons
  <2> QED
    BY <1>1, <1>2, <2>1, <2>2, AcceptableTypes, RewrittenLast
<1>5. Shaped(h)
  BY <1>2, <1>3 DEF Shaped
<1>6. IsGoalExecution(h.execution) /\ h.execution.lifetimeCeiling = g.execution.lifetimeCeiling
  BY <1>3, AcceptableTypes
<1>7. Advances(g, h)
  BY <1>3, <1>4, <1>5, <1>6, SameCreditsAdvance
<1> QED
  BY <1>7 DEF h

LEMMA NextStepAdvances ==
  ASSUME NEW g, Acceptable(g), IsActive(g), ~IsLastStage(g),
         NEW handoff \in Notes \cup {EmptyNotes}
  PROVE  Advances(g, [CompleteCurrentStage(g) EXCEPT
                        !.memory = [revision |-> 0, notes |-> handoff],
                        !.execution = NextStepExecution(@),
                        !.pauseReason = "none"])
<1> DEFINE k == g.index + 1
           e == NextStepExecution(g.execution)
           marked == NextMarked(g.stages, g.index)
           memory == [revision |-> 0, notes |-> handoff]
           h == [CompleteCurrentStage(g) EXCEPT
                   !.memory = memory,
                   !.execution = NextStepExecution(@),
                   !.pauseReason = "none"]
<1>1. h = [g EXCEPT !.stages = marked, !.index = k, !.execution = e,
                    !.memory = memory, !.pauseReason = "none"]
  BY AcceptableTypes DEF CompleteCurrentStage, GoalRecord, NextMarked, LastMarked
<1>2. marked \in Seq(StageStatus) /\ StepsFit(marked, k, "active") /\ k \in Nat
  <2>1. g.index < Len(g.stages) - 1
    BY AcceptableTypes DEF IsLastStage, StageCount
  <2> QED
    BY <2>1, AcceptableTypes, NextMarkedFits DEF Acceptable, Shaped, IsActive
<1>3. /\ IsGoalExecution(e) /\ e.lifetimeCeiling = g.execution.lifetimeCeiling
      /\ e \in ExecutionRecord
  BY AcceptableTypes, NextStepKeepsLifetime DEF IsGoalExecution, SameLimits
<1>4. memory \in Memory /\ "none" \in PauseReasons
  BY DEF Memory, PauseReasons
<1> HIDE DEF h, marked, e, k, memory
<1>5. /\ h.status = g.status /\ h.pauseReason = "none" /\ h.index = k
      /\ h.stages = marked /\ h.execution = e
      /\ h.creditedEvidence = g.creditedEvidence /\ h.creditGrants = g.creditGrants
  BY <1>1, AcceptableTypes DEF GoalRecord
<1>6. h \in GoalRecord
  BY <1>1, <1>2, <1>3, <1>4, AcceptableTypes, RewrittenNext
<1>7. Shaped(h)
  BY <1>2, <1>5 DEF Shaped, IsActive
<1>8. Advances(g, h)
  BY <1>3, <1>5, <1>6, <1>7, SameCreditsAdvance
<1> QED
  BY <1>8 DEF h, memory

LEMMA AcceptCompletionAdvances ==
  ASSUME NEW g, Acceptable(g), IsActive(g), NEW handoff \in Notes \cup {EmptyNotes}
  PROVE  Advances(g, AcceptCompletion(g, handoff))
<1>1. g \in GoalRecord /\ g.status = "active"
  BY AcceptableTypes DEF IsActive
<1>2. CASE IsLastStage(g)
  <2>1. CompleteCurrentStage(g).status = "complete"
    BY <1>1, <1>2 DEF CompleteCurrentStage, GoalRecord
  <2> QED
    BY <1>2, <2>1, LastStepAdvances DEF AcceptCompletion
<1>3. CASE ~IsLastStage(g)
  <2>1. CompleteCurrentStage(g).status = "active"
    BY <1>1, <1>3 DEF CompleteCurrentStage, GoalRecord
  <2> QED
    BY <1>3, <2>1, NextStepAdvances DEF AcceptCompletion
<1> QED
  BY <1>2, <1>3

-----------------------------------------------------------------------------
(* Credits of this build, on top of those taken over.                      *)

LEMMA CreditKeysAdvances ==
  ASSUME NEW g, Acceptable(g), NEW fresh \in SUBSET (Evidence \ g.creditedEvidence),
         Cardinality(fresh) <= GrantsLeft(g)
  PROVE  Advances(g, CreditKeys(g, fresh))
<1> DEFINE n == Cardinality(fresh)
           ev == g.creditedEvidence \cup fresh
           e == RenewForEvidence(g.execution, n)
           h == [g EXCEPT !.creditedEvidence = ev, !.creditGrants = g.creditGrants + n,
                          !.execution = e]
           cap == CreditGrantCap(g.execution)
           card == Cardinality(g.creditedEvidence)
<1>1. CASE fresh = {}
  BY <1>1, StaysAdvance DEF CreditKeys
<1>2. CASE fresh # {}
  <2>1. n \in Nat /\ n > 0 /\ ev \in SUBSET Evidence /\ Cardinality(ev) = card + n
    <3>1. IsFiniteSet(fresh) /\ IsFiniteSet(g.creditedEvidence)
          /\ g.creditedEvidence \in SUBSET Evidence
      BY EvidenceAssumption, FS_Subset, AcceptableTypes
    <3>2. g.creditedEvidence \cap fresh = {}
      OBVIOUS
    <3>3. card \in Nat /\ n \in Nat /\ Cardinality(g.creditedEvidence \cap fresh) = 0 /\ n # 0
      BY <1>2, <3>1, <3>2, FS_CardinalityType, FS_EmptySet
    <3>4. Cardinality(ev) = card + n - Cardinality(g.creditedEvidence \cap fresh)
      BY <3>1, FS_Union
    <3> QED
      BY <3>1, <3>3, <3>4
  <2>2. CreditKeys(g, fresh) = h
    BY <1>2 DEF CreditKeys
  <2>3. n <= Greatest(0, cap - g.creditGrants)
    BY DEF GrantsLeft
  <2> HIDE DEF n, ev, cap, card
  <2>4. /\ IsGoalExecution(e) /\ e \in ExecutionRecord
        /\ e.lifetimeCeiling = g.execution.lifetimeCeiling
    BY <2>1, AcceptableTypes, RenewalIsBounded DEF IsGoalExecution, SameLimits
  <2> HIDE DEF e
  <2>5. /\ g.creditGrants \in Nat /\ card \in Nat /\ g.creditGrants >= card
        /\ cap \in Int /\ cap < MaxCreditedEvidence /\ MaxCreditedEvidence \in Nat
    BY AcceptableTypes, CreditBoundsAssumption DEF Acceptable, card, cap
  <2>6. /\ g.creditGrants + n \in Nat /\ g.creditGrants + n <= cap /\ g.creditGrants < cap
        /\ card + n <= MaxCreditedEvidence /\ g.creditGrants + n >= card + n
        /\ g.creditGrants <= g.creditGrants + n
    BY <2>1, <2>3, <2>5 DEF Greatest
  <2>7. h \in GoalRecord
    BY <2>1, <2>4, <2>6, AcceptableTypes, RewrittenCredit
  <2>8. /\ h.status = g.status /\ h.pauseReason = g.pauseReason /\ h.index = g.index
        /\ h.stages = g.stages /\ h.execution = e
        /\ h.creditedEvidence = ev /\ h.creditGrants = g.creditGrants + n
    BY AcceptableTypes DEF GoalRecord
  <2> HIDE DEF h
  <2>9. Acceptable(h)
    <3>1. Shaped(h) /\ (h.status = "active" => h.pauseReason = "none")
      BY <2>8 DEF Acceptable, Shaped, StepsFit
    <3> QED
      BY <2>1, <2>4, <2>6, <2>7, <2>8, <3>1 DEF Acceptable
  <2>10. CreditGrantCap(h.execution) = cap
    BY <2>4, <2>8 DEF CreditGrantCap, cap
  <2>11. g.creditedEvidence \subseteq h.creditedEvidence
    BY <2>8 DEF ev
  <2>12. Advances(g, h)
    BY <2>6, <2>8, <2>9, <2>10, <2>11 DEF Advances, cap
  <2> QED
    BY <2>2, <2>12
<1> QED
  BY <1>1, <1>2

LEMMA CreditAdvances ==
  ASSUME NEW g, Acceptable(g), NEW refs \in SUBSET Evidence, NEW h \in CreditOutcomes(g, refs)
  PROVE  Advances(g, h)
<1> DEFINE novel == NovelKeys(g, refs)
<1>1. PICK fresh \in SUBSET novel :
         /\ Cardinality(fresh) = Least(Cardinality(novel), GrantsLeft(g))
         /\ h = CreditKeys(g, fresh)
  BY DEF CreditOutcomes
<1>2. novel \in SUBSET (Evidence \ g.creditedEvidence)
  BY DEF NovelKeys
<1>3. Cardinality(novel) \in Nat /\ GrantsLeft(g) \in Int
  <2>1. IsFiniteSet(novel)
    BY <1>2, EvidenceAssumption, FS_Subset
  <2> QED
    BY <2>1, FS_CardinalityType, AcceptableTypes DEF GrantsLeft, Greatest
<1>4. Cardinality(fresh) <= GrantsLeft(g)
  BY <1>1, <1>3 DEF Least
<1> QED
  BY <1>1, <1>2, <1>4, CreditKeysAdvances

LEMMA SettledAdvances ==
  ASSUME NEW g, Acceptable(g), NEW h, Advances(g, h), NEW k \in Settled(h)
  PROVE  Advances(g, k) /\ (Runs(k) => Runs(h))
<1>1. Acceptable(h)
  BY DEF Advances
<1>2. CASE k = h
  BY <1>2
<1>3. CASE IsActive(h) /\ k = PauseForExhaustion(h)
  <2>1. Advances(h, k) /\ k.creditedEvidence = h.creditedEvidence /\ ~Runs(k)
    BY <1>1, <1>3, ExhaustionPauseAdvances
  <2> QED
    BY <1>1, <2>1, AdvancesOn
<1> QED
  BY <1>2, <1>3 DEF Settled

-----------------------------------------------------------------------------
(* The steps of this build.                                                *)

LEMMA SoundIsAcceptable ==
  ASSUME NEW g, Sound(g)
  PROVE  Acceptable(g)
<1>1. IsMultiGoal(g)
  BY SoundIsReadable
<1>2. Shaped(g)
  BY <1>1 DEF IsMultiGoal, Shaped, StepsFit, Sound, WellShaped
<1> QED
  BY <1>1, <1>2 DEF IsMultiGoal, Acceptable, Sound, WellShaped

(* A goal of this build, after the first step of it.                       *)
LEMMA NewGoalAcceptable ==
  ASSUME NEW id \in Nat, NEW steps \in 1..MaxSteps,
         NEW g \in Settled(NewGoal(id, steps, Limits))
  PROVE  Acceptable(g)
<1> DEFINE h == NewGoal(id, steps, Limits)
<1>1. steps \in Nat /\ steps > 0 /\ Limits \in LimitSettings
  BY LedgerAssumption
<1>2. Acceptable(h)
  BY <1>1, NewGoalSound, SoundIsAcceptable
<1> HIDE DEF h
<1>3. Advances(h, g)
  <2>1. Advances(h, h)
    BY <1>2, StaysAdvance
  <2>2. g \in Settled(h)
    BY DEF h
  <2> QED
    BY <1>2, <2>1, <2>2, SettledAdvances
<1> QED
  BY <1>3 DEF Advances

(* What a step of the record does to the goal that is there.               *)
GoesOn ==
  /\ issued' = issued
  /\ \/ committed' = committed
     \/ committed' = NoGoal
     \/ /\ committed # NoGoal
        /\ Advances(committed, committed')
        /\ Runs(committed') => Runs(committed)

LEMMA RecordGoesOn ==
  ASSUME UpgradeInv,
         \/ Clear \/ Pause \/ ExhaustionPause \/ Block
         \/ SpendRequest \/ BeginTurn \/ Complete \/ Credit \/ Restore
  PROVE  GoesOn
<1> DEFINE g == committed
<1>1. g # NoGoal => Acceptable(g)
  BY DEF UpgradeInv
<1>2. IsActive(g) => g # NoGoal /\ Runs(g)
  BY DEF IsActive, Runs
<1>3. ASSUME NEW k, Commits(k), g # NoGoal, Advances(g, k), Runs(k) => Runs(g)
      PROVE  GoesOn
  <2>1. Advances(g, committed') /\ (Runs(committed') => Runs(k))
    BY <1>1, <1>3, SettledAdvances DEF Commits
  <2> QED
    BY <1>3, <2>1 DEF GoesOn, Commits
<1>4. CASE Clear
  BY <1>4 DEF Clear, GoesOn
<1>5. CASE Pause
  BY <1>1, <1>2, <1>3, <1>5, PauseAdvances DEF Pause, CanPause
<1>6. CASE ExhaustionPause
  BY <1>1, <1>2, <1>3, <1>6, ExhaustionPauseAdvances DEF ExhaustionPause
<1>7. CASE Block
  BY <1>1, <1>2, <1>3, <1>7, BlockAdvances DEF Block, CanBlock
<1>8. CASE SpendRequest
  <2> DEFINE e == ChargeRequest(g.execution)
  <2>1. g # NoGoal /\ Acceptable(g) /\ Commits(WithExecution(g, e)) /\ ~Exhausted(g.execution)
    BY <1>1, <1>2, <1>8 DEF SpendRequest
  <2>2. IsGoalExecution(e) /\ e.lifetimeCeiling = g.execution.lifetimeCeiling
    BY <2>1, AcceptableTypes, ChargeRequestMovesOne DEF SameLimits
  <2> HIDE DEF e
  <2>3. Advances(g, WithExecution(g, e)) /\ WithExecution(g, e).status = g.status
    BY <2>1, <2>2, WithExecutionAdvances
  <2> QED
    BY <1>3, <2>1, <2>3 DEF Runs
<1>9. CASE BeginTurn
  <2> DEFINE e == BeginAgentTurn(g.execution)
  <2>1. g # NoGoal /\ Acceptable(g) /\ Commits(WithExecution(g, e))
    BY <1>1, <1>9 DEF BeginTurn
  <2>2. IsGoalExecution(e) /\ e.lifetimeCeiling = g.execution.lifetimeCeiling
    BY <2>1, AcceptableTypes, BeginAgentTurnSpendsNoRequest DEF SameSpending, SameLimits
  <2> HIDE DEF e
  <2>3. Advances(g, WithExecution(g, e)) /\ WithExecution(g, e).status = g.status
    BY <2>1, <2>2, WithExecutionAdvances
  <2> QED
    BY <1>3, <2>1, <2>3 DEF Runs
<1>10. CASE Complete
  <2>1. PICK handoff \in {EmptyNotes} \cup Notes : Commits(AcceptCompletion(g, handoff))
    BY <1>10 DEF Complete
  <2>2. g # NoGoal /\ IsActive(g) /\ Acceptable(g) /\ Runs(g)
    BY <1>1, <1>2, <1>10 DEF Complete
  <2>3. Advances(g, AcceptCompletion(g, handoff))
    BY <2>2, AcceptCompletionAdvances
  <2> QED
    BY <1>3, <2>1, <2>2, <2>3
<1>11. CASE Credit
  <2>1. PICK refs \in SUBSET Evidence : \E h \in CreditOutcomes(g, refs) : Commits(h)
    BY <1>11 DEF Credit
  <2>2. PICK h \in CreditOutcomes(g, refs) : Commits(h)
    BY <2>1
  <2>3. g # NoGoal /\ Acceptable(g) /\ Runs(g)
    BY <1>1, <1>2, <1>11 DEF Credit
  <2>4. Advances(g, h)
    BY <2>2, <2>3, CreditAdvances
  <2> QED
    BY <1>3, <2>2, <2>3, <2>4
<1>12. CASE Restore
  <2>1. CASE g = NoGoal
    <3>1. RestoreBranchGoal(g) = g /\ Settled(g) = {g}
      BY <2>1 DEF RestoreBranchGoal, Settled, IsActive
    <3> QED
      BY <1>12, <3>1 DEF Restore, Commits, GoesOn
  <2>2. CASE g # NoGoal
    BY <1>1, <1>3, <1>12, <2>2, RestoreAdvances DEF Restore
  <2> QED
    BY <2>1, <2>2
<1> QED
  BY <1>4, <1>5, <1>6, <1>7, <1>8, <1>9, <1>10, <1>11, <1>12

LEMMA GoesOnInv ==
  ASSUME UpgradeInv, build = "current", UNCHANGED <<build, old, paid, confirmed>>, GoesOn
  PROVE  UpgradeInv'
<1>1. old' = NoGoal /\ UpgradeTypeOK /\ committed' \in GoalRecord \cup {NoGoal}
  <2>1. committed \in GoalRecord \cup {NoGoal}
    BY DEF UpgradeInv, UpgradeTypeOK, LedgerTypeOK
  <2> QED
    BY <2>1 DEF UpgradeInv, GoesOn, Advances, Acceptable
<1>2. UpgradeTypeOK'
  BY <1>1 DEF UpgradeTypeOK, LedgerTypeOK, GoesOn
<1>3. (committed # NoGoal =>
         /\ Acceptable(committed)
         /\ Runs(committed) => confirmed
         /\ PaysOnce(committed, paid))'
  <2>1. CASE committed' = committed
    BY <2>1 DEF UpgradeInv
  <2>2. CASE committed' = NoGoal
    BY <2>2
  <2>3. CASE committed # NoGoal /\ Advances(committed, committed') /\ (Runs(committed') => Runs(committed))
    <3>1. Acceptable(committed) /\ (Runs(committed) => confirmed) /\ PaysOnce(committed, paid)
      BY <2>3 DEF UpgradeInv
    <3>2. PaysOnce(committed', paid)
      BY <2>3, <3>1, AdvancesKeepsPaid
    <3> QED
      BY <2>3, <3>1, <3>2 DEF Advances
  <2> QED
    BY <2>1, <2>2, <2>3 DEF GoesOn
<1> QED
  BY <1>1, <1>2, <1>3 DEF UpgradeInv, ReadBack

LEMMA ResumesInv ==
  ASSUME UpgradeInv, GoalResumes
  PROVE  /\ UpgradeInv'
         /\ committed # NoGoal /\ Advances(committed, committed')
<1> DEFINE k == ApplyResumeGrant(ResumeGoal(committed))
<1>1. /\ committed # NoGoal /\ Acceptable(committed) /\ CanResume(committed)
      /\ PaysOnce(committed, paid)
      /\ confirmed /\ Commits(k) /\ build = "current" /\ UNCHANGED <<build, old, paid, confirmed>>
  BY DEF GoalResumes, MayResume, Moves, Resume, CanResume, UpgradeInv
<1>2. Advances(committed, k)
  BY <1>1, ResumeAdvances
<1> HIDE DEF k
<1>3. Advances(committed, committed')
  BY <1>1, <1>2, SettledAdvances DEF Commits
<1>4. PaysOnce(committed', paid) /\ Acceptable(committed')
  BY <1>1, <1>3, AdvancesKeepsPaid DEF Advances
<1>5. old' = NoGoal
  BY <1>1 DEF UpgradeInv
<1>6. UpgradeTypeOK'
  BY <1>1, <1>4 DEF UpgradeInv, UpgradeTypeOK, LedgerTypeOK, Commits, Acceptable
<1> QED
  BY <1>1, <1>3, <1>4, <1>5, <1>6 DEF UpgradeInv, ReadBack

LEMMA NewGoalStartsInv ==
  ASSUME UpgradeInv, NewGoalStarts
  PROVE  UpgradeInv'
<1>1. /\ build = "current" /\ UNCHANGED <<build, old>> /\ issued' = issued + 1
      /\ confirmed' = (confirmed \/ committed' # committed)
      /\ paid' = IF committed' # committed THEN {} ELSE paid
  BY DEF NewGoalStarts, Start
<1>2. PICK steps \in 1..MaxSteps :
        committed' \in {committed} \cup Settled(NewGoal(issued + 1, steps, Limits))
  BY DEF NewGoalStarts, Start
<1>3. issued \in Nat /\ issued + 1 \in Nat /\ confirmed \in BOOLEAN /\ paid \subseteq Evidence
      /\ committed \in GoalRecord \cup {NoGoal} /\ old' = NoGoal
  BY <1>1 DEF UpgradeInv, UpgradeTypeOK, LedgerTypeOK
<1>4. CASE committed' = committed
  <2>1. UpgradeTypeOK'
    BY <1>1, <1>3, <1>4 DEF UpgradeInv, UpgradeTypeOK, LedgerTypeOK
  <2> QED
    BY <1>1, <1>3, <1>4, <2>1 DEF UpgradeInv, ReadBack
<1>5. CASE committed' # committed
  <2>1. Acceptable(committed')
    BY <1>2, <1>3, <1>5, NewGoalAcceptable
  <2>2. paid' = {} /\ confirmed' = TRUE
    BY <1>1, <1>5
  <2>3. UpgradeTypeOK'
    BY <1>1, <1>3, <2>1, <2>2 DEF UpgradeInv, UpgradeTypeOK, LedgerTypeOK, Acceptable
  <2>4. PaysOnce(committed, paid)'
    BY <2>2 DEF PaysOnce
  <2> QED
    BY <1>1, <1>3, <2>1, <2>2, <2>3, <2>4 DEF UpgradeInv, ReadBack
<1> QED
  BY <1>4, <1>5

LEMMA UpgradeStepInv ==
  ASSUME UpgradeInv, Upgrade
  PROVE  UpgradeInv'
<1> DEFINE h == RestoreBranchGoal(committed)
<1>1. /\ build' = "current" /\ old' = NoGoal /\ committed' = h
      /\ UNCHANGED <<issued, paid, confirmed>>
  BY DEF Upgrade
<1>2. CASE committed = NoGoal
  <2>1. h = NoGoal
    BY <1>2 DEF RestoreBranchGoal, IsActive
  <2> HIDE DEF h
  <2>2. UpgradeTypeOK'
    BY <1>1, <2>1 DEF UpgradeInv, UpgradeTypeOK, LedgerTypeOK
  <2> QED
    BY <1>1, <2>1, <2>2 DEF UpgradeInv, ReadBack
<1>3. CASE committed # NoGoal
  <2>1. /\ Acceptable(committed) /\ PaysOnce(committed, paid)
        /\ Runs(committed) => confirmed
    BY <1>3 DEF UpgradeInv
  <2>2. Advances(committed, h) /\ (Runs(h) => Runs(committed))
    BY <2>1, RestoreAdvances
  <2> HIDE DEF h
  <2>3. Acceptable(h) /\ PaysOnce(h, paid)
    BY <2>1, <2>2, AdvancesKeepsPaid DEF Advances
  <2>4. UpgradeTypeOK'
    BY <1>1, <2>3 DEF UpgradeInv, UpgradeTypeOK, LedgerTypeOK, Acceptable
  <2> QED
    BY <1>1, <2>1, <2>2, <2>3, <2>4 DEF UpgradeInv, ReadBack
<1> QED
  BY <1>2, <1>3

-----------------------------------------------------------------------------
(* The older builds' records, rewritten field by field.                    *)

(* The fields of a step's list goal, and those of what is read of it.      *)
LEMMA StepListFields ==
  ASSUME NEW e \in StepListExecution
  PROVE  /\ e.generation \in Nat /\ e.noProgressRemaining \in Nat
         /\ e.totalRemaining \in Nat /\ e.turnRequests \in Nat
         /\ e.lifetimeRequests \in Nat
         /\ e.noProgressLimit \in Nat /\ e.totalLimit \in Nat
         /\ e.turnLimit \in Nat /\ e.evidenceGrant \in Nat /\ e.lifetimeCeiling \in Nat
         /\ e.creditedEvidence \in Seq(LegacyKeys)
         /\ Core(e).generation = e.generation
         /\ Core(e).noProgressRemaining = e.noProgressRemaining
         /\ Core(e).totalRemaining = e.totalRemaining
         /\ Core(e).turnRequests = e.turnRequests
         /\ Core(e).lifetimeRequests = e.lifetimeRequests
         /\ Core(e).noProgressLimit = e.noProgressLimit
         /\ Core(e).totalLimit = e.totalLimit
         /\ Core(e).turnLimit = e.turnLimit
         /\ Core(e).evidenceGrant = e.evidenceGrant
         /\ Core(e).lifetimeCeiling = e.lifetimeCeiling
<1>1. /\ e.generation \in Nat /\ e.noProgressRemaining \in Nat
      /\ e.totalRemaining \in Nat /\ e.turnRequests \in Nat
      /\ e.lifetimeRequests \in Nat
      /\ e.noProgressLimit \in Nat /\ e.totalLimit \in Nat
      /\ e.turnLimit \in Nat /\ e.evidenceGrant \in Nat /\ e.lifetimeCeiling \in Nat
      /\ e.creditedEvidence \in Seq(LegacyKeys)
  BY DEF StepListExecution, Positive
<1> QED
  BY <1>1 DEF Core

LEMMA ExecutionsEqual ==
  ASSUME NEW a \in ExecutionRecord, NEW b \in ExecutionRecord,
         a.generation = b.generation, a.noProgressRemaining = b.noProgressRemaining,
         a.totalRemaining = b.totalRemaining, a.turnRequests = b.turnRequests,
         a.lifetimeRequests = b.lifetimeRequests, SameLimits(b, a)
  PROVE  a = b
BY DEF ExecutionRecord, SameLimits


(* The writers do to the longer record what they do to the one that is     *)
(* read of it, and leave the list alone.                                   *)
Counters ==
  [ generation : Nat, noProgressRemaining : Nat, totalRemaining : Nat,
    turnRequests : Nat, lifetimeRequests : Nat ]

Rewritten(e, c, keys) ==
  [e EXCEPT !.generation = c.generation, !.noProgressRemaining = c.noProgressRemaining,
            !.totalRemaining = c.totalRemaining, !.turnRequests = c.turnRequests,
            !.lifetimeRequests = c.lifetimeRequests, !.creditedEvidence = keys]

HasCounters(f, c) ==
  /\ f.generation = c.generation /\ f.noProgressRemaining = c.noProgressRemaining
  /\ f.totalRemaining = c.totalRemaining /\ f.turnRequests = c.turnRequests
  /\ f.lifetimeRequests = c.lifetimeRequests

LEMMA StepListRewritten ==
  ASSUME NEW e \in StepListExecution, NEW c \in Counters, NEW keys \in Seq(LegacyKeys)
  PROVE  /\ Rewritten(e, c, keys) \in StepListExecution
         /\ Rewritten(e, c, keys).creditedEvidence = keys
         /\ \A h \in ExecutionRecord :
              (HasCounters(h, c) /\ SameLimits(Core(e), h)) => Core(Rewritten(e, c, keys)) = h
<1> DEFINE f == Rewritten(e, c, keys)
<1>1. /\ c.generation \in Nat /\ c.noProgressRemaining \in Nat /\ c.totalRemaining \in Nat
      /\ c.turnRequests \in Nat /\ c.lifetimeRequests \in Nat
  BY DEF Counters
<1>2. f \in StepListExecution
  BY <1>1, Zenon DEF StepListExecution, Rewritten
<1>3. /\ HasCounters(f, c) /\ f.creditedEvidence = keys
      /\ f.noProgressLimit = e.noProgressLimit /\ f.totalLimit = e.totalLimit
      /\ f.turnLimit = e.turnLimit /\ f.evidenceGrant = e.evidenceGrant
      /\ f.lifetimeCeiling = e.lifetimeCeiling
  BY DEF StepListExecution, Rewritten, HasCounters
<1> HIDE DEF f
<1> DEFINE d == Core(f)
<1>4. d \in ExecutionRecord
  BY <1>2, StepListIs
<1>5. HasCounters(d, c) /\ SameLimits(Core(e), d)
  BY <1>2, <1>3, StepListFields DEF SameLimits, HasCounters
<1> HIDE DEF d
<1>6. ASSUME NEW h \in ExecutionRecord, HasCounters(h, c), SameLimits(Core(e), h)
      PROVE  d = h
  <2>1. SameLimits(h, d)
    BY <1>5, <1>6 DEF SameLimits
  <2>2. /\ d.generation = h.generation /\ d.noProgressRemaining = h.noProgressRemaining
        /\ d.totalRemaining = h.totalRemaining /\ d.turnRequests = h.turnRequests
        /\ d.lifetimeRequests = h.lifetimeRequests
    BY <1>5, <1>6 DEF HasCounters
  <2> QED
    BY <1>4, <1>6, <2>1, <2>2, ExecutionsEqual
<1> QED
  BY <1>2, <1>3, <1>6 DEF d, f

Alike(e, f, h) ==
  f \in StepListExecution /\ Core(f) = h /\ f.creditedEvidence = e.creditedEvidence

LEMMA ChargeAlike ==
  ASSUME NEW e \in StepListExecution, IsGoalExecution(Core(e)), ~Exhausted(e)
  PROVE  ~Exhausted(Core(e)) /\ Alike(e, ChargeRequest(e), ChargeRequest(Core(e)))
<1> DEFINE n == e.generation
           p == e.noProgressRemaining
           t == Greatest(0, e.totalRemaining - 1)
           u == e.turnRequests + 1
           l == e.lifetimeRequests + 1
           c == Core(e)
           f == ChargeRequest(e)
           h == ChargeRequest(c)
<1>1. ~Exhausted(c)
  BY StepListFields DEF Exhausted, AllowanceExhaustion
<1>2. n \in Nat /\ p \in Nat /\ t \in Nat /\ u \in Nat /\ l \in Nat
  BY StepListFields DEF Greatest, Least
<1>3. f = [e EXCEPT !.generation = n, !.noProgressRemaining = p, !.totalRemaining = t,
                    !.turnRequests = u, !.lifetimeRequests = l,
                    !.creditedEvidence = e.creditedEvidence]
  BY DEF ChargeRequest, StepListExecution
<1>4. /\ c \in ExecutionRecord
      /\ c.generation = e.generation /\ c.noProgressRemaining = e.noProgressRemaining
      /\ c.totalRemaining = e.totalRemaining /\ c.turnRequests = e.turnRequests
      /\ c.lifetimeRequests = e.lifetimeRequests /\ c.evidenceGrant = e.evidenceGrant
      /\ c.noProgressLimit = e.noProgressLimit /\ c.totalLimit = e.totalLimit
      /\ e.creditedEvidence \in Seq(LegacyKeys)
  BY StepListFields, StepListIs
<1> HIDE DEF c
<1>5. h = [c EXCEPT !.generation = n, !.noProgressRemaining = p, !.totalRemaining = t,
                    !.turnRequests = u, !.lifetimeRequests = l]
  BY <1>4, <1>1 DEF ChargeRequest, ExecutionRecord
<1> HIDE DEF n, p, t, u, l, f, h
<1>6. h \in ExecutionRecord
  BY <1>2, <1>4, <1>5, Zenon DEF ExecutionRecord
<1>7. /\ h.generation = n /\ h.noProgressRemaining = p /\ h.totalRemaining = t
      /\ h.turnRequests = u /\ h.lifetimeRequests = l /\ SameLimits(c, h)
  BY <1>4, <1>5 DEF ExecutionRecord, SameLimits
<1> DEFINE keys == e.creditedEvidence
<1> DEFINE w == [ generation |-> n, noProgressRemaining |-> p, totalRemaining |-> t,
                  turnRequests |-> u, lifetimeRequests |-> l ]
<1>8. keys \in Seq(LegacyKeys) /\ w \in Counters /\ f = Rewritten(e, w, keys)
  BY <1>2, <1>3, <1>4 DEF Rewritten, Counters
<1>9. HasCounters(h, w)
  BY <1>7 DEF HasCounters
<1> HIDE DEF keys, w
<1>10. /\ f \in StepListExecution /\ f.creditedEvidence = keys
       /\ \A k \in ExecutionRecord :
            (HasCounters(k, w) /\ SameLimits(Core(e), k)) => Core(f) = k
  BY <1>8, StepListRewritten
<1> QED
  BY <1>1, <1>6, <1>7, <1>9, <1>10 DEF Alike, c, f, h, keys

LEMMA RenewAlike ==
  ASSUME NEW e \in StepListExecution
  PROVE  Alike(e, RenewForEvidence(e, 1), RenewForEvidence(Core(e), 1))
<1> DEFINE n == e.generation
           p == e.noProgressLimit
           t == Least(e.totalLimit, e.totalRemaining + e.evidenceGrant * 1)
           u == 0
           l == e.lifetimeRequests
           c == Core(e)
           f == RenewForEvidence(e, 1)
           h == RenewForEvidence(c, 1)
<1>2. n \in Nat /\ p \in Nat /\ t \in Nat /\ u \in Nat /\ l \in Nat
  BY StepListFields DEF Greatest, Least
<1>3. f = [e EXCEPT !.generation = n, !.noProgressRemaining = p, !.totalRemaining = t,
                    !.turnRequests = u, !.lifetimeRequests = l,
                    !.creditedEvidence = e.creditedEvidence]
  BY DEF RenewForEvidence, StepListExecution
<1>4. /\ c \in ExecutionRecord
      /\ c.generation = e.generation /\ c.noProgressRemaining = e.noProgressRemaining
      /\ c.totalRemaining = e.totalRemaining /\ c.turnRequests = e.turnRequests
      /\ c.lifetimeRequests = e.lifetimeRequests /\ c.evidenceGrant = e.evidenceGrant
      /\ c.noProgressLimit = e.noProgressLimit /\ c.totalLimit = e.totalLimit
      /\ e.creditedEvidence \in Seq(LegacyKeys)
  BY StepListFields, StepListIs
<1> HIDE DEF c
<1>5. h = [c EXCEPT !.generation = n, !.noProgressRemaining = p, !.totalRemaining = t,
                    !.turnRequests = u, !.lifetimeRequests = l]
  BY <1>4 DEF RenewForEvidence, ExecutionRecord
<1> HIDE DEF n, p, t, u, l, f, h
<1>6. h \in ExecutionRecord
  BY <1>2, <1>4, <1>5, Zenon DEF ExecutionRecord
<1>7. /\ h.generation = n /\ h.noProgressRemaining = p /\ h.totalRemaining = t
      /\ h.turnRequests = u /\ h.lifetimeRequests = l /\ SameLimits(c, h)
  BY <1>4, <1>5 DEF ExecutionRecord, SameLimits
<1> DEFINE keys == e.creditedEvidence
<1> DEFINE w == [ generation |-> n, noProgressRemaining |-> p, totalRemaining |-> t,
                  turnRequests |-> u, lifetimeRequests |-> l ]
<1>8. keys \in Seq(LegacyKeys) /\ w \in Counters /\ f = Rewritten(e, w, keys)
  BY <1>2, <1>3, <1>4 DEF Rewritten, Counters
<1>9. HasCounters(h, w)
  BY <1>7 DEF HasCounters
<1> HIDE DEF keys, w
<1>10. /\ f \in StepListExecution /\ f.creditedEvidence = keys
       /\ \A k \in ExecutionRecord :
            (HasCounters(k, w) /\ SameLimits(Core(e), k)) => Core(f) = k
  BY <1>8, StepListRewritten
<1> QED
  BY <1>6, <1>7, <1>9, <1>10 DEF Alike, c, f, h, keys

LEMMA ResumeAlike ==
  ASSUME NEW e \in StepListExecution
  PROVE  Alike(e, ResumeGrant(e), ResumeGrant(Core(e)))
<1> DEFINE n == e.generation
           p == e.noProgressLimit
           t == e.totalRemaining
           u == 0
           l == e.lifetimeRequests
           c == Core(e)
           f == ResumeGrant(e)
           h == ResumeGrant(c)
<1>2. n \in Nat /\ p \in Nat /\ t \in Nat /\ u \in Nat /\ l \in Nat
  BY StepListFields DEF Greatest, Least
<1>3. f = [e EXCEPT !.generation = n, !.noProgressRemaining = p, !.totalRemaining = t,
                    !.turnRequests = u, !.lifetimeRequests = l,
                    !.creditedEvidence = e.creditedEvidence]
  BY DEF ResumeGrant, StepListExecution
<1>4. /\ c \in ExecutionRecord
      /\ c.generation = e.generation /\ c.noProgressRemaining = e.noProgressRemaining
      /\ c.totalRemaining = e.totalRemaining /\ c.turnRequests = e.turnRequests
      /\ c.lifetimeRequests = e.lifetimeRequests /\ c.evidenceGrant = e.evidenceGrant
      /\ c.noProgressLimit = e.noProgressLimit /\ c.totalLimit = e.totalLimit
      /\ e.creditedEvidence \in Seq(LegacyKeys)
  BY StepListFields, StepListIs
<1> HIDE DEF c
<1>5. h = [c EXCEPT !.generation = n, !.noProgressRemaining = p, !.totalRemaining = t,
                    !.turnRequests = u, !.lifetimeRequests = l]
  BY <1>4 DEF ResumeGrant, ExecutionRecord
<1> HIDE DEF n, p, t, u, l, f, h
<1>6. h \in ExecutionRecord
  BY <1>2, <1>4, <1>5, Zenon DEF ExecutionRecord
<1>7. /\ h.generation = n /\ h.noProgressRemaining = p /\ h.totalRemaining = t
      /\ h.turnRequests = u /\ h.lifetimeRequests = l /\ SameLimits(c, h)
  BY <1>4, <1>5 DEF ExecutionRecord, SameLimits
<1> DEFINE keys == e.creditedEvidence
<1> DEFINE w == [ generation |-> n, noProgressRemaining |-> p, totalRemaining |-> t,
                  turnRequests |-> u, lifetimeRequests |-> l ]
<1>8. keys \in Seq(LegacyKeys) /\ w \in Counters /\ f = Rewritten(e, w, keys)
  BY <1>2, <1>3, <1>4 DEF Rewritten, Counters
<1>9. HasCounters(h, w)
  BY <1>7 DEF HasCounters
<1> HIDE DEF keys, w
<1>10. /\ f \in StepListExecution /\ f.creditedEvidence = keys
       /\ \A k \in ExecutionRecord :
            (HasCounters(k, w) /\ SameLimits(Core(e), k)) => Core(f) = k
  BY <1>8, StepListRewritten
<1> QED
  BY <1>6, <1>7, <1>9, <1>10 DEF Alike, c, f, h, keys

LEMMA NextStepAlike ==
  ASSUME NEW e \in StepListExecution
  PROVE  Alike(e, NextStepExecution(e), NextStepExecution(Core(e)))
<1> DEFINE n == e.generation + 1
           p == e.noProgressLimit
           t == e.totalLimit
           u == 0
           l == e.lifetimeRequests
           c == Core(e)
           f == NextStepExecution(e)
           h == NextStepExecution(c)
<1>2. n \in Nat /\ p \in Nat /\ t \in Nat /\ u \in Nat /\ l \in Nat
  BY StepListFields DEF Greatest, Least
<1>3. f = [e EXCEPT !.generation = n, !.noProgressRemaining = p, !.totalRemaining = t,
                    !.turnRequests = u, !.lifetimeRequests = l,
                    !.creditedEvidence = e.creditedEvidence]
  BY DEF NextStepExecution, StepListExecution
<1>4. /\ c \in ExecutionRecord
      /\ c.generation = e.generation /\ c.noProgressRemaining = e.noProgressRemaining
      /\ c.totalRemaining = e.totalRemaining /\ c.turnRequests = e.turnRequests
      /\ c.lifetimeRequests = e.lifetimeRequests /\ c.evidenceGrant = e.evidenceGrant
      /\ c.noProgressLimit = e.noProgressLimit /\ c.totalLimit = e.totalLimit
      /\ e.creditedEvidence \in Seq(LegacyKeys)
  BY StepListFields, StepListIs
<1> HIDE DEF c
<1>5. h = [c EXCEPT !.generation = n, !.noProgressRemaining = p, !.totalRemaining = t,
                    !.turnRequests = u, !.lifetimeRequests = l]
  BY <1>4 DEF NextStepExecution, ExecutionRecord
<1> HIDE DEF n, p, t, u, l, f, h
<1>6. h \in ExecutionRecord
  BY <1>2, <1>4, <1>5, Zenon DEF ExecutionRecord
<1>7. /\ h.generation = n /\ h.noProgressRemaining = p /\ h.totalRemaining = t
      /\ h.turnRequests = u /\ h.lifetimeRequests = l /\ SameLimits(c, h)
  BY <1>4, <1>5 DEF ExecutionRecord, SameLimits
<1> DEFINE keys == e.creditedEvidence
<1> DEFINE w == [ generation |-> n, noProgressRemaining |-> p, totalRemaining |-> t,
                  turnRequests |-> u, lifetimeRequests |-> l ]
<1>8. keys \in Seq(LegacyKeys) /\ w \in Counters /\ f = Rewritten(e, w, keys)
  BY <1>2, <1>3, <1>4 DEF Rewritten, Counters
<1>9. HasCounters(h, w)
  BY <1>7 DEF HasCounters
<1> HIDE DEF keys, w
<1>10. /\ f \in StepListExecution /\ f.creditedEvidence = keys
       /\ \A k \in ExecutionRecord :
            (HasCounters(k, w) /\ SameLimits(Core(e), k)) => Core(f) = k
  BY <1>8, StepListRewritten
<1> QED
  BY <1>6, <1>7, <1>9, <1>10 DEF Alike, c, f, h, keys

(* A list grows, or starts anew.                                           *)
LEMMA RelistedAlike ==
  ASSUME NEW e \in StepListExecution, NEW keys \in Seq(LegacyKeys)
  PROVE  /\ [e EXCEPT !.creditedEvidence = keys] \in StepListExecution
         /\ Core([e EXCEPT !.creditedEvidence = keys]) = Core(e)
         /\ [e EXCEPT !.creditedEvidence = keys].creditedEvidence = keys
<1> DEFINE f == [e EXCEPT !.creditedEvidence = keys]
<1>1. f \in StepListExecution
  BY Zenon DEF StepListExecution
<1>2. /\ f.generation = e.generation /\ f.noProgressRemaining = e.noProgressRemaining
      /\ f.totalRemaining = e.totalRemaining /\ f.turnRequests = e.turnRequests
      /\ f.lifetimeRequests = e.lifetimeRequests
      /\ f.noProgressLimit = e.noProgressLimit /\ f.totalLimit = e.totalLimit
      /\ f.turnLimit = e.turnLimit /\ f.evidenceGrant = e.evidenceGrant
      /\ f.lifetimeCeiling = e.lifetimeCeiling /\ f.creditedEvidence = keys
  BY DEF StepListExecution
<1> HIDE DEF f
<1>3. Core(f) = Core(e)
  BY <1>2, Zenon DEF Core
<1> QED
  BY <1>1, <1>2, <1>3 DEF f

LEMMA FreshListAlike ==
  ASSUME NEW e \in StepListExecution \cup ExecutionRecord, build = "stepList"
  PROVE  /\ WithFreshList(e) \in StepListExecution
         /\ Core(WithFreshList(e)) = Core(e)
         /\ WithFreshList(e).creditedEvidence = <<>>
<1> DEFINE f == WithFreshList(e)
<1>1. DOMAIN e \cup {"creditedEvidence"} = CoreNames \cup {"creditedEvidence"}
  <2>1. CASE e \in StepListExecution
    BY <2>1, StepListIs
  <2>2. CASE e \in ExecutionRecord
    BY <2>2, CurrentIs
  <2> QED
    BY <2>1, <2>2
<1>2. f = [x \in CoreNames \cup {"creditedEvidence"} |->
             IF x = "creditedEvidence" THEN <<>> ELSE e[x]]
  BY <1>1 DEF WithFreshList, FilledFrom
<1> HIDE DEF f
<1>3. /\ e.generation \in Nat /\ e.noProgressRemaining \in Nat
      /\ e.totalRemaining \in Nat /\ e.turnRequests \in Nat /\ e.lifetimeRequests \in Nat
      /\ e.noProgressLimit \in Positive /\ e.totalLimit \in Positive
      /\ e.turnLimit \in Positive /\ e.evidenceGrant \in Positive
      /\ e.lifetimeCeiling \in Positive
  <2>1. CASE e \in StepListExecution
    BY <2>1 DEF StepListExecution
  <2>2. CASE e \in ExecutionRecord
    BY <2>2 DEF ExecutionRecord
  <2> QED
    BY <2>1, <2>2
<1>4. f = [ generation |-> e.generation, noProgressRemaining |-> e.noProgressRemaining,
            totalRemaining |-> e.totalRemaining, turnRequests |-> e.turnRequests,
            lifetimeRequests |-> e.lifetimeRequests, noProgressLimit |-> e.noProgressLimit,
            totalLimit |-> e.totalLimit, turnLimit |-> e.turnLimit,
            evidenceGrant |-> e.evidenceGrant, lifetimeCeiling |-> e.lifetimeCeiling,
            creditedEvidence |-> <<>> ]
  BY <1>2 DEF CoreNames
<1>5. f \in StepListExecution
  <2>1. <<>> \in Seq(LegacyKeys)
    OBVIOUS
  <2> QED
    BY <1>3, <1>4, <2>1 DEF StepListExecution
<1>6. Core(f) = Core(e) /\ f.creditedEvidence = <<>>
  BY <1>4 DEF Core
<1> QED
  BY <1>5, <1>6 DEF f

(* How a step of an older build rewrites its goal: the list of steps, the  *)
(* place in it and the status; then what it has spent, and what it paid.   *)
Walk == [status : GoalStatus, index : Nat, stages : Seq(StageStatus)]

Walked(g, w) == [g EXCEPT !.stages = w.stages, !.status = w.status, !.index = w.index]

Spent(g, w, e) == [Walked(g, w) EXCEPT !.execution = e]

Listed(g, w, e, list) == [Spent(g, w, e) EXCEPT !.creditedEvidence = list]

Fits(w) == StepsFit(w.stages, w.index, w.status)

LEMMA BareWritten ==
  ASSUME NEW g \in BareGoal, NEW w \in Walk, Fits(w)
  PROVE  OldGoalOf("v1", Walked(g, w))
<1> DEFINE h == Walked(g, w)
<1>1. w.stages \in Seq(StageStatus) /\ w.status \in GoalStatus /\ w.index \in Nat
  BY DEF Walk
<1>2. h \in BareGoal
  BY <1>1, Zenon DEF BareGoal, Walked
<1>3. h.stages = w.stages /\ h.status = w.status /\ h.index = w.index
  BY DEF BareGoal, Walked
<1> HIDE DEF h
<1>4. Shaped(h)
  BY <1>3, Zenon DEF Shaped, Fits
<1> QED
  BY <1>2, <1>4 DEF OldGoalOf, h

LEMMA FullWritten ==
  ASSUME NEW S, NEW g \in FullGoal(S), g.pauseReason = "none",
         NEW w \in Walk, Fits(w), NEW e \in S
  PROVE  /\ Spent(g, w, e) \in FullGoal(S) /\ Shaped(Spent(g, w, e))
         /\ Spent(g, w, e).pauseReason = "none" /\ Spent(g, w, e).execution = e
<1> DEFINE h == Spent(g, w, e)
<1>1. w.stages \in Seq(StageStatus) /\ w.status \in GoalStatus /\ w.index \in Nat
  BY DEF Walk
<1>2. h \in FullGoal(S)
  BY <1>1, Zenon DEF FullGoal, Walked, Spent
<1>3. /\ h.stages = w.stages /\ h.status = w.status /\ h.index = w.index
      /\ h.pauseReason = "none" /\ h.execution = e
  BY DEF FullGoal, Walked, Spent
<1> HIDE DEF h
<1>4. Shaped(h)
  BY <1>3, Zenon DEF Shaped, Fits
<1> QED
  BY <1>2, <1>3, <1>4 DEF h

LEMMA ListedWritten ==
  ASSUME NEW g \in ListedGoal, g.pauseReason = "none",
         NEW w \in Walk, Fits(w), NEW e \in ExecutionRecord, NEW list \in Seq(Evidence)
  PROVE  /\ Listed(g, w, e, list) \in ListedGoal /\ Shaped(Listed(g, w, e, list))
         /\ Listed(g, w, e, list).pauseReason = "none"
         /\ Listed(g, w, e, list).execution = e
         /\ Listed(g, w, e, list).creditedEvidence = list
<1> DEFINE h == Listed(g, w, e, list)
<1>1. w.stages \in Seq(StageStatus) /\ w.status \in GoalStatus /\ w.index \in Nat
  BY DEF Walk
<1>2. h \in ListedGoal
  BY <1>1, Zenon DEF ListedGoal, Walked, Spent, Listed
<1>3. /\ h.stages = w.stages /\ h.status = w.status /\ h.index = w.index
      /\ h.pauseReason = "none" /\ h.execution = e /\ h.creditedEvidence = list
  BY DEF ListedGoal, Walked, Spent, Listed
<1> HIDE DEF h
<1>4. Shaped(h)
  BY <1>3, Zenon DEF Shaped, Fits
<1> QED
  BY <1>2, <1>3, <1>4 DEF h

(* The same, of the goal of each build.                                    *)
LEMMA PreSplitWritten ==
  ASSUME NEW g, PreSplitGoal(g), NEW w \in Walk, Fits(w), NEW e \in PreSplitExecution,
         e.noProgressRemaining <= e.noProgressLimit, e.totalRemaining <= e.totalLimit
  PROVE  OldGoalOf("preSplit", Spent(g, w, e)) /\ Spent(g, w, e).execution = e
<1>1. g \in FullGoal(PreSplitExecution) /\ g.pauseReason = "none"
  BY DEF PreSplitGoal
<1>2. /\ Spent(g, w, e) \in FullGoal(PreSplitExecution) /\ Shaped(Spent(g, w, e))
      /\ Spent(g, w, e).pauseReason = "none" /\ Spent(g, w, e).execution = e
  BY <1>1, FullWritten
<1> QED
  BY <1>2 DEF OldGoalOf, PreSplitGoal

LEMMA StepListWritten ==
  ASSUME NEW g, StepListGoal(g), NEW w \in Walk, Fits(w), NEW e \in StepListExecution,
         IsGoalExecution(Core(e)), Len(e.creditedEvidence) <= LegacyMaxCredited
  PROVE  OldGoalOf("stepList", Spent(g, w, e)) /\ Spent(g, w, e).execution = e
<1>1. g \in FullGoal(StepListExecution) /\ g.pauseReason = "none"
  BY DEF StepListGoal
<1>2. /\ Spent(g, w, e) \in FullGoal(StepListExecution) /\ Shaped(Spent(g, w, e))
      /\ Spent(g, w, e).pauseReason = "none" /\ Spent(g, w, e).execution = e
  BY <1>1, FullWritten
<1> QED
  BY <1>2 DEF OldGoalOf, StepListGoal

LEMMA GoalListWritten ==
  ASSUME NEW g, GoalListGoal(g), NEW w \in Walk, Fits(w),
         NEW e, IsGoalExecution(e),
         NEW list \in Seq(Evidence), Len(list) <= MaxCreditedEvidence
  PROVE  /\ OldGoalOf("goalList", Listed(g, w, e, list))
         /\ Listed(g, w, e, list).creditedEvidence = list
<1>1. g \in ListedGoal /\ g.pauseReason = "none" /\ e \in ExecutionRecord
  BY DEF GoalListGoal, IsGoalExecution
<1>2. /\ Listed(g, w, e, list) \in ListedGoal /\ Shaped(Listed(g, w, e, list))
      /\ Listed(g, w, e, list).pauseReason = "none"
      /\ Listed(g, w, e, list).execution = e
      /\ Listed(g, w, e, list).creditedEvidence = list
  BY <1>1, ListedWritten
<1> QED
  BY <1>2 DEF OldGoalOf, GoalListGoal

LEMMA WritesInv ==
  ASSUME UpgradeInv, build \in OldBuilds, NEW g, OldGoalOf(build, g),
         issued' \in Nat, paid' \subseteq Evidence, OldCredits(build, g, paid'),
         Writes(g)
  PROVE  UpgradeInv'
<1>1. /\ old' = g /\ committed' = Reconstruct(g) /\ build' = build
      /\ confirmed' = (build # "v1")
  BY DEF Writes
<1>2. build # "current"
  BY DEF OldBuilds
<1>3. committed' # NoGoal =>
        /\ Acceptable(committed')
        /\ Runs(committed') => build # "v1"
        /\ PaysOnce(committed', paid')
  <2>1. CASE build = "v1"
    <3>1. g \in BareGoal /\ Shaped(g) /\ paid' = {} /\ committed' = MigrateV1Goal(g)
      BY <1>1, <2>1 DEF OldGoalOf, OldCredits, Reconstruct
    <3>2. Acceptable(committed') /\ ~Runs(committed')
      BY <3>1, MigratedAcceptable
    <3> QED
      BY <3>1, <3>2 DEF PaysOnce
  <2>2. CASE build = "preSplit"
    <3>1. /\ PreSplitGoal(g) /\ paid' = {} /\ build # "v1"
          /\ committed' = IF IsOldMultiGoal(g) THEN CloneGoal(g) ELSE committed
      BY <1>1, <2>2 DEF OldGoalOf, OldCredits, Reconstruct
    <3>2. committed' # NoGoal => Acceptable(committed')
      BY <3>1, PreSplitRead DEF UpgradeInv
    <3> QED
      BY <3>1, <3>2 DEF PaysOnce
  <2>3. CASE build = "stepList"
    <3>1. StepListGoal(g) /\ OldCredits("stepList", g, paid') /\ build # "v1"
      BY <2>3 DEF OldGoalOf
    <3>2. committed' = CloneGoal(g)
      BY <1>1, <3>1, StepListRead DEF Reconstruct
    <3> QED
      BY <3>1, <3>2, StepListRead
  <2>4. CASE build = "goalList"
    <3>1. GoalListGoal(g) /\ OldCredits("goalList", g, paid') /\ build # "v1"
      BY <2>4 DEF OldGoalOf
    <3>2. committed' = CloneGoal(g)
      BY <1>1, <3>1, GoalListRead DEF Reconstruct
    <3> QED
      BY <3>1, <3>2, GoalListRead
  <2> QED
    BY <2>1, <2>2, <2>3, <2>4 DEF OldBuilds
<1>4. UpgradeTypeOK'
  <2>1. committed' \in GoalRecord \cup {NoGoal}
    BY <1>3 DEF Acceptable
  <2> QED
    BY <1>1, <2>1 DEF UpgradeInv, UpgradeTypeOK, LedgerTypeOK
<1>5. ReadBack'
  BY <1>1 DEF ReadBack, Reconstruct
<1> QED
  BY <1>1, <1>2, <1>3, <1>4, <1>5 DEF UpgradeInv

(* Which walk each step of an older build takes.                           *)
StatusWalk(g, st) == [status |-> st, index |-> g.index, stages |-> g.stages]

CompletionWalk(g) ==
  IF IsLastStage(g)
  THEN [status |-> "complete", index |-> g.index, stages |-> LastMarked(g.stages, g.index)]
  ELSE [status |-> g.status, index |-> g.index + 1, stages |-> NextMarked(g.stages, g.index)]

LEMMA StatusWalkFits ==
  ASSUME NEW g, g.index \in Nat, g.stages \in Seq(StageStatus), Shaped(g),
         NEW st \in GoalStatus, st # "complete", g.status # "complete"
  PROVE  StatusWalk(g, st) \in Walk /\ Fits(StatusWalk(g, st))
BY DEF StatusWalk, Walk, Fits, Shaped, StepsFit

LEMMA CompletionWalkFits ==
  ASSUME NEW g, g.index \in Nat, g.stages \in Seq(StageStatus), Shaped(g), g.status = "active"
  PROVE  CompletionWalk(g) \in Walk /\ Fits(CompletionWalk(g))
<1> DEFINE last == LastMarked(g.stages, g.index)
           next == NextMarked(g.stages, g.index)
<1>1. StepsFit(g.stages, g.index, "active") /\ Len(g.stages) \in Nat
  BY LenProperties DEF Shaped
<1>2. last \in Seq(StageStatus) /\ StepsFit(last, g.index, "complete")
  BY <1>1, LastMarkedFits
<1>3. CASE IsLastStage(g)
  <2> HIDE DEF last, next
  <2>1. CompletionWalk(g) = [status |-> "complete", index |-> g.index, stages |-> last]
    BY <1>3 DEF CompletionWalk, last
  <2> QED
    BY <1>2, <2>1 DEF Walk, Fits, GoalStatus
<1>4. CASE ~IsLastStage(g)
  <2>1. next \in Seq(StageStatus) /\ StepsFit(next, g.index + 1, "active")
    <3>1. g.index < Len(g.stages) - 1
      BY <1>1, <1>4 DEF IsLastStage, StageCount
    <3> QED
      BY <1>1, <3>1, NextMarkedFits
  <2> HIDE DEF last, next
  <2>2. CompletionWalk(g) = [status |-> "active", index |-> g.index + 1, stages |-> next]
    BY <1>4 DEF CompletionWalk, next
  <2> QED
    BY <2>1, <2>2 DEF Walk, Fits, GoalStatus
<1> QED
  BY <1>3, <1>4

LEMMA BareWalks ==
  ASSUME NEW g \in BareGoal
  PROVE  /\ \A st : [g EXCEPT !.status = st] = Walked(g, StatusWalk(g, st))
         /\ CompleteCurrentStage(g) = Walked(g, CompletionWalk(g))
<1>1. \A st : [g EXCEPT !.status = st] = Walked(g, StatusWalk(g, st))
  BY DEF BareGoal, Walked, StatusWalk
<1>2. CompleteCurrentStage(g) = Walked(g, CompletionWalk(g))
  BY DEF BareGoal, Walked, CompleteCurrentStage, CompletionWalk, LastMarked, NextMarked
<1> QED
  BY <1>1, <1>2

LEMMA FullWalks ==
  ASSUME NEW S, NEW g \in FullGoal(S)
  PROVE  /\ \A st : [g EXCEPT !.status = st] = Walked(g, StatusWalk(g, st))
         /\ CompleteCurrentStage(g) = Walked(g, CompletionWalk(g))
         /\ \A w : Walked(g, w) = Spent(g, w, g.execution)
         /\ \A w : Walked(g, w).execution = g.execution /\ Walked(g, w).status = w.status
         /\ \A e : [g EXCEPT !.execution = e] = Spent(g, StatusWalk(g, g.status), e)
<1>1. \A st : [g EXCEPT !.status = st] = Walked(g, StatusWalk(g, st))
  BY DEF FullGoal, Walked, StatusWalk
<1>2. CompleteCurrentStage(g) = Walked(g, CompletionWalk(g))
  BY DEF FullGoal, Walked, CompleteCurrentStage, CompletionWalk, LastMarked, NextMarked
<1>3. \A w : Walked(g, w) = Spent(g, w, g.execution)
  BY DEF FullGoal, Walked, Spent
<1>4. \A w : Walked(g, w).execution = g.execution /\ Walked(g, w).status = w.status
  BY DEF FullGoal, Walked
<1>5. \A e : [g EXCEPT !.execution = e] = Spent(g, StatusWalk(g, g.status), e)
  BY DEF FullGoal, Walked, StatusWalk, Spent
<1> QED
  BY <1>1, <1>2, <1>3, <1>4, <1>5

LEMMA ListedWalks ==
  ASSUME NEW g \in ListedGoal
  PROVE  /\ \A st : [g EXCEPT !.status = st] = Walked(g, StatusWalk(g, st))
         /\ CompleteCurrentStage(g) = Walked(g, CompletionWalk(g))
         /\ \A w : Walked(g, w) = Listed(g, w, g.execution, g.creditedEvidence)
         /\ \A w : Walked(g, w).execution = g.execution /\ Walked(g, w).status = w.status
         /\ \A w, e : Spent(g, w, e) = Listed(g, w, e, g.creditedEvidence)
         /\ \A e : [g EXCEPT !.execution = e]
                     = Listed(g, StatusWalk(g, g.status), e, g.creditedEvidence)
         /\ \A e, list : [g EXCEPT !.execution = e, !.creditedEvidence = list]
                           = Listed(g, StatusWalk(g, g.status), e, list)
<1>1. \A st : [g EXCEPT !.status = st] = Walked(g, StatusWalk(g, st))
  BY DEF ListedGoal, Walked, StatusWalk
<1>2. CompleteCurrentStage(g) = Walked(g, CompletionWalk(g))
  BY DEF ListedGoal, Walked, CompleteCurrentStage, CompletionWalk, LastMarked, NextMarked
<1>3. \A w : Walked(g, w) = Listed(g, w, g.execution, g.creditedEvidence)
  BY DEF ListedGoal, Walked, Spent, Listed
<1>4. \A w : Walked(g, w).execution = g.execution /\ Walked(g, w).status = w.status
  BY DEF ListedGoal, Walked
<1>5. \A w, e : Spent(g, w, e) = Listed(g, w, e, g.creditedEvidence)
  BY DEF ListedGoal, Walked, Spent, Listed
<1>6. \A e : [g EXCEPT !.execution = e] = Listed(g, StatusWalk(g, g.status), e, g.creditedEvidence)
  BY DEF ListedGoal, Walked, StatusWalk, Spent, Listed
<1>7. \A e, list : [g EXCEPT !.execution = e, !.creditedEvidence = list]
                     = Listed(g, StatusWalk(g, g.status), e, list)
  BY DEF ListedGoal, Walked, StatusWalk, Spent, Listed
<1> QED
  BY <1>1, <1>2, <1>3, <1>4, <1>5, <1>6, <1>7

(* Steps that keep the list of paid references.                            *)
LEMMA OldFields ==
  ASSUME UpgradeInv, build # "current", old # NoGoal
  PROVE  /\ build \in OldBuilds /\ OldGoalOf(build, old) /\ OldCredits(build, old, paid)
         /\ issued \in Nat /\ paid \subseteq Evidence
         /\ old.index \in Nat /\ old.stages \in Seq(StageStatus)
         /\ old.status \in GoalStatus /\ Shaped(old)
<1>1. /\ build \in OldBuilds /\ OldGoalOf(build, old) /\ OldCredits(build, old, paid)
      /\ issued \in Nat /\ paid \subseteq Evidence
  BY DEF UpgradeInv, UpgradeTypeOK, LedgerTypeOK
<1>2. CASE build = "v1"
  BY <1>1, <1>2 DEF OldGoalOf, BareGoal
<1>3. CASE build = "preSplit"
  BY <1>1, <1>3, FullFields DEF OldGoalOf, PreSplitGoal
<1>4. CASE build = "stepList"
  BY <1>1, <1>4, FullFields DEF OldGoalOf, StepListGoal
<1>5. CASE build = "goalList"
  BY <1>1, <1>5, ListedFields DEF OldGoalOf, GoalListGoal
<1> QED
  BY <1>1, <1>2, <1>3, <1>4, <1>5 DEF OldBuilds

LEMMA StepListSpent ==
  ASSUME NEW g, StepListGoal(g), NEW w \in Walk, Fits(w), NEW e \in StepListExecution,
         IsGoalExecution(Core(e)), e.creditedEvidence = g.execution.creditedEvidence,
         NEW refs, OldCredits("stepList", g, refs)
  PROVE  OldGoalOf("stepList", Spent(g, w, e)) /\ OldCredits("stepList", Spent(g, w, e), refs)
<1>1. Len(e.creditedEvidence) <= LegacyMaxCredited
  BY DEF StepListGoal
<1>2. OldGoalOf("stepList", Spent(g, w, e)) /\ Spent(g, w, e).execution = e
  BY <1>1, StepListWritten
<1> QED
  BY <1>2 DEF OldCredits

LEMMA GoalListSpent ==
  ASSUME NEW g, GoalListGoal(g), NEW w \in Walk, Fits(w), NEW e, IsGoalExecution(e),
         NEW refs, OldCredits("goalList", g, refs)
  PROVE  OldGoalOf("goalList", Spent(g, w, e)) /\ OldCredits("goalList", Spent(g, w, e), refs)
<1> DEFINE list == g.creditedEvidence
<1>1. /\ list \in Seq(Evidence) /\ Len(list) <= MaxCreditedEvidence
      /\ Spent(g, w, e) = Listed(g, w, e, list)
  BY ListedFields, ListedWalks DEF GoalListGoal
<1> HIDE DEF list
<1>2. OldGoalOf("goalList", Spent(g, w, e)) /\ Spent(g, w, e).creditedEvidence = list
  BY <1>1, GoalListWritten
<1> QED
  BY <1>2 DEF OldCredits, list

LEMMA OldWalk ==
  ASSUME NEW b \in OldBuilds, NEW g, OldGoalOf(b, g), NEW w \in Walk, Fits(w),
         NEW refs, OldCredits(b, g, refs)
  PROVE  OldGoalOf(b, Walked(g, w)) /\ OldCredits(b, Walked(g, w), refs)
<1>1. CASE b = "v1"
  <2>1. OldGoalOf("v1", Walked(g, w))
    BY <1>1, BareWritten DEF OldGoalOf
  <2> QED
    BY <1>1, <2>1 DEF OldCredits
<1>2. CASE b = "preSplit"
  <2>1. PreSplitGoal(g) /\ g \in FullGoal(PreSplitExecution)
    BY <1>2 DEF OldGoalOf, PreSplitGoal
  <2>2. /\ Walked(g, w) = Spent(g, w, g.execution) /\ g.execution \in PreSplitExecution
        /\ g.execution.noProgressRemaining <= g.execution.noProgressLimit
        /\ g.execution.totalRemaining <= g.execution.totalLimit
    BY <2>1, FullWalks, FullFields DEF PreSplitGoal
  <2>3. OldGoalOf("preSplit", Spent(g, w, g.execution))
    BY <2>1, <2>2, PreSplitWritten
  <2> QED
    BY <1>2, <2>2, <2>3 DEF OldCredits
<1>3. CASE b = "stepList"
  <2>1. StepListGoal(g) /\ g \in FullGoal(StepListExecution) /\ OldCredits("stepList", g, refs)
    BY <1>3 DEF OldGoalOf, StepListGoal
  <2>2. /\ Walked(g, w) = Spent(g, w, g.execution) /\ g.execution \in StepListExecution
        /\ IsGoalExecution(Core(g.execution))
    BY <2>1, FullWalks, FullFields DEF StepListGoal
  <2>3. /\ OldGoalOf("stepList", Spent(g, w, g.execution))
        /\ OldCredits("stepList", Spent(g, w, g.execution), refs)
    BY <2>1, <2>2, StepListSpent
  <2> QED
    BY <1>3, <2>2, <2>3
<1>4. CASE b = "goalList"
  <2>1. GoalListGoal(g) /\ g \in ListedGoal /\ OldCredits("goalList", g, refs)
    BY <1>4 DEF OldGoalOf, GoalListGoal
  <2>2. Walked(g, w) = Spent(g, w, g.execution) /\ IsGoalExecution(g.execution)
    <3>1. Walked(g, w) = Listed(g, w, g.execution, g.creditedEvidence)
      BY <2>1, ListedWalks
    <3>2. Spent(g, w, g.execution) = Listed(g, w, g.execution, g.creditedEvidence)
      BY <2>1, ListedWalks
    <3> QED
      BY <2>1, <3>1, <3>2 DEF GoalListGoal
  <2>3. /\ OldGoalOf("goalList", Spent(g, w, g.execution))
        /\ OldCredits("goalList", Spent(g, w, g.execution), refs)
    BY <2>1, <2>2, GoalListSpent
  <2> QED
    BY <1>4, <2>2, <2>3
<1> QED
  BY <1>1, <1>2, <1>3, <1>4 DEF OldBuilds

LEMMA NothingPaid ==
  ASSUME NEW b, NEW g
  PROVE  OldCredits(b, g, {})
BY DEF OldCredits, Remembers

LEMMA OldWalkInv ==
  ASSUME UpgradeInv, build # "current", old # NoGoal,
         NEW w \in Walk, Fits(w), Writes(Walked(old, w)),
         issued' = issued, paid' \in {paid, {}}
  PROVE  UpgradeInv'
<1> DEFINE h == Walked(old, w)
<1>1. /\ build \in OldBuilds /\ OldGoalOf(build, old) /\ OldCredits(build, old, paid)
      /\ issued' \in Nat /\ paid' \subseteq Evidence
  BY OldFields
<1>2. OldGoalOf(build, h) /\ OldCredits(build, h, paid)
  BY <1>1, OldWalk
<1> HIDE DEF h
<1>3. OldCredits(build, h, paid')
  BY <1>2, NothingPaid
<1>4. Writes(h)
  BY DEF h
<1> QED
  BY <1>1, <1>2, <1>3, <1>4, WritesInv

LEMMA WalksOf ==
  ASSUME NEW b \in OldBuilds, NEW g, OldGoalOf(b, g)
  PROVE  /\ \A st : [g EXCEPT !.status = st] = Walked(g, StatusWalk(g, st))
         /\ CompleteCurrentStage(g) = Walked(g, CompletionWalk(g))
<1>1. CASE b = "v1"
  BY <1>1, BareWalks DEF OldGoalOf
<1>2. CASE b = "preSplit"
  BY <1>2, FullWalks DEF OldGoalOf, PreSplitGoal
<1>3. CASE b = "stepList"
  BY <1>3, FullWalks DEF OldGoalOf, StepListGoal
<1>4. CASE b = "goalList"
  BY <1>4, ListedWalks DEF OldGoalOf, GoalListGoal
<1> QED
  BY <1>1, <1>2, <1>3, <1>4 DEF OldBuilds

LEMMA OldPauseInv ==
  ASSUME UpgradeInv, OldPause
  PROVE  UpgradeInv'
<1> DEFINE w == StatusWalk(old, "paused")
<1>1. /\ build # "current" /\ old # NoGoal /\ old.status = "active"
      /\ Writes(PauseGoal(old)) /\ UNCHANGED <<issued, paid>>
  BY DEF OldPause, OldActive
<1>2. PauseGoal(old) = Walked(old, w)
  BY <1>1, OldFields, WalksOf DEF PauseGoal
<1>3. w \in Walk /\ Fits(w)
  <2>1. "paused" \in GoalStatus /\ "paused" # "complete"
    BY DEF GoalStatus
  <2> QED
    BY <1>1, <2>1, OldFields, StatusWalkFits
<1> HIDE DEF w
<1> QED
  BY <1>1, <1>2, <1>3, OldWalkInv

LEMMA OldResumeInv ==
  ASSUME UpgradeInv, OldResume
  PROVE  UpgradeInv'
<1> DEFINE w == StatusWalk(old, "active")
           e == ResumeGrant(old.execution)
<1>1. /\ build # "current" /\ old # NoGoal /\ old.status = "paused" /\ UNCHANGED <<issued, paid>>
      /\ Writes(IF Credits THEN ApplyResumeGrant([old EXCEPT !.status = "active"])
                ELSE [old EXCEPT !.status = "active"])
  BY DEF OldResume
<1>2. [old EXCEPT !.status = "active"] = Walked(old, w)
  BY <1>1, OldFields, WalksOf
<1>3. w \in Walk /\ Fits(w)
  <2>1. "active" \in GoalStatus
    BY DEF GoalStatus
  <2> QED
    BY <1>1, <2>1, OldFields, StatusWalkFits
<1>4. /\ build \in OldBuilds /\ OldGoalOf(build, old) /\ OldCredits(build, old, paid)
      /\ issued' \in Nat /\ paid' = paid /\ paid' \subseteq Evidence
  BY <1>1, OldFields
<1> HIDE DEF w, e
<1>5. CASE ~Credits
  BY <1>1, <1>2, <1>3, <1>5, OldWalkInv
<1>6. ASSUME Credits, Walked(old, w).execution = old.execution,
             OldGoalOf(build, Spent(old, w, e)), OldCredits(build, Spent(old, w, e), paid)
      PROVE  UpgradeInv'
  <2> DEFINE h == Spent(old, w, e)
  <2>1. Writes(h)
    BY <1>1, <1>2, <1>6 DEF ApplyResumeGrant, Spent, e
  <2>2. OldGoalOf(build, h) /\ OldCredits(build, h, paid')
    BY <1>4, <1>6
  <2> HIDE DEF h
  <2> QED
    BY <1>4, <2>1, <2>2, WritesInv
<1>7. CASE build = "stepList"
  <2>1. StepListGoal(old) /\ old \in FullGoal(StepListExecution) /\ OldCredits("stepList", old, paid)
    BY <1>4, <1>7 DEF OldGoalOf, StepListGoal
  <2>2. old.execution \in StepListExecution /\ IsGoalExecution(Core(old.execution))
    BY <2>1, FullFields DEF StepListGoal
  <2>3. Alike(old.execution, e, ResumeGrant(Core(old.execution)))
    BY <2>2, ResumeAlike DEF e
  <2>4. IsGoalExecution(ResumeGrant(Core(old.execution)))
    BY <2>2, ResumeGrantSpendsNoRequest
  <2>5. /\ e \in StepListExecution /\ IsGoalExecution(Core(e))
        /\ e.creditedEvidence = old.execution.creditedEvidence
    BY <2>3, <2>4 DEF Alike
  <2>6. OldGoalOf("stepList", Spent(old, w, e)) /\ OldCredits("stepList", Spent(old, w, e), paid)
    BY <1>3, <2>1, <2>5, StepListSpent
  <2>7. Walked(old, w).execution = old.execution
    BY <2>1, FullWalks
  <2> QED
    BY <1>6, <1>7, <2>6, <2>7 DEF Credits
<1>8. CASE build = "goalList"
  <2>1. GoalListGoal(old) /\ old \in ListedGoal /\ OldCredits("goalList", old, paid)
    BY <1>4, <1>8 DEF OldGoalOf, GoalListGoal
  <2>2. IsGoalExecution(e)
    BY <2>1, ResumeGrantSpendsNoRequest DEF GoalListGoal, e
  <2>3. OldGoalOf("goalList", Spent(old, w, e)) /\ OldCredits("goalList", Spent(old, w, e), paid)
    BY <1>3, <2>1, <2>2, GoalListSpent
  <2>4. Walked(old, w).execution = old.execution
    BY <2>1, ListedWalks
  <2> QED
    BY <1>6, <1>8, <2>3, <2>4 DEF Credits
<1> QED
  BY <1>5, <1>7, <1>8 DEF Credits

LEMMA OldSpendInv ==
  ASSUME UpgradeInv, OldSpend
  PROVE  UpgradeInv'
<1> DEFINE c == old.execution
           w == StatusWalk(old, old.status)
           e == OldCharge(c)
           h == Spent(old, w, e)
<1>1. /\ build # "current" /\ build # "v1" /\ old # NoGoal /\ old.status = "active"
      /\ c.totalRemaining > 0 /\ (Credits => ~Exhausted(c))
      /\ Writes([old EXCEPT !.execution = e]) /\ UNCHANGED <<issued, paid>>
  BY DEF OldSpend, OldActive
<1>2. w \in Walk /\ Fits(w)
  BY <1>1, OldFields, StatusWalkFits
<1>3. /\ build \in OldBuilds /\ OldGoalOf(build, old) /\ OldCredits(build, old, paid)
      /\ issued' \in Nat /\ paid' = paid /\ paid' \subseteq Evidence
  BY <1>1, OldFields
<1>4. CASE build = "preSplit"
  <2>1. PreSplitGoal(old) /\ old \in FullGoal(PreSplitExecution)
    BY <1>3, <1>4 DEF OldGoalOf, PreSplitGoal
  <2>2. c \in PreSplitExecution
    BY <2>1, FullFields
  <2>3. /\ c.totalRemaining \in Nat /\ c.lifetimeRequests \in Nat /\ c.totalLimit \in Nat
        /\ c.totalRemaining <= c.totalLimit /\ c.noProgressRemaining <= c.noProgressLimit
    BY <2>1, <2>2 DEF PreSplitGoal, PreSplitExecution, Positive
  <2>4. e = [c EXCEPT !.totalRemaining = c.totalRemaining - 1,
                      !.lifetimeRequests = c.lifetimeRequests + 1]
    BY <1>4, <2>2 DEF OldCharge, Credits, PreSplitExecution
  <2>5. c.totalRemaining - 1 \in Nat /\ c.lifetimeRequests + 1 \in Nat
    BY <1>1, <2>3
  <2> HIDE DEF e, c
  <2>6. e \in PreSplitExecution
    BY <2>2, <2>4, <2>5, Zenon DEF PreSplitExecution
  <2>7. e.noProgressRemaining <= e.noProgressLimit /\ e.totalRemaining <= e.totalLimit
    BY <2>2, <2>3, <2>4 DEF PreSplitExecution
  <2> HIDE DEF w
  <2>8. OldGoalOf("preSplit", h)
    BY <1>2, <2>1, <2>6, <2>7, PreSplitWritten
  <2>9. [old EXCEPT !.execution = e] = h
    BY <2>1, FullWalks DEF w
  <2> HIDE DEF h
  <2>10. OldCredits("preSplit", h, paid')
    BY <1>3, <1>4 DEF OldCredits
  <2> QED
    BY <1>1, <1>3, <1>4, <2>8, <2>9, <2>10, WritesInv
<1>5. CASE build = "stepList"
  <2>1. StepListGoal(old) /\ old \in FullGoal(StepListExecution) /\ OldCredits("stepList", old, paid)
    BY <1>3, <1>5 DEF OldGoalOf, StepListGoal
  <2>2. c \in StepListExecution /\ IsGoalExecution(Core(c)) /\ ~Exhausted(c)
    BY <1>1, <1>5, <2>1, FullFields DEF StepListGoal, Credits
  <2>3. e = ChargeRequest(c)
    BY <1>5 DEF OldCharge, Credits
  <2> HIDE DEF e
  <2>4. ~Exhausted(Core(c)) /\ Alike(c, e, ChargeRequest(Core(c)))
    BY <2>2, <2>3, ChargeAlike
  <2>5. IsGoalExecution(ChargeRequest(Core(c)))
    BY <2>2, <2>4, ChargeRequestMovesOne
  <2>6. /\ e \in StepListExecution /\ IsGoalExecution(Core(e))
        /\ e.creditedEvidence = old.execution.creditedEvidence
    BY <2>4, <2>5 DEF Alike
  <2> HIDE DEF w
  <2>7. OldGoalOf("stepList", h) /\ OldCredits("stepList", h, paid)
    BY <1>2, <2>1, <2>6, StepListSpent
  <2>8. [old EXCEPT !.execution = e] = h
    BY <2>1, FullWalks DEF w
  <2> HIDE DEF h
  <2> QED
    BY <1>1, <1>3, <1>5, <2>7, <2>8, WritesInv
<1>6. CASE build = "goalList"
  <2>1. GoalListGoal(old) /\ old \in ListedGoal /\ OldCredits("goalList", old, paid)
    BY <1>3, <1>6 DEF OldGoalOf, GoalListGoal
  <2>2. IsGoalExecution(c) /\ ~Exhausted(c) /\ e = ChargeRequest(c)
    BY <1>1, <1>6, <2>1 DEF GoalListGoal, OldCharge, Credits
  <2> HIDE DEF e
  <2>3. IsGoalExecution(e)
    BY <2>2, ChargeRequestMovesOne
  <2>4. [old EXCEPT !.execution = e] = h
    <3>1. [old EXCEPT !.execution = e] = Listed(old, w, e, old.creditedEvidence)
      BY <2>1, ListedWalks
    <3>2. h = Listed(old, w, e, old.creditedEvidence)
      BY <2>1, ListedWalks
    <3> QED
      BY <3>1, <3>2
  <2> HIDE DEF w
  <2>5. OldGoalOf("goalList", h) /\ OldCredits("goalList", h, paid)
    BY <1>2, <2>1, <2>3, GoalListSpent
  <2> HIDE DEF h
  <2> QED
    BY <1>1, <1>3, <1>6, <2>4, <2>5, WritesInv
<1> QED
  BY <1>1, <1>3, <1>4, <1>5, <1>6 DEF OldBuilds

LEMMA OldCompleteInv ==
  ASSUME UpgradeInv, OldComplete
  PROVE  UpgradeInv'
<1> DEFINE c == old.execution
           w == CompletionWalk(old)
           done == Walked(old, w)
           e == OldNextStep(c)
           h == Spent(old, w, e)
<1>1. /\ build # "current" /\ old # NoGoal /\ old.status = "active" /\ issued' = issued
      /\ paid' = IF build = "stepList" THEN {} ELSE paid
  BY DEF OldComplete, OldActive
<1>2. /\ build \in OldBuilds /\ OldGoalOf(build, old) /\ OldCredits(build, old, paid)
      /\ issued' \in Nat /\ paid' \in {paid, {}} /\ paid' \subseteq Evidence
  BY <1>1, OldFields
<1>3. CompleteCurrentStage(old) = done
  BY <1>2, WalksOf
<1>4. w \in Walk /\ Fits(w)
  BY <1>1, OldFields, CompletionWalkFits
<1> HIDE DEF w, done
<1>5. Writes(IF done.status = "complete" \/ build = "v1" THEN done
             ELSE [done EXCEPT !.execution = OldNextStep(@)])
  BY <1>3 DEF OldComplete
<1>6. CASE done.status = "complete" \/ build = "v1"
  BY <1>1, <1>2, <1>4, <1>5, <1>6, OldWalkInv DEF done
<1>7. ASSUME ~(done.status = "complete" \/ build = "v1"),
             done.execution = c, OldGoalOf(build, h), OldCredits(build, h, paid')
      PROVE  UpgradeInv'
  <2>1. Writes(h)
    BY <1>5, <1>7 DEF Spent, done
  <2> HIDE DEF h
  <2> QED
    BY <1>2, <1>7, <2>1, WritesInv
<1>8. CASE ~(done.status = "complete") /\ build = "preSplit"
  <2>1. PreSplitGoal(old) /\ old \in FullGoal(PreSplitExecution)
    BY <1>2, <1>8 DEF OldGoalOf, PreSplitGoal
  <2>2. c \in PreSplitExecution /\ c.noProgressRemaining <= c.noProgressLimit
    BY <2>1, FullFields DEF PreSplitGoal
  <2>3. c.generation \in Nat /\ c.totalLimit \in Nat
    BY <2>2 DEF PreSplitExecution, Positive
  <2>4. e = [c EXCEPT !.generation = c.generation + 1, !.totalRemaining = c.totalLimit]
    BY <1>8, <2>2 DEF OldNextStep, WithFreshList, Credits, PreSplitExecution
  <2>5. c.generation + 1 \in Nat
    BY <2>3
  <2>6. done.execution = c
    BY <2>1, FullWalks DEF done
  <2> HIDE DEF e, c
  <2>7. e \in PreSplitExecution
    BY <2>2, <2>3, <2>4, <2>5, Zenon DEF PreSplitExecution
  <2>8. e.noProgressRemaining <= e.noProgressLimit /\ e.totalRemaining <= e.totalLimit
    BY <2>2, <2>3, <2>4 DEF PreSplitExecution
  <2>9. OldGoalOf("preSplit", h)
    BY <1>4, <2>1, <2>7, <2>8, PreSplitWritten
  <2> HIDE DEF h
  <2>10. OldCredits("preSplit", h, paid')
    BY <1>2, <1>8 DEF OldCredits
  <2> QED
    BY <1>7, <1>8, <2>6, <2>9, <2>10
<1>9. CASE ~(done.status = "complete") /\ build = "stepList"
  <2> DEFINE n == NextStepExecution(c)
  <2>1. StepListGoal(old) /\ old \in FullGoal(StepListExecution)
    BY <1>2, <1>9 DEF OldGoalOf, StepListGoal
  <2>2. c \in StepListExecution /\ IsGoalExecution(Core(c))
    BY <2>1, FullFields DEF StepListGoal
  <2>3. e = WithFreshList(n)
    BY <1>9 DEF OldNextStep, Credits
  <2>4. n \in StepListExecution /\ Core(n) = NextStepExecution(Core(c))
    BY <2>2, NextStepAlike DEF Alike
  <2>5. IsGoalExecution(NextStepExecution(Core(c)))
    BY <2>2, NextStepKeepsLifetime
  <2>6. done.execution = c
    BY <2>1, FullWalks DEF done
  <2> HIDE DEF e, n
  <2>7. /\ e \in StepListExecution /\ IsGoalExecution(Core(e)) /\ e.creditedEvidence = <<>>
    BY <1>9, <2>3, <2>4, <2>5, FreshListAlike
  <2>8. Len(e.creditedEvidence) <= LegacyMaxCredited
    BY <2>7, UpgradeAssumption
  <2>9. OldGoalOf("stepList", h)
    BY <1>4, <2>1, <2>7, <2>8, StepListWritten
  <2> HIDE DEF h
  <2>10. OldCredits("stepList", h, paid')
    BY <1>1, <1>9, NothingPaid
  <2> QED
    BY <1>7, <1>9, <2>6, <2>9, <2>10
<1>10. CASE ~(done.status = "complete") /\ build = "goalList"
  <2>1. GoalListGoal(old) /\ old \in ListedGoal /\ OldCredits("goalList", old, paid)
    BY <1>2, <1>10 DEF OldGoalOf, GoalListGoal
  <2>2. IsGoalExecution(c) /\ e = NextStepExecution(c)
    BY <1>10, <2>1 DEF GoalListGoal, OldNextStep, WithFreshList, Credits
  <2>3. done.execution = c
    BY <2>1, ListedWalks DEF done
  <2> HIDE DEF e
  <2>4. IsGoalExecution(e)
    BY <2>2, NextStepKeepsLifetime
  <2>5. OldGoalOf("goalList", h) /\ OldCredits("goalList", h, paid)
    BY <1>4, <2>1, <2>4, GoalListSpent
  <2> HIDE DEF h
  <2>6. OldCredits("goalList", h, paid')
    BY <1>2, <2>5, NothingPaid
  <2> QED
    BY <1>7, <1>10, <2>3, <2>5, <2>6
<1> QED
  BY <1>2, <1>6, <1>8, <1>9, <1>10 DEF OldBuilds

(* A list takes one more reference, and the budget its grant.              *)
LEMMA OldCreditInv ==
  ASSUME UpgradeInv, OldCredit
  PROVE  UpgradeInv'
<1> DEFINE c == old.execution
           w == StatusWalk(old, old.status)
<1>1. PICK ref \in Evidence \ paid : paid' = paid \cup {ref} /\ Writes(OldCredited(old, ref))
  BY DEF OldCredit
<1>2. /\ build # "current" /\ old # NoGoal /\ old.status = "active" /\ Credits
      /\ issued' = issued
  BY DEF OldCredit, OldActive
<1>3. /\ build \in OldBuilds /\ OldGoalOf(build, old) /\ OldCredits(build, old, paid)
      /\ issued' \in Nat /\ paid' \subseteq Evidence
  BY <1>1, <1>2, OldFields
<1>4. w \in Walk /\ Fits(w)
  BY <1>2, OldFields, StatusWalkFits
<1>5. /\ LegacyMaxCredited \in Nat \ {0} /\ MaxCreditedEvidence \in Nat \ {0}
  BY UpgradeAssumption, CreditBoundsAssumption
<1> HIDE DEF w
<1>6. CASE build = "stepList"
  <2> DEFINE r == RenewForEvidence(c, 1)
             list == c.creditedEvidence
             keys == LastOf(Append(list, LegacyKey(ref)), LegacyMaxCredited)
             e == [r EXCEPT !.creditedEvidence = keys]
             h == Spent(old, w, e)
  <2>1. /\ StepListGoal(old) /\ old \in FullGoal(StepListExecution)
        /\ Remembers(list, LegacyMaxCredited, {LegacyKey(x) : x \in paid})
    BY <1>3, <1>6 DEF OldGoalOf, StepListGoal, OldCredits
  <2>2. /\ c \in StepListExecution /\ IsGoalExecution(Core(c))
        /\ Len(list) <= LegacyMaxCredited /\ list \in Seq(LegacyKeys)
    BY <2>1, FullFields, StepListIs DEF StepListGoal
  <2>3. /\ r \in StepListExecution /\ Core(r) = RenewForEvidence(Core(c), 1)
        /\ r.creditedEvidence = list
    BY <2>2, RenewAlike DEF Alike
  <2>4. IsGoalExecution(Core(r))
    BY <2>2, <2>3, RenewalIsBounded
  <2>5. OldRenewal(c, ref) = e
    BY <1>6, <2>3 DEF OldRenewal
  <2>6. OldCredited(old, ref) = [old EXCEPT !.execution = e]
    BY <1>6, <2>5 DEF OldCredited
  <2>7. LegacyKey(ref) \in LegacyKeys
    BY DEF LegacyKeys
  <2> HIDE DEF r, list
  <2>8. /\ keys \in Seq(LegacyKeys) /\ Len(keys) <= LegacyMaxCredited
        /\ Len(keys) < LegacyMaxCredited =>
             /\ Len(list) < LegacyMaxCredited
             /\ ToSet(keys) = ToSet(list) \cup {LegacyKey(ref)}
    BY <1>5, <2>2, <2>7, LastOfGrown
  <2> HIDE DEF keys
  <2>9. /\ e \in StepListExecution /\ Core(e) = Core(r) /\ e.creditedEvidence = keys
    BY <2>3, <2>8, RelistedAlike
  <2> HIDE DEF e
  <2>10. OldGoalOf("stepList", h) /\ h.execution = e
    BY <1>4, <2>1, <2>4, <2>8, <2>9, StepListWritten
  <2>11. [old EXCEPT !.execution = e] = h
    BY <2>1, FullWalks DEF w
  <2> HIDE DEF h
  <2>12. Remembers(keys, LegacyMaxCredited, {LegacyKey(x) : x \in paid'})
    BY <1>1, <2>1, <2>8 DEF Remembers
  <2>13. OldCredits("stepList", h, paid')
    BY <2>9, <2>10, <2>12 DEF OldCredits
  <2> QED
    BY <1>1, <1>3, <1>6, <2>6, <2>10, <2>11, <2>13, WritesInv
<1>7. CASE build = "goalList"
  <2> DEFINE e == RenewForEvidence(c, 1)
             had == old.creditedEvidence
             list == LastOf(Append(had, ref), MaxCreditedEvidence)
             h == Listed(old, w, e, list)
  <2>1. /\ GoalListGoal(old) /\ old \in ListedGoal /\ had \in Seq(Evidence)
        /\ Len(had) <= MaxCreditedEvidence /\ IsGoalExecution(c)
        /\ Remembers(had, MaxCreditedEvidence, paid)
    BY <1>3, <1>7, ListedFields DEF OldGoalOf, GoalListGoal, OldCredits
  <2>2. IsGoalExecution(e)
    BY <2>1, RenewalIsBounded
  <2>3. OldRenewal(c, ref) = e
    BY <1>7 DEF OldRenewal
  <2> HIDE DEF e
  <2>4. OldCredited(old, ref) = [old EXCEPT !.execution = e, !.creditedEvidence = list]
    BY <1>7, <2>1, <2>3 DEF OldCredited, ListedGoal
  <2> HIDE DEF had
  <2>5. /\ list \in Seq(Evidence) /\ Len(list) <= MaxCreditedEvidence
        /\ Len(list) < MaxCreditedEvidence =>
             /\ Len(had) < MaxCreditedEvidence
             /\ ToSet(list) = ToSet(had) \cup {ref}
    <3>1. ref \in Evidence
      BY <1>1
    <3>2. had \in Seq(Evidence) /\ Len(had) <= MaxCreditedEvidence
      BY <2>1
    <3> QED
      BY <1>5, <3>1, <3>2, LastOfGrown
  <2> HIDE DEF list
  <2>6. OldGoalOf("goalList", h) /\ h.creditedEvidence = list
    BY <1>4, <2>1, <2>2, <2>5, GoalListWritten
  <2>7. [old EXCEPT !.execution = e, !.creditedEvidence = list] = h
    <3>1. \A x, y : [old EXCEPT !.execution = x, !.creditedEvidence = y]
                      = Listed(old, StatusWalk(old, old.status), x, y)
      BY <2>1, ListedWalks
    <3> QED
      BY <3>1, Zenon DEF w
  <2> HIDE DEF h
  <2>8. Remembers(list, MaxCreditedEvidence, paid')
    BY <1>1, <2>1, <2>5 DEF Remembers
  <2>9. OldCredits("goalList", h, paid')
    BY <2>6, <2>8 DEF OldCredits
  <2> QED
    BY <1>1, <1>3, <1>7, <2>4, <2>6, <2>7, <2>9, WritesInv
<1> QED
  BY <1>2, <1>6, <1>7 DEF Credits

(* What an older build starts with.                                        *)
LEMMA FirstStages ==
  ASSUME NEW steps \in Nat, steps > 0,
         NEW ss, ss = [i \in 1..steps |-> IF i = 1 THEN "active" ELSE "pending"]
  PROVE  ss \in Seq(StageStatus) /\ StepsFit(ss, 0, "active")
<1>1. ss \in Seq(StageStatus) /\ Len(ss) = steps
  BY DEF StageStatus
<1>2. DOMAIN ss = 1..steps /\ ss[0 + 1] = "active"
  OBVIOUS
<1>3. \A i \in DOMAIN ss : ss[i] = "active" => i = 0 + 1
  OBVIOUS
<1> QED
  BY <1>1, <1>2, <1>3 DEF StepsFit

LEMMA OldTotalLimits ==
  ASSUME NEW total \in OldTotals, Credits
  PROVE  IsGoalExecution(OldExecution(total))
<1> DEFINE limits == [DefaultLimits EXCEPT !.totalLimit = total]
<1>1. total \in Positive /\ DefaultLimits \in LimitSettings
  BY UpgradeAssumption
<1>2. limits \in LimitSettings
  BY <1>1, Zenon DEF LimitSettings
<1> HIDE DEF limits
<1>3. IsGoalExecution(FreshExecution(limits))
  BY <1>2, FreshIsReadable
<1> QED
  BY <1>3 DEF OldExecution, limits

LEMMA OldGoalIs ==
  ASSUME build \in OldBuilds, NEW id \in Nat, NEW steps \in Nat, steps > 0, NEW total \in OldTotals
  PROVE  OldGoalOf(build, OldGoal(id, steps, total))
<1> DEFINE stages == [i \in 1..steps |-> IF i = 1 THEN "active" ELSE "pending"]
           bare == [goalId |-> id, status |-> "active", index |-> 0, stages |-> stages]
           e == WithFreshList(OldExecution(total))
           rest == [memory |-> EmptyMemory, pauseReason |-> "none", execution |-> e]
           full == FilledFrom(bare, rest)
           g == OldGoal(id, steps, total)
<1>1. stages \in Seq(StageStatus) /\ StepsFit(stages, 0, "active")
  BY FirstStages
<1>2. g = IF build = "v1" THEN bare
          ELSE IF build = "goalList" THEN FilledFrom(full, [creditedEvidence |-> <<>>])
          ELSE full
  BY DEF OldGoal
<1> HIDE DEF stages, e, g
<1>3. full = [ goalId |-> id, status |-> "active", index |-> 0, stages |-> stages,
               memory |-> EmptyMemory, pauseReason |-> "none", execution |-> e ]
  <2>1. DOMAIN bare \cup DOMAIN rest = {"goalId", "status", "index", "stages", "memory", "pauseReason", "execution"}
    OBVIOUS
  <2> QED
    BY <2>1 DEF FilledFrom
<1>4. /\ 0 \in Nat /\ "active" \in GoalStatus /\ EmptyMemory \in Memory /\ "none" \in PauseReasons
      /\ total \in Nat /\ total > 0
  BY UpgradeAssumption DEF GoalStatus, EmptyMemory, Memory, PauseReasons, Positive
<1> HIDE DEF full
<1>5. CASE build = "v1"
  <2>1. bare \in BareGoal
    BY <1>1, <1>4 DEF BareGoal
  <2>2. Shaped(bare)
    BY <1>1 DEF Shaped
  <2> QED
    BY <1>2, <1>5, <2>1, <2>2 DEF OldGoalOf, g
<1>6. CASE build = "preSplit"
  <2>1. e = [ generation |-> 0, noProgressRemaining |-> DefaultLimits.noProgressLimit,
              totalRemaining |-> total, lifetimeRequests |-> 0,
              noProgressLimit |-> DefaultLimits.noProgressLimit, totalLimit |-> total ]
    BY <1>6 DEF e, WithFreshList, OldExecution, Credits
  <2>2. DefaultLimits.noProgressLimit \in Positive
    BY UpgradeAssumption DEF LimitSettings
  <2>3. e \in PreSplitExecution
    BY <1>4, <2>1, <2>2 DEF PreSplitExecution, Positive
  <2>4. e.noProgressRemaining <= e.noProgressLimit /\ e.totalRemaining <= e.totalLimit
    BY <1>4, <2>1, <2>2 DEF Positive
  <2>5. full \in FullGoal(PreSplitExecution)
    BY <1>1, <1>3, <1>4, <2>3 DEF FullGoal
  <2>6. Shaped(full) /\ full.pauseReason = "none" /\ full.execution = e
    BY <1>1, <1>3 DEF Shaped
  <2> QED
    BY <1>2, <1>6, <2>4, <2>5, <2>6 DEF OldGoalOf, PreSplitGoal, g
<1>7. CASE build = "stepList"
  <2> DEFINE x == OldExecution(total)
  <2>1. IsGoalExecution(x) /\ x \in ExecutionRecord
    BY <1>7, OldTotalLimits DEF Credits, IsGoalExecution
  <2> HIDE DEF x
  <2>2. e = WithFreshList(x)
    BY DEF e, x
  <2>3. e \in StepListExecution /\ Core(e) = Core(x) /\ e.creditedEvidence = <<>>
    BY <1>7, <2>1, <2>2, FreshListAlike
  <2>4. IsGoalExecution(Core(e))
    BY <2>1, <2>3, CurrentIs
  <2>5. Len(e.creditedEvidence) <= LegacyMaxCredited
    BY <2>3, UpgradeAssumption
  <2>6. full \in FullGoal(StepListExecution)
    BY <1>1, <1>3, <1>4, <2>3 DEF FullGoal
  <2>7. Shaped(full) /\ full.pauseReason = "none" /\ full.execution = e
    BY <1>1, <1>3 DEF Shaped
  <2> QED
    BY <1>2, <1>7, <2>4, <2>5, <2>6, <2>7 DEF OldGoalOf, StepListGoal, g
<1>8. CASE build = "goalList"
  <2>1. IsGoalExecution(e) /\ e \in ExecutionRecord
    BY <1>8, OldTotalLimits DEF e, WithFreshList, Credits, IsGoalExecution
  <2> DEFINE listed == FilledFrom(full, [creditedEvidence |-> <<>>])
  <2>2. listed = [ goalId |-> id, status |-> "active", index |-> 0, stages |-> stages,
                   memory |-> EmptyMemory, pauseReason |-> "none", execution |-> e,
                   creditedEvidence |-> <<>> ]
    <3>1. DOMAIN full \cup DOMAIN [creditedEvidence |-> <<>>]
            = {"goalId", "status", "index", "stages", "memory", "pauseReason", "execution",
               "creditedEvidence"}
      BY <1>3
    <3> QED
      BY <1>3, <3>1 DEF FilledFrom
  <2> HIDE DEF listed
  <2>3. <<>> \in Seq(Evidence) /\ Len(<<>>) <= MaxCreditedEvidence
    BY CreditBoundsAssumption
  <2>4. listed \in ListedGoal
    BY <1>1, <1>4, <2>1, <2>2, <2>3 DEF ListedGoal
  <2>5. /\ Shaped(listed) /\ listed.pauseReason = "none" /\ listed.execution = e
        /\ listed.creditedEvidence = <<>>
    BY <1>1, <2>2 DEF Shaped
  <2> QED
    BY <1>2, <1>8, <2>1, <2>3, <2>4, <2>5 DEF OldGoalOf, GoalListGoal, g, listed
<1> QED
  BY <1>5, <1>6, <1>7, <1>8 DEF OldBuilds

LEMMA OldStartInv ==
  ASSUME UpgradeInv, OldStart
  PROVE  UpgradeInv'
<1>1. PICK steps \in 1..MaxSteps : \E total \in OldTotals : Writes(OldGoal(issued + 1, steps, total))
  BY DEF OldStart
<1>2. PICK total \in OldTotals : Writes(OldGoal(issued + 1, steps, total))
  BY <1>1
<1>3. /\ build \in OldBuilds /\ issued + 1 \in Nat /\ issued' \in Nat /\ paid' = {}
      /\ steps \in Nat /\ steps > 0
  BY LedgerAssumption DEF OldStart, UpgradeInv, UpgradeTypeOK, LedgerTypeOK
<1> DEFINE g == OldGoal(issued + 1, steps, total)
<1>4. OldGoalOf(build, g)
  BY <1>3, OldGoalIs
<1> HIDE DEF g
<1>5. OldCredits(build, g, paid') /\ paid' \subseteq Evidence
  BY <1>3, NothingPaid
<1>6. Writes(g)
  BY <1>2 DEF g
<1> QED
  BY <1>3, <1>4, <1>5, <1>6, WritesInv

LEMMA OldClearInv ==
  ASSUME UpgradeInv, OldClear
  PROVE  UpgradeInv'
<1>1. /\ old' = NoGoal /\ committed' = NoGoal
      /\ UNCHANGED <<issued, build, paid, confirmed>>
  BY DEF OldClear
<1>2. UpgradeTypeOK'
  BY <1>1 DEF UpgradeInv, UpgradeTypeOK, LedgerTypeOK
<1> QED
  BY <1>1, <1>2 DEF UpgradeInv, ReadBack

-----------------------------------------------------------------------------
(* The invariant.                                                          *)

LEMMA UpgradeInitInv ==
  ASSUME UpgradeInit
  PROVE  UpgradeInv
<1>1. /\ committed = NoGoal /\ issued = 0 /\ build \in OldBuilds /\ old = NoGoal
      /\ paid = {} /\ confirmed = FALSE
  BY DEF UpgradeInit, LedgerInit
<1>2. UpgradeTypeOK
  BY <1>1 DEF UpgradeTypeOK, LedgerTypeOK
<1>3. build # "current"
  BY <1>1 DEF OldBuilds
<1> QED
  BY <1>1, <1>2, <1>3 DEF UpgradeInv, ReadBack

(* A step of the record that has nothing to do with older builds.          *)
LEMMA MovesOn ==
  ASSUME UpgradeInv,
         \/ Moves(Clear) \/ Moves(Pause) \/ Moves(ExhaustionPause) \/ Moves(Block)
         \/ Moves(SpendRequest) \/ Moves(BeginTurn) \/ Moves(Complete) \/ Moves(Credit)
         \/ Moves(Restore)
  PROVE  build = "current" /\ UNCHANGED <<build, old, paid, confirmed>> /\ GoesOn
<1>1. /\ build = "current" /\ UNCHANGED <<build, old, paid, confirmed>>
      /\ \/ Clear \/ Pause \/ ExhaustionPause \/ Block
         \/ SpendRequest \/ BeginTurn \/ Complete \/ Credit \/ Restore
  BY Zenon DEF Moves
<1> QED
  BY <1>1, RecordGoesOn

LEMMA UpgradeStutters ==
  ASSUME UpgradeInv, UNCHANGED upgradeVars
  PROVE  UpgradeInv'
BY DEF UpgradeInv, UpgradeTypeOK, LedgerTypeOK, ReadBack, OldGoalOf, OldCredits, upgradeVars,
       OldBuilds, IsOldMultiGoal, CloneGoal, MigrateV1Goal

LEMMA UpgradeNextInv ==
  ASSUME UpgradeInv, [UpgradeNext]_upgradeVars
  PROVE  UpgradeInv'
<1>1. CASE OldStart
  BY <1>1, OldStartInv
<1>2. CASE OldClear
  BY <1>2, OldClearInv
<1>3. CASE OldSpend
  BY <1>3, OldSpendInv
<1>4. CASE OldCredit
  BY <1>4, OldCreditInv
<1>5. CASE OldPause
  BY <1>5, OldPauseInv
<1>6. CASE OldResume
  BY <1>6, OldResumeInv
<1>7. CASE OldComplete
  BY <1>7, OldCompleteInv
<1>8. CASE Upgrade
  BY <1>8, UpgradeStepInv
<1>9. CASE NewGoalStarts
  BY <1>9, NewGoalStartsInv
<1>10. CASE GoalResumes
  BY <1>10, ResumesInv
<1>11. CASE \/ Moves(Clear) \/ Moves(Pause) \/ Moves(ExhaustionPause) \/ Moves(Block)
            \/ Moves(SpendRequest) \/ Moves(BeginTurn) \/ Moves(Complete) \/ Moves(Credit)
            \/ Moves(Restore)
  BY <1>11, MovesOn, GoesOnInv
<1>12. CASE UNCHANGED upgradeVars
  BY <1>12, UpgradeStutters
<1> QED
  BY <1>1, <1>2, <1>3, <1>4, <1>5, <1>6, <1>7, <1>8, <1>9, <1>10, <1>11, <1>12
  DEF UpgradeNext

(* In every state, whichever build runs, the committed goal is one this    *)
(* build accepts, it runs only with criteria, and what the older build     *)
(* paid is on its record or its cap is used up.                            *)
THEOREM UpgradeInvariant == UpgradeSpec => []UpgradeInv
<1>1. UpgradeInit => UpgradeInv
  BY UpgradeInitInv
<1>2. UpgradeInv /\ [UpgradeNext]_upgradeVars => UpgradeInv'
  BY UpgradeNextInv
<1> QED
  BY <1>1, <1>2, PTL DEF UpgradeSpec

(* What the reader of an older snapshot makes of it is a goal record.      *)
THEOREM UpgradeTypes == UpgradeSpec => []UpgradeTypeOK
<1>1. UpgradeInv => UpgradeTypeOK
  BY DEF UpgradeInv
<1> QED
  BY <1>1, UpgradeInvariant, PTL

(* Whatever the older build left, this build's reader accepts the goal it  *)
(* makes of it and all that follows from it; and no goal without criteria  *)
(* ever runs (cloneGoal, migrateV1Goal, isMultiGoal, setGoalStatus).       *)
THEOREM UpgradedGoalsLoad == UpgradeSpec => []UpgradedIsLoadable
<1>1. UpgradeInv => UpgradedIsLoadable
  <2>1. UpgradeInv => (committed # NoGoal => IsMultiGoal(committed))
    BY AcceptableIsReadable DEF UpgradeInv
  <2>2. UpgradeInv => ((committed # NoGoal /\ committed.status \in {"active", "blocked"}) => confirmed)
    BY DEF UpgradeInv, Runs
  <2> QED
    BY <2>1, <2>2 DEF UpgradedIsLoadable, IsSnapshot
<1> QED
  BY <1>1, UpgradeInvariant, PTL

(* The steps, the place among them and what was spent are read as the      *)
(* older build wrote them.                                                 *)
LEMMA CloneCarries ==
  ASSUME NEW g
  PROVE  /\ CloneGoal(g).goalId = g.goalId /\ CloneGoal(g).index = g.index
         /\ CloneGoal(g).stages = g.stages /\ CloneGoal(g).status = g.status
         /\ CloneGoal(g).execution = NormalizeExecution(g.execution)
BY DEF CloneGoal

LEMMA PreSplitCarried ==
  ASSUME NEW e \in PreSplitExecution, NEW f \in DOMAIN e
  PROVE  NormalizeExecution(e)[f] = e[f]
<1>1. NormalizeExecution(e) = Filled(e)
  BY FilledIs
<1>2. DOMAIN e = {"generation", "noProgressRemaining", "totalRemaining",
                  "lifetimeRequests", "noProgressLimit", "totalLimit"}
  BY DEF PreSplitExecution
<1> QED
  BY <1>1, <1>2 DEF Filled

LEMMA StepListCarried ==
  ASSUME NEW e \in StepListExecution, NEW f \in DOMAIN e \ {"creditedEvidence"}
  PROVE  NormalizeExecution(e)[f] = e[f]
<1>1. NormalizeExecution(e) = Core(e) /\ f \in CoreNames
  BY StepListIs
<1> QED
  BY <1>1 DEF Core, CoreNames

LEMMA OldIsCarried ==
  ASSUME UpgradeInv
  PROVE  KeepsOldProgress
<1> SUFFICES ASSUME old # NoGoal,
                    build # "v1" =>
                      old.execution.lifetimeRequests <= DefaultLimits.lifetimeCeiling
             PROVE  CarriesOver(old)
  BY DEF KeepsOldProgress
<1>1. build \in OldBuilds /\ OldGoalOf(build, old) /\ ReadBack
  BY DEF UpgradeInv, UpgradeTypeOK
<1>2. CASE build = "v1"
  <2>1. old \in BareGoal /\ Shaped(old) /\ committed = MigrateV1Goal(old)
    BY <1>1, <1>2 DEF OldGoalOf, ReadBack
  <2>2. committed # NoGoal
    BY <2>1, MigratedAcceptable, AcceptableTypes
  <2>3. /\ committed.goalId = old.goalId /\ committed.index = old.index
        /\ committed.stages = old.stages
    BY <2>1 DEF MigrateV1Goal
  <2> QED
    BY <1>2, <2>2, <2>3 DEF CarriesOver
<1>3. ASSUME build # "v1", IsOldMultiGoal(old), Acceptable(CloneGoal(old)),
             \A f \in DOMAIN old.execution \ {"creditedEvidence"} :
               NormalizeExecution(old.execution)[f] = old.execution[f]
      PROVE  CarriesOver(old)
  <2>1. committed = CloneGoal(old)
    BY <1>1, <1>3 DEF ReadBack
  <2>2. committed # NoGoal
    BY <1>3, <2>1, AcceptableTypes
  <2> QED
    BY <1>3, <2>1, <2>2, CloneCarries DEF CarriesOver
<1>4. CASE build = "preSplit"
  <2>1. PreSplitGoal(old) /\ old.execution \in PreSplitExecution
    BY <1>1, <1>4, FullFields DEF OldGoalOf, PreSplitGoal
  <2>2. IsOldMultiGoal(old) /\ Acceptable(CloneGoal(old))
    BY <1>4, <2>1, PreSplitRead
  <2> QED
    BY <1>3, <1>4, <2>1, <2>2, PreSplitCarried
<1>5. CASE build = "stepList"
  <2>1. StepListGoal(old) /\ old.execution \in StepListExecution
    BY <1>1, <1>5, FullFields DEF OldGoalOf, StepListGoal
  <2>2. IsOldMultiGoal(old) /\ Acceptable(CloneGoal(old))
    BY <2>1, StepListRead
  <2> QED
    BY <1>3, <1>5, <2>1, <2>2, StepListCarried
<1>6. CASE build = "goalList"
  <2>1. GoalListGoal(old) /\ old.execution \in ExecutionRecord
    BY <1>1, <1>6, ListedFields DEF OldGoalOf, GoalListGoal
  <2>2. IsOldMultiGoal(old) /\ Acceptable(CloneGoal(old))
    BY <2>1, GoalListRead
  <2>3. NormalizeExecution(old.execution) = old.execution
    BY <2>1, CurrentIs
  <2> QED
    BY <1>3, <1>6, <2>2, <2>3
<1> QED
  BY <1>1, <1>2, <1>4, <1>5, <1>6 DEF OldBuilds

(* No progress and no spending is lost in the upgrade, whatever the total  *)
(* of the goal was and whichever limits its build had, as long as it has   *)
(* not spent more than the default lifetime ceiling (orderedLimits).       *)
THEOREM OldProgressIsKept == UpgradeSpec => []KeepsOldProgress
<1>1. UpgradeInv => KeepsOldProgress
  BY OldIsCarried
<1> QED
  BY <1>1, UpgradeInvariant, PTL

(* A new goal starts with nothing credited.                                *)
LEMMA NewGoalHasNoCredit ==
  ASSUME UpgradeInv, NewGoalStarts, committed' # committed
  PROVE  committed'.creditedEvidence = {}
<1>1. PICK steps \in 1..MaxSteps : committed' \in Settled(NewGoal(issued + 1, steps, Limits))
  BY DEF NewGoalStarts, Start
<1> DEFINE g == NewGoal(issued + 1, steps, Limits)
<1>2. steps \in Nat /\ steps > 0 /\ issued + 1 \in Nat
  BY LedgerAssumption DEF UpgradeInv, UpgradeTypeOK, LedgerTypeOK
<1>3. Acceptable(g)
  BY <1>2, LedgerAssumption, NewGoalSound, SoundIsAcceptable
<1>4. g.creditedEvidence = {}
  BY DEF NewGoal
<1>5. committed' = g \/ (committed' = PauseForExhaustion(g) /\ IsActive(g))
  BY <1>1 DEF Settled
<1> HIDE DEF g
<1>6. IsActive(g) => PauseForExhaustion(g).creditedEvidence = g.creditedEvidence
  BY <1>3, ExhaustionPauseAdvances
<1> QED
  BY <1>4, <1>5, <1>6

LEMMA AdvanceIsPaidOnce ==
  ASSUME UpgradeInv, committed # NoGoal, Advances(committed, committed')
  PROVE  (committed'.creditedEvidence \ committed.creditedEvidence) \cap paid = {}
<1>1. Acceptable(committed) /\ PaysOnce(committed, paid)
  BY DEF UpgradeInv
<1> QED
  BY <1>1, AdvancesKeepsPaid

LEMMA StepIsPaidOnce ==
  ASSUME UpgradeInv, UpgradeNext, build = "current", SameGoalStep
  PROVE  (committed'.creditedEvidence \ committed.creditedEvidence) \cap paid = {}
<1>1. CASE NewGoalStarts
  BY <1>1, NewGoalHasNoCredit
<1>2. CASE GoalResumes
  BY <1>2, ResumesInv, AdvanceIsPaidOnce
<1>3. CASE \/ Moves(Clear) \/ Moves(Pause) \/ Moves(ExhaustionPause) \/ Moves(Block)
           \/ Moves(SpendRequest) \/ Moves(BeginTurn) \/ Moves(Complete) \/ Moves(Credit)
           \/ Moves(Restore)
  BY <1>3, MovesOn, AdvanceIsPaidOnce DEF GoesOn, SameGoalStep
<1>4. ~OldStart /\ ~OldClear /\ ~OldSpend /\ ~OldCredit /\ ~OldPause /\ ~OldResume
      /\ ~OldComplete /\ ~Upgrade
  BY DEF OldStart, OldClear, OldSpend, OldCredit, OldPause, OldResume, OldComplete, Upgrade,
         OldActive
<1> QED
  BY <1>1, <1>2, <1>3, <1>4 DEF UpgradeNext

(* A reference the older build has paid for, remembered or evicted, is not *)
(* paid for again by this one (migrateCreditedEvidence,                    *)
(* migrateCreditGrants, creditVerifiedEvidence).                           *)
THEOREM NothingPaidTwice == UpgradeSpec => PaidOnceAcrossUpgrade
<1>1. UpgradeInv /\ [UpgradeNext]_upgradeVars =>
        [(build = "current" /\ SameGoalStep) =>
           (committed'.creditedEvidence \ committed.creditedEvidence) \cap paid = {}]_upgradeVars
  BY StepIsPaidOnce
<1> QED
  BY <1>1, UpgradeInvariant, PTL DEF UpgradeSpec, PaidOnceAcrossUpgrade

=============================================================================
