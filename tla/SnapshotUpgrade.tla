---------------------------- MODULE SnapshotUpgrade ----------------------------
(***************************************************************************)
(* A goal that an older build left in the session, read by this one        *)
(* (cloneGoal, isMultiGoal, migrateV1Goal and reconstructGoal of           *)
(* src/src/state.ts).  While the older build runs, `committed` is the goal *)
(* this build would find if it were started at that moment; Upgrade starts *)
(* it, and from there the goal takes the steps of GoalLedger.              *)
(*                                                                         *)
(* The older builds are not in the repository.  They are modelled from     *)
(* what the reader says of them: which fields they lacked, which list of   *)
(* paid references they kept, and how long.                                *)
(***************************************************************************)
EXTENDS GoalLedger, SequencesExt

CONSTANTS
  DefaultLimits,     \* the DEFAULT_* limits of types.ts
  OldTotals,         \* working totals that older goals were given
  LegacyMaxCredited  \* LEGACY_MAX_CREDITED_EVIDENCE

ASSUME UpgradeAssumption ==
  /\ DefaultLimits \in LimitSettings
  /\ OldTotals \subseteq Positive
  /\ LegacyMaxCredited \in 1..MaxCreditedEvidence

(* v1 has neither contracts nor budgets; preSplit has a total per step and *)
(* no other limit; stepList keeps the paid references with the grant of a  *)
(* step, goalList with the goal; none of them counts the credits.          *)
OldBuilds == {"v1", "preSplit", "stepList", "goalList"}

VARIABLES
  build,      \* the build that runs the session
  old,        \* the last snapshot an older build wrote, field for field
  paid,       \* the references that build has paid for, as far back as it dedupes
  confirmed   \* the runnable steps of the committed goal have criteria

upgradeVars == <<committed, issued, build, old, paid, confirmed>>

-----------------------------------------------------------------------------
(* The reader.                                                             *)

FillableLimits == {"turnLimit", "evidenceGrant", "lifetimeCeiling"}

(* A record, with the fields it lacks taken from the defaults.             *)
FilledFrom(record, defaults) ==
  [f \in DOMAIN record \cup DOMAIN defaults |->
     IF f \in DOMAIN record THEN record[f] ELSE defaults[f]]

(* Faulty: absent limits take flat defaults.                               *)
OrderedLimitsFlat(e) ==
  FilledFrom(Restrict(e, DOMAIN e \cap FillableLimits), Restrict(DefaultLimits, FillableLimits))

(* An absent limit takes a default that fits the total the record has; a   *)
(* present one is never touched.                                           *)
OrderedLimits(e) ==
  FilledFrom(
    Restrict(e, DOMAIN e \cap FillableLimits),
    [ turnLimit       |-> Least(DefaultLimits.turnLimit, e.totalLimit),
      evidenceGrant   |-> DefaultLimits.evidenceGrant,
      lifetimeCeiling |-> Greatest(DefaultLimits.lifetimeCeiling, e.totalLimit) ])

NormalizeExecution(e) ==
  FilledFrom(
    Restrict(e, DOMAIN e \ {"creditedEvidence"}),
    FilledFrom([turnRequests |-> 0], OrderedLimits(e)))

(* The list of a step held the keys themselves, that of a goal digests.    *)
LegacyKey(ref) == <<"key", ref>>

CreditKeyDigest(key) == key[2]

OwnList(g) == IF "creditedEvidence" \in DOMAIN g THEN g.creditedEvidence ELSE <<>>

LegacyList(g) ==
  IF "creditedEvidence" \in DOMAIN g.execution THEN g.execution.creditedEvidence ELSE <<>>

LastOf(list, n) == SubSeq(list, Greatest(1, Len(list) - n + 1), Len(list))

(* Faulty: the keys of a step's list are taken over as they are.           *)
MigrateCreditedEvidenceRaw(g) ==
  IF "creditedEvidence" \in DOMAIN g THEN OwnList(g)
  ELSE LastOf(LegacyList(g), LegacyMaxCredited)

MigrateCreditedEvidence(g) ==
  IF "creditedEvidence" \in DOMAIN g THEN OwnList(g)
  ELSE LET kept == LastOf(LegacyList(g), LegacyMaxCredited)
       IN  [i \in DOMAIN kept |-> CreditKeyDigest(kept[i])]

(* Faulty: a list that may have evicted credits is taken for their count.  *)
MigrateCreditGrantsCounted(g, execution) == Len(MigrateCreditedEvidence(g))

(* A full list may have forgotten credits: the cap is taken as used up.    *)
MigrateCreditGrants(g, execution) ==
  LET count     == Len(MigrateCreditedEvidence(g))
      retention == IF "creditedEvidence" \in DOMAIN g THEN MaxCreditedEvidence
                   ELSE LegacyMaxCredited
  IN  IF count >= retention THEN Greatest(CreditGrantCap(execution), count) ELSE count

CloneGoal(g) ==
  LET execution == NormalizeExecution(g.execution) IN
  [ goalId           |-> g.goalId,
    status           |-> g.status,
    index            |-> g.index,
    stages           |-> g.stages,
    memory           |-> g.memory,
    execution        |-> execution,
    pauseReason      |-> g.pauseReason,
    creditedEvidence |-> ToSet(MigrateCreditedEvidence(g)),
    creditGrants     |-> MigrateCreditGrants(g, execution) ]

(* isMultiGoal on the record as it was written: counters are held to the   *)
(* limits they will be loaded with.  These builds' steps have criteria.    *)
IsOldMultiGoal(g) ==
  /\ IsGoalExecution(NormalizeExecution(g.execution))
  /\ Len(LegacyList(g)) <= LegacyMaxCredited
  /\ Len(OwnList(g)) <= MaxCreditedEvidence
  /\ g.index < StageCount(g)
  /\ \A i \in DOMAIN g.stages : g.stages[i] = "active" => i = g.index + 1
  /\ g.status = "active" => CurrentStatus(g) = "active"

(* A version-1 goal has no criteria: it is paused until a human confirms   *)
(* some, with a fresh grant of the default limits.                         *)
MigrateV1Goal(g) ==
  LET complete == g.status = "complete" IN
  [ goalId           |-> g.goalId,
    status           |-> IF complete THEN "complete" ELSE "paused",
    index            |-> g.index,
    stages           |-> g.stages,
    memory           |-> EmptyMemory,
    execution        |-> FreshExecution(DefaultLimits),
    pauseReason      |-> IF complete THEN "none" ELSE "migrated",
    creditedEvidence |-> {},
    creditGrants     |-> 0 ]

(* reconstructGoal over one more entry: what it cannot read it skips.      *)
Reconstruct(g) ==
  IF build = "v1" THEN MigrateV1Goal(g)
  ELSE IF IsOldMultiGoal(g) THEN CloneGoal(g)
  ELSE committed

-----------------------------------------------------------------------------
(* The older builds.                                                       *)

UpgradeInit ==
  /\ LedgerInit
  /\ build \in OldBuilds
  /\ old = NoGoal
  /\ paid = {}
  /\ confirmed = FALSE

Writes(g) ==
  /\ old' = g
  /\ committed' = Reconstruct(g)
  /\ confirmed' = (build # "v1")
  /\ UNCHANGED build

OldActive == build # "current" /\ old # NoGoal /\ old.status = "active"

(* Credits came with the limits of the budget split.                       *)
Credits == build \in {"stepList", "goalList"}

OldExecution(total) ==
  IF Credits THEN FreshExecution([DefaultLimits EXCEPT !.totalLimit = total])
  ELSE [ generation |-> 0, noProgressRemaining |-> DefaultLimits.noProgressLimit,
         totalRemaining |-> total, lifetimeRequests |-> 0,
         noProgressLimit |-> DefaultLimits.noProgressLimit, totalLimit |-> total ]

(* A step's list starts empty with its grant.                              *)
WithFreshList(e) ==
  IF build = "stepList" THEN FilledFrom([creditedEvidence |-> <<>>], e) ELSE e

OldGoal(id, steps, total) ==
  LET bare == [ goalId |-> id, status |-> "active", index |-> 0,
                stages |-> [i \in 1..steps |-> IF i = 1 THEN "active" ELSE "pending"] ]
      full == FilledFrom(bare, [ memory |-> EmptyMemory, pauseReason |-> "none",
                                 execution |-> WithFreshList(OldExecution(total)) ])
  IN  CASE build = "v1" -> bare
        [] build = "goalList" -> FilledFrom(full, [creditedEvidence |-> <<>>])
        [] OTHER -> full

OldStart ==
  /\ build # "current" /\ old = NoGoal /\ issued < MaxGoals
  /\ issued' = issued + 1
  /\ paid' = {}
  /\ \E steps \in 1..MaxSteps, total \in OldTotals : Writes(OldGoal(issued + 1, steps, total))

(* A clear entry of either version is read as no goal.                     *)
OldClear ==
  /\ build # "current" /\ old # NoGoal
  /\ old' = NoGoal /\ committed' = NoGoal
  /\ UNCHANGED <<issued, build, paid, confirmed>>

OldCharge(e) ==
  IF Credits THEN ChargeRequest(e)
  ELSE [e EXCEPT !.totalRemaining = @ - 1, !.lifetimeRequests = @ + 1]

OldSpend ==
  /\ OldActive /\ build # "v1"
  /\ old.execution.totalRemaining > 0
  /\ Credits => ~Exhausted(old.execution)
  /\ Writes([old EXCEPT !.execution = OldCharge(@)])
  /\ UNCHANGED <<issued, paid>>

(* A reference that the list does not hold pays; the list forgets the      *)
(* oldest when it is full.                                                 *)
OldRenewal(e, ref) ==
  LET renewed == RenewForEvidence(e, 1) IN
  IF build = "stepList"
  THEN [renewed EXCEPT !.creditedEvidence =
          LastOf(Append(@, LegacyKey(ref)), LegacyMaxCredited)]
  ELSE renewed

OldCredited(g, ref) ==
  LET renewed == [g EXCEPT !.execution = OldRenewal(@, ref)] IN
  IF build = "goalList"
  THEN [renewed EXCEPT !.creditedEvidence = LastOf(Append(@, ref), MaxCreditedEvidence)]
  ELSE renewed

OldCredit ==
  /\ OldActive /\ Credits
  /\ \E ref \in Evidence \ paid : paid' = paid \cup {ref} /\ Writes(OldCredited(old, ref))
  /\ UNCHANGED issued

OldPause ==
  /\ OldActive
  /\ Writes(PauseGoal(old))
  /\ UNCHANGED <<issued, paid>>

OldResume ==
  /\ build # "current" /\ old # NoGoal /\ old.status = "paused"
  /\ Writes(IF Credits THEN ApplyResumeGrant([old EXCEPT !.status = "active"])
            ELSE [old EXCEPT !.status = "active"])
  /\ UNCHANGED <<issued, paid>>

OldNextStep(e) ==
  WithFreshList(IF Credits THEN NextStepExecution(e)
                ELSE [e EXCEPT !.generation = @ + 1, !.totalRemaining = e.totalLimit])

OldComplete ==
  /\ OldActive
  /\ LET done == CompleteCurrentStage(old) IN
     Writes(IF done.status = "complete" \/ build = "v1" THEN done
            ELSE [done EXCEPT !.execution = OldNextStep(@)])
  /\ paid' = IF build = "stepList" THEN {} ELSE paid
  /\ UNCHANGED issued

-----------------------------------------------------------------------------
(* This build.                                                             *)

Upgrade ==
  /\ build # "current"
  /\ build' = "current"
  /\ old' = NoGoal
  /\ committed' = RestoreBranchGoal(committed)
  /\ UNCHANGED <<issued, paid, confirmed>>

NewGoalStarts ==
  /\ build = "current"
  /\ Start
  /\ confirmed' = (confirmed \/ committed' # committed)
  /\ paid' = IF committed' # committed THEN {} ELSE paid
  /\ UNCHANGED <<build, old>>

(* Faulty: a goal resumes whether or not its steps have criteria.          *)
MayResumeAnyway == committed # NoGoal

(* setGoalStatus: steps without criteria cannot start.                     *)
MayResume == confirmed

(* A step of the goal record that has nothing to do with older builds.     *)
Moves(step) == build = "current" /\ step /\ UNCHANGED <<build, old, paid, confirmed>>

GoalResumes == MayResume /\ Moves(Resume)

UpgradeNext ==
  \/ OldStart \/ OldClear \/ OldSpend \/ OldCredit \/ OldPause \/ OldResume \/ OldComplete
  \/ Upgrade \/ NewGoalStarts \/ GoalResumes
  \/ Moves(Clear) \/ Moves(Pause) \/ Moves(ExhaustionPause) \/ Moves(Block)
  \/ Moves(SpendRequest) \/ Moves(BeginTurn) \/ Moves(Complete) \/ Moves(Credit)
  \/ Moves(Restore)

UpgradeSpec == UpgradeInit /\ [][UpgradeNext]_upgradeVars

-----------------------------------------------------------------------------
(* Properties.                                                             *)

UpgradeTypeOK ==
  /\ LedgerTypeOK
  /\ build \in OldBuilds \cup {"current"}
  /\ paid \subseteq Evidence
  /\ confirmed \in BOOLEAN

(* Whatever the older build left, this build's own reader accepts the goal *)
(* it makes of it and all that follows from it; in particular no goal      *)
(* without criteria ever runs (isMultiGoal, setGoalStatus).                *)
UpgradedIsLoadable ==
  /\ IsSnapshot(committed)
  /\ (committed # NoGoal /\ committed.status \in {"active", "blocked"}) => confirmed

(* The session is read as far as it was written: the goal, its steps, what *)
(* it has spent and what it may still spend.                               *)
CarriesOver(g) ==
  /\ committed # NoGoal
  /\ committed.goalId = g.goalId /\ committed.index = g.index /\ committed.stages = g.stages
  /\ build # "v1" =>
       /\ committed.status = g.status
       /\ \A f \in DOMAIN g.execution \ {"creditedEvidence"} :
            committed.execution[f] = g.execution[f]

(* No progress and no spending is lost in the upgrade, whatever the total  *)
(* of the goal was and whichever limits its build had, as long as it has   *)
(* not spent more than the default lifetime ceiling (orderedLimits).       *)
KeepsOldProgress ==
  (old # NoGoal /\ (build # "v1" =>
     old.execution.lifetimeRequests <= DefaultLimits.lifetimeCeiling)) => CarriesOver(old)

(* A reference the older build has paid for, remembered or evicted, is not *)
(* paid for again by this one (migrateCreditedEvidence,                    *)
(* migrateCreditGrants, creditVerifiedEvidence).                           *)
PaidOnceAcrossUpgrade ==
  [][(build = "current" /\ SameGoalStep) =>
       (committed'.creditedEvidence \ committed.creditedEvidence) \cap paid = {}]_upgradeVars

=============================================================================
