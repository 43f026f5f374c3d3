----------------------- MODULE EvidenceValidation_proofs -----------------------
(***************************************************************************)
(* Proofs about the validation of evidence, for any workspace, any steps   *)
(* and criteria and batches of any size.  The inductive invariant follows  *)
(* one artifact through its four system calls: an open file that stands    *)
(* under a name within the workspace, or that a link put under the         *)
(* resolved name leads to, counts as reached; so that a resolved name that *)
(* stat finds the open file under vouches for it.                          *)
(***************************************************************************)
EXTENDS EvidenceValidation, GoalState_proofs

-----------------------------------------------------------------------------
(* What the goal record makes of a completion and of credited keys.        *)

LEMMA CompletionKeepsCredit ==
  ASSUME NEW g \in GoalRecord
  PROVE  AcceptCompletion(g, EmptyNotes).creditedEvidence = g.creditedEvidence
BY DEF AcceptCompletion, CompleteCurrentStage, IsLastStage, GoalRecord

LEMMA CreditAddsNovelKeys ==
  ASSUME NEW g \in GoalRecord, NEW keys, NEW h \in CreditOutcomes(g, keys)
  PROVE  \E fresh \in SUBSET (keys \ g.creditedEvidence) :
           /\ h.creditedEvidence = g.creditedEvidence \cup fresh
           /\ h.stages = g.stages
<1>1. PICK fresh \in SUBSET (keys \ g.creditedEvidence) : h = CreditKeys(g, fresh)
  BY DEF CreditOutcomes, NovelKeys
<1>2. h.creditedEvidence = g.creditedEvidence \cup fresh /\ h.stages = g.stages
  BY <1>1 DEF CreditKeys, GoalRecord
<1> QED
  BY <1>2

(* A key names a result: what Goal keeps of a reference, whoever made it.  *)
LEMMA KeyOfReference ==
  ASSUME NEW ref \in Ref
  PROVE  /\ ref.artifact \in Artifacts /\ ref.operation \in Operations
         /\ EvidenceKey(ref) = Result(ref)
         /\ EvidenceKey(ref) \in Operations \X Artifacts \X Fingerprints
         /\ EvidenceKey(ref) \in Evidence
<1>1. ref.artifact \in Artifacts /\ ref.operation \in Operations
  BY DEF Ref
<1>2. ClaimedFingerprint(ref) \in Fingerprints
  BY DEF Ref, ClaimedFingerprint, Fingerprints
<1>3. /\ EvidenceKey(ref) = Result(ref)
      /\ EvidenceKey(ref) \in Operations \X Artifacts \X Fingerprints
  BY <1>1, <1>2 DEF EvidenceKey, Result
<1> QED
  BY <1>1, <1>3, KeyAssumption

-----------------------------------------------------------------------------
(* The inductive invariant.                                                *)

(* The artifact that is being read, and how far the workspace vouches for  *)
(* the open file.                                                          *)
Vouched ==
  /\ Reading => call.file \in Files
  /\ Reading /\ Reaches(at) => reached
  /\ call.phase = "resolved" => call.name \in Inside
  /\ call.phase = "pinned" => reached
  /\ shown = call.refs
  /\ call.phase = "none" => call.refs = {}

(* The books of the goal are those of the results.                         *)
Booked ==
  /\ Sound(goal)
  /\ call.phase # "none" => goal.status = "active"
  /\ goal.creditedEvidence = paid

EvidenceInv == EvidenceTypeOK /\ Vouched /\ Booked

LEMMA EvidenceInitEstablishes ==
  Init => EvidenceInv
<1> SUFFICES ASSUME Init PROVE EvidenceInv
  OBVIOUS
<1>1. Sound(goal) /\ goal.creditedEvidence = {}
  <2>1. Steps \in Nat /\ Steps > 0 /\ Limits \in LimitSettings
    BY GoalAssumption DEF Positive
  <2>2. Sound(NewGoal(1, Steps, Limits))
    BY <2>1, NewGoalSound
  <2> QED
    BY <2>2 DEF Init, NewGoal
<1>2. NoCall \in Call
  BY DEF NoCall, Call
<1>3. EvidenceTypeOK
  BY <1>1, <1>2, SoundTypes DEF Init, EvidenceTypeOK
<1>4. call.phase = "none" /\ call.refs = {}
  BY DEF Init, NoCall
<1>5. Vouched
  BY <1>4 DEF Init, Vouched, Reading
<1>6. Booked
  BY <1>1, <1>4 DEF Init, Booked
<1> QED
  BY <1>3, <1>5, <1>6 DEF EvidenceInv

(* Whatever ends a call leaves nothing of it to vouch for.                 *)
LEMMA EndsPreserves ==
  ASSUME EvidenceInv, Ends, UNCHANGED world,
         Sound(goal'), goal'.creditedEvidence = paid',
         paid' \subseteq Operations \X Artifacts \X Fingerprints
  PROVE  EvidenceInv'
<1>1. NoCall \in Call /\ NoCall.phase = "none" /\ NoCall.refs = {}
  BY DEF NoCall, Call
<1>2. call' = NoCall /\ reached' = FALSE /\ shown' = {}
  BY DEF Ends
<1>3. EvidenceTypeOK'
  <2>1. goal' \in GoalRecord
    BY SoundTypes
  <2> QED
    BY <1>1, <1>2, <2>1 DEF EvidenceInv, EvidenceTypeOK, world
<1>4. Vouched'
  BY <1>1, <1>2 DEF Vouched, Reading
<1>5. Booked'
  BY <1>1, <1>2 DEF Booked
<1> QED
  BY <1>3, <1>4, <1>5 DEF EvidenceInv

LEMMA RejectsPreserves ==
  ASSUME EvidenceInv, Rejects
  PROVE  EvidenceInv'
<1>1. Ends /\ UNCHANGED world /\ goal' = goal /\ paid' = paid
  BY DEF Rejects
<1>2. /\ Sound(goal) /\ goal.creditedEvidence = paid
      /\ paid \subseteq Operations \X Artifacts \X Fingerprints
  BY DEF EvidenceInv, Booked, EvidenceTypeOK
<1> QED
  BY <1>1, <1>2, EndsPreserves

(* The workspace moves: what it holds now is added to what it has held.    *)
LEMMA WorkspacePreserves ==
  ASSUME EvidenceInv, WorkspaceChanges
  PROVE  EvidenceInv'
<1>1. at' \in Standing /\ bytes' \in [Files -> Contents]
  <2>1. CASE Rename
    BY <2>1 DEF Rename, EvidenceInv, EvidenceTypeOK
  <2>2. CASE Rewrite
    BY <2>2 DEF Rewrite, EvidenceInv, EvidenceTypeOK
  <2> QED
    BY <2>1, <2>2 DEF WorkspaceChanges
<1>2. Witnessed /\ UNCHANGED <<goal, call, shown, paid>>
  BY DEF WorkspaceChanges
<1>3. reached' \in BOOLEAN
  BY <1>2 DEF Witnessed
<1>4. EvidenceTypeOK'
  BY <1>1, <1>2, <1>3 DEF EvidenceInv, EvidenceTypeOK
<1>5. Reading' <=> Reading
  BY <1>2 DEF Reading
<1>6. Reaches(at)' <=> Reaches(at')
  BY <1>2 DEF Reaches, Held, LedTo, FileAt, RealName, Target
<1>7. Vouched'
  <2>1. (Reading => call.file \in Files)'
    BY <1>2, <1>5 DEF EvidenceInv, Vouched
  <2>2. (Reading /\ Reaches(at) => reached)'
    BY <1>2, <1>5, <1>6 DEF Witnessed
  <2>3. (call.phase = "pinned" => reached)'
    BY <1>2 DEF EvidenceInv, Vouched, Witnessed, Reading
  <2>4. /\ (call.phase = "resolved" => call.name \in Inside)'
        /\ (shown = call.refs)' /\ (call.phase = "none" => call.refs = {})'
    BY <1>2 DEF EvidenceInv, Vouched
  <2> QED
    BY <2>1, <2>2, <2>3, <2>4 DEF Vouched
<1>8. Booked'
  BY <1>2 DEF EvidenceInv, Booked
<1> QED
  BY <1>4, <1>7, <1>8 DEF EvidenceInv

(* A call goes on to its next system call: its goal and its references     *)
(* stay, and the four facts about the artifact are to be shown.            *)
LEMMA CallGoesOn ==
  ASSUME EvidenceInv, call' \in Call, call'.refs = call.refs,
         UNCHANGED <<world, goal, shown, paid>>,
         reached' \in BOOLEAN,
         call'.phase # "none", IsActive(goal),
         Reading' => call'.file \in Files,
         Reading' /\ (Reaches(at))' => reached',
         call'.phase = "resolved" => call'.name \in Inside,
         call'.phase = "pinned" => reached'
  PROVE  EvidenceInv'
<1>1. EvidenceTypeOK'
  BY DEF EvidenceInv, EvidenceTypeOK, world
<1>2. Vouched'
  BY DEF EvidenceInv, Vouched
<1>3. Booked'
  BY DEF EvidenceInv, Booked, IsActive
<1> QED
  BY <1>1, <1>2, <1>3 DEF EvidenceInv

LEMMA BeginPreserves ==
  ASSUME EvidenceInv, BeginCall
  PROVE  EvidenceInv'
<1>1. PICK kind \in {"complete", "credit"} : call' = [NoCall EXCEPT !.phase = "next", !.kind = kind]
  BY DEF BeginCall
<1>2. call.refs = {}
  BY DEF BeginCall, EvidenceInv, Vouched
<1>3. call' \in Call /\ call'.phase = "next" /\ call'.refs = {}
  BY <1>1 DEF NoCall, Call
<1>4. IsActive(goal) /\ UNCHANGED <<world, goal, reached, shown, paid>>
  BY DEF BeginCall
<1>5. ~Reading'
  BY <1>3 DEF Reading
<1>6. reached' \in BOOLEAN
  BY <1>4 DEF EvidenceInv, EvidenceTypeOK
<1> QED
  BY <1>2, <1>3, <1>4, <1>5, <1>6, CallGoesOn

(* The goal is active, and stays so, while a call is validated.            *)
LEMMA CallIsOfAnActiveGoal ==
  ASSUME EvidenceInv, call.phase # "none"
  PROVE  IsActive(goal)
BY SoundTypes DEF EvidenceInv, Booked, IsActive

(* While the resolved name is not in use, only files held count.           *)
LEMMA HeldCounts ==
  ASSUME UNCHANGED world, call'.phase # "resolved"
  PROVE  Reaches(at)' <=> call'.file \in Held(at)
<1>1. LedTo(at)' = {}
  BY DEF LedTo
<1>2. Held(at)' = Held(at)
  BY DEF Held, world
<1> QED
  BY <1>1, <1>2 DEF Reaches

LEMMA OpenPreserves ==
  ASSUME EvidenceInv, OpenArtifact, ~Rejects
  PROVE  EvidenceInv'
<1>1. PICK artifact \in Artifacts :
         /\ FileAt(at, artifact) # Nothing
         /\ call' = [call EXCEPT !.phase = "opened", !.artifact = artifact,
                                 !.file = FileAt(at, artifact)]
         /\ reached' = (FileAt(at, artifact) \in Held(at))
         /\ UNCHANGED <<world, goal, shown, paid>>
  BY DEF OpenArtifact
<1>2. FileAt(at, artifact) \in Files
  BY <1>1 DEF FileAt
<1>3. /\ call' \in Call /\ call'.phase = "opened" /\ call'.refs = call.refs
      /\ call'.file = FileAt(at, artifact)
  BY <1>1, <1>2 DEF EvidenceInv, EvidenceTypeOK, Call
<1>4. Reaches(at)' => reached'
  BY <1>1, <1>3, HeldCounts
<1>5. IsActive(goal)
  BY CallIsOfAnActiveGoal DEF OpenArtifact
<1>6. reached' \in BOOLEAN
  BY <1>1
<1> QED
  BY <1>1, <1>2, <1>3, <1>4, <1>5, <1>6, CallGoesOn

(* A file stands under the resolved name, so that no link does as yet.     *)
LEMMA ResolvePreserves ==
  ASSUME EvidenceInv, ResolveArtifact, ~Rejects
  PROVE  EvidenceInv'
<1> DEFINE name == RealName(at, call.artifact)
<1>1. /\ call.phase = "opened" /\ name \in Inside /\ at[name] \in Files
      /\ call' = [call EXCEPT !.phase = "resolved", !.name = name]
      /\ UNCHANGED <<world, goal, reached, shown, paid>>
  BY DEF ResolveArtifact
<1> HIDE DEF name
<1>2. name \in Names
  BY <1>1 DEF Names
<1>3. /\ call' \in Call /\ call'.phase = "resolved" /\ call'.refs = call.refs
      /\ call'.file = call.file /\ call'.name = name
  BY <1>1, <1>2 DEF EvidenceInv, EvidenceTypeOK, Call
<1>4. /\ call.file \in Files /\ reached \in BOOLEAN
      /\ Reaches(at) => reached
  BY <1>1 DEF EvidenceInv, EvidenceTypeOK, Vouched, Reading
<1>5. Reaches(at)' => Reaches(at)
  <2>1. at' = at
    BY <1>1 DEF world
  <2>2. LedTo(at)' = {}
    BY <1>1, <1>3, <2>1, FilesAssumption DEF LedTo
  <2>3. Held(at)' = Held(at)
    BY <2>1 DEF Held
  <2> QED
    BY <1>3, <2>2, <2>3 DEF Reaches
<1>6. IsActive(goal)
  BY <1>1, CallIsOfAnActiveGoal
<1> QED
  BY <1>1, <1>3, <1>4, <1>5, <1>6, CallGoesOn

(* stat finds the open file under the resolved name: it stands there, and  *)
(* is held, or a link that stands there leads to it.                       *)
LEMMA PinPreserves ==
  ASSUME EvidenceInv, PinArtifact, ~Rejects
  PROVE  EvidenceInv'
<1>1. /\ call.phase = "resolved" /\ FileAt(at, call.name) = call.file
      /\ call' = [call EXCEPT !.phase = "pinned", !.name = Nothing]
      /\ UNCHANGED <<world, goal, reached, shown, paid>>
  BY DEF PinArtifact
<1>2. /\ call' \in Call /\ call'.phase = "pinned" /\ call'.refs = call.refs
      /\ call'.file = call.file
  BY <1>1 DEF EvidenceInv, EvidenceTypeOK, Call
<1>3. /\ call.file \in Files /\ call.name \in Inside /\ reached \in BOOLEAN
      /\ Reaches(at) => reached
  BY <1>1 DEF EvidenceInv, EvidenceTypeOK, Vouched, Reading
<1>4. Reaches(at)
  <2>1. CASE at[call.name] \in Names
    <3>1. call.file \in LedTo(at)
      BY <1>1, <1>3, <2>1 DEF LedTo
    <3> QED
      BY <3>1 DEF Reaches
  <2>2. CASE at[call.name] \notin Names
    <3>1. RealName(at, call.name) = call.name
      BY <2>2 DEF RealName, Target
    <3>2. FileAt(at, call.name) \in {at[call.name], Nothing}
      BY <3>1 DEF FileAt
    <3>3. call.file = at[call.name]
      BY <1>1, <1>3, <3>2, FilesAssumption
    <3>4. call.file \in Held(at)
      BY <1>3, <3>3 DEF Held
    <3> QED
      BY <3>4 DEF Reaches
  <2> QED
    BY <2>1, <2>2
<1>5. reached'
  BY <1>1, <1>3, <1>4
<1>6. IsActive(goal)
  BY <1>1, CallIsOfAnActiveGoal
<1> QED
  BY <1>1, <1>2, <1>3, <1>5, <1>6, CallGoesOn

(* A reference that matches the bytes of a file reached within the         *)
(* workspace is true of it.                                                *)
LEMMA ReadPreserves ==
  ASSUME EvidenceInv, ReadArtifact, ~Rejects
  PROVE  EvidenceInv'
<1>1. PICK ref \in Ref :
         /\ Matches(ref, bytes[call.file])
         /\ call' = [NoCall EXCEPT !.phase = "next", !.kind = call.kind, !.refs = call.refs \cup {ref}]
         /\ shown' = IF IsTrueOf(ref, call.file) THEN shown \cup {ref} ELSE shown \ {ref}
         /\ reached' = FALSE
         /\ UNCHANGED <<world, goal, paid>>
  BY DEF ReadArtifact, Accepted
<1>2. call.phase = "pinned" /\ reached /\ shown = call.refs
  BY DEF ReadArtifact, EvidenceInv, Vouched
<1>3. IsTrueOf(ref, call.file)
  <2>1. ref.source \in {"agent", "peer"}
    BY DEF Ref
  <2> QED
    BY <1>1, <1>2, <2>1 DEF Matches, IsTrueOf, ClaimedFingerprint
<1>4. /\ call' \in Call /\ call'.phase = "next" /\ call'.refs = call.refs \cup {ref}
  BY <1>1 DEF EvidenceInv, EvidenceTypeOK, NoCall, Call
<1>5. shown' = call'.refs
  BY <1>1, <1>2, <1>3, <1>4
<1>6. EvidenceTypeOK'
  BY <1>1, <1>4, <1>5 DEF EvidenceInv, EvidenceTypeOK, world
<1>7. Vouched'
  BY <1>4, <1>5 DEF Vouched, Reading
<1>8. Booked'
  BY <1>1, <1>2 DEF EvidenceInv, Booked
<1> QED
  BY <1>6, <1>7, <1>8 DEF EvidenceInv

LEMMA CompletePreserves ==
  ASSUME EvidenceInv, Complete
  PROVE  EvidenceInv'
<1>1. /\ Ends /\ UNCHANGED world /\ paid' = paid
      /\ goal' \in {AcceptCompletion(goal, EmptyNotes), goal}
  BY DEF Complete
<1>2. /\ Sound(goal) /\ goal \in GoalRecord /\ goal.creditedEvidence = paid
      /\ paid \subseteq Operations \X Artifacts \X Fingerprints
  BY SoundTypes DEF EvidenceInv, Booked, EvidenceTypeOK
<1>3. IsActive(goal)
  BY CallIsOfAnActiveGoal DEF Complete
<1>4. Sound(goal') /\ goal'.creditedEvidence = goal.creditedEvidence
  BY <1>1, <1>2, <1>3, AcceptCompletionSound, CompletionKeepsCredit
<1> QED
  BY <1>1, <1>2, <1>4, EndsPreserves

LEMMA CreditPreserves ==
  ASSUME EvidenceInv, Credit
  PROVE  EvidenceInv'
<1> DEFINE keys == {EvidenceKey(ref) : ref \in call.refs}
<1>1. call.refs \subseteq Ref
  BY DEF EvidenceInv, EvidenceTypeOK, Call
<1>2. keys \in SUBSET Evidence /\ keys \subseteq Operations \X Artifacts \X Fingerprints
  BY <1>1, KeyOfReference
<1>3. /\ Sound(goal) /\ goal \in GoalRecord /\ goal.creditedEvidence = paid
      /\ paid \subseteq Operations \X Artifacts \X Fingerprints
  BY SoundTypes DEF EvidenceInv, Booked, EvidenceTypeOK
<1>4. goal' \in CreditOutcomes(goal, keys) /\ Ends /\ UNCHANGED world
  BY DEF Credit
<1>5. Sound(goal')
  BY <1>2, <1>3, <1>4, CallIsOfAnActiveGoal, CreditSound DEF Credit
<1> HIDE DEF keys
<1>6. PICK fresh \in SUBSET (keys \ goal.creditedEvidence) :
         goal'.creditedEvidence = goal.creditedEvidence \cup fresh
  BY <1>3, <1>4, CreditAddsNovelKeys
<1>7. paid' = paid \cup fresh
  <2>1. goal'.creditedEvidence \ goal.creditedEvidence = fresh
    BY <1>6
  <2>2. paid' = paid \cup {Result(ref) : ref \in {ref \in call.refs : EvidenceKey(ref) \in fresh}}
    BY <2>1 DEF Credit
  <2>3. \A ref \in call.refs : Result(ref) = EvidenceKey(ref)
    BY <1>1, KeyOfReference
  <2> QED
    BY <1>6, <2>2, <2>3 DEF keys
<1>8. goal'.creditedEvidence = paid'
  BY <1>3, <1>6, <1>7
<1>9. paid' \subseteq Operations \X Artifacts \X Fingerprints
  BY <1>2, <1>3, <1>7
<1> QED
  BY <1>4, <1>5, <1>8, <1>9, EndsPreserves

LEMMA EvidenceStepPreserves ==
  ASSUME EvidenceInv, [Next]_vars
  PROVE  EvidenceInv'
<1>1. CASE BeginCall
  BY <1>1, BeginPreserves
<1>2. CASE RejectUnread
  BY <1>2, RejectsPreserves DEF RejectUnread
<1>3. CASE OpenArtifact
  BY <1>3, OpenPreserves, RejectsPreserves
<1>4. CASE ResolveArtifact
  BY <1>4, ResolvePreserves, RejectsPreserves
<1>5. CASE PinArtifact
  BY <1>5, PinPreserves, RejectsPreserves
<1>6. CASE ReadArtifact
  BY <1>6, ReadPreserves, RejectsPreserves
<1>7. CASE Complete
  BY <1>7, CompletePreserves
<1>8. CASE Credit
  BY <1>8, CreditPreserves
<1>9. CASE WorkspaceChanges
  BY <1>9, WorkspacePreserves
<1>10. CASE UNCHANGED vars
  BY <1>10 DEF vars, world, EvidenceInv, EvidenceTypeOK, Vouched, Booked, Reading, Reaches, Held,
               LedTo, FileAt, RealName, Target
<1> QED
  BY <1>1, <1>2, <1>3, <1>4, <1>5, <1>6, <1>7, <1>8, <1>9, <1>10 DEF Next, Validate

THEOREM EvidenceIsSound ==
  Spec => []EvidenceInv
<1>1. Init => EvidenceInv
  BY EvidenceInitEstablishes
<1>2. EvidenceInv /\ [Next]_vars => EvidenceInv'
  BY EvidenceStepPreserves
<1> QED
  BY <1>1, <1>2, PTL DEF Spec

-----------------------------------------------------------------------------
(* What the runs check.                                                    *)

(* The state has its declared shape, for any workspace and any batches.    *)
THEOREM EvidenceIsTyped ==
  Spec => []EvidenceTypeOK
<1>1. EvidenceInv => EvidenceTypeOK
  BY DEF EvidenceInv
<1> QED
  BY <1>1, EvidenceIsSound, PTL

(* A result is paid for once in the life of a goal, however often, by whom *)
(* and in whichever step it is shown (creditVerifiedEvidence).             *)
THEOREM ResultsArePaidOnce ==
  Spec => []PaidOncePerResult
<1>1. EvidenceInv => PaidOncePerResult
  BY DEF EvidenceInv, Booked, Sound, Counted, PaidOncePerResult
<1> QED
  BY <1>1, EvidenceIsSound, PTL

(* Nothing is completed or paid for on references that were not true of a  *)
(* file reached within the workspace while it was read: held there, or led *)
(* to by a link put under the resolved name between realpath and stat,     *)
(* which the code leaves open (resolveArtifactContent).                    *)
THEOREM CompletionsAndCreditAreShown ==
  Spec => EvidenceIsShown
<1> DEFINE Step ==
      /\ goal'.stages # goal.stages =>
           \A criterion \in Criteria(goal.index + 1) : \E ref \in shown : criterion \in ref.criteria
      /\ \A key \in goal'.creditedEvidence \ goal.creditedEvidence :
           \E ref \in shown : EvidenceKey(ref) = key
<1>1. EvidenceInv /\ [Next]_vars => [Step]_vars
  <2> SUFFICES ASSUME EvidenceInv, Next PROVE Step
    OBVIOUS
  <2>1. shown = call.refs /\ goal \in GoalRecord
    BY SoundTypes DEF EvidenceInv, Vouched, Booked
  <2>2. CASE Complete
    <3>1. CASE Covered(goal.index + 1, call.refs)
      <4>1. goal'.creditedEvidence = goal.creditedEvidence
        BY <2>1, <2>2, <3>1, CompletionKeepsCredit DEF Complete
      <4> QED
        BY <2>1, <3>1, <4>1 DEF Covered
    <3>2. CASE ~Covered(goal.index + 1, call.refs)
      BY <2>2, <3>2 DEF Complete
    <3> QED
      BY <3>1, <3>2
  <2>3. CASE Credit
    <3> DEFINE keys == {EvidenceKey(ref) : ref \in call.refs}
    <3>1. goal' \in CreditOutcomes(goal, keys)
      BY <2>3 DEF Credit
    <3> HIDE DEF keys
    <3>2. PICK fresh \in SUBSET (keys \ goal.creditedEvidence) :
             /\ goal'.creditedEvidence = goal.creditedEvidence \cup fresh
             /\ goal'.stages = goal.stages
      BY <2>1, <3>1, CreditAddsNovelKeys
    <3> QED
      BY <2>1, <3>2 DEF keys
  <2>4. CASE ~Complete /\ ~Credit
    <3>1. goal' = goal
      BY <2>4 DEF Next, Validate, BeginCall, RejectUnread, OpenArtifact, ResolveArtifact,
                  PinArtifact, ReadArtifact, Rejects, WorkspaceChanges
    <3> QED
      BY <3>1
  <2> QED
    BY <2>2, <2>3, <2>4
<1> QED
  BY <1>1, EvidenceIsSound, PTL DEF Spec, EvidenceIsShown

=============================================================================
