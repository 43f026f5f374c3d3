--------------------------- MODULE EvidenceValidation ---------------------------
(***************************************************************************)
(* How a tool call's references become evidence (src/src/evidence.ts), in  *)
(* a workspace that other programs change while it is read: each artifact  *)
(* is opened, resolved, looked up again and read by four calls of the      *)
(* operating system, and any of the first three follows links.  Accepted   *)
(* references complete the step of the goal or earn it credit (GoalState). *)
(* No other handler runs meanwhile.                                        *)
(*                                                                         *)
(* A reference names an artifact, the operation that produced it, the      *)
(* criteria it is evidence for, and what its bytes are: their fingerprint, *)
(* or the complete digest if the reference is a peer's.  A content stands  *)
(* for its digest: the fingerprint and the rest.                           *)
(***************************************************************************)
EXTENDS GoalState

CONSTANTS
  Inside, Outside, \* names, within the workspace and elsewhere
  Artifacts,       \* spellings of artifacts: names within the workspace
  Files,           \* the files themselves, device and inode
  Nothing,         \* null; what a name has when there is nothing to read
  Contents,        \* what a file may hold, as <<fingerprint, rest>>
  Operations,      \* PRODUCING_OPERATIONS
  Limits,          \* the configured limits, one of LimitSettings
  Steps,           \* steps of the goal
  CriteriaPerStep, \* criteria of a step
  MaxRefs          \* bound: references of one call

Names == Inside \cup Outside

ASSUME FilesAssumption ==
  /\ Artifacts \subseteq Inside
  /\ Inside \cap Outside = {} /\ Files \cap Names = {}
  /\ Nothing \notin Files \cup Names

ASSUME GoalAssumption ==
  Limits \in LimitSettings /\ {Steps, CriteriaPerStep, MaxRefs} \subseteq Positive

(* What may stand under a name: a file, a link to a name, or nothing.      *)
Entries == Files \cup Names \cup {Nothing}

(* Links stand within the workspace: one elsewhere does no more than       *)
(* another link to what it leads to would do.                              *)
Standing == {t \in [Names -> Entries] : \A name \in Outside : t[name] \notin Names}

FingerprintContent(content) == content[1]

Fingerprints == {FingerprintContent(content) : content \in Contents}

Criteria(step) == {<<step, i>> : i \in 1..CriteriaPerStep}

AllCriteria == UNION {Criteria(step) : step \in 1..Steps}

(* A reference of the agent's own, and a peer's.                           *)
Ref ==
  [ source : {"agent"}, artifact : Artifacts, operation : Operations,
    claim : Fingerprints, criteria : SUBSET AllCriteria ]
  \cup
  [ source : {"peer"}, artifact : Artifacts, operation : Operations,
    claim : Contents, criteria : SUBSET AllCriteria ]

(* convertPeerEvidence: Goal keeps the fingerprint of a peer's digest.     *)
ClaimedFingerprint(ref) ==
  IF ref.source = "peer" THEN FingerprintContent(ref.claim) ELSE ref.claim

(* Mutant: what a peer calls the same artifact is another piece of work.   *)
FaultyEvidenceKey(ref) ==
  <<ref.operation, ref.artifact, ClaimedFingerprint(ref), ref.source>>

EvidenceKey(ref) == <<ref.operation, ref.artifact, ClaimedFingerprint(ref)>>

ASSUME KeyAssumption == Operations \X Artifacts \X Fingerprints \subseteq Evidence

VARIABLES
  at,      \* what stands under a name
  bytes,   \* the content of a file
  goal,    \* the goal, in memory and on file
  call,    \* the tool call that is being validated
  reached, \* the open file was reached within the workspace since it was opened
  shown,   \* accepted references that were true of a file so reached
  paid     \* results that were paid for

world == <<at, bytes>>

vars == <<at, bytes, goal, call, reached, shown, paid>>

NoCall ==
  [phase |-> "none", kind |-> "none", refs |-> {}, artifact |-> Nothing, file |-> Nothing, name |-> Nothing]

Call ==
  [ phase : {"none", "next", "opened", "resolved", "pinned"}, kind : {"none", "complete", "credit"},
    refs : SUBSET Ref, artifact : Artifacts \cup {Nothing}, file : Files \cup {Nothing},
    name : Names \cup {Nothing} ]

EvidenceTypeOK ==
  /\ at \in Standing
  /\ bytes \in [Files -> Contents]
  /\ goal \in GoalRecord
  /\ call \in Call
  /\ reached \in BOOLEAN
  /\ shown \subseteq call.refs
  /\ paid \subseteq Operations \X Artifacts \X Fingerprints

Init ==
  /\ at \in Standing
  /\ bytes \in [Files -> Contents]
  /\ goal = NewGoal(1, Steps, Limits)
  /\ call = NoCall
  /\ reached = FALSE /\ shown = {} /\ paid = {}

-----------------------------------------------------------------------------
(* The workspace.                                                          *)

(* Where a name leads once links are followed, t being what stands under   *)
(* names.  More links than two in a row are taken for a loop, as which the *)
(* system refuses a longer chain too.                                      *)
Target(t, name) == IF t[name] \in Names THEN t[name] ELSE name

RealName(t, name) == Target(t, Target(t, name))

(* What open and stat find: both follow links.                             *)
FileAt(t, name) == IF t[RealName(t, name)] \in Files THEN t[RealName(t, name)] ELSE Nothing

Reading == call.phase \in {"opened", "resolved", "pinned"}

(* Files that stand under a name within the workspace, hard links too.     *)
Held(t) == {t[n] : n \in Inside} \cap Files

(* The file that a link leads to which was put under the resolved name     *)
(* after it had been resolved: it may lie anywhere.                        *)
LedTo(t) ==
  IF call.phase = "resolved" /\ t[call.name] \in Names THEN {FileAt(t, call.name)} \cap Files ELSE {}

Reaches(t) == call.file \in Held(t) \cup LedTo(t)

Witnessed == reached' = (Reading /\ (reached \/ Reaches(at')))

(* A file is created, replaced, moved or removed, or a link is put in its  *)
(* place; a directory swapped for a link does it to the names below it.    *)
Rename ==
  /\ \E name \in Names, entry \in Entries : at' = [at EXCEPT ![name] = entry]
  /\ at' \in Standing
  /\ UNCHANGED bytes

Rewrite ==
  /\ \E file \in Files, content \in Contents : bytes' = [bytes EXCEPT ![file] = content]
  /\ UNCHANGED at

WorkspaceChanges ==
  /\ Rename \/ Rewrite
  /\ Witnessed
  /\ UNCHANGED <<goal, call, shown, paid>>

-----------------------------------------------------------------------------
(* The validation of a call, one system call after the other.              *)

(* update_goal or update_goal_memory, past its checks of the goal.         *)
BeginCall ==
  /\ call.phase = "none"
  /\ IsActive(goal)
  /\ \E kind \in {"complete", "credit"} : call' = [NoCall EXCEPT !.phase = "next", !.kind = kind]
  /\ UNCHANGED <<world, goal, reached, shown, paid>>

Ends == call' = NoCall /\ reached' = FALSE /\ shown' = {}

(* One bad reference rejects the batch; nothing of it counts.              *)
Rejects == Ends /\ UNCHANGED <<world, goal, paid>>

(* What a reference says is bad by itself: no record of an artifact, no    *)
(* complete digest, an operation that produces nothing, a path that leaves *)
(* the workspace as it is spelled; and a call without references.          *)
RejectUnread == call.phase = "next" /\ Rejects

OpenArtifact ==
  /\ call.phase = "next"
  /\ Cardinality(call.refs) < MaxRefs
  /\ \E artifact \in Artifacts :
       LET file == FileAt(at, artifact) IN
       \/ file = Nothing /\ Rejects
       \/ /\ file # Nothing
          /\ call' = [call EXCEPT !.phase = "opened", !.artifact = artifact, !.file = file]
          /\ reached' = (file \in Held(at))
          /\ UNCHANGED <<world, goal, shown, paid>>

(* realpath follows the links anew, fails where they lead to nothing, and  *)
(* gives the name of a file that may be the spelling itself.               *)
ResolveArtifact ==
  LET name == RealName(at, call.artifact) IN
  /\ call.phase = "opened"
  /\ \/ (name \notin Inside \/ at[name] \notin Files) /\ Rejects
     \/ /\ name \in Inside /\ at[name] \in Files
        /\ call' = [call EXCEPT !.phase = "resolved", !.name = name]
        /\ UNCHANGED <<world, goal, reached, shown, paid>>

(* Mutant: the name is within the workspace, so the open file is taken for *)
(* the one that has it.                                                    *)
FaultyPinArtifact ==
  /\ call.phase = "resolved"
  /\ call' = [call EXCEPT !.phase = "pinned", !.name = Nothing]
  /\ UNCHANGED <<world, goal, reached, shown, paid>>

(* The resolved name must lead to the very file that is open, and is of no *)
(* use afterwards.  stat follows a link that stands under it by now.       *)
PinArtifact ==
  /\ call.phase = "resolved"
  /\ \/ FileAt(at, call.name) # call.file /\ Rejects
     \/ /\ FileAt(at, call.name) = call.file
        /\ call' = [call EXCEPT !.phase = "pinned", !.name = Nothing]
        /\ UNCHANGED <<world, goal, reached, shown, paid>>

(* The bytes are those of the open file, whatever has become of its name.  *)
Matches(ref, content) ==
  /\ ref.source = "peer" => ref.claim = content
  /\ ClaimedFingerprint(ref) = FingerprintContent(content)

Associated(ref) == ref.criteria # {} /\ ref.criteria \subseteq Criteria(goal.index + 1)

(* What a reference says of the bytes, and that the workspace had them.    *)
IsTrueOf(ref, file) ==
  /\ reached
  /\ IF ref.source = "peer" THEN bytes[file] = ref.claim
     ELSE FingerprintContent(bytes[file]) = ref.claim

Accepted(ref, content) == Matches(ref, content) /\ Associated(ref)

ReadArtifact ==
  LET content == bytes[call.file]
      named   == {ref \in Ref : ref.artifact = call.artifact}
      good    == {ref \in named : Accepted(ref, content)}
  IN
  /\ call.phase = "pinned"
  /\ \/ named \ good # {} /\ Rejects
     \/ \E ref \in good :
          /\ call' = [NoCall EXCEPT !.phase = "next", !.kind = call.kind, !.refs = call.refs \cup {ref}]
          /\ shown' = IF IsTrueOf(ref, call.file) THEN shown \cup {ref} ELSE shown \ {ref}
          /\ reached' = FALSE
          /\ UNCHANGED <<world, goal, paid>>

-----------------------------------------------------------------------------
(* What the accepted references are good for.                              *)

(* checkEvidenceCoverage.                                                  *)
Covered(step, refs) == \A criterion \in Criteria(step) : \E ref \in refs : criterion \in ref.criteria

Complete ==
  /\ call.phase = "next" /\ call.kind = "complete"
  /\ call.refs # {}
  /\ goal' = IF Covered(goal.index + 1, call.refs) THEN AcceptCompletion(goal, EmptyNotes) ELSE goal
  /\ Ends
  /\ UNCHANGED <<world, paid>>

Result(ref) == <<ref.operation, ref.artifact, ClaimedFingerprint(ref)>>

(* creditVerifiedEvidence of the keys.                                     *)
Credit ==
  /\ call.phase = "next" /\ call.kind = "credit"
  /\ call.refs # {}
  /\ goal' \in CreditOutcomes(goal, {EvidenceKey(ref) : ref \in call.refs})
  /\ paid' = paid \cup {Result(ref) : ref \in
               {ref \in call.refs : EvidenceKey(ref) \in goal'.creditedEvidence \ goal.creditedEvidence}}
  /\ Ends
  /\ UNCHANGED world

Validate == RejectUnread \/ OpenArtifact \/ ResolveArtifact \/ PinArtifact \/ ReadArtifact

Next == BeginCall \/ Validate \/ Complete \/ Credit \/ WorkspaceChanges

Spec == Init /\ [][Next]_vars

-----------------------------------------------------------------------------
(* Properties.                                                             *)

(* A step is completed, and credit is paid, only for references that were  *)
(* shown in that very call: bytes as the reference says, read from a file  *)
(* reached within the workspace meanwhile; and every criterion of the step *)
(* has one (resolveArtifactContent, validateEvidenceRefs,                  *)
(* checkEvidenceCoverage).  Reached means held by the workspace, or led to *)
(* by a link put under the resolved name between realpath and stat: one    *)
(* swap of a link is always noticed, before the open or after it, and a    *)
(* second one in that window is not (the comment of resolveArtifactContent:*)
(* "narrowed, not eliminated").                                            *)
EvidenceIsShown ==
  [][/\ goal'.stages # goal.stages =>
          \A criterion \in Criteria(goal.index + 1) : \E ref \in shown : criterion \in ref.criteria
     /\ \A key \in goal'.creditedEvidence \ goal.creditedEvidence :
          \E ref \in shown : EvidenceKey(ref) = key]_vars

(* One result is paid for once in the life of the goal: an operation, an   *)
(* artifact and its bytes, whoever names them, for whichever criteria and  *)
(* in whichever step (evidenceKey, creditVerifiedEvidence; the comment of  *)
(* convertPeerEvidence on peer records and nodes).                         *)
PaidOncePerResult == goal.creditGrants = Cardinality(paid)

=============================================================================
