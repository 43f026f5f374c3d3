--------------------------- MODULE GoalBackend_proofs ---------------------------
(***************************************************************************)
(* Lemmas about the binding protocol, for any retention limit, any number  *)
(* of operation ids and any contents: what the peer's log and its answers  *)
(* keep, and what every transition of a goal's backend keeps (SoundGoal).  *)
(***************************************************************************)
EXTENDS GoalBackend, SequenceTheorems, FiniteSetTheorems, WellFoundedInduction, TLAPS

-----------------------------------------------------------------------------
(* Numbers and sequences.                                                  *)

LEMMA MaxIsReached ==
  ASSUME NEW n \in Nat, NEW S, S \subseteq 0..n, S # {}
  PROVE  Max(S) \in S /\ \A x \in S : Max(S) >= x
<1> DEFINE T == {k \in Nat : \A x \in S : x <= k}
<1>1. PICK k \in T : \A other \in T : ~ (<<other, k>> \in OpToRel(<, Nat))
  <2>1. n \in T /\ T \subseteq Nat
    OBVIOUS
  <2> HIDE DEF T
  <2> QED
    BY <2>1, NatLessThanWellFounded, WFMin, Zenon
<1>2. ASSUME NEW other \in T PROVE other >= k
  <2>1. other \in Nat /\ k \in Nat
    OBVIOUS
  <2>2. other < k => <<other, k>> \in OpToRel(<, Nat)
    BY <2>1 DEF OpToRel
  <2>3. ~(other < k)
    <3> HIDE DEF T
    <3> QED
      BY <1>1, <2>2, Zenon
  <2> QED
    BY <2>1, <2>3
<1>3. k \in S
  <2> SUFFICES ASSUME k \notin S PROVE FALSE
    OBVIOUS
  <2>1. k \in Nat /\ \A x \in S : x \in Nat /\ x < k
    OBVIOUS
  <2>2. PICK x0 \in S : TRUE
    OBVIOUS
  <2>3. k - 1 \in Nat /\ \A x \in S : x <= k - 1
    BY <2>1, <2>2
  <2>4. k - 1 \in T /\ ~(k - 1 >= k)
    BY <2>1, <2>3
  <2> QED
    BY <1>2, <2>4
<1>4. k \in S /\ \A x \in S : k >= x
  BY <1>3
<1> QED
  BY <1>4 DEF Max

LEMMA MaxOfTwo ==
  ASSUME NEW a \in Int, NEW b \in Int
  PROVE  Max({a, b}) = IF a >= b THEN a ELSE b
BY DEF Max

(* Elements without a common key are as many as there are keys.            *)
LEMMA KeysCount ==
  ASSUME NEW S, NEW ops \in Seq(S), NEW keys,
         keys = {record.id : record \in ToSet(ops)},
         \A i, j \in DOMAIN ops : ops[i].id = ops[j].id => i = j
  PROVE  Cardinality(keys) = Len(ops)
<1> DEFINE f == [i \in 1..Len(ops) |-> ops[i].id]
<1>1. DOMAIN ops = 1..Len(ops) /\ Len(ops) \in Nat
  BY LenProperties
<1>2. f \in Bijection(1..Len(ops), keys)
  <2>1. f \in [1..Len(ops) -> keys]
    BY <1>1 DEF ToSet
  <2>2. \A i, j \in 1..Len(ops) : f[i] = f[j] => i = j
    BY <1>1
  <2>3. \A key \in keys : \E i \in 1..Len(ops) : f[i] = key
    BY <1>1 DEF ToSet
  <2> QED
    BY <2>1, <2>2, <2>3 DEF Bijection, Injection, Surjection, IsInjective
<1>3. ExistsBijection(1..Len(ops), keys)
  BY <1>2, Zenon DEF ExistsBijection
<1> QED
  BY <1>1, <1>3, FS_CountingElements

-----------------------------------------------------------------------------
(* The peer's log.                                                         *)

(* A mutation carries what its kind asks for, under an id of its own.      *)
WellPlanned(request) ==
  /\ request.kind \in Mutations
  /\ request.id \in Operations
  /\ request.kind = "bind" => request.payload \in [of : {"bind"}, notes : Contents]
  /\ request.kind = "write" => request.payload \in [of : {"write"}, notes : Notes]
  /\ request.kind = "detach" => request.payload = Nothing

(* The peer commits an operation once, with the memory it carries.         *)
SoundLog(peerLog) ==
  /\ peerLog \in Seq(Commit)
  /\ \A i, j \in DOMAIN peerLog : peerLog[i].id = peerLog[j].id => i = j
  /\ \A i \in DOMAIN peerLog :
       peerLog[i].payload # Nothing => peerLog[i].notes = peerLog[i].payload.notes

(* Revisions only go up, and an earlier one stays what it was.             *)
Continues(peerLog, later) ==
  DOMAIN peerLog \subseteq DOMAIN later /\ \A i \in DOMAIN peerLog : later[i] = peerLog[i]

LEMMA CommitTypes ==
  ASSUME NEW peerLog \in Seq(Commit)
  PROVE  /\ Len(peerLog) \in Nat /\ DOMAIN peerLog = 1..Len(peerLog)
         /\ \A i \in DOMAIN peerLog :
              /\ i \in Nat \ {0}
              /\ peerLog[i] \in Commit
              /\ peerLog[i].id \in Operations /\ peerLog[i].scope \in Scope
              /\ peerLog[i].payload \in Payloads /\ peerLog[i].notes \in Contents
<1>1. Len(peerLog) \in Nat /\ DOMAIN peerLog = 1..Len(peerLog)
  BY LenProperties
<1>2. \A i \in DOMAIN peerLog : i \in Nat \ {0} /\ peerLog[i] \in Commit
  BY <1>1, ElementOfSeq
<1> QED
  BY <1>1, <1>2 DEF Commit

LEMMA HeldIsACommit ==
  ASSUME NEW peerLog \in Seq(Commit), NEW work
  PROVE  \/ SelectedRevision(peerLog, work) = 0
         \/ /\ SelectedRevision(peerLog, work) \in DOMAIN peerLog
            /\ peerLog[SelectedRevision(peerLog, work)].scope.work = work
<1> DEFINE S == {i \in DOMAIN peerLog : peerLog[i].scope.work = work} \cup {0}
<1>1. Len(peerLog) \in Nat /\ S \subseteq 0..Len(peerLog) /\ S # {}
  BY CommitTypes
<1>2. Max(S) \in S
  <2> HIDE DEF S
  <2> QED
    BY <1>1, MaxIsReached
<1> QED
  BY <1>2 DEF SelectedRevision

LEMMA ReceiptOfCommit ==
  ASSUME NEW peerLog, SoundLog(peerLog), NEW i \in DOMAIN peerLog
  PROVE  ReceiptOf(peerLog, peerLog[i].id) =
           [ id |-> peerLog[i].id, scope |-> peerLog[i].scope,
             revision |-> i, payload |-> peerLog[i].payload ]
<1>1. (CHOOSE j \in DOMAIN peerLog : peerLog[j].id = peerLog[i].id) = i
  BY DEF SoundLog
<1> QED
  BY <1>1 DEF ReceiptOf

(* What a receipt of the log says is what the log has at its revision.     *)
LEMMA ReceiptIsTrue ==
  ASSUME NEW peerLog, SoundLog(peerLog), NEW receipt \in Receipts(peerLog)
  PROVE  /\ receipt \in Receipt
         /\ receipt.id \in Operations
         /\ receipt.revision \in DOMAIN peerLog
         /\ peerLog[receipt.revision].id = receipt.id
         /\ peerLog[receipt.revision].scope = receipt.scope
         /\ peerLog[receipt.revision].payload = receipt.payload
<1>1. PICK i \in DOMAIN peerLog : receipt = ReceiptOf(peerLog, peerLog[i].id)
  BY DEF Receipts
<1>2. receipt = [ id |-> peerLog[i].id, scope |-> peerLog[i].scope,
                  revision |-> i, payload |-> peerLog[i].payload ]
  BY <1>1, ReceiptOfCommit
<1>3. /\ i \in Nat /\ peerLog[i].id \in Operations /\ peerLog[i].scope \in Scope
      /\ peerLog[i].payload \in Payloads
  BY CommitTypes DEF SoundLog
<1>4. receipt \in Receipt
  BY <1>2, <1>3 DEF Receipt, RequestIds
<1> QED
  BY <1>2, <1>3, <1>4

LEMMA ReceiptsStay ==
  ASSUME NEW peerLog, NEW later, SoundLog(peerLog), SoundLog(later), Continues(peerLog, later)
  PROVE  Receipts(peerLog) \subseteq Receipts(later)
<1> SUFFICES ASSUME NEW i \in DOMAIN peerLog
             PROVE  ReceiptOf(peerLog, peerLog[i].id) \in Receipts(later)
  BY DEF Receipts
<1>1. i \in DOMAIN later /\ later[i] = peerLog[i]
  BY DEF Continues
<1>2. ReceiptOf(later, later[i].id) = ReceiptOf(peerLog, peerLog[i].id)
  BY <1>1, ReceiptOfCommit
<1> QED
  BY <1>1, <1>2 DEF Receipts

(* Whatever is asked of it, the peer's log stays sound and only grows.     *)
LEMMA CommitsSound ==
  ASSUME NEW peerLog, SoundLog(peerLog), NEW request \in Request,
         request.kind \in Mutations => WellPlanned(request)
  PROVE  /\ SoundLog(PeerCommits(peerLog, request))
         /\ Continues(peerLog, PeerCommits(peerLog, request))
<1> DEFINE new == PeerCommits(peerLog, request)
           held == SelectedRevision(peerLog, request.scope.work)
           commit == [ id |-> request.id, scope |-> request.scope, payload |-> request.payload,
                       notes |-> IF request.kind = "detach" THEN peerLog[held].notes
                                 ELSE request.payload.notes ]
<1>1. CASE new = peerLog
  BY <1>1 DEF Continues
<1>2. CASE new # peerLog
  <2>1. /\ new = Append(peerLog, commit)
        /\ request.kind # "read"
        /\ ~HasCommitted(peerLog, request.id)
        /\ PeerRefusal(peerLog, request) = "none"
    BY <1>2 DEF PeerCommits
  <2>2. WellPlanned(request) /\ request.scope \in Scope /\ request.payload \in Payloads
    BY <2>1 DEF Request
  <2>3. request.kind = "detach" => held \in DOMAIN peerLog /\ peerLog[held].notes \in Contents
    BY <2>1, HeldIsACommit, CommitTypes DEF PeerRefusal, SoundLog
  <2>4. commit.notes \in Contents /\ (commit.payload # Nothing => commit.notes = commit.payload.notes)
    BY <2>2, <2>3 DEF WellPlanned, Mutations, Contents
  <2>5. commit \in Commit
    BY <2>2, <2>4 DEF Commit, WellPlanned
  <2> HIDE DEF commit, held
  <2>6. /\ new \in Seq(Commit) /\ Len(new) = Len(peerLog) + 1
        /\ \A i \in 1..Len(peerLog) : new[i] = peerLog[i]
        /\ new[Len(peerLog) + 1] = commit
    BY <2>1, <2>5, AppendProperties DEF SoundLog
  <2>7. Len(peerLog) \in Nat /\ DOMAIN peerLog = 1..Len(peerLog) /\ DOMAIN new = 1..(Len(peerLog) + 1)
    BY <2>6, CommitTypes DEF SoundLog
  <2>8. \A i \in DOMAIN peerLog : peerLog[i].id # commit.id
    BY <2>1 DEF HasCommitted, commit
  <2> HIDE DEF new
  <2>9. Continues(peerLog, new)
    BY <2>6, <2>7 DEF Continues
  <2>10. \A i, j \in DOMAIN new : new[i].id = new[j].id => i = j
    BY <2>6, <2>7, <2>8 DEF SoundLog
  <2>11. \A i \in DOMAIN new : new[i].payload # Nothing => new[i].notes = new[i].payload.notes
    BY <2>4, <2>6, <2>7 DEF SoundLog
  <2> QED
    BY <2>6, <2>9, <2>10, <2>11 DEF SoundLog, new
<1> QED
  BY <1>1, <1>2

-----------------------------------------------------------------------------
(* The goal: what the reader of a snapshot checks, and what the goal and   *)
(* the peer's log have to do with each other.                              *)

SoundOperations(operations, work, peerLog) ==
  /\ operations \in Seq(RetainedOperation)
  /\ Len(operations) <= MaxRetainedOperations
  /\ \A i, j \in DOMAIN operations : operations[i].id = operations[j].id => i = j
  /\ \A record \in ToSet(operations) :
       /\ IsRetainedOperation(record)
       /\ record.scope.work = work
       /\ record.outcome = "committed" => record.receipt \in Receipts(peerLog)

(* It is bound exactly while the peer has the authority, and to a commit   *)
(* made for its own work.                                                  *)
SoundBinding(g, peerLog) ==
  LET b == g.backend
  IN /\ ClaimsAuthority(b) <=> b.binding # Nothing
     /\ b.binding # Nothing =>
          /\ b.binding.work = g.work
          /\ b.binding.revision \in DOMAIN peerLog
          /\ peerLog[b.binding.revision].scope.work = g.work

NoneCommitted(operations) ==
  \A record \in ToSet(operations) : record.outcome = "quarantined"

(* A bind was planned by a goal that owned its memory, which it carries;   *)
(* anything else on the revision in force, before the peer committed it.   *)
SoundIntent(g, peerLog) ==
  LET b == g.backend
  IN b.pending # Nothing =>
       /\ WellPlanned(b.pending)
       /\ b.pending.id \notin RetainedIds(b)
       /\ b.pending.scope.work = g.work
       /\ b.pending.kind = "bind" =>
            /\ b.pending.payload.notes = g.notes
            /\ b.pending.previous \in {"unbound", "detached"}
            /\ b.pending.previous = "unbound" => NoneCommitted(b.operations)
       /\ b.pending.kind # "bind" =>
            /\ ClaimsAuthority(b)
            /\ b.pending.expected = b.binding.revision
            /\ b.pending.previous = "bound-available"
            /\ \A i \in DOMAIN peerLog :
                 (peerLog[i].id = b.pending.id /\ peerLog[i].scope.work = g.work)
                   => i > b.binding.revision

SoundGoal(g, peerLog) ==
  /\ g \in Goal
  /\ SoundOperations(g.backend.operations, g.work, peerLog)
  /\ SoundBinding(g, peerLog)
  /\ SoundIntent(g, peerLog)
  /\ g.backend.state = "binding-pending"
       <=> (g.backend.pending # Nothing /\ g.backend.pending.kind = "bind")
  /\ GoalOwnsMemory(g.backend) => g.backend.pending = Nothing
  /\ g.backend.state = "unbound" => NoneCommitted(g.backend.operations)

(* A sound goal is read back.                                              *)
LEMMA SoundIsReadable ==
  ASSUME NEW g, NEW peerLog, SoundLog(peerLog), SoundGoal(g, peerLog)
  PROVE  IsGoalBackend(g.backend) /\ IsBackendConsistentWithGoal(g)
<1> DEFINE b == g.backend
<1>1. g \in Goal /\ b \in Backend
  BY DEF SoundGoal, Goal
<1>2. Cardinality(RetainedIds(b)) = Len(b.operations)
  BY KeysCount DEF SoundGoal, SoundOperations, RetainedIds
<1>3. b.binding # Nothing => b.binding.revision # 0
  BY CommitTypes DEF SoundLog, SoundGoal, SoundBinding
<1>4. IsGoalBackend(b)
  <2>1. /\ Len(b.operations) <= MaxRetainedOperations
        /\ \A record \in ToSet(b.operations) : IsRetainedOperation(record)
    BY DEF SoundGoal, SoundOperations
  <2>2. b.pending # Nothing => b.pending.id \notin RetainedIds(b)
    BY DEF SoundGoal, SoundIntent
  <2>3. ClaimsAuthority(b) <=> b.binding # Nothing
    BY DEF SoundGoal, SoundBinding
  <2>4. /\ b.state = "binding-pending" <=> (b.pending # Nothing /\ b.pending.kind = "bind")
        /\ GoalOwnsMemory(b) => b.pending = Nothing
        /\ b.state = "unbound" =>
             \A record \in ToSet(b.operations) : record.outcome = "quarantined"
    BY DEF SoundGoal, NoneCommitted
  <2> QED
    BY <1>1, <1>2, <1>3, <2>1, <2>2, <2>3, <2>4 DEF IsGoalBackend
<1>5. IsBackendConsistentWithGoal(g)
  BY DEF IsBackendConsistentWithGoal, SoundGoal, SoundBinding, SoundIntent, SoundOperations
<1> QED
  BY <1>4, <1>5

(* The peer may commit more; what the goal holds of it stays true.         *)
LEMMA SoundAsLogGrows ==
  ASSUME NEW g, NEW peerLog, NEW later, SoundLog(peerLog), SoundLog(later),
         Continues(peerLog, later), SoundGoal(g, peerLog)
  PROVE  SoundGoal(g, later)
<1> DEFINE b == g.backend
<1>1. SoundOperations(b.operations, g.work, later)
  BY ReceiptsStay DEF SoundGoal, SoundOperations
<1>2. SoundBinding(g, later)
  BY DEF SoundGoal, SoundBinding, Continues
<1>3. ASSUME b.pending # Nothing, b.pending.kind # "bind", NEW i \in DOMAIN later,
             later[i].id = b.pending.id, later[i].scope.work = g.work
      PROVE  i > b.binding.revision
  <2>1. /\ DOMAIN peerLog = 1..Len(peerLog) /\ Len(peerLog) \in Nat
        /\ i \in Nat \ {0}
    BY CommitTypes DEF SoundLog
  <2>2. b.binding # Nothing /\ b.binding.revision \in DOMAIN peerLog
    BY <1>3 DEF SoundGoal, SoundBinding, SoundIntent
  <2>3. CASE i \in DOMAIN peerLog
    BY <1>3, <2>3 DEF SoundGoal, SoundIntent, Continues
  <2>4. CASE i \notin DOMAIN peerLog
    BY <2>1, <2>2, <2>4
  <2> QED
    BY <2>3, <2>4
<1>4. SoundIntent(g, later)
  BY <1>3 DEF SoundGoal, SoundIntent
<1> QED
  BY <1>1, <1>2, <1>4 DEF SoundGoal

-----------------------------------------------------------------------------
(* Planning.                                                               *)

LEMMA PlannedSound ==
  ASSUME NEW g, NEW peerLog, SoundLog(peerLog), SoundGoal(g, peerLog),
         NEW request \in Request, WellPlanned(request), request.scope.work = g.work,
         request.kind = "bind" => request.payload.notes = g.notes,
         Replay(g.backend, request) = "novel" =>
           \A i \in DOMAIN peerLog :
             ~ (peerLog[i].id = request.id /\ peerLog[i].scope.work = g.work)
  PROVE  SoundGoal(BeginOperation(g, request), peerLog)
<1> DEFINE b == g.backend
           h == BeginOperation(g, request)
<1>1. CASE h = g
  BY <1>1
<1>2. CASE h # g
  <2> DEFINE pending == PendingFrom(g, request)
             state == IF request.kind = "bind" THEN "binding-pending" ELSE b.state
  <2>1. /\ Replay(b, request) = "novel"
        /\ OperationIsLegal(b, request.kind, request.expected)
        /\ b.pending = Nothing
    BY <1>2 DEF BeginOperation
  <2>2. g \in Goal /\ b \in Backend
    BY DEF SoundGoal, Goal
  <2>3. h = [g EXCEPT !.backend = [b EXCEPT !.pending = pending, !.state = state]]
    BY <2>1, <2>2 DEF BeginOperation, Goal, Backend
  <2>4. request.id \notin RetainedIds(b)
    BY <2>1 DEF Replay
  <2>5. /\ b.state # "binding-pending"
        /\ request.kind = "bind" => b.state \in {"unbound", "detached"}
        /\ request.kind # "bind" => b.state = "bound-available" /\ b.binding # Nothing
                                    /\ request.expected = b.binding.revision
    BY <2>1 DEF OperationIsLegal, SoundGoal, SoundBinding, ClaimsAuthority
  <2>6. pending \in PendingOperation /\ pending # Nothing
    BY <2>2, NullAssumption DEF PendingFrom, PendingOperation, Request, WellPlanned, Backend
  <2>7. state \in BackendStates
    BY <2>2 DEF Backend, BackendStates
  <2>8. /\ h \in Goal /\ h.work = g.work /\ h.notes = g.notes
        /\ h.backend.state = state /\ h.backend.pending = pending
        /\ h.backend.binding = b.binding /\ h.backend.operations = b.operations
    <3> HIDE DEF pending, state
    <3> QED
      BY <2>2, <2>3, <2>6, <2>7 DEF Goal, Backend
  <2>9. /\ pending.id = request.id /\ pending.kind = request.kind
        /\ pending.scope = request.scope /\ pending.expected = request.expected
        /\ pending.payload = request.payload /\ pending.previous = b.state
    BY DEF PendingFrom
  <2>10. WellPlanned(pending)
    BY <2>9 DEF WellPlanned
  <2> HIDE DEF h, pending
  <2>11. ClaimsAuthority(h.backend) <=> ClaimsAuthority(b)
    BY <2>5, <2>8 DEF ClaimsAuthority, WellPlanned, Mutations
  <2>12. SoundBinding(h, peerLog)
    BY <2>8, <2>11 DEF SoundGoal, SoundBinding
  <2>13. RetainedIds(h.backend) = RetainedIds(b)
    BY <2>8 DEF RetainedIds
  <2>14. SoundIntent(h, peerLog)
    <3>1. request.kind = "bind" => (b.state = "unbound" => NoneCommitted(b.operations))
      BY DEF SoundGoal
    <3>2. request.kind # "bind" => ClaimsAuthority(b)
      BY <2>5 DEF ClaimsAuthority
    <3> QED
      BY <2>1, <2>4, <2>5, <2>8, <2>9, <2>10, <2>11, <2>13, <3>1, <3>2 DEF SoundIntent
  <2>15. GoalOwnsMemory(h.backend) => FALSE
    BY <2>5, <2>8, <2>9, <2>10 DEF GoalOwnsMemory, WellPlanned, Mutations
  <2> QED
    <3>1. SoundOperations(h.backend.operations, h.work, peerLog)
      BY <2>8 DEF SoundGoal
    <3>2. /\ h.backend.state = "binding-pending"
               <=> (h.backend.pending # Nothing /\ h.backend.pending.kind = "bind")
          /\ h.backend.state = "unbound" => NoneCommitted(h.backend.operations)
      BY <2>5, <2>6, <2>8, <2>9 DEF SoundGoal
    <3> QED
      BY <2>8, <2>12, <2>14, <2>15, <3>1, <3>2 DEF SoundGoal, h
<1> QED
  BY <1>1, <1>2

(* A plan changes nothing but the slot, and the state if it is a bind.     *)
LEMMA PlannedFields ==
  ASSUME NEW g \in Goal, NEW request
  PROVE  LET h == BeginOperation(g, request)
         IN /\ h.work = g.work /\ h.notes = g.notes
            /\ h.backend.binding = g.backend.binding
            /\ h.backend.operations = g.backend.operations
            /\ \/ h.backend.state = g.backend.state
               \/ /\ h.backend.state = "binding-pending"
                  /\ g.backend.state \in {"unbound", "detached", "binding-pending"}
BY DEF BeginOperation, OperationIsLegal, Goal, Backend

-----------------------------------------------------------------------------
(* Ways out of an intent.                                                  *)

(* The oldest records make room, and the new one is kept.                  *)
LEMMA RetainSound ==
  ASSUME NEW operations, NEW work, NEW peerLog, SoundOperations(operations, work, peerLog),
         NEW record \in RetainedOperation, IsRetainedOperation(record),
         record.scope.work = work,
         record.outcome = "committed" => record.receipt \in Receipts(peerLog),
         record.id \notin {other.id : other \in ToSet(operations)}
  PROVE  /\ SoundOperations(Retain(operations, record), work, peerLog)
         /\ ToSet(Retain(operations, record)) \subseteq ToSet(operations) \cup {record}
<1> DEFINE kept == Append(operations, record)
           from == Max({1, Len(kept) - MaxRetainedOperations + 1})
           retained == Retain(operations, record)
<1>1. /\ operations \in Seq(RetainedOperation)
      /\ Len(operations) \in Nat /\ DOMAIN operations = 1..Len(operations)
  BY LenProperties DEF SoundOperations
<1>2. \A i \in 1..Len(operations) : operations[i].id # record.id
  BY <1>1 DEF ToSet
<1>3. RemoveFirstMatch(operations, LAMBDA r : r.id = record.id) = operations
  BY <1>2, Zenon DEF RemoveFirstMatch
<1>4. retained = SubSeq(kept, from, Len(kept))
  BY <1>3, Zenon DEF Retain
<1>5. /\ kept \in Seq(RetainedOperation) /\ Len(kept) = Len(operations) + 1
      /\ \A i \in 1..Len(operations) : kept[i] = operations[i]
      /\ kept[Len(operations) + 1] = record
  BY <1>1, AppendProperties
<1>6. \A i, j \in 1..Len(kept) : kept[i].id = kept[j].id => i = j
  BY <1>1, <1>2, <1>5 DEF SoundOperations
<1>7. /\ MaxRetainedOperations \in Nat \ {0}
      /\ from = IF Len(kept) <= MaxRetainedOperations THEN 1
                ELSE Len(kept) - MaxRetainedOperations + 1
  BY <1>1, <1>5, MaxOfTwo, MaxRetainedAssumption
<1> HIDE DEF kept, from
<1>8. \A i \in 1..Len(kept) : kept[i] \in RetainedOperation /\ kept[i] \in ToSet(operations) \cup {record}
  BY <1>1, <1>5, ElementOfSeq DEF ToSet
<1>9. from \in 1..Len(kept)
  BY <1>1, <1>5, <1>7
<1>10. /\ retained \in Seq(RetainedOperation)
       /\ Len(retained) = Len(kept) - from + 1
       /\ \A i \in 1..Len(retained) : retained[i] = kept[from + i - 1]
  BY <1>4, <1>8, <1>9, SubSeqProperties
<1> HIDE DEF retained
<1>11. Len(retained) \in Nat /\ DOMAIN retained = 1..Len(retained)
  BY <1>10, LenProperties
<1>12. \A i \in DOMAIN retained : from + i - 1 \in 1..Len(kept)
  BY <1>1, <1>5, <1>9, <1>10, <1>11
<1>13. ToSet(retained) \subseteq ToSet(operations) \cup {record}
  BY <1>8, <1>10, <1>11, <1>12 DEF ToSet
<1>14. Len(retained) <= MaxRetainedOperations
  BY <1>1, <1>5, <1>7, <1>10
<1>15. \A i, j \in DOMAIN retained : retained[i].id = retained[j].id => i = j
  <2> TAKE i, j \in DOMAIN retained
  <2> HAVE retained[i].id = retained[j].id
  <2>1. from + i - 1 = from + j - 1
    BY <1>6, <1>10, <1>11, <1>12
  <2> QED
    BY <1>9, <1>11, <2>1
<1>16. SoundOperations(retained, work, peerLog)
  BY <1>10, <1>13, <1>14, <1>15 DEF SoundOperations
<1> QED
  BY <1>13, <1>16 DEF retained

Answers(receipt, pending) ==
  /\ receipt.id = pending.id
  /\ receipt.scope = pending.scope
  /\ receipt.payload = pending.payload

(* An intent becomes a record, quarantined or with a receipt of its own.   *)
LEMMA RecordSound ==
  ASSUME NEW g, NEW peerLog, SoundLog(peerLog), SoundGoal(g, peerLog),
         g.backend.pending # Nothing, NEW outcome, NEW receipt,
         \/ outcome = "quarantined" /\ receipt = Nothing
         \/ /\ outcome = "committed"
            /\ receipt \in Receipts(peerLog) /\ Answers(receipt, g.backend.pending)
  PROVE  LET record == RecordOf(g.backend.pending, outcome, receipt)
             retained == Retain(g.backend.operations, record)
         IN /\ record.id = g.backend.pending.id /\ record.outcome = outcome
            /\ SoundOperations(retained, g.work, peerLog)
            /\ ToSet(retained) \subseteq ToSet(g.backend.operations) \cup {record}
<1> DEFINE pending == g.backend.pending
           record == RecordOf(pending, outcome, receipt)
<1>1. pending \in PendingOperation
  BY DEF SoundGoal, Goal, Backend
<1>2. receipt \in Receipt \cup {Nothing} /\ outcome \in {"committed", "quarantined"}
  BY ReceiptIsTrue
<1>3. record \in RetainedOperation
  BY <1>1, <1>2 DEF RecordOf, RetainedOperation, PendingOperation
<1>4. receipt \in Receipt => receipt # Nothing
  BY NothingAssumption
<1>5. /\ record.id = pending.id /\ record.outcome = outcome /\ record.receipt = receipt
      /\ record.payload = pending.payload /\ record.scope = pending.scope
  BY DEF RecordOf
<1>6. IsRetainedOperation(record)
  BY <1>4, <1>5, ReceiptIsTrue DEF IsRetainedOperation, IsCompleteReceipt, Answers
<1>7. record.scope.work = g.work /\ pending.id \notin RetainedIds(g.backend)
  BY <1>5 DEF SoundGoal, SoundIntent
<1>8. record.outcome = "committed" => record.receipt \in Receipts(peerLog)
  BY <1>5
<1> HIDE DEF record
<1> QED
  BY <1>3, <1>5, <1>6, <1>7, <1>8, RetainSound DEF SoundGoal, RetainedIds, record

(* What a quarantine makes of the goal.                                    *)
LEMMA QuarantineFields ==
  ASSUME NEW g, NEW peerLog, SoundLog(peerLog), SoundGoal(g, peerLog),
         g.backend.pending # Nothing
  PROVE  LET b == g.backend
             h == Quarantine(g)
         IN /\ h.work = g.work /\ h.notes = g.notes
            /\ h.backend.pending = Nothing
            /\ h.backend.binding = b.binding
            /\ h.backend.operations =
                 Retain(b.operations, RecordOf(b.pending, "quarantined", Nothing))
            /\ h.backend.state = b.pending.previous
            /\ h \in Goal
<1> DEFINE b == g.backend
           h == Quarantine(g)
           state == SettledState(b.pending.previous, b.binding)
           retained == Retain(b.operations, RecordOf(b.pending, "quarantined", Nothing))
<1>1. /\ g \in Goal /\ b \in Backend
      /\ b.pending.previous \in {"unbound", "detached", "bound-available"}
  BY DEF SoundGoal, SoundIntent, Goal, Backend
<1>2. state = b.pending.previous
  BY <1>1 DEF SettledState
<1>3. retained \in Seq(RetainedOperation)
  BY RecordSound DEF SoundOperations
<1>4. h = [g EXCEPT !.backend =
              [b EXCEPT !.state = state, !.pending = Nothing, !.operations = retained]]
  BY DEF Quarantine
<1>5. state \in BackendStates
  BY <1>1, <1>2 DEF BackendStates
<1> HIDE DEF retained, state, h
<1>6. /\ h \in Goal /\ h.work = g.work /\ h.notes = g.notes
      /\ h.backend.pending = Nothing /\ h.backend.binding = b.binding
      /\ h.backend.operations = retained /\ h.backend.state = state
  BY <1>1, <1>3, <1>4, <1>5 DEF Goal, Backend
<1> QED
  BY <1>2, <1>6 DEF retained, h

LEMMA QuarantineSound ==
  ASSUME NEW g, NEW peerLog, SoundLog(peerLog), SoundGoal(g, peerLog),
         g.backend.pending # Nothing
  PROVE  SoundGoal(Quarantine(g), peerLog)
<1> DEFINE b == g.backend
           h == Quarantine(g)
           record == RecordOf(b.pending, "quarantined", Nothing)
<1>1. /\ h.work = g.work /\ h.notes = g.notes /\ h \in Goal
      /\ h.backend.pending = Nothing
      /\ h.backend.binding = b.binding
      /\ h.backend.operations = Retain(b.operations, record)
      /\ h.backend.state = b.pending.previous
  BY QuarantineFields
<1>2. /\ SoundOperations(h.backend.operations, h.work, peerLog)
      /\ record.outcome = "quarantined"
      /\ ToSet(h.backend.operations) \subseteq ToSet(b.operations) \cup {record}
  BY <1>1, RecordSound
<1> HIDE DEF h, record
<1>3. CASE b.pending.kind = "bind"
  <2>1. /\ b.state = "binding-pending"
        /\ b.pending.previous \in {"unbound", "detached"}
        /\ b.pending.previous = "unbound" => NoneCommitted(b.operations)
    BY <1>3 DEF SoundGoal, SoundIntent
  <2>2. b.binding = Nothing
    BY <2>1 DEF SoundGoal, SoundBinding, ClaimsAuthority
  <2>3. SoundBinding(h, peerLog)
    BY <1>1, <2>1, <2>2 DEF SoundBinding, ClaimsAuthority
  <2>4. h.backend.state = "unbound" => NoneCommitted(h.backend.operations)
    BY <1>1, <1>2, <2>1 DEF NoneCommitted
  <2> QED
    BY <1>1, <1>2, <2>1, <2>3, <2>4 DEF SoundGoal, SoundIntent, h
<1>4. CASE b.pending.kind # "bind"
  <2>1. ClaimsAuthority(b) /\ h.backend.state = "bound-available"
    BY <1>1, <1>4 DEF SoundGoal, SoundIntent
  <2>2. SoundBinding(h, peerLog)
    BY <1>1, <2>1 DEF SoundGoal, SoundBinding, ClaimsAuthority
  <2> QED
    BY <1>1, <1>2, <2>1, <2>2 DEF SoundGoal, SoundIntent, GoalOwnsMemory, h
<1> QED
  BY <1>3, <1>4

(* What an acknowledged bind or write makes of the goal.                   *)
LEMMA InstallFields ==
  ASSUME NEW g, NEW peerLog, SoundLog(peerLog), SoundGoal(g, peerLog),
         g.backend.pending # Nothing, g.backend.pending.kind # "detach",
         NEW receipt \in Receipts(peerLog), Answers(receipt, g.backend.pending)
  PROVE  LET b == g.backend
             h == InstallBinding(g, receipt)
         IN /\ h.work = g.work /\ h.notes = g.notes
            /\ h.backend.pending = Nothing
            /\ h.backend.binding # Nothing
            /\ h.backend.binding.work = g.work
            /\ h.backend.binding.revision = receipt.revision
            /\ h.backend.operations =
                 Retain(b.operations, RecordOf(b.pending, "committed", receipt))
            /\ h.backend.state = "bound-available"
            /\ h \in Goal
<1> DEFINE b == g.backend
           h == InstallBinding(g, receipt)
           binding == [ work |-> g.work, selection |-> b.pending.scope.selection,
                        revision |-> receipt.revision ]
           retained == Retain(b.operations, RecordOf(b.pending, "committed", receipt))
<1>1. /\ g \in Goal /\ b \in Backend /\ g.work \in Works
      /\ b.pending.scope.selection \in Selections
  BY DEF SoundGoal, Goal, Backend, PendingOperation, Scope
<1>2. receipt.revision \in Nat
  BY ReceiptIsTrue DEF Receipt
<1>3. binding \in Binding /\ binding # Nothing
  BY <1>1, <1>2, NullAssumption DEF Binding
<1>4. retained \in Seq(RetainedOperation)
  BY RecordSound DEF SoundOperations
<1>5. h = [g EXCEPT !.backend =
        [ b EXCEPT !.state = "bound-available", !.binding = binding,
                   !.pending = Nothing, !.operations = retained ]]
  BY DEF InstallBinding, ReachableState
<1>6. binding.work = g.work /\ binding.revision = receipt.revision
  OBVIOUS
<1> HIDE DEF retained, binding, h
<1>7. /\ h \in Goal /\ h.work = g.work /\ h.notes = g.notes
      /\ h.backend.pending = Nothing /\ h.backend.binding = binding
      /\ h.backend.operations = retained /\ h.backend.state = "bound-available"
  BY <1>1, <1>3, <1>4, <1>5 DEF Goal, Backend, BackendStates
<1> QED
  BY <1>3, <1>6, <1>7 DEF retained, h

LEMMA InstallSound ==
  ASSUME NEW g, NEW peerLog, SoundLog(peerLog), SoundGoal(g, peerLog),
         g.backend.pending # Nothing, g.backend.pending.kind # "detach",
         NEW receipt \in Receipts(peerLog), Answers(receipt, g.backend.pending)
  PROVE  SoundGoal(InstallBinding(g, receipt), peerLog)
<1> DEFINE b == g.backend
           h == InstallBinding(g, receipt)
<1>1. /\ h.work = g.work /\ h.notes = g.notes /\ h \in Goal
      /\ h.backend.pending = Nothing
      /\ h.backend.binding # Nothing
      /\ h.backend.binding.work = g.work
      /\ h.backend.binding.revision = receipt.revision
      /\ h.backend.operations = Retain(b.operations, RecordOf(b.pending, "committed", receipt))
      /\ h.backend.state = "bound-available"
  BY InstallFields
<1>2. SoundOperations(h.backend.operations, h.work, peerLog)
  <2>1. SoundOperations(Retain(b.operations, RecordOf(b.pending, "committed", receipt)),
                        g.work, peerLog)
    BY RecordSound
  <2> QED
    BY <1>1, <2>1
<1>3. receipt.revision \in DOMAIN peerLog /\ peerLog[receipt.revision].scope.work = g.work
  BY ReceiptIsTrue DEF Answers, SoundGoal, SoundIntent
<1> HIDE DEF h
<1>4. SoundBinding(h, peerLog)
  BY <1>1, <1>3 DEF SoundBinding, ClaimsAuthority
<1> QED
  BY <1>1, <1>2, <1>4 DEF SoundGoal, SoundIntent, GoalOwnsMemory, h

(* What an acknowledged detach makes of the goal.                          *)
LEMMA ReleaseFields ==
  ASSUME NEW g, NEW peerLog, SoundLog(peerLog), SoundGoal(g, peerLog),
         g.backend.pending # Nothing, NEW export \in Contents,
         NEW receipt \in Receipts(peerLog), Answers(receipt, g.backend.pending)
  PROVE  LET b == g.backend
             h == ReleaseBinding(g, receipt, export)
         IN /\ h.work = g.work /\ h.notes = export
            /\ h.backend.pending = Nothing
            /\ h.backend.binding = Nothing
            /\ h.backend.operations =
                 Retain(b.operations, RecordOf(b.pending, "committed", receipt))
            /\ h.backend.state = "detached"
            /\ h \in Goal
<1> DEFINE b == g.backend
           h == ReleaseBinding(g, receipt, export)
           retained == Retain(b.operations, RecordOf(b.pending, "committed", receipt))
<1>1. g \in Goal /\ b \in Backend
  BY DEF SoundGoal, Goal, Backend
<1>2. retained \in Seq(RetainedOperation)
  BY RecordSound DEF SoundOperations
<1>3. h = [g EXCEPT !.notes = export, !.backend =
             [ b EXCEPT !.state = "detached", !.binding = Nothing,
                        !.pending = Nothing, !.operations = retained ]]
  BY DEF ReleaseBinding
<1> HIDE DEF retained, h
<1>4. /\ h \in Goal /\ h.work = g.work /\ h.notes = export
      /\ h.backend.pending = Nothing /\ h.backend.binding = Nothing
      /\ h.backend.operations = retained /\ h.backend.state = "detached"
  BY <1>1, <1>2, <1>3 DEF Goal, Backend, BackendStates
<1> QED
  BY <1>4 DEF retained, h

LEMMA ReleaseSound ==
  ASSUME NEW g, NEW peerLog, SoundLog(peerLog), SoundGoal(g, peerLog),
         g.backend.pending # Nothing, NEW export \in Contents,
         NEW receipt \in Receipts(peerLog), Answers(receipt, g.backend.pending)
  PROVE  SoundGoal(ReleaseBinding(g, receipt, export), peerLog)
<1> DEFINE b == g.backend
           h == ReleaseBinding(g, receipt, export)
<1>1. /\ h.work = g.work /\ h \in Goal
      /\ h.backend.pending = Nothing
      /\ h.backend.binding = Nothing
      /\ h.backend.operations = Retain(b.operations, RecordOf(b.pending, "committed", receipt))
      /\ h.backend.state = "detached"
  BY ReleaseFields
<1>2. SoundOperations(h.backend.operations, h.work, peerLog)
  <2>1. SoundOperations(Retain(b.operations, RecordOf(b.pending, "committed", receipt)),
                        g.work, peerLog)
    BY RecordSound
  <2> QED
    BY <1>1, <2>1
<1> HIDE DEF h
<1>3. SoundBinding(h, peerLog)
  BY <1>1 DEF SoundBinding, ClaimsAuthority
<1> QED
  BY <1>1, <1>2, <1>3 DEF SoundGoal, SoundIntent, h

-----------------------------------------------------------------------------
(* Answers.                                                                *)

(* What the peer may say: a mutation it acknowledges is in its log, and a  *)
(* read tells the revision in force.  Answers to other requests are free.  *)
FitAnswer(peerLog, request, answer) ==
  /\ answer.status \in {"committed", "pending", "error"}
  /\ answer.status = "error" => answer.code \in PeerErrorCodes
  /\ (answer.status = "committed" /\ answer.id = request.id) =>
       /\ answer.receipt.id = request.id
       /\ request.kind \in Mutations => answer.receipt \in Receipts(peerLog)
       /\ request.kind = "read" =>
            /\ answer.receipt.scope = request.scope
            /\ answer.receipt.revision \in DOMAIN peerLog
            /\ peerLog[answer.receipt.revision].scope.work = request.scope.work
            /\ request.expected # 0 => answer.receipt.revision = request.expected
            /\ answer.projection \in {Nothing, peerLog[answer.receipt.revision].notes}

(* Verified is what answers the request; terminal is about the request.    *)
LEMMA VerdictMeans ==
  ASSUME NEW peerLog, NEW request, NEW answer, FitAnswer(peerLog, request, answer)
  PROVE  LET code == VerifyReceipt(request, answer)
         IN /\ code = "verified" =>
                 /\ answer.status = "committed" /\ answer.id = request.id
                 /\ answer.receipt.scope.work = request.scope.work
                 /\ answer.receipt.scope.selection = request.scope.selection
                 /\ answer.receipt.payload = request.payload
            /\ code \in TerminalCodes =>
                 \/ answer.status = "committed" /\ answer.id = request.id
                 \/ /\ answer.status = "error" /\ answer.code \in TerminalCodes
                    /\ answer.id \in {request.id, Nothing}
<1>1. CASE ~Correlates(request, answer)
  BY <1>1 DEF VerifyReceipt, TerminalCodes
<1>2. CASE Correlates(request, answer) /\ answer.status = "error"
  <2>1. VerifyReceipt(request, answer) = answer.code
    BY <1>2 DEF VerifyReceipt
  <2>2. answer.code # "verified"
    BY <1>2 DEF FitAnswer, PeerErrorCodes, RetryableCodes, TerminalCodes
  <2> QED
    BY <1>2, <2>1, <2>2 DEF Correlates
<1>3. CASE Correlates(request, answer) /\ answer.status = "pending"
  BY <1>3 DEF VerifyReceipt, TerminalCodes
<1>4. CASE Correlates(request, answer) /\ answer.status = "committed"
  BY <1>4 DEF VerifyReceipt, TerminalCodes, Correlates
<1> QED
  BY <1>1, <1>2, <1>3, <1>4 DEF FitAnswer

LEMMA PendingRequest ==
  ASSUME NEW g, NEW peerLog, SoundGoal(g, peerLog), g.backend.pending # Nothing
  PROVE  LET pending == g.backend.pending
             request == RequestOf(pending)
         IN /\ request.id = pending.id /\ request.kind = pending.kind
            /\ request.scope = pending.scope /\ request.expected = pending.expected
            /\ request.payload = pending.payload
            /\ request \in Request /\ WellPlanned(request)
            /\ pending.scope \in Scope
<1> DEFINE pending == g.backend.pending
<1>1. pending \in PendingOperation /\ WellPlanned(pending)
  BY DEF SoundGoal, SoundIntent, Goal, Backend
<1> HIDE DEF pending
<1>2. RequestOf(pending) \in Request
  BY <1>1 DEF RequestOf, Request, RequestIds, PendingOperation
<1>3. WellPlanned(RequestOf(pending))
  BY <1>1 DEF RequestOf, WellPlanned
<1> QED
  BY <1>1, <1>2, <1>3 DEF RequestOf, PendingOperation, pending

LEMMA VerifiedAnswers ==
  ASSUME NEW g, NEW peerLog, SoundLog(peerLog), SoundGoal(g, peerLog),
         g.backend.pending # Nothing, NEW answer,
         FitAnswer(peerLog, RequestOf(g.backend.pending), answer),
         VerifyReceipt(RequestOf(g.backend.pending), answer) = "verified"
  PROVE  /\ answer.receipt \in Receipts(peerLog)
         /\ Answers(answer.receipt, g.backend.pending)
<1> DEFINE pending == g.backend.pending
           request == RequestOf(pending)
           receipt == answer.receipt
<1>1. /\ request.id = pending.id /\ request.kind = pending.kind
      /\ request.scope = pending.scope /\ request.payload = pending.payload
      /\ request.kind \in Mutations /\ pending.scope \in Scope
  BY PendingRequest DEF WellPlanned
<1> HIDE DEF request
<1>2. /\ answer.status = "committed" /\ answer.id = request.id
      /\ receipt.scope.work = request.scope.work
      /\ receipt.scope.selection = request.scope.selection
      /\ receipt.payload = request.payload
  BY VerdictMeans DEF request
<1>3. receipt \in Receipts(peerLog) /\ receipt.id = request.id
  BY <1>1, <1>2 DEF FitAnswer, request
<1>4. receipt.scope \in Scope
  BY <1>3, ReceiptIsTrue DEF Receipt
<1>5. receipt.scope = pending.scope
  BY <1>1, <1>2, <1>4 DEF Scope
<1> QED
  BY <1>1, <1>2, <1>3, <1>5 DEF Answers

(* A failed operation is quarantined for good or waits for a retry.        *)
LEMMA FailSound ==
  ASSUME NEW g, NEW peerLog, SoundLog(peerLog), SoundGoal(g, peerLog), NEW code
  PROVE  /\ SoundGoal(FailOperation(g, code), peerLog)
         /\ code \notin TerminalCodes =>
              /\ FailOperation(g, code).work = g.work /\ FailOperation(g, code).notes = g.notes
              /\ FailOperation(g, code).backend.pending = g.backend.pending
              /\ FailOperation(g, code).backend.binding = g.backend.binding
              /\ FailOperation(g, code).backend.operations = g.backend.operations
              /\ FailOperation(g, code).backend.state =
                   IF g.backend.state = "bound-available" /\ g.backend.pending # Nothing
                   THEN "bound-unavailable" ELSE g.backend.state
<1> DEFINE b == g.backend
           h == FailOperation(g, code)
<1>0. g \in Goal /\ b \in Backend
  BY DEF SoundGoal, Goal, Backend
<1>1. CASE b.pending = Nothing
  BY <1>1 DEF FailOperation
<1>2. CASE b.pending # Nothing /\ code \in TerminalCodes
  BY <1>2, QuarantineSound DEF FailOperation
<1>3. CASE b.pending # Nothing /\ code \notin TerminalCodes
  <2> DEFINE state == IF b.state = "bound-available" THEN "bound-unavailable" ELSE b.state
  <2>1. h = [g EXCEPT !.backend = [b EXCEPT !.state = state]]
    BY <1>0, <1>3 DEF FailOperation, Goal, Backend
  <2>2. state \in BackendStates
    BY <1>0 DEF Backend, BackendStates
  <2> HIDE DEF state, h
  <2>3. /\ h \in Goal /\ h.work = g.work /\ h.notes = g.notes
        /\ h.backend.pending = b.pending /\ h.backend.binding = b.binding
        /\ h.backend.operations = b.operations /\ h.backend.state = state
    BY <1>0, <2>1, <2>2 DEF Goal, Backend
  <2>4. /\ ClaimsAuthority(h.backend) <=> ClaimsAuthority(b)
        /\ GoalOwnsMemory(h.backend) <=> GoalOwnsMemory(b)
        /\ h.backend.state = "unbound" <=> b.state = "unbound"
        /\ h.backend.state = "binding-pending" <=> b.state = "binding-pending"
        /\ RetainedIds(h.backend) = RetainedIds(b)
    BY <2>3 DEF state, ClaimsAuthority, GoalOwnsMemory, RetainedIds
  <2>5. SoundIntent(h, peerLog) /\ SoundBinding(h, peerLog)
    BY <2>3, <2>4 DEF SoundGoal, SoundIntent, SoundBinding
  <2>6. SoundGoal(h, peerLog)
    BY <2>3, <2>4, <2>5 DEF SoundGoal
  <2> QED
    BY <1>3, <2>3, <2>6 DEF h, state
<1> QED
  BY <1>1, <1>2, <1>3

(* What an answer may do to an intent: nothing but a change of the peer's  *)
(* availability, or one of the three ways out, each with its reason.       *)
Waits(g, h) ==
  /\ h.work = g.work /\ h.notes = g.notes
  /\ h.backend.pending = g.backend.pending
  /\ h.backend.binding = g.backend.binding
  /\ h.backend.operations = g.backend.operations
  /\ \/ h.backend.state = g.backend.state
     \/ ClaimsAuthority(g.backend) /\ ClaimsAuthority(h.backend)

LEMMA AcceptCases ==
  ASSUME NEW g, NEW peerLog, SoundLog(peerLog), SoundGoal(g, peerLog),
         g.backend.pending # Nothing, NEW answer, NEW selection, NEW export
  PROVE  LET b == g.backend
             h == AcceptReceipt(g, answer, selection, export)
             code == VerifyReceipt(RequestOf(b.pending), answer)
         IN \/ Waits(g, h)
            \/ /\ h = Quarantine(g)
               /\ b.pending.scope.selection # selection \/ code \in TerminalCodes
            \/ /\ h = ReleaseBinding(g, answer.receipt, export)
               /\ code = "verified" /\ export # Nothing /\ b.pending.kind = "detach"
            \/ /\ h = InstallBinding(g, answer.receipt)
               /\ code = "verified" /\ b.pending.kind # "detach"
<1> DEFINE b == g.backend
           h == AcceptReceipt(g, answer, selection, export)
           code == VerifyReceipt(RequestOf(b.pending), answer)
<1>1. CASE h = g
  BY <1>1 DEF Waits
<1>2. CASE h = FailOperation(g, code)
  <2>1. CASE code \in TerminalCodes
    BY <1>2, <2>1 DEF FailOperation
  <2>2. CASE code \notin TerminalCodes
    BY <1>2, <2>2, FailSound DEF Waits, ClaimsAuthority
  <2> QED
    BY <2>1, <2>2
<1>3. CASE h = Quarantine(g) /\ b.pending.scope.selection # selection
  BY <1>3
<1>4. CASE h = ReleaseBinding(g, answer.receipt, export) /\ code = "verified"
           /\ export # Nothing /\ b.pending.kind = "detach"
  BY <1>4
<1>5. CASE h = InstallBinding(g, answer.receipt) /\ code = "verified"
           /\ b.pending.kind # "detach"
  BY <1>5
<1>6. ~ (b.pending.kind # "bind" /\ b.binding = Nothing)
  BY DEF SoundGoal, SoundIntent, SoundBinding
<1> QED
  BY <1>1, <1>2, <1>3, <1>4, <1>5, <1>6 DEF AcceptReceipt

LEMMA AcceptSound ==
  ASSUME NEW g, NEW peerLog, SoundLog(peerLog), SoundGoal(g, peerLog),
         NEW answer, NEW selection, NEW export \in Contents \cup {Nothing},
         g.backend.pending # Nothing =>
           FitAnswer(peerLog, RequestOf(g.backend.pending), answer)
  PROVE  SoundGoal(AcceptReceipt(g, answer, selection, export), peerLog)
<1> DEFINE b == g.backend
           h == AcceptReceipt(g, answer, selection, export)
           code == VerifyReceipt(RequestOf(b.pending), answer)
<1>1. CASE h = g
  BY <1>1
<1>2. CASE b.pending # Nothing /\ h = Quarantine(g)
  BY <1>2, QuarantineSound
<1>3. CASE h = FailOperation(g, code)
  BY <1>3, FailSound
<1>4. CASE b.pending # Nothing /\ code = "verified" /\ export # Nothing
           /\ h = ReleaseBinding(g, answer.receipt, export)
  BY <1>4, VerifiedAnswers, ReleaseSound
<1>5. CASE b.pending # Nothing /\ code = "verified" /\ b.pending.kind # "detach"
           /\ h = InstallBinding(g, answer.receipt)
  BY <1>5, VerifiedAnswers, InstallSound
<1> QED
  BY <1>1, <1>2, <1>3, <1>4, <1>5 DEF AcceptReceipt

-----------------------------------------------------------------------------
(* Losing and regaining the peer; the next work.                           *)

LEMMA UnavailableSound ==
  ASSUME NEW g, NEW peerLog, SoundLog(peerLog), SoundGoal(g, peerLog)
  PROVE  LET h == MarkPeerUnavailable(g)
         IN /\ SoundGoal(h, peerLog)
            /\ h.work = g.work /\ h.notes = g.notes
            /\ h.backend.pending = g.backend.pending
            /\ h.backend.binding = g.backend.binding
            /\ h.backend.operations = g.backend.operations
            /\ h.backend.state =
                 IF ClaimsAuthority(g.backend) THEN "bound-unavailable" ELSE g.backend.state
<1> DEFINE b == g.backend
           h == MarkPeerUnavailable(g)
<1>0. g \in Goal /\ b \in Backend
  BY DEF SoundGoal, Goal, Backend
<1>1. CASE ~ClaimsAuthority(b)
  BY <1>1 DEF MarkPeerUnavailable
<1>2. CASE ClaimsAuthority(b)
  <2>1. h = [g EXCEPT !.backend = [b EXCEPT !.state = "bound-unavailable"]]
    BY <1>0, <1>2 DEF MarkPeerUnavailable, Goal, Backend
  <2> HIDE DEF h
  <2>2. /\ h \in Goal /\ h.work = g.work /\ h.notes = g.notes
        /\ h.backend.pending = b.pending /\ h.backend.binding = b.binding
        /\ h.backend.operations = b.operations /\ h.backend.state = "bound-unavailable"
    BY <1>0, <2>1 DEF Goal, Backend, BackendStates
  <2>3. RetainedIds(h.backend) = RetainedIds(b) /\ ClaimsAuthority(h.backend)
    BY <2>2 DEF RetainedIds, ClaimsAuthority
  <2>4. SoundIntent(h, peerLog) /\ SoundBinding(h, peerLog)
    BY <1>2, <2>2, <2>3 DEF SoundGoal, SoundIntent, SoundBinding
  <2>5. b.state # "binding-pending"
    BY <1>2 DEF ClaimsAuthority
  <2>6. SoundGoal(h, peerLog)
    BY <2>2, <2>4, <2>5 DEF SoundGoal, GoalOwnsMemory
  <2> QED
    BY <1>2, <2>2, <2>6 DEF h
<1> QED
  BY <1>1, <1>2

(* A probe asks for the revision in force, and confirms it or nothing.     *)
LEMMA AvailableSound ==
  ASSUME NEW g, NEW peerLog, SoundLog(peerLog), SoundGoal(g, peerLog),
         NEW request, NEW answer, FitAnswer(peerLog, request, answer),
         request.kind = "read", g.backend.state = "bound-unavailable",
         request.expected = g.backend.binding.revision
  PROVE  LET h == MarkPeerAvailable(g, request, answer)
         IN /\ SoundGoal(h, peerLog)
            /\ h.work = g.work /\ h.notes = g.notes
            /\ h.backend.pending = g.backend.pending
            /\ h.backend.binding = g.backend.binding
            /\ h.backend.operations = g.backend.operations
            /\ h.backend.state \in {"bound-available", "bound-unavailable"}
<1> DEFINE b == g.backend
           h == MarkPeerAvailable(g, request, answer)
           revision == answer.receipt.revision
<1>0. g \in Goal /\ b \in Backend
  BY DEF SoundGoal, Goal, Backend
<1>1. CASE h = g
  BY <1>1
<1>2. CASE h # g
  <2>1. VerifyReceipt(request, answer) = "verified"
    BY <1>2 DEF MarkPeerAvailable
  <2>2. b.binding \in Binding /\ ClaimsAuthority(b) /\ b.binding.revision \in DOMAIN peerLog
    BY <1>0 DEF SoundGoal, SoundBinding, ClaimsAuthority, Backend
  <2>3. b.binding.revision # 0
    BY <2>2, CommitTypes DEF SoundLog
  <2>4. revision = b.binding.revision
    BY <2>1, <2>3, VerdictMeans DEF FitAnswer
  <2>5. h = [g EXCEPT !.backend = [b EXCEPT !.state = "bound-available", !.binding = b.binding]]
    <3>1. [b.binding EXCEPT !.revision = revision] = b.binding
      BY <2>2, <2>4 DEF Binding
    <3>2. h = [g EXCEPT !.backend = [b EXCEPT !.state = "bound-available",
                                       !.binding = [b.binding EXCEPT !.revision = revision]]]
      BY <1>0, <1>2, <2>2 DEF MarkPeerAvailable, Goal, Backend, Binding
    <3> QED
      BY <3>1, <3>2
  <2> HIDE DEF h
  <2>6. /\ h \in Goal /\ h.work = g.work /\ h.notes = g.notes
        /\ h.backend.pending = b.pending /\ h.backend.binding = b.binding
        /\ h.backend.operations = b.operations /\ h.backend.state = "bound-available"
    BY <1>0, <2>5 DEF Goal, Backend, BackendStates
  <2>7. RetainedIds(h.backend) = RetainedIds(b) /\ ClaimsAuthority(h.backend)
    BY <2>6 DEF RetainedIds, ClaimsAuthority
  <2>8. SoundIntent(h, peerLog) /\ SoundBinding(h, peerLog)
    BY <2>2, <2>6, <2>7 DEF SoundGoal, SoundIntent, SoundBinding
  <2>9. SoundGoal(h, peerLog)
    BY <2>6, <2>8 DEF SoundGoal, GoalOwnsMemory
  <2> QED
    BY <2>6, <2>9 DEF h
<1> QED
  BY <1>1, <1>2

LEMMA NextWorkSound ==
  ASSUME NEW g, NEW peerLog, SoundGoal(g, peerLog), g.work < MaxWorks
  PROVE  SoundGoal(NextWork(g), peerLog)
<1> DEFINE h == NextWork(g)
<1>1. /\ h.work = g.work + 1 /\ h.notes = EmptyNotes
      /\ h.backend.state = "unbound" /\ h.backend.binding = Nothing
      /\ h.backend.pending = Nothing /\ h.backend.operations = <<>>
  BY DEF NextWork, EmptyBackend
<1>2. h.work \in Works
  BY <1>1, BoundsAssumption DEF SoundGoal, Goal, Works
<1>3. h \in Goal
  BY <1>2 DEF NextWork, EmptyBackend, Goal, Backend, BackendStates, Contents
<1>4. /\ SoundOperations(h.backend.operations, h.work, peerLog)
      /\ NoneCommitted(h.backend.operations)
  BY <1>1, EmptySeq, MaxRetainedAssumption DEF SoundOperations, NoneCommitted, ToSet
<1> HIDE DEF h
<1> QED
  BY <1>1, <1>3, <1>4
     DEF SoundGoal, SoundBinding, SoundIntent, ClaimsAuthority, h

=============================================================================
