----------------------------- MODULE PeerProtocol -----------------------------
(***************************************************************************)
(* The seam between a consumer and the peer that may hold its working      *)
(* memory (src/src/peer.ts): requests, answers, receipts, and the check of *)
(* an answer against its request.  The peer itself is external; it is      *)
(* modelled by the obligations test/fixtures/fake-peer.ts implements.      *)
(*                                                                         *)
(* A "work" is one stage of one goal: it stands for the scope's consumer,  *)
(* scopeId, contract revision and epoch, which change together whenever    *)
(* the stage does.  A revision is the peer's commit number, 0 is null, and *)
(* a payload stands for its own digest (canonicalDigest is injective).     *)
(***************************************************************************)
EXTENDS Naturals, FiniteSets, SequencesExt

CONSTANTS
  Selections,   \* session and branch anchor a work may be selected on
  Notes,        \* contents of the working memory
  EmptyNotes,   \* the memory a work starts with
  Unacceptable, \* contents the peer's own policy refuses to hold
  Nothing,      \* null: no answer, no projection, no payload
  MaxWorks,     \* bound: stages and goals, one after the other
  MaxOperations \* bound: ids of mutations a work may use, work by work

ASSUME BoundsAssumption == MaxWorks \in Nat \ {0} /\ MaxOperations \in [1..MaxWorks -> Nat]

Works == 1..MaxWorks

Contents == Notes \cup {EmptyNotes}

(* A bind carries the contract beside the memory, so its bytes are never   *)
(* those of a write; a read and a detach carry a profile and no memory.    *)
Payloads == [of : {"bind", "write"}, notes : Contents] \cup {Nothing}

(* "transition" is planned, sent and acknowledged as a write is.           *)
Mutations == {"bind", "write", "detach"}

Scope == [work : Works, selection : Selections]

(* The export read of a detach and the probe of a lost peer have ids of    *)
(* their own; exportReadId makes the first from the detach's, injectively. *)
OperationId(n) == <<"operation", n>>

Operations == {OperationId(n) : n \in UNION {1..MaxOperations[work] : work \in Works}}

ReadId(id) == <<"export", id[2]>>

ProbeId == <<"probe", 0>>

RequestIds == Operations \cup {ReadId(id) : id \in Operations} \cup {ProbeId}

Request ==
  [ id : RequestIds, kind : Mutations \cup {"read"}, scope : Scope,
    expected : Nat, payload : Payloads ]

Receipt ==
  [id : RequestIds, scope : Scope, revision : Nat, payload : Payloads]

ASSUME NothingAssumption ==
  Nothing \notin Contents \cup [of : {"bind", "write"}, notes : Contents] \cup Receipt

RetryableCodes == {"unavailable", "timeout", "incompatible"}

TerminalCodes == {"stale-selection", "scope-conflict", "replay-conflict", "refused"}

PeerErrorCodes == RetryableCodes \cup TerminalCodes

(* The answers callPeer can hand on: what it could not read is already an  *)
(* "incompatible" error of the request.                                    *)
Committed(receipt, projection) ==
  [status |-> "committed", id |-> receipt.id, receipt |-> receipt, projection |-> projection]

Pending(id) == [status |-> "pending", id |-> id]

Failure(id, code) == [status |-> "error", id |-> id, code |-> code]

Answer ==
  [status : {"committed"}, id : RequestIds, receipt : Receipt, projection : Contents \cup {Nothing}]
    \cup [status : {"pending"}, id : RequestIds]
    \cup [status : {"error"}, id : RequestIds \cup {Nothing}, code : PeerErrorCodes]

-----------------------------------------------------------------------------

(* Mutant: any error is about the request at hand.                         *)
FaultyCorrelates(request, answer) ==
  answer.id = request.id \/ answer.status = "error"

(* Only an error may come without the id of what it answers.               *)
Correlates(request, answer) ==
  answer.id = request.id \/ (answer.status = "error" /\ answer.id = Nothing)

(* Mutant: a receipt for the consumer's earlier work passes.               *)
FaultyVerifyReceipt(request, answer) ==
  CASE ~Correlates(request, answer) -> "incompatible"
    [] Correlates(request, answer) /\ answer.status = "error" -> answer.code
    [] Correlates(request, answer) /\ answer.status = "pending" -> "pending"
    [] Correlates(request, answer) /\ answer.status = "committed" ->
         LET receipt == answer.receipt
         IN IF receipt.scope.selection # request.scope.selection THEN "stale-selection"
            ELSE IF receipt.payload # request.payload THEN "replay-conflict"
            ELSE "verified"

(* verifyReceipt: the code decides what becomes of the intent, so an       *)
(* answer about another operation is never a terminal one.                 *)
VerifyReceipt(request, answer) ==
  CASE ~Correlates(request, answer) -> "incompatible"
    [] Correlates(request, answer) /\ answer.status = "error" -> answer.code
    [] Correlates(request, answer) /\ answer.status = "pending" -> "pending"
    [] Correlates(request, answer) /\ answer.status = "committed" ->
         LET receipt == answer.receipt
         IN IF receipt.scope.work # request.scope.work THEN "scope-conflict"
            ELSE IF receipt.scope.selection # request.scope.selection THEN "stale-selection"
            ELSE IF receipt.payload # request.payload THEN "replay-conflict"
            ELSE "verified"

-----------------------------------------------------------------------------
(* The peer.  Its durable state is the log of its commits; the revision a  *)
(* work has selected is the last commit made for it.                       *)

Commit == [id : Operations, scope : Scope, payload : Payloads, notes : Contents]

SelectedRevision(log, work) ==
  Max({i \in DOMAIN log : log[i].scope.work = work} \cup {0})

HasCommitted(log, id) == \E i \in DOMAIN log : log[i].id = id

ReceiptOf(log, id) ==
  LET i == CHOOSE i \in DOMAIN log : log[i].id = id
  IN [id |-> id, scope |-> log[i].scope, revision |-> i, payload |-> log[i].payload]

Receipts(log) == {ReceiptOf(log, log[i].id) : i \in DOMAIN log}

(* A bind claims the scope and selects its first revision; everything else *)
(* needs a claimed scope and the revision in force.                        *)
PeerRefusal(log, request) ==
  LET held == SelectedRevision(log, request.scope.work)
  IN IF request.kind # "bind" /\ held = 0 THEN "scope-conflict"
     ELSE IF request.kind # "bind" /\ request.expected \notin {0, held} THEN "stale-selection"
     ELSE IF request.payload # Nothing /\ request.payload.notes \in Unacceptable THEN "refused"
     ELSE "none"

(* A mutation is committed once, whatever its answer becomes.              *)
PeerCommits(log, request) ==
  IF request.kind = "read" \/ HasCommitted(log, request.id) \/ PeerRefusal(log, request) # "none"
  THEN log
  ELSE Append(log,
         [ id |-> request.id, scope |-> request.scope, payload |-> request.payload,
           notes |-> IF request.kind = "detach"
                     THEN log[SelectedRevision(log, request.scope.work)].notes
                     ELSE request.payload.notes ])

(* The answer, given the log after the request was handled.                *)
PeerAnswer(log, request) ==
  LET held == SelectedRevision(log, request.scope.work)
  IN CASE HasCommitted(log, request.id) ->
            IF ReceiptOf(log, request.id).payload # request.payload
            THEN Failure(request.id, "replay-conflict")
            ELSE Committed(ReceiptOf(log, request.id), Nothing)
       [] ~HasCommitted(log, request.id) /\ PeerRefusal(log, request) # "none" ->
            Failure(request.id, PeerRefusal(log, request))
       [] ~HasCommitted(log, request.id) /\ PeerRefusal(log, request) = "none" ->
            Committed([ id |-> request.id, scope |-> request.scope,
                        revision |-> held, payload |-> request.payload ],
                      log[held].notes)

=============================================================================
