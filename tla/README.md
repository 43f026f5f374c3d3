# A verification project for pi-codex-multi-goal

pi-codex-multi-goal is an extension of the pi coding agent. It gives a session
one *goal* of several steps, keeps the agent working on it loop after loop, and
stops when the goal is complete, blocked, paused by the human, or out of one of
four finite budgets. The goal lives in the session file as a sequence of
snapshots. This directory models that program in TLA+, checks the models with
TLC and proves the main results about the goal record with TLAPS. Paths below
are relative to the repository (`src/` holds the sources, `docs/` the documents).

## The system

| Component (source) | State | Operations | Correct when |
|---|---|---|---|
| Allowance (`src/allowance.ts`) | the execution record: four counters, five limits, a generation | charge a request, charge a full context, begin a turn, resume grant, credit evidence, grant of the next step | counters stay in their limits; only evidence renews the working total; the lifetime count never falls; the reason of a pause tells the truth |
| Goal record (`src/state.ts`, `src/types.ts`) | status, step index, stages, memory, credited evidence | start, pause, block, resume, complete a step, restore | every snapshot written is accepted by the reader; steps complete in order; a reference pays once |
| Persistence (`src/persistence.ts`) | goal in memory, last goal persisted, whether the last append failed | flush, append a clear, sync after a restore | memory never runs ahead of the file; a failed append is noticed and admits no work |
| Continuation owner (`src/continuation.ts`) | phase, identity of the message sent, retry timer, who triggered the loop | request, clear, clearSchedule, delivery and loop callbacks, outstanding, queuedStale | at most one goal message and one timer; nothing scheduled for a goal that does not run; an abort never hits a user's loop; the goal does not fall asleep |
| Runtime (`src/runtime.ts`) | the above, accepted completions, pending stage compaction | the host's events, the gates before every continuation | the order of persist, withdraw, acknowledge and kick off is right for every failure |
| Commands and wizard (`src/commands.ts`, `src/wizard.ts`, `src/parse.ts`) | none | `/goal`, `/goal-multi`, pause, resume, clear | work starts and restarts only by the human |
| Tools (`src/tools.ts`) | none | `update_goal`, `update_goal_memory`, `get_goal` | a call acts only on the step it was made for |
| Evidence (`src/evidence.ts`) | none of its own; the files of the workspace | validate references, coverage of criteria, adapt peer evidence | only real, unchanged artifacts of the right criterion count, and each pays once |
| Ownership (`src/yield.ts`) | status files of pi-orchestrate | whether a peer feature owns the session | a peer's session is neither charged nor driven |
| Isolation filter (`src/runtime.ts` 788-930) | the session tree, the cutoff in the goal, accepted completions, the pending stage compaction | drop what belongs to completed steps, forget the transcript at the boundary | exactly one current snapshot; nothing of an old step; all of the current one; no result without its call, except where navigation took a completion back |
| Backend binding and peer protocol (`src/backend.ts`, `src/peer.ts`, `src/contract.ts`) | binding, pending operation, retained receipts | bind, read, write, transition, detach, recover | one authority over the memory; one effect per operation; recovery from every crash point. No handler of this version calls it |
| Snapshots of older builds (`src/state.ts`) | the session file as an older build left it | read, normalise, migrate | nothing of the goal is lost; it never runs without criteria; what was paid is not paid again |
| Settings, prompts (`src/settings.ts`, `src/prompts.ts`) | none | read limits, format text | limits are positive and ordered |

The parts run in one JavaScript process. A handler runs to its end, so handlers
do not interleave inside; everything else does. The host announces messages,
loops, turns, provider requests and compactions in its own order; the human types
commands at any time; the agent calls tools with what it read earlier; the retry
timer fires when it is due; an append to the session file may throw in any
handler; the process may die between two. The extension reaches the host by
`sendMessage`, `abort` (process-global: it also drains the queue), `isIdle` and
`hasPendingMessages`. These are the hard behaviours, and `PROJECT.json` lists
them one by one at the lines where they bite.

## The modules

| Module | Models | Rests on |
|---|---|---|
| `Allowance` | the execution record and its writers, as pure operators | |
| `GoalState` | the goal record, the reader's checks, the lifecycle transitions | `Allowance` |
| `GoalLedger` | the abstract specification: one variable, the committed goal, and every move it may make | `GoalState` |
| `GoalState_proofs` | lemmas on the record: `Sound`, and that each transition keeps it | `GoalState` |
| `GoalLedger_proofs` | the inductive invariant and eight theorems about the ledger | `GoalLedger`, `GoalState_proofs` |
| `Continuation` | the continuation owner's closure variables as one record, its closures as functions | `GoalState` |
| `SessionHost` | the host, external: queue, loop, abort | `Continuation` |
| `GoalRuntime` | the runtime with persistence, commands and tools: one action per handler | `SessionHost` |
| `GoalRuntimeProperties` | what the runtime guarantees, the refinement of the ledger, liveness | `GoalRuntime` |
| `GoalRuntime_proofs` | the inductive invariant, thirteen theorems, the refinement of the ledger step by step | `GoalRuntimeProperties`, `GoalState_proofs` |
| `EvidenceValidation` | how references become evidence, on a workspace that moves | `GoalState` |
| `EvidenceValidation_proofs` | the inductive invariant and three theorems about the validation | `EvidenceValidation`, `GoalState_proofs` |
| `IsolationFilter` | what a provider request is given of the session | |
| `IsolationFilter_proofs` | what every branch has in common, and four theorems about the filter | `IsolationFilter` |
| `SnapshotUpgrade` | a goal of an older build, read by this one; from there the ledger's steps | `GoalLedger` |
| `SnapshotUpgrade_proofs` | what every older build keeps, what this one makes of it, and four theorems | `SnapshotUpgrade`, `GoalState_proofs` |
| `PeerProtocol` | requests, answers, receipts, their check, and the peer's obligations | |
| `GoalBackend` | the goal's backend record, its reader, and the pure transitions over it | `PeerProtocol` |
| `GoalBackend_proofs` | lemmas on that record: `SoundGoal`, and that each transition keeps it | `GoalBackend` |
| `PeerBinding` | a driver of those operations against an unreliable peer | `GoalBackend` |
| `WorkingMemory` | the abstract specification of a bound memory: one authority, one content | |
| `PeerBindingProperties` | what the binding guarantees, the refinement of `WorkingMemory`, liveness | `PeerBinding` |
| `PeerBinding_proofs` | the inductive invariant, six theorems, the refinement of `WorkingMemory` step by step | `PeerBindingProperties`, `GoalBackend_proofs` |
| `GoalRuntimeClaims`, `PeerBindingClaims`, `SnapshotUpgradeClaims` | sentences of the documents and comments the code does not keep | their component |
| `MC...` | limits and bounds of the instances TLC checks | |

`GoalRuntime`, `EvidenceValidation` and `SnapshotUpgrade` share the goal record;
each takes apart what another takes for one step (a reference that passed
validation, a completed step, a snapshot that was read).

Operators whose comment begins with "Faulty" or "Mutant" are plausible bugs, each
placed before the operator it would replace. Nothing uses them; they are kept so
that each property can be seen to fail when the code is wrong in that way.

### State and actions against the code

**Runtime.**

- `store` is `persistence.ts` and the file behind it: `goal`, `lastPersisted`
  and `persistenceBroken` are the variables of the closures (the code's
  `lastWriteFailed` is copied into `persistenceBroken` after every write);
  `leaf` is what `reconstructGoal` would return for the selected branch, and
  `trail` the snapshots before it that tree navigation can return to.
- `cont` holds the seven variables of `createContinuation`. Armed timeouts are a
  set, so that a timer whose handle is lost would be seen; the handle itself
  names the timer of `scheduledFor`. A callback captures the boundary option.
- `host` is the host's loop (idle, running, winding down after `agent_end`,
  down), whether `agent_start` was announced, the sender of the message the loop
  acts on, the identities of queued goal messages, and counts of waiting user
  and peer messages. Goal messages keep their order; nothing orders them against
  the others, and `agent_start` may come before or after `message_start`.
- `accepted` is `acceptedCompletions`, oldest first. `yielding` is the answer of
  `sessionOwnsLiveOrchestrateFeature`, free to change between handlers.
- A handler that calls `persist` is an action with several outcomes, one per
  combination of appends that succeed and fail. Operators named `...Outcomes`
  return the stores a call can leave; `RequestContinuation` and its parts take
  the store, owner and host as the handler has left them so far.
- Commands are taken from the moment the human has confirmed. A tool call
  carries any identity an agent may ever have seen.

**Evidence.** `at` and `bytes` are the workspace: what stands under a name (a file, a
link to another name, or nothing) and what a file holds. Spellings, real paths and
what links lead to are names of one kind, so that a name that was resolved may be
a link a moment later. `call` is the progress of
`validateEvidenceRefs`: open (with `fstat`), `realpath`, `stat`, read, then the
next reference; the first three follow links. The extension runs nothing else
meanwhile, but other programs do, so `Rename` and `Rewrite` come between any two of
the four. What a reference says, other than its artifact, is chosen when the bytes
are there; a refusal before that is `RejectUnread`, and ends the call just the same.
`reached`, `shown` and `paid` are kept for the properties: `reached` says that the
open file has stood under a name within the workspace since it was opened (`Held`), or
that a link put under the resolved name led to it (`LedTo`). The second is the
window between `realpath` and `stat` of which the comment in the code says that it is
"narrowed, not eliminated": a link, a file in its place while `realpath` looks, and
the link again get the bytes of any file accepted. `EvidenceIsShown` admits that and
nothing else.

**Filter.** `branch` is the selected path of the session tree, oldest entry first:
messages with the host's stamps and the calls they make or answer, the goal's own
records, and compactions. The work a message is part of is recorded for the
properties; the handler reads it only where the message says it, in the goal's
snapshots. `goal` is the last record on the branch with its `contextCutoff` (0 is
null), `accepted` and `boundary` are `acceptedCompletions` and
`pendingStageCompaction`, `turn` the host's turn with its unanswered calls. `View`
is the `context` handler; `TurnEnd` the answer to `turn_end`; `CompleteStage` what
`completeStage` leaves for both; the kickoff it sends is a `DeliverSnapshot`,
stamped when it was sent. Navigation cuts the branch; a restart forgets what is
not on it.

**Binding.** `goal` is the goal's work (one stage of one goal), memory and backend
record, in memory and on file; `selection` the branch the human is on; `call` the
peer call that `runPeerOperation` or a probe awaits; `sent` the mutations the peer
may still commit; `log` the peer's commits. `PlanOperation` is `beginOperation`,
`RunOperation` and the three `After...` operators are `runPeerOperation` before
and after each await, and the other actions are one exported operation each.

**Upgrade.** `committed` is what this build would find if it started at that moment:
`reconstructGoal` over everything the older build has written. `old` is the last of
that, field for field as that build wrote it (a field it did not know is not in
the record's domain); `paid` the references that build has paid for, as long as it
remembered or should have. `Upgrade` starts this build, and the goal goes on with
the steps of `GoalLedger`.

### What is abstracted

Titles, criteria texts and messages are left out. Every step started by this
version has criteria; goals without them are in `SnapshotUpgrade`. `MAX_STAGES`
bounds the input of the parser and the reader alike and is the bound `MaxSteps`
here. A reference that passed validation is one element of `Evidence`, its credit
key; memory contents are elements of `Notes`. The backend is unbound in
`GoalRuntime`, as every goal of this version is, so its gates are open there.
A step index in `HumanSteps` has a criterion only a human can decide.
`updatedAt` is not kept: a snapshot that differs from the last one in the time
stamp alone is written by the code and skipped by the model, which changes no
goal a reader finds. The same holds of two goals that are equal as values and not as
JSON text, which is what `goalsEquivalent` compares.

*Evidence.* A content is its own digest, a fingerprint and the rest, so two
contents may share a fingerprint but not a digest. `realpath` is one step, though it
looks at one link after the other; a chain of more than two links is taken for a
loop; and links stand within the workspace only, since one elsewhere does no more
than another link to what it leads to would do. A spelling that leaves the
workspace, a malformed reference, a session or research reference of a peer and
an operation that produces nothing are one refusal. The step's guards before
validation are `GoalRuntime`'s.

*Filter.* A stage compaction is heeded or not, as the host likes, with
`stageCompaction` on; yielding to a peer withholds it and is the same as a host that
does not heed it. A reply comes later than what it replies to, which a provider
makes true; everything else may bear the stamp of what came before. The eviction of the oldest
accepted completion (`MAX_ACCEPTED_COMPLETIONS`) is not modelled.

*Binding.* No handler of this version drives a binding, so the driver is the one
`src/docs/peer-protocol.md` (section 5) asks for and the tests are written as: it
persists the goal after every operation, plans an intent before it asks the peer,
and runs nothing else of this goal while it awaits an answer; a crash loses the call
and nothing more. "transition" is planned, sent and accepted as "write" is and stands
under it. A record that is too large to import and one that is missing are both an
export that brings no record. The peer does what
`src/test/fixtures/fake-peer.ts` does, plus what a network may: lose, delay and repeat
answers, answer another request, drop the id of an error. Ids of operations are not
used again once forgotten, being random. Reasons and the peer's own names are left
out.

*Upgrade.* The older builds are not in the repository. They are told from what the
reader says of them: `v1` has neither contracts nor budgets; `preSplit` one total
per step; `stepList` and `goalList` all limits, with the list of paid references on
the step (keys) or on the goal (digests), and no count of credits. Contexts, turns
and notes of older builds, and a downgrade, are left out.

## The runs

| Run | Instance | What it shows |
|---|---|---|
| `ledger` | 2 goals, 2 steps, 3 references, 1 note, turn 2 / total 3 / lifetime 5 | `LedgerTypeOK`, `Loadable`, `BudgetConserved`, `EvidencePaysOnce`, `StepsInOrder`, `PauseReasonIsTrue`, `NothingIsRefunded`, `TotalGrowsOnlyForEvidence` |
| `persistence` | 2 goals, 2 steps, 1 reference, 1 note, 1 failed append, 1 restart, turn 2 / total 3 / lifetime 4 | `TypeOK`, `MemoryIsCommitted`, `AcknowledgedStepsAreDurable`, `WorkRestartsOnlyByHuman`, and `ImplementsLedger`: the runtime refines the ledger |
| `continuation` | 2 goals, 2 steps, 1 message of a user or a peer, 1 failed append, 1 navigation, 1 abort by the human, minimal budgets, under `FairSpec` | `OneGoalMessage`, `OneTimer`, `NoWorkForStoppedGoal`, `AckMatchesMessage`, `SendsAreAdmitted`, `AbortsSpareUserLoop`, `GoalLoopStaysRecognised`, `OnlyHumanLosesMessage`, `KeepsGoing` |
| `binding` | 2 works with 3 and 1 operation ids, 2 branches, 2 notes of which the peer refuses one, 2 retained operations, under `FairSpec` | `TypeOK`, `Loadable`, `AcknowledgedIsCommitted`, `VerdictsAreFinal`, `IntentsSurvive`, `SwitchesEnd`, and `KeepsWorkingMemory`: the binding refines `WorkingMemory` |
| `filter` | 2 goals of 2 steps, 3 calls, 4 stamps, branches of 6 entries | `TypeOK`, `NoOldStepWork`, `OwnWorkStays`, `ResultsHaveCalls` |
| `upgrade` | 2 goals, 2 steps, 5 references, lists of 2 and 4, old totals 1 and 5 | `UpgradeTypeOK`, `UpgradedIsLoadable`, `KeepsOldProgress`, `PaidOnceAcrossUpgrade` |
| `evidence` | 2 steps of 2 criteria, 2 references a call, 3 names, 2 files, 2 contents | `EvidenceTypeOK`, `EvidenceIsShown`, `PaidOncePerResult` |
| `unsaved_send` | 1 goal, 1 failed append | violated: `NothingIsSentUnsaved` |
| `peer_abort` | 1 goal of 1 step, 1 message | violated: `AbortsSparePeerLoop` |
| `committed_replays` | 1 work, 3 operation ids, 2 branches | violated: `CommittedReplaysSettle` |
| `last_results` | 1 goal of 2 steps, 3 calls | violated: `LastResultsHaveCalls` |
| `upgrade_refused` | as `upgrade` | violated: `UpgradeKeepsRunningGoal` |

**Bounds.** *Ledger and runtime.* Two goals are needed for a late message, timer or
call of a replaced goal; two steps for a call of the step before; one failed append
because the handlers that write twice are covered by failing either write, and a
second failure finds the gate already shut; one restart and one navigation because
either takes the whole state back to what is on file. One message, of a user or of a
peer, is what can come in front of a queued continuation or join its loop; one abort by
the human may come before, between or after; a restart leaves no active goal and is in
`persistence`. The safety properties are proved for any number of each. The limits let each fuse be the first to blow.
`MaxGoals`, `MaxRestarts`, `MaxNavigations`, `MaxMessages`, `MaxAborts`,
`MaxFailures`, `MaxRevision` and `TrailLength` bound counters that the code does
not bound. The `ledger` run does not check deadlock: when goals and revisions
are used up, a completed goal has no step left that changes it, which is the end
of a session. The runtime runs check it, and so does `binding`.
*Binding.* Three ids are a bind, a write and a detach, or any of them abandoned and
tried again, with one record evicted from the two retained (`MaxRetainedOperations`
is 16 in the code); the second work is there for receipts and commits of the first that come
late, for which one id is enough. *Filter.* Six entries hold a step with a turn of two
calls, its completion and the beginning of the next step; three calls a completing
call, one beside it and one of the next step; four stamps leave room for ties at each.
When the branch is full the session may end, so deadlock is not checked, nor
is it in `upgrade`, for the ledger's reason. *Upgrade.* The lists are shorter than the
references, so that they evict; the step's list is shorter than the cap of credits,
as 64 is than 4000; a total of 1 is below the default turn bound and one of 5 above the
default ceiling, the two cases in which flat defaults would be out of order.
*Evidence.* Two names within the workspace and one outside, each of the first two a
file, a link or nothing, let a file move either way and a link lead anywhere, a chain of
two included; two references in a call give a batch whose second is bad, two criteria
covered by one or two, and one result named twice. That two digests share a fingerprint
is left to the proof. Deadlock is off because the goal may be complete; the workspace
itself never stops. Symmetry is used where elements are only told apart from each other
and nothing is said of what must eventually happen: files in `evidence`, references in
`upgrade`.

**Refinement.** `ImplementsLedger` maps the ledger's `committed` to
`lastPersisted`, the goal on file as a restore would give it. It says that no
interleaving of handlers, failed appends, crashes and restarts moves the file
otherwise than by one ledger transition, possibly with the pause of an exhausted
goal in the same handler, so that what is proved about the ledger holds of the
file. Tree navigation is left out of this run: it selects an older snapshot, and
with it an older account, which is no step of the ledger.
`KeepsWorkingMemory` maps the memory, its owner and its version of `WorkingMemory` to
the goal's own record while it owns it and to the peer's commit that the binding
names while the peer does. It says that whatever is lost, late, repeated or
abandoned there is one authority at a time, that a move takes the memory there and
back unchanged, and that a bound memory never goes back to an earlier commit.

**Fairness.** `FairSpec` of the runtime asks for weak fairness of what the host does by
itself: delivering a queued message, announcing the start and the end of a loop,
settling after `agent_end`, and of the event loop running a due timer. Nothing is asked
of the human, the agent, the peer or other senders. `KeepsGoing` assumes that no
peer owns the session: the code has no wake-up for the end of an ownership, and
the documents promise none. It excepts two states an active goal may sleep in: broken
persistence, where the code stops on purpose and warns, and the wait for a message that
the human's abort has drained (`WaitsForNothing`), where the code falls short of its
documents (see below). `FairSpec` of the binding asks of the driver that it
retries a pending intent (strongly: crashes and moves to other branches interrupt it) and
reconciles one whose branch is gone, as the protocol contract obliges it to; of
`callPeer` that a call ends at its deadline (weakly: that is its timer); and of the peer that,
asked again and again, it answers once before the deadline (strongly). Nothing is
asked of the human.

**Violations.** Each of the five runs quotes a sentence of a document or a
comment (see `findings` in `PROJECT.json`) and ends with a counterexample.
`unsaved_send`: the retry timer reaches the owner below the persistence gate.
`peer_abort`: only a user's message in front of the queued continuation is recorded, so
that a pause cancels the loop of a peer's.
`committed_replays`: a detach whose answer was lost is replayed through its export
read, at a revision that its own commit has moved, and is held for ever.
`last_results`: the last completion moves no boundary, so that the request which
wraps up is given results whose calls are dropped. `upgrade_refused`: a goal of a build
without a lifetime ceiling that has spent more than the default one is skipped as malformed.

Seen in the model and not made runs: an abort of goal work drains a user message
queued behind it if the host's abort drains the queue, as the fake host of
`test/continuation.test.ts` does; navigation takes back lifetime requests with the
snapshot; requests of a user's loop are charged while a goal is active; abandoning an intent that was planned while the peer was available
makes it available again, without an answer of the peer.

One of these contradicts the documents. A user's message is delivered in front of the
queued continuation, the human aborts its loop, and the host drains the queue. Phase
stays "queued" with nothing queued, and `continuation.ts:122` refuses every later
request, that of `agent_end` included: an active goal sleeps until a change of the goal
(a pause, a completion, a restart) clears the phase. `docs/architecture.md:94-96` and
`runtime.ts:960` say that an aborted turn is followed by a continuation, because "abort
cancels the turn, not the goal". `HumanAborts` allows a host that drains its queue and one
that does not; with the first `KeepsGoing` fails unless it excepts `WaitsForNothing`, which it
does. `OnlyHumanLosesMessage` shows that nothing but the human's abort leads there.

The filter's exception is the code's as well. A completion that navigation has taken back is
still in `acceptedCompletions`; the reply that made it is dropped by the id of its call, and
if a result of another of its calls landed before, that result is sent to the provider
without its call. `ResultsHaveCalls` and `OwnWorkStays` except such replies (`ReportsTakenBack`)
and show that there are no others.

## The proofs

`GoalLedger_proofs` proves, for any configured limits, any finite set of
evidence, any numbers of goals and steps, all eight properties of the `ledger`
run. Its assumptions are those of the modules: `CreditBoundsAssumption` (the
headroom below the dedupe bound is positive and within it, as the constants 96
and 4096 are), `EvidenceAssumption` (finitely many references), `NoGoalAssumption`
(null is not a goal), `NotesAssumption`, `LedgerAssumption` (limits are positive, in any
order, as `parseSettings` gives them).

The reader's check alone is not inductive: a paused goal whose current step is
not active would be accepted and could not be resumed into a readable one. The
invariant `Sound` (`GoalState_proofs`) adds what the writers keep: the step at the index is active
until the goal is complete (`WellShaped`), steps before it are complete and those
after it pending, with the generation equal to the index (`Ordered`), grants
counted by the credited references and capped (`Counted`), the budget equation
(`Conserved`), and the truth of the pause reason in terms of the two terminal
fuses (`TrueReason`). An active goal carries no reason, which is what lets a
charge blow a fuse without making a reason false. One lemma per transition shows
that it preserves `Sound`; the lemmas on the execution record say what each
writer does to the limits and counters. The two action properties rest on a second
family (`Keeps`): each transition keeps a goal's accounts, and a goal that appears
has a new id (`Numbered`).

`EvidenceValidation_proofs` proves the three properties of the `evidence` run for any
files, names, contents, steps and batches. It assumes in addition that null is
not a file, that files are not names and that a name is within the workspace or not
(`FilesAssumption`), positive
numbers of steps, criteria and references (`GoalAssumption`), and that every result has
a key (`KeyAssumption`). What is observed (`shown`) says nothing by itself of the
next read, so the invariant follows the artifact through its four system calls
(`Vouched`): while it is read, an open file that a name within the workspace has now, or
that a link under the resolved name leads to, counts as reached; a resolved name is
inside; a pinned file has been reached, because at the instant of the
comparison the resolved name had it or a link there led to it; and every accepted reference is
among the shown. The
pin is the only step that needs all of it, which is why the mutant that trusts the
resolved name breaks the theorem. `Booked` keeps the goal `Sound` and its credited keys
equal to the results paid for.

`GoalRuntime_proofs` proves every safety and action property of the runtime's runs, for any
limits and bounds. `RuntimeInv` is the conjunction of what the store, the owner and
the host keep, and of how they fit:

- `StoreInv`: memory is what was last persisted, and that is what the branch holds or its
  restored form; every goal the session knows, on the trail too, is `Sound` under an
  id that was given out. Without the trail a navigation would lose it.
- `ContInv`, `HostInv`: the armed timer is the one the handle designates; at most one goal
  message is in the queue; a loop that does not run has no work.
- `GoalFits`: a timer waits only for an active goal that may go on, and a goal that
  stopped left neither a request, a loop nor a trigger behind. This is what makes
  `NoWorkForStoppedGoal` inductive: every handler that stops a goal resets the owner.
- `HostFits`: the owner's queued request is the message in the queue, and a user's message
  delivered since is on record. The acknowledgement could not be matched otherwise.

The action properties follow from what every step does (`StepIsOK`): what it sends is
admitted, and what it leaves of owner and host continues what was there (`Continues`);
`OnlyHumanLosesMessage` needs no more than that each handler but the human's abort keeps queue
and phase together. Two theorems have a hypothesis, which their run shares:
`AcknowledgedIsSaved` and `RuntimeImplementsLedger` assume `MaxNavigations = 0`. An older
branch brings back an older account of the goal, which the ledger never does and
`accepted` does not follow. For `AcknowledgedIsSaved` the completions
remembered are behind the goal on file (`AcceptedInv`). The refinement has one lemma per
handler: it is a step of the ledger on `store.goal`, or none.

`GoalBackend_proofs` and `PeerBinding_proofs` prove the safety and action properties of the
`binding` run and the refinement of `WorkingMemory`, against any peer that keeps
its word. `BindingInv` needs the peer's log (`SoundLog`: one commit per id, holding the memory it
was asked to hold), the goal's record against that log (`SoundGoal`: it is bound to a commit made
for its own work, a retained verdict "committed" has its receipt there, and an intent other than
a bind was planned on the revision in force, before the peer committed it), that every request ever sent
carries what its kind asks for (`SentInv`), and, for the call in flight, that it is the call of the
pending intent (`CallInv`). The reader's check says none of this: it sees one snapshot and no
peer. Assumed are `NothingAssumption` and `NullAssumption`: null is neither contents, a payload,
a receipt, a binding nor an intent.

`IsolationFilter_proofs` proves all four properties of the `filter` run for any number of goals,
steps, stamps, calls and entries. The filter judges an entry by one cutoff and the
last compaction; that this is enough depends on how the branch came about. `History` says it
of a sequence of entries alone: stamps are in order, work before a goal's record is behind its
cutoff and work after it is its own, a result directly follows its reply, no two replies share
a call, a completing call precedes its record, no compaction keeps a result without its reply, and
a summary covers its step. Each part is inherited by prefixes, because the human may
select one; that is why it speaks of positions and not of the goal in memory.
`TurnInv` and `AcceptedInv` tie the running turn and the remembered completions to the
branch. The parts were checked by TLC on the instance of the `filter` run first.

`SnapshotUpgrade_proofs` proves the four properties of the `upgrade` run for any default limits,
older totals, references and numbers of goals and steps. `Sound` is too strong for a goal of
an older build: nobody counted its credits, and its generation may be any. `UpgradeInv` has the
weaker `Acceptable`, which the reader checks and all of this build's transitions keep
(`Advances`, one lemma per transition). For the time before the upgrade it says what each
older build keeps (`OldGoalOf`) and that the committed goal is what reading its last
snapshot gives, unless the reader skipped it (`ReadBack`). What was paid is carried by two sentences:
a list that is not full has forgotten nothing (`Remembers`, for the older build), and what was paid
is on record or the cap of credits is used up (`PaysOnce`, for this one); `migrateCreditGrants` is
what leads from the first to the second. `UpgradeAssumption` has the list of a step no longer than that
of a goal, as 64 is than 4096: with a longer one the migrated list could exceed what the reader
accepts.

Proved, then: all the safety and action properties of the runs of the ledger, the validation of
evidence, the runtime, the binding, the filter and the upgrade, both refinements included. Only
model-checked: the liveness properties `SwitchesEnd` and `KeepsGoing`,
which are out of the prover's reach together with ENABLED. No module holds a recursive operator; the last of a
sequence is taken with `Max` of a set, which the proofs about the filter justify by
well-foundedness.

## Not modelled

- The computation of ownership from status files (`yield.ts`), which is a flag here,
  and the settings file: reading of files without state.
- `discoverPeer`, the shape checks of answers and the contract hash: what they refuse is
  one "incompatible" answer, and a contract changes with the step.
- The dialogues before a goal starts, parsing, the wizard, prompts and the footer: text.
- `budgetPressure`, `get_goal`: read-only.
- The size check of memory contents, the handoff's length: a refusal without a change.

The status and the reason for each are in `components` of `PROJECT.json`, and the
hazards without a property have a note there.

## Plan

Done: goal record, ledger, continuation, runtime, host, binding, isolation filter, upgrade and
evidence, with their abstract specifications, liveness where there is something to wait for,
and the theorems about all of them. What is left: a second look at the bounds, the replace
dialogue in two steps, and the hazards that no property covers yet.
