---------------------------- MODULE IsolationFilter ----------------------------
(***************************************************************************)
(* Which messages of the session a provider request is given while a goal  *)
(* runs: the context handler and the stage boundary of src/src/runtime.ts, *)
(* over the session tree, the tool calls and the compactions of the host.  *)
(*                                                                         *)
(* The selected branch is a sequence of entries.  An entry records, for    *)
(* the properties only, the work it is part of: the goal and step of the   *)
(* request that produced it.  The filter itself reads work only where the  *)
(* message says it, in the goal's own snapshots.  Stamps are the host's    *)
(* milliseconds: they never run back, and may be equal.                    *)
(***************************************************************************)
EXTENDS Naturals, FiniteSets, SequencesExt

CONSTANTS
  MaxGoals,    \* bound: goals set one after the other
  Steps,       \* steps of a goal
  MaxClock,    \* bound: stamps
  MaxCalls,    \* bound: tool calls, each with an id of its own
  MaxEntries   \* bound: entries of a branch

ASSUME IsolationAssumption == {MaxGoals, Steps, MaxClock, MaxCalls, MaxEntries} \subseteq Nat \ {0}

VARIABLES
  branch,    \* the entries of the selected branch, the goal's records included
  goal,      \* the goal in memory: the last record on the branch
  accepted,  \* acceptedCompletions: calls that completed a step, with their goal
  boundary,  \* pendingStageCompaction, or NoBoundary
  turn       \* the calls of the turn that runs: unanswered, answered

vars == <<branch, goal, accepted, boundary, turn>>

Calls == 1..MaxCalls

Stamps == 0..MaxClock

Work == [goal : 1..MaxGoals, step : 1..Steps]

(* A cutoff of 0 is null: the goal has had no transition.                  *)
Goal == [work : Work, complete : BOOLEAN, cutoff : Stamps]

NoBoundary == [call |-> 0, work |-> [goal |-> 0, step |-> 0]]

NoTurn == [open |-> {}, answered |-> {}]

Message == [kind : {"user", "assistant", "result", "snapshot"}, stamp : Stamps, work : Work, calls : SUBSET Calls]

GoalRecord == [kind : {"goal"}, goal : Goal, by : SUBSET Calls]

Compaction == [kind : {"compaction"}, stamp : Stamps, kept : Nat, covers : SUBSET Work]

TypeOK ==
  /\ branch \in Seq(Message \cup GoalRecord \cup Compaction)
  /\ goal \in Goal
  /\ accepted \subseteq [call : Calls, goal : 1..MaxGoals]
  /\ boundary \in [call : Calls, work : Work] \cup {NoBoundary}
  /\ turn \in [open : SUBSET Calls, answered : SUBSET Calls]

NewGoal(n) == [work |-> [goal |-> n, step |-> 1], complete |-> FALSE, cutoff |-> 0]

Recorded(g, calls) == [kind |-> "goal", goal |-> g, by |-> calls]

Said(kind, stamp, work, calls) ==
  [kind |-> kind, stamp |-> stamp, work |-> work, calls |-> calls]

Init ==
  /\ goal = NewGoal(1)
  /\ branch = <<Recorded(goal, {})>>
  /\ accepted = {}
  /\ boundary = NoBoundary
  /\ turn = NoTurn

-----------------------------------------------------------------------------
(* What the host would give the provider, as positions of the branch: the  *)
(* summary of the last compaction and the messages it kept.                *)

LastCompaction == Max({i \in DOMAIN branch : branch[i].kind = "compaction"} \cup {0})

Context ==
  LET last == LastCompaction
      messages == {i \in DOMAIN branch : branch[i].kind \notin {"goal", "compaction"}}
  IN IF last = 0 THEN messages ELSE {last} \cup {i \in messages : i >= branch[last].kept}

(* The context handler.                                                    *)

IsCurrentSnapshot(entry) ==
  entry.kind = "snapshot" /\ ~goal.complete /\ entry.work = goal.work

(* Mutant: what else the completing turn called is not remembered.         *)
FaultyOldCallIds == {a.call : a \in {a \in accepted : a.goal = goal.work.goal}}

(* Calls of a step that is over: they completed one, or were issued at or  *)
(* before the boundary.                                                    *)
OldCallIds ==
  {a.call : a \in {a \in accepted : a.goal = goal.work.goal}}
    \cup UNION {branch[i].calls :
             i \in {i \in Context : branch[i].kind = "assistant" /\ branch[i].stamp <= goal.cutoff}}

(* Mutant: only the calls are recognised, their results are not.           *)
FaultyIsOldStepLeftover(entry, oldCallIds) ==
  entry.kind = "assistant" /\ entry.calls \cap oldCallIds # {}

IsOldStepLeftover(entry, oldCallIds) ==
  entry.kind \in {"assistant", "result"} /\ entry.calls \cap oldCallIds # {}

View ==
  LET newest == Max({i \in Context : IsCurrentSnapshot(branch[i])} \cup {0})
      oldCallIds == OldCallIds
      keeps(entry) ==
        /\ entry.kind # "snapshot"
        /\ goal.cutoff # 0 => entry.stamp > goal.cutoff /\ ~IsOldStepLeftover(entry, oldCallIds)
  IN {i \in Context : i = newest \/ keeps(branch[i])}

-----------------------------------------------------------------------------
(* The host.                                                               *)

Room == Len(branch) < MaxEntries

(* Time is told by the stamps of the branch; a step takes some, or none.   *)
Clock ==
  Max({0} \cup {IF branch[i].kind = "goal" THEN branch[i].goal.cutoff ELSE branch[i].stamp :
               i \in DOMAIN branch})

Now == {stamp \in {Clock, Clock + 1} : stamp <= MaxClock}

Later == {stamp \in {Clock + 1} : stamp <= MaxClock}

(* No id that the branch or the extension remembers is given again.        *)
NextCall ==
  Max({0} \cup {a.call : a \in accepted}
        \cup UNION {branch[i].calls : i \in {i \in DOMAIN branch : branch[i].kind = "assistant"}}) + 1

UserMessage ==
  /\ Room /\ turn = NoTurn
  /\ \E stamp \in Now : branch' = Append(branch, Said("user", stamp, goal.work, {}))
  /\ UNCHANGED <<goal, accepted, boundary, turn>>

(* The reply to a request comes later than what it replies to.             *)
AssistantReply ==
  /\ Room /\ turn = NoTurn
  /\ \E calls \in {{NextCall}, {NextCall, NextCall + 1}}, stamp \in Later :
       /\ calls \subseteq Calls
       /\ branch' = Append(branch, Said("assistant", stamp, goal.work, calls))
       /\ turn' = [open |-> calls, answered |-> {}]
  /\ UNCHANGED <<goal, accepted, boundary>>

(* A result lands; it is part of the work its call was part of.            *)
ToolResult ==
  /\ Room
  /\ \E call \in turn.open, stamp \in Now :
       LET asked == CHOOSE i \in DOMAIN branch : branch[i].kind = "assistant" /\ call \in branch[i].calls
       IN /\ branch' = Append(branch, Said("result", stamp, branch[asked].work, {call}))
          /\ turn' = [open |-> turn.open \ {call}, answered |-> turn.answered \cup {call}]
  /\ UNCHANGED <<goal, accepted, boundary>>

(* An abort: results that have not landed never will.                      *)
Abort ==
  /\ turn.open # {}
  /\ turn' = [turn EXCEPT !.open = {}]
  /\ UNCHANGED <<branch, goal, accepted, boundary>>

(* A snapshot is stamped when it is sent: the kickoff of a step as early   *)
(* as the boundary.  It is delivered between turns, and may be about a     *)
(* step that is over by then.                                              *)
DeliverSnapshot ==
  /\ Room /\ turn = NoTurn
  /\ ~goal.complete
  /\ \/ \E stamp \in {Clock, goal.cutoff} :
          branch' = Append(branch, Said("snapshot", stamp, goal.work, {}))
     \/ \E i \in DOMAIN branch :
          /\ branch[i].kind = "goal" /\ branch[i].goal.work # goal.work
          /\ branch' = Append(branch, Said("snapshot", Clock, branch[i].goal.work, {}))
  /\ UNCHANGED <<goal, accepted, boundary, turn>>

(* The host compacts on its own: a summary, asked of a provider, replaces  *)
(* the context up to some message that is not a result.                    *)
AutoCompaction ==
  /\ Room /\ turn = NoTurn
  /\ \E kept \in {i \in Context : branch[i].kind \notin {"result", "compaction"}} \cup {Len(branch) + 1},
        stamp \in Later :
       LET summarised == {i \in Context : i < kept \/ i = LastCompaction}
       IN /\ summarised \ {LastCompaction} # {}
          /\ branch' = Append(branch,
               [ kind |-> "compaction", stamp |-> stamp, kept |-> kept,
                 covers |-> UNION {IF branch[i].kind = "compaction" THEN branch[i].covers
                                   ELSE {branch[i].work} : i \in summarised} ])
  /\ UNCHANGED <<goal, accepted, boundary, turn>>

-----------------------------------------------------------------------------
(* The extension.                                                          *)

(* Mutant: the last step is followed by another.                           *)
FaultyAfterCompletion(g, now) == [g EXCEPT !.work.step = @ + 1, !.cutoff = now]

AfterCompletion(g, now) ==
  IF g.work.step = Steps THEN [g EXCEPT !.complete = TRUE]
  ELSE [g EXCEPT !.work.step = @ + 1, !.cutoff = now]

(* completeStage, called while the turn runs: the result of the call lands *)
(* later.  The kickoff it sends is DeliverSnapshot.                        *)
CompleteStage ==
  /\ Room
  /\ ~goal.complete
  /\ \E call \in turn.open, now \in Now :
       /\ \A a \in accepted : a.call # call
       /\ goal' = AfterCompletion(goal, now)
       /\ branch' = Append(branch, Recorded(goal', {call}))
       /\ accepted' = accepted \cup {[call |-> call, goal |-> goal.work.goal]}
       /\ boundary' = IF goal'.complete THEN boundary ELSE [call |-> call, work |-> goal'.work]
  /\ UNCHANGED turn

(* Mutant: the first turn to end gets the boundary compaction, whichever   *)
(* it is.                                                                  *)
FaultyTurnEnd ==
  /\ turn # NoTurn
  /\ turn.open = {}
  /\ turn' = NoTurn
  /\ boundary' = NoBoundary
  /\ \/ UNCHANGED branch
     \/ /\ Room
        /\ boundary # NoBoundary
        /\ ~goal.complete /\ goal.work = boundary.work
        /\ branch' = Append(branch, [ kind |-> "compaction", stamp |-> Clock,
                                       kept |-> Len(branch) + 2, covers |-> {} ])
  /\ UNCHANGED <<goal, accepted>>

(* The turn ends.  If it is the one that completed the step, a host that   *)
(* heeds the answer forgets the transcript; the answer is withheld when    *)
(* the session is a peer's or the goal has moved on or is not active.      *)
TurnEnd ==
  /\ turn # NoTurn
  /\ turn.open = {}
  /\ turn' = NoTurn
  /\ boundary' = IF boundary.call \in turn.answered THEN NoBoundary ELSE boundary
  /\ \/ UNCHANGED branch
     \/ /\ Room
        /\ boundary.call \in turn.answered
        /\ ~goal.complete /\ goal.work = boundary.work
        /\ branch' = Append(branch, [ kind |-> "compaction", stamp |-> Clock,
                                       kept |-> Len(branch) + 2, covers |-> {} ])
  /\ UNCHANGED <<goal, accepted>>

(* A goal set anew, by command, at any time.                               *)
ReplaceGoal ==
  /\ Room
  /\ goal.work.goal < MaxGoals
  /\ goal' = NewGoal(goal.work.goal + 1)
  /\ branch' = Append(branch, Recorded(goal', {}))
  /\ UNCHANGED <<accepted, boundary, turn>>

(* A restart comes back with the branch and nothing else.                  *)
SessionStart ==
  /\ accepted' = {}
  /\ boundary' = NoBoundary
  /\ turn' = NoTurn
  /\ UNCHANGED <<branch, goal>>

(* The human selects an earlier entry; the goal is the one recorded there. *)
SessionTree ==
  /\ \E i \in 1..(Len(branch) - 1) :
       LET record == Max({j \in 1..i : branch[j].kind = "goal"})
       IN /\ branch' = SubSeq(branch, 1, i)
          /\ goal' = branch[record].goal
  /\ boundary' = NoBoundary
  /\ turn' = NoTurn
  /\ UNCHANGED <<accepted>>

Next ==
  \/ UserMessage
  \/ AssistantReply
  \/ ToolResult
  \/ Abort
  \/ DeliverSnapshot
  \/ AutoCompaction
  \/ CompleteStage
  \/ TurnEnd
  \/ ReplaceGoal
  \/ SessionStart
  \/ SessionTree

Spec == Init /\ [][Next]_vars

-----------------------------------------------------------------------------
(* Properties.                                                             *)

IsOldStep(work) == work.goal = goal.work.goal /\ work.step < goal.work.step

(* No request after a transition is given a message of a step that is      *)
(* over, whenever the host stamped it and after any restart (the context   *)
(* handler; docs/architecture.md section 5, "A transition establishes a    *)
(* clean step context").                                                   *)
NoOldStepWork ==
  ~goal.complete =>
    \A i \in View : branch[i].kind # "compaction" => ~IsOldStep(branch[i].work)

(* Completions that navigation has taken back: the call is still           *)
(* remembered, the record it wrote is not on this branch.                  *)
TakenBack ==
  {a.call : a \in accepted} \ UNION {branch[i].by : i \in {i \in DOMAIN branch : branch[i].kind = "goal"}}

ReportsTakenBack(entry) ==
  \E i \in DOMAIN branch :
    /\ branch[i].kind = "assistant" /\ branch[i].calls \cap TakenBack # {}
    /\ entry.calls \cap branch[i].calls # {}

(* A message stays in view, or a summary in view covers it.                *)
Stays(i) ==
  \/ i \in View
  \/ LET last == LastCompaction
     IN last \in View /\ i < branch[last].kept /\ branch[i].work \in branch[last].covers

LastRecord == Max({i \in DOMAIN branch : branch[i].kind = "goal"})

(* The current step's own work, since it began.  What the human sent       *)
(* before the boundary counts as the old step's, wherever it was           *)
(* delivered; of the snapshots only the latest counts.                     *)
OwnWork ==
  {i \in DOMAIN branch :
     /\ i > LastRecord /\ branch[i].kind # "compaction" /\ branch[i].work = goal.work
     /\ branch[i].kind = "user" => branch[i].stamp > goal.cutoff
     /\ branch[i].kind = "snapshot" =>
          \A j \in DOMAIN branch : j > i => ~IsCurrentSnapshot(branch[j])}

(* The filter and the boundary compaction take nothing of the current step *)
(* from it: its requests, replies, results and latest snapshot stay until  *)
(* a summary covers them, at clock ties, after aborts and restarts (the    *)
(* context and turn_end handlers).                                         *)
OwnWorkStays ==
  ~goal.complete => \A i \in OwnWork : Stays(i) \/ ReportsTakenBack(branch[i])

(* A provider takes no result without the call it answers: the two must be *)
(* given or left out together.                                             *)
HasCall(i) == \E j \in View : branch[j].kind = "assistant" /\ branch[i].calls \subseteq branch[j].calls

Orphans == {i \in View : branch[i].kind = "result" /\ ~HasCall(i)}

(* While a goal has steps to go, the only orphans a request is given are   *)
(* those of a completion that navigation has taken back: whichever of a    *)
(* reply's calls completed a step and in whatever order the results landed *)
(* (the context handler).  The exception is one of the code: the call is   *)
(* still remembered in acceptedCompletions, its reply is dropped by its    *)
(* id, and a sibling's result that landed before is sent alone.            *)
ResultsHaveCalls == ~goal.complete => \A i \in Orphans : ReportsTakenBack(branch[i])

(* The same when the goal is complete, and the loop that completed it goes *)
(* on.  The handler takes the ids of the calls "issued at or before the    *)
(* boundary (the completing turn's call is among them" for granted         *)
(* (src/src/runtime.ts:826); the last completion moves no boundary.        *)
LastResultsHaveCalls == goal.complete => \A i \in Orphans : ReportsTakenBack(branch[i])

=============================================================================
