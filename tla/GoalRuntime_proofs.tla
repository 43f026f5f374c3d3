-------------------------- MODULE GoalRuntime_proofs --------------------------
(***************************************************************************)
(* Proofs about the extension between its host, its agent, its human and   *)
(* the session file, for any limits, bounds, tools and evidence: the goal  *)
(* in memory is the committed one, no work is sent for a goal that may not *)
(* run, one message and one timer at a time, and the goal on file moves as *)
(* the goal ledger allows.                                                 *)
(***************************************************************************)
EXTENDS GoalRuntimeProperties, GoalState_proofs, SequenceTheorems,
        WellFoundedInduction

-----------------------------------------------------------------------------
(* The inductive invariant.                                                *)

(* A goal the session knows: sound, under an id that was given out.        *)
Known(g, issued) == g = NoGoal \/ (Sound(g) /\ g.goalId \in 1..issued)

(* What is in memory between two handlers is what was last persisted.      *)
StoreInv(s, issued) ==
  /\ s \in StoreState
  /\ Known(s.goal, issued)
  /\ Known(s.leaf, issued)
  /\ \A i \in DOMAIN s.trail : Known(s.trail[i], issued)
  /\ s.lastPersisted = s.goal
  /\ s.goal \in {s.leaf, RestoreBranchGoal(s.leaf)}

(* The armed timer is the one the handle designates.  A queued message was *)
(* sent to an idle host, so no loop is in flight for the goal.             *)
ContInv(c) ==
  /\ c \in ContinuationState
  /\ \/ c.scheduledFor = 0 /\ c.timers = {}
     \/ /\ c.scheduledFor # 0
        /\ \E b \in BOOLEAN : c.timers = {[goalId |-> c.scheduledFor, boundary |-> b]}
  /\ c.phase = "queued" => ~c.goalLoopInFlight /\ c.loopTrigger # "goal"

HostInv(h) ==
  /\ h \in HostState
  /\ Len(h.goalQueue) <= 1
  /\ h.loop # "running" => h.work = "none"

(* What the owner holds fits the goal: a timer waits only for an active    *)
(* goal that may go on, and a goal that stopped left nothing behind.       *)
GoalFits(g, c) ==
  /\ c.scheduledFor # 0 => IsActive(g) /\ g.goalId = c.scheduledFor /\ ~Exhausted(g.execution)
  /\ ~IsActive(g) => c.phase = "idle" /\ ~c.goalLoopInFlight /\ c.loopTrigger # "goal"

(* What the owner holds fits the host: the queued message is the one it    *)
(* sent, unless a human's abort drained the queue, and a user's message    *)
(* delivered since is on record.                                           *)
HostFits(c, h, aborts) ==
  /\ c.phase = "queued" =>
       /\ h.goalQueue = <<c.sentFor>> \/ (aborts > 0 /\ h.goalQueue = <<>>)
       /\ h.work # "goal"
       /\ h.work = "user" => c.userMessageSinceSend
  /\ h.work = "user" => c.loopTrigger # "goal"
  /\ h.loop # "running" => ~c.goalLoopInFlight /\ c.loopTrigger # "goal"

Fits(s, c, h, aborts) ==
  ContInv(c) /\ HostInv(h) /\ GoalFits(s.goal, c) /\ HostFits(c, h, aborts)

RuntimeInv ==
  /\ used \in [Bounds -> Nat]
  /\ used["aborts"] <= MaxAborts /\ used["navigations"] <= MaxNavigations
  /\ yielding \in BOOLEAN
  /\ accepted \in Seq(Completion)
  /\ StoreInv(store, used["goals"])
  /\ Fits(store, cont, host, used["aborts"])

(* On one branch the completions remembered are behind the session's goal. *)
Behind(record, g) ==
  (g # NoGoal /\ g.goalId = record.identity.goalId)
    => g.index > record.identity.index \/ g.status = "complete"

PastCompletions(g, issued) ==
  {record \in Completion : record.identity.goalId \in 1..issued /\ Behind(record, g)}

AcceptedInv == accepted \in Seq(PastCompletions(store.goal, used["goals"]))

-----------------------------------------------------------------------------
(* The session file and the goal in memory.                                *)

LEMMA KnownTypes ==
  ASSUME NEW n \in Nat, NEW g, Known(g, n)
  PROVE  /\ g \in GoalRecord \cup {NoGoal}
         /\ Known(g, n + 1)
         /\ Known(RestoreBranchGoal(g), n)
         /\ ~IsActive(RestoreBranchGoal(g))
<1>1. CASE g = NoGoal
  BY <1>1 DEF Known, RestoreBranchGoal, IsActive
<1>2. CASE Sound(g) /\ g.goalId \in 1..n
  <2>1. g \in GoalRecord /\ Sound(RestoreBranchGoal(g))
    BY <1>2, SoundTypes, RestoreSound
  <2>2. RestoreBranchGoal(g).goalId = g.goalId /\ ~IsActive(RestoreBranchGoal(g))
    BY <2>1 DEF RestoreBranchGoal, IsActive, GoalRecord
  <2> QED
    BY <1>2, <2>1, <2>2 DEF Known
<1> QED
  BY <1>1, <1>2 DEF Known

LEMMA StoreTypes ==
  ASSUME NEW n \in Nat, NEW s, StoreInv(s, n)
  PROVE  /\ s.goal \in GoalRecord \cup {NoGoal} /\ s.leaf \in GoalRecord \cup {NoGoal}
         /\ s.trail \in Seq(GoalRecord \cup {NoGoal})
         /\ s.failures \in Nat /\ s.persistenceBroken \in BOOLEAN
         /\ s.lastPersisted = s.goal
BY DEF StoreInv, StoreState

LEMMA RememberKnown ==
  ASSUME NEW n \in Nat, NEW s, StoreInv(s, n)
  PROVE  /\ Remember(s) \in Seq(GoalRecord \cup {NoGoal})
         /\ \A i \in DOMAIN Remember(s) : Known(Remember(s)[i], n)
<1> DEFINE longer == Append(s.trail, s.leaf)
<1>1. /\ s.trail \in Seq(GoalRecord \cup {NoGoal}) /\ s.leaf \in GoalRecord \cup {NoGoal}
      /\ Known(s.leaf, n) /\ \A i \in DOMAIN s.trail : Known(s.trail[i], n)
  BY DEF StoreInv, StoreState
<1>2. /\ longer \in Seq(GoalRecord \cup {NoGoal}) /\ longer # <<>>
      /\ \A i \in DOMAIN longer : Known(longer[i], n)
  <2>1. /\ longer \in Seq(GoalRecord \cup {NoGoal}) /\ Len(longer) = Len(s.trail) + 1
        /\ \A i \in 1..Len(s.trail) : longer[i] = s.trail[i]
        /\ longer[Len(s.trail) + 1] = s.leaf
    BY <1>1, AppendProperties
  <2>2. DOMAIN s.trail = 1..Len(s.trail) /\ Len(s.trail) \in Nat
    BY <1>1, LenProperties
  <2> HIDE DEF longer
  <2>3. DOMAIN longer = 1..(Len(s.trail) + 1) /\ longer # <<>>
    BY <2>1, <2>2
  <2> QED
    BY <1>1, <2>1, <2>2, <2>3
<1> HIDE DEF longer
<1>3. /\ Tail(longer) \in Seq(GoalRecord \cup {NoGoal})
      /\ \A i \in DOMAIN Tail(longer) : Known(Tail(longer)[i], n)
  BY <1>2
<1>4. Remember(s) \in {s.trail, longer, Tail(longer)}
  BY DEF Remember, longer
<1> QED
  BY <1>1, <1>2, <1>3, <1>4

(* A store after one more snapshot, or after one that failed.              *)
LEMMA CommittedInv ==
  ASSUME NEW n \in Nat, NEW s, StoreInv(s, n), NEW g, Known(g, n)
  PROVE  /\ StoreInv(Committed(s, g), n)
         /\ Committed(s, g).goal = g
         /\ ~Committed(s, g).persistenceBroken
<1> DEFINE t == Committed(s, g)
<1>1. s \in StoreState /\ g \in GoalRecord \cup {NoGoal}
  BY KnownTypes DEF StoreInv
<1>2. /\ t.goal = g /\ t.lastPersisted = g /\ t.leaf = g /\ t.trail = Remember(s)
      /\ ~t.persistenceBroken /\ t \in StoreState
  BY <1>1, RememberKnown DEF Committed, StoreState
<1> HIDE DEF t
<1>3. StoreInv(t, n)
  BY <1>2, RememberKnown DEF StoreInv
<1> QED
  BY <1>2, <1>3 DEF t

LEMMA BrokenInv ==
  ASSUME NEW n \in Nat, NEW s, StoreInv(s, n)
  PROVE  LET t == [s EXCEPT !.persistenceBroken = TRUE, !.failures = @ + 1]
         IN  StoreInv(t, n) /\ t.goal = s.goal /\ t.persistenceBroken
<1> DEFINE t == [s EXCEPT !.persistenceBroken = TRUE, !.failures = s.failures + 1]
<1>1. s \in StoreState
  BY DEF StoreInv
<1>2. /\ t.goal = s.goal /\ t.lastPersisted = s.lastPersisted /\ t.leaf = s.leaf
      /\ t.trail = s.trail /\ t.persistenceBroken /\ t \in StoreState
  <2>1. s.failures + 1 \in Nat
    BY <1>1 DEF StoreState
  <2> QED
    BY <1>1, <2>1, Zenon DEF StoreState
<1> HIDE DEF t
<1>3. StoreInv(t, n)
  BY <1>2 DEF StoreInv
<1> QED
  BY <1>2, <1>3 DEF t

(* What an append leaves: the goal is on file, or memory forgets it.       *)
LEMMA PersistInv ==
  ASSUME NEW n \in Nat, NEW s, StoreInv(s, n), NEW g, Known(g, n),
         NEW t \in PersistOutcomes(s, g)
  PROVE  /\ StoreInv(t, n)
         /\ t.goal = g \/ (t.goal = s.goal /\ t.persistenceBroken)
         /\ t.persistenceBroken => t.goal = s.goal
<1>1. s \in StoreState /\ s.lastPersisted = s.goal
  BY DEF StoreInv
<1>2. CASE g = s.goal /\ t = [s EXCEPT !.goal = g]
  <2>1. t = s
    BY <1>1, <1>2 DEF StoreState
  <2> QED
    BY <1>2, <2>1
<1>3. CASE t = Committed(s, g)
  BY <1>3, CommittedInv
<1>4. CASE t = RolledBack([s EXCEPT !.goal = g])
  <2>1. t = [s EXCEPT !.persistenceBroken = TRUE, !.failures = @ + 1]
    BY <1>1, <1>4 DEF RolledBack, StoreState
  <2> QED
    BY <2>1, BrokenInv
<1> QED
  BY <1>1, <1>2, <1>3, <1>4 DEF PersistOutcomes, MayFail

LEMMA ClearInv ==
  ASSUME NEW n \in Nat, NEW s, StoreInv(s, n), NEW t \in ClearOutcomes(s)
  PROVE  StoreInv(t, n) /\ t.goal \in {NoGoal, s.goal}
<1>1. CASE t = Committed(s, NoGoal)
  BY <1>1, CommittedInv DEF Known
<1>2. CASE t = NotCleared(s)
  BY <1>2, BrokenInv DEF NotCleared
<1> QED
  BY <1>1, <1>2 DEF ClearOutcomes, MayFail

(* Memory is flushed at all times, so a flush changes nothing.             *)
LEMMA FlushChangesNothing ==
  ASSUME NEW n \in Nat, NEW s, StoreInv(s, n)
  PROVE  FlushOutcomes(s) = {s}
<1>1. s \in StoreState /\ s.lastPersisted = s.goal
  BY DEF StoreInv
<1>2. [s EXCEPT !.goal = s.goal] = s
  BY <1>1 DEF StoreState
<1> QED
  BY <1>1, <1>2 DEF FlushOutcomes, PersistOutcomes

LEMMA RestoredInv ==
  ASSUME NEW n \in Nat, NEW s, StoreInv(s, n),
         NEW snapshot \in {s.leaf} \cup ToSet(s.trail)
  PROVE  /\ StoreInv(Restored(s, snapshot), n)
         /\ StoreInv([Restored(s, snapshot) EXCEPT !.persistenceBroken = FALSE], n)
         /\ Restored(s, snapshot).goal = RestoreBranchGoal(snapshot)
         /\ [Restored(s, snapshot) EXCEPT !.persistenceBroken = FALSE].goal
               = RestoreBranchGoal(snapshot)
<1> DEFINE g == RestoreBranchGoal(snapshot)
           t == Restored(s, snapshot)
           u == [t EXCEPT !.persistenceBroken = FALSE]
<1>1. s \in StoreState
  BY DEF StoreInv
<1>2. Known(snapshot, n)
  <2>1. CASE snapshot = s.leaf
    BY <2>1 DEF StoreInv
  <2>2. CASE snapshot \in ToSet(s.trail)
    BY <2>2 DEF StoreInv, ToSet
  <2> QED
    BY <2>1, <2>2
<1>3. /\ g \in GoalRecord \cup {NoGoal} /\ snapshot \in GoalRecord \cup {NoGoal}
      /\ Known(g, n)
  BY <1>2, KnownTypes
<1> HIDE DEF g
<1>4. t = [s EXCEPT !.goal = g, !.lastPersisted = g, !.leaf = snapshot]
  BY DEF Restored, g
<1>5. /\ t.goal = g /\ t.lastPersisted = g /\ t.leaf = snapshot /\ t.trail = s.trail
      /\ t \in StoreState
  BY <1>1, <1>3, <1>4 DEF StoreState
<1>6. /\ u.goal = g /\ u.lastPersisted = g /\ u.leaf = snapshot /\ u.trail = s.trail
      /\ u \in StoreState
  BY <1>5 DEF StoreState
<1> HIDE DEF t, u
<1>7. StoreInv(t, n) /\ StoreInv(u, n)
  BY <1>2, <1>3, <1>5, <1>6 DEF StoreInv, g
<1> QED
  BY <1>5, <1>6, <1>7 DEF t, u, g

-----------------------------------------------------------------------------
(* The owner and the host.                                                 *)

LEMMA ContTypes ==
  ASSUME NEW c, ContInv(c)
  PROVE  /\ c.phase \in Phases /\ c.sentFor \in Identity
         /\ c.loopTrigger \in Triggers /\ c.scheduledFor \in Nat
         /\ c.goalLoopInFlight \in BOOLEAN /\ c.userMessageSinceSend \in BOOLEAN
         /\ c.timers \in SUBSET [goalId : Nat, boundary : BOOLEAN]
BY DEF ContInv, ContinuationState

LEMMA HostTypes ==
  ASSUME NEW h, HostInv(h)
  PROVE  /\ h.loop \in {"idle", "running", "ending", "down"}
         /\ h.started \in BOOLEAN /\ h.aborted \in BOOLEAN
         /\ h.work \in {"goal", "user", "peer", "none"}
         /\ h.goalQueue \in Seq(Identity) /\ Len(h.goalQueue) \in Nat
         /\ h.waiting \in [{"user", "peer"} -> Nat]
BY DEF HostInv, HostState, Senders

LEMMA InitialIsTyped ==
  InitialContinuation \in ContinuationState
BY DEF InitialContinuation, ContinuationState, Phases, Triggers, Identity, NoIdentity

(* The handle designates the only timer, so clearing it clears them all.   *)
LEMMA ClearTimerFields ==
  ASSUME NEW c, ContInv(c)
  PROVE  /\ ClearTimer(c).timers = {} /\ ClearTimer(c).scheduledFor = 0
         /\ ClearTimer(c).phase = c.phase /\ ClearTimer(c).sentFor = c.sentFor
         /\ ClearTimer(c).loopTrigger = c.loopTrigger
         /\ ClearTimer(c).goalLoopInFlight = c.goalLoopInFlight
         /\ ClearTimer(c).userMessageSinceSend = c.userMessageSinceSend
         /\ ClearTimer(c) \in ContinuationState
<1> DEFINE left == {t \in c.timers : t.goalId # c.scheduledFor}
<1>1. left = {}
  BY DEF ContInv
<1>2. c \in ContinuationState
  BY DEF ContInv
<1>3. ClearTimer(c) = [c EXCEPT !.timers = {}, !.scheduledFor = 0]
  BY <1>1, <1>2 DEF ClearTimer, ContinuationState
<1> DEFINE t == [c EXCEPT !.timers = {}, !.scheduledFor = 0]
<1>4. t \in ContinuationState
  <2>1. {} \in SUBSET [goalId : Nat, boundary : BOOLEAN] /\ 0 \in Nat
    OBVIOUS
  <2> QED
    BY <1>2, <2>1, Zenon DEF ContinuationState
<1>5. /\ t.timers = {} /\ t.scheduledFor = 0 /\ t.phase = c.phase /\ t.sentFor = c.sentFor
      /\ t.loopTrigger = c.loopTrigger /\ t.goalLoopInFlight = c.goalLoopInFlight
      /\ t.userMessageSinceSend = c.userMessageSinceSend
  BY <1>2 DEF ContinuationState
<1> QED
  BY <1>3, <1>4, <1>5

LEMMA ClearedIsInitial ==
  ASSUME NEW c, ContInv(c)
  PROVE  ClearContinuation(c) = InitialContinuation
<1>1. ClearTimer(c).timers = {}
  BY ClearTimerFields
<1>2. ClearContinuation(c) = [InitialContinuation EXCEPT !.timers = {}]
  BY <1>1 DEF ClearContinuation
<1> QED
  BY <1>2 DEF InitialContinuation

LEMMA ClearScheduleFields ==
  ASSUME NEW c, ContInv(c)
  PROVE  /\ ClearSchedule(c).timers = {} /\ ClearSchedule(c).scheduledFor = 0
         /\ ClearSchedule(c).phase = "idle"
         /\ ClearSchedule(c).loopTrigger = c.loopTrigger
         /\ ClearSchedule(c).goalLoopInFlight = c.goalLoopInFlight
         /\ ClearSchedule(c) \in ContinuationState
<1> DEFINE t == ClearTimer(c)
           u == [t EXCEPT !.phase = "idle", !.sentFor = NoIdentity,
                          !.userMessageSinceSend = FALSE]
<1>1. /\ t \in ContinuationState /\ t.timers = {} /\ t.scheduledFor = 0
      /\ t.loopTrigger = c.loopTrigger /\ t.goalLoopInFlight = c.goalLoopInFlight
  BY ClearTimerFields
<1> HIDE DEF t
<1>2. /\ u.timers = {} /\ u.scheduledFor = 0 /\ u.phase = "idle"
      /\ u.loopTrigger = c.loopTrigger /\ u.goalLoopInFlight = c.goalLoopInFlight
      /\ u \in ContinuationState
  BY <1>1 DEF ContinuationState, Phases, Identity, NoIdentity
<1> QED
  BY <1>2 DEF ClearSchedule, t

LEMMA InitialFits ==
  ASSUME NEW s, NEW h, HostInv(h), NEW aborts \in Nat
  PROVE  Fits(s, InitialContinuation, h, aborts)
<1> DEFINE c == InitialContinuation
<1>1. /\ c.phase = "idle" /\ c.timers = {} /\ c.scheduledFor = 0
      /\ c.loopTrigger = "none" /\ ~c.goalLoopInFlight
  BY DEF InitialContinuation
<1>2. c \in ContinuationState
  BY InitialIsTyped
<1> HIDE DEF c
<1>3. ContInv(c) /\ GoalFits(s.goal, c) /\ HostFits(c, h, aborts)
  BY <1>1, <1>2 DEF ContInv, GoalFits, HostFits
<1> QED
  BY <1>3 DEF Fits, c

LEMMA NothingWaits == <<>> \in Seq(Identity) /\ Len(<<>>) = 0
OBVIOUS

LEMMA AbortFields ==
  ASSUME NEW h, HostInv(h)
  PROVE  /\ HostInv(Abort(h))
         /\ Abort(h).loop = h.loop /\ Abort(h).work = h.work
         /\ Abort(h).started = h.started /\ Abort(h).goalQueue = <<>>
         /\ Abort(h).aborted = (h.aborted \/ h.loop = "running")
<1> DEFINE k == Abort(h)
           drained == [sender \in {"user", "peer"} |-> 0]
           aborted == h.aborted \/ h.loop = "running"
<1>1. h \in HostState /\ h.aborted \in BOOLEAN
  BY HostTypes DEF HostInv
<1>2. drained \in [{"user", "peer"} -> Nat] /\ aborted \in BOOLEAN
  BY <1>1
<1>3. k = [h EXCEPT !.goalQueue = <<>>, !.waiting = drained, !.aborted = aborted]
  BY <1>1 DEF Abort, HostState
<1> HIDE DEF drained, aborted, k
<1>4. /\ k.loop = h.loop /\ k.work = h.work /\ k.started = h.started
      /\ k.goalQueue = <<>> /\ k.aborted = aborted
  BY <1>1, <1>3 DEF HostState
<1>5. k \in HostState
  BY <1>1, <1>2, <1>3, NothingWaits, Zenon DEF HostState
<1>6. HostInv(k)
  BY <1>4, <1>5, NothingWaits DEF HostInv
<1> QED
  BY <1>4, <1>6 DEF k, aborted

(* What a handler may do to the owner and the host it was given, in the    *)
(* terms of the action properties: no delivery is acknowledged, no message *)
(* the owner waits for is lost, an abort strikes an outstanding loop, a    *)
(* recognised loop stays so or is aborted.                                 *)
Continues(c, h, c1, h1) ==
  /\ h1.loop = h.loop /\ h1.work = h.work /\ h1.started = h.started
  /\ c1.phase = "delivered" => c.phase = "delivered"
  /\ (c1.phase = "queued" /\ h1.goalQueue = <<>>) => (c.phase = "queued" /\ h.goalQueue = <<>>)
  /\ h.aborted => h1.aborted
  /\ h1.aborted => h.aborted \/ (Outstanding(c) /\ h.loop = "running")
  /\ (h.loop = "running" /\ Outstanding(c1)) => Outstanding(c)
  /\ (h.loop = "running" /\ c.goalLoopInFlight /\ c.loopTrigger = "goal")
       => (c1.goalLoopInFlight /\ c1.loopTrigger = "goal") \/ h1.aborted

(* A message more in the queue is one the gates admitted.                  *)
Admitted(h, h1, g) ==
  Len(h1.goalQueue) > Len(h.goalQueue)
    => IsActive(g) /\ ~Exhausted(g.execution) /\ ~yielding

LEMMA ContinuesOn ==
  ASSUME NEW c, NEW h, NEW c1, NEW h1, NEW c2, NEW h2,
         Continues(c, h, c1, h1), Continues(c1, h1, c2, h2)
  PROVE  Continues(c, h, c2, h2)
BY DEF Continues

LEMMA WithdrawnFields ==
  ASSUME NEW c, ContInv(c), NEW h, HostInv(h)
  PROVE  /\ HostInv(Withdrawn(c, h))
         /\ Continues(c, h, InitialContinuation, Withdrawn(c, h))
         /\ Len(Withdrawn(c, h).goalQueue) <= Len(h.goalQueue)
<1> DEFINE i == InitialContinuation
<1>0. ~Outstanding(i) /\ i.phase = "idle"
  BY DEF InitialContinuation, Outstanding
<1> HIDE DEF i
<1>1. CASE Outstanding(c)
  <2> DEFINE k == Abort(h)
  <2>1. Withdrawn(c, h) = k
    BY <1>1 DEF Withdrawn
  <2>2. /\ HostInv(k) /\ k.loop = h.loop /\ k.work = h.work /\ k.started = h.started
        /\ k.goalQueue = <<>> /\ k.aborted = (h.aborted \/ h.loop = "running")
    BY AbortFields
  <2> HIDE DEF k
  <2>3. Continues(c, h, i, k)
    BY <1>0, <1>1, <2>2 DEF Continues
  <2>4. Len(k.goalQueue) <= Len(h.goalQueue)
    BY <2>2, NothingWaits, HostTypes
  <2> QED
    BY <2>1, <2>2, <2>3, <2>4 DEF i
<1>2. CASE ~Outstanding(c)
  <2>1. Withdrawn(c, h) = h
    BY <1>2 DEF Withdrawn
  <2>2. Continues(c, h, i, h)
    BY <1>0, <1>2 DEF Continues, Outstanding
  <2> QED
    BY <2>1, <2>2, HostTypes DEF i
<1> QED
  BY <1>1, <1>2

-----------------------------------------------------------------------------
(* The owner's request.                                                    *)

LEMMA KnownIdentity ==
  ASSUME NEW n \in Nat, NEW g, Known(g, n), g # NoGoal
  PROVE  /\ g \in GoalRecord /\ Sound(g) /\ IdentityOf(g) \in Identity
         /\ g.goalId \in Nat /\ g.goalId # 0
<1>1. Sound(g) /\ g.goalId \in 1..n
  BY DEF Known
<1>2. g \in GoalRecord /\ g.execution \in ExecutionRecord /\ g.index \in Nat
  BY <1>1, SoundTypes
<1>3. g.execution.generation \in Nat
  BY <1>2, FieldTypes
<1> QED
  BY <1>1, <1>2, <1>3 DEF IdentityOf, Identity

LEMMA SentFields ==
  ASSUME NEW c, ContInv(c), NEW id \in Identity
  PROVE  LET m == [ClearTimer(c) EXCEPT !.phase = "queued", !.sentFor = id,
                                        !.userMessageSinceSend = FALSE]
         IN  /\ m.timers = {} /\ m.scheduledFor = 0 /\ m.phase = "queued"
             /\ m.sentFor = id /\ m.loopTrigger = c.loopTrigger
             /\ m.goalLoopInFlight = c.goalLoopInFlight
             /\ m \in ContinuationState
<1> DEFINE t == ClearTimer(c)
           m == [t EXCEPT !.phase = "queued", !.sentFor = id, !.userMessageSinceSend = FALSE]
<1>1. /\ t \in ContinuationState /\ t.timers = {} /\ t.scheduledFor = 0
      /\ t.loopTrigger = c.loopTrigger /\ t.goalLoopInFlight = c.goalLoopInFlight
  BY ClearTimerFields
<1> HIDE DEF t
<1>2. /\ m.timers = {} /\ m.scheduledFor = 0 /\ m.phase = "queued" /\ m.sentFor = id
      /\ m.loopTrigger = c.loopTrigger /\ m.goalLoopInFlight = c.goalLoopInFlight
      /\ m \in ContinuationState
  BY <1>1 DEF ContinuationState, Phases
<1> QED
  BY <1>2 DEF t

LEMMA QueueOne ==
  ASSUME NEW h, HostInv(h), h.goalQueue = <<>>, NEW id \in Identity
  PROVE  LET m == [h EXCEPT !.goalQueue = Append(@, id)]
         IN  /\ HostInv(m) /\ m.goalQueue = <<id>> /\ m.loop = h.loop
             /\ m.work = h.work /\ m.started = h.started /\ m.aborted = h.aborted
<1> DEFINE m == [h EXCEPT !.goalQueue = <<id>>]
<1>1. h \in HostState
  BY DEF HostInv
<1>2. [h EXCEPT !.goalQueue = Append(@, id)] = m
  BY <1>1 DEF HostState
<1>3. <<id>> \in Seq(Identity) /\ Len(<<id>>) = 1
  OBVIOUS
<1>4. m \in HostState
  BY <1>1, <1>3, Zenon DEF HostState
<1>5. /\ m.goalQueue = <<id>> /\ m.loop = h.loop /\ m.work = h.work
      /\ m.started = h.started /\ m.aborted = h.aborted
  BY <1>1 DEF HostState
<1> HIDE DEF m
<1>6. HostInv(m)
  BY <1>3, <1>4, <1>5 DEF HostInv
<1> QED
  BY <1>2, <1>5, <1>6

LEMMA ArmedFields ==
  ASSUME NEW c, ContInv(c), c.scheduledFor = 0,
         NEW g, g.goalId \in Nat, g.goalId # 0, NEW b \in BOOLEAN
  PROVE  LET m == ArmTimer(c, g, b)
         IN  /\ ContInv(m) /\ m.scheduledFor = g.goalId /\ m.phase = c.phase
             /\ m.sentFor = c.sentFor /\ m.loopTrigger = c.loopTrigger
             /\ m.goalLoopInFlight = c.goalLoopInFlight
             /\ m.userMessageSinceSend = c.userMessageSinceSend
<1> DEFINE id == g.goalId
           armed == {[goalId |-> id, boundary |-> b]}
           m == [c EXCEPT !.scheduledFor = id, !.timers = armed]
<1>1. c \in ContinuationState /\ c.timers = {} /\ id \in Nat
  BY DEF ContInv
<1>2. ArmTimer(c, g, b) = m
  BY <1>1 DEF ArmTimer, ContinuationState
<1>3. armed \in SUBSET [goalId : Nat, boundary : BOOLEAN]
  OBVIOUS
<1> HIDE DEF armed
<1>4. m \in ContinuationState
  BY <1>1, <1>3, Zenon DEF ContinuationState
<1>5. /\ m.scheduledFor = id /\ m.timers = armed /\ m.phase = c.phase
      /\ m.sentFor = c.sentFor /\ m.loopTrigger = c.loopTrigger
      /\ m.goalLoopInFlight = c.goalLoopInFlight
      /\ m.userMessageSinceSend = c.userMessageSinceSend
  BY <1>1 DEF ContinuationState
<1> HIDE DEF m
<1>6. ContInv(m)
  BY <1>4, <1>5 DEF ContInv, armed
<1> QED
  BY <1>2, <1>5, <1>6 DEF armed

(* A request sends to an idle host with nothing pending, or arms the one   *)
(* timer, or leaves the owner without a timer, or does nothing.            *)
LEMMA OwnerRequestInv ==
  ASSUME NEW n \in Nat, NEW g, Known(g, n), NEW c, NEW h, NEW aborts \in Nat,
         ContInv(c), HostInv(h), GoalFits(g, c), HostFits(c, h, aborts),
         NEW b \in BOOLEAN,
         (IsActive(g) /\ ~yielding) => ~Exhausted(g.execution),
         OwnerRequest(g, c, h, b)
  PROVE  /\ ContInv(cont') /\ HostInv(host')
         /\ GoalFits(g, cont') /\ HostFits(cont', host', aborts)
         /\ Continues(c, h, cont', host') /\ Admitted(h, host', g)
<1> DEFINE pending == HasPendingMessages(h)
           may == MayRequest(c, g, b, yielding)
<1>1. CASE Sends(c, g, b, yielding, pending, IsIdle(h))
  <2>1. may /\ ~pending /\ h.loop = "idle" /\ cont' = MarkSent(c, g)
        /\ host' = SendGoalMessage(h, g)
    BY <1>1 DEF Sends, OwnerRequest, AfterRequest, IsIdle
  <2>2. IsActive(g) /\ ~yielding /\ g # NoGoal /\ ~Exhausted(g.execution)
    BY <2>1 DEF MayRequest, IsActive
  <2>3. h.goalQueue = <<>> /\ h.work = "none"
    BY <2>1 DEF HasPendingMessages, Waiting, Senders, HostInv
  <2>4. IdentityOf(g) \in Identity
    BY <2>2, KnownIdentity
  <2>5. /\ cont'.timers = {} /\ cont'.scheduledFor = 0 /\ cont'.phase = "queued"
        /\ cont'.sentFor = IdentityOf(g) /\ cont'.loopTrigger = c.loopTrigger
        /\ cont'.goalLoopInFlight = c.goalLoopInFlight /\ cont' \in ContinuationState
    BY <2>1, <2>4, SentFields DEF MarkSent
  <2>6. /\ HostInv(host') /\ host'.goalQueue = <<IdentityOf(g)>> /\ host'.loop = h.loop
        /\ host'.work = h.work /\ host'.started = h.started /\ host'.aborted = h.aborted
    BY <2>1, <2>3, <2>4, QueueOne DEF SendGoalMessage
  <2>7. ~c.goalLoopInFlight /\ c.loopTrigger # "goal"
    BY <2>1 DEF HostFits
  <2>8. ContInv(cont') /\ GoalFits(g, cont') /\ HostFits(cont', host', aborts)
    BY <2>1, <2>2, <2>3, <2>5, <2>6, <2>7 DEF ContInv, GoalFits, HostFits
  <2>9. Continues(c, h, cont', host') /\ Admitted(h, host', g)
    BY <2>1, <2>2, <2>5, <2>6 DEF Continues, Admitted
  <2> QED
    BY <2>6, <2>8, <2>9
<1>2. CASE ~Sends(c, g, b, yielding, pending, IsIdle(h))
  <2>1. host' = h /\ Admitted(h, host', g)
    BY <1>2, HostTypes DEF OwnerRequest, Admitted
  <2>2. CASE Defers(c, g, b, yielding, pending, IsIdle(h))
    <3>1. /\ IsActive(g) /\ g # NoGoal /\ ~Exhausted(g.execution)
          /\ cont' = ArmTimer(c, g, b)
      BY <1>2, <2>2 DEF Defers, MayRequest, IsActive, OwnerRequest, AfterRequest
    <3>2. g.goalId \in Nat /\ g.goalId # 0
      BY <3>1, KnownIdentity
    <3>3. CASE c.scheduledFor = g.goalId
      <4>1. cont' = c
        BY <3>1, <3>3 DEF ArmTimer
      <4> QED
        BY <2>1, <4>1 DEF Continues
    <3>4. CASE c.scheduledFor # g.goalId
      <4>1. c.scheduledFor = 0
        BY <3>4 DEF GoalFits
      <4>2. /\ ContInv(cont') /\ cont'.scheduledFor = g.goalId /\ cont'.phase = c.phase
            /\ cont'.sentFor = c.sentFor /\ cont'.loopTrigger = c.loopTrigger
            /\ cont'.goalLoopInFlight = c.goalLoopInFlight
            /\ cont'.userMessageSinceSend = c.userMessageSinceSend
        BY <3>1, <3>2, <4>1, ArmedFields
      <4>3. GoalFits(g, cont') /\ HostFits(cont', host', aborts)
        BY <2>1, <3>1, <4>2 DEF GoalFits, HostFits
      <4>4. Continues(c, h, cont', host')
        BY <2>1, <4>2 DEF Continues, Outstanding
      <4> QED
        BY <2>1, <4>2, <4>3, <4>4
    <3> QED
      BY <3>3, <3>4
  <2>3. CASE ~Defers(c, g, b, yielding, pending, IsIdle(h)) /\ may
    <3>1. cont' = ClearTimer(c)
      BY <1>2, <2>3 DEF OwnerRequest, AfterRequest
    <3>2. /\ cont'.timers = {} /\ cont'.scheduledFor = 0 /\ cont'.phase = c.phase
          /\ cont'.sentFor = c.sentFor /\ cont'.loopTrigger = c.loopTrigger
          /\ cont'.goalLoopInFlight = c.goalLoopInFlight
          /\ cont'.userMessageSinceSend = c.userMessageSinceSend
          /\ cont' \in ContinuationState
      BY <3>1, ClearTimerFields
    <3>3. ContInv(cont') /\ GoalFits(g, cont') /\ HostFits(cont', host', aborts)
      BY <2>1, <3>2 DEF ContInv, GoalFits, HostFits
    <3>4. Continues(c, h, cont', host')
      BY <2>1, <3>2 DEF Continues, Outstanding
    <3> QED
      BY <2>1, <3>3, <3>4
  <2>4. CASE ~Defers(c, g, b, yielding, pending, IsIdle(h)) /\ ~may
    <3>1. cont' = c
      BY <1>2, <2>4 DEF OwnerRequest, AfterRequest
    <3> QED
      BY <2>1, <3>1 DEF Continues
  <2> QED
    BY <2>2, <2>3, <2>4
<1> QED
  BY <1>1, <1>2

-----------------------------------------------------------------------------
(* The runtime's own gate in front of it.                                  *)

LEMMA WithdrawInv ==
  ASSUME NEW c, ContInv(c), NEW h, HostInv(h), NEW aborts \in Nat,
         WithdrawGoalWork(c, h)
  PROVE  /\ \A s : Fits(s, cont', host', aborts)
         /\ Continues(c, h, cont', host')
         /\ \A g : Admitted(h, host', g)
<1>1. cont' = InitialContinuation /\ host' = Withdrawn(c, h)
  BY ClearedIsInitial DEF WithdrawGoalWork
<1>2. /\ HostInv(host') /\ Continues(c, h, cont', host')
      /\ Len(host'.goalQueue) <= Len(h.goalQueue)
  BY <1>1, WithdrawnFields
<1>3. \A s : Fits(s, cont', host', aborts)
  BY <1>1, <1>2, InitialFits
<1>4. \A g : Admitted(h, host', g)
  BY <1>2, HostTypes DEF Admitted
<1> QED
  BY <1>2, <1>3, <1>4

LEMMA KnownExhaustion ==
  ASSUME NEW n \in Nat, NEW g, Known(g, n), IsActive(g)
  PROVE  Known(PauseForExhaustion(g), n) /\ ~IsActive(PauseForExhaustion(g))
<1>1. Sound(g) /\ g.goalId \in 1..n
  BY DEF Known, IsActive
<1>2. Sound(PauseForExhaustion(g)) /\ g \in GoalRecord
  BY <1>1, ExhaustionPauseSound, SoundTypes
<1>3. PauseForExhaustion(g).goalId = g.goalId /\ PauseForExhaustion(g).status = "paused"
  BY <1>2 DEF PauseForExhaustion, PauseGoal, GoalRecord
<1> QED
  BY <1>1, <1>2, <1>3 DEF Known, IsActive

(* A goal, or that goal paused because a fuse of it is blown.              *)
Settled(g) ==
  {g} \cup (IF IsActive(g) /\ Exhausted(g.execution) THEN {PauseForExhaustion(g)} ELSE {})

LEMMA SettledMembers ==
  ASSUME NEW g
  PROVE  /\ g \in Settled(g)
         /\ (IsActive(g) /\ Exhausted(g.execution))
               => PauseForExhaustion(g) \in Settled(g)
         /\ \A k \in Settled(g) :
               k = g \/ (IsActive(g) /\ Exhausted(g.execution) /\ k = PauseForExhaustion(g))
BY DEF Settled

LEMMA RequestInv ==
  ASSUME NEW n \in Nat, NEW s, StoreInv(s, n), NEW c, NEW h, NEW aborts \in Nat,
         Fits(s, c, h, aborts), NEW b \in BOOLEAN,
         RequestContinuation(s, c, h, b)
  PROVE  /\ StoreInv(store', n) /\ Fits(store', cont', host', aborts)
         /\ Continues(c, h, cont', host') /\ Admitted(h, host', store'.goal)
         /\ store'.goal \in Settled(s.goal)
         /\ s.persistenceBroken => store' = s
<1>0. /\ ContInv(c) /\ HostInv(h) /\ GoalFits(s.goal, c) /\ HostFits(c, h, aborts)
      /\ Known(s.goal, n)
  BY DEF Fits, StoreInv
<1>1. CASE s.persistenceBroken /\ store' = s /\ cont' = c /\ host' = h
  <2>1. Continues(c, h, c, h) /\ Admitted(h, h, s.goal)
    BY <1>0, HostTypes DEF Continues, Admitted
  <2> QED
    BY <1>1, <2>1, SettledMembers
<1>2. CASE ~s.persistenceBroken /\ MustPause(s) /\ PausesForExhaustion(s, s.goal, c, h)
  <2>1. IsActive(s.goal) /\ Exhausted(s.goal.execution)
    BY <1>2 DEF MustPause
  <2>2. Known(PauseForExhaustion(s.goal), n)
    BY <1>0, <2>1, KnownExhaustion
  <2>3. store' \in PersistOutcomes(s, PauseForExhaustion(s.goal)) /\ WithdrawGoalWork(c, h)
    BY <1>2 DEF PausesForExhaustion
  <2>4. StoreInv(store', n) /\ store'.goal \in {s.goal, PauseForExhaustion(s.goal)}
    BY <2>2, <2>3, PersistInv
  <2> QED
    BY <1>0, <1>2, <2>1, <2>3, <2>4, WithdrawInv, SettledMembers
<1>3. CASE ~s.persistenceBroken /\ ~MustPause(s) /\ store' = s /\ OwnerRequest(s.goal, c, h, b)
  <2>1. (IsActive(s.goal) /\ ~yielding) => ~Exhausted(s.goal.execution)
    BY <1>3 DEF MustPause
  <2>2. /\ ContInv(cont') /\ HostInv(host')
        /\ GoalFits(s.goal, cont') /\ HostFits(cont', host', aborts)
        /\ Continues(c, h, cont', host') /\ Admitted(h, host', s.goal)
    BY <1>0, <1>3, <2>1, OwnerRequestInv
  <2> QED
    BY <1>3, <2>2, SettledMembers DEF Fits
<1> QED
  BY <1>1, <1>2, <1>3 DEF RequestContinuation

(* The same after everything was withdrawn, and what a step does then.     *)
LEMMA WithdrawnRequestInv ==
  ASSUME NEW n \in Nat, NEW s, StoreInv(s, n), NEW c, ContInv(c), NEW h, HostInv(h),
         NEW aborts \in Nat, NEW b \in BOOLEAN,
         RequestContinuation(s, ClearContinuation(c), Withdrawn(c, h), b)
  PROVE  /\ StoreInv(store', n) /\ Fits(store', cont', host', aborts)
         /\ Continues(c, h, cont', host') /\ Admitted(h, host', store'.goal)
         /\ store'.goal \in Settled(s.goal)
         /\ s.persistenceBroken => store' = s
<1> DEFINE i == InitialContinuation
           k == Withdrawn(c, h)
<1>1. RequestContinuation(s, i, k, b)
  BY ClearedIsInitial
<1>2. HostInv(k) /\ Continues(c, h, i, k) /\ Len(k.goalQueue) <= Len(h.goalQueue)
  BY WithdrawnFields
<1>3. Fits(s, i, k, aborts)
  BY <1>2, InitialFits
<1> HIDE DEF i, k
<1>4. /\ StoreInv(store', n) /\ Fits(store', cont', host', aborts)
      /\ Continues(i, k, cont', host') /\ Admitted(k, host', store'.goal)
      /\ store'.goal \in Settled(s.goal)
      /\ s.persistenceBroken => store' = s
  BY <1>1, <1>3, RequestInv
<1>5. Continues(c, h, cont', host')
  BY <1>2, <1>4, ContinuesOn
<1>6. Admitted(h, host', store'.goal)
  BY <1>2, <1>4, HostTypes DEF Admitted, Fits
<1> QED
  BY <1>4, <1>5, <1>6

-----------------------------------------------------------------------------
(* What the action properties say of one step.                             *)

StepIsOK ==
  /\ (cont.phase = "queued" /\ cont'.phase = "delivered")
       => Head(host.goalQueue) = cont.sentFor
  /\ Admitted(host, host', store'.goal)
  /\ (host'.loop = "running" /\ host'.aborted /\ ~host.aborted /\ ~HumanAborts)
       => host.work # "user"
  /\ (GoalLoop /\ Outstanding(cont) /\ GoalLoop') => Outstanding(cont')
  /\ (WaitsForNothing' /\ ~WaitsForNothing) => HumanAborts

LEMMA ContinuingIsOK ==
  ASSUME NEW aborts \in Nat, Fits(store, cont, host, aborts),
         Continues(cont, host, cont', host'), Admitted(host, host', store'.goal)
  PROVE  StepIsOK
<1>1. (cont.phase = "queued" /\ cont'.phase = "delivered") => FALSE
  BY DEF Continues
<1>2. Outstanding(cont) => host.work # "user"
  BY DEF Fits, HostFits, Outstanding
<1>3. (host'.aborted /\ ~host.aborted) => host.work # "user"
  BY <1>2 DEF Continues
<1>4. (GoalLoop /\ Outstanding(cont) /\ GoalLoop') => Outstanding(cont')
  <2>1. (GoalLoop /\ Outstanding(cont)) =>
          cont.goalLoopInFlight /\ cont.loopTrigger = "goal" /\ host.loop = "running"
    BY DEF GoalLoop, Fits, HostFits, Outstanding
  <2>2. GoalLoop' => ~host'.aborted
    BY DEF GoalLoop
  <2> QED
    BY <2>1, <2>2 DEF Continues, Outstanding
<1>5. WaitsForNothing' => WaitsForNothing
  BY DEF Continues, WaitsForNothing
<1> QED
  BY <1>1, <1>3, <1>4, <1>5 DEF StepIsOK

-----------------------------------------------------------------------------
(* What the transitions of the record do to the goal the session knows.    *)

(* The same goal, not behind where it was; done is done.                   *)
SameGoalOn(g, k) ==
  /\ k # NoGoal /\ k.goalId = g.goalId
  /\ k.index >= g.index
  /\ g.status = "complete" => k.status = "complete"

LEMMA StaysKnown ==
  ASSUME NEW n \in Nat, NEW g, Known(g, n), g # NoGoal, NEW k, Sound(k), k.goalId = g.goalId
  PROVE  Known(k, n)
BY DEF Known

LEMMA StatusMoves ==
  ASSUME NEW n \in Nat, NEW g, Known(g, n), g # NoGoal
  PROVE  /\ CanPause(g) => /\ Known(PauseGoal(g), n) /\ SameGoalOn(g, PauseGoal(g))
                           /\ ~IsActive(PauseGoal(g))
         /\ CanBlock(g) => /\ Known(BlockGoal(g), n) /\ SameGoalOn(g, BlockGoal(g))
                           /\ ~IsActive(BlockGoal(g))
         /\ CanResume(g) => /\ Known(ApplyResumeGrant(ResumeGoal(g)), n)
                            /\ SameGoalOn(g, ApplyResumeGrant(ResumeGoal(g)))
         /\ IsActive(g) => /\ Known(PauseForExhaustion(g), n)
                           /\ SameGoalOn(g, PauseForExhaustion(g))
                           /\ ~IsActive(PauseForExhaustion(g))
         /\ SameGoalOn(g, RestoreBranchGoal(g))
<1>1. g \in GoalRecord /\ Sound(g) /\ g.index \in Nat
  BY KnownIdentity, SoundTypes
<1>2. ASSUME NEW k, k.goalId = g.goalId, k.index = g.index, Sound(k),
             g.status # "complete" \/ k.status = "complete"
      PROVE  Known(k, n) /\ SameGoalOn(g, k)
  BY <1>1, <1>2, StaysKnown, SoundTypes DEF SameGoalOn
<1>3. ASSUME CanPause(g)
      PROVE  Known(PauseGoal(g), n) /\ SameGoalOn(g, PauseGoal(g)) /\ ~IsActive(PauseGoal(g))
  <2>1. Sound(PauseGoal(g)) /\ g.status = "active"
    BY <1>1, <1>3, PauseSound DEF CanPause, IsActive
  <2>2. /\ PauseGoal(g).goalId = g.goalId /\ PauseGoal(g).index = g.index
        /\ PauseGoal(g).status = "paused"
    BY <1>1 DEF PauseGoal, GoalRecord
  <2> QED
    BY <1>2, <2>1, <2>2 DEF IsActive
<1>4. ASSUME CanBlock(g)
      PROVE  Known(BlockGoal(g), n) /\ SameGoalOn(g, BlockGoal(g)) /\ ~IsActive(BlockGoal(g))
  <2>1. Sound(BlockGoal(g)) /\ g.status = "active"
    BY <1>1, <1>4, BlockSound DEF CanBlock, IsActive
  <2>2. /\ BlockGoal(g).goalId = g.goalId /\ BlockGoal(g).index = g.index
        /\ BlockGoal(g).status = "blocked"
    BY <1>1 DEF BlockGoal, GoalRecord
  <2> QED
    BY <1>2, <2>1, <2>2 DEF IsActive
<1>5. ASSUME CanResume(g)
      PROVE  LET k == ApplyResumeGrant(ResumeGoal(g)) IN Known(k, n) /\ SameGoalOn(g, k)
  <2> DEFINE k == ApplyResumeGrant(ResumeGoal(g))
  <2>1. Sound(k) /\ g.status # "complete"
    BY <1>1, <1>5, ResumeSound DEF CanResume
  <2>2. k.goalId = g.goalId /\ k.index = g.index
    BY <1>1 DEF ResumeGoal, ApplyResumeGrant, GoalRecord
  <2> QED
    BY <1>2, <2>1, <2>2
<1>6. ASSUME IsActive(g)
      PROVE  LET k == PauseForExhaustion(g)
             IN  Known(k, n) /\ SameGoalOn(g, k) /\ ~IsActive(k)
  <2> DEFINE k == PauseForExhaustion(g)
  <2>1. Known(k, n) /\ ~IsActive(k) /\ Sound(k) /\ g.status = "active"
    BY <1>1, <1>6, KnownExhaustion, ExhaustionPauseSound DEF IsActive
  <2>2. k.goalId = g.goalId /\ k.index = g.index
    BY <1>1 DEF PauseForExhaustion, PauseGoal, GoalRecord
  <2> QED
    BY <1>2, <2>1, <2>2
<1>7. SameGoalOn(g, RestoreBranchGoal(g))
  <2> DEFINE k == RestoreBranchGoal(g)
  <2>1. Sound(k)
    BY <1>1, RestoreSound
  <2>2. k.goalId = g.goalId /\ k.index = g.index
        /\ (g.status = "complete" => k.status = "complete")
    BY <1>1 DEF RestoreBranchGoal, IsActive, GoalRecord
  <2> QED
    BY <1>2, <2>1, <2>2
<1> QED
  BY <1>3, <1>4, <1>5, <1>6, <1>7

LEMMA WithExecutionFields ==
  ASSUME NEW g \in GoalRecord, NEW e
  PROVE  /\ WithExecution(g, e).goalId = g.goalId /\ WithExecution(g, e).index = g.index
         /\ WithExecution(g, e).status = g.status /\ WithExecution(g, e).execution = e
BY DEF WithExecution, GoalRecord

LEMMA TurnKeepsFuses ==
  ASSUME NEW e, IsGoalExecution(e)
  PROVE  ~Exhausted(e) => ~Exhausted(BeginAgentTurn(e))
<1> DEFINE f == BeginAgentTurn(e)
<1>1. e \in ExecutionRecord
  BY DEF IsGoalExecution
<1>2. /\ f.turnRequests = 0 /\ f.lifetimeRequests = e.lifetimeRequests
      /\ f.totalRemaining = e.totalRemaining
      /\ f.noProgressRemaining = e.noProgressRemaining
      /\ f.lifetimeCeiling = e.lifetimeCeiling /\ f.turnLimit = e.turnLimit
  BY <1>1 DEF BeginAgentTurn, ExecutionRecord
<1> HIDE DEF f
<1>3. ASSUME ~Exhausted(e) PROVE ~Exhausted(f)
  <2>1. ~(f.lifetimeRequests >= f.lifetimeCeiling) /\ ~(f.totalRemaining <= 0)
        /\ ~(f.turnRequests >= f.turnLimit) /\ ~(f.noProgressRemaining <= 0)
    BY <1>1, <1>2, <1>3, FusesHold, FieldTypes
  <2> QED
    BY <2>1 DEF Exhausted, AllowanceExhaustion
<1> QED
  BY <1>3 DEF f

LEMMA RenewalKeepsFuses ==
  ASSUME NEW e, IsGoalExecution(e), NEW k \in Nat
  PROVE  ~Exhausted(e) => ~Exhausted(RenewForEvidence(e, k))
<1> DEFINE grant == e.evidenceGrant * k
           total == Least(e.totalLimit, e.totalRemaining + grant)
           f == RenewForEvidence(e, k)
<1>1. e \in ExecutionRecord
  BY DEF IsGoalExecution
<1>2. /\ f.turnRequests = 0 /\ f.lifetimeRequests = e.lifetimeRequests
      /\ f.totalRemaining = total
      /\ f.noProgressRemaining = e.noProgressLimit
      /\ f.lifetimeCeiling = e.lifetimeCeiling /\ f.turnLimit = e.turnLimit
  BY <1>1 DEF RenewForEvidence, ExecutionRecord
<1>3. grant \in Nat
  BY <1>1, FieldTypes
<1> HIDE DEF grant, f
<1>4. ASSUME ~Exhausted(e) PROVE ~Exhausted(f)
  <2>1. e.totalRemaining > 0 /\ e.lifetimeRequests < e.lifetimeCeiling
    BY <1>4, FusesHold
  <2>2. total \in Nat /\ total > 0
    BY <1>1, <1>3, <2>1, FieldTypes DEF Least
  <2> HIDE DEF total
  <2>3. ~(f.lifetimeRequests >= f.lifetimeCeiling) /\ ~(f.totalRemaining <= 0)
        /\ ~(f.turnRequests >= f.turnLimit) /\ ~(f.noProgressRemaining <= 0)
    BY <1>1, <1>2, <2>1, <2>2, FieldTypes
  <2> QED
    BY <2>3 DEF Exhausted, AllowanceExhaustion
<1> QED
  BY <1>4 DEF f

(* What is charged, and what a turn takes back, leave the goal its place.  *)
LEMMA ChargesKnown ==
  ASSUME NEW n \in Nat, NEW g, Known(g, n), g # NoGoal
  PROVE  /\ Known(WithExecution(g, BeginAgentTurn(g.execution)), n)
         /\ Known(WithExecution(g, ChargeContext(g.execution)), n)
         /\ (IsActive(g) /\ ~Exhausted(g.execution))
              => Known(WithExecution(g, ChargeRequest(g.execution)), n)
         /\ \A e \in ExecutionRecord : /\ SameGoalOn(g, WithExecution(g, e))
                                     /\ IsActive(WithExecution(g, e)) = IsActive(g)
<1>1. g \in GoalRecord /\ Sound(g) /\ g.index \in Nat /\ IsGoalExecution(g.execution)
      /\ g.execution \in ExecutionRecord
  BY KnownIdentity, SoundTypes
<1>2. ASSUME NEW e, Sound(WithExecution(g, e)) PROVE Known(WithExecution(g, e), n)
  BY <1>1, <1>2, StaysKnown, WithExecutionFields
<1>3. Sound(WithExecution(g, BeginAgentTurn(g.execution)))
  BY <1>1, BeginAgentTurnSpendsNoRequest, SameSpendingSound
<1>4. Sound(WithExecution(g, ChargeContext(g.execution)))
  BY <1>1, ChargeContextSpendsNoRequest, SameSpendingSound
<1>5. ASSUME IsActive(g), ~Exhausted(g.execution)
      PROVE  Sound(WithExecution(g, ChargeRequest(g.execution)))
  <2> DEFINE e == ChargeRequest(g.execution)
  <2>1. /\ IsGoalExecution(e) /\ SameLimits(g.execution, e)
        /\ e.generation = g.execution.generation
        /\ e.lifetimeRequests = g.execution.lifetimeRequests + 1
        /\ e.totalRemaining = g.execution.totalRemaining - 1
    BY <1>1, <1>5, ChargeRequestMovesOne
  <2> HIDE DEF e
  <2>2. e.lifetimeRequests + e.totalRemaining
          <= g.execution.lifetimeRequests + g.execution.totalRemaining
    BY <1>1, <2>1, FieldTypes
  <2>3. g.status # "paused"
    BY <1>5 DEF IsActive
  <2>4. Sound(WithExecution(g, e))
    BY <1>1, <2>1, <2>2, <2>3, WithExecutionSound
  <2> QED
    BY <2>4 DEF e
<1>6. ASSUME NEW e \in ExecutionRecord
      PROVE  /\ SameGoalOn(g, WithExecution(g, e))
             /\ IsActive(WithExecution(g, e)) = IsActive(g)
  <2> DEFINE k == WithExecution(g, e)
  <2>1. k.goalId = g.goalId /\ k.index = g.index /\ k.status = g.status
    BY <1>1, WithExecutionFields
  <2>2. k # NoGoal
    <3>1. k \in GoalRecord
      BY <1>1, Zenon DEF WithExecution, GoalRecord
    <3> QED
      BY <3>1, NoGoalAssumption
  <2> HIDE DEF k
  <2>3. SameGoalOn(g, k) /\ IsActive(k) = IsActive(g)
    BY <1>1, <2>1, <2>2 DEF SameGoalOn, IsActive
  <2> QED
    BY <2>2, <2>3 DEF k
<1> QED
  BY <1>2, <1>3, <1>4, <1>5, <1>6

LEMMA CompletionKnown ==
  ASSUME NEW n \in Nat, NEW g, Known(g, n), IsActive(g),
         NEW handoff \in {EmptyNotes} \cup Notes
  PROVE  LET k == AcceptCompletion(g, handoff)
         IN  /\ Known(k, n) /\ SameGoalOn(g, k)
             /\ k.index = g.index + 1 \/ k.status = "complete"
<1> DEFINE k == AcceptCompletion(g, handoff)
<1>1. /\ g \in GoalRecord /\ Sound(g) /\ g # NoGoal /\ g.index \in Nat
      /\ g.status = "active"
  BY KnownIdentity, SoundTypes DEF IsActive
<1>2. Sound(k)
  BY <1>1, AcceptCompletionSound
<1>3. k # NoGoal
  BY <1>2, SoundTypes
<1>4. /\ k.goalId = g.goalId
      /\ (k.index = g.index /\ k.status = "complete") \/ k.index = g.index + 1
  <2>1. CASE IsLastStage(g)
    BY <1>1, <2>1 DEF AcceptCompletion, CompleteCurrentStage, GoalRecord
  <2>2. CASE ~IsLastStage(g)
    BY <1>1, <2>2 DEF AcceptCompletion, CompleteCurrentStage, GoalRecord
  <2> QED
    BY <2>1, <2>2
<1> HIDE DEF k
<1>5. Known(k, n) /\ SameGoalOn(g, k)
  BY <1>1, <1>2, <1>3, <1>4, StaysKnown DEF SameGoalOn
<1> QED
  BY <1>4, <1>5 DEF k

(* An update of the memory keeps the goal where it is and its fuses whole. *)
UpdatesGoal(g, k, n) ==
  /\ Known(k, n) /\ SameGoalOn(g, k)
  /\ IsActive(k) = IsActive(g)
  /\ ~Exhausted(g.execution) => ~Exhausted(k.execution)

LEMMA CreditKnown ==
  ASSUME NEW n \in Nat, NEW g, Known(g, n), IsActive(g),
         NEW refs \in SUBSET Evidence, NEW k \in CreditOutcomes(g, refs)
  PROVE  UpdatesGoal(g, k, n)
<1>1. /\ g \in GoalRecord /\ Sound(g) /\ g # NoGoal /\ g.index \in Nat
      /\ IsGoalExecution(g.execution)
  BY KnownIdentity, SoundTypes DEF IsActive
<1>2. PICK fresh \in SUBSET NovelKeys(g, refs) : k = CreditKeys(g, fresh)
  BY DEF CreditOutcomes
<1>3. Sound(k) /\ k # NoGoal
  BY <1>1, CreditSound, SoundTypes
<1>4. CASE fresh = {}
  BY <1>1, <1>2, <1>4 DEF CreditKeys, UpdatesGoal, SameGoalOn
<1>5. CASE fresh # {}
  <2> DEFINE e == RenewForEvidence(g.execution, Cardinality(fresh))
  <2>1. Cardinality(fresh) \in Nat
    <3>1. IsFiniteSet(fresh)
      BY EvidenceAssumption, FS_Subset DEF NovelKeys
    <3> QED
      BY <3>1, FS_CardinalityType
  <2>2. ~Exhausted(g.execution) => ~Exhausted(e)
    BY <1>1, <2>1, RenewalKeepsFuses
  <2> HIDE DEF e
  <2>3. k = [g EXCEPT !.creditedEvidence = @ \cup fresh,
                      !.creditGrants = @ + Cardinality(fresh), !.execution = e]
    BY <1>1, <1>2, <1>5 DEF CreditKeys, GoalRecord, e
  <2>4. /\ k.goalId = g.goalId /\ k.index = g.index /\ k.status = g.status
        /\ k.execution = e
    BY <1>1, <2>3 DEF GoalRecord
  <2>5. Known(k, n)
    BY <1>1, <1>3, <2>4, StaysKnown
  <2> QED
    BY <1>1, <1>3, <2>2, <2>4, <2>5 DEF UpdatesGoal, SameGoalOn, IsActive
<1> QED
  BY <1>4, <1>5

LEMMA NotesKnown ==
  ASSUME NEW n \in Nat, NEW g, Known(g, n), g # NoGoal,
         NEW notes \in Notes \cup {EmptyNotes}
  PROVE  UpdatesGoal(g, WriteMemory(g, notes), n)
<1> DEFINE k == WriteMemory(g, notes)
<1>1. g \in GoalRecord /\ Sound(g) /\ g.index \in Nat
  BY KnownIdentity, SoundTypes
<1>2. Sound(k) /\ k # NoGoal
  BY <1>1, WriteMemorySound, SoundTypes
<1>3. /\ k.goalId = g.goalId /\ k.index = g.index /\ k.status = g.status
      /\ k.execution = g.execution
  BY <1>1 DEF WriteMemory, GoalRecord
<1> HIDE DEF k
<1>4. Known(k, n)
  BY <1>1, <1>2, <1>3, StaysKnown
<1>5. UpdatesGoal(g, k, n)
  BY <1>1, <1>2, <1>3, <1>4 DEF UpdatesGoal, SameGoalOn, IsActive
<1> QED
  BY <1>5 DEF k

LEMMA UpdatesTwice ==
  ASSUME NEW n \in Nat, NEW g, Known(g, n), g # NoGoal, NEW j, NEW k,
         UpdatesGoal(g, j, n), UpdatesGoal(j, k, n)
  PROVE  UpdatesGoal(g, k, n)
<1>1. g.index \in Nat /\ j # NoGoal /\ k # NoGoal
  BY KnownIdentity, SoundTypes DEF UpdatesGoal, SameGoalOn
<1>2. j.index \in Nat /\ k.index \in Nat
  BY <1>1, KnownIdentity, SoundTypes DEF UpdatesGoal
<1> QED
  BY <1>1, <1>2 DEF UpdatesGoal, SameGoalOn

LEMMA MemoryKnown ==
  ASSUME NEW n \in Nat, NEW g, Known(g, n), g # NoGoal,
         NEW revision, NEW notes \in {EmptyNotes} \cup Notes,
         NEW refs \in SUBSET Evidence, NEW k \in MemoryOutcomes(g, revision, notes, refs)
  PROVE  UpdatesGoal(g, k, n)
<1>0. g \in GoalRecord /\ g.index \in Nat
  BY KnownIdentity, SoundTypes
<1>1. ASSUME NEW j \in CreditedGoals(g, refs) PROVE UpdatesGoal(g, j, n)
  <2>1. CASE IsActive(g)
    BY <1>1, <2>1, CreditKnown DEF CreditedGoals
  <2>2. CASE ~IsActive(g)
    BY <1>0, <1>1, <2>2 DEF CreditedGoals, UpdatesGoal, SameGoalOn
  <2> QED
    BY <2>1, <2>2
<1>2. CASE k \in CreditedGoals(g, refs)
  BY <1>1, <1>2
<1>3. CASE \E j \in CreditedGoals(g, refs) : k = WriteMemory(j, notes)
  <2>1. PICK j \in CreditedGoals(g, refs) : k = WriteMemory(j, notes)
    BY <1>3
  <2>2. UpdatesGoal(g, j, n)
    BY <1>1
  <2>3. UpdatesGoal(j, k, n)
    BY <2>1, <2>2, NotesKnown DEF UpdatesGoal, SameGoalOn
  <2> QED
    BY <2>2, <2>3, UpdatesTwice
<1> QED
  BY <1>2, <1>3 DEF MemoryOutcomes

(* An owner that fits a goal fits it after such a change.                  *)
LEMMA FitsOn ==
  ASSUME NEW g, g # NoGoal, NEW c, GoalFits(g, c), NEW k, SameGoalOn(g, k),
         IsActive(k) = IsActive(g),
         ~Exhausted(g.execution) => ~Exhausted(k.execution)
  PROVE  GoalFits(k, c)
BY DEF GoalFits, SameGoalOn

-----------------------------------------------------------------------------
(* The commands.                                                           *)

LEMMA Parts ==
  ASSUME RuntimeInv
  PROVE  /\ used["goals"] \in Nat /\ used["aborts"] \in Nat /\ used["navigations"] \in Nat
         /\ StoreInv(store, used["goals"]) /\ Known(store.goal, used["goals"])
         /\ Fits(store, cont, host, used["aborts"])
         /\ ContInv(cont) /\ HostInv(host)
         /\ GoalFits(store.goal, cont) /\ HostFits(cont, host, used["aborts"])
BY DEF RuntimeInv, StoreInv, Fits, Bounds

LEMMA UseFields ==
  ASSUME RuntimeInv, NEW bound \in Bounds, NEW limit \in Nat, Use(bound, limit)
  PROVE  /\ used' \in [Bounds -> Nat]
         /\ used'[bound] = used[bound] + 1 /\ used'[bound] <= limit
         /\ \A other \in Bounds \ {bound} : used'[other] = used[other]
BY DEF RuntimeInv, Use

LEMMA BoundsAreNumbers ==
  /\ MaxGoals \in Nat /\ MaxSteps \in Nat /\ MaxRevision \in Nat /\ MaxMessages \in Nat
  /\ MaxFailures \in Nat /\ MaxRestarts \in Nat /\ MaxNavigations \in Nat
  /\ MaxAborts \in Nat /\ TrailLength \in Nat
  /\ MaxAccepted \in Nat /\ MaxAccepted > 0
BY BoundsAssumption DEF Positive

LEMMA StoreInvGrows ==
  ASSUME NEW n \in Nat, NEW s, StoreInv(s, n)
  PROVE  StoreInv(s, n + 1)
BY KnownTypes DEF StoreInv

(* What most handlers leave alone.                                         *)
LEMMA FrameInv ==
  ASSUME RuntimeInv, UNCHANGED <<yielding, accepted, used>>,
         StoreInv(store', used["goals"]), Fits(store', cont', host', used["aborts"])
  PROVE  RuntimeInv'
BY DEF RuntimeInv

LEMMA WithdrawStep ==
  ASSUME RuntimeInv, UNCHANGED <<yielding, accepted, used>>,
         StoreInv(store', used["goals"]), WithdrawGoalWork(cont, host)
  PROVE  RuntimeInv' /\ StepIsOK
<1>1. /\ Fits(store', cont', host', used["aborts"]) /\ Continues(cont, host, cont', host')
      /\ Admitted(host, host', store'.goal)
  BY Parts, WithdrawInv
<1> QED
  BY <1>1, Parts, FrameInv, ContinuingIsOK

(* The goal a step leaves: the one before, or k, settled.                  *)
Moved(k) == store'.goal = store.goal \/ store'.goal \in Settled(k)

LEMMA NewGoalKnown ==
  ASSUME NEW n \in Nat, NEW steps \in 1..MaxSteps
  PROVE  /\ Known(NewGoal(n + 1, steps, Limits), n + 1)
         /\ NewGoal(n + 1, steps, Limits).goalId = n + 1
<1>1. steps \in Nat /\ steps > 0 /\ n + 1 \in 1..(n + 1)
  BY BoundsAreNumbers
<1>2. Sound(NewGoal(n + 1, steps, Limits))
  BY <1>1, LimitsAssumption, NewGoalSound
<1>3. NewGoal(n + 1, steps, Limits).goalId = n + 1
  BY DEF NewGoal
<1> QED
  BY <1>1, <1>2, <1>3 DEF Known

LEMMA StartGoalStep ==
  ASSUME RuntimeInv, StartGoal
  PROVE  /\ RuntimeInv' /\ StepIsOK
         /\ used["goals"] < MaxGoals /\ used'["goals"] = used["goals"] + 1
         /\ \E steps \in 1..MaxSteps : Moved(NewGoal(used["goals"] + 1, steps, Limits))
<1> DEFINE n == used["goals"]
           g(steps) == NewGoal(n + 1, steps, Limits)
<1>0. PICK steps \in 1..MaxSteps : \E s \in PersistOutcomes(store, g(steps)) :
        RequestContinuation(s, ClearContinuation(cont), Withdrawn(cont, host), FALSE)
  BY DEF StartGoal
<1>1. PICK s \in PersistOutcomes(store, g(steps)) :
        RequestContinuation(s, ClearContinuation(cont), Withdrawn(cont, host), FALSE)
  BY <1>0
<1>2. n \in Nat /\ Use("goals", MaxGoals) /\ UNCHANGED <<yielding, accepted>>
  BY Parts DEF StartGoal
<1>3. /\ used' \in [Bounds -> Nat] /\ used'["goals"] = n + 1
      /\ used'["aborts"] = used["aborts"] /\ used'["navigations"] = used["navigations"]
      /\ n < MaxGoals
  BY <1>2, UseFields, BoundsAreNumbers DEF Bounds, Use
<1>4. Known(g(steps), n + 1) /\ StoreInv(store, n + 1)
  BY <1>2, Parts, NewGoalKnown, StoreInvGrows
<1> HIDE DEF g
<1>5. /\ StoreInv(s, n + 1)
      /\ s.goal = g(steps) \/ (s.goal = store.goal /\ s.persistenceBroken)
  BY <1>2, <1>4, PersistInv
<1>6. /\ StoreInv(store', n + 1) /\ Fits(store', cont', host', used["aborts"])
      /\ Continues(cont, host, cont', host') /\ Admitted(host, host', store'.goal)
      /\ store'.goal \in Settled(s.goal) /\ (s.persistenceBroken => store' = s)
  <2> DEFINE m == n + 1
  <2>1. m \in Nat /\ StoreInv(s, m)
    BY <1>2, <1>5
  <2> HIDE DEF m
  <2>2. /\ StoreInv(store', m) /\ Fits(store', cont', host', used["aborts"])
        /\ Continues(cont, host, cont', host') /\ Admitted(host, host', store'.goal)
        /\ store'.goal \in Settled(s.goal) /\ (s.persistenceBroken => store' = s)
    BY <1>1, <2>1, Parts, WithdrawnRequestInv
  <2> QED
    BY <2>2 DEF m
<1>7. RuntimeInv'
  BY <1>2, <1>3, <1>6 DEF RuntimeInv
<1>8. StepIsOK
  BY <1>6, Parts, ContinuingIsOK
<1>9. Moved(g(steps))
  BY <1>5, <1>6 DEF Moved
<1> QED
  BY <1>3, <1>7, <1>8, <1>9 DEF g

LEMMA PauseCommandStep ==
  ASSUME RuntimeInv, PauseCommand
  PROVE  /\ RuntimeInv' /\ StepIsOK /\ UNCHANGED used
         /\ CanPause(store.goal) /\ Moved(PauseGoal(store.goal))
<1> DEFINE n == used["goals"]
           g == PauseGoal(store.goal)
<1>1. /\ CanPause(store.goal) /\ store.goal # NoGoal
      /\ store' \in PersistOutcomes(store, g) /\ WithdrawGoalWork(cont, host)
      /\ UNCHANGED <<yielding, accepted, used>>
  BY DEF PauseCommand, CanPause, IsActive
<1>2. Known(g, n)
  BY <1>1, Parts, StatusMoves
<1> HIDE DEF g
<1>3. StoreInv(store', n) /\ store'.goal \in {g, store.goal}
  BY <1>1, <1>2, Parts, PersistInv
<1> QED
  BY <1>1, <1>3, WithdrawStep, SettledMembers DEF Moved, g

LEMMA ResumeCommandStep ==
  ASSUME RuntimeInv, ResumeCommand
  PROVE  /\ RuntimeInv' /\ StepIsOK /\ UNCHANGED used
         /\ CanResume(store.goal) /\ Moved(ApplyResumeGrant(ResumeGoal(store.goal)))
<1> DEFINE n == used["goals"]
           g == ApplyResumeGrant(ResumeGoal(store.goal))
<1>1. PICK s \in PersistOutcomes(store, g) :
        RequestContinuation(s, ClearContinuation(cont), Withdrawn(cont, host), FALSE)
  BY DEF ResumeCommand
<1>2. /\ CanResume(store.goal) /\ store.goal # NoGoal /\ UNCHANGED <<yielding, accepted, used>>
  BY DEF ResumeCommand, CanResume
<1>3. Known(g, n)
  BY <1>2, Parts, StatusMoves
<1> HIDE DEF g
<1>4. StoreInv(s, n) /\ (s.goal = g \/ (s.goal = store.goal /\ s.persistenceBroken))
  BY <1>3, Parts, PersistInv
<1>5. /\ StoreInv(store', n) /\ Fits(store', cont', host', used["aborts"])
      /\ Continues(cont, host, cont', host') /\ Admitted(host, host', store'.goal)
      /\ store'.goal \in Settled(s.goal) /\ (s.persistenceBroken => store' = s)
  BY <1>1, <1>4, Parts, WithdrawnRequestInv
<1>6. Moved(g)
  BY <1>4, <1>5 DEF Moved
<1> QED
  BY <1>2, <1>5, <1>6, Parts, FrameInv, ContinuingIsOK DEF g

LEMMA ClearCommandStep ==
  ASSUME RuntimeInv, ClearCommand
  PROVE  /\ RuntimeInv' /\ StepIsOK /\ UNCHANGED used
         /\ store.goal # NoGoal /\ store'.goal \in {NoGoal, store.goal}
<1>1. /\ store.goal # NoGoal /\ store' \in ClearOutcomes(store) /\ WithdrawGoalWork(cont, host)
      /\ UNCHANGED <<yielding, accepted, used>>
  BY DEF ClearCommand
<1>2. StoreInv(store', used["goals"]) /\ store'.goal \in {NoGoal, store.goal}
  BY <1>1, Parts, ClearInv
<1> QED
  BY <1>1, <1>2, WithdrawStep

-----------------------------------------------------------------------------
(* The tools.                                                              *)

LEMMA MinIsReached ==
  ASSUME NEW S, S \subseteq Nat, S # {}
  PROVE  Min(S) \in S
<1>1. PICK k \in S : \A other \in S : ~ (<<other, k>> \in OpToRel(<, Nat))
  BY NatLessThanWellFounded, WFMin, Zenon
<1>2. ASSUME NEW other \in S PROVE k <= other
  <2>1. other \in Nat /\ k \in Nat
    OBVIOUS
  <2>2. other < k => <<other, k>> \in OpToRel(<, Nat)
    BY <2>1 DEF OpToRel
  <2>3. ~(other < k)
    BY <1>1, <2>2, Zenon
  <2> QED
    BY <2>1, <2>3
<1> QED
  BY <1>2 DEF Min

LEMMA RemoveAtType ==
  ASSUME NEW S, NEW s \in Seq(S), NEW i \in 1..Len(s)
  PROVE  RemoveAt(s, i) \in Seq(S)
<1>1. Len(s) \in Nat /\ i \in Nat /\ i >= 1 /\ i <= Len(s)
  BY LenProperties
<1>2. SubSeq(s, 1, i - 1) \in Seq(S)
  <2>1. \A j \in 1..(i - 1) : s[j] \in S
    BY <1>1, ElementOfSeq
  <2> QED
    BY <1>1, <2>1, SubSeqProperties
<1>3. SubSeq(s, i + 1, Len(s)) \in Seq(S)
  <2>1. \A j \in (i + 1)..Len(s) : s[j] \in S
    BY <1>1, ElementOfSeq
  <2> QED
    BY <1>1, <2>1, SubSeqProperties
<1> QED
  BY <1>2, <1>3, ConcatProperties, Zenon DEF RemoveAt

(* What is remembered is what was, and the new record.                     *)
LEMMA RememberedType ==
  ASSUME NEW S, accepted \in Seq(S), NEW call, NEW identity,
         [call |-> call, identity |-> identity] \in S
  PROVE  RememberCompletion(call, identity) \in Seq(S)
<1> DEFINE I == {i \in 1..Len(accepted) : accepted[i].call = call}
           record == [call |-> call, identity |-> identity]
           others == RemoveFirstMatch(accepted, LAMBDA r : r.call = call)
           longer == Append(others, record)
<1>1. others \in Seq(S)
  <2>1. CASE \E i \in 1..Len(accepted) : accepted[i].call = call
    <3>1. I # {} /\ I \subseteq 1..Len(accepted)
      BY <2>1
    <3>2. others = RemoveAt(accepted, Min(I))
      BY <2>1, <3>1, Zenon DEF RemoveFirstMatch, SelectInSeq
    <3> HIDE DEF I, others
    <3>3. Min(I) \in 1..Len(accepted)
      <4>1. I \subseteq Nat
        BY <3>1
      <4> QED
        BY <3>1, <4>1, MinIsReached
    <3> QED
      BY <3>2, <3>3, RemoveAtType
  <2>2. CASE ~ \E i \in 1..Len(accepted) : accepted[i].call = call
    BY <2>2, Zenon DEF RemoveFirstMatch
  <2> QED
    BY <2>1, <2>2
<1>2. RememberCompletion(call, identity) \in {longer, Tail(longer)}
  BY Zenon DEF RememberCompletion
<1> HIDE DEF others, record
<1>3. longer \in Seq(S) /\ longer # <<>>
  BY <1>1, AppendProperties DEF record
<1>4. Tail(longer) \in Seq(S)
  BY <1>3, HeadTailProperties
<1> QED
  BY <1>2, <1>3, <1>4

(* Clearing the schedule of an active goal, with the abort of a message    *)
(* still queued, leaves a loop in flight as it is.                         *)
LEMMA ClearScheduleInv ==
  ASSUME RuntimeInv, NEW s, IsActive(s.goal), NEW h,
         h = IF QueuedStale(cont) THEN Abort(host) ELSE host
  PROVE  /\ Fits(s, ClearSchedule(cont), h, used["aborts"])
         /\ Continues(cont, host, ClearSchedule(cont), h)
         /\ Len(h.goalQueue) <= Len(host.goalQueue)
<1> DEFINE c == ClearSchedule(cont)
<1>1. /\ c.timers = {} /\ c.scheduledFor = 0 /\ c.phase = "idle"
      /\ c.loopTrigger = cont.loopTrigger /\ c.goalLoopInFlight = cont.goalLoopInFlight
      /\ c \in ContinuationState
  BY Parts, ClearScheduleFields
<1> HIDE DEF c
<1>2. /\ HostInv(h) /\ h.loop = host.loop /\ h.work = host.work /\ h.started = host.started
      /\ h.aborted = (host.aborted \/ (QueuedStale(cont) /\ host.loop = "running"))
      /\ Len(h.goalQueue) <= Len(host.goalQueue)
  <2>1. CASE QueuedStale(cont)
    BY <2>1, Parts, AbortFields, NothingWaits, HostTypes
  <2>2. CASE ~QueuedStale(cont)
    BY <2>2, Parts, HostTypes
  <2> QED
    BY <2>1, <2>2
<1>3. ContInv(c) /\ GoalFits(s.goal, c)
  BY <1>1 DEF ContInv, GoalFits
<1>4. HostFits(c, h, used["aborts"])
  BY <1>1, <1>2, Parts DEF HostFits
<1>5. Continues(cont, host, c, h)
  BY <1>1, <1>2 DEF Continues, Outstanding, QueuedStale
<1> QED
  BY <1>2, <1>3, <1>4, <1>5 DEF Fits, c

LEMMA CompleteStageStep ==
  ASSUME RuntimeInv, NEW call \in ToolCalls, NEW identity,
         NEW handoff \in {EmptyNotes} \cup Notes,
         CompleteStage(call, identity, handoff)
  PROVE  LET g == AcceptCompletion(store.goal, handoff)
         IN  /\ RuntimeInv' /\ StepIsOK /\ UNCHANGED used
             /\ IsActive(store.goal) /\ Moved(g)
             /\ \/ accepted' = accepted
                \/ /\ identity = IdentityOf(store.goal)
                   /\ accepted' = RememberCompletion(call, identity)
                   /\ store'.goal \in Settled(g)
<1> DEFINE n == used["goals"]
           g == AcceptCompletion(store.goal, handoff)
           c == ClearSchedule(cont)
           h == IF QueuedStale(cont) THEN Abort(host) ELSE host
<1>1. PICK s \in PersistOutcomes(store, g) :
        \/ /\ s.persistenceBroken
           /\ store' = s /\ cont' = c /\ host' = h
           /\ UNCHANGED accepted
        \/ /\ ~s.persistenceBroken
           /\ accepted' = RememberCompletion(call, identity)
           /\ \/ /\ IsActive(s.goal)
                 /\ RequestContinuation(s, c, h, FALSE)
              \/ /\ ~IsActive(s.goal)
                 /\ store' = s /\ cont' = ClearContinuation(c) /\ host' = h
  BY DEF CompleteStage
<1>2. /\ IsActive(store.goal) /\ identity = IdentityOf(store.goal) /\ store.goal # NoGoal
      /\ UNCHANGED <<yielding, used>>
  BY DEF CompleteStage, Bound, IsActive
<1>3. Known(g, n)
  BY <1>2, Parts, CompletionKnown
<1> HIDE DEF g
<1>4. /\ StoreInv(s, n) /\ (s.goal = g \/ (s.goal = store.goal /\ s.persistenceBroken))
      /\ (s.persistenceBroken => s.goal = store.goal)
  BY <1>3, Parts, PersistInv
<1>5. accepted' \in Seq(Completion)
  <2>1. [call |-> call, identity |-> identity] \in Completion
    BY <1>2, Parts, KnownIdentity DEF Completion
  <2>2. RememberCompletion(call, identity) \in Seq(Completion)
    BY <2>1, RememberedType DEF RuntimeInv
  <2> QED
    BY <1>1, <2>2 DEF RuntimeInv
<1>6. ASSUME StoreInv(store', n), Fits(store', cont', host', used["aborts"])
      PROVE  RuntimeInv'
  BY <1>2, <1>5, <1>6 DEF RuntimeInv
<1>7. ASSUME IsActive(s.goal)
      PROVE  /\ Fits(s, c, h, used["aborts"]) /\ Continues(cont, host, c, h)
             /\ Len(h.goalQueue) <= Len(host.goalQueue)
  BY <1>7, ClearScheduleInv
<1> HIDE DEF c, h
<1>8. CASE /\ s.persistenceBroken
           /\ store' = s /\ cont' = c /\ host' = h
           /\ UNCHANGED accepted
  <2>1. s.goal = store.goal /\ IsActive(s.goal)
    BY <1>2, <1>4, <1>8
  <2>2. /\ Fits(store', cont', host', used["aborts"]) /\ Continues(cont, host, cont', host')
        /\ Admitted(host, host', store'.goal)
    BY <1>7, <1>8, <2>1, Parts, HostTypes DEF Admitted, Fits
  <2>3. StepIsOK
    BY <2>2, Parts, ContinuingIsOK
  <2> QED
    BY <1>2, <1>4, <1>6, <1>8, <2>1, <2>2, <2>3 DEF Moved, g
<1>9. CASE /\ ~s.persistenceBroken
           /\ accepted' = RememberCompletion(call, identity)
           /\ IsActive(s.goal)
           /\ RequestContinuation(s, c, h, FALSE)
  <2>1. s.goal = g
    BY <1>4, <1>9
  <2>2. /\ Fits(s, c, h, used["aborts"]) /\ Continues(cont, host, c, h)
        /\ Len(h.goalQueue) <= Len(host.goalQueue)
    BY <1>7, <1>9
  <2>3. /\ StoreInv(store', n) /\ Fits(store', cont', host', used["aborts"])
        /\ Continues(c, h, cont', host') /\ Admitted(h, host', store'.goal)
        /\ store'.goal \in Settled(s.goal)
    BY <1>4, <1>9, <2>2, Parts, RequestInv
  <2>4. Continues(cont, host, cont', host') /\ Admitted(host, host', store'.goal)
    BY <2>2, <2>3, Parts, ContinuesOn, HostTypes DEF Admitted, Fits
  <2>5. StepIsOK
    BY <2>4, Parts, ContinuingIsOK
  <2> QED
    BY <1>2, <1>6, <1>9, <2>1, <2>3, <2>5 DEF Moved, g
<1>10. CASE /\ ~s.persistenceBroken
            /\ accepted' = RememberCompletion(call, identity)
            /\ ~IsActive(s.goal)
            /\ store' = s /\ cont' = ClearContinuation(c) /\ host' = h
  <2>1. s.goal = g
    BY <1>4, <1>10
  <2>2. /\ Fits(store, c, h, used["aborts"]) /\ Continues(cont, host, c, h)
        /\ Len(h.goalQueue) <= Len(host.goalQueue)
    BY <1>2, ClearScheduleInv DEF c, h
  <2>3. cont' = InitialContinuation /\ HostInv(host')
    BY <1>10, <2>2, ClearedIsInitial DEF Fits
  <2>4. Fits(store', cont', host', used["aborts"])
    BY <2>3, Parts, InitialFits
  <2>5. StepIsOK
    <3>1. cont'.phase = "idle"
      BY <2>3 DEF InitialContinuation
    <3>2. Admitted(host, host', store'.goal)
      BY <1>10, <2>2, <2>3, Parts, HostTypes DEF Admitted
    <3>3. ~GoalLoop'
      BY <1>10 DEF GoalLoop
    <3>4. Outstanding(cont) => host.work # "user"
      BY Parts DEF HostFits, Outstanding
    <3> QED
      BY <1>10, <2>2, <3>1, <3>2, <3>3, <3>4 DEF StepIsOK, Continues, WaitsForNothing
  <2> QED
    BY <1>2, <1>4, <1>6, <1>10, <2>1, <2>4, <2>5, SettledMembers DEF Moved, g
<1> QED
  BY <1>1, <1>8, <1>9, <1>10

LEMMA BlockStageStep ==
  ASSUME RuntimeInv, NEW identity, BlockStage(identity)
  PROVE  /\ RuntimeInv' /\ StepIsOK /\ UNCHANGED <<accepted, used>>
         /\ CanBlock(store.goal) /\ Moved(BlockGoal(store.goal))
<1> DEFINE n == used["goals"]
           g == BlockGoal(store.goal)
<1>1. /\ CanBlock(store.goal) /\ store.goal # NoGoal
      /\ store' \in PersistOutcomes(store, g) /\ WithdrawGoalWork(cont, host)
      /\ UNCHANGED <<yielding, accepted, used>>
  BY DEF BlockStage, CanBlock, IsActive
<1>2. Known(g, n)
  BY <1>1, Parts, StatusMoves
<1> HIDE DEF g
<1>3. StoreInv(store', n) /\ store'.goal \in {g, store.goal}
  BY <1>1, <1>2, Parts, PersistInv
<1> QED
  BY <1>1, <1>3, WithdrawStep, SettledMembers DEF Moved, g

(* A step that leaves the owner and the host alone.                        *)
LEMMA QuietStep ==
  ASSUME RuntimeInv, UNCHANGED <<cont, host, yielding, accepted, used>>,
         StoreInv(store', used["goals"]), GoalFits(store'.goal, cont)
  PROVE  RuntimeInv' /\ StepIsOK
<1>1. Fits(store', cont', host', used["aborts"])
  BY Parts DEF Fits
<1>2. Continues(cont, host, cont', host') /\ Admitted(host, host', store'.goal)
  BY Parts, HostTypes DEF Continues, Admitted
<1> QED
  BY <1>1, <1>2, Parts, FrameInv, ContinuingIsOK

LEMMA UpdateMemoryStep ==
  ASSUME RuntimeInv, NEW identity, NEW revision, NEW notes \in {EmptyNotes} \cup Notes,
         NEW refs \in SUBSET Evidence, UpdateMemory(identity, revision, notes, refs)
  PROVE  /\ RuntimeInv' /\ StepIsOK /\ UNCHANGED <<accepted, used>>
         /\ store.goal # NoGoal /\ store.goal.status # "complete"
         /\ \/ store'.goal = store.goal
            \/ /\ store'.goal \in MemoryOutcomes(store.goal, revision, notes, refs)
               /\ UpdatesGoal(store.goal, store'.goal, used["goals"])
<1> DEFINE n == used["goals"]
<1>1. PICK next \in MemoryOutcomes(store.goal, revision, notes, refs) :
        store' \in PersistOutcomes(store, next)
  BY DEF UpdateMemory
<1>2. /\ store.goal # NoGoal /\ store.goal.status # "complete"
      /\ UNCHANGED <<cont, host, yielding, accepted, used>>
  BY DEF UpdateMemory
<1>3. UpdatesGoal(store.goal, next, n)
  BY <1>2, Parts, MemoryKnown
<1>4. StoreInv(store', n) /\ store'.goal \in {next, store.goal}
  BY <1>1, <1>3, Parts, PersistInv DEF UpdatesGoal
<1>5. GoalFits(store'.goal, cont)
  BY <1>2, <1>3, <1>4, Parts, FitsOn DEF UpdatesGoal
<1> QED
  BY <1>2, <1>3, <1>4, <1>5, QuietStep

-----------------------------------------------------------------------------
(* The events of the host.                                                 *)

(* A queued message leaves an empty queue behind.                          *)
LEMMA DeliverGoalFields ==
  ASSUME NEW h, HostInv(h), h.goalQueue # <<>>
  PROVE  LET k == Deliver(h, "goal")
         IN  /\ HostInv(k) /\ k.loop = "running" /\ k.work = "goal" /\ k.goalQueue = <<>>
             /\ k.started = h.started /\ k.aborted = h.aborted
<1> DEFINE k == [h EXCEPT !.loop = "running", !.work = "goal", !.goalQueue = <<>>]
<1>1. h \in HostState /\ h.goalQueue \in Seq(Identity) /\ Len(h.goalQueue) = 1
  <2>1. h \in HostState /\ h.goalQueue \in Seq(Identity) /\ Len(h.goalQueue) <= 1
    BY HostTypes DEF HostInv
  <2>2. Len(h.goalQueue) \in Nat /\ Len(h.goalQueue) # 0
    BY <2>1, LenProperties, EmptySeq
  <2> DEFINE m == Len(h.goalQueue)
  <2>3. m \in Nat /\ m # 0 /\ m <= 1
    BY <2>1, <2>2
  <2> HIDE DEF m
  <2>4. m = 1
    BY <2>3
  <2> QED
    BY <2>1, <2>4, Zenon DEF m
<1>2. Tail(h.goalQueue) = <<>>
  <2>1. Tail(h.goalQueue) \in Seq(Identity) /\ Len(Tail(h.goalQueue)) = 0
    BY <1>1, HeadTailProperties
  <2> QED
    BY <2>1, EmptySeq
<1>3. Deliver(h, "goal") = k
  BY <1>1, <1>2 DEF Deliver, HostState
<1>4. k \in HostState
  <2>1. "running" \in {"idle", "running", "ending", "down"}
        /\ "goal" \in Senders \cup {"none"}
    BY DEF Senders
  <2> QED
    BY <1>1, <2>1, NothingWaits, Zenon DEF HostState
<1>5. /\ k.loop = "running" /\ k.work = "goal" /\ k.goalQueue = <<>>
      /\ k.started = h.started /\ k.aborted = h.aborted
  BY <1>1 DEF HostState
<1> HIDE DEF k
<1>6. HostInv(k)
  BY <1>4, <1>5, NothingWaits DEF HostInv
<1> QED
  BY <1>3, <1>5, <1>6

LEMMA DeliverOtherFields ==
  ASSUME NEW h, HostInv(h), NEW sender \in {"user", "peer"}, h.waiting[sender] > 0
  PROVE  LET k == Deliver(h, sender)
         IN  /\ HostInv(k) /\ k.loop = "running" /\ k.work = sender
             /\ k.goalQueue = h.goalQueue
             /\ k.started = h.started /\ k.aborted = h.aborted
<1> DEFINE left == [h.waiting EXCEPT ![sender] = h.waiting[sender] - 1]
           k == [h EXCEPT !.loop = "running", !.work = sender, !.waiting = left]
<1>1. h \in HostState /\ h.waiting \in [{"user", "peer"} -> Nat]
  BY HostTypes DEF HostInv
<1>2. h.waiting[sender] - 1 \in Nat
  <2>1. h.waiting[sender] \in Nat
    BY <1>1
  <2> QED
    BY <2>1
<1>3. left \in [{"user", "peer"} -> Nat]
  BY <1>1, <1>2
<1>4. Deliver(h, sender) = k
  <2>1. sender # "goal"
    OBVIOUS
  <2> QED
    BY <1>1, <2>1 DEF Deliver, HostState
<1> HIDE DEF left
<1>5. k \in HostState
  <2>1. "running" \in {"idle", "running", "ending", "down"}
        /\ sender \in Senders \cup {"none"}
    BY DEF Senders
  <2> QED
    BY <1>1, <1>3, <2>1, Zenon DEF HostState
<1>6. /\ k.loop = "running" /\ k.work = sender /\ k.goalQueue = h.goalQueue
      /\ k.started = h.started /\ k.aborted = h.aborted
  BY <1>1 DEF HostState
<1> HIDE DEF k
<1>7. HostInv(k)
  BY <1>5, <1>6 DEF HostInv
<1> QED
  BY <1>4, <1>6, <1>7

LEMMA GoalDeliveredFields ==
  ASSUME NEW c, ContInv(c), NEW g, c.phase = "queued"
  PROVE  LET k == GoalMessageDelivered(c, g, yielding)
         IN  /\ ContInv(k) /\ k.phase \in {"delivered", "idle"}
             /\ k.scheduledFor = c.scheduledFor
             /\ k.loopTrigger \in {"goal", "none"}
<1> DEFINE owned == OwnedDelivery(c, g, yielding)
           current == owned /\ c.sentFor = IdentityOf(g)
           trigger == IF owned THEN "goal" ELSE "none"
           phase == IF current THEN "delivered" ELSE "idle"
           sent == IF current THEN c.sentFor ELSE NoIdentity
           k == [c EXCEPT !.loopTrigger = trigger, !.phase = phase, !.sentFor = sent]
<1>1. c \in ContinuationState /\ c.sentFor \in Identity
  BY ContTypes DEF ContInv
<1>2. GoalMessageDelivered(c, g, yielding) = k
  BY <1>1 DEF GoalMessageDelivered, ContinuationState
<1>3. /\ trigger \in {"goal", "none"} /\ phase \in {"delivered", "idle"}
      /\ trigger \in Triggers /\ phase \in Phases /\ sent \in Identity
  BY <1>1 DEF Triggers, Phases, Identity, NoIdentity
<1> HIDE DEF trigger, phase, sent
<1>4. k \in ContinuationState
  BY <1>1, <1>3, Zenon DEF ContinuationState
<1>5. /\ k.phase = phase /\ k.loopTrigger = trigger /\ k.scheduledFor = c.scheduledFor
      /\ k.timers = c.timers
  BY <1>1 DEF ContinuationState
<1> HIDE DEF k
<1>6. ContInv(k)
  BY <1>3, <1>4, <1>5 DEF ContInv
<1> QED
  BY <1>2, <1>3, <1>5, <1>6

LEMMA UserDeliveredFields ==
  ASSUME NEW c, ContInv(c)
  PROVE  LET k == UserMessageDelivered(c)
         IN  /\ ContInv(k) /\ k.phase = c.phase /\ k.sentFor = c.sentFor
             /\ k.scheduledFor = c.scheduledFor /\ k.loopTrigger = "user"
             /\ k.goalLoopInFlight = c.goalLoopInFlight
             /\ c.phase = "queued" => k.userMessageSinceSend
<1> DEFINE since == c.userMessageSinceSend \/ c.phase # "idle"
           k == [c EXCEPT !.userMessageSinceSend = since, !.loopTrigger = "user"]
<1>1. c \in ContinuationState /\ c.userMessageSinceSend \in BOOLEAN
  BY ContTypes DEF ContInv
<1>2. UserMessageDelivered(c) = k
  BY <1>1 DEF UserMessageDelivered, ContinuationState
<1>3. since \in BOOLEAN /\ "user" \in Triggers /\ (c.phase = "queued" => since)
  BY <1>1 DEF Triggers
<1> HIDE DEF since
<1>4. k \in ContinuationState
  BY <1>1, <1>3, Zenon DEF ContinuationState
<1>5. /\ k.phase = c.phase /\ k.sentFor = c.sentFor /\ k.loopTrigger = "user"
      /\ k.scheduledFor = c.scheduledFor /\ k.timers = c.timers
      /\ k.goalLoopInFlight = c.goalLoopInFlight /\ k.userMessageSinceSend = since
  BY <1>1 DEF ContinuationState
<1> HIDE DEF k
<1>6. ContInv(k)
  BY <1>4, <1>5 DEF ContInv
<1> QED
  BY <1>2, <1>3, <1>5, <1>6

LEMMA DeliverMessageStep ==
  ASSUME RuntimeInv, NEW sender \in Senders, DeliverMessage(sender)
  PROVE  RuntimeInv' /\ StepIsOK /\ UNCHANGED <<store, accepted, used>>
<1> DEFINE a == used["aborts"]
<1>0. /\ CanDeliver(host, sender) /\ host' = Deliver(host, sender) /\ Waiting(host, sender)
      /\ UNCHANGED <<store, yielding, accepted, used>>
  BY DEF DeliverMessage, CanDeliver
<1>1. ASSUME Fits(store, cont', host', a) PROVE RuntimeInv'
  BY <1>0, <1>1, Parts, FrameInv
<1>2. CASE sender = "goal"
  <2>1. host.goalQueue # <<>> /\ cont' = GoalMessageDelivered(cont, store.goal, yielding)
    BY <1>0, <1>2 DEF Waiting, DeliverMessage
  <2>2. /\ HostInv(host') /\ host'.loop = "running" /\ host'.work = "goal"
        /\ host'.goalQueue = <<>>
        /\ host'.started = host.started /\ host'.aborted = host.aborted
    BY <1>0, <1>2, <2>1, Parts, DeliverGoalFields
  <2>3. Admitted(host, host', store'.goal)
    BY <2>2, Parts, HostTypes, NothingWaits DEF Admitted
  <2>4. CASE cont.phase # "queued"
    <3>1. cont' = cont
      BY <2>1, <2>4 DEF GoalMessageDelivered
    <3>2. HostFits(cont', host', a)
      BY <2>2, <2>4, <3>1 DEF HostFits
    <3>3. Fits(store, cont', host', a)
      BY <2>2, <3>1, <3>2, Parts DEF Fits
    <3>4. StepIsOK
      BY <2>2, <2>3, <2>4, <3>1 DEF StepIsOK, WaitsForNothing
    <3> QED
      BY <1>0, <1>1, <3>3, <3>4
  <2>5. CASE cont.phase = "queued"
    <3>1. /\ ContInv(cont') /\ cont'.phase \in {"delivered", "idle"}
          /\ cont'.scheduledFor = cont.scheduledFor
      BY <2>1, <2>5, Parts, GoalDeliveredFields
    <3>2. /\ IsActive(store.goal) /\ host.goalQueue = <<cont.sentFor>>
          /\ host.work # "goal"
      BY <2>1, <2>5, Parts DEF GoalFits, HostFits
    <3>3. GoalFits(store.goal, cont') /\ HostFits(cont', host', a)
      BY <2>2, <3>1, <3>2, Parts DEF GoalFits, HostFits
    <3>4. Head(host.goalQueue) = cont.sentFor /\ ~GoalLoop
      BY <3>2 DEF GoalLoop
    <3>5. StepIsOK
      BY <2>2, <2>3, <3>1, <3>4 DEF StepIsOK, WaitsForNothing
    <3> QED
      BY <1>0, <1>1, <2>2, <3>1, <3>3, <3>5 DEF Fits
  <2> QED
    BY <2>4, <2>5
<1>3. CASE sender \in {"user", "peer"}
  <2>1. host.waiting[sender] > 0
    BY <1>0, <1>3 DEF Waiting
  <2>2. /\ HostInv(host') /\ host'.loop = "running" /\ host'.work = sender
        /\ host'.goalQueue = host.goalQueue
        /\ host'.started = host.started /\ host'.aborted = host.aborted
    BY <1>0, <1>3, <2>1, Parts, DeliverOtherFields
  <2>3. Admitted(host, host', store'.goal) /\ ~GoalLoop'
    BY <1>3, <2>2, Parts, HostTypes DEF Admitted, GoalLoop
  <2>4. CASE sender = "user"
    <3>1. cont' = UserMessageDelivered(cont)
      BY <2>4 DEF DeliverMessage
    <3>2. /\ ContInv(cont') /\ cont'.phase = cont.phase /\ cont'.sentFor = cont.sentFor
          /\ cont'.scheduledFor = cont.scheduledFor /\ cont'.loopTrigger = "user"
          /\ cont'.goalLoopInFlight = cont.goalLoopInFlight
          /\ (cont.phase = "queued" => cont'.userMessageSinceSend)
      BY <3>1, Parts, UserDeliveredFields
    <3>3. GoalFits(store.goal, cont') /\ HostFits(cont', host', a)
      BY <2>2, <2>4, <3>2, Parts DEF GoalFits, HostFits
    <3>4. StepIsOK
      BY <2>2, <2>3, <3>2 DEF StepIsOK, WaitsForNothing
    <3> QED
      BY <1>0, <1>1, <2>2, <3>2, <3>3, <3>4 DEF Fits
  <2>5. CASE sender = "peer"
    <3>1. cont' = cont
      BY <2>5 DEF DeliverMessage
    <3>2. HostFits(cont', host', a)
      BY <2>2, <2>5, <3>1, Parts DEF HostFits
    <3>3. Fits(store, cont', host', a)
      BY <2>2, <3>1, <3>2, Parts DEF Fits
    <3>4. StepIsOK
      BY <2>2, <2>3, <3>1 DEF StepIsOK, WaitsForNothing
    <3> QED
      BY <1>0, <1>1, <3>3, <3>4
  <2> QED
    BY <1>3, <2>4, <2>5
<1> QED
  BY <1>2, <1>3 DEF Senders

(* A loop starts, and with it the turn bound of the goal.                  *)
LEMMA LoopStartedFields ==
  ASSUME NEW c, ContInv(c)
  PROVE  LET k == AgentLoopStarted(c)
         IN  /\ ContInv(k) /\ k.phase = c.phase /\ k.sentFor = c.sentFor
             /\ k.scheduledFor = c.scheduledFor /\ k.loopTrigger = c.loopTrigger
             /\ k.userMessageSinceSend = c.userMessageSinceSend
             /\ k.goalLoopInFlight = (c.goalLoopInFlight \/ c.loopTrigger = "goal")
<1> DEFINE flight == c.goalLoopInFlight \/ c.loopTrigger = "goal"
           k == [c EXCEPT !.goalLoopInFlight = flight]
<1>1. c \in ContinuationState /\ flight \in BOOLEAN
  BY ContTypes DEF ContInv
<1>2. AgentLoopStarted(c) = k
  BY <1>1 DEF AgentLoopStarted, ContinuationState
<1>3. c.phase = "queued" => ~flight
  BY DEF ContInv
<1> HIDE DEF flight
<1>4. k \in ContinuationState
  BY <1>1, Zenon DEF ContinuationState
<1>5. /\ k.phase = c.phase /\ k.sentFor = c.sentFor /\ k.timers = c.timers
      /\ k.scheduledFor = c.scheduledFor /\ k.loopTrigger = c.loopTrigger
      /\ k.userMessageSinceSend = c.userMessageSinceSend
      /\ k.goalLoopInFlight = flight
  BY <1>1 DEF ContinuationState
<1> HIDE DEF k
<1>6. ContInv(k)
  BY <1>3, <1>4, <1>5 DEF ContInv
<1> QED
  BY <1>2, <1>5, <1>6 DEF flight

LEMMA TurnStoresInv ==
  ASSUME RuntimeInv, store' \in TurnStores
  PROVE  /\ StoreInv(store', used["goals"])
         /\ \A c : GoalFits(store.goal, c) => GoalFits(store'.goal, c)
         /\ IsActive(store'.goal) = IsActive(store.goal)
         /\ \/ store'.goal = store.goal
            \/ /\ store.goal # NoGoal
               /\ store'.goal = WithExecution(store.goal, BeginAgentTurn(store.goal.execution))
<1> DEFINE n == used["goals"]
           e == BeginAgentTurn(store.goal.execution)
           g == WithExecution(store.goal, e)
<1>1. CASE store' = store
  BY <1>1, Parts
<1>2. CASE store.goal # NoGoal /\ store' \in PersistOutcomes(store, g)
  <2>1. IsGoalExecution(store.goal.execution) /\ store.goal \in GoalRecord
    BY <1>2, Parts, KnownIdentity, SoundTypes
  <2>2. e \in ExecutionRecord /\ (~Exhausted(store.goal.execution) => ~Exhausted(e))
    BY <2>1, BeginAgentTurnSpendsNoRequest, TurnKeepsFuses DEF IsGoalExecution
  <2>3. Known(g, n)
    BY <1>2, Parts, ChargesKnown
  <2> HIDE DEF e
  <2>4. SameGoalOn(store.goal, g) /\ IsActive(g) = IsActive(store.goal)
    BY <1>2, <2>2, Parts, ChargesKnown
  <2>5. ~Exhausted(store.goal.execution) => ~Exhausted(g.execution)
    BY <2>1, <2>2, WithExecutionFields
  <2> HIDE DEF g
  <2>6. StoreInv(store', n) /\ store'.goal \in {g, store.goal}
    BY <1>2, <2>3, Parts, PersistInv
  <2>7. \A c : GoalFits(store.goal, c) => GoalFits(g, c)
    BY <1>2, <2>4, <2>5, FitsOn
  <2> QED
    BY <1>2, <2>4, <2>6, <2>7 DEF g, e
<1> QED
  BY <1>1, <1>2 DEF TurnStores, Charged

LEMMA LoopStarts ==
  ASSUME RuntimeInv, cont' = AgentLoopStarted(cont), store' \in TurnStores,
         UNCHANGED <<yielding, accepted, used>>,
         HostInv(host'), host'.loop = "running", host'.work = host.work,
         host'.goalQueue = host.goalQueue, host'.aborted = host.aborted
  PROVE  RuntimeInv' /\ StepIsOK
<1>1. /\ ContInv(cont') /\ cont'.phase = cont.phase /\ cont'.sentFor = cont.sentFor
      /\ cont'.scheduledFor = cont.scheduledFor /\ cont'.loopTrigger = cont.loopTrigger
      /\ cont'.userMessageSinceSend = cont.userMessageSinceSend
      /\ cont'.goalLoopInFlight = (cont.goalLoopInFlight \/ cont.loopTrigger = "goal")
  BY Parts, LoopStartedFields
<1>2. GoalFits(store.goal, cont') /\ HostFits(cont', host', used["aborts"])
  BY <1>1, Parts DEF GoalFits, HostFits
<1>3. StoreInv(store', used["goals"]) /\ GoalFits(store'.goal, cont')
  BY <1>2, TurnStoresInv
<1>4. RuntimeInv'
  BY <1>1, <1>2, <1>3, FrameInv DEF Fits
<1>5. Outstanding(cont) => Outstanding(cont')
  BY <1>1 DEF Outstanding
<1>6. Admitted(host, host', store'.goal)
  BY Parts, HostTypes DEF Admitted
<1> QED
  BY <1>1, <1>4, <1>5, <1>6 DEF StepIsOK, WaitsForNothing

LEMMA AgentStartStep ==
  ASSUME RuntimeInv, AgentStart
  PROVE  RuntimeInv' /\ StepIsOK /\ UNCHANGED <<accepted, used>> /\ store' \in TurnStores
<1> DEFINE k == [host EXCEPT !.loop = "running", !.started = TRUE]
<1>1. /\ host' = k /\ cont' = AgentLoopStarted(cont) /\ store' \in TurnStores
      /\ UNCHANGED <<yielding, accepted, used>>
  BY DEF AgentStart, StartLoop
<1>2. host \in HostState
  BY Parts DEF HostInv
<1>3. /\ k.loop = "running" /\ k.work = host.work /\ k.goalQueue = host.goalQueue
      /\ k.aborted = host.aborted /\ k \in HostState
  BY <1>2 DEF HostState
<1> HIDE DEF k
<1>4. HostInv(k)
  BY <1>3, Parts DEF HostInv
<1> QED
  BY <1>1, <1>3, <1>4, LoopStarts

LEMMA TurnStartStep ==
  ASSUME RuntimeInv, TurnStart
  PROVE  RuntimeInv' /\ StepIsOK /\ UNCHANGED <<accepted, used>> /\ store' \in TurnStores
<1>1. /\ host' = host /\ host.loop = "running" /\ cont' = AgentLoopStarted(cont)
      /\ store' \in TurnStores /\ UNCHANGED <<yielding, accepted, used>>
  BY DEF TurnStart, Working
<1>2. HostInv(host')
  BY <1>1, Parts
<1> QED
  BY <1>1, <1>2, LoopStarts

(* What a request to the provider costs; only a goal whose fuses all hold  *)
(* is charged.                                                             *)
LEMMA RequestCharged ==
  ASSUME NEW n \in Nat, NEW g, Known(g, n), IsActive(g), ~Exhausted(g.execution)
  PROVE  LET k == WithExecution(g, ChargeRequest(g.execution))
         IN  /\ Known(k, n) /\ SameGoalOn(g, k) /\ IsActive(k)
             /\ k.execution = ChargeRequest(g.execution)
<1> DEFINE e == ChargeRequest(g.execution)
           k == WithExecution(g, e)
<1>1. g \in GoalRecord /\ g # NoGoal /\ IsGoalExecution(g.execution)
  BY KnownIdentity, SoundTypes DEF IsActive
<1>2. e \in ExecutionRecord
  BY <1>1, ChargeRequestMovesOne DEF IsGoalExecution
<1>3. Known(k, n)
  BY <1>1, ChargesKnown
<1> HIDE DEF e
<1>4. SameGoalOn(g, k) /\ IsActive(k) = IsActive(g) /\ k.execution = e
  <2>1. \A f \in ExecutionRecord : /\ SameGoalOn(g, WithExecution(g, f))
                                  /\ IsActive(WithExecution(g, f)) = IsActive(g)
    BY <1>1, ChargesKnown
  <2> QED
    BY <1>1, <1>2, <2>1, WithExecutionFields
<1> QED
  BY <1>3, <1>4 DEF e

LEMMA ContextCharged ==
  ASSUME NEW n \in Nat, NEW g, Known(g, n), IsActive(g)
  PROVE  LET k == WithExecution(g, ChargeContext(g.execution))
         IN  /\ Known(k, n) /\ SameGoalOn(g, k) /\ IsActive(k)
             /\ k.execution = ChargeContext(g.execution)
<1> DEFINE e == ChargeContext(g.execution)
           k == WithExecution(g, e)
<1>1. g \in GoalRecord /\ g # NoGoal /\ IsGoalExecution(g.execution)
  BY KnownIdentity, SoundTypes DEF IsActive
<1>2. e \in ExecutionRecord
  BY <1>1, ChargeContextSpendsNoRequest DEF IsGoalExecution
<1>3. Known(k, n)
  BY <1>1, ChargesKnown
<1> HIDE DEF e
<1>4. SameGoalOn(g, k) /\ IsActive(k) = IsActive(g) /\ k.execution = e
  <2>1. \A f \in ExecutionRecord : /\ SameGoalOn(g, WithExecution(g, f))
                                  /\ IsActive(WithExecution(g, f)) = IsActive(g)
    BY <1>1, ChargesKnown
  <2> QED
    BY <1>1, <1>2, <2>1, WithExecutionFields
<1> QED
  BY <1>3, <1>4 DEF e

LEMMA ProviderRequestStep ==
  ASSUME RuntimeInv, ProviderRequest
  PROVE  LET charged == WithExecution(store.goal, ChargeRequest(store.goal.execution))
         IN  /\ RuntimeInv' /\ StepIsOK /\ UNCHANGED <<accepted, used>>
             /\ IsActive(store.goal)
             /\ \/ Moved(store.goal)
                \/ ~Exhausted(store.goal.execution) /\ Moved(charged)
<1> DEFINE n == used["goals"]
           g == store.goal
           e == ChargeRequest(g.execution)
           k == WithExecution(g, e)
<1>1. IsActive(g) /\ UNCHANGED <<yielding, accepted, used>>
  BY DEF ProviderRequest, Chargeable
<1>2. CASE Exhausted(g.execution) /\ PausesForExhaustion(store, g, cont, host)
  <2>1. /\ store' \in PersistOutcomes(store, PauseForExhaustion(g))
        /\ WithdrawGoalWork(cont, host)
    BY <1>2 DEF PausesForExhaustion
  <2>2. Known(PauseForExhaustion(g), n)
    BY <1>1, Parts, KnownExhaustion
  <2>3. StoreInv(store', n) /\ store'.goal \in {g, PauseForExhaustion(g)}
    BY <2>1, <2>2, Parts, PersistInv
  <2> QED
    BY <1>1, <1>2, <2>1, <2>3, WithdrawStep, SettledMembers DEF Moved
<1>3. CASE /\ ~Exhausted(g.execution) /\ ~Exhausted(e)
           /\ store' \in PersistOutcomes(store, k)
           /\ UNCHANGED <<cont, host>>
  <2>1. Known(k, n) /\ SameGoalOn(g, k) /\ IsActive(k) /\ k.execution = e
    BY <1>1, <1>3, Parts, RequestCharged
  <2> HIDE DEF k, e
  <2>2. StoreInv(store', n) /\ store'.goal \in {g, k}
    BY <1>3, <2>1, Parts, PersistInv
  <2>3. GoalFits(k, cont)
    BY <1>1, <1>3, <2>1, Parts, FitsOn DEF IsActive
  <2>4. RuntimeInv' /\ StepIsOK
    BY <1>1, <1>3, <2>2, <2>3, Parts, QuietStep
  <2> QED
    BY <1>1, <1>3, <2>2, <2>4, SettledMembers DEF Moved, k, e
<1>4. CASE /\ ~Exhausted(g.execution) /\ Exhausted(e)
           /\ \E s \in PersistOutcomes(store, k) : PausesForExhaustion(s, k, cont, host)
  <2>1. Known(k, n) /\ IsActive(k) /\ k.execution = e
    BY <1>1, <1>4, Parts, RequestCharged
  <2>2. PICK s \in PersistOutcomes(store, k) : PausesForExhaustion(s, k, cont, host)
    BY <1>4
  <2> HIDE DEF k
  <2>3. StoreInv(s, n) /\ s.goal \in {g, k}
    BY <2>1, <2>2, Parts, PersistInv
  <2>4. Known(PauseForExhaustion(k), n)
    BY <2>1, Parts, KnownExhaustion
  <2>5. /\ store' \in PersistOutcomes(s, PauseForExhaustion(k))
        /\ WithdrawGoalWork(cont, host)
    BY <2>2 DEF PausesForExhaustion
  <2>6. StoreInv(store', n) /\ store'.goal \in {g, k, PauseForExhaustion(k)}
    BY <2>3, <2>4, <2>5, Parts, PersistInv
  <2>7. RuntimeInv' /\ StepIsOK
    BY <1>1, <2>5, <2>6, WithdrawStep
  <2>8. Moved(k)
    BY <1>4, <2>1, <2>6, SettledMembers DEF Moved
  <2> QED
    BY <1>1, <1>4, <2>7, <2>8 DEF k
<1> QED
  BY <1>2, <1>3, <1>4 DEF ProviderRequest, Charged

(* A goal paused for a blown fuse stays as it is.                          *)
LEMMA SettledOnce ==
  ASSUME NEW n \in Nat, NEW g, Known(g, n), IsActive(g)
  PROVE  Settled(PauseForExhaustion(g)) = {PauseForExhaustion(g)}
BY KnownExhaustion DEF Settled

LEMMA CompactionStep ==
  ASSUME RuntimeInv, Compaction
  PROVE  LET charged == WithExecution(store.goal, ChargeContext(store.goal.execution))
         IN  /\ RuntimeInv' /\ StepIsOK /\ UNCHANGED <<accepted, used>>
             /\ \/ Moved(store.goal)
                \/ /\ IsActive(store.goal) /\ ~Exhausted(store.goal.execution)
                   /\ Moved(charged)
<1> DEFINE n == used["goals"]
           a == used["aborts"]
           g == store.goal
           e == ChargeContext(g.execution)
           k == WithExecution(g, e)
           Told == /\ StoreInv(store', n) /\ Fits(store', cont', host', a)
                   /\ Continues(cont, host, cont', host')
                   /\ Admitted(host, host', store'.goal)
<1>1. ContextStep(store) /\ UNCHANGED <<yielding, accepted, used>>
  BY Parts, FlushChangesNothing DEF Compaction
<1>2. ASSUME Told PROVE RuntimeInv' /\ StepIsOK
  BY <1>1, <1>2, Parts, FrameInv, ContinuingIsOK
<1>3. CASE RequestContinuation(store, cont, host, TRUE)
  <2>1. Told /\ store'.goal \in Settled(g)
    BY <1>3, Parts, RequestInv
  <2> QED
    BY <1>1, <1>2, <2>1 DEF Moved
<1>4. CASE /\ Chargeable(store) /\ Exhausted(g.execution)
           /\ \E s1 \in PersistOutcomes(store, PauseForExhaustion(g)) :
                RequestContinuation(s1, ClearContinuation(cont), Withdrawn(cont, host), TRUE)
  <2>1. PICK s1 \in PersistOutcomes(store, PauseForExhaustion(g)) :
          RequestContinuation(s1, ClearContinuation(cont), Withdrawn(cont, host), TRUE)
    BY <1>4
  <2>2. IsActive(g) /\ Known(PauseForExhaustion(g), n)
    BY <1>4, Parts, KnownExhaustion DEF Chargeable
  <2>3. StoreInv(s1, n) /\ s1.goal \in {g, PauseForExhaustion(g)}
    BY <2>1, <2>2, Parts, PersistInv
  <2>4. Told /\ store'.goal \in Settled(s1.goal)
    BY <2>1, <2>3, Parts, WithdrawnRequestInv
  <2>5. store'.goal \in Settled(g)
    BY <1>4, <2>2, <2>3, <2>4, Parts, SettledOnce, SettledMembers
  <2> QED
    BY <1>1, <1>2, <2>4, <2>5 DEF Moved
<1>5. CASE /\ Chargeable(store) /\ ~Exhausted(g.execution) /\ ~Exhausted(e)
           /\ \E s1 \in PersistOutcomes(store, k) : RequestContinuation(s1, cont, host, TRUE)
  <2>1. IsActive(g) /\ Known(k, n) /\ SameGoalOn(g, k) /\ IsActive(k) /\ k.execution = e
    BY <1>5, Parts, ContextCharged DEF Chargeable
  <2>2. PICK s1 \in PersistOutcomes(store, k) : RequestContinuation(s1, cont, host, TRUE)
    BY <1>5
  <2> HIDE DEF k, e
  <2>3. /\ StoreInv(s1, n) /\ (s1.goal = k \/ (s1.goal = g /\ s1.persistenceBroken))
    BY <2>1, <2>2, Parts, PersistInv
  <2>4. GoalFits(k, cont)
    BY <1>5, <2>1, Parts, FitsOn DEF IsActive
  <2>5. Fits(s1, cont, host, a)
    BY <2>3, <2>4, Parts DEF Fits
  <2>6. Told /\ store'.goal \in Settled(s1.goal) /\ (s1.persistenceBroken => store' = s1)
    BY <2>2, <2>3, <2>5, Parts, RequestInv
  <2>7. Moved(k)
    BY <2>3, <2>6 DEF Moved
  <2> QED
    BY <1>1, <1>2, <1>5, <2>1, <2>6, <2>7 DEF k, e
<1>6. CASE /\ Chargeable(store) /\ ~Exhausted(g.execution) /\ Exhausted(e)
           /\ \E s1 \in PersistOutcomes(store, k) :
              \E s2 \in PersistOutcomes(s1, PauseForExhaustion(k)) :
                RequestContinuation(s2, ClearContinuation(cont), Withdrawn(cont, host), TRUE)
  <2>1. IsActive(g) /\ Known(k, n) /\ IsActive(k) /\ k.execution = e
    BY <1>6, Parts, ContextCharged DEF Chargeable
  <2>2. PICK s1 \in PersistOutcomes(store, k) :
          \E s2 \in PersistOutcomes(s1, PauseForExhaustion(k)) :
            RequestContinuation(s2, ClearContinuation(cont), Withdrawn(cont, host), TRUE)
    BY <1>6
  <2>3. PICK s2 \in PersistOutcomes(s1, PauseForExhaustion(k)) :
          RequestContinuation(s2, ClearContinuation(cont), Withdrawn(cont, host), TRUE)
    BY <2>2
  <2> HIDE DEF k
  <2>4. StoreInv(s1, n) /\ s1.goal \in {g, k}
    BY <2>1, <2>2, Parts, PersistInv
  <2>5. Known(PauseForExhaustion(k), n)
    BY <2>1, Parts, KnownExhaustion
  <2>6. /\ StoreInv(s2, n)
        /\ s2.goal = PauseForExhaustion(k) \/ (s2.goal \in {g, k} /\ s2.persistenceBroken)
    BY <2>3, <2>4, <2>5, Parts, PersistInv
  <2>7. Told /\ store'.goal \in Settled(s2.goal) /\ (s2.persistenceBroken => store' = s2)
    BY <2>3, <2>6, Parts, WithdrawnRequestInv
  <2>8. store'.goal \in {g, k, PauseForExhaustion(k)}
    BY <2>1, <2>6, <2>7, Parts, SettledOnce
  <2>9. Moved(k)
    BY <1>6, <2>1, <2>8, SettledMembers DEF Moved
  <2> QED
    BY <1>1, <1>2, <1>6, <2>1, <2>7, <2>9 DEF k
<1> QED
  BY <1>1, <1>3, <1>4, <1>5, <1>6 DEF ContextStep, Charged

LEMMA AgentEndStep ==
  ASSUME RuntimeInv, AgentEnd
  PROVE  RuntimeInv' /\ StepIsOK /\ UNCHANGED <<accepted, used>> /\ Moved(store.goal)
<1> DEFINE c == [cont EXCEPT !.goalLoopInFlight = FALSE, !.loopTrigger = "none"]
           h(state) == [host EXCEPT !.loop = state, !.started = FALSE,
                                    !.work = "none", !.aborted = FALSE]
<1>1. PICK state \in {"ending", "idle"} :
        RequestContinuation(store, AgentLoopEnded(cont), EndLoop(host, state), FALSE)
  BY DEF AgentEnd
<1>2. UNCHANGED <<yielding, accepted, used>> /\ cont \in ContinuationState /\ host \in HostState
  BY Parts DEF AgentEnd, ContInv, HostInv
<1>3. /\ c \in ContinuationState /\ c.phase = cont.phase /\ c.sentFor = cont.sentFor
      /\ c.timers = cont.timers /\ c.scheduledFor = cont.scheduledFor
      /\ ~c.goalLoopInFlight /\ c.loopTrigger = "none"
  <2>1. "none" \in Triggers /\ FALSE \in BOOLEAN
    BY DEF Triggers
  <2>2. c \in ContinuationState
    BY <1>2, <2>1, Zenon DEF ContinuationState
  <2> QED
    BY <1>2, <2>2 DEF ContinuationState
<1>4. /\ h(state) \in HostState /\ h(state).loop = state /\ h(state).work = "none"
      /\ h(state).goalQueue = host.goalQueue
  <2>1. "none" \in Senders \cup {"none"} /\ FALSE \in BOOLEAN
        /\ state \in {"idle", "running", "ending", "down"}
    BY DEF Senders
  <2>2. h(state) \in HostState
    BY <1>2, <2>1, Zenon DEF HostState
  <2> QED
    BY <1>2, <2>2 DEF HostState
<1>5. RequestContinuation(store, c, h(state), FALSE)
  BY <1>1 DEF AgentLoopEnded, EndLoop
<1> HIDE DEF c, h
<1>6. Fits(store, c, h(state), used["aborts"])
  <2>1. ContInv(c) /\ HostInv(h(state))
    BY <1>3, <1>4, Parts DEF ContInv, HostInv
  <2>2. GoalFits(store.goal, c) /\ HostFits(c, h(state), used["aborts"])
    BY <1>3, <1>4, Parts DEF GoalFits, HostFits
  <2> QED
    BY <2>1, <2>2 DEF Fits
<1>7. /\ StoreInv(store', used["goals"]) /\ Fits(store', cont', host', used["aborts"])
      /\ Continues(c, h(state), cont', host') /\ Admitted(h(state), host', store'.goal)
      /\ store'.goal \in Settled(store.goal)
  BY <1>5, <1>6, Parts, RequestInv
<1>8. StepIsOK
  <2>1. host'.loop # "running" /\ ~GoalLoop'
    BY <1>4, <1>7 DEF Continues, GoalLoop
  <2>2. cont'.phase = "delivered" => cont.phase = "delivered"
    BY <1>3, <1>7 DEF Continues
  <2>3. Admitted(host, host', store'.goal)
    BY <1>4, <1>7 DEF Admitted
  <2>4. WaitsForNothing' => WaitsForNothing
    BY <1>3, <1>4, <1>7 DEF Continues, WaitsForNothing
  <2> QED
    BY <2>1, <2>2, <2>3, <2>4 DEF StepIsOK
<1> QED
  BY <1>2, <1>7, <1>8, FrameInv DEF Moved

LEMMA TimerFiresStep ==
  ASSUME RuntimeInv, TimerFires
  PROVE  RuntimeInv' /\ StepIsOK /\ UNCHANGED <<store, accepted, used>>
<1>1. PICK t \in cont.timers : OwnerRequest(store.goal, TimerFired(cont, t), host, t.boundary)
  BY DEF TimerFires
<1>2. UNCHANGED <<store, yielding, accepted, used>> /\ cont \in ContinuationState
  BY Parts DEF TimerFires, ContInv
<1>3. cont.scheduledFor # 0 /\ cont.timers = {t} /\ t.boundary \in BOOLEAN
  BY <1>1, Parts DEF ContInv
<1>4. IsActive(store.goal) /\ ~Exhausted(store.goal.execution)
  BY <1>3, Parts DEF GoalFits
<1> DEFINE c == [cont EXCEPT !.timers = {}, !.scheduledFor = 0]
<1>5. TimerFired(cont, t) = c
  <2>1. cont.timers \ {t} = {}
    BY <1>3
  <2> QED
    BY <1>2, <2>1 DEF TimerFired, ContinuationState
<1>6. /\ c \in ContinuationState /\ c.phase = cont.phase /\ c.sentFor = cont.sentFor
      /\ c.timers = {} /\ c.scheduledFor = 0
      /\ c.goalLoopInFlight = cont.goalLoopInFlight /\ c.loopTrigger = cont.loopTrigger
      /\ c.userMessageSinceSend = cont.userMessageSinceSend
  <2>1. {} \in SUBSET [goalId : Nat, boundary : BOOLEAN] /\ 0 \in Nat
    OBVIOUS
  <2>2. c \in ContinuationState
    BY <1>2, <2>1, Zenon DEF ContinuationState
  <2> QED
    BY <1>2, <2>2 DEF ContinuationState
<1> HIDE DEF c
<1>7. /\ ContInv(c) /\ GoalFits(store.goal, c) /\ HostFits(c, host, used["aborts"])
      /\ Continues(cont, host, c, host)
  BY <1>6, Parts DEF ContInv, GoalFits, HostFits, Continues, Outstanding
<1>8. /\ ContInv(cont') /\ HostInv(host')
      /\ GoalFits(store.goal, cont') /\ HostFits(cont', host', used["aborts"])
      /\ Continues(c, host, cont', host') /\ Admitted(host, host', store.goal)
  BY <1>1, <1>3, <1>4, <1>5, <1>7, Parts, OwnerRequestInv
<1>9. Continues(cont, host, cont', host')
  BY <1>7, <1>8, ContinuesOn
<1> QED
  BY <1>2, <1>8, <1>9, Parts, FrameInv, ContinuingIsOK DEF Fits

LEMMA HostSettlesStep ==
  ASSUME RuntimeInv, HostSettles
  PROVE  RuntimeInv' /\ StepIsOK /\ UNCHANGED <<store, accepted, used>>
<1> DEFINE k == [host EXCEPT !.loop = "idle"]
<1>1. /\ host' = k /\ host.loop = "ending" /\ host \in HostState
      /\ UNCHANGED <<store, cont, yielding, accepted, used>>
  BY Parts DEF HostSettles, HostInv
<1>2. /\ k \in HostState /\ k.loop = "idle" /\ k.work = host.work
      /\ k.goalQueue = host.goalQueue
  BY <1>1 DEF HostState
<1> HIDE DEF k
<1>3. HostInv(host') /\ HostFits(cont', host', used["aborts"])
  BY <1>1, <1>2, Parts DEF HostInv, HostFits
<1>4. StepIsOK
  BY <1>1, <1>2, Parts, HostTypes DEF StepIsOK, Admitted, GoalLoop, WaitsForNothing
<1> QED
  BY <1>1, <1>3, <1>4, Parts, FrameInv DEF Fits

-----------------------------------------------------------------------------
(* Sessions, and the world around.                                         *)

LEMMA DownFields ==
  /\ HostInv(DownHost) /\ DownHost.loop = "down" /\ DownHost.goalQueue = <<>>
  /\ HostInv(IdleHost) /\ IdleHost.loop = "idle" /\ IdleHost.goalQueue = <<>>
<1> DEFINE i == IdleHost
           d == [i EXCEPT !.loop = "down"]
<1>1. IdleHost \in HostState
  BY NothingWaits DEF IdleHost, HostState, Senders
<1>2. i.work = "none" /\ i.loop = "idle" /\ i.goalQueue = <<>>
  BY DEF IdleHost
<1> HIDE DEF i
<1>3. d \in HostState /\ d.work = "none" /\ d.loop = "down" /\ d.goalQueue = <<>>
  BY <1>1, <1>2 DEF HostState, i
<1>4. DownHost = d
  BY DEF DownHost, i
<1> HIDE DEF d
<1>5. HostInv(i) /\ HostInv(d)
  BY <1>1, <1>2, <1>3, NothingWaits DEF HostInv, i
<1> QED
  BY <1>2, <1>3, <1>4, <1>5 DEF i

(* Nothing of the extension runs after the step.                           *)
LEMMA StoppedIsOK ==
  ASSUME HostInv(host), HostInv(host'), cont' = InitialContinuation,
         Len(host'.goalQueue) <= Len(host.goalQueue),
         \/ host'.loop # "running"
         \/ host' = host /\ ~IsActive(store'.goal)
  PROVE  StepIsOK
<1>1. cont'.phase = "idle"
  BY DEF InitialContinuation
<1>2. Admitted(host, host', store'.goal)
  BY HostTypes DEF Admitted
<1>3. ~GoalLoop'
  BY DEF GoalLoop
<1> QED
  BY <1>1, <1>2, <1>3 DEF StepIsOK, WaitsForNothing

LEMMA RestoreBranchStep ==
  ASSUME RuntimeInv, RestoreBranch
  PROVE  /\ RuntimeInv' /\ StepIsOK /\ UNCHANGED accepted
         /\ used["navigations"] < MaxNavigations
         /\ ~IsActive(store'.goal)
<1> DEFINE n == used["goals"]
<1>1. PICK snapshot \in {store.leaf} \cup ToSet(store.trail) :
        store' = Restored(store, snapshot)
  BY DEF RestoreBranch
<1>2. /\ Use("navigations", MaxNavigations) /\ UNCHANGED <<host, yielding, accepted>>
      /\ cont' = InitialContinuation
  BY Parts, ClearedIsInitial DEF RestoreBranch
<1>3. /\ used' \in [Bounds -> Nat] /\ used'["goals"] = n
      /\ used'["aborts"] = used["aborts"] /\ used'["navigations"] <= MaxNavigations
      /\ used["navigations"] < MaxNavigations
  BY <1>2, UseFields, BoundsAreNumbers DEF Bounds, Use
<1>4. StoreInv(store', n) /\ store'.goal = RestoreBranchGoal(snapshot)
  <2>1. /\ StoreInv(Restored(store, snapshot), n)
        /\ Restored(store, snapshot).goal = RestoreBranchGoal(snapshot)
    <3>1. n \in Nat /\ StoreInv(store, n)
      BY Parts
    <3> QED
      BY <3>1, RestoredInv, Zenon
  <2> QED
    BY <1>1, <2>1
<1>5. ~IsActive(store'.goal)
  <2>1. Known(snapshot, n)
    BY <1>1, Parts DEF StoreInv, ToSet
  <2> QED
    BY <1>4, <2>1, Parts, KnownTypes
<1>6. Fits(store', cont', host', used["aborts"])
  BY <1>2, Parts, InitialFits
<1>7. RuntimeInv'
  BY <1>2, <1>3, <1>4, <1>6 DEF RuntimeInv
<1>8. StepIsOK
  BY <1>2, <1>5, Parts, HostTypes, StoppedIsOK
<1> QED
  BY <1>2, <1>3, <1>5, <1>7, <1>8

LEMMA SessionShutdownStep ==
  ASSUME RuntimeInv, SessionShutdown
  PROVE  RuntimeInv' /\ StepIsOK /\ UNCHANGED <<store, accepted, used>>
<1>1. /\ cont' = InitialContinuation /\ host' = DownHost
      /\ UNCHANGED <<store, yielding, accepted, used>>
  BY Parts, FlushChangesNothing, ClearedIsInitial DEF SessionShutdown
<1>2. HostInv(host') /\ host'.loop = "down" /\ host'.goalQueue = <<>>
  BY <1>1, DownFields
<1>3. Fits(store', cont', host', used["aborts"])
  BY <1>1, <1>2, Parts, InitialFits
<1>4. StepIsOK
  BY <1>1, <1>2, Parts, NothingWaits, HostTypes, StoppedIsOK
<1> QED
  BY <1>1, <1>3, <1>4, Parts, FrameInv

LEMMA CrashStep ==
  ASSUME RuntimeInv, Crash
  PROVE  RuntimeInv' /\ StepIsOK /\ UNCHANGED <<store, accepted, used>>
<1>1. /\ cont' = InitialContinuation /\ host' = DownHost
      /\ UNCHANGED <<store, yielding, accepted, used>>
  BY DEF Crash
<1>2. HostInv(host') /\ host'.loop = "down" /\ host'.goalQueue = <<>>
  BY <1>1, DownFields
<1>3. Fits(store', cont', host', used["aborts"])
  BY <1>1, <1>2, Parts, InitialFits
<1>4. StepIsOK
  BY <1>1, <1>2, Parts, NothingWaits, HostTypes, StoppedIsOK
<1> QED
  BY <1>1, <1>3, <1>4, Parts, FrameInv

(* A restored goal is restored: a second restart changes nothing.          *)
LEMMA RestoredOnce ==
  ASSUME NEW n \in Nat, NEW g, Known(g, n)
  PROVE  RestoreBranchGoal(RestoreBranchGoal(g)) = RestoreBranchGoal(g)
<1> DEFINE k == RestoreBranchGoal(g)
<1>1. ~IsActive(k)
  BY KnownTypes
<1> HIDE DEF k
<1>2. RestoreBranchGoal(k) = k
  BY <1>1 DEF RestoreBranchGoal
<1> QED
  BY <1>2 DEF k

LEMMA SessionStartStep ==
  ASSUME RuntimeInv, SessionStart
  PROVE  /\ RuntimeInv' /\ StepIsOK
         /\ accepted' = <<>> /\ used'["goals"] = used["goals"]
         /\ store'.goal = RestoreBranchGoal(store.goal)
<1> DEFINE n == used["goals"]
<1>1. /\ store' = [Restored(store, store.leaf) EXCEPT !.persistenceBroken = FALSE]
      /\ cont' = InitialContinuation /\ host' = IdleHost /\ accepted' = <<>>
      /\ yielding' = yielding /\ Use("restarts", MaxRestarts)
  BY DEF SessionStart
<1>2. /\ used' \in [Bounds -> Nat] /\ used'["goals"] = n
      /\ used'["aborts"] = used["aborts"] /\ used'["navigations"] = used["navigations"]
  BY <1>1, UseFields, BoundsAreNumbers DEF Bounds
<1>3. StoreInv(store', n) /\ store'.goal = RestoreBranchGoal(store.leaf)
  <2> DEFINE snapshot == store.leaf
  <2>1. snapshot \in {store.leaf} \cup ToSet(store.trail)
    OBVIOUS
  <2> HIDE DEF snapshot
  <2>2. LET t == [Restored(store, snapshot) EXCEPT !.persistenceBroken = FALSE]
        IN  StoreInv(t, n) /\ t.goal = RestoreBranchGoal(snapshot)
    BY <2>1, Parts, RestoredInv
  <2> QED
    BY <1>1, <2>2 DEF snapshot
<1>4. store'.goal = RestoreBranchGoal(store.goal)
  BY <1>3, Parts, RestoredOnce DEF StoreInv
<1>5. HostInv(host') /\ host'.loop = "idle" /\ host'.goalQueue = <<>>
  BY <1>1, DownFields
<1>6. Fits(store', cont', host', used["aborts"])
  BY <1>1, <1>5, Parts, InitialFits
<1>7. accepted' \in Seq(Completion)
  BY <1>1
<1>8. RuntimeInv'
  BY <1>1, <1>2, <1>3, <1>6, <1>7 DEF RuntimeInv
<1>9. StepIsOK
  BY <1>1, <1>5, Parts, NothingWaits, HostTypes, StoppedIsOK
<1> QED
  BY <1>1, <1>2, <1>4, <1>8, <1>9

LEMMA MessageArrivesStep ==
  ASSUME RuntimeInv, MessageArrives
  PROVE  RuntimeInv' /\ StepIsOK /\ UNCHANGED <<store, accepted>> /\ used'["goals"] = used["goals"]
<1>1. PICK sender \in {"user", "peer"} : host' = [host EXCEPT !.waiting[sender] = @ + 1]
  BY DEF MessageArrives
<1>2. /\ Use("messages", MaxMessages) /\ UNCHANGED <<store, cont, yielding, accepted>>
      /\ host \in HostState /\ host.waiting \in [{"user", "peer"} -> Nat]
  BY Parts, HostTypes DEF MessageArrives, HostInv
<1>3. /\ used' \in [Bounds -> Nat] /\ used'["goals"] = used["goals"]
      /\ used'["aborts"] = used["aborts"] /\ used'["navigations"] = used["navigations"]
  BY <1>2, UseFields, BoundsAreNumbers DEF Bounds
<1> DEFINE more == [host.waiting EXCEPT ![sender] = host.waiting[sender] + 1]
           k == [host EXCEPT !.waiting = more]
<1>4. host' = k
  BY <1>1, <1>2 DEF HostState
<1>5. more \in [{"user", "peer"} -> Nat]
  BY <1>2
<1> HIDE DEF more
<1>6. k \in HostState
  BY <1>2, <1>5, Zenon DEF HostState
<1>7. /\ k.loop = host.loop /\ k.work = host.work /\ k.goalQueue = host.goalQueue
      /\ k.started = host.started /\ k.aborted = host.aborted
  BY <1>2 DEF HostState
<1> HIDE DEF k
<1>8. HostInv(host') /\ HostFits(cont', host', used["aborts"])
  BY <1>2, <1>4, <1>6, <1>7, Parts DEF HostInv, HostFits
<1>9. Continues(cont, host, cont', host') /\ Admitted(host, host', store'.goal)
  BY <1>2, <1>4, <1>7, Parts, HostTypes DEF Continues, Admitted
<1>10. Fits(store', cont', host', used["aborts"])
  BY <1>2, <1>8, Parts DEF Fits
<1>11. RuntimeInv'
  BY <1>2, <1>3, <1>10 DEF RuntimeInv
<1> QED
  BY <1>2, <1>3, <1>9, <1>11, Parts, ContinuingIsOK

LEMMA HumanAbortsStep ==
  ASSUME RuntimeInv, HumanAborts
  PROVE  /\ RuntimeInv' /\ StepIsOK /\ UNCHANGED <<store, accepted>>
         /\ used'["goals"] = used["goals"]
<1> DEFINE k == [host EXCEPT !.aborted = TRUE]
           a == used["aborts"]
<1>1. /\ host' \in {Abort(host), k} /\ host.loop = "running" /\ host \in HostState
      /\ Use("aborts", MaxAborts) /\ UNCHANGED <<store, cont, yielding, accepted>>
  BY Parts DEF HumanAborts, Working, HostInv
<1>2. /\ used' \in [Bounds -> Nat] /\ used'["goals"] = used["goals"]
      /\ used'["aborts"] = a + 1 /\ used'["aborts"] <= MaxAborts
      /\ used'["navigations"] = used["navigations"]
  BY <1>1, UseFields, BoundsAreNumbers DEF Bounds
<1>3. /\ k \in HostState /\ k.loop = host.loop /\ k.work = host.work
      /\ k.goalQueue = host.goalQueue /\ k.aborted
  BY <1>1 DEF HostState
<1> HIDE DEF k
<1>4. /\ HostInv(host') /\ host'.loop = host.loop /\ host'.work = host.work /\ host'.aborted
      /\ host'.goalQueue \in {<<>>, host.goalQueue}
  <2>1. HostInv(k)
    BY <1>3, Parts DEF HostInv
  <2>2. /\ HostInv(Abort(host)) /\ Abort(host).loop = host.loop /\ Abort(host).work = host.work
        /\ Abort(host).goalQueue = <<>> /\ Abort(host).aborted
    BY <1>1, Parts, AbortFields
  <2> QED
    BY <1>1, <1>3, <2>1, <2>2
<1>5. HostFits(cont', host', used'["aborts"])
  BY <1>1, <1>2, <1>4, Parts DEF HostFits
<1>6. Fits(store', cont', host', used'["aborts"])
  BY <1>1, <1>4, <1>5, Parts DEF Fits
<1>7. RuntimeInv'
  BY <1>1, <1>2, <1>6, Parts DEF RuntimeInv
<1>8. Admitted(host, host', store'.goal)
  BY <1>4, Parts, HostTypes, NothingWaits DEF Admitted
<1>9. StepIsOK
  BY <1>1, <1>4, <1>8 DEF StepIsOK, GoalLoop
<1> QED
  BY <1>1, <1>2, <1>7, <1>9

LEMMA OwnershipChangesStep ==
  ASSUME RuntimeInv, OwnershipChanges
  PROVE  RuntimeInv' /\ StepIsOK /\ UNCHANGED <<store, accepted, used>>
<1>1. yielding' \in BOOLEAN /\ UNCHANGED <<store, cont, host, accepted, used>>
  BY DEF OwnershipChanges, RuntimeInv
<1>2. RuntimeInv'
  BY <1>1 DEF RuntimeInv
<1>3. Continues(cont, host, cont', host') /\ Admitted(host, host', store'.goal)
  BY <1>1, Parts, HostTypes DEF Continues, Admitted
<1> QED
  BY <1>1, <1>2, <1>3, Parts, ContinuingIsOK

LEMMA StutteringStep ==
  ASSUME RuntimeInv, UNCHANGED vars
  PROVE  RuntimeInv' /\ StepIsOK
<1>1. UNCHANGED <<store, cont, host, yielding, accepted, used>>
  BY DEF vars
<1>2. RuntimeInv'
  BY <1>1 DEF RuntimeInv
<1>3. Continues(cont, host, cont', host') /\ Admitted(host, host', store'.goal)
  BY <1>1, Parts, HostTypes DEF Continues, Admitted
<1> QED
  BY <1>2, <1>3, Parts, ContinuingIsOK

-----------------------------------------------------------------------------
(* Every step, and the theorems that follow.                               *)

LEMMA StartIsSound == Init => RuntimeInv
<1> SUFFICES ASSUME Init PROVE RuntimeInv
  OBVIOUS
<1> DEFINE s == [ goal |-> NoGoal, lastPersisted |-> NoGoal, persistenceBroken |-> FALSE,
                  leaf |-> NoGoal, trail |-> <<>>, failures |-> 0 ]
<1>1. /\ store = s /\ cont = InitialContinuation /\ host = IdleHost
      /\ yielding \in BOOLEAN /\ accepted = <<>>
      /\ used = [bound \in Bounds |-> 0]
  BY DEF Init
<1>2. used \in [Bounds -> Nat] /\ used["goals"] = 0 /\ used["aborts"] = 0
      /\ used["navigations"] = 0
  BY <1>1 DEF Bounds
<1>3. s \in StoreState
  BY DEF StoreState
<1>4. /\ s.goal = NoGoal /\ s.leaf = NoGoal /\ s.trail = <<>> /\ s.lastPersisted = NoGoal
  OBVIOUS
<1> HIDE DEF s
<1>5. StoreInv(s, 0)
  <2>1. DOMAIN <<>> = {}
    OBVIOUS
  <2> QED
    BY <1>3, <1>4, <2>1 DEF StoreInv, Known
<1>6. Fits(store, cont, host, 0)
  BY <1>1, DownFields, InitialFits
<1>7. accepted \in Seq(Completion)
  BY <1>1
<1> QED
  BY <1>1, <1>2, <1>5, <1>6, <1>7, BoundsAreNumbers DEF RuntimeInv

LEMMA EveryStep == RuntimeInv /\ [Next]_vars => RuntimeInv' /\ StepIsOK
<1> SUFFICES ASSUME RuntimeInv, [Next]_vars PROVE RuntimeInv' /\ StepIsOK
  OBVIOUS
<1>1. CASE Commands
  BY <1>1, StartGoalStep, PauseCommandStep, ResumeCommandStep, ClearCommandStep DEF Commands
<1>2. CASE CallTools
  <2>1. PICK identity \in SeenIdentities :
          \/ \E call \in ToolCalls, handoff \in {EmptyNotes} \cup Notes :
               CompleteStage(call, identity, handoff)
          \/ BlockStage(identity)
          \/ \E revision \in 0..(MaxRevision - 1), notes \in {EmptyNotes} \cup Notes,
                refs \in SUBSET Evidence :
               UpdateMemory(identity, revision, notes, refs)
    BY <1>2 DEF CallTools
  <2> QED
    BY <2>1, CompleteStageStep, BlockStageStep, UpdateMemoryStep
<1>3. CASE HostEvents
  BY <1>3, DeliverMessageStep, AgentStartStep, TurnStartStep, ProviderRequestStep,
     CompactionStep, AgentEndStep, TimerFiresStep, HostSettlesStep DEF HostEvents
<1>4. CASE Sessions
  BY <1>4, RestoreBranchStep, SessionShutdownStep, CrashStep, SessionStartStep DEF Sessions
<1>5. CASE MessageArrives \/ HumanAborts \/ OwnershipChanges
  BY <1>5, MessageArrivesStep, HumanAbortsStep, OwnershipChangesStep
<1>6. CASE UNCHANGED vars
  BY <1>6, StutteringStep
<1> QED
  BY <1>1, <1>2, <1>3, <1>4, <1>5, <1>6 DEF Next

(* Between two handlers the parties fit together, always.                  *)
THEOREM RuntimeInvariant == Spec => []RuntimeInv
<1> QED
  BY StartIsSound, EveryStep, PTL DEF Spec

(* The variables keep their types.                                         *)
THEOREM RuntimeTypes == Spec => []TypeOK
<1>1. RuntimeInv => TypeOK
  BY DEF RuntimeInv, TypeOK, StoreInv, Fits, ContInv, HostInv
<1> QED
  BY <1>1, RuntimeInvariant, PTL

(* The goal in memory is the one a reader of the session file would find,  *)
(* after any failed append, crash or restart (flush, restoreBranchGoal).   *)
THEOREM MemoryStaysCommitted == Spec => []MemoryIsCommitted
<1>1. RuntimeInv => MemoryIsCommitted
  BY DEF RuntimeInv, MemoryIsCommitted, StoreInv
<1> QED
  BY <1>1, RuntimeInvariant, PTL

(* At most one goal message waits in the host's queue: the owner sends to  *)
(* an idle host with nothing pending only (request).                       *)
THEOREM OneGoalMessageAtMost == Spec => []OneGoalMessage
<1>1. RuntimeInv => OneGoalMessage
  BY DEF RuntimeInv, OneGoalMessage, Fits, HostInv
<1> QED
  BY <1>1, RuntimeInvariant, PTL

(* At most one retry timer is armed, and the handle designates it          *)
(* (armTimer, clearTimer).                                                 *)
THEOREM OneTimerAtMost == Spec => []OneTimer
<1>1. ASSUME RuntimeInv PROVE OneTimer
  <2>1. CASE cont.scheduledFor = 0 /\ cont.timers = {}
    <3>1. Cardinality({}) = 0
      BY FS_EmptySet
    <3> QED
      BY <2>1, <3>1 DEF OneTimer
  <2>2. CASE /\ cont.scheduledFor # 0
             /\ \E b \in BOOLEAN : cont.timers = {[goalId |-> cont.scheduledFor, boundary |-> b]}
    <3>1. PICK b \in BOOLEAN : cont.timers = {[goalId |-> cont.scheduledFor, boundary |-> b]}
      BY <2>2
    <3> DEFINE t == [goalId |-> cont.scheduledFor, boundary |-> b]
    <3>2. cont.timers = {t} /\ cont.timers # {}
      BY <3>1
    <3> HIDE DEF t
    <3>3. Cardinality(cont.timers) = 1
      BY <3>2, FS_Singleton
    <3> QED
      BY <2>2, <3>2, <3>3 DEF OneTimer
  <2> QED
    BY <1>1, <2>1, <2>2, Parts DEF ContInv
<1> QED
  BY <1>1, RuntimeInvariant, PTL

(* A goal that is paused, blocked, complete or gone has nothing scheduled  *)
(* and owns no loop (withdrawGoalWork on every way out of active).         *)
THEOREM StoppedGoalHasNoWork == Spec => []NoWorkForStoppedGoal
<1>1. RuntimeInv => NoWorkForStoppedGoal
  BY Parts DEF NoWorkForStoppedGoal, GoalFits, ContInv, Outstanding
<1> QED
  BY <1>1, RuntimeInvariant, PTL

-----------------------------------------------------------------------------
(* What no step does.                                                      *)

(* The message whose delivery arms the next boundary is the one sent last  *)
(* (goalMessageDelivered).                                                 *)
THEOREM AcknowledgesItsMessage == Spec => AckMatchesMessage
<1>1. RuntimeInv /\ [Next]_vars
        => [(cont.phase = "queued" /\ cont'.phase = "delivered")
              => Head(host.goalQueue) = cont.sentFor]_vars
  BY EveryStep DEF StepIsOK
<1> QED
  BY <1>1, RuntimeInvariant, PTL DEF Spec, AckMatchesMessage

(* No goal message is sent for a goal that is not active, for one with a   *)
(* blown fuse, or while a peer owns the session (requestContinuation).     *)
THEOREM SendsOnlyAdmitted == Spec => SendsAreAdmitted
<1>1. RuntimeInv /\ [Next]_vars
        => [Len(host'.goalQueue) > Len(host.goalQueue) =>
              /\ IsActive(store'.goal)
              /\ ~Exhausted(store'.goal.execution)
              /\ ~yielding]_vars
  BY EveryStep DEF StepIsOK, Admitted
<1> QED
  BY <1>1, RuntimeInvariant, PTL DEF Spec, SendsAreAdmitted

(* The extension never cancels a loop a user's message drives              *)
(* (withdrawGoalWork, outstanding).                                        *)
THEOREM UserLoopIsSpared == Spec => AbortsSpareUserLoop
<1>1. RuntimeInv /\ [Next]_vars
        => [(host'.loop = "running" /\ host'.aborted /\ ~host.aborted /\ ~HumanAborts)
              => host.work # "user"]_vars
  BY EveryStep DEF StepIsOK
<1> QED
  BY <1>1, RuntimeInvariant, PTL DEF Spec, AbortsSpareUserLoop

(* The owner is left to wait for a message that is not there by a human's  *)
(* abort and by nothing else (withdrawGoalWork, clear, clearSchedule).     *)
THEOREM MessagesAreLostByAbortsOnly == Spec => OnlyHumanLosesMessage
<1>1. RuntimeInv /\ [Next]_vars
        => [WaitsForNothing' /\ ~WaitsForNothing => HumanAborts]_vars
  BY EveryStep DEF StepIsOK
<1> QED
  BY <1>1, RuntimeInvariant, PTL DEF Spec, OnlyHumanLosesMessage

(* A loop once recognised as the goal's stays so while it runs             *)
(* (clearSchedule keeps ownership).                                        *)
THEOREM RecognisedLoopStays == Spec => GoalLoopStaysRecognised
<1>1. RuntimeInv /\ [Next]_vars
        => [(GoalLoop /\ Outstanding(cont) /\ GoalLoop') => Outstanding(cont')]_vars
  BY EveryStep DEF StepIsOK
<1> QED
  BY <1>1, RuntimeInvariant, PTL DEF Spec, GoalLoopStaysRecognised

(* A goal that is not active is not made so by the machine.                *)
LEMMA NothingRevives ==
  ASSUME RuntimeInv, [Next]_vars, ~IsActive(store.goal), IsActive(store'.goal)
  PROVE  StartGoal \/ ResumeCommand
<1>1. store' # store
  OBVIOUS
<1>2. ~Moved(store.goal)
  BY SettledMembers DEF Moved
<1>3. CASE Commands
  BY <1>2, <1>3, PauseCommandStep, ClearCommandStep DEF Commands, CanPause, IsActive
<1>4. ~CallTools
  <2> SUFFICES ASSUME CallTools PROVE FALSE
    OBVIOUS
  <2>1. PICK identity \in SeenIdentities :
          \/ \E call \in ToolCalls, handoff \in {EmptyNotes} \cup Notes :
               CompleteStage(call, identity, handoff)
          \/ BlockStage(identity)
          \/ \E revision \in 0..(MaxRevision - 1), notes \in {EmptyNotes} \cup Notes,
                refs \in SUBSET Evidence :
               UpdateMemory(identity, revision, notes, refs)
    BY DEF CallTools
  <2>2. CASE \/ \E call \in ToolCalls, handoff \in {EmptyNotes} \cup Notes :
                  CompleteStage(call, identity, handoff)
             \/ BlockStage(identity)
    BY <2>2, CompleteStageStep, BlockStageStep DEF CanBlock
  <2>3. CASE \E revision \in 0..(MaxRevision - 1), notes \in {EmptyNotes} \cup Notes,
                refs \in SUBSET Evidence :
               UpdateMemory(identity, revision, notes, refs)
    BY <2>3, UpdateMemoryStep DEF UpdatesGoal
  <2> QED
    BY <2>1, <2>2, <2>3
<1>5. ~HostEvents
  BY <1>1, <1>2, DeliverMessageStep, AgentStartStep, TurnStartStep, TurnStoresInv,
     ProviderRequestStep, CompactionStep, AgentEndStep, TimerFiresStep, HostSettlesStep
     DEF HostEvents
<1>6. ~SessionStart
  BY SessionStartStep, Parts, KnownTypes
<1>7. ~Sessions
  BY <1>1, <1>6, RestoreBranchStep, SessionShutdownStep, CrashStep DEF Sessions
<1>8. ~(MessageArrives \/ HumanAborts \/ OwnershipChanges)
  BY <1>1, MessageArrivesStep, HumanAbortsStep, OwnershipChangesStep
<1> QED
  BY <1>1, <1>3, <1>4, <1>5, <1>7, <1>8 DEF Next, vars

(* Only a command of the human makes work run again: no restart, no failed *)
(* append, no late call and no delivery does (restoreBranchGoal).          *)
THEOREM OnlyTheHumanRestarts == Spec => WorkRestartsOnlyByHuman
<1>1. RuntimeInv /\ [Next]_vars
        => [~IsActive(store.goal) /\ IsActive(store'.goal) => StartGoal \/ ResumeCommand]_vars
  BY NothingRevives
<1> QED
  BY <1>1, RuntimeInvariant, PTL DEF Spec, WorkRestartsOnlyByHuman

-----------------------------------------------------------------------------
(* What was acknowledged is saved.                                         *)

LEMMA SeqGrows ==
  ASSUME NEW S, NEW T, S \subseteq T, NEW s \in Seq(S)
  PROVE  s \in Seq(T)
OBVIOUS

(* The goal stays, goes, or goes on.                                       *)
GoesOn(g, k) == k = g \/ k = NoGoal \/ (g # NoGoal /\ SameGoalOn(g, k))

LEMMA SettledGoesOn ==
  ASSUME NEW n \in Nat, NEW g, Known(g, n), NEW k, Known(k, n), GoesOn(g, k),
         NEW j \in Settled(k)
  PROVE  GoesOn(g, j)
<1>1. CASE j = k
  BY <1>1
<1>2. CASE IsActive(k) /\ j = PauseForExhaustion(k)
  <2>1. k # NoGoal /\ SameGoalOn(k, j) /\ Known(j, n)
    BY <1>2, StatusMoves DEF IsActive
  <2>2. CASE k = g
    BY <2>1, <2>2 DEF GoesOn
  <2>3. CASE g # NoGoal /\ SameGoalOn(g, k)
    <3>1. g.index \in Nat /\ k.index \in Nat /\ j.index \in Nat
      BY <2>1, <2>3, KnownIdentity, SoundTypes DEF SameGoalOn
    <3> QED
      BY <2>1, <2>3, <3>1 DEF GoesOn, SameGoalOn
  <2> QED
    BY <2>1, <2>2, <2>3 DEF GoesOn
<1> QED
  BY <1>1, <1>2, SettledMembers

LEMMA PastStaysPast ==
  ASSUME NEW n \in Nat, NEW g, Known(g, n), NEW k, Known(k, n), GoesOn(g, k)
  PROVE  PastCompletions(g, n) \subseteq PastCompletions(k, n)
<1> SUFFICES ASSUME NEW record \in PastCompletions(g, n)
             PROVE  record \in PastCompletions(k, n)
  OBVIOUS
<1>1. record \in Completion /\ record.identity.goalId \in 1..n /\ Behind(record, g)
  BY DEF PastCompletions
<1>2. record.identity.index \in Nat
  BY <1>1 DEF Completion, Identity
<1>3. ASSUME g # NoGoal, SameGoalOn(g, k) PROVE Behind(record, k)
  <2>1. g.index \in Nat /\ k.index \in Nat
    BY <1>3, KnownIdentity, SoundTypes DEF SameGoalOn
  <2> QED
    BY <1>1, <1>2, <1>3, <2>1 DEF Behind, SameGoalOn
<1>4. Behind(record, k)
  BY <1>1, <1>3 DEF GoesOn, Behind
<1> QED
  BY <1>1, <1>4 DEF PastCompletions

LEMMA AcceptedStays ==
  ASSUME RuntimeInv, RuntimeInv', AcceptedInv, accepted' = accepted,
         used'["goals"] = used["goals"], GoesOn(store.goal, store'.goal)
  PROVE  AcceptedInv'
<1>1. Known(store'.goal, used["goals"])
  BY DEF RuntimeInv, StoreInv
<1> QED
  BY <1>1, Parts, PastStaysPast, SeqGrows DEF AcceptedInv

LEMMA MovedGoesOn ==
  ASSUME RuntimeInv, NEW k, Known(k, used["goals"]), GoesOn(store.goal, k), Moved(k)
  PROVE  GoesOn(store.goal, store'.goal)
<1>1. CASE store'.goal = store.goal
  BY <1>1 DEF GoesOn
<1>2. CASE store'.goal \in Settled(k)
  BY <1>2, Parts, SettledGoesOn
<1> QED
  BY <1>1, <1>2 DEF Moved

LEMMA AcceptedAtStart ==
  ASSUME RuntimeInv, AcceptedInv, StartGoal
  PROVE  AcceptedInv'
<1> DEFINE n == used["goals"]
           m == n + 1
<1>1. /\ accepted' = accepted /\ used'["goals"] = m /\ n \in Nat
      /\ m \in Nat /\ n < m
  <2>1. used'["goals"] = m /\ accepted' = accepted
    BY StartGoalStep, Zenon DEF StartGoal
  <2>2. n \in Nat
    BY Parts
  <2> QED
    BY <2>1, <2>2
<1>2. PICK steps \in 1..MaxSteps : Moved(NewGoal(m, steps, Limits))
  BY StartGoalStep
<1> DEFINE g == NewGoal(m, steps, Limits)
<1>3. Known(g, m) /\ g.goalId = m /\ g # NoGoal
  <2>1. Known(g, m) /\ g.goalId = m
    BY <1>1, NewGoalKnown
  <2>2. g \in GoalRecord
    <3>1. steps \in Nat /\ steps > 0
      BY BoundsAreNumbers
    <3>2. Sound(g)
      BY <1>1, <3>1, LimitsAssumption, NewGoalSound
    <3> QED
      BY <3>2, SoundTypes
  <2> QED
    BY <2>1, <2>2, NoGoalAssumption
<1> HIDE DEF g, m
<1>4. store'.goal = store.goal \/ store'.goal.goalId = m
  <2>1. ASSUME IsActive(g) PROVE PauseForExhaustion(g).goalId = m
    BY <1>1, <1>3, <2>1, StatusMoves DEF SameGoalOn
  <2> QED
    BY <1>2, <1>3, <2>1, SettledMembers DEF Moved, g
<1>5. PastCompletions(store.goal, n) \subseteq PastCompletions(store'.goal, m)
  <2> SUFFICES ASSUME NEW record \in PastCompletions(store.goal, n)
               PROVE  record \in PastCompletions(store'.goal, m)
    OBVIOUS
  <2>1. /\ record \in Completion /\ record.identity.goalId \in 1..n
        /\ Behind(record, store.goal)
    BY DEF PastCompletions
  <2>2. record.identity.goalId \in 1..m /\ record.identity.goalId # m
    BY <1>1, <2>1
  <2>3. Behind(record, store'.goal)
    BY <1>4, <2>1, <2>2 DEF Behind
  <2> QED
    BY <2>1, <2>2, <2>3 DEF PastCompletions
<1> QED
  BY <1>1, <1>5, SeqGrows DEF AcceptedInv

LEMMA AcceptedAtCompletion ==
  ASSUME RuntimeInv, AcceptedInv, NEW call \in ToolCalls, NEW identity,
         NEW handoff \in {EmptyNotes} \cup Notes, CompleteStage(call, identity, handoff)
  PROVE  AcceptedInv'
<1> DEFINE n == used["goals"]
           g == store.goal
           k == AcceptCompletion(g, handoff)
           record == [call |-> call, identity |-> identity]
<1>1. /\ RuntimeInv' /\ used' = used /\ IsActive(g) /\ g # NoGoal /\ Moved(k)
      /\ \/ accepted' = accepted
         \/ /\ identity = IdentityOf(g)
            /\ accepted' = RememberCompletion(call, identity)
            /\ store'.goal \in Settled(k)
  BY CompleteStageStep DEF IsActive
<1>2. /\ Known(k, n) /\ SameGoalOn(g, k)
      /\ k.index = g.index + 1 \/ k.status = "complete"
  BY <1>1, Parts, CompletionKnown
<1> HIDE DEF k
<1>3. GoesOn(g, store'.goal)
  BY <1>1, <1>2, MovedGoesOn DEF GoesOn
<1>4. CASE accepted' = accepted
  BY <1>1, <1>3, <1>4, AcceptedStays
<1>5. CASE /\ identity = IdentityOf(g)
           /\ accepted' = RememberCompletion(call, identity)
           /\ store'.goal \in Settled(k)
  <2>1. /\ identity \in Identity /\ identity.goalId = g.goalId /\ identity.index = g.index
        /\ g.goalId \in 1..n /\ g.index \in Nat
    BY <1>1, <1>5, Parts, KnownIdentity, SoundTypes DEF IdentityOf, Known
  <2>2. record \in Completion /\ record.identity = identity
    BY <2>1 DEF Completion
  <2> HIDE DEF record
  <2>3. store'.goal.index > g.index \/ store'.goal.status = "complete"
    <3>1. CASE store'.goal = k
      BY <1>2, <2>1, <3>1
    <3>2. CASE IsActive(k) /\ store'.goal = PauseForExhaustion(k)
      <4>1. SameGoalOn(k, store'.goal) /\ k.index = g.index + 1
        BY <1>2, <3>2, Parts, StatusMoves DEF IsActive
      <4>2. store'.goal.index \in Nat /\ k.index \in Nat
        BY <1>1, <1>2, <2>1, <4>1, KnownIdentity, SoundTypes DEF RuntimeInv, StoreInv, SameGoalOn,
           Bounds
      <4> QED
        BY <2>1, <4>1, <4>2 DEF SameGoalOn
    <3> QED
      BY <1>5, <3>1, <3>2, SettledMembers
  <2>4. record \in PastCompletions(store'.goal, n)
    BY <2>1, <2>2, <2>3 DEF PastCompletions, Behind
  <2>5. accepted \in Seq(PastCompletions(store'.goal, n))
    <3>1. Known(store'.goal, n)
      BY <1>1 DEF RuntimeInv, StoreInv
    <3> QED
      BY <1>3, <3>1, Parts, PastStaysPast, SeqGrows DEF AcceptedInv
  <2>6. RememberCompletion(call, identity) \in Seq(PastCompletions(store'.goal, n))
    BY <2>4, <2>5, RememberedType DEF record
  <2> QED
    BY <1>1, <1>5, <2>6 DEF AcceptedInv
<1> QED
  BY <1>1, <1>4, <1>5

LEMMA RestoreGoesOn ==
  ASSUME NEW n \in Nat, NEW g, Known(g, n)
  PROVE  GoesOn(g, RestoreBranchGoal(g))
<1>1. CASE g = NoGoal
  BY <1>1 DEF GoesOn, RestoreBranchGoal, IsActive
<1>2. CASE g # NoGoal
  BY <1>2, StatusMoves DEF GoesOn
<1> QED
  BY <1>1, <1>2

(* Every other step keeps the goal, drops it or takes it on.               *)
LEMMA CommandGoesOn ==
  ASSUME RuntimeInv, PauseCommand \/ ResumeCommand \/ ClearCommand
  PROVE  GoesOn(store.goal, store'.goal) /\ UNCHANGED <<accepted, used>>
<1> DEFINE g == store.goal
<1>1. CASE PauseCommand
  <2>1. CanPause(g) /\ Moved(PauseGoal(g)) /\ UNCHANGED <<accepted, used>>
    BY <1>1, PauseCommandStep DEF PauseCommand
  <2>2. Known(PauseGoal(g), used["goals"]) /\ GoesOn(g, PauseGoal(g))
    BY <2>1, Parts, StatusMoves DEF GoesOn, CanPause, IsActive
  <2> QED
    BY <2>1, <2>2, MovedGoesOn
<1>2. CASE ResumeCommand
  <2> DEFINE k == ApplyResumeGrant(ResumeGoal(g))
  <2>1. CanResume(g) /\ Moved(k) /\ UNCHANGED <<accepted, used>>
    BY <1>2, ResumeCommandStep DEF ResumeCommand
  <2>2. Known(k, used["goals"]) /\ GoesOn(g, k)
    BY <2>1, Parts, StatusMoves DEF GoesOn, CanResume
  <2> HIDE DEF k
  <2> QED
    BY <2>1, <2>2, MovedGoesOn
<1>3. CASE ClearCommand
  <2>1. store'.goal \in {NoGoal, g} /\ UNCHANGED <<accepted, used>>
    BY <1>3, ClearCommandStep DEF ClearCommand
  <2> QED
    BY <2>1 DEF GoesOn
<1> QED
  BY <1>1, <1>2, <1>3

LEMMA ToolGoesOn ==
  ASSUME RuntimeInv, NEW identity,
         \/ BlockStage(identity)
         \/ \E revision \in 0..(MaxRevision - 1), notes \in {EmptyNotes} \cup Notes,
               refs \in SUBSET Evidence :
              UpdateMemory(identity, revision, notes, refs)
  PROVE  GoesOn(store.goal, store'.goal) /\ UNCHANGED <<accepted, used>>
<1> DEFINE g == store.goal
<1>1. CASE BlockStage(identity)
  <2>1. CanBlock(g) /\ Moved(BlockGoal(g)) /\ UNCHANGED <<accepted, used>>
    BY <1>1, BlockStageStep
  <2>2. Known(BlockGoal(g), used["goals"]) /\ GoesOn(g, BlockGoal(g))
    BY <2>1, Parts, StatusMoves DEF GoesOn, CanBlock, IsActive
  <2> QED
    BY <2>1, <2>2, MovedGoesOn
<1>2. CASE \E revision \in 0..(MaxRevision - 1), notes \in {EmptyNotes} \cup Notes,
              refs \in SUBSET Evidence :
             UpdateMemory(identity, revision, notes, refs)
  BY <1>2, UpdateMemoryStep DEF UpdatesGoal, GoesOn
<1> QED
  BY <1>1, <1>2

LEMMA HostEventGoesOn ==
  ASSUME RuntimeInv, HostEvents
  PROVE  GoesOn(store.goal, store'.goal) /\ UNCHANGED <<accepted, used>>
<1> DEFINE g == store.goal
<1>1. CASE \/ \E sender \in Senders : DeliverMessage(sender)
           \/ TimerFires \/ HostSettles
  <2>1. UNCHANGED <<store, accepted, used>>
    BY <1>1, DeliverMessageStep, TimerFiresStep, HostSettlesStep
  <2> QED
    BY <2>1 DEF GoesOn
<1>2. CASE AgentStart \/ TurnStart
  <2>1. store' \in TurnStores /\ UNCHANGED <<accepted, used>>
    BY <1>2, AgentStartStep, TurnStartStep
  <2> DEFINE e == BeginAgentTurn(g.execution)
  <2>2. store'.goal = g \/ (g # NoGoal /\ store'.goal = WithExecution(g, e))
    BY <2>1, TurnStoresInv
  <2>3. ASSUME g # NoGoal PROVE SameGoalOn(g, WithExecution(g, e))
    <3>1. IsGoalExecution(g.execution)
      BY <2>3, Parts, KnownIdentity, SoundTypes
    <3>2. e \in ExecutionRecord
      BY <3>1, BeginAgentTurnSpendsNoRequest DEF IsGoalExecution
    <3> HIDE DEF e
    <3> QED
      BY <2>3, <3>2, Parts, ChargesKnown
  <2> QED
    BY <2>1, <2>2, <2>3 DEF GoesOn
<1>3. ASSUME Moved(g) PROVE GoesOn(g, store'.goal)
  BY <1>3, Parts, MovedGoesOn DEF GoesOn
<1>4. CASE ProviderRequest
  <2> DEFINE k == WithExecution(g, ChargeRequest(g.execution))
  <2>1. /\ IsActive(g) /\ UNCHANGED <<accepted, used>>
        /\ Moved(g) \/ (~Exhausted(g.execution) /\ Moved(k))
    BY <1>4, ProviderRequestStep
  <2>2. ASSUME ~Exhausted(g.execution)
        PROVE  Known(k, used["goals"]) /\ GoesOn(g, k)
    BY <2>1, <2>2, Parts, RequestCharged DEF GoesOn, IsActive
  <2> HIDE DEF k
  <2> QED
    BY <1>3, <2>1, <2>2, MovedGoesOn
<1>5. CASE Compaction
  <2> DEFINE k == WithExecution(g, ChargeContext(g.execution))
  <2>1. /\ UNCHANGED <<accepted, used>>
        /\ Moved(g) \/ (IsActive(g) /\ Moved(k))
    BY <1>5, CompactionStep
  <2>2. ASSUME IsActive(g)
        PROVE  Known(k, used["goals"]) /\ GoesOn(g, k)
    BY <2>2, Parts, ContextCharged DEF GoesOn, IsActive
  <2> HIDE DEF k
  <2> QED
    BY <1>3, <2>1, <2>2, MovedGoesOn
<1>6. CASE AgentEnd
  BY <1>3, <1>6, AgentEndStep
<1> QED
  BY <1>1, <1>2, <1>4, <1>5, <1>6 DEF HostEvents

LEMMA AcceptedIsPast ==
  ASSUME MaxNavigations = 0, RuntimeInv, AcceptedInv, [Next]_vars
  PROVE  AcceptedInv'
<1>0. RuntimeInv'
  BY EveryStep
<1>1. CASE Commands
  <2>1. CASE StartGoal
    BY <2>1, AcceptedAtStart
  <2>2. CASE PauseCommand \/ ResumeCommand \/ ClearCommand
    BY <1>0, <2>2, CommandGoesOn, AcceptedStays
  <2> QED
    BY <1>1, <2>1, <2>2 DEF Commands
<1>2. CASE CallTools
  <2>1. PICK identity \in SeenIdentities :
          \/ \E call \in ToolCalls, handoff \in {EmptyNotes} \cup Notes :
               CompleteStage(call, identity, handoff)
          \/ BlockStage(identity)
          \/ \E revision \in 0..(MaxRevision - 1), notes \in {EmptyNotes} \cup Notes,
                refs \in SUBSET Evidence :
               UpdateMemory(identity, revision, notes, refs)
    BY <1>2 DEF CallTools
  <2>2. CASE \E call \in ToolCalls, handoff \in {EmptyNotes} \cup Notes :
               CompleteStage(call, identity, handoff)
    BY <2>2, AcceptedAtCompletion
  <2>3. CASE \/ BlockStage(identity)
             \/ \E revision \in 0..(MaxRevision - 1), notes \in {EmptyNotes} \cup Notes,
                   refs \in SUBSET Evidence :
                  UpdateMemory(identity, revision, notes, refs)
    BY <1>0, <2>3, ToolGoesOn, AcceptedStays
  <2> QED
    BY <2>1, <2>2, <2>3
<1>3. CASE HostEvents
  BY <1>0, <1>3, HostEventGoesOn, AcceptedStays
<1>4. CASE Sessions
  <2>1. ~RestoreBranch
    BY Parts, RestoreBranchStep
  <2>2. CASE SessionShutdown \/ Crash
    BY <1>0, <2>2, SessionShutdownStep, CrashStep, AcceptedStays DEF GoesOn
  <2>3. CASE SessionStart
    BY <2>3, SessionStartStep DEF AcceptedInv
  <2> QED
    BY <1>4, <2>1, <2>2, <2>3 DEF Sessions
<1>5. CASE MessageArrives \/ HumanAborts \/ OwnershipChanges
  BY <1>0, <1>5, MessageArrivesStep, HumanAbortsStep, OwnershipChangesStep, AcceptedStays
     DEF GoesOn
<1>6. CASE UNCHANGED vars
  BY <1>6 DEF vars, AcceptedInv
<1> QED
  BY <1>1, <1>2, <1>3, <1>4, <1>5, <1>6 DEF Next

(* A completion the agent may have acknowledged again by a replay is       *)
(* saved, as long as the human stays on one branch (completeStage persists *)
(* before it remembers; an older branch may lie before the completion).    *)
THEOREM AcknowledgedIsSaved ==
  ASSUME MaxNavigations = 0
  PROVE  Spec => []AcknowledgedStepsAreDurable
<1>1. Init => AcceptedInv
  BY DEF Init, AcceptedInv
<1>2. RuntimeInv /\ AcceptedInv /\ [Next]_vars => AcceptedInv'
  BY AcceptedIsPast
<1>3. ASSUME RuntimeInv, AcceptedInv PROVE AcknowledgedStepsAreDurable
  <2> SUFFICES ASSUME NEW record \in ToSet(accepted), store.leaf # NoGoal,
                      store.leaf.goalId = record.identity.goalId
               PROVE  \/ store.leaf.index > record.identity.index
                      \/ store.leaf.status = "complete"
    BY DEF AcknowledgedStepsAreDurable
  <2>1. Behind(record, store.goal)
    BY <1>3 DEF AcceptedInv, ToSet, PastCompletions
  <2>2. CASE store.goal = store.leaf
    BY <2>1, <2>2 DEF Behind
  <2>3. CASE store.goal # store.leaf
    <3>1. /\ IsActive(store.leaf) /\ store.leaf \in GoalRecord
          /\ store.goal = [store.leaf EXCEPT !.status = "paused", !.pauseReason = "restored"]
      <4>1. Known(store.leaf, used["goals"]) /\ store.goal = RestoreBranchGoal(store.leaf)
        BY <1>3, <2>3, Parts DEF StoreInv
      <4> QED
        BY <1>3, <2>3, <4>1, Parts, KnownIdentity DEF RestoreBranchGoal
    <3>2. /\ store.goal.goalId = store.leaf.goalId /\ store.goal.index = store.leaf.index
          /\ store.goal.status = "paused" /\ store.goal \in GoalRecord
      BY <3>1 DEF GoalRecord, GoalStatus, PauseReasons
    <3>3. store.goal # NoGoal
      BY <3>2, NoGoalAssumption
    <3> QED
      BY <2>1, <3>2, <3>3 DEF Behind
  <2> QED
    BY <2>2, <2>3
<1> QED
  BY <1>1, <1>2, <1>3, RuntimeInvariant, PTL DEF Spec

-----------------------------------------------------------------------------
(* The goal on file moves as the goal ledger allows.                       *)

(* The ledger's operators are the record's own.                            *)
LEMMA LedgerFuses ==
  ASSUME NEW g
  PROVE  /\ Ledger!IsActive(g) = IsActive(g)
         /\ Ledger!Exhausted(g.execution) = Exhausted(g.execution)
         /\ Ledger!CanPause(g) = CanPause(g) /\ Ledger!CanBlock(g) = CanBlock(g)
         /\ Ledger!CanResume(g) = CanResume(g)
         /\ Ledger!Settled(g) = Settled(g)
<1>1. Ledger!IsActive(g) = IsActive(g)
  BY DEF Ledger!IsActive, IsActive
<1>2. Ledger!Exhausted(g.execution) = Exhausted(g.execution)
  BY DEF Ledger!Exhausted, Exhausted, Ledger!AllowanceExhaustion, AllowanceExhaustion
<1>3. Ledger!CanPause(g) = CanPause(g) /\ Ledger!CanBlock(g) = CanBlock(g)
  BY DEF Ledger!CanPause, CanPause, Ledger!CanBlock, CanBlock, Ledger!IsActive, IsActive
<1>4. Ledger!CanResume(g) = CanResume(g)
  BY DEF Ledger!CanResume, CanResume
<1>5. Ledger!Settled(g) = Settled(g)
  BY DEF Ledger!Settled, Settled, Ledger!IsActive, IsActive, Ledger!PauseForExhaustion,
     PauseForExhaustion, Ledger!PauseGoal, PauseGoal, Ledger!Exhausted, Exhausted,
     Ledger!AllowanceExhaustion, AllowanceExhaustion
<1> QED
  BY <1>1, <1>2, <1>3, <1>4, <1>5

LEMMA LedgerMoves ==
  ASSUME NEW g
  PROVE  /\ Ledger!PauseGoal(g) = PauseGoal(g) /\ Ledger!BlockGoal(g) = BlockGoal(g)
         /\ Ledger!PauseForExhaustion(g) = PauseForExhaustion(g)
         /\ Ledger!ApplyResumeGrant(Ledger!ResumeGoal(g)) = ApplyResumeGrant(ResumeGoal(g))
         /\ Ledger!RestoreBranchGoal(g) = RestoreBranchGoal(g)
<1>1. Ledger!PauseGoal(g) = PauseGoal(g) /\ Ledger!BlockGoal(g) = BlockGoal(g)
  BY DEF Ledger!PauseGoal, PauseGoal, Ledger!BlockGoal, BlockGoal
<1>2. Ledger!PauseForExhaustion(g) = PauseForExhaustion(g)
  BY DEF Ledger!PauseForExhaustion, PauseForExhaustion, Ledger!PauseGoal, PauseGoal,
     Ledger!AllowanceExhaustion, AllowanceExhaustion
<1>3. Ledger!ApplyResumeGrant(Ledger!ResumeGoal(g)) = ApplyResumeGrant(ResumeGoal(g))
  BY DEF Ledger!ApplyResumeGrant, ApplyResumeGrant, Ledger!ResumeGoal, ResumeGoal,
     Ledger!ResumeGrant, ResumeGrant
<1>4. Ledger!RestoreBranchGoal(g) = RestoreBranchGoal(g)
  BY DEF Ledger!RestoreBranchGoal, RestoreBranchGoal, Ledger!IsActive, IsActive
<1> QED
  BY <1>1, <1>2, <1>3, <1>4

LEMMA LedgerCharges ==
  ASSUME NEW g
  PROVE  /\ Ledger!WithExecution(g, Ledger!ChargeRequest(g.execution))
              = WithExecution(g, ChargeRequest(g.execution))
         /\ Ledger!WithExecution(g, Ledger!ChargeContext(g.execution))
              = WithExecution(g, ChargeContext(g.execution))
         /\ Ledger!WithExecution(g, Ledger!BeginAgentTurn(g.execution))
              = WithExecution(g, BeginAgentTurn(g.execution))
<1>1. Ledger!ChargeRequest(g.execution) = ChargeRequest(g.execution)
  BY DEF Ledger!ChargeRequest, ChargeRequest, Ledger!Exhausted, Exhausted,
     Ledger!AllowanceExhaustion, AllowanceExhaustion, Ledger!Greatest, Greatest
<1>2. Ledger!ChargeContext(g.execution) = ChargeContext(g.execution)
  BY DEF Ledger!ChargeContext, ChargeContext, Ledger!Exhausted, Exhausted,
     Ledger!AllowanceExhaustion, AllowanceExhaustion, Ledger!Greatest, Greatest
<1>3. Ledger!BeginAgentTurn(g.execution) = BeginAgentTurn(g.execution)
  BY DEF Ledger!BeginAgentTurn, BeginAgentTurn
<1>4. ASSUME NEW e PROVE Ledger!WithExecution(g, e) = WithExecution(g, e)
  BY DEF Ledger!WithExecution, WithExecution
<1> QED
  BY <1>1, <1>2, <1>3, <1>4

LEMMA LedgerProgress ==
  ASSUME NEW g
  PROVE  /\ \A handoff : Ledger!AcceptCompletion(g, handoff) = AcceptCompletion(g, handoff)
         /\ \A refs : Ledger!CreditOutcomes(g, refs) = CreditOutcomes(g, refs)
         /\ \A notes : Ledger!WriteMemory(g, notes) = WriteMemory(g, notes)
         /\ \A id, steps : Ledger!NewGoal(id, steps, Limits) = NewGoal(id, steps, Limits)
<1>1. ASSUME NEW handoff
      PROVE  Ledger!AcceptCompletion(g, handoff) = AcceptCompletion(g, handoff)
  BY DEF Ledger!AcceptCompletion, AcceptCompletion, Ledger!CompleteCurrentStage,
     CompleteCurrentStage, Ledger!IsLastStage, IsLastStage, Ledger!StageCount, StageCount,
     Ledger!EmptyMemory, EmptyMemory, Ledger!NextStepExecution, NextStepExecution
<1>2. ASSUME NEW refs
      PROVE  Ledger!CreditOutcomes(g, refs) = CreditOutcomes(g, refs)
  <2>1. Ledger!NovelKeys(g, refs) = NovelKeys(g, refs)
    BY DEF Ledger!NovelKeys, NovelKeys
  <2>2. Ledger!GrantsLeft(g) = GrantsLeft(g)
    BY DEF Ledger!GrantsLeft, GrantsLeft, Ledger!CreditGrantCap, CreditGrantCap,
       Ledger!Least, Least, Ledger!Greatest, Greatest
  <2>3. ASSUME NEW S PROVE Ledger!Cardinality(S) = Cardinality(S)
    BY DEF Ledger!Cardinality, Cardinality
  <2>4. ASSUME NEW a, NEW b PROVE Ledger!Least(a, b) = Least(a, b)
    BY DEF Ledger!Least, Least
  <2>5. ASSUME NEW fresh PROVE Ledger!CreditKeys(g, fresh) = CreditKeys(g, fresh)
    <3>1. ASSUME NEW e, NEW n PROVE Ledger!RenewForEvidence(e, n) = RenewForEvidence(e, n)
      BY DEF Ledger!RenewForEvidence, RenewForEvidence, Ledger!Least, Least
    <3> QED
      BY <2>3, <3>1 DEF Ledger!CreditKeys, CreditKeys
  <2> QED
    BY <2>1, <2>2, <2>3, <2>4, <2>5 DEF Ledger!CreditOutcomes, CreditOutcomes
<1>3. ASSUME NEW notes PROVE Ledger!WriteMemory(g, notes) = WriteMemory(g, notes)
  BY DEF Ledger!WriteMemory, WriteMemory
<1>4. ASSUME NEW id, NEW steps
      PROVE  Ledger!NewGoal(id, steps, Limits) = NewGoal(id, steps, Limits)
  BY DEF Ledger!NewGoal, NewGoal, Ledger!EmptyMemory, EmptyMemory, Ledger!FreshExecution,
     FreshExecution, Ledger!ClampedLimits, ClampedLimits, Ledger!Least, Least,
     Ledger!Greatest, Greatest
<1> QED
  BY <1>1, <1>2, <1>3, <1>4

LedgerStep == Ledger!LedgerNext \/ UNCHANGED Ledger!ledgerVars

(* The goal on file is the one in memory, before a step and after it.      *)
LEMMA LedgerView ==
  ASSUME RuntimeInv, RuntimeInv'
  PROVE  store.lastPersisted = store.goal /\ store'.lastPersisted = store'.goal
BY DEF RuntimeInv, StoreInv

LEMMA Recorded ==
  ASSUME RuntimeInv, RuntimeInv', used'["goals"] = used["goals"], NEW k, Moved(k)
  PROVE  Ledger!Commits(k) \/ UNCHANGED Ledger!ledgerVars
<1>1. store.lastPersisted = store.goal /\ store'.lastPersisted = store'.goal
  BY LedgerView
<1>2. Ledger!Settled(k) = Settled(k)
  BY LedgerFuses
<1> QED
  BY <1>1, <1>2 DEF Moved, Ledger!Commits, Ledger!ledgerVars

LEMMA GoalUntouched ==
  ASSUME RuntimeInv, RuntimeInv', used'["goals"] = used["goals"], store'.goal = store.goal
  PROVE  LedgerStep
BY LedgerView DEF LedgerStep, Ledger!ledgerVars

(* A goal that is only settled stays, or is paused for a blown fuse.       *)
LEMMA SettledIsRecorded ==
  ASSUME RuntimeInv, RuntimeInv', used'["goals"] = used["goals"], Moved(store.goal)
  PROVE  LedgerStep
<1> DEFINE g == store.goal
<1>1. CASE store'.goal = g
  BY <1>1, GoalUntouched
<1>2. CASE IsActive(g) /\ Exhausted(g.execution) /\ store'.goal = PauseForExhaustion(g)
  <2>1. Moved(PauseForExhaustion(g))
    BY <1>2, SettledMembers DEF Moved
  <2>2. Ledger!Commits(PauseForExhaustion(g)) \/ UNCHANGED Ledger!ledgerVars
    BY <2>1, Recorded
  <2> QED
    BY <1>2, <2>2, LedgerView, LedgerFuses, LedgerMoves
       DEF LedgerStep, Ledger!LedgerNext, Ledger!ExhaustionPause
<1> QED
  BY <1>1, <1>2, SettledMembers DEF Moved

LEMMA LedgerCommands ==
  ASSUME RuntimeInv, Commands
  PROVE  LedgerStep
<1> DEFINE g == store.goal
           n == used["goals"]
<1>0. RuntimeInv' /\ g = store.lastPersisted /\ store'.lastPersisted = store'.goal
  BY EveryStep, LedgerView DEF Next
<1>1. CASE StartGoal
  <2>1. PICK steps \in 1..MaxSteps : Moved(NewGoal(n + 1, steps, Limits))
    BY <1>1, StartGoalStep
  <2>2. n < MaxGoals /\ used'["goals"] = n + 1
    BY <1>1, StartGoalStep
  <2>3. Ledger!Settled(Ledger!NewGoal(n + 1, steps, Limits))
          = Settled(NewGoal(n + 1, steps, Limits))
    BY LedgerFuses, LedgerProgress
  <2>4. Ledger!Start
    BY <1>0, <2>1, <2>2, <2>3 DEF Moved, Ledger!Start
  <2> QED
    BY <2>4 DEF LedgerStep, Ledger!LedgerNext
<1>2. CASE PauseCommand
  <2>1. CanPause(g) /\ Moved(PauseGoal(g)) /\ used' = used
    BY <1>2, PauseCommandStep
  <2>2. Ledger!Commits(PauseGoal(g)) \/ UNCHANGED Ledger!ledgerVars
    BY <1>0, <2>1, Recorded
  <2> QED
    BY <1>0, <2>1, <2>2, LedgerFuses, LedgerMoves DEF LedgerStep, Ledger!LedgerNext, Ledger!Pause
<1>3. CASE ResumeCommand
  <2>1. CanResume(g) /\ Moved(ApplyResumeGrant(ResumeGoal(g))) /\ used' = used
    BY <1>3, ResumeCommandStep
  <2>2. Ledger!Commits(ApplyResumeGrant(ResumeGoal(g))) \/ UNCHANGED Ledger!ledgerVars
    BY <1>0, <2>1, Recorded
  <2> QED
    BY <1>0, <2>1, <2>2, LedgerFuses, LedgerMoves DEF LedgerStep, Ledger!LedgerNext, Ledger!Resume
<1>4. CASE ClearCommand
  <2>1. g # NoGoal /\ store'.goal \in {NoGoal, g} /\ used' = used
    BY <1>4, ClearCommandStep
  <2>2. CASE store'.goal = g
    BY <1>0, <2>1, <2>2, GoalUntouched
  <2>3. CASE store'.goal = NoGoal
    BY <1>0, <2>1, <2>3 DEF LedgerStep, Ledger!LedgerNext, Ledger!Clear
  <2> QED
    BY <2>1, <2>2, <2>3
<1> QED
  BY <1>1, <1>2, <1>3, <1>4 DEF Commands

LEMMA LedgerCompletion ==
  ASSUME RuntimeInv, RuntimeInv', NEW call \in ToolCalls, NEW identity,
         NEW handoff \in {EmptyNotes} \cup Notes, CompleteStage(call, identity, handoff)
  PROVE  LedgerStep
<1> DEFINE g == store.goal
<1>1. IsActive(g) /\ Moved(AcceptCompletion(g, handoff)) /\ used' = used
  BY CompleteStageStep
<1>2. Ledger!Commits(AcceptCompletion(g, handoff)) \/ UNCHANGED Ledger!ledgerVars
  BY <1>1, Recorded
<1>3. CASE Ledger!Commits(AcceptCompletion(g, handoff))
  <2>1. Ledger!Commits(Ledger!AcceptCompletion(g, handoff)) /\ Ledger!IsActive(g)
        /\ g = store.lastPersisted
    BY <1>1, <1>3, LedgerView, LedgerFuses, LedgerProgress
  <2>2. Ledger!Complete
    BY <2>1 DEF Ledger!Complete
  <2> QED
    BY <2>2 DEF LedgerStep, Ledger!LedgerNext
<1> QED
  BY <1>2, <1>3 DEF LedgerStep

LEMMA LedgerBlock ==
  ASSUME RuntimeInv, RuntimeInv', NEW identity, BlockStage(identity)
  PROVE  LedgerStep
<1> DEFINE g == store.goal
<1>1. CanBlock(g) /\ Moved(BlockGoal(g)) /\ used' = used
  BY BlockStageStep
<1>2. Ledger!Commits(BlockGoal(g)) \/ UNCHANGED Ledger!ledgerVars
  BY <1>1, Recorded
<1> QED
  BY <1>1, <1>2, LedgerView, LedgerFuses, LedgerMoves
     DEF LedgerStep, Ledger!LedgerNext, Ledger!Block

LEMMA LedgerMemory ==
  ASSUME RuntimeInv, RuntimeInv', NEW identity, NEW revision \in 0..(MaxRevision - 1),
         NEW notes \in {EmptyNotes} \cup Notes, NEW refs \in SUBSET Evidence,
         UpdateMemory(identity, revision, notes, refs)
  PROVE  LedgerStep
<1> DEFINE g == store.goal
           k == store'.goal
<1>1. /\ g # NoGoal /\ g.status # "complete" /\ used' = used
      /\ k = g \/ k \in MemoryOutcomes(g, revision, notes, refs)
  BY UpdateMemoryStep
<1>2. CASE k = g
  BY <1>1, <1>2, GoalUntouched
<1>3. CASE IsActive(g) /\ k \in CreditOutcomes(g, refs)
  <2>1. Ledger!Commits(k)
    BY <1>1, LedgerView, LedgerFuses, SettledMembers DEF Ledger!Commits
  <2>2. Ledger!Credit
    BY <1>3, <2>1, LedgerView, LedgerFuses, LedgerProgress DEF Ledger!Credit
  <2> QED
    BY <2>2 DEF LedgerStep, Ledger!LedgerNext
<1>4. CASE /\ revision = g.memory.revision
           /\ \E credited \in CreditedGoals(g, refs) : k = WriteMemory(credited, notes)
  <2>1. PICK credited \in CreditedGoals(g, refs) : k = WriteMemory(credited, notes)
    BY <1>4
  <2>2. Ledger!Commits(Ledger!WriteMemory(credited, notes))
    BY <1>1, <2>1, LedgerView, LedgerFuses, LedgerProgress, SettledMembers DEF Ledger!Commits
  <2>3. credited \in IF Ledger!IsActive(g) THEN Ledger!CreditOutcomes(g, refs) ELSE {g}
    BY <2>1, LedgerFuses, LedgerProgress DEF CreditedGoals
  <2>4. g.memory.revision < MaxRevision /\ g = store.lastPersisted
    BY <1>4, BoundsAreNumbers, LedgerView
  <2>5. Ledger!TakeNotes
    BY <1>1, <2>2, <2>3, <2>4 DEF Ledger!TakeNotes
  <2> QED
    BY <2>5 DEF LedgerStep, Ledger!LedgerNext
<1> QED
  BY <1>1, <1>2, <1>3, <1>4 DEF MemoryOutcomes, CreditedGoals

LEMMA LedgerHostEvents ==
  ASSUME RuntimeInv, RuntimeInv', HostEvents
  PROVE  LedgerStep
<1> DEFINE g == store.goal
<1>0. g = store.lastPersisted
  BY LedgerView
<1>1. CASE \/ \E sender \in Senders : DeliverMessage(sender)
           \/ TimerFires \/ HostSettles
  <2>1. UNCHANGED <<store, used>>
    BY <1>1, DeliverMessageStep, TimerFiresStep, HostSettlesStep
  <2> QED
    BY <2>1, GoalUntouched
<1>2. CASE AgentStart \/ TurnStart
  <2> DEFINE k == WithExecution(g, BeginAgentTurn(g.execution))
  <2>1. store' \in TurnStores /\ used' = used
    BY <1>2, AgentStartStep, TurnStartStep
  <2>2. store'.goal = g \/ (g # NoGoal /\ store'.goal = k)
    BY <2>1, TurnStoresInv
  <2>3. CASE store'.goal = g
    BY <2>1, <2>3, GoalUntouched
  <2>4. CASE g # NoGoal /\ store'.goal = k
    <3>1. Moved(k)
      BY <2>4, SettledMembers DEF Moved
    <3>2. Ledger!Commits(k) \/ UNCHANGED Ledger!ledgerVars
      BY <2>1, <3>1, Recorded
    <3> QED
      BY <1>0, <2>4, <3>2, LedgerCharges DEF LedgerStep, Ledger!LedgerNext, Ledger!BeginTurn
  <2> QED
    BY <2>2, <2>3, <2>4
<1>3. CASE ProviderRequest
  <2> DEFINE k == WithExecution(g, ChargeRequest(g.execution))
  <2>1. /\ IsActive(g) /\ used' = used
        /\ Moved(g) \/ (~Exhausted(g.execution) /\ Moved(k))
    BY <1>3, ProviderRequestStep
  <2>2. CASE Moved(g)
    BY <2>1, <2>2, SettledIsRecorded
  <2>3. CASE ~Exhausted(g.execution) /\ Moved(k)
    <3>1. Ledger!Commits(k) \/ UNCHANGED Ledger!ledgerVars
      BY <2>1, <2>3, Recorded
    <3> QED
      BY <1>0, <2>1, <2>3, <3>1, LedgerFuses, LedgerCharges
         DEF LedgerStep, Ledger!LedgerNext, Ledger!SpendRequest
  <2> QED
    BY <2>1, <2>2, <2>3
<1>4. CASE Compaction
  <2> DEFINE k == WithExecution(g, ChargeContext(g.execution))
  <2>1. /\ used' = used
        /\ Moved(g) \/ (IsActive(g) /\ ~Exhausted(g.execution) /\ Moved(k))
    BY <1>4, CompactionStep
  <2>2. CASE Moved(g)
    BY <2>1, <2>2, SettledIsRecorded
  <2>3. CASE IsActive(g) /\ ~Exhausted(g.execution) /\ Moved(k)
    <3>1. Ledger!Commits(k) \/ UNCHANGED Ledger!ledgerVars
      BY <2>1, <2>3, Recorded
    <3> QED
      BY <1>0, <2>3, <3>1, LedgerFuses, LedgerCharges
         DEF LedgerStep, Ledger!LedgerNext, Ledger!SpendContext
  <2> QED
    BY <2>1, <2>2, <2>3
<1>5. CASE AgentEnd
  <2>1. Moved(g) /\ used' = used
    BY <1>5, AgentEndStep
  <2> QED
    BY <2>1, SettledIsRecorded
<1> QED
  BY <1>1, <1>2, <1>3, <1>4, <1>5 DEF HostEvents

LEMMA LedgerRestart ==
  ASSUME RuntimeInv, RuntimeInv', SessionStart
  PROVE  LedgerStep
<1> DEFINE k == RestoreBranchGoal(store.goal)
<1>1. used'["goals"] = used["goals"] /\ Moved(k)
  BY SessionStartStep, SettledMembers DEF Moved
<1>2. Ledger!Commits(k) \/ UNCHANGED Ledger!ledgerVars
  BY <1>1, Recorded
<1>3. Ledger!RestoreBranchGoal(store.lastPersisted) = k
  BY LedgerView, LedgerMoves
<1> HIDE DEF k
<1> QED
  BY <1>2, <1>3 DEF LedgerStep, Ledger!LedgerNext, Ledger!Restore

LEMMA EveryLedgerStep ==
  ASSUME MaxNavigations = 0, RuntimeInv, [Next]_vars
  PROVE  LedgerStep
<1>0. RuntimeInv'
  BY EveryStep
<1>1. CASE Commands
  BY <1>1, LedgerCommands
<1>2. CASE CallTools
  <2>1. PICK identity \in SeenIdentities :
          \/ \E call \in ToolCalls, handoff \in {EmptyNotes} \cup Notes :
               CompleteStage(call, identity, handoff)
          \/ BlockStage(identity)
          \/ \E revision \in 0..(MaxRevision - 1), notes \in {EmptyNotes} \cup Notes,
                refs \in SUBSET Evidence :
               UpdateMemory(identity, revision, notes, refs)
    BY <1>2 DEF CallTools
  <2> QED
    BY <1>0, <2>1, LedgerCompletion, LedgerBlock, LedgerMemory
<1>3. CASE HostEvents
  BY <1>0, <1>3, LedgerHostEvents
<1>4. CASE Sessions
  <2>1. ~RestoreBranch
    BY Parts, RestoreBranchStep
  <2>2. CASE SessionShutdown \/ Crash
    <3>1. UNCHANGED <<store, used>>
      BY <2>2, SessionShutdownStep, CrashStep
    <3> QED
      BY <1>0, <3>1, GoalUntouched
  <2>3. CASE SessionStart
    BY <1>0, <2>3, LedgerRestart
  <2> QED
    BY <1>4, <2>1, <2>2, <2>3 DEF Sessions
<1>5. CASE MessageArrives \/ HumanAborts \/ OwnershipChanges
  <2>1. store' = store /\ used'["goals"] = used["goals"]
    BY <1>5, MessageArrivesStep, HumanAbortsStep, OwnershipChangesStep
  <2> QED
    BY <1>0, <2>1, GoalUntouched
<1>6. CASE UNCHANGED vars
  BY <1>6 DEF vars, LedgerStep, Ledger!ledgerVars
<1> QED
  BY <1>1, <1>2, <1>3, <1>4, <1>5, <1>6 DEF Next

(* On one branch the goal on file moves only as the ledger allows, under   *)
(* every interleaving of handlers, failed appends, crashes and restarts    *)
(* (navigation may bring back an older account of the goal).               *)
THEOREM RuntimeImplementsLedger ==
  ASSUME MaxNavigations = 0
  PROVE  Spec => ImplementsLedger
<1>1. Init => Ledger!LedgerInit
  BY DEF Init, Ledger!LedgerInit, Bounds
<1>2. RuntimeInv /\ [Next]_vars => [Ledger!LedgerNext]_Ledger!ledgerVars
  BY EveryLedgerStep DEF LedgerStep
<1> QED
  BY <1>1, <1>2, RuntimeInvariant, PTL DEF Spec, ImplementsLedger, Ledger!LedgerSpec

=============================================================================
