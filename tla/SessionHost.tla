----------------------------- MODULE SessionHost -----------------------------
(***************************************************************************)
(* The coding-agent host as src/src/runtime.ts and src/src/continuation.ts *)
(* use it: a queue of messages, one agent loop, isIdle, hasPendingMessages *)
(* and the process-global abort, which drains the queue and cancels the    *)
(* loop in flight (runtime.ts, comment on withdrawGoalWork).  The host is  *)
(* external code: only what the extension relies on is modelled, and where *)
(* the extension assumes nothing -- the order of messages of different     *)
(* senders, message events before or after agent_start -- the host is free.*)
(***************************************************************************)
EXTENDS Continuation

Senders == {"goal", "user", "peer"}

(* work is the sender of the message the loop is acting on.                *)
HostState ==
  [ loop      : {"idle", "running", "ending", "down"},
    started   : BOOLEAN,
    work      : Senders \cup {"none"},
    aborted   : BOOLEAN,
    goalQueue : Seq(Identity),
    waiting   : [{"user", "peer"} -> Nat] ]

IdleHost ==
  [ loop      |-> "idle",
    started   |-> FALSE,
    work      |-> "none",
    aborted   |-> FALSE,
    goalQueue |-> <<>>,
    waiting   |-> [sender \in {"user", "peer"} |-> 0] ]

DownHost == [IdleHost EXCEPT !.loop = "down"]

Up(h) == h.loop # "down"

IsIdle(h) == h.loop = "idle"

Waiting(h, sender) ==
  IF sender = "goal" THEN h.goalQueue # <<>> ELSE h.waiting[sender] > 0

HasPendingMessages(h) == \E sender \in Senders : Waiting(h, sender)

(* A loop that still runs tools and provider requests.                     *)
Working(h) == h.loop = "running" /\ h.started /\ ~h.aborted /\ h.work # "none"

SendGoalMessage(h, g) == [h EXCEPT !.goalQueue = Append(@, IdentityOf(g))]

Abort(h) ==
  [h EXCEPT !.goalQueue = <<>>,
            !.waiting = [sender \in {"user", "peer"} |-> 0],
            !.aborted = @ \/ h.loop = "running"]

CanDeliver(h, sender) ==
  h.loop \in {"idle", "running"} /\ ~h.aborted /\ Waiting(h, sender)

Deliver(h, sender) ==
  LET taken == [h EXCEPT !.loop = "running", !.work = sender] IN
  IF sender = "goal" THEN [taken EXCEPT !.goalQueue = Tail(@)]
  ELSE [taken EXCEPT !.waiting[sender] = @ - 1]

CanStartLoop(h) ==
  ~h.started /\ (h.loop = "running" \/ (h.loop = "idle" /\ HasPendingMessages(h)))

StartLoop(h) == [h EXCEPT !.loop = "running", !.started = TRUE]

CanEndLoop(h) == h.loop = "running" /\ h.started /\ (h.work # "none" \/ h.aborted)

(* agent_end is announced while the host is still winding down, or after.  *)
EndLoop(h, state) ==
  [h EXCEPT !.loop = state, !.started = FALSE, !.work = "none", !.aborted = FALSE]

=============================================================================
