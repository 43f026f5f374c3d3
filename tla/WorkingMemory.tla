----------------------------- MODULE WorkingMemory -----------------------------
(***************************************************************************)
(* What a bound working memory promises, without intents, receipts or a    *)
(* peer (GOAL_WITH_DAG_SUPPORT, section 3, as docs/peer-protocol.md        *)
(* section 6 tells it): one authority holds the memory of a work at a      *)
(* time, moving it there and back changes nothing in it, a move can be     *)
(* called off, and at the peer it only ever moves to a later version.      *)
(***************************************************************************)
EXTENDS Naturals

CONSTANTS Notes, EmptyNotes

VARIABLES work, owner, version, memory

Start ==
  /\ work = 1
  /\ owner = "goal"
  /\ version = 0
  /\ memory = EmptyNotes

Update ==
  /\ owner = "goal"
  /\ memory' \in Notes
  /\ UNCHANGED <<work, owner, version>>

StartMove ==
  /\ owner = "goal"
  /\ owner' = "moving"
  /\ UNCHANGED <<work, version, memory>>

CancelMove ==
  /\ owner = "moving"
  /\ owner' = "goal"
  /\ UNCHANGED <<work, version, memory>>

Arrive ==
  /\ owner = "moving"
  /\ owner' = "peer"
  /\ version' > version
  /\ UNCHANGED <<work, memory>>

Write ==
  /\ owner = "peer"
  /\ version' > version
  /\ memory' \in Notes
  /\ UNCHANGED <<work, owner>>

MoveBack ==
  /\ owner = "peer"
  /\ owner' = "goal"
  /\ version' = 0
  /\ UNCHANGED <<work, memory>>

NextWork ==
  /\ work' = work + 1
  /\ owner' = "goal"
  /\ version' = 0
  /\ memory' = EmptyNotes

Move == Update \/ StartMove \/ CancelMove \/ Arrive \/ Write \/ MoveBack \/ NextWork

Promise == Start /\ [][Move]_<<work, owner, version, memory>>

=============================================================================
