--------------------------- MODULE PeerBindingClaims ---------------------------
(***************************************************************************)
(* A sentence of the protocol contract that the operations do not keep in  *)
(* every order of events.                                                  *)
(***************************************************************************)
EXTENDS PeerBinding

(* "replay the same id and payload; the peer returns the same receipt;     *)
(* Goal accepts it" (docs/peer-protocol.md section 5.1).  The replay of a  *)
(* detach reads its export again, at a revision its own commit has moved.  *)
CommittedReplaysSettle ==
  [][(/\ PeerAnswers /\ call.phase # "probe"
      /\ HasCommitted(log, goal.backend.pending.id))
       => call'.phase = "operation" \/ goal'.backend.pending = Nothing]_vars

=============================================================================
