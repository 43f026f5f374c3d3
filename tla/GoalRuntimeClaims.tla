---------------------------- MODULE GoalRuntimeClaims ----------------------------
(***************************************************************************)
(* Comments of the code that the code does not keep in every interleaving: *)
(* the properties of runs that TLC ends with a counterexample.             *)
(***************************************************************************)
EXTENDS GoalRuntime

(* "Persistence failure admits no goal work: [...] no continuations for    *)
(* state that cannot be committed" (runtime.ts, requestContinuation).  The *)
(* retry timer of continuation.ts calls the owner's own request, below     *)
(* that gate.                                                              *)
NothingIsSentUnsaved ==
  [][Len(host'.goalQueue) > Len(host.goalQueue) => ~store'.persistenceBroken]_vars

(* The process-global abort "can never cancel peer or user work"           *)
(* (runtime.ts, withdrawGoalWork; continuation.ts, outstanding).  A user's *)
(* message delivered in front of the queued one is on record; a peer's is  *)
(* not, and neither is one that joins a loop of the goal's.                *)
AbortsSparePeerLoop ==
  [][(host'.loop = "running" /\ host'.aborted /\ ~host.aborted /\ ~HumanAborts)
       => host.work # "peer"]_vars

=============================================================================
