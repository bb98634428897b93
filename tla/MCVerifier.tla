----------------------------- MODULE MCVerifier -----------------------------
(***************************************************************************)
(* Verifier for TLC: three objects, so that the parent of the Machine that *)
(* is verified can itself be a fork.                                       *)
(***************************************************************************)
EXTENDS Verifier, FiniteSetsExt, TLC

CONSTANT MaxTotal   \* bound: provenance entries over all Machines

SmallEnough == MapThenSumSet(LAMBDA m : Len(log[m]), Live) <= MaxTotal

\* Neither a verification nor a second export depends on a file written
\* before, so only anchoring is explored once there is one.
OneFile ==
  evidence # None => job.mode \in {"anchor", "audit"} \/ (job.mode = "export" /\ job.todo = None)

Small == SmallEnough /\ OneFile

Symmetric == Permutations(ObjectIds)
=============================================================================
