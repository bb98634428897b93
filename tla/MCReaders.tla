----------------------------- MODULE MCReaders -----------------------------
(***************************************************************************)
(* The readers for TLC: three objects, so that the parent of the Machine   *)
(* that is verified can itself be a fork.                                  *)
(***************************************************************************)
EXTENDS Readers

CONSTANT MaxTotal   \* bound: provenance entries over all Machines

SmallEnough == MapThenSumSet(LAMBDA m : Len(log[m]), Live) <= MaxTotal

\* Neither a verification nor a second export depends on a file written
\* before, so only anchoring is explored once there is one.
OneFile ==
  evidence # None => job.mode \in {"anchor", "audit"} \/ (job.mode = "export" /\ job.todo = None)

\* The indexer and the verifier share nothing but the chain, which neither
\* changes, so one of them at a time is explored, and one replay.
OneReader == index = EmptyIndex /\ ((job = Idle /\ evidence = None) \/ sync = NotSyncing)

Small == SmallEnough /\ OneFile /\ OneReader

Symmetric == Permutations(ObjectIds)
=============================================================================
