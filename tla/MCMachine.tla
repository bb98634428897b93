----------------------------- MODULE MCMachine -----------------------------
(***************************************************************************)
(* Machine for TLC: three objects, so that a fork of a fork exists, and    *)
(* two senders.                                                            *)
(***************************************************************************)
EXTENDS Machine, FiniteSetsExt, TLC

CONSTANTS MaxTotal,  \* bound: provenance entries over all Machines
          MaxMoved   \* bound: Machines away from their owner

\* Keeps a behaviour short without fixing which Machine its entries go to.
SmallEnough ==
  /\ MapThenSumSet(LAMBDA m : Len(log[m]), Live) <= MaxTotal
  /\ Cardinality({m \in Live : holder[m] # machines[m].owner}) <= MaxMoved

\* No definition tells one object id, sender or blob from another.
Symmetric ==
  Permutations(ObjectIds) \cup Permutations(Addresses) \cup Permutations(Blobs)
=============================================================================
