------------------------------ MODULE MCAccess ------------------------------
(***************************************************************************)
(* Access for TLC: two Machines, two policy ids and two addresses, so that *)
(* a Machine can name a policy that is bound to another one.               *)
(***************************************************************************)
EXTENDS Access, FiniteSetsExt, TLC

CONSTANT MaxTotal  \* bound: provenance entries over all Machines

MCRights == {{}, FullRights}
MCAccessPayloads == [grantee : Addresses, rights : MCRights, expiry : Expiries]

SmallEnough == MapThenSumSet(LAMBDA m : Len(log[m]), Live) <= MaxTotal

\* No definition tells one object id, sender or policy from another.
Symmetric ==
  Permutations(ObjectIds) \cup Permutations(Addresses) \cup Permutations(PolicyIds)
=============================================================================
