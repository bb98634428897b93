----------------------------- MODULE MCConsole -----------------------------
(***************************************************************************)
(* The Console for TLC: two environments, of which the first may belong to *)
(* somebody else and the second is its fork or new, and two clicks.        *)
(***************************************************************************)
EXTENDS Console

MCRights == {{}, {RIGHTS_VIEW}, FullRights}
\* While a Machine is away from its owner it is the only one that is, and there
\* is one entry in all: the checkpoint that a fork needs, or a grant.
OneAway ==
  \A m \in Live : GivenAway(m) =>
    /\ Len(log[m]) <= 1
    /\ \A n \in Live \ {m} : ~GivenAway(n) /\ Len(log[m]) + Len(log[n]) <= 1

MCAccessPayloads == [grantee : Addresses, rights : MCRights, expiry : Expiries]
=============================================================================
