----------------------------- MODULE MCRestore -----------------------------
(***************************************************************************)
(* Restore for TLC: a Machine and a fork or a second Machine, an owner and *)
(* a grantee, two key servers.                                             *)
(***************************************************************************)
EXTENDS Restore

MCRights == {{}, FullRights}
MCAccessPayloads == [grantee : Addresses, rights : MCRights, expiry : Expiries]
=============================================================================
