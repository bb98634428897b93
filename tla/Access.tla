------------------------------- MODULE Access -------------------------------
(***************************************************************************)
(* Sharing: the AccessPolicy objects of move/sources/access.move, composed *)
(* with Machine.                                                           *)
(*                                                                         *)
(* A shareable Machine and its policy are created together and name each   *)
(* other.  grant and revoke change the policy and put an entry on the      *)
(* Machine's chain in the same transaction.  The seal_approve functions    *)
(* are dry-run by the key servers: they read and never write, so they are  *)
(* state functions here.                                                   *)
(***************************************************************************)
EXTENDS Machine

CONSTANTS Rights,     \* values of the rights argument, a set of rights bits
          Expiries    \* values of the expiry_ms argument; 0 is no expiry

RIGHTS_VIEW    == "view"
RIGHTS_RESTORE == "restore"
FullRights     == {RIGHTS_VIEW, RIGHTS_RESTORE}
NoExpiry       == 0

ASSUME RightsAssumption ==
  {{}, FullRights} \subseteq Rights /\ NoExpiry \in Expiries /\ Expiries \subseteq Nat

VARIABLE policies    \* the AccessPolicy objects, a function on the ids created so far

accessVars == <<vars, policies>>

\* The preimage of the payload hash stands for the hash.
access_payload_hash(grantee, rights, expiry) ==
  [grantee |-> grantee, rights |-> rights, expiry |-> expiry]

ASSUME AccessPayloadsAssumption ==
  AccessPayloads = [grantee : Addresses, rights : Rights, expiry : Expiries]

GrantRecords == [rights : Rights, expiry : Expiries]

PolicyRecords ==
  [machine : ObjectIds, owner : Addresses,
   grants : UNION {[S -> GrantRecords] : S \in SUBSET Addresses}]

AccessInit == Init /\ policies = [p \in {} |-> NoParent]

(***************************************************************************)
(* create_shared_machine                                                   *)
(***************************************************************************)
new_policy(sender, m) ==
  [machine |-> m, owner |-> sender,
   grants |-> [a \in {sender} |-> [rights |-> FullRights, expiry |-> NoExpiry]]]

create_shared_machine(sender, m, p) ==
  /\ p \in PolicyIds \ DOMAIN policies
  /\ Create(sender, m, p)
  /\ policies' = With(policies, p, new_policy(sender, m))

(***************************************************************************)
(* grant, revoke                                                           *)
(***************************************************************************)
\* Faulty variant: the policy need not be the one the Machine is bound to.
assert_owner_and_binding_unbound(sender, m, p) == policies[p].owner = sender

assert_owner_and_binding(sender, m, p) ==
  /\ policies[p].owner = sender
  /\ policies[p].machine = m
  /\ machines[m].policy = p

\* Faulty variant: an existing grantee keeps the grant it has.
Granted_insert_only(grants, grantee, rights, expiry) ==
  IF grantee \in DOMAIN grants THEN grants
  ELSE With(grants, grantee, [rights |-> rights, expiry |-> expiry])

\* Faulty variant: the expiry is taken as a duration.
Granted_relative(grants, grantee, rights, expiry) ==
  With(grants, grantee, [rights |-> rights, expiry |-> now + expiry])

Granted(grants, grantee, rights, expiry) ==
  With(grants, grantee, [rights |-> rights, expiry |-> expiry])

grant(sender, m, p, grantee, rights, expiry) ==
  /\ p \in DOMAIN policies
  /\ assert_owner_and_binding(sender, m, p)
  /\ register_grant(sender, m, access_payload_hash(grantee, rights, expiry))
  /\ policies' = [policies EXCEPT ![p].grants = Granted(@, grantee, rights, expiry)]

Without(f, x) == [y \in DOMAIN f \ {x} |-> f[y]]

\* Faulty variant: the owner's own grant can be taken away.
may_revoke_any(p, grantee) == TRUE

may_revoke(p, grantee) == grantee # policies[p].owner

revoke(sender, m, p, grantee) ==
  /\ p \in DOMAIN policies
  /\ assert_owner_and_binding(sender, m, p)
  /\ may_revoke(p, grantee)
  /\ register_revoke(sender, m, access_payload_hash(grantee, {}, NoExpiry))
  /\ policies' = [policies EXCEPT ![p].grants = Without(@, grantee)]

AccessNext ==
  \/ PublicNext /\ UNCHANGED policies
  \/ \E s \in Addresses, m \in ObjectIds, p \in PolicyIds : create_shared_machine(s, m, p)
  \/ \E s, a \in Addresses, m \in Live, p \in PolicyIds, r \in Rights, x \in Expiries :
       grant(s, m, p, a, r, x)
  \/ \E s, a \in Addresses, m \in Live, p \in PolicyIds : revoke(s, m, p, a)

AccessSpec == AccessInit /\ [][AccessNext]_accessVars

(***************************************************************************)
(* What the key servers evaluate                                           *)
(***************************************************************************)
\* The identity a shareable checkpoint is encrypted under.
expected_identity(p) == <<p, policies[p].machine>>

seal_approve_allowlist(id, p, sender) ==
  id = expected_identity(p) /\ sender \in DOMAIN policies[p].grants

\* Faulty variant: a grant is still good at the instant it expires.
unexpired_inclusive(g) == g.expiry = NoExpiry \/ now <= g.expiry

unexpired(g) == g.expiry = NoExpiry \/ now < g.expiry

seal_approve_until(id, p, sender) ==
  /\ seal_approve_allowlist(id, p, sender)
  /\ unexpired(policies[p].grants[sender])

-----------------------------------------------------------------------------
(***************************************************************************)
(* Properties                                                              *)
(***************************************************************************)
\* Policies have their declared shape and Machine's state keeps its own.
AccessTypeOK ==
  /\ TypeOK
  /\ DOMAIN policies \subseteq PolicyIds
  /\ policies \in [DOMAIN policies -> PolicyRecords]

\* i is the last entry on m's chain about a's access.
LastAccessEntry(m, a, i) ==
  /\ i \in 1..Len(log[m])
  /\ log[m][i].type \in {Grant, Revoke} /\ log[m][i].payload.grantee = a
  /\ \A j \in (i + 1)..Len(log[m]) :
       ~(log[m][j].type \in {Grant, Revoke} /\ log[m][j].payload.grantee = a)

NoAccessEntry(m, a) ==
  \A j \in 1..Len(log[m]) :
    ~(log[m][j].type \in {Grant, Revoke} /\ log[m][j].payload.grantee = a)

\* What the chain alone says a may do: the grant its last access entry
\* records, or the owner's self-grant while no entry names it.
OnRecord(m, owner, a, g) ==
  \/ \E i \in 1..Len(log[m]) :
       /\ LastAccessEntry(m, a, i) /\ log[m][i].type = Grant
       /\ g.rights = log[m][i].payload.rights /\ g.expiry = log[m][i].payload.expiry
  \/ /\ NoAccessEntry(m, a) /\ a = owner
     /\ g = [rights |-> FullRights, expiry |-> NoExpiry]

\* The sharing history replays from the chain alone: an address holds exactly
\* the grant that the last GRANT or REVOKE entry naming it records, in any
\* order of grants, re-grants, revokes and checkpoints.
GrantsReplayFromChain ==
  \A p \in DOMAIN policies : LET P == policies[p] IN
    \A a \in Addresses :
      /\ a \in DOMAIN P.grants => OnRecord(P.machine, P.owner, a, P.grants[a])
      /\ a \notin DOMAIN P.grants =>
           \A g \in GrantRecords : ~OnRecord(P.machine, P.owner, a, g)

\* A policy and its Machine name each other and have the same owner for ever,
\* although create and fork accept any policy id; and only a Machine bound
\* that way ever carries access entries.
PolicyBinding ==
  /\ \A p \in DOMAIN policies : LET m == policies[p].machine IN
       m \in Live /\ machines[m].policy = p /\ machines[m].owner = policies[p].owner
  /\ \A m \in Live : \A i \in 1..Len(log[m]) :
       log[m][i].type \in {Grant, Revoke} =>
         machines[m].policy \in DOMAIN policies /\ policies[machines[m].policy].machine = m

\* "The owner cannot be revoked; it always holds the policy": no sequence of
\* grants and revokes removes the owner's entry from its own policy.
OwnerHoldsPolicy ==
  \A p \in DOMAIN policies :
    seal_approve_allowlist(expected_identity(p), p, policies[p].owner)

Approved(p, a) == seal_approve_until(expected_identity(p), p, a)

\* The step puts an entry of one of the types about a on m's chain.
EntryNames(m, a, types) ==
  LET entry == log'[m][Len(log'[m])] IN
  /\ Len(log'[m]) = Len(log[m]) + 1
  /\ entry.type \in types /\ entry.payload.grantee = a

ApprovalStep(p, a) ==
  /\ ~Approved(p, a) /\ Approved(p, a)' => EntryNames(policies[p].machine, a, {Grant})
  /\ Approved(p, a) /\ ~Approved(p, a)' =>
       \/ EntryNames(policies[p].machine, a, {Grant, Revoke})
       \/ now < now' /\ now' = policies[p].grants[a].expiry

\* A decryption approval appears only with a GRANT entry naming the caller on
\* the bound Machine's chain, and disappears only with an entry naming it or
\* when the clock reaches the expiry: no operation on another Machine, policy
\* or address changes who can decrypt.
ApprovalsFollowTheChain ==
  [][\A p \in DOMAIN policies, a \in Addresses : ApprovalStep(p, a)]_accessVars

\* A policy outlives the transfer of its Machine unchangeable: the holder is
\* not the owner and the owner cannot name the object, so no grant can be
\* added and none can be revoked any more.
TransferFreezesPolicy ==
  [][\A p \in DOMAIN policies :
       holder[policies[p].machine] # policies[p].owner =>
         policies'[p] = policies[p]]_accessVars

\* With sharing, the Machine still does only what Machine allows.
ImplementsMachine == Spec
=============================================================================
