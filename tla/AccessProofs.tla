---------------------------- MODULE AccessProofs ----------------------------
(***************************************************************************)
(* TLAPS proofs about Access: sharing leaves the Machine what it was, and  *)
(* a policy is at every moment what its Machine's chain records.           *)
(***************************************************************************)
EXTENDS Access, MachineProofs

(***************************************************************************)
(* Sharing takes only Machine's steps                                      *)
(***************************************************************************)
\* Every sharing transaction is a transaction Machine allows.
LEMMA AccessStepIsMachineStep ==
  ASSUME [AccessNext]_accessVars
  PROVE  [Next]_vars
<1>1. CASE PublicNext
  BY <1>1 DEF Next
<1>2. ASSUME NEW s \in Addresses, NEW m \in ObjectIds, NEW p \in PolicyIds,
             create_shared_machine(s, m, p)
      PROVE  Next
  BY <1>2 DEF create_shared_machine, Next, PublicNext
<1>3. ASSUME NEW s \in Addresses, NEW a \in Addresses, NEW m \in Live, NEW p \in PolicyIds,
             NEW r \in Rights, NEW x \in Expiries, grant(s, m, p, a, r, x)
      PROVE  Next
  <2>1. access_payload_hash(a, r, x) \in AccessPayloads
    BY AccessPayloadsAssumption DEF access_payload_hash
  <2> QED
    BY <1>3, <2>1 DEF grant, Next, PackageNext
<1>4. ASSUME NEW s \in Addresses, NEW a \in Addresses, NEW m \in Live, NEW p \in PolicyIds,
             revoke(s, m, p, a)
      PROVE  Next
  <2>1. access_payload_hash(a, {}, NoExpiry) \in AccessPayloads
    BY AccessPayloadsAssumption, RightsAssumption DEF access_payload_hash
  <2> QED
    BY <1>4, <2>1 DEF revoke, Next, PackageNext
<1>5. CASE UNCHANGED accessVars
  BY <1>5 DEF accessVars
<1> QED
  BY <1>1, <1>2, <1>3, <1>4, <1>5 DEF AccessNext

\* With policies in play the Machine still does only what machine.move
\* allows, so every theorem about Machine holds of a shared one.
THEOREM AccessRefines == AccessSpec => ImplementsMachine
<1>1. AccessInit => Init
  BY DEF AccessInit
<1>2. [AccessNext]_accessVars => [Next]_vars
  BY AccessStepIsMachineStep
<1> QED
  BY <1>1, <1>2, PTL DEF AccessSpec, Spec, ImplementsMachine

(***************************************************************************)
(* What a sharing step does to chains and policies                         *)
(***************************************************************************)
Bound(m) == <<machines[m].policy, machines[m].owner>>

\* A step that is no sharing step: it puts no access entry on any chain,
\* rebinds no Machine and moves no policy.
PlainStep ==
  /\ policies' = policies /\ Live \subseteq Live'
  /\ \A m \in Live : Bound(m)' = Bound(m)
  /\ \A m \in Live : \/ log'[m] = log[m]
                     \/ \E e \in Events : /\ log'[m] = Append(log[m], e)
                                          /\ e.type \notin {Grant, Revoke}
  /\ \A m \in Live' \ Live : log'[m] = <<>>
  /\ now' \in {now, now + 1}

\* A new Machine m and its policy p, named after each other.
SharedStep(s, m, p) ==
  /\ p \notin DOMAIN policies /\ m \notin Live
  /\ policies' = With(policies, p, new_policy(s, m))
  /\ Live' = Live \cup {m} /\ Bound(m)' = <<p, s>> /\ log'[m] = <<>>
  /\ \A x \in Live : Bound(x)' = Bound(x) /\ log'[x] = log[x]
  /\ now' = now

\* One entry e on the chain of m, bound to p, and the grants of p become gs.
EntryStep(m, p, e, gs) ==
  /\ p \in DOMAIN policies /\ assert_owner_and_binding(holder[m], m, p)
  /\ policies' = [policies EXCEPT ![p].grants = gs]
  /\ Live' = Live /\ \A x \in Live : Bound(x)' = Bound(x)
  /\ \A x \in Live \ {m} : log'[x] = log[x]
  /\ log'[m] = Append(log[m], e)
  /\ now' = now

GrantStep(m, p, e, a, r, x) ==
  /\ e.type = Grant /\ e.payload = access_payload_hash(a, r, x)
  /\ EntryStep(m, p, e, Granted(policies[p].grants, a, r, x))

RevokeStep(m, p, e, a) ==
  /\ e.type = Revoke /\ e.payload = access_payload_hash(a, {}, NoExpiry)
  /\ a # policies[p].owner
  /\ EntryStep(m, p, e, Without(policies[p].grants, a))

\* A chained entry keeps every Machine's binding and adds one event to one log.
LEMMA ChainedBinding ==
  ASSUME TypeOK, NEW m \in Live, NEW r, NEW e, ChainedStep(m, r, e)
  PROVE  /\ Live' = Live /\ \A x \in Live : Bound(x)' = Bound(x)
         /\ \A x \in Live \ {m} : log'[x] = log[x]
         /\ log'[m] = Append(log[m], e) /\ e \in Events
         /\ now' = now
<1>1. ExtendEffect(m, r, e)
  BY ExtendFrame
<1>2. r.policy = machines[m].policy /\ r.owner = machines[m].owner
  BY DEF ChainedStep
<1>3. \A x \in Live : Bound(x)' = Bound(x)
  BY <1>1, <1>2 DEF ExtendEffect, Bound
<1>4. log'[m] = Append(log[m], e) /\ e \in Events /\ now' = now
  BY DEF ChainedStep, Extend, TypeOK
<1> QED
  BY <1>1, <1>3, <1>4 DEF ExtendEffect

\* The public operations of machine.move, and a stutter, are plain steps.
LEMMA PublicIsPlain ==
  ASSUME TypeOK, PublicNext \/ UNCHANGED vars, UNCHANGED policies
  PROVE  PlainStep
<1>1. ASSUME NEW s \in Addresses, NEW id \in ObjectIds, NEW p \in PolicyIds, Create(s, id, p)
      PROVE  PlainStep
  <2>1. CreateEffect(id) /\ now' = now
    BY <1>1, CreateFrame DEF Create
  <2> QED
    BY <2>1 DEF CreateEffect, PlainStep, Bound
<1>2. ASSUME NEW s \in Addresses, NEW m \in Live, NEW c \in ObjectIds, NEW p \in PolicyIds,
             fork(s, m, c, p)
      PROVE  PlainStep
  <2>1. ForkEffect(m, c) /\ now' = now
    BY <1>2, ForkFrame DEF fork
  <2> QED
    BY <2>1 DEF ForkEffect, PlainStep, Bound
<1>3. ASSUME NEW m \in Live, NEW r \in MachineRecords, NEW e \in Events,
             ChainedStep(m, r, e), e.type \in {Checkpoint, Retire}
      PROVE  PlainStep
  <2>1. e.type \notin {Grant, Revoke}
    BY <1>3 DEF Checkpoint, Retire, Grant, Revoke
  <2> QED
    BY <1>3, <2>1, ChainedBinding DEF PlainStep
<1>4. ASSUME NEW s \in Addresses, NEW m \in Live, NEW b \in Blobs, NEW h \in Manifests,
             NEW p \in Payloads, register_checkpoint(s, m, b, h, p)
      PROVE  PlainStep
  BY <1>3, <1>4, CheckpointStep
<1>5. ASSUME NEW s \in Addresses, NEW m \in Live, retire(s, m)
      PROVE  PlainStep
  <2>1. Retire \in EntryTypes \ {Checkpoint}
    BY DEF EntryTypes, Retire, Checkpoint
  <2>2. OwnerPayload(machines[m].owner) \in AllPayloads
    BY DEF TypeOK, MachineRecords, AllPayloads
  <2> QED
    BY <1>3, <1>5, <2>1, <2>2, HeadEntryStep DEF retire
<1>6. ASSUME NEW s \in Addresses, NEW to \in Addresses, NEW m \in Live, Transfer(s, m, to)
      PROVE  PlainStep
  BY <1>6 DEF Transfer, PlainStep, Bound, Live
<1>7. CASE Tick
  BY <1>7 DEF Tick, PlainStep, Bound, Live
<1>8. CASE UNCHANGED vars
  BY <1>8 DEF vars, PlainStep, Bound, Live
<1> QED
  BY <1>1, <1>2, <1>4, <1>5, <1>6, <1>7, <1>8 DEF PublicNext

\* create_shared_machine makes a Machine and a policy that name each other.
LEMMA SharedKind ==
  ASSUME TypeOK, NEW s \in Addresses, NEW m \in ObjectIds, NEW p \in PolicyIds,
         create_shared_machine(s, m, p)
  PROVE  SharedStep(s, m, p)
<1>1. Create(s, m, p)
  BY DEF create_shared_machine
<1>2. CreateEffect(m) /\ now' = now
  BY <1>1, CreateFrame DEF Create
<1>3. Bound(m)' = <<p, s>>
  BY <1>1 DEF Create, With, Bound, Live
<1> QED
  BY <1>2, <1>3 DEF create_shared_machine, SharedStep, CreateEffect, Bound

\* grant and revoke put one entry on the chain of the Machine that the policy
\* is bound to and change that policy only.
LEMMA GrantKind ==
  ASSUME TypeOK, NEW s \in Addresses, NEW a \in Addresses, NEW m \in Live, NEW p \in PolicyIds,
         NEW r \in Rights, NEW x \in Expiries, grant(s, m, p, a, r, x)
  PROVE  \E e \in Events : GrantStep(m, p, e, a, r, x)
<1> DEFINE payload == access_payload_hash(a, r, x)
<1>1. payload \in AllPayloads /\ Grant \in EntryTypes \ {Checkpoint}
  BY AccessPayloadsAssumption DEF access_payload_hash, AllPayloads, EntryTypes, Grant, Checkpoint
<1>2. append_head_entry(s, m, Grant, payload)
  BY DEF grant, register_grant
<1>3. PICK q \in MachineRecords, e \in Events :
        ChainedStep(m, q, e) /\ e.type = Grant /\ e.payload = payload
  BY <1>1, <1>2, HeadEntryStep
<1>4. holder[m] = s
  BY <1>2 DEF append_head_entry, MayExtend, OwnedInput
<1>5. /\ p \in DOMAIN policies /\ assert_owner_and_binding(s, m, p)
      /\ policies' = [policies EXCEPT ![p].grants = Granted(policies[p].grants, a, r, x)]
  BY DEF grant
<1>6. EntryStep(m, p, e, Granted(policies[p].grants, a, r, x))
  BY <1>3, <1>4, <1>5, ChainedBinding DEF EntryStep
<1> QED
  BY <1>3, <1>6 DEF GrantStep

\* The same for revoke, which never names the policy's owner.
LEMMA RevokeKind ==
  ASSUME TypeOK, NEW s \in Addresses, NEW a \in Addresses, NEW m \in Live, NEW p \in PolicyIds,
         revoke(s, m, p, a)
  PROVE  \E e \in Events : RevokeStep(m, p, e, a)
<1> DEFINE payload == access_payload_hash(a, {}, NoExpiry)
<1>1. payload \in AllPayloads /\ Revoke \in EntryTypes \ {Checkpoint}
  BY AccessPayloadsAssumption, RightsAssumption
     DEF access_payload_hash, AllPayloads, EntryTypes, Revoke, Checkpoint
<1>2. append_head_entry(s, m, Revoke, payload)
  BY DEF revoke, register_revoke
<1>3. PICK q \in MachineRecords, e \in Events :
        ChainedStep(m, q, e) /\ e.type = Revoke /\ e.payload = payload
  BY <1>1, <1>2, HeadEntryStep
<1>4. holder[m] = s
  BY <1>2 DEF append_head_entry, MayExtend, OwnedInput
<1>5. /\ p \in DOMAIN policies /\ assert_owner_and_binding(s, m, p)
      /\ a # policies[p].owner
      /\ policies' = [policies EXCEPT ![p].grants = Without(policies[p].grants, a)]
  BY DEF revoke, may_revoke
<1>6. EntryStep(m, p, e, Without(policies[p].grants, a))
  BY <1>3, <1>4, <1>5, ChainedBinding DEF EntryStep
<1> QED
  BY <1>3, <1>5, <1>6 DEF RevokeStep

\* Every step of the composed system is one of four kinds.
LEMMA AccessStepKinds ==
  ASSUME TypeOK, [AccessNext]_accessVars
  PROVE  \/ PlainStep
         \/ \E s \in Addresses, m \in ObjectIds, p \in PolicyIds : SharedStep(s, m, p)
         \/ \E a \in Addresses, m \in Live, p \in PolicyIds, r \in Rights, x \in Expiries,
               e \in Events : GrantStep(m, p, e, a, r, x)
         \/ \E a \in Addresses, m \in Live, p \in PolicyIds, e \in Events : RevokeStep(m, p, e, a)
  BY PublicIsPlain, SharedKind, GrantKind, RevokeKind DEF AccessNext, accessVars

(***************************************************************************)
(* Type correctness                                                        *)
(***************************************************************************)
\* What the type says of one policy.
LEMMA PolicyShape ==
  ASSUME NEW P
  PROVE  P \in PolicyRecords <=>
           /\ P = [machine |-> P.machine, owner |-> P.owner, grants |-> P.grants]
           /\ P.machine \in ObjectIds /\ P.owner \in Addresses
           /\ P.grants \in [DOMAIN P.grants -> GrantRecords]
           /\ DOMAIN P.grants \subseteq Addresses
  BY DEF PolicyRecords

\* One policy has other grants; nothing else about policies moves.
EntryEffect(m, p, gs) ==
  /\ DOMAIN policies' = DOMAIN policies /\ p \in DOMAIN policies
  /\ policies'[p] = [machine |-> policies[p].machine, owner |-> policies[p].owner, grants |-> gs]
  /\ policies'[p].grants = gs
  /\ \A q \in DOMAIN policies \ {p} : policies'[q] = policies[q]
  /\ \A q \in DOMAIN policies : /\ policies'[q].machine = policies[q].machine
                                /\ policies'[q].owner = policies[q].owner
  /\ policies[p].machine = m /\ machines[m].policy = p
  /\ holder[m] = policies[p].owner

\* An access entry changes the grants of the policy bound to its Machine and
\* nothing else about any policy.
LEMMA EntryOnPolicy ==
  ASSUME AccessTypeOK, NEW m, NEW p, NEW e, NEW gs, EntryStep(m, p, e, gs)
  PROVE  EntryEffect(m, p, gs)
<1>1. p \in DOMAIN policies /\ policies' = [policies EXCEPT ![p].grants = gs]
  BY DEF EntryStep
<1>2. policies[p] \in PolicyRecords
  BY <1>1 DEF AccessTypeOK
<1>3. policies'[p] = [policies[p] EXCEPT !.grants = gs]
  BY <1>1 DEF AccessTypeOK
<1>4. policies'[p] = [machine |-> policies[p].machine, owner |-> policies[p].owner, grants |-> gs]
  BY <1>2, <1>3 DEF PolicyRecords
<1>5. \A q \in DOMAIN policies \ {p} : policies'[q] = policies[q]
  BY <1>1 DEF AccessTypeOK
<1>6. DOMAIN policies' = DOMAIN policies
  BY <1>1 DEF AccessTypeOK
<1>7. policies[p].machine = m /\ machines[m].policy = p /\ holder[m] = policies[p].owner
  BY DEF EntryStep, assert_owner_and_binding
<1> QED
  BY <1>1, <1>4, <1>5, <1>6, <1>7 DEF EntryEffect

\* Well-formed grants make a well-formed policy.
LEMMA EntryType ==
  ASSUME AccessTypeOK, TypeOK', NEW m, NEW p, NEW e, NEW gs, EntryStep(m, p, e, gs),
         gs \in [DOMAIN gs -> GrantRecords], DOMAIN gs \subseteq Addresses
  PROVE  AccessTypeOK'
<1>0. EntryEffect(m, p, gs)
  BY EntryOnPolicy
<1>1. /\ DOMAIN policies' = DOMAIN policies /\ p \in DOMAIN policies
      /\ policies'[p] = [machine |-> policies[p].machine, owner |-> policies[p].owner,
                         grants |-> gs]
      /\ \A q \in DOMAIN policies \ {p} : policies'[q] = policies[q]
  BY <1>0 DEF EntryEffect
<1>2. policies[p].machine \in ObjectIds /\ policies[p].owner \in Addresses
  BY <1>1 DEF AccessTypeOK, PolicyRecords
<1>3. gs \in UNION {[S -> GrantRecords] : S \in SUBSET Addresses}
  OBVIOUS
<1>4. policies'[p] \in PolicyRecords
  BY <1>1, <1>2, <1>3 DEF PolicyRecords
<1>5. \A q \in DOMAIN policies' : policies'[q] \in PolicyRecords
  BY <1>1, <1>4 DEF AccessTypeOK
<1>6. policies' = [q \in DOMAIN policies' |-> policies'[q]]
  BY DEF EntryStep, AccessTypeOK
<1> QED
  BY <1>1, <1>5, <1>6 DEF AccessTypeOK

\* No step gives a policy another shape.
LEMMA AccessTypeStep ==
  ASSUME AccessTypeOK, [AccessNext]_accessVars
  PROVE  AccessTypeOK'
<1>0. TypeOK /\ TypeOK'
  BY AccessStepIsMachineStep, TypeStep DEF AccessTypeOK
<1>1. CASE PlainStep
  BY <1>0, <1>1 DEF PlainStep, AccessTypeOK
<1>2. ASSUME NEW s \in Addresses, NEW m \in ObjectIds, NEW p \in PolicyIds, SharedStep(s, m, p)
      PROVE  AccessTypeOK'
  <2> DEFINE gs == [b \in {s} |-> [rights |-> FullRights, expiry |-> NoExpiry]]
  <2>a. gs \in [{s} -> GrantRecords] /\ {s} \in SUBSET Addresses
    BY RightsAssumption DEF GrantRecords
  <2>b. gs \in UNION {[S -> GrantRecords] : S \in SUBSET Addresses}
    BY <2>a
  <2>1. new_policy(s, m) \in PolicyRecords
    BY <2>b DEF new_policy, PolicyRecords
  <2>2. policies' = With(policies, p, new_policy(s, m))
    BY <1>2 DEF SharedStep
  <2> QED
    BY <1>0, <2>1, <2>2 DEF With, AccessTypeOK
<1>3. ASSUME NEW a \in Addresses, NEW m \in Live, NEW p \in PolicyIds, NEW r \in Rights,
             NEW x \in Expiries, NEW e \in Events, GrantStep(m, p, e, a, r, x)
      PROVE  AccessTypeOK'
  <2> DEFINE gs == Granted(policies[p].grants, a, r, x)
  <2>1. EntryStep(m, p, e, gs)
    BY <1>3 DEF GrantStep
  <2>2. policies[p] \in PolicyRecords
    BY <2>1 DEF EntryStep, AccessTypeOK
  <2>3. gs \in [DOMAIN gs -> GrantRecords] /\ DOMAIN gs \subseteq Addresses
    BY <2>2, PolicyShape DEF Granted, With, GrantRecords
  <2> QED
    BY <1>0, <2>1, <2>3, EntryType
<1>4. ASSUME NEW a \in Addresses, NEW m \in Live, NEW p \in PolicyIds, NEW e \in Events,
             RevokeStep(m, p, e, a)
      PROVE  AccessTypeOK'
  <2> DEFINE gs == Without(policies[p].grants, a)
  <2>1. EntryStep(m, p, e, gs)
    BY <1>4 DEF RevokeStep
  <2>2. policies[p] \in PolicyRecords
    BY <2>1 DEF EntryStep, AccessTypeOK
  <2>3. gs \in [DOMAIN gs -> GrantRecords] /\ DOMAIN gs \subseteq Addresses
    BY <2>2, PolicyShape DEF Without
  <2> QED
    BY <1>0, <2>1, <2>3, EntryType
<1> QED
  BY <1>0, <1>1, <1>2, <1>3, <1>4, AccessStepKinds

\* Policies and Machines keep their declared shape through every sequence of
\* creations, grants, revokes and Machine operations.
THEOREM AccessTypeCorrect == AccessSpec => []AccessTypeOK
<1>1. AccessInit => AccessTypeOK
  BY DEF AccessInit, Init, AccessTypeOK, TypeOK, Live
<1>2. AccessTypeOK /\ [AccessNext]_accessVars => AccessTypeOK'
  BY AccessTypeStep
<1> QED
  BY <1>1, <1>2, PTL DEF AccessSpec

(***************************************************************************)
(* Binding                                                                 *)
(***************************************************************************)
\* No step unbinds a policy from its Machine, and no access entry lands on a
\* Machine whose policy does not name it back.
LEMMA BindingStep ==
  ASSUME AccessTypeOK, PolicyBinding, [AccessNext]_accessVars
  PROVE  PolicyBinding'
<1>0. TypeOK /\ \A m \in Live : Len(log[m]) \in Nat /\ log[m] \in Seq(Events)
  BY DEF AccessTypeOK, TypeOK
<1>1. CASE PlainStep
  <2>1. \A p \in DOMAIN policies' : LET m == policies'[p].machine IN
          m \in Live' /\ machines'[m].policy = p /\ machines'[m].owner = policies'[p].owner
    BY <1>1 DEF PlainStep, PolicyBinding, Bound
  <2>2. ASSUME NEW m \in Live', NEW i \in 1..Len(log'[m]), log'[m][i].type \in {Grant, Revoke}
        PROVE  /\ machines'[m].policy \in DOMAIN policies'
               /\ policies'[machines'[m].policy].machine = m
    <3>1. m \in Live
      BY <1>1, <2>2 DEF PlainStep
    <3>2. i \in 1..Len(log[m]) /\ log[m][i].type \in {Grant, Revoke}
      <4>1. CASE log'[m] = log[m]
        BY <2>2, <4>1
      <4>2. CASE \E e \in Events : log'[m] = Append(log[m], e) /\ e.type \notin {Grant, Revoke}
        BY <1>0, <2>2, <3>1, <4>2
      <4> QED
        BY <1>1, <3>1, <4>1, <4>2 DEF PlainStep
    <3>3. Bound(m)' = Bound(m) /\ policies' = policies
      BY <1>1, <3>1 DEF PlainStep
    <3> QED
      BY <3>1, <3>2, <3>3 DEF PolicyBinding, Bound
  <2> QED
    BY <2>1, <2>2 DEF PolicyBinding
<1>2. ASSUME NEW s \in Addresses, NEW m \in ObjectIds, NEW p \in PolicyIds, SharedStep(s, m, p)
      PROVE  PolicyBinding'
  <2>1. /\ DOMAIN policies' = DOMAIN policies \cup {p} /\ p \notin DOMAIN policies
        /\ policies'[p].machine = m /\ policies'[p].owner = s
        /\ \A q \in DOMAIN policies : policies'[q] = policies[q]
    BY <1>2 DEF SharedStep, With, new_policy
  <2>2. /\ Live' = Live \cup {m} /\ m \notin Live
        /\ machines'[m].policy = p /\ machines'[m].owner = s /\ Len(log'[m]) = 0
        /\ \A x \in Live : /\ machines'[x].policy = machines[x].policy
                           /\ machines'[x].owner = machines[x].owner /\ log'[x] = log[x]
    BY <1>2 DEF SharedStep, Bound
  <2>3. \A q \in DOMAIN policies' : LET x == policies'[q].machine IN
          x \in Live' /\ machines'[x].policy = q /\ machines'[x].owner = policies'[q].owner
    BY <2>1, <2>2 DEF PolicyBinding
  <2>4. \A x \in Live' : \A i \in 1..Len(log'[x]) :
          log'[x][i].type \in {Grant, Revoke} =>
            /\ machines'[x].policy \in DOMAIN policies'
            /\ policies'[machines'[x].policy].machine = x
    BY <2>1, <2>2 DEF PolicyBinding
  <2> QED
    BY <2>3, <2>4 DEF PolicyBinding
<1>3. ASSUME NEW m \in Live, NEW p \in PolicyIds, NEW e \in Events, NEW gs,
             EntryStep(m, p, e, gs)
      PROVE  PolicyBinding'
  <2>a. EntryEffect(m, p, gs)
    BY <1>3, EntryOnPolicy
  <2>1. /\ Live' = Live
        /\ \A x \in Live : /\ machines'[x].policy = machines[x].policy
                           /\ machines'[x].owner = machines[x].owner
        /\ \A x \in Live \ {m} : log'[x] = log[x]
    BY <1>3 DEF EntryStep, Bound
  <2>2. /\ DOMAIN policies' = DOMAIN policies /\ p \in DOMAIN policies
        /\ \A q \in DOMAIN policies : /\ policies'[q].machine = policies[q].machine
                                      /\ policies'[q].owner = policies[q].owner
        /\ policies[p].machine = m /\ machines[m].policy = p
    BY <2>a DEF EntryEffect
  <2> QED
    BY <2>1, <2>2 DEF PolicyBinding
<1> QED
  BY <1>0, <1>1, <1>2, <1>3, AccessStepKinds DEF GrantStep, RevokeStep

\* A policy and its Machine name each other and share the owner for ever, and
\* only a Machine bound that way carries access entries.
THEOREM Binding == AccessSpec => []PolicyBinding
<1>1. AccessInit => PolicyBinding
  BY DEF AccessInit, Init, PolicyBinding, Live
<1>2. AccessTypeOK /\ PolicyBinding /\ [AccessNext]_accessVars => PolicyBinding'
  BY BindingStep
<1> QED
  BY <1>1, <1>2, AccessTypeCorrect, PTL DEF AccessSpec

(***************************************************************************)
(* The owner keeps its entry                                               *)
(***************************************************************************)
\* No grant replaces the owner's entry by nothing and no revoke names it.
LEMMA OwnerStep ==
  ASSUME AccessTypeOK, OwnerHoldsPolicy, [AccessNext]_accessVars
  PROVE  OwnerHoldsPolicy'
<1> DEFINE OnOwnPolicy == \A p \in DOMAIN policies : policies[p].owner \in DOMAIN policies[p].grants
<1>0. OnOwnPolicy /\ (OnOwnPolicy' => OwnerHoldsPolicy')
  BY DEF OwnerHoldsPolicy, seal_approve_allowlist, expected_identity
<1>1. CASE PlainStep
  BY <1>0, <1>1 DEF PlainStep
<1>2. ASSUME NEW s \in Addresses, NEW m \in ObjectIds, NEW p \in PolicyIds, SharedStep(s, m, p)
      PROVE  OnOwnPolicy'
  BY <1>0, <1>2 DEF SharedStep, With, new_policy
<1>3. ASSUME NEW a \in Addresses, NEW m \in Live, NEW p \in PolicyIds, NEW r \in Rights,
             NEW x \in Expiries, NEW e \in Events, GrantStep(m, p, e, a, r, x)
      PROVE  OnOwnPolicy'
  <2>1. PICK gs : EntryStep(m, p, e, gs) /\ DOMAIN gs = DOMAIN policies[p].grants \cup {a}
    BY <1>3 DEF GrantStep, Granted, With
  <2>2. EntryEffect(m, p, gs)
    BY <2>1, EntryOnPolicy
  <2> QED
    BY <1>0, <2>1, <2>2 DEF EntryEffect
<1>4. ASSUME NEW a \in Addresses, NEW m \in Live, NEW p \in PolicyIds, NEW e \in Events,
             RevokeStep(m, p, e, a)
      PROVE  OnOwnPolicy'
  <2>1. PICK gs : /\ EntryStep(m, p, e, gs) /\ a # policies[p].owner
                  /\ DOMAIN gs = DOMAIN policies[p].grants \ {a}
    BY <1>4 DEF RevokeStep, Without
  <2>2. EntryEffect(m, p, gs)
    BY <2>1, EntryOnPolicy
  <2> QED
    BY <1>0, <2>1, <2>2 DEF EntryEffect
<1> QED
  BY <1>0, <1>1, <1>2, <1>3, <1>4, AccessStepKinds DEF AccessTypeOK

\* The owner of a policy is on it after any sequence of grants and revokes.
THEOREM OwnerStays == AccessSpec => []OwnerHoldsPolicy
<1>1. AccessInit => OwnerHoldsPolicy
  BY DEF AccessInit, OwnerHoldsPolicy
<1>2. AccessTypeOK /\ OwnerHoldsPolicy /\ [AccessNext]_accessVars => OwnerHoldsPolicy'
  BY OwnerStep
<1> QED
  BY <1>1, <1>2, AccessTypeCorrect, PTL DEF AccessSpec

(***************************************************************************)
(* The chain records the grants                                            *)
(***************************************************************************)
About(e, a) == e.type \in {Grant, Revoke} /\ e.payload.grantee = a

\* An entry about nobody, or about somebody else, leaves what the chain says
\* of a as it was.
LEMMA RecordKept ==
  ASSUME NEW m, NEW S, log[m] \in Seq(S), NEW e, NEW a, NEW o, NEW g,
         \/ log'[m] = log[m]
         \/ log'[m] = Append(log[m], e) /\ ~About(e, a)
  PROVE  OnRecord(m, o, a, g)' <=> OnRecord(m, o, a, g)
<1>1. CASE log'[m] = log[m]
  BY <1>1 DEF OnRecord, LastAccessEntry, NoAccessEntry
<1>2. CASE log'[m] = Append(log[m], e) /\ ~About(e, a)
  <2>0. PICK n \in Nat : n = Len(log[m])
    OBVIOUS
  <2>1. Len(log'[m]) = n + 1 /\ log'[m][n + 1] = e
    BY <1>2, <2>0
  <2>2. \A i \in 1..n : log'[m][i] = log[m][i]
    BY <1>2, <2>0
  <2>3. ~(log'[m][n + 1].type \in {Grant, Revoke} /\ log'[m][n + 1].payload.grantee = a)
    BY <1>2, <2>1 DEF About
  <2>4. NoAccessEntry(m, a)' <=> NoAccessEntry(m, a)
    BY <2>0, <2>1, <2>2, <2>3 DEF NoAccessEntry
  <2>5. ASSUME NEW i \in 1..n PROVE LastAccessEntry(m, a, i)' <=> LastAccessEntry(m, a, i)
    <3> DEFINE Named(q, j) == q[j].type \in {Grant, Revoke} /\ q[j].payload.grantee = a
    <3>1. \A j \in 1..n : Named(log'[m], j) <=> Named(log[m], j)
      BY <2>2
    <3>2. ~Named(log'[m], n + 1)
      BY <2>3
    <3>3. LastAccessEntry(m, a, i) <=>
            Named(log[m], i) /\ \A j \in (i + 1)..n : ~Named(log[m], j)
      BY <2>0 DEF LastAccessEntry
    <3>4. LastAccessEntry(m, a, i)' <=>
            Named(log'[m], i) /\ \A j \in (i + 1)..(n + 1) : ~Named(log'[m], j)
      BY <2>1 DEF LastAccessEntry
    <3> HIDE DEF Named
    <3> QED
      BY <3>1, <3>2, <3>3, <3>4
  <2>6. ~LastAccessEntry(m, a, n + 1)'
    BY <2>1, <2>3 DEF LastAccessEntry
  <2> DEFINE Same(e1) == e1.type = Grant /\ g.rights = e1.payload.rights
                          /\ g.expiry = e1.payload.expiry
             Old(i) == LastAccessEntry(m, a, i) /\ Same(log[m][i])
             New(i) == LastAccessEntry(m, a, i)' /\ Same(log'[m][i])
  <2>a. \A i \in 1..n : New(i) <=> Old(i)
    BY <2>2, <2>5
  <2>b. ~New(n + 1)
    BY <2>6
  <2>c. OnRecord(m, o, a, g) <=>
          \/ \E i \in 1..n : Old(i)
          \/ NoAccessEntry(m, a) /\ a = o /\ g = [rights |-> FullRights, expiry |-> NoExpiry]
    BY <2>0 DEF OnRecord
  <2>d. OnRecord(m, o, a, g)' <=>
          \/ \E i \in 1..(n + 1) : New(i)
          \/ NoAccessEntry(m, a)' /\ a = o /\ g = [rights |-> FullRights, expiry |-> NoExpiry]
    BY <2>1 DEF OnRecord
  <2> HIDE DEF Old, New
  <2>7. (\E i \in 1..(n + 1) : New(i)) <=> (\E i \in 1..n : Old(i))
    BY <2>a, <2>b
  <2> QED
    BY <2>4, <2>7, <2>c, <2>d
<1> QED
  BY <1>1, <1>2

\* An entry about a is the last one about a, so the chain says of a what the
\* entry says: the grant it records, or nothing after a revoke.
LEMMA RecordReplaced ==
  ASSUME NEW m, NEW S, log[m] \in Seq(S), NEW e, NEW a, NEW o, NEW g,
         log'[m] = Append(log[m], e), About(e, a)
  PROVE  OnRecord(m, o, a, g)' <=>
           /\ e.type = Grant
           /\ g.rights = e.payload.rights /\ g.expiry = e.payload.expiry
<1>0. PICK n \in Nat : n = Len(log[m])
  OBVIOUS
<1>1. Len(log'[m]) = n + 1 /\ log'[m][n + 1] = e
  BY <1>0
<1>2. log'[m][n + 1].type \in {Grant, Revoke} /\ log'[m][n + 1].payload.grantee = a
  BY <1>1 DEF About
<1>3. ~NoAccessEntry(m, a)'
  BY <1>1, <1>2 DEF NoAccessEntry
<1>4. LastAccessEntry(m, a, n + 1)'
  BY <1>1, <1>2 DEF LastAccessEntry
<1>5. \A i \in 1..n : ~LastAccessEntry(m, a, i)'
  BY <1>1, <1>2 DEF LastAccessEntry
<1> QED
  BY <1>1, <1>3, <1>4, <1>5 DEF OnRecord

\* What GrantsReplayFromChain says of one policy and one address.
Replays(p, a) ==
  /\ a \in DOMAIN policies[p].grants =>
       OnRecord(policies[p].machine, policies[p].owner, a, policies[p].grants[a])
  /\ a \notin DOMAIN policies[p].grants =>
       \A g \in GrantRecords : ~OnRecord(policies[p].machine, policies[p].owner, a, g)

\* A step that leaves a policy's entry for a, and the entries about a on its
\* chain, as they were keeps the replay.
LEMMA ReplayKept ==
  ASSUME NEW p, NEW a, Replays(p, a), NEW e,
         log[policies[p].machine] \in Seq(Events),
         policies'[p].machine = policies[p].machine, policies'[p].owner = policies[p].owner,
         a \in DOMAIN policies'[p].grants <=> a \in DOMAIN policies[p].grants,
         a \in DOMAIN policies[p].grants => policies'[p].grants[a] = policies[p].grants[a],
         LET m == policies[p].machine IN
           \/ log'[m] = log[m]
           \/ log'[m] = Append(log[m], e) /\ ~About(e, a)
  PROVE  Replays(p, a)'
<1> DEFINE m == policies[p].machine
           o == policies[p].owner
<1>1. PICK mm, oo : mm = m /\ oo = o
  OBVIOUS
<1>2. \A g : OnRecord(mm, oo, a, g)' <=> OnRecord(mm, oo, a, g)
  BY <1>1, RecordKept
<1> QED
  BY <1>1, <1>2 DEF Replays

\* No step makes a policy and its chain disagree.
LEMMA ReplayStep ==
  ASSUME AccessTypeOK, PolicyBinding, GrantsReplayFromChain, [AccessNext]_accessVars
  PROVE  GrantsReplayFromChain'
<1> SUFFICES ASSUME NEW p \in DOMAIN policies', NEW a \in Addresses
             PROVE  Replays(p, a)'
  BY DEF GrantsReplayFromChain, Replays
<1>0. /\ \A q \in DOMAIN policies : Replays(q, a) /\ policies[q].machine \in Live
      /\ \A m \in Live : log[m] \in Seq(Events)
  BY DEF GrantsReplayFromChain, Replays, PolicyBinding, AccessTypeOK, TypeOK
<1>1. CASE PlainStep
  <2>1. /\ policies' = policies
        /\ \A m \in Live : \/ log'[m] = log[m]
                           \/ \E e \in Events : /\ log'[m] = Append(log[m], e)
                                                /\ e.type \notin {Grant, Revoke}
    BY <1>1 DEF PlainStep
  <2>2. PICK e : LET m == policies[p].machine IN
          \/ log'[m] = log[m]
          \/ log'[m] = Append(log[m], e) /\ ~About(e, a)
    BY <1>0, <2>1 DEF About
  <2> QED
    BY <1>0, <2>1, <2>2, ReplayKept
<1>2. ASSUME NEW s \in Addresses, NEW m \in ObjectIds, NEW q \in PolicyIds, SharedStep(s, m, q)
      PROVE  Replays(p, a)'
  <2>1. /\ DOMAIN policies' = DOMAIN policies \cup {q} /\ q \notin DOMAIN policies
        /\ policies'[q] = new_policy(s, m)
        /\ \A x \in DOMAIN policies : policies'[x] = policies[x]
    BY <1>2 DEF SharedStep, With
  <2>2. Len(log'[m]) = 0 /\ \A x \in Live : log'[x] = log[x]
    BY <1>2 DEF SharedStep
  <2>3. CASE p = q
    <3>1. /\ policies'[p].machine = m /\ policies'[p].owner = s
          /\ policies'[p].grants = [b \in {s} |-> [rights |-> FullRights, expiry |-> NoExpiry]]
      BY <2>1, <2>3 DEF new_policy
    <3>2. \A g : OnRecord(m, s, a, g)' <=>
            a = s /\ g = [rights |-> FullRights, expiry |-> NoExpiry]
      BY <2>2 DEF OnRecord, NoAccessEntry
    <3> QED
      BY <3>1, <3>2 DEF Replays
  <2>4. CASE p # q
    BY <1>0, <2>1, <2>2, <2>4, ReplayKept
  <2> QED
    BY <2>3, <2>4
<1>3. ASSUME NEW m \in Live, NEW q \in PolicyIds, NEW e \in Events, NEW gs, NEW b,
             EntryStep(m, q, e, gs), e.type \in {Grant, Revoke}, e.payload.grantee = b,
             a # b => /\ a \in DOMAIN gs <=> a \in DOMAIN policies[q].grants
                      /\ a \in DOMAIN policies[q].grants => gs[a] = policies[q].grants[a],
             e.type = Grant => /\ b \in DOMAIN gs
                               /\ gs[b].rights = e.payload.rights
                               /\ gs[b].expiry = e.payload.expiry,
             e.type = Revoke => b \notin DOMAIN gs
      PROVE  Replays(p, a)'
  <2>1. EntryEffect(m, q, gs)
    BY <1>3, EntryOnPolicy
  <2>2. (\A x \in Live \ {m} : log'[x] = log[x]) /\ log'[m] = Append(log[m], e)
    BY <1>3 DEF EntryStep
  <2>3. CASE p # q
    <3>1. p \in DOMAIN policies /\ policies'[p] = policies[p] /\ policies[p].machine # m
      BY <2>1, <2>3 DEF EntryEffect, PolicyBinding
    <3> QED
      BY <1>0, <2>2, <3>1, ReplayKept
  <2>4. CASE p = q /\ a # b
    <3>1. /\ p \in DOMAIN policies /\ policies[p].machine = m /\ policies'[p].grants = gs
          /\ policies'[p].machine = policies[p].machine /\ policies'[p].owner = policies[p].owner
      BY <2>1, <2>4 DEF EntryEffect
    <3>2. ~About(e, a)
      BY <1>3, <2>4 DEF About
    <3> QED
      BY <1>0, <1>3, <2>2, <2>4, <3>1, <3>2, ReplayKept
  <2>5. CASE p = q /\ a = b
    <3>1. /\ policies'[p].machine = m /\ policies'[p].grants = gs
      BY <2>1, <2>5 DEF EntryEffect
    <3>2. About(e, a)
      BY <1>3, <2>5 DEF About
    <3>3. \A o, g : OnRecord(m, o, a, g)' <=>
            /\ e.type = Grant
            /\ g.rights = e.payload.rights /\ g.expiry = e.payload.expiry
      BY <1>0, <2>2, <3>2, RecordReplaced
    <3>4. Grant # Revoke
      BY DEF Grant, Revoke
    <3> QED
      BY <1>3, <2>5, <3>1, <3>3, <3>4 DEF Replays
  <2> QED
    BY <2>3, <2>4, <2>5
<1>4. ASSUME NEW b \in Addresses, NEW m \in Live, NEW q \in PolicyIds, NEW r \in Rights,
             NEW x \in Expiries, NEW e \in Events, GrantStep(m, q, e, b, r, x)
      PROVE  Replays(p, a)'
  <2> DEFINE gs == Granted(policies[q].grants, b, r, x)
  <2>1. /\ EntryStep(m, q, e, gs) /\ e.type = Grant /\ Grant # Revoke
        /\ e.payload = [grantee |-> b, rights |-> r, expiry |-> x]
    BY <1>4 DEF GrantStep, access_payload_hash, Grant, Revoke
  <2>2. /\ a # b => /\ a \in DOMAIN gs <=> a \in DOMAIN policies[q].grants
                    /\ a \in DOMAIN policies[q].grants => gs[a] = policies[q].grants[a]
        /\ b \in DOMAIN gs /\ gs[b] = [rights |-> r, expiry |-> x]
    BY DEF Granted, With
  <2> HIDE DEF gs
  <2> QED
    BY <1>3, <2>1, <2>2
<1>5. ASSUME NEW b \in Addresses, NEW m \in Live, NEW q \in PolicyIds, NEW e \in Events,
             RevokeStep(m, q, e, b)
      PROVE  Replays(p, a)'
  <2> DEFINE gs == Without(policies[q].grants, b)
  <2>1. /\ EntryStep(m, q, e, gs) /\ e.type = Revoke /\ Grant # Revoke
        /\ e.payload = [grantee |-> b, rights |-> {}, expiry |-> NoExpiry]
    BY <1>5 DEF RevokeStep, access_payload_hash, Grant, Revoke
  <2>2. /\ a # b => /\ a \in DOMAIN gs <=> a \in DOMAIN policies[q].grants
                    /\ a \in DOMAIN policies[q].grants => gs[a] = policies[q].grants[a]
        /\ b \notin DOMAIN gs
    BY DEF Without
  <2> HIDE DEF gs
  <2> QED
    BY <1>3, <2>1, <2>2
<1> QED
  BY <1>1, <1>2, <1>4, <1>5, AccessStepKinds DEF AccessTypeOK

\* Who holds which grant can be replayed from the chain alone, after any
\* sequence of grants, re-grants, revokes and Machine operations.
THEOREM GrantsReplay == AccessSpec => []GrantsReplayFromChain
<1>1. AccessInit => GrantsReplayFromChain
  BY DEF AccessInit, GrantsReplayFromChain
<1>2. AccessTypeOK /\ PolicyBinding /\ GrantsReplayFromChain /\ [AccessNext]_accessVars
        => GrantsReplayFromChain'
  BY ReplayStep
<1> QED
  BY <1>1, <1>2, AccessTypeCorrect, Binding, PTL DEF AccessSpec

(***************************************************************************)
(* Approvals                                                               *)
(***************************************************************************)
\* What a key server's dry run of seal_approve_until comes to.
Holds(gs, a, t) == a \in DOMAIN gs /\ (gs[a].expiry = NoExpiry \/ t < gs[a].expiry)

\* An approval changes only with an entry about the address on the bound
\* Machine's chain, or with the clock.
LEMMA ApprovalChange ==
  ASSUME AccessTypeOK, PolicyBinding, [AccessNext]_accessVars,
         NEW p \in DOMAIN policies, NEW a \in Addresses
  PROVE  ApprovalStep(p, a)
<1> DEFINE M == policies[p].machine
           gs == policies[p].grants
<1>0. /\ Approved(p, a) <=> Holds(gs, a, now)
      /\ Approved(p, a)' <=> Holds(policies'[p].grants, a, now')
  BY DEF Approved, seal_approve_until, seal_approve_allowlist, expected_identity, unexpired, Holds
<1>a. /\ TypeOK /\ now \in Nat /\ M \in Live /\ \A x \in Live : log[x] \in Seq(Events)
      /\ gs \in [DOMAIN gs -> GrantRecords]
  BY PolicyShape DEF AccessTypeOK, TypeOK, PolicyBinding
<1>b. a \in DOMAIN gs => gs[a].expiry \in Nat
  BY <1>a, RightsAssumption DEF GrantRecords
<1>1. CASE PlainStep
  <2>1. policies' = policies /\ now' \in {now, now + 1}
    BY <1>1 DEF PlainStep
  <2>2. ~Holds(gs, a, now) => ~Holds(gs, a, now')
    BY <1>a, <1>b, <2>1 DEF Holds
  <2>3. Holds(gs, a, now) /\ ~Holds(gs, a, now') => now < now' /\ now' = gs[a].expiry
    BY <1>a, <1>b, <2>1 DEF Holds
  <2> QED
    BY <1>0, <2>1, <2>2, <2>3 DEF ApprovalStep
<1>2. ASSUME NEW s \in Addresses, NEW m \in ObjectIds, NEW q \in PolicyIds, SharedStep(s, m, q)
      PROVE  ApprovalStep(p, a)
  <2>1. policies'[p] = policies[p] /\ now' = now
    BY <1>2 DEF SharedStep, With
  <2> QED
    BY <1>0, <2>1 DEF ApprovalStep
<1>3. ASSUME NEW m \in Live, NEW q \in PolicyIds, NEW e \in Events, NEW hs,
             EntryStep(m, q, e, hs)
      PROVE  /\ now' = now
             /\ p # q => policies'[p] = policies[p]
             /\ p = q => /\ policies'[p].grants = hs /\ m = M
                         /\ Len(log'[M]) = Len(log[M]) + 1
                         /\ log'[M][Len(log'[M])] = e
  <2>1. EntryEffect(m, q, hs)
    BY <1>3, EntryOnPolicy
  <2>2. log'[m] = Append(log[m], e) /\ now' = now
    BY <1>3 DEF EntryStep
  <2>3. Len(log'[m]) = Len(log[m]) + 1 /\ log'[m][Len(log'[m])] = e
    BY <1>a, <2>2
  <2> QED
    BY <2>1, <2>2, <2>3 DEF EntryEffect
<1>4. ASSUME NEW b \in Addresses, NEW m \in Live, NEW q \in PolicyIds, NEW r \in Rights,
             NEW x \in Expiries, NEW e \in Events, GrantStep(m, q, e, b, r, x)
      PROVE  ApprovalStep(p, a)
  <2> DEFINE hs == Granted(policies[q].grants, b, r, x)
  <2>1. EntryStep(m, q, e, hs) /\ e.type = Grant /\ e.payload.grantee = b
    BY <1>4 DEF GrantStep, access_payload_hash
  <2>2. a # b => (Holds(hs, a, now) <=> Holds(policies[q].grants, a, now))
    BY DEF Granted, With, Holds
  <2> HIDE DEF hs
  <2>3. CASE p # q
    BY <1>0, <1>3, <2>1, <2>3 DEF ApprovalStep
  <2>4. CASE p = q /\ a # b
    BY <1>0, <1>3, <2>1, <2>2, <2>4 DEF ApprovalStep
  <2>5. CASE p = q /\ a = b
    BY <1>3, <2>1, <2>5 DEF ApprovalStep, EntryNames
  <2> QED
    BY <2>3, <2>4, <2>5
<1>5. ASSUME NEW b \in Addresses, NEW m \in Live, NEW q \in PolicyIds, NEW e \in Events,
             RevokeStep(m, q, e, b)
      PROVE  ApprovalStep(p, a)
  <2> DEFINE hs == Without(policies[q].grants, b)
  <2>1. EntryStep(m, q, e, hs) /\ e.type = Revoke /\ e.payload.grantee = b
    BY <1>5 DEF RevokeStep, access_payload_hash
  <2>2. /\ a # b => (Holds(hs, a, now) <=> Holds(policies[q].grants, a, now))
        /\ ~Holds(hs, b, now)
    BY DEF Without, Holds
  <2> HIDE DEF hs
  <2>3. CASE p # q
    BY <1>0, <1>3, <2>1, <2>3 DEF ApprovalStep
  <2>4. CASE p = q /\ a # b
    BY <1>0, <1>3, <2>1, <2>2, <2>4 DEF ApprovalStep
  <2>5. CASE p = q /\ a = b
    BY <1>0, <1>3, <2>1, <2>2, <2>5 DEF ApprovalStep, EntryNames
  <2> QED
    BY <2>3, <2>4, <2>5
<1> QED
  BY <1>a, <1>1, <1>2, <1>4, <1>5, AccessStepKinds

\* Who can decrypt changes only by an entry that names the caller on the
\* bound Machine's chain, or when the clock reaches the expiry.
THEOREM Approvals == AccessSpec => ApprovalsFollowTheChain
<1>1. AccessTypeOK /\ PolicyBinding /\ [AccessNext]_accessVars
        => [\A p \in DOMAIN policies, a \in Addresses : ApprovalStep(p, a)]_accessVars
  BY ApprovalChange
<1> QED
  BY <1>1, AccessTypeCorrect, Binding, PTL DEF AccessSpec, ApprovalsFollowTheChain

\* Once its Machine is held by anybody but the owner, no step changes a policy.
THEOREM PolicyFrozen == AccessSpec => TransferFreezesPolicy
<1>1. ASSUME AccessTypeOK, PolicyBinding, [AccessNext]_accessVars, NEW p \in DOMAIN policies,
             holder[policies[p].machine] # policies[p].owner
      PROVE  policies'[p] = policies[p]
  <2>1. CASE PlainStep
    BY <2>1 DEF PlainStep
  <2>2. ASSUME NEW s \in Addresses, NEW m \in ObjectIds, NEW q \in PolicyIds,
               SharedStep(s, m, q)
        PROVE  policies'[p] = policies[p]
    BY <2>2 DEF SharedStep, With
  <2>3. ASSUME NEW m, NEW q, NEW e, NEW gs, EntryStep(m, q, e, gs)
        PROVE  policies'[p] = policies[p]
    <3>1. EntryEffect(m, q, gs)
      BY <1>1, <2>3, EntryOnPolicy
    <3> QED
      BY <1>1, <3>1 DEF EntryEffect
  <2> QED
    BY <1>1, <2>1, <2>2, <2>3, AccessStepKinds DEF AccessTypeOK, GrantStep, RevokeStep
<1>2. AccessTypeOK /\ PolicyBinding /\ [AccessNext]_accessVars
        => [\A p \in DOMAIN policies :
              holder[policies[p].machine] # policies[p].owner =>
                policies'[p] = policies[p]]_accessVars
  BY <1>1
<1> QED
  BY <1>2, AccessTypeCorrect, Binding, PTL DEF AccessSpec, TransferFreezesPolicy

(***************************************************************************)
(* What sharing cannot take back                                           *)
(***************************************************************************)
PoliciesGrow ==
  \A p \in DOMAIN policies :
    /\ p \in DOMAIN policies' /\ policies'[p].machine = policies[p].machine
    /\ policies'[p].owner = policies[p].owner

\* Policies stay, with the Machines they were created for and their owners.
LEMMA PoliciesOnlyGrow ==
  ASSUME AccessTypeOK, [AccessNext]_accessVars
  PROVE  PoliciesGrow
<1>1. CASE PlainStep
  BY <1>1 DEF PlainStep, PoliciesGrow
<1>2. ASSUME NEW s \in Addresses, NEW m \in ObjectIds, NEW p \in PolicyIds, SharedStep(s, m, p)
      PROVE  PoliciesGrow
  BY <1>2 DEF SharedStep, With, PoliciesGrow
<1>3. ASSUME NEW m, NEW p, NEW e, NEW gs, EntryStep(m, p, e, gs)
      PROVE  PoliciesGrow
  <2>1. EntryEffect(m, p, gs)
    BY <1>3, EntryOnPolicy
  <2> QED
    BY <2>1 DEF EntryEffect, PoliciesGrow
<1> QED
  BY <1>1, <1>2, <1>3, AccessStepKinds DEF GrantStep, RevokeStep, AccessTypeOK

\* The chain of m names a in a GRANT entry.
HasGrant(m, a) ==
  \E i \in 1..Len(log[m]) : log[m][i].type = Grant /\ log[m][i].payload.grantee = a

\* Everybody a policy lists is its owner or named by a GRANT entry.
LEMMA GranteesOnFile ==
  ASSUME AccessTypeOK, GrantsReplayFromChain, NEW p \in DOMAIN policies,
         NEW a \in DOMAIN policies[p].grants
  PROVE  a = policies[p].owner \/ HasGrant(policies[p].machine, a)
<1>1. policies[p] \in PolicyRecords
  BY DEF AccessTypeOK
<1>2. a \in Addresses
  BY <1>1, PolicyShape
<1>3. OnRecord(policies[p].machine, policies[p].owner, a, policies[p].grants[a])
  BY <1>2 DEF GrantsReplayFromChain
<1> QED
  BY <1>3 DEF OnRecord, LastAccessEntry, HasGrant
=============================================================================
