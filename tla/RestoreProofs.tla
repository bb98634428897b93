--------------------------- MODULE RestoreProofs ---------------------------
(***************************************************************************)
(* TLAPS proofs about Restore: what a restore hands out, to whom, and when *)
(* it may refuse, for every number of key servers, threshold and number of *)
(* attempts.                                                               *)
(***************************************************************************)
EXTENDS Restore, AccessProofs

(***************************************************************************)
(* The chain of a restore is one Access allows                             *)
(***************************************************************************)
\* A Machine has at least as many entries as checkpoints.
CountBounded == \A m \in Live : machines[m].count <= Len(log[m])

BaseInv == AccessTypeOK /\ CountBounded

\* What checkpoint seals is a ciphertext.
LEMMA SealedIsCiphertext ==
  ASSUME BaseInv, NEW m \in Live, Len(log[m]) < MaxEntries
  PROVE  [sealed |-> encrypt(machines[m].policy, m), at |-> machines[m].count] \in Blobs
<1>1. m \in ObjectIds /\ machines[m].policy \in PolicyIds /\ machines[m].count \in Nat
      /\ Len(log[m]) \in Nat
  BY DEF BaseInv, AccessTypeOK, TypeOK, MachineRecords
<1>2. machines[m].count \in 0..MaxEntries
  BY <1>1, BoundsAssumption DEF BaseInv, CountBounded
<1>3. encrypt(machines[m].policy, m)
        \in {toIdentity(x) : x \in ObjectIds} \cup (PolicyIds \X ObjectIds)
  BY <1>1 DEF encrypt, toPolicyIdentity
<1> QED
  BY <1>2, <1>3, CiphertextsAssumption DEF Ciphertexts

\* A fresh id is an id.
LEMMA NewIdsAreIds == NewIds \subseteq ObjectIds \ Live
<1>1. CASE ObjectIds \ Live = {}
  BY <1>1 DEF NewIds
<1>2. CASE ObjectIds \ Live # {}
  BY <1>2 DEF NewIds
<1> QED
  BY <1>1, <1>2

\* What happens on chain during a restore is what Access allows.
LEMMA ChainIsAccess ==
  ASSUME BaseInv, Chain
  PROVE  AccessNext
<1>0. TypeOK /\ \A m \in Live : machines[m].policy \in PolicyIds
  BY DEF BaseInv, AccessTypeOK, TypeOK, MachineRecords
<1>1. CASE \E m \in NewIds, p \in PolicyIds \ {PackageId} : create_shared_machine(Creator, m, p)
  BY <1>1, NewIdsAreIds, RestoreAssumption DEF AccessNext
<1>2. ASSUME UNCHANGED policies, NEW s \in Addresses, NEW m \in Live, checkpoint(s, m)
      PROVE  AccessNext
  <2>1. PICK b : b = [sealed |-> encrypt(machines[m].policy, m), at |-> machines[m].count]
    OBVIOUS
  <2>2. PICK h \in Manifests, x \in Payloads : register_checkpoint(s, m, b, h, x)
    BY <1>2, <2>1 DEF checkpoint
  <2>3. b \in Blobs
    BY <2>1, <2>2, SealedIsCiphertext DEF register_checkpoint, MayExtend
  <2> QED
    BY <1>2, <2>2, <2>3 DEF AccessNext, PublicNext
<1>3. ASSUME UNCHANGED policies, NEW s \in Addresses, NEW m \in Live, NEW c \in NewIds,
             NEW p \in {PackageId, machines[m].policy}, fork(s, m, c, p)
      PROVE  AccessNext
  BY <1>0, <1>3, NewIdsAreIds, RestoreAssumption DEF AccessNext, PublicNext
<1>4. CASE UNCHANGED policies /\ Tick
  BY <1>4 DEF AccessNext, PublicNext
<1>5. CASE \E s \in Addresses, m \in Live, p \in PolicyIds, x \in Expiries :
             \E a \in Addresses \ {s} : grant(s, m, p, a, FullRights, x)
  BY <1>5, RightsAssumption DEF AccessNext
<1>6. CASE \E s, a \in Addresses, m \in Live, p \in PolicyIds : revoke(s, m, p, a)
  BY <1>6 DEF AccessNext
<1> QED
  BY <1>1, <1>2, <1>3, <1>4, <1>5, <1>6 DEF Chain

\* A restore itself writes nothing to the chain.
RestoreOnly == UNCHANGED accessVars

\* The chain moves, or a restore does.
LEMMA RestoreStepKinds ==
  ASSUME [RestoreNext]_restoreVars
  PROVE  \/ Chain /\ seen' = View /\ UNCHANGED job
         \/ RestoreOnly
  BY DEF RestoreNext, restoreVars, RestoreOnly, CatchUp, registerRestore, reeg_restore,
         BeginRestore, Command, ReadMachine, ReadBlob, Approve, AskServer, Decrypt,
         NotEnoughShares, Unpack, Throws, Go

\* Every step of a restore is a step of Access.
LEMMA RestoreStepIsAccessStep ==
  ASSUME BaseInv, [RestoreNext]_restoreVars
  PROVE  [AccessNext]_accessVars
  BY RestoreStepKinds, ChainIsAccess DEF RestoreOnly

\* An entry counts for at most one checkpoint.
LEMMA CountStep ==
  ASSUME TypeOK, CountBounded, [Next]_vars
  PROVE  CountBounded'
<1>0. \A m \in Live : machines[m].count \in Nat /\ Len(log[m]) \in Nat
  BY DEF TypeOK, MachineRecords
<1>1. CASE \E s \in Addresses, id \in ObjectIds, p \in PolicyIds : Create(s, id, p)
  BY <1>1, CreateFrame DEF CreateEffect, CountBounded
<1>2. CASE \E s \in Addresses, m \in Live, c \in ObjectIds, p \in PolicyIds : fork(s, m, c, p)
  <2>1. PICK s \in Addresses, m \in Live, c \in ObjectIds, p \in PolicyIds : fork(s, m, c, p)
    BY <1>2
  <2>2. ForkEffect(m, c)
    BY <2>1, ForkFrame
  <2> QED
    BY <2>2 DEF ForkEffect, CountBounded
<1>3. CASE \E m \in Live, r \in MachineRecords, e \in Events : ChainedStep(m, r, e)
  <2>1. PICK m \in Live, r \in MachineRecords, e \in Events : ChainedStep(m, r, e)
    BY <1>3
  <2>2. ExtendEffect(m, r, e)
    BY <2>1, ExtendFrame
  <2>3. r.count <= machines[m].count + 1 /\ r.count \in Nat
    BY <1>0, <2>1 DEF ChainedStep, MachineRecords
  <2>4. machines'[m].count <= Len(log'[m])
    BY <1>0, <2>2, <2>3 DEF ExtendEffect, CountBounded
  <2> QED
    BY <2>2, <2>4 DEF ExtendEffect, CountBounded
<1>4. CASE ChainUntouched
  BY <1>4 DEF ChainUntouched, Live, CountBounded
<1> QED
  BY <1>1, <1>2, <1>3, <1>4, StepKinds

\* The chain keeps its shape during restores.
LEMMA RestoreBased == RestoreSpec => []BaseInv
<1>1. RestoreInit => BaseInv
  BY DEF RestoreInit, AccessInit, Init, BaseInv, AccessTypeOK, TypeOK, Live, CountBounded
<1>2. BaseInv /\ [RestoreNext]_restoreVars => BaseInv'
  <2> SUFFICES ASSUME BaseInv, [RestoreNext]_restoreVars PROVE BaseInv'
    OBVIOUS
  <2>1. [AccessNext]_accessVars
    BY RestoreStepIsAccessStep
  <2>2. AccessTypeOK'
    BY <2>1, AccessTypeStep DEF BaseInv
  <2>3. CountBounded'
    BY <2>1, AccessStepIsMachineStep, CountStep DEF BaseInv, AccessTypeOK
  <2> QED
    BY <2>2, <2>3 DEF BaseInv
<1> QED
  BY <1>1, <1>2, PTL DEF RestoreSpec

\* Restores, key servers that lag and the operator's own commands do to the
\* chain only what access.move and machine.move allow: every theorem about
\* Access holds while restores run.
THEOREM RestoreRefines == RestoreSpec => AccessSpec
<1>1. RestoreInit => AccessInit
  BY DEF RestoreInit
<1>2. BaseInv /\ [RestoreNext]_restoreVars => [AccessNext]_accessVars
  BY RestoreStepIsAccessStep
<1> QED
  BY <1>1, <1>2, RestoreBased, PTL DEF RestoreSpec, AccessSpec

(***************************************************************************)
(* The inductive invariant                                                 *)
(***************************************************************************)
\* m is bound to a policy of its own, which its snapshots are sealed for.
OwnPolicy(m) == IsAccessPolicy(machines[m].policy) /\ policies[machines[m].policy].machine = m

Identity(m) ==
  IF OwnPolicy(m) THEN toPolicyIdentity(machines[m].policy, m) ELSE toIdentity(m)

\* No Machine waits for a policy to be created under its id.
PoliciesKnown ==
  /\ PackageId \notin DOMAIN policies
  /\ \A m \in Live : machines[m].policy \in DOMAIN policies \cup {PackageId}

\* b is a snapshot that m pins: its own, or one it inherited as a fork.
SnapshotOf(m, b) == \E x \in Live : b.sealed = Identity(x) /\ (x = m \/ m \in DOMAIN forks)

BlobsSealed == \A m \in Live : machines[m].blob # NoBlob => SnapshotOf(m, machines[m].blob)

\* The chain names a as m's owner, or as one m was shared with.
OnFile(m, a) == machines[m].owner = a \/ (OwnPolicy(m) /\ HasGrant(m, a))

\* A node knows no grantee that is not on file, however far behind it is.
ViewFact(v) ==
  \A p \in DOMAIN v.policies :
    /\ p \in DOMAIN policies /\ v.policies[p].machine = policies[p].machine
    /\ \A a \in DOMAIN v.policies[p].grants : OnFile(policies[p].machine, a)

\* b was current after the first k entries, or later.
WasCurrent(m, k, b) == \E j \in k..Len(log[m]) : BlobAt(m, j, b)

\* The fields of a restore in progress.
JobShape(s) ==
  /\ s.at \in {"read-blob", "approve"} =>
       s = [at |-> s.at, who |-> s.who, machine |-> s.machine, n |-> s.n, began |-> s.began,
            excused |-> s.excused, blob |-> s.blob, policy |-> s.policy]
  /\ s.at \in {"decrypt", "unpack"} =>
       /\ s = [at |-> s.at, who |-> s.who, machine |-> s.machine, n |-> s.n, began |-> s.began,
               excused |-> s.excused, blob |-> s.blob, policy |-> s.policy,
               approval |-> s.approval, answers |-> s.answers]
       /\ s.answers \in [{"share", "denied", "error"} -> Nat]

\* What a restore in progress has found out, and how the last one ended.
JobFact(s) ==
  /\ JobShape(s)
  /\ s.at \in {"read-machine", "read-blob", "approve", "decrypt", "unpack"} =>
       /\ s.machine \in Live /\ s.who \in Addresses /\ s.excused \in BOOLEAN
       /\ s.began \in Nat /\ s.began <= Len(log[s.machine])
  /\ s.at \in {"read-blob", "approve", "decrypt", "unpack"} =>
       /\ s.policy = machines[s.machine].policy
       /\ SnapshotOf(s.machine, s.blob) /\ WasCurrent(s.machine, s.began, s.blob)
  /\ s.at \in {"decrypt", "unpack"} =>
       /\ s.approval = buildApprove(machines[s.machine].policy, s.machine)
       /\ s.answers["share"] > 0 => OnFile(s.machine, s.who)
       /\ s.answers["denied"] > 0 => s.excused
  /\ s.at = "unpack" => s.approval.id = s.blob.sealed /\ OnFile(s.machine, s.who)
  /\ s.at = "restored" =>
       /\ s.machine \in Live /\ s.began \in Nat /\ WasCurrent(s.machine, s.began, s.blob)
       /\ \E x \in Live : s.blob.sealed = Identity(x) /\ OnFile(x, s.who)
  /\ s.at = "denied" => s.excused

RestoreInv == PoliciesKnown /\ BlobsSealed /\ ViewFact(seen) /\ JobFact(job)

(***************************************************************************)
(* What the chain cannot take back                                         *)
(***************************************************************************)
\* A Machine is created with its policy, and a fork names a policy that is
\* there or none.
LEMMA KnownStep ==
  ASSUME BaseInv, PoliciesKnown, Chain
  PROVE  PoliciesKnown'
<1>0. TypeOK /\ AccessTypeOK /\ [AccessNext]_accessVars
  BY ChainIsAccess DEF BaseInv, AccessTypeOK
<1>a. [Next]_vars
  BY <1>0, AccessStepIsMachineStep
<1>b. ChainGrows
  BY <1>0, <1>a, ChainOnlyGrows
<1>1. \A m \in Live : m \in Live' /\ machines'[m].policy = machines[m].policy
  BY <1>b DEF ChainGrows
<1>2. ASSUME NEW m \in NewIds, NEW p \in PolicyIds \ {PackageId},
             create_shared_machine(Creator, m, p)
      PROVE  PoliciesKnown'
  <2>1. policies' = With(policies, p, new_policy(Creator, m)) /\ Create(Creator, m, p)
    BY <1>2 DEF create_shared_machine
  <2>2. Live' = Live \cup {m} /\ machines'[m].policy = p
    BY <2>1 DEF Create, With, Live
  <2>3. DOMAIN policies' = DOMAIN policies \cup {p}
    BY <2>1 DEF With
  <2> QED
    BY <1>1, <2>2, <2>3 DEF PoliciesKnown
<1>3. ASSUME UNCHANGED policies, NEW s \in Addresses, NEW m \in Live, NEW c \in NewIds,
             NEW p \in {PackageId, machines[m].policy}, fork(s, m, c, p)
      PROVE  PoliciesKnown'
  <2>1. Live' = Live \cup {c} /\ machines'[c].policy = p
    BY <1>3 DEF fork, With, Live, ForkChild
  <2> QED
    BY <1>1, <1>3, <2>1 DEF PoliciesKnown
<1>4. ASSUME DOMAIN policies' = DOMAIN policies, Live' = Live
      PROVE  PoliciesKnown'
  BY <1>1, <1>4 DEF PoliciesKnown
<1>5. ASSUME UNCHANGED policies, NEW s \in Addresses, NEW m \in Live, checkpoint(s, m)
      PROVE  PoliciesKnown'
  <2>1. Live' = Live
    BY <1>5 DEF checkpoint, register_checkpoint, Extend, Live
  <2> QED
    BY <1>4, <1>5, <2>1
<1>6. CASE UNCHANGED policies /\ Tick
  BY <1>4, <1>6 DEF Tick, Live
<1>7. ASSUME NEW s, NEW a, NEW m, NEW p, NEW x,
             grant(s, m, p, a, FullRights, x) \/ revoke(s, m, p, a)
      PROVE  PoliciesKnown'
  <2>1. Live' = Live /\ DOMAIN policies' = DOMAIN policies
    BY <1>7 DEF grant, revoke, register_grant, register_revoke, append_head_entry, Extend, Live
  <2> QED
    BY <1>4, <2>1
<1> QED
  BY <1>2, <1>3, <1>5, <1>6, <1>7 DEF Chain

\* What a restore relies on stays.
RestoreGrows ==
  /\ ChainGrows /\ PoliciesGrow
  /\ \A m \in Live : Identity(m)' = Identity(m) /\ (OwnPolicy(m)' <=> OwnPolicy(m))

\* A Machine never gets a policy of its own later, and never loses it.
LEMMA RestoreOnlyGrows ==
  ASSUME BaseInv, PoliciesKnown, [RestoreNext]_restoreVars
  PROVE  RestoreGrows /\ PoliciesKnown'
<1>0. TypeOK /\ AccessTypeOK /\ [AccessNext]_accessVars
  BY RestoreStepIsAccessStep DEF BaseInv, AccessTypeOK
<1>1. [Next]_vars
  BY <1>0, AccessStepIsMachineStep
<1>2. ChainGrows
  BY <1>0, <1>1, ChainOnlyGrows
<1>3. PoliciesGrow
  BY <1>0, PoliciesOnlyGrow
<1>4. PoliciesKnown'
  <2>1. CASE Chain
    BY <2>1, KnownStep
  <2>2. CASE RestoreOnly
    BY <2>2 DEF RestoreOnly, accessVars, vars, PoliciesKnown, Live
  <2> QED
    BY <2>1, <2>2, RestoreStepKinds
<1>5. ASSUME NEW m \in Live
      PROVE  Identity(m)' = Identity(m) /\ (OwnPolicy(m)' <=> OwnPolicy(m))
  <2>1. machines'[m].policy = machines[m].policy
    BY <1>2 DEF ChainGrows
  <2>2. OwnPolicy(m)' <=> OwnPolicy(m)
    BY <1>3, <1>4, <2>1 DEF OwnPolicy, IsAccessPolicy, PoliciesKnown, PoliciesGrow
  <2> QED
    BY <2>1, <2>2 DEF Identity
<1> QED
  BY <1>2, <1>3, <1>4, <1>5 DEF RestoreGrows

(***************************************************************************)
(* so what a restore found out stays true                                  *)
(***************************************************************************)
\* A snapshot stays sealed for the Machine it was sealed for.
LEMMA SnapshotOfKept ==
  ASSUME RestoreGrows, NEW m \in Live, NEW b, SnapshotOf(m, b)
  PROVE  SnapshotOf(m, b)'
  BY DEF RestoreGrows, ChainGrows, SnapshotOf

\* Owners and grantees stay on file.
LEMMA OnFileKept ==
  ASSUME RestoreGrows, NEW m \in Live, NEW a, OnFile(m, a)
  PROVE  OnFile(m, a)'
<1>1. HasGrant(m, a) => HasGrant(m, a)'
  BY DEF RestoreGrows, ChainGrows, HasGrant
<1> QED
  BY <1>1 DEF RestoreGrows, ChainGrows, OnFile

\* What a node has seen stays true of the chain.
LEMMA ViewKept ==
  ASSUME PolicyBinding, RestoreGrows, NEW v, ViewFact(v)
  PROVE  ViewFact(v)'
<1> SUFFICES ASSUME NEW p \in DOMAIN v.policies
             PROVE  /\ p \in DOMAIN policies' /\ v.policies[p].machine = policies'[p].machine
                    /\ \A a \in DOMAIN v.policies[p].grants : OnFile(policies[p].machine, a)'
  BY DEF ViewFact
<1>1. /\ p \in DOMAIN policies /\ v.policies[p].machine = policies[p].machine
      /\ p \in DOMAIN policies' /\ policies'[p].machine = policies[p].machine
  BY DEF ViewFact, RestoreGrows, PoliciesGrow
<1>2. PICK m \in Live : m = policies[p].machine /\ m = policies'[p].machine
  BY <1>1 DEF PolicyBinding
<1>3. \A a \in DOMAIN v.policies[p].grants : OnFile(m, a)
  BY <1>2 DEF ViewFact
<1>4. \A a \in DOMAIN v.policies[p].grants : OnFile(m, a)'
  BY <1>3, OnFileKept
<1> QED
  BY <1>1, <1>2, <1>4

\* What was current stays on record as current.
LEMMA WasCurrentKept ==
  ASSUME RestoreGrows, NEW m \in Live, NEW k \in Nat, NEW b, WasCurrent(m, k, b)
  PROVE  WasCurrent(m, k, b)'
<1>1. PICK j \in k..Len(log[m]) : BlobAt(m, j, b)
  BY DEF WasCurrent
<1>2. Len(log[m]) \in Nat /\ Len(log'[m]) \in Nat /\ Len(log[m]) <= Len(log'[m])
      /\ StartBlob(m)' = StartBlob(m) /\ \A i \in 1..Len(log[m]) : log'[m][i] = log[m][i]
  BY DEF RestoreGrows, ChainGrows
<1>3. j \in Nat /\ j \in k..Len(log'[m])
  BY <1>1, <1>2
<1>4. SamePast(m, j)
  BY <1>1, <1>2 DEF SamePast
<1>5. BlobAt(m, j, b)'
  BY <1>1, <1>3, <1>4, PastStays
<1> QED
  BY <1>3, <1>5 DEF WasCurrent

\* The approval for a Machine stays the one it is.
LEMMA ApprovalKept ==
  ASSUME RestoreGrows, NEW m \in Live
  PROVE  buildApprove(machines[m].policy, m)' = buildApprove(machines[m].policy, m)
<1>1. machines'[m].policy = machines[m].policy /\ (OwnPolicy(m)' <=> OwnPolicy(m))
  BY DEF RestoreGrows, ChainGrows
<1> QED
  BY <1>1 DEF buildApprove, OwnPolicy, IsAccessPolicy, buildSealApproveUntil, buildSealApprove

\* A restore keeps what it found out.
LEMMA JobKept ==
  ASSUME RestoreGrows, NEW s, JobFact(s)
  PROVE  JobFact(s)'
<1>1. s.at \in {"read-machine", "read-blob", "approve", "decrypt", "unpack"} =>
        /\ s.machine \in Live /\ s.machine \in Live' /\ s.who \in Addresses
        /\ s.excused \in BOOLEAN /\ s.began \in Nat /\ s.began <= Len(log'[s.machine])
  <2>1. ASSUME NEW m \in Live, NEW k \in Nat, k <= Len(log[m])
        PROVE  m \in Live' /\ k <= Len(log'[m])
    BY <2>1 DEF RestoreGrows, ChainGrows
  <2> QED
    BY <2>1 DEF JobFact
<1>2. s.at \in {"read-blob", "approve", "decrypt", "unpack"} =>
        s.policy = machines'[s.machine].policy
  BY <1>1 DEF JobFact, RestoreGrows, ChainGrows
<1>3. s.at \in {"read-blob", "approve", "decrypt", "unpack"} => SnapshotOf(s.machine, s.blob)'
  BY <1>1, SnapshotOfKept DEF JobFact
<1>4. s.at \in {"read-blob", "approve", "decrypt", "unpack"} =>
        WasCurrent(s.machine, s.began, s.blob)'
  BY <1>1, WasCurrentKept DEF JobFact
<1>5. s.at \in {"decrypt", "unpack"} =>
        /\ s.approval = buildApprove(machines[s.machine].policy, s.machine)'
        /\ s.answers["share"] > 0 => OnFile(s.machine, s.who)'
        /\ s.answers["denied"] > 0 => s.excused
  BY <1>1, ApprovalKept, OnFileKept DEF JobFact
<1>6. s.at = "unpack" => s.approval.id = s.blob.sealed /\ OnFile(s.machine, s.who)'
  BY <1>1, OnFileKept DEF JobFact
<1>7. s.at = "restored" =>
        /\ s.machine \in Live' /\ s.began \in Nat /\ WasCurrent(s.machine, s.began, s.blob)'
  BY WasCurrentKept DEF JobFact, RestoreGrows, ChainGrows
<1>8. s.at = "restored" => \E x \in Live' : s.blob.sealed = Identity(x)' /\ OnFile(x, s.who)'
  <2>1. ASSUME NEW x \in Live PROVE x \in Live' /\ Identity(x)' = Identity(x)
    BY DEF RestoreGrows, ChainGrows
  <2> QED
    BY <2>1, OnFileKept DEF JobFact
<1> QED
  BY <1>1, <1>2, <1>3, <1>4, <1>5, <1>6, <1>7, <1>8 DEF JobFact

(***************************************************************************)
(* What the chain adds                                                     *)
(***************************************************************************)
\* A snapshot that was pinned before stays sealed.
LEMMA OldBlobs ==
  ASSUME RestoreGrows, BlobsSealed, NEW m \in Live, machines'[m].blob = machines[m].blob,
         machines[m].blob # NoBlob
  PROVE  SnapshotOf(m, machines[m].blob)'
<1>1. PICK b : b = machines[m].blob /\ b = machines'[m].blob
  OBVIOUS
<1>2. SnapshotOf(m, b)
  BY <1>1 DEF BlobsSealed
<1>3. SnapshotOf(m, b)'
  BY <1>2, SnapshotOfKept
<1> QED
  BY <1>1, <1>3

\* An access entry pins nothing.
LEMMA AccessEntryBlobs ==
  ASSUME TypeOK, NEW s \in Addresses, NEW m \in Live, NEW g \in AccessPayloads,
         register_grant(s, m, g) \/ register_revoke(s, m, g)
  PROVE  Live' = Live /\ \A x \in Live : machines'[x].blob = machines[x].blob
<1>1. PICK type \in {Grant, Revoke} : append_head_entry(s, m, type, g)
  BY DEF register_grant, register_revoke
<1>2. type \in EntryTypes \ {Checkpoint} /\ g \in AllPayloads
  BY DEF EntryTypes, Grant, Revoke, Checkpoint, AllPayloads
<1>3. PICK r \in MachineRecords, e \in Events : ChainedStep(m, r, e) /\ e.type = type
  BY <1>1, <1>2, HeadEntryStep
<1>4. ExtendEffect(m, r, e)
  BY <1>3, ExtendFrame
<1>5. r.blob = machines[m].blob
  BY <1>2, <1>3 DEF ChainedStep, IsCheckpoint
<1> QED
  BY <1>4, <1>5 DEF ExtendEffect

\* A checkpoint is sealed under the identity of its Machine, and a fork pins
\* what its parent pinned.
LEMMA SealedStep ==
  ASSUME BaseInv, RestoreGrows, BlobsSealed, Chain
  PROVE  BlobsSealed'
<1>0. TypeOK
  BY DEF BaseInv, AccessTypeOK
<1>1. ASSUME \A x \in Live' : \/ machines'[x].blob = NoBlob
                              \/ x \in Live /\ machines'[x].blob = machines[x].blob
      PROVE  BlobsSealed'
  BY <1>1, OldBlobs DEF BlobsSealed
<1>2. ASSUME NEW m \in NewIds, NEW p \in PolicyIds \ {PackageId},
             create_shared_machine(Creator, m, p)
      PROVE  BlobsSealed'
  <2>1. CreateEffect(m)
    BY <1>0, <1>2, NewIdsAreIds, CreateFrame, RestoreAssumption DEF create_shared_machine
  <2> QED
    BY <1>1, <2>1 DEF CreateEffect
<1>3. ASSUME NEW s \in Addresses, NEW m \in Live, checkpoint(s, m)
      PROVE  BlobsSealed'
  <2>1. PICK b : b = [sealed |-> encrypt(machines[m].policy, m), at |-> machines[m].count]
    OBVIOUS
  <2>2. PICK h \in Manifests, x \in Payloads : register_checkpoint(s, m, b, h, x)
    BY <1>3, <2>1 DEF checkpoint
  <2>3. b \in Blobs
    BY <2>1, <2>2, SealedIsCiphertext DEF register_checkpoint, MayExtend
  <2>4. PICK r \in MachineRecords, e \in Events :
          ChainedStep(m, r, e) /\ e.type = Checkpoint /\ e.blob = b
    BY <1>0, <2>2, <2>3, CheckpointStep
  <2>5. ExtendEffect(m, r, e)
    BY <1>0, <2>4, ExtendFrame
  <2>6. machines'[m].blob = b /\ Live' = Live
        /\ \A y \in Live \ {m} : machines'[y].blob = machines[y].blob
    BY <2>4, <2>5 DEF ChainedStep, IsCheckpoint, ExtendEffect
  <2>7. b.sealed = Identity(m)
    BY <2>1 DEF encrypt, Identity, OwnPolicy, IsAccessPolicy
  <2>8. b.sealed = Identity(m)'
    BY <2>7 DEF RestoreGrows
  <2>9. SnapshotOf(m, b)'
    BY <2>6, <2>8 DEF SnapshotOf
  <2>10. ASSUME NEW y \in Live, machines'[y].blob # NoBlob
         PROVE  SnapshotOf(y, machines[y].blob)'
    <3>1. CASE y = m
      BY <2>6, <2>9, <3>1
    <3>2. CASE y # m
      BY <2>6, <2>10, <3>2, OldBlobs
    <3> QED
      BY <3>1, <3>2
  <2> QED
    BY <2>6, <2>10 DEF BlobsSealed
<1>4. ASSUME NEW s \in Addresses, NEW m \in Live, NEW c \in NewIds,
             NEW p \in PolicyIds, fork(s, m, c, p)
      PROVE  BlobsSealed'
  <2>1. c \in ObjectIds
    BY NewIdsAreIds
  <2>2. ForkEffect(m, c)
    BY <1>0, <1>4, <2>1, ForkFrame
  <2>3. /\ Live' = Live \cup {c} /\ c \in DOMAIN forks'
        /\ \A x \in Live : machines'[x] = machines[x]
        /\ machines'[c].blob = machines[m].blob
    BY <2>2 DEF ForkEffect
  <2>4. ASSUME machines[m].blob # NoBlob
        PROVE  SnapshotOf(c, machines[c].blob)'
    <3>1. PICK b : b = machines[m].blob /\ b = machines'[c].blob
      BY <2>3
    <3>2. PICK x \in Live : b.sealed = Identity(x)
      BY <2>4, <3>1 DEF BlobsSealed, SnapshotOf
    <3>3. x \in Live' /\ b.sealed = Identity(x)'
      BY <2>3, <3>2 DEF RestoreGrows
    <3>4. SnapshotOf(c, b)'
      BY <2>3, <3>3 DEF SnapshotOf
    <3> QED
      BY <3>1, <3>4
  <2>5. \A x \in Live : machines'[x].blob # NoBlob => SnapshotOf(x, machines[x].blob)'
    BY <2>3, OldBlobs
  <2> QED
    BY <2>3, <2>4, <2>5 DEF BlobsSealed
<1>5. CASE Tick
  BY <1>1, <1>5 DEF Tick, Live
<1>6. ASSUME NEW s \in Addresses, NEW a \in Addresses, NEW m \in Live, NEW p \in PolicyIds,
             NEW x \in Expiries, grant(s, m, p, a, FullRights, x) \/ revoke(s, m, p, a)
      PROVE  BlobsSealed'
  <2>1. /\ access_payload_hash(a, FullRights, x) \in AccessPayloads
        /\ access_payload_hash(a, {}, NoExpiry) \in AccessPayloads
    BY AccessPayloadsAssumption, RightsAssumption DEF access_payload_hash
  <2>2. Live' = Live /\ \A y \in Live : machines'[y].blob = machines[y].blob
    BY <1>0, <1>6, <2>1, AccessEntryBlobs DEF grant, revoke
  <2> QED
    BY <1>1, <2>2
<1>7. \A m \in Live : {PackageId, machines[m].policy} \subseteq PolicyIds
  BY <1>0, RestoreAssumption DEF TypeOK, MachineRecords
<1> QED
  BY <1>2, <1>3, <1>4, <1>5, <1>6, <1>7, RightsAssumption DEF Chain

\* Everybody a policy lists is on file: the chain replays to the grants.
LEMMA ViewOnFile ==
  ASSUME AccessTypeOK, PolicyBinding, GrantsReplayFromChain
  PROVE  ViewFact(View)
<1>1. View.policies = policies
  BY DEF View
<1>2. ASSUME NEW p \in DOMAIN policies, NEW a \in DOMAIN policies[p].grants
      PROVE  OnFile(policies[p].machine, a)
  <2>1. PICK m : m = policies[p].machine
    OBVIOUS
  <2>2. machines[m].owner = policies[p].owner /\ OwnPolicy(m)
    BY <2>1 DEF PolicyBinding, OwnPolicy, IsAccessPolicy
  <2>3. HasGrant(m, a) \/ a = policies[p].owner
    BY <2>1, GranteesOnFile
  <2> QED
    BY <2>1, <2>2, <2>3 DEF OnFile
<1> QED
  BY <1>1, <1>2 DEF ViewFact

(***************************************************************************)
(* The key servers                                                         *)
(***************************************************************************)
\* The approval that is built is for the identity of the Machine.
LEMMA ApprovalId ==
  ASSUME NEW m
  PROVE  LET a == buildApprove(machines[m].policy, m) IN
         /\ a.id = Identity(m)
         /\ OwnPolicy(m) => a.fn = "seal_approve_until" /\ a.policy = machines[m].policy
         /\ ~OwnPolicy(m) => a.fn = "seal_approve" /\ a.machine = m
  BY DEF buildApprove, Identity, OwnPolicy, IsAccessPolicy, buildSealApproveUntil,
         buildSealApprove

\* A server, up to date or not, hands shares only to people on file, and one
\* that is up to date denies only those the policy on chain denies.
LEMMA AnswerFacts ==
  ASSUME TypeOK, NEW m \in Live, NEW who, NEW v, ViewFact(v)
  PROVE  LET x == Answer(buildApprove(machines[m].policy, m), who, v) IN
         /\ x \in {"share", "denied", "error"}
         /\ x = "share" => OnFile(m, who)
         /\ x = "denied" /\ v = View => ~MayRestore(who, m)
<1>1. PICK a : a = buildApprove(machines[m].policy, m)
  OBVIOUS
<1>2. PICK x : x = Answer(a, who, v)
  OBVIOUS
<1>3. x \in {"share", "denied", "error"}
  BY <1>2 DEF Answer
<1>4. View.policies = policies /\ View.holder = holder /\ View.now = now /\ DOMAIN holder = Live
  BY DEF View, TypeOK
<1>5. CASE OwnPolicy(m)
  <2>1. PICK p : /\ p = machines[m].policy /\ p \in DOMAIN policies /\ policies[p].machine = m
                 /\ a.fn = "seal_approve_until" /\ a.policy = p /\ a.id = <<p, m>>
    BY <1>1, <1>5, ApprovalId DEF OwnPolicy, IsAccessPolicy, Identity, toPolicyIdentity
  <2>2. x = IF p \notin DOMAIN v.policies THEN "error"
            ELSE IF seal_approve_until_at(a.id, p, who, v) THEN "share" ELSE "denied"
    BY <1>2, <2>1 DEF Answer
  <2>3. ASSUME x = "share" PROVE OnFile(m, who)
    <3>1. p \in DOMAIN v.policies /\ who \in DOMAIN v.policies[p].grants
      BY <2>2, <2>3 DEF seal_approve_until_at
    <3> QED
      BY <2>1, <3>1 DEF ViewFact
  <2>4. ASSUME x = "denied", v = View PROVE ~MayRestore(who, m)
    <3>1. ~seal_approve_until_at(<<p, m>>, p, who, View)
      BY <2>1, <2>2, <2>4
    <3>2. MayRestore(who, m) <=> Approved(p, who)
      BY <1>5, <2>1 DEF MayRestore, OwnPolicy
    <3>3. Approved(p, who) => seal_approve_until_at(<<p, m>>, p, who, View)
      BY <1>4, <2>1 DEF Approved, seal_approve_until, seal_approve_allowlist, expected_identity,
                        unexpired, seal_approve_until_at
    <3> QED
      BY <3>1, <3>2, <3>3
  <2> QED
    BY <1>1, <1>2, <1>3, <2>3, <2>4
<1>6. CASE ~OwnPolicy(m)
  <2>1. a.fn = "seal_approve" /\ a.machine = m /\ a.id = toIdentity(m)
    BY <1>1, <1>6, ApprovalId DEF Identity
  <2>2. x = IF m \notin DOMAIN v.holder THEN "error"
            ELSE IF seal_approve(a.id, m, who, v) THEN "share" ELSE "denied"
    BY <1>2, <2>1 DEF Answer
  <2>3. ASSUME x = "share" PROVE OnFile(m, who)
    BY <2>2, <2>3 DEF seal_approve, OnFile
  <2>4. ASSUME x = "denied", v = View PROVE ~MayRestore(who, m)
    BY <1>4, <1>6, <2>1, <2>2, <2>4 DEF seal_approve, MayRestore, OwnPolicy
  <2> QED
    BY <1>1, <1>2, <1>3, <2>3, <2>4
<1> QED
  BY <1>5, <1>6

(***************************************************************************)
(* The steps of a restore                                                  *)
(***************************************************************************)
InLoop(s) == s.at \in {"read-machine", "read-blob", "approve", "decrypt"}

\* A new attempt knows nothing yet.
LEMMA AttemptFact ==
  ASSUME TypeOK, NEW s, s.machine \in Live, s.who \in Addresses, s.excused \in BOOLEAN, NEW n
  PROVE  JobFact(Attempt(s, n))
<1>1. PICK v, k : v = Attempt(s, n) /\ k = Len(log[s.machine])
  OBVIOUS
<1>2. /\ v.at = "read-machine" /\ v.who = s.who /\ v.machine = s.machine /\ v.began = k
      /\ v.excused = s.excused
  BY <1>1 DEF Attempt
<1>3. k \in Nat /\ k <= Len(log[s.machine])
  BY <1>1 DEF TypeOK
<1>4. JobFact(v)
  BY <1>2, <1>3 DEF JobFact, JobShape
<1> QED
  BY <1>1, <1>4

\* An error that is no denial forgets everything.
LEMMA RetryFact ==
  ASSUME TypeOK, NEW s, InLoop(s), JobFact(s), NEW error, error # "denied"
  PROVE  JobFact(withSealRetry(s, error))
<1>1. withSealRetry(s, error) = Retry(s)
  BY DEF withSealRetry, isAccessDenied
<1>2. PICK v : v = End(s, "failed")
  OBVIOUS
<1>3. v.at = "failed"
  BY <1>2 DEF End
<1>4. JobFact(v)
  BY <1>3 DEF JobFact, JobShape
<1>5. s.machine \in Live /\ s.who \in Addresses /\ s.excused \in BOOLEAN
  BY DEF JobFact, InLoop
<1>6. JobFact(Attempt(s, s.n + 1))
  BY <1>5, AttemptFact
<1> QED
  BY <1>1, <1>2, <1>4, <1>6 DEF Retry

\* Reading the Machine: the blob it pins is current now.
LEMMA ReadMachineFact ==
  ASSUME TypeOK, BlobsSealed, CurrentStateIsLastCheckpoint, JobFact(job), ReadMachine
  PROVE  JobFact(job')
<1>0. PICK s, v : s = job /\ v = job' /\ JobFact(s) /\ s.at = "read-machine"
  BY DEF ReadMachine
<1>1. PICK m \in Live : m = s.machine
  BY <1>0 DEF JobFact
<1>2. /\ v = IF machines[m].blob = NoBlob THEN withSealRetry(s, "no-checkpoint")
             ELSE WithMachine(s, machines[m].blob, machines[m].policy)
  BY <1>0, <1>1 DEF ReadMachine, Go
<1>3. CASE machines[m].blob = NoBlob
  <2>1. JobFact(v)
    BY <1>0, <1>2, <1>3, RetryFact DEF InLoop
  <2> QED
    BY <1>0, <2>1
<1>4. CASE machines[m].blob # NoBlob
  <2>1. PICK b, p : b = machines[m].blob /\ p = machines[m].policy /\ SnapshotOf(m, b)
    BY <1>4 DEF BlobsSealed
  <2>2. v = WithMachine(s, b, p)
    BY <1>2, <1>4, <2>1
  <2>3. /\ v.at = "read-blob" /\ v.who = s.who /\ v.machine = m /\ v.n = s.n
        /\ v.began = s.began /\ v.excused = s.excused /\ v.blob = b /\ v.policy = p
        /\ v = [at |-> v.at, who |-> v.who, machine |-> v.machine, n |-> v.n,
                began |-> v.began, excused |-> v.excused, blob |-> v.blob, policy |-> v.policy]
    BY <1>1, <2>2 DEF WithMachine
  <2>4. s.who \in Addresses /\ s.excused \in BOOLEAN /\ s.began \in Nat
        /\ s.began <= Len(log[m]) /\ Len(log[m]) \in Nat
    BY <1>0, <1>1 DEF JobFact, TypeOK
  <2>5. BlobAt(m, Len(log[m]), b)
    BY <2>1 DEF CurrentStateIsLastCheckpoint
  <2>6. WasCurrent(m, s.began, b)
    BY <2>4, <2>5 DEF WasCurrent
  <2>7. JobFact(v)
    BY <2>1, <2>3, <2>4, <2>6 DEF JobFact, JobShape
  <2> QED
    BY <1>0, <2>7
<1> QED
  BY <1>3, <1>4

\* The ciphertext changes nothing.
LEMMA ReadBlobFact ==
  ASSUME JobFact(job), ReadBlob
  PROVE  JobFact(job')
<1>0. PICK s, v : s = job /\ v = job' /\ JobFact(s) /\ s.at = "read-blob"
  BY DEF ReadBlob
<1>1. v = [s EXCEPT !.at = "approve"]
  BY <1>0 DEF ReadBlob, Go
<1>2. s = [at |-> s.at, who |-> s.who, machine |-> s.machine, n |-> s.n, began |-> s.began,
           excused |-> s.excused, blob |-> s.blob, policy |-> s.policy]
  BY <1>0 DEF JobFact, JobShape
<1>3. v = [at |-> "approve", who |-> s.who, machine |-> s.machine, n |-> s.n, began |-> s.began,
           excused |-> s.excused, blob |-> s.blob, policy |-> s.policy]
  BY <1>1, <1>2
<1>4. /\ v.at = "approve" /\ v.who = s.who /\ v.machine = s.machine /\ v.n = s.n
      /\ v.began = s.began /\ v.excused = s.excused /\ v.blob = s.blob /\ v.policy = s.policy
  BY <1>3
<1>5. JobShape(v)
  BY <1>3, <1>4 DEF JobShape
<1>6. JobFact(v)
  BY <1>0, <1>4, <1>5 DEF JobFact
<1> QED
  BY <1>0, <1>6

\* The approval is that of the Machine, and nobody has answered.
LEMMA ApproveFact ==
  ASSUME JobFact(job), Approve
  PROVE  JobFact(job')
<1>0. PICK s, v : s = job /\ v = job' /\ JobFact(s) /\ s.at = "approve"
  BY DEF Approve
<1>1. PICK a : a = buildApprove(s.policy, s.machine)
  OBVIOUS
<1>2. v = WithApproval(s, a)
  BY <1>0, <1>1 DEF Approve, Go
<1>3. /\ v.at = "decrypt" /\ v.who = s.who /\ v.machine = s.machine /\ v.n = s.n
      /\ v.began = s.began /\ v.excused = s.excused /\ v.blob = s.blob /\ v.policy = s.policy
      /\ v.approval = a /\ v.answers = NoAnswers
      /\ v = [at |-> v.at, who |-> v.who, machine |-> v.machine, n |-> v.n,
              began |-> v.began, excused |-> v.excused, blob |-> v.blob, policy |-> v.policy,
              approval |-> v.approval, answers |-> v.answers]
  BY <1>2 DEF WithApproval
<1>4. /\ NoAnswers \in [{"share", "denied", "error"} -> Nat]
      /\ NoAnswers["share"] = 0 /\ NoAnswers["denied"] = 0
  BY DEF NoAnswers
<1>5. JobShape(v)
  BY <1>3, <1>4 DEF JobShape
<1>6. s.policy = machines[s.machine].policy
  BY <1>0 DEF JobFact
<1>7. a = buildApprove(machines[s.machine].policy, s.machine)
  BY <1>1, <1>6
<1>8. JobFact(v)
  BY <1>0, <1>3, <1>4, <1>5, <1>7 DEF JobFact
<1> QED
  BY <1>0, <1>8

\* A restore begins with an attempt.
LEMMA BeginFact ==
  ASSUME TypeOK, NEW a \in Addresses, NEW m \in Live, BeginRestore(a, m)
  PROVE  JobFact(job')
<1>1. PICK s, v : s = [who |-> a, machine |-> m, excused |-> FALSE] /\ v = Attempt(s, 1)
  OBVIOUS
<1>2. s.machine \in Live /\ s.who \in Addresses /\ s.excused \in BOOLEAN
  BY <1>1
<1>3. JobFact(v)
  BY <1>1, <1>2, AttemptFact
<1>4. job' = v
  BY <1>1 DEF BeginRestore, Go
<1> QED
  BY <1>3, <1>4

\* A server's answer is counted.  A share goes to somebody on file, and a
\* denial is excused: the node was behind, or the chain denies it too.
LEMMA AskServerFact ==
  ASSUME TypeOK, ViewFact(seen), ViewFact(View), JobFact(job), AskServer
  PROVE  JobFact(job')
<1>0. PICK s, v : s = job /\ v = job' /\ JobFact(s) /\ s.at = "decrypt"
  BY DEF AskServer
<1>1. PICK w : /\ w \in {View, seen}
               /\ v = [s EXCEPT !.answers[Answer(s.approval, s.who, w)] = @ + 1,
                                !.excused = @ \/ Lags \/ ~MayRestore(s.who, s.machine)]
  BY <1>0 DEF AskServer, Go
<1>2. PICK x, ex : /\ x = Answer(s.approval, s.who, w)
                   /\ ex = (s.excused \/ Lags \/ ~MayRestore(s.who, s.machine))
  OBVIOUS
<1>3. PICK m \in Live : /\ m = s.machine
                        /\ s.approval = buildApprove(machines[m].policy, m)
  BY <1>0 DEF JobFact
<1>4. ViewFact(w)
  BY <1>1
<1>5. /\ x \in {"share", "denied", "error"}
      /\ x = "share" => OnFile(m, s.who)
      /\ x = "denied" /\ w = View => ~MayRestore(s.who, m)
  BY <1>2, <1>3, <1>4, AnswerFacts
<1>6. x = "denied" => ex
  BY <1>1, <1>2, <1>3, <1>5 DEF Lags
<1>7. ex \in BOOLEAN /\ (s.excused => ex)
  BY <1>2
<1>8. /\ s = [at |-> s.at, who |-> s.who, machine |-> s.machine, n |-> s.n, began |-> s.began,
              excused |-> s.excused, blob |-> s.blob, policy |-> s.policy,
              approval |-> s.approval, answers |-> s.answers]
      /\ s.answers \in [{"share", "denied", "error"} -> Nat]
  BY <1>0 DEF JobFact, JobShape
<1>9. PICK c : c = [s.answers EXCEPT ![x] = @ + 1]
  OBVIOUS
<1>10. v = [s EXCEPT !.answers = c, !.excused = ex]
  BY <1>1, <1>2, <1>9
<1>11. v = [at |-> "decrypt", who |-> s.who, machine |-> s.machine, n |-> s.n, began |-> s.began,
            excused |-> ex, blob |-> s.blob, policy |-> s.policy,
            approval |-> s.approval, answers |-> c]
  BY <1>0, <1>8, <1>10
<1>12. /\ v.at = "decrypt" /\ v.who = s.who /\ v.machine = s.machine /\ v.n = s.n
       /\ v.began = s.began /\ v.excused = ex /\ v.blob = s.blob /\ v.policy = s.policy
       /\ v.approval = s.approval /\ v.answers = c
  BY <1>11
<1>13. /\ c \in [{"share", "denied", "error"} -> Nat]
       /\ c["share"] > 0 => x = "share" \/ s.answers["share"] > 0
       /\ c["denied"] > 0 => x = "denied" \/ s.answers["denied"] > 0
  BY <1>5, <1>8, <1>9
<1>14. JobShape(v)
  BY <1>11, <1>12, <1>13 DEF JobShape
<1>15. /\ s.answers["share"] > 0 => OnFile(m, s.who)
       /\ s.answers["denied"] > 0 => s.excused
  BY <1>0, <1>3 DEF JobFact
<1>16. /\ v.answers["share"] > 0 => OnFile(v.machine, v.who)
       /\ v.answers["denied"] > 0 => v.excused
  BY <1>3, <1>5, <1>6, <1>7, <1>12, <1>13, <1>15
<1>17. JobFact(v)
  BY <1>0, <1>7, <1>12, <1>14, <1>16 DEF JobFact
<1> QED
  BY <1>0, <1>17

\* Shares decrypt what is sealed under the approved identity.
LEMMA DecryptFact ==
  ASSUME TypeOK, JobFact(job), Decrypt
  PROVE  JobFact(job')
<1>0. PICK s, v : s = job /\ v = job' /\ JobFact(s) /\ s.at = "decrypt"
  BY DEF Decrypt
<1>1. /\ s.answers["share"] >= Threshold
      /\ v = IF s.approval.id = s.blob.sealed THEN [s EXCEPT !.at = "unpack"]
             ELSE withSealRetry(s, "wrong-key")
  BY <1>0 DEF Decrypt, Go
<1>2. /\ s = [at |-> s.at, who |-> s.who, machine |-> s.machine, n |-> s.n, began |-> s.began,
              excused |-> s.excused, blob |-> s.blob, policy |-> s.policy,
              approval |-> s.approval, answers |-> s.answers]
      /\ s.answers \in [{"share", "denied", "error"} -> Nat]
  BY <1>0 DEF JobFact, JobShape
<1>3. s.answers["share"] > 0
  BY <1>1, <1>2, RestoreAssumption
<1>4. OnFile(s.machine, s.who)
  BY <1>0, <1>3 DEF JobFact
<1>5. CASE s.approval.id = s.blob.sealed
  <2>1. v = [at |-> "unpack", who |-> s.who, machine |-> s.machine, n |-> s.n,
             began |-> s.began, excused |-> s.excused, blob |-> s.blob, policy |-> s.policy,
             approval |-> s.approval, answers |-> s.answers]
    BY <1>1, <1>2, <1>5
  <2>2. /\ v.at = "unpack" /\ v.who = s.who /\ v.machine = s.machine /\ v.n = s.n
        /\ v.began = s.began /\ v.excused = s.excused /\ v.blob = s.blob /\ v.policy = s.policy
        /\ v.approval = s.approval /\ v.answers = s.answers
    BY <2>1
  <2>3. JobShape(v)
    BY <1>2, <2>1, <2>2 DEF JobShape
  <2>4. JobFact(v)
    BY <1>0, <1>4, <1>5, <2>2, <2>3 DEF JobFact
  <2> QED
    BY <1>0, <2>4
<1>6. CASE s.approval.id # s.blob.sealed
  <2>1. JobFact(v)
    BY <1>0, <1>1, <1>6, RetryFact DEF InLoop
  <2> QED
    BY <1>0, <2>1
<1> QED
  BY <1>5, <1>6

\* A restore is denied only when a server denied it.
LEMMA NotEnoughFact ==
  ASSUME TypeOK, JobFact(job), NotEnoughShares
  PROVE  JobFact(job')
<1>0. PICK s, v : s = job /\ v = job' /\ JobFact(s) /\ s.at = "decrypt"
  BY DEF NotEnoughShares
<1>1. PICK error \in {"denied", "error"} :
        /\ \A other \in {"denied", "error"} : s.answers[error] >= s.answers[other]
        /\ v = withSealRetry(s, error)
  BY <1>0 DEF NotEnoughShares, Go
<1>2. s.answers \in [{"share", "denied", "error"} -> Nat]
  BY <1>0 DEF JobFact, JobShape
<1>3. s.answers["share"] + s.answers["denied"] + s.answers["error"] = Servers
      /\ s.answers["share"] < Threshold
  BY <1>0 DEF NotEnoughShares, Asked
<1>4. CASE error = "denied"
  <2>1. s.answers["denied"] > 0
    BY <1>1, <1>2, <1>3, <1>4, RestoreAssumption
  <2>2. s.excused
    BY <1>0, <2>1 DEF JobFact
  <2>3. v = End(s, "denied")
    BY <1>1, <1>4 DEF withSealRetry, isAccessDenied
  <2>4. v.at = "denied" /\ v.excused = s.excused
    BY <2>3 DEF End
  <2>5. JobFact(v)
    BY <2>2, <2>4 DEF JobFact, JobShape
  <2> QED
    BY <1>0, <2>5
<1>5. CASE error # "denied"
  <2>1. JobFact(v)
    BY <1>0, <1>1, <1>5, RetryFact DEF InLoop
  <2> QED
    BY <1>0, <2>1
<1> QED
  BY <1>4, <1>5

\* What is unpacked was sealed for the Machine the approval is for.
LEMMA UnpackFact ==
  ASSUME JobFact(job), Unpack
  PROVE  JobFact(job')
<1>0. PICK s, v : s = job /\ v = job' /\ JobFact(s) /\ s.at = "unpack"
  BY DEF Unpack
<1>1. CASE v = End(s, "restored")
  <2>1. /\ v.at = "restored" /\ v.who = s.who /\ v.machine = s.machine /\ v.began = s.began
        /\ v.blob = s.blob
    BY <1>1 DEF End
  <2>2. PICK m \in Live : m = s.machine /\ s.approval = buildApprove(machines[m].policy, m)
    BY <1>0 DEF JobFact
  <2>3. s.blob.sealed = Identity(m) /\ OnFile(m, s.who)
    <3>1. s.approval.id = Identity(m)
      BY <2>2, ApprovalId
    <3> QED
      BY <1>0, <2>2, <3>1 DEF JobFact
  <2>4. s.began \in Nat /\ WasCurrent(s.machine, s.began, s.blob)
    BY <1>0 DEF JobFact
  <2>5. JobFact(v)
    BY <2>1, <2>2, <2>3, <2>4 DEF JobFact, JobShape
  <2> QED
    BY <1>0, <2>5
<1>2. CASE v = End(s, "unpack-failed")
  <2>1. v.at = "unpack-failed"
    BY <1>2 DEF End
  <2>2. JobFact(v)
    BY <2>1 DEF JobFact, JobShape
  <2> QED
    BY <1>0, <2>2
<1> QED
  BY <1>0, <1>1, <1>2 DEF Unpack, Go

\* A call that throws is retried.
LEMMA ThrowsFact ==
  ASSUME TypeOK, JobFact(job), Throws
  PROVE  JobFact(job')
<1>1. PICK s, v : s = job /\ v = job' /\ JobFact(s) /\ InLoop(s)
                  /\ v = withSealRetry(s, "transport")
  BY DEF Throws, Go, InLoop, PolicyUnreadable
<1>2. JobFact(v)
  BY <1>1, RetryFact
<1> QED
  BY <1>1, <1>2

(***************************************************************************)
(* The invariant is inductive, and what it gives                           *)
(***************************************************************************)
\* Every step of a command keeps what the restore has found out.
LEMMA CommandFact ==
  ASSUME TypeOK, BlobsSealed, CurrentStateIsLastCheckpoint, ViewFact(seen), ViewFact(View),
         JobFact(job), Command
  PROVE  JobFact(job')
  BY ReadMachineFact, ReadBlobFact, ApproveFact, AskServerFact, DecryptFact, NotEnoughFact,
     UnpackFact, ThrowsFact DEF Command

\* Every step of a restore, a key server or the chain keeps the invariant.
LEMMA RestoreInvStep ==
  ASSUME BaseInv, CurrentStateIsLastCheckpoint, PolicyBinding, GrantsReplayFromChain,
         RestoreInv, [RestoreNext]_restoreVars
  PROVE  RestoreInv'
<1>0. TypeOK /\ AccessTypeOK /\ PoliciesKnown /\ BlobsSealed /\ ViewFact(seen) /\ JobFact(job)
  BY DEF RestoreInv, BaseInv, AccessTypeOK
<1>1. RestoreGrows /\ PoliciesKnown'
  BY <1>0, RestoreOnlyGrows
<1>2. ViewFact(View)
  BY <1>0, ViewOnFile
<1>3. BlobsSealed'
  <2>1. CASE Chain
    BY <1>0, <1>1, <2>1, SealedStep
  <2>2. CASE RestoreOnly
    <3>1. Live' = Live /\ machines' = machines
      BY <2>2 DEF RestoreOnly, accessVars, vars, Live
    <3> QED
      BY <1>0, <1>1, <3>1, OldBlobs DEF BlobsSealed
  <2> QED
    BY <2>1, <2>2, RestoreStepKinds
<1>4. seen' = View \/ seen' = seen
  BY DEF RestoreNext, restoreVars, CatchUp, registerRestore, reeg_restore, BeginRestore,
         Command, ReadMachine, ReadBlob, Approve, AskServer, Decrypt, NotEnoughShares, Unpack,
         Throws, Go
<1>5. ViewFact(seen)'
  <2>1. PICK v : v = seen' /\ ViewFact(v)
    BY <1>0, <1>2, <1>4
  <2>2. ViewFact(v)'
    BY <1>1, <2>1, ViewKept
  <2> QED
    BY <2>1, <2>2
<1>6. JobFact(job)'
  <2>1. JobFact(job')
    <3>1. CASE Command
      BY <1>0, <1>2, <3>1, CommandFact
    <3>2. CASE \E a \in Addresses, m \in Live : registerRestore(a, m) \/ reeg_restore(a, m)
      BY <1>0, <3>2, BeginFact DEF registerRestore, reeg_restore
    <3>3. CASE UNCHANGED job
      BY <1>0, <3>3
    <3> QED
      BY <3>1, <3>2, <3>3 DEF RestoreNext, restoreVars, CatchUp
  <2>2. PICK v : v = job' /\ JobFact(v)
    BY <2>1
  <2>3. JobFact(v)'
    BY <1>1, <2>2, JobKept
  <2> QED
    BY <2>2, <2>3
<1> QED
  BY <1>1, <1>3, <1>5, <1>6 DEF RestoreInv

\* The invariant holds throughout.
LEMMA RestoreInvariant == RestoreSpec => []RestoreInv
<1>1. RestoreInit => RestoreInv
  <2> SUFFICES ASSUME RestoreInit PROVE RestoreInv
    OBVIOUS
  <2>1. Live = {} /\ DOMAIN policies = {}
    BY DEF RestoreInit, AccessInit, Init, Live
  <2>2. seen.policies = policies
    BY DEF RestoreInit, View
  <2>3. job.at = "none"
    BY DEF RestoreInit
  <2>4. JobFact(job)
    BY <2>3 DEF JobFact, JobShape
  <2> QED
    BY <2>1, <2>2, <2>4 DEF RestoreInv, PoliciesKnown, BlobsSealed, ViewFact
<1>2. /\ BaseInv /\ CurrentStateIsLastCheckpoint /\ PolicyBinding /\ GrantsReplayFromChain
      /\ RestoreInv /\ [RestoreNext]_restoreVars
      => RestoreInv'
  BY RestoreInvStep
<1>3. RestoreSpec => []CurrentStateIsLastCheckpoint
  BY RestoreRefines, AccessRefines, CurrentState, PTL DEF ImplementsMachine
<1>4. RestoreSpec => []PolicyBinding
  BY RestoreRefines, Binding, PTL
<1>5. RestoreSpec => []GrantsReplayFromChain
  BY RestoreRefines, GrantsReplay, PTL
<1> QED
  BY <1>1, <1>2, <1>3, <1>4, <1>5, RestoreBased, PTL DEF RestoreSpec

\* A retry starts over from the Machine object: what restore() unpacks was the
\* Machine's current snapshot at some moment since its last attempt began.
THEOREM RestoredCurrent == RestoreSpec => []RestoredWasCurrent
<1>1. RestoreInv => RestoredWasCurrent
  BY DEF RestoreInv, JobFact, WasCurrent, RestoredWasCurrent
<1> QED
  BY <1>1, RestoreInvariant, PTL

\* However many key servers lag, and whatever is shared, revoked or forked
\* meanwhile, only the owner of the Machine a snapshot is sealed for, or
\* somebody its chain names in a GRANT entry, ever restores it.
THEOREM RestoredOnRecord == RestoreSpec => []RestoredIsOnRecord
<1>1. RestoreInv => RestoredIsOnRecord
  <2> SUFFICES ASSUME RestoreInv, job.at = "restored"
               PROVE  LET m == SealedFor(job.blob) IN
                      \/ machines[m].owner = job.who
                      \/ /\ job.blob.sealed = toPolicyIdentity(machines[m].policy, m)
                         /\ \E i \in 1..Len(log[m]) :
                              log[m][i].type = Grant /\ log[m][i].payload.grantee = job.who
    BY DEF RestoredIsOnRecord
  <2>1. PICK x \in Live : job.blob.sealed = Identity(x) /\ OnFile(x, job.who)
    BY DEF RestoreInv, JobFact
  <2>2. SealedFor(job.blob) = x
    BY <2>1 DEF SealedFor, Identity, toPolicyIdentity, toIdentity
  <2> QED
    BY <2>1, <2>2 DEF OnFile, HasGrant, Identity
<1> QED
  BY <1>1, RestoreInvariant, PTL

\* withSealRetry ends a restore as denied only when a server denied it whose
\* node was behind, or while the policy on chain denied the caller.
THEOREM DenialDeserved == RestoreSpec => []DenialIsDeserved
<1>1. RestoreInv => DenialIsDeserved
  BY DEF RestoreInv, JobFact, DenialIsDeserved
<1> QED
  BY <1>1, RestoreInvariant, PTL

\* buildApprove asks for the identity the ciphertext is sealed under, except
\* for a fork that still pins its parent's snapshot.
THEOREM WrongKeyForFork == RestoreSpec => []WrongKeyOnlyForFork
<1>1. RestoreInv => WrongKeyOnlyForFork
  <2> SUFFICES ASSUME RestoreInv, job.at = "decrypt", job.approval.id # job.blob.sealed
               PROVE  job.machine \in DOMAIN forks /\ SealedFor(job.blob) # job.machine
    BY DEF WrongKeyOnlyForFork
  <2>1. PICK m \in Live : /\ m = job.machine /\ SnapshotOf(m, job.blob)
                          /\ job.approval = buildApprove(machines[m].policy, m)
    BY DEF RestoreInv, JobFact
  <2>2. job.approval.id = Identity(m)
    BY <2>1, ApprovalId
  <2>3. PICK x \in Live : job.blob.sealed = Identity(x) /\ (x = m \/ m \in DOMAIN forks)
    BY <2>1 DEF SnapshotOf
  <2>4. x # m
    BY <2>2, <2>3
  <2>5. SealedFor(job.blob) = x
    BY <2>3 DEF SealedFor, Identity, toPolicyIdentity, toIdentity
  <2> QED
    BY <2>1, <2>3, <2>4, <2>5
<1> QED
  BY <1>1, RestoreInvariant, PTL
=============================================================================
