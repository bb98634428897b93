--------------------------- MODULE ConsoleProofs ---------------------------
(***************************************************************************)
(* TLAPS proofs about Console: what a tab that may be far behind the chain *)
(* shows and sends, for any number of clicks, environments and people.     *)
(***************************************************************************)
EXTENDS Console, AccessProofs

(***************************************************************************)
(* The inductive invariant                                                 *)
(***************************************************************************)
\* What the buttons build, and how far a click has come.
Transactions ==
  [target : {"create_shared_machine"}]
    \cup [target : {"fork_owned"}, machine : ObjectIds, policy : PolicyIds]
    \cup [target : {"retire"}, machine : ObjectIds]
    \cup [target : {"grant"}, machine : ObjectIds, policy : PolicyIds, grantee : Addresses,
          rights : Rights, expiry : Expiries]
    \cup [target : {"revoke"}, machine : ObjectIds, policy : PolicyIds, grantee : Addresses]

OpenClicks ==
  [at : {"sign", "execute", "wait", "refresh"}, card : {"create", "actions", "share"},
   tx : Transactions, sponsored : BOOLEAN, new : ObjectIds \cup {None},
   signed : 0..1, executed : 0..1]

OverClicks == [at : {"done"}, signed : 0..1, executed : 0..1]

\* A Machine with checkpoints pins one of them.
CountedHasBlob == \A m \in Live : machines[m].count > 0 => machines[m].blob # NoBlob

ChainFact ==
  /\ AccessTypeOK /\ PolicyBinding /\ GrantsReplayFromChain
  /\ CountedHasBlob /\ now = 0

\* e is what the chain said of m at some time.
EnvironmentFact(m, e) ==
  /\ m \in Live /\ e.owner = machines[m].owner /\ e.policy = machines[m].policy
  /\ e.count \in Nat /\ e.count <= machines[m].count

\* m's own policy p, as the tab or the node knows it.
OwnPolicy(m, p) ==
  m \in Live /\ p = machines[m].policy /\ p \in DOMAIN policies /\ policies[p].machine = m

\* Everybody in gs owns m or was granted access to it.
HadAccess(m, gs) == \A a \in DOMAIN gs : a = machines[m].owner \/ HasGrant(m, a)

AccessFact(m, d) ==
  /\ OwnPolicy(m, d.policy) /\ d.owner = machines[m].owner
  /\ HadAccess(m, d.grants)

\* The read node is behind the chain, and never wrong about it.
NodeFact(v) ==
  /\ \A m \in DOMAIN v.machine : EnvironmentFact(m, v.machine[m])
  /\ \A p \in DOMAIN v.policy :
       /\ p \in DOMAIN policies /\ v.policy[p].machine = policies[p].machine
       /\ v.policy[p].owner = policies[p].owner
       /\ HadAccess(policies[p].machine, v.policy[p].grants)

\* So is the page r that shows d.
PageFact(r, d) ==
  /\ d = [owned |-> d.owned, environment |-> d.environment, access |-> d.access,
          retired |-> d.retired]
  /\ d.environment # None => EnvironmentFact(r, d.environment)
  /\ d.access # None => AccessFact(r, d.access)

\* A transaction that was offered can be executed, now and later, by whoever
\* still holds the Machine.
TransactionFact(tx) ==
  tx.target # "create_shared_machine" =>
    /\ tx.machine \in Live /\ machines[tx.machine].owner = User
    /\ tx.target = "fork_owned" => machines[tx.machine].count > 0
    /\ tx.target \in {"grant", "revoke"} => OwnPolicy(tx.machine, tx.policy)

ClickFact(s) ==
  /\ s \in OpenClicks \cup OverClicks
  /\ s.executed <= s.signed
  /\ s.at = "sign" => s.signed = 0
  /\ s.at = "execute" => s.signed = 1 /\ s.executed = 0
  /\ s.at \in {"sign", "execute"} => TransactionFact(s.tx)

ClicksFact ==
  /\ clicks \in Seq(OpenClicks \cup OverClicks)
  /\ \A c \in 1..Len(clicks) : ClickFact(clicks[c])

TabFact == PageFact(route, cache) /\ (Loaded => route \in Known)

ConsoleInv == ChainFact /\ NodeFact(node) /\ TabFact /\ ClicksFact

(***************************************************************************)
(* What the chain cannot take back stays true                              *)
(***************************************************************************)
Grows == ChainGrows /\ PoliciesGrow

\* A GRANT entry stays on the chain.
LEMMA HadAccessKept ==
  ASSUME Grows, NEW m \in Live, NEW gs, HadAccess(m, gs)
  PROVE  HadAccess(m, gs)'
<1>1. \A a : HasGrant(m, a) => HasGrant(m, a)'
  BY DEF Grows, ChainGrows, HasGrant
<1>2. machines'[m].owner = machines[m].owner
  BY DEF Grows, ChainGrows
<1> QED
  BY <1>1, <1>2 DEF HadAccess

\* What was read of a Machine stays true of it.
LEMMA EnvironmentKept ==
  ASSUME Grows, NEW m, NEW e, EnvironmentFact(m, e)
  PROVE  EnvironmentFact(m, e)'
  BY DEF Grows, ChainGrows, EnvironmentFact

\* A Machine keeps its policy.
LEMMA OwnPolicyKept ==
  ASSUME Grows, NEW m, NEW p, OwnPolicy(m, p)
  PROVE  OwnPolicy(m, p)'
  BY DEF Grows, ChainGrows, PoliciesGrow, OwnPolicy

\* What was read of a policy stays true, except for who was added or removed.
LEMMA AccessKept ==
  ASSUME Grows, NEW m, NEW d, AccessFact(m, d)
  PROVE  AccessFact(m, d)'
<1>1. m \in Live /\ OwnPolicy(m, d.policy) /\ d.owner = machines[m].owner /\ HadAccess(m, d.grants)
  BY DEF AccessFact, OwnPolicy
<1>2. OwnPolicy(m, d.policy)' /\ HadAccess(m, d.grants)'
  BY <1>1, OwnPolicyKept, HadAccessKept
<1>3. machines'[m].owner = machines[m].owner
  BY <1>1 DEF Grows, ChainGrows
<1> QED
  BY <1>1, <1>2, <1>3 DEF AccessFact

\* What the node has indexed stays true.
LEMMA NodeKept ==
  ASSUME PolicyBinding, Grows, NEW v, NodeFact(v)
  PROVE  NodeFact(v)'
<1>1. \A m \in DOMAIN v.machine : EnvironmentFact(m, v.machine[m])'
  BY EnvironmentKept DEF NodeFact
<1>2. ASSUME NEW p \in DOMAIN v.policy
      PROVE  /\ p \in DOMAIN policies' /\ v.policy[p].machine = policies'[p].machine
             /\ v.policy[p].owner = policies'[p].owner
             /\ HadAccess(policies[p].machine, v.policy[p].grants)'
  <2>1. /\ p \in DOMAIN policies /\ v.policy[p].machine = policies[p].machine
        /\ v.policy[p].owner = policies[p].owner
        /\ p \in DOMAIN policies' /\ policies'[p].machine = policies[p].machine
        /\ policies'[p].owner = policies[p].owner
    BY DEF NodeFact, Grows, PoliciesGrow
  <2>2. PICK m \in Live : m = policies[p].machine /\ m = policies'[p].machine
    BY <2>1 DEF PolicyBinding
  <2>3. HadAccess(m, v.policy[p].grants)
    BY <2>2 DEF NodeFact
  <2>4. HadAccess(m, v.policy[p].grants)'
    BY <2>3, HadAccessKept
  <2> QED
    BY <2>1, <2>2, <2>4
<1> QED
  BY <1>1, <1>2 DEF NodeFact

\* What the page shows stays true.
LEMMA PageKept ==
  ASSUME Grows, NEW r, NEW d, PageFact(r, d)
  PROVE  PageFact(r, d)'
<1>1. d.environment # None => EnvironmentFact(r, d.environment)'
  BY EnvironmentKept DEF PageFact
<1>2. d.access # None => AccessFact(r, d.access)'
  BY AccessKept DEF PageFact
<1> QED
  BY <1>1, <1>2 DEF PageFact

\* A transaction stays acceptable.
LEMMA TransactionKept ==
  ASSUME Grows, NEW tx, TransactionFact(tx)
  PROVE  TransactionFact(tx)'
<1>1. tx.target \in {"grant", "revoke"} => OwnPolicy(tx.machine, tx.policy)'
  BY OwnPolicyKept DEF TransactionFact
<1>2. ASSUME NEW m \in Live
      PROVE  /\ m \in Live' /\ machines'[m].owner = machines[m].owner
             /\ machines[m].count > 0 => machines'[m].count > 0
  BY DEF Grows, ChainGrows
<1> QED
  BY <1>1, <1>2 DEF TransactionFact

\* A click keeps what it knows.
LEMMA ClickKept ==
  ASSUME Grows, NEW s, ClickFact(s)
  PROVE  ClickFact(s)'
<1>1. s.at \in {"sign", "execute"} => TransactionFact(s.tx)'
  BY TransactionKept DEF ClickFact
<1> QED
  BY <1>1 DEF ClickFact

\* The node indexes what is there.
LEMMA IndexedFact ==
  ASSUME ChainFact
  PROVE  NodeFact(Indexed)
<1>1. PICK v : v = Indexed
  OBVIOUS
<1>2. /\ v.policy = policies /\ DOMAIN v.machine = Live
      /\ \A m \in Live : /\ v.machine[m].owner = machines[m].owner
                         /\ v.machine[m].policy = machines[m].policy
                         /\ v.machine[m].count = machines[m].count
  BY <1>1 DEF Indexed
<1>3. \A m \in Live : machines[m].count \in Nat
  BY DEF ChainFact, AccessTypeOK, TypeOK, MachineRecords
<1>4. \A m \in Live : EnvironmentFact(m, v.machine[m])
  BY <1>2, <1>3 DEF EnvironmentFact
<1>5. ASSUME NEW p \in DOMAIN policies
      PROVE  HadAccess(policies[p].machine, policies[p].grants)
  BY GranteesOnFile DEF HadAccess, ChainFact, PolicyBinding
<1>6. NodeFact(v)
  BY <1>2, <1>4, <1>5 DEF NodeFact
<1> QED
  BY <1>1, <1>6

(***************************************************************************)
(* What the tab and others do to the chain                                 *)
(***************************************************************************)
\* The chain moves as Access allows, and the clock stands still.
ChainMove == AccessNext /\ now' = now

\* Fresh ids are ids.
LEMMA FreshIsFresh ==
  ASSUME NEW S
  PROVE  Fresh(S) \subseteq S
<1>1. CASE S = {}
  BY <1>1 DEF Fresh
<1>2. CASE S # {}
  BY <1>2 DEF Fresh
<1> QED
  BY <1>1, <1>2

\* create_shared_machine is an action of Access.
LEMMA CreateMoves ==
  ASSUME AccessTypeOK, NEW s \in Addresses, NEW m \in NewIds,
         NEW p \in NewPolicyIds, create_shared_machine(s, m, p)
  PROVE  ChainMove
<1>1. m \in ObjectIds /\ p \in PolicyIds
  BY FreshIsFresh DEF NewIds, NewPolicyIds
<1>2. AccessNext
  BY <1>1 DEF AccessNext
<1>3. now' = now
  BY DEF create_shared_machine, Create
<1> QED
  BY <1>2, <1>3 DEF ChainMove

\* So is a fork.
LEMMA ForkMoves ==
  ASSUME AccessTypeOK, NEW m, NEW p \in PolicyIds, NEW c \in NewIds,
         fork(User, m, c, p), UNCHANGED policies
  PROVE  ChainMove
<1>1. m \in Live /\ c \in ObjectIds
  BY FreshIsFresh DEF NewIds, fork, OwnedInput
<1>2. AccessNext
  BY <1>1, ConsoleAssumption DEF AccessNext, PublicNext
<1>3. now' = now
  BY DEF fork
<1> QED
  BY <1>2, <1>3 DEF ChainMove

\* The fields of a transaction, by what it calls.
LEMMA TransactionShape ==
  ASSUME NEW tx \in Transactions
  PROVE  /\ tx.target \in sponsoredTargets
         /\ tx.target # "create_shared_machine" => tx.machine \in ObjectIds
         /\ tx.target \in {"fork_owned", "grant", "revoke"} => tx.policy \in PolicyIds
         /\ tx.target \in {"grant", "revoke"} => tx.grantee \in Addresses
         /\ tx.target = "grant" => tx.rights \in Rights /\ tx.expiry \in Expiries
  BY DEF Transactions, sponsoredTargets

\* What the user signs is a transaction of the chain.
LEMMA ExecutesMoves ==
  ASSUME AccessTypeOK, NEW tx \in Transactions, NEW new, Executes(tx, new)
  PROVE  ChainMove /\ new \in NewIds \cup {None}
<1>1. CASE tx.target = "create_shared_machine"
  <2>1. new \in NewIds /\ \E p \in NewPolicyIds : create_shared_machine(User, new, p)
    BY <1>1 DEF Executes
  <2> QED
    BY <2>1, CreateMoves, ConsoleAssumption
<1>2. CASE tx.target = "fork_owned"
  <2>1. new \in NewIds /\ fork(User, tx.machine, new, tx.policy) /\ UNCHANGED policies
    BY <1>2 DEF Executes
  <2>2. tx.policy \in PolicyIds
    BY <1>2, TransactionShape
  <2> QED
    BY <2>1, <2>2, ForkMoves
<1>3. CASE tx.target = "retire"
  <2>1. new = None /\ retire(User, tx.machine) /\ UNCHANGED policies
    BY <1>3 DEF Executes
  <2>2. tx.machine \in Live /\ \E r, e : Extend(tx.machine, r, e)
    BY <2>1 DEF retire, append_head_entry, MayExtend, OwnedInput
  <2>3. AccessNext
    BY <2>1, <2>2, ConsoleAssumption DEF AccessNext, PublicNext
  <2> QED
    BY <2>1, <2>2, <2>3 DEF Extend, ChainMove
<1>4. CASE tx.target = "grant"
  <2>1. new = None /\ grant(User, tx.machine, tx.policy, tx.grantee, tx.rights, tx.expiry)
    BY <1>4 DEF Executes
  <2>2. tx.machine \in Live /\ \E r, e : Extend(tx.machine, r, e)
    BY <2>1 DEF grant, register_grant, append_head_entry, MayExtend, OwnedInput
  <2>3. /\ tx.policy \in PolicyIds /\ tx.grantee \in Addresses /\ tx.rights \in Rights
        /\ tx.expiry \in Expiries
    BY <1>4, TransactionShape
  <2>4. AccessNext
    BY <2>1, <2>2, <2>3, ConsoleAssumption DEF AccessNext
  <2> QED
    BY <2>1, <2>2, <2>4 DEF Extend, ChainMove
<1>5. CASE tx.target = "revoke"
  <2>1. new = None /\ revoke(User, tx.machine, tx.policy, tx.grantee)
    BY <1>5 DEF Executes
  <2>2. tx.machine \in Live /\ \E r, e : Extend(tx.machine, r, e)
    BY <2>1 DEF revoke, register_revoke, append_head_entry, MayExtend, OwnedInput
  <2>3. tx.policy \in PolicyIds /\ tx.grantee \in Addresses
    BY <1>5, TransactionShape
  <2>4. AccessNext
    BY <2>1, <2>2, <2>3, ConsoleAssumption DEF AccessNext
  <2> QED
    BY <2>1, <2>2, <2>4 DEF Extend, ChainMove
<1> QED
  BY <1>1, <1>2, <1>3, <1>4, <1>5, TransactionShape DEF sponsoredTargets

\* So is what others do.
LEMMA ElsewhereMoves ==
  ASSUME AccessTypeOK, Elsewhere
  PROVE  ChainMove
<1>1. ASSUME UNCHANGED policies, NEW m \in Live, NEW b \in Blobs, NEW h \in Manifests,
             NEW x \in Payloads, register_checkpoint(machines[m].owner, m, b, h, x)
      PROVE  ChainMove
  <2>1. PICK s \in Addresses : s = machines[m].owner
    BY DEF AccessTypeOK, TypeOK, MachineRecords
  <2>2. AccessNext
    BY <1>1, <2>1 DEF AccessNext, PublicNext
  <2>3. \E r, e : Extend(m, r, e)
    BY <1>1 DEF register_checkpoint
  <2> QED
    BY <2>2, <2>3 DEF Extend, ChainMove
<1>2. ASSUME UNCHANGED policies, NEW m \in Live, NEW to \in Addresses, Transfer(holder[m], m, to)
      PROVE  ChainMove
  <2>1. PICK s \in Addresses : s = holder[m]
    BY DEF AccessTypeOK, TypeOK
  <2>2. AccessNext
    BY <1>2, <2>1 DEF AccessNext, PublicNext
  <2> QED
    BY <1>2, <2>2 DEF Transfer, ChainMove
<1> QED
  BY <1>1, <1>2, CreateMoves DEF Elsewhere

\* An entry that is no checkpoint counts for none and pins nothing.
LEMMA CountedHeadEntry ==
  ASSUME TypeOK, CountedHasBlob, NEW s \in Addresses, NEW m \in Live,
         NEW type \in EntryTypes \ {Checkpoint}, NEW p \in AllPayloads,
         append_head_entry(s, m, type, p)
  PROVE  CountedHasBlob'
<1>1. PICK r \in MachineRecords, e \in Events : ChainedStep(m, r, e) /\ e.type = type
  BY HeadEntryStep
<1>2. ExtendEffect(m, r, e)
  BY <1>1, ExtendFrame
<1>3. machines[m].count \in Nat
  BY DEF TypeOK, MachineRecords
<1>4. r.count = machines[m].count /\ r.blob = machines[m].blob
  BY <1>1, <1>3 DEF ChainedStep, IsCheckpoint
<1> QED
  BY <1>2, <1>4 DEF ExtendEffect, CountedHasBlob

\* A checkpoint is counted and pinned together.
LEMMA CountedStep ==
  ASSUME TypeOK, CountedHasBlob, [Next]_vars
  PROVE  CountedHasBlob'
<1>1. ASSUME NEW s \in Addresses, NEW id \in ObjectIds, NEW p \in PolicyIds, Create(s, id, p)
      PROVE  CountedHasBlob'
  <2>1. CreateEffect(id)
    BY <1>1, CreateFrame
  <2> QED
    BY <2>1 DEF CreateEffect, CountedHasBlob
<1>2. ASSUME NEW s \in Addresses, NEW m \in Live, NEW c \in ObjectIds, NEW p \in PolicyIds,
             fork(s, m, c, p)
      PROVE  CountedHasBlob'
  <2>1. ForkEffect(m, c)
    BY <1>2, ForkFrame
  <2> QED
    BY <2>1 DEF ForkEffect, CountedHasBlob
<1>3. ASSUME NEW s \in Addresses, NEW m \in Live, NEW b \in Blobs, NEW h \in Manifests,
             NEW p \in Payloads, register_checkpoint(s, m, b, h, p)
      PROVE  CountedHasBlob'
  <2>1. PICK r \in MachineRecords, e \in Events :
          ChainedStep(m, r, e) /\ e.type = Checkpoint /\ e.blob = b
    BY <1>3, CheckpointStep
  <2>2. ExtendEffect(m, r, e)
    BY <2>1, ExtendFrame
  <2>3. r.blob = b /\ b # NoBlob
    BY <2>1, SnapshotAssumption DEF ChainedStep, IsCheckpoint
  <2> QED
    BY <2>2, <2>3 DEF ExtendEffect, CountedHasBlob
<1>4. ASSUME NEW s \in Addresses, NEW m \in Live, retire(s, m)
      PROVE  CountedHasBlob'
  <2>1. Retire \in EntryTypes \ {Checkpoint}
    BY DEF EntryTypes, Retire, Checkpoint
  <2>2. OwnerPayload(machines[m].owner) \in AllPayloads
    BY DEF TypeOK, MachineRecords, AllPayloads
  <2> QED
    BY <1>4, <2>1, <2>2, CountedHeadEntry DEF retire
<1>5. ASSUME NEW s \in Addresses, NEW m \in Live, NEW p \in AccessPayloads,
             register_grant(s, m, p) \/ register_revoke(s, m, p)
      PROVE  CountedHasBlob'
  <2>1. p \in AllPayloads /\ {Grant, Revoke} \subseteq EntryTypes \ {Checkpoint}
    BY DEF AllPayloads, EntryTypes, Grant, Revoke, Checkpoint
  <2> QED
    BY <1>5, <2>1, CountedHeadEntry DEF register_grant, register_revoke
<1>6. ASSUME UNCHANGED machines
      PROVE  CountedHasBlob'
  BY <1>6 DEF CountedHasBlob, Live
<1> QED
  BY <1>1, <1>2, <1>3, <1>4, <1>5, <1>6 DEF Next, PublicNext, PackageNext, Transfer, Tick, vars

\* The chain keeps what is known of it, and takes nothing back.
LEMMA ChainFactStep ==
  ASSUME ChainFact, ChainMove \/ UNCHANGED accessVars
  PROVE  ChainFact' /\ Grows
<1>1. [AccessNext]_accessVars /\ AccessTypeOK /\ TypeOK
  BY DEF ChainMove, ChainFact, AccessTypeOK
<1>2. [Next]_vars
  BY <1>1, AccessStepIsMachineStep
<1>3. AccessTypeOK' /\ PolicyBinding' /\ GrantsReplayFromChain'
  BY <1>1, AccessTypeStep, BindingStep, ReplayStep DEF ChainFact
<1>4. CountedHasBlob'
  BY <1>1, <1>2, CountedStep DEF ChainFact
<1>5. now' = 0
  BY DEF ChainFact, ChainMove, accessVars, vars
<1>6. Grows
  BY <1>1, <1>2, ChainOnlyGrows, PoliciesOnlyGrow DEF Grows
<1> QED
  BY <1>3, <1>4, <1>5, <1>6 DEF ChainFact

(***************************************************************************)
(* The clicks                                                              *)
(***************************************************************************)
\* The clicks after a step, as far as the state before it can tell.
ClicksGoOn ==
  /\ clicks' \in Seq(OpenClicks \cup OverClicks)
  /\ \A d \in 1..Len(clicks') : ClickFact(clicks'[d])

\* One click goes on; the others stay.
LEMMA GoOnFact ==
  ASSUME ClicksFact, NEW c \in 1..Len(clicks), NEW v, ClickFact(v),
         clicks' = [clicks EXCEPT ![c] = v]
  PROVE  ClicksGoOn
<1>1. /\ clicks \in Seq(OpenClicks \cup OverClicks) /\ v \in OpenClicks \cup OverClicks
      /\ \A d \in 1..Len(clicks) : ClickFact(clicks[d])
  BY DEF ClicksFact, ClickFact
<1>2. clicks' \in Seq(OpenClicks \cup OverClicks) /\ Len(clicks') = Len(clicks)
  BY <1>1
<1>3. ASSUME NEW d \in 1..Len(clicks')
      PROVE  ClickFact(clicks'[d])
  <2>1. clicks'[d] = IF d = c THEN v ELSE clicks[d]
    BY <1>1, <1>2
  <2> QED
    BY <1>1, <1>2, <2>1
<1> QED
  BY <1>2, <1>3 DEF ClicksGoOn

\* A new click knows its transaction.
LEMMA ClickedFact ==
  ASSUME ClicksFact, NEW card \in {"create", "actions", "share"}, NEW tx \in Transactions,
         TransactionFact(tx), Click(card, tx)
  PROVE  ClicksGoOn
<1>1. PICK v : /\ v = [at |-> "sign", card |-> card, tx |-> tx, sponsored |-> FALSE,
                       new |-> None, signed |-> 0, executed |-> 0]
               /\ clicks' = Append(clicks, v)
  BY DEF Click
<1>2. v \in OpenClicks
  BY <1>1 DEF OpenClicks
<1>3. v.at = "sign" /\ v.tx = tx /\ v.signed = 0 /\ v.executed = 0
  BY <1>1
<1>4. ClickFact(v)
  BY <1>2, <1>3 DEF ClickFact
<1>5. /\ clicks \in Seq(OpenClicks \cup OverClicks) /\ Len(clicks) \in Nat
      /\ \A d \in 1..Len(clicks) : ClickFact(clicks[d])
  BY DEF ClicksFact
<1>6. clicks' \in Seq(OpenClicks \cup OverClicks) /\ Len(clicks') = Len(clicks) + 1
  BY <1>1, <1>2, <1>5
<1>7. ASSUME NEW d \in 1..Len(clicks')
      PROVE  ClickFact(clicks'[d])
  <2>1. clicks'[d] = IF d = Len(clicks) + 1 THEN v ELSE clicks[d]
    BY <1>1, <1>2, <1>5, <1>6
  <2> QED
    BY <1>4, <1>5, <1>6, <2>1
<1> QED
  BY <1>6, <1>7 DEF ClicksGoOn

\* What is over keeps its counts.
LEMMA OverFact ==
  ASSUME NEW s, s.signed \in 0..1, s.executed \in 0..1, s.executed <= s.signed
  PROVE  ClickFact(Over(s))
<1>1. PICK v : v = Over(s)
  OBVIOUS
<1>2. v \in OverClicks /\ v.at = "done" /\ v.signed = s.signed /\ v.executed = s.executed
  BY <1>1 DEF Over, OverClicks
<1>3. ClickFact(v)
  BY <1>2 DEF ClickFact
<1> QED
  BY <1>1, <1>3

\* The fields of a click.
LEMMA ClickShape ==
  ASSUME NEW s, ClickFact(s)
  PROVE  /\ s.signed \in 0..1 /\ s.executed \in 0..1 /\ s.executed <= s.signed
         /\ s.at # "done" => s \in OpenClicks
  BY DEF ClickFact, OpenClicks, OverClicks

\* What the type says of a click that goes on.
LEMMA OpenShape ==
  ASSUME NEW s
  PROVE  s \in OpenClicks <=>
           /\ s = [at |-> s.at, card |-> s.card, tx |-> s.tx, sponsored |-> s.sponsored,
                   new |-> s.new, signed |-> s.signed, executed |-> s.executed]
           /\ s.at \in {"sign", "execute", "wait", "refresh"}
           /\ s.card \in {"create", "actions", "share"} /\ s.tx \in Transactions
           /\ s.sponsored \in BOOLEAN /\ s.new \in ObjectIds \cup {None}
           /\ s.signed \in 0..1 /\ s.executed \in 0..1
  BY DEF OpenClicks

\* A click that ends, wherever it has come to.
LEMMA EndFact ==
  ASSUME ClicksFact, NEW c \in 1..Len(clicks), GoOn(c, Over(clicks[c]))
  PROVE  ClicksGoOn
<1>1. PICK s, v : s = clicks[c] /\ v = Over(s) /\ clicks' = [clicks EXCEPT ![c] = v]
  BY DEF GoOn
<1>2. ClickFact(s)
  BY <1>1 DEF ClicksFact
<1>3. ClickFact(v)
  BY <1>1, <1>2, OverFact, ClickShape
<1> QED
  BY <1>1, <1>3, GoOnFact

\* The user signs once.
LEMMA SignFact ==
  ASSUME ClicksFact, NEW c \in 1..Len(clicks), Sign(c)
  PROVE  ClicksGoOn
<1>1. PICK s : s = clicks[c] /\ s.at = "sign" /\ ClickFact(s)
  BY DEF Sign, At, ClicksFact
<1>2. PICK b \in BOOLEAN :
        clicks' = [clicks EXCEPT ![c] =
                     [s EXCEPT !.at = "execute", !.sponsored = b, !.signed = @ + 1]]
  BY <1>1 DEF Sign, GoOn, sponsor
<1>3. PICK v : v = [s EXCEPT !.at = "execute", !.sponsored = b, !.signed = @ + 1]
  OBVIOUS
<1>4. s \in OpenClicks /\ s.signed = 0 /\ s.executed = 0 /\ TransactionFact(s.tx)
  BY <1>1, ClickShape DEF ClickFact
<1>5. /\ s = [at |-> s.at, card |-> s.card, tx |-> s.tx, sponsored |-> s.sponsored,
              new |-> s.new, signed |-> s.signed, executed |-> s.executed]
      /\ s.card \in {"create", "actions", "share"} /\ s.tx \in Transactions
      /\ s.new \in ObjectIds \cup {None}
  BY <1>4, OpenShape
<1>c. v = [s EXCEPT !.at = "execute", !.sponsored = b, !.signed = 1]
  <2>1. s.signed + 1 = 1
    BY <1>4
  <2> QED
    BY <1>3, <2>1
<1>a. v = [at |-> "execute", card |-> s.card, tx |-> s.tx, sponsored |-> b,
           new |-> s.new, signed |-> 1, executed |-> 0]
  BY <1>4, <1>5, <1>c
<1>b. v \in OpenClicks
  BY <1>5, <1>a DEF OpenClicks
<1>6. /\ v \in OpenClicks /\ v.at = "execute" /\ v.tx = s.tx
      /\ v.signed = 1 /\ v.executed = 0
  BY <1>a, <1>b
<1>7. ClickFact(v)
  BY <1>4, <1>6 DEF ClickFact
<1> QED
  BY <1>2, <1>3, <1>7, GoOnFact

\* What reaches the chain, or aborts there, reaches it once.
LEMMA ReachedFact ==
  ASSUME ClicksFact, NEW c \in 1..Len(clicks), clicks[c].at = "execute",
         NEW new \in ObjectIds \cup {None},
         \/ GoOn(c, [clicks[c] EXCEPT !.at = After(clicks[c]), !.new = new,
                                      !.sponsored = FALSE, !.executed = @ + 1])
         \/ GoOn(c, [clicks[c] EXCEPT !.at = After(clicks[c]), !.sponsored = FALSE,
                                      !.executed = @ + 1])
         \/ GoOn(c, Failed([clicks[c] EXCEPT !.executed = @ + 1]))
  PROVE  ClicksGoOn
<1>1. PICK s : s = clicks[c] /\ s.at = "execute" /\ ClickFact(s)
  BY DEF ClicksFact
<1>2. s \in OpenClicks /\ s.signed = 1 /\ s.executed = 0
  BY <1>1, ClickShape DEF ClickFact
<1>3. After(s) \in {"wait", "refresh"}
  BY DEF After
<1>b. s.executed + 1 = 1
  BY <1>2
<1>a. /\ s = [at |-> s.at, card |-> s.card, tx |-> s.tx, sponsored |-> s.sponsored,
              new |-> s.new, signed |-> s.signed, executed |-> s.executed]
      /\ s.card \in {"create", "actions", "share"} /\ s.tx \in Transactions
      /\ s.new \in ObjectIds \cup {None}
  BY <1>2, OpenShape
<1>4. CASE GoOn(c, Failed([clicks[c] EXCEPT !.executed = @ + 1]))
  <2>1. PICK u, v : u = [s EXCEPT !.executed = @ + 1] /\ v = Over(u)
                    /\ clicks' = [clicks EXCEPT ![c] = v]
    BY <1>1, <1>4 DEF GoOn, Failed
  <2>2. u.signed = 1 /\ u.executed = 1
    BY <1>2, <2>1 DEF OpenClicks
  <2>3. u.signed \in 0..1 /\ u.executed \in 0..1 /\ u.executed <= u.signed
    BY <2>2
  <2>4. ClickFact(v)
    BY <2>1, <2>3, OverFact
  <2> QED
    BY <2>1, <2>4, GoOnFact
<1>5. ASSUME NEW v \in OpenClicks, v.at = After(s), v.signed = 1, v.executed = 1,
             clicks' = [clicks EXCEPT ![c] = v]
      PROVE  ClicksGoOn
  <2>1. ClickFact(v)
    BY <1>3, <1>5 DEF ClickFact
  <2> QED
    BY <1>5, <2>1, GoOnFact
<1>6. CASE GoOn(c, [clicks[c] EXCEPT !.at = After(clicks[c]), !.new = new,
                                     !.sponsored = FALSE, !.executed = @ + 1])
  <2>1. PICK v : /\ v = [s EXCEPT !.at = After(s), !.new = new, !.sponsored = FALSE,
                                  !.executed = @ + 1]
                 /\ clicks' = [clicks EXCEPT ![c] = v]
    BY <1>1, <1>6 DEF GoOn
  <2>a. v = [s EXCEPT !.at = After(s), !.new = new, !.sponsored = FALSE, !.executed = 1]
    BY <1>b, <2>1
  <2>2. v = [at |-> After(s), card |-> s.card, tx |-> s.tx, sponsored |-> FALSE,
             new |-> new, signed |-> 1, executed |-> 1]
    BY <1>2, <1>a, <2>a
  <2>3. v \in OpenClicks
    BY <1>3, <1>a, <2>2 DEF OpenClicks
  <2>4. v.at = After(s) /\ v.signed = 1 /\ v.executed = 1
    BY <2>2
  <2> QED
    BY <1>5, <2>1, <2>3, <2>4
<1>7. CASE GoOn(c, [clicks[c] EXCEPT !.at = After(clicks[c]), !.sponsored = FALSE,
                                     !.executed = @ + 1])
  <2>1. PICK v : /\ v = [s EXCEPT !.at = After(s), !.sponsored = FALSE, !.executed = @ + 1]
                 /\ clicks' = [clicks EXCEPT ![c] = v]
    BY <1>1, <1>7 DEF GoOn
  <2>a. v = [s EXCEPT !.at = After(s), !.sponsored = FALSE, !.executed = 1]
    BY <1>b, <2>1
  <2>2. v = [at |-> After(s), card |-> s.card, tx |-> s.tx, sponsored |-> FALSE,
             new |-> s.new, signed |-> 1, executed |-> 1]
    BY <1>2, <1>a, <2>a
  <2>3. v \in OpenClicks
    BY <1>3, <1>a, <2>2 DEF OpenClicks
  <2>4. v.at = After(s) /\ v.signed = 1 /\ v.executed = 1
    BY <2>2
  <2> QED
    BY <1>5, <2>1, <2>3, <2>4
<1> QED
  BY <1>4, <1>6, <1>7

\* What the buttons offer can be executed.
LEMMA CardFact ==
  ASSUME ChainFact, TabFact, ClicksFact,
         \/ onCreate \/ onFork \/ onRetire
         \/ \E a \in Addresses \ {User} :
              \/ \E role \in {"viewer", "restore"}, days \in Expiries : onGrant(a, role, days)
              \/ onRevoke(a)
  PROVE  ClicksGoOn
<1>0. \A m \in Live : m \in ObjectIds /\ machines[m].policy \in PolicyIds
  BY DEF ChainFact, AccessTypeOK, TypeOK, MachineRecords
<1>1. CASE onCreate
  <2>1. PICK tx : tx = buildCreateSharedMachine /\ Click("create", tx)
    BY <1>1 DEF onCreate
  <2>2. tx \in Transactions /\ TransactionFact(tx)
    BY <2>1 DEF buildCreateSharedMachine, Transactions, TransactionFact
  <2> QED
    BY <2>1, <2>2, ClickedFact
<1>2. CASE onFork
  <2>1. PICK tx : tx = buildFork(route, cache.environment.policy) /\ Click("actions", tx)
    BY <1>2 DEF onFork
  <2>2. /\ EnvironmentFact(route, cache.environment)
        /\ cache.environment.owner = User /\ cache.environment.count > 0
    BY <1>2 DEF onFork, Loaded, TabFact, PageFact, forkAvailability
  <2>3. /\ route \in Live /\ machines[route].owner = User /\ machines[route].count > 0
        /\ cache.environment.policy = machines[route].policy
    <3>1. machines[route].count \in Nat
      BY <2>2 DEF EnvironmentFact, ChainFact, AccessTypeOK, TypeOK, MachineRecords
    <3> QED
      BY <2>2, <3>1 DEF EnvironmentFact
  <2>4. tx.target = "fork_owned" /\ tx.machine = route /\ tx \in Transactions
    BY <1>0, <2>1, <2>3 DEF buildFork, Transactions
  <2>5. TransactionFact(tx)
    BY <2>3, <2>4 DEF TransactionFact
  <2> QED
    BY <2>1, <2>4, <2>5, ClickedFact
<1>3. CASE onRetire
  <2>1. PICK tx : tx = buildRetire(route) /\ Click("actions", tx)
    BY <1>3 DEF onRetire
  <2>2. EnvironmentFact(route, cache.environment) /\ cache.environment.owner = User
    BY <1>3 DEF onRetire, OffersRetire, Loaded, TabFact, PageFact
  <2>3. route \in Live /\ machines[route].owner = User
    BY <2>2 DEF EnvironmentFact
  <2>4. tx.target = "retire" /\ tx.machine = route /\ tx \in Transactions
    BY <1>0, <2>1, <2>3 DEF buildRetire, Transactions
  <2>5. TransactionFact(tx)
    BY <2>3, <2>4 DEF TransactionFact
  <2> QED
    BY <2>1, <2>4, <2>5, ClickedFact
<1>4. ASSUME CanManage
      PROVE  /\ OwnPolicy(route, cache.access.policy) /\ route \in Live
             /\ machines[route].owner = User /\ cache.access.policy \in PolicyIds
  BY <1>0, <1>4 DEF CanManage, TabFact, PageFact, AccessFact, OwnPolicy
<1>5. ASSUME NEW a \in Addresses, NEW role \in {"viewer", "restore"}, NEW days \in Expiries,
             onGrant(a, role, days)
      PROVE  ClicksGoOn
  <2>1. PICK tx, p, r, x :
          /\ p = cache.access.policy /\ r = rightsFor(role)
          /\ x = IF days = 0 THEN NoExpiry ELSE now + days
          /\ tx = buildGrant(route, p, a, r, x) /\ Click("share", tx)
    BY <1>5 DEF onGrant
  <2>2. /\ OwnPolicy(route, p) /\ route \in Live /\ machines[route].owner = User
        /\ p \in PolicyIds
    BY <1>4, <1>5, <2>1 DEF onGrant
  <2>3. r \in Rights
    BY <2>1, RightsAssumption, ConsoleAssumption DEF rightsFor
  <2>4. x \in Expiries
    BY <2>1, RightsAssumption DEF ChainFact
  <2>5. /\ tx.target = "grant" /\ tx.machine = route /\ tx.policy = p /\ tx \in Transactions
    BY <1>0, <2>1, <2>2, <2>3, <2>4 DEF buildGrant, Transactions
  <2>6. TransactionFact(tx)
    BY <2>2, <2>5 DEF TransactionFact
  <2> QED
    BY <2>1, <2>5, <2>6, ClickedFact
<1>6. ASSUME NEW a \in Addresses, onRevoke(a)
      PROVE  ClicksGoOn
  <2>1. PICK tx, p : /\ p = cache.access.policy
                     /\ tx = buildRevoke(route, p, a) /\ Click("share", tx)
    BY <1>6 DEF onRevoke
  <2>2. /\ OwnPolicy(route, p) /\ route \in Live /\ machines[route].owner = User
        /\ p \in PolicyIds
    BY <1>4, <1>6, <2>1 DEF onRevoke
  <2>3. tx.target = "revoke" /\ tx.machine = route /\ tx.policy = p /\ tx \in Transactions
    BY <1>0, <2>1, <2>2 DEF buildRevoke, Transactions
  <2>4. TransactionFact(tx)
    BY <2>2, <2>3 DEF TransactionFact
  <2> QED
    BY <2>1, <2>3, <2>4, ClickedFact
<1> QED
  BY <1>1, <1>2, <1>3, <1>5, <1>6

(***************************************************************************)
(* The page                                                                *)
(***************************************************************************)
\* The page after a step, as far as the state before it can tell.
PageGoesOn ==
  PageFact(route', cache') /\ (cache'.environment # None => route' \in Known)

\* The environment that is fetched is one the node has.
LEMMA LoadedEnvironment ==
  ASSUME NodeFact(node), NEW m \in Known
  PROVE  EnvironmentFact(m, loadEnvironment(m))
  BY DEF NodeFact, Known, loadEnvironment

\* The policy that is fetched is the Machine's own, never its parent's.
LEMMA LoadedAccess ==
  ASSUME ChainFact, NodeFact(node), NEW m \in Known, loadAccess(m) # None
  PROVE  AccessFact(m, loadAccess(m))
<1>1. PICK p : p = node.machine[m].policy
  OBVIOUS
<1>2. PICK d : d = loadAccess(m)
  OBVIOUS
<1>3. p \in DOMAIN node.policy /\ node.policy[p].machine = m
  BY <1>1, <1>2 DEF loadAccess
<1>4. d = [policy |-> p, owner |-> node.policy[p].owner, grants |-> node.policy[p].grants]
  BY <1>1, <1>2, <1>3 DEF loadAccess
<1>5. m \in Live /\ p = machines[m].policy
  BY <1>1 DEF NodeFact, Known, EnvironmentFact
<1>6. /\ p \in DOMAIN policies /\ policies[p].machine = m
      /\ node.policy[p].owner = policies[p].owner /\ HadAccess(m, node.policy[p].grants)
  BY <1>3 DEF NodeFact
<1>7. policies[p].owner = machines[m].owner
  BY <1>6 DEF ChainFact, PolicyBinding
<1>8. AccessFact(m, d)
  BY <1>4, <1>5, <1>6, <1>7 DEF AccessFact, OwnPolicy
<1> QED
  BY <1>2, <1>8

\* What a page shows.
Page(o, env, acc, ret) == [owned |-> o, environment |-> env, access |-> acc, retired |-> ret]

\* A page is good when what it shows is.
LEMMA PageOf ==
  ASSUME NEW o, NEW env, NEW acc, NEW ret, cache' = Page(o, env, acc, ret),
         env # None => EnvironmentFact(route', env) /\ route' \in Known,
         acc # None => AccessFact(route', acc)
  PROVE  PageGoesOn
<1>1. PICK d : d = cache' /\ d = Page(o, env, acc, ret)
  OBVIOUS
<1>2. /\ d = [owned |-> d.owned, environment |-> d.environment, access |-> d.access,
              retired |-> d.retired]
      /\ d.environment = env /\ d.access = acc
  BY <1>1 DEF Page
<1>3. PageFact(route', d)
  BY <1>2 DEF PageFact
<1> QED
  BY <1>1, <1>2, <1>3 DEF PageGoesOn

\* What the page shows is what it shows.
LEMMA PageShown ==
  ASSUME TabFact
  PROVE  /\ cache = Page(cache.owned, cache.environment, cache.access, cache.retired)
         /\ cache.environment # None =>
              EnvironmentFact(route, cache.environment) /\ route \in Known
         /\ cache.access # None => AccessFact(route, cache.access)
  BY DEF TabFact, PageFact, Page, Loaded

\* A page nobody touches.
LEMMA PageStays ==
  ASSUME TabFact, UNCHANGED <<route, cache>>
  PROVE  PageGoesOn
  BY DEF TabFact, PageGoesOn, Loaded

\* A page that has just been opened shows nothing.
LEMMA PageOpened ==
  ASSUME NEW to, navigate(to)
  PROVE  PageGoesOn
<1>1. cache' = Page(None, None, None, None)
  BY DEF navigate, NoData, Page
<1> QED
  BY <1>1, PageOf

\* A query brings what the node has, or nothing.
LEMMA QueriesFact ==
  ASSUME ChainFact, NodeFact(node), TabFact,
         useEnvironment \/ useAccess \/ useRetired \/ useOwnedMachines
  PROVE  PageGoesOn
<1>0. /\ cache = Page(cache.owned, cache.environment, cache.access, cache.retired)
      /\ cache.environment # None =>
           EnvironmentFact(route, cache.environment) /\ route \in Known
      /\ cache.access # None => AccessFact(route, cache.access)
  BY PageShown
<1>1. route' = route
  BY DEF useEnvironment, useAccess, useRetired, useOwnedMachines, Fetched
<1>2. ASSUME route \in Known, cache' = [cache EXCEPT !.environment = loadEnvironment(route)]
      PROVE  PageGoesOn
  <2>1. PICK env : env = loadEnvironment(route) /\ EnvironmentFact(route, env)
    BY <1>2, LoadedEnvironment
  <2>2. cache' = Page(cache.owned, env, cache.access, cache.retired)
    BY <1>0, <1>2, <2>1 DEF Page
  <2> QED
    BY <1>0, <1>1, <1>2, <2>1, <2>2, PageOf
<1>3. ASSUME cache' = [cache EXCEPT !.environment = None]
      PROVE  PageGoesOn
  <2>1. cache' = Page(cache.owned, None, cache.access, cache.retired)
    BY <1>0, <1>3 DEF Page
  <2> QED
    BY <1>0, <1>1, <2>1, PageOf
<1>4. CASE useAccess
  <2>1. PICK acc : acc \in {loadAccess(route), None} /\ cache' = [cache EXCEPT !.access = acc]
    BY <1>4 DEF useAccess, Fetched
  <2>2. route \in Known
    BY <1>0, <1>4 DEF useAccess, Loaded
  <2>3. acc # None => AccessFact(route, acc)
    BY <2>1, <2>2, LoadedAccess
  <2>4. cache' = Page(cache.owned, cache.environment, acc, cache.retired)
    BY <1>0, <2>1 DEF Page
  <2> QED
    BY <1>0, <1>1, <2>3, <2>4, PageOf
<1>5. CASE useRetired
  <2>1. PICK ret : cache' = [cache EXCEPT !.retired = ret]
    BY <1>5 DEF useRetired, Fetched
  <2>2. cache' = Page(cache.owned, cache.environment, cache.access, ret)
    BY <1>0, <2>1 DEF Page
  <2> QED
    BY <1>0, <1>1, <2>2, PageOf
<1>6. CASE useOwnedMachines
  <2>1. cache' = [cache EXCEPT !.owned = TRUE]
    BY <1>6 DEF useOwnedMachines, Fetched
  <2>2. cache' = Page(TRUE, cache.environment, cache.access, cache.retired)
    BY <1>0, <2>1 DEF Page
  <2> QED
    BY <1>0, <1>1, <2>2, PageOf
<1> QED
  BY <1>2, <1>3, <1>4, <1>5, <1>6 DEF useEnvironment, Fetched

\* So does the refetch after a transaction.
LEMMA RefetchFact ==
  ASSUME ChainFact, NodeFact(node), TabFact, NEW s, cache' \in {cache, Refetched(s)},
         UNCHANGED route
  PROVE  PageGoesOn
<1>0. /\ cache = Page(cache.owned, cache.environment, cache.access, cache.retired)
      /\ cache.access # None => AccessFact(route, cache.access)
  BY PageShown
<1>1. CASE cache' = cache
  BY <1>1, PageStays
<1>2. CASE cache' # cache
  <2>1. route = s.tx.machine /\ Loaded /\ route \in Known
    BY <1>2 DEF Refetched
  <2>2. PICK env, acc : env = loadEnvironment(route) /\ acc = loadAccess(route)
    OBVIOUS
  <2>3. EnvironmentFact(route, env) /\ (acc # None => AccessFact(route, acc))
    BY <2>1, <2>2, LoadedEnvironment, LoadedAccess
  <2>a. /\ s.tx.target = "retire" => cache' =
             [cache EXCEPT !.retired = route \in node.retired, !.environment = env]
        /\ s.tx.target # "retire" => cache' =
             [cache EXCEPT !.access = acc, !.environment = env]
    BY <1>2, <2>1, <2>2, Zenon DEF Refetched
  <2>4. CASE s.tx.target = "retire"
    <3>1. cache' = [cache EXCEPT !.retired = route \in node.retired, !.environment = env]
      BY <2>a, <2>4, Zenon
    <3>2. \E ret : cache' = [cache EXCEPT !.retired = ret, !.environment = env]
      BY <3>1, Zenon
    <3>3. PICK ret : cache' = [cache EXCEPT !.retired = ret, !.environment = env]
      BY <3>2, Zenon
    <3>4. cache' = Page(cache.owned, env, cache.access, ret)
      BY <1>0, <3>3 DEF Page
    <3> QED
      BY <1>0, <2>1, <2>3, <3>4, PageOf
  <2>5. CASE s.tx.target # "retire"
    <3>1. cache' = [cache EXCEPT !.access = acc, !.environment = env]
      BY <2>a, <2>5, Zenon
    <3>2. cache' = Page(cache.owned, env, acc, cache.retired)
      BY <1>0, <3>1 DEF Page
    <3> QED
      BY <2>1, <2>3, <3>2, PageOf
  <2> QED
    BY <2>4, <2>5
<1> QED
  BY <1>1, <1>2

(***************************************************************************)
(* The invariant is inductive, and what it gives                           *)
(***************************************************************************)
\* A step of the tab, its user or somebody else, as the state before it sees
\* it.
GoodStep ==
  /\ ChainMove \/ UNCHANGED accessVars
  /\ node' = node \/ node' = Indexed
  /\ PageGoesOn /\ ClicksGoOn

\* A click on its way: it moves the chain by what was signed, once, or not at
\* all, and refetches or navigates at the end.
LEMMA ClickStep ==
  ASSUME ConsoleInv, NEW c \in 1..MaxClicks, Sign(c) \/ Reject(c) \/ AfterSigning(c)
  PROVE  GoodStep
<1>0. /\ ChainFact /\ NodeFact(node) /\ TabFact /\ ClicksFact /\ AccessTypeOK
  BY DEF ConsoleInv, ChainFact
<1>1. c \in 1..Len(clicks)
  BY DEF Sign, Reject, AfterSigning, execute, ReplyLost, Aborts, ExecuteFails, Refresh, OpenNew, At
<1>2. CASE Sign(c)
  <2>1. UNCHANGED <<accessVars, node, route, cache>>
    BY <1>2 DEF Sign, tabVars
  <2> QED
    BY <1>0, <1>1, <1>2, <2>1, SignFact, PageStays DEF GoodStep
<1>3. CASE Reject(c) \/ ExecuteFails(c)
  <2>1. UNCHANGED <<accessVars, node, route, cache>> /\ GoOn(c, Over(clicks[c]))
    BY <1>3 DEF Reject, Ends, ExecuteFails, Failed
  <2> QED
    BY <1>0, <1>1, <2>1, EndFact, PageStays DEF GoodStep
<1>4. CASE execute(c) \/ ReplyLost(c)
  <2>1. PICK new \in NewIds \cup {None} :
          /\ Executes(clicks[c].tx, new)
          /\ \/ GoOn(c, [clicks[c] EXCEPT !.at = After(clicks[c]), !.new = new,
                                          !.sponsored = FALSE, !.executed = @ + 1])
             \/ GoOn(c, Failed([clicks[c] EXCEPT !.executed = @ + 1]))
    BY <1>4 DEF execute, ReplyLost
  <2>2. clicks[c].at = "execute" /\ node' = Indexed /\ UNCHANGED <<route, cache>>
    BY <1>4 DEF execute, ReplyLost, At, Behind, tabVars
  <2>3. clicks[c].tx \in Transactions
    <3>1. ClickFact(clicks[c])
      BY <1>0, <1>1 DEF ClicksFact
    <3>2. clicks[c] \in OpenClicks
      BY <2>2, <3>1, ClickShape
    <3> QED
      BY <3>2, OpenShape
  <2>4. ChainMove
    BY <1>0, <2>1, <2>3, ExecutesMoves
  <2>5. new \in ObjectIds \cup {None}
    BY FreshIsFresh DEF NewIds
  <2>6. ClicksGoOn
    BY <1>0, <1>1, <2>1, <2>2, <2>5, ReachedFact
  <2> QED
    BY <1>0, <2>2, <2>4, <2>6, PageStays DEF GoodStep
<1>5. CASE Aborts(c)
  <2>1. /\ clicks[c].at = "execute" /\ UNCHANGED <<accessVars, node, route, cache>>
        /\ GoOn(c, [clicks[c] EXCEPT !.at = After(clicks[c]), !.sponsored = FALSE,
                                     !.executed = @ + 1])
    BY <1>5 DEF Aborts, At, tabVars
  <2>2. ClicksGoOn
    BY <1>0, <1>1, <2>1, ReachedFact
  <2> QED
    BY <1>0, <2>1, <2>2, PageStays DEF GoodStep
<1>6. CASE Refresh(c)
  <2>1. /\ cache' \in {cache, Refetched(clicks[c])} /\ GoOn(c, Over(clicks[c]))
        /\ UNCHANGED <<accessVars, node, route>>
    BY <1>6 DEF Refresh
  <2>2. PageGoesOn
    BY <1>0, <2>1, RefetchFact
  <2> QED
    BY <1>0, <1>1, <2>1, <2>2, EndFact DEF GoodStep
<1>7. CASE OpenNew(c)
  <2>1. GoOn(c, Over(clicks[c])) /\ UNCHANGED <<accessVars, node>>
    BY <1>7 DEF OpenNew
  <2>2. (\E to : navigate(to)) \/ UNCHANGED <<route, cache>>
    BY <1>7 DEF OpenNew
  <2>3. PageGoesOn
    BY <1>0, <2>2, PageOpened, PageStays
  <2> QED
    BY <1>0, <1>1, <2>1, <2>3, EndFact DEF GoodStep
<1> QED
  BY <1>2, <1>3, <1>4, <1>5, <1>6, <1>7 DEF AfterSigning

\* Every step is a good one.
LEMMA ConsoleSteps ==
  ASSUME ConsoleInv, [ConsoleNext]_consoleVars
  PROVE  GoodStep
<1>0. /\ ChainFact /\ NodeFact(node) /\ TabFact /\ ClicksFact /\ AccessTypeOK
  BY DEF ConsoleInv, ChainFact
<1>1. UNCHANGED clicks => ClicksGoOn
  BY <1>0 DEF ClicksFact, ClicksGoOn
<1>2. CASE CatchUp \/ UNCHANGED consoleVars
  <2>1. UNCHANGED <<accessVars, route, cache, clicks>> /\ (node' = Indexed \/ node' = node)
    BY <1>2 DEF CatchUp, consoleVars, tabVars
  <2> QED
    BY <1>0, <1>1, <2>1, PageStays DEF GoodStep
<1>3. CASE Elsewhere
  <2>1. UNCHANGED <<route, cache, clicks>> /\ node' = Indexed
    BY <1>3 DEF Elsewhere, Behind, tabVars
  <2> QED
    BY <1>0, <1>1, <1>3, <2>1, ElsewhereMoves, PageStays DEF GoodStep
<1>4. CASE useEnvironment \/ useAccess \/ useRetired \/ useOwnedMachines
  <2>1. UNCHANGED <<accessVars, node, clicks>>
    BY <1>4 DEF useEnvironment, useAccess, useRetired, useOwnedMachines, Fetched
  <2> QED
    BY <1>0, <1>1, <1>4, <2>1, QueriesFact DEF GoodStep
<1>5. CASE GoHome \/ \E m \in ObjectIds : InspectAny(m)
  <2>1. UNCHANGED <<accessVars, node, clicks>> /\ \E to : navigate(to)
    BY <1>5 DEF GoHome, InspectAny
  <2> QED
    BY <1>1, <2>1, PageOpened DEF GoodStep
<1>6. CASE Buttons
  <2>1. UNCHANGED <<accessVars, node, route, cache>>
    BY <1>6 DEF Buttons, onCreate, onFork, onRetire, onGrant, onRevoke, Arm, Click
  <2>2. ClicksGoOn
    <3>1. CASE \E on \in BOOLEAN : Arm(on)
      BY <1>1, <3>1 DEF Arm
    <3> QED
      BY <1>0, <1>6, <3>1, CardFact DEF Buttons
  <2> QED
    BY <1>0, <2>1, <2>2, PageStays DEF GoodStep
<1> QED
  BY <1>2, <1>3, <1>4, <1>5, <1>6, ClickStep DEF ConsoleNext

\* A good step keeps the invariant.
LEMMA ConsoleInvStep ==
  ASSUME ConsoleInv, GoodStep
  PROVE  ConsoleInv'
<1>0. ChainFact /\ NodeFact(node) /\ TabFact /\ ClicksFact /\ PolicyBinding
  BY DEF ConsoleInv, ChainFact
<1>1. ChainFact' /\ Grows
  BY <1>0, ChainFactStep DEF GoodStep
<1>2. NodeFact(Indexed) /\ DOMAIN Indexed.machine = Live
  BY <1>0, IndexedFact DEF Indexed
<1>3. NodeFact(node)'
  <2>1. PICK v : v = node' /\ NodeFact(v)
    BY <1>0, <1>2 DEF GoodStep
  <2>2. NodeFact(v)'
    BY <1>0, <1>1, <2>1, NodeKept
  <2> QED
    BY <2>1, <2>2
<1>4. Known \subseteq Known'
  BY <1>0, <1>2 DEF GoodStep, Known, NodeFact, EnvironmentFact
<1>5. TabFact'
  <2>1. PICK r, d : r = route' /\ d = cache' /\ PageFact(r, d)
                    /\ (d.environment # None => r \in Known)
    BY DEF GoodStep, PageGoesOn
  <2>2. PageFact(r, d)'
    BY <1>1, <2>1, PageKept
  <2> QED
    BY <1>4, <2>1, <2>2 DEF TabFact, Loaded
<1>6. ClicksFact'
  <2>1. PICK w : /\ w = clicks' /\ w \in Seq(OpenClicks \cup OverClicks)
                 /\ \A c \in 1..Len(w) : ClickFact(w[c])
    BY DEF GoodStep, ClicksGoOn
  <2>2. \A c \in 1..Len(w) : ClickFact(w[c])'
    BY <1>1, <2>1, ClickKept
  <2> QED
    BY <2>1, <2>2 DEF ClicksFact
<1> QED
  BY <1>1, <1>3, <1>5, <1>6 DEF ConsoleInv

\* The invariant holds throughout.
LEMMA ConsoleInvariant == ConsoleSpec => []ConsoleInv
<1>1. ConsoleInit => ConsoleInv
  <2> SUFFICES ASSUME ConsoleInit PROVE ConsoleInv
    OBVIOUS
  <2>1. Live = {} /\ DOMAIN policies = {} /\ now = 0
    BY DEF ConsoleInit, AccessInit, Init, Live
  <2>2. AccessTypeOK
    BY DEF ConsoleInit, AccessInit, Init, AccessTypeOK, TypeOK, Live
  <2>3. ChainFact
    BY <2>1, <2>2 DEF ChainFact, PolicyBinding, GrantsReplayFromChain, CountedHasBlob
  <2>4. NodeFact(node)
    BY <2>3, IndexedFact DEF ConsoleInit
  <2>5. cache = NoData /\ clicks = <<>>
    BY DEF ConsoleInit
  <2>6. TabFact
    BY <2>5 DEF TabFact, PageFact, NoData, Loaded
  <2>7. ClicksFact
    BY <2>5 DEF ClicksFact
  <2> QED
    BY <2>3, <2>4, <2>6, <2>7 DEF ConsoleInv
<1>2. ConsoleInv /\ [ConsoleNext]_consoleVars => ConsoleInv'
  BY ConsoleSteps, ConsoleInvStep
<1> QED
  BY <1>1, <1>2, PTL DEF ConsoleSpec

\* Whatever the user clicks, and whoever pays for it, the chain does only what
\* access.move and machine.move allow: every theorem about Access holds under
\* the Console.
THEOREM ConsoleRefines == ConsoleSpec => AccessSpec
<1>1. ConsoleInit => AccessInit
  BY DEF ConsoleInit
<1>2. ConsoleInv /\ [ConsoleNext]_consoleVars => [AccessNext]_accessVars
  BY ConsoleSteps DEF GoodStep, ChainMove
<1> QED
  BY <1>1, <1>2, ConsoleInvariant, PTL DEF ConsoleSpec, AccessSpec

\* useExecuteTransaction falls back to the wallet before the signature only:
\* however sponsor, execute and their answers fail, no click is signed twice
\* or reaches the chain twice.
THEOREM SignedOnce == ConsoleSpec => []NeverTwice
<1>1. ConsoleInv => NeverTwice
  <2> SUFFICES ASSUME ConsoleInv, NEW c \in 1..Len(clicks)
               PROVE  clicks[c].executed <= clicks[c].signed /\ clicks[c].signed <= 1
    BY DEF NeverTwice
  <2>1. ClickFact(clicks[c])
    BY DEF ConsoleInv, ClicksFact
  <2> QED
    BY <2>1, ClickShape
<1> QED
  BY <1>1, ConsoleInvariant, PTL

\* What a card built from a page that may be arbitrarily old is still a
\* transaction the Move code accepts when it lands, from a user who still holds
\* the Machine: its owner field, the blob a fork needs and the policy's binding
\* are as the page had them, also after the Machine was given away.
THEOREM StaysValid == ConsoleSpec => []TransactionsStayValid
<1>1. ConsoleInv => TransactionsStayValid
  <2> SUFFICES ASSUME ConsoleInv, NEW c \in 1..Len(clicks), Pending(c), NEW tx,
                      tx = clicks[c].tx, tx.target # "create_shared_machine"
               PROVE  /\ assert_owner(User, tx.machine)
                      /\ OwnedInput(User, tx.machine) \/ GivenAway(tx.machine)
                      /\ tx.target = "fork_owned" => machines[tx.machine].blob # NoBlob
                      /\ tx.target \in {"grant", "revoke"} =>
                           assert_owner_and_binding(User, tx.machine, tx.policy)
    BY DEF TransactionsStayValid
  <2>1. ClickFact(clicks[c])
    BY DEF ConsoleInv, ClicksFact
  <2>2. TransactionFact(tx)
    BY <2>1 DEF ClickFact, Pending
  <2>3. tx.machine \in Live /\ machines[tx.machine].owner = User
    BY <2>2 DEF TransactionFact
  <2>4. OwnedInput(User, tx.machine) \/ GivenAway(tx.machine)
    BY <2>3 DEF OwnedInput, GivenAway
  <2>5. tx.target = "fork_owned" => machines[tx.machine].blob # NoBlob
    BY <2>2, <2>3 DEF TransactionFact, ConsoleInv, ChainFact, CountedHasBlob
  <2>6. tx.target \in {"grant", "revoke"} =>
          assert_owner_and_binding(User, tx.machine, tx.policy)
    BY <2>2, <2>3 DEF TransactionFact, OwnPolicy, ConsoleInv, ChainFact, PolicyBinding,
                      assert_owner_and_binding
  <2> QED
    BY <2>3, <2>4, <2>5, <2>6 DEF assert_owner
<1> QED
  BY <1>1, ConsoleInvariant, PTL

\* loadAccess never shows the people of another environment: everybody in the
\* share panel owns the environment or is named by a GRANT entry of its chain.
THEOREM ShownHadAccess == ConsoleSpec => []PeopleShownHadAccess
<1>1. ConsoleInv => PeopleShownHadAccess
  <2> SUFFICES ASSUME ConsoleInv, cache.access # None, NEW a \in DOMAIN cache.access.grants
               PROVE  \/ a = machines[route].owner
                      \/ HasGrant(route, a)
    BY DEF PeopleShownHadAccess, HasGrant
  <2>1. AccessFact(route, cache.access)
    BY DEF ConsoleInv, TabFact, PageFact
  <2> QED
    BY <2>1 DEF AccessFact, HadAccess
<1> QED
  BY <1>1, ConsoleInvariant, PTL
=============================================================================
