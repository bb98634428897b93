------------------------------ MODULE Machine ------------------------------
(***************************************************************************)
(* The on-chain Machine object of move/sources/machine.move: one agent     *)
(* environment, its hash-chained provenance head, and the events from      *)
(* which the off-chain verifier rebuilds the chain.                        *)
(*                                                                         *)
(* Sui runs a transaction atomically and aborts it without effect when an  *)
(* assertion fails, so one Move entry function is one action and its       *)
(* assertions are the action's guards.                                     *)
(*                                                                         *)
(* blake2b256 is taken to be collision-free.  A digest is therefore        *)
(* represented by its preimage: the head of a chain is the sequence of     *)
(* links that were hashed into it, and two heads are equal exactly when    *)
(* their preimages are.                                                    *)
(***************************************************************************)
EXTENDS Integers, Sequences

CONSTANTS
  ObjectIds,       \* ids that object::new can hand to a Machine
  Addresses,       \* transaction senders
  PolicyIds,       \* values of the policy_id argument
  Blobs,           \* Walrus blob ids a client may anchor
  Manifests,       \* manifest hashes a client may anchor
  Payloads,        \* payload hashes a client may anchor
  AccessPayloads,  \* payload hashes reeg::access passes to register_grant/revoke
  NoBlob,          \* current_blob_id 0
  NoManifest,      \* the empty manifest_hash
  NoParent,        \* option::none
  MaxEntries,      \* bound: provenance entries per Machine
  MaxTime          \* bound: largest Clock value

ASSUME BoundsAssumption == MaxEntries \in Nat /\ MaxTime \in Nat
ASSUME NoParentAssumption == NoParent \notin ObjectIds

VARIABLES
  machines,  \* the Machine objects, a function on the ids created so far
  holder,    \* the Sui owner of each object: whose signature can name it as input
  log,       \* per Machine, its provenance events in emission order
  forks,     \* MachineForked events, by child id
  now        \* the shared Clock

vars == <<machines, holder, log, forks, now>>

Checkpoint == "CHECKPOINT"
Grant      == "GRANT"
Revoke     == "REVOKE"
Fork       == "FORK"
Retire     == "RETIRE"
EntryTypes == {Checkpoint, Grant, Revoke, Retire}

\* What retire hashes: bcs(owner).
OwnerPayload(a) == [owner |-> a]

AllPayloads == Payloads \cup AccessPayloads \cup {OwnerPayload(a) : a \in Addresses}

(***************************************************************************)
(* Hashes.  A Link is what one hash adds to the preimage it extends.       *)
(***************************************************************************)
OriginLinks == [tag : {"GENESIS", Fork}, id : ObjectIds]
EntryLinks  == [tag : EntryTypes, seq : Nat, blob : Blobs \cup {NoBlob},
                manifest : Manifests \cup {NoManifest}, payload : AllPayloads,
                ts : Nat]
Heads == Seq(OriginLinks \cup EntryLinks)

\* Faulty variant: a genesis that is not bound to the object id.
genesis_head_unbound(id) == <<[tag |-> "GENESIS", id |-> NoParent]>>

genesis_head(id) == <<[tag |-> "GENESIS", id |-> id]>>

\* Faulty variant: the child id is left out of the fork preimage.
compute_fork_genesis_unbound(parent_head, child) ==
  Append(parent_head, [tag |-> Fork, id |-> NoParent])

compute_fork_genesis(parent_head, child) ==
  Append(parent_head, [tag |-> Fork, id |-> child])

\* Faulty variant: the previous head is left out of the entry's preimage.
compute_entry_hash_unchained(prev_head, e) ==
  <<[tag |-> e.type, seq |-> e.seq, blob |-> e.blob,
     manifest |-> e.manifest, payload |-> e.payload, ts |-> e.ts]>>

compute_entry_hash(prev_head, e) ==
  Append(prev_head, [tag |-> e.type, seq |-> e.seq, blob |-> e.blob,
                     manifest |-> e.manifest, payload |-> e.payload, ts |-> e.ts])

(***************************************************************************)
(* State shapes                                                            *)
(***************************************************************************)
MachineRecords ==
  [owner : Addresses, blob : Blobs \cup {NoBlob},
   manifest : Manifests \cup {NoManifest}, head : Heads, count : Nat,
   parent : ObjectIds \cup {NoParent}, policy : PolicyIds]

\* CheckpointRegistered, AccessGranted, AccessRevoked and MachineRetired all
\* carry these fields; the type says which event it is.
Events ==
  [type : EntryTypes, seq : Nat, blob : Blobs \cup {NoBlob},
   manifest : Manifests \cup {NoManifest}, payload : AllPayloads, ts : Nat,
   prev : Heads, new : Heads]

ForkEvents ==
  [parent : ObjectIds, owner : Addresses, blob : Blobs \cup {NoBlob},
   parentHead : Heads, childHead : Heads]

Init ==
  /\ machines = [id \in {} |-> NoParent]
  /\ holder = [id \in {} |-> NoParent]
  /\ log = [id \in {} |-> <<>>]
  /\ forks = [id \in {} |-> NoParent]
  /\ now = 0

Live == DOMAIN machines

\* Faulty variant: the Machine is a shared object, an input for everybody.
OwnedInput_shared(sender, m) == m \in Live

\* Sui accepts an owned object as a transaction input only from its holder.
OwnedInput(sender, m) == m \in Live /\ holder[m] = sender

With(f, x, v) == [y \in DOMAIN f \cup {x} |-> IF y = x THEN v ELSE f[y]]

(***************************************************************************)
(* create, create_owned                                                    *)
(***************************************************************************)
Create(sender, id, policy) ==
  /\ id \in ObjectIds \ Live
  /\ machines' = With(machines, id,
       [owner |-> sender, blob |-> NoBlob, manifest |-> NoManifest,
        head |-> genesis_head(id), count |-> 0, parent |-> NoParent,
        policy |-> policy])
  /\ holder' = With(holder, id, sender)
  /\ log' = With(log, id, <<>>)
  /\ UNCHANGED <<forks, now>>

\* The event of one chained entry on top of the Machine's current head.
ChainedEvent(m, type, seq, blob, manifest, payload) ==
  LET e == [type |-> type, seq |-> seq, blob |-> blob, manifest |-> manifest,
            payload |-> payload, ts |-> now]
      prev == machines[m].head
  IN [type |-> type, seq |-> seq, blob |-> blob, manifest |-> manifest,
      payload |-> payload, ts |-> now, prev |-> prev,
      new |-> compute_entry_hash(prev, e)]

\* Faulty variant: whoever holds the object may extend its chain.
assert_owner_skipped(sender, m) == TRUE

assert_owner(sender, m) == machines[m].owner = sender

MayExtend(sender, m) ==
  /\ OwnedInput(sender, m)
  /\ assert_owner(sender, m)
  /\ Len(log[m]) < MaxEntries

\* One chained entry: the Machine becomes `machine` and e is emitted.
Extend(m, machine, e) ==
  /\ machines' = [machines EXCEPT ![m] = machine]
  /\ log' = [log EXCEPT ![m] = Append(@, e)]
  /\ UNCHANGED <<holder, forks, now>>

(***************************************************************************)
(* register_checkpoint                                                     *)
(***************************************************************************)
\* Faulty variant: the count is advanced past the sequence just used.
Checkpointed_skips(m, e) ==
  [machines[m] EXCEPT !.blob = e.blob, !.head = e.new,
                      !.manifest = e.manifest, !.count = e.seq + 2]

Checkpointed(m, e) ==
  [machines[m] EXCEPT !.blob = e.blob, !.head = e.new,
                      !.manifest = e.manifest, !.count = e.seq + 1]

register_checkpoint(sender, m, blob, manifest, payload) ==
  /\ MayExtend(sender, m)
  /\ LET e == ChainedEvent(m, Checkpoint, machines[m].count, blob, manifest, payload)
     IN Extend(m, Checkpointed(m, e), e)

(***************************************************************************)
(* append_head_entry and its callers register_grant, register_revoke,      *)
(* retire: the head advances, the checkpoint state does not.  The entry    *)
(* shares the sequence of the next checkpoint.                             *)
(***************************************************************************)
\* Faulty variant: the empty anchors of the entry are stored as well.
HeadAdvanced_clears(m, e) ==
  [machines[m] EXCEPT !.head = e.new, !.blob = e.blob, !.manifest = e.manifest]

\* Faulty variant: the event is emitted and the head stays.
HeadAdvanced_stale(m, e) == machines[m]

HeadAdvanced(m, e) == [machines[m] EXCEPT !.head = e.new]

append_head_entry(sender, m, type, payload) ==
  /\ MayExtend(sender, m)
  /\ LET e == ChainedEvent(m, type, machines[m].count, NoBlob, NoManifest, payload)
     IN Extend(m, HeadAdvanced(m, e), e)

register_grant(sender, m, payload)  == append_head_entry(sender, m, Grant, payload)
register_revoke(sender, m, payload) == append_head_entry(sender, m, Revoke, payload)
retire(sender, m) == append_head_entry(sender, m, Retire, OwnerPayload(machines[m].owner))

(***************************************************************************)
(* fork, fork_owned: the child pins the parent's blob and manifest and     *)
(* starts a chain of its own on the parent's head.                         *)
(***************************************************************************)
\* Faulty variant: the child keeps the parent's checkpoint count.
ForkChild_keeps_count(sender, parent, child, policy) ==
  [owner |-> sender, blob |-> machines[parent].blob,
   manifest |-> machines[parent].manifest,
   head |-> compute_fork_genesis(machines[parent].head, child),
   count |-> machines[parent].count, parent |-> parent, policy |-> policy]

\* Faulty variant: the child starts on the parent's own origin, not on its head.
ForkChild_from_origin(sender, parent, child, policy) ==
  [owner |-> sender, blob |-> machines[parent].blob,
   manifest |-> machines[parent].manifest,
   head |-> compute_fork_genesis(genesis_head(parent), child),
   count |-> 0, parent |-> parent, policy |-> policy]

ForkChild(sender, parent, child, policy) ==
  [owner |-> sender, blob |-> machines[parent].blob,
   manifest |-> machines[parent].manifest,
   head |-> compute_fork_genesis(machines[parent].head, child),
   count |-> 0, parent |-> parent, policy |-> policy]

fork(sender, parent, child, policy) ==
  /\ OwnedInput(sender, parent)
  /\ assert_owner(sender, parent)
  /\ child \in ObjectIds \ Live
  /\ LET c == ForkChild(sender, parent, child, policy) IN
       /\ machines' = With(machines, child, c)
       /\ forks' = With(forks, child,
            [parent |-> parent, owner |-> sender, blob |-> c.blob,
             parentHead |-> machines[parent].head, childHead |-> c.head])
  /\ holder' = With(holder, child, sender)
  /\ log' = With(log, child, <<>>)
  /\ UNCHANGED now

(***************************************************************************)
(* The Sui framework.  Machine has `store`, so transfer::public_transfer   *)
(* moves it; the owner field is not written.  The Clock only moves on.     *)
(***************************************************************************)
Transfer(sender, m, to) ==
  /\ OwnedInput(sender, m)
  /\ holder' = [holder EXCEPT ![m] = to]
  /\ UNCHANGED <<machines, log, forks, now>>

Tick ==
  /\ now < MaxTime
  /\ now' = now + 1
  /\ UNCHANGED <<machines, holder, log, forks>>

\* Entry points any transaction can call.
PublicNext ==
  \/ \E s \in Addresses, id \in ObjectIds, p \in PolicyIds : Create(s, id, p)
  \/ \E s \in Addresses, m \in Live, b \in Blobs, h \in Manifests, p \in Payloads :
       register_checkpoint(s, m, b, h, p)
  \/ \E s \in Addresses, m \in Live : retire(s, m)
  \/ \E s \in Addresses, m \in Live, c \in ObjectIds, p \in PolicyIds : fork(s, m, c, p)
  \/ \E s, to \in Addresses, m \in Live : Transfer(s, m, to)
  \/ Tick

\* public(package) functions: only reeg::access calls them.
PackageNext ==
  \E s \in Addresses, m \in Live, p \in AccessPayloads :
    register_grant(s, m, p) \/ register_revoke(s, m, p)

Next == PublicNext \/ PackageNext

Spec == Init /\ [][Next]_vars

-----------------------------------------------------------------------------
(***************************************************************************)
(* What the events say                                                     *)
(***************************************************************************)
\* The head a Machine's chain starts from: its own id, or the child head its
\* MachineForked event records.
StartHead(m) == IF m \in DOMAIN forks THEN forks[m].childHead ELSE genesis_head(m)

StartBlob(m) == IF m \in DOMAIN forks THEN forks[m].blob ELSE NoBlob

\* The head after the first k entries.
HeadAt(m, k) == IF k = 0 THEN StartHead(m) ELSE log[m][k].new

IsCheckpoint(e) == e.type = Checkpoint

\* i is the last checkpoint among the first k entries.
LastCheckpoint(m, k, i) ==
  /\ i \in 1..k /\ IsCheckpoint(log[m][i])
  /\ \A j \in (i + 1)..k : ~IsCheckpoint(log[m][j])

NoCheckpoint(m, k) == \A j \in 1..k : ~IsCheckpoint(log[m][j])

\* The blob pinned after the first k entries, as far as the events tell.
BlobAt(m, k, b) ==
  \/ NoCheckpoint(m, k) /\ b = StartBlob(m)
  \/ \E i \in 1..k : LastCheckpoint(m, k, i) /\ b = log[m][i].blob

(***************************************************************************)
(* Properties                                                              *)
(***************************************************************************)
\* Every object, event and fork record has its declared shape.
TypeOK ==
  /\ Live \subseteq ObjectIds
  /\ machines \in [Live -> MachineRecords]
  /\ holder \in [Live -> Addresses]
  /\ log \in [Live -> Seq(Events)]
  /\ DOMAIN forks \subseteq Live
  /\ forks \in [DOMAIN forks -> ForkEvents]
  /\ now \in Nat

\* The events of a Machine, taken in emission order, link hash to hash from
\* its start head to the provenance_head stored in the object: what
\* register_checkpoint, append_head_entry and fork write is what a replay of
\* the events recomputes.
HeadReplaysFromEvents ==
  \A m \in Live :
    /\ machines[m].head = HeadAt(m, Len(log[m]))
    /\ \A i \in 1..Len(log[m]) :
         /\ log[m][i].prev = HeadAt(m, i - 1)
         /\ log[m][i].new = compute_entry_hash(log[m][i].prev, log[m][i])

\* Checkpoint sequences run 0..n-1 without a gap and checkpoint_count is the
\* next one, whatever grants, revokes and retirements share the chain: an
\* entry's sequence is consumed exactly when the entry is a checkpoint.
NextSeq(m, k) ==
  IF k = 0 THEN 0
  ELSE log[m][k].seq + (IF IsCheckpoint(log[m][k]) THEN 1 ELSE 0)

CheckpointSeqsContiguous ==
  \A m \in Live :
    /\ machines[m].count = NextSeq(m, Len(log[m]))
    /\ \A i \in 1..Len(log[m]) : log[m][i].seq = NextSeq(m, i - 1)

\* current_blob_id and manifest_hash are those of the last checkpoint event;
\* before the first one a Machine pins nothing, or what its fork inherited.
CurrentStateIsLastCheckpoint ==
  \A m \in Live : LET n == Len(log[m]) IN
    /\ BlobAt(m, n, machines[m].blob)
    /\ \A i \in 1..n :
         LastCheckpoint(m, n, i) => machines[m].manifest = log[m][i].manifest

\* A fork's record is true of its parent for ever: the parent's chain really
\* passed through parent_head, and the blob the child started from is the one
\* the parent pinned at that point, however far the parent has moved since.
ForkLineage ==
  \A c \in Live :
    /\ (machines[c].parent # NoParent) <=> c \in DOMAIN forks
    /\ c \in DOMAIN forks =>
         LET f == forks[c] IN
         /\ f.parent = machines[c].parent /\ f.parent \in Live
         /\ f.childHead = compute_fork_genesis(f.parentHead, c)
         /\ \E k \in 0..Len(log[f.parent]) :
              HeadAt(f.parent, k) = f.parentHead /\ BlobAt(f.parent, k, f.blob)

\* "Two Machines never share a chain": a head value belongs to one Machine
\* and one position of its chain, across forks of forks, so the verifier's
\* map from prev_head to entry is never ambiguous.
HeadsNeverCollide ==
  \A m1, m2 \in Live : \A i \in 0..Len(log[m1]), j \in 0..Len(log[m2]) :
    HeadAt(m1, i) = HeadAt(m2, j) => m1 = m2 /\ i = j

\* History is append-only: no operation on any Machine removes a Machine,
\* rewrites an event, or moves a head other than by hashing onto it.
HistoryAppendOnly ==
  [][\A m \in Live :
       /\ m \in Live'
       /\ Len(log'[m]) >= Len(log[m])
       /\ SubSeq(log'[m], 1, Len(log[m])) = log[m]
       /\ SubSeq(machines'[m].head, 1, Len(machines[m].head)) = machines[m].head]_vars

\* The owner field never follows the object, so a Machine that was handed to
\* somebody else can be changed by nobody: neither the holder (ENotOwner) nor
\* the recorded owner (not the holder) extends its chain.
TransferredIsFrozen ==
  [][\A m \in Live : holder[m] # machines[m].owner =>
       machines'[m] = machines[m] /\ log'[m] = log[m]]_vars

(***************************************************************************)
(* The detailed object implements a versioned environment: grants,         *)
(* revokes, retirement and transfers are invisible to it.                  *)
(***************************************************************************)
Env == INSTANCE VersionedEnvironment WITH
  Ids     <- ObjectIds,
  States  <- [blob : Blobs \cup {NoBlob}, manifest : Manifests \cup {NoManifest}],
  Empty   <- [blob |-> NoBlob, manifest |-> NoManifest],
  current <- [m \in Live |-> [blob |-> machines[m].blob, manifest |-> machines[m].manifest]],
  version <- [m \in Live |-> machines[m].count]

\* Every step of a Machine is a step of the versioned environment or leaves
\* it alone.
ImplementsVersionedEnvironment == Env!Spec
=============================================================================
