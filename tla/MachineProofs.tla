--------------------------- MODULE MachineProofs ---------------------------
(***************************************************************************)
(* TLAPS proofs about Machine, for every set of ids, senders, blobs and    *)
(* hashes and for every bound: what a step can change, what the head, the  *)
(* counters and the pinned state are, whose a head is, and what the record *)
(* of a fork says of its parent.                                           *)
(***************************************************************************)
EXTENDS Machine, TLAPS

(***************************************************************************)
(* The shapes the operations build                                         *)
(***************************************************************************)
\* A chained entry on top of a well-formed head is a well-formed event, and
\* the head it produces is well formed.
LEMMA ChainedEventType ==
  ASSUME TypeOK, NEW m \in Live, NEW type \in EntryTypes, NEW seq \in Nat,
         NEW blob \in Blobs \cup {NoBlob}, NEW manifest \in Manifests \cup {NoManifest},
         NEW payload \in AllPayloads
  PROVE  ChainedEvent(m, type, seq, blob, manifest, payload) \in Events
<1> DEFINE e == [type |-> type, seq |-> seq, blob |-> blob, manifest |-> manifest,
                 payload |-> payload, ts |-> now]
           link == [tag |-> e.type, seq |-> e.seq, blob |-> e.blob,
                    manifest |-> e.manifest, payload |-> e.payload, ts |-> e.ts]
<1>1. machines[m].head \in Heads
  BY DEF TypeOK, MachineRecords
<1>2. link \in EntryLinks
  BY DEF TypeOK, EntryLinks
<1>3. Append(machines[m].head, link) \in Heads
  BY <1>1, <1>2 DEF Heads
<1>4. compute_entry_hash(machines[m].head, e) \in Heads
  BY <1>3 DEF compute_entry_hash
<1> QED
  BY <1>1, <1>4 DEF ChainedEvent, Events, TypeOK

\* One chained entry keeps every shape, whatever record the Machine becomes.
LEMMA ExtendType ==
  ASSUME TypeOK, NEW m \in Live, NEW r \in MachineRecords, NEW e \in Events,
         Extend(m, r, e)
  PROVE  TypeOK'
<1>1. machines' \in [Live -> MachineRecords] /\ DOMAIN machines' = DOMAIN machines
  BY DEF TypeOK, Extend, Live
<1>2. log' \in [Live -> Seq(Events)]
  BY DEF TypeOK, Extend
<1> QED
  BY <1>1, <1>2 DEF TypeOK, Extend, Live

(***************************************************************************)
(* What a step can be.  The four operations that extend a chain differ     *)
(* only in the entry and in whether it is a checkpoint.                    *)
(***************************************************************************)
ChainedStep(m, r, e) ==
  /\ Extend(m, r, e)
  /\ r \in MachineRecords /\ e \in Events
  /\ holder[m] = machines[m].owner /\ Len(log[m]) < MaxEntries
  /\ e.prev = machines[m].head
  /\ e.new = compute_entry_hash(e.prev, e)
  /\ e.seq = machines[m].count
  /\ r.owner = machines[m].owner /\ r.parent = machines[m].parent
  /\ r.policy = machines[m].policy /\ r.head = e.new
  /\ r.count = e.seq + (IF IsCheckpoint(e) THEN 1 ELSE 0)
  /\ r.blob = (IF IsCheckpoint(e) THEN e.blob ELSE machines[m].blob)
  /\ r.manifest = (IF IsCheckpoint(e) THEN e.manifest ELSE machines[m].manifest)

\* The fields of a chained event.
LEMMA ChainedEventFields ==
  ASSUME NEW m, NEW type, NEW seq, NEW blob, NEW manifest, NEW payload
  PROVE  LET e == ChainedEvent(m, type, seq, blob, manifest, payload) IN
         /\ e.type = type /\ e.seq = seq /\ e.blob = blob /\ e.manifest = manifest
         /\ e.payload = payload /\ e.prev = machines[m].head
         /\ e.new = compute_entry_hash(e.prev, e)
  BY DEF ChainedEvent, compute_entry_hash

\* register_checkpoint extends the chain by a checkpoint.
LEMMA CheckpointStep ==
  ASSUME TypeOK, NEW s \in Addresses, NEW m \in Live, NEW b \in Blobs,
         NEW h \in Manifests, NEW p \in Payloads, register_checkpoint(s, m, b, h, p)
  PROVE  \E r \in MachineRecords, e \in Events :
           /\ ChainedStep(m, r, e) /\ e.type = Checkpoint
           /\ e.blob = b /\ e.manifest = h /\ e.payload = p
<1> DEFINE e == ChainedEvent(m, Checkpoint, machines[m].count, b, h, p)
           r == Checkpointed(m, e)
<1>1. machines[m] \in MachineRecords
  BY DEF TypeOK
<1>2. machines[m].count \in Nat /\ p \in AllPayloads /\ Checkpoint \in EntryTypes
  BY <1>1 DEF MachineRecords, AllPayloads, EntryTypes
<1>3. e \in Events
  BY <1>2, ChainedEventType
<1>4. /\ e.type = Checkpoint /\ e.seq = machines[m].count
      /\ e.blob = b /\ e.manifest = h /\ e.payload = p
      /\ e.prev = machines[m].head /\ e.new = compute_entry_hash(e.prev, e)
  BY ChainedEventFields
<1>5. Extend(m, r, e) /\ holder[m] = machines[m].owner /\ Len(log[m]) < MaxEntries
  BY DEF register_checkpoint, MayExtend, OwnedInput, assert_owner
<1> HIDE DEF e
<1>6. e.seq \in Nat /\ e.new \in Heads /\ e.blob \in Blobs \cup {NoBlob}
      /\ e.manifest \in Manifests \cup {NoManifest}
  BY <1>3 DEF Events
<1>a. r = [machines[m] EXCEPT !.blob = e.blob, !.head = e.new,
                              !.manifest = e.manifest, !.count = e.seq + 1]
  BY DEF Checkpointed
<1>b. PICK q \in MachineRecords : q = machines[m]
  BY <1>1
<1>c. r = [owner |-> q.owner, blob |-> e.blob, manifest |-> e.manifest,
           head |-> e.new, count |-> e.seq + 1, parent |-> q.parent,
           policy |-> q.policy]
  BY <1>a, <1>b DEF MachineRecords
<1>7. /\ r \in MachineRecords
      /\ r.owner = machines[m].owner /\ r.parent = machines[m].parent
      /\ r.policy = machines[m].policy
      /\ r.head = e.new /\ r.count = e.seq + 1 /\ r.blob = e.blob
      /\ r.manifest = e.manifest
  BY <1>b, <1>c, <1>6 DEF MachineRecords
<1>8. ChainedStep(m, r, e)
  BY <1>3, <1>4, <1>5, <1>7 DEF ChainedStep, IsCheckpoint
<1> QED
  BY <1>3, <1>4, <1>7, <1>8

\* append_head_entry extends the chain by an entry that is no checkpoint.
LEMMA HeadEntryStep ==
  ASSUME TypeOK, NEW s \in Addresses, NEW m \in Live, NEW type \in EntryTypes \ {Checkpoint},
         NEW p \in AllPayloads, append_head_entry(s, m, type, p)
  PROVE  \E r \in MachineRecords, e \in Events :
           ChainedStep(m, r, e) /\ e.type = type /\ e.payload = p
<1> DEFINE e == ChainedEvent(m, type, machines[m].count, NoBlob, NoManifest, p)
           r == HeadAdvanced(m, e)
<1>1. machines[m] \in MachineRecords
  BY DEF TypeOK
<1>2. machines[m].count \in Nat
  BY <1>1 DEF MachineRecords
<1>3. e \in Events
  BY <1>2, ChainedEventType
<1>4. /\ e.type = type /\ e.payload = p /\ e.seq = machines[m].count
      /\ e.prev = machines[m].head /\ e.new = compute_entry_hash(e.prev, e)
  BY ChainedEventFields
<1>5. Extend(m, r, e) /\ holder[m] = machines[m].owner /\ Len(log[m]) < MaxEntries
  BY DEF append_head_entry, MayExtend, OwnedInput, assert_owner
<1> HIDE DEF e
<1>6. e.new \in Heads
  BY <1>3 DEF Events
<1>7. /\ r \in MachineRecords
      /\ r.owner = machines[m].owner /\ r.parent = machines[m].parent
      /\ r.policy = machines[m].policy
      /\ r.head = e.new /\ r.count = machines[m].count /\ r.blob = machines[m].blob
      /\ r.manifest = machines[m].manifest
  BY <1>1, <1>6 DEF HeadAdvanced, MachineRecords
<1>8. ChainedStep(m, r, e)
  BY <1>2, <1>3, <1>4, <1>5, <1>7 DEF ChainedStep, IsCheckpoint
<1> QED
  BY <1>3, <1>4, <1>7, <1>8

\* A step that changes no object and emits nothing: a transfer, a tick or a
\* stutter.
ChainUntouched ==
  /\ UNCHANGED <<machines, log, forks>>
  /\ holder' \in [Live -> Addresses] /\ now' \in Nat

\* Every step creates a Machine, forks one, extends one chain, or leaves
\* Machines, logs and fork records alone.
LEMMA StepKinds ==
  ASSUME TypeOK, [Next]_vars
  PROVE  \/ \E s \in Addresses, id \in ObjectIds, p \in PolicyIds : Create(s, id, p)
         \/ \E s \in Addresses, m \in Live, c \in ObjectIds, p \in PolicyIds : fork(s, m, c, p)
         \/ \E m \in Live, r \in MachineRecords, e \in Events : ChainedStep(m, r, e)
         \/ ChainUntouched
<1>1. CASE \E s \in Addresses, m \in Live, b \in Blobs, h \in Manifests, p \in Payloads :
             register_checkpoint(s, m, b, h, p)
  BY <1>1, CheckpointStep
<1>2. CASE \E s \in Addresses, m \in Live, p \in AccessPayloads :
             register_grant(s, m, p) \/ register_revoke(s, m, p)
  <2>1. AccessPayloads \subseteq AllPayloads /\ {Grant, Revoke} \subseteq EntryTypes \ {Checkpoint}
    BY DEF AllPayloads, EntryTypes, Grant, Revoke, Checkpoint
  <2> QED
    BY <1>2, <2>1, HeadEntryStep DEF register_grant, register_revoke
<1>3. CASE \E s \in Addresses, m \in Live : retire(s, m)
  <2>1. PICK s \in Addresses, m \in Live : retire(s, m)
    BY <1>3
  <2>2. Retire \in EntryTypes \ {Checkpoint}
    BY DEF EntryTypes, Retire, Checkpoint
  <2>3. machines[m].owner \in Addresses
    BY DEF TypeOK, MachineRecords
  <2>4. OwnerPayload(machines[m].owner) \in AllPayloads
    BY <2>3 DEF AllPayloads
  <2> QED
    BY <2>1, <2>2, <2>4, HeadEntryStep DEF retire
<1>4. CASE \E s, to \in Addresses, m \in Live : Transfer(s, m, to)
  BY <1>4 DEF Transfer, ChainUntouched, TypeOK
<1>5. CASE Tick
  BY <1>5 DEF Tick, ChainUntouched, TypeOK
<1>6. CASE UNCHANGED vars
  BY <1>6 DEF vars, ChainUntouched, TypeOK
<1> QED
  BY <1>1, <1>2, <1>3, <1>4, <1>5, <1>6 DEF Next, PublicNext, PackageNext

(***************************************************************************)
(* Type correctness                                                        *)
(***************************************************************************)
\* A created Machine gets a well-formed record and an empty log.
LEMMA CreateType ==
  ASSUME TypeOK, NEW s \in Addresses, NEW id \in ObjectIds, NEW p \in PolicyIds,
         Create(s, id, p)
  PROVE  TypeOK'
<1> DEFINE r == [owner |-> s, blob |-> NoBlob, manifest |-> NoManifest,
                 head |-> genesis_head(id), count |-> 0, parent |-> NoParent,
                 policy |-> p]
<1>1. genesis_head(id) \in Heads
  BY DEF genesis_head, Heads, OriginLinks
<1>2. r \in MachineRecords
  BY <1>1 DEF MachineRecords
<1>3. machines' = With(machines, id, r) /\ holder' = With(holder, id, s)
      /\ log' = With(log, id, <<>>) /\ forks' = forks /\ now' = now
  BY DEF Create
<1> HIDE DEF r
<1>4. machines' \in [Live \cup {id} -> MachineRecords] /\ DOMAIN machines' = Live \cup {id}
  BY <1>2, <1>3 DEF TypeOK, With, Live
<1>5. holder' \in [Live \cup {id} -> Addresses]
  BY <1>3 DEF TypeOK, With
<1>6. log' \in [Live \cup {id} -> Seq(Events)]
  BY <1>3 DEF TypeOK, With
<1> QED
  BY <1>3, <1>4, <1>5, <1>6 DEF TypeOK, Live

\* A forked Machine gets a well-formed record, an empty log and a well-formed
\* fork event.
LEMMA ForkType ==
  ASSUME TypeOK, NEW s \in Addresses, NEW m \in Live, NEW c \in ObjectIds,
         NEW p \in PolicyIds, fork(s, m, c, p)
  PROVE  TypeOK'
<1> DEFINE r == ForkChild(s, m, c, p)
           f == [parent |-> m, owner |-> s, blob |-> r.blob,
                 parentHead |-> machines[m].head, childHead |-> r.head]
<1>1. machines[m] \in MachineRecords /\ m \in ObjectIds
  BY DEF TypeOK
<1>2. machines[m].head \in Heads
  BY <1>1 DEF MachineRecords
<1>3. compute_fork_genesis(machines[m].head, c) \in Heads
  BY <1>2 DEF compute_fork_genesis, Heads, OriginLinks
<1>4. r \in MachineRecords
  BY <1>1, <1>3 DEF MachineRecords, ForkChild
<1>5. machines' = With(machines, c, r) /\ forks' = With(forks, c, f)
      /\ holder' = With(holder, c, s) /\ log' = With(log, c, <<>>) /\ now' = now
  BY DEF fork
<1> HIDE DEF r
<1>6. f \in ForkEvents
  BY <1>1, <1>2, <1>4 DEF MachineRecords, ForkEvents
<1> HIDE DEF f
<1>7. machines' \in [Live \cup {c} -> MachineRecords] /\ DOMAIN machines' = Live \cup {c}
  BY <1>4, <1>5 DEF TypeOK, With, Live
<1>8. holder' \in [Live \cup {c} -> Addresses]
  BY <1>5 DEF TypeOK, With
<1>9. log' \in [Live \cup {c} -> Seq(Events)]
  BY <1>5 DEF TypeOK, With
<1>10. forks' \in [DOMAIN forks \cup {c} -> ForkEvents] /\ DOMAIN forks' = DOMAIN forks \cup {c}
  BY <1>5, <1>6 DEF TypeOK, With, Live
<1> QED
  BY <1>5, <1>7, <1>8, <1>9, <1>10 DEF TypeOK, Live

\* Types are preserved by every step.
LEMMA TypeStep ==
  ASSUME TypeOK, [Next]_vars
  PROVE  TypeOK'
<1>1. CASE \E s \in Addresses, id \in ObjectIds, p \in PolicyIds : Create(s, id, p)
  BY <1>1, CreateType
<1>2. CASE \E s \in Addresses, m \in Live, c \in ObjectIds, p \in PolicyIds : fork(s, m, c, p)
  BY <1>2, ForkType
<1>3. CASE \E m \in Live, r \in MachineRecords, e \in Events : ChainedStep(m, r, e)
  BY <1>3, ExtendType DEF ChainedStep
<1>4. CASE ChainUntouched
  BY <1>4 DEF TypeOK, ChainUntouched, Live
<1> QED
  BY <1>1, <1>2, <1>3, <1>4, StepKinds

\* Every reachable object, event and fork record has its declared shape.
THEOREM TypeCorrect == Spec => []TypeOK
<1>1. Init => TypeOK
  BY DEF Init, TypeOK, Live
<1>2. TypeOK /\ [Next]_vars => TypeOK'
  BY TypeStep
<1> QED
  BY <1>1, <1>2, PTL DEF Spec

(***************************************************************************)
(* What each kind of step leaves alone                                     *)
(***************************************************************************)
\* A chained entry adds one event and one head to one Machine.
ExtendEffect(m, r, e) ==
  /\ Live' = Live /\ forks' = forks
  /\ \A x \in Live \ {m} : machines'[x] = machines[x] /\ log'[x] = log[x]
  /\ machines'[m] = r
  /\ Len(log[m]) \in Nat /\ Len(log'[m]) = Len(log[m]) + 1
  /\ log'[m][Len(log[m]) + 1] = e
  /\ \A i \in 1..Len(log[m]) : log'[m][i] = log[m][i]
  /\ \A x \in Live : \A k \in 0..Len(log[x]) : HeadAt(x, k)' = HeadAt(x, k)
  /\ HeadAt(m, Len(log[m]))' = e.new

\* A chained entry changes one Machine and no head of the past.
LEMMA ExtendFrame ==
  ASSUME TypeOK, NEW m \in Live, NEW r, NEW e, ChainedStep(m, r, e)
  PROVE  ExtendEffect(m, r, e)
<1>1. /\ machines' = [machines EXCEPT ![m] = r]
      /\ log' = [log EXCEPT ![m] = Append(@, e)]
      /\ forks' = forks /\ e \in Events
  BY DEF ChainedStep, Extend
<1>2. log \in [Live -> Seq(Events)] /\ machines \in [Live -> MachineRecords]
  BY DEF TypeOK
<1>3. Live' = Live
  BY <1>1, <1>2 DEF Live
<1>4. \A x \in Live \ {m} : machines'[x] = machines[x] /\ log'[x] = log[x]
  BY <1>1, <1>2
<1>5. machines'[m] = r /\ log'[m] = Append(log[m], e) /\ log[m] \in Seq(Events)
  BY <1>1, <1>2
<1>6. /\ Len(log[m]) \in Nat /\ Len(log'[m]) = Len(log[m]) + 1
      /\ log'[m][Len(log[m]) + 1] = e
      /\ \A i \in 1..Len(log[m]) : log'[m][i] = log[m][i]
  BY <1>1, <1>5
<1>7. \A x \in Live : \A k \in 0..Len(log[x]) : HeadAt(x, k)' = HeadAt(x, k)
  BY <1>1, <1>2, <1>4, <1>6 DEF HeadAt, StartHead
<1>8. HeadAt(m, Len(log[m]))' = e.new
  BY <1>6 DEF HeadAt
<1> QED
  BY <1>1, <1>3, <1>4, <1>5, <1>6, <1>7, <1>8 DEF ExtendEffect

\* A creation or fork adds one Machine with an empty log and touches no other.
CreateEffect(id) ==
  /\ id \notin Live /\ Live' = Live \cup {id} /\ forks' = forks
  /\ \A x \in Live : machines'[x] = machines[x] /\ log'[x] = log[x]
  /\ log'[id] = <<>> /\ machines'[id].head = genesis_head(id)
  /\ machines'[id].count = 0 /\ machines'[id].blob = NoBlob
  /\ machines'[id].manifest = NoManifest /\ machines'[id].parent = NoParent
  /\ StartHead(id)' = genesis_head(id) /\ StartBlob(id)' = NoBlob
  /\ \A x \in Live : \A k \in Nat : HeadAt(x, k)' = HeadAt(x, k)

\* Creating a Machine changes no other Machine and no head of the past.
LEMMA CreateFrame ==
  ASSUME TypeOK, NEW s \in Addresses, NEW id \in ObjectIds, NEW p \in PolicyIds,
         Create(s, id, p)
  PROVE  CreateEffect(id)
<1>1. id \notin Live /\ id \notin DOMAIN forks
  BY DEF Create, TypeOK
<1>2. Live' = Live \cup {id} /\ forks' = forks
      /\ \A x \in Live : machines'[x] = machines[x] /\ log'[x] = log[x]
  BY <1>1 DEF Create, With, Live, TypeOK
<1>3. log'[id] = <<>> /\ machines'[id] =
        [owner |-> s, blob |-> NoBlob, manifest |-> NoManifest,
         head |-> genesis_head(id), count |-> 0, parent |-> NoParent, policy |-> p]
  BY DEF Create, With
<1>4. StartHead(id)' = genesis_head(id) /\ StartBlob(id)' = NoBlob
  BY <1>1, <1>2 DEF StartHead, StartBlob
<1>5. \A x \in Live : \A k \in Nat : HeadAt(x, k)' = HeadAt(x, k)
  BY <1>2 DEF HeadAt, StartHead
<1> QED
  BY <1>1, <1>2, <1>3, <1>4, <1>5 DEF CreateEffect

\* A fork adds the child, its empty log and its fork event.
ForkEffect(m, c) ==
  /\ c \notin Live /\ Live' = Live \cup {c}
  /\ DOMAIN forks' = DOMAIN forks \cup {c}
  /\ \A x \in DOMAIN forks : forks'[x] = forks[x]
  /\ \A x \in Live : machines'[x] = machines[x] /\ log'[x] = log[x]
  /\ log'[c] = <<>>
  /\ machines'[c].head = compute_fork_genesis(machines[m].head, c)
  /\ machines'[c].count = 0 /\ machines'[c].blob = machines[m].blob
  /\ machines'[c].manifest = machines[m].manifest /\ machines'[c].parent = m
  /\ forks'[c].parent = m /\ forks'[c].parentHead = machines[m].head
  /\ forks'[c].blob = machines[m].blob
  /\ forks'[c].childHead = compute_fork_genesis(machines[m].head, c)
  /\ machines'[c].head = StartHead(c)' /\ StartBlob(c)' = machines[m].blob
  /\ \A x \in Live : \A k \in Nat : HeadAt(x, k)' = HeadAt(x, k)

\* Forking a Machine changes no other Machine and no head of the past.
LEMMA ForkFrame ==
  ASSUME TypeOK, NEW s \in Addresses, NEW m \in Live, NEW c \in ObjectIds,
         NEW p \in PolicyIds, fork(s, m, c, p)
  PROVE  ForkEffect(m, c)
<1> DEFINE r == ForkChild(s, m, c, p)
<1>1. c \notin Live /\ c \notin DOMAIN forks
  BY DEF fork, TypeOK
<1>2. machines' = With(machines, c, r) /\ log' = With(log, c, <<>>)
      /\ forks' = With(forks, c, [parent |-> m, owner |-> s, blob |-> r.blob,
                                  parentHead |-> machines[m].head, childHead |-> r.head])
  BY DEF fork
<1>3. /\ Live' = Live \cup {c} /\ DOMAIN forks' = DOMAIN forks \cup {c}
      /\ \A x \in Live : machines'[x] = machines[x] /\ log'[x] = log[x]
      /\ \A x \in DOMAIN forks : forks'[x] = forks[x]
  BY <1>1, <1>2 DEF With, Live, TypeOK
<1>4. log'[c] = <<>> /\ machines'[c] = r
      /\ forks'[c] = [parent |-> m, owner |-> s, blob |-> r.blob,
                      parentHead |-> machines[m].head, childHead |-> r.head]
  BY <1>2 DEF With
<1>5. /\ r.head = compute_fork_genesis(machines[m].head, c) /\ r.count = 0
      /\ r.blob = machines[m].blob /\ r.manifest = machines[m].manifest
      /\ r.parent = m
  BY DEF ForkChild
<1>6. StartHead(c)' = r.head /\ StartBlob(c)' = r.blob
  BY <1>3, <1>4 DEF StartHead, StartBlob
<1>7. \A x \in Live : \A k \in Nat : HeadAt(x, k)' = HeadAt(x, k)
  BY <1>1, <1>3 DEF HeadAt, StartHead
<1> HIDE DEF r
<1> QED
  BY <1>1, <1>3, <1>4, <1>5, <1>6, <1>7 DEF ForkEffect

(***************************************************************************)
(* What a step cannot take back                                            *)
(***************************************************************************)
\* Machines stay, with their owners, policies, origins and entries.
ChainGrows ==
  /\ DOMAIN forks \subseteq DOMAIN forks'
  /\ \A m \in Live :
       /\ m \in Live' /\ StartBlob(m)' = StartBlob(m)
       /\ machines'[m].policy = machines[m].policy /\ machines'[m].owner = machines[m].owner
       /\ machines[m].count \in Int /\ machines'[m].count \in Int
       /\ machines[m].count <= machines'[m].count
       /\ Len(log[m]) \in Nat /\ Len(log'[m]) \in Nat /\ Len(log[m]) <= Len(log'[m])
       /\ \A i \in 1..Len(log[m]) : log'[m][i] = log[m][i]

\* No transaction takes anything back.
LEMMA ChainOnlyGrows ==
  ASSUME TypeOK, [Next]_vars
  PROVE  ChainGrows
<1>0. TypeOK'
  BY TypeStep
<1>1. \A m \in Live : machines[m].count \in Int /\ Len(log[m]) \in Nat
  BY DEF TypeOK, MachineRecords
<1>2. \A m \in Live' : machines'[m].count \in Int /\ Len(log'[m]) \in Nat
  BY <1>0 DEF TypeOK, MachineRecords
<1>3. ASSUME Live \subseteq Live', forks' = forks,
             \A x \in Live : machines'[x] = machines[x] /\ log'[x] = log[x]
      PROVE  ChainGrows
  BY <1>1, <1>2, <1>3 DEF ChainGrows, StartBlob
<1>4. CASE \E s \in Addresses, id \in ObjectIds, p \in PolicyIds : Create(s, id, p)
  BY <1>3, <1>4, CreateFrame DEF CreateEffect
<1>5. CASE \E s \in Addresses, m \in Live, c \in ObjectIds, p \in PolicyIds : fork(s, m, c, p)
  <2>1. PICK s \in Addresses, m \in Live, c \in ObjectIds, p \in PolicyIds : fork(s, m, c, p)
    BY <1>5
  <2>2. ForkEffect(m, c)
    BY <2>1, ForkFrame
  <2>3. /\ Live \subseteq Live' /\ c \notin Live /\ DOMAIN forks' = DOMAIN forks \cup {c}
        /\ \A x \in DOMAIN forks : forks'[x] = forks[x]
        /\ \A x \in Live : machines'[x] = machines[x] /\ log'[x] = log[x]
    BY <2>2 DEF ForkEffect
  <2>4. \A x \in Live : StartBlob(x)' = StartBlob(x)
    BY <2>3 DEF StartBlob
  <2> QED
    BY <1>1, <1>2, <2>3, <2>4 DEF ChainGrows
<1>6. CASE \E m \in Live, r \in MachineRecords, e \in Events : ChainedStep(m, r, e)
  <2>1. PICK m \in Live, r \in MachineRecords, e \in Events : ChainedStep(m, r, e)
    BY <1>6
  <2>2. ExtendEffect(m, r, e)
    BY <2>1, ExtendFrame
  <2>3. /\ r.policy = machines[m].policy /\ r.owner = machines[m].owner
        /\ r.count >= machines[m].count
    BY <1>1, <2>1 DEF ChainedStep
  <2>4. forks' = forks /\ \A x \in Live : StartBlob(x)' = StartBlob(x)
    BY <2>2 DEF ExtendEffect, StartBlob
  <2> QED
    BY <1>1, <1>2, <2>2, <2>3, <2>4 DEF ChainGrows, ExtendEffect
<1>7. CASE ChainUntouched
  BY <1>3, <1>7 DEF ChainUntouched, Live
<1> QED
  BY <1>4, <1>5, <1>6, <1>7, StepKinds

(***************************************************************************)
(* The head is the replay of the events                                    *)
(***************************************************************************)
\* No step breaks the replay: a new Machine starts on its start head, and a
\* chained entry names the old head as prev and becomes the new one.
LEMMA HeadReplayStep ==
  ASSUME TypeOK, HeadReplaysFromEvents, [Next]_vars
  PROVE  HeadReplaysFromEvents'
<1> USE DEF HeadReplaysFromEvents
<1>0. \A x \in Live : Len(log[x]) \in Nat
  BY DEF TypeOK
<1>1. CASE \E s \in Addresses, id \in ObjectIds, p \in PolicyIds : Create(s, id, p)
  <2>1. PICK s \in Addresses, id \in ObjectIds, p \in PolicyIds : Create(s, id, p)
    BY <1>1
  <2>2. /\ Live' = Live \cup {id}
        /\ \A x \in Live : machines'[x] = machines[x] /\ log'[x] = log[x]
        /\ log'[id] = <<>> /\ machines'[id].head = StartHead(id)'
        /\ \A x \in Live : \A k \in Nat : HeadAt(x, k)' = HeadAt(x, k)
    BY <2>1, CreateFrame DEF CreateEffect
  <2>3. machines'[id].head = HeadAt(id, Len(log[id]))' /\ Len(log'[id]) = 0
    BY <2>2 DEF HeadAt
  <2> QED
    BY <1>0, <2>2, <2>3
<1>2. CASE \E s \in Addresses, m \in Live, c \in ObjectIds, p \in PolicyIds : fork(s, m, c, p)
  <2>1. PICK s \in Addresses, m \in Live, c \in ObjectIds, p \in PolicyIds : fork(s, m, c, p)
    BY <1>2
  <2>a. ForkEffect(m, c)
    BY <2>1, ForkFrame
  <2>2. /\ Live' = Live \cup {c}
        /\ \A x \in Live : machines'[x] = machines[x] /\ log'[x] = log[x]
        /\ log'[c] = <<>> /\ machines'[c].head = StartHead(c)'
        /\ \A x \in Live : \A k \in Nat : HeadAt(x, k)' = HeadAt(x, k)
    BY <2>a DEF ForkEffect
  <2>3. machines'[c].head = HeadAt(c, Len(log[c]))' /\ Len(log'[c]) = 0
    BY <2>2 DEF HeadAt
  <2> QED
    BY <1>0, <2>2, <2>3
<1>3. CASE \E m \in Live, r \in MachineRecords, e \in Events : ChainedStep(m, r, e)
  <2>1. PICK m \in Live, r \in MachineRecords, e \in Events : ChainedStep(m, r, e)
    BY <1>3
  <2> DEFINE n == Len(log[m])
  <2>2. /\ Live' = Live
        /\ \A x \in Live \ {m} : machines'[x] = machines[x] /\ log'[x] = log[x]
        /\ machines'[m] = r
        /\ n \in Nat /\ Len(log'[m]) = n + 1 /\ log'[m][n + 1] = e
        /\ \A i \in 1..n : log'[m][i] = log[m][i]
        /\ \A x \in Live : \A k \in 0..Len(log[x]) : HeadAt(x, k)' = HeadAt(x, k)
        /\ HeadAt(m, Len(log[m]))' = e.new
    BY <2>1, ExtendFrame DEF ExtendEffect
  <2>3. e.prev = machines[m].head /\ e.new = compute_entry_hash(e.prev, e) /\ r.head = e.new
    BY <2>1 DEF ChainedStep
  <2>4. ASSUME NEW x \in Live \ {m}
        PROVE  /\ machines'[x].head = HeadAt(x, Len(log[x]))'
               /\ \A i \in 1..Len(log'[x]) :
                    /\ log'[x][i].prev = HeadAt(x, i - 1)'
                    /\ log'[x][i].new = compute_entry_hash(log'[x][i].prev, log'[x][i])
    BY <1>0, <2>2 DEF HeadAt
  <2>5. ASSUME NEW i \in 1..(n + 1)
        PROVE  /\ log'[m][i].prev = HeadAt(m, i - 1)'
               /\ log'[m][i].new = compute_entry_hash(log'[m][i].prev, log'[m][i])
    <3>1. CASE i \in 1..n
      BY <2>2, <3>1
    <3>2. CASE i = n + 1
      <4>1. machines[m].head = HeadAt(m, n)
        OBVIOUS
      <4>2. HeadAt(m, n) = HeadAt(m, i - 1)'
        BY <2>2, <3>2 DEF HeadAt
      <4> QED
        BY <2>2, <2>3, <3>2, <4>1, <4>2
    <3> QED
      BY <2>2, <3>1, <3>2
  <2>6. machines'[m].head = HeadAt(m, Len(log[m]))'
    BY <2>2, <2>3
  <2> QED
    BY <2>2, <2>4, <2>5, <2>6
<1>4. CASE ChainUntouched
  BY <1>4 DEF ChainUntouched, Live, HeadAt, StartHead
<1> QED
  BY <1>1, <1>2, <1>3, <1>4, StepKinds

\* The provenance_head of every Machine is the replay of its events from its
\* start head, after any sequence of operations on any number of Machines.
THEOREM HeadReplay == Spec => []HeadReplaysFromEvents
<1>1. Init => HeadReplaysFromEvents
  BY DEF Init, HeadReplaysFromEvents, Live
<1>2. TypeOK /\ HeadReplaysFromEvents /\ [Next]_vars => HeadReplaysFromEvents'
  BY HeadReplayStep
<1> QED
  BY <1>1, <1>2, TypeCorrect, PTL DEF Spec

(***************************************************************************)
(* Checkpoint sequences                                                    *)
(***************************************************************************)
\* No step skips or reuses a checkpoint sequence.
LEMMA SeqsStep ==
  ASSUME TypeOK, CheckpointSeqsContiguous, [Next]_vars
  PROVE  CheckpointSeqsContiguous'
<1> USE DEF CheckpointSeqsContiguous
<1>0. \A x \in Live : Len(log[x]) \in Nat
  BY DEF TypeOK
<1>1. CASE \E s \in Addresses, id \in ObjectIds, p \in PolicyIds : Create(s, id, p)
  <2>1. PICK s \in Addresses, id \in ObjectIds, p \in PolicyIds : Create(s, id, p)
    BY <1>1
  <2>2. /\ Live' = Live \cup {id}
        /\ \A x \in Live : machines'[x] = machines[x] /\ log'[x] = log[x]
        /\ log'[id] = <<>> /\ machines'[id].count = 0
    BY <2>1, CreateFrame DEF CreateEffect
  <2> QED
    BY <1>0, <2>2 DEF NextSeq
<1>2. CASE \E s \in Addresses, m \in Live, c \in ObjectIds, p \in PolicyIds : fork(s, m, c, p)
  <2>1. PICK s \in Addresses, m \in Live, c \in ObjectIds, p \in PolicyIds : fork(s, m, c, p)
    BY <1>2
  <2>a. ForkEffect(m, c)
    BY <2>1, ForkFrame
  <2>2. /\ Live' = Live \cup {c}
        /\ \A x \in Live : machines'[x] = machines[x] /\ log'[x] = log[x]
        /\ log'[c] = <<>> /\ machines'[c].count = 0
    BY <2>a DEF ForkEffect
  <2> QED
    BY <1>0, <2>2 DEF NextSeq
<1>3. CASE \E m \in Live, r \in MachineRecords, e \in Events : ChainedStep(m, r, e)
  <2>1. PICK m \in Live, r \in MachineRecords, e \in Events : ChainedStep(m, r, e)
    BY <1>3
  <2> DEFINE n == Len(log[m])
  <2>2. /\ Live' = Live
        /\ \A x \in Live \ {m} : machines'[x] = machines[x] /\ log'[x] = log[x]
        /\ machines'[m] = r
        /\ n \in Nat /\ Len(log'[m]) = n + 1 /\ log'[m][n + 1] = e
        /\ \A i \in 1..n : log'[m][i] = log[m][i]
    BY <2>1, ExtendFrame DEF ExtendEffect
  <2>3. e.seq = machines[m].count /\ r.count = e.seq + (IF IsCheckpoint(e) THEN 1 ELSE 0)
    BY <2>1 DEF ChainedStep
  <2>4. ASSUME NEW x \in Live \ {m}
        PROVE  /\ machines'[x].count = NextSeq(x, Len(log[x]))'
               /\ \A i \in 1..Len(log'[x]) : log'[x][i].seq = NextSeq(x, i - 1)'
    BY <1>0, <2>2 DEF NextSeq
  <2>5. ASSUME NEW i \in 1..(n + 1)
        PROVE  log'[m][i].seq = NextSeq(m, i - 1)'
    <3>1. CASE i \in 1..n
      <4>1. log[m][i].seq = NextSeq(m, i - 1)
        BY <2>2, <3>1
      <4>2. i - 1 = 0 \/ i - 1 \in 1..n
        BY <2>2, <3>1
      <4>3. NextSeq(m, i - 1)' = NextSeq(m, i - 1)
        BY <2>2, <3>1, <4>2 DEF NextSeq
      <4> QED
        BY <2>2, <3>1, <4>1, <4>3
    <3>2. CASE i = n + 1
      <4>1. machines[m].count = NextSeq(m, n)
        OBVIOUS
      <4>2. NextSeq(m, n) = NextSeq(m, i - 1)'
        BY <2>2, <3>2 DEF NextSeq
      <4> QED
        BY <2>2, <2>3, <3>2, <4>1, <4>2
    <3> QED
      BY <2>2, <3>1, <3>2
  <2>6. machines'[m].count = NextSeq(m, Len(log[m]))'
    BY <2>2, <2>3 DEF NextSeq
  <2> QED
    BY <2>2, <2>4, <2>5, <2>6
<1>4. CASE ChainUntouched
  BY <1>4 DEF ChainUntouched, Live, NextSeq
<1> QED
  BY <1>1, <1>2, <1>3, <1>4, StepKinds

\* Checkpoint sequences are 0..n-1 and checkpoint_count is n, whatever other
\* entries share the chain.
THEOREM SeqsContiguous == Spec => []CheckpointSeqsContiguous
<1>1. Init => CheckpointSeqsContiguous
  BY DEF Init, CheckpointSeqsContiguous, Live
<1>2. TypeOK /\ CheckpointSeqsContiguous /\ [Next]_vars => CheckpointSeqsContiguous'
  BY SeqsStep
<1> QED
  BY <1>1, <1>2, TypeCorrect, PTL DEF Spec

(***************************************************************************)
(* Action properties                                                       *)
(***************************************************************************)
\* A step leaves a Machine alone, or adds one event to its log and hashes one
\* link onto its head; only the Machine its owner holds is ever extended.
LEMMA StepOnOneMachine ==
  ASSUME TypeOK, [Next]_vars, NEW x \in Live
  PROVE  /\ x \in Live'
         /\ \/ machines'[x] = machines[x] /\ log'[x] = log[x]
            \/ /\ holder[x] = machines[x].owner
               /\ \E v : log'[x] = Append(log[x], v)
               /\ \E l : machines'[x].head = Append(machines[x].head, l)
<1>1. CASE \E s \in Addresses, id \in ObjectIds, p \in PolicyIds : Create(s, id, p)
  BY <1>1, CreateFrame DEF CreateEffect
<1>2. CASE \E s \in Addresses, m \in Live, c \in ObjectIds, p \in PolicyIds : fork(s, m, c, p)
  <2>1. PICK s \in Addresses, m \in Live, c \in ObjectIds, p \in PolicyIds : fork(s, m, c, p)
    BY <1>2
  <2>2. ForkEffect(m, c)
    BY <2>1, ForkFrame
  <2> QED
    BY <2>2 DEF ForkEffect
<1>3. CASE \E m \in Live, r \in MachineRecords, e \in Events : ChainedStep(m, r, e)
  <2>1. PICK m \in Live, r \in MachineRecords, e \in Events : ChainedStep(m, r, e)
    BY <1>3
  <2>2. ExtendEffect(m, r, e)
    BY <2>1, ExtendFrame
  <2>3. CASE x # m
    BY <2>2, <2>3 DEF ExtendEffect
  <2>4. CASE x = m
    <3>1. x \in Live' /\ machines'[m] = r
      BY <2>2 DEF ExtendEffect
    <3>2. log'[m] = Append(log[m], e) /\ holder[m] = machines[m].owner
      BY <2>1 DEF ChainedStep, Extend, TypeOK
    <3>3. \E l : r.head = Append(machines[m].head, l)
      BY <2>1 DEF ChainedStep, compute_entry_hash
    <3> QED
      BY <2>4, <3>1, <3>2, <3>3
  <2> QED
    BY <2>3, <2>4
<1>4. CASE ChainUntouched
  BY <1>4 DEF ChainUntouched, Live
<1> QED
  BY <1>1, <1>2, <1>3, <1>4, StepKinds

\* Appending keeps the old sequence as a prefix.
LEMMA AppendPrefix ==
  ASSUME NEW S, NEW q \in Seq(S), NEW v
  PROVE  /\ Len(Append(q, v)) >= Len(q)
         /\ SubSeq(Append(q, v), 1, Len(q)) = q
         /\ SubSeq(q, 1, Len(q)) = q
  OBVIOUS

\* No behaviour removes a Machine, rewrites an event, or moves a head other
\* than by hashing onto it.
THEOREM AppendOnly == Spec => HistoryAppendOnly
<1> DEFINE Grows(x) ==
      /\ x \in Live'
      /\ Len(log'[x]) >= Len(log[x])
      /\ SubSeq(log'[x], 1, Len(log[x])) = log[x]
      /\ SubSeq(machines'[x].head, 1, Len(machines[x].head)) = machines[x].head
<1>1. ASSUME TypeOK, [Next]_vars, NEW x \in Live
      PROVE  Grows(x)
  <2>1. log[x] \in Seq(Events) /\ machines[x].head \in Seq(OriginLinks \cup EntryLinks)
    BY <1>1 DEF TypeOK, MachineRecords, Heads
  <2>2. CASE machines'[x] = machines[x] /\ log'[x] = log[x]
    BY <1>1, <2>1, <2>2, StepOnOneMachine
  <2>3. CASE /\ \E v : log'[x] = Append(log[x], v)
             /\ \E l : machines'[x].head = Append(machines[x].head, l)
    BY <1>1, <2>1, <2>3, StepOnOneMachine, AppendPrefix
  <2> QED
    BY <1>1, <2>2, <2>3, StepOnOneMachine
<1>2. TypeOK /\ [Next]_vars
        => [\A m \in Live :
              /\ m \in Live'
              /\ Len(log'[m]) >= Len(log[m])
              /\ SubSeq(log'[m], 1, Len(log[m])) = log[m]
              /\ SubSeq(machines'[m].head, 1, Len(machines[m].head)) = machines[m].head]_vars
  BY <1>1
<1> QED
  BY <1>2, TypeCorrect, PTL DEF Spec, HistoryAppendOnly

\* A Machine held by anybody but its recorded owner is never changed again by
\* a step taken while that is so.
THEOREM Frozen == Spec => TransferredIsFrozen
<1>1. TypeOK /\ [Next]_vars
        => [\A m \in Live : holder[m] # machines[m].owner =>
              machines'[m] = machines[m] /\ log'[m] = log[m]]_vars
  BY StepOnOneMachine
<1> QED
  BY <1>1, TypeCorrect, PTL DEF Spec, TransferredIsFrozen

(***************************************************************************)
(* The Machine implements a versioned environment                          *)
(***************************************************************************)
\* Creating a Machine creates an environment, forking one copies it, a
\* checkpoint saves a state, and every other step is a stutter.
LEMMA EnvStep ==
  ASSUME TypeOK, [Next]_vars
  PROVE  [Env!Next]_(Env!vars)
<1> DEFINE cur == [m \in Live |-> [blob |-> machines[m].blob, manifest |-> machines[m].manifest]]
           ver == [m \in Live |-> machines[m].count]
<1>1. CASE \E s \in Addresses, id \in ObjectIds, p \in PolicyIds : Create(s, id, p)
  <2>1. PICK s \in Addresses, id \in ObjectIds, p \in PolicyIds : Create(s, id, p)
    BY <1>1
  <2>2. CreateEffect(id)
    BY <2>1, CreateFrame
  <2>3. cur' = [j \in DOMAIN cur \cup {id} |->
                  IF j = id THEN [blob |-> NoBlob, manifest |-> NoManifest] ELSE cur[j]]
    BY <2>2 DEF CreateEffect
  <2>4. ver' = [j \in DOMAIN ver \cup {id} |-> IF j = id THEN 0 ELSE ver[j]]
    BY <2>2 DEF CreateEffect
  <2>5. id \in ObjectIds \ DOMAIN cur
    BY <2>2 DEF CreateEffect
  <2>6. Env!Create(id)
    BY <2>3, <2>4, <2>5 DEF Env!Create, Env!Start
  <2> QED
    BY <2>6 DEF Env!Next
<1>2. CASE \E s \in Addresses, m \in Live, c \in ObjectIds, p \in PolicyIds : fork(s, m, c, p)
  <2>1. PICK s \in Addresses, m \in Live, c \in ObjectIds, p \in PolicyIds : fork(s, m, c, p)
    BY <1>2
  <2>2. ForkEffect(m, c)
    BY <2>1, ForkFrame
  <2>3. cur' = [j \in DOMAIN cur \cup {c} |-> IF j = c THEN cur[m] ELSE cur[j]]
    BY <2>2 DEF ForkEffect
  <2>4. ver' = [j \in DOMAIN ver \cup {c} |-> IF j = c THEN 0 ELSE ver[j]]
    BY <2>2 DEF ForkEffect
  <2>5. c \in ObjectIds \ DOMAIN cur /\ m \in DOMAIN cur /\ m \in ObjectIds
    BY <2>2 DEF ForkEffect, TypeOK
  <2>6. Env!Copy(c, m)
    BY <2>3, <2>4, <2>5 DEF Env!Copy, Env!Start
  <2> QED
    BY <2>5, <2>6 DEF Env!Next
<1>3. CASE \E m \in Live, r \in MachineRecords, e \in Events : ChainedStep(m, r, e)
  <2>1. PICK m \in Live, r \in MachineRecords, e \in Events : ChainedStep(m, r, e)
    BY <1>3
  <2>2. ExtendEffect(m, r, e)
    BY <2>1, ExtendFrame
  <2>3. CASE IsCheckpoint(e)
    <3> DEFINE st == [blob |-> e.blob, manifest |-> e.manifest]
    <3>1. r.blob = e.blob /\ r.manifest = e.manifest /\ r.count = machines[m].count + 1
      BY <2>1, <2>3 DEF ChainedStep
    <3>2. cur' = [cur EXCEPT ![m] = st] /\ ver' = [ver EXCEPT ![m] = @ + 1]
      BY <2>2, <3>1 DEF ExtendEffect
    <3>3. st \in [blob : Blobs \cup {NoBlob}, manifest : Manifests \cup {NoManifest}]
      BY <2>1 DEF ChainedStep, Events
    <3>4. m \in DOMAIN cur /\ m \in ObjectIds
      BY DEF TypeOK
    <3>5. Env!Save(m, st)
      BY <3>2, <3>4 DEF Env!Save
    <3> QED
      BY <3>3, <3>4, <3>5 DEF Env!Next
  <2>4. CASE ~IsCheckpoint(e)
    <3>1. /\ r.blob = machines[m].blob /\ r.manifest = machines[m].manifest
          /\ r.count = machines[m].count
      BY <2>1, <2>4 DEF ChainedStep, TypeOK, MachineRecords
    <3>2. cur' = cur /\ ver' = ver
      BY <2>2, <3>1 DEF ExtendEffect
    <3> QED
      BY <3>2 DEF Env!vars
  <2> QED
    BY <2>3, <2>4
<1>4. CASE ChainUntouched
  BY <1>4 DEF ChainUntouched, Live, Env!vars
<1> QED
  BY <1>1, <1>2, <1>3, <1>4, StepKinds

\* The object of machine.move implements the versioned environment: nothing
\* but create, fork and register_checkpoint is visible through it.
THEOREM Refinement == Spec => ImplementsVersionedEnvironment
<1>1. Init => Env!Init
  BY DEF Init, Env!Init, Live
<1>2. TypeOK /\ [Next]_vars => [Env!Next]_(Env!vars)
  BY EnvStep
<1> QED
  BY <1>1, <1>2, TypeCorrect, PTL DEF Spec, ImplementsVersionedEnvironment, Env!Spec

(***************************************************************************)
(* Two Machines never share a chain.  The inductive invariant says where   *)
(* the last origin link of a head is: it carries the Machine's own id and  *)
(* everything after it is entries.                                         *)
(***************************************************************************)
\* h is a head k entries after the origin of m, which is its s-th link.
OriginAt(h, m, s, k) ==
  /\ h \in Heads /\ s \in Nat \ {0} /\ Len(h) = s + k
  /\ h[s] \in OriginLinks /\ h[s].id = m
  /\ \A j \in (s + 1)..(s + k) : h[j] \in EntryLinks

\* Every head of a chain extends the Machine's own origin by its entries.
HeadsHaveOrigin ==
  \A m \in Live : \A k \in 0..Len(log[m]) :
    OriginAt(HeadAt(m, k), m, Len(StartHead(m)), k)

\* Origin links and entry links are told apart by their tag.
LEMMA LinksDisjoint ==
  ASSUME NEW l \in OriginLinks
  PROVE  l \notin EntryLinks
  BY DEF OriginLinks, EntryLinks, EntryTypes, Checkpoint, Grant, Revoke, Retire, Fork

\* A head determines its Machine and its position.
LEMMA OriginDetermines ==
  ASSUME NEW h, NEW m1, NEW m2, NEW s1, NEW s2, NEW k1 \in Nat, NEW k2 \in Nat,
         OriginAt(h, m1, s1, k1), OriginAt(h, m2, s2, k2)
  PROVE  m1 = m2 /\ k1 = k2
<1>1. /\ s1 \in Nat \ {0} /\ s2 \in Nat \ {0} /\ Len(h) = s1 + k1 /\ Len(h) = s2 + k2
      /\ h[s1] \in OriginLinks /\ h[s2] \in OriginLinks /\ h[s1].id = m1 /\ h[s2].id = m2
  BY DEF OriginAt
<1>2. ~(s1 < s2)
  <2>1. ASSUME s1 < s2 PROVE FALSE
    <3>1. s2 \in (s1 + 1)..(s1 + k1)
      BY <1>1, <2>1
    <3>2. h[s2] \in EntryLinks
      BY <3>1 DEF OriginAt
    <3> QED
      BY <1>1, <3>2, LinksDisjoint
  <2> QED
    BY <2>1
<1>3. ~(s2 < s1)
  <2>1. ASSUME s2 < s1 PROVE FALSE
    <3>1. s1 \in (s2 + 1)..(s2 + k2)
      BY <1>1, <2>1
    <3>2. h[s1] \in EntryLinks
      BY <3>1 DEF OriginAt
    <3> QED
      BY <1>1, <3>2, LinksDisjoint
  <2> QED
    BY <2>1
<1>4. s1 = s2
  BY <1>1, <1>2, <1>3
<1> QED
  BY <1>1, <1>4

\* Hashing an entry onto a head keeps its origin.
LEMMA OriginExtends ==
  ASSUME NEW h, NEW m, NEW s, NEW k \in Nat, OriginAt(h, m, s, k), NEW e \in Events
  PROVE  OriginAt(compute_entry_hash(h, e), m, s, k + 1)
<1> DEFINE l == [tag |-> e.type, seq |-> e.seq, blob |-> e.blob,
                 manifest |-> e.manifest, payload |-> e.payload, ts |-> e.ts]
<1>1. l \in EntryLinks
  BY DEF Events, EntryLinks
<1>2. compute_entry_hash(h, e) = Append(h, l)
  BY DEF compute_entry_hash
<1> HIDE DEF l
<1>3. h \in Seq(OriginLinks \cup EntryLinks) /\ s \in Nat \ {0} /\ Len(h) = s + k
  BY DEF OriginAt, Heads
<1>4. /\ Append(h, l) \in Seq(OriginLinks \cup EntryLinks) /\ Len(Append(h, l)) = s + (k + 1)
      /\ \A j \in 1..(s + k) : Append(h, l)[j] = h[j]
      /\ Append(h, l)[s + k + 1] = l
  BY <1>1, <1>3
<1>5. Append(h, l)[s] \in OriginLinks /\ Append(h, l)[s].id = m
  BY <1>3, <1>4 DEF OriginAt
<1>6. ASSUME NEW j \in (s + 1)..(s + (k + 1)) PROVE Append(h, l)[j] \in EntryLinks
  <2>1. CASE j = s + k + 1
    BY <1>1, <1>4, <2>1
  <2>2. CASE j # s + k + 1
    <3>1. j \in (s + 1)..(s + k) /\ j \in 1..(s + k)
      BY <1>3, <2>2
    <3> QED
      BY <1>4, <3>1 DEF OriginAt
  <2> QED
    BY <2>1, <2>2
<1> QED
  BY <1>2, <1>3, <1>4, <1>5, <1>6 DEF OriginAt, Heads

\* A genesis and a fork genesis are origins.
LEMMA OriginStarts ==
  ASSUME NEW id \in ObjectIds
  PROVE  /\ OriginAt(genesis_head(id), id, Len(genesis_head(id)), 0)
         /\ \A h \in Heads : LET g == compute_fork_genesis(h, id) IN
              OriginAt(g, id, Len(g), 0)
<1>1. OriginAt(genesis_head(id), id, Len(genesis_head(id)), 0)
  BY DEF OriginAt, genesis_head, Heads, OriginLinks
<1>2. ASSUME NEW h \in Heads
      PROVE  OriginAt(compute_fork_genesis(h, id), id, Len(compute_fork_genesis(h, id)), 0)
  <2> DEFINE l == [tag |-> Fork, id |-> id]
  <2>1. l \in OriginLinks /\ l.id = id
    BY DEF OriginLinks
  <2>2. compute_fork_genesis(h, id) = Append(h, l)
    BY DEF compute_fork_genesis
  <2> HIDE DEF l
  <2>3. Append(h, l) \in Heads /\ Len(Append(h, l)) \in Nat \ {0}
        /\ Append(h, l)[Len(Append(h, l))] = l
    BY <2>1 DEF Heads
  <2> QED
    BY <2>1, <2>2, <2>3 DEF OriginAt
<1> QED
  BY <1>1, <1>2

\* The origin invariant is preserved: new Machines start at an origin of
\* their own id, and entries are hashed onto the last head.
LEMMA OriginStep ==
  ASSUME TypeOK, HeadReplaysFromEvents, HeadsHaveOrigin, [Next]_vars
  PROVE  HeadsHaveOrigin'
<1>0. \A x \in Live : Len(log[x]) \in Nat
  BY DEF TypeOK
<1>1. CASE \E s \in Addresses, id \in ObjectIds, p \in PolicyIds : Create(s, id, p)
  <2>1. PICK s \in Addresses, id \in ObjectIds, p \in PolicyIds : Create(s, id, p)
    BY <1>1
  <2>2. CreateEffect(id)
    BY <2>1, CreateFrame
  <2>3. ASSUME NEW x \in Live, NEW k \in 0..Len(log'[x])
        PROVE  OriginAt(HeadAt(x, k)', x, Len(StartHead(x)'), k)
    <3>1. HeadAt(x, k)' = HeadAt(x, k) /\ HeadAt(x, 0)' = HeadAt(x, 0) /\ log'[x] = log[x]
      BY <1>0, <2>2 DEF CreateEffect
    <3> QED
      BY <3>1 DEF HeadsHaveOrigin, HeadAt
  <2>4. ASSUME NEW k \in 0..Len(log'[id])
        PROVE  OriginAt(HeadAt(id, k)', id, Len(StartHead(id)'), k)
    <3>1. k = 0 /\ HeadAt(id, k)' = genesis_head(id) /\ StartHead(id)' = genesis_head(id)
      BY <2>2 DEF CreateEffect, HeadAt
    <3> QED
      BY <3>1, OriginStarts
  <2> QED
    BY <2>2, <2>3, <2>4 DEF HeadsHaveOrigin, CreateEffect
<1>2. CASE \E s \in Addresses, m \in Live, c \in ObjectIds, p \in PolicyIds : fork(s, m, c, p)
  <2>1. PICK s \in Addresses, m \in Live, c \in ObjectIds, p \in PolicyIds : fork(s, m, c, p)
    BY <1>2
  <2>2. ForkEffect(m, c)
    BY <2>1, ForkFrame
  <2>3. ASSUME NEW x \in Live, NEW k \in 0..Len(log'[x])
        PROVE  OriginAt(HeadAt(x, k)', x, Len(StartHead(x)'), k)
    <3>1. HeadAt(x, k)' = HeadAt(x, k) /\ HeadAt(x, 0)' = HeadAt(x, 0) /\ log'[x] = log[x]
      BY <1>0, <2>2 DEF ForkEffect
    <3> QED
      BY <3>1 DEF HeadsHaveOrigin, HeadAt
  <2>4. ASSUME NEW k \in 0..Len(log'[c])
        PROVE  OriginAt(HeadAt(c, k)', c, Len(StartHead(c)'), k)
    <3>1. /\ k = 0 /\ HeadAt(c, k)' = StartHead(c)'
          /\ StartHead(c)' = compute_fork_genesis(machines[m].head, c)
      BY <2>2 DEF ForkEffect, HeadAt
    <3>2. machines[m].head \in Heads
      BY DEF TypeOK, MachineRecords
    <3> QED
      BY <3>1, <3>2, OriginStarts
  <2> QED
    BY <2>2, <2>3, <2>4 DEF HeadsHaveOrigin, ForkEffect
<1>3. CASE \E m \in Live, r \in MachineRecords, e \in Events : ChainedStep(m, r, e)
  <2>1. PICK m \in Live, r \in MachineRecords, e \in Events : ChainedStep(m, r, e)
    BY <1>3
  <2>2. ExtendEffect(m, r, e)
    BY <2>1, ExtendFrame
  <2>3. ASSUME NEW x \in Live, NEW k \in 0..Len(log[x])
        PROVE  OriginAt(HeadAt(x, k)', x, Len(StartHead(x)'), k)
    <3>1. HeadAt(x, k)' = HeadAt(x, k) /\ HeadAt(x, 0)' = HeadAt(x, 0)
      BY <1>0, <2>2 DEF ExtendEffect
    <3> QED
      BY <3>1 DEF HeadsHaveOrigin, HeadAt
  <2> DEFINE n == Len(log[m])
  <2>4. OriginAt(HeadAt(m, Len(log[m]))', m, Len(StartHead(m)'), n + 1)
    <3>1. OriginAt(HeadAt(m, n), m, Len(StartHead(m)), n) /\ n \in Nat
      BY <1>0 DEF HeadsHaveOrigin
    <3>2. e.new = compute_entry_hash(HeadAt(m, n), e)
      BY <2>1 DEF ChainedStep, HeadReplaysFromEvents
    <3>3. HeadAt(m, Len(log[m]))' = e.new /\ HeadAt(m, 0)' = HeadAt(m, 0)
      BY <1>0, <2>2 DEF ExtendEffect
    <3>4. StartHead(m)' = StartHead(m)
      BY <3>3 DEF HeadAt
    <3> QED
      BY <3>1, <3>2, <3>3, <3>4, OriginExtends
  <2>5. ASSUME NEW x \in Live, NEW k \in 0..Len(log'[x])
        PROVE  OriginAt(HeadAt(x, k)', x, Len(StartHead(x)'), k)
    <3>1. CASE k \in 0..Len(log[x])
      BY <2>3, <3>1
    <3>2. CASE k \notin 0..Len(log[x])
      <4>1. x = m /\ k = n + 1 /\ Len(log'[m]) = n + 1
        BY <1>0, <2>2, <3>2 DEF ExtendEffect
      <4>2. HeadAt(x, k)' = HeadAt(m, Len(log[m]))'
        BY <4>1 DEF HeadAt
      <4> QED
        BY <2>4, <4>1, <4>2
    <3> QED
      BY <3>1, <3>2
  <2> QED
    BY <2>2, <2>5 DEF HeadsHaveOrigin, ExtendEffect
<1>4. CASE ChainUntouched
  BY <1>4 DEF ChainUntouched, Live, HeadAt, StartHead, HeadsHaveOrigin
<1> QED
  BY <1>1, <1>2, <1>3, <1>4, StepKinds

\* "Two Machines never share a chain": across any number of Machines and
\* forks of forks, a head belongs to one Machine and one position.
THEOREM NoCollision == Spec => []HeadsNeverCollide
<1>1. Init => HeadsHaveOrigin
  BY DEF Init, HeadsHaveOrigin, Live
<1>2. TypeOK /\ HeadReplaysFromEvents /\ HeadsHaveOrigin /\ [Next]_vars => HeadsHaveOrigin'
  BY OriginStep
<1>3. TypeOK /\ HeadsHaveOrigin => HeadsNeverCollide
  <2> SUFFICES ASSUME TypeOK, HeadsHaveOrigin, NEW m1 \in Live, NEW m2 \in Live,
                      NEW i \in 0..Len(log[m1]), NEW j \in 0..Len(log[m2]),
                      HeadAt(m1, i) = HeadAt(m2, j)
               PROVE  m1 = m2 /\ i = j
    BY DEF HeadsNeverCollide
  <2>1. i \in Nat /\ j \in Nat
    OBVIOUS
  <2>2. OriginAt(HeadAt(m1, i), m1, Len(StartHead(m1)), i)
        /\ OriginAt(HeadAt(m1, i), m2, Len(StartHead(m2)), j)
    BY DEF HeadsHaveOrigin
  <2> QED
    BY <2>1, <2>2, OriginDetermines
<1> QED
  BY <1>1, <1>2, <1>3, TypeCorrect, HeadReplay, PTL DEF Spec

(***************************************************************************)
(* The pinned state and the lineage of forks                               *)
(***************************************************************************)
\* A step that leaves the first k entries of x and its start alone.
SamePast(x, k) ==
  /\ \A i \in 1..k : log'[x][i] = log[x][i]
  /\ StartBlob(x)' = StartBlob(x)

\* The last checkpoint and the blob of an unchanged past are unchanged.
LEMMA PastStays ==
  ASSUME NEW x, NEW k \in Nat, SamePast(x, k)
  PROVE  /\ \A i : LastCheckpoint(x, k, i)' <=> LastCheckpoint(x, k, i)
         /\ NoCheckpoint(x, k)' <=> NoCheckpoint(x, k)
         /\ \A b : BlobAt(x, k, b)' <=> BlobAt(x, k, b)
<1>1. \A i : LastCheckpoint(x, k, i)' <=> LastCheckpoint(x, k, i)
  BY DEF LastCheckpoint, SamePast, IsCheckpoint
<1>2. NoCheckpoint(x, k)' <=> NoCheckpoint(x, k)
  BY DEF NoCheckpoint, SamePast, IsCheckpoint
<1>3. \A b : BlobAt(x, k, b)' <=> BlobAt(x, k, b)
  BY <1>1, <1>2 DEF BlobAt, SamePast
<1> QED
  BY <1>1, <1>2, <1>3

\* Every step leaves every existing Machine's existing entries alone.
LEMMA PastKept ==
  ASSUME TypeOK, [Next]_vars, NEW x \in Live, NEW k \in 0..Len(log[x])
  PROVE  SamePast(x, k) /\ k \in Nat /\ HeadAt(x, k)' = HeadAt(x, k)
         /\ k \in 0..Len(log'[x]) /\ x \in Live'
<1>0. Len(log[x]) \in Nat
  BY DEF TypeOK
<1>1. CASE \E s \in Addresses, id \in ObjectIds, p \in PolicyIds : Create(s, id, p)
  <2>1. PICK s \in Addresses, id \in ObjectIds, p \in PolicyIds : Create(s, id, p)
    BY <1>1
  <2>2. CreateEffect(id)
    BY <2>1, CreateFrame
  <2> QED
    BY <1>0, <2>2 DEF CreateEffect, SamePast, StartBlob
<1>2. CASE \E s \in Addresses, m \in Live, c \in ObjectIds, p \in PolicyIds : fork(s, m, c, p)
  <2>1. PICK s \in Addresses, m \in Live, c \in ObjectIds, p \in PolicyIds : fork(s, m, c, p)
    BY <1>2
  <2>2. ForkEffect(m, c)
    BY <2>1, ForkFrame
  <2> QED
    BY <1>0, <2>2 DEF ForkEffect, SamePast, StartBlob
<1>3. CASE \E m \in Live, r \in MachineRecords, e \in Events : ChainedStep(m, r, e)
  <2>1. PICK m \in Live, r \in MachineRecords, e \in Events : ChainedStep(m, r, e)
    BY <1>3
  <2>2. ExtendEffect(m, r, e)
    BY <2>1, ExtendFrame
  <2> QED
    BY <1>0, <2>2 DEF ExtendEffect, SamePast, StartBlob
<1>4. CASE ChainUntouched
  BY <1>0, <1>4 DEF ChainUntouched, SamePast, StartBlob, HeadAt, StartHead, Live
<1> QED
  BY <1>1, <1>2, <1>3, <1>4, StepKinds

\* What CurrentStateIsLastCheckpoint says of one Machine.
Pinned(m) ==
  LET n == Len(log[m]) IN
    /\ BlobAt(m, n, machines[m].blob)
    /\ \A i \in 1..n : LastCheckpoint(m, n, i) => machines[m].manifest = log[m][i].manifest

\* A Machine a step does not touch keeps its pinned state.
LEMMA PinnedUntouched ==
  ASSUME TypeOK, [Next]_vars, NEW x \in Live, Pinned(x),
         machines'[x] = machines[x], log'[x] = log[x]
  PROVE  Pinned(x)'
<1> DEFINE n == Len(log[x])
<1>1. n \in Nat
  BY DEF TypeOK
<1>2. /\ \A i : LastCheckpoint(x, n, i)' <=> LastCheckpoint(x, n, i)
      /\ \A b : BlobAt(x, n, b)' <=> BlobAt(x, n, b)
  BY <1>1, PastKept, PastStays
<1> QED
  BY <1>2 DEF Pinned

\* A new Machine has no entries and pins its start blob.
LEMMA PinnedNew ==
  ASSUME NEW x, log'[x] = <<>>, machines'[x].blob = StartBlob(x)'
  PROVE  Pinned(x)'
<1>1. Len(log'[x]) = 0
  OBVIOUS
<1>2. NoCheckpoint(x, 0)'
  BY DEF NoCheckpoint
<1> QED
  BY <1>1, <1>2 DEF Pinned, BlobAt

\* After a chained entry the last checkpoint is the new entry, or the one
\* that was last before.
LEMMA PinnedExtended ==
  ASSUME TypeOK, [Next]_vars, NEW m \in Live, NEW r \in MachineRecords, NEW e \in Events,
         ChainedStep(m, r, e), Pinned(m)
  PROVE  Pinned(m)'
<1>0. PICK n \in Nat : n = Len(log[m])
  BY DEF TypeOK
<1>1. ExtendEffect(m, r, e)
  BY ExtendFrame
<1>2. n = Len(log[m]) /\ Len(log'[m]) = n + 1 /\ log'[m][n + 1] = e /\ machines'[m] = r
      /\ \A i \in 1..n : log'[m][i] = log[m][i]
  BY <1>0, <1>1 DEF ExtendEffect
<1>3. /\ \A i : LastCheckpoint(m, n, i)' <=> LastCheckpoint(m, n, i)
      /\ NoCheckpoint(m, n)' <=> NoCheckpoint(m, n)
      /\ StartBlob(m)' = StartBlob(m)
  BY <1>2, PastKept, PastStays DEF SamePast
<1>4. CASE IsCheckpoint(e)
  <2>1. r.blob = e.blob /\ r.manifest = e.manifest
    BY <1>4 DEF ChainedStep
  <2>2. LastCheckpoint(m, n + 1, n + 1)'
    BY <1>2, <1>4 DEF LastCheckpoint
  <2>3. ASSUME NEW i \in 1..(n + 1), LastCheckpoint(m, n + 1, i)' PROVE i = n + 1
    BY <1>2, <1>4, <2>3 DEF LastCheckpoint
  <2> QED
    BY <1>2, <2>1, <2>2, <2>3 DEF Pinned, BlobAt
<1>5. CASE ~IsCheckpoint(e)
  <2>1. r.blob = machines[m].blob /\ r.manifest = machines[m].manifest
    BY <1>5 DEF ChainedStep
  <2>2. ASSUME NEW i \in 1..n
        PROVE  LastCheckpoint(m, n + 1, i)' <=> LastCheckpoint(m, n, i)'
    BY <1>2, <1>5 DEF LastCheckpoint
  <2>3. NoCheckpoint(m, n + 1)' <=> NoCheckpoint(m, n)'
    BY <1>2, <1>5 DEF NoCheckpoint
  <2>4. ~LastCheckpoint(m, n + 1, n + 1)'
    BY <1>2, <1>5 DEF LastCheckpoint
  <2>5. BlobAt(m, n + 1, r.blob)'
    <3>1. BlobAt(m, n, r.blob)
      BY <1>0, <2>1 DEF Pinned
    <3>2. CASE NoCheckpoint(m, n) /\ r.blob = StartBlob(m)
      BY <1>3, <2>3, <3>2 DEF BlobAt
    <3>3. CASE \E i \in 1..n : LastCheckpoint(m, n, i) /\ r.blob = log[m][i].blob
      <4>1. PICK i \in 1..n : LastCheckpoint(m, n, i) /\ r.blob = log[m][i].blob
        BY <3>3
      <4>2. LastCheckpoint(m, n + 1, i)' /\ r.blob = log'[m][i].blob /\ i \in 1..(n + 1)
        BY <1>2, <1>3, <2>2, <4>1
      <4> QED
        BY <4>2 DEF BlobAt
    <3> QED
      BY <3>1, <3>2, <3>3 DEF BlobAt
  <2>6. ASSUME NEW i \in 1..(n + 1), LastCheckpoint(m, n + 1, i)'
        PROVE  r.manifest = log'[m][i].manifest
    <3>1. i \in 1..n
      BY <1>2, <2>4, <2>6
    <3>2. LastCheckpoint(m, n, i)
      BY <1>3, <2>2, <2>6, <3>1
    <3> QED
      BY <1>2, <2>1, <3>1, <3>2 DEF Pinned
  <2> QED
    BY <1>2, <2>5, <2>6 DEF Pinned
<1> QED
  BY <1>4, <1>5

\* No step leaves a Machine pinning anything but its last checkpoint.
LEMMA CurrentStep ==
  ASSUME TypeOK, CurrentStateIsLastCheckpoint, [Next]_vars
  PROVE  CurrentStateIsLastCheckpoint'
<1>0. \A x \in Live : Pinned(x)
  BY DEF CurrentStateIsLastCheckpoint, Pinned
<1>1. SUFFICES \A x \in Live' : Pinned(x)'
  BY DEF CurrentStateIsLastCheckpoint, Pinned
<1>2. CASE \E s \in Addresses, id \in ObjectIds, p \in PolicyIds : Create(s, id, p)
  <2>1. PICK s \in Addresses, id \in ObjectIds, p \in PolicyIds : Create(s, id, p)
    BY <1>2
  <2>2. CreateEffect(id)
    BY <2>1, CreateFrame
  <2>3. Pinned(id)'
    BY <2>2, PinnedNew DEF CreateEffect
  <2>4. \A x \in Live : Pinned(x)'
    BY <1>0, <2>2, PinnedUntouched DEF CreateEffect
  <2> QED
    BY <2>2, <2>3, <2>4 DEF CreateEffect
<1>3. CASE \E s \in Addresses, m \in Live, c \in ObjectIds, p \in PolicyIds : fork(s, m, c, p)
  <2>1. PICK s \in Addresses, m \in Live, c \in ObjectIds, p \in PolicyIds : fork(s, m, c, p)
    BY <1>3
  <2>2. ForkEffect(m, c)
    BY <2>1, ForkFrame
  <2>3. Pinned(c)'
    BY <2>2, PinnedNew DEF ForkEffect
  <2>4. \A x \in Live : Pinned(x)'
    BY <1>0, <2>2, PinnedUntouched DEF ForkEffect
  <2> QED
    BY <2>2, <2>3, <2>4 DEF ForkEffect
<1>4. CASE \E m \in Live, r \in MachineRecords, e \in Events : ChainedStep(m, r, e)
  <2>1. PICK m \in Live, r \in MachineRecords, e \in Events : ChainedStep(m, r, e)
    BY <1>4
  <2>2. ExtendEffect(m, r, e)
    BY <2>1, ExtendFrame
  <2>3. Pinned(m)'
    BY <1>0, <2>1, PinnedExtended
  <2>4. \A x \in Live \ {m} : Pinned(x)'
    BY <1>0, <2>2, PinnedUntouched DEF ExtendEffect
  <2> QED
    BY <2>2, <2>3, <2>4 DEF ExtendEffect
<1>5. CASE ChainUntouched
  <2>1. \A x \in Live : Pinned(x)' /\ Live' = Live
    BY <1>0, <1>5, PinnedUntouched DEF ChainUntouched, Live
  <2> QED
    BY <1>5, <2>1 DEF ChainUntouched, Live
<1> QED
  BY <1>2, <1>3, <1>4, <1>5, StepKinds

\* current_blob_id and manifest_hash are always those of the last checkpoint
\* event, or what the Machine started with.
THEOREM CurrentState == Spec => []CurrentStateIsLastCheckpoint
<1>1. Init => CurrentStateIsLastCheckpoint
  BY DEF Init, CurrentStateIsLastCheckpoint, Live
<1>2. TypeOK /\ CurrentStateIsLastCheckpoint /\ [Next]_vars => CurrentStateIsLastCheckpoint'
  BY CurrentStep
<1> QED
  BY <1>1, <1>2, TypeCorrect, PTL DEF Spec

\* What ForkLineage says of one Machine.
Lineage(c) ==
  /\ (machines[c].parent # NoParent) <=> c \in DOMAIN forks
  /\ c \in DOMAIN forks =>
       LET f == forks[c] IN
       /\ f.parent = machines[c].parent /\ f.parent \in Live
       /\ f.childHead = compute_fork_genesis(f.parentHead, c)
       /\ \E k \in 0..Len(log[f.parent]) :
            HeadAt(f.parent, k) = f.parentHead /\ BlobAt(f.parent, k, f.blob)

\* The record of an existing Machine's fork stays true.
LEMMA LineageKept ==
  ASSUME TypeOK, [Next]_vars, NEW c \in Live, Lineage(c),
         machines'[c].parent = machines[c].parent,
         c \in DOMAIN forks' <=> c \in DOMAIN forks,
         c \in DOMAIN forks => forks'[c] = forks[c]
  PROVE  Lineage(c)'
<1>1. CASE c \notin DOMAIN forks
  BY <1>1 DEF Lineage
<1>2. CASE c \in DOMAIN forks
  <2> DEFINE f == forks[c]
  <2>1. /\ f.parent = machines[c].parent /\ f.parent \in Live
        /\ f.childHead = compute_fork_genesis(f.parentHead, c)
        /\ machines[c].parent # NoParent
    BY <1>2 DEF Lineage
  <2>2. PICK k \in 0..Len(log[f.parent]) :
          HeadAt(f.parent, k) = f.parentHead /\ BlobAt(f.parent, k, f.blob)
    BY <1>2 DEF Lineage
  <2>3. PICK q \in Live : q = f.parent
    BY <2>1
  <2>4. PICK h : h = f.parentHead
    OBVIOUS
  <2>5. PICK b : b = f.blob
    OBVIOUS
  <2>6. HeadAt(q, k)' = h /\ k \in 0..Len(log'[q]) /\ q \in Live' /\ BlobAt(q, k, b)'
    BY <2>2, <2>3, <2>4, <2>5, PastKept, PastStays
  <2>7. /\ forks'[c].parent = q /\ forks'[c].parentHead = h /\ forks'[c].blob = b
        /\ forks'[c].childHead = f.childHead /\ c \in DOMAIN forks'
    BY <1>2, <2>3, <2>4, <2>5
  <2> QED
    BY <2>1, <2>3, <2>4, <2>6, <2>7 DEF Lineage
<1> QED
  BY <1>1, <1>2

\* No step makes a fork record false of its parent's past.
LEMMA LineageStep ==
  ASSUME TypeOK, HeadReplaysFromEvents, CurrentStateIsLastCheckpoint, ForkLineage, [Next]_vars
  PROVE  ForkLineage'
<1>0. \A x \in Live : Lineage(x)
  BY DEF ForkLineage, Lineage
<1>1. SUFFICES \A x \in Live' : Lineage(x)'
  BY DEF ForkLineage, Lineage
<1>2. CASE \E s \in Addresses, id \in ObjectIds, p \in PolicyIds : Create(s, id, p)
  <2>1. PICK s \in Addresses, id \in ObjectIds, p \in PolicyIds : Create(s, id, p)
    BY <1>2
  <2>2. CreateEffect(id)
    BY <2>1, CreateFrame
  <2>3. Lineage(id)'
    BY <2>2 DEF CreateEffect, Lineage, TypeOK
  <2>4. \A x \in Live : Lineage(x)'
    BY <1>0, <2>2, LineageKept DEF CreateEffect
  <2> QED
    BY <2>2, <2>3, <2>4 DEF CreateEffect
<1>3. CASE \E s \in Addresses, m \in Live, c \in ObjectIds, p \in PolicyIds : fork(s, m, c, p)
  <2>1. PICK s \in Addresses, m \in Live, c \in ObjectIds, p \in PolicyIds : fork(s, m, c, p)
    BY <1>3
  <2>2. ForkEffect(m, c)
    BY <2>1, ForkFrame
  <2>3. Lineage(c)'
    <3> DEFINE n == Len(log[m])
    <3>1. n \in 0..Len(log[m]) /\ m \in ObjectIds /\ m # NoParent
      BY NoParentAssumption DEF TypeOK
    <3>2. PICK h : h = machines[m].head
      OBVIOUS
    <3>3. PICK b : b = machines[m].blob
      OBVIOUS
    <3>4. HeadAt(m, n) = h /\ BlobAt(m, n, b)
      BY <3>2, <3>3 DEF HeadReplaysFromEvents, CurrentStateIsLastCheckpoint
    <3>5. PICK k \in 0..Len(log[m]) : k = n
      BY <3>1
    <3>6. HeadAt(m, k)' = h /\ BlobAt(m, k, b)' /\ k \in 0..Len(log'[m]) /\ m \in Live'
      BY <3>4, <3>5, PastKept, PastStays
    <3>7. /\ c \in DOMAIN forks' /\ machines'[c].parent = m /\ forks'[c].parent = m
          /\ forks'[c].parentHead = h /\ forks'[c].blob = b
          /\ forks'[c].childHead = compute_fork_genesis(h, c)
      BY <2>2, <3>2, <3>3 DEF ForkEffect
    <3> QED
      BY <3>1, <3>6, <3>7 DEF Lineage
  <2>4. \A x \in Live : Lineage(x)'
    BY <1>0, <2>2, LineageKept DEF ForkEffect
  <2> QED
    BY <2>2, <2>3, <2>4 DEF ForkEffect
<1>4. CASE \E m \in Live, r \in MachineRecords, e \in Events : ChainedStep(m, r, e)
  <2>1. PICK m \in Live, r \in MachineRecords, e \in Events : ChainedStep(m, r, e)
    BY <1>4
  <2>2. ExtendEffect(m, r, e) /\ r.parent = machines[m].parent
    BY <2>1, ExtendFrame DEF ChainedStep
  <2>3. \A x \in Live : machines'[x].parent = machines[x].parent
    BY <2>2 DEF ExtendEffect
  <2>4. \A x \in Live : Lineage(x)'
    BY <1>0, <2>2, <2>3, LineageKept DEF ExtendEffect
  <2> QED
    BY <2>2, <2>4 DEF ExtendEffect
<1>5. CASE ChainUntouched
  <2>1. \A x \in Live : Lineage(x)'
    BY <1>0, <1>5, LineageKept DEF ChainUntouched
  <2> QED
    BY <1>5, <2>1 DEF ChainUntouched, Live
<1> QED
  BY <1>2, <1>3, <1>4, <1>5, StepKinds

\* A fork's recorded parent head is a head the parent's chain passed through,
\* and the inherited blob the one the parent pinned there, for ever.
THEOREM LineageHolds == Spec => []ForkLineage
<1>1. Init => ForkLineage
  BY DEF Init, ForkLineage, Live
<1>2. TypeOK /\ HeadReplaysFromEvents /\ CurrentStateIsLastCheckpoint /\ ForkLineage
        /\ [Next]_vars => ForkLineage'
  BY LineageStep
<1> QED
  BY <1>1, <1>2, TypeCorrect, HeadReplay, CurrentState, PTL DEF Spec
=============================================================================
