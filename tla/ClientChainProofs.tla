------------------------- MODULE ClientChainProofs -------------------------
(***************************************************************************)
(* TLAPS proofs about Client: what the operator's commands leave in files, *)
(* on Walrus and on chain fits together, however they overlap and die.     *)
(***************************************************************************)
EXTENDS ClientProofs

(***************************************************************************)
(* The chain half of the inductive invariant.  It is about values that are *)
(* kept somewhere (a session, a file, an entry, an attestation), and what  *)
(* it says of one is never lost by what happens elsewhere.                 *)
(***************************************************************************)
\* What the chain and Walrus make true of a state.json,
FileFact(f) == \A m \in DOMAIN f : m \in Live /\ f[m] = PolicyOnChain(m)

\* of a snapshot,
SnapshotFact(m, blob, manifest) ==
  /\ manifest = blob.dir /\ blob.sealedFor = <<PolicyOnChain(m), m>>
  /\ manifest \in Directories /\ Seen(m, manifest) /\ NotBehind(m, manifest, workdir[m])

\* of a checkpoint entry,
EntryFact(m, e) ==
  e.blob \in stored /\ SnapshotFact(m, e.blob, e.manifest) /\ Listed(m, e.payload)

\* of what the operator's commands will attest or have attested,
SnapshotStored(m, manifest) == \E b \in stored : b.dir = manifest /\ b.sealedFor[2] = m

AttestedFact(a) ==
  /\ a.machine \in Live
  /\ a.seq \in Int /\ 0 <= a.seq /\ a.seq < machines[a.machine].count
  /\ SnapshotStored(a.machine, a.manifest)

\* and of a command in progress.
Unretired(m, k) == \A i \in 1..k : log[m][i].type # Retire
Covers(manifest, m, k) ==
  \A i \in 1..k : IsCheckpoint(log[m][i]) => NotBehind(m, log[m][i].manifest, manifest)

SessionFact(s) ==
  /\ s.at = "record" => s.machine \in Live /\ s.policy = PolicyOnChain(s.machine)
  /\ s.at \in {"truncate", "flush"} => FileFact(s.file)
  /\ s.at \in {"check", "capture"} => s.machine \in Live /\ s.policy = PolicyOnChain(s.machine)
  /\ s.at \in {"check", "capture", "load-log", "store", "anchor"} =>
       s.machine \in Live /\ s.since <= Len(log[s.machine])
  /\ s.at \in {"capture", "load-log", "store", "anchor"} =>
       s.blind \/ Unretired(s.machine, s.since)
  /\ s.at \in {"load-log", "store", "anchor"} =>
       SnapshotFact(s.machine, s.blob, s.manifest) /\ Covers(s.manifest, s.machine, s.since)
  /\ s.at = "anchor" => s.blob \in stored
  /\ s.at \in {"read-back", "attest"} =>
       s.machine \in Live /\ SnapshotStored(s.machine, s.manifest)
  /\ s.at = "attest" => s.seq \in Int /\ 0 <= s.seq /\ s.seq < machines[s.machine].count

EntriesOK ==
  \A m \in Live : \A i \in 1..Len(log[m]) : IsCheckpoint(log[m][i]) => EntryFact(m, log[m][i])

\* Of what others attest, nothing is known but that a registered key signed.
AttestationsOK ==
  /\ \A a \in recorded : AttestedFact(a)
  /\ \A a \in attested : a.config \in enclaves

ChainInv ==
  /\ FileFact(read) /\ EntriesOK /\ AttestationsOK
  /\ \A c \in Clients : SessionFact(session[c])

\* Every sequence below checkpoint_count is that of a checkpoint on the chain.
EverySeqAnchored ==
  \A m \in Live : \A k \in Nat : k < machines[m].count =>
    \E i \in 1..Len(log[m]) : IsCheckpoint(log[m][i]) /\ log[m][i].seq = k

(***************************************************************************)
(* Everything these facts are about only grows                             *)
(***************************************************************************)
\* A directory that is not behind a snapshot does not fall behind it.
StaysAhead(m) ==
  \A p \in Directories :
    Seen(m, p) /\ NotBehind(m, p, workdir[m]) => NotBehind(m, p, workdir[m])'

DirectoriesGrow ==
  \A m \in ObjectIds : removed[m] \subseteq removed'[m] /\ putBack[m] \subseteq putBack'[m]

\* Machines and their entries stay, and so do blobs, keys, attestations and
\* what happened in directories.
Grows ==
  /\ ChainGrows /\ stored \subseteq stored' /\ enclaves \subseteq enclaves'
  /\ attested \subseteq attested' /\ RanGrows /\ DirectoriesGrow
  /\ \A m \in ObjectIds : StaysAhead(m)

\* No directory is behind itself.
LEMMA NotBehindItself ==
  ASSUME NEW m, NEW d \in Directories
  PROVE  NotBehind(m, d, d)
<1>1. \A f \in DOMAIN d : d[f] \in Int
  BY DirectoryIsFunction DEF Commands
<1> QED
  BY <1>1 DEF NotBehind

\* What excuses a difference is not forgotten.
LEMMA NotBehindKept ==
  ASSUME Grows, NEW m \in ObjectIds, NEW p, NEW q, NotBehind(m, p, q)
  PROVE  NotBehind(m, p, q)'
<1>1. removed[m] \subseteq removed'[m] /\ putBack[m] \subseteq putBack'[m]
  BY DEF Grows, DirectoriesGrow
<1> QED
  BY <1>1 DEF NotBehind

\* A step that leaves the directories alone.
LEMMA QuietDirectories ==
  ASSUME DirsOK, UNCHANGED dirVars
  PROVE  RanGrows /\ DirectoriesGrow /\ \A m \in ObjectIds : StaysAhead(m)
<1>1. RanGrows
  BY QuietRan
<1>2. workdir' = workdir /\ removed' = removed /\ putBack' = putBack
  BY DEF dirVars
<1>3. ASSUME NEW m, NEW p, NotBehind(m, p, workdir[m])
      PROVE  NotBehind(m, p, workdir[m])'
  BY <1>2, <1>3 DEF NotBehind
<1> QED
  BY <1>1, <1>2, <1>3 DEF DirectoriesGrow, StaysAhead

\* A command that executes writes files in a version newer than any snapshot
\* has, and what it removes is removed later than any snapshot wrote it.
LEMMA ExecGrows ==
  ASSUME LocalInv, NEW c \in Clients, Exec(c)
  PROVE  RanGrows /\ DirectoriesGrow /\ \A m \in ObjectIds : StaysAhead(m)
<1>1. PICK x, n : x = session[c].machine /\ n = ran[x] + 1
  OBVIOUS
<1>2. At(c, "exec") /\ Runs(x, n)
  BY <1>1 DEF Exec, Step
<1>3. session[c] \in Executing
  BY <1>2 DEF LocalInv, SessionsOK, LocalFact, Shape, At
<1>4. x \in ObjectIds /\ n \in Commands /\ ran[x] \in Nat
  BY <1>1, <1>2, <1>3, ClientAssumption DEF Executing, Runs, LocalInv, DirsOK
<1>5. PICK wrote \in SUBSET Files, gone \in SUBSET DOMAIN workdir[x] :
        /\ workdir' = [workdir EXCEPT ![x] = Changed(workdir[x], wrote, gone, n)]
        /\ removed' = [removed EXCEPT ![x] = @ \cup (gone \X {n})]
        /\ ran' = [ran EXCEPT ![x] = n] /\ putBack' = putBack
  BY <1>2 DEF Runs
<1>6. RanGrows
  <2>1. \A m \in ObjectIds : ran[m] \in Nat /\ ran'[m] = IF m = x THEN n ELSE ran[m]
    BY <1>4, <1>5, ClientAssumption DEF LocalInv, DirsOK
  <2>2. n \in Nat /\ ran[x] <= n
    BY <1>1, <1>4 DEF Commands
  <2>3. \A m \in ObjectIds : ran[m] <= ran[m]
    BY <2>1
  <2> QED
    BY <2>1, <2>2, <2>3 DEF RanGrows
<1>7. PICK old, new : old = workdir[x] /\ new = Changed(old, wrote, gone, n)
  OBVIOUS
<1>8. /\ workdir'[x] = new /\ \A m \in ObjectIds \ {x} : workdir'[m] = workdir[m]
      /\ removed'[x] = removed[x] \cup (gone \X {n})
      /\ \A m \in ObjectIds \ {x} : removed'[m] = removed[m]
  BY <1>4, <1>5, <1>7 DEF LocalInv, DirsOK
<1>9. DirectoriesGrow
  BY <1>5, <1>8 DEF DirectoriesGrow
<1>10. ASSUME NEW m \in ObjectIds, m # x PROVE StaysAhead(m)
  BY <1>5, <1>8, <1>10 DEF StaysAhead, NotBehind
<1>11. ASSUME NEW p \in Directories, Seen(x, p), NotBehind(x, p, old)
       PROVE  NotBehind(x, p, new)'
  <2>1. \A f \in DOMAIN p : p[f] \in Int /\ p[f] < n
    BY <1>1, <1>4, <1>11, DirectoryIsFunction DEF Seen, Commands
  <2>2. /\ DOMAIN new = (DOMAIN old \ gone) \cup wrote
        /\ \A f \in DOMAIN new : new[f] = IF f \in wrote THEN n ELSE old[f]
    BY <1>7 DEF Changed
  <2> SUFFICES ASSUME NEW f \in DOMAIN p
               PROVE  \/ f \in DOMAIN new /\ (p[f] <= new[f] \/ <<f, new[f]>> \in putBack'[x])
                      \/ f \notin DOMAIN new /\ \E k \in Commands : k > p[f] /\ <<f, k>> \in removed'[x]
    BY DEF NotBehind
  <2>3. CASE f \in wrote
    BY <1>4, <2>1, <2>2, <2>3 DEF Commands
  <2>4. CASE f \in gone /\ f \notin wrote
    <3>1. f \notin DOMAIN new /\ <<f, n>> \in removed'[x] /\ n > p[f]
      BY <1>4, <1>8, <2>1, <2>2, <2>4 DEF Commands
    <3> QED
      BY <1>4, <3>1
  <2>5. CASE f \notin gone /\ f \notin wrote
    <3>1. f \in DOMAIN new <=> f \in DOMAIN old
      BY <2>2, <2>5
    <3>2. f \in DOMAIN new => new[f] = old[f]
      BY <2>2, <2>5
    <3>3. removed[x] \subseteq removed'[x] /\ putBack'[x] = putBack[x]
      BY <1>5, <1>8
    <3> QED
      BY <1>11, <3>1, <3>2, <3>3 DEF NotBehind
  <2> QED
    BY <2>3, <2>4, <2>5
<1>12. StaysAhead(x)
  BY <1>7, <1>8, <1>11 DEF StaysAhead
<1> QED
  BY <1>6, <1>9, <1>10, <1>12

\* What is unpacked is put back.
LEMMA UnpackGrows ==
  ASSUME LocalInv, NEW c \in Clients, Unpack(c)
  PROVE  RanGrows /\ DirectoriesGrow /\ \A m \in ObjectIds : StaysAhead(m)
<1>1. PICK s, x : s = session[c] /\ x = s.machine
  OBVIOUS
<1>2. At(c, "unpack")
  BY DEF Unpack
<1>3. s \in Restoring
  BY <1>1, <1>2 DEF LocalInv, SessionsOK, LocalFact, Shape, At
<1>4. x \in ObjectIds
  BY <1>1, <1>3 DEF Restoring
<1>5. PICK g, v : /\ workdir' = [workdir EXCEPT ![x] = With(@, g, v)]
                  /\ putBack' = [putBack EXCEPT ![x] = @ \cup {<<g, v>>}]
                  /\ ran' = ran /\ removed' = removed
  BY <1>1 DEF Unpack
<1>6. RanGrows
  BY <1>5, ClientAssumption DEF RanGrows, LocalInv, DirsOK
<1>7. PICK old, new : old = workdir[x] /\ new = With(old, g, v)
  OBVIOUS
<1>8. /\ workdir'[x] = new /\ \A m \in ObjectIds \ {x} : workdir'[m] = workdir[m]
      /\ putBack'[x] = putBack[x] \cup {<<g, v>>}
      /\ \A m \in ObjectIds \ {x} : putBack'[m] = putBack[m]
  BY <1>4, <1>5, <1>7 DEF LocalInv, DirsOK
<1>9. DirectoriesGrow
  BY <1>5, <1>8 DEF DirectoriesGrow
<1>10. ASSUME NEW m \in ObjectIds, m # x PROVE StaysAhead(m)
  BY <1>5, <1>8, <1>10 DEF StaysAhead, NotBehind
<1>11. ASSUME NEW p \in Directories, NotBehind(x, p, old)
       PROVE  NotBehind(x, p, new)'
  <2>1. /\ DOMAIN new = DOMAIN old \cup {g} /\ new[g] = v
        /\ \A f \in DOMAIN old : f # g => new[f] = old[f]
    BY <1>7 DEF With
  <2> SUFFICES ASSUME NEW f \in DOMAIN p
               PROVE  \/ f \in DOMAIN new /\ (p[f] <= new[f] \/ <<f, new[f]>> \in putBack'[x])
                      \/ f \notin DOMAIN new /\ \E k \in Commands : k > p[f] /\ <<f, k>> \in removed'[x]
    BY DEF NotBehind
  <2>2. CASE f = g
    BY <1>8, <2>1, <2>2
  <2>3. CASE f # g
    <3>1. f \in DOMAIN new <=> f \in DOMAIN old
      BY <2>1, <2>3
    <3>2. f \in DOMAIN new => new[f] = old[f]
      BY <2>1, <2>3
    <3>3. removed'[x] = removed[x] /\ putBack[x] \subseteq putBack'[x]
      BY <1>5, <1>8
    <3> QED
      BY <1>11, <3>1, <3>2, <3>3 DEF NotBehind
  <2> QED
    BY <2>2, <2>3
<1>12. StaysAhead(x)
  BY <1>7, <1>8, <1>11 DEF StaysAhead
<1> QED
  BY <1>6, <1>9, <1>10, <1>12

\* Directories change when a command runs and when a file is unpacked.
LEMMA ClientDirectoriesGrow ==
  ASSUME LocalInv, [ClientNext]_clientVars
  PROVE  RanGrows /\ DirectoriesGrow /\ \A m \in ObjectIds : StaysAhead(m)
<1>1. CASE UNCHANGED dirVars
  BY <1>1, QuietDirectories DEF LocalInv
<1>2. CASE \E c \in Clients : Exec(c) \/ Unpack(c)
  BY <1>2, ExecGrows, UnpackGrows
<1>3. ASSUME NEW c \in Clients, ClientStep(c)
      PROVE  UNCHANGED dirVars \/ Exec(c) \/ Unpack(c)
  BY <1>3
     DEF ClientStep, registerCreate, reeg_create, registerFork, reeg_fork, registerRetire,
         reeg_retire, registerGrant, reeg_share, registerRevoke, reeg_revoke, registerRun,
         reeg_run, registerCheckpoint, reeg_checkpoint, registerRestore, reeg_restore,
         createShareableMachine, executeForMachine, retireMachine, grantAccess, revokeAccess,
         engineRun, BeginCheckpoint, registerEnclave, RecordRead, RecordTruncate, RecordFlush,
         LogTruncate, LogFlush, CheckRetired, CheckRetiredFailsOpen, Capture, LoadLog, Store,
         Anchor, AnchorFails, ReadBack, Attest, BeginRestore, Fetch, Abort
<1>4. CASE Environment \/ UNCHANGED clientVars
  BY <1>1, <1>4
     DEF Environment, RestartEnclave, OthersRegister, OthersRecord, clientVars, localVars
<1> QED
  BY <1>1, <1>2, <1>3, <1>4 DEF ClientNext

\* No blob is deleted and no enclave's key is taken off the chain.
LEMMA ClientGrows ==
  ASSUME TypedInv, TypedInv', [ClientNext]_clientVars
  PROVE  Grows
<1>1. ChainGrows
  BY ClientStepIsMachineStep, ChainOnlyGrows DEF TypedInv
<1>2. ASSUME NEW c \in Clients, ClientStep(c)
      PROVE  stored \subseteq stored' /\ enclaves \subseteq enclaves' /\ attested \subseteq attested'
  BY <1>2
     DEF ClientStep, registerCreate, reeg_create, registerFork, reeg_fork, registerRetire,
         reeg_retire, registerGrant, reeg_share, registerRevoke, reeg_revoke, registerRun,
         reeg_run, registerCheckpoint, reeg_checkpoint, registerRestore, reeg_restore,
         createShareableMachine,
         executeForMachine, retireMachine, grantAccess, revokeAccess, engineRun, BeginCheckpoint,
         registerEnclave, RecordRead, RecordTruncate, RecordFlush, Exec, LogTruncate, LogFlush,
         CheckRetired, CheckRetiredFailsOpen, Capture, LoadLog, Store, Stored, Anchor,
         AnchorFails, ReadBack, Attest, register_attested_command, register_enclave, BeginRestore,
         Fetch, Unpack, Abort, attestVars
<1>3. ASSUME Environment \/ UNCHANGED clientVars
      PROVE  stored \subseteq stored' /\ enclaves \subseteq enclaves' /\ attested \subseteq attested'
  BY <1>3 DEF Environment, RestartEnclave, OthersRegister, OthersRecord, register_enclave,
              register_attested_command, clientVars, localVars, attestVars
<1>4. stored \subseteq stored' /\ enclaves \subseteq enclaves' /\ attested \subseteq attested'
  BY <1>2, <1>3 DEF ClientNext
<1> QED
  BY <1>1, <1>4, ClientDirectoriesGrow DEF Grows, TypedInv

(***************************************************************************)
(* so the facts are kept                                                   *)
(***************************************************************************)
\* The policy of a Machine is the one it was created with.
LEMMA PolicyKept ==
  ASSUME Grows, NEW m \in Live
  PROVE  m \in Live' /\ PolicyOnChain(m)' = PolicyOnChain(m)
  BY DEF Grows, ChainGrows, PolicyOnChain

\* What state.json says stays true.
LEMMA FileKept ==
  ASSUME Grows, NEW f, FileFact(f)
  PROVE  FileFact(f)'
  BY PolicyKept DEF FileFact

\* A directory never falls behind a snapshot that was taken from it.
LEMMA SnapshotKept ==
  ASSUME TypedInv, TypedInv', Grows, NEW m \in Live, NEW b, NEW h, SnapshotFact(m, b, h)
  PROVE  SnapshotFact(m, b, h)'
<1>1. m \in ObjectIds /\ h \in Directories /\ Seen(m, h)
  BY DEF TypedInv, TypeOK, SnapshotFact
<1>2. Seen(m, h)'
  BY <1>1, SeenKept DEF Grows
<1>3. NotBehind(m, h, workdir[m])'
  BY <1>1 DEF Grows, StaysAhead, SnapshotFact
<1> QED
  BY <1>1, <1>2, <1>3, PolicyKept DEF SnapshotFact

\* A checkpoint entry stays restorable.
LEMMA EntryKept ==
  ASSUME TypedInv, TypedInv', Grows, NEW m \in Live, NEW e, EntryFact(m, e)
  PROVE  EntryFact(m, e)'
<1>1. m \in ObjectIds
  BY DEF TypedInv, TypeOK
<1>2. PICK b, h : b = e.blob /\ h = e.manifest /\ SnapshotFact(m, b, h)
  BY DEF EntryFact
<1>3. SnapshotFact(m, b, h)'
  BY <1>2, SnapshotKept
<1>4. e.blob \in stored' /\ Listed(m, e.payload)'
  BY <1>1, SeenKept DEF EntryFact, Grows
<1> QED
  BY <1>2, <1>3, <1>4 DEF EntryFact

\* So does what an attestation is about.
LEMMA StoredKept ==
  ASSUME Grows, NEW m, NEW h, SnapshotStored(m, h)
  PROVE  SnapshotStored(m, h)'
  BY DEF Grows, SnapshotStored

\* And the attestation stays behind the chain.
LEMMA AttestedKept ==
  ASSUME Grows, NEW a, AttestedFact(a)
  PROVE  AttestedFact(a)'
<1>1. SnapshotStored(a.machine, a.manifest)'
  BY StoredKept DEF AttestedFact
<1>2. PICK m \in Live : m = a.machine
  BY DEF AttestedFact
<1> QED
  BY <1>1, <1>2 DEF AttestedFact, Grows, ChainGrows

\* A command in progress keeps what it found out.
LEMMA SessionKept ==
  ASSUME TypedInv, TypedInv', Grows, NEW s, Shape(s), SessionFact(s)
  PROVE  SessionFact(s)'
<1>1. s.at \in {"record", "check", "capture"} =>
        s.machine \in Live' /\ s.policy = PolicyOnChain(s.machine)'
  BY PolicyKept DEF SessionFact
<1>2. s.at \in {"truncate", "flush"} => FileFact(s.file)'
  BY FileKept DEF SessionFact
<1>3. s.at \in {"check", "capture", "load-log", "store", "anchor"} =>
        /\ s.machine \in Live /\ s.since \in Nat /\ s.since <= Len(log[s.machine])
        /\ s.machine \in Live' /\ s.since <= Len(log'[s.machine])
        /\ \A i \in 1..s.since : log'[s.machine][i] = log[s.machine][i]
  <2>1. s.at \in {"check", "capture", "load-log", "store", "anchor"} =>
          s.machine \in Live /\ s.since \in Nat /\ s.since <= Len(log[s.machine])
    BY DEF SessionFact, Shape, Checking, Capturing, LoadingLog, Anchoring
  <2>2. ASSUME NEW m \in Live, NEW k \in Nat, k <= Len(log[m])
        PROVE  /\ m \in Live' /\ k <= Len(log'[m])
               /\ \A i \in 1..k : log'[m][i] = log[m][i]
    BY <2>2 DEF Grows, ChainGrows
  <2> QED
    BY <2>1, <2>2
<1>4. s.at \in {"capture", "load-log", "store", "anchor"} =>
        s.blind \/ Unretired(s.machine, s.since)'
  BY <1>3 DEF SessionFact, Unretired
<1>5. s.at \in {"load-log", "store", "anchor"} => SnapshotFact(s.machine, s.blob, s.manifest)'
  BY <1>3, SnapshotKept DEF SessionFact
<1>6. s.at \in {"load-log", "store", "anchor"} => Covers(s.manifest, s.machine, s.since)'
  <2>1. CASE s.at \in {"load-log", "store", "anchor"}
    <3>1. s.machine \in ObjectIds
      BY <1>3, <2>1 DEF TypedInv, TypeOK
    <3>2. \A p : NotBehind(s.machine, p, s.manifest) => NotBehind(s.machine, p, s.manifest)'
      BY <3>1, NotBehindKept
    <3>3. ASSUME NEW i \in 1..s.since, IsCheckpoint(log'[s.machine][i])
          PROVE  NotBehind(s.machine, log[s.machine][i].manifest, s.manifest)'
      <4>1. PICK e : e = log[s.machine][i] /\ e = log'[s.machine][i]
        BY <1>3, <2>1
      <4>2. NotBehind(s.machine, e.manifest, s.manifest)
        BY <2>1, <3>3, <4>1 DEF SessionFact, Covers, IsCheckpoint
      <4>3. NotBehind(s.machine, e.manifest, s.manifest)'
        BY <3>2, <4>2
      <4> QED
        BY <4>1, <4>3
    <3> QED
      BY <3>3 DEF Covers, IsCheckpoint
  <2> QED
    BY <2>1
<1>7. s.at = "anchor" => s.blob \in stored'
  BY DEF SessionFact, Grows
<1>8. s.at \in {"read-back", "attest"} =>
        s.machine \in Live' /\ SnapshotStored(s.machine, s.manifest)'
  BY StoredKept, PolicyKept DEF SessionFact
<1>9. s.at = "attest" => s.seq \in Int /\ 0 <= s.seq /\ s.seq < machines'[s.machine].count
  <2>1. ASSUME NEW m \in Live, NEW k \in Int, k < machines[m].count
        PROVE  k < machines'[m].count
    BY <2>1 DEF Grows, ChainGrows
  <2> QED
    BY <2>1 DEF SessionFact
<1> QED
  BY <1>1, <1>2, <1>3, <1>4, <1>5, <1>6, <1>7, <1>8, <1>9 DEF SessionFact

(***************************************************************************)
(* What the steps add                                                      *)
(***************************************************************************)
\* The checkpoints on chain were there before.
NoNewCheckpoint ==
  \A m \in Live' : \A i \in 1..Len(log'[m]) :
    IsCheckpoint(log'[m][i]) => m \in Live /\ i \in 1..Len(log[m])

\* Entries that were there before keep their facts.
LEMMA EntriesFollow ==
  ASSUME TypedInv, TypedInv', Grows, EntriesOK, NoNewCheckpoint
  PROVE  EntriesOK'
<1> SUFFICES ASSUME NEW m \in Live', NEW i \in 1..Len(log'[m]), IsCheckpoint(log'[m][i])
             PROVE  EntryFact(m, log[m][i])'
  BY DEF EntriesOK
<1>1. m \in Live /\ i \in 1..Len(log[m])
  BY DEF NoNewCheckpoint
<1>2. PICK e : e = log[m][i] /\ e = log'[m][i]
  BY <1>1 DEF Grows, ChainGrows
<1>3. EntryFact(m, e)
  BY <1>1, <1>2 DEF EntriesOK, IsCheckpoint
<1>4. EntryFact(m, e)'
  BY <1>1, <1>3, EntryKept
<1> QED
  BY <1>2, <1>4

\* The sessions of the other commands keep their facts.
LEMMA SessionsFollow ==
  ASSUME TypedInv, TypedInv', Grows, ChainInv, NEW c \in Clients, NEW v, Goto(c, v),
         SessionFact(v)'
  PROVE  \A d \in Clients : SessionFact(session[d])'
<1> SUFFICES ASSUME NEW d \in Clients PROVE SessionFact(session[d])'
  OBVIOUS
<1>1. session'[c] = v /\ \A x \in Clients \ {c} : session'[x] = session[x]
  BY GotoEffect DEF TypedInv, LocalInv, SessionsOK
<1>2. CASE d = c
  BY <1>1, <1>2
<1>3. CASE d # c
  <2>1. PICK s : s = session[d] /\ s = session'[d]
    BY <1>1, <1>3
  <2>2. SessionFact(s) /\ Shape(s)
    BY <2>1 DEF ChainInv, TypedInv, LocalInv, SessionsOK, LocalFact
  <2>3. SessionFact(s)'
    BY <2>2, SessionKept
  <2> QED
    BY <2>1, <2>3
<1> QED
  BY <1>2, <1>3

\* What is read from a state.json that was left alone.
LEMMA ReadFollows ==
  ASSUME Grows, FileFact(read), UNCHANGED stateFile
  PROVE  FileFact(read)'
<1>1. PICK f : f = read /\ f = read'
  BY DEF read
<1>2. FileFact(f)'
  BY <1>1, FileKept
<1> QED
  BY <1>1, <1>2

\* Attestations keep their facts.
LEMMA AttestedFollow ==
  ASSUME Grows, AttestationsOK, UNCHANGED <<attested, recorded>>
  PROVE  AttestationsOK'
<1>1. \A a \in recorded' : AttestedFact(a)'
  BY AttestedKept DEF AttestationsOK
<1>2. \A a \in attested' : a.config \in enclaves'
  BY DEF AttestationsOK, Grows
<1> QED
  BY <1>1, <1>2 DEF AttestationsOK

\* A step of a command that adds neither a checkpoint nor an attestation nor
\* text to state.json.
LEMMA ChainFollows ==
  ASSUME TypedInv, TypedInv', Grows, ChainInv, NoNewCheckpoint, UNCHANGED <<stateFile, attested, recorded>>,
         NEW c \in Clients, NEW v, Goto(c, v), SessionFact(v)'
  PROVE  ChainInv'
<1>1. FileFact(read)' /\ EntriesOK'
  BY ReadFollows, EntriesFollow DEF ChainInv
<1>2. \A d \in Clients : SessionFact(session[d])'
  BY SessionsFollow
<1>3. AttestationsOK'
  BY AttestedFollow DEF ChainInv
<1> QED
  BY <1>1, <1>2, <1>3 DEF ChainInv

\* Nothing is new on a chain that was left alone.
LEMMA QuietChain ==
  ASSUME UNCHANGED vars
  PROVE  NoNewCheckpoint
  BY DEF vars, NoNewCheckpoint, Live

\* Nothing is asked of a client without a command.
LEMMA IdleFact == SessionFact(Idle) /\ SessionFact(Idle)'
  BY DEF Idle, SessionFact

\* A step that leaves the chain and state.json alone: what it found out is
\* still true when it is done.
LEMMA QuietFollows ==
  ASSUME TypedInv, TypedInv', Grows, ChainInv, UNCHANGED <<vars, stateFile, attested, recorded>>,
         NEW c \in Clients, NEW v, Goto(c, v), SessionFact(v)
  PROVE  ChainInv'
<1>1. session'[c] = v
  BY GotoEffect DEF TypedInv, LocalInv, SessionsOK
<1>2. Shape(v)
  BY <1>1 DEF TypedInv, LocalInv, SessionsOK, LocalFact
<1>3. SessionFact(v)'
  BY <1>2, SessionKept
<1>4. NoNewCheckpoint
  BY QuietChain
<1> QED
  BY <1>3, <1>4, ChainFollows

(***************************************************************************)
(* create, fork, retire, grant, revoke                                     *)
(***************************************************************************)
\* A new Machine has no entries.
LEMMA NewMachineQuiet ==
  ASSUME NEW id, id \notin Live, Live' = Live \cup {id}, \A x \in Live : log'[x] = log[x],
         log'[id] = <<>>
  PROVE  NoNewCheckpoint
  BY DEF NoNewCheckpoint

\* An entry that is no checkpoint adds no checkpoint.
LEMMA HeadEntryQuiet ==
  ASSUME TypeOK, NEW m \in Live, NEW type \in EntryTypes \ {Checkpoint}, NEW p \in AllPayloads,
         append_head_entry(Operator, m, type, p)
  PROVE  NoNewCheckpoint
<1>1. PICK r \in MachineRecords, e \in Events : ChainedStep(m, r, e) /\ e.type = type
  BY ClientAssumption, HeadEntryStep
<1>2. ExtendEffect(m, r, e)
  BY <1>1, ExtendFrame
<1>3. ~IsCheckpoint(e)
  BY <1>1 DEF IsCheckpoint
<1> QED
  BY <1>2, <1>3 DEF ExtendEffect, NoNewCheckpoint

\* create and fork know the policy of the Machine they just made.
LEMMA ChainNewMachine ==
  ASSUME TypedInv, TypedInv', Grows, ChainInv, NEW c \in Clients,
         \/ \E m \in ObjectIds, p \in PolicyIds : createShareableMachine(c, m, p)
         \/ \E m \in Live, child \in ObjectIds : executeForMachine(c, m, child)
  PROVE  ChainInv'
<1>1. ASSUME NEW id, NEW p, NoNewCheckpoint, id \in Live', p = PolicyOnChain(id)',
             NEW command, Issue(c, command, [at |-> "record", machine |-> id, policy |-> p]),
             UNCHANGED <<stateFile, attested, recorded>>
      PROVE  ChainInv'
  <2>1. PICK v : v = [at |-> "record", machine |-> id, policy |-> p]
    OBVIOUS
  <2>2. v.at = "record" /\ v.machine = id /\ v.policy = p
    BY <2>1
  <2>3. SessionFact(v)'
    BY <1>1, <2>2 DEF SessionFact
  <2>4. Goto(c, v)
    BY <1>1, <2>1 DEF Issue
  <2> QED
    BY <1>1, <2>3, <2>4, ChainFollows
<1>2. CASE \E m \in ObjectIds, p \in PolicyIds : createShareableMachine(c, m, p)
  <2>1. PICK m \in ObjectIds, p \in PolicyIds : createShareableMachine(c, m, p)
    BY <1>2
  <2>2. /\ Issue(c, "create", [at |-> "record", machine |-> m, policy |-> p])
        /\ p # PackageId /\ Create(Operator, m, p) /\ UNCHANGED <<stateFile, attested, recorded>>
    BY <2>1 DEF createShareableMachine, attestVars
  <2>3. CreateEffect(m)
    BY <2>2, CreateFrame, ClientAssumption DEF TypedInv
  <2>4. machines'[m].policy = p
    BY <2>2 DEF Create, With
  <2>5. m \in Live' /\ p = PolicyOnChain(m)'
    BY <2>2, <2>3, <2>4 DEF CreateEffect, PolicyOnChain
  <2>6. NoNewCheckpoint
    BY <2>3, NewMachineQuiet DEF CreateEffect
  <2> QED
    BY <1>1, <2>2, <2>5, <2>6
<1>3. CASE \E m \in Live, child \in ObjectIds : executeForMachine(c, m, child)
  <2>1. PICK m \in Live, child \in ObjectIds : executeForMachine(c, m, child)
    BY <1>3
  <2>2. /\ Issue(c, "fork", [at |-> "record", machine |-> child, policy |-> NoPolicy])
        /\ fork(Operator, m, child, PackageId) /\ UNCHANGED <<stateFile, attested, recorded>>
    BY <2>1 DEF executeForMachine, attestVars
  <2>3. ForkEffect(m, child)
    BY <2>2, ForkFrame, ClientAssumption DEF TypedInv
  <2>4. machines'[child].policy = PackageId
    BY <2>2 DEF fork, With, ForkChild
  <2>5. child \in Live' /\ NoPolicy = PolicyOnChain(child)'
    BY <2>3, <2>4 DEF ForkEffect, PolicyOnChain
  <2>6. NoNewCheckpoint
    <3>1. /\ child \notin Live /\ Live' = Live \cup {child}
          /\ log'[child] = <<>> /\ \A x \in Live : log'[x] = log[x]
      BY <2>3 DEF ForkEffect
    <3> QED
      BY <3>1, NewMachineQuiet
  <2> QED
    BY <1>1, <2>2, <2>5, <2>6
<1> QED
  BY <1>2, <1>3

\* retire, grant and revoke add entries that anchor nothing.
LEMMA ChainHeadEntry ==
  ASSUME TypedInv, TypedInv', Grows, ChainInv, NEW c \in Clients,
         \/ \E m \in Live : retireMachine(c, m)
         \/ \E m \in Live, g \in AccessPayloads : grantAccess(c, m, g) \/ revokeAccess(c, m, g)
  PROVE  ChainInv'
<1>1. (\E command : Issue(c, command, Idle)) /\ UNCHANGED <<stateFile, attested, recorded>>
  BY DEF retireMachine, grantAccess, revokeAccess, attestVars
<1>2. Goto(c, Idle) /\ SessionFact(Idle)'
  BY <1>1, IdleFact DEF Issue
<1>3. \E m \in Live : \/ retire(Operator, m)
                      \/ \E g \in AccessPayloads : \/ register_grant(Operator, m, g)
                                                   \/ register_revoke(Operator, m, g)
  BY DEF retireMachine, grantAccess, revokeAccess, attestVars
<1>4. {Grant, Revoke, Retire} \subseteq EntryTypes \ {Checkpoint}
  BY DEF EntryTypes, Grant, Revoke, Retire, Checkpoint
<1>5. \E m \in Live, type \in EntryTypes \ {Checkpoint}, p \in AllPayloads :
        append_head_entry(Operator, m, type, p)
  <2>1. CASE \E m \in Live : retire(Operator, m)
    <3>1. PICK m \in Live : retire(Operator, m)
      BY <2>1
    <3>2. machines[m].owner \in Addresses
      BY DEF TypedInv, TypeOK, MachineRecords
    <3>3. OwnerPayload(machines[m].owner) \in AllPayloads
      BY <3>2 DEF AllPayloads
    <3> QED
      BY <1>4, <3>1, <3>3 DEF retire
  <2>2. CASE \E m \in Live, g \in AccessPayloads : \/ register_grant(Operator, m, g)
                                                   \/ register_revoke(Operator, m, g)
    <3>1. AccessPayloads \subseteq AllPayloads
      BY DEF AllPayloads
    <3> QED
      BY <1>4, <2>2, <3>1 DEF register_grant, register_revoke
  <2> QED
    BY <1>3, <2>1, <2>2
<1>6. NoNewCheckpoint
  BY <1>5, HeadEntryQuiet DEF TypedInv
<1> QED
  BY <1>1, <1>2, <1>6, ChainFollows

(***************************************************************************)
(* state.json, run and the enclave                                         *)
(***************************************************************************)
\* recordMachine writes back what it read and the Machine it was told of.
LEMMA ChainRecord ==
  ASSUME TypedInv, TypedInv', Grows, ChainInv, NEW c \in Clients,
         RecordRead(c) \/ RecordTruncate(c) \/ RecordFlush(c)
  PROVE  ChainInv'
<1>0. PICK s : s = session[c] /\ SessionFact(s) /\ Shape(s)
  BY DEF ChainInv, TypedInv, LocalInv, SessionsOK, LocalFact
<1>1. UNCHANGED <<vars, attested, recorded>> /\ EntriesOK' /\ AttestationsOK'
  <2>1. UNCHANGED <<vars, attested, recorded>>
    BY DEF RecordRead, RecordTruncate, RecordFlush, attestVars
  <2> QED
    BY <2>1, QuietChain, EntriesFollow, AttestedFollow DEF ChainInv
<1>2. CASE RecordRead(c)
  <2>1. PICK f, v : /\ f = StateWith(read, s.machine, s.policy)
                    /\ v = [at |-> "truncate", file |-> f]
    OBVIOUS
  <2>2. s.at = "record" /\ Goto(c, v) /\ UNCHANGED stateFile
    BY <1>0, <1>2, <2>1 DEF RecordRead, Step, At
  <2>3. v.at = "truncate" /\ v.file = f
    BY <2>1
  <2>4. s.machine \in Live /\ s.policy = PolicyOnChain(s.machine)
    BY <1>0, <2>2 DEF SessionFact
  <2>5. FileFact(f)
    BY <2>1, <2>4 DEF StateWith, With, FileFact, ChainInv
  <2>6. SessionFact(v)
    BY <2>3, <2>5 DEF SessionFact
  <2> QED
    BY <1>1, <2>2, <2>6, QuietFollows
<1>3. CASE RecordTruncate(c)
  <2>1. PICK v : v = [s EXCEPT !.at = "flush"]
    OBVIOUS
  <2>2. s.at = "truncate" /\ Goto(c, v) /\ stateFile' = Torn
    BY <1>0, <1>3, <2>1 DEF RecordTruncate, Step, At
  <2>3. v.at = "flush" /\ v.file = s.file /\ v \in Writing /\ FileFact(s.file)
    BY <1>0, <2>1, <2>2 DEF Shape, Writing, SessionFact
  <2>4. SessionFact(v) /\ Shape(v)
    BY <2>3 DEF SessionFact, Shape
  <2>5. SessionFact(v)'
    BY <2>4, SessionKept
  <2>6. \A d \in Clients : SessionFact(session[d])'
    BY <2>2, <2>5, SessionsFollow
  <2>7. FileFact(read)'
    BY <2>2 DEF read, FileFact
  <2> QED
    BY <1>1, <2>6, <2>7 DEF ChainInv
<1>4. CASE RecordFlush(c)
  <2>1. s.at = "flush" /\ Goto(c, Idle) /\ stateFile' \in {s.file, Torn}
    BY <1>0, <1>4 DEF RecordFlush, Step, At, Overwritten
  <2>2. PICK f : f = s.file /\ FileFact(f)
    BY <1>0, <2>1 DEF SessionFact
  <2>3. FileFact(f)'
    BY <2>2, FileKept
  <2>4. FileFact(read)'
    BY <2>1, <2>2, <2>3 DEF read, FileFact
  <2>5. \A d \in Clients : SessionFact(session[d])'
    BY <2>1, IdleFact, SessionsFollow
  <2> QED
    BY <1>1, <2>4, <2>5 DEF ChainInv
<1> QED
  BY <1>2, <1>3, <1>4

\* run and restore touch nothing these facts are about but the directory.
LEMMA ChainRun ==
  ASSUME TypedInv, TypedInv', Grows, ChainInv, NEW c \in Clients,
         \/ (\E m \in Live : engineRun(c, m)) \/ Exec(c) \/ LogTruncate(c) \/ LogFlush(c)
         \/ (\E m \in Live : BeginRestore(c, m)) \/ Fetch(c) \/ Unpack(c)
  PROVE  ChainInv'
<1>0. PICK s : s = session[c] /\ Shape(s)
  BY DEF TypedInv, LocalInv, SessionsOK, LocalFact
<1>1. ASSUME NEW v, v.at \in {"exec", "log-truncate", "log-flush", "fetch", "unpack"}
      PROVE  SessionFact(v)
  BY <1>1 DEF SessionFact
<1>2. UNCHANGED <<vars, stateFile, attested, recorded>>
  BY DEF engineRun, Exec, LogTruncate, LogFlush, BeginRestore, Fetch, Unpack, attestVars
<1>3. CASE \E m \in Live : engineRun(c, m)
  <2>1. PICK v : v.at = "exec" /\ Goto(c, v)
    BY <1>3 DEF engineRun, Issue
  <2> QED
    BY <1>1, <1>2, <2>1, QuietFollows
<1>4. CASE Exec(c)
  <2>1. PICK v : v.at = "log-truncate" /\ Goto(c, v)
    BY <1>4 DEF Exec, Executed, Step
  <2> QED
    BY <1>1, <1>2, <2>1, QuietFollows
<1>5. CASE LogTruncate(c)
  <2>1. PICK v : v = [s EXCEPT !.at = "log-flush"]
    OBVIOUS
  <2>2. s.at = "log-truncate" /\ Goto(c, v)
    BY <1>0, <1>5, <2>1 DEF LogTruncate, Step, At
  <2>3. v.at = "log-flush"
    BY <1>0, <2>1, <2>2 DEF Shape, Logging
  <2> QED
    BY <1>1, <1>2, <2>2, <2>3, QuietFollows
<1>6. CASE LogFlush(c)
  <2>1. Goto(c, Idle)
    BY <1>6 DEF LogFlush, Step
  <2> QED
    BY <1>2, <2>1, IdleFact, QuietFollows
<1>7. CASE \E m \in Live : BeginRestore(c, m)
  <2>1. PICK v : v.at = "fetch" /\ Goto(c, v)
    BY <1>7 DEF BeginRestore, Issue
  <2> QED
    BY <1>1, <1>2, <2>1, QuietFollows
<1>8. CASE Fetch(c) \/ Unpack(c)
  <2>1. \A m, d, left : Unpacking(m, d, left) = Idle \/ Unpacking(m, d, left).at = "unpack"
    BY DEF Unpacking
  <2>2. PICK v : (v = Idle \/ v.at = "unpack") /\ Goto(c, v)
    BY <1>8, <2>1 DEF Fetch, Unpack, Step
  <2> QED
    BY <1>1, <1>2, <2>2, IdleFact, QuietFollows
<1> QED
  BY <1>3, <1>4, <1>5, <1>6, <1>7, <1>8

\* A command that ends without leaving anything.
LEMMA ChainEnd ==
  ASSUME TypedInv, TypedInv', Grows, ChainInv, NEW c \in Clients, registerEnclave(c) \/ Abort(c)
  PROVE  ChainInv'
<1>1. Goto(c, Idle) /\ UNCHANGED <<vars, stateFile, attested, recorded>>
  BY DEF registerEnclave, Abort, Issue, attestVars
<1> QED
  BY <1>1, IdleFact, QuietFollows

(***************************************************************************)
(* checkpoint                                                              *)
(***************************************************************************)
\* A checkpoint starts with the policy of the Machine.
LEMMA ChainBegin ==
  ASSUME TypedInv, TypedInv', Grows, ChainInv, NEW c \in Clients, NEW m \in Live,
         NEW attest \in BOOLEAN, BeginCheckpoint(c, m, attest)
  PROVE  ChainInv'
<1>1. PICK v : v = [at |-> "check", machine |-> m, policy |-> read[m], attest |-> attest,
                    since |-> Len(log[m])]
  OBVIOUS
<1>2. m \in Known /\ Goto(c, v) /\ UNCHANGED <<vars, stateFile, attested, recorded>>
  BY <1>1 DEF BeginCheckpoint, Issue, attestVars
<1>3. v.at = "check" /\ v.machine = m /\ v.policy = read[m] /\ v.since = Len(log[m])
  BY <1>1
<1>4. read[m] = PolicyOnChain(m) /\ Len(log[m]) <= Len(log[m])
  BY <1>2 DEF ChainInv, FileFact, Known, Grows, ChainGrows
<1>5. SessionFact(v)
  BY <1>3, <1>4 DEF SessionFact
<1> QED
  BY <1>2, <1>5, QuietFollows

\* The retirement check finds a RETIRE entry that was there when the command
\* started, unless it fails open.
LEMMA ChainCheck ==
  ASSUME TypedInv, TypedInv', Grows, ChainInv, NEW c \in Clients,
         CheckRetired(c) \/ CheckRetiredFailsOpen(c)
  PROVE  ChainInv'
<1>0. PICK s : s = session[c] /\ SessionFact(s) /\ Shape(s)
  BY DEF ChainInv, TypedInv, LocalInv, SessionsOK, LocalFact
<1>1. UNCHANGED <<vars, stateFile, attested, recorded>> /\ s.at = "check"
  BY <1>0 DEF CheckRetired, CheckRetiredFailsOpen, Step, At, attestVars
<1>2. /\ s.machine \in Live /\ s.policy = PolicyOnChain(s.machine)
      /\ s.since \in Nat /\ s.since <= Len(log[s.machine]) /\ Len(log[s.machine]) \in Nat
  BY <1>0, <1>1 DEF SessionFact, Shape, Checking, Grows, ChainGrows
<1>3. ASSUME NEW blind, blind \/ ~isRetired(s.machine), Goto(c, Captures(s, blind))
      PROVE  ChainInv'
  <2>1. PICK v : v = Captures(s, blind)
    OBVIOUS
  <2>2. /\ v.at = "capture" /\ v.machine = s.machine /\ v.policy = s.policy
        /\ v.since = s.since /\ v.blind = blind
    BY <2>1 DEF Captures
  <2>3. blind \/ Unretired(s.machine, s.since)
    BY <1>2, <1>3 DEF isRetired, Unretired
  <2>4. SessionFact(v)
    BY <1>2, <2>2, <2>3 DEF SessionFact
  <2> QED
    BY <1>1, <1>3, <2>1, <2>4, QuietFollows
<1>4. CASE CheckRetired(c)
  <2>1. CASE isRetired(s.machine)
    <3>1. Goto(c, Idle)
      BY <1>0, <1>4, <2>1 DEF CheckRetired, Step, Declines
    <3> QED
      BY <1>1, <3>1, IdleFact, QuietFollows
  <2>2. CASE ~isRetired(s.machine)
    <3>1. Goto(c, Captures(s, FALSE))
      BY <1>0, <1>4, <2>2 DEF CheckRetired, Step, Declines
    <3> QED
      BY <1>3, <2>2, <3>1
  <2> QED
    BY <2>1, <2>2
<1>5. CASE CheckRetiredFailsOpen(c)
  <2>1. Goto(c, Captures(s, isRetired(s.machine)))
    BY <1>0, <1>5 DEF CheckRetiredFailsOpen, Step
  <2> QED
    BY <1>3, <2>1
<1> QED
  BY <1>4, <1>5

\* A snapshot of the directory is behind none that was anchored before.
LEMMA ChainCapture ==
  ASSUME TypedInv, TypedInv', Grows, ChainInv, NEW c \in Clients, Capture(c)
  PROVE  ChainInv'
<1>0. PICK s : s = session[c] /\ SessionFact(s) /\ Shape(s)
  BY DEF ChainInv, TypedInv, LocalInv, SessionsOK, LocalFact
<1>1. PICK m, d, b : /\ m = s.machine /\ d = workdir[m]
                     /\ b = [dir |-> d, sealedFor |-> <<s.policy, m>>]
  OBVIOUS
<1>2. PICK v : v = [at |-> "load-log", machine |-> m, attest |-> s.attest, since |-> s.since,
                    blind |-> s.blind, manifest |-> d, blob |-> b]
  OBVIOUS
<1>3. s.at = "capture" /\ Goto(c, v) /\ UNCHANGED <<vars, stateFile, attested, recorded>>
  BY <1>0, <1>1, <1>2 DEF Capture, Captured, Step, At, attestVars
<1>4. /\ m \in Live /\ s.policy = PolicyOnChain(m) /\ s.since \in Nat
      /\ s.since <= Len(log[m]) /\ (s.blind \/ Unretired(m, s.since))
      /\ Len(log[m]) \in Nat
  BY <1>0, <1>1, <1>3 DEF SessionFact, Shape, Capturing, Grows, ChainGrows
<1>5. d \in Directories /\ Seen(m, d) /\ NotBehind(m, d, workdir[m])
  <2>1. d \in Directories /\ Seen(m, d)
    BY <1>1, <1>4 DEF TypedInv, TypeOK, LocalInv, DirsOK
  <2> QED
    BY <1>1, <2>1, NotBehindItself
<1>6. SnapshotFact(m, b, d)
  BY <1>1, <1>4, <1>5 DEF SnapshotFact
<1>7. Covers(d, m, s.since)
  <2> SUFFICES ASSUME NEW i \in 1..s.since, IsCheckpoint(log[m][i])
               PROVE  NotBehind(m, log[m][i].manifest, d)
    BY DEF Covers
  <2>1. EntryFact(m, log[m][i])
    BY <1>4 DEF ChainInv, EntriesOK
  <2> QED
    BY <1>1, <2>1 DEF EntryFact, SnapshotFact
<1>8. /\ v.at = "load-log" /\ v.machine = m /\ v.since = s.since /\ v.blind = s.blind
      /\ v.manifest = d /\ v.blob = b
  BY <1>2
<1>9. SessionFact(v)
  BY <1>4, <1>6, <1>7, <1>8 DEF SessionFact
<1> QED
  BY <1>3, <1>9, QuietFollows

\* Loading the log changes nothing about the snapshot.
LEMMA ChainLoadLog ==
  ASSUME TypedInv, TypedInv', Grows, ChainInv, NEW c \in Clients, LoadLog(c)
  PROVE  ChainInv'
<1>0. PICK s : s = session[c] /\ SessionFact(s) /\ Shape(s)
  BY DEF ChainInv, TypedInv, LocalInv, SessionsOK, LocalFact
<1>1. UNCHANGED <<vars, stateFile, attested, recorded>> /\ s.at = "load-log"
  BY <1>0 DEF LoadLog, Step, At, attestVars
<1>2. CASE cmdlog[s.machine] = Torn
  <2>1. Goto(c, Idle)
    BY <1>0, <1>2 DEF LoadLog, Step
  <2> QED
    BY <1>1, <2>1, IdleFact, QuietFollows
<1>3. CASE cmdlog[s.machine] # Torn
  <2>1. PICK v : v = [at |-> "store", machine |-> s.machine, attest |-> s.attest,
                      since |-> s.since, blind |-> s.blind, manifest |-> s.manifest,
                      blob |-> s.blob, payload |-> cmdlog[s.machine]]
    OBVIOUS
  <2>2. Goto(c, v)
    BY <1>0, <1>3, <2>1 DEF LoadLog, Step
  <2>3. /\ v.at = "store" /\ v.machine = s.machine /\ v.since = s.since /\ v.blind = s.blind
        /\ v.manifest = s.manifest /\ v.blob = s.blob
    BY <2>1
  <2>4. SessionFact(v)
    BY <1>0, <1>1, <2>3 DEF SessionFact
  <2> QED
    BY <1>1, <2>2, <2>4, QuietFollows
<1> QED
  BY <1>2, <1>3

\* The transaction is only built once the blob is stored.
LEMMA ChainStore ==
  ASSUME TypedInv, TypedInv', Grows, ChainInv, NEW c \in Clients, Store(c)
  PROVE  ChainInv'
<1>0. PICK s : s = session[c] /\ SessionFact(s) /\ Shape(s)
  BY DEF ChainInv, TypedInv, LocalInv, SessionsOK, LocalFact
<1>1. PICK v : v = [s EXCEPT !.at = "anchor"]
  OBVIOUS
<1>2. /\ s.at = "store" /\ Goto(c, v) /\ UNCHANGED <<vars, stateFile, attested, recorded>>
      /\ s.blob \in stored'
  BY <1>0, <1>1 DEF Store, Step, At, Stored, attestVars
<1>3. /\ v.at = "anchor" /\ v.machine = s.machine /\ v.since = s.since /\ v.blind = s.blind
      /\ v.manifest = s.manifest /\ v.blob = s.blob
  BY <1>0, <1>1, <1>2 DEF Shape, Anchoring
<1>4. SessionFact(s)'
  BY <1>0, SessionKept
<1>5. SessionFact(v)'
  BY <1>2, <1>3, <1>4 DEF SessionFact
<1>6. NoNewCheckpoint
  BY <1>2, QuietChain
<1> QED
  BY <1>2, <1>5, <1>6, ChainFollows

\* What an attestation of the snapshot needs is there before the transaction.
LEMMA AnchorReady ==
  ASSUME NEW s, s.at = "anchor", SessionFact(s)
  PROVE  /\ s.machine \in Live /\ s.blob \in stored /\ SnapshotStored(s.machine, s.manifest)
         /\ SnapshotFact(s.machine, s.blob, s.manifest)
<1>1. /\ s.machine \in Live /\ s.blob \in stored
      /\ SnapshotFact(s.machine, s.blob, s.manifest)
  BY DEF SessionFact
<1>2. s.blob.dir = s.manifest /\ s.blob.sealedFor[2] = s.machine
  BY <1>1 DEF SnapshotFact
<1> QED
  BY <1>1, <1>2 DEF SnapshotStored

\* The checkpoint that is anchored is the one that was stored, whether its
\* command goes on or not.
LEMMA ChainAnchor ==
  ASSUME TypedInv, TypedInv', Grows, ChainInv, NEW c \in Clients, Anchor(c)
  PROVE  ChainInv'
<1>0. PICK s : s = session[c] /\ SessionFact(s) /\ LocalFact(s) /\ Shape(s)
  BY DEF ChainInv, TypedInv, LocalInv, SessionsOK, LocalFact
<1>1. PICK v : v = [at |-> "read-back", machine |-> s.machine, manifest |-> s.manifest]
  OBVIOUS
<1>2. /\ s.at = "anchor" /\ \E w \in {Idle, v} : Goto(c, w)
      /\ register_checkpoint(Operator, s.machine, s.blob, s.manifest, s.payload)
      /\ UNCHANGED <<stateFile, dirVars, attested, recorded, stored>>
  BY <1>0, <1>1 DEF Anchor, Step, At, attestVars
<1>3. /\ s.machine \in Live /\ s.blob \in stored /\ SnapshotStored(s.machine, s.manifest)
      /\ SnapshotFact(s.machine, s.blob, s.manifest)
  BY <1>0, <1>2, AnchorReady
<1>4. PICK m \in Live : m = s.machine
  BY <1>3
<1>5. s \in Anchoring /\ Listed(m, s.payload)
  BY <1>0, <1>2, <1>4 DEF LocalFact, Shape
<1>6. s.blob \in Blobs /\ s.manifest \in Manifests /\ s.payload \in Payloads
  BY <1>5, AnchorsAssumption DEF Anchoring
<1>7. PICK r \in MachineRecords, e \in Events :
        /\ ChainedStep(m, r, e)
        /\ e.blob = s.blob /\ e.manifest = s.manifest /\ e.payload = s.payload
  BY <1>2, <1>4, <1>6, CheckpointStep, ClientAssumption DEF TypedInv
<1>8. ExtendEffect(m, r, e)
  BY <1>7, ExtendFrame DEF TypedInv
<1>9. EntryFact(m, e)
  BY <1>3, <1>4, <1>5, <1>7 DEF EntryFact
<1>10. EntryFact(m, e)'
  BY <1>9, EntryKept
<1>11. EntriesOK'
  <2> SUFFICES ASSUME NEW x \in Live', NEW i \in 1..Len(log'[x]), IsCheckpoint(log'[x][i])
               PROVE  EntryFact(x, log[x][i])'
    BY DEF EntriesOK
  <2>1. PICK f : f = log'[x][i]
    OBVIOUS
  <2>2. x \in Live /\ ((x = m /\ f = e) \/ (i \in 1..Len(log[x]) /\ f = log[x][i]))
    BY <1>8, <2>1 DEF ExtendEffect
  <2>3. EntryFact(x, f)'
    BY <1>10, <2>1, <2>2, EntryKept DEF ChainInv, EntriesOK
  <2> QED
    BY <2>1, <2>3
<1>12. SessionFact(v)'
  <2>1. v.at = "read-back" /\ v.machine = s.machine /\ v.manifest = s.manifest
    BY <1>1
  <2>2. s.machine \in Live' /\ SnapshotStored(s.machine, s.manifest)'
    BY <1>3, PolicyKept, StoredKept
  <2> QED
    BY <2>1, <2>2 DEF SessionFact
<1>13. \A d \in Clients : SessionFact(session[d])'
  BY <1>2, <1>12, IdleFact, SessionsFollow
<1>14. FileFact(read)' /\ AttestationsOK'
  BY <1>2, ReadFollows, AttestedFollow DEF ChainInv
<1> QED
  BY <1>11, <1>13, <1>14 DEF ChainInv

\* A transaction that failed leaves a command that knows no more than before.
LEMMA ChainAnchorFails ==
  ASSUME TypedInv, TypedInv', Grows, ChainInv, NEW c \in Clients, AnchorFails(c)
  PROVE  ChainInv'
<1>0. PICK s : s = session[c] /\ SessionFact(s)
  BY DEF ChainInv
<1>1. PICK v : v = [at |-> "read-back", machine |-> s.machine, manifest |-> s.manifest]
  OBVIOUS
<1>2. s.at = "anchor" /\ Goto(c, v) /\ UNCHANGED <<vars, stateFile, attested, recorded>>
  BY <1>0, <1>1 DEF AnchorFails, Step, At, attestVars
<1>3. v.at = "read-back" /\ v.machine = s.machine /\ v.manifest = s.manifest
  BY <1>1
<1>4. SessionFact(v)
  BY <1>0, <1>2, <1>3, AnchorReady DEF SessionFact
<1> QED
  BY <1>2, <1>4, QuietFollows

\* The sequence that is read back is one the Machine has reached.
LEMMA ChainReadBack ==
  ASSUME TypedInv, TypedInv', Grows, ChainInv, NEW c \in Clients, ReadBack(c)
  PROVE  ChainInv'
<1>0. PICK s : s = session[c] /\ SessionFact(s)
  BY DEF ChainInv
<1>1. PICK seq : seq = machines[s.machine].count - 1
  OBVIOUS
<1>2. UNCHANGED <<vars, stateFile, attested, recorded>> /\ s.at = "read-back"
  BY <1>0 DEF ReadBack, Step, At, attestVars
<1>3. s.machine \in Live /\ SnapshotStored(s.machine, s.manifest)
  BY <1>0, <1>2 DEF SessionFact
<1>4. seq \in Int /\ seq < machines[s.machine].count
  BY <1>1, <1>3 DEF Grows, ChainGrows
<1>5. CASE seq < 0
  <2>1. Goto(c, Idle)
    BY <1>0, <1>1, <1>5 DEF ReadBack, SeqReadBack, Step
  <2> QED
    BY <1>2, <2>1, IdleFact, QuietFollows
<1>6. CASE ~(seq < 0)
  <2>1. PICK v : v = [at |-> "attest", machine |-> s.machine, manifest |-> s.manifest,
                      seq |-> seq]
    OBVIOUS
  <2>2. Goto(c, v)
    BY <1>0, <1>1, <1>6, <2>1 DEF ReadBack, SeqReadBack, Step
  <2>3. /\ v.at = "attest" /\ v.machine = s.machine /\ v.manifest = s.manifest /\ v.seq = seq
        /\ 0 <= seq
    BY <1>4, <1>6, <2>1
  <2>4. SessionFact(v)
    BY <1>3, <1>4, <2>3 DEF SessionFact
  <2> QED
    BY <1>2, <2>2, <2>4, QuietFollows
<1> QED
  BY <1>5, <1>6

\* The attestation is of what the command read back.
LEMMA ChainAttest ==
  ASSUME TypedInv, TypedInv', Grows, ChainInv, NEW c \in Clients, Attest(c)
  PROVE  ChainInv'
<1>0. PICK s : s = session[c] /\ SessionFact(s)
  BY DEF ChainInv
<1>1. PICK config, a :
        /\ config \in enclaves /\ a = Attestation(s.machine, s.seq, s.manifest, config)
        /\ s.at = "attest" /\ Goto(c, Idle) /\ UNCHANGED <<vars, stateFile>>
        /\ attested' = attested \cup {a} /\ recorded' = recorded \cup {a}
  BY <1>0 DEF Attest, register_attested_command, Step, At
<1>2. /\ s.machine \in Live /\ SnapshotStored(s.machine, s.manifest)
      /\ s.seq \in Int /\ 0 <= s.seq /\ s.seq < machines[s.machine].count
  BY <1>0, <1>1 DEF SessionFact
<1>3. /\ a.machine = s.machine /\ a.seq = s.seq /\ a.manifest = s.manifest /\ a.config = config
  BY <1>1 DEF Attestation
<1>4. AttestedFact(a)
  BY <1>2, <1>3 DEF AttestedFact
<1>5. \A r \in recorded' : AttestedFact(r)'
  BY <1>1, <1>4, AttestedKept DEF ChainInv, AttestationsOK
<1>6. \A r \in attested' : r.config \in enclaves'
  BY <1>1, <1>3 DEF ChainInv, AttestationsOK, Grows
<1>7. FileFact(read)' /\ EntriesOK'
  BY <1>1, QuietChain, ReadFollows, EntriesFollow DEF ChainInv
<1>8. \A d \in Clients : SessionFact(session[d])'
  BY <1>1, IdleFact, SessionsFollow
<1> QED
  BY <1>5, <1>6, <1>7, <1>8 DEF ChainInv, AttestationsOK

\* Others need a registered key, and nothing else.
LEMMA OthersAttest ==
  ASSUME Grows, AttestationsOK, Environment \/ UNCHANGED clientVars
  PROVE  AttestationsOK'
<1>1. CASE UNCHANGED <<attested, recorded>>
  BY <1>1, AttestedFollow
<1>2. ASSUME NEW k \in Enclaves, NEW m \in ObjectIds, NEW claim \in Claims,
             OthersRecord(k, m, claim)
      PROVE  AttestationsOK'
  <2>1. PICK a : /\ a = Attestation(m, claim.seq, claim.manifest, k)
                 /\ k \in enclaves /\ attested' = attested \cup {a} /\ recorded' = recorded
    BY <1>2 DEF OthersRecord, register_attested_command
  <2>2. a.config = k
    BY <2>1 DEF Attestation
  <2>3. \A r \in attested' : r.config \in enclaves'
    BY <2>1, <2>2 DEF AttestationsOK, Grows
  <2>4. \A r \in recorded' : AttestedFact(r)'
    BY <2>1, AttestedKept DEF AttestationsOK
  <2> QED
    BY <2>3, <2>4 DEF AttestationsOK
<1>3. CASE (\E k \in Enclaves : RestartEnclave(k) \/ OthersRegister(k)) \/ UNCHANGED clientVars
  BY <1>1, <1>3 DEF RestartEnclave, OthersRegister, clientVars, localVars, attestVars
<1> QED
  BY <1>2, <1>3 DEF Environment

(***************************************************************************)
(* The invariant                                                           *)
(***************************************************************************)
\* Every step keeps files, Walrus and chain together.
LEMMA ChainStep ==
  ASSUME TypedInv, TypedInv', ChainInv, [ClientNext]_clientVars
  PROVE  ChainInv'
<1>0. Grows
  BY ClientGrows
<1>1. ASSUME NEW c \in Clients, ClientStep(c)
      PROVE  ChainInv'
  <2>1. CASE \/ \E m \in ObjectIds, p \in PolicyIds : createShareableMachine(c, m, p)
             \/ \E m \in Live, child \in ObjectIds : executeForMachine(c, m, child)
    BY <1>0, <2>1, ChainNewMachine
  <2>2. CASE \/ \E m \in Live : retireMachine(c, m)
             \/ \E m \in Live, g \in AccessPayloads : grantAccess(c, m, g) \/ revokeAccess(c, m, g)
    BY <1>0, <2>2, ChainHeadEntry
  <2>3. CASE \/ (\E m \in Live : engineRun(c, m)) \/ Exec(c) \/ LogTruncate(c) \/ LogFlush(c)
             \/ (\E m \in Live : BeginRestore(c, m)) \/ Fetch(c) \/ Unpack(c)
    BY <1>0, <2>3, ChainRun
  <2>4. CASE RecordRead(c) \/ RecordTruncate(c) \/ RecordFlush(c)
    BY <1>0, <2>4, ChainRecord
  <2>5. CASE \E m \in Live, attest \in BOOLEAN : BeginCheckpoint(c, m, attest)
    BY <1>0, <2>5, ChainBegin
  <2>6. CASE CheckRetired(c) \/ CheckRetiredFailsOpen(c)
    BY <1>0, <2>6, ChainCheck
  <2>7. CASE Capture(c) \/ LoadLog(c) \/ Store(c)
    BY <1>0, <2>7, ChainCapture, ChainLoadLog, ChainStore
  <2>8. CASE Anchor(c) \/ AnchorFails(c)
    BY <1>0, <2>8, ChainAnchor, ChainAnchorFails
  <2>9. CASE ReadBack(c) \/ Attest(c)
    BY <1>0, <2>9, ChainReadBack, ChainAttest
  <2>10. CASE registerEnclave(c) \/ Abort(c)
    BY <1>0, <2>10, ChainEnd
  <2> QED
    BY <1>1, <2>1, <2>2, <2>3, <2>4, <2>5, <2>6, <2>7, <2>8, <2>9, <2>10
       DEF ClientStep, registerCreate, reeg_create, registerFork, reeg_fork, registerRetire,
           reeg_retire, registerGrant, reeg_share, registerRevoke, reeg_revoke, registerRun,
           reeg_run, registerCheckpoint, reeg_checkpoint, registerRestore, reeg_restore
<1>2. ASSUME UNCHANGED <<vars, stateFile, session>>, AttestationsOK'
      PROVE  ChainInv'
  <2>1. FileFact(read)' /\ EntriesOK'
    BY <1>0, <1>2, QuietChain, ReadFollows, EntriesFollow DEF ChainInv
  <2>2. ASSUME NEW d \in Clients PROVE SessionFact(session[d])'
    <3>1. PICK s : s = session[d] /\ s = session'[d]
      BY <1>2
    <3>2. SessionFact(s) /\ Shape(s)
      BY <3>1 DEF ChainInv, TypedInv, LocalInv, SessionsOK, LocalFact
    <3>3. SessionFact(s)'
      BY <1>0, <3>2, SessionKept
    <3> QED
      BY <3>1, <3>3
  <2> QED
    BY <1>2, <2>1, <2>2 DEF ChainInv
<1>3. CASE Environment \/ UNCHANGED clientVars
  <2>1. UNCHANGED <<vars, stateFile, session>>
    BY <1>3 DEF Environment, RestartEnclave, OthersRegister, OthersRecord, clientVars, localVars
  <2>2. AttestationsOK'
    BY <1>0, <1>3, OthersAttest DEF ChainInv
  <2> QED
    BY <1>2, <2>1, <2>2
<1> QED
  BY <1>1, <1>3 DEF ClientNext

\* The invariant holds in every behaviour of the operator's commands.
LEMMA ClientChained == ClientSpec => []ChainInv
<1>1. ClientInit => ChainInv
  <2> SUFFICES ASSUME ClientInit PROVE ChainInv
    OBVIOUS
  <2>1. Live = {} /\ attested = {} /\ recorded = {}
    BY DEF ClientInit, Init, Live
  <2>2. FileFact(read)
    BY DEF ClientInit, read, FileFact
  <2>3. \A c \in Clients : SessionFact(session[c])
    BY IdleFact DEF ClientInit
  <2> QED
    BY <2>1, <2>2, <2>3 DEF ChainInv, EntriesOK, AttestationsOK
<1>2. TypedInv /\ TypedInv' /\ ChainInv /\ [ClientNext]_clientVars => ChainInv'
  BY ChainStep
<1> QED
  BY <1>1, <1>2, ClientTyped, PTL DEF ClientSpec

\* Every sequence below checkpoint_count is that of a checkpoint on the chain,
\* whoever anchored it.
LEMMA SeqsAnchored == Spec => []EverySeqAnchored
<1>1. Init => EverySeqAnchored
  BY DEF Init, EverySeqAnchored, Live
<1>2. ASSUME TypeOK, EverySeqAnchored, [Next]_vars
      PROVE  EverySeqAnchored'
  <2>0. \A x \in Live : machines[x].count \in Nat /\ Len(log[x]) \in Nat
    BY <1>2 DEF TypeOK, MachineRecords
  <2>1. ASSUME NEW id, Live' = Live \cup {id}, machines'[id].count = 0,
               \A x \in Live : machines'[x] = machines[x] /\ log'[x] = log[x]
        PROVE  EverySeqAnchored'
    BY <1>2, <2>1 DEF EverySeqAnchored
  <2>2. CASE \E s \in Addresses, id \in ObjectIds, p \in PolicyIds : Create(s, id, p)
    BY <1>2, <2>1, <2>2, CreateFrame DEF CreateEffect
  <2>3. CASE \E s \in Addresses, m \in Live, c \in ObjectIds, p \in PolicyIds : fork(s, m, c, p)
    <3>1. PICK s \in Addresses, m \in Live, c \in ObjectIds, p \in PolicyIds : fork(s, m, c, p)
      BY <2>3
    <3>2. ForkEffect(m, c)
      BY <1>2, <3>1, ForkFrame
    <3> QED
      BY <2>1, <3>2 DEF ForkEffect
  <2>4. CASE \E m \in Live, r \in MachineRecords, e \in Events : ChainedStep(m, r, e)
    <3>1. PICK m \in Live, r \in MachineRecords, e \in Events : ChainedStep(m, r, e)
      BY <2>4
    <3>2. ExtendEffect(m, r, e)
      BY <1>2, <3>1, ExtendFrame
    <3>3. /\ e.seq = machines[m].count
          /\ r.count = machines[m].count + (IF IsCheckpoint(e) THEN 1 ELSE 0)
      BY <3>1 DEF ChainedStep
    <3>4. PICK n \in Nat : n = Len(log[m])
      BY <2>0
    <3>5. /\ Live' = Live /\ Len(log'[m]) = n + 1 /\ log'[m][n + 1] = e /\ machines'[m] = r
          /\ \A i \in 1..n : log'[m][i] = log[m][i]
          /\ \A x \in Live \ {m} : machines'[x] = machines[x] /\ log'[x] = log[x]
      BY <3>2, <3>4 DEF ExtendEffect
    <3>6. ASSUME NEW k \in Nat, k < r.count
          PROVE  \E i \in 1..(n + 1) : IsCheckpoint(log'[m][i]) /\ log'[m][i].seq = k
      <4>1. CASE k < machines[m].count
        <5>1. PICK i \in 1..n : IsCheckpoint(log[m][i]) /\ log[m][i].seq = k
          BY <1>2, <3>4, <4>1 DEF EverySeqAnchored
        <5>2. i \in 1..(n + 1) /\ log'[m][i] = log[m][i]
          BY <3>5
        <5> QED
          BY <5>1, <5>2
      <4>2. CASE ~(k < machines[m].count)
        <5>1. IsCheckpoint(e) /\ k = machines[m].count
          BY <2>0, <3>3, <3>6, <4>2
        <5>2. n + 1 \in 1..(n + 1)
          OBVIOUS
        <5> QED
          BY <3>3, <3>5, <5>1, <5>2
      <4> QED
        BY <4>1, <4>2
    <3> QED
      BY <1>2, <3>5, <3>6 DEF EverySeqAnchored
  <2>5. CASE ChainUntouched
    BY <1>2, <2>5 DEF ChainUntouched, EverySeqAnchored, Live
  <2> QED
    BY <1>2, <2>2, <2>3, <2>4, <2>5, StepKinds
<1>3. TypeOK /\ EverySeqAnchored /\ [Next]_vars => EverySeqAnchored'
  BY <1>2
<1> QED
  BY <1>1, <1>3, TypeCorrect, PTL DEF Spec

(***************************************************************************)
(* What the operator can rely on                                           *)
(***************************************************************************)
\* state.json says nothing of a Machine that the chain does not say.
THEOREM StateIsCache == ClientSpec => []StateIsCacheOfChain
<1>1. ChainInv => StateIsCacheOfChain
  BY DEF ChainInv, FileFact, StateIsCacheOfChain, Known
<1> QED
  BY <1>1, ClientChained, PTL

\* Every checkpoint on chain can be restored by those its policy admits: the
\* blob is on Walrus, is what the manifest hashes, and is sealed for the
\* Machine's own policy.
THEOREM Restorable == ClientSpec => []AnchoredIsRestorable
<1>1. ChainInv => AnchoredIsRestorable
  BY DEF ChainInv, EntriesOK, EntryFact, SnapshotFact, AnchoredIsRestorable
<1> QED
  BY <1>1, ClientChained, PTL

\* No log and no log digest lists a command that did not run, or one twice.
THEOREM LogsHaveRun == ClientSpec => []LogHasRun
<1>1. TypedInv /\ ChainInv => LogHasRun
  <2> SUFFICES ASSUME TypedInv, ChainInv, NEW m \in ObjectIds
               PROVE  /\ cmdlog[m] # Torn => /\ IsInjective(cmdlog[m])
                                             /\ Range(cmdlog[m]) \subseteq 1..ran[m]
                      /\ m \in Live => \A i \in 1..Len(log[m]) :
                           IsCheckpoint(log[m][i]) => Range(log[m][i].payload) \subseteq 1..ran[m]
    BY DEF LogHasRun
  <2>1. cmdlog[m] # Torn => cmdlog[m] \in Logs /\ Listed(m, cmdlog[m])
    BY DEF TypedInv, LocalInv, FilesOK
  <2>2. cmdlog[m] # Torn => IsInjective(cmdlog[m])
    BY <2>1, LogIsSeq
  <2>3. m \in Live => \A i \in 1..Len(log[m]) : IsCheckpoint(log[m][i]) =>
          Listed(m, log[m][i].payload)
    BY DEF ChainInv, EntriesOK, EntryFact
  <2> QED
    BY <2>1, <2>2, <2>3 DEF Listed
<1> QED
  BY <1>1, ClientTyped, ClientChained, PTL

\* What the operator's commands attest names a sequence the Machine has
\* reached and a snapshot of it that is on Walrus.
THEOREM NeverAhead == ClientSpec => []AttestationNeverAhead
<1>1. TypedInv /\ ChainInv => AttestationNeverAhead
  <2> SUFFICES ASSUME TypedInv, ChainInv, NEW a \in recorded
               PROVE  /\ a.seq \in 0..(machines[a.machine].count - 1)
                      /\ \E b \in stored : b.dir = a.manifest /\ b.sealedFor[2] = a.machine
    BY DEF AttestationNeverAhead
  <2>1. AttestedFact(a)
    BY DEF ChainInv, AttestationsOK
  <2>2. machines[a.machine].count \in Nat
    BY <2>1 DEF AttestedFact, TypedInv, TypeOK, MachineRecords
  <2> QED
    BY <2>1, <2>2 DEF AttestedFact, SnapshotStored
<1> QED
  BY <1>1, ClientTyped, ClientChained, PTL

\* Where the Console says "Code attested", every signing key is that of a
\* registered enclave out of debug mode, and what the operator's commands
\* attested names checkpoints, whatever others record next to it.
THEOREM PassingIsTrue == ClientSpec => []PassingAttestationIsTrue
<1>1. ASSUME ChainInv, EverySeqAnchored, NEW m \in Live, NEW a \in fetchAttestations(m),
             AttestationPanel(m) = "Code attested"
      PROVE  a.config \in enclaves \ Debug /\ (a \in recorded => NamesCheckpoint(m, a))
  <2>1. a \in attested /\ a.machine = m
    BY DEF fetchAttestations
  <2>2. verifyAttestation(m) = {}
    BY <1>1 DEF AttestationPanel
  <2>3. BindsCheckpoint(m, a) /\ a.config \notin Debug
    BY <1>1, <2>2 DEF verifyAttestation
  <2>4. a.config \in enclaves
    BY <1>1, <2>1 DEF ChainInv, AttestationsOK
  <2>5. CASE a \in recorded
    <3>1. a.seq \in Nat /\ a.seq < machines[m].count
      <4>1. AttestedFact(a)
        BY <1>1, <2>5 DEF ChainInv, AttestationsOK
      <4> QED
        BY <2>1, <4>1 DEF AttestedFact
    <3>2. PICK i \in 1..Len(log[m]) : IsCheckpoint(log[m][i]) /\ log[m][i].seq = a.seq
      BY <1>1, <3>1 DEF EverySeqAnchored
    <3>3. log[m][i].manifest = a.manifest
      BY <2>3, <3>2 DEF BindsCheckpoint
    <3> QED
      BY <2>3, <2>4, <3>2, <3>3 DEF NamesCheckpoint
  <2> QED
    BY <2>3, <2>4, <2>5
<1>2. ChainInv /\ EverySeqAnchored => PassingAttestationIsTrue
  BY <1>1 DEF PassingAttestationIsTrue
<1> QED
  BY <1>2, ClientChained, ClientRefines, SeqsAnchored, PTL

\* No later checkpoint, attestation or enclave mends a failed check.
THEOREM CaveatsStay == ClientSpec => CaveatStays
<1>1. ASSUME Grows, NEW m \in Live, NEW a, a \in fetchAttestations(m)
      PROVE  a \in fetchAttestations(m)'
  BY <1>1 DEF Grows, fetchAttestations
<1>2. ASSUME TypedInv, Grows, NEW m \in Live, NEW a, ~BindsCheckpoint(m, a)
      PROVE  ~BindsCheckpoint(m, a)'
  <2>1. PICK i \in 1..Len(log[m]) :
          IsCheckpoint(log[m][i]) /\ log[m][i].seq = a.seq /\ log[m][i].manifest # a.manifest
    BY <1>2 DEF BindsCheckpoint
  <2>2. i \in 1..Len(log'[m]) /\ log'[m][i] = log[m][i]
    BY <1>2 DEF Grows, ChainGrows, TypedInv, TypeOK
  <2> QED
    BY <2>1, <2>2 DEF BindsCheckpoint, IsCheckpoint
<1>3. ASSUME TypedInv, Grows, NEW m \in Live, AttestationPanel(m) = "Attested, with a caveat"
      PROVE  AttestationPanel(m)' = "Attested, with a caveat"
  <2>1. fetchAttestations(m) # {} /\ verifyAttestation(m) # {}
    BY <1>3 DEF AttestationPanel
  <2>2. PICK a \in fetchAttestations(m) : ~BindsCheckpoint(m, a) \/ a.config \in Debug
    BY <2>1 DEF verifyAttestation
  <2>3. a \in fetchAttestations(m)'
    BY <1>1, <1>3, <2>2
  <2>4. ~BindsCheckpoint(m, a)' \/ a.config \in Debug
    BY <1>2, <1>3, <2>2
  <2>5. verifyAttestation(m)' # {}
    BY <2>3, <2>4 DEF verifyAttestation
  <2> QED
    BY <2>3, <2>5 DEF AttestationPanel
<1>4. TypedInv /\ TypedInv' /\ [ClientNext]_clientVars =>
        [\A m \in Live :
           AttestationPanel(m) = "Attested, with a caveat" =>
             AttestationPanel(m)' = "Attested, with a caveat"]_clientVars
  BY <1>3, ClientGrows
<1> QED
  BY <1>4, ClientTyped, PTL DEF ClientSpec, CaveatStays

\* A checkpoint that started after the RETIRE entry is not anchored, unless
\* its retirement check failed open.
THEOREM RetiredDeclines == ClientSpec => RetirementDeclines
<1>1. ASSUME ChainInv, NEW c \in Clients, Anchors(c)
      PROVE  \/ session[c].blind
             \/ \A i \in 1..session[c].since : log[session[c].machine][i].type # Retire
  BY <1>1 DEF ChainInv, SessionFact, Anchors, At, Unretired
<1>2. ChainInv =>
        [\A c \in Clients : Anchors(c) =>
           LET s == session[c] IN
           s.blind \/ \A i \in 1..s.since : log[s.machine][i].type # Retire]_clientVars
  BY <1>1
<1> QED
  BY <1>2, ClientChained, PTL DEF RetirementDeclines

\* A checkpoint is behind no snapshot that was on the chain when its command
\* started, but in files that `restore` put back or a command removed.
THEOREM NeverOlder == ClientSpec => NoOlderSnapshot
<1>1. ASSUME ChainInv, NEW c \in Clients, Anchors(c),
             NEW i \in 1..session[c].since, IsCheckpoint(log[session[c].machine][i])
      PROVE  NotBehind(session[c].machine, log[session[c].machine][i].manifest,
                       session[c].manifest)
  <2>1. PICK s : s = session[c] /\ SessionFact(s) /\ s.at = "anchor"
    BY <1>1 DEF ChainInv, Anchors, At
  <2>2. Covers(s.manifest, s.machine, s.since)
    BY <2>1 DEF SessionFact
  <2> QED
    BY <1>1, <2>1, <2>2 DEF Covers
<1>2. ChainInv =>
        [\A c \in Clients : Anchors(c) =>
           LET s == session[c] IN
           \A i \in 1..s.since : LET e == log[s.machine][i] IN
             IsCheckpoint(e) => NotBehind(s.machine, e.manifest, s.manifest)]_clientVars
  BY <1>1
<1> QED
  BY <1>2, ClientChained, PTL DEF NoOlderSnapshot
=============================================================================
