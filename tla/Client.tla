------------------------------- MODULE Client -------------------------------
(***************************************************************************)
(* The commands of one operator, from the CLI and the MCP server: create,  *)
(* fork, run, checkpoint (with or without an attestation), restore, grant, *)
(* revoke, retire; and what anybody else can do to attestations.           *)
(*                                                                         *)
(* Each command is a process of its own.  All of them sign with the        *)
(* operator's key and share the operator's home directory (state.json, a   *)
(* working directory and a command log per Machine) without a lock, so a   *)
(* command is a sequence of steps that interleave with those of others:    *)
(* one step per awaited call, per file read and per file write.  Writing a *)
(* file truncates it first.                                                *)
(*                                                                         *)
(* A working directory is a set of files, each in the version that some    *)
(* command wrote; a manifest hash or log digest is what it hashes.         *)
(***************************************************************************)
EXTENDS Machine, FiniteSets, Functions

CONSTANTS
  Clients,      \* command invocations that can be in progress at once
  Operator,     \* the address they sign with
  PackageId,    \* the policy id `fork` passes when none is given
  NoPolicy,     \* no policyId in a state.json entry
  Torn,         \* contents of a file no reader can parse
  Enclaves,     \* keys of the enclaves there are, the operator's and others'
  Debug,        \* the ones started in debug mode: all-zero PCRs
  Files,        \* files of a working directory, agent memory included
  Offered,      \* bound: the kinds of command that are issued
  Claims,       \* bound: pairs of seq and manifest that others have attested
  OutOfGas,     \* fault: whether an anchoring transaction can fail on chain
  MaxCommands,  \* bound: commands issued
  MaxOthers     \* bound: attestations on chain that only others recorded

ASSUME ClientAssumption ==
  /\ Operator \in Addresses /\ PackageId \in PolicyIds /\ MaxCommands \in Nat
  /\ OutOfGas \in BOOLEAN /\ MaxOthers \in Nat

Commands == 1..MaxCommands

\* What a working directory can hold: files, each in the version that one of
\* the commands of its Machine wrote.
Directories == UNION {[S -> Commands] : S \in SUBSET Files}

\* What a command log can hold: each command at most once.
Logs == UNION {{f \in [1..n -> Commands] : IsInjective(f)} : n \in 0..MaxCommands}

Snapshots == [dir : Directories, sealedFor : (PolicyIds \cup {NoPolicy}) \X ObjectIds]

\* Any of them can be hashed, stored, anchored and attested.
ASSUME AnchorsAssumption ==
  /\ Snapshots \subseteq Blobs /\ Directories \subseteq Manifests /\ Logs \subseteq Payloads
  /\ Claims \subseteq [seq : Nat, manifest : Manifests]

VARIABLES
  stateFile,  \* state.json: local policyId by Machine, or Torn
  workdir,    \* per Machine, its working directory
  cmdlog,     \* per Machine, log.json: the commands it lists, or Torn
  stored,     \* blobs on Walrus
  attested,   \* CommandAttested events
  enclaves,   \* keys pinned by the EnclaveConfigs on chain
  running,    \* the key of the enclave that runs now on the operator's host
  session,    \* per client, the command in progress
  issued,     \* commands issued so far
  (* history of what happened, which the code does not keep: *)
  ran,        \* per Machine, how many commands `run` executed
  removed,    \* per Machine, which of them removed which file
  putBack,    \* per Machine, the versions of files that `restore` put back
  recorded    \* the attestations that the operator's commands recorded

dirVars == <<workdir, ran, removed, putBack>>
attestVars == <<attested, enclaves, running, recorded>>
localVars == <<stateFile, dirVars, cmdlog, stored, attestVars, session, issued>>
clientVars == <<vars, localVars>>

Idle == [at |-> "idle"]

ClientInit ==
  /\ Init
  /\ stateFile = [m \in {} |-> NoPolicy]
  /\ workdir = [m \in ObjectIds |-> <<>>] /\ ran = [m \in ObjectIds |-> 0]
  /\ removed = [m \in ObjectIds |-> {}] /\ putBack = [m \in ObjectIds |-> {}]
  /\ cmdlog = [m \in ObjectIds |-> <<>>]
  /\ stored = {} /\ attested = {} /\ recorded = {}
  /\ enclaves = {} /\ running \in Enclaves
  /\ session = [c \in Clients |-> Idle]
  /\ issued = 0

(***************************************************************************)
(* Commands and their steps                                                *)
(***************************************************************************)
At(c, step) == session[c].at = step

Goto(c, next) == session' = [session EXCEPT ![c] = next]

\* A client without a command issues one.
Issue(c, command, first) ==
  /\ command \in Offered
  /\ At(c, "idle") /\ issued < MaxCommands
  /\ issued' = issued + 1
  /\ Goto(c, first)

\* The command goes on.
Step(c, from, next) == At(c, from) /\ Goto(c, next) /\ UNCHANGED issued

\* Two writers that truncated the same file write over each other: the
\* result is the last one's text, or unreadable when the other's is longer.
Overwritten(file, text) == {text} \cup (IF file = Torn THEN {} ELSE {Torn})

(***************************************************************************)
(* state.ts                                                                *)
(***************************************************************************)
\* read() answers "no Machines" for a file it cannot parse.
read == IF stateFile = Torn THEN [m \in {} |-> NoPolicy] ELSE stateFile

\* getMachine throws for a Machine that is not there.
Known == DOMAIN read

\* Faulty variant: the policyId is not kept.
StateWith_without_policy(state, m, policy) == With(state, m, NoPolicy)

StateWith(state, m, policy) == With(state, m, policy)

\* recordMachine: read, change, rewrite.
RecordRead(c) ==
  /\ Step(c, "record", [at |-> "truncate",
       file |-> StateWith(read, session[c].machine, session[c].policy)])
  /\ UNCHANGED <<vars, stateFile, dirVars, cmdlog, stored, attestVars>>

RecordTruncate(c) ==
  /\ Step(c, "truncate", [session[c] EXCEPT !.at = "flush"])
  /\ stateFile' = Torn
  /\ UNCHANGED <<vars, dirVars, cmdlog, stored, attestVars>>

RecordFlush(c) ==
  /\ Step(c, "flush", Idle)
  /\ stateFile' \in Overwritten(stateFile, session[c].file)
  /\ UNCHANGED <<vars, dirVars, cmdlog, stored, attestVars>>

(***************************************************************************)
(* create, fork, retire, grant, revoke: one transaction each, awaited by   *)
(* the SDK, which the CLI commands and the MCP tools call alike            *)
(***************************************************************************)
\* create_shared_machine makes the Machine together with a policy of its own.
createShareableMachine(c, m, p) ==
  /\ Issue(c, "create", [at |-> "record", machine |-> m, policy |-> p])
  /\ p # PackageId /\ \A x \in Live : machines[x].policy # p
  /\ Create(Operator, m, p)
  /\ UNCHANGED <<stateFile, dirVars, cmdlog, stored, attestVars>>

registerCreate(c, m, p) == createShareableMachine(c, m, p)
reeg_create(c, m, p) == createShareableMachine(c, m, p)

executeForMachine(c, m, child) ==
  /\ Issue(c, "fork", [at |-> "record", machine |-> child, policy |-> NoPolicy])
  /\ fork(Operator, m, child, PackageId)
  /\ UNCHANGED <<stateFile, dirVars, cmdlog, stored, attestVars>>

registerFork(c, m, child) == executeForMachine(c, m, child)
reeg_fork(c, m, child) == executeForMachine(c, m, child)

retireMachine(c, m) ==
  /\ Issue(c, "retire", Idle)
  /\ retire(Operator, m)
  /\ UNCHANGED <<stateFile, dirVars, cmdlog, stored, attestVars>>

registerRetire(c, m) == retireMachine(c, m)
reeg_retire(c, m) == retireMachine(c, m)

\* Both look the policy up in the Machine object, where it never changes; a
\* fork's package id is no policy, and the transaction cannot be built.
grantAccess(c, m, g) ==
  /\ Issue(c, "grant", Idle)
  /\ machines[m].policy # PackageId
  /\ register_grant(Operator, m, g)
  /\ UNCHANGED <<stateFile, dirVars, cmdlog, stored, attestVars>>

registerGrant(c, m, g) == grantAccess(c, m, g)
reeg_share(c, m, g) == grantAccess(c, m, g)

revokeAccess(c, m, g) ==
  /\ Issue(c, "revoke", Idle)
  /\ machines[m].policy # PackageId
  /\ register_revoke(Operator, m, g)
  /\ UNCHANGED <<stateFile, dirVars, cmdlog, stored, attestVars>>

registerRevoke(c, m, g) == revokeAccess(c, m, g)
reeg_revoke(c, m, g) == revokeAccess(c, m, g)

(***************************************************************************)
(* run: load the log, execute, rewrite the log                             *)
(***************************************************************************)
engineRun(c, m) ==
  /\ m \in Known
  /\ cmdlog[m] # Torn
  /\ Issue(c, "run", [at |-> "exec", machine |-> m, entries |-> cmdlog[m]])
  /\ UNCHANGED <<vars, stateFile, dirVars, cmdlog, stored, attestVars>>

registerRun(c, m) == engineRun(c, m)
reeg_run(c, m) == engineRun(c, m)

LogWith(entries, id) == Append(entries, id)

\* The directory after command n wrote some files and removed others.
Changed(dir, wrote, gone, n) ==
  [f \in (DOMAIN dir \ gone) \cup wrote |-> IF f \in wrote THEN n ELSE dir[f]]

\* A command executes, as number n of its Machine.  (Nothing waits for the
\* bound on n: there are no more commands than were issued.)
Runs(m, n) ==
  /\ n \in Commands
  /\ ran' = [ran EXCEPT ![m] = n]
  /\ \E wrote \in SUBSET Files : \E gone \in SUBSET (DOMAIN workdir[m] \ wrote) :
       /\ workdir' = [workdir EXCEPT ![m] = Changed(workdir[m], wrote, gone, n)]
       /\ removed' = [removed EXCEPT ![m] = @ \cup (gone \X {n})]
  /\ UNCHANGED putBack

Executed(s, n) ==
  [at |-> "log-truncate", machine |-> s.machine, entries |-> LogWith(s.entries, n)]

\* Faulty variant: a command that did not start is recorded all the same.
Exec_unchecked(c) ==
  LET s == session[c]
      n == ran[s.machine] + 1
  IN
  /\ Step(c, "exec", Executed(s, n))
  /\ Runs(s.machine, n) \/ UNCHANGED dirVars
  /\ UNCHANGED <<vars, stateFile, cmdlog, stored, attestVars>>

Exec(c) ==
  LET s == session[c]
      n == ran[s.machine] + 1
  IN
  /\ Step(c, "exec", Executed(s, n))
  /\ Runs(s.machine, n)
  /\ UNCHANGED <<vars, stateFile, cmdlog, stored, attestVars>>

LogTruncate(c) ==
  /\ Step(c, "log-truncate", [session[c] EXCEPT !.at = "log-flush"])
  /\ cmdlog' = [cmdlog EXCEPT ![session[c].machine] = Torn]
  /\ UNCHANGED <<vars, stateFile, dirVars, stored, attestVars>>

LogFlush(c) ==
  LET m == session[c].machine IN
  /\ Step(c, "log-flush", Idle)
  /\ \E text \in Overwritten(cmdlog[m], session[c].entries) :
       cmdlog' = [cmdlog EXCEPT ![m] = text]
  /\ UNCHANGED <<vars, stateFile, dirVars, stored, attestVars>>

(***************************************************************************)
(* checkpoint: check for retirement, capture, load the log, encrypt and    *)
(* store, anchor, and with --attest read the sequence back and attest it   *)
(***************************************************************************)
\* `since` is the length of the chain when the command started and `blind`
\* says that its retirement check failed open over a retirement; the code has
\* neither.
BeginCheckpoint(c, m, attest) ==
  /\ m \in Known
  /\ Issue(c, IF attest THEN "attest" ELSE "checkpoint",
           [at |-> "check", machine |-> m, policy |-> read[m], attest |-> attest,
            since |-> Len(log[m])])
  /\ UNCHANGED <<vars, stateFile, dirVars, cmdlog, stored, attestVars>>

registerCheckpoint(c, m, attest) == BeginCheckpoint(c, m, attest)

\* The tool never attests.
reeg_checkpoint(c, m) == BeginCheckpoint(c, m, FALSE)

isRetired(m) == \E i \in 1..Len(log[m]) : log[m][i].type = Retire

\* Faulty variant: the answer is not looked at.
Declines_never(m) == FALSE

Declines(m) == isRetired(m)

Captures(s, blind) ==
  [at |-> "capture", machine |-> s.machine, policy |-> s.policy, attest |-> s.attest,
   since |-> s.since, blind |-> blind]

\* isRetiredOrFalse: a confirmed retirement ends the command, a failed read
\* does not.
CheckRetired(c) ==
  LET s == session[c] IN
  /\ Step(c, "check", IF Declines(s.machine) THEN Idle ELSE Captures(s, FALSE))
  /\ UNCHANGED <<vars, stateFile, dirVars, cmdlog, stored, attestVars>>

CheckRetiredFailsOpen(c) ==
  /\ Step(c, "check", Captures(session[c], isRetired(session[c].machine)))
  /\ UNCHANGED <<vars, stateFile, dirVars, cmdlog, stored, attestVars>>

\* Faulty variant: a file that some checkpoint has already is left out.
Captured_incremental(m) ==
  LET anchored(f) == \E i \in 1..Len(log[m]) : LET e == log[m][i] IN
        IsCheckpoint(e) /\ f \in DOMAIN e.manifest /\ e.manifest[f] = workdir[m][f]
  IN Restrict(workdir[m], {f \in DOMAIN workdir[m] : ~anchored(f)})

Captured(m) == workdir[m]

\* engineCheckpoint packs the directory, then loads the log.
Capture(c) ==
  LET s == session[c] IN
  /\ Step(c, "capture",
       [at |-> "load-log", machine |-> s.machine, attest |-> s.attest, since |-> s.since,
        blind |-> s.blind, manifest |-> Captured(s.machine),
        blob |-> [dir |-> Captured(s.machine), sealedFor |-> <<s.policy, s.machine>>]])
  /\ UNCHANGED <<vars, stateFile, dirVars, cmdlog, stored, attestVars>>

LoadLog(c) ==
  LET s == session[c] IN
  /\ Step(c, "load-log",
       IF cmdlog[s.machine] = Torn THEN Idle
       ELSE [at |-> "store", machine |-> s.machine, attest |-> s.attest, since |-> s.since,
             blind |-> s.blind, manifest |-> s.manifest, blob |-> s.blob,
             payload |-> cmdlog[s.machine]])
  /\ UNCHANGED <<vars, stateFile, dirVars, cmdlog, stored, attestVars>>

\* Faulty variant: the command does not wait for the upload, which fails.
Stored_later(blob) == stored

Stored(blob) == stored \cup {blob}

Store(c) ==
  /\ Step(c, "store", [session[c] EXCEPT !.at = "anchor"])
  /\ stored' = Stored(session[c].blob)
  /\ UNCHANGED <<vars, stateFile, dirVars, cmdlog, attestVars>>

\* The transaction lands.  The command ends here without --attest, and when
\* the reply is lost.
Anchor(c) ==
  LET s == session[c] IN
  /\ \/ Step(c, "anchor", Idle)
     \/ /\ At(c, "anchor") /\ s.attest
        /\ Step(c, "anchor", [at |-> "read-back", machine |-> s.machine, manifest |-> s.manifest])
  /\ register_checkpoint(Operator, s.machine, s.blob, s.manifest, s.payload)
  /\ UNCHANGED <<stateFile, dirVars, cmdlog, stored, attestVars>>

\* The transaction is executed and fails, for want of gas.  Its status is not
\* looked at: the command goes on as if the checkpoint had been anchored.
AnchorFails(c) ==
  LET s == session[c] IN
  /\ OutOfGas
  /\ At(c, "anchor") /\ s.attest
  /\ Step(c, "anchor", [at |-> "read-back", machine |-> s.machine, manifest |-> s.manifest])
  /\ UNCHANGED <<vars, stateFile, dirVars, cmdlog, stored, attestVars>>

\* Faulty variant: off by one.
SeqReadBack_count(m) == machines[m].count

\* The sequence is taken to be the checkpoint count minus one.
SeqReadBack(m) == machines[m].count - 1

\* A sequence below zero cannot be encoded.
ReadBack(c) ==
  LET s == session[c]
      seq == SeqReadBack(s.machine)
  IN
  /\ Step(c, "read-back",
       IF seq < 0 THEN Idle
       ELSE [at |-> "attest", machine |-> s.machine, manifest |-> s.manifest, seq |-> seq])
  /\ UNCHANGED <<vars, stateFile, dirVars, cmdlog, stored, attestVars>>

(***************************************************************************)
(* restore, without --dest: read the Machine and its blob, decrypt, and    *)
(* unpack into the working directory (Restore has the reading in detail)   *)
(***************************************************************************)
\* The policy a Machine's checkpoints are sealed for: its own, or none for a
\* fork, which names the package instead of a policy.
PolicyOnChain(m) == IF machines[m].policy = PackageId THEN NoPolicy ELSE machines[m].policy

BeginRestore(c, m) ==
  /\ m \in Known
  /\ Issue(c, "restore", [at |-> "fetch", machine |-> m])
  /\ UNCHANGED <<vars, stateFile, dirVars, cmdlog, stored, attestVars>>

registerRestore(c, m) == BeginRestore(c, m)
reeg_restore(c, m) == BeginRestore(c, m)

\* The operator gets the key of a blob that is sealed for the Machine and its
\* policy; the blob a fork inherited is sealed for the parent.
Decrypts(m) ==
  /\ m \in Live /\ machines[m].blob \in stored
  /\ machines[m].blob.sealedFor = <<PolicyOnChain(m), m>>

Unpacking(m, dir, left) ==
  IF left = {} THEN Idle ELSE [at |-> "unpack", machine |-> m, dir |-> dir, left |-> left]

Fetch(c) ==
  LET m == session[c].machine IN
  /\ Step(c, "fetch", IF Decrypts(m)
                      THEN LET dir == machines[m].blob.dir IN Unpacking(m, dir, DOMAIN dir)
                      ELSE Idle)
  /\ UNCHANGED <<vars, stateFile, dirVars, cmdlog, stored, attestVars>>

\* The files of the snapshot are written one after the other over whatever
\* the directory holds; nothing is removed from it.
Unpack(c) ==
  LET s == session[c]
      m == s.machine
  IN
  /\ At(c, "unpack")
  /\ \E f \in s.left :
       /\ Step(c, "unpack", Unpacking(m, s.dir, s.left \ {f}))
       /\ workdir' = [workdir EXCEPT ![m] = With(@, f, s.dir[f])]
       /\ putBack' = [putBack EXCEPT ![m] = @ \cup {<<f, s.dir[f]>>}]
  /\ UNCHANGED <<vars, stateFile, ran, removed, cmdlog, stored, attestVars>>

(***************************************************************************)
(* attestation.move, and the enclaves                                      *)
(***************************************************************************)
\* register_enclave pins the key and the PCRs of any enclave whose document
\* Sui finds genuine, debug mode or not, whoever sends it.
register_enclave(key) == enclaves' = enclaves \cup {key}

\* An enclave signs what its host asks it to attest; the signature holds
\* under the key of that enclave.
attestationPreimage(m, seq, manifest) == [machine |-> m, seq |-> seq, manifest |-> manifest]
engineAttestSign(preimage, key) == [signed |-> preimage, by |-> key]
verifyAttestationSignature(preimage, signature, key) ==
  signature.signed = preimage /\ signature.by = key

Attestation(m, seq, manifest, config) ==
  [machine |-> m, seq |-> seq, manifest |-> manifest, config |-> config]

\* register_attested_command reads nothing from the Machine and looks at no
\* sender; a signature that does not verify aborts it.
register_attested_command(config, m, seq, manifest, signature) ==
  /\ config \in enclaves
  /\ verifyAttestationSignature(attestationPreimage(m, seq, manifest), signature, config)
  /\ attested' = attested \cup {Attestation(m, seq, manifest, config)}

\* The operator registers the running enclave.
registerEnclave(c) ==
  /\ Issue(c, "enclave", Idle)
  /\ register_enclave(running)
  /\ UNCHANGED <<vars, stateFile, dirVars, cmdlog, stored, attested, running, recorded>>

\* The enclave on the operator's host is started again, with another key.
RestartEnclave(k) ==
  /\ running' = k /\ running' # running
  /\ UNCHANGED <<vars, stateFile, dirVars, cmdlog, stored, attested, enclaves, recorded,
                 session, issued>>

\* The last step of checkpoint --attest: the running enclave signs, and the
\* command records that under the config it was given.  When the transaction
\* aborts the command ends as in Abort.
Attest(c) ==
  LET s == session[c]
      signature == engineAttestSign(attestationPreimage(s.machine, s.seq, s.manifest), running)
  IN
  \E config \in enclaves :
    /\ Step(c, "attest", Idle)
    /\ register_attested_command(config, s.machine, s.seq, s.manifest, signature)
    /\ recorded' = recorded \cup {Attestation(s.machine, s.seq, s.manifest, config)}
    /\ UNCHANGED <<vars, stateFile, dirVars, cmdlog, stored, enclaves, running>>

\* Bound: others stop once they have recorded as much as they may.
OthersAct == Cardinality(attested \ recorded) < MaxOthers

\* Anybody registers an enclave.
OthersRegister(key) ==
  /\ OthersAct
  /\ register_enclave(key)
  /\ UNCHANGED <<vars, stateFile, dirVars, cmdlog, stored, attested, running, recorded,
                 session, issued>>

\* Anybody has a registered enclave sign a claim about any object id, one
\* that is no Machine included, and records it.
OthersRecord(key, m, claim) ==
  LET signature == engineAttestSign(attestationPreimage(m, claim.seq, claim.manifest), key) IN
  /\ OthersAct
  /\ register_attested_command(key, m, claim.seq, claim.manifest, signature)
  /\ UNCHANGED <<vars, stateFile, dirVars, cmdlog, stored, enclaves, running, recorded,
                 session, issued>>

\* A command is killed, or one of its calls throws, before its next effect.
Abort(c) ==
  /\ ~At(c, "idle")
  /\ Goto(c, Idle)
  /\ UNCHANGED <<vars, stateFile, dirVars, cmdlog, stored, attestVars, issued>>

ClientStep(c) ==
  \/ \E m \in ObjectIds, p \in PolicyIds : registerCreate(c, m, p) \/ reeg_create(c, m, p)
  \/ \E m \in Live :
       \/ \E child \in ObjectIds : registerFork(c, m, child) \/ reeg_fork(c, m, child)
       \/ registerRetire(c, m) \/ reeg_retire(c, m)
       \/ \E g \in AccessPayloads : registerGrant(c, m, g) \/ reeg_share(c, m, g)
       \/ \E g \in AccessPayloads : registerRevoke(c, m, g) \/ reeg_revoke(c, m, g)
       \/ registerRun(c, m) \/ reeg_run(c, m)
       \/ \E attest \in BOOLEAN : registerCheckpoint(c, m, attest)
       \/ reeg_checkpoint(c, m)
       \/ registerRestore(c, m) \/ reeg_restore(c, m)
  \/ registerEnclave(c)
  \/ RecordRead(c) \/ RecordTruncate(c) \/ RecordFlush(c)
  \/ Exec(c) \/ LogTruncate(c) \/ LogFlush(c)
  \/ CheckRetired(c) \/ CheckRetiredFailsOpen(c) \/ Capture(c) \/ LoadLog(c) \/ Store(c)
  \/ Anchor(c) \/ AnchorFails(c) \/ ReadBack(c) \/ Attest(c)
  \/ Fetch(c) \/ Unpack(c)
  \/ Abort(c)

\* What no command of the operator does.
Environment ==
  \E k \in Enclaves :
    \/ RestartEnclave(k)
    \/ OthersRegister(k)
    \/ \E m \in ObjectIds, claim \in Claims : OthersRecord(k, m, claim)

ClientNext ==
  \/ \E c \in Clients : ClientStep(c)
  \/ Environment

ClientSpec == ClientInit /\ [][ClientNext]_clientVars

(***************************************************************************)
(* verifyAttestation: the checks that fail                                 *)
(***************************************************************************)
fetchAttestations(m) == {a \in attested : a.machine = m}

\* Faulty variant: the manifest is not compared.
BindsCheckpoint_unchecked(m, a) == TRUE

\* Faulty variant: it is compared with that of the newest checkpoint alone.
BindsCheckpoint_newest(m, a) ==
  a.seq = machines[m].count - 1 => machines[m].manifest = a.manifest

\* A sequence that no checkpoint of the Machine has is not looked at.
BindsCheckpoint(m, a) ==
  \A i \in 1..Len(log[m]) : LET e == log[m][i] IN
    IsCheckpoint(e) /\ e.seq = a.seq => e.manifest = a.manifest

\* With or without the PCRs of a trusted build, a debug enclave fails.
verifyAttestation(m) ==
  {<<"attestation-binds-checkpoint", a>> : a \in {r \in fetchAttestations(m) : ~BindsCheckpoint(m, r)}}
  \cup {<<"enclave-not-debug", a>> : a \in {r \in fetchAttestations(m) : r.config \in Debug}}

\* What the Console says of it.
AttestationPanel(m) ==
  IF fetchAttestations(m) = {} THEN "No hardware attestation"
  ELSE IF verifyAttestation(m) = {} THEN "Code attested" ELSE "Attested, with a caveat"

-----------------------------------------------------------------------------
(***************************************************************************)
(* Properties                                                              *)
(***************************************************************************)
\* "A convenience cache only; the authoritative record is on chain": however
\* commands overlap or die in the middle of a write, state.json can lose
\* Machines but never says anything about one that the chain does not.
StateIsCacheOfChain ==
  \A m \in Known : m \in Live /\ read[m] = PolicyOnChain(m)

\* Whatever is anchored can be restored: its blob is on Walrus, its manifest
\* hash is that of the directory in the blob, and the blob is sealed for the
\* Machine's own policy, so that grantees of that policy can decrypt it.
AnchoredIsRestorable ==
  \A m \in Live : \A i \in 1..Len(log[m]) : LET e == log[m][i] IN
    IsCheckpoint(e) =>
      /\ e.blob \in stored
      /\ e.manifest = e.blob.dir
      /\ e.blob.sealedFor = <<PolicyOnChain(m), m>>

\* c anchors its checkpoint in this step.
Anchors(c) == At(c, "anchor") /\ log' # log /\ session'[c] # session[c]

\* A checkpoint command that starts after the RETIRE entry landed adds
\* nothing to the chain, unless its retirement check failed open: only a
\* command already in progress can put a checkpoint after the entry.
RetirementDeclines ==
  [][\A c \in Clients : Anchors(c) =>
       LET s == session[c] IN
       s.blind \/ \A i \in 1..s.since : log[s.machine][i].type # Retire]_clientVars

\* Directory q of m is not behind p: each file of p is as new in q, or in a
\* version that `restore` put back, or was removed by a later command.
NotBehind(m, p, q) ==
  \A f \in DOMAIN p :
    \/ f \in DOMAIN q /\ (p[f] <= q[f] \/ <<f, q[f]>> \in putBack[m])
    \/ f \notin DOMAIN q /\ \E n \in Commands : n > p[f] /\ <<f, n>> \in removed[m]

\* A checkpoint never takes a file back behind a snapshot that was on the
\* chain when its command started, whatever overlaps with it or dies half way:
\* the file is as new as it was there, unless a `restore` had put an older
\* version back into the directory or a later command had removed it.
NoOlderSnapshot ==
  [][\A c \in Clients : Anchors(c) =>
       LET s == session[c] IN
       \A i \in 1..s.since : LET e == log[s.machine][i] IN
         IsCheckpoint(e) => NotBehind(s.machine, e.manifest, s.manifest)]_clientVars

\* The command log lists no command that did not run, and none twice; the
\* same goes for the log digest of every checkpoint.
LogHasRun ==
  \A m \in ObjectIds :
    /\ cmdlog[m] # Torn => IsInjective(cmdlog[m]) /\ Range(cmdlog[m]) \subseteq 1..ran[m]
    /\ m \in Live => \A i \in 1..Len(log[m]) :
         IsCheckpoint(log[m][i]) => Range(log[m][i].payload) \subseteq 1..ran[m]

\* a names a checkpoint of m, by sequence and manifest.
NamesCheckpoint(m, a) ==
  \E i \in 1..Len(log[m]) : LET e == log[m][i] IN
    IsCheckpoint(e) /\ e.seq = a.seq /\ e.manifest = a.manifest

\* What the operator's commands attest never runs ahead of what is there: the
\* sequence is one the Machine has reached and the manifest is that of a
\* snapshot of this Machine on Walrus, although neither the status of the
\* anchoring transaction nor the sequence it was given is looked at.
AttestationNeverAhead ==
  \A a \in recorded :
    /\ a.seq \in 0..(machines[a.machine].count - 1)
    /\ \E b \in stored : b.dir = a.manifest /\ b.sealedFor[2] = a.machine

\* What "Code attested" in the Console does guarantee, whatever anybody else
\* records: every key that signed is that of a registered enclave out of debug
\* mode, and what the operator's own commands attested names checkpoints (the
\* wrong pairs that overlapping checkpoints attest would have been noticed).
PassingAttestationIsTrue ==
  \A m \in Live : AttestationPanel(m) = "Code attested" =>
    \A a \in fetchAttestations(m) :
      a.config \in enclaves \ Debug /\ (a \in recorded => NamesCheckpoint(m, a))

\* A failed check is never mended: once the Console attaches a caveat to a
\* Machine, no checkpoint, attestation or enclave that the operator or anybody
\* else adds later brings "Code attested" back.
CaveatStays ==
  [][\A m \in Live :
       AttestationPanel(m) = "Attested, with a caveat" =>
         AttestationPanel(m)' = "Attested, with a caveat"]_clientVars

\* "The sequence of the checkpoint just anchored is the new checkpoint count
\* minus one": what the operator's commands attest names a checkpoint by its
\* own sequence and manifest, which is what verifyAttestation checks.
AttestationBindsCheckpoint == \A a \in recorded : NamesCheckpoint(a.machine, a)

\* "A measured secure enclave signed this environment's snapshots": a Machine
\* that the Console shows as "Code attested" has a snapshot on its chain that
\* one of its attestations names.
CodeAttestedNamesSnapshot ==
  \A m \in Live : AttestationPanel(m) = "Code attested" =>
    \E a \in fetchAttestations(m) : NamesCheckpoint(m, a)
=============================================================================
