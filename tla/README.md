# Verification of Reeg

Reeg versions the working directory of an agent and proves what happened to it.
A snapshot is packed by a local engine, encrypted, stored on Walrus, and
anchored in a Sui object, the *Machine*, whose hash-chained head an independent
verifier replays from public events.

This directory holds TLA+ models of that system, the TLC configurations that
check them on small instances, and TLAPS proofs, for instances of any size, of
all the safety properties the passing runs check. The models cover the chain, the
verifier, the indexer, the operator's commands, restore with its key servers, the
Console with its paymaster, and the engine's object store.
`PROJECT.json` lists the runs, the source lines each definition models, the
hazards the properties are aimed at, and the theorems.

Run a model with `tlc -config X.cfg M`, check proofs with `tlapm M.tla`.

## 1. Inventory

| Component | State | Operations | Interacts with |
|---|---|---|---|
| **Machine object** `move/sources/machine.move` | owner, current blob, manifest hash, provenance head, checkpoint count, parent, policy id; the events it emitted | create, register_checkpoint, register_grant/revoke (package only), retire, fork | Sui owned-object rule, Clock; `access.move` |
| **Access policies** `move/sources/access.move`, `policy.move` | grants by address: rights, expiry; owner and Machine it is bound to | create_shared_machine, grant, revoke, migrate; `seal_approve*` dry runs | Machine chain, Seal key servers |
| **Attestation** `move/sources/attestation.move`, `packages/verify/src/attestation.ts` | EnclaveConfig objects, CommandAttested events | register_enclave, register_attested_command, verifyAttestation | enclave, operator commands |
| **Verifier and evidence** `packages/verify` | none of its own; an evidence file | verifyFromChain, exportEvidence, verifyEvidence, anchorEvidence, access timeline | Sui object and event queries |
| **Operator commands** `packages/cli`, `packages/mcp`, `packages/sdk` | state.json, a working directory, memory directory and log.json per Machine | create, fork, run, checkpoint (--attest), restore, grant, revoke, retire | everything above, the engine, Walrus, Seal |
| **Restore and key release** `sdk/src/restore.ts`, `crypto`, `seal-retry.ts` | session key, retry count | choose the approval, fetch, decrypt, unpack | Walrus, Seal, access policy |
| **Snapshot engine** `engine/crates/snapshot` | content-addressed store, bundles | put/get, capture, restore, drift, pack/unpack | file system |
| **Sandbox runtime** `engine/crates/runtime`, guest agent | process, container or microVM; command log | exec over vsock, snapshot, stop | operator commands |
| **Indexer** `apps/indexer` | read model of the events | fetch pages, apply events | Sui events |
| **Paymaster API** `apps/api` | none | sponsor, execute | Enoki, the Console |
| **Console** `apps/console` | query cache, route, busy and confirmation flags of the cards | create, fork, retire, grant, revoke; queries; navigation | a Sui full node, the wallet, the paymaster |
| **Chain/storage clients** `packages/chain`, `packages/storage` | none | build transactions, read objects and blobs | all |
| **Website, design preview** | none | display | none |

What makes each hard, and what makes it correct:

* **Machine.** Several entry kinds share one chain, one head and one sequence
  counter; forks copy a parent that keeps moving; an object can be transferred
  while its `owner` field stays. Correct: head, counters and pinned state are
  what the events say after any sequence of calls, forks keep true lineage,
  history is append-only, no two Machines share a head.
* **Access.** The grants map and the chain are written separately; expiry is a
  boundary; any policy id can be named at creation. Correct: who can decrypt is
  exactly what the chain records.
* **Verifier.** A dozen awaited reads of a moving chain, two Machines at once.
  Correct: nothing false passes, nothing quiet fails.
* **Operator commands.** Separate processes share files and one key without
  locks, and die between steps. Correct: whatever reaches the chain is stored,
  decryptable by the right people, and true of what ran.
* **Attestation.** Both Move functions are public: any sender can register any
  genuine enclave and record any signed claim about any Machine. Correct: what
  the operator's own commands record is true, and what others record can add a
  caveat but never remove one.
* **Restore.** Four reads at four moments, key servers that answer from the
  past, a retry loop that must tell a denial from an error. Correct: what is
  unpacked was current, nobody off the record gets a key, no error passes for
  a denial, and it ends.
* **Indexer.** Three event queries at three moments, pages in any order.
  Correct: no hole, nothing false, nothing missed that was there at the start.
* **Console and paymaster.** Decisions on a stale page, a click of four awaits
  that survives navigation, an executor with a fallback. Correct: one click is
  one execution at most, and what the page offers stays acceptable to the chain
  as long as the user holds the Machine.
* **Engine and runtime.** Shared temporary names, torn files, host and guest.
  The object store is modelled; the drivers are not.

## 2. Modules

| Module | Models | Notes |
|---|---|---|
| `VersionedEnvironment` | what a Machine promises, abstractly | environments are created empty or as a copy and change only by saving |
| `Machine` | `machine.move` | one action per entry function; its assertions are the guards |
| `Access` | `access.move`, composed with `Machine` | grant/revoke change policy and chain in one step; `seal_approve_*` are state functions |
| `Verifier` | `packages/verify`, with the CLI commands, MCP tools and Console hooks that call it, over `Machine` | one action per awaited read |
| `Indexer` | `apps/indexer`, over `Machine` | one action per event query |
| `Readers` | `Verifier` and `Indexer` side by side over one chain | |
| `Client` | CLI commands and MCP tools with their local files, `attestation.move` with anybody who calls it, the enclaves and `verifyAttestation`, over `Machine` | one action per awaited call, file read and file write |
| `Restore` | `restore.ts`, `withSealRetry`, the Seal identities and key servers, over `Access` | one action per awaited call; the chain moves between them |
| `Console` | one tab of `apps/console` and the paymaster `apps/api`, over `Access` | one action per query, button and awaited call of a click |
| `Cas` | `engine/crates/snapshot/src/cas.rs` | names and files apart, one action per file system call |
| `MachineProofs` | TLAPS proofs about `Machine` | |
| `AccessProofs` | TLAPS proofs about `Access` | on top of `MachineProofs` |
| `ClientProofs`, `ClientChainProofs` | TLAPS proofs about `Client` | files and sessions first, then what they say of the chain |
| `RestoreProofs` | TLAPS proofs about `Restore` | on top of `AccessProofs` |
| `ConsoleProofs` | TLAPS proofs about `Console` | on top of `AccessProofs` |
| `VerifierProofs` | TLAPS proofs about `Verifier` | on top of `MachineProofs` |
| `ReadersProofs` | TLAPS proofs about `Indexer` and `Readers` | on top of `VerifierProofs` |
| `MC*` | constants, bounds and symmetry for TLC | |

### How state and actions correspond to the code

**Machine.** `machines` holds the objects, `holder` their Sui owner (whose
signature can name them as input), `log` the events of each Machine in emission
order, `forks` the MachineForked events, `now` the Clock. Sui executes a
transaction atomically and an abort has no effect, so an entry function is one
action. `blake2b256` is taken to be collision-free and the encodings hashed to
be injective, so a digest is represented by its preimage: a head is the
sequence of links hashed into it, and equality of heads is equality of
histories. `created_at_epoch` is display data and left out. `Transfer` and
`Tick` are Sui framework behaviour. The Machine type has `store`; wrapping,
sharing or freezing it from another package is not modelled.

**Access.** `policies` holds the AccessPolicy objects. A rights bitfield is a
set of bits. `migrate` and the version guard are left out: with `VERSION = 1`
every policy has that version and `migrate` always aborts.

**Verifier.** `job` is one run of `gatherVerifyInput` and what consumes it. An
event query pages in ascending order until a page has no successor and so
returns what was emitted up to its last page: one step. `start` (the chain's
length when the object was read) is a history field that only properties read.
The caller may pass the wrong package id, which finds no events. Blob
availability checks and the evidence schema version are not modelled. The CLI's
and the MCP server's `retry` start a failed read again (`ReadThrows`). The
Console's page is loaded by four separate reads of `loadEnvironment`, which its
comment calls "the same data the verifier checks, so the page and the Verify
button never disagree"; they are reads at other moments than the verifier's,
and `verifier_race` applies to them as well.

**Indexer.** `sync` is a replay in progress, `index` the read model of the last
one. Events are kept as a set and folded in one order; `RebuildIsDeterministic`
is what justifies that, for all orders and with repeated events.

**Client.** Each element of `Clients` is a command invocation; `session[c].at`
is where it stands. Files are truncated before they are written; a reader of
a truncated file fails (log.json) or sees no Machines (state.json); two writers
that both truncated leave the last one's text or something unreadable. `Abort`
is a kill or a thrown error between any two steps, `Anchor` includes the lost
reply. A working directory (with its memory directory) is a function
from files to versions: `run` executes as the next number of its Machine and
leaves that version in the files it writes, and removes others (`Runs`);
`capture` packs all of it in one step; `restore` without `--dest` unpacks the
current snapshot into it, one file per step, over whatever is there, and removes
nothing (`Unpack`, from `tree.rs`). So a directory can go back, and can be a
mixture. A restore succeeds when the blob is sealed for the Machine itself
(`Decrypts`): the operator is the owner, and how reads and key servers can fail
is in `Restore`; here they fail by `Abort`. With `--dest`, a restore touches
nothing another command reads, and is not an action.

`since` and `blind` are history fields; `ran`, `removed`, `putBack` and
`recorded` are history variables, read by properties (and `ran` by the next
number). An enclave is its key; `enclaves` are the registered ones, and a
signature is its preimage and the key that made it. The operator's enclave makes
a key at each start (`RestartEnclave`). `register_enclave` and
`register_attested_command` look at no sender and read nothing of the Machine, so
besides `registerEnclave` and `Attest`, which are the operator's commands, there
are `OthersRegister` and `OthersRecord`: anybody registers any enclave and has a
registered one sign any claim about any object id, one without a checkpoint or
without a Machine included, as the Move test `valid_enclave_signature_is_attested`
does for sequence 7. `recorded` tells the operator's attestations from the rest;
nothing on the chain does. `AnchorFails` is a transaction that is
executed and fails: `checkpoint` returns its digest all the same and the command
goes on to the attestation. A dry run precedes every execution, so want of gas
is what is left to make one fail; `OutOfGas` switches the fault.

**Restore.** `job` is one restore, `seen` what the slowest key server's full
node has: the state before the last transaction, for any length of time. Every
server answers from it or from the chain itself; requests are sent together
and only their counts matter. A ciphertext carries the identity it is sealed
under, shares carry the identity they were asked for, and they decrypt when the
two agree. When shares are missing, SealClient throws the most frequent error,
and either one on a tie. The five attempts of the code are the constant
`Attempts`. `began` and `excused` are history fields.

**Console.** `cache` is the data of the page that is shown, `busy` which click
each card is waiting for, `clicks` the clicks with their progress. The code has
no record of a click: it is the closure of an async function, which goes on
after its card is gone. `node` is the full node the tab reads, behind by the
last transaction for any length of time. An aborted transaction has a digest
and is taken for success (`Aborts`). Pages that were left stay in the query
cache for five minutes in the code and are dropped in the model; so are their
cards' states. `Elsewhere` is what other people and other commands do: they
create the first Machine, take the first checkpoint of one, which is the one the page's
decisions depend on, and give Machines away, which leaves the `owner` field as it
is. Since `EnvironmentDetail` has no key, the code keeps an armed
retire confirmation when it goes from one cached environment to another, which
is listed as a hazard and not explored.

**Cas.** A file exists apart from its name, as in the file system: a rename
leaves a writer's descriptor where it is. The CLI opens a private store in
every process, so several writers of one store occur at the public interface
of the crate only.

## 3. Runs

| Run | Result | What it shows |
|---|---|---|
| `machine` | pass | head replays from events; sequences contiguous; pinned state is the last checkpoint; fork records stay true; heads never collide; history append-only; a transferred Machine is frozen; refinement of `VersionedEnvironment` |
| `access` | pass | grants replay from the chain; policy and Machine stay bound; the owner cannot be removed; approvals appear and disappear only with a chain entry or at expiry; a transfer freezes the policy |
| `readers` | pass | reconstructed entries are a prefix of history under every interleaving; quiet Machines verify; passing reports, clean evidence and successful anchoring are true; lineage checks never fail falsely; the read model of the indexer is true, has no hole and misses nothing that was there when the replay started, and any order of events gives the same one |
| `verifier_race` | violation | "verification passes on a good run": an entry between the object read and an event query fails an honest Machine |
| `anchor_lineage` | violation | anchoring a fork fails once its parent has taken another entry, although the fork is unchanged |
| `access_timeline` | violation | "in emission order": a revoke and a later grant with equal timestamp and sequence come out reversed |
| `client` | pass | under overlap and death of commands, restores into the working directory included: state.json is incomplete at worst, never wrong; whatever is anchored is stored, matches its manifest and is sealed for the Machine's own policy; logs and log digests list only commands that ran; retirement binds commands started after it; a checkpoint takes a file back behind a snapshot that was there when its command started only to a version that a restore put into the directory, or because a later command removed it. Whatever anybody else registers and records: what the operator's commands attest names a sequence that was reached and a stored snapshot of that Machine; behind "Code attested" are registered keys out of debug mode, and the operator's own attestations name checkpoints by sequence and manifest; a caveat is never lifted |
| `client_attest` | violation | "The sequence of the checkpoint just anchored is the new checkpoint count minus one": not when two checkpoint commands overlap |
| `client_claim` | violation | "A measured secure enclave signed this environment's snapshots": `verifyAttestation` skips a sequence without a checkpoint, so a claim recorded by anybody makes a Machine "Code attested" none of whose snapshots was signed |
| `restore` | pass | a restored snapshot was current since the last attempt began; only people on the record of the Machine it is sealed for restore it; shares for the wrong identity are only fetched for a fork that still pins its parent's snapshot; a restore ends as denied only if the policy denied the caller or a node lagged; every restore ends |
| `console` | pass | a click is signed and executed once at most; what a stale page offered is still acceptable to the Move code, unless the Machine was given away; the people shown for an environment, a fork included, were given access to it; a signed click ends and frees its card |
| `cas` | violation | "two writers of the same bytes cannot corrupt each other": they share the temporary name, and one renames what the other has truncated |

The violations are findings about the code as it is; each is quoted with its
line under `findings`. The passing runs state what holds in spite of them:
`verifier_race` goes with `QuietReadVerifies` and `PassingReportIsTrue` (a race
raises a false alarm and never hides anything), `client_attest` with
`AttestationNeverAhead`, `client_claim` with `PassingAttestationIsTrue` and
`CaveatStays` (what "Code attested" does guarantee, and what nobody can undo),
`anchor_lineage` with `AnchorIsTrue`. A lagging key server can end a
legitimate restore for good, since its denial is not retried: `restore` shows
that nothing but a real denial or that lag does.

Three more places where the code and a text disagree need no run to be seen; the
models have the behaviour, and a property takes account of it:

* access.move:60 says "the owner is always present with full rights"; `grant` to
  the owner's own address overwrites the self-grant (`Granted`). The owner stays
  in the policy, which is `OwnerHoldsPolicy`.
* requirements-analysis.md:64 says that a checkpoint "restores to a byte-identical
  workdir, or the difference is reported"; `restore` removes nothing from the
  directory it unpacks into, and nothing compares (`Unpack`). `NoOlderSnapshot`
  is what is left.
* fork.ts:4 says of `canFork` "Whether the connected wallet may fork this
  environment right now"; it is decided on the owner field, which a transfer does
  not change, so an up-to-date page goes on offering fork, retire and sharing to
  somebody who gave the Machine away. The chain refuses them;
  `TransactionsStayValid` says that nothing but such a transfer makes it.

### Bounds

* `machine`: three objects (a fork of a fork), two senders (a transfer has
  somewhere to go), two blobs (old and new differ), two entries in all
  (`MaxTotal`) over any Machines, one Machine away from its owner (`MaxMoved`).
  Every property relates at most two Machines and adjacent entries of a chain;
  the theorems remove the bound.
* `access`: two Machines, two policies and two addresses, so that a Machine can
  name a policy bound to another; expiry 0 and 1 with the clock at 0, 1 and 2,
  so that before, at and after the boundary occur; two entries in all.
* `readers`: three objects, so that the parent of the verified Machine is a
  fork itself, and two entries in all, which is enough for one entry before
  and one during the reads, on either Machine. With one file exported, only
  anchoring is explored further (`OneFile`): no other mode reads the file. The
  indexer and the verifier share nothing but the chain, so one of them is
  active at a time (`OneReader`). The three violation runs of the verifier use
  `MCVerifier`, without the indexer.
* `client`: two commands in progress. Three kinds of history are explored
  (`Explored`): five commands of any kind but attestations on one Machine with
  two files, so that a snapshot can be a mixture (create, two runs and two
  checkpoints, or create, checkpoint, retire, checkpoint), or four on two
  Machines with one file each, so that the records of both overlap in the one
  `state.json` and a fork pins its parent's blob; four commands that run,
  checkpoint, restore and attest on one Machine with one file, with two
  enclaves of which one is in debug mode, and one attestation by
  others (`MaxOthers`) of an empty snapshot under sequence 0 or 1 (`Claims`),
  before or after the Machine and its checkpoint are there; and seven commands
  that run, checkpoint and restore there, which is what two checkpoints of
  different versions, a restore of the first and a third checkpoint take. The
  properties about attestations, and about what a directory can go back to, look
  at one Machine and one file at a time, and other commands touch neither. The
  run may stop when all commands are used up, so deadlock is not checked.
  `client_attest` excludes `OutOfGas` and others, so that its counterexample is
  the overlap; it and `client_claim` are offered only the commands they need
  (`Offered`).
* `restore`: a Machine with a policy and its fork, or two Machines; owner and
  grantee; three entries (checkpoint, grant, and a revoke, a second checkpoint
  or an expiry), clock at 0 and 1 with expiry 1; two key servers of which both
  must answer, so that they can disagree; two attempts, so that a first, a
  last and a retried one occur. The chain may come to rest, so deadlock is not
  checked.
* `console`: two environments, the second a fork of the first or created here;
  an owner and another address; two clicks, which is what can overlap (one per
  card); two entries on each chain, one of them the checkpoint a fork needs. One
  Machine at a time may be away from its owner, with one entry in all
  meanwhile, a checkpoint or a grant (`OneAway`); it can be given back. The clock stands
  still, so grants do not expire here: no decision of the tab and no check of
  what it sends depends on the clock. The user may stop clicking.
* `cas`: two writers, two hashes, four files.
* `MaxEntries`, `MaxTime`, `MaxCommands`, `MaxOthers`, `MaxClicks`, `MaxFiles`, and the
  `MaxTotal` of `Restore`, are guards; `MaxTotal` elsewhere, `MaxMoved`,
  `OneFile`, `OneReader`, `Explored` and `OneAway` are state constraints.
* Symmetry permutes object ids, addresses, blobs, policies, files and clients, none of
  which any definition distinguishes. It is used only in runs of safety
  properties, for which it is sound.

### Fairness

* `RestoreEnds`: weak fairness of `Command`, the steps of the restore in
  progress. Every await of the code is a call that returns or throws: RPC,
  aggregator and key server requests have timeouts of their own, and `Throws`
  is one of the steps. Nothing is assumed of the chain or of a lagging node.
* `SignedEnds`: weak fairness of `AfterSigning`, for each click: the HTTP
  requests, the wait for the node, which has a limit, and the refetch. Whether
  the user signs and whether the node ever catches up is left open, so the
  property says that a click does not depend on either.

No other module waits for anything, and no other fairness is assumed.

## 4. Proofs

The theorems hold for every set of object ids, senders, blobs, hashes,
payloads, policies, clients and key servers and for every bound. Those about
the chain rest on `BoundsAssumption`, `NoParentAssumption`, `RightsAssumption`
and `AccessPayloadsAssumption` only. TLC evaluates every assumption on the
instances it checks.

| Theorem | Statement |
|---|---|
| `TypeCorrect` | `Spec => []TypeOK` |
| `HeadReplay` | `Spec => []HeadReplaysFromEvents` |
| `SeqsContiguous` | `Spec => []CheckpointSeqsContiguous` |
| `AppendOnly` | `Spec => HistoryAppendOnly` |
| `Frozen` | `Spec => TransferredIsFrozen` |
| `Refinement` | `Spec => ImplementsVersionedEnvironment` |
| `NoCollision` | `Spec => []HeadsNeverCollide` |
| `CurrentState` | `Spec => []CurrentStateIsLastCheckpoint` |
| `LineageHolds` | `Spec => []ForkLineage` |
| `AccessRefines` | `AccessSpec => ImplementsMachine` |
| `AccessTypeCorrect` | `AccessSpec => []AccessTypeOK` |
| `Binding` | `AccessSpec => []PolicyBinding` |
| `OwnerStays` | `AccessSpec => []OwnerHoldsPolicy` |
| `GrantsReplay` | `AccessSpec => []GrantsReplayFromChain` |
| `Approvals` | `AccessSpec => ApprovalsFollowTheChain` |
| `PolicyFrozen` | `AccessSpec => TransferFreezesPolicy` |
| `ClientRefines` | `ClientSpec => Spec` |
| `StateIsCache` | `ClientSpec => []StateIsCacheOfChain` |
| `Restorable` | `ClientSpec => []AnchoredIsRestorable` |
| `LogsHaveRun` | `ClientSpec => []LogHasRun` |
| `NeverAhead` | `ClientSpec => []AttestationNeverAhead` |
| `PassingIsTrue` | `ClientSpec => []PassingAttestationIsTrue` |
| `CaveatsStay` | `ClientSpec => CaveatStays` |
| `RetiredDeclines` | `ClientSpec => RetirementDeclines` |
| `NeverOlder` | `ClientSpec => NoOlderSnapshot` |
| `RestoreRefines` | `RestoreSpec => AccessSpec` |
| `RestoredCurrent` | `RestoreSpec => []RestoredWasCurrent` |
| `RestoredOnRecord` | `RestoreSpec => []RestoredIsOnRecord` |
| `DenialDeserved` | `RestoreSpec => []DenialIsDeserved` |
| `WrongKeyForFork` | `RestoreSpec => []WrongKeyOnlyForFork` |
| `ConsoleRefines` | `ConsoleSpec => AccessSpec` |
| `SignedOnce` | `ConsoleSpec => []NeverTwice` |
| `StaysValid` | `ConsoleSpec => []TransactionsStayValid` |
| `ShownHadAccess` | `ConsoleSpec => []PeopleShownHadAccess` |
| `VerifierRefines` | `VerifierSpec => Spec` |
| `VerifierTrue` | `VerifierSpec => [](ChainFact /\ VerifierInv)` |
| `GatheredIsPrefix` | `VerifierSpec => []EntriesArePrefix` |
| `NoFalseAlarm` | `VerifierSpec => []QuietReadVerifies` |
| `PassingReports` | `VerifierSpec => []PassingReportIsTrue` |
| `LineageReports` | `VerifierSpec => []LineageNeverFailsFalsely` |
| `CleanEvidence` | `VerifierSpec => []CleanEvidenceIsTrue` |
| `AnchoredAudit` | `VerifierSpec => []AnchorIsTrue` |
| `ReadersRefines` | `ReadersSpec => VerifierSpec` |
| `ReadersTrue` | `ReadersSpec => [](ChainFact /\ ReadersInv)` |
| `ReadModelIsTrue` | `ReadersSpec => []IndexIsTrue` |
| `DeterministicRebuild` | `ReadersSpec => []RebuildIsDeterministic` |

That `Access`, `Client`, `Restore`, `Console`, `Verifier` and `Readers` behave as the
modules below them specify is proved, and not checked again in runs.
The refinements compose: what is proved of `Machine` holds of the chain under
`Access`, `Client` and `Verifier`, and both hold of the chain under `Restore`
and `Console`; what is proved of `Verifier` holds beside the indexer. The proofs
use that, instead of proving the chain's invariants again.

### Machine

`StepKinds` reduces every step to one of four: a create, a fork,
one chained entry (`ChainedStep`, which both `register_checkpoint` and
`append_head_entry` establish), or a step that leaves objects and events alone.
Three frame lemmas (`CreateFrame`, `ForkFrame`, `ExtendFrame`) say what each
kind leaves unchanged, in particular every head of the past. Each invariant is
then preserved by four short cases. `HeadReplaysFromEvents`,
`CheckpointSeqsContiguous`, `CurrentStateIsLastCheckpoint` and `ForkLineage`
are inductive together with `TypeOK` (and, for lineage, with the replay and
the pinned state of the parent at the moment of the fork).

`HeadsNeverCollide` is not inductive: equality of two heads says nothing about
where they came from. The strengthening is `HeadsHaveOrigin`: a head of Machine
`m` after `k` entries ends in a genesis or fork link that carries `m`'s own id,
followed by exactly `k` entry links. Origin and entry links are disjoint, so a
head determines its Machine and position (`OriginDetermines`).

`ChainOnlyGrows` is what the other modules need of a step: Machines stay,
keep owner, policy and origin, and their events and counts only grow.

### Access

`AccessTypeOK` and `PolicyBinding` are inductive. `GrantsReplayFromChain` needs
`PolicyBinding`: without it a grant on the chain of one Machine could stand for
a change in the policy of another. The action properties follow from the two.

### Client

`LocalInv` (in `ClientProofs`) is about the files and sessions alone: the versions in
directories, in sessions and in what was put back are those of commands that
ran, a log lists such commands once, and a command number handed to one session
is in no file. `ChainInv` (in `ClientChainProofs`) relates them to the chain:
what state.json and every session that is about to write it say of a Machine is
on the chain; what a session carries to the anchor is a snapshot that the
directory is not behind (`NotBehind`), sealed for that Machine, stored before it
is anchored; it is not behind any checkpoint that was there when the command
started (`Covers`); and, if the command could read the chain, no retirement was.
That a directory is not behind a snapshot stays true (`StaysAhead`): `run` writes
newer versions and records what it removes, `restore` records what it puts back.
Of the attestations of others `ChainInv` knows only that a registered key signed.
None of the eight properties is inductive: each is about what has reached the
chain or a file, and what will reach it next is in a session. Each fact is kept
because all it is about only grows; `CaveatStays` holds because an attestation, a
key and a checkpoint entry, once there, stay. `AnchorsAssumption` says that the
snapshots, directories and logs the commands make can be stored, hashed and
anchored.

### Restore

`RestoreInv` says of the chain, of the lagging node's view and of the job what
each step needs from the steps before it: blobs on the chain are sealed for the
Machine itself or, of a fork, for some Machine, a view knows no policy or
grantee that the chain does not have, the job's
ciphertext was current since its attempt began, and shares were given for the
identity that was asked, to somebody the chain has on record. That a grantee
cannot be taken off the record is `GranteesOnFile`: chains only grow.
`CiphertextsAssumption` says that ciphertexts are blobs.

### Console

`ConsoleInv` says that the node's view and the page were true of the chain at
some time, that a pending transaction was acceptable at such a time, and that
everything the Move code asks of it is stable: the owner field, the policy and
its binding never change, and a checkpoint is not taken back. Who holds the
Machine is not, so `StaysValid` leaves that open: a refusal is then the
transfer's. `NeverTwice` is
about `signed` and `executed` in every stage of a click. The proof needs
`SnapshotAssumption` (no snapshot has the blob id 0, which stands for none) to
see that a Machine with a checkpoint can be forked for ever.

### Verifier

`VerifierInv` follows one gather. `GatherFact` says of the reads in progress
that the object was read after `start` entries, that what was found is on the
chain, and that with the right package each of the first `start` entries has
been found or is of a type still to be queried (`Covered`); of a fork, the same
of the parent up to the position of the recorded parent head. `ResultFact` and
`EvidenceFact` are the six properties: a finished job and a file are only
compared with the chain's past, which no step changes (`Kept`).

What the gather computes needs induction over the entries. The library's
induction theorems take an operator as a parameter; instead, a set of naturals
that holds 0 and every successor holds them all (`NatSet`), because the naturals
are well-founded. With it `OrderIsPrefix` shows that `orderByLinkage`, given
some events of a chain whose heads are distinct, returns exactly those before
the first one missing, `CollectIsReplay` that `collectHeads` satisfies its
recursion, and `CheckpointsListed` what `checkpointsOf` selects. Distinct heads
are `HeadsNeverCollide`: this is where the verifier needs it. The step that
finishes then splits on what the job is for: a quiet one has the whole history,
which passes every check (`WholeHistoryPasses`); one that passes ends at the head
of the object, a position that is unique; and a file read back is the input it
was made from (`RoundTrip`).

`NoneAssumption` says that an absent fork or list of queries is none that can
be present.

### Indexer

What a read model should be is said without an order: `ModelOf(model, events)`
has one record for each id the events name, its owner and parent those of the
events that tell them, its list the checkpoint events in sequence. If the
events agree with each other (`Consistent`), there is only one such model
(`OneModel`: two strictly increasing lists of the same checkpoints are equal).
`ApplyStep` shows that `applyEvent` turns the model of some events into that of
those and one more, `BuildIsModel` by induction that `buildModel` returns the
model of the events it was given. So every order, with any event repeated,
gives the same one, which is `DeterministicRebuild`.

`ReadersInv` follows one replay. `SyncFact`: what was found has been emitted;
the Machines there at the start have their created event after the first query
and their forked event after the second; checkpoints are queried last.
`IndexFact`: the events of a finished replay have been emitted, have no
checkpoint without those before it (`Closed`; the one checkpoint query sees all
chains at one moment, and `SeqsKnown` says that sequences have no gap), and hold
every origin and checkpoint that was there at the start. A strictly increasing
list without a gap counts from 0 (`DenseList`), hence `ReadModelIsTrue`. That a
set of events can be put in order needs it to be finite: the Machines are
(`LiveFinite`), and chains are bounded by `MaxEntries`.

### Only model-checked

* `RestoreEnds` and `SignedEnds`: liveness.
* `ReadersSeeWholeObjects` of `Cas` and the other runs that expect a violation.

## 5. Not modelled, and why

* `migrate`, version guards: unreachable at version 1.
* Nitro documents and signature schemes: cryptography; a document pins the key
  of the enclave it comes from, and a signature is its preimage and its key.
* Walrus retention: blobs do not expire in `Client` and `Restore`.
* Two transactions of one key on the same version of an owned object: Sui
  rejects one, which is `Abort` before `Anchor`.
* Parsing of RPC answers, hex and BCS encodings, configuration loading: single
  sequential functions that unit tests reach.
* The Console's timeline, names, labels and themes: display. `isShareable`
  labels every Machine with a policy id, a fork that carries its parent's
  included, while the share panel checks the binding; only the panel acts.
* Query data of pages that were left: see *Console* above.
* A grant of the owner to itself in the Console: left to `Access`
  (see section 3).
* Transfers of Machines in `Client`: no command makes one, and after one the
  operator's commands on that Machine abort (`Abort`).
* Editing a working directory by hand: only `run` and `restore` change it, and
  the files of one `run` change in one step.
* The tree hashing, `drift` (no command calls it) and bundles of the engine:
  sequential functions over a directory tree.
* Evidence files that were tampered with, or written by another program:
  `CleanEvidenceIsTrue` is about files that `exportEvidence` wrote.
* A retirement query that misses an event it should have found:
  `RetirementDeclines` takes an answer to be up to date; a read that fails is
  modelled.
* Time in `Console` (see *Bounds*), and further entries made elsewhere: grants,
  revokes and retirements of the user's Machines come from the tab itself, whose
  node lags behind its own transactions as behind anybody's, and a second
  checkpoint changes nothing the tab decides on.
* Process, container and microVM drivers and the guest agent: they drive
  programs outside the repository; what reaches the chain from them, the
  command log and the directory, is in `Client`.
* The website and the design preview: static pages and mock data.

## 6. Plan

1. *Done*: all modules of section 2, and the theorems of section 4, which state
   every invariant and action property of the passing runs.
2. The tree hash and bundle format as operators, with restore after capture as
   the reference; the host and guest protocol of the microVM.
