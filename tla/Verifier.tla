------------------------------ MODULE Verifier ------------------------------
(***************************************************************************)
(* The independent verifier of packages/verify: it rebuilds a Machine's    *)
(* provenance from public reads and replays it to the on-chain head.       *)
(*                                                                         *)
(* gatherVerifyInput is a sequence of awaited reads while the chain moves  *)
(* on: the object first, then the fork event and the parent's events, then *)
(* one query per event type.  A query pages in ascending order until a     *)
(* page has no successor, so it returns the events of its type emitted up  *)
(* to its last page: one step.  The fork event, the parent field and the   *)
(* parent's own fork event never change once the child exists, so they are *)
(* read in the step of the fork event.                                     *)
(*                                                                         *)
(* Hex, decimal and byte-array encodings of one value are injective and    *)
(* are left out; what the evidence file adds and drops is kept.            *)
(***************************************************************************)
EXTENDS Machine, FiniteSets, Functions

CONSTANT None   \* an absent value

\* The heads of a replay, the genesis at 0.
HeadLists == UNION {[0..n -> Heads] : n \in 0..MaxEntries}

\* An absent list of queries or fork is none of those that can be present.
ASSUME NoneAssumption ==
  /\ None \notin Seq(ObjectIds \X EntryTypes)
  /\ None \notin [childHead : Heads, parentHead : Heads, parentGenesis : Heads]
  /\ None \notin [childHead : Heads, parentHead : Heads, parentHeads : HeadLists]
  /\ None \notin [parentId : ObjectIds, childHead : Heads, parentHead : Heads,
                  parentHeads : HeadLists]

VARIABLES
  job,       \* the gather in progress, or the last one with its result
  evidence   \* the exported evidence file, or None

verifierVars == <<vars, job, evidence>>

(***************************************************************************)
(* provenance.ts                                                           *)
(***************************************************************************)
genesisHead(id) == genesis_head(id)
computeForkChildHead(parentHead, id) == compute_fork_genesis(parentHead, id)

\* checkpointLink and accessLink keep the entry's fields and the two heads.
Entry(e) == [type |-> e.type, seq |-> e.seq, blob |-> e.blob,
             manifest |-> e.manifest, payload |-> e.payload, ts |-> e.ts]

\* Faulty variant: entries are ordered by seq, a checkpoint before the access
\* entry it shares its seq with.
orderByLinkage_by_seq(genesis, items) ==
  LET rank(i) == 2 * i.seq + (IF IsCheckpoint(i) THEN 0 ELSE 1)
      n == Cardinality(items)
      walk[k \in 0..n] ==
        IF k = 0 THEN <<>>
        ELSE LET left == items \ Range(walk[k - 1])
             IN Append(walk[k - 1], CHOOSE i \in left : \A j \in left : rank(i) <= rank(j))
  IN [k \in 1..n |-> Entry(walk[n][k])]

\* Follow prevHead -> newHead from the genesis; a link is used once and an
\* item that does not link is left out.
orderByLinkage(genesis, items) ==
  LET n == Cardinality(items)
      walk[k \in 0..n] ==
        IF k = 0 THEN <<>>
        ELSE LET taken == walk[k - 1]
                 head == IF taken = <<>> THEN genesis ELSE taken[Len(taken)].new
                 next == {i \in items \ Range(taken) : i.prev = head}
             IN IF next = {} THEN taken ELSE Append(taken, CHOOSE i \in next : TRUE)
  IN [k \in 1..Len(walk[n]) |-> Entry(walk[n][k])]

\* The heads a replay passes through: position 0 is the genesis.
collectHeads(genesis, entries) ==
  LET heads[k \in 0..Len(entries)] ==
        IF k = 0 THEN genesis ELSE compute_entry_hash(heads[k - 1], entries[k])
  IN heads

replayChain(genesis, entries) == collectHeads(genesis, entries)[Len(entries)]

(***************************************************************************)
(* verifyMachine: the names of the checks that fail                        *)
(***************************************************************************)
chainGenesis(input) ==
  IF input.fork = None THEN genesisHead(input.id) ELSE input.fork.childHead

resolveGenesis(input) ==
  IF input.fork = None THEN {}
  ELSE {c \in {"fork-binding", "fork-parent-head"} :
          CASE c = "fork-binding" ->
                 input.fork.childHead # computeForkChildHead(input.fork.parentHead, input.id)
            [] c = "fork-parent-head" ->
                 input.fork.parentHead \notin Range(input.fork.parentHeads)}

\* The entries that are checkpoints: SelectSeq as a recursive function, which
\* proofs can unfold.
checkpointsOf(entries) ==
  LET among[k \in 0..Len(entries)] ==
        IF k = 0 THEN <<>>
        ELSE IF IsCheckpoint(entries[k]) THEN Append(among[k - 1], entries[k])
        ELSE among[k - 1]
  IN among[Len(entries)]

\* Faulty variant: the replayed head is not compared with the object's.
verifyMachine_without_head(input) ==
  LET checkpoints == checkpointsOf(input.entries)
  IN IF Len(checkpoints) # input.machine.count THEN {"checkpoint-count"} ELSE {}

verifyMachine(input) ==
  LET M == input.machine
      checkpoints == checkpointsOf(input.entries)
      n == Len(checkpoints)
      anchors == IF n = 0 THEN {} ELSE {"current-blob-id", "manifest-hash"}
  IN resolveGenesis(input) \cup
     {c \in {"provenance-head", "checkpoint-count", "sequence-contiguous"} \cup anchors :
        CASE c = "provenance-head" -> replayChain(chainGenesis(input), input.entries) # M.head
          [] c = "checkpoint-count" -> n # M.count
          [] c = "sequence-contiguous" -> \E i \in 1..n : checkpoints[i].seq # i - 1
          [] c = "current-blob-id" -> checkpoints[n].blob # M.blob
          [] c = "manifest-hash" -> checkpoints[n].manifest # M.manifest}

(***************************************************************************)
(* evidence.ts                                                             *)
(***************************************************************************)
toEvidence(input) ==
  [id |-> input.id, machine |-> input.machine,
   entries |-> [i \in 1..Len(input.entries) |->
     [entry |-> input.entries[i],
      entryHash |-> collectHeads(chainGenesis(input), input.entries)[i]]],
   fork |-> IF input.fork = None THEN None
            ELSE [parentId |-> input.machine.parent, parentHead |-> input.fork.parentHead,
                  childHead |-> input.fork.childHead, parentHeads |-> input.fork.parentHeads]]

fromEvidence(ev) ==
  [id |-> ev.id, machine |-> ev.machine,
   entries |-> [i \in 1..Len(ev.entries) |-> ev.entries[i].entry],
   fork |-> IF ev.fork = None THEN None
            ELSE [parentHead |-> ev.fork.parentHead, childHead |-> ev.fork.childHead,
                  parentHeads |-> ev.fork.parentHeads]]

verifyEvidence(ev) == verifyMachine(fromEvidence(ev))

\* What fails an audit: the offline checks, and the anchors if there are any.
audit(ev, anchors) == verifyEvidence(ev) \cup anchors

\* Faulty variant: the Machine object is not compared.
compareEvidence_without_machine(a, b) ==
  {c \in {"anchor-provenance", "anchor-lineage"} :
     CASE c = "anchor-provenance" -> a.entries # b.entries
       [] c = "anchor-lineage" -> a.fork # b.fork}

compareEvidence(a, b) ==
  {c \in {"anchor-machine", "anchor-provenance", "anchor-lineage"} :
     CASE c = "anchor-machine" -> a.id # b.id \/ a.machine # b.machine
       [] c = "anchor-provenance" -> a.entries # b.entries
       [] c = "anchor-lineage" -> a.fork # b.fork}

(***************************************************************************)
(* readers.ts                                                              *)
(***************************************************************************)
\* queryMachineEvents, in the package the caller names: the wrong package
\* has no events of this Machine.
queryMachineEvents(package, m, type) ==
  IF package = "wrong" THEN {} ELSE {e \in Range(log[m]) : e.type = type}

\* Faulty variant: the parent's access entries are not fetched.
parentQueries_checkpoints_only(parent) == <<<<parent, Checkpoint>>, <<parent, Retire>>>>

parentQueries(parent) ==
  <<<<parent, Checkpoint>>, <<parent, Grant>>, <<parent, Revoke>>, <<parent, Retire>>>>

\* Faulty variant: retirements are not fetched.
ownQueries_without_retire(m) == <<<<m, Checkpoint>>, <<m, Grant>>, <<m, Revoke>>>>

ownQueries(m) == <<<<m, Checkpoint>>, <<m, Grant>>, <<m, Revoke>>, <<m, Retire>>>>

\* reconstructAccessTimeline: the grants, then the revokes, stably sorted by
\* timestamp and seq.
reconstructAccessTimeline(m) ==
  LET access == {i \in 1..Len(log[m]) : log[m][i].type \in {Grant, Revoke}}
      rank(i) == <<log[m][i].ts, log[m][i].seq, IF log[m][i].type = Grant THEN 0 ELSE 1, i>>
      before(i, j) == \E k \in 1..4 : /\ rank(i)[k] < rank(j)[k]
                                      /\ \A l \in 1..(k - 1) : rank(i)[l] = rank(j)[l]
      place(i) == Cardinality({j \in access : before(j, i)}) + 1
  IN [k \in 1..Cardinality(access) |-> log[m][CHOOSE i \in access : place(i) = k]]

Idle == [mode |-> "idle", todo |-> None, input |-> None, failed |-> {}]

\* gatherVerifyInput reads the Machine object.  `start` remembers how long
\* the chain was then; the code has no such variable.
Started(mode, package, m) ==
  [mode |-> mode, package |-> package, target |-> m,
   machine |-> machines[m], start |-> Len(log[m]), fork |-> None,
   links |-> {}, parentLinks |-> {},
   todo |-> IF machines[m].parent = NoParent THEN ownQueries(m) ELSE <<>>,
   input |-> None, failed |-> {}]

Begin(mode, package, m) ==
  /\ job.todo = None
  /\ job' = Started(mode, package, m)
  /\ UNCHANGED <<vars, evidence>>

(***************************************************************************)
(* The commands and tools that read.  One of them runs at a time; the      *)
(* package id is an option, so it may be the wrong one.                    *)
(***************************************************************************)
registerVerify(package, m) == Begin("verify", package, m)
reeg_verify(package, m) == Begin("verify", package, m)

registerEvidence(package, m) == Begin("export", package, m)
reeg_evidence(package, m) == Begin("export", package, m)

\* The Console's "Verify independently" and "Export evidence", which know the
\* package.
useVerification(m) == Begin("verify", "right", m)
onExport(m) == Begin("export", "right", m)

\* An audit without an anchor reads the file only.
AuditFile ==
  /\ job.todo = None
  /\ evidence # None
  /\ job' = [Idle EXCEPT !.mode = "audit", !.failed = audit(evidence, {})]
  /\ UNCHANGED <<vars, evidence>>

Audit(anchor, package) ==
  IF anchor THEN evidence # None /\ Begin("anchor", package, evidence.id) ELSE AuditFile

registerAudit(anchor, package) == Audit(anchor, package)
reeg_audit(anchor, package) == Audit(anchor, package)

NeedsFork == job.todo = <<>> /\ job.fork = None /\ job.machine.parent # NoParent

\* fetchForkEvent, and the parent's genesis in parentChainHeads.
FetchFork ==
  /\ NeedsFork
  /\ job.package = "right"
  /\ LET f == forks[job.target] IN
     job' = [job EXCEPT !.fork = [childHead |-> f.childHead, parentHead |-> f.parentHead,
                                  parentGenesis |-> StartHead(f.parent)],
                        !.todo = parentQueries(f.parent) \o ownQueries(job.target)]
  /\ UNCHANGED <<vars, evidence>>

\* ForkEventMissingError: verify and anchor report one failed check, export
\* throws and writes nothing.
ForkEventMissing ==
  /\ NeedsFork
  /\ job.package = "wrong"
  /\ job' = [job EXCEPT !.todo = None,
       !.failed = IF job.mode = "anchor" THEN audit(evidence, {"anchor-lineage"})
                  ELSE {"fork-event"}]
  /\ UNCHANGED <<vars, evidence>>

\* One awaited event query.
Query ==
  /\ job.todo # None /\ job.todo # <<>>
  /\ LET q == Head(job.todo)
         found == queryMachineEvents(job.package, q[1], q[2])
     IN job' = [job EXCEPT !.todo = Tail(@),
                  !.links = @ \cup (IF q[1] = job.target THEN found ELSE {}),
                  !.parentLinks = @ \cup (IF q[1] = job.target THEN {} ELSE found)]
  /\ UNCHANGED <<vars, evidence>>

VerifyInput ==
  LET f == job.fork
      genesis == IF f = None THEN genesisHead(job.target) ELSE f.childHead
  IN [id |-> job.target, machine |-> job.machine,
      entries |-> orderByLinkage(genesis, job.links),
      fork |-> IF f = None THEN None
               ELSE [parentHead |-> f.parentHead, childHead |-> f.childHead,
                     parentHeads |-> collectHeads(f.parentGenesis,
                       orderByLinkage(f.parentGenesis, job.parentLinks))]]

\* The reads are done: verifyFromChain reports, exportEvidence writes the
\* file, anchorEvidence compares the file with what it read.
Finish ==
  /\ job.todo = <<>> /\ ~NeedsFork
  /\ job' = [job EXCEPT !.todo = None, !.input = VerifyInput, !.links = {}, !.parentLinks = {},
       !.failed = CASE job.mode = "verify" -> verifyMachine(VerifyInput)
                    [] job.mode = "export" -> {}
                    [] job.mode = "anchor" ->
                         audit(evidence, compareEvidence(toEvidence(VerifyInput), evidence))]
  /\ evidence' = IF job.mode = "export" THEN toEvidence(VerifyInput) ELSE evidence
  /\ UNCHANGED vars

\* A read throws.  retry runs the whole gather again, with a new object read,
\* or the last attempt has failed and the command ends without a result.
retry == Started(job.mode, job.package, job.target)

ReadThrows ==
  /\ job.todo # None
  /\ job' \in {retry, Idle}
  /\ UNCHANGED <<vars, evidence>>

VerifierInit == Init /\ job = Idle /\ evidence = None

VerifierNext ==
  \/ Next /\ UNCHANGED <<job, evidence>>
  \/ \E package \in {"right", "wrong"} :
       \/ \E m \in Live : \/ registerVerify(package, m) \/ reeg_verify(package, m)
                         \/ registerEvidence(package, m) \/ reeg_evidence(package, m)
       \/ \E anchor \in BOOLEAN : registerAudit(anchor, package) \/ reeg_audit(anchor, package)
  \/ \E m \in Live : useVerification(m) \/ onExport(m)
  \/ FetchFork \/ ForkEventMissing \/ Query \/ Finish \/ ReadThrows

VerifierSpec == VerifierInit /\ [][VerifierNext]_verifierVars

-----------------------------------------------------------------------------
(***************************************************************************)
(* Properties                                                              *)
(***************************************************************************)
Reported(mode) == job.mode = mode /\ job.todo = None
Gathered == job.todo = None /\ job.input # None
Right == job.package = "right"

\* The target's chain has not grown since its object was read.
Quiet == Len(log[job.target]) = job.start

History(m, n) == [i \in 1..n |-> Entry(log[m][i])]

\* However the reads interleave with new entries, what the linkage order
\* keeps is a prefix of the true history, never a history with a hole: an
\* event of a late query whose predecessor an earlier query missed is left out.
EntriesArePrefix ==
  Gathered => LET E == job.input.entries IN
    Len(E) <= Len(log[job.target]) /\ E = History(job.target, Len(E))

\* A Machine that did not move while it was read verifies: no fork of a
\* fork, grant, revoke, retirement, or activity on other Machines makes
\* verifyFromChain raise a false alarm.
QuietReadVerifies ==
  Reported("verify") /\ Right /\ Quiet => job.failed = {}

\* A passing report is about the whole history: it passes only if the
\* replayed entries are exactly those emitted before the object was read,
\* with the right or the wrong package id.
PassingReportIsTrue ==
  Reported("verify") /\ job.failed = {} =>
    job.input.entries = History(job.target, job.start)

\* The lineage checks hold whatever the parent does while it is read: its
\* events are fetched after the fork event, so the recorded parent head is
\* among the heads replayed from them, access and retire entries included.
LineageNeverFailsFalsely ==
  Gathered /\ Right => resolveGenesis(job.input) = {}

\* An evidence file that audits clean offline stays a true record: its
\* entries are the Machine's first entries and its head the head they lead
\* to, however far the Machine has moved since the export.
CleanEvidenceIsTrue ==
  evidence # None /\ verifyEvidence(evidence) = {} =>
    LET E == evidence.entries
        n == Len(E)
    IN /\ n <= Len(log[evidence.id])
       /\ evidence.machine.head = HeadAt(evidence.id, n)
       /\ \A i \in 1..n : E[i].entry = Entry(log[evidence.id][i])
                          /\ E[i].entryHash = HeadAt(evidence.id, i)

\* An anchored audit passes only when the file records the Machine as it was
\* read, exactly the entries emitted until then, and the lineage the chain has,
\* whatever was appended while the file was written and while it is compared,
\* and whichever package id it is read with.
AnchorIsTrue ==
  Reported("anchor") /\ job.failed = {} =>
    /\ evidence.machine = job.machine
    /\ Len(evidence.entries) = job.start
    /\ \A i \in 1..job.start : evidence.entries[i].entry = Entry(log[job.target][i])
    /\ evidence.fork = None <=> job.target \notin DOMAIN forks
    /\ evidence.fork # None =>
         LET f == forks[job.target] IN
         /\ evidence.fork.parentId = f.parent /\ evidence.fork.parentHead = f.parentHead
         /\ evidence.fork.childHead = f.childHead
         /\ f.parentHead \in Range(evidence.fork.parentHeads)

\* "verification passes on a good run": with the right package every report
\* on a Machine passes.
GoodRunVerifies == Reported("verify") /\ Right => job.failed = {}

\* "confirms the recorded head, checkpoint count, blob id, and manifest still
\* match the chain": a file from a quiet export anchors while the Machine it
\* records is unchanged.
AnchorsWhileUnchanged ==
  /\ Reported("anchor") /\ Right /\ Quiet
  /\ verifyEvidence(evidence) = {} /\ evidence.machine = machines[job.target]
  => job.failed = {}

IsAccess(e) == e.type \in {Grant, Revoke}

\* "Reconstruct a Machine's sharing history (grants and revokes) from access
\* events alone, in emission order."
TimelineInEmissionOrder ==
  \A m \in Live : reconstructAccessTimeline(m) = SelectSeq(log[m], IsAccess)
=============================================================================
