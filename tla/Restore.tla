------------------------------ MODULE Restore ------------------------------
(***************************************************************************)
(* Restoring a Machine's latest checkpoint (packages/sdk/src/restore.ts)   *)
(* under the retry loop of the CLI and the MCP server, with the Seal key   *)
(* servers that decide on the approval.                                    *)
(*                                                                         *)
(* An attempt is a sequence of awaited reads while the owner checkpoints,  *)
(* shares, revokes and forks: the Machine object, the ciphertext, the      *)
(* policy object, then one request per key server.  A key server dry-runs  *)
(* the approval on a full node that may lag the chain.  Restores write     *)
(* nothing that another restore reads, so one at a time is enough.         *)
(***************************************************************************)
EXTENDS Access

CONSTANTS
  Servers,     \* number of Seal key servers
  Threshold,   \* key shares that decrypt
  Creator,     \* the operator that creates Machines
  PackageId,   \* the policy id of a Machine that has no policy of its own
  Attempts,    \* attempts of withSealRetry (5 in the code)
  MaxTotal     \* bound: provenance entries over all Machines

ASSUME RestoreAssumption ==
  /\ PackageId \in PolicyIds /\ Creator \in Addresses
  /\ Servers \in Nat /\ Threshold \in 1..Servers /\ Attempts \in Nat \ {0}

VARIABLES
  seen,  \* the policies, holders and clock of the key servers' slowest full node
  job    \* the restore in progress, or how the last one ended

restoreVars == <<accessVars, seen, job>>

(***************************************************************************)
(* crypto: the identity a checkpoint is sealed under                       *)
(***************************************************************************)
toIdentity(m) == <<m>>
toPolicyIdentity(p, m) == <<p, m>>

\* Any ciphertext can be stored and anchored.
Ciphertexts ==
  [sealed : {toIdentity(m) : m \in ObjectIds} \cup (PolicyIds \X ObjectIds), at : 0..MaxEntries]

ASSUME CiphertextsAssumption == Ciphertexts \subseteq Blobs

\* The checkpoint command passes the policy the Machine was created with, and
\* none for a Machine without one of its own.
encrypt(p, m) ==
  IF p \in DOMAIN policies /\ policies[p].machine = m
  THEN toPolicyIdentity(p, m) ELSE toIdentity(m)

(***************************************************************************)
(* The chain                                                               *)
(***************************************************************************)
Entries == [m \in ObjectIds |-> IF m \in Live THEN Len(log[m]) ELSE 0]
Total[S \in SUBSET ObjectIds] ==
  IF S = {} THEN 0 ELSE LET m == CHOOSE x \in S : TRUE IN Entries[m] + Total[S \ {m}]
Room == Total[ObjectIds] < MaxTotal

\* A checkpoint of the SDK; `at` tells one snapshot of a Machine from another.
checkpoint(s, m) ==
  \E h \in Manifests, x \in Payloads :
    register_checkpoint(s, m,
      [sealed |-> encrypt(machines[m].policy, m), at |-> machines[m].count], h, x)

\* Ids are interchangeable: one fresh id stands for all of them.
NewIds == LET fresh == ObjectIds \ Live IN
  IF fresh = {} THEN {} ELSE {CHOOSE m \in fresh : TRUE}

\* The clock matters to restores only while a grant has an expiry.
Expiring ==
  \E p \in DOMAIN policies : \E a \in DOMAIN policies[p].grants :
    policies[p].grants[a].expiry # NoExpiry

Chain ==
  \/ \E m \in NewIds, p \in PolicyIds \ {PackageId} : create_shared_machine(Creator, m, p)
  \/ /\ UNCHANGED policies
     /\ \/ \E s \in Addresses, m \in Live : Room /\ checkpoint(s, m)
        \/ \E s \in Addresses, m \in Live, c \in NewIds :
             \E p \in {PackageId, machines[m].policy} : fork(s, m, c, p)
        \/ Expiring /\ Tick
  \/ \E s \in Addresses, m \in Live, p \in PolicyIds, x \in Expiries :
       \E a \in Addresses \ {s} : Room /\ grant(s, m, p, a, FullRights, x)
  \/ \E s, a \in Addresses, m \in Live, p \in PolicyIds : Room /\ revoke(s, m, p, a)

(***************************************************************************)
(* The key servers (external: Seal)                                        *)
(***************************************************************************)
View == [policies |-> policies, holder |-> holder, now |-> now]

\* The slowest full node catches up with the chain; it is never more than one
\* transaction behind.
CatchUp ==
  /\ seen # View
  /\ seen' = View
  /\ UNCHANGED <<accessVars, job>>

\* reeg::policy::seal_approve.  The Machine is an owned input of the dry run
\* and its owner field never changes.
seal_approve(id, m, sender, v) ==
  id = toIdentity(m) /\ v.holder[m] = sender /\ machines[m].owner = sender

\* Faulty variant: whoever names the right identity is approved.
seal_approve_until_at_open(id, p, sender, v) == id = <<p, v.policies[p].machine>>

\* reeg::access::seal_approve_until on the state the server has.
seal_approve_until_at(id, p, sender, v) ==
  LET P == v.policies[p] IN
  /\ id = <<p, P.machine>>
  /\ sender \in DOMAIN P.grants
  /\ P.grants[sender].expiry = NoExpiry \/ v.now < P.grants[sender].expiry

\* What a server answers: a key share, a denial, or, when an input of the dry
\* run is not on its node yet, an error that is not a denial.
Answer(a, sender, v) ==
  LET known == IF a.fn = "seal_approve" THEN a.machine \in DOMAIN v.holder
               ELSE a.policy \in DOMAIN v.policies
      approved == IF a.fn = "seal_approve" THEN seal_approve(a.id, a.machine, sender, v)
                  ELSE seal_approve_until_at(a.id, a.policy, sender, v)
  IN IF ~known THEN "error" ELSE IF approved THEN "share" ELSE "denied"

(***************************************************************************)
(* restore.ts                                                              *)
(***************************************************************************)
\* buildSealApprove and buildSealApproveUntil.
buildSealApprove(m) == [fn |-> "seal_approve", id |-> toIdentity(m), machine |-> m]
buildSealApproveUntil(p, m) ==
  [fn |-> "seal_approve_until", id |-> toPolicyIdentity(p, m), policy |-> p]

\* readAccessPolicy: a package, or anything else that is no policy, throws
\* NotAnAccessPolicyError.
IsAccessPolicy(p) == p \in DOMAIN policies

buildApprove(p, m) ==
  IF IsAccessPolicy(p) /\ policies[p].machine = m
  THEN buildSealApproveUntil(p, m) ELSE buildSealApprove(m)

Ended == job.at \in {"none", "restored", "denied", "failed", "unpack-failed"}

\* `began` is the number of entries when the attempt began and `excused` says
\* that a server answered while the policy on chain denied the caller or a node
\* was behind; the code has neither.
Lags == seen # View

MayRestore(a, m) ==
  IF IsAccessPolicy(machines[m].policy) /\ policies[machines[m].policy].machine = m
  THEN Approved(machines[m].policy, a)
  ELSE holder[m] = a /\ machines[m].owner = a

Attempt(s, n) ==
  [at |-> "read-machine", who |-> s.who, machine |-> s.machine, n |-> n,
   began |-> Len(log[s.machine]), excused |-> s.excused]

\* What the attempt knows once the Machine is read, and once the approval is
\* built.
WithMachine(s, blob, policy) ==
  [at |-> "read-blob", who |-> s.who, machine |-> s.machine, n |-> s.n, began |-> s.began,
   excused |-> s.excused, blob |-> blob, policy |-> policy]

NoAnswers == [answer \in {"share", "denied", "error"} |-> 0]

WithApproval(s, approval) ==
  [at |-> "decrypt", who |-> s.who, machine |-> s.machine, n |-> s.n, began |-> s.began,
   excused |-> s.excused, blob |-> s.blob, policy |-> s.policy, approval |-> approval,
   answers |-> NoAnswers]

End(s, how) ==
  IF how = "restored"
  THEN [at |-> how, who |-> s.who, machine |-> s.machine, began |-> s.began, blob |-> s.blob]
  ELSE [at |-> how, excused |-> s.excused]

Go(next) == job' = next /\ UNCHANGED <<accessVars, seen>>

\* With a destination, or a working directory that state.json knows, the retry
\* loop starts.
BeginRestore(a, m) ==
  Ended /\ Go(Attempt([who |-> a, machine |-> m, excused |-> FALSE], 1))

registerRestore(a, m) == BeginRestore(a, m)
reeg_restore(a, m) == BeginRestore(a, m)

\* Faulty variant: an error is taken for a denial.
isAccessDenied_any(error) == TRUE

isAccessDenied(error) == error = "denied"

\* Faulty variant: attempts are not counted.
Retry_forever(s) == Attempt(s, s.n)

\* Faulty variant: an attempt goes on with the Machine the first one read.
Retry_keeps_machine(s) ==
  IF s.n = Attempts \/ s.at = "read-machine" THEN End(s, "failed")
  ELSE WithMachine(Attempt(s, s.n + 1), s.blob, s.policy)

\* The error was not a denial: all of restore() runs again, or the last error
\* is rethrown.
Retry(s) == IF s.n = Attempts THEN End(s, "failed") ELSE Attempt(s, s.n + 1)

withSealRetry(s, error) == IF isAccessDenied(error) THEN End(s, "denied") ELSE Retry(s)

\* readMachine.  A Machine without a checkpoint is an error like any other.
ReadMachine ==
  /\ job.at = "read-machine"
  /\ LET M == machines[job.machine] IN
     Go(IF M.blob = NoBlob THEN withSealRetry(job, "no-checkpoint")
        ELSE WithMachine(job, M.blob, M.policy))

\* readByU256: a blob never changes.
ReadBlob == job.at = "read-blob" /\ Go([job EXCEPT !.at = "approve"])

\* buildApprove reads the policy; the session key is signed locally.
Approve ==
  /\ job.at = "approve"
  /\ Go(WithApproval(job, buildApprove(job.policy, job.machine)))

\* Faulty variant: a policy that cannot be read makes the Machine owner-only.
PolicyUnreadable_downgrades(s) == WithApproval(s, buildSealApprove(s.machine))

\* A failed read of the policy is rethrown and retried.
PolicyUnreadable(s) == withSealRetry(s, "transport")

Asked == job.answers.share + job.answers.denied + job.answers.error

\* decrypt: a request to each key server, answered on a full node that is up
\* to date or on the slowest one.
AskServer ==
  /\ job.at = "decrypt" /\ Asked < Servers
  /\ \E v \in {View, seen} :
       Go([job EXCEPT !.answers[Answer(job.approval, job.who, v)] = @ + 1,
                      !.excused = @ \/ Lags \/ ~MayRestore(job.who, job.machine)])

\* Enough shares decrypt, if they are shares for the identity the ciphertext
\* is sealed under.
Decrypt ==
  /\ job.at = "decrypt" /\ job.answers.share >= Threshold
  /\ Go(IF job.approval.id = job.blob.sealed THEN [job EXCEPT !.at = "unpack"]
        ELSE withSealRetry(job, "wrong-key"))

\* All answered without enough shares: the most frequent error is thrown.
NotEnoughShares ==
  /\ job.at = "decrypt" /\ Asked = Servers /\ job.answers.share < Threshold
  /\ \E error \in {"denied", "error"} :
       /\ \A other \in {"denied", "error"} : job.answers[error] >= job.answers[other]
       /\ Go(withSealRetry(job, error))

\* engineRestore, outside the retry loop.
Unpack ==
  /\ job.at = "unpack"
  /\ \/ Go(End(job, "restored"))
     \/ Go(End(job, "unpack-failed"))

\* A call throws an error that is not a denial.
Throws ==
  /\ job.at \in {"read-machine", "read-blob", "approve", "decrypt"}
  /\ Go(IF job.at = "approve" THEN PolicyUnreadable(job) ELSE withSealRetry(job, "transport"))

RestoreInit ==
  /\ AccessInit
  /\ seen = View
  /\ job = [at |-> "none"]

Command ==
  \/ ReadMachine \/ ReadBlob \/ Approve \/ AskServer
  \/ Decrypt \/ NotEnoughShares \/ Unpack \/ Throws

RestoreNext ==
  \/ Chain /\ seen' = View /\ UNCHANGED job
  \/ CatchUp
  \/ \E a \in Addresses, m \in Live : registerRestore(a, m) \/ reeg_restore(a, m)
  \/ Command

\* Every awaited call of a command returns or throws.
RestoreSpec == RestoreInit /\ [][RestoreNext]_restoreVars /\ WF_restoreVars(Command)

-----------------------------------------------------------------------------
(***************************************************************************)
(* Properties                                                              *)
(***************************************************************************)
\* A restore returns a snapshot that was the Machine's current one at some
\* moment since its last attempt began: a retry starts over from the Machine
\* object and never unpacks what an earlier attempt had read.
RestoredWasCurrent ==
  job.at = "restored" =>
    \E k \in job.began..Len(log[job.machine]) : BlobAt(job.machine, k, job.blob)

\* The Machine a snapshot was sealed for.
SealedFor(blob) == blob.sealed[Len(blob.sealed)]

\* Whoever restores a snapshot is on record for it: the chain of the Machine
\* it is sealed for names the caller as owner, or in a GRANT entry when the
\* snapshot is sealed for a policy.  Lagging key servers, expired grants,
\* forks and foreign policy ids give nobody else a key.
RestoredIsOnRecord ==
  job.at = "restored" =>
    LET m == SealedFor(job.blob) IN
    \/ machines[m].owner = job.who
    \/ /\ job.blob.sealed = toPolicyIdentity(machines[m].policy, m)
       /\ \E i \in 1..Len(log[m]) :
            log[m][i].type = Grant /\ log[m][i].payload.grantee = job.who

\* "A NoAccessError is final": a restore that ends as denied had a server
\* answer while the policy on chain denied the caller, or while a node lagged;
\* no error of another kind, and no choice of the wrong approval, ends one
\* that the policy allows.
DenialIsDeserved == job.at = "denied" => job.excused

\* Shares for the wrong identity are only ever fetched for a fork that still
\* pins the snapshot of its parent ("forked-child restore is cross-identity"):
\* no failed read downgrades a shareable Machine to the owner-only approval,
\* and no checkpoint is sealed under an identity its Machine cannot ask for.
WrongKeyOnlyForFork ==
  job.at = "decrypt" /\ job.approval.id # job.blob.sealed =>
    /\ job.machine \in DOMAIN forks
    /\ SealedFor(job.blob) # job.machine

\* Every restore comes to an end, restored, denied or failed, however often
\* its calls throw and whatever happens on chain meanwhile.
RestoreEnds == ~Ended ~> Ended
=============================================================================
