---------------------------- MODULE ClientProofs ----------------------------
(***************************************************************************)
(* TLAPS proofs about Client: however the operator's commands overlap and  *)
(* die, their files keep in order and the chain sees only what Machine     *)
(* allows.  ClientChainProofs relates the files to the chain.              *)
(***************************************************************************)
EXTENDS Client, MachineProofs, FiniteSetTheorems

(***************************************************************************)
(* Logs and directories                                                    *)
(***************************************************************************)
\* A log is an injective sequence of commands.
LEMMA LogIsSeq ==
  ASSUME NEW d \in Logs
  PROVE  d \in Seq(Commands) /\ IsInjective(d) /\ Len(d) \in Nat
<1>1. PICK n \in 0..MaxCommands : d \in [1..n -> Commands] /\ IsInjective(d)
  BY DEF Logs
<1> QED
  BY <1>1, ClientAssumption

\* An injective sequence of commands is no longer than there are commands, so
\* it is a log.
LEMMA SeqIsLog ==
  ASSUME NEW d \in Seq(Commands), IsInjective(d)
  PROVE  d \in Logs
<1>1. Len(d) \in Nat /\ d \in [1..Len(d) -> Commands]
  OBVIOUS
<1>2. d \in Injection(1..Len(d), Commands)
  BY <1>1 DEF Injection
<1>a. ASSUME NEW n \in Nat PROVE IsFiniteSet(1..n) /\ Cardinality(1..n) = n
  <2>0. 1 \in Int /\ n \in Int
    OBVIOUS
  <2>1. /\ IsFiniteSet(1..n)
        /\ Cardinality(1..n) = IF 1 > n THEN 0 ELSE n - 1 + 1
    BY <2>0, FS_Interval, Zenon
  <2> QED
    BY <2>1
<1>3. /\ IsFiniteSet(Commands) /\ Cardinality(Commands) = MaxCommands
      /\ Cardinality(1..Len(d)) = Len(d)
  BY <1>1, <1>a, ClientAssumption DEF Commands
<1>4. Cardinality(1..Len(d)) <= Cardinality(Commands)
  BY <1>2, <1>3, FS_Injection
<1>5. Len(d) \in 0..MaxCommands
  BY <1>1, <1>3, <1>4, ClientAssumption
<1> QED
  BY <1>1, <1>5 DEF Logs

\* A command that is not listed extends a log.
LEMMA LogAppend ==
  ASSUME NEW d \in Logs, NEW id \in Commands, id \notin Range(d)
  PROVE  /\ Append(d, id) \in Logs
         /\ Range(Append(d, id)) = Range(d) \cup {id}
<1>1. d \in Seq(Commands) /\ IsInjective(d) /\ Len(d) \in Nat
  BY LogIsSeq
<1>2. /\ Append(d, id) \in Seq(Commands)
      /\ DOMAIN Append(d, id) = 1..(Len(d) + 1) /\ DOMAIN d = 1..Len(d)
      /\ Append(d, id)[Len(d) + 1] = id
      /\ \A i \in 1..Len(d) : Append(d, id)[i] = d[i]
  BY <1>1
<1>3. \A i \in 1..Len(d) : d[i] # id
  BY <1>1, <1>2 DEF Range
<1>4. IsInjective(Append(d, id))
  <2> SUFFICES ASSUME NEW i \in 1..(Len(d) + 1), NEW j \in 1..(Len(d) + 1),
                      Append(d, id)[i] = Append(d, id)[j]
               PROVE  i = j
    BY <1>2 DEF IsInjective
  <2>1. CASE i \in 1..Len(d) /\ j \in 1..Len(d)
    BY <1>1, <1>2, <2>1 DEF IsInjective
  <2>2. CASE i = Len(d) + 1 \/ j = Len(d) + 1
    BY <1>1, <1>2, <1>3, <2>2
  <2> QED
    BY <1>1, <2>1, <2>2
<1>5. Range(Append(d, id)) = Range(d) \cup {id}
  BY <1>1, <1>2 DEF Range
<1> QED
  BY <1>2, <1>4, <1>5, SeqIsLog

\* A directory is a function from files to commands.
LEMMA DirectoryIsFunction ==
  ASSUME NEW d
  PROVE  d \in Directories <=> DOMAIN d \subseteq Files /\ d \in [DOMAIN d -> Commands]
  BY DEF Directories

\* What a command leaves of a directory is one.
LEMMA ChangedIsDirectory ==
  ASSUME NEW d \in Directories, NEW wrote \in SUBSET Files, NEW gone, NEW n \in Commands
  PROVE  Changed(d, wrote, gone, n) \in Directories
<1>1. DOMAIN d \subseteq Files /\ d \in [DOMAIN d -> Commands]
  BY DirectoryIsFunction
<1>2. /\ DOMAIN Changed(d, wrote, gone, n) = (DOMAIN d \ gone) \cup wrote
      /\ \A f \in (DOMAIN d \ gone) \cup wrote :
           Changed(d, wrote, gone, n)[f] = IF f \in wrote THEN n ELSE d[f]
  BY DEF Changed
<1>3. Changed(d, wrote, gone, n) \in [(DOMAIN d \ gone) \cup wrote -> Commands]
  BY <1>1 DEF Changed
<1> QED
  BY <1>1, <1>2, <1>3, DirectoryIsFunction

\* So is what an unpacked file makes of it.
LEMMA UnpackedIsDirectory ==
  ASSUME NEW d \in Directories, NEW f \in Files, NEW n \in Commands
  PROVE  With(d, f, n) \in Directories
<1>1. DOMAIN d \subseteq Files /\ d \in [DOMAIN d -> Commands]
  BY DirectoryIsFunction
<1>2. DOMAIN With(d, f, n) = DOMAIN d \cup {f}
  BY DEF With
<1>3. With(d, f, n) \in [DOMAIN d \cup {f} -> Commands]
  BY <1>1 DEF With
<1> QED
  BY <1>1, <1>2, <1>3, DirectoryIsFunction

(***************************************************************************)
(* The local half of the inductive invariant: the operator's files and     *)
(* what a command in progress remembers of them.                           *)
(***************************************************************************)
Policies == PolicyIds \cup {NoPolicy}
StateFiles == UNION {[S -> Policies] : S \in SUBSET ObjectIds}

\* text lists only commands that ran in m.
Listed(m, text) == Range(text) \subseteq 1..ran[m]

\* dir holds only files that commands of m wrote.
Seen(m, dir) == \A f \in DOMAIN dir : dir[f] <= ran[m]

\* The shapes of a command in progress, by the step it is at.
Recording   == [at : {"record"}, machine : ObjectIds, policy : Policies]
Writing     == [at : {"truncate", "flush"}, file : StateFiles]
Executing   == [at : {"exec"}, machine : ObjectIds, entries : Logs]
Logging     == [at : {"log-truncate", "log-flush"}, machine : ObjectIds, entries : Logs]
Checking    == [at : {"check"}, machine : ObjectIds, policy : Policies, attest : BOOLEAN,
                since : Nat]
Capturing   == [at : {"capture"}, machine : ObjectIds, policy : Policies, attest : BOOLEAN,
                since : Nat, blind : BOOLEAN]
LoadingLog  == [at : {"load-log"}, machine : ObjectIds, attest : BOOLEAN, since : Nat,
                blind : BOOLEAN, manifest : Directories, blob : Snapshots]
Anchoring   == [at : {"store", "anchor"}, machine : ObjectIds, attest : BOOLEAN, since : Nat,
                blind : BOOLEAN, manifest : Directories, blob : Snapshots, payload : Logs]
ReadingBack == [at : {"read-back"}, machine : ObjectIds, manifest : Directories]
Fetching    == [at : {"fetch"}, machine : ObjectIds]
Restoring   == [at : {"unpack"}, machine : ObjectIds, dir : Directories, left : SUBSET Files]

Shape(s) ==
  /\ s.at = "record" => s \in Recording
  /\ s.at \in {"truncate", "flush"} => s \in Writing
  /\ s.at = "exec" => s \in Executing
  /\ s.at \in {"log-truncate", "log-flush"} => s \in Logging
  /\ s.at = "check" => s \in Checking
  /\ s.at = "capture" => s \in Capturing
  /\ s.at = "load-log" => s \in LoadingLog
  /\ s.at \in {"store", "anchor"} => s \in Anchoring
  /\ s.at = "read-back" => s \in ReadingBack
  /\ s.at = "fetch" => s \in Fetching
  /\ s.at = "unpack" => s \in Restoring

\* A snapshot is of files that commands of its Machine wrote.
BlobSeen(b) == Seen(b.sealedFor[2], b.dir)

\* What the operator's own files make true of a command in progress.
LocalFact(s) ==
  /\ Shape(s)
  /\ s.at \in {"exec", "log-truncate", "log-flush"} => Listed(s.machine, s.entries)
  /\ s.at \in {"load-log", "store", "anchor"} => BlobSeen(s.blob)
  /\ s.at \in {"store", "anchor"} => Listed(s.machine, s.payload)
  /\ s.at = "unpack" => Seen(s.machine, s.dir) /\ s.left \subseteq DOMAIN s.dir

FilesOK ==
  /\ stateFile \in StateFiles \cup {Torn}
  /\ cmdlog \in [ObjectIds -> Logs \cup {Torn}]
  /\ issued \in 0..MaxCommands
  /\ \A m \in ObjectIds : cmdlog[m] # Torn => cmdlog[m] \in Logs /\ Listed(m, cmdlog[m])

DirsOK ==
  /\ workdir \in [ObjectIds -> Directories]
  /\ ran \in [ObjectIds -> 0..MaxCommands]
  /\ removed \in [ObjectIds -> SUBSET (Files \X Commands)]
  /\ putBack \in [ObjectIds -> SUBSET (Files \X Commands)]
  /\ \A m \in ObjectIds : Seen(m, workdir[m])

StoredOK == \A b \in stored : b \in Snapshots /\ BlobSeen(b)

SessionsOK ==
  /\ session = [c \in Clients |-> session[c]]
  /\ \A c \in Clients : LocalFact(session[c])

LocalInv == FilesOK /\ DirsOK /\ StoredOK /\ SessionsOK

(***************************************************************************)
(* Sessions                                                                *)
(***************************************************************************)
\* Goto changes the session of one client.
LEMMA GotoEffect ==
  ASSUME session = [c \in Clients |-> session[c]], NEW c \in Clients, NEW v, Goto(c, v)
  PROVE  /\ session' = [d \in Clients |-> session'[d]]
         /\ session'[c] = v /\ \A d \in Clients \ {c} : session'[d] = session[d]
<1>1. session' = [session EXCEPT ![c] = v]
  BY DEF Goto
<1>2. session' = [d \in Clients |-> IF d = c THEN v ELSE session[d]]
  BY <1>1
<1> QED
  BY <1>2

\* Commands that ran have run.
RanGrows ==
  \A m \in ObjectIds : ran[m] \in Nat /\ ran'[m] \in Nat /\ ran[m] <= ran'[m]

\* So a log or directory that lists them keeps listing them.
LEMMA SeenKept ==
  ASSUME RanGrows, NEW m \in ObjectIds
  PROVE  /\ \A text : Listed(m, text) => Listed(m, text)'
         /\ \A d \in Directories : Seen(m, d) => Seen(m, d)'
<1>1. ran[m] \in Nat /\ ran'[m] \in Nat /\ ran[m] <= ran'[m]
  BY DEF RanGrows
<1>2. 1..ran[m] \subseteq 1..ran'[m]
  BY <1>1
<1>3. ASSUME NEW d \in Directories, Seen(m, d) PROVE Seen(m, d)'
  <2> SUFFICES ASSUME NEW f \in DOMAIN d PROVE d[f] <= ran'[m]
    BY DEF Seen
  <2>1. d[f] \in Int /\ d[f] <= ran[m]
    BY <1>3, DirectoryIsFunction DEF Seen, Commands
  <2> QED
    BY <1>1, <2>1
<1> QED
  BY <1>2, <1>3 DEF Listed

LEMMA BlobSeenKept ==
  ASSUME RanGrows, NEW b \in Snapshots, BlobSeen(b)
  PROVE  BlobSeen(b)'
<1>1. b.dir \in Directories /\ b.sealedFor[2] \in ObjectIds
  BY DEF Snapshots
<1> QED
  BY <1>1, SeenKept DEF BlobSeen

\* What the files make true of a command stays true while commands run.
LEMMA LocalFactKept ==
  ASSUME NEW s, LocalFact(s), RanGrows
  PROVE  LocalFact(s)'
<1>1. s.at \in {"exec", "log-truncate", "log-flush"} => Listed(s.machine, s.entries)'
  BY SeenKept DEF LocalFact, Shape, Executing, Logging
<1>2. s.at \in {"store", "anchor"} => Listed(s.machine, s.payload)'
  BY SeenKept DEF LocalFact, Shape, Anchoring
<1>3. s.at \in {"load-log", "store", "anchor"} => BlobSeen(s.blob)'
  BY BlobSeenKept DEF LocalFact, Shape, Anchoring, LoadingLog
<1>4. s.at = "unpack" => Seen(s.machine, s.dir)' /\ s.left \subseteq DOMAIN s.dir
  BY SeenKept DEF LocalFact, Shape, Restoring
<1> QED
  BY <1>1, <1>2, <1>3, <1>4 DEF LocalFact

\* The other sessions are as they were.
LEMMA SessionsKept ==
  ASSUME SessionsOK, RanGrows, NEW c \in Clients, NEW v, Goto(c, v), LocalFact(v)'
  PROVE  SessionsOK'
<1>1. /\ session' = [d \in Clients |-> session'[d]]
      /\ session'[c] = v /\ \A d \in Clients \ {c} : session'[d] = session[d]
  BY GotoEffect DEF SessionsOK
<1>2. ASSUME NEW d \in Clients PROVE LocalFact(session[d])'
  <2>1. CASE d = c
    BY <1>1, <2>1
  <2>2. CASE d # c
    <3>1. PICK s : s = session[d] /\ s = session'[d] /\ LocalFact(s)
      BY <1>1, <2>2 DEF SessionsOK
    <3> QED
      BY <3>1, LocalFactKept
  <2> QED
    BY <2>1, <2>2
<1> QED
  BY <1>1, <1>2 DEF SessionsOK

\* No command runs in a step that leaves the directories alone.
LEMMA QuietRan ==
  ASSUME DirsOK, UNCHANGED dirVars
  PROVE  RanGrows /\ DirsOK'
  BY ClientAssumption DEF DirsOK, dirVars, RanGrows, Seen

\* A step that leaves directories and logs alone.
LEMMA LocalQuiet ==
  ASSUME LocalInv, NEW c \in Clients, NEW v, Goto(c, v), LocalFact(v),
         UNCHANGED <<dirVars, cmdlog>>, stateFile' \in StateFiles \cup {Torn},
         issued' \in 0..MaxCommands,
         \A b \in stored' : b \in stored \/ (b \in Snapshots /\ BlobSeen(b))
  PROVE  LocalInv'
<1>1. RanGrows /\ DirsOK'
  BY QuietRan DEF LocalInv
<1>2. LocalFact(v)'
  BY <1>1, LocalFactKept
<1>3. SessionsOK'
  BY <1>1, <1>2, SessionsKept DEF LocalInv
<1>4. StoredOK'
  <2>1. ASSUME NEW b \in stored' PROVE b \in Snapshots /\ BlobSeen(b)
    BY DEF LocalInv, StoredOK
  <2> QED
    BY <1>1, <2>1, BlobSeenKept DEF StoredOK
<1>5. FilesOK'
  BY DEF LocalInv, FilesOK, Listed, dirVars
<1> QED
  BY <1>1, <1>3, <1>4, <1>5 DEF LocalInv

\* Nothing is asked of a client without a command.
LEMMA IdleFacts == LocalFact(Idle) /\ LocalFact(Idle)'
  BY DEF Idle, LocalFact, Shape

\* The steps that only touch the session of their command.
LEMMA QuietStep ==
  ASSUME LocalInv, NEW c \in Clients, NEW from, NEW v, Step(c, from, v), LocalFact(v),
         UNCHANGED <<dirVars, cmdlog, stored>>, stateFile' \in StateFiles \cup {Torn}
  PROVE  LocalInv'
<1>1. Goto(c, v) /\ issued' \in 0..MaxCommands
  BY DEF Step, LocalInv, FilesOK
<1> QED
  BY <1>1, LocalQuiet

\* The first steps of commands.
LEMMA QuietIssue ==
  ASSUME LocalInv, NEW c \in Clients, NEW command, NEW v, Issue(c, command, v), LocalFact(v),
         UNCHANGED <<dirVars, cmdlog, stored, stateFile>>
  PROVE  LocalInv'
<1>1. Goto(c, v) /\ issued' \in 0..MaxCommands /\ stateFile' \in StateFiles \cup {Torn}
  BY ClientAssumption DEF Issue, LocalInv, FilesOK
<1> QED
  BY <1>1, LocalQuiet

\* What is read from state.json is a state.
LEMMA ReadType ==
  ASSUME LocalInv
  PROVE  read \in StateFiles /\ Known \subseteq ObjectIds
         /\ \A m \in Known : read[m] \in Policies
<1>1. [m \in {} |-> NoPolicy] \in [{} -> Policies]
  OBVIOUS
<1>2. read \in StateFiles
  BY <1>1 DEF LocalInv, FilesOK, read, StateFiles
<1>3. PICK S \in SUBSET ObjectIds : read \in [S -> Policies]
  BY <1>2 DEF StateFiles
<1> QED
  BY <1>2, <1>3 DEF Known

\* The transactions: create, fork, retire, grant, revoke, register_enclave.
LEMMA LocalTransactions ==
  ASSUME LocalInv, NEW c \in Clients,
         \/ \E m \in ObjectIds, p \in PolicyIds : createShareableMachine(c, m, p)
         \/ \E m \in Live, child \in ObjectIds : executeForMachine(c, m, child)
         \/ \E m \in Live : retireMachine(c, m)
         \/ \E m \in Live, g \in AccessPayloads : grantAccess(c, m, g) \/ revokeAccess(c, m, g)
         \/ registerEnclave(c)
  PROVE  LocalInv'
<1>1. ASSUME NEW m \in ObjectIds, NEW p \in Policies, NEW command,
             Issue(c, command, [at |-> "record", machine |-> m, policy |-> p]),
             UNCHANGED <<dirVars, cmdlog, stored, stateFile>>
      PROVE  LocalInv'
  <2> DEFINE v == [at |-> "record", machine |-> m, policy |-> p]
  <2>1. LocalFact(v)
    BY DEF LocalFact, Shape, Recording
  <2> HIDE DEF v
  <2>2. Issue(c, command, v)
    BY <1>1 DEF v
  <2> QED
    BY <1>1, <2>1, <2>2, QuietIssue
<1>2. CASE \E m \in ObjectIds, p \in PolicyIds : createShareableMachine(c, m, p)
  BY <1>1, <1>2 DEF createShareableMachine, Policies
<1>3. CASE \E m \in Live, child \in ObjectIds : executeForMachine(c, m, child)
  BY <1>1, <1>3 DEF executeForMachine, Policies
<1>4. ASSUME NEW command, Issue(c, command, Idle), UNCHANGED <<dirVars, cmdlog, stored, stateFile>>
      PROVE  LocalInv'
  BY <1>4, QuietIssue, IdleFacts
<1>5. CASE \/ \E m \in Live : retireMachine(c, m)
           \/ \E m \in Live, g \in AccessPayloads : grantAccess(c, m, g) \/ revokeAccess(c, m, g)
           \/ registerEnclave(c)
  BY <1>4, <1>5 DEF retireMachine, grantAccess, revokeAccess, registerEnclave
<1> QED
  BY <1>2, <1>3, <1>5

\* recordMachine writes back a state.
LEMMA LocalRecord ==
  ASSUME LocalInv, NEW c \in Clients, RecordRead(c) \/ RecordTruncate(c) \/ RecordFlush(c)
  PROVE  LocalInv'
<1>0. LocalFact(session[c]) /\ read \in StateFiles
  BY ReadType DEF LocalInv, SessionsOK
<1>1. CASE RecordRead(c)
  <2> DEFINE f == StateWith(read, session[c].machine, session[c].policy)
             v == [at |-> "truncate", file |-> f]
  <2>1. At(c, "record") /\ Step(c, "record", v) /\ UNCHANGED <<dirVars, cmdlog, stored, stateFile>>
    BY <1>1 DEF RecordRead, Step
  <2>2. session[c].machine \in ObjectIds /\ session[c].policy \in Policies
    BY <1>0, <2>1 DEF LocalFact, Shape, Recording, At
  <2>3. PICK S \in SUBSET ObjectIds : read \in [S -> Policies]
    BY <1>0 DEF StateFiles
  <2>4. f \in [S \cup {session[c].machine} -> Policies]
    BY <2>2, <2>3 DEF StateWith, With
  <2>5. f \in StateFiles
    BY <2>2, <2>4 DEF StateFiles
  <2> HIDE DEF f
  <2>6. LocalFact(v)
    BY <2>5 DEF LocalFact, Shape, Writing
  <2> HIDE DEF v
  <2> QED
    BY <2>1, <2>6, QuietStep DEF LocalInv, FilesOK
<1>2. CASE RecordTruncate(c)
  <2> DEFINE v == [session[c] EXCEPT !.at = "flush"]
  <2>1. At(c, "truncate") /\ Step(c, "truncate", v) /\ UNCHANGED <<dirVars, cmdlog, stored>>
        /\ stateFile' = Torn
    BY <1>2 DEF RecordTruncate, Step
  <2>2. session[c] \in Writing
    BY <1>0, <2>1 DEF LocalFact, Shape, At
  <2>3. v.at = "flush" /\ v \in Writing
    BY <2>2 DEF Writing
  <2> HIDE DEF v
  <2>4. LocalFact(v)
    BY <2>3 DEF LocalFact, Shape
  <2> QED
    BY <2>1, <2>3, <2>4, QuietStep
<1>3. CASE RecordFlush(c)
  <2>1. At(c, "flush") /\ Step(c, "flush", Idle) /\ UNCHANGED <<dirVars, cmdlog, stored>>
        /\ stateFile' \in {session[c].file, Torn}
    BY <1>3 DEF RecordFlush, Step, Overwritten
  <2>2. session[c].file \in StateFiles
    BY <1>0, <2>1 DEF LocalFact, Shape, Writing, At
  <2> QED
    BY <2>1, <2>2, QuietStep, IdleFacts
<1> QED
  BY <1>1, <1>2, <1>3

\* The files after a step that runs no command and rewrites at most one log.
LEMMA LogRewritten ==
  ASSUME LocalInv, NEW c \in Clients, NEW w, NEW m \in ObjectIds, NEW text \in Logs \cup {Torn},
         Goto(c, w), LocalFact(w), text # Torn => Listed(m, text),
         cmdlog' = [cmdlog EXCEPT ![m] = text],
         UNCHANGED <<stateFile, dirVars, stored, issued>>
  PROVE  LocalInv'
<1>1. RanGrows /\ DirsOK'
  BY QuietRan DEF LocalInv
<1>2. LocalFact(w)'
  BY <1>1, LocalFactKept
<1>3. SessionsOK'
  BY <1>1, <1>2, SessionsKept DEF LocalInv
<1>4. StoredOK'
  <2>1. ASSUME NEW b \in stored' PROVE b \in Snapshots /\ BlobSeen(b)
    BY DEF LocalInv, StoredOK
  <2> QED
    BY <1>1, <2>1, BlobSeenKept DEF StoredOK
<1>5. ran' = ran
  BY DEF dirVars
<1>6. FilesOK'
  BY <1>5 DEF LocalInv, FilesOK, Listed
<1> QED
  BY <1>1, <1>3, <1>4, <1>6 DEF LocalInv

\* A command executes: what it writes is newer than anything its Machine has.
LEMMA LocalExec ==
  ASSUME LocalInv, NEW c \in Clients, Exec(c)
  PROVE  LocalInv'
<1>1. PICK s, m, n, d, w :
        /\ s = session[c] /\ m = s.machine /\ n = ran[m] + 1 /\ d = s.entries
        /\ w = [at |-> "log-truncate", machine |-> m, entries |-> Append(d, n)]
  OBVIOUS
<1>2. /\ At(c, "exec") /\ Goto(c, w) /\ Runs(m, n) /\ UNCHANGED <<stateFile, cmdlog, stored, issued>>
  BY <1>1 DEF Exec, Executed, Step, LogWith
<1>3. s \in Executing /\ Listed(m, d)
  BY <1>1, <1>2 DEF LocalInv, SessionsOK, LocalFact, Shape, At
<1>4. m \in ObjectIds /\ d \in Logs
  BY <1>1, <1>3 DEF Executing
<1>5. n \in Commands /\ ran[m] \in Nat /\ n \in 0..MaxCommands
  BY <1>1, <1>2, <1>4, ClientAssumption DEF Runs, LocalInv, DirsOK, Commands
<1>6. PICK wrote \in SUBSET Files, gone \in SUBSET DOMAIN workdir[m] :
        /\ workdir' = [workdir EXCEPT ![m] = Changed(workdir[m], wrote, gone, n)]
        /\ removed' = [removed EXCEPT ![m] = @ \cup (gone \X {n})]
        /\ ran' = [ran EXCEPT ![m] = n] /\ putBack' = putBack
  BY <1>2 DEF Runs
<1>7. /\ ran' \in [ObjectIds -> 0..MaxCommands] /\ ran'[m] = n
      /\ \A x \in ObjectIds \ {m} : ran'[x] = ran[x]
  BY <1>4, <1>5, <1>6 DEF LocalInv, DirsOK
<1>8. RanGrows
  <2>1. \A x \in ObjectIds : ran[x] \in Nat /\ ran'[x] \in Nat
    BY <1>7, ClientAssumption DEF LocalInv, DirsOK
  <2>2. \A x \in ObjectIds \ {m} : ran[x] <= ran'[x]
    BY <1>7, <2>1
  <2>3. ran[m] <= ran'[m]
    BY <1>1, <1>5, <1>7
  <2> QED
    BY <2>1, <2>2, <2>3 DEF RanGrows
<1>9. workdir[m] \in Directories /\ DOMAIN workdir[m] \subseteq Files /\ Seen(m, workdir[m])
  BY <1>4, DirectoryIsFunction DEF LocalInv, DirsOK
<1>10. PICK new : new = Changed(workdir[m], wrote, gone, n)
  OBVIOUS
<1>11. new \in Directories
  BY <1>5, <1>9, <1>10, ChangedIsDirectory
<1>12. Seen(m, new)'
  <2> SUFFICES ASSUME NEW f \in DOMAIN new PROVE new[f] <= ran'[m]
    BY DEF Seen
  <2>1. /\ f \in (DOMAIN workdir[m] \ gone) \cup wrote
        /\ new[f] = IF f \in wrote THEN n ELSE workdir[m][f]
    BY <1>10 DEF Changed
  <2>2. CASE f \in wrote
    BY <1>5, <1>7, <2>1, <2>2
  <2>3. CASE f \notin wrote
    <3>1. f \in DOMAIN workdir[m] /\ workdir[m][f] <= ran[m] /\ workdir[m][f] \in Nat
      BY <1>9, <2>1, <2>3, DirectoryIsFunction DEF Seen, Commands
    <3> QED
      BY <1>1, <1>5, <1>7, <2>1, <2>3, <3>1
  <2> QED
    BY <2>2, <2>3
<1>13. DirsOK'
  <2>1. /\ workdir' \in [ObjectIds -> Directories] /\ workdir'[m] = new
        /\ \A x \in ObjectIds \ {m} : workdir'[x] = workdir[x]
    BY <1>4, <1>6, <1>10, <1>11 DEF LocalInv, DirsOK
  <2>2. gone \X {n} \subseteq Files \X Commands
    BY <1>5, <1>6, <1>9
  <2>3. removed' \in [ObjectIds -> SUBSET (Files \X Commands)]
    BY <1>4, <1>6, <2>2 DEF LocalInv, DirsOK
  <2>4. \A x \in ObjectIds : Seen(x, workdir[x])
    BY DEF LocalInv, DirsOK
  <2>5. \A x \in ObjectIds : Seen(x, workdir[x])'
    BY <1>7, <1>12, <2>1, <2>4 DEF Seen
  <2> QED
    BY <1>6, <1>7, <2>1, <2>3, <2>5 DEF LocalInv, DirsOK
<1>14. n \notin Range(d)
  BY <1>1, <1>3, <1>5 DEF Listed
<1>15. Append(d, n) \in Logs /\ Range(Append(d, n)) = Range(d) \cup {n}
  BY <1>4, <1>5, <1>14, LogAppend
<1>16. LocalFact(w)'
  <2>1. w.at = "log-truncate" /\ w \in Logging
    BY <1>1, <1>4, <1>15 DEF Logging
  <2>2. Range(d) \subseteq 1..ran[m] /\ 1..ran[m] \subseteq 1..n /\ n \in 1..n
    BY <1>1, <1>3, <1>5 DEF Listed
  <2>3. Listed(m, Append(d, n))'
    BY <1>7, <1>15, <2>2 DEF Listed
  <2> QED
    BY <1>1, <2>1, <2>3 DEF LocalFact, Shape
<1>17. SessionsOK'
  BY <1>2, <1>8, <1>16, SessionsKept DEF LocalInv
<1>18. StoredOK'
  BY <1>2, <1>8, BlobSeenKept DEF LocalInv, StoredOK
<1>19. FilesOK'
  <2>1. ASSUME NEW x \in ObjectIds, cmdlog[x] # Torn
        PROVE  cmdlog[x] \in Logs /\ Listed(x, cmdlog[x])'
    <3>1. PICK text : text = cmdlog[x] /\ text = cmdlog'[x] /\ text \in Logs /\ Listed(x, text)
      BY <1>2, <2>1 DEF LocalInv, FilesOK
    <3>2. Listed(x, text)'
      BY <1>8, <3>1, SeenKept
    <3> QED
      BY <3>1, <3>2
  <2> QED
    BY <1>2, <2>1 DEF LocalInv, FilesOK, Listed
<1> QED
  BY <1>13, <1>17, <1>18, <1>19 DEF LocalInv

\* run: what it executes is what it puts in the log.
LEMMA LocalRun ==
  ASSUME LocalInv, NEW c \in Clients,
         \/ \E m \in ObjectIds : engineRun(c, m)
         \/ Exec(c) \/ LogTruncate(c) \/ LogFlush(c)
  PROVE  LocalInv'
<1>0. LocalFact(session[c])
  BY DEF LocalInv, SessionsOK
<1>1. CASE \E m \in ObjectIds : engineRun(c, m)
  <2>1. PICK m \in ObjectIds : engineRun(c, m)
    BY <1>1
  <2>2. PICK w : w = [at |-> "exec", machine |-> m, entries |-> cmdlog[m]]
    OBVIOUS
  <2>3. /\ Issue(c, "run", w) /\ cmdlog[m] # Torn
        /\ UNCHANGED <<dirVars, cmdlog, stored, stateFile>>
    BY <2>1, <2>2 DEF engineRun
  <2>4. cmdlog[m] \in Logs /\ Listed(m, cmdlog[m])
    BY <2>3 DEF LocalInv, FilesOK
  <2>5. w.at = "exec" /\ w \in Executing /\ Listed(w.machine, w.entries)
    BY <2>2, <2>4 DEF Executing
  <2>6. LocalFact(w)
    BY <2>5 DEF LocalFact, Shape
  <2> QED
    BY <2>3, <2>6, QuietIssue
<1>2. CASE Exec(c)
  BY <1>2, LocalExec
<1>4. CASE LogTruncate(c)
  <2>1. PICK m, w : m = session[c].machine /\ w = [session[c] EXCEPT !.at = "log-flush"]
    OBVIOUS
  <2>2. /\ At(c, "log-truncate") /\ Goto(c, w) /\ UNCHANGED <<stateFile, dirVars, stored, issued>>
        /\ cmdlog' = [cmdlog EXCEPT ![m] = Torn]
    BY <1>4, <2>1 DEF LogTruncate, Step
  <2>3. session[c] \in Logging /\ Listed(m, session[c].entries)
    BY <1>0, <2>1, <2>2 DEF LocalFact, Shape, At
  <2>4. /\ m \in ObjectIds /\ w.at = "log-flush" /\ w \in Logging
        /\ w.machine = m /\ w.entries = session[c].entries
    BY <2>1, <2>3 DEF Logging
  <2>5. LocalFact(w)
    BY <2>3, <2>4 DEF LocalFact, Shape
  <2> QED
    BY <2>2, <2>4, <2>5, LogRewritten
<1>5. CASE LogFlush(c)
  <2>1. PICK m : m = session[c].machine
    OBVIOUS
  <2>2. /\ At(c, "log-flush") /\ Goto(c, Idle) /\ UNCHANGED <<stateFile, dirVars, stored, issued>>
        /\ \E text \in {session[c].entries, Torn} : cmdlog' = [cmdlog EXCEPT ![m] = text]
    BY <1>5, <2>1 DEF LogFlush, Step, Overwritten
  <2>3. session[c].entries \in Logs /\ Listed(m, session[c].entries) /\ m \in ObjectIds
    BY <1>0, <2>1, <2>2 DEF LocalFact, Shape, Logging, At
  <2> QED
    BY <2>2, <2>3, IdleFacts, LogRewritten
<1> QED
  BY <1>1, <1>2, <1>4, <1>5

\* A file is unpacked into the directory of its Machine, in a version that
\* one of the Machine's commands wrote.
LEMMA LocalUnpack ==
  ASSUME LocalInv, NEW c \in Clients, Unpack(c)
  PROVE  LocalInv'
<1>1. PICK s, m : s = session[c] /\ m = s.machine
  OBVIOUS
<1>2. s \in Restoring /\ Seen(m, s.dir) /\ s.left \subseteq DOMAIN s.dir
  BY <1>1 DEF Unpack, LocalInv, SessionsOK, LocalFact, Shape, At
<1>3. PICK f \in s.left :
        /\ Step(c, "unpack", Unpacking(m, s.dir, s.left \ {f}))
        /\ workdir' = [workdir EXCEPT ![m] = With(@, f, s.dir[f])]
        /\ putBack' = [putBack EXCEPT ![m] = @ \cup {<<f, s.dir[f]>>}]
        /\ UNCHANGED <<stateFile, ran, removed, cmdlog, stored>>
  BY <1>1 DEF Unpack
<1>4. m \in ObjectIds /\ s.dir \in Directories /\ s.left \subseteq Files
  BY <1>1, <1>2 DEF Restoring
<1>5. PICK n : n = s.dir[f]
  OBVIOUS
<1>6. f \in Files /\ n \in Commands /\ n <= ran[m]
  BY <1>2, <1>4, <1>5, DirectoryIsFunction DEF Seen
<1>7. PICK v : v = Unpacking(m, s.dir, s.left \ {f})
  OBVIOUS
<1>8. LocalFact(v)
  <2>1. CASE s.left \ {f} = {}
    BY <1>7, <2>1, IdleFacts DEF Unpacking
  <2>2. CASE s.left \ {f} # {}
    <3>1. v = [at |-> "unpack", machine |-> m, dir |-> s.dir, left |-> s.left \ {f}]
      BY <1>7, <2>2 DEF Unpacking
    <3>2. v.at = "unpack" /\ v \in Restoring /\ v.left \subseteq DOMAIN v.dir /\ Seen(v.machine, v.dir)
      BY <1>2, <1>4, <3>1 DEF Restoring
    <3> QED
      BY <3>2 DEF LocalFact, Shape
  <2> QED
    BY <2>1, <2>2
<1>9. RanGrows
  BY <1>3, ClientAssumption DEF RanGrows, LocalInv, DirsOK
<1>10. Goto(c, v) /\ issued' = issued
  BY <1>3, <1>7 DEF Step
<1>11. SessionsOK'
  <2>1. LocalFact(v)'
    BY <1>8, <1>9, LocalFactKept
  <2> QED
    BY <1>9, <1>10, <2>1, SessionsKept DEF LocalInv
<1>12. PICK new : new = With(workdir[m], f, n)
  OBVIOUS
<1>13. workdir[m] \in Directories /\ Seen(m, workdir[m])
  BY <1>4 DEF LocalInv, DirsOK
<1>14. new \in Directories /\ Seen(m, new)
  <2>1. new \in Directories
    BY <1>6, <1>12, <1>13, UnpackedIsDirectory
  <2>2. /\ DOMAIN new = DOMAIN workdir[m] \cup {f}
        /\ \A g \in DOMAIN new : new[g] = n \/ (g \in DOMAIN workdir[m] /\ new[g] = workdir[m][g])
    BY <1>12 DEF With
  <2> QED
    BY <1>6, <1>13, <2>1, <2>2 DEF Seen
<1>15. DirsOK'
  <2>1. /\ workdir' \in [ObjectIds -> Directories] /\ workdir'[m] = new
        /\ \A x \in ObjectIds \ {m} : workdir'[x] = workdir[x]
    BY <1>3, <1>4, <1>5, <1>12, <1>14 DEF LocalInv, DirsOK
  <2>2. <<f, n>> \in Files \X Commands
    BY <1>6
  <2>3. putBack' \in [ObjectIds -> SUBSET (Files \X Commands)]
    BY <1>3, <1>4, <1>5, <2>2 DEF LocalInv, DirsOK
  <2>4. \A x \in ObjectIds : Seen(x, workdir[x])
    BY DEF LocalInv, DirsOK
  <2>5. \A x \in ObjectIds : Seen(x, workdir[x])'
    BY <1>3, <1>14, <2>1, <2>4 DEF Seen
  <2> QED
    BY <1>3, <2>1, <2>3, <2>5 DEF LocalInv, DirsOK
<1>16. StoredOK' /\ FilesOK'
  BY <1>3, <1>10 DEF LocalInv, StoredOK, BlobSeen, Seen, FilesOK, Listed
<1> QED
  BY <1>11, <1>15, <1>16 DEF LocalInv

\* restore, from its start: what it unpacks is a snapshot of the Machine.
LEMMA LocalRestore ==
  ASSUME LocalInv, NEW c \in Clients,
         (\E m \in ObjectIds : BeginRestore(c, m)) \/ Fetch(c) \/ Unpack(c)
  PROVE  LocalInv'
<1>1. CASE \E m \in ObjectIds : BeginRestore(c, m)
  <2>1. PICK m \in ObjectIds : BeginRestore(c, m)
    BY <1>1
  <2>2. PICK v : v = [at |-> "fetch", machine |-> m]
    OBVIOUS
  <2>3. Issue(c, "restore", v) /\ UNCHANGED <<dirVars, cmdlog, stored, stateFile>>
    BY <2>1, <2>2 DEF BeginRestore
  <2>4. LocalFact(v)
    BY <2>2 DEF LocalFact, Shape, Fetching
  <2> QED
    BY <2>3, <2>4, QuietIssue
<1>2. CASE Fetch(c)
  <2>1. PICK m, d : m = session[c].machine /\ d = machines[m].blob.dir
    OBVIOUS
  <2>2. PICK v : v = IF Decrypts(m) THEN Unpacking(m, d, DOMAIN d) ELSE Idle
    OBVIOUS
  <2>3. /\ Step(c, "fetch", v) /\ UNCHANGED <<dirVars, cmdlog, stored>>
        /\ stateFile' \in StateFiles \cup {Torn}
    BY <1>2, <2>1, <2>2 DEF Fetch, LocalInv, FilesOK
  <2>4. CASE ~Decrypts(m) \/ DOMAIN d = {}
    BY <2>2, <2>3, <2>4, QuietStep, IdleFacts DEF Unpacking
  <2>5. CASE Decrypts(m) /\ DOMAIN d # {}
    <3>1. v = [at |-> "unpack", machine |-> m, dir |-> d, left |-> DOMAIN d]
      BY <2>2, <2>5 DEF Unpacking
    <3>2. PICK b : b = machines[m].blob /\ b \in stored /\ b.sealedFor = <<PolicyOnChain(m), m>>
      BY <2>5 DEF Decrypts
    <3>3. b \in Snapshots /\ BlobSeen(b) /\ b.sealedFor[2] = m
      BY <3>2 DEF LocalInv, StoredOK
    <3>4. m \in ObjectIds /\ d \in Directories /\ Seen(m, d)
      BY <2>1, <3>2, <3>3 DEF Snapshots, BlobSeen
    <3>5. v.at = "unpack" /\ v \in Restoring /\ v.left \subseteq DOMAIN v.dir /\ Seen(v.machine, v.dir)
      BY <3>1, <3>4, DirectoryIsFunction DEF Restoring
    <3>6. LocalFact(v)
      BY <3>5 DEF LocalFact, Shape
    <3> QED
      BY <2>3, <3>6, QuietStep
  <2> QED
    BY <2>4, <2>5
<1>3. CASE Unpack(c)
  BY <1>3, LocalUnpack
<1> QED
  BY <1>1, <1>2, <1>3

\* checkpoint, from its start to the transaction: what it carries along comes
\* from directories and logs.
LEMMA LocalCheckpoint ==
  ASSUME TypeOK, LocalInv, NEW c \in Clients,
         \/ \E m \in Live, attest \in BOOLEAN : BeginCheckpoint(c, m, attest)
         \/ CheckRetired(c) \/ CheckRetiredFailsOpen(c) \/ Capture(c) \/ LoadLog(c) \/ Store(c)
  PROVE  LocalInv'
<1>0. LocalFact(session[c])
  BY DEF LocalInv, SessionsOK
<1>1. CASE \E m \in Live, attest \in BOOLEAN : BeginCheckpoint(c, m, attest)
  <2>1. PICK m \in Live, attest \in BOOLEAN : BeginCheckpoint(c, m, attest)
    BY <1>1
  <2>2. PICK v : v = [at |-> "check", machine |-> m, policy |-> read[m], attest |-> attest,
                      since |-> Len(log[m])]
    OBVIOUS
  <2>3. m \in Known /\ (\E command : Issue(c, command, v)) /\ UNCHANGED <<dirVars, cmdlog, stored, stateFile>>
    BY <2>1, <2>2 DEF BeginCheckpoint
  <2>4. m \in ObjectIds /\ read[m] \in Policies
    BY <2>3, ReadType
  <2>5. Len(log[m]) \in Nat
    BY DEF TypeOK
  <2>6. v.at = "check" /\ v \in Checking
    BY <2>2, <2>4, <2>5 DEF Checking
  <2>7. LocalFact(v)
    BY <2>6 DEF LocalFact, Shape
  <2> QED
    BY <2>3, <2>6, <2>7, QuietIssue
<1>2. ASSUME NEW v, NEW from, Step(c, from, v), LocalFact(v),
             UNCHANGED <<dirVars, cmdlog, stored, stateFile>>
      PROVE  LocalInv'
  <2>1. stateFile' \in StateFiles \cup {Torn}
    BY <1>2 DEF LocalInv, FilesOK
  <2> QED
    BY <1>2, <2>1, QuietStep
<1>3. ASSUME NEW blind \in BOOLEAN, session[c] \in Checking
      PROVE  LET v == Captures(session[c], blind) IN LocalFact(v)
  <2>1. PICK v : v = Captures(session[c], blind)
    OBVIOUS
  <2>2. v.at = "capture" /\ v \in Capturing
    BY <1>3, <2>1 DEF Captures, Checking, Capturing
  <2>3. LocalFact(v)
    BY <2>2 DEF LocalFact, Shape
  <2> QED
    BY <2>1, <2>2, <2>3
<1>4. CASE CheckRetired(c)
  <2>1. PICK v : /\ v \in {Idle, Captures(session[c], FALSE)} /\ Step(c, "check", v)
                 /\ UNCHANGED <<dirVars, cmdlog, stored, stateFile>>
    BY <1>4 DEF CheckRetired
  <2>2. session[c] \in Checking
    BY <1>0, <2>1 DEF LocalFact, Shape, Step, At
  <2> QED
    BY <1>2, <1>3, <2>1, <2>2, IdleFacts
<1>5. CASE CheckRetiredFailsOpen(c)
  <2>1. PICK blind, v : /\ blind = isRetired(session[c].machine)
                        /\ v = Captures(session[c], blind) /\ Step(c, "check", v)
                        /\ UNCHANGED <<dirVars, cmdlog, stored, stateFile>>
    BY <1>5 DEF CheckRetiredFailsOpen
  <2>3. blind \in BOOLEAN
    BY <2>1 DEF isRetired
  <2>2. session[c] \in Checking
    BY <1>0, <2>1 DEF LocalFact, Shape, Step, At
  <2> QED
    BY <1>2, <1>3, <2>1, <2>2, <2>3
<1>6. CASE Capture(c)
  <2>1. PICK s, d : s = session[c] /\ d = workdir[s.machine]
    OBVIOUS
  <2>2. PICK v : v = [at |-> "load-log", machine |-> s.machine, attest |-> s.attest,
                      since |-> s.since, blind |-> s.blind, manifest |-> d,
                      blob |-> [dir |-> d, sealedFor |-> <<s.policy, s.machine>>]]
    OBVIOUS
  <2>3. Step(c, "capture", v) /\ UNCHANGED <<dirVars, cmdlog, stored, stateFile>>
    BY <1>6, <2>1, <2>2 DEF Capture, Captured
  <2>4. s \in Capturing
    BY <1>0, <2>1, <2>3 DEF LocalFact, Shape, Step, At
  <2>5. d \in Directories /\ Seen(s.machine, d)
    BY <2>1, <2>4 DEF Capturing, LocalInv, DirsOK
  <2>6. v.at = "load-log" /\ v \in LoadingLog /\ BlobSeen(v.blob)
    BY <2>2, <2>4, <2>5 DEF Capturing, LoadingLog, Snapshots, Policies, BlobSeen
  <2>7. LocalFact(v)
    BY <2>6 DEF LocalFact, Shape
  <2> QED
    BY <1>2, <2>3, <2>6, <2>7
<1>7. CASE LoadLog(c)
  <2>1. PICK s, d : s = session[c] /\ d = cmdlog[s.machine]
    OBVIOUS
  <2>2. PICK v : v = IF d = Torn THEN Idle
                     ELSE [at |-> "store", machine |-> s.machine, attest |-> s.attest,
                           since |-> s.since, blind |-> s.blind, manifest |-> s.manifest,
                           blob |-> s.blob, payload |-> d]
    OBVIOUS
  <2>3. Step(c, "load-log", v) /\ UNCHANGED <<dirVars, cmdlog, stored, stateFile>>
    BY <1>7, <2>1, <2>2 DEF LoadLog
  <2>4. s \in LoadingLog /\ BlobSeen(s.blob)
    BY <1>0, <2>1, <2>3 DEF LocalFact, Shape, Step, At
  <2>5. d # Torn => d \in Logs /\ Listed(s.machine, d)
    BY <2>1, <2>4 DEF LoadingLog, LocalInv, FilesOK
  <2>6. CASE d = Torn
    BY <1>2, <2>2, <2>3, <2>6, IdleFacts
  <2>7. CASE d # Torn
    <3>1. v.at = "store" /\ v \in Anchoring /\ Listed(v.machine, v.payload)
          /\ BlobSeen(v.blob)
      BY <2>2, <2>4, <2>5, <2>7 DEF LoadingLog, Anchoring
    <3>2. LocalFact(v)
      BY <3>1 DEF LocalFact, Shape
    <3> QED
      BY <1>2, <2>3, <3>1, <3>2
  <2> QED
    BY <2>6, <2>7
<1>8. CASE Store(c)
  <2>1. PICK s, v : s = session[c] /\ v = [s EXCEPT !.at = "anchor"]
    OBVIOUS
  <2>2. /\ At(c, "store") /\ Goto(c, v) /\ issued' = issued /\ stored' = stored \cup {s.blob}
        /\ UNCHANGED <<dirVars, cmdlog, stateFile>>
    BY <1>8, <2>1 DEF Store, Stored, Step
  <2>3. s \in Anchoring /\ Listed(s.machine, s.payload) /\ BlobSeen(s.blob)
    BY <1>0, <2>1, <2>2 DEF LocalFact, Shape, At
  <2>4. /\ v.at = "anchor" /\ v \in Anchoring /\ s.blob \in Snapshots
        /\ v.machine = s.machine /\ v.payload = s.payload /\ v.blob = s.blob
    BY <2>1, <2>3 DEF Anchoring
  <2>5. LocalFact(v)
    BY <2>3, <2>4 DEF LocalFact, Shape
  <2>6. stateFile' \in StateFiles \cup {Torn} /\ issued' \in 0..MaxCommands
    BY <2>2 DEF LocalInv, FilesOK
  <2>7. \A b \in stored' : b \in stored \/ (b \in Snapshots /\ BlobSeen(b))
    BY <2>2, <2>3, <2>4
  <2> QED
    BY <2>2, <2>5, <2>6, <2>7, LocalQuiet
<1> QED
  BY <1>1, <1>4, <1>5, <1>6, <1>7, <1>8

\* checkpoint, from the transaction to the attestation.
LEMMA LocalAttest ==
  ASSUME TypeOK, LocalInv, NEW c \in Clients,
         Anchor(c) \/ AnchorFails(c) \/ ReadBack(c) \/ Attest(c)
  PROVE  LocalInv'
<1>0. LocalFact(session[c])
  BY DEF LocalInv, SessionsOK
<1>2. ASSUME NEW v, NEW from, Step(c, from, v), LocalFact(v),
             UNCHANGED <<dirVars, cmdlog, stored, stateFile>>
      PROVE  LocalInv'
  <2>1. stateFile' \in StateFiles \cup {Torn}
    BY <1>2 DEF LocalInv, FilesOK
  <2> QED
    BY <1>2, <2>1, QuietStep
<1>3. CASE Anchor(c) \/ AnchorFails(c)
  <2>1. PICK v : v = [at |-> "read-back", machine |-> session[c].machine,
                      manifest |-> session[c].manifest]
    OBVIOUS
  <2>2. PICK w \in {Idle, v} : Step(c, "anchor", w) /\ UNCHANGED <<dirVars, cmdlog, stored, stateFile>>
    BY <1>3, <2>1 DEF Anchor, AnchorFails
  <2>3. session[c] \in Anchoring
    BY <1>0, <2>2 DEF LocalFact, Shape, Step, At
  <2>4. v.at = "read-back" /\ v \in ReadingBack
    BY <2>1, <2>3 DEF Anchoring, ReadingBack
  <2>5. LocalFact(v)
    BY <2>4 DEF LocalFact, Shape
  <2> QED
    BY <1>2, <2>2, <2>4, <2>5, IdleFacts
<1>4. CASE ReadBack(c)
  <2>1. PICK s, v : /\ s = session[c]
                    /\ v = [at |-> "attest", machine |-> s.machine, manifest |-> s.manifest,
                            seq |-> SeqReadBack(s.machine)]
    OBVIOUS
  <2>2. PICK w \in {Idle, v} :
          Step(c, "read-back", w) /\ UNCHANGED <<dirVars, cmdlog, stored, stateFile>>
    BY <1>4, <2>1 DEF ReadBack
  <2>3. v.at = "attest" /\ LocalFact(v)
    BY <2>1 DEF LocalFact, Shape
  <2> QED
    BY <1>2, <2>2, <2>3, IdleFacts
<1>5. CASE Attest(c)
  <2>1. Step(c, "attest", Idle) /\ UNCHANGED <<dirVars, cmdlog, stored, stateFile>>
    BY <1>5 DEF Attest
  <2> QED
    BY <1>2, <2>1, IdleFacts
<1> QED
  BY <1>3, <1>4, <1>5

\* Every step keeps the operator's files in order.
LEMMA LocalStep ==
  ASSUME TypeOK, LocalInv, [ClientNext]_clientVars
  PROVE  LocalInv'
<1>1. ASSUME NEW c \in Clients, ClientStep(c)
      PROVE  LocalInv'
  <2>1. CASE \/ \E m \in ObjectIds, p \in PolicyIds : createShareableMachine(c, m, p)
             \/ \E m \in Live, child \in ObjectIds : executeForMachine(c, m, child)
             \/ \E m \in Live : retireMachine(c, m)
             \/ \E m \in Live, g \in AccessPayloads : grantAccess(c, m, g) \/ revokeAccess(c, m, g)
             \/ registerEnclave(c)
    BY <2>1, LocalTransactions
  <2>2. CASE \E m \in Live : engineRun(c, m)
    BY <2>2, LocalRun DEF TypeOK
  <2>3. CASE Exec(c) \/ LogTruncate(c) \/ LogFlush(c)
    BY <2>3, LocalRun
  <2>4. CASE RecordRead(c) \/ RecordTruncate(c) \/ RecordFlush(c)
    BY <2>4, LocalRecord
  <2>5. CASE \/ \E m \in Live, attest \in BOOLEAN : BeginCheckpoint(c, m, attest)
             \/ CheckRetired(c) \/ CheckRetiredFailsOpen(c) \/ Capture(c) \/ LoadLog(c) \/ Store(c)
    BY <2>5, LocalCheckpoint
  <2>6. CASE Anchor(c) \/ AnchorFails(c) \/ ReadBack(c) \/ Attest(c)
    BY <2>6, LocalAttest
  <2>8. CASE (\E m \in Live : BeginRestore(c, m)) \/ Fetch(c) \/ Unpack(c)
    BY <2>8, LocalRestore DEF TypeOK
  <2>7. CASE Abort(c)
    <3>1. /\ Goto(c, Idle) /\ UNCHANGED <<dirVars, cmdlog, stored>> /\ issued' \in 0..MaxCommands
          /\ stateFile' \in StateFiles \cup {Torn}
      BY <2>7, ClientAssumption DEF Abort, LocalInv, FilesOK
    <3> QED
      BY <3>1, LocalQuiet, IdleFacts
  <2> QED
    BY <1>1, <2>1, <2>2, <2>3, <2>4, <2>5, <2>6, <2>7, <2>8
       DEF ClientStep, registerCreate, reeg_create, registerFork, reeg_fork, registerRetire,
           reeg_retire, registerGrant, reeg_share, registerRevoke, reeg_revoke, registerRun,
           reeg_run, registerCheckpoint, reeg_checkpoint, registerRestore, reeg_restore
<1>2. ASSUME UNCHANGED <<stateFile, dirVars, cmdlog, stored, session, issued>>
      PROVE  LocalInv'
  BY <1>2 DEF LocalInv, FilesOK, DirsOK, StoredOK, SessionsOK, LocalFact, Listed, Seen, BlobSeen,
              dirVars
<1>3. CASE Environment
  BY <1>2, <1>3 DEF Environment, RestartEnclave, OthersRegister, OthersRecord
<1>4. CASE UNCHANGED clientVars
  BY <1>2, <1>4 DEF clientVars, localVars
<1> QED
  BY <1>1, <1>3, <1>4 DEF ClientNext

(***************************************************************************)
(* The commands only do what the Move package lets them                    *)
(***************************************************************************)
\* Every step of a command is a transaction Machine allows, or none.
LEMMA ClientStepIsMachineStep ==
  ASSUME LocalInv, [ClientNext]_clientVars
  PROVE  [Next]_vars
<1>1. ASSUME NEW c \in Clients, Anchor(c)
      PROVE  Next
  <2>1. PICK s : s = session[c]
    OBVIOUS
  <2>2. /\ register_checkpoint(Operator, s.machine, s.blob, s.manifest, s.payload)
        /\ s.at = "anchor"
    BY <1>1, <2>1 DEF Anchor, Step, At
  <2>3. s \in Anchoring
    BY <2>1, <2>2 DEF LocalInv, SessionsOK, LocalFact, Shape
  <2>4. s.blob \in Blobs /\ s.manifest \in Manifests /\ s.payload \in Payloads
    BY <2>3, AnchorsAssumption DEF Anchoring
  <2>5. s.machine \in Live
    BY <2>2 DEF register_checkpoint, MayExtend, OwnedInput
  <2> QED
    BY <2>2, <2>4, <2>5, ClientAssumption DEF Next, PublicNext
<1>2. ASSUME NEW c \in Clients,
             \/ \E m \in ObjectIds, p \in PolicyIds : createShareableMachine(c, m, p)
             \/ \E m \in Live, child \in ObjectIds : executeForMachine(c, m, child)
             \/ \E m \in Live : retireMachine(c, m)
      PROVE  Next
  BY <1>2, ClientAssumption
     DEF createShareableMachine, executeForMachine, retireMachine, Next, PublicNext
<1>3. ASSUME NEW c \in Clients,
             \E m \in Live, g \in AccessPayloads : grantAccess(c, m, g) \/ revokeAccess(c, m, g)
      PROVE  Next
  BY <1>3, ClientAssumption DEF grantAccess, revokeAccess, Next, PackageNext
<1>4. ASSUME NEW c \in Clients, ClientStep(c)
      PROVE  Next \/ UNCHANGED vars
  BY <1>1, <1>2, <1>3, <1>4
     DEF ClientStep, registerCreate, reeg_create, registerFork, reeg_fork, registerRetire,
         reeg_retire, registerGrant, reeg_share, registerRevoke, reeg_revoke, registerRun,
         reeg_run, registerCheckpoint, reeg_checkpoint, registerRestore, reeg_restore, engineRun, BeginCheckpoint,
         registerEnclave, RecordRead, RecordTruncate, RecordFlush, Exec, LogTruncate, LogFlush,
         CheckRetired, CheckRetiredFailsOpen, Capture, LoadLog, Store, AnchorFails, ReadBack,
         Attest, BeginRestore, Fetch, Unpack, Abort
<1>5. CASE Environment
  BY <1>5 DEF Environment, RestartEnclave, OthersRegister, OthersRecord
<1>6. CASE UNCHANGED clientVars
  BY <1>6 DEF clientVars
<1> QED
  BY <1>4, <1>5, <1>6 DEF ClientNext

TypedInv == TypeOK /\ LocalInv

\* Files and chain keep their shape.
LEMMA ClientTyped == ClientSpec => []TypedInv
<1>1. ClientInit => TypedInv
  <2> SUFFICES ASSUME ClientInit PROVE TypedInv
    OBVIOUS
  <2>1. TypeOK
    BY DEF ClientInit, Init, TypeOK, Live
  <2>2. <<>> \in Logs /\ Range(<<>>) = {} /\ DOMAIN <<>> = {} /\ <<>> \in Directories
    <3>1. <<>> \in Seq(Commands) /\ IsInjective(<<>>) /\ Range(<<>>) = {} /\ DOMAIN <<>> = {}
      BY DEF IsInjective, Range
    <3>2. <<>> \in [{} -> Commands]
      BY <3>1
    <3> QED
      BY <3>1, <3>2, SeqIsLog DEF Directories
  <2>3. stateFile \in StateFiles
    BY DEF ClientInit, StateFiles
  <2>4. FilesOK
    BY <2>2, <2>3, ClientAssumption DEF ClientInit, FilesOK, Listed
  <2>5. SessionsOK
    BY IdleFacts DEF ClientInit, SessionsOK
  <2>6. DirsOK /\ StoredOK
    BY <2>2, ClientAssumption DEF ClientInit, DirsOK, StoredOK, Seen
  <2> QED
    BY <2>1, <2>4, <2>5, <2>6 DEF TypedInv, LocalInv
<1>2. TypedInv /\ [ClientNext]_clientVars => TypedInv'
  BY LocalStep, ClientStepIsMachineStep, TypeStep DEF TypedInv
<1> QED
  BY <1>1, <1>2, PTL DEF ClientSpec

\* Whatever the commands do to files and however they die, the chain sees
\* only what machine.move allows: every theorem about Machine holds of it.
THEOREM ClientRefines == ClientSpec => Spec
<1>1. ClientInit => Init
  BY DEF ClientInit
<1>2. TypedInv /\ [ClientNext]_clientVars => [Next]_vars
  BY ClientStepIsMachineStep DEF TypedInv
<1> QED
  BY <1>1, <1>2, ClientTyped, PTL DEF ClientSpec, Spec
=============================================================================
