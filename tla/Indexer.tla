------------------------------ MODULE Indexer ------------------------------
(***************************************************************************)
(* The display indexer of apps/indexer: it replays the package's events    *)
(* into a read model, one awaited query per event type while the chain     *)
(* moves on.  Nothing is persisted; a restart replays from the start.      *)
(*                                                                         *)
(* Environments record what the model shows of an environment; a record    *)
(* without a MachineCreated event has no owner.                            *)
(***************************************************************************)
EXTENDS Machine, SequencesExt

CONSTANT Unknown   \* null in a record

VARIABLES
  sync,   \* the replay in progress
  index   \* the read model of the last replay, and the events it was built from

indexerVars == <<sync, index>>

(***************************************************************************)
(* read-model.ts                                                           *)
(***************************************************************************)
NewRecord == [owner |-> Unknown, parent |-> Unknown, checkpoints |-> <<>>]

ensure(model, id) == IF id \in DOMAIN model THEN model ELSE With(model, id, NewRecord)

HasSeq(checkpoints, e) == \E i \in 1..Len(checkpoints) : checkpoints[i].seq = e.seq

\* A checkpoint is inserted at its place by sequence.
Inserted(checkpoints, e) ==
  LET n == Len(checkpoints)
      place == CHOOSE p \in 1..(n + 1) : /\ \A i \in 1..(p - 1) : checkpoints[i].seq < e.seq
                                        /\ \A i \in p..n : checkpoints[i].seq > e.seq
  IN InsertAt(checkpoints, place, [seq |-> e.seq, blob |-> e.blob])

\* Faulty variant: checkpoints are kept in order of arrival.
applyEvent_unsorted(model, e) ==
  LET m == ensure(model, e.id) IN
  CASE e.type = "created" -> [m EXCEPT ![e.id].owner = e.owner]
    [] e.type = "forked" -> [m EXCEPT ![e.id].parent = e.parent]
    [] e.type = "checkpoint" ->
         IF HasSeq(m[e.id].checkpoints, e) THEN m
         ELSE [m EXCEPT ![e.id].checkpoints = Append(@, [seq |-> e.seq, blob |-> e.blob])]

\* Faulty variant: a blob that is listed already is taken for a duplicate.
applyEvent_by_blob(model, e) ==
  LET m == ensure(model, e.id) IN
  CASE e.type = "created" -> [m EXCEPT ![e.id].owner = e.owner]
    [] e.type = "forked" -> [m EXCEPT ![e.id].parent = e.parent]
    [] e.type = "checkpoint" ->
         IF \E i \in 1..Len(m[e.id].checkpoints) : m[e.id].checkpoints[i].blob = e.blob THEN m
         ELSE [m EXCEPT ![e.id].checkpoints = Inserted(@, e)]

applyEvent(model, e) ==
  LET m == ensure(model, e.id) IN
  CASE e.type = "created" -> [m EXCEPT ![e.id].owner = e.owner]
    [] e.type = "forked" -> [m EXCEPT ![e.id].parent = e.parent]
    [] e.type = "checkpoint" ->
         IF HasSeq(m[e.id].checkpoints, e) THEN m
         ELSE [m EXCEPT ![e.id].checkpoints = Inserted(@, e)]

\* The loop over the events, as a recursive function, which proofs can unfold.
buildModel(events) ==
  LET model[k \in 0..Len(events)] ==
        IF k = 0 THEN [id \in {} |-> NewRecord] ELSE applyEvent(model[k - 1], events[k])
  IN model[Len(events)]

(***************************************************************************)
(* events.ts: queryAll returns the events of one type up to its last page. *)
(* Events are kept as a set: the replay does not depend on their order     *)
(* (RebuildIsDeterministic).                                               *)
(***************************************************************************)
queryAll(type) ==
  CASE type = "created" ->
         {[type |-> type, id |-> m, owner |-> machines[m].owner] : m \in Live \ DOMAIN forks}
    [] type = "forked" ->
         {[type |-> type, id |-> m, parent |-> forks[m].parent] : m \in DOMAIN forks}
    [] type = "checkpoint" ->
         UNION {{[type |-> type, id |-> m, seq |-> e.seq, blob |-> e.blob] :
                   e \in {x \in ToSet(log[m]) : IsCheckpoint(x)}} : m \in Live}

EmptyIndex == [model |-> [id \in {} |-> NewRecord], events |-> {}, before |-> [m \in {} |-> 0]]

NotSyncing == [todo |-> <<>>, events |-> {}, before |-> [m \in {} |-> 0]]

\* buildIndex.  `before` remembers the Machines and their checkpoint counts
\* when the replay starts; the code has no such variable.
BeginSync ==
  /\ sync = NotSyncing
  /\ sync' = [todo |-> <<"created", "forked", "checkpoint">>, events |-> {},
              before |-> [m \in Live |-> machines[m].count]]
  /\ UNCHANGED <<vars, index>>

\* fetchEvents: one query after the other.
FetchEvents ==
  /\ sync.todo # <<>>
  /\ LET events == sync.events \cup queryAll(Head(sync.todo)) IN
     IF Len(sync.todo) > 1
     THEN sync' = [sync EXCEPT !.todo = Tail(@), !.events = events] /\ UNCHANGED index
     ELSE /\ sync' = NotSyncing
          /\ index' = [model |-> buildModel(SetToSeq(events)), events |-> events,
                       before |-> sync.before]
  /\ UNCHANGED vars

\* A query throws, or the indexer is stopped: the next start replays it all.
SyncFails ==
  /\ sync.todo # <<>>
  /\ sync' = NotSyncing
  /\ UNCHANGED <<vars, index>>

IndexerInit ==
  /\ sync = NotSyncing
  /\ index = EmptyIndex

IndexerStep == BeginSync \/ FetchEvents \/ SyncFails

-----------------------------------------------------------------------------
(***************************************************************************)
(* Properties                                                              *)
(***************************************************************************)
\* What an environment's record may show: its checkpoints from the first one
\* on without a hole, the owner of a created Machine, the parent of a fork.
RecordIsTrue(m, r) ==
  /\ \A i \in 1..Len(r.checkpoints) : \E k \in 1..Len(log[m]) :
       /\ IsCheckpoint(log[m][k]) /\ log[m][k].seq = i - 1
       /\ r.checkpoints[i] = [seq |-> i - 1, blob |-> log[m][k].blob]
  /\ r.owner \in {Unknown, machines[m].owner}
  /\ r.parent \in {Unknown, machines[m].parent}

\* The read model is true of the chain and misses nothing that was there when
\* the replay started, although its three queries see three different moments:
\* a Machine created or forked between them may lack its owner or its parent,
\* an older one lacks neither, and no snapshot list has a hole.
IndexIsTrue ==
  LET model == index.model IN
  /\ \A m \in DOMAIN model : m \in Live /\ RecordIsTrue(m, model[m])
  /\ \A m \in DOMAIN index.before :
       /\ m \in DOMAIN model
       /\ Len(model[m].checkpoints) >= index.before[m]
       /\ IF m \in DOMAIN forks THEN model[m].parent = forks[m].parent
          ELSE model[m].owner = machines[m].owner

\* "Tolerant of order ... and idempotent, so a rebuild from the full event log
\* is deterministic regardless of pagination quirks": any order of the events,
\* with any of them seen twice, folds into the same read model.
RebuildIsDeterministic ==
  \A order \in SetToSeqs(index.events) :
    /\ buildModel(order) = index.model
    /\ \A e \in index.events : buildModel(Append(order, e)) = index.model
=============================================================================
