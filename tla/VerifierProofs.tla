--------------------------- MODULE VerifierProofs ---------------------------
(***************************************************************************)
(* TLAPS proofs about Verifier: what a report, an evidence file and an     *)
(* anchored audit say is true, for chains of any length, lineages of any   *)
(* depth and any interleaving of the reads with new entries.               *)
(***************************************************************************)
EXTENDS Verifier, MachineProofs, FiniteSetTheorems, WellFoundedInduction

(***************************************************************************)
(* The inductive invariant                                                 *)
(***************************************************************************)
\* The object was read after the first s.start entries.
ReadFact(s) ==
  /\ s.target \in Live /\ s.start \in 0..Len(log[s.target])
  /\ s.machine.head = HeadAt(s.target, s.start)
  /\ s.machine.parent = machines[s.target].parent
  /\ Len(log[s.target]) = s.start => s.machine = machines[s.target]

\* What FetchFork reads of a fork.
ForkRead(t) ==
  [childHead |-> forks[t].childHead, parentHead |-> forks[t].parentHead,
   parentGenesis |-> StartHead(forks[t].parent)]

\* A job that reads is a record of these fields.
JobFields == {"mode", "package", "target", "machine", "start", "fork", "links", "parentLinks",
              "todo", "input", "failed"}
JobShape(s) == DOMAIN s = JobFields /\ s = [x \in JobFields |-> s[x]]

\* The Machines whose events are queried.
Sources(s) == {s.target} \cup (IF s.fork = None THEN {} ELSE {forks[s.target].parent})

\* The first k entries of m are among the found ones, or still to be queried.
Covered(m, k, found, todo) ==
  \A i \in 1..k : log[m][i] \in found \/ <<m, log[m][i].type>> \in Range(todo)

\* The reads in progress have found nothing that is not on the chain, and
\* with the right package will have found what was there at the first read.
GatherFact(s) ==
  /\ JobShape(s) /\ ReadFact(s)
  /\ s.mode \in {"verify", "export", "anchor"} /\ s.package \in {"right", "wrong"}
  /\ s.input = None
  /\ s.todo \in Seq(Sources(s) \X EntryTypes)
  /\ s.links \subseteq Range(log[s.target])
  /\ s.fork = None /\ s.machine.parent # NoParent => s.todo = <<>>
  /\ s.fork = None => s.parentLinks = {}
  /\ s.package = "right" /\ (s.fork # None \/ s.machine.parent = NoParent) =>
       Covered(s.target, s.start, s.links, s.todo)
  /\ s.fork # None =>
       LET p == forks[s.target].parent IN
       /\ s.target \in DOMAIN forks /\ s.fork = ForkRead(s.target) /\ s.package = "right"
       /\ s.parentLinks \subseteq Range(log[p])
       /\ \E k \in 0..Len(log[p]) : HeadAt(p, k) = forks[s.target].parentHead
                                    /\ Covered(p, k, s.parentLinks, s.todo)

\* No Machine is its own parent, and no chain is longer than the bound.
ParentsDiffer == \A c \in DOMAIN forks : forks[c].parent # c
LogBounded == \A m \in Live : Len(log[m]) <= MaxEntries

ChainFact ==
  /\ TypeOK /\ HeadReplaysFromEvents /\ CheckpointSeqsContiguous
  /\ CurrentStateIsLastCheckpoint /\ ForkLineage /\ HeadsNeverCollide

ResultFact ==
  /\ EntriesArePrefix /\ QuietReadVerifies /\ PassingReportIsTrue
  /\ LineageNeverFailsFalsely /\ AnchorIsTrue

EvidenceFact ==
  /\ evidence # None => evidence.id \in Live
  /\ CleanEvidenceIsTrue

JobFact ==
  \/ job.todo # None /\ GatherFact(job)
  \/ job.todo = None /\ job.mode \in {"idle", "audit"} /\ job.input = None
  \/ job.todo = None /\ ReadFact(job)

VerifierInv ==
  ParentsDiffer /\ LogBounded /\ JobFact /\ ResultFact /\ EvidenceFact


(***************************************************************************)
(* Induction.  A set of naturals has a least element, and one that has 0   *)
(* and every successor has them all.                                       *)
(***************************************************************************)
\* A nonempty set of naturals has a least element.
LEMMA LeastNat ==
  ASSUME NEW T, T \subseteq Nat, T # {}
  PROVE  \E x \in T : \A y \in T : x <= y
<1>1. PICK R : R = OpToRel(<, Nat)
  BY Zenon
<1>2. IsWellFoundedOn(R, Nat)
  BY <1>1, NatLessThanWellFounded, Zenon
<1>3. PICK x \in T : \A y \in T : ~ (<<y, x>> \in R)
  BY <1>2, WFMin
<1>4. \A y \in T : <<y, x>> \in R <=> y < x
  BY <1>1, SMT DEF OpToRel
<1>5. ASSUME NEW y \in T PROVE x <= y
  <2>1. ~ (y < x)
    BY <1>3, <1>4
  <2> QED
    BY <2>1, T \subseteq Nat
<1> QED
  BY <1>5

\* A set with 0 and every successor has all naturals.
LEMMA NatSet ==
  ASSUME NEW T, 0 \in T, \A k \in Nat : k \in T => k + 1 \in T
  PROVE  Nat \subseteq T
<1> SUFFICES ASSUME Nat \ T # {} PROVE FALSE
  OBVIOUS
<1>1. PICK x \in Nat \ T : \A y \in Nat \ T : x <= y
  BY LeastNat
<1>2. x # 0 /\ x - 1 \in Nat
  BY <1>1
<1>3. x - 1 \in T
  BY <1>1, <1>2
<1> QED
  BY <1>1, <1>2, <1>3

(***************************************************************************)
(* Ordering by linkage                                                     *)
(***************************************************************************)
\* q is a chain of events from g: each one links to the one before, and no
\* head is repeated.
Linked(g, q) ==
  LET head(i) == IF i = 0 THEN g ELSE q[i].new IN
  /\ Len(q) \in Nat
  /\ \A i \in 1..Len(q) : q[i].prev = head(i - 1)
  /\ \A i, j \in 0..Len(q) : head(i) = head(j) => i = j

\* The items hold the first j events of q, and not the next one.
Reaches(q, items, j) ==
  /\ j \in 0..Len(q)
  /\ \A i \in 1..j : q[i] \in items
  /\ j < Len(q) => q[j + 1] \notin items

\* The items are events of a chain, of which they hold the first j.
Gathers(g, q, items, j) ==
  Linked(g, q) /\ items \subseteq {q[i] : i \in 1..Len(q)} /\ Reaches(q, items, j)

\* Some number of first events is there.
LEMMA ReachExists ==
  ASSUME NEW q, NEW items, Len(q) \in Nat
  PROVE  \E j : Reaches(q, items, j)
<1> DEFINE T == {i \in Nat : i < Len(q) => q[i + 1] \notin items}
<1>1. Len(q) \in T
  OBVIOUS
<1>2. PICK j \in T : \A i \in T : j <= i
  BY <1>1, LeastNat
<1>3. j \in 0..Len(q)
  BY <1>1, <1>2
<1>4. ASSUME NEW i \in 1..j PROVE q[i] \in items
  <2>1. i - 1 \in Nat /\ i - 1 < j /\ i - 1 < Len(q) /\ (i - 1) + 1 = i
    BY <1>3
  <2>2. i - 1 \notin T
    BY <1>2, <1>3, <2>1
  <2> QED
    BY <2>1, <2>2
<1> QED
  BY <1>2, <1>3, <1>4 DEF Reaches

\* No more events are reached than there are items.
LEMMA ReachSmall ==
  ASSUME NEW g, NEW q, NEW items, Linked(g, q), IsFiniteSet(items), NEW j, Reaches(q, items, j)
  PROVE  Cardinality(items) \in Nat /\ j <= Cardinality(items) /\ j \in Nat
<1>0. j \in Nat /\ Len(q) \in Nat /\ j <= Len(q)
  BY DEF Reaches, Linked
<1> DEFINE f == [i \in 1..j |-> q[i]]
<1>1. \A i, k \in 1..j : q[i] = q[k] => i = k
  BY <1>0 DEF Linked
<1>2. f \in Injection(1..j, items)
  BY <1>0, <1>1 DEF Injection, IsInjective, Reaches
<1>3. IsFiniteSet(1..j) /\ Cardinality(1..j) = j
  <2>1. /\ IsFiniteSet(1..j)
        /\ Cardinality(1..j) = IF 1 > j THEN 0 ELSE j - 1 + 1
    <3>1. 1 \in Int /\ j \in Int
      BY <1>0
    <3> QED
      BY <3>1, FS_Interval, Zenon
  <2> QED
    BY <1>0, <2>1
<1>4. Cardinality(1..j) <= Cardinality(items)
  BY <1>2, <1>3, FS_Injection
<1>5. Cardinality(items) \in Nat
  BY FS_CardinalityType
<1> QED
  BY <1>0, <1>3, <1>4, <1>5

\* One step of the walk.
Walked(g, items, taken) ==
  LET head == IF taken = <<>> THEN g ELSE taken[Len(taken)].new
      next == {i \in items \ Range(taken) : i.prev = head}
  IN IF next = {} THEN taken ELSE Append(taken, CHOOSE i \in next : TRUE)

FirstOf(q, k) == [i \in 1..k |-> q[i]]

\* The walk over items of a chain takes the next event while it is there.
LEMMA WalkStep ==
  ASSUME NEW g, NEW q, NEW items, NEW j, Gathers(g, q, items, j), NEW k \in 0..j
  PROVE  Walked(g, items, FirstOf(q, k)) = IF k < j THEN FirstOf(q, k + 1) ELSE FirstOf(q, j)
<1> DEFINE head(i) == IF i = 0 THEN g ELSE q[i].new
           t == FirstOf(q, k)
           next == {i \in items \ Range(t) : i.prev = head(k)}
<1> USE DEF Gathers
<1>0. j \in Nat /\ k \in Nat /\ Len(q) \in Nat /\ j <= Len(q) /\ k <= j
  BY DEF Reaches, Linked
<1>1. Len(t) = k /\ t \in Seq({q[i] : i \in 1..k})
  BY <1>0 DEF FirstOf
<1>2. Range(t) = {q[i] : i \in 1..k}
  BY <1>0 DEF FirstOf, Range
<1>3. (IF t = <<>> THEN g ELSE t[Len(t)].new) = head(k)
  BY <1>0, <1>1 DEF FirstOf
<1>4. /\ \A i \in 1..Len(q) : q[i].prev = head(i - 1)
      /\ \A i, l \in 0..Len(q) : head(i) = head(l) => i = l
  BY DEF Linked
<1> HIDE DEF head
<1>5. \A x \in next : k < Len(q) /\ x = q[k + 1]
  <2> SUFFICES ASSUME NEW x \in next PROVE k < Len(q) /\ x = q[k + 1]
    OBVIOUS
  <2>1. PICK i \in 1..Len(q) : x = q[i]
    OBVIOUS
  <2>2. head(i - 1) = head(k)
    BY <1>4, <2>1
  <2>3. i - 1 \in 0..Len(q) /\ k \in 0..Len(q)
    BY <1>0, <2>1
  <2>4. i - 1 = k
    BY <1>4, <2>2, <2>3
  <2> QED
    BY <1>0, <2>1, <2>4
<1>6. CASE k < j
  <2>1. q[k + 1] \in items /\ q[k + 1].prev = head(k)
    BY <1>0, <1>4, <1>6 DEF Reaches
  <2>2. q[k + 1] \notin Range(t)
    <3> SUFFICES ASSUME NEW i \in 1..k, q[k + 1] = q[i] PROVE FALSE
      BY <1>2
    <3>1. head(k + 1) = head(i)
      BY <1>0 DEF head
    <3> QED
      BY <1>0, <1>4, <1>6, <3>1
  <2>3. next = {q[k + 1]}
    BY <1>5, <2>1, <2>2
  <2>4. (CHOOSE i \in next : TRUE) = q[k + 1]
    BY <2>3
  <2>5. Walked(g, items, t) = Append(t, q[k + 1])
    BY <1>3, <2>3, <2>4 DEF Walked
  <2>6. Append(t, q[k + 1]) = FirstOf(q, k + 1)
    BY <1>0, <1>1 DEF FirstOf
  <2> QED
    BY <1>6, <2>5, <2>6
<1>7. CASE ~(k < j)
  <2>1. k = j
    BY <1>0, <1>7
  <2>2. next = {}
    BY <1>0, <1>5, <2>1 DEF Reaches
  <2>3. Walked(g, items, t) = t
    BY <1>3, <2>2 DEF Walked
  <2> QED
    BY <1>7, <2>1, <2>3
<1> QED
  BY <1>6, <1>7

\* A walk of n steps is the one recursive function of its definition.
IsWalk(g, items, n, w) ==
  w = [k \in 0..n |-> IF k = 0 THEN <<>> ELSE Walked(g, items, w[k - 1])]

WalkOf(g, items, n) == CHOOSE w : IsWalk(g, items, n, w)

\* What orderByLinkage computes from items of a chain: the events from the
\* first one on up to the first that is missing, and nothing after a hole.
LEMMA OrderIsPrefix ==
  ASSUME NEW g, NEW q, NEW items, NEW j, Gathers(g, q, items, j)
  PROVE  orderByLinkage(g, items) = [k \in 1..j |-> Entry(q[k])]
<1>0. Linked(g, q) /\ items \subseteq {q[i] : i \in 1..Len(q)} /\ Reaches(q, items, j)
  BY DEF Gathers
<1>1. IsFiniteSet(items)
  <2>1. Len(q) \in Nat /\ 1 \in Int /\ Len(q) \in Int
    BY <1>0 DEF Linked
  <2>2. IsFiniteSet(1..Len(q))
    BY <2>1, FS_Interval, Zenon
  <2>3. IsFiniteSet({q[i] : i \in 1..Len(q)})
    <3> DEFINE f == [i \in 1..Len(q) |-> q[i]]
               R == {q[i] : i \in 1..Len(q)}
    <3>1. f \in Surjection(1..Len(q), R)
      BY DEF Surjection
    <3> QED
      BY <2>2, <3>1, FS_Surjection
  <2> QED
    BY <1>0, <2>3, FS_Subset
<1>2. PICK n \in Nat : n = Cardinality(items) /\ j <= n /\ j \in Nat
  BY <1>0, <1>1, ReachSmall
<1> DEFINE W == WalkOf(g, items, n)
           Upto(k) == FirstOf(q, IF k < j THEN k ELSE j)
           v == [k \in 0..n |-> Upto(k)]
<1>3. ASSUME NEW k \in 0..n, k # 0
      PROVE  Walked(g, items, Upto(k - 1)) = Upto(k)
  <2>1. CASE k - 1 < j
    <3>0. PICK l \in 0..j : l = k - 1
      BY <1>2, <1>3, <2>1
    <3>1. Walked(g, items, FirstOf(q, l)) = IF l < j THEN FirstOf(q, l + 1) ELSE FirstOf(q, j)
      BY WalkStep
    <3>2. l + 1 = k /\ l < j /\ (k < j \/ k = j)
      BY <1>2, <1>3, <2>1, <3>0
    <3> QED
      BY <3>0, <3>1, <3>2
  <2>2. CASE ~(k - 1 < j)
    <3>1. Walked(g, items, FirstOf(q, j)) = FirstOf(q, j)
      BY <1>2, WalkStep
    <3>2. ~(k < j)
      BY <1>2, <1>3, <2>2
    <3> QED
      BY <2>2, <3>1, <3>2
  <2> QED
    BY <2>1, <2>2
<1>4. Upto(0) = <<>>
  BY <1>2 DEF FirstOf
<1> HIDE DEF Upto
<1>5. IsWalk(g, items, n, v)
  BY <1>3, <1>4 DEF IsWalk
<1>6. IsWalk(g, items, n, W)
  BY <1>5, Zenon DEF WalkOf
<1> HIDE DEF W
<1>7. \A k \in 0..n : W[k] = Upto(k)
  <2> DEFINE T == {k \in Nat : k <= n => W[k] = Upto(k)}
  <2>1. 0 \in T
    BY <1>4, <1>6 DEF IsWalk
  <2>2. ASSUME NEW k \in Nat, k \in T PROVE k + 1 \in T
    <3> SUFFICES ASSUME k + 1 <= n PROVE W[k + 1] = Upto(k + 1)
      OBVIOUS
    <3>1. W[k + 1] = Walked(g, items, W[k])
      BY <1>6 DEF IsWalk
    <3>2. W[k] = Upto(k)
      BY <2>2
    <3>3. k + 1 \in 0..n /\ k + 1 # 0 /\ (k + 1) - 1 = k
      OBVIOUS
    <3>4. Walked(g, items, Upto(k)) = Upto(k + 1)
      BY <1>3, <3>3
    <3> QED
      BY <3>1, <3>2, <3>4
  <2> HIDE DEF T
  <2>3. Nat \subseteq T
    BY <2>1, <2>2, NatSet
  <2> QED
    BY <2>3 DEF T
<1>8. W[n] = FirstOf(q, j)
  BY <1>2, <1>7 DEF Upto
<1>9. orderByLinkage(g, items) = [k \in 1..Len(W[n]) |-> Entry(W[n][k])]
  BY <1>2 DEF orderByLinkage, WalkOf, IsWalk, Walked, W
<1>10. Len(FirstOf(q, j)) = j
  BY <1>2 DEF FirstOf
<1> QED
  BY <1>2, <1>8, <1>9, <1>10 DEF FirstOf

(***************************************************************************)
(* Replaying                                                               *)
(***************************************************************************)
\* The heads of a chain from g: h[0] is g, and each entry is hashed onto the
\* head before it.
IsReplay(g, entries, h) ==
  h = [k \in 0..Len(entries) |->
         IF k = 0 THEN g ELSE compute_entry_hash(h[k - 1], entries[k])]

\* A function that satisfies the equation of collectHeads is what it computes.
LEMMA CollectIsReplay ==
  ASSUME NEW g, NEW entries, Len(entries) \in Nat, NEW h, IsReplay(g, entries, h)
  PROVE  collectHeads(g, entries) = h
<1> DEFINE n == Len(entries)
           W == CHOOSE w : IsReplay(g, entries, w)
<1>1. IsReplay(g, entries, W)
  BY Zenon
<1>2. collectHeads(g, entries) = W
  BY DEF collectHeads, IsReplay
<1> HIDE DEF W
<1> DEFINE T == {k \in Nat : k <= n => W[k] = h[k]}
<1>3. 0 \in T
  BY <1>1 DEF IsReplay
<1>4. ASSUME NEW k \in Nat, k \in T PROVE k + 1 \in T
  <2> SUFFICES ASSUME k + 1 <= n PROVE W[k + 1] = h[k + 1]
    OBVIOUS
  <2>1. k + 1 \in 0..n /\ k + 1 # 0 /\ (k + 1) - 1 = k /\ W[k] = h[k]
    BY <1>4
  <2>2. W[k + 1] = compute_entry_hash(W[k], entries[k + 1])
    BY <1>1, <2>1 DEF IsReplay
  <2>3. h[k + 1] = compute_entry_hash(h[k], entries[k + 1])
    BY <2>1 DEF IsReplay
  <2> QED
    BY <2>1, <2>2, <2>3
<1> HIDE DEF T
<1>5. Nat \subseteq T
  BY <1>3, <1>4, NatSet
<1>6. \A k \in 0..n : W[k] = h[k]
  BY <1>5 DEF T
<1>7. W = [k \in 0..n |-> W[k]] /\ h = [k \in 0..n |-> h[k]]
  BY <1>1 DEF IsReplay
<1> QED
  BY <1>2, <1>6, <1>7

(***************************************************************************)
(* What is read of a Machine's chain                                       *)
(***************************************************************************)
\* The events of a Machine are a chain from its start head.
LEMMA LogLinked ==
  ASSUME ChainFact, NEW m \in Live
  PROVE  Linked(StartHead(m), log[m]) /\ Len(log[m]) \in Nat
<1>1. Len(log[m]) \in Nat
  BY DEF ChainFact, TypeOK
<1> DEFINE head(i) == IF i = 0 THEN StartHead(m) ELSE log[m][i].new
<1>2. \A i : head(i) = HeadAt(m, i)
  BY DEF HeadAt
<1>3. \A i \in 1..Len(log[m]) : log[m][i].prev = head(i - 1)
  BY <1>2 DEF ChainFact, HeadReplaysFromEvents
<1>4. \A i, j \in 0..Len(log[m]) : head(i) = head(j) => i = j
  BY <1>2 DEF ChainFact, HeadsNeverCollide
<1> QED
  BY <1>1, <1>3, <1>4 DEF Linked

\* Events of one Machine are put in order up to the first that is missing.
LEMMA Ordered ==
  ASSUME ChainFact, NEW m \in Live, NEW links, links \subseteq Range(log[m])
  PROVE  \E j \in 0..Len(log[m]) : Reaches(log[m], links, j)
                                   /\ orderByLinkage(StartHead(m), links) = History(m, j)
<1>1. Linked(StartHead(m), log[m]) /\ Len(log[m]) \in Nat
  BY LogLinked
<1>2. links \subseteq {log[m][i] : i \in 1..Len(log[m])}
  <2>1. DOMAIN log[m] = 1..Len(log[m])
    BY DEF ChainFact, TypeOK
  <2> QED
    BY <2>1 DEF Range
<1>3. PICK j : Reaches(log[m], links, j)
  BY <1>1, ReachExists
<1>4. Gathers(StartHead(m), log[m], links, j)
  BY <1>1, <1>2, <1>3 DEF Gathers
<1>5. orderByLinkage(StartHead(m), links) = [k \in 1..j |-> Entry(log[m][k])]
  BY <1>4, OrderIsPrefix
<1> QED
  BY <1>3, <1>5 DEF Reaches, History

\* Replaying the first entries passes through the heads the chain had.
LEMMA Replayed ==
  ASSUME ChainFact, NEW m \in Live, NEW j \in 0..Len(log[m])
  PROVE  /\ Len(History(m, j)) = j
         /\ collectHeads(StartHead(m), History(m, j)) = [k \in 0..j |-> HeadAt(m, k)]
         /\ replayChain(StartHead(m), History(m, j)) = HeadAt(m, j)
<1>0. j \in Nat /\ Len(log[m]) \in Nat
  BY DEF ChainFact, TypeOK
<1>1. Len(History(m, j)) = j /\ \A k \in 1..j : History(m, j)[k] = Entry(log[m][k])
  BY <1>0 DEF History
<1> DEFINE h == [k \in 0..j |-> HeadAt(m, k)]
<1>2. ASSUME NEW k \in 0..j, k # 0
      PROVE  HeadAt(m, k) = compute_entry_hash(HeadAt(m, k - 1), History(m, j)[k])
  <2>1. /\ HeadAt(m, k) = log[m][k].new /\ log[m][k].prev = HeadAt(m, k - 1)
        /\ log[m][k].new = compute_entry_hash(log[m][k].prev, log[m][k])
    BY <1>0, <1>2 DEF ChainFact, HeadReplaysFromEvents, HeadAt
  <2>2. \A x, e : compute_entry_hash(x, Entry(e)) = compute_entry_hash(x, e)
    BY DEF compute_entry_hash, Entry
  <2> QED
    BY <1>1, <1>2, <2>1, <2>2
<1>3. HeadAt(m, 0) = StartHead(m)
  BY DEF HeadAt
<1>4. IsReplay(StartHead(m), History(m, j), h)
  BY <1>0, <1>1, <1>2, <1>3 DEF IsReplay
<1>5. collectHeads(StartHead(m), History(m, j)) = h
  BY <1>0, <1>1, <1>4, CollectIsReplay
<1> QED
  BY <1>0, <1>1, <1>5 DEF replayChain

(***************************************************************************)
(* The checkpoints among the entries                                       *)
(***************************************************************************)
IsAmong(entries, n, w) ==
  w = [k \in 0..n |-> IF k = 0 THEN <<>>
                      ELSE IF IsCheckpoint(entries[k]) THEN Append(w[k - 1], entries[k])
                      ELSE w[k - 1]]

\* checkpointsOf is defined for every list of entries.
LEMMA AmongExists ==
  ASSUME NEW entries, NEW n \in Nat
  PROVE  \E w : IsAmong(entries, n, w)
<1> DEFINE Next1(w, k) == IF IsCheckpoint(entries[k]) THEN Append(w[k - 1], entries[k])
                          ELSE w[k - 1]
           T == {k \in Nat : \E w : IsAmong(entries, k, w)}
<1>1. 0 \in T
  <2>1. PICK w : w = [k \in 0..0 |-> <<>>]
    OBVIOUS
  <2>2. IsAmong(entries, 0, w)
    BY <2>1 DEF IsAmong
  <2> QED
    BY <2>2
<1>2. ASSUME NEW k \in Nat, k \in T PROVE k + 1 \in T
  <2>0. PICK w : IsAmong(entries, k, w)
    BY <1>2
  <2>1. w = [i \in 0..k |-> IF i = 0 THEN <<>> ELSE Next1(w, i)]
    BY <2>0 DEF IsAmong
  <2>2. PICK v : v = [i \in 0..(k + 1) |-> IF i = 0 THEN <<>> ELSE Next1(w, i)]
    OBVIOUS
  <2>3. \A i \in 0..k : v[i] = w[i]
    <3> HIDE DEF Next1
    <3>1. \A i \in 0..k : w[i] = IF i = 0 THEN <<>> ELSE Next1(w, i)
      BY <2>1
    <3>2. \A i \in 0..(k + 1) : v[i] = IF i = 0 THEN <<>> ELSE Next1(w, i)
      BY <2>2
    <3> QED
      BY <3>1, <3>2
  <2>4. \A i \in 0..(k + 1) : i # 0 => i - 1 \in 0..k
    OBVIOUS
  <2>a. \A i \in 0..(k + 1) : i # 0 => Next1(v, i) = Next1(w, i)
    BY <2>3, <2>4
  <2> HIDE DEF Next1
  <2>5. v = [i \in 0..(k + 1) |-> IF i = 0 THEN <<>> ELSE Next1(v, i)]
    BY <2>2, <2>a
  <2>6. IsAmong(entries, k + 1, v)
    BY <2>5 DEF IsAmong, Next1
  <2> QED
    BY <2>6
<1> HIDE DEF T
<1>3. Nat \subseteq T
  BY <1>1, <1>2, NatSet
<1> QED
  BY <1>3 DEF T

\* What the checkpoints c among the first k entries of m are.
ListedUpTo(m, k, c) ==
  /\ c \in Seq({Entry(log[m][i]) : i \in 1..k})
  /\ Len(c) = NextSeq(m, k)
  /\ \A i \in 1..Len(c) : c[i].seq = i - 1
  /\ Len(c) # 0 => \E i \in 1..k : LastCheckpoint(m, k, i) /\ c[Len(c)] = Entry(log[m][i])

\* The checkpoints among the entries of a Machine are as many as the chain
\* says, in sequence, and the last one is the chain's last one.
LEMMA CheckpointsListed ==
  ASSUME ChainFact, NEW m \in Live, NEW n, n = Len(log[m])
  PROVE  ListedUpTo(m, n, checkpointsOf(History(m, n)))
<1> DEFINE E == History(m, n)
           W == CHOOSE w : IsAmong(E, n, w)
<1>0. n \in Nat /\ Len(E) = n /\ \A k \in 1..n : E[k] = Entry(log[m][k])
  BY DEF ChainFact, TypeOK, History
<1>1. IsAmong(E, n, W)
  BY <1>0, AmongExists, Zenon
<1>2. checkpointsOf(E) = W[n]
  BY <1>0 DEF checkpointsOf, IsAmong
<1>7. E = History(m, n)
  OBVIOUS
<1> HIDE DEF W, E
<1> DEFINE T == {k \in Nat : k <= n => ListedUpTo(m, k, W[k])}
<1>3. 0 \in T
  <2>1. W[0] = <<>>
    BY <1>0, <1>1 DEF IsAmong
  <2>2. Len(W[0]) = 0 /\ W[0] \in Seq({Entry(log[m][i]) : i \in 1..0}) /\ NextSeq(m, 0) = 0
    BY <2>1 DEF NextSeq
  <2>3. ListedUpTo(m, 0, W[0])
    BY <2>2 DEF ListedUpTo
  <2> QED
    BY <2>3
<1>4. ASSUME NEW k \in Nat, k \in T PROVE k + 1 \in T
  <2> SUFFICES ASSUME k + 1 <= n PROVE ListedUpTo(m, k + 1, W[k + 1])
    OBVIOUS
  <2> DEFINE e == log[m][k + 1]
             S == {Entry(log[m][i]) : i \in 1..(k + 1)}
  <2>1. k + 1 \in 0..n /\ k + 1 \in 1..n /\ k + 1 # 0 /\ (k + 1) - 1 = k
    BY <1>0
  <2>2. ListedUpTo(m, k, W[k])
    BY <1>4, <2>1
  <2>3. IsCheckpoint(E[k + 1]) <=> IsCheckpoint(e)
    <3>1. E[k + 1] = Entry(e)
      BY <1>0, <2>1
    <3>2. Entry(e).type = e.type
      BY DEF Entry
    <3> QED
      BY <3>1, <3>2 DEF IsCheckpoint
  <2>4. e.seq = NextSeq(m, k) /\ NextSeq(m, k + 1) = e.seq + (IF IsCheckpoint(e) THEN 1 ELSE 0)
    BY <2>1 DEF ChainFact, CheckpointSeqsContiguous, NextSeq
  <2>5. W[k] \in Seq(S) /\ Len(W[k]) \in Nat
    BY <2>2 DEF ListedUpTo
  <2>6. CASE IsCheckpoint(e)
    <3>1. W[k + 1] = Append(W[k], Entry(e))
      BY <1>0, <1>1, <2>1, <2>3, <2>6 DEF IsAmong
    <3>2. Entry(e) \in S /\ Entry(e).seq = e.seq
      BY <2>1 DEF Entry
    <3>3. /\ W[k + 1] \in Seq(S) /\ Len(W[k + 1]) = Len(W[k]) + 1
          /\ W[k + 1][Len(W[k]) + 1] = Entry(e)
          /\ \A i \in 1..Len(W[k]) : W[k + 1][i] = W[k][i]
      BY <2>5, <3>1, <3>2
    <3>4. ASSUME NEW i \in 1..Len(W[k + 1]) PROVE W[k + 1][i].seq = i - 1
      <4>1. CASE i \in 1..Len(W[k])
        BY <2>2, <3>3, <4>1 DEF ListedUpTo
      <4>2. CASE i = Len(W[k]) + 1
        <5>1. e.seq = Len(W[k])
          BY <2>2, <2>4 DEF ListedUpTo
        <5> QED
          BY <2>5, <3>2, <3>3, <4>2, <5>1
      <4> QED
        BY <2>5, <3>3, <4>1, <4>2
    <3>5. LastCheckpoint(m, k + 1, k + 1)
      BY <2>1, <2>6 DEF LastCheckpoint
    <3>6. Len(W[k + 1]) = NextSeq(m, k + 1)
      BY <2>2, <2>4, <2>6, <3>3 DEF ListedUpTo
    <3> QED
      BY <2>1, <3>3, <3>4, <3>5, <3>6 DEF ListedUpTo
  <2>7. CASE ~IsCheckpoint(e)
    <3>1. W[k + 1] = W[k]
      BY <1>0, <1>1, <2>1, <2>3, <2>7 DEF IsAmong
    <3>2. Len(W[k]) = NextSeq(m, k + 1)
      BY <2>2, <2>4, <2>5, <2>7 DEF ListedUpTo
    <3>3. \A i : LastCheckpoint(m, k, i) => i \in 1..(k + 1) /\ LastCheckpoint(m, k + 1, i)
      BY <2>7 DEF LastCheckpoint
    <3> QED
      BY <2>2, <2>5, <3>1, <3>2, <3>3 DEF ListedUpTo
  <2> QED
    BY <2>6, <2>7
<1> HIDE DEF T
<1>5. Nat \subseteq T
  BY <1>3, <1>4, NatSet
<1>6. ListedUpTo(m, n, W[n])
  BY <1>0, <1>5 DEF T
<1> QED
  BY <1>2, <1>6, <1>7

(***************************************************************************)
(* The checks                                                              *)
(***************************************************************************)
\* What passes has a true lineage and replays to the object's head.
LEMMA PassingReplays ==
  ASSUME NEW input, verifyMachine(input) = {}
  PROVE  /\ resolveGenesis(input) = {}
         /\ replayChain(chainGenesis(input), input.entries) = input.machine.head
<1> DEFINE head == "provenance-head"
<1>1. resolveGenesis(input) = {}
  BY DEF verifyMachine
<1>2. head \notin verifyMachine(input)
  OBVIOUS
<1> QED
  BY <1>1, <1>2 DEF verifyMachine

\* The lineage checks pass on a record that is bound to its child and whose
\* parent head was replayed, and on no other.
LEMMA LineageChecks ==
  ASSUME NEW input, input.fork # None
  PROVE  resolveGenesis(input) = {} <=>
           /\ input.fork.childHead = computeForkChildHead(input.fork.parentHead, input.id)
           /\ input.fork.parentHead \in Range(input.fork.parentHeads)
<1>1. \A c : c \in resolveGenesis(input) <=>
        \/ /\ c = "fork-binding"
           /\ input.fork.childHead # computeForkChildHead(input.fork.parentHead, input.id)
        \/ c = "fork-parent-head" /\ input.fork.parentHead \notin Range(input.fork.parentHeads)
  BY DEF resolveGenesis
<1> QED
  BY <1>1

\* The whole history of a Machine passes every check against its object.
LEMMA WholeHistoryPasses ==
  ASSUME ChainFact, NEW m \in Live, NEW n, n = Len(log[m]), NEW input,
         input.entries = History(m, n), input.machine = machines[m],
         chainGenesis(input) = StartHead(m), resolveGenesis(input) = {}
  PROVE  verifyMachine(input) = {}
<1> DEFINE M == machines[m]
           C == checkpointsOf(input.entries)
<1>0. n \in Nat /\ n \in 0..Len(log[m])
  BY DEF ChainFact, TypeOK
<1>1. ListedUpTo(m, n, C)
  BY CheckpointsListed
<1>2. replayChain(chainGenesis(input), input.entries) = M.head
  <2>1. replayChain(StartHead(m), History(m, n)) = HeadAt(m, n)
    BY <1>0, Replayed
  <2> QED
    BY <2>1 DEF ChainFact, HeadReplaysFromEvents
<1>3. Len(C) = M.count
  BY <1>1 DEF ListedUpTo, ChainFact, CheckpointSeqsContiguous
<1>4. \A i \in 1..Len(C) : C[i].seq = i - 1
  BY <1>1 DEF ListedUpTo
<1>5. Len(C) # 0 => C[Len(C)].blob = M.blob /\ C[Len(C)].manifest = M.manifest
  <2> SUFFICES ASSUME Len(C) # 0
               PROVE  C[Len(C)].blob = M.blob /\ C[Len(C)].manifest = M.manifest
    OBVIOUS
  <2>1. PICK i \in 1..n : LastCheckpoint(m, n, i) /\ C[Len(C)] = Entry(log[m][i])
    BY <1>1 DEF ListedUpTo
  <2>2. /\ Entry(log[m][i]).blob = log[m][i].blob
        /\ Entry(log[m][i]).manifest = log[m][i].manifest
    BY DEF Entry
  <2>3. M.manifest = log[m][i].manifest
    BY <2>1 DEF ChainFact, CurrentStateIsLastCheckpoint
  <2>4. BlobAt(m, n, M.blob)
    BY DEF ChainFact, CurrentStateIsLastCheckpoint
  <2>5. \A k \in 1..n : LastCheckpoint(m, n, k) => k = i
    BY <1>0, <2>1 DEF LastCheckpoint
  <2>6. ~NoCheckpoint(m, n)
    BY <2>1 DEF LastCheckpoint, NoCheckpoint
  <2>7. M.blob = log[m][i].blob
    BY <2>4, <2>5, <2>6 DEF BlobAt
  <2> QED
    BY <2>1, <2>2, <2>3, <2>7
<1> HIDE DEF C
<1>6. C = checkpointsOf(input.entries)
  BY DEF C
<1> QED
  BY <1>2, <1>3, <1>4, <1>5, <1>6 DEF verifyMachine

(***************************************************************************)
(* What the chain keeps                                                    *)
(***************************************************************************)
\* A step of the chain leaves the past of a Machine, its origin and, unless
\* it appends an entry, the object as they are.
Kept(m) ==
  /\ m \in Live' /\ Len(log[m]) \in Nat /\ Len(log'[m]) \in Nat /\ Len(log[m]) <= Len(log'[m])
  /\ \A i \in 1..Len(log[m]) : log'[m][i] = log[m][i]
  /\ \A k \in 0..Len(log[m]) : HeadAt(m, k)' = HeadAt(m, k)
  /\ StartHead(m)' = StartHead(m) /\ machines'[m].parent = machines[m].parent
  /\ m \in DOMAIN forks' <=> m \in DOMAIN forks
  /\ m \in DOMAIN forks => forks'[m] = forks[m]
  /\ Len(log'[m]) = Len(log[m]) => machines'[m] = machines[m]

\* Every step keeps every Machine.
LEMMA ChainKeeps ==
  ASSUME TypeOK, [Next]_vars, NEW m \in Live
  PROVE  Kept(m)
<1>0. TypeOK'
  BY TypeStep
<1>1. /\ m \in Live' /\ Len(log[m]) \in Nat /\ Len(log'[m]) \in Nat
      /\ Len(log[m]) <= Len(log'[m])
      /\ \A i \in 1..Len(log[m]) : log'[m][i] = log[m][i]
  BY ChainOnlyGrows DEF ChainGrows
<1>2. \A k \in 0..Len(log[m]) : HeadAt(m, k)' = HeadAt(m, k)
  BY PastKept
<1>3. StartHead(m)' = StartHead(m)
  <2>1. HeadAt(m, 0)' = HeadAt(m, 0)
    BY <1>1, <1>2
  <2> QED
    BY <2>1 DEF HeadAt
<1>4. /\ machines'[m].parent = machines[m].parent
      /\ m \in DOMAIN forks' <=> m \in DOMAIN forks
      /\ m \in DOMAIN forks => forks'[m] = forks[m]
      /\ Len(log'[m]) = Len(log[m]) => machines'[m] = machines[m]
  <2>1. CASE \E s \in Addresses, id \in ObjectIds, p \in PolicyIds : Create(s, id, p)
    BY <2>1, CreateFrame DEF CreateEffect
  <2>2. CASE \E s \in Addresses, x \in Live, c \in ObjectIds, p \in PolicyIds : fork(s, x, c, p)
    <3>1. PICK s \in Addresses, x \in Live, c \in ObjectIds, p \in PolicyIds : fork(s, x, c, p)
      BY <2>2
    <3>2. ForkEffect(x, c)
      BY <3>1, ForkFrame
    <3> QED
      BY <3>2 DEF ForkEffect
  <2>3. CASE \E x \in Live, r \in MachineRecords, e \in Events : ChainedStep(x, r, e)
    <3>1. PICK x \in Live, r \in MachineRecords, e \in Events : ChainedStep(x, r, e)
      BY <2>3
    <3>2. ExtendEffect(x, r, e) /\ r.parent = machines[x].parent
      BY <3>1, ExtendFrame DEF ChainedStep
    <3> QED
      BY <1>1, <3>2 DEF ExtendEffect
  <2>4. CASE ChainUntouched
    BY <2>4 DEF ChainUntouched
  <2> QED
    BY <2>1, <2>2, <2>3, <2>4, StepKinds
<1> QED
  BY <1>1, <1>2, <1>3, <1>4 DEF Kept

\* What was read of an object stays true.
LEMMA ReadKept ==
  ASSUME TypeOK, [Next]_vars, NEW s, ReadFact(s)
  PROVE  ReadFact(s)'
<1>1. Kept(s.target)
  BY ChainKeeps DEF ReadFact
<1> QED
  BY <1>1 DEF ReadFact, Kept

\* What was found is still there, and what was covered still is.
LEMMA FoundKept ==
  ASSUME TypeOK, [Next]_vars, NEW m \in Live, NEW k \in 0..Len(log[m]), NEW found, NEW todo
  PROVE  /\ found \subseteq Range(log[m]) => found \subseteq Range(log'[m])
         /\ Covered(m, k, found, todo) => Covered(m, k, found, todo)'
<1>1. Kept(m)
  BY ChainKeeps
<1>2. Range(log[m]) \subseteq Range(log'[m])
  <2>1. TypeOK'
    BY TypeStep
  <2>2. DOMAIN log[m] = 1..Len(log[m]) /\ DOMAIN log'[m] = 1..Len(log'[m])
    BY <1>1, <2>1 DEF TypeOK, Kept
  <2> QED
    BY <1>1, <2>2 DEF Range, Kept
<1>3. \A i \in 1..k : log'[m][i] = log[m][i]
  BY <1>1 DEF Kept
<1> QED
  BY <1>2, <1>3 DEF Covered

\* Reads in progress go on as before after a step of the chain.
LEMMA GatherKept ==
  ASSUME TypeOK, ForkLineage, [Next]_vars, NEW s, GatherFact(s)
  PROVE  GatherFact(s)'
<1> DEFINE t == s.target
<1>0. ReadFact(s) /\ ReadFact(s)' /\ t \in Live /\ s.start \in 0..Len(log[t])
  BY ReadKept DEF GatherFact, ReadFact
<1>1. Kept(t)
  BY <1>0, ChainKeeps
<1>2. /\ JobShape(s)' /\ s.mode \in {"verify", "export", "anchor"}
      /\ s.package \in {"right", "wrong"} /\ s.input = None
      /\ s.fork = None /\ s.machine.parent # NoParent => s.todo = <<>>
  BY DEF GatherFact, JobShape
<1>3. s.links \subseteq Range(log'[t])
  BY <1>0, FoundKept DEF GatherFact
<1>4. s.package = "right" /\ (s.fork # None \/ s.machine.parent = NoParent) =>
        Covered(t, s.start, s.links, s.todo)'
  BY <1>0, FoundKept DEF GatherFact
<1>5. CASE s.fork = None
  <2>1. Sources(s)' = Sources(s)
    BY <1>5 DEF Sources
  <2> QED
    BY <1>0, <1>2, <1>3, <1>4, <1>5, <2>1 DEF GatherFact
<1>6. CASE s.fork # None
  <2>0. PICK p : p = forks[t].parent
    OBVIOUS
  <2>1. /\ t \in DOMAIN forks /\ s.fork = ForkRead(t) /\ s.package = "right"
        /\ s.parentLinks \subseteq Range(log[p])
    BY <1>6, <2>0 DEF GatherFact
  <2>2. PICK k \in 0..Len(log[p]) :
          HeadAt(p, k) = forks[t].parentHead /\ Covered(p, k, s.parentLinks, s.todo)
    BY <1>6, <2>0 DEF GatherFact
  <2>3. p \in Live /\ Kept(p)
    BY <1>0, <2>0, <2>1, ChainKeeps DEF ForkLineage
  <2>4. t \in DOMAIN forks' /\ forks'[t] = forks[t]
    BY <1>1, <2>1 DEF Kept
  <2>5. StartHead(p)' = StartHead(p) /\ k \in 0..Len(log'[p]) /\ HeadAt(p, k)' = HeadAt(p, k)
    BY <2>3 DEF Kept
  <2>6. ForkRead(t)' = ForkRead(t)
    BY <2>0, <2>4, <2>5 DEF ForkRead
  <2>7. s.parentLinks \subseteq Range(log'[p]) /\ Covered(p, k, s.parentLinks, s.todo)'
    BY <2>1, <2>2, <2>3, FoundKept
  <2>8. Sources(s)' = Sources(s)
    BY <2>4 DEF Sources
  <2>9. p = forks'[t].parent
    BY <2>0, <2>4
  <2>a. \E l \in 0..Len(log'[p]) :
          HeadAt(p, l)' = forks'[t].parentHead /\ Covered(p, l, s.parentLinks, s.todo)'
    BY <2>2, <2>4, <2>5, <2>7
  <2> QED
    BY <1>0, <1>2, <1>3, <1>4, <2>1, <2>4, <2>6, <2>7, <2>8, <2>9, <2>a DEF GatherFact
<1> QED
  BY <1>5, <1>6

\* No fork is its own parent's, and chains stay within the bound.
LEMMA BasicsKept ==
  ASSUME TypeOK, ParentsDiffer, LogBounded, [Next]_vars
  PROVE  ParentsDiffer' /\ LogBounded'
<1>0. \A x \in Live : Len(log[x]) \in Nat
  BY DEF TypeOK
<1>1. CASE \E s \in Addresses, id \in ObjectIds, p \in PolicyIds : Create(s, id, p)
  <2>1. PICK s \in Addresses, id \in ObjectIds, p \in PolicyIds : Create(s, id, p)
    BY <1>1
  <2>2. CreateEffect(id)
    BY <2>1, CreateFrame
  <2> QED
    BY <2>2, BoundsAssumption DEF CreateEffect, ParentsDiffer, LogBounded
<1>2. CASE \E s \in Addresses, m \in Live, c \in ObjectIds, p \in PolicyIds : fork(s, m, c, p)
  <2>1. PICK s \in Addresses, m \in Live, c \in ObjectIds, p \in PolicyIds : fork(s, m, c, p)
    BY <1>2
  <2>2. ForkEffect(m, c)
    BY <2>1, ForkFrame
  <2> QED
    BY <2>2, BoundsAssumption DEF ForkEffect, ParentsDiffer, LogBounded
<1>3. CASE \E m \in Live, r \in MachineRecords, e \in Events : ChainedStep(m, r, e)
  <2>1. PICK m \in Live, r \in MachineRecords, e \in Events : ChainedStep(m, r, e)
    BY <1>3
  <2>2. ExtendEffect(m, r, e) /\ Len(log[m]) < MaxEntries
    BY <2>1, ExtendFrame DEF ChainedStep
  <2> QED
    BY <1>0, <2>2, BoundsAssumption DEF ExtendEffect, ParentsDiffer, LogBounded
<1>4. CASE ChainUntouched
  BY <1>4 DEF ChainUntouched, ParentsDiffer, LogBounded, Live
<1> QED
  BY <1>1, <1>2, <1>3, <1>4, StepKinds

\* The part of a chain that was there is there after a step.
LEMMA HistoryKept ==
  ASSUME TypeOK, [Next]_vars, NEW m \in Live, NEW k \in 0..Len(log[m])
  PROVE  k \in 0..Len(log'[m]) /\ History(m, k)' = History(m, k)
<1>1. Kept(m)
  BY ChainKeeps
<1>2. k \in 0..Len(log'[m]) /\ \A i \in 1..k : log'[m][i] = log[m][i]
  BY <1>1 DEF Kept
<1> QED
  BY <1>2 DEF History

\* A report stays true when the chain moves on.
LEMMA ResultKept ==
  ASSUME TypeOK, [Next]_vars, UNCHANGED <<job, evidence>>, JobFact, ResultFact
  PROVE  ResultFact'
<1>0. PICK s : s = job /\ s = job'
  OBVIOUS
<1>a. PICK ev : ev = evidence /\ ev = evidence'
  OBVIOUS
<1> DEFINE t == s.target
<1>1. CASE s.todo # None \/ (s.mode \in {"idle", "audit"} /\ s.input = None)
  BY <1>0, <1>1 DEF ResultFact, EntriesArePrefix, QuietReadVerifies, PassingReportIsTrue,
       LineageNeverFailsFalsely, AnchorIsTrue, Gathered, Reported
<1>2. CASE s.todo = None /\ ReadFact(s)
  <2>0. t \in Live /\ s.start \in 0..Len(log[t])
    BY <1>2 DEF ReadFact
  <2>1. Kept(t)
    BY <2>0, ChainKeeps
  <2>2. EntriesArePrefix'
    <3> SUFFICES ASSUME s.input # None
                 PROVE  LET E == s.input.entries IN
                        Len(E) <= Len(log'[t]) /\ E = History(t, Len(E))'
      BY <1>0, <1>2 DEF EntriesArePrefix, Gathered
    <3>1. PICK n : n = Len(s.input.entries)
      OBVIOUS
    <3>2. n <= Len(log[t]) /\ s.input.entries = History(t, n)
      BY <1>0, <1>2, <3>1 DEF ResultFact, EntriesArePrefix, Gathered
    <3>3. \/ n \in 0..Len(log[t])
          \/ n \notin Nat
      BY <2>1, <3>2 DEF Kept
    <3>4. CASE n \in 0..Len(log[t])
      BY <2>0, <2>1, <3>1, <3>2, <3>4, HistoryKept DEF Kept
    <3>5. CASE n \notin Nat
      BY <2>1, <3>1, <3>2, <3>5 DEF History, Kept
    <3> QED
      BY <3>3, <3>4, <3>5
  <2>3. QuietReadVerifies'
    BY <1>0, <2>0, <2>1 DEF ResultFact, QuietReadVerifies, Reported, Right, Quiet, Kept
  <2>4. PassingReportIsTrue'
    <3>1. History(t, s.start)' = History(t, s.start)
      BY <2>0, HistoryKept
    <3> QED
      BY <1>0, <3>1 DEF ResultFact, PassingReportIsTrue, Reported
  <2>5. LineageNeverFailsFalsely'
    BY <1>0 DEF ResultFact, LineageNeverFailsFalsely, Gathered, Right, resolveGenesis,
         computeForkChildHead
  <2>6. AnchorIsTrue'
    BY <1>0, <1>a, <2>0, <2>1 DEF ResultFact, AnchorIsTrue, Reported, Kept
  <2> QED
    BY <2>2, <2>3, <2>4, <2>5, <2>6 DEF ResultFact
<1> QED
  BY <1>0, <1>1, <1>2 DEF JobFact

\* A clean evidence file stays true when the chain moves on.
LEMMA EvidenceKept ==
  ASSUME TypeOK, [Next]_vars, UNCHANGED evidence, EvidenceFact
  PROVE  EvidenceFact'
<1>0. PICK ev : ev = evidence /\ ev = evidence'
  OBVIOUS
<1> SUFFICES ASSUME ev # None
             PROVE  /\ ev.id \in Live'
                    /\ CleanEvidenceIsTrue'
  BY <1>0 DEF EvidenceFact, CleanEvidenceIsTrue
<1>1. ev.id \in Live /\ Kept(ev.id)
  BY <1>0, ChainKeeps DEF EvidenceFact
<1>2. CASE verifyEvidence(ev) # {}
  BY <1>0, <1>1, <1>2 DEF CleanEvidenceIsTrue, Kept
<1>3. CASE verifyEvidence(ev) = {}
  <2>1. PICK n : n = Len(ev.entries)
    OBVIOUS
  <2>2. /\ n <= Len(log[ev.id]) /\ ev.machine.head = HeadAt(ev.id, n)
        /\ \A i \in 1..n : ev.entries[i].entry = Entry(log[ev.id][i])
                           /\ ev.entries[i].entryHash = HeadAt(ev.id, i)
    BY <1>0, <1>3, <2>1 DEF EvidenceFact, CleanEvidenceIsTrue
  <2> QED
    BY <1>0, <1>1, <2>1, <2>2 DEF CleanEvidenceIsTrue, Kept
<1> QED
  BY <1>2, <1>3

(***************************************************************************)
(* The steps of the verifier                                               *)
(***************************************************************************)
\* While reads are in progress, or after one that was given up, nothing is
\* reported.
LEMMA NothingReported ==
  ASSUME job'.todo # None \/ (job'.mode \in {"idle", "audit"} /\ job'.input = None)
  PROVE  ResultFact'
  BY DEF ResultFact, EntriesArePrefix, QuietReadVerifies, PassingReportIsTrue,
       LineageNeverFailsFalsely, AnchorIsTrue, Gathered, Reported

\* What is said of a job depends on the chain only.
LEMMA SameChain ==
  ASSUME UNCHANGED vars, NEW s
  PROVE  /\ ReadFact(s) => ReadFact(s)'
         /\ GatherFact(s) => GatherFact(s)'
         /\ ParentsDiffer /\ LogBounded => ParentsDiffer' /\ LogBounded'
<1>1. /\ machines' = machines /\ log' = log /\ forks' = forks /\ Live' = Live
  BY DEF vars, Live
<1>2. \A m : StartHead(m)' = StartHead(m)
  BY <1>1 DEF StartHead
<1>3. \A m, k : HeadAt(m, k)' = HeadAt(m, k)
  BY <1>1, <1>2 DEF HeadAt
<1>4. \A m, k, found, todo : Covered(m, k, found, todo)' <=> Covered(m, k, found, todo)
  BY <1>1 DEF Covered
<1>5. \A t : ForkRead(t)' = ForkRead(t)
  BY <1>1, <1>2 DEF ForkRead
<1>6. Sources(s)' = Sources(s) /\ (JobShape(s)' <=> JobShape(s))
  BY <1>1 DEF Sources, JobShape
<1>7. ReadFact(s)' <=> ReadFact(s)
  BY <1>1, <1>3 DEF ReadFact
<1>8. GatherFact(s)' <=> GatherFact(s)
  BY <1>1, <1>3, <1>4, <1>5, <1>6, <1>7 DEF GatherFact
<1> QED
  BY <1>1, <1>7, <1>8 DEF ParentsDiffer, LogBounded

\* A step of the verifier preserves the invariant if the job it leaves is one
\* of reads in progress, or nothing.
LEMMA OnlyJobChanges ==
  ASSUME TypeOK, VerifierInv, UNCHANGED <<vars, evidence>>, NEW s, job' = s,
         \/ s.todo # None /\ GatherFact(s)
         \/ s.todo = None /\ s.mode \in {"idle", "audit"} /\ s.input = None
  PROVE  VerifierInv'
<1>1. ResultFact'
  BY NothingReported
<1>2. EvidenceFact'
  BY EvidenceKept DEF VerifierInv
<1>3. JobFact'
  BY SameChain DEF JobFact
<1> QED
  BY <1>1, <1>2, <1>3, SameChain DEF VerifierInv

\* Every entry is of one of the types that are queried.
LEMMA EventType ==
  ASSUME TypeOK, NEW m \in Live, NEW i \in 1..Len(log[m])
  PROVE  log[m][i].type \in EntryTypes
<1>1. log[m] \in Seq(Events)
  BY DEF TypeOK
<1>2. log[m][i] \in Events
  BY <1>1
<1> QED
  BY <1>2 DEF Events

\* Reads that begin know the object as it is.
LEMMA StartedFact ==
  ASSUME ChainFact, NEW mode \in {"verify", "export", "anchor"},
         NEW package \in {"right", "wrong"}, NEW m \in Live
  PROVE  Started(mode, package, m).todo # None /\ GatherFact(Started(mode, package, m))
<1> DEFINE todo == IF machines[m].parent = NoParent THEN ownQueries(m) ELSE <<>>
<1>1. PICK s : s = Started(mode, package, m)
  OBVIOUS
<1>2. /\ s = [mode |-> mode, package |-> package, target |-> m, machine |-> machines[m],
              start |-> Len(log[m]), fork |-> None, links |-> {}, parentLinks |-> {},
              todo |-> todo, input |-> None, failed |-> {}]
  BY <1>1 DEF Started
<1>3. m \in ObjectIds /\ log[m] \in Seq(Events) /\ Len(log[m]) \in Nat
  BY DEF ChainFact, TypeOK
<1>4. /\ ownQueries(m) \in Seq({m} \X EntryTypes)
      /\ \A type \in EntryTypes : <<m, type>> \in Range(ownQueries(m))
  BY DEF ownQueries, EntryTypes, Range
<1>5. todo \in Seq({m} \X EntryTypes) /\ todo \in Seq(ObjectIds \X EntryTypes)
  BY <1>3, <1>4
<1> HIDE DEF todo
<1>6. JobShape(s)
  BY <1>2 DEF JobShape, JobFields
<1>7. ReadFact(s)
  BY <1>2, <1>3 DEF ReadFact, ChainFact, HeadReplaysFromEvents
<1>8. Sources(s) = {m}
  BY <1>2 DEF Sources
<1>9. machines[m].parent = NoParent => Covered(m, Len(log[m]), {}, todo)
  <2> SUFFICES ASSUME machines[m].parent = NoParent, NEW i \in 1..Len(log[m])
               PROVE  <<m, log[m][i].type>> \in Range(todo)
    BY DEF Covered
  <2>1. log[m][i].type \in EntryTypes
    BY EventType DEF ChainFact
  <2> QED
    BY <1>4, <2>1 DEF todo
<1>10. machines[m].parent # NoParent => todo = <<>>
  BY DEF todo
<1>11. GatherFact(s)
  BY <1>2, <1>5, <1>6, <1>7, <1>8, <1>9, <1>10 DEF GatherFact
<1> QED
  BY <1>1, <1>2, <1>5, <1>11, NoneAssumption

\* A command or tool that begins to read.
LEMMA BeginStep ==
  ASSUME ChainFact, VerifierInv, NEW mode \in {"verify", "export", "anchor"},
         NEW package \in {"right", "wrong"}, NEW m \in Live, Begin(mode, package, m)
  PROVE  VerifierInv'
<1>1. PICK s : s = Started(mode, package, m)
  OBVIOUS
<1>2. s.todo # None /\ GatherFact(s) /\ job' = s /\ UNCHANGED <<vars, evidence>>
  BY <1>1, StartedFact DEF Begin
<1> QED
  BY <1>2, OnlyJobChanges DEF ChainFact

\* An audit, of the file alone or against the chain.
LEMMA AuditStep ==
  ASSUME ChainFact, VerifierInv, NEW anchor \in BOOLEAN,
         NEW package \in {"right", "wrong"}, Audit(anchor, package)
  PROVE  VerifierInv'
<1>1. CASE anchor
  <2>1. evidence # None /\ Begin("anchor", package, evidence.id)
    BY <1>1 DEF Audit
  <2>2. PICK m \in Live : m = evidence.id
    BY <2>1 DEF VerifierInv, EvidenceFact
  <2>3. Begin("anchor", package, m)
    BY <2>1, <2>2
  <2> QED
    BY <2>3, BeginStep
<1>2. CASE ~anchor
  <2>1. AuditFile
    BY <1>2 DEF Audit
  <2>2. PICK s : s = [Idle EXCEPT !.mode = "audit", !.failed = audit(evidence, {})]
    OBVIOUS
  <2>3. s.todo = None /\ s.mode = "audit" /\ s.input = None
    BY <2>2 DEF Idle
  <2>4. job' = s /\ UNCHANGED <<vars, evidence>>
    BY <2>1, <2>2 DEF AuditFile
  <2> QED
    BY <2>3, <2>4, OnlyJobChanges DEF ChainFact
<1> QED
  BY <1>1, <1>2

\* A read that throws starts the reads again, or ends them.
LEMMA ReadThrowsStep ==
  ASSUME ChainFact, VerifierInv, ReadThrows
  PROVE  VerifierInv'
<1>1. GatherFact(job) /\ UNCHANGED <<vars, evidence>> /\ job' \in {retry, Idle}
  BY DEF VerifierInv, JobFact, ReadThrows
<1>2. CASE job' = Idle
  <2>1. Idle.todo = None /\ Idle.mode = "idle" /\ Idle.input = None
    BY DEF Idle
  <2> QED
    BY <1>1, <1>2, <2>1, OnlyJobChanges DEF ChainFact
<1>3. CASE job' = retry
  <2>1. PICK mode \in {"verify", "export", "anchor"}, package \in {"right", "wrong"},
             m \in Live : mode = job.mode /\ package = job.package /\ m = job.target
    BY <1>1 DEF GatherFact, ReadFact
  <2>2. PICK s : s = Started(mode, package, m)
    OBVIOUS
  <2>3. s.todo # None /\ GatherFact(s) /\ job' = s
    BY <1>3, <2>1, <2>2, StartedFact DEF retry
  <2> QED
    BY <1>1, <2>3, OnlyJobChanges DEF ChainFact
<1> QED
  BY <1>1, <1>2, <1>3

\* What is in progress when the fork event is due.
LEMMA ForkDue ==
  ASSUME ChainFact, VerifierInv, NeedsFork
  PROVE  /\ job.todo # None /\ GatherFact(job) /\ job.target \in DOMAIN forks
         /\ forks[job.target] \in ForkEvents /\ forks[job.target].parent \in Live
<1>1. job.todo # None
  <2>1. <<>> \in Seq(ObjectIds \X EntryTypes)
    OBVIOUS
  <2> QED
    BY <2>1, NoneAssumption DEF NeedsFork
<1>2. GatherFact(job)
  BY <1>1 DEF VerifierInv, JobFact
<1>3. job.target \in Live /\ machines[job.target].parent # NoParent
  BY <1>2 DEF NeedsFork, GatherFact, ReadFact
<1>4. job.target \in DOMAIN forks /\ forks[job.target].parent \in Live
  BY <1>3 DEF ChainFact, ForkLineage
<1>5. forks[job.target] \in ForkEvents
  BY <1>4 DEF ChainFact, TypeOK
<1> QED
  BY <1>1, <1>2, <1>4, <1>5

\* Heads are hash chains, and a replay of a bounded log lists them.
LEMMA HeadType ==
  ASSUME ChainFact, NEW m \in Live, NEW k \in 0..Len(log[m])
  PROVE  HeadAt(m, k) \in Heads /\ StartHead(m) \in Heads
<1>1. m \in ObjectIds /\ log[m] \in Seq(Events)
  BY DEF ChainFact, TypeOK
<1>2. CASE m \in DOMAIN forks
  <2>1. forks[m] \in ForkEvents
    BY <1>2 DEF ChainFact, TypeOK
  <2>2. StartHead(m) \in Heads
    BY <1>2, <2>1 DEF StartHead, ForkEvents
  <2>3. k # 0 => log[m][k] \in Events
    BY <1>1
  <2> QED
    BY <2>2, <2>3 DEF HeadAt, Events
<1>3. CASE m \notin DOMAIN forks
  <2>1. genesis_head(m) \in Heads
    BY <1>1 DEF genesis_head, Heads, OriginLinks
  <2>2. StartHead(m) \in Heads
    BY <1>3, <2>1 DEF StartHead
  <2>3. k # 0 => log[m][k] \in Events
    BY <1>1
  <2> QED
    BY <2>2, <2>3 DEF HeadAt, Events
<1> QED
  BY <1>2, <1>3

\* What is in one of two lists is in their concatenation.
LEMMA RangeConcat ==
  ASSUME NEW S, NEW a \in Seq(S), NEW b \in Seq(S)
  PROVE  /\ a \o b \in Seq(S)
         /\ \A x : x \in Range(a) \/ x \in Range(b) => x \in Range(a \o b)
<1>1. /\ a \o b \in Seq(S) /\ Len(a \o b) = Len(a) + Len(b)
      /\ \A i \in 1..(Len(a) + Len(b)) :
           (a \o b)[i] = IF i <= Len(a) THEN a[i] ELSE b[i - Len(a)]
  OBVIOUS
<1>2. /\ Len(a) \in Nat /\ Len(b) \in Nat /\ DOMAIN a = 1..Len(a) /\ DOMAIN b = 1..Len(b)
      /\ DOMAIN (a \o b) = 1..(Len(a) + Len(b))
  BY <1>1
<1>3. ASSUME NEW i \in DOMAIN a PROVE a[i] \in Range(a \o b)
  <2>1. i \in DOMAIN (a \o b) /\ (a \o b)[i] = a[i]
    BY <1>1, <1>2, <1>3
  <2> QED
    BY <2>1 DEF Range
<1>4. ASSUME NEW i \in DOMAIN b PROVE b[i] \in Range(a \o b)
  <2>1. PICK j : j = Len(a) + i
    OBVIOUS
  <2>2. j \in DOMAIN (a \o b) /\ (a \o b)[j] = b[i]
    BY <1>1, <1>2, <1>4, <2>1
  <2> QED
    BY <2>2 DEF Range
<1> QED
  BY <1>1, <1>3, <1>4 DEF Range

\* The fork event names the parent, whose chain passed through the recorded
\* head; its events are queried from then on.
LEMMA FetchForkStep ==
  ASSUME ChainFact, VerifierInv, FetchFork
  PROVE  VerifierInv'
<1>1. /\ NeedsFork /\ job.package = "right" /\ job.todo # None /\ GatherFact(job)
      /\ job.target \in DOMAIN forks
      /\ forks[job.target] \in ForkEvents /\ forks[job.target].parent \in Live
  BY ForkDue DEF FetchFork
<1>2. PICK t \in Live, p \in Live : t = job.target /\ p = forks[t].parent
  BY <1>1 DEF GatherFact, ReadFact
<1> DEFINE todo == parentQueries(p) \o ownQueries(t)
<1>3. PICK r, q, s : r = ForkRead(t) /\ q = todo /\ s = job'
  OBVIOUS
<1>4. /\ JobShape(s) /\ s.fork = ForkRead(t) /\ s.todo = todo
      /\ s.mode = job.mode /\ s.package = "right" /\ s.target = t /\ s.machine = job.machine
      /\ s.start = job.start /\ s.links = job.links /\ s.parentLinks = job.parentLinks
      /\ s.input = job.input
  <2>1. s = [job EXCEPT !.fork = r, !.todo = q]
    BY <1>2, <1>3 DEF FetchFork, ForkRead
  <2>2. JobShape(job)
    BY <1>1 DEF GatherFact
  <2> HIDE DEF todo
  <2>3. JobShape(s)
    BY <2>1, <2>2 DEF JobShape, JobFields
  <2> QED
    BY <1>1, <1>2, <1>3, <2>1, <2>2, <2>3 DEF JobShape, JobFields
<1>5. /\ parentQueries(p) \in Seq({t, p} \X EntryTypes)
      /\ \A type \in EntryTypes : <<p, type>> \in Range(parentQueries(p))
      /\ ownQueries(t) \in Seq({t, p} \X EntryTypes)
      /\ \A type \in EntryTypes : <<t, type>> \in Range(ownQueries(t))
  BY DEF parentQueries, ownQueries, EntryTypes, Range
<1>6. /\ todo \in Seq({t, p} \X EntryTypes)
      /\ \A x \in {t, p}, type \in EntryTypes : <<x, type>> \in Range(todo)
  BY <1>5, RangeConcat
<1> HIDE DEF todo
<1>7. todo # None
  <2>1. t \in ObjectIds /\ p \in ObjectIds
    BY DEF ChainFact, TypeOK
  <2>2. todo \in Seq(ObjectIds \X EntryTypes)
    BY <1>6, <2>1
  <2> QED
    BY <2>2, NoneAssumption
<1>8. ForkRead(t) # None
  <2>1. StartHead(p) \in Heads
    <3>1. 0 \in 0..Len(log[p])
      BY DEF ChainFact, TypeOK
    <3> QED
      BY <3>1, HeadType
  <2>2. ForkRead(t) \in [childHead : Heads, parentHead : Heads, parentGenesis : Heads]
    BY <1>1, <1>2, <2>1 DEF ForkRead, ForkEvents
  <2> QED
    BY <2>2, NoneAssumption
<1>9. \A m \in {t, p} : \A k \in 0..Len(log[m]) : \A found : Covered(m, k, found, todo)
  <2> SUFFICES ASSUME NEW m \in {t, p}, NEW k \in 0..Len(log[m]), NEW found, NEW i \in 1..k
               PROVE  <<m, log[m][i].type>> \in Range(todo)
    BY DEF Covered
  <2>1. m \in Live /\ Len(log[m]) \in Nat
    BY DEF ChainFact, TypeOK
  <2>2. log[m][i].type \in EntryTypes
    BY <2>1, EventType DEF ChainFact
  <2> QED
    BY <1>6, <2>2
<1>10. GatherFact(s)
  <2>1. Sources(s) = {t, p}
    BY <1>2, <1>4, <1>8 DEF Sources
  <2>3. ReadFact(job)
    BY <1>1 DEF GatherFact
  <2>4. ReadFact(s) /\ s.start \in 0..Len(log[t])
    BY <1>2, <1>4, <2>3 DEF ReadFact
  <2>5. /\ s.mode \in {"verify", "export", "anchor"} /\ s.input = None
        /\ s.links \subseteq Range(log[t]) /\ s.parentLinks = {}
    BY <1>1, <1>2, <1>4 DEF GatherFact, NeedsFork
  <2>6. Covered(t, s.start, s.links, todo)
    BY <1>9, <2>4
  <2>7. PICK k \in 0..Len(log[p]) : HeadAt(p, k) = forks[t].parentHead
    BY <1>1, <1>2 DEF ChainFact, ForkLineage
  <2>8. Covered(p, k, s.parentLinks, todo)
    BY <1>9
  <2> QED
    BY <1>2, <1>1, <1>4, <1>6, <1>8, <2>1, <2>4, <2>5, <2>6, <2>7, <2>8 DEF GatherFact
<1>11. UNCHANGED <<vars, evidence>>
  BY DEF FetchFork
<1> QED
  BY <1>3, <1>4, <1>7, <1>10, <1>11, OnlyJobChanges DEF ChainFact

\* Without the fork event there is no report that passes.
LEMMA ForkEventMissingStep ==
  ASSUME ChainFact, VerifierInv, ForkEventMissing
  PROVE  VerifierInv'
<1>1. GatherFact(job) /\ job.package = "wrong" /\ UNCHANGED <<vars, evidence>>
  BY ForkDue DEF ForkEventMissing
<1>a. PICK f : f = IF job.mode = "anchor" THEN audit(evidence, {"anchor-lineage"})
                     ELSE {"fork-event"}
  OBVIOUS
<1>2. PICK s : s = job'
  OBVIOUS
<1>3. /\ s.todo = None /\ s.failed = f /\ s.input = None /\ s.package = "wrong"
      /\ s.target = job.target /\ s.machine = job.machine /\ s.start = job.start
  <2>1. s = [job EXCEPT !.todo = None, !.failed = f]
    BY <1>a, <1>2 DEF ForkEventMissing
  <2>2. JobShape(job) /\ job.input = None
    BY <1>1 DEF GatherFact
  <2> QED
    BY <1>1, <2>1, <2>2 DEF JobShape, JobFields
<1>4. s.failed # {}
  BY <1>a, <1>3 DEF audit
<1>5. ReadFact(s)
  BY <1>1, <1>3 DEF GatherFact, ReadFact
<1>6. JobFact'
  BY <1>1, <1>2, <1>3, <1>5, SameChain DEF JobFact
<1>7. ResultFact'
  BY <1>2, <1>3, <1>4 DEF ResultFact, EntriesArePrefix, QuietReadVerifies, PassingReportIsTrue,
       LineageNeverFailsFalsely, AnchorIsTrue, Gathered, Reported, Right
<1>8. EvidenceFact'
  BY <1>1, EvidenceKept DEF VerifierInv, ChainFact
<1> QED
  BY <1>1, <1>6, <1>7, <1>8, SameChain DEF VerifierInv

\* The query <<m, type>> of todo is answered: what it was to find of x is in
\* new, and rest is what is left to ask.
Answers(x, old, new, todo, rest, m, type) ==
  /\ old \subseteq new
  /\ \A q \in Range(todo) : q = <<m, type>> \/ q \in Range(rest)
  /\ m = x => \A i \in 1..Len(log[x]) : log[x][i].type = type => log[x][i] \in new

\* What was covered before a query is covered after it.
LEMMA CoveredStep ==
  ASSUME ChainFact, NEW x \in Live, NEW k \in 0..Len(log[x]), NEW old, NEW new, NEW todo,
         NEW rest, NEW m, NEW type, Covered(x, k, old, todo),
         Answers(x, old, new, todo, rest, m, type)
  PROVE  Covered(x, k, new, rest)
<1> USE DEF Answers
<1> SUFFICES ASSUME NEW i \in 1..k
             PROVE  log[x][i] \in new \/ <<x, log[x][i].type>> \in Range(rest)
  BY DEF Covered
<1>1. Len(log[x]) \in Nat /\ i \in 1..Len(log[x])
  BY DEF ChainFact, TypeOK
<1>2. log[x][i] \in old \/ <<x, log[x][i].type>> \in Range(todo)
  BY DEF Covered
<1>3. CASE log[x][i] \in old
  BY <1>3
<1>4. CASE <<x, log[x][i].type>> \in Range(todo)
  <2>1. CASE <<x, log[x][i].type>> = <<m, type>>
    BY <1>1, <2>1
  <2>2. CASE <<x, log[x][i].type>> \in Range(rest)
    BY <2>2
  <2> QED
    BY <1>4, <2>1, <2>2
<1> QED
  BY <1>2, <1>3, <1>4

\* The first of a list of queries, and the others.
LEMMA FirstQuery ==
  ASSUME NEW S, NEW todo \in Seq(S \X EntryTypes), todo # <<>>
  PROVE  /\ Tail(todo) \in Seq(S \X EntryTypes)
         /\ \E m \in S, type \in EntryTypes : Head(todo) = <<m, type>>
         /\ \A q \in Range(todo) : q = Head(todo) \/ q \in Range(Tail(todo))
<1>1. /\ Tail(todo) \in Seq(S \X EntryTypes) /\ Head(todo) \in S \X EntryTypes
      /\ Len(todo) \in Nat /\ Len(todo) # 0 /\ Len(Tail(todo)) = Len(todo) - 1
      /\ Head(todo) = todo[1] /\ \A i \in 1..(Len(todo) - 1) : Tail(todo)[i] = todo[i + 1]
  OBVIOUS
<1>2. ASSUME NEW q \in Range(todo), q # Head(todo) PROVE q \in Range(Tail(todo))
  <2>1. PICK i \in 1..Len(todo) : q = todo[i]
    BY <1>1 DEF Range
  <2>2. PICK j \in 1..(Len(todo) - 1) : j = i - 1
    BY <1>1, <1>2, <2>1
  <2>3. DOMAIN Tail(todo) = 1..(Len(todo) - 1) /\ q = Tail(todo)[j]
    BY <1>1, <2>1, <2>2
  <2> QED
    BY <2>2, <2>3 DEF Range
<1> QED
  BY <1>1, <1>2

\* One query.
LEMMA QueryStep ==
  ASSUME ChainFact, VerifierInv, Query
  PROVE  VerifierInv'
<1>1. /\ GatherFact(job) /\ job.todo # None /\ job.todo # <<>> /\ UNCHANGED <<vars, evidence>>
      /\ JobShape(job) /\ ReadFact(job)
      /\ job.todo \in Seq(Sources(job) \X EntryTypes)
  BY DEF VerifierInv, JobFact, Query, GatherFact
<1>2. PICK t \in Live : t = job.target
  BY <1>1 DEF ReadFact
<1>3. PICK m \in Sources(job), type \in EntryTypes : Head(job.todo) = <<m, type>>
  BY <1>1, FirstQuery
<1>4. PICK rest : /\ rest = Tail(job.todo) /\ rest \in Seq(Sources(job) \X EntryTypes)
                  /\ \A q \in Range(job.todo) : q = <<m, type>> \/ q \in Range(rest)
  BY <1>1, <1>3, FirstQuery
<1>5. PICK found : found = queryMachineEvents(job.package, m, type)
  OBVIOUS
<1>6. PICK L, P, s : /\ L = job.links \cup (IF m = t THEN found ELSE {})
                     /\ P = job.parentLinks \cup (IF m = t THEN {} ELSE found)
                     /\ s = job'
  OBVIOUS
<1>7. /\ JobShape(s) /\ s.todo = rest /\ s.links = L /\ s.parentLinks = P
      /\ s.mode = job.mode /\ s.package = job.package /\ s.target = t
      /\ s.machine = job.machine /\ s.start = job.start /\ s.fork = job.fork
      /\ s.input = job.input
  <2>1. <<m, type>>[1] = m /\ <<m, type>>[2] = type
    OBVIOUS
  <2>2. s = [job EXCEPT !.todo = rest, !.links = L, !.parentLinks = P]
    BY <1>2, <1>3, <1>4, <1>5, <1>6, <2>1 DEF Query
  <2>3. JobShape(s)
    BY <1>1, <2>2 DEF JobShape, JobFields
  <2> QED
    BY <1>1, <1>2, <2>2, <2>3 DEF JobShape, JobFields
<1>8. /\ found \subseteq Range(log[m])
      /\ job.package = "right" /\ m \in Live =>
           \A i \in 1..Len(log[m]) : log[m][i].type = type => log[m][i] \in found
  <2>1. m \in Live => DOMAIN log[m] = 1..Len(log[m])
    BY DEF ChainFact, TypeOK
  <2> QED
    BY <1>5, <2>1 DEF queryMachineEvents, Range
<1>9. /\ ReadFact(s) /\ s.start \in 0..Len(log[t]) /\ Sources(s) = Sources(job)
      /\ s.mode \in {"verify", "export", "anchor"} /\ s.package \in {"right", "wrong"}
      /\ s.input = None
  BY <1>1, <1>2, <1>7 DEF ReadFact, GatherFact, Sources
<1>10. L \subseteq Range(log[t]) /\ job.links \subseteq L
  BY <1>1, <1>2, <1>6, <1>8 DEF GatherFact
<1>11. s.package = "right" /\ (s.fork # None \/ s.machine.parent = NoParent) =>
         Covered(t, s.start, L, rest)
  <2> SUFFICES ASSUME s.package = "right", s.fork # None \/ s.machine.parent = NoParent
               PROVE  Covered(t, s.start, L, rest)
    OBVIOUS
  <2>1. Covered(t, s.start, job.links, job.todo)
    BY <1>1, <1>2, <1>7 DEF GatherFact
  <2>2. m = t => \A i \in 1..Len(log[t]) : log[t][i].type = type => log[t][i] \in L
    BY <1>6, <1>7, <1>8
  <2>3. PICK k \in 0..Len(log[t]) : k = s.start
    BY <1>9
  <2> QED
    <3>1. PICK old, todo : old = job.links /\ todo = job.todo
      OBVIOUS
    <3>2. Answers(t, old, L, todo, rest, m, type)
      BY <1>4, <1>10, <2>2, <3>1 DEF Answers
    <3>3. Covered(t, k, old, todo)
      BY <2>1, <2>3, <3>1
    <3>4. Covered(t, k, L, rest)
      BY <3>2, <3>3, CoveredStep
    <3> QED
      BY <2>3, <3>4
<1>12. ~(s.fork = None /\ s.machine.parent # NoParent)
  BY <1>1, <1>7 DEF GatherFact
<1>13. s.todo # None
  <2>1. Sources(job) \subseteq ObjectIds
    BY <1>1, <1>2 DEF Sources, ChainFact, TypeOK, ForkLineage, GatherFact
  <2>2. rest \in Seq(ObjectIds \X EntryTypes)
    BY <1>4, <2>1
  <2> QED
    BY <1>7, <2>2, NoneAssumption
<1>14. CASE s.fork = None
  <2>1. m = t
    BY <1>2, <1>3, <1>7, <1>14 DEF Sources
  <2>2. P = {}
    BY <1>1, <1>6, <1>7, <1>14, <2>1 DEF GatherFact
  <2>3. GatherFact(s)
    BY <1>4, <1>7, <1>9, <1>10, <1>11, <1>12, <1>14, <2>2 DEF GatherFact
  <2> QED
    BY <1>1, <1>6, <1>13, <2>3, OnlyJobChanges DEF ChainFact
<1>15. CASE s.fork # None
  <2>1. PICK p : p = forks[t].parent
    OBVIOUS
  <2>2. /\ t \in DOMAIN forks /\ s.fork = ForkRead(t) /\ s.package = "right"
        /\ job.parentLinks \subseteq Range(log[p])
    BY <1>1, <1>2, <1>7, <1>15, <2>1 DEF GatherFact
  <2>3. PICK k \in 0..Len(log[p]) : /\ HeadAt(p, k) = forks[t].parentHead
                                    /\ Covered(p, k, job.parentLinks, job.todo)
    BY <1>1, <1>2, <1>7, <1>15, <2>1 DEF GatherFact
  <2>4. p \in Live /\ p # t
    BY <2>1, <2>2 DEF ChainFact, ForkLineage, VerifierInv, ParentsDiffer
  <2>5. m \in {t, p}
    BY <1>2, <1>3, <1>7, <1>15, <2>1 DEF Sources
  <2>6. P \subseteq Range(log[p]) /\ job.parentLinks \subseteq P
    BY <1>6, <1>8, <2>2, <2>5
  <2>7. m = p => \A i \in 1..Len(log[p]) : log[p][i].type = type => log[p][i] \in P
    BY <1>6, <1>7, <1>8, <2>2, <2>4
  <2>8. Covered(p, k, P, rest)
    <3>1. PICK old, todo : old = job.parentLinks /\ todo = job.todo
      OBVIOUS
    <3>2. Answers(p, old, P, todo, rest, m, type)
      BY <1>4, <2>6, <2>7, <3>1 DEF Answers
    <3>3. Covered(p, k, old, todo)
      BY <2>3, <3>1
    <3> QED
      BY <2>4, <3>2, <3>3, CoveredStep
  <2>9. GatherFact(s)
    BY <1>4, <1>7, <1>9, <1>10, <1>11, <1>15, <2>1, <2>2, <2>3, <2>6, <2>8 DEF GatherFact
  <2> QED
    BY <1>1, <1>6, <1>13, <2>9, OnlyJobChanges DEF ChainFact
<1> QED
  BY <1>14, <1>15

(***************************************************************************)
(* What a finished gather has                                              *)
(***************************************************************************)
\* The input is the first j entries of t, its start and its lineage.
TrueInput(input, t, machine, j) ==
  /\ input.id = t /\ input.machine = machine /\ input.entries = History(t, j)
  /\ input = [id |-> input.id, machine |-> input.machine, entries |-> input.entries,
              fork |-> input.fork]
  /\ j \in 0..Len(log[t])
  /\ chainGenesis(input) = StartHead(t) /\ resolveGenesis(input) = {}
  /\ t \notin DOMAIN forks => input.fork = None
  /\ t \in DOMAIN forks =>
       \E H \in HeadLists :
         /\ forks[t].parentHead \in Range(H)
         /\ input.fork = [parentHead |-> forks[t].parentHead, childHead |-> forks[t].childHead,
                          parentHeads |-> H]

\* When no query is left, the entries that were covered are put in order.
LEMMA CoveredReach ==
  ASSUME ChainFact, NEW m \in Live, NEW k \in 0..Len(log[m]), NEW links, NEW j,
         Covered(m, k, links, <<>>), Reaches(log[m], links, j)
  PROVE  k <= j
<1>1. Len(log[m]) \in Nat /\ j \in Nat /\ k \in Nat
  BY DEF ChainFact, TypeOK, Reaches
<1> SUFFICES ASSUME j < k PROVE FALSE
  BY <1>1
<1>2. PICK i \in 1..k : i = j + 1
  BY <1>1
<1>3. log[m][i] \notin links
  BY <1>1, <1>2 DEF Reaches
<1>4. Range(<<>>) = {}
  BY DEF Range
<1> QED
  BY <1>2, <1>3, <1>4 DEF Covered

\* A replay of a bounded chain is a list of heads.
LEMMA HeadListType ==
  ASSUME ChainFact, LogBounded, NEW m \in Live, NEW j \in 0..Len(log[m])
  PROVE  [k \in 0..j |-> HeadAt(m, k)] \in HeadLists
<1>1. Len(log[m]) \in Nat /\ Len(log[m]) <= MaxEntries /\ MaxEntries \in Nat
  BY BoundsAssumption DEF ChainFact, TypeOK, LogBounded
<1>2. j \in 0..MaxEntries
  BY <1>1
<1>3. \A k \in 0..j : HeadAt(m, k) \in Heads
  <2> SUFFICES ASSUME NEW k \in 0..j PROVE HeadAt(m, k) \in Heads
    OBVIOUS
  <2>1. k \in 0..Len(log[m])
    BY <1>1
  <2> QED
    BY <2>1, HeadType
<1>4. [k \in 0..j |-> HeadAt(m, k)] \in [0..j -> Heads]
  BY <1>3
<1> QED
  BY <1>2, <1>4 DEF HeadLists

\* The gather of a Machine that is no fork.
LEMMA GatheredNoFork ==
  ASSUME ChainFact, GatherFact(job), job.todo = <<>>, ~NeedsFork, job.fork = None
  PROVE  \E j : /\ TrueInput(VerifyInput, job.target, job.machine, j)
                /\ job.package = "right" => job.start <= j
<1>0. PICK t \in Live : t = job.target /\ job.start \in 0..Len(log[t])
  BY DEF GatherFact, ReadFact
<1>a. PICK links : links = job.links
  OBVIOUS
<1>1. PICK start \in 0..Len(log[t]) :
        t = job.target /\ start = job.start /\ links = job.links
  BY <1>0, <1>a
<1>2. job.machine.parent = NoParent /\ machines[t].parent = NoParent
  BY <1>1 DEF NeedsFork, GatherFact, ReadFact
<1>3. t \notin DOMAIN forks
  BY <1>2 DEF ChainFact, ForkLineage
<1>4. StartHead(t) = genesisHead(t)
  BY <1>3 DEF StartHead, genesisHead
<1>5. links \subseteq Range(log[t])
  BY <1>1 DEF GatherFact
<1>6. PICK j \in 0..Len(log[t]) : Reaches(log[t], links, j)
                                  /\ orderByLinkage(StartHead(t), links) = History(t, j)
  BY <1>5, Ordered
<1>7. PICK input : input = VerifyInput
  OBVIOUS
<1>8. input = [id |-> t, machine |-> job.machine, entries |-> History(t, j), fork |-> None]
  BY <1>1, <1>4, <1>6, <1>7 DEF VerifyInput
<1>9. TrueInput(input, t, job.machine, j)
  <2>1. chainGenesis(input) = StartHead(t)
    BY <1>4, <1>8 DEF chainGenesis
  <2>2. resolveGenesis(input) = {}
    BY <1>8 DEF resolveGenesis
  <2> QED
    BY <1>3, <1>8, <2>1, <2>2 DEF TrueInput
<1>10. job.package = "right" => start <= j
  <2> SUFFICES ASSUME job.package = "right" PROVE start <= j
    OBVIOUS
  <2>1. Covered(t, start, links, <<>>)
    BY <1>1, <1>2 DEF GatherFact
  <2> QED
    BY <1>6, <2>1, CoveredReach
<1> QED
  BY <1>1, <1>7, <1>9, <1>10

\* The gather of a fork: the parent was read far enough to pass through the
\* head the fork event records.
LEMMA GatheredFork ==
  ASSUME ChainFact, LogBounded, GatherFact(job), job.todo = <<>>, job.fork # None
  PROVE  \E j : /\ TrueInput(VerifyInput, job.target, job.machine, j)
                /\ job.package = "right" => job.start <= j
<1>0. PICK t \in Live : t = job.target /\ job.start \in 0..Len(log[t])
  BY DEF GatherFact, ReadFact
<1>a. PICK links, plinks : links = job.links /\ plinks = job.parentLinks
  OBVIOUS
<1>1. PICK start \in 0..Len(log[t]) :
        t = job.target /\ start = job.start /\ links = job.links /\ plinks = job.parentLinks
  BY <1>0, <1>a
<1>2. PICK p : p = forks[t].parent
  OBVIOUS
<1>3. /\ t \in DOMAIN forks /\ job.fork = ForkRead(t) /\ job.package = "right"
      /\ plinks \subseteq Range(log[p])
  BY <1>1, <1>2 DEF GatherFact
<1>4. PICK k \in 0..Len(log[p]) : /\ HeadAt(p, k) = forks[t].parentHead
                                  /\ Covered(p, k, plinks, <<>>)
  BY <1>1, <1>2 DEF GatherFact
<1>5. /\ p \in Live /\ forks[t] \in ForkEvents
      /\ forks[t].childHead = compute_fork_genesis(forks[t].parentHead, t)
  BY <1>2, <1>3 DEF ChainFact, ForkLineage, TypeOK
<1>6. PICK j \in 0..Len(log[t]) : Reaches(log[t], links, j)
                                  /\ orderByLinkage(StartHead(t), links) = History(t, j)
  <2>1. links \subseteq Range(log[t])
    BY <1>1 DEF GatherFact
  <2> QED
    BY <2>1, Ordered
<1>7. PICK jp \in 0..Len(log[p]) : Reaches(log[p], plinks, jp)
                                   /\ orderByLinkage(StartHead(p), plinks) = History(p, jp)
  BY <1>3, <1>5, Ordered
<1>8. PICK H : H = [i \in 0..jp |-> HeadAt(p, i)]
  OBVIOUS
<1>9. H \in HeadLists /\ collectHeads(StartHead(p), History(p, jp)) = H
  BY <1>5, <1>8, HeadListType, Replayed
<1>10. forks[t].parentHead \in Range(H)
  <2>1. k <= jp
    BY <1>4, <1>5, <1>7, CoveredReach
  <2>2. Len(log[p]) \in Nat
    BY <1>5 DEF ChainFact, TypeOK
  <2>3. k \in 0..jp
    BY <2>1, <2>2
  <2>4. k \in DOMAIN H /\ H[k] = forks[t].parentHead
    BY <1>4, <1>8, <2>3
  <2> QED
    BY <2>4 DEF Range
<1>11. PICK input, r :
         /\ input = VerifyInput
         /\ r = [parentHead |-> forks[t].parentHead, childHead |-> forks[t].childHead,
                 parentHeads |-> H]
  OBVIOUS
<1>12. r # None
  <2>1. r \in [childHead : Heads, parentHead : Heads, parentHeads : HeadLists]
    BY <1>5, <1>9, <1>11 DEF ForkEvents
  <2> QED
    BY <2>1, NoneAssumption
<1>13. input = [id |-> t, machine |-> job.machine, entries |-> History(t, j), fork |-> r]
  <2>1. PICK f : f = job.fork
    OBVIOUS
  <2>2. /\ f.childHead = StartHead(t) /\ f.parentHead = forks[t].parentHead
        /\ f.childHead = forks[t].childHead /\ f.parentGenesis = StartHead(p)
    BY <1>2, <1>3, <2>1 DEF ForkRead, StartHead
  <2>3. orderByLinkage(f.childHead, links) = History(t, j)
    BY <1>6, <2>2
  <2>4. collectHeads(f.parentGenesis, orderByLinkage(f.parentGenesis, plinks)) = H
    BY <1>7, <1>9, <2>2
  <2> QED
    BY <1>1, <1>11, <2>1, <2>2, <2>3, <2>4 DEF VerifyInput
<1>14. TrueInput(input, t, job.machine, j)
  <2>1. input.fork = r /\ input.id = t
    BY <1>13
  <2>2. chainGenesis(input) = StartHead(t)
    BY <1>3, <1>11, <1>12, <2>1 DEF chainGenesis, StartHead
  <2>3. resolveGenesis(input) = {}
    <3>1. input.fork.childHead = computeForkChildHead(input.fork.parentHead, input.id)
      BY <1>5, <1>11, <2>1 DEF computeForkChildHead
    <3>2. input.fork.parentHead \in Range(input.fork.parentHeads)
      BY <1>10, <1>11, <2>1
    <3>3. input.fork # None
      BY <1>12, <2>1
    <3> QED
      BY <3>1, <3>2, <3>3, LineageChecks
  <2> QED
    BY <1>3, <1>9, <1>10, <1>11, <1>13, <2>2, <2>3 DEF TrueInput
<1>15. start <= j
  <2>1. Covered(t, start, links, <<>>)
    BY <1>1, <1>3 DEF GatherFact
  <2> QED
    BY <1>6, <2>1, CoveredReach
<1> QED
  BY <1>1, <1>11, <1>14, <1>15

\* What passes the checks ends at the head of the object that was read.
LEMMA PassingHead ==
  ASSUME ChainFact, NEW t \in Live, NEW input, NEW machine, NEW j,
         TrueInput(input, t, machine, j), verifyMachine(input) = {}
  PROVE  machine.head = HeadAt(t, j)
<1>1. /\ replayChain(chainGenesis(input), input.entries) = input.machine.head
      /\ j \in 0..Len(log[t]) /\ input.machine = machine
      /\ chainGenesis(input) = StartHead(t) /\ input.entries = History(t, j)
  BY PassingReplays DEF TrueInput
<1>2. replayChain(StartHead(t), History(t, j)) = HeadAt(t, j)
  BY <1>1, Replayed
<1> QED
  BY <1>1, <1>2

\* Two positions of one chain have different heads.
LEMMA OnePosition ==
  ASSUME ChainFact, NEW t \in Live, NEW i \in 0..Len(log[t]), NEW j \in 0..Len(log[t]),
         HeadAt(t, i) = HeadAt(t, j)
  PROVE  i = j
  BY DEF ChainFact, HeadsNeverCollide

\* What the file says of a true input.
Recorded(ev, t, machine, j) ==
  /\ ev.id = t /\ ev.machine = machine /\ Len(ev.entries) = j
  /\ \A i \in 1..j : ev.entries[i].entry = Entry(log[t][i])
                     /\ ev.entries[i].entryHash = HeadAt(t, i)
  /\ t \notin DOMAIN forks => ev.fork = None
  /\ t \in DOMAIN forks =>
       LET f == forks[t] IN
       /\ ev.fork # None /\ ev.fork.parentId = f.parent
       /\ ev.fork.parentHead = f.parentHead /\ ev.fork.childHead = f.childHead
       /\ f.parentHead \in Range(ev.fork.parentHeads)

\* The entries of the file, and the fork it records.
LEMMA FileIsTrue ==
  ASSUME ChainFact, NEW t \in Live, NEW input, NEW machine, NEW j,
         machine.parent = machines[t].parent, TrueInput(input, t, machine, j)
  PROVE  Recorded(toEvidence(input), t, machine, j)
<1>1. /\ input.id = t /\ input.machine = machine /\ input.entries = History(t, j)
      /\ j \in 0..Len(log[t]) /\ chainGenesis(input) = StartHead(t)
  BY DEF TrueInput
<1>2. /\ Len(History(t, j)) = j
      /\ collectHeads(StartHead(t), History(t, j)) = [k \in 0..j |-> HeadAt(t, k)]
  BY <1>1, Replayed
<1>3. j \in Nat
  BY <1>1 DEF ChainFact, TypeOK
<1>4. PICK ev : ev = toEvidence(input)
  OBVIOUS
<1>5. ev.id = t /\ ev.machine = machine
  BY <1>1, <1>4 DEF toEvidence
<1>6. ev.entries = [i \in 1..j |-> [entry |-> History(t, j)[i], entryHash |-> HeadAt(t, i)]]
  <2>1. ev.entries = [i \in 1..Len(History(t, j)) |->
          [entry |-> History(t, j)[i],
           entryHash |-> collectHeads(StartHead(t), History(t, j))[i]]]
    BY <1>1, <1>4 DEF toEvidence
  <2>2. ev.entries = [i \in 1..j |-> [entry |-> History(t, j)[i],
                                      entryHash |-> [k \in 0..j |-> HeadAt(t, k)][i]]]
    BY <1>2, <2>1
  <2> QED
    BY <1>3, <2>2
<1>7. /\ Len(ev.entries) = j
      /\ \A i \in 1..j : ev.entries[i].entry = Entry(log[t][i])
                         /\ ev.entries[i].entryHash = HeadAt(t, i)
  BY <1>3, <1>6 DEF History
<1>8. t \notin DOMAIN forks => ev.fork = None
  BY <1>4 DEF TrueInput, toEvidence
<1>9. ASSUME t \in DOMAIN forks
      PROVE  LET f == forks[t] IN
             /\ ev.fork # None /\ ev.fork.parentId = f.parent
             /\ ev.fork.parentHead = f.parentHead /\ ev.fork.childHead = f.childHead
             /\ f.parentHead \in Range(ev.fork.parentHeads)
  <2>1. PICK H \in HeadLists :
          /\ forks[t].parentHead \in Range(H)
          /\ input.fork = [parentHead |-> forks[t].parentHead, childHead |-> forks[t].childHead,
                           parentHeads |-> H]
    BY <1>9 DEF TrueInput
  <2>2. /\ forks[t] \in ForkEvents /\ machine.parent = forks[t].parent
        /\ forks[t].parent \in ObjectIds
    BY <1>9 DEF ChainFact, TypeOK, ForkLineage, ForkEvents
  <2>3. input.fork # None
    <3>1. input.fork \in [childHead : Heads, parentHead : Heads, parentHeads : HeadLists]
      BY <2>1, <2>2 DEF ForkEvents
    <3> QED
      BY <3>1, NoneAssumption
  <2>4. ev.fork = [parentId |-> forks[t].parent, parentHead |-> forks[t].parentHead,
                   childHead |-> forks[t].childHead, parentHeads |-> H]
    BY <1>1, <1>4, <2>1, <2>2, <2>3 DEF toEvidence
  <2>5. ev.fork # None
    <3>1. ev.fork \in [parentId : ObjectIds, childHead : Heads, parentHead : Heads,
                       parentHeads : HeadLists]
      BY <2>1, <2>2, <2>4 DEF ForkEvents
    <3> QED
      BY <3>1, NoneAssumption
  <2> QED
    BY <2>1, <2>4, <2>5
<1> QED
  BY <1>4, <1>5, <1>7, <1>8, <1>9 DEF Recorded

\* Reading a file back gives what was written.
LEMMA RoundTrip ==
  ASSUME ChainFact, NEW t \in Live, NEW input, NEW machine, NEW j,
         machine.parent = machines[t].parent, TrueInput(input, t, machine, j),
         NEW ev, ev.id = t, ev.machine = machine,
         ev.entries = toEvidence(input).entries, ev.fork = toEvidence(input).fork
  PROVE  fromEvidence(ev) = input
<1>1. PICK file : file = toEvidence(input) /\ Recorded(file, t, machine, j)
  BY FileIsTrue
<1>2. j \in Nat /\ input.entries = History(t, j) /\ input.id = t /\ input.machine = machine
  BY DEF TrueInput, ChainFact, TypeOK
<1>3. [i \in 1..Len(ev.entries) |-> ev.entries[i].entry] = History(t, j)
  BY <1>1, <1>2 DEF Recorded, History
<1>4. PICK r : r = IF ev.fork = None THEN None
                   ELSE [parentHead |-> ev.fork.parentHead, childHead |-> ev.fork.childHead,
                         parentHeads |-> ev.fork.parentHeads]
  OBVIOUS
<1>5. r = input.fork
  <2>1. CASE t \notin DOMAIN forks
    <3>1. ev.fork = None
      BY <1>1, <2>1 DEF Recorded
    <3>2. input.fork = None
      BY <2>1 DEF TrueInput
    <3> QED
      BY <1>4, <3>1, <3>2
  <2>2. CASE t \in DOMAIN forks
    <3>1. ev.fork # None
      BY <1>1, <2>2 DEF Recorded
    <3>2. PICK a, b, H : input.fork = [parentHead |-> a, childHead |-> b, parentHeads |-> H]
      BY <2>2 DEF TrueInput
    <3>3. input.fork # None
      BY <1>1, <3>1 DEF toEvidence
    <3>4. /\ ev.fork.parentHead = a /\ ev.fork.childHead = b /\ ev.fork.parentHeads = H
      BY <1>1, <3>2, <3>3 DEF toEvidence
    <3> QED
      BY <1>4, <3>1, <3>2, <3>4
  <2> QED
    BY <2>1, <2>2
<1>6. fromEvidence(ev) = [id |-> t, machine |-> machine, entries |-> History(t, j), fork |-> r]
  BY <1>3, <1>4 DEF fromEvidence
<1> QED
  BY <1>2, <1>5, <1>6 DEF TrueInput

\* The reads are done and something is reported or written.
LEMMA FinishStep ==
  ASSUME ChainFact, VerifierInv, Finish
  PROVE  VerifierInv'
<1>1. /\ job.todo = <<>> /\ ~NeedsFork /\ GatherFact(job) /\ UNCHANGED vars
      /\ JobShape(job) /\ ReadFact(job) /\ job.mode \in {"verify", "export", "anchor"}
  <2>1. <<>> \in Seq(ObjectIds \X EntryTypes)
    OBVIOUS
  <2>2. job.todo # None /\ job.todo = <<>> /\ ~NeedsFork /\ UNCHANGED vars
    BY <2>1, NoneAssumption DEF Finish
  <2> QED
    BY <2>2 DEF VerifierInv, JobFact, GatherFact
<1>2. PICK t \in Live : t = job.target /\ job.start \in 0..Len(log[t])
  BY <1>1 DEF ReadFact
<1>a. PICK machine : machine = job.machine
  OBVIOUS
<1>3. PICK start \in 0..Len(log[t]) : start = job.start /\ machine = job.machine
  BY <1>2, <1>a
<1>4. PICK input : input = VerifyInput
  OBVIOUS
<1>5. PICK j : /\ TrueInput(input, t, machine, j)
               /\ job.package = "right" => start <= j
  <2>1. \E j : /\ TrueInput(VerifyInput, job.target, job.machine, j)
               /\ job.package = "right" => job.start <= j
    BY <1>1, GatheredNoFork, GatheredFork DEF VerifierInv
  <2> QED
    BY <1>2, <1>3, <1>4, <2>1
<1>6. /\ j \in 0..Len(log[t]) /\ j \in Nat /\ Len(log[t]) \in Nat
      /\ input.entries = History(t, j) /\ Len(History(t, j)) = j
  <2>1. j \in 0..Len(log[t]) /\ input.entries = History(t, j)
    BY <1>5 DEF TrueInput
  <2> QED
    BY <2>1, Replayed DEF ChainFact, TypeOK
<1>7. /\ machine.head = HeadAt(t, start) /\ machine.parent = machines[t].parent
      /\ Len(log[t]) = start => machine = machines[t]
  BY <1>1, <1>2, <1>3 DEF ReadFact
<1>8. PICK ev, ev1 : ev = evidence /\ ev1 = evidence'
  OBVIOUS
<1>9. PICK F, s : /\ F = CASE job.mode = "verify" -> verifyMachine(input)
                           [] job.mode = "export" -> {}
                           [] job.mode = "anchor" ->
                                audit(ev, compareEvidence(toEvidence(input), ev))
                  /\ s = job'
  OBVIOUS
<1>10. /\ s.todo = None /\ s.input = input /\ s.failed = F /\ s.mode = job.mode
       /\ s.package = job.package /\ s.target = t /\ s.machine = machine /\ s.start = start
  <2>1. s = [job EXCEPT !.todo = None, !.input = input, !.links = {}, !.parentLinks = {},
                        !.failed = F]
    BY <1>4, <1>8, <1>9 DEF Finish
  <2> QED
    BY <1>1, <1>2, <1>3, <2>1 DEF JobShape, JobFields
<1>11. ev1 = IF job.mode = "export" THEN toEvidence(input) ELSE ev
  BY <1>4, <1>8 DEF Finish
<1>12. /\ log' = log /\ forks' = forks /\ Live' = Live /\ machines' = machines
       /\ \A m, k : HeadAt(m, k)' = HeadAt(m, k) /\ History(m, k)' = History(m, k)
  BY <1>1 DEF vars, Live, HeadAt, StartHead, History
<1>13. verifyMachine(input) = {} => j = start
  <2> SUFFICES ASSUME verifyMachine(input) = {} PROVE j = start
    OBVIOUS
  <2>1. HeadAt(t, j) = HeadAt(t, start)
    BY <1>5, <1>7, PassingHead
  <2> QED
    BY <1>6, <2>1, OnePosition
<1>14. JobFact'
  <2>1. ReadFact(s)
    BY <1>1, <1>2, <1>3, <1>10 DEF ReadFact
  <2>2. ReadFact(s)'
    BY <1>1, <2>1, SameChain
  <2> QED
    BY <1>9, <1>10, <2>2 DEF JobFact
<1>15. EntriesArePrefix'
  BY <1>6, <1>9, <1>10, <1>12 DEF EntriesArePrefix
<1>16. QuietReadVerifies'
  <2> SUFFICES ASSUME job.mode = "verify", job.package = "right", Len(log[t]) = start
               PROVE  F = {}
    BY <1>9, <1>10, <1>12 DEF QuietReadVerifies, Reported, Right, Quiet
  <2>1. F = verifyMachine(input)
    BY <1>9
  <2>2. j = Len(log[t]) /\ machine = machines[t]
    BY <1>5, <1>6, <1>7
  <2>3. /\ input.entries = History(t, j) /\ input.machine = machines[t]
        /\ chainGenesis(input) = StartHead(t) /\ resolveGenesis(input) = {}
    BY <1>5, <2>2 DEF TrueInput
  <2> QED
    BY <2>1, <2>2, <2>3, WholeHistoryPasses
<1>17. PassingReportIsTrue'
  <2> SUFFICES ASSUME job.mode = "verify", F = {}
               PROVE  input.entries = History(t, start)
    BY <1>9, <1>10, <1>12 DEF PassingReportIsTrue, Reported
  <2>1. F = verifyMachine(input)
    BY <1>9
  <2> QED
    BY <1>6, <1>13, <2>1
<1>18. LineageNeverFailsFalsely'
  <2>1. resolveGenesis(input) = {}
    BY <1>5 DEF TrueInput
  <2>2. resolveGenesis(job'.input) = {}
    BY <1>9, <1>10, <2>1
  <2> QED
    BY <2>2 DEF LineageNeverFailsFalsely, resolveGenesis, computeForkChildHead
<1>19. AnchorIsTrue'
  <2> SUFFICES ASSUME job.mode = "anchor", F = {}
               PROVE  AnchorIsTrue'
    BY <1>9, <1>10 DEF AnchorIsTrue, Reported
  <2>0. PICK file : file = toEvidence(input) /\ Recorded(file, t, machine, j)
    BY <1>5, <1>7, FileIsTrue
  <2>1. ev1 = ev /\ verifyEvidence(ev) = {} /\ compareEvidence(file, ev) = {}
    BY <1>9, <1>11, <2>0 DEF audit
  <2>2. ev.id = file.id /\ ev.machine = file.machine /\ ev.entries = file.entries
        /\ ev.fork = file.fork
    <3>1. /\ "anchor-machine" \notin compareEvidence(file, ev)
          /\ "anchor-provenance" \notin compareEvidence(file, ev)
          /\ "anchor-lineage" \notin compareEvidence(file, ev)
      BY <2>1
    <3> QED
      BY <3>1 DEF compareEvidence
  <2>3. ev.id = t /\ ev.machine = machine
    BY <2>0, <2>2 DEF Recorded
  <2>4. fromEvidence(ev) = input
    BY <1>5, <1>7, <2>0, <2>2, <2>3, RoundTrip
  <2>5. j = start
    BY <1>13, <2>1, <2>4 DEF verifyEvidence
  <2>6. Recorded(ev, t, machine, start)
    BY <2>0, <2>2, <2>5 DEF Recorded
  <2> QED
    BY <1>8, <1>9, <1>10, <1>12, <2>1, <2>6 DEF Recorded, AnchorIsTrue
<1>20. EvidenceFact'
  <2>1. CASE job.mode # "export"
    <3>1. UNCHANGED evidence
      BY <1>8, <1>11, <2>1
    <3> QED
      BY <1>1, <3>1, EvidenceKept DEF VerifierInv, ChainFact
  <2>2. CASE job.mode = "export"
    <3>1. Recorded(ev1, t, machine, j) /\ ev1 = toEvidence(input)
      BY <1>5, <1>7, <1>11, <2>2, FileIsTrue
    <3>2. verifyEvidence(ev1) = {} => machine.head = HeadAt(t, j)
      <4>1. ev1.id = t /\ ev1.machine = machine
        BY <3>1 DEF Recorded
      <4>2. fromEvidence(ev1) = input
        BY <1>5, <1>7, <3>1, <4>1, RoundTrip
      <4> QED
        BY <1>5, <4>2, PassingHead DEF verifyEvidence
    <3>3. ev1.id \in Live'
      BY <1>12, <3>1 DEF Recorded
    <3>4. CleanEvidenceIsTrue'
      <4>1. verifyEvidence(ev1) = {} =>
              /\ j <= Len(log[t]) /\ ev1.machine.head = HeadAt(t, j) /\ ev1.id = t
              /\ Len(ev1.entries) = j
              /\ \A i \in 1..j : ev1.entries[i].entry = Entry(log[t][i])
                                 /\ ev1.entries[i].entryHash = HeadAt(t, i)
        BY <1>6, <3>1, <3>2 DEF Recorded
      <4> QED
        BY <1>8, <1>12, <4>1 DEF CleanEvidenceIsTrue
    <3> QED
      BY <1>8, <3>3, <3>4 DEF EvidenceFact
  <2> QED
    BY <2>1, <2>2
<1>21. ResultFact'
  BY <1>15, <1>16, <1>17, <1>18, <1>19 DEF ResultFact
<1> QED
  BY <1>1, <1>14, <1>20, <1>21, SameChain DEF VerifierInv

(***************************************************************************)
(* The theorems                                                            *)
(***************************************************************************)
\* A step of the chain while the verifier reads, or after it has reported.
LEMMA ChainStep ==
  ASSUME ChainFact, VerifierInv, [Next]_vars, UNCHANGED <<job, evidence>>
  PROVE  VerifierInv'
<1>0. /\ TypeOK /\ ForkLineage /\ ParentsDiffer /\ LogBounded /\ JobFact /\ ResultFact
      /\ EvidenceFact
  BY DEF ChainFact, VerifierInv
<1>1. ParentsDiffer' /\ LogBounded'
  BY <1>0, BasicsKept
<1>2. ResultFact'
  BY <1>0, ResultKept
<1>3. EvidenceFact'
  BY <1>0, EvidenceKept
<1>4. PICK s : s = job /\ s = job'
  OBVIOUS
<1>5. GatherFact(s) => GatherFact(s)'
  BY <1>0, GatherKept
<1>6. ReadFact(s) => ReadFact(s)'
  BY <1>0, ReadKept
<1>7. \/ s.todo # None /\ GatherFact(s)
      \/ s.todo = None /\ s.mode \in {"idle", "audit"} /\ s.input = None
      \/ s.todo = None /\ ReadFact(s)
  BY <1>0, <1>4 DEF JobFact
<1>8. JobFact'
  BY <1>4, <1>5, <1>6, <1>7 DEF JobFact
<1> QED
  BY <1>1, <1>2, <1>3, <1>8 DEF VerifierInv

\* The commands and tools that begin to read.
VerifierBegins ==
  \/ \E mode \in {"verify", "export", "anchor"}, package \in {"right", "wrong"}, m \in Live :
       Begin(mode, package, m)
  \/ \E anchor \in BOOLEAN, package \in {"right", "wrong"} : Audit(anchor, package)

\* Every step is one of the chain, the beginning of a read, or a read.
LEMMA VerifierStepKinds ==
  ASSUME [VerifierNext]_verifierVars
  PROVE  \/ [Next]_vars /\ UNCHANGED <<job, evidence>>
         \/ VerifierBegins
         \/ FetchFork \/ ForkEventMissing \/ Query \/ Finish \/ ReadThrows
<1>1. CASE UNCHANGED verifierVars
  BY <1>1 DEF verifierVars
<1>2. CASE Next /\ UNCHANGED <<job, evidence>>
  BY <1>2
<1>3. CASE \E package \in {"right", "wrong"} :
             \/ \E m \in Live : \/ registerVerify(package, m) \/ reeg_verify(package, m)
                                \/ registerEvidence(package, m) \/ reeg_evidence(package, m)
             \/ \E anchor \in BOOLEAN :
                  registerAudit(anchor, package) \/ reeg_audit(anchor, package)
  BY <1>3 DEF registerVerify, reeg_verify, registerEvidence, reeg_evidence, registerAudit,
       reeg_audit, VerifierBegins
<1>4. CASE \E m \in Live : useVerification(m) \/ onExport(m)
  BY <1>4 DEF useVerification, onExport, VerifierBegins
<1>5. CASE FetchFork \/ ForkEventMissing \/ Query \/ Finish \/ ReadThrows
  BY <1>5
<1> QED
  BY <1>1, <1>2, <1>3, <1>4, <1>5 DEF VerifierNext

\* The verifier writes nothing on the chain.
LEMMA VerifierStepIsMachineStep ==
  ASSUME [VerifierNext]_verifierVars
  PROVE  [Next]_vars
<1>1. VerifierBegins => UNCHANGED vars
  BY DEF VerifierBegins, Begin, Audit, AuditFile
<1>2. FetchFork \/ ForkEventMissing \/ Query \/ Finish \/ ReadThrows => UNCHANGED vars
  BY DEF FetchFork, ForkEventMissing, Query, Finish, ReadThrows
<1> QED
  BY <1>1, <1>2, VerifierStepKinds

\* The verifier only reads: with its steps left out, a behaviour of the
\* chain and the verifier is one of the chain.
THEOREM VerifierRefines == VerifierSpec => Spec
<1>1. VerifierInit => Init
  BY DEF VerifierInit
<1>2. [VerifierNext]_verifierVars => [Next]_vars
  BY VerifierStepIsMachineStep
<1> QED
  BY <1>1, <1>2, PTL DEF VerifierSpec, Spec

\* The invariant of the verifier is inductive over what holds of the chain.
THEOREM VerifierTrue == VerifierSpec => [](ChainFact /\ VerifierInv)
<1>1. VerifierInit => VerifierInv
  <2> SUFFICES ASSUME VerifierInit PROVE VerifierInv
    OBVIOUS
  <2>1. /\ Live = {} /\ DOMAIN forks = {} /\ evidence = None
        /\ job.todo = None /\ job.mode = "idle" /\ job.input = None
    BY DEF VerifierInit, Init, Idle, Live
  <2> QED
    BY <2>1 DEF VerifierInv, ParentsDiffer, LogBounded, JobFact, ResultFact, EvidenceFact,
         EntriesArePrefix, QuietReadVerifies, PassingReportIsTrue, LineageNeverFailsFalsely,
         AnchorIsTrue, CleanEvidenceIsTrue, Gathered, Reported
<1>2. ChainFact /\ VerifierInv /\ [VerifierNext]_verifierVars => VerifierInv'
  <2> SUFFICES ASSUME ChainFact, VerifierInv, [VerifierNext]_verifierVars PROVE VerifierInv'
    OBVIOUS
  <2>1. CASE [Next]_vars /\ UNCHANGED <<job, evidence>>
    BY <2>1, ChainStep
  <2>2. CASE VerifierBegins
    BY <2>2, BeginStep, AuditStep DEF VerifierBegins
  <2>3. CASE FetchFork
    BY <2>3, FetchForkStep
  <2>4. CASE ForkEventMissing
    BY <2>4, ForkEventMissingStep
  <2>5. CASE Query
    BY <2>5, QueryStep
  <2>6. CASE Finish
    BY <2>6, FinishStep
  <2>7. CASE ReadThrows
    BY <2>7, ReadThrowsStep
  <2> QED
    BY <2>1, <2>2, <2>3, <2>4, <2>5, <2>6, <2>7, VerifierStepKinds
<1>3. Spec => []ChainFact
  <2>1. TypeOK /\ HeadReplaysFromEvents /\ CheckpointSeqsContiguous
        /\ CurrentStateIsLastCheckpoint /\ ForkLineage /\ HeadsNeverCollide => ChainFact
    BY DEF ChainFact
  <2> QED
    BY <2>1, TypeCorrect, HeadReplay, SeqsContiguous, CurrentState, LineageHolds, NoCollision,
       PTL
<1> QED
  BY <1>1, <1>2, <1>3, VerifierRefines, PTL DEF VerifierSpec

\* gatherVerifyInput never returns a history with a hole, however its queries
\* interleave with new entries.
THEOREM GatheredIsPrefix == VerifierSpec => []EntriesArePrefix
<1>1. VerifierInv => EntriesArePrefix
  BY DEF VerifierInv, ResultFact
<1> QED
  BY <1>1, VerifierTrue, PTL

\* verifyFromChain raises no false alarm on a Machine that did not move while
\* it was read, whatever happened to its parent and to other Machines.
THEOREM NoFalseAlarm == VerifierSpec => []QuietReadVerifies
<1>1. VerifierInv => QuietReadVerifies
  BY DEF VerifierInv, ResultFact
<1> QED
  BY <1>1, VerifierTrue, PTL

\* A report that passes replayed exactly the entries emitted before the
\* object was read: none missing, none later.
THEOREM PassingReports == VerifierSpec => []PassingReportIsTrue
<1>1. VerifierInv => PassingReportIsTrue
  BY DEF VerifierInv, ResultFact
<1> QED
  BY <1>1, VerifierTrue, PTL

\* The lineage checks of verifyMachine hold for every fork, of a fork of any
\* depth, whatever the parent does while it is read.
THEOREM LineageReports == VerifierSpec => []LineageNeverFailsFalsely
<1>1. VerifierInv => LineageNeverFailsFalsely
  BY DEF VerifierInv, ResultFact
<1> QED
  BY <1>1, VerifierTrue, PTL

\* An evidence file that audits clean records the Machine's first entries and
\* the heads they led to, for as long as the chain exists.
THEOREM CleanEvidence == VerifierSpec => []CleanEvidenceIsTrue
<1>1. VerifierInv => CleanEvidenceIsTrue
  BY DEF VerifierInv, EvidenceFact
<1> QED
  BY <1>1, VerifierTrue, PTL

\* An anchored audit passes only on a file that records the Machine, its
\* entries and its lineage as the chain had them when it was read.
THEOREM AnchoredAudit == VerifierSpec => []AnchorIsTrue
<1>1. VerifierInv => AnchorIsTrue
  BY DEF VerifierInv, ResultFact
<1> QED
  BY <1>1, VerifierTrue, PTL
=============================================================================
