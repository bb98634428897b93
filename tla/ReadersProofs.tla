--------------------------- MODULE ReadersProofs ---------------------------
(***************************************************************************)
(* TLAPS proofs about Indexer, and about it side by side with the          *)
(* verifier: the read model is true of the chain and complete, for chains  *)
(* of any length and any interleaving of the replay with new entries, and  *)
(* the same for every order of the events.                                 *)
(***************************************************************************)
EXTENDS Readers, VerifierProofs

(***************************************************************************)
(* What a read model is, independently of the order of its events          *)
(***************************************************************************)
Listed == [seq : Nat, blob : Blobs \cup {NoBlob}]

Of(e, type, id) == e.type = type /\ e.id = id

\* The events agree with each other on what is told once.
Consistent(events) ==
  /\ \A e \in events : e.type \in {"created", "forked", "checkpoint"}
  /\ \A e \in events : e.type = "checkpoint" =>
       e.seq \in Nat /\ e.blob \in Blobs \cup {NoBlob}
  /\ \A e, f \in events : e.type = f.type /\ e.id = f.id =>
       /\ e.type = "created" => e.owner = f.owner
       /\ e.type = "forked" => e.parent = f.parent
       /\ e.type = "checkpoint" /\ e.seq = f.seq => e.blob = f.blob

\* A list of checkpoints in sequence, each once.
InSequence(list) ==
  /\ list \in Seq(Listed)
  /\ \A i, j \in 1..Len(list) : i < j => list[i].seq < list[j].seq

OwnerShown(r, id, events) ==
  \/ r.owner = Unknown /\ \A e \in events : ~Of(e, "created", id)
  \/ \E e \in events : Of(e, "created", id) /\ r.owner = e.owner

ParentShown(r, id, events) ==
  \/ r.parent = Unknown /\ \A e \in events : ~Of(e, "forked", id)
  \/ \E e \in events : Of(e, "forked", id) /\ r.parent = e.parent

\* The list holds the checkpoint events of the environment and no others.
Lists(list, id, events) ==
  /\ InSequence(list)
  /\ \A i \in 1..Len(list) : \E e \in events :
       Of(e, "checkpoint", id) /\ list[i] = [seq |-> e.seq, blob |-> e.blob]
  /\ \A e \in events : Of(e, "checkpoint", id) =>
       \E i \in 1..Len(list) : list[i] = [seq |-> e.seq, blob |-> e.blob]

RecordOf(r, id, events) ==
  /\ r = [owner |-> r.owner, parent |-> r.parent, checkpoints |-> r.checkpoints]
  /\ OwnerShown(r, id, events) /\ ParentShown(r, id, events)
  /\ Lists(r.checkpoints, id, events)

ModelOf(model, events) ==
  /\ DOMAIN model = {e.id : e \in events}
  /\ model = [id \in DOMAIN model |-> model[id]]
  /\ \A id \in DOMAIN model : RecordOf(model[id], id, events)

\* The first n elements are in strict sequence.
InOrder(list, n) ==
  /\ n \in Nat /\ \A i \in 1..n : list[i].seq \in Nat
  /\ \A i, j \in 1..n : i < j => list[i].seq < list[j].seq

Within(a, m, b, n) == \A i \in 1..m : \E k \in 1..n : a[i] = b[k]

\* The next element is the same, if those before are.
LEMMA NextAgrees ==
  ASSUME NEW a, NEW m, NEW b, NEW n, InOrder(a, m), InOrder(b, n), Within(a, m, b, n),
         Within(b, n, a, m), NEW i \in Nat, i + 1 <= m,
         \A j \in 1..i : j <= n /\ a[j] = b[j]
  PROVE  i + 1 <= n /\ a[i + 1] = b[i + 1]
<1>1. m \in Nat /\ n \in Nat /\ i + 1 \in 1..m
  BY DEF InOrder
<1>2. PICK k \in 1..n : a[i + 1] = b[k]
  BY <1>1 DEF Within
<1>3. k > i
  <2> SUFFICES ASSUME k <= i PROVE FALSE
    BY <1>1
  <2>1. k \in 1..i /\ k \in 1..m /\ k < i + 1
    BY <1>1
  <2>2. a[k] = a[i + 1]
    BY <1>2, <2>1
  <2>3. a[k].seq < a[i + 1].seq /\ a[k].seq \in Nat
    BY <1>1, <2>1 DEF InOrder
  <2> QED
    BY <2>2, <2>3
<1>4. i + 1 \in 1..n
  BY <1>1, <1>3
<1>5. PICK l \in 1..m : b[i + 1] = a[l]
  BY <1>4 DEF Within
<1>6. l > i
  <2> SUFFICES ASSUME l <= i PROVE FALSE
    BY <1>1
  <2>1. l \in 1..i /\ l \in 1..n /\ l < i + 1
    BY <1>1, <1>4
  <2>2. b[l] = b[i + 1]
    BY <1>5, <2>1
  <2>3. b[l].seq < b[i + 1].seq /\ b[l].seq \in Nat
    BY <1>4, <2>1 DEF InOrder
  <2> QED
    BY <2>2, <2>3
<1>7. CASE k = i + 1
  BY <1>2, <1>4, <1>7
<1>8. CASE k # i + 1
  <2>1. i + 1 < k
    BY <1>1, <1>3, <1>8
  <2>2. b[i + 1].seq < b[k].seq /\ b[i + 1].seq \in Nat /\ b[k].seq \in Nat
    BY <1>4, <2>1 DEF InOrder
  <2>3. a[l].seq < a[i + 1].seq
    BY <1>2, <1>5, <2>2
  <2>4. l = i + 1 \/ i + 1 < l
    BY <1>1, <1>6
  <2>5. i + 1 < l => a[i + 1].seq < a[l].seq
    BY <1>1 DEF InOrder
  <2>6. a[l].seq \in Nat /\ a[i + 1].seq \in Nat
    BY <1>1 DEF InOrder
  <2> QED
    BY <2>3, <2>4, <2>5, <2>6
<1> QED
  BY <1>4, <1>7, <1>8

\* Two lists in sequence of the same checkpoints agree as far as one goes.
LEMMA ListsAgree ==
  ASSUME NEW a, NEW m, NEW b, NEW n, InOrder(a, m), InOrder(b, n), Within(a, m, b, n),
         Within(b, n, a, m)
  PROVE  \A i \in 1..m : i <= n /\ a[i] = b[i]
<1> DEFINE Agree(i) == i <= m => i <= n /\ a[i] = b[i]
           T == {i \in Nat : \A j \in 1..i : Agree(j)}
<1>0. m \in Nat
  BY DEF InOrder
<1>1. 0 \in T
  OBVIOUS
<1>2. ASSUME NEW i \in Nat, i \in T PROVE i + 1 \in T
  <2>1. \A j \in 1..i : Agree(j)
    BY <1>2
  <2>2. Agree(i + 1)
    <3> SUFFICES ASSUME i + 1 <= m PROVE i + 1 <= n /\ a[i + 1] = b[i + 1]
      OBVIOUS
    <3>1. \A j \in 1..i : j <= m
      BY <1>0
    <3>2. \A j \in 1..i : j <= n /\ a[j] = b[j]
      BY <2>1, <3>1
    <3> QED
      BY <3>2, NextAgrees
  <2> HIDE DEF Agree
  <2>3. \A j \in 1..(i + 1) : j \in 1..i \/ j = i + 1
    OBVIOUS
  <2> QED
    BY <2>1, <2>2, <2>3
<1> HIDE DEF T
<1>3. Nat \subseteq T
  BY <1>1, <1>2, NatSet
<1>4. ASSUME NEW i \in 1..m PROVE Agree(i)
  <2>1. i \in T /\ i \in 1..i
    BY <1>0, <1>3
  <2> HIDE DEF Agree
  <2> QED
    BY <2>1 DEF T
<1> QED
  BY <1>0, <1>4

\* The events determine the list of an environment.
LEMMA OneList ==
  ASSUME NEW a, NEW b, NEW id, NEW events, Lists(a, id, events), Lists(b, id, events)
  PROVE  a = b
<1>1. a \in Seq(Listed) /\ b \in Seq(Listed)
  BY DEF Lists, InSequence
<1>2. PICK m, n : m = Len(a) /\ n = Len(b)
  OBVIOUS
<1>3. /\ m \in Nat /\ n \in Nat
      /\ \A i \in 1..m : a[i] \in Listed
      /\ \A i \in 1..n : b[i] \in Listed
  BY <1>1, <1>2
<1>4. InOrder(a, m) /\ InOrder(b, n)
  BY <1>2, <1>3 DEF InOrder, Lists, InSequence, Listed
<1>5. Within(a, m, b, n)
  <2> SUFFICES ASSUME NEW i \in 1..m PROVE \E k \in 1..n : a[i] = b[k]
    BY DEF Within
  <2>1. PICK e \in events : Of(e, "checkpoint", id) /\ a[i] = [seq |-> e.seq, blob |-> e.blob]
    BY <1>2 DEF Lists
  <2> QED
    BY <1>2, <2>1 DEF Lists
<1>6. Within(b, n, a, m)
  <2> SUFFICES ASSUME NEW i \in 1..n PROVE \E k \in 1..m : b[i] = a[k]
    BY DEF Within
  <2>1. PICK e \in events : Of(e, "checkpoint", id) /\ b[i] = [seq |-> e.seq, blob |-> e.blob]
    BY <1>2 DEF Lists
  <2> QED
    BY <1>2, <2>1 DEF Lists
<1>7. /\ \A i \in 1..m : i <= n /\ a[i] = b[i]
      /\ \A i \in 1..n : i <= m /\ b[i] = a[i]
  BY <1>4, <1>5, <1>6, ListsAgree
<1>8. m = n
  <2>1. m # 0 => m \in 1..m
    BY <1>3
  <2>2. n # 0 => n \in 1..n
    BY <1>3
  <2> QED
    BY <1>3, <1>7, <2>1, <2>2
<1>9. a = [i \in 1..m |-> a[i]] /\ b = [i \in 1..n |-> b[i]]
  BY <1>1, <1>2
<1>10. \A i \in 1..m : a[i] = b[i]
  BY <1>7
<1> QED
  BY <1>8, <1>9, <1>10

\* The events determine the read model.
LEMMA OneModel ==
  ASSUME NEW events, Consistent(events), NEW a, NEW b, ModelOf(a, events), ModelOf(b, events)
  PROVE  a = b
<1>1. DOMAIN a = DOMAIN b
  BY DEF ModelOf
<1>2. ASSUME NEW id \in DOMAIN a PROVE a[id] = b[id]
  <2>1. PICK r, s : r = a[id] /\ s = b[id]
    OBVIOUS
  <2>2. RecordOf(r, id, events) /\ RecordOf(s, id, events)
    BY <1>1, <2>1 DEF ModelOf
  <2>3. r.checkpoints = s.checkpoints
    BY <2>2, OneList DEF RecordOf
  <2>4. r.owner = s.owner
    BY <2>2 DEF RecordOf, OwnerShown, Of, Consistent
  <2>5. r.parent = s.parent
    BY <2>2 DEF RecordOf, ParentShown, Of, Consistent
  <2>6. /\ r = [owner |-> r.owner, parent |-> r.parent, checkpoints |-> r.checkpoints]
        /\ s = [owner |-> s.owner, parent |-> s.parent, checkpoints |-> s.checkpoints]
    BY <2>2 DEF RecordOf
  <2>7. r = s
    BY <2>3, <2>4, <2>5, <2>6
  <2> QED
    BY <2>1, <2>7
<1>3. a = [id \in DOMAIN a |-> a[id]] /\ b = [id \in DOMAIN b |-> b[id]]
  BY DEF ModelOf
<1> QED
  BY <1>1, <1>2, <1>3

(***************************************************************************)
(* One event                                                               *)
(***************************************************************************)
HasInserted(r, list, n, p, x) ==
  \A i \in 1..(n + 1) :
    r[i] = IF i < p THEN list[i] ELSE IF i = p THEN x ELSE list[i - 1]

\* InsertAt puts one element before the p-th.
LEMMA InsertedAt ==
  ASSUME NEW S, NEW list \in Seq(S), NEW p \in 1..(Len(list) + 1), NEW x \in S
  PROVE  /\ InsertAt(list, p, x) \in Seq(S) /\ Len(InsertAt(list, p, x)) = Len(list) + 1
         /\ HasInserted(InsertAt(list, p, x), list, Len(list), p, x)
<1> DEFINE front == SubSeq(list, 1, p - 1)
           back == SubSeq(list, p, Len(list))
<1>1. Len(list) \in Nat /\ p \in Nat
  OBVIOUS
<1>2. /\ front \in Seq(S) /\ Len(front) = p - 1
      /\ \A i \in 1..(p - 1) : front[i] = list[i]
  BY <1>1
<1>3. /\ back \in Seq(S) /\ Len(back) = Len(list) - p + 1
      /\ \A i \in 1..(Len(list) - p + 1) : back[i] = list[p + i - 1]
  BY <1>1
<1>4. InsertAt(list, p, x) = (front \o <<x>>) \o back
  BY DEF InsertAt
<1> HIDE DEF front, back
<1>5. PICK mid : mid = front \o <<x>>
  OBVIOUS
<1>6. /\ mid \in Seq(S) /\ Len(mid) = p /\ mid[p] = x
      /\ \A i \in 1..(p - 1) : mid[i] = list[i]
  BY <1>1, <1>2, <1>5
<1>7. PICK all : all = mid \o back
  OBVIOUS
<1>8. /\ all \in Seq(S) /\ Len(all) = Len(list) + 1
      /\ \A i \in 1..p : all[i] = mid[i]
      /\ \A i \in (p + 1)..(Len(list) + 1) : all[i] = back[i - p]
  BY <1>1, <1>3, <1>6, <1>7
<1>9. ASSUME NEW i \in 1..(Len(list) + 1)
      PROVE  all[i] = IF i < p THEN list[i] ELSE IF i = p THEN x ELSE list[i - 1]
  <2>1. CASE i <= p
    BY <1>1, <1>6, <1>8, <2>1
  <2>2. CASE i > p
    <3>1. PICK j \in 1..(Len(list) - p + 1) : j = i - p
      BY <1>1, <2>2
    <3>2. all[i] = back[j] /\ back[j] = list[p + j - 1] /\ p + j - 1 = i - 1
      BY <1>1, <1>3, <1>8, <2>2, <3>1
    <3> QED
      BY <1>1, <2>2, <3>2
  <2> QED
    BY <1>1, <2>1, <2>2
<1> QED
  BY <1>4, <1>5, <1>7, <1>8, <1>9 DEF HasInserted

\* A list in sequence has a place for a sequence it does not have.
LEMMA PlaceExists ==
  ASSUME NEW list, NEW n, InOrder(list, n), NEW q \in Nat, \A i \in 1..n : list[i].seq # q
  PROVE  \E p \in 1..(n + 1) : /\ \A i \in 1..(p - 1) : list[i].seq < q
                               /\ \A i \in p..n : list[i].seq > q
<1>0. n \in Nat /\ \A i \in 1..n : list[i].seq \in Nat
  BY DEF InOrder
<1> DEFINE T == {i \in 1..n : list[i].seq > q} \cup {n + 1}
<1>1. T \subseteq Nat /\ T # {}
  BY <1>0
<1>2. PICK p \in T : \A i \in T : p <= i
  BY <1>1, LeastNat
<1>3. p \in 1..(n + 1)
  BY <1>0
<1>4. ASSUME NEW i \in 1..(p - 1) PROVE list[i].seq < q
  <2>1. i \in 1..n /\ i \notin T
    BY <1>0, <1>2, <1>3
  <2> QED
    BY <1>0, <2>1
<1>5. ASSUME NEW i \in p..n PROVE list[i].seq > q
  <2>1. p \in 1..n /\ i \in 1..n /\ list[p].seq > q
    BY <1>0, <1>3
  <2>2. i = p \/ list[p].seq < list[i].seq
    BY <2>1 DEF InOrder
  <2> QED
    BY <1>0, <2>1, <2>2
<1> QED
  BY <1>3, <1>4, <1>5

\* An inserted checkpoint is listed, and the list stays in sequence.
LEMMA InsertedLists ==
  ASSUME NEW list, NEW id, NEW events, Lists(list, id, events), NEW e,
         Of(e, "checkpoint", id), e.seq \in Nat, e.blob \in Blobs \cup {NoBlob}, ~HasSeq(list, e)
  PROVE  Lists(Inserted(list, e), id, events \cup {e})
<1>1. list \in Seq(Listed) /\ \A i, j \in 1..Len(list) : i < j => list[i].seq < list[j].seq
  BY DEF Lists, InSequence
<1>2. PICK n : n = Len(list)
  OBVIOUS
<1>3. n \in Nat /\ \A i \in 1..n : list[i] \in Listed
  BY <1>1, <1>2
<1>4. InOrder(list, n)
  BY <1>1, <1>2, <1>3 DEF InOrder, Listed
<1>5. PICK q \in Nat, x \in Listed : q = e.seq /\ x = [seq |-> e.seq, blob |-> e.blob]
  BY DEF Listed
<1>6. \A i \in 1..n : list[i].seq # q
  BY <1>2, <1>5 DEF HasSeq
<1> DEFINE Place(p) == /\ \A i \in 1..(p - 1) : list[i].seq < q
                       /\ \A i \in p..n : list[i].seq > q
<1>7. \E p \in 1..(n + 1) : Place(p)
  BY <1>4, <1>6, PlaceExists
<1>8. PICK p \in 1..(n + 1) : Place(p) /\ p = CHOOSE p1 \in 1..(n + 1) : Place(p1)
  BY <1>7, Zenon
<1>9. PICK r : r = InsertAt(list, p, x)
  OBVIOUS
<1>10. Inserted(list, e) = r
  BY <1>2, <1>5, <1>8, <1>9 DEF Inserted
<1>11. /\ r \in Seq(Listed) /\ Len(r) = n + 1
       /\ \A i \in 1..(n + 1) : r[i] =
            IF i < p THEN list[i] ELSE IF i = p THEN x ELSE list[i - 1]
  <2>1. p \in 1..(Len(list) + 1)
    BY <1>2
  <2>2. r \in Seq(Listed) /\ Len(r) = Len(list) + 1 /\ HasInserted(r, list, Len(list), p, x)
    BY <1>1, <1>9, <2>1, InsertedAt
  <2> QED
    BY <1>2, <2>2 DEF HasInserted
<1>12. p \in Nat /\ p <= n + 1
  BY <1>3
<1>13. \A i \in 1..n : list[i].seq \in Nat
  BY <1>4 DEF InOrder
<1>14. ASSUME NEW i \in 1..(n + 1), NEW j \in 1..(n + 1), i < j
       PROVE  r[i].seq < r[j].seq
  <2>1. CASE j < p
    <3>1. i \in 1..n /\ j \in 1..n /\ r[i] = list[i] /\ r[j] = list[j]
      BY <1>3, <1>11, <1>12, <1>14, <2>1
    <3> QED
      BY <1>4, <1>14, <3>1 DEF InOrder
  <2>2. CASE j = p
    <3>1. r[i] = list[i] /\ r[j] = x /\ i \in 1..(p - 1)
      BY <1>11, <1>12, <1>14, <2>2
    <3> QED
      BY <1>5, <1>8, <3>1
  <2>3. CASE i < p /\ j > p
    <3>1. i \in 1..n /\ j - 1 \in 1..n /\ r[i] = list[i] /\ r[j] = list[j - 1]
          /\ i \in 1..(p - 1) /\ j - 1 \in p..n
      BY <1>3, <1>11, <1>12, <2>3
    <3>2. list[i].seq < q /\ list[j - 1].seq > q
      BY <1>8, <3>1
    <3> QED
      BY <1>13, <3>1, <3>2
  <2>4. CASE i = p
    <3>1. r[i] = x /\ r[j] = list[j - 1] /\ j - 1 \in p..n
      BY <1>3, <1>11, <1>12, <1>14, <2>4
    <3>2. list[j - 1].seq > q /\ x.seq = q /\ j - 1 \in 1..n
      BY <1>5, <1>8, <1>12, <3>1
    <3> QED
      BY <1>13, <3>1, <3>2
  <2>5. CASE i > p
    <3>1. i - 1 \in 1..n /\ j - 1 \in 1..n /\ i - 1 < j - 1 /\ r[i] = list[i - 1]
          /\ r[j] = list[j - 1]
      BY <1>3, <1>11, <1>12, <1>14, <2>5
    <3> QED
      BY <1>4, <3>1 DEF InOrder
  <2> QED
    BY <1>12, <1>14, <2>1, <2>2, <2>3, <2>4, <2>5
<1>15. InSequence(r)
  BY <1>11, <1>14 DEF InSequence
<1>16. ASSUME NEW i \in 1..Len(r)
       PROVE  \E f \in events \cup {e} :
                Of(f, "checkpoint", id) /\ r[i] = [seq |-> f.seq, blob |-> f.blob]
  <2>1. r[i] = x \/ \E k \in 1..n : r[i] = list[k]
    BY <1>3, <1>11, <1>12
  <2>2. ASSUME NEW k \in 1..n
        PROVE  \E f \in events :
                 Of(f, "checkpoint", id) /\ list[k] = [seq |-> f.seq, blob |-> f.blob]
    BY <1>2 DEF Lists
  <2> QED
    BY <1>5, <2>1, <2>2
<1>17. ASSUME NEW f \in events \cup {e}, Of(f, "checkpoint", id)
       PROVE  \E i \in 1..Len(r) : r[i] = [seq |-> f.seq, blob |-> f.blob]
  <2>1. CASE f = e
    <3>1. p \in 1..Len(r) /\ r[p] = x
      BY <1>3, <1>11, <1>12
    <3> QED
      BY <1>5, <2>1, <3>1
  <2>2. CASE f \in events
    <3>1. PICK k \in 1..n : list[k] = [seq |-> f.seq, blob |-> f.blob]
      BY <1>2, <1>17, <2>2 DEF Lists
    <3>2. \E i \in 1..(n + 1) : r[i] = list[k]
      <4>1. CASE k < p
        BY <1>3, <1>11, <1>12, <4>1
      <4>2. CASE ~(k < p)
        <5>1. k + 1 \in 1..(n + 1) /\ ~(k + 1 < p) /\ k + 1 # p /\ (k + 1) - 1 = k
          BY <1>3, <1>12, <4>2
        <5> QED
          BY <1>11, <5>1
      <4> QED
        BY <4>1, <4>2
    <3> QED
      BY <1>11, <3>1, <3>2
  <2> QED
    BY <2>1, <2>2
<1> QED
  BY <1>10, <1>15, <1>16, <1>17 DEF Lists

\* An event of another environment changes nothing of a record.
LEMMA OthersKept ==
  ASSUME NEW r, NEW id, NEW events, RecordOf(r, id, events), NEW e, e.id # id
  PROVE  RecordOf(r, id, events \cup {e})
<1>1. \A type : ~Of(e, type, id)
  BY DEF Of
<1> QED
  BY <1>1 DEF RecordOf, OwnerShown, ParentShown, Lists

\* ensure adds a record that shows nothing.
LEMMA Ensured ==
  ASSUME NEW model, NEW events, ModelOf(model, events), NEW id
  PROVE  LET m == ensure(model, id) IN
         /\ DOMAIN m = {e.id : e \in events} \cup {id}
         /\ m = [x \in DOMAIN m |-> m[x]]
         /\ \A x \in DOMAIN m : RecordOf(m[x], x, events)
<1>1. CASE id \in DOMAIN model
  BY <1>1 DEF ensure, ModelOf
<1>2. CASE id \notin DOMAIN model
  <2>1. PICK m, r : m = ensure(model, id) /\ r = NewRecord
    OBVIOUS
  <2>2. m = [x \in DOMAIN model \cup {id} |-> IF x = id THEN r ELSE model[x]]
    BY <1>2, <2>1 DEF ensure, With
  <2>3. \A e \in events : e.id # id
    BY <1>2 DEF ModelOf
  <2>4. RecordOf(r, id, events)
    <3>1. r = [owner |-> Unknown, parent |-> Unknown, checkpoints |-> <<>>]
      BY <2>1 DEF NewRecord
    <3>2. \A e \in events : \A type : ~Of(e, type, id)
      BY <2>3 DEF Of
    <3>3. Lists(<<>>, id, events)
      BY <3>2 DEF Lists, InSequence
    <3> QED
      BY <3>1, <3>2, <3>3 DEF RecordOf, OwnerShown, ParentShown
  <2>5. DOMAIN m = DOMAIN model \cup {id} /\ m = [x \in DOMAIN m |-> m[x]]
    BY <2>2
  <2>6. \A x \in DOMAIN m : RecordOf(m[x], x, events)
    BY <2>2, <2>4, <2>5 DEF ModelOf
  <2> QED
    BY <2>1, <2>5, <2>6 DEF ModelOf
<1> QED
  BY <1>1, <1>2

\* One more event leaves a read model of the events and that one.
LEMMA ApplyStep ==
  ASSUME NEW model, NEW events, ModelOf(model, events), NEW e, Consistent(events \cup {e})
  PROVE  ModelOf(applyEvent(model, e), events \cup {e})
<1> DEFINE both == events \cup {e}
<1>1. PICK m, id : m = ensure(model, e.id) /\ id = e.id
  OBVIOUS
<1>2. /\ DOMAIN m = {x.id : x \in both} /\ m = [x \in DOMAIN m |-> m[x]]
      /\ \A x \in DOMAIN m : RecordOf(m[x], x, events)
  <2>1. m = ensure(model, id)
    BY <1>1
  <2>2. /\ DOMAIN m = {x.id : x \in events} \cup {id} /\ m = [x \in DOMAIN m |-> m[x]]
        /\ \A x \in DOMAIN m : RecordOf(m[x], x, events)
    BY <2>1, Ensured
  <2>3. {x.id : x \in both} = {x.id : x \in events} \cup {id}
    BY <1>1
  <2> QED
    BY <2>2, <2>3
<1>3. id \in DOMAIN m
  BY <1>1, <1>2
<1>4. PICK r : r = m[id] /\ RecordOf(r, id, events)
  BY <1>2, <1>3
<1>5. PICK s : s = CASE e.type = "created" -> [r EXCEPT !.owner = e.owner]
                     [] e.type = "forked" -> [r EXCEPT !.parent = e.parent]
                     [] e.type = "checkpoint" ->
                          IF HasSeq(r.checkpoints, e) THEN r
                          ELSE [r EXCEPT !.checkpoints = Inserted(@, e)]
  OBVIOUS
<1>6. e \in both /\ e.type \in {"created", "forked", "checkpoint"}
  BY DEF Consistent
<1>7. applyEvent(model, e) = [m EXCEPT ![id] = s]
  <2>1. m[id] = r /\ m = [m EXCEPT ![id] = r]
    BY <1>2, <1>3, <1>4
  <2>2. CASE e.type = "created"
    BY <1>1, <1>4, <1>5, <2>2 DEF applyEvent
  <2>3. CASE e.type = "forked"
    BY <1>1, <1>4, <1>5, <2>3 DEF applyEvent
  <2>4. CASE e.type = "checkpoint" /\ HasSeq(r.checkpoints, e)
    BY <1>1, <1>4, <1>5, <2>1, <2>4 DEF applyEvent
  <2>5. CASE e.type = "checkpoint" /\ ~HasSeq(r.checkpoints, e)
    BY <1>1, <1>4, <1>5, <2>5 DEF applyEvent
  <2> QED
    BY <1>6, <2>2, <2>3, <2>4, <2>5
<1>8. RecordOf(s, id, both)
  <2>1. PICK o, p, list : r = [owner |-> o, parent |-> p, checkpoints |-> list]
    BY <1>4 DEF RecordOf
  <2>2. CASE e.type = "created"
    <3>1. s = [owner |-> e.owner, parent |-> p, checkpoints |-> list]
      BY <1>5, <2>1, <2>2
    <3>2. OwnerShown(s, id, both)
      BY <1>1, <1>6, <2>2, <3>1 DEF OwnerShown, Of
    <3>3. ~Of(e, "forked", id) /\ ~Of(e, "checkpoint", id)
      BY <2>2 DEF Of
    <3>4. ParentShown(s, id, both)
      BY <1>4, <2>1, <3>1, <3>3 DEF RecordOf, ParentShown
    <3>5. Lists(s.checkpoints, id, both)
      BY <1>4, <2>1, <3>1, <3>3 DEF RecordOf, Lists
    <3> QED
      BY <3>1, <3>2, <3>4, <3>5 DEF RecordOf
  <2>3. CASE e.type = "forked"
    <3>1. s = [owner |-> o, parent |-> e.parent, checkpoints |-> list]
      BY <1>5, <2>1, <2>3
    <3>2. ParentShown(s, id, both)
      BY <1>1, <1>6, <2>3, <3>1 DEF ParentShown, Of
    <3>3. ~Of(e, "created", id) /\ ~Of(e, "checkpoint", id)
      BY <2>3 DEF Of
    <3>4. OwnerShown(s, id, both)
      BY <1>4, <2>1, <3>1, <3>3 DEF RecordOf, OwnerShown
    <3>5. Lists(s.checkpoints, id, both)
      BY <1>4, <2>1, <3>1, <3>3 DEF RecordOf, Lists
    <3> QED
      BY <3>1, <3>2, <3>4, <3>5 DEF RecordOf
  <2>4. CASE e.type = "checkpoint"
    <3>1. ~Of(e, "created", id) /\ ~Of(e, "forked", id) /\ Of(e, "checkpoint", id)
      BY <1>1, <2>4 DEF Of
    <3>2. e.seq \in Nat /\ e.blob \in Blobs \cup {NoBlob}
      BY <1>6, <2>4 DEF Consistent
    <3>3. Lists(list, id, events)
      BY <1>4, <2>1 DEF RecordOf
    <3>4. PICK new : /\ s = [owner |-> o, parent |-> p, checkpoints |-> new]
                     /\ new = IF HasSeq(list, e) THEN list ELSE Inserted(list, e)
      BY <1>5, <2>1, <2>4
    <3>5. Lists(new, id, both)
      <4>1. CASE ~HasSeq(list, e)
        BY <3>1, <3>2, <3>3, <3>4, <4>1, InsertedLists
      <4>2. CASE HasSeq(list, e)
        <5>1. PICK i \in 1..Len(list) : list[i].seq = e.seq
          BY <4>2 DEF HasSeq
        <5>2. PICK f \in events :
                Of(f, "checkpoint", id) /\ list[i] = [seq |-> f.seq, blob |-> f.blob]
          BY <3>3 DEF Lists
        <5>3. e.blob = f.blob /\ e.seq = f.seq
          BY <1>6, <3>1, <5>1, <5>2 DEF Consistent, Of
        <5> QED
          BY <3>3, <3>4, <4>2, <5>2, <5>3 DEF Lists
      <4> QED
        BY <4>1, <4>2
    <3>6. OwnerShown(s, id, both) /\ ParentShown(s, id, both)
      BY <1>4, <2>1, <3>1, <3>4 DEF RecordOf, OwnerShown, ParentShown
    <3> QED
      BY <3>4, <3>5, <3>6 DEF RecordOf
  <2> QED
    BY <1>6, <2>2, <2>3, <2>4
<1>9. PICK new : new = [m EXCEPT ![id] = s]
  OBVIOUS
<1>10. /\ DOMAIN new = {x.id : x \in both} /\ new = [x \in DOMAIN new |-> new[x]]
       /\ new[id] = s /\ \A x \in DOMAIN new : x # id => new[x] = m[x]
  BY <1>2, <1>3, <1>9
<1>11. \A x \in DOMAIN new : RecordOf(new[x], x, both)
  BY <1>1, <1>2, <1>8, <1>10, OthersKept
<1> QED
  BY <1>7, <1>9, <1>10, <1>11 DEF ModelOf

(***************************************************************************)
(* All events                                                              *)
(***************************************************************************)
IsBuild(events, n, w) ==
  w = [k \in 0..n |-> IF k = 0 THEN [id \in {} |-> NewRecord]
                      ELSE applyEvent(w[k - 1], events[k])]

\* buildModel is defined for every list of events.
LEMMA BuildExists ==
  ASSUME NEW events, NEW n \in Nat
  PROVE  \E w : IsBuild(events, n, w)
<1> DEFINE none == [id \in {} |-> NewRecord]
           T == {k \in Nat : \E w : IsBuild(events, k, w)}
<1>1. 0 \in T
  <2>1. PICK w : w = [k \in 0..0 |-> none]
    OBVIOUS
  <2>2. IsBuild(events, 0, w)
    BY <2>1 DEF IsBuild
  <2> QED
    BY <2>2
<1>2. ASSUME NEW k \in Nat, k \in T PROVE k + 1 \in T
  <2>0. PICK w : IsBuild(events, k, w)
    BY <1>2
  <2> HIDE DEF none
  <2>1. w = [i \in 0..k |-> IF i = 0 THEN none ELSE applyEvent(w[i - 1], events[i])]
    BY <2>0 DEF IsBuild, none
  <2>2. PICK v : v = [i \in 0..(k + 1) |->
                        IF i = 0 THEN none ELSE applyEvent(w[i - 1], events[i])]
    OBVIOUS
  <2>3. \A i \in 0..k : v[i] = w[i]
    <3>1. \A i \in 0..k : w[i] = IF i = 0 THEN none ELSE applyEvent(w[i - 1], events[i])
      BY <2>1
    <3>2. \A i \in 0..(k + 1) : v[i] = IF i = 0 THEN none ELSE applyEvent(w[i - 1], events[i])
      BY <2>2
    <3> QED
      BY <3>1, <3>2
  <2>4. \A i \in 0..(k + 1) : i # 0 => i - 1 \in 0..k
    OBVIOUS
  <2>5. v = [i \in 0..(k + 1) |-> IF i = 0 THEN none ELSE applyEvent(v[i - 1], events[i])]
    BY <2>2, <2>3, <2>4
  <2>6. IsBuild(events, k + 1, v)
    BY <2>5 DEF IsBuild, none
  <2> QED
    BY <2>6
<1> HIDE DEF T
<1>3. Nat \subseteq T
  BY <1>1, <1>2, NatSet
<1> QED
  BY <1>3 DEF T

\* The read model of a list is the read model of its events.
LEMMA BuildIsModel ==
  ASSUME NEW order, NEW n \in Nat, Len(order) = n, NEW events, Consistent(events),
         \A k \in 1..n : order[k] \in events
  PROVE  ModelOf(buildModel(order), {order[k] : k \in 1..n})
<1> DEFINE W == CHOOSE w : IsBuild(order, n, w)
<1>1. IsBuild(order, n, W)
  BY BuildExists, Zenon
<1>2. buildModel(order) = W[n]
  BY DEF buildModel, IsBuild
<1> HIDE DEF W
<1> DEFINE T == {k \in Nat : k <= n => ModelOf(W[k], {order[i] : i \in 1..k})}
<1>3. 0 \in T
  <2>1. W[0] = [id \in {} |-> NewRecord]
    BY <1>1 DEF IsBuild
  <2>2. {order[i] : i \in 1..0} = {}
    OBVIOUS
  <2>3. ModelOf(W[0], {})
    BY <2>1 DEF ModelOf
  <2> QED
    BY <2>2, <2>3
<1>4. ASSUME NEW k \in Nat, k \in T PROVE k + 1 \in T
  <2> SUFFICES ASSUME k + 1 <= n PROVE ModelOf(W[k + 1], {order[i] : i \in 1..(k + 1)})
    OBVIOUS
  <2>1. k + 1 \in 0..n /\ k + 1 \in 1..n /\ k + 1 # 0 /\ (k + 1) - 1 = k
    OBVIOUS
  <2>2. PICK R, e : R = {order[i] : i \in 1..k} /\ e = order[k + 1]
    OBVIOUS
  <2>3. ModelOf(W[k], R)
    <3>1. k <= n
      OBVIOUS
    <3>2. k <= n => ModelOf(W[k], {order[i] : i \in 1..k})
      BY <1>4
    <3>3. ModelOf(W[k], {order[i] : i \in 1..k})
      BY <3>1, <3>2, Zenon
    <3> QED
      BY <2>2, <3>3, Zenon
  <2>4. W[k + 1] = applyEvent(W[k], e)
    BY <1>1, <2>1, <2>2 DEF IsBuild
  <2>5. {order[i] : i \in 1..(k + 1)} = R \cup {e}
    BY <2>2
  <2>6. Consistent(R \cup {e})
    <3>1. R \cup {e} \subseteq events
      BY <2>1, <2>2
    <3> QED
      BY <3>1 DEF Consistent
  <2>7. PICK w : w = W[k]
    OBVIOUS
  <2>8. ModelOf(applyEvent(w, e), R \cup {e})
    BY <2>3, <2>6, <2>7, ApplyStep
  <2> QED
    BY <2>4, <2>5, <2>7, <2>8
<1> HIDE DEF T
<1>5. Nat \subseteq T
  BY <1>3, <1>4, NatSet
<1>6. n \in T
  BY <1>5
<1> QED
  BY <1>2, <1>6 DEF T

(***************************************************************************)
(* The events that were emitted                                            *)
(***************************************************************************)
\* What the first k entries of m have used of the sequences.
SeqsAt(m, k) ==
  /\ NextSeq(m, k) \in Nat
  /\ \A i \in 1..k : IsCheckpoint(log[m][i]) => log[m][i].seq < NextSeq(m, k)
  /\ \A q \in Nat : q < NextSeq(m, k) =>
       \E i \in 1..k : IsCheckpoint(log[m][i]) /\ log[m][i].seq = q

\* The checkpoints among the first entries have the sequences up to the next.
LEMMA SeqsKnown ==
  ASSUME TypeOK, CheckpointSeqsContiguous, NEW m \in Live, NEW n \in 0..Len(log[m])
  PROVE  SeqsAt(m, n)
<1>1. log[m] \in Seq(Events) /\ Len(log[m]) \in Nat
  BY DEF TypeOK
<1>2. ASSUME NEW i \in 1..Len(log[m]) PROVE log[m][i].seq = NextSeq(m, i - 1)
  BY DEF CheckpointSeqsContiguous
<1> DEFINE T == {k \in Nat : k <= Len(log[m]) => SeqsAt(m, k)}
<1>3. 0 \in T
  BY DEF SeqsAt, NextSeq
<1>4. ASSUME NEW k \in Nat, k \in T PROVE k + 1 \in T
  <2> SUFFICES ASSUME k + 1 <= Len(log[m]) PROVE SeqsAt(m, k + 1)
    OBVIOUS
  <2>1. SeqsAt(m, k) /\ k + 1 \in 1..Len(log[m]) /\ (k + 1) - 1 = k /\ k + 1 # 0
    BY <1>1, <1>4
  <2>2. PICK e, q, r : e = log[m][k + 1] /\ q = NextSeq(m, k) /\ r = NextSeq(m, k + 1)
    OBVIOUS
  <2>3. e.seq = q
    BY <1>2, <2>1, <2>2
  <2>4. r = q + (IF IsCheckpoint(e) THEN 1 ELSE 0)
    BY <2>1, <2>2, <2>3 DEF NextSeq
  <2>5. q \in Nat /\ r \in Nat /\ q <= r
    BY <2>1, <2>2, <2>4 DEF SeqsAt
  <2>6. ASSUME NEW i \in 1..(k + 1), IsCheckpoint(log[m][i]) PROVE log[m][i].seq < r
    <3>1. CASE i = k + 1
      BY <2>2, <2>3, <2>4, <2>5, <2>6, <3>1
    <3>2. CASE i \in 1..k
      <4>1. log[m][i].seq < q
        BY <2>1, <2>2, <2>6, <3>2 DEF SeqsAt
      <4>2. log[m][i] \in Events
        BY <1>1, <2>1, <3>2
      <4>3. log[m][i].seq \in Nat
        BY <4>2 DEF Events
      <4> QED
        BY <2>5, <4>1, <4>3
    <3> QED
      BY <3>1, <3>2
  <2>7. ASSUME NEW x \in Nat, x < r
        PROVE  \E i \in 1..(k + 1) : IsCheckpoint(log[m][i]) /\ log[m][i].seq = x
    <3>1. CASE x < q
      <4>1. PICK i \in 1..k : IsCheckpoint(log[m][i]) /\ log[m][i].seq = x
        BY <2>1, <2>2, <3>1 DEF SeqsAt
      <4> QED
        BY <4>1
    <3>2. CASE ~(x < q)
      <4>1. x = q /\ IsCheckpoint(e)
        BY <2>4, <2>5, <2>7, <3>2
      <4>2. k + 1 \in 1..(k + 1)
        OBVIOUS
      <4> QED
        BY <2>2, <2>3, <4>1, <4>2
    <3> QED
      BY <3>1, <3>2
  <2> QED
    BY <2>2, <2>5, <2>6, <2>7 DEF SeqsAt
<1> HIDE DEF T
<1>5. Nat \subseteq T
  BY <1>3, <1>4, NatSet
<1>6. n \in T /\ n <= Len(log[m])
  BY <1>1, <1>5
<1> QED
  BY <1>6 DEF T

\* Two checkpoints of a Machine have different sequences.
LEMMA SeqOnce ==
  ASSUME TypeOK, CheckpointSeqsContiguous, NEW m \in Live, NEW i \in 1..Len(log[m]),
         NEW j \in 1..Len(log[m]), IsCheckpoint(log[m][i]), IsCheckpoint(log[m][j]),
         log[m][i].seq = log[m][j].seq
  PROVE  i = j
<1>1. log[m] \in Seq(Events) /\ Len(log[m]) \in Nat
  BY DEF TypeOK
<1>2. ASSUME NEW a \in 1..Len(log[m]), NEW b \in 1..Len(log[m]), a < b, IsCheckpoint(log[m][a])
      PROVE  log[m][a].seq # log[m][b].seq
  <2>1. b - 1 \in 0..Len(log[m]) /\ a \in 1..(b - 1)
    BY <1>1, <1>2
  <2>2. SeqsAt(m, b - 1)
    BY <2>1, SeqsKnown
  <2>3. log[m][a].seq < NextSeq(m, b - 1) /\ NextSeq(m, b - 1) \in Nat
    BY <1>2, <2>1, <2>2 DEF SeqsAt
  <2>4. log[m][b].seq = NextSeq(m, b - 1)
    BY DEF CheckpointSeqsContiguous
  <2>5. log[m][a] \in Events
    BY <1>1
  <2>6. log[m][a].seq \in Nat
    BY <2>5 DEF Events
  <2> QED
    BY <2>3, <2>4, <2>6
<1>3. ~(i < j) /\ ~(j < i)
  BY <1>2
<1> QED
  BY <1>1, <1>3

\* The event was emitted and says what the chain has.
EventFact(e) ==
  /\ e.type \in {"created", "forked", "checkpoint"} /\ e.id \in Live
  /\ e.type = "created" => e.id \notin DOMAIN forks /\ e.owner = machines[e.id].owner
  /\ e.type = "forked" => e.id \in DOMAIN forks /\ e.parent = forks[e.id].parent
  /\ e.type = "checkpoint" => \E k \in 1..Len(log[e.id]) :
       IsCheckpoint(log[e.id][k]) /\ e.seq = log[e.id][k].seq /\ e.blob = log[e.id][k].blob

AllTrue(events) == \A e \in events : EventFact(e)

HasCheckpoint(events, m, q) == \E e \in events : Of(e, "checkpoint", m) /\ e.seq = q

\* No checkpoint is missing before one that is there.
Closed(events) ==
  \A e \in events : e.type = "checkpoint" =>
    \A q \in Nat : q < e.seq => HasCheckpoint(events, e.id, q)

\* The event that says where an environment comes from is there.
HasOrigin(events, m) ==
  IF m \in DOMAIN forks THEN \E e \in events : Of(e, "forked", m)
  ELSE \E e \in events : Of(e, "created", m)

\* Emitted events agree with each other.
LEMMA TrueConsistent ==
  ASSUME TypeOK, CheckpointSeqsContiguous, NEW events, AllTrue(events)
  PROVE  Consistent(events)
<1>1. ASSUME NEW e \in events, e.type = "checkpoint"
      PROVE  e.seq \in Nat /\ e.blob \in Blobs \cup {NoBlob}
  <2>1. EventFact(e)
    BY DEF AllTrue
  <2>2. PICK k \in 1..Len(log[e.id]) :
          IsCheckpoint(log[e.id][k]) /\ e.seq = log[e.id][k].seq /\ e.blob = log[e.id][k].blob
    BY <1>1, <2>1 DEF EventFact
  <2>3. log[e.id] \in Seq(Events)
    BY <2>1 DEF EventFact, TypeOK
  <2>4. log[e.id][k] \in Events
    BY <2>3
  <2> QED
    BY <2>2, <2>4 DEF Events
<1>2. ASSUME NEW e \in events, NEW f \in events, e.type = "checkpoint", f.type = "checkpoint",
             e.id = f.id, e.seq = f.seq
      PROVE  e.blob = f.blob
  <2>1. EventFact(e) /\ EventFact(f)
    BY DEF AllTrue
  <2>2. PICK m \in Live : m = e.id
    BY <2>1 DEF EventFact
  <2>3. PICK k \in 1..Len(log[m]) :
          IsCheckpoint(log[m][k]) /\ e.seq = log[m][k].seq /\ e.blob = log[m][k].blob
    BY <1>2, <2>1, <2>2 DEF EventFact
  <2>4. PICK l \in 1..Len(log[m]) :
          IsCheckpoint(log[m][l]) /\ f.seq = log[m][l].seq /\ f.blob = log[m][l].blob
    BY <1>2, <2>1, <2>2 DEF EventFact
  <2>5. k = l
    BY <1>2, <2>3, <2>4, SeqOnce
  <2> QED
    BY <2>3, <2>4, <2>5
<1>3. \A e \in events : EventFact(e)
  BY DEF AllTrue
<1> QED
  BY <1>1, <1>2, <1>3 DEF Consistent, EventFact

\* What was emitted stays emitted.
LEMMA EventsKept ==
  ASSUME TypeOK, [Next]_vars, NEW events, AllTrue(events)
  PROVE  AllTrue(events)'
<1> SUFFICES ASSUME NEW e \in events PROVE EventFact(e)'
  BY DEF AllTrue
<1>1. EventFact(e)
  BY DEF AllTrue
<1>2. PICK m \in Live : m = e.id
  BY <1>1 DEF EventFact
<1>3. Kept(m) /\ ChainGrows
  BY ChainKeeps, ChainOnlyGrows
<1>4. ASSUME e.type = "checkpoint"
      PROVE  \E k \in 1..Len(log'[m]) :
               IsCheckpoint(log'[m][k]) /\ e.seq = log'[m][k].seq /\ e.blob = log'[m][k].blob
  <2>1. PICK k \in 1..Len(log[m]) :
          IsCheckpoint(log[m][k]) /\ e.seq = log[m][k].seq /\ e.blob = log[m][k].blob
    BY <1>1, <1>2, <1>4 DEF EventFact
  <2>2. k \in 1..Len(log'[m]) /\ log'[m][k] = log[m][k]
    BY <1>3 DEF Kept
  <2> QED
    BY <2>1, <2>2
<1>5. machines'[m].owner = machines[m].owner /\ m \in Live'
  BY <1>3 DEF ChainGrows
<1>6. (m \in DOMAIN forks' <=> m \in DOMAIN forks) /\ (m \in DOMAIN forks => forks'[m] = forks[m])
  BY <1>3 DEF Kept
<1>7. ASSUME e.type = "created" PROVE m \notin DOMAIN forks' /\ e.owner = machines'[m].owner
  BY <1>1, <1>2, <1>5, <1>6, <1>7 DEF EventFact
<1>8. ASSUME e.type = "forked" PROVE m \in DOMAIN forks' /\ e.parent = forks'[m].parent
  BY <1>1, <1>2, <1>6, <1>8 DEF EventFact
<1>9. e.type \in {"created", "forked", "checkpoint"}
  BY <1>1 DEF EventFact
<1> QED
  BY <1>2, <1>4, <1>5, <1>7, <1>8, <1>9 DEF EventFact, IsCheckpoint

(***************************************************************************)
(* Orders of a set of events                                               *)
(***************************************************************************)
\* An order lists every event of a finite set, and is a list.
LEMMA OrderListsAll ==
  ASSUME NEW events, IsFiniteSet(events), NEW order \in [1..Cardinality(events) -> events],
         IsInjective(order)
  PROVE  /\ Cardinality(events) \in Nat /\ order \in Seq(events)
         /\ Len(order) = Cardinality(events)
         /\ {order[k] : k \in 1..Cardinality(events)} = events
<1>1. PICK n \in Nat : n = Cardinality(events)
  BY FS_CardinalityType
<1>2. PICK D : D = 1..n
  OBVIOUS
<1>3. IsFiniteSet(D) /\ Cardinality(D) = n
  BY <1>1, <1>2, FS_Interval
<1>4. order \in Injection(D, events)
  BY <1>1, <1>2 DEF Injection
<1>5. order \in Surjection(D, events)
  BY <1>1, <1>3, <1>4, FS_Injection
<1>6. order \in Seq(events) /\ Len(order) = n
  BY <1>1
<1> QED
  BY <1>1, <1>2, <1>5, <1>6 DEF Surjection

\* The read model of any order is the read model of the events.
LEMMA OrderModel ==
  ASSUME NEW events, IsFiniteSet(events), Consistent(events),
         NEW order \in [1..Cardinality(events) -> events], IsInjective(order)
  PROVE  /\ ModelOf(buildModel(order), events)
         /\ \A e \in events : ModelOf(buildModel(Append(order, e)), events)
<1>1. PICK n \in Nat : /\ n = Cardinality(events) /\ order \in Seq(events) /\ Len(order) = n
                       /\ {order[k] : k \in 1..n} = events
  BY OrderListsAll
<1>2. \A k \in 1..n : order[k] \in events
  BY <1>1
<1>3. ModelOf(buildModel(order), events)
  BY <1>1, <1>2, BuildIsModel
<1>4. ASSUME NEW e \in events PROVE ModelOf(buildModel(Append(order, e)), events)
  <2>1. PICK o : o = Append(order, e)
    OBVIOUS
  <2>2. PICK l \in Nat : l = n + 1
    OBVIOUS
  <2>3. Len(o) = l /\ o[l] = e /\ \A k \in 1..n : o[k] = order[k]
    BY <1>1, <2>1, <2>2
  <2>4. \A k \in 1..l : k \in 1..n \/ k = l
    BY <2>2
  <2>5. \A k \in 1..l : o[k] \in events
    BY <1>2, <2>3, <2>4
  <2>6. \A k \in 1..n : k \in 1..l
    BY <2>2
  <2>7. {o[k] : k \in 1..l} = events
    <3>1. \A x \in events : \E k \in 1..n : order[k] = x
      BY <1>1
    <3>2. \A x \in events : \E k \in 1..l : o[k] = x
      BY <2>3, <2>6, <3>1
    <3> QED
      BY <2>5, <3>2
  <2>8. ModelOf(buildModel(o), {o[k] : k \in 1..l})
    BY <2>3, <2>5, BuildIsModel
  <2> QED
    BY <2>1, <2>7, <2>8
<1> QED
  BY <1>3, <1>4

\* SetToSeq is an order.
LEMMA SetToSeqOrders ==
  ASSUME NEW events, IsFiniteSet(events)
  PROVE  SetToSeq(events) \in [1..Cardinality(events) -> events] /\ IsInjective(SetToSeq(events))
<1>1. ExistsBijection(1..Cardinality(events), events)
  BY FS_CardinalityType
<1>2. \E f \in [1..Cardinality(events) -> events] : IsInjective(f)
  BY <1>1 DEF ExistsBijection, Bijection, Injection
<1> QED
  BY <1>2, Zenon DEF SetToSeq

(***************************************************************************)
(* A read model of emitted events without a hole is true                   *)
(***************************************************************************)
\* A list in sequence with nothing missing before its elements counts from 0.
LEMMA DenseList ==
  ASSUME NEW list, NEW n, InOrder(list, n),
         \A i \in 1..n : \A q \in Nat : q < list[i].seq => \E j \in 1..n : list[j].seq = q
  PROVE  \A i \in 1..n : list[i].seq = i - 1
<1>0. n \in Nat /\ \A i \in 1..n : list[i].seq \in Nat
  BY DEF InOrder
<1> DEFINE T == {k \in Nat : k <= n => \A i \in 1..k : list[i].seq = i - 1}
<1>1. 0 \in T
  OBVIOUS
<1>2. ASSUME NEW k \in Nat, k \in T PROVE k + 1 \in T
  <2> SUFFICES ASSUME k + 1 <= n PROVE \A i \in 1..(k + 1) : list[i].seq = i - 1
    OBVIOUS
  <2>1. \A i \in 1..k : list[i].seq = i - 1
    BY <1>0, <1>2
  <2>2. k + 1 \in 1..n
    BY <1>0
  <2>3. PICK s \in Nat : s = list[k + 1].seq
    BY <1>0, <2>2
  <2>4. s >= k
    <3>1. CASE k = 0
      BY <2>3, <3>1
    <3>2. CASE k # 0
      <4>1. k \in 1..k /\ k \in 1..n /\ k < k + 1
        BY <1>0, <3>2
      <4>2. list[k].seq < s /\ list[k].seq = k - 1
        BY <2>1, <2>2, <2>3, <4>1 DEF InOrder
      <4> QED
        BY <2>3, <4>2
    <3> QED
      BY <3>1, <3>2
  <2>5. ~(k < s)
    <3> SUFFICES ASSUME k < s PROVE FALSE
      OBVIOUS
    <3>1. PICK j \in 1..n : list[j].seq = k
      BY <2>2, <2>3
    <3>2. CASE j \in 1..k
      <4>1. list[j].seq = j - 1
        BY <2>1, <3>2
      <4> QED
        BY <3>1, <3>2, <4>1
    <3>3. CASE j = k + 1
      BY <2>3, <3>1, <3>3
    <3>4. CASE k + 1 < j
      <4>1. s < k
        BY <2>2, <2>3, <3>1, <3>4 DEF InOrder
      <4> QED
        BY <2>4, <4>1
    <3> QED
      BY <1>0, <3>2, <3>3, <3>4
  <2>6. list[k + 1].seq = (k + 1) - 1
    BY <2>3, <2>4, <2>5
  <2>7. \A i \in 1..(k + 1) : i \in 1..k \/ i = k + 1
    OBVIOUS
  <2> QED
    BY <2>1, <2>6, <2>7
<1> HIDE DEF T
<1>3. Nat \subseteq T
  BY <1>1, <1>2, NatSet
<1>4. n \in T
  BY <1>0, <1>3
<1> QED
  BY <1>0, <1>4 DEF T

\* The list of an environment counts from 0.
LEMMA ListCounts ==
  ASSUME NEW events, Closed(events), Consistent(events), NEW m, NEW list, Lists(list, m, events)
  PROVE  /\ list \in Seq(Listed) /\ Len(list) \in Nat
         /\ \A i \in 1..Len(list) : list[i].seq = i - 1
<1>1. list \in Seq(Listed)
  BY DEF Lists, InSequence
<1>2. PICK n \in Nat : n = Len(list)
  BY <1>1
<1>3. \A i \in 1..n : list[i] \in Listed
  BY <1>1, <1>2
<1>4. InOrder(list, n)
  BY <1>2, <1>3 DEF InOrder, Lists, InSequence, Listed
<1>5. ASSUME NEW i \in 1..n, NEW q \in Nat, q < list[i].seq
      PROVE  \E j \in 1..n : list[j].seq = q
  <2>1. PICK e \in events : Of(e, "checkpoint", m) /\ list[i] = [seq |-> e.seq, blob |-> e.blob]
    BY <1>2 DEF Lists
  <2>2. PICK f \in events : Of(f, "checkpoint", m) /\ f.seq = q
    BY <1>5, <2>1 DEF Closed, HasCheckpoint, Of
  <2>3. PICK j \in 1..n : list[j] = [seq |-> f.seq, blob |-> f.blob]
    BY <1>2, <2>2 DEF Lists
  <2> QED
    BY <2>2, <2>3
<1>6. \A i \in 1..n : list[i].seq = i - 1
  BY <1>4, <1>5, DenseList
<1> QED
  BY <1>1, <1>2, <1>6

(***************************************************************************)
(* The inductive invariant                                                 *)
(***************************************************************************)
AllQueries == <<"created", "forked", "checkpoint">>
TwoLeft == <<"forked", "checkpoint">>
OneLeft == <<"checkpoint">>

\* The replay in progress holds emitted events only, and those that its
\* finished queries had to find; checkpoints are queried last.
SyncFact ==
  /\ sync = [todo |-> sync.todo, events |-> sync.events, before |-> sync.before]
  /\ sync.todo \in {<<>>, AllQueries, TwoLeft, OneLeft}
  /\ sync.todo = <<>> => sync = NotSyncing
  /\ IsFiniteSet(sync.events) /\ AllTrue(sync.events)
  /\ \A e \in sync.events : e.type # "checkpoint"
  /\ \A m \in DOMAIN sync.before :
       /\ m \in Live /\ sync.before[m] \in Nat /\ sync.before[m] <= machines[m].count
       /\ sync.todo \in {TwoLeft, OneLeft} /\ m \notin DOMAIN forks =>
            HasOrigin(sync.events, m)
       /\ sync.todo = OneLeft => HasOrigin(sync.events, m)

\* The events of a finished replay: emitted, without a hole, and with what
\* was there when it began.
IndexFact ==
  /\ IsFiniteSet(index.events) /\ AllTrue(index.events) /\ Closed(index.events)
  /\ ModelOf(index.model, index.events)
  /\ \A m \in DOMAIN index.before :
       /\ m \in Live /\ index.before[m] \in Nat /\ HasOrigin(index.events, m)
       /\ \A q \in Nat : q < index.before[m] => HasCheckpoint(index.events, m, q)

ReadersInv == IsFiniteSet(Live) /\ SyncFact /\ IndexFact

\* Such a read model is true of the chain and misses nothing.
LEMMA IndexFactTrue ==
  ASSUME ChainFact, IndexFact
  PROVE  IndexIsTrue
<1>1. PICK model, E : model = index.model /\ E = index.events
  OBVIOUS
<1>2. AllTrue(E) /\ Closed(E) /\ ModelOf(model, E)
  BY <1>1 DEF IndexFact
<1>3. TypeOK /\ CheckpointSeqsContiguous /\ ForkLineage
  BY DEF ChainFact
<1>4. Consistent(E)
  BY <1>2, <1>3, TrueConsistent
<1>5. ASSUME NEW m \in DOMAIN model
      PROVE  m \in Live /\ RecordIsTrue(m, model[m])
  <2>1. PICK e \in E : e.id = m
    BY <1>2 DEF ModelOf
  <2>2. m \in Live
    BY <1>2, <2>1 DEF AllTrue, EventFact
  <2>3. PICK r, list : r = model[m] /\ list = r.checkpoints
    OBVIOUS
  <2>4. RecordOf(r, m, E)
    BY <1>2, <2>3 DEF ModelOf
  <2>5. Lists(list, m, E)
    BY <2>3, <2>4 DEF RecordOf
  <2>6. \A i \in 1..Len(list) : list[i].seq = i - 1
    BY <1>2, <1>4, <2>5, ListCounts
  <2>7. ASSUME NEW i \in 1..Len(list)
        PROVE  \E k \in 1..Len(log[m]) :
                 /\ IsCheckpoint(log[m][k]) /\ log[m][k].seq = i - 1
                 /\ list[i] = [seq |-> i - 1, blob |-> log[m][k].blob]
    <3>1. PICK f \in E : Of(f, "checkpoint", m) /\ list[i] = [seq |-> f.seq, blob |-> f.blob]
      BY <2>5 DEF Lists
    <3>2. PICK k \in 1..Len(log[m]) :
            IsCheckpoint(log[m][k]) /\ f.seq = log[m][k].seq /\ f.blob = log[m][k].blob
      BY <1>2, <3>1 DEF AllTrue, EventFact, Of
    <3> QED
      BY <2>6, <3>1, <3>2
  <2>8. r.owner \in {Unknown, machines[m].owner}
    BY <1>2, <2>4 DEF RecordOf, OwnerShown, Of, AllTrue, EventFact
  <2>9. r.parent \in {Unknown, machines[m].parent}
    <3>1. m \in DOMAIN forks => forks[m].parent = machines[m].parent
      BY <1>3, <2>2 DEF ForkLineage
    <3> QED
      BY <1>2, <2>4, <3>1 DEF RecordOf, ParentShown, Of, AllTrue, EventFact
  <2> QED
    BY <2>2, <2>3, <2>7, <2>8, <2>9 DEF RecordIsTrue
<1>6. ASSUME NEW m \in DOMAIN index.before
      PROVE  /\ m \in DOMAIN model /\ Len(model[m].checkpoints) >= index.before[m]
             /\ IF m \in DOMAIN forks THEN model[m].parent = forks[m].parent
                ELSE model[m].owner = machines[m].owner
  <2>1. m \in Live /\ index.before[m] \in Nat /\ HasOrigin(E, m)
    BY <1>1 DEF IndexFact
  <2>2. \A q \in Nat : q < index.before[m] => HasCheckpoint(E, m, q)
    BY <1>1 DEF IndexFact
  <2>3. m \in DOMAIN model
    BY <1>2, <2>1 DEF HasOrigin, ModelOf, Of
  <2>4. PICK r, list, b : r = model[m] /\ list = r.checkpoints /\ b = index.before[m]
    OBVIOUS
  <2>5. RecordOf(r, m, E)
    BY <1>2, <2>3, <2>4 DEF ModelOf
  <2>6. Lists(list, m, E)
    BY <2>4, <2>5 DEF RecordOf
  <2>7. Len(list) \in Nat /\ \A i \in 1..Len(list) : list[i].seq = i - 1
    BY <1>2, <1>4, <2>6, ListCounts
  <2>8. Len(list) >= b
    <3>1. CASE b = 0
      BY <2>7, <3>1
    <3>2. CASE b # 0
      <4>1. b - 1 \in Nat /\ b - 1 < b
        BY <2>1, <2>4, <3>2
      <4>2. PICK e \in E : Of(e, "checkpoint", m) /\ e.seq = b - 1
        BY <2>2, <2>4, <4>1 DEF HasCheckpoint
      <4>3. PICK i \in 1..Len(list) : list[i] = [seq |-> e.seq, blob |-> e.blob]
        BY <2>6, <4>2 DEF Lists
      <4>4. i - 1 = b - 1
        BY <2>7, <4>2, <4>3
      <4> QED
        BY <2>1, <2>4, <2>7, <4>4
    <3> QED
      BY <3>1, <3>2
  <2>9. CASE m \in DOMAIN forks
    <3>1. \E e \in E : Of(e, "forked", m)
      BY <2>1, <2>9 DEF HasOrigin
    <3>2. \E e \in E : Of(e, "forked", m) /\ r.parent = e.parent
      BY <2>5, <3>1 DEF RecordOf, ParentShown
    <3>3. r.parent = forks[m].parent
      BY <1>2, <3>2 DEF AllTrue, EventFact, Of
    <3> QED
      BY <2>3, <2>4, <2>8, <2>9, <3>3
  <2>10. CASE m \notin DOMAIN forks
    <3>1. \E e \in E : Of(e, "created", m)
      BY <2>1, <2>10 DEF HasOrigin
    <3>2. \E e \in E : Of(e, "created", m) /\ r.owner = e.owner
      BY <2>5, <3>1 DEF RecordOf, OwnerShown
    <3>3. r.owner = machines[m].owner
      BY <1>2, <3>2 DEF AllTrue, EventFact, Of
    <3> QED
      BY <2>3, <2>4, <2>8, <2>10, <3>3
  <2> QED
    BY <2>9, <2>10
<1> QED
  BY <1>1, <1>5, <1>6 DEF IndexIsTrue

\* Such a read model is the one of every order of its events.
LEMMA IndexFactDeterministic ==
  ASSUME ChainFact, IndexFact
  PROVE  RebuildIsDeterministic
<1>1. PICK model, E : model = index.model /\ E = index.events
  OBVIOUS
<1>2. IsFiniteSet(E) /\ AllTrue(E) /\ ModelOf(model, E)
  BY <1>1 DEF IndexFact
<1>3. Consistent(E)
  BY <1>2, TrueConsistent DEF ChainFact
<1>4. ASSUME NEW order \in SetToSeqs(E)
      PROVE  /\ buildModel(order) = model
             /\ \A e \in E : buildModel(Append(order, e)) = model
  <2>1. order \in [1..Cardinality(E) -> E] /\ IsInjective(order)
    BY <1>4 DEF SetToSeqs, IsInjective
  <2>2. /\ ModelOf(buildModel(order), E)
        /\ \A e \in E : ModelOf(buildModel(Append(order, e)), E)
    BY <1>2, <1>3, <2>1, OrderModel
  <2>3. \A a : ModelOf(a, E) => a = model
    BY <1>2, <1>3, OneModel
  <2> QED
    BY <2>2, <2>3
<1> QED
  BY <1>1, <1>4 DEF RebuildIsDeterministic

(***************************************************************************)
(* The queries                                                             *)
(***************************************************************************)
\* The MachineCreated events.
LEMMA QueryCreated ==
  ASSUME TypeOK, IsFiniteSet(Live), NEW E, E = queryAll("created")
  PROVE  /\ IsFiniteSet(E) /\ AllTrue(E) /\ \A e \in E : e.type = "created"
         /\ \A m \in Live \ DOMAIN forks : \E e \in E : Of(e, "created", m)
<1>1. PICK S : S = Live \ DOMAIN forks
  OBVIOUS
<1>2. E = {[type |-> "created", id |-> m, owner |-> machines[m].owner] : m \in S}
  BY <1>1 DEF queryAll
<1>3. IsFiniteSet(S)
  BY <1>1, FS_Subset
<1>4. PICK f : f = [m \in S |-> [type |-> "created", id |-> m, owner |-> machines[m].owner]]
  OBVIOUS
<1>5. f \in Surjection(S, E)
  BY <1>2, <1>4 DEF Surjection
<1>6. IsFiniteSet(E)
  BY <1>3, <1>5, FS_Surjection
<1>7. ASSUME NEW e \in E PROVE EventFact(e) /\ e.type = "created"
  <2>1. PICK m \in S : e = [type |-> "created", id |-> m, owner |-> machines[m].owner]
    BY <1>2
  <2>2. e.type = "created" /\ e.id = m /\ e.owner = machines[m].owner
    BY <2>1
  <2> QED
    BY <1>1, <2>2 DEF EventFact
<1>8. ASSUME NEW m \in S PROVE \E e \in E : Of(e, "created", m)
  <2>1. [type |-> "created", id |-> m, owner |-> machines[m].owner] \in E
    BY <1>2
  <2> QED
    BY <2>1 DEF Of
<1> QED
  BY <1>1, <1>6, <1>7, <1>8 DEF AllTrue

\* The MachineForked events.
LEMMA QueryForked ==
  ASSUME TypeOK, IsFiniteSet(Live), NEW E, E = queryAll("forked")
  PROVE  /\ IsFiniteSet(E) /\ AllTrue(E) /\ \A e \in E : e.type = "forked"
         /\ \A m \in DOMAIN forks : \E e \in E : Of(e, "forked", m)
<1>1. PICK S : S = DOMAIN forks
  OBVIOUS
<1>2. E = {[type |-> "forked", id |-> m, parent |-> forks[m].parent] : m \in S}
  BY <1>1 DEF queryAll
<1>3. S \subseteq Live
  BY <1>1 DEF TypeOK
<1>4. IsFiniteSet(S)
  BY <1>3, FS_Subset
<1>5. PICK f : f = [m \in S |-> [type |-> "forked", id |-> m, parent |-> forks[m].parent]]
  OBVIOUS
<1>6. f \in Surjection(S, E)
  BY <1>2, <1>5 DEF Surjection
<1>7. IsFiniteSet(E)
  BY <1>4, <1>6, FS_Surjection
<1>8. ASSUME NEW e \in E PROVE EventFact(e) /\ e.type = "forked"
  <2>1. PICK m \in S : e = [type |-> "forked", id |-> m, parent |-> forks[m].parent]
    BY <1>2
  <2>2. e.type = "forked" /\ e.id = m /\ e.parent = forks[m].parent
    BY <2>1
  <2> QED
    BY <1>1, <1>3, <2>2 DEF EventFact
<1>9. ASSUME NEW m \in S PROVE \E e \in E : Of(e, "forked", m)
  <2>1. [type |-> "forked", id |-> m, parent |-> forks[m].parent] \in E
    BY <1>2
  <2> QED
    BY <2>1 DEF Of
<1> QED
  BY <1>1, <1>7, <1>8, <1>9 DEF AllTrue

\* The CheckpointRegistered events are those of every chain so far.
LEMMA QueryCheckpoints ==
  ASSUME TypeOK, CheckpointSeqsContiguous, LogBounded, IsFiniteSet(Live),
         NEW E, E = queryAll("checkpoint")
  PROVE  /\ IsFiniteSet(E) /\ AllTrue(E) /\ Closed(E) /\ \A e \in E : e.type = "checkpoint"
         /\ \A m \in Live : \A q \in Nat : q < machines[m].count => HasCheckpoint(E, m, q)
<1> DEFINE Ev(m, k) == [type |-> "checkpoint", id |-> m, seq |-> log[m][k].seq,
                        blob |-> log[m][k].blob]
           S == {p \in Live \X (1..MaxEntries) :
                   p[2] \in 1..Len(log[p[1]]) /\ IsCheckpoint(log[p[1]][p[2]])}
<1>1. \A m \in Live : log[m] \in Seq(Events) /\ Len(log[m]) \in Nat /\ Len(log[m]) <= MaxEntries
  BY DEF TypeOK, LogBounded
<1>2. ASSUME NEW e \in E
      PROVE  \E m \in Live : \E k \in 1..Len(log[m]) : IsCheckpoint(log[m][k]) /\ e = Ev(m, k)
  <2>1. PICK m \in Live : \E x \in ToSet(log[m]) : IsCheckpoint(x) /\
          e = [type |-> "checkpoint", id |-> m, seq |-> x.seq, blob |-> x.blob]
    BY DEF queryAll
  <2>2. PICK x \in ToSet(log[m]) : IsCheckpoint(x) /\
          e = [type |-> "checkpoint", id |-> m, seq |-> x.seq, blob |-> x.blob]
    BY <2>1
  <2>3. PICK k \in DOMAIN log[m] : x = log[m][k]
    BY <2>2 DEF ToSet
  <2>4. DOMAIN log[m] = 1..Len(log[m])
    BY <1>1
  <2> QED
    BY <2>2, <2>3, <2>4
<1>3. ASSUME NEW m \in Live, NEW k \in 1..Len(log[m]), IsCheckpoint(log[m][k])
      PROVE  Ev(m, k) \in E
  <2>1. DOMAIN log[m] = 1..Len(log[m])
    BY <1>1
  <2>2. log[m][k] \in {x \in ToSet(log[m]) : IsCheckpoint(x)}
    BY <1>3, <2>1 DEF ToSet
  <2>3. Ev(m, k) \in {[type |-> "checkpoint", id |-> m, seq |-> e.seq, blob |-> e.blob] :
                        e \in {x \in ToSet(log[m]) : IsCheckpoint(x)}}
    BY <2>2
  <2> QED
    BY <2>3 DEF queryAll
<1>4. IsFiniteSet(E)
  <2>1. IsFiniteSet(1..MaxEntries)
    BY BoundsAssumption, FS_Interval
  <2>2. IsFiniteSet(Live \X (1..MaxEntries))
    BY <2>1, FS_Product
  <2>3. IsFiniteSet(S)
    BY <2>2, FS_Subset
  <2>4. PICK f : f = [p \in S |-> Ev(p[1], p[2])]
    OBVIOUS
  <2>5. ASSUME NEW p \in S PROVE f[p] \in E
    <3>1. p[1] \in Live /\ p[2] \in 1..Len(log[p[1]]) /\ IsCheckpoint(log[p[1]][p[2]])
      OBVIOUS
    <3>2. PICK m \in Live, k \in Nat : m = p[1] /\ k = p[2]
      OBVIOUS
    <3> HIDE DEF S, Ev
    <3> QED
      BY <1>3, <2>4, <3>1, <3>2
  <2>6. ASSUME NEW e \in E PROVE \E p \in S : f[p] = e
    <3>1. PICK m \in Live : \E k \in 1..Len(log[m]) : IsCheckpoint(log[m][k]) /\ e = Ev(m, k)
      BY <1>2
    <3>2. PICK k \in 1..Len(log[m]) : IsCheckpoint(log[m][k]) /\ e = Ev(m, k)
      BY <3>1
    <3>3. k \in 1..MaxEntries
      BY <1>1, BoundsAssumption
    <3>4. <<m, k>> \in S
      BY <3>2, <3>3
    <3> HIDE DEF S, Ev
    <3> QED
      BY <2>4, <3>2, <3>4
  <2> HIDE DEF S
  <2>7. f \in Surjection(S, E)
    BY <2>4, <2>5, <2>6 DEF Surjection
  <2> QED
    BY <2>3, <2>7, FS_Surjection
<1>5. ASSUME NEW e \in E
      PROVE  EventFact(e) /\ e.type = "checkpoint"
  <2>1. PICK m \in Live : \E k \in 1..Len(log[m]) : IsCheckpoint(log[m][k]) /\ e = Ev(m, k)
    BY <1>2
  <2>2. PICK k \in 1..Len(log[m]) : IsCheckpoint(log[m][k]) /\ e = Ev(m, k)
    BY <2>1
  <2>3. e.type = "checkpoint" /\ e.id = m /\ e.seq = log[m][k].seq /\ e.blob = log[m][k].blob
    BY <2>2
  <2> QED
    BY <2>2, <2>3 DEF EventFact
<1>6. ASSUME NEW m \in Live, NEW q \in Nat, q < machines[m].count PROVE HasCheckpoint(E, m, q)
  <2>1. PICK n : n = Len(log[m])
    OBVIOUS
  <2>2. n \in 0..Len(log[m])
    BY <1>1, <2>1
  <2>3. SeqsAt(m, n) /\ machines[m].count = NextSeq(m, n)
    BY <2>1, <2>2, SeqsKnown DEF CheckpointSeqsContiguous
  <2>4. PICK i \in 1..n : IsCheckpoint(log[m][i]) /\ log[m][i].seq = q
    BY <1>6, <2>3 DEF SeqsAt
  <2>5. Ev(m, i) \in E /\ Of(Ev(m, i), "checkpoint", m) /\ Ev(m, i).seq = q
    BY <1>3, <2>1, <2>4 DEF Of
  <2> HIDE DEF Ev
  <2> QED
    BY <2>5 DEF HasCheckpoint
<1>7. ASSUME NEW e \in E, NEW q \in Nat, q < e.seq PROVE HasCheckpoint(E, e.id, q)
  <2>1. PICK m \in Live : m = e.id
    BY <1>5 DEF EventFact
  <2>2. PICK k \in 1..Len(log[m]) : IsCheckpoint(log[m][k]) /\ e.seq = log[m][k].seq
    BY <1>5, <2>1 DEF EventFact
  <2>3. PICK n : n = Len(log[m])
    OBVIOUS
  <2>4. SeqsAt(m, n) /\ machines[m].count = NextSeq(m, n)
    BY <1>1, <2>3, SeqsKnown DEF CheckpointSeqsContiguous
  <2>5. e.seq < machines[m].count
    BY <2>2, <2>3, <2>4 DEF SeqsAt
  <2>6. log[m][k] \in Events
    BY <1>1
  <2>7. e.seq \in Nat /\ machines[m].count \in Nat
    BY <2>2, <2>4, <2>6 DEF Events, SeqsAt
  <2> QED
    BY <1>6, <1>7, <2>1, <2>5, <2>7
<1> QED
  BY <1>4, <1>5, <1>6, <1>7 DEF AllTrue, Closed

(***************************************************************************)
(* The steps                                                               *)
(***************************************************************************)
\* There are always finitely many Machines.
LEMMA LiveFinite ==
  ASSUME TypeOK, [Next]_vars, IsFiniteSet(Live)
  PROVE  IsFiniteSet(Live')
<1>1. ASSUME NEW s \in Addresses, NEW id \in ObjectIds, NEW p \in PolicyIds, Create(s, id, p)
      PROVE  IsFiniteSet(Live')
  <2>1. Live' = Live \cup {id}
    BY <1>1, CreateFrame DEF CreateEffect
  <2> QED
    BY <2>1, FS_AddElement
<1>2. ASSUME NEW s \in Addresses, NEW m \in Live, NEW c \in ObjectIds, NEW p \in PolicyIds,
             fork(s, m, c, p)
      PROVE  IsFiniteSet(Live')
  <2>1. Live' = Live \cup {c}
    BY <1>2, ForkFrame DEF ForkEffect
  <2> QED
    BY <2>1, FS_AddElement
<1>3. ASSUME NEW m \in Live, NEW r \in MachineRecords, NEW e \in Events, ChainedStep(m, r, e)
      PROVE  IsFiniteSet(Live')
  <2>1. Live' = Live
    BY <1>3, ExtendFrame DEF ExtendEffect
  <2> QED
    BY <2>1
<1>4. ASSUME ChainUntouched PROVE IsFiniteSet(Live')
  BY <1>4 DEF ChainUntouched, Live
<1> QED
  BY <1>1, <1>2, <1>3, <1>4, StepKinds

\* A Machine's origin stays told.
LEMMA OriginKept ==
  ASSUME TypeOK, [Next]_vars, NEW m \in Live, NEW events
  PROVE  HasOrigin(events, m)' <=> HasOrigin(events, m)
<1>1. m \in DOMAIN forks' <=> m \in DOMAIN forks
  BY ChainKeeps DEF Kept
<1> QED
  BY <1>1 DEF HasOrigin

\* A step of the chain while the indexer replays, or after it.
LEMMA ReadersChainStep ==
  ASSUME TypeOK, ReadersInv, [Next]_vars, UNCHANGED indexerVars
  PROVE  ReadersInv'
<1>1. sync' = sync /\ index' = index
  BY DEF indexerVars
<1>2. PICK s, x : s = sync /\ x = index
  OBVIOUS
<1>3. sync' = s /\ index' = x
  BY <1>1, <1>2
<1>4. IsFiniteSet(Live')
  BY LiveFinite DEF ReadersInv
<1>5. AllTrue(s.events) /\ AllTrue(x.events)
  BY <1>2 DEF ReadersInv, SyncFact, IndexFact
<1>6. PICK E, F : E = s.events /\ F = x.events
  OBVIOUS
<1>7. AllTrue(E)' /\ AllTrue(F)'
  BY <1>5, <1>6, EventsKept
<1>8. ASSUME NEW m \in Live, NEW n \in Nat, n <= machines[m].count
      PROVE  m \in Live' /\ n <= machines'[m].count /\ (m \in DOMAIN forks' <=> m \in DOMAIN forks)
  <2>1. Kept(m) /\ ChainGrows
    BY ChainKeeps, ChainOnlyGrows
  <2>2. m \in Live' /\ (m \in DOMAIN forks' <=> m \in DOMAIN forks)
    BY <2>1 DEF Kept
  <2>3. /\ machines[m].count \in Int /\ machines'[m].count \in Int
        /\ machines[m].count <= machines'[m].count
    BY <2>1 DEF ChainGrows
  <2> QED
    BY <1>8, <2>2, <2>3
<1>9. SyncFact'
  <2>1. ASSUME NEW m \in DOMAIN s.before
        PROVE  /\ m \in Live' /\ s.before[m] \in Nat /\ s.before[m] <= machines'[m].count
               /\ s.todo \in {TwoLeft, OneLeft} /\ m \notin DOMAIN forks' => HasOrigin(E, m)'
               /\ s.todo = OneLeft => HasOrigin(E, m)'
    <3>1. /\ m \in Live /\ s.before[m] \in Nat /\ s.before[m] <= machines[m].count
          /\ s.todo \in {TwoLeft, OneLeft} /\ m \notin DOMAIN forks => HasOrigin(E, m)
          /\ s.todo = OneLeft => HasOrigin(E, m)
      BY <1>2, <1>6 DEF ReadersInv, SyncFact
    <3>2. m \in Live' /\ s.before[m] <= machines'[m].count
          /\ (m \in DOMAIN forks' <=> m \in DOMAIN forks)
      BY <1>8, <3>1
    <3>3. HasOrigin(E, m)' <=> HasOrigin(E, m)
      BY <3>1, OriginKept
    <3> QED
      BY <3>1, <3>2, <3>3
  <2>2. /\ s = [todo |-> s.todo, events |-> s.events, before |-> s.before]
        /\ s.todo \in {<<>>, AllQueries, TwoLeft, OneLeft}
        /\ s.todo = <<>> => s = NotSyncing
        /\ IsFiniteSet(E) /\ \A e \in E : e.type # "checkpoint"
    BY <1>2, <1>6 DEF ReadersInv, SyncFact
  <2> QED
    BY <1>3, <1>6, <1>7, <2>1, <2>2 DEF SyncFact
<1>10. IndexFact'
  <2>1. ASSUME NEW m \in DOMAIN x.before
        PROVE  /\ m \in Live' /\ x.before[m] \in Nat /\ HasOrigin(F, m)'
               /\ \A q \in Nat : q < x.before[m] => HasCheckpoint(F, m, q)
    <3>1. /\ m \in Live /\ x.before[m] \in Nat /\ HasOrigin(F, m)
          /\ \A q \in Nat : q < x.before[m] => HasCheckpoint(F, m, q)
      BY <1>2, <1>6 DEF ReadersInv, IndexFact
    <3>2. m \in Live'
      BY <3>1, ChainKeeps DEF Kept
    <3>3. HasOrigin(F, m)' <=> HasOrigin(F, m)
      BY <3>1, OriginKept
    <3> QED
      BY <3>1, <3>2, <3>3
  <2>2. IsFiniteSet(F) /\ Closed(F) /\ ModelOf(x.model, F)
    BY <1>2, <1>6 DEF ReadersInv, IndexFact
  <2> QED
    BY <1>3, <1>6, <1>7, <2>1, <2>2 DEF IndexFact
<1> QED
  BY <1>4, <1>9, <1>10 DEF ReadersInv

\* What is said of a replay depends on the chain and on the replay only.
LEMMA SameFacts ==
  ASSUME UNCHANGED vars
  PROVE  /\ Live' = Live /\ \A E : AllTrue(E)' <=> AllTrue(E)
         /\ \A E, m : HasOrigin(E, m)' <=> HasOrigin(E, m)
         /\ machines' = machines /\ forks' = forks
<1>1. machines' = machines /\ log' = log /\ forks' = forks
  BY DEF vars
<1> QED
  BY <1>1 DEF Live, AllTrue, EventFact, HasOrigin

\* A finished replay that is left alone stays.
LEMMA IndexKept ==
  ASSUME IndexFact, UNCHANGED vars, index' = index
  PROVE  IndexFact'
<1>1. PICK x, F : x = index /\ F = x.events
  OBVIOUS
<1>2. index' = x
  BY <1>1
<1>3. Live' = Live /\ (AllTrue(F)' <=> AllTrue(F)) /\ \A m : HasOrigin(F, m)' <=> HasOrigin(F, m)
  BY SameFacts
<1>4. /\ IsFiniteSet(F) /\ AllTrue(F) /\ Closed(F) /\ ModelOf(x.model, F)
      /\ \A m \in DOMAIN x.before :
           /\ m \in Live /\ x.before[m] \in Nat /\ HasOrigin(F, m)
           /\ \A q \in Nat : q < x.before[m] => HasCheckpoint(F, m, q)
  BY <1>1 DEF IndexFact
<1> QED
  BY <1>1, <1>2, <1>3, <1>4 DEF IndexFact

\* No replay is in progress.
LEMMA NotSyncingFact ==
  ASSUME sync' = NotSyncing
  PROVE  SyncFact'
<1>1. PICK s : s = NotSyncing
  OBVIOUS
<1>2. /\ s = [todo |-> s.todo, events |-> s.events, before |-> s.before]
      /\ s.todo = <<>> /\ s.events = {} /\ DOMAIN s.before = {}
  BY <1>1 DEF NotSyncing
<1>3. IsFiniteSet({}) /\ AllTrue({})'
  BY FS_EmptySet DEF AllTrue
<1>4. sync' = s
  BY <1>1
<1> QED
  BY <1>1, <1>2, <1>3, <1>4 DEF SyncFact

\* A replay begins.
LEMMA BeginSyncStep ==
  ASSUME ChainFact, ReadersInv, BeginSync
  PROVE  ReadersInv'
<1>1. UNCHANGED vars /\ index' = index
  BY DEF BeginSync
<1>2. Live' = Live /\ machines' = machines /\ forks' = forks
  BY <1>1, SameFacts
<1>3. PICK s : s = [todo |-> AllQueries, events |-> {},
                    before |-> [m \in Live |-> machines[m].count]]
  OBVIOUS
<1>4. sync' = s
  BY <1>3 DEF BeginSync, AllQueries
<1>5. /\ s = [todo |-> s.todo, events |-> s.events, before |-> s.before]
      /\ s.todo = AllQueries /\ s.events = {} /\ DOMAIN s.before = Live
      /\ \A m \in Live : s.before[m] = machines[m].count
  BY <1>3
<1>6. AllQueries # <<>> /\ AllQueries # TwoLeft /\ AllQueries # OneLeft
  BY DEF AllQueries, TwoLeft, OneLeft
<1>7. \A m \in Live : machines[m].count \in Nat
  BY DEF ChainFact, TypeOK, MachineRecords
<1>8. IsFiniteSet({}) /\ AllTrue({})'
  BY FS_EmptySet DEF AllTrue
<1>9. \A m \in Live : s.before[m] \in Nat /\ s.before[m] <= machines[m].count
  BY <1>5, <1>7
<1>10. SyncFact'
  BY <1>2, <1>4, <1>5, <1>6, <1>8, <1>9 DEF SyncFact
<1> QED
  BY <1>1, <1>2, <1>10, IndexKept DEF ReadersInv

\* A query throws.
LEMMA SyncFailsStep ==
  ASSUME ReadersInv, SyncFails
  PROVE  ReadersInv'
<1>1. UNCHANGED vars /\ index' = index /\ sync' = NotSyncing
  BY DEF SyncFails
<1>2. Live' = Live
  BY <1>1, SameFacts
<1> QED
  BY <1>1, <1>2, IndexKept, NotSyncingFact DEF ReadersInv

\* A query of the replay that is not the last one.
LEMMA FetchMore ==
  ASSUME ReadersInv, UNCHANGED vars, index' = index, NEW E, NEW found,
         sync' = [todo |-> sync'.todo, events |-> E \cup found, before |-> sync.before],
         E = sync.events, sync'.todo \in {TwoLeft, OneLeft},
         IsFiniteSet(found), AllTrue(found), \A e \in found : e.type # "checkpoint",
         \A m \in DOMAIN sync.before : m \notin DOMAIN forks \/ sync'.todo = OneLeft =>
           HasOrigin(E \cup found, m)
  PROVE  ReadersInv'
<1>1. PICK all, b, s : all = E \cup found /\ b = sync.before /\ s = sync'
  OBVIOUS
<1>2. IsFiniteSet(E) /\ AllTrue(E) /\ \A e \in E : e.type # "checkpoint"
  BY DEF ReadersInv, SyncFact
<1>3. IsFiniteSet(all) /\ AllTrue(all) /\ \A e \in all : e.type # "checkpoint"
  <2>1. IsFiniteSet(E \cup found)
    BY <1>2, FS_Union
  <2> QED
    BY <1>1, <1>2, <2>1 DEF AllTrue
<1>4. Live' = Live /\ machines' = machines /\ forks' = forks /\ AllTrue(all)'
  BY <1>3, SameFacts
<1>5. \A m : HasOrigin(all, m)' <=> HasOrigin(all, m)
  BY SameFacts
<1>6. s.todo \in {TwoLeft, OneLeft} /\ s = [todo |-> s.todo, events |-> all, before |-> b]
  BY <1>1
<1>7. s.events = all /\ s.before = b
  BY <1>6
<1>8. TwoLeft # <<>> /\ OneLeft # <<>>
  BY DEF TwoLeft, OneLeft
<1>9. ASSUME NEW m \in DOMAIN b
      PROVE  /\ m \in Live' /\ b[m] \in Nat /\ b[m] <= machines'[m].count
             /\ m \notin DOMAIN forks' \/ s.todo = OneLeft => HasOrigin(all, m)'
  <2>1. m \in Live /\ b[m] \in Nat /\ b[m] <= machines[m].count
    BY <1>1 DEF ReadersInv, SyncFact
  <2>2. m \notin DOMAIN forks \/ s.todo = OneLeft => HasOrigin(all, m)
    BY <1>1
  <2> QED
    BY <1>4, <1>5, <2>1, <2>2
<1>10. sync' = s
  BY <1>1
<1>11. SyncFact'
  BY <1>3, <1>4, <1>6, <1>7, <1>8, <1>9, <1>10 DEF SyncFact
<1> QED
  BY <1>4, <1>11, IndexKept DEF ReadersInv

\* The last query, of the checkpoints, and the read model built of it all.
LEMMA FetchLast ==
  ASSUME ChainFact, LogBounded, ReadersInv, UNCHANGED vars, sync.todo = OneLeft, NEW E,
         E = sync.events \cup queryAll("checkpoint"), sync' = NotSyncing,
         index' = [model |-> buildModel(SetToSeq(E)), events |-> E, before |-> sync.before]
  PROVE  ReadersInv'
<1>1. PICK old, found, b : old = sync.events /\ found = queryAll("checkpoint") /\ b = sync.before
  OBVIOUS
<1>2. /\ IsFiniteSet(old) /\ AllTrue(old) /\ \A e \in old : e.type # "checkpoint"
      /\ \A m \in DOMAIN b : m \in Live /\ b[m] \in Nat /\ b[m] <= machines[m].count
                             /\ HasOrigin(old, m)
  BY <1>1 DEF ReadersInv, SyncFact
<1>3. /\ IsFiniteSet(found) /\ AllTrue(found) /\ Closed(found)
      /\ \A e \in found : e.type = "checkpoint"
      /\ \A m \in Live : \A q \in Nat : q < machines[m].count => HasCheckpoint(found, m, q)
  BY <1>1, QueryCheckpoints DEF ChainFact, ReadersInv
<1>4. E = old \cup found
  BY <1>1
<1>5. IsFiniteSet(E)
  BY <1>2, <1>3, <1>4, FS_Union
<1>6. AllTrue(E)
  BY <1>2, <1>3, <1>4 DEF AllTrue
<1>7. \A m, q : HasCheckpoint(found, m, q) => HasCheckpoint(E, m, q)
  BY <1>4 DEF HasCheckpoint
<1>8. Closed(E)
  BY <1>2, <1>3, <1>4, <1>7 DEF Closed
<1>9. Consistent(E)
  BY <1>6, TrueConsistent DEF ChainFact
<1>10. PICK order : order = SetToSeq(E)
  OBVIOUS
<1>11. order \in [1..Cardinality(E) -> E] /\ IsInjective(order)
  BY <1>5, <1>10, SetToSeqOrders
<1>12. PICK model : model = buildModel(order) /\ ModelOf(model, E)
  BY <1>5, <1>9, <1>11, OrderModel
<1>13. ASSUME NEW m \in DOMAIN b
       PROVE  /\ m \in Live /\ b[m] \in Nat /\ HasOrigin(E, m)
              /\ \A q \in Nat : q < b[m] => HasCheckpoint(E, m, q)
  <2>1. m \in Live /\ b[m] \in Nat /\ b[m] <= machines[m].count /\ HasOrigin(old, m)
    BY <1>2
  <2>2. HasOrigin(E, m)
    BY <1>4, <2>1 DEF HasOrigin
  <2>3. machines[m].count \in Nat
    BY <2>1 DEF ChainFact, TypeOK, MachineRecords
  <2>4. ASSUME NEW q \in Nat, q < b[m] PROVE HasCheckpoint(E, m, q)
    <3>1. q < machines[m].count
      BY <2>1, <2>3, <2>4
    <3> QED
      BY <1>3, <1>7, <2>1, <3>1
  <2> QED
    BY <2>1, <2>2, <2>4
<1>14. /\ Live' = Live /\ AllTrue(E)'
       /\ \A m : HasOrigin(E, m)' <=> HasOrigin(E, m)
  BY <1>6, SameFacts
<1>15. PICK x : x = [model |-> model, events |-> E, before |-> b]
  OBVIOUS
<1>16. index' = x
  BY <1>1, <1>10, <1>12, <1>15
<1>17. x.model = model /\ x.events = E /\ x.before = b
  BY <1>15
<1>18. IndexFact'
  BY <1>5, <1>8, <1>12, <1>13, <1>14, <1>16, <1>17 DEF IndexFact
<1>19. SyncFact'
  BY NotSyncingFact
<1> QED
  BY <1>14, <1>18, <1>19 DEF ReadersInv

\* One query of the replay.
LEMMA FetchEventsStep ==
  ASSUME ChainFact, LogBounded, ReadersInv, FetchEvents
  PROVE  ReadersInv'
<1>1. UNCHANGED vars /\ sync.todo # <<>>
  BY DEF FetchEvents
<1>2. PICK todo, old, b : todo = sync.todo /\ old = sync.events /\ b = sync.before
  OBVIOUS
<1>3. sync = [todo |-> todo, events |-> old, before |-> b]
      /\ todo \in {<<>>, AllQueries, TwoLeft, OneLeft}
  BY <1>2 DEF ReadersInv, SyncFact
<1>4. TypeOK /\ IsFiniteSet(Live)
  BY DEF ChainFact, ReadersInv
<1>5. CASE todo = AllQueries
  <2>1. Head(todo) = "created" /\ Tail(todo) = TwoLeft /\ Len(todo) > 1
    BY <1>5 DEF AllQueries, TwoLeft
  <2>2. PICK found : found = queryAll("created")
    OBVIOUS
  <2>3. index' = index /\ sync' = [sync EXCEPT !.todo = TwoLeft, !.events = old \cup found]
    BY <1>2, <2>1, <2>2 DEF FetchEvents
  <2>4. sync' = [todo |-> TwoLeft, events |-> old \cup found, before |-> b]
    BY <1>3, <2>3
  <2>5. /\ IsFiniteSet(found) /\ AllTrue(found) /\ \A e \in found : e.type = "created"
        /\ \A m \in Live \ DOMAIN forks : \E e \in found : Of(e, "created", m)
    BY <1>4, <2>2, QueryCreated
  <2>6. TwoLeft # OneLeft /\ sync'.todo = TwoLeft
    BY <2>4 DEF TwoLeft, OneLeft
  <2>7. \A m \in DOMAIN b : m \in Live
    BY <1>2 DEF ReadersInv, SyncFact
  <2>8. \A m \in DOMAIN b : m \notin DOMAIN forks => HasOrigin(old \cup found, m)
    BY <2>5, <2>7 DEF HasOrigin
  <2> QED
    BY <1>1, <1>2, <2>3, <2>4, <2>5, <2>6, <2>8, FetchMore
<1>6. CASE todo = TwoLeft
  <2>1. Head(todo) = "forked" /\ Tail(todo) = OneLeft /\ Len(todo) > 1
    BY <1>6 DEF OneLeft, TwoLeft
  <2>2. PICK found : found = queryAll("forked")
    OBVIOUS
  <2>3. index' = index /\ sync' = [sync EXCEPT !.todo = OneLeft, !.events = old \cup found]
    BY <1>2, <2>1, <2>2 DEF FetchEvents
  <2>4. sync' = [todo |-> OneLeft, events |-> old \cup found, before |-> b]
    BY <1>3, <2>3
  <2>5. /\ IsFiniteSet(found) /\ AllTrue(found) /\ \A e \in found : e.type = "forked"
        /\ \A m \in DOMAIN forks : \E e \in found : Of(e, "forked", m)
    BY <1>4, <2>2, QueryForked
  <2>6. sync'.todo = OneLeft
    BY <2>4
  <2>7. \A m \in DOMAIN b : m \notin DOMAIN forks => HasOrigin(old, m)
    BY <1>2, <1>6 DEF ReadersInv, SyncFact
  <2>8. \A m \in DOMAIN b : HasOrigin(old \cup found, m)
    BY <2>5, <2>7 DEF HasOrigin
  <2> QED
    BY <1>1, <1>2, <2>3, <2>4, <2>5, <2>6, <2>8, FetchMore
<1>7. CASE todo = OneLeft
  <2>1. Head(todo) = "checkpoint" /\ ~(Len(todo) > 1)
    BY <1>7 DEF OneLeft
  <2>2. PICK E : E = sync.events \cup queryAll("checkpoint")
    OBVIOUS
  <2>3. /\ sync' = NotSyncing
        /\ index' = [model |-> buildModel(SetToSeq(E)), events |-> E, before |-> sync.before]
    BY <1>2, <2>1, <2>2 DEF FetchEvents
  <2> QED
    BY <1>1, <1>2, <1>7, <2>2, <2>3, FetchLast
<1> QED
  BY <1>1, <1>2, <1>3, <1>5, <1>6, <1>7

(***************************************************************************)
(* The theorems                                                            *)
(***************************************************************************)
\* Every step is one of the chain and the verifier, or one of the indexer,
\* which changes nothing of them.
LEMMA ReadersStepKinds ==
  ASSUME [ReadersNext]_readersVars
  PROVE  \/ [VerifierNext]_verifierVars /\ UNCHANGED indexerVars
         \/ IndexerStep /\ UNCHANGED verifierVars
<1>1. CASE VerifierNext /\ UNCHANGED indexerVars
  BY <1>1
<1>2. CASE IndexerStep /\ UNCHANGED <<job, evidence>>
  BY <1>2 DEF IndexerStep, BeginSync, FetchEvents, SyncFails, verifierVars
<1>3. CASE UNCHANGED readersVars
  BY <1>3 DEF readersVars
<1> QED
  BY <1>1, <1>2, <1>3 DEF ReadersNext

\* The indexer only reads: with its steps left out, a behaviour of the
\* readers is one of the chain and the verifier.
THEOREM ReadersRefines == ReadersSpec => VerifierSpec
<1>1. ReadersInit => VerifierInit
  BY DEF ReadersInit
<1>2. [ReadersNext]_readersVars => [VerifierNext]_verifierVars
  BY ReadersStepKinds
<1> QED
  BY <1>1, <1>2, PTL DEF ReadersSpec, VerifierSpec

\* The invariant of the indexer is inductive over what holds of the chain.
THEOREM ReadersTrue == ReadersSpec => [](ChainFact /\ ReadersInv)
<1>1. ReadersInit => ReadersInv
  <2> SUFFICES ASSUME ReadersInit PROVE ReadersInv
    OBVIOUS
  <2>1. Live = {} /\ sync = NotSyncing /\ index = EmptyIndex
    BY DEF ReadersInit, VerifierInit, IndexerInit, Init, Live
  <2>2. IsFiniteSet({}) /\ AllTrue({}) /\ Closed({})
    BY FS_EmptySet DEF AllTrue, Closed
  <2>3. SyncFact
    <3>1. PICK s : s = NotSyncing
      OBVIOUS
    <3>2. /\ s = [todo |-> s.todo, events |-> s.events, before |-> s.before]
          /\ s.todo = <<>> /\ s.events = {} /\ DOMAIN s.before = {}
      BY <3>1 DEF NotSyncing
    <3> QED
      BY <2>1, <2>2, <3>1, <3>2 DEF SyncFact
  <2>4. IndexFact
    <3>1. PICK x : x = EmptyIndex
      OBVIOUS
    <3>2. x.model = [id \in {} |-> NewRecord] /\ x.events = {} /\ DOMAIN x.before = {}
      BY <3>1 DEF EmptyIndex
    <3>3. ModelOf(x.model, {})
      BY <3>2 DEF ModelOf
    <3> QED
      BY <2>1, <2>2, <3>1, <3>2, <3>3 DEF IndexFact
  <2> QED
    BY <2>1, <2>2, <2>3, <2>4 DEF ReadersInv
<1>2. ChainFact /\ VerifierInv /\ ReadersInv /\ [ReadersNext]_readersVars => ReadersInv'
  <2> SUFFICES ASSUME ChainFact, VerifierInv, ReadersInv, [ReadersNext]_readersVars
               PROVE  ReadersInv'
    OBVIOUS
  <2>1. TypeOK /\ LogBounded
    BY DEF ChainFact, VerifierInv
  <2>2. ASSUME [VerifierNext]_verifierVars, UNCHANGED indexerVars PROVE ReadersInv'
    BY <2>1, <2>2, VerifierStepIsMachineStep, ReadersChainStep
  <2>3. ASSUME IndexerStep PROVE ReadersInv'
    BY <2>1, <2>3, BeginSyncStep, FetchEventsStep, SyncFailsStep DEF IndexerStep
  <2> QED
    BY <2>2, <2>3, ReadersStepKinds
<1> QED
  BY <1>1, <1>2, ReadersRefines, VerifierTrue, PTL DEF ReadersSpec

\* The read model shows nothing the chain does not have, lists snapshots
\* without a hole, and misses nothing that was there when its replay began,
\* although its three queries see three different moments of the chain.
THEOREM ReadModelIsTrue == ReadersSpec => []IndexIsTrue
<1>1. ChainFact /\ ReadersInv => IndexIsTrue
  BY IndexFactTrue DEF ReadersInv
<1> QED
  BY <1>1, ReadersTrue, PTL

\* buildModel gives the same read model for every order of the events, with
\* any of them seen twice.
THEOREM DeterministicRebuild == ReadersSpec => []RebuildIsDeterministic
<1>1. ChainFact /\ ReadersInv => RebuildIsDeterministic
  BY IndexFactDeterministic DEF ReadersInv
<1> QED
  BY <1>1, ReadersTrue, PTL
=============================================================================
