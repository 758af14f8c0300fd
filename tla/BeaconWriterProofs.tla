------------------------- MODULE BeaconWriterProofs -------------------------
(***************************************************************************)
(* What the beacon writer's queue, roots and backlog are worth, for every  *)
(* set of leaves and receipts and every number of exceptions, crashes and  *)
(* changes of the published set (worker/beacon-writer/index.ts).  At the   *)
(* end, what the feed it notarises is worth to go-ooo (lib/export.ts).     *)
(***************************************************************************)
EXTENDS BeaconWriter, VerifiedFeed, FiniteSetTheorems, SequenceTheorems, TLAPS

---------------------------------------------------------------------------
(* The operators: the order of a set, the first pending row, an enqueue.   *)

\* A finite set in some order: each of its elements once.
LEMMA OrderedSet ==
    ASSUME NEW S, IsFiniteSet(S)
    PROVE  /\ SetToSeq(S) \in Seq(S)
           /\ \A i, j \in 1..Len(SetToSeq(S)) : SetToSeq(S)[i] = SetToSeq(S)[j] => i = j
           /\ \A x \in S : \E i \in 1..Len(SetToSeq(S)) : SetToSeq(S)[i] = x
<1> DEFINE n == Cardinality(S)
           f == SetToSeq(S)
<1>1. n \in Nat /\ ExistsBijection(1..n, S)
  BY FS_CardinalityType
<1>2. PICK g \in Bijection(1..n, S) : TRUE
  BY <1>1 DEF ExistsBijection
<1>3. g \in [1..n -> S] /\ IsInjective(g)
  BY <1>2 DEF Bijection, Injection
<1>4. f \in [1..n -> S] /\ IsInjective(f)
  BY <1>3 DEF SetToSeq
<1>5. f \in Injection(1..n, S)
  BY <1>4 DEF Injection
<1>6. Cardinality(1..n) = n
  BY <1>1, FS_Interval
<1>7. f \in Surjection(1..n, S)
  <2> HIDE DEF f, n
  <2>1. Cardinality(1..n) = Cardinality(S)
    BY <1>6 DEF n
  <2> QED BY <1>5, <2>1, FS_Injection
<1>8. f \in Seq(S) /\ Len(f) = n
  <2> HIDE DEF f, n
  <2> QED BY <1>1, <1>4
<1>9. \A i, j \in 1..n : f[i] = f[j] => i = j
  <2> HIDE DEF f, n
  <2> QED BY <1>4 DEF IsInjective
<1>10. \A x \in S : \E i \in 1..n : f[i] = x
  <2> HIDE DEF f, n
  <2> QED BY <1>7 DEF Surjection
<1> HIDE DEF n, f
<1> QED BY <1>8, <1>9, <1>10 DEF f

\* A finite set of numbers has a least one.
LEMMA SomeLeast ==
    ASSUME NEW S \in SUBSET Nat, IsFiniteSet(S), S # {}
    PROVE  \E i \in S : \A j \in S : i <= j
<1> DEFINE Below(i) == {k \in S : k < i}
           T == {Below(i) : i \in S}
           R == StrictSubsetOrdering(S)
           Parts == SUBSET S
<1>1. IsWellFoundedOn(R, Parts)
  BY FS_FiniteSubsetsOfFinite, FS_StrictSubsetOrderingWellFounded
<1>2. T \subseteq Parts /\ T # {}
  <2>1. \A i \in S : Below(i) \in Parts
    OBVIOUS
  <2>2. PICK i \in S : TRUE
    OBVIOUS
  <2> HIDE DEF Below, Parts
  <2>3. Below(i) \in T
    OBVIOUS
  <2> QED BY <2>1, <2>3
<1>3. \E x \in T : \A y \in T : ~ (<<y, x>> \in R)
  <2> HIDE DEF R, T, Parts
  <2> QED BY <1>1, <1>2, WFMin, Zenon
<1>4. PICK i \in S : \A t \in T : ~ (<<t, Below(i)>> \in R)
  <2> HIDE DEF R
  <2> QED BY <1>3
<1>5. ASSUME NEW j \in S, ~(i <= j) PROVE FALSE
  <2>1. Below(j) \subseteq Below(i) /\ j \in Below(i) /\ j \notin Below(j)
    <3> HIDE DEF T, R, Parts
    <3>1. i \in Nat /\ j \in Nat /\ j < i /\ \A k \in S : k \in Nat
      BY <1>5
    <3>2. \A k \in S : k < j => k < i
      BY <3>1
    <3>3. ~(j < j)
      BY <3>1
    <3> QED BY <3>1, <3>2, <3>3, Zenon
  <2>2. Below(j) \in SUBSET S /\ Below(i) \in SUBSET S /\ Below(j) # Below(i)
    BY <2>1
  <2>3. Below(j) \in T
    OBVIOUS
  <2> HIDE DEF Below, T
  <2>4. <<Below(j), Below(i)>> \in R
    BY <2>1, <2>2 DEF StrictSubsetOrdering
  <2> QED BY <2>3, <2>4, <1>4
<1> QED BY <1>5

\* A pending row has a first one before it (lib/beaconQueue.ts, nextPending).
LEMMA FirstPending ==
    ASSUME queue \in Seq(Row), Pending # {}
    PROVE  /\ NextPending \in DOMAIN queue /\ ~queue[NextPending].anchored
           /\ \A k \in 1..(NextPending - 1) : queue[k].anchored
<1>1. /\ Pending \in SUBSET Nat /\ DOMAIN queue = 1..Len(queue) /\ Len(queue) \in Nat
      /\ Pending \in SUBSET (1..Len(queue))
  BY DEF Pending
<1>2. IsFiniteSet(Pending)
  <2>1. IsFiniteSet(1..Len(queue))
    BY <1>1, FS_Interval
  <2> QED BY <1>1, <2>1, FS_Subset
<1>4. \E i \in Pending : \A j \in Pending : i <= j
  BY <1>1, <1>2, SomeLeast
<1>5. NextPending \in Pending /\ \A j \in Pending : NextPending <= j
  BY <1>4 DEF NextPending
<1>6. NextPending \in DOMAIN queue /\ ~queue[NextPending].anchored
  BY <1>5 DEF Pending
<1>7. ASSUME NEW k \in 1..(NextPending - 1) PROVE queue[k].anchored
  <2>1. k \in DOMAIN queue /\ ~(NextPending <= k)
    BY <1>1, <1>6
  <2> QED BY <2>1, <1>5 DEF Pending
<1> QED BY <1>6, <1>7

\* What an enqueue adds: every hash asked for is there, each once, none that
\* was there already, at the end and not yet anchored.
Enqueued(q, stream, hashes) ==
    /\ q \in Seq(Row)
    /\ Len(queue) <= Len(q)
    /\ \A i \in 1..Len(queue) : q[i] = queue[i]
    /\ \A i \in (Len(queue) + 1)..Len(q) :
          /\ q[i].stream = stream /\ q[i].hash \in hashes /\ ~q[i].anchored
          /\ ~Has(queue, stream, q[i].hash)
    /\ \A i, j \in (Len(queue) + 1)..Len(q) : q[i].hash = q[j].hash => i = j
    /\ \A h \in hashes : Has(q, stream, h)

LEMMA EnqueueAppends ==
    ASSUME queue \in Seq(Row), NEW stream \in Stream, NEW hashes \in SUBSET Hash,
           IsFiniteSet(hashes)
    PROVE  Enqueued(Enqueue(stream, hashes), stream, hashes)
<1> DEFINE new == {h \in hashes : ~Has(queue, stream, h)}
           Rows == [stream : {stream}, hash : new, anchored : {FALSE}]
           s == SetToSeq(Rows)
           q == Enqueue(stream, hashes)
<1>1. IsFiniteSet(Rows)
  <2> DEFINE row == [h \in new |-> [stream |-> stream, hash |-> h, anchored |-> FALSE]]
  <2>1. IsFiniteSet(new)
    BY FS_Subset
  <2>2. row \in Surjection(new, Rows)
    <3>1. row \in [new -> Rows]
      OBVIOUS
    <3>2. ASSUME NEW t \in Rows PROVE \E h \in new : row[h] = t
      <4>1. t.hash \in new /\ row[t.hash] = t
        OBVIOUS
      <4> QED BY <4>1
    <3> HIDE DEF row, new, Rows
    <3> QED BY <3>1, <3>2 DEF Surjection
  <2> HIDE DEF row, new, Rows
  <2> QED BY <2>1, <2>2, FS_Surjection
<1>2. /\ s \in Seq(Rows)
      /\ \A i, j \in 1..Len(s) : s[i] = s[j] => i = j
      /\ \A x \in Rows : \E i \in 1..Len(s) : s[i] = x
  <2> HIDE DEF Rows
  <2> QED BY <1>1, OrderedSet
<1>3. \A r \in Rows : r \in Row /\ r.stream = stream /\ r.hash \in new /\ r.anchored = FALSE
  BY DEF Row
<1>4. s \in Seq(Row) /\ Len(s) \in Nat /\ \A i \in 1..Len(s) : s[i] \in Rows
  <2>1. Rows \subseteq Row
    BY <1>3
  <2> HIDE DEF Rows, s
  <2> QED BY <1>2, <2>1
<1>5. q = queue \o s
  BY DEF Enqueue
<1>6. /\ q \in Seq(Row) /\ Len(queue) \in Nat /\ Len(q) = Len(queue) + Len(s)
      /\ \A i \in 1..Len(q) : q[i] = IF i <= Len(queue) THEN queue[i] ELSE s[i - Len(queue)]
  <2> HIDE DEF q, s
  <2> QED BY <1>4, <1>5, ConcatProperties
<1> HIDE DEF s, q
<1>7. Len(queue) <= Len(q) /\ \A i \in 1..Len(queue) : q[i] = queue[i]
  BY <1>4, <1>6
<1>8. ASSUME NEW i \in (Len(queue) + 1)..Len(q)
      PROVE  i - Len(queue) \in 1..Len(s) /\ q[i] = s[i - Len(queue)] /\ q[i] \in Rows
  <2>1. i - Len(queue) \in 1..Len(s) /\ i \in 1..Len(q) /\ ~(i <= Len(queue))
    BY <1>4, <1>6
  <2> HIDE DEF Rows
  <2> QED BY <2>1, <1>4, <1>6
<1>9. ASSUME NEW i \in (Len(queue) + 1)..Len(q)
      PROVE  /\ q[i].stream = stream /\ q[i].hash \in hashes /\ ~q[i].anchored
             /\ ~Has(queue, stream, q[i].hash)
  BY <1>3, <1>8
<1>10. ASSUME NEW i \in (Len(queue) + 1)..Len(q), NEW j \in (Len(queue) + 1)..Len(q),
              q[i].hash = q[j].hash
       PROVE  i = j
  <2>1. q[i] \in Rows /\ q[j] \in Rows
    BY <1>8
  <2>2. ASSUME NEW r \in Rows
        PROVE  r = [stream |-> stream, hash |-> r.hash, anchored |-> FALSE]
    OBVIOUS
  <2>3. q[i] = q[j]
    <3> HIDE DEF Rows
    <3> QED BY <1>10, <2>1, <2>2
  <2>4. s[i - Len(queue)] = s[j - Len(queue)]
    BY <2>3, <1>8
  <2>5. i - Len(queue) = j - Len(queue)
    BY <2>4, <1>2, <1>8
  <2> QED BY <2>5, <1>6
<1>11. ASSUME NEW h \in hashes PROVE Has(q, stream, h)
  <2>1. CASE Has(queue, stream, h)
    <3>1. PICK i \in 1..Len(queue) : queue[i].stream = stream /\ queue[i].hash = h
      BY <2>1 DEF Has
    <3>2. i \in DOMAIN q /\ q[i] = queue[i]
      BY <1>6, <1>7
    <3> QED BY <3>1, <3>2 DEF Has
  <2>2. CASE h \in new
    <3>1. [stream |-> stream, hash |-> h, anchored |-> FALSE] \in Rows
      BY <2>2
    <3>2. PICK i \in 1..Len(s) : s[i] = [stream |-> stream, hash |-> h, anchored |-> FALSE]
      <4> HIDE DEF Rows
      <4> QED BY <3>1, <1>2
    <3>3. i + Len(queue) \in DOMAIN q /\ q[i + Len(queue)] = s[i]
      BY <1>4, <1>6
    <3> QED BY <3>2, <3>3 DEF Has
  <2> QED BY <2>1, <2>2
<1> QED BY <1>6, <1>7, <1>9, <1>10, <1>11 DEF Enqueued, q
---------------------------------------------------------------------------
(* The hashes. *)

\* The leaves of a snapshot are hashes and finitely many, and its root is one.
LEMMA LeavesAreHashes ==
    ASSUME NEW t \in Tree, NEW S \in SUBSET LeavesOf[t]
    PROVE  /\ LeafHashes(S) \subseteq Hash /\ IsFiniteSet(LeafHashes(S))
           /\ RootOf(t, S) \subseteq Hash /\ (S # {} => Root(S) \in Hash)
<1>1. IsFiniteSet(S) /\ (S \subseteq PairLeaf \/ S \subseteq TokenLeaf)
  <2>1. LeavesOf[t] \in {PairLeaf, TokenLeaf}
    BY DEF LeavesOf, Tree
  <2> QED BY <2>1, FS_Subset, LeafAssumption
<1>2. LeafHashes(S) \subseteq Hash
  BY <1>1 DEF LeafHashes, LeafHash, Hash
<1>3. IsFiniteSet(LeafHashes(S))
  <2> DEFINE f == [l \in S |-> {l}]
             T == LeafHashes(S)
  <2>1. f \in Surjection(S, T)
    BY DEF Surjection, LeafHashes, LeafHash
  <2> HIDE DEF f, T
  <2>2. IsFiniteSet(T)
    BY <1>1, <2>1, FS_Surjection
  <2> QED BY <2>2 DEF T
<1>4. S # {} => S \in Hash
  BY <1>1 DEF Hash
<1> QED BY <1>2, <1>3, <1>4 DEF RootOf, Root

\* So are the hashes the backlog is seeded with.
LEMMA SeedableAreHashes ==
    ASSUME TypeOK, IsFiniteSet(anchors)
    PROVE  Seedable \subseteq Hash /\ IsFiniteSet(Seedable)
<1> DEFINE I == {j \in DOMAIN queue : queue[j].anchored /\ queue[j].stream # "reanchor"}
           Q == {queue[i].hash : i \in I}
           A == {a.hash : a \in anchors}
<1>1. DOMAIN queue = 1..Len(queue) /\ Len(queue) \in Nat
  BY DEF TypeOK
<1>2. IsFiniteSet(I)
  <2>1. IsFiniteSet(1..Len(queue))
    BY <1>1, FS_Interval
  <2>2. I \in SUBSET (1..Len(queue))
    BY <1>1
  <2> HIDE DEF I
  <2> QED BY <2>1, <2>2, FS_Subset
<1>3. Q \subseteq Hash /\ A \subseteq Hash
  <2>1. \A j \in DOMAIN queue : queue[j] \in Row
    BY <1>1 DEF TypeOK
  <2>2. ASSUME NEW i \in I PROVE queue[i].hash \in Hash
    BY <2>1 DEF Row
  <2>3. ASSUME NEW a \in anchors PROVE a.hash \in Hash
    BY DEF TypeOK
  <2> HIDE DEF I
  <2> QED BY <2>2, <2>3
<1>4. IsFiniteSet(Q)
  <2> DEFINE f == [i \in I |-> queue[i].hash]
  <2> HIDE DEF I
  <2>1. f \in Surjection(I, Q)
    BY DEF Surjection
  <2> HIDE DEF f, Q
  <2> QED BY <1>2, <2>1, FS_Surjection
<1>5. IsFiniteSet(A)
  <2> DEFINE f == [a \in anchors |-> a.hash]
  <2>1. f \in Surjection(anchors, A)
    BY DEF Surjection
  <2> HIDE DEF f, A
  <2> QED BY <2>1, FS_Surjection
<1>6. Seedable = Q \cup A
  BY DEF Seedable
<1> HIDE DEF Q, A
<1> QED BY <1>3, <1>4, <1>5, <1>6, FS_Union

---------------------------------------------------------------------------
(* The types, with what the prover needs beside them: a transaction of the *)
(* drip carries its row's hash, and the rows before it are anchored.       *)

InFlight ==
    pc \in {"sent", "refused", "recorded"} =>
        /\ sent \in Recorded
        /\ sent.stream \in Stream =>
            /\ item \in DOMAIN queue
            /\ queue[item].stream = sent.stream /\ queue[item].hash = sent.hash
            /\ ~queue[item].anchored
            /\ \A k \in 1..(item - 1) : queue[k].anchored

TypeInv == TypeOK /\ IsFiniteSet(anchors) /\ InFlight

\* The two ways the writer and the watcher put something in the queue.
LEMMA WhatIsEnqueued ==
    ASSUME TypeInv
    PROVE  /\ SeedReanchorBacklog => Enqueued(queue', "reanchor", Seedable)
           /\ \A t \in Tree : EnqueueLeaves(t) =>
                 Enqueued(queue', LeafStream[t], LeafHashes(snap[t]))
           /\ \A r \in Receipt : ReceiptArrives(r) => Enqueued(queue', "fulfilment", {{r}})
<1>1. queue \in Seq(Row)
  BY DEF TypeInv, TypeOK
<1>2. ASSUME SeedReanchorBacklog PROVE Enqueued(queue', "reanchor", Seedable)
  <2>1. Seedable \in SUBSET Hash /\ IsFiniteSet(Seedable) /\ "reanchor" \in Stream
    BY SeedableAreHashes DEF TypeInv, Stream
  <2>2. Enqueued(Enqueue("reanchor", Seedable), "reanchor", Seedable)
    BY <1>1, <2>1, EnqueueAppends
  <2> QED BY <1>2, <2>2 DEF SeedReanchorBacklog
<1>3. ASSUME NEW t \in Tree, EnqueueLeaves(t)
      PROVE  Enqueued(queue', LeafStream[t], LeafHashes(snap[t]))
  <2>1. snap[t] \in SUBSET LeavesOf[t] /\ LeafStream[t] \in Stream
    BY DEF TypeInv, TypeOK, LeafStream, Stream, Tree
  <2>2. LeafHashes(snap[t]) \in SUBSET Hash /\ IsFiniteSet(LeafHashes(snap[t]))
    BY <2>1, LeavesAreHashes
  <2>3. Enqueued(Enqueue(LeafStream[t], LeafHashes(snap[t])), LeafStream[t], LeafHashes(snap[t]))
    BY <1>1, <2>1, <2>2, EnqueueAppends
  <2> QED BY <1>3, <2>3 DEF EnqueueLeaves
<1>4. ASSUME NEW r \in Receipt, ReceiptArrives(r)
      PROVE  Enqueued(queue', "fulfilment", {{r}})
  <2>1. {{r}} \in SUBSET Hash /\ IsFiniteSet({{r}}) /\ "fulfilment" \in Stream
    BY FS_Singleton DEF Hash, Stream
  <2>2. Enqueued(Enqueue("fulfilment", {{r}}), "fulfilment", {{r}})
    BY <1>1, <2>1, EnqueueAppends
  <2> QED BY <1>4, <2>2 DEF ReceiptArrives
<1> QED BY <1>2, <1>3, <1>4

\* Marking a row changes that row's mark and nothing else.
LEMMA WhatIsMarked ==
    ASSUME TypeInv, MarkAnchored
    PROVE  /\ item \in DOMAIN queue /\ queue' \in Seq(Row) /\ Len(queue') = Len(queue)
           /\ DOMAIN queue' = DOMAIN queue /\ queue'[item].anchored
           /\ \A i \in DOMAIN queue :
                /\ queue'[i].stream = queue[i].stream /\ queue'[i].hash = queue[i].hash
                /\ i # item => queue'[i] = queue[i]
<1>1. sent \in Recorded /\ sent.stream \notin Tree /\ queue \in Seq(Row)
      /\ queue' = [queue EXCEPT ![item].anchored = TRUE]
  BY DEF TypeInv, TypeOK, InFlight, MarkAnchored
<1>2. sent.stream \in Stream
  BY <1>1 DEF Recorded
<1>3. item \in DOMAIN queue /\ DOMAIN queue = 1..Len(queue) /\ Len(queue) \in Nat
  BY <1>1, <1>2 DEF TypeInv, InFlight, MarkAnchored
<1>4. \A i \in DOMAIN queue : queue[i] \in Row
  BY <1>1
<1>5. [queue[item] EXCEPT !.anchored = TRUE] \in Row
  BY <1>3, <1>4 DEF Row
<1>6. queue' = [queue EXCEPT ![item] = [queue[item] EXCEPT !.anchored = TRUE]]
  BY <1>1
<1>7. /\ [queue[item] EXCEPT !.anchored = TRUE].stream = queue[item].stream
      /\ [queue[item] EXCEPT !.anchored = TRUE].hash = queue[item].hash
      /\ [queue[item] EXCEPT !.anchored = TRUE].anchored
  BY <1>3, <1>4 DEF Row
<1> DEFINE marked == [queue[item] EXCEPT !.anchored = TRUE]
<1> HIDE DEF marked
<1>8. queue' \in [1..Len(queue) -> Row]
  BY <1>3, <1>4, <1>5, <1>6 DEF marked
<1>9. DOMAIN queue' = 1..Len(queue) /\ queue' \in Seq(Row) /\ Len(queue') = Len(queue)
  BY <1>3, <1>8
<1>10. queue'[item] = marked /\ \A i \in DOMAIN queue : i # item => queue'[i] = queue[i]
  BY <1>3, <1>6 DEF marked
<1> QED BY <1>3, <1>7, <1>9, <1>10 DEF marked
LEMMA InitTyped == Init => TypeInv
<1> SUFFICES ASSUME Init PROVE TypeInv
  OBVIOUS
<1>1. queue \in Seq(Row) /\ anchors \subseteq [tree : Tree, hash : Hash] /\ IsFiniteSet(anchors)
  BY FS_EmptySet DEF Init
<1>2. \A t \in Tree : published[t] \subseteq LeavesOf[t]
  BY DEF Init
<1>3. vouched \subseteq Hash
  <2>1. \A t \in Tree : LeafHashes(published[t]) \cup RootOf(t, published[t]) \subseteq Hash
    BY <1>2, LeavesAreHashes
  <2>2. vouched = UNION {LeafHashes(published[t]) \cup RootOf(t, published[t]) : t \in Tree}
    BY DEF Init
  <2> QED BY <2>1, <2>2
<1>4. snap \in [Tree -> SUBSET (PairLeaf \cup TokenLeaf)] /\ \A t \in Tree : snap[t] \subseteq LeavesOf[t]
  BY DEF Init, NoSnap
<1>5. 0 \in 0..MaxChurn /\ 0 \in 0..MaxFaults
  BY BoundAssumption
<1>6. TypeOK
  BY <1>1, <1>2, <1>3, <1>4, <1>5 DEF Init, TypeOK, PC
<1> QED BY <1>1, <1>6 DEF TypeInv, InFlight, Init

\* Leaving the loop's body forgets its locals and keeps the types.
LEMMA ForgetTyped ==
    ASSUME Forget
    PROVE  /\ snap' \in [Tree -> SUBSET (PairLeaf \cup TokenLeaf)]
           /\ \A t \in Tree : snap'[t] \subseteq LeavesOf[t]
           /\ item' \in Nat /\ sent' \in Recorded \cup {NoTx}
BY DEF Forget, NoSnap

LEMMA TypeStep == TypeInv /\ [Next]_vars => TypeOK' /\ IsFiniteSet(anchors')
<1> SUFFICES ASSUME TypeInv, [Next]_vars PROVE TypeOK' /\ IsFiniteSet(anchors')
  OBVIOUS
<1> USE DEF TypeInv
<1>a. TypeOK /\ queue \in Seq(Row)
  BY DEF TypeOK
<1>1. CASE EnsureMetadata
  <2>1. faults' \in 0..MaxFaults
    <3>1. faults' = faults \/ (faults < MaxFaults /\ faults' = faults + 1)
      BY <1>1 DEF EnsureMetadata
    <3> QED BY <3>1, BoundAssumption DEF TypeOK
  <2>2. pc' \in PC /\ dbLive' \in BOOLEAN
    BY <1>1 DEF EnsureMetadata, ProbeAnswers, Goto, TypeOK, PC
  <2> QED BY <1>1, <2>1, <2>2 DEF EnsureMetadata, chainVars, TypeOK
<1>2. CASE Latch
  BY <1>2 DEF Latch, Goto, TypeOK, PC, dbVars, chainVars, boundVars
<1>3. CASE SeedReanchorBacklog
  <2>1. queue' \in Seq(Row)
    BY <1>3, WhatIsEnqueued DEF Enqueued
  <2> QED BY <1>3, <2>1 DEF SeedReanchorBacklog, Goto, TypeOK, PC, chainVars, boundVars
<1>4. CASE MarkReanchorSeeded
  BY <1>4 DEF MarkReanchorSeeded, Goto, TypeOK, PC, chainVars, boundVars
<1>5. CASE Gather
  BY <1>5 DEF Gather, Goto, TypeOK, PC, dbVars, chainVars, boundVars
<1>6. ASSUME NEW tree \in Tree, RecordTree(tree) PROVE TypeOK' /\ IsFiniteSet(anchors')
  <2>1. pc' \in PC /\ due' \in {"now", "later", "soon"}
    BY <1>6 DEF RecordTree, AfterRoot, AfterBeat, Goto, TypeOK, PC
  <2>2. /\ snap' \in [Tree -> SUBSET (PairLeaf \cup TokenLeaf)]
        /\ \A t \in Tree : snap'[t] \subseteq LeavesOf[t]
    BY <1>6 DEF RecordTree, AfterRoot, AfterBeat, NoSnap, TypeOK
  <2>3. sent' \in Recorded \cup {NoTx}
    <3>1. snap[tree] # {} => Root(snap[tree]) \in Hash
      BY LeavesAreHashes DEF TypeOK
    <3> QED BY <1>6, <3>1 DEF RecordTree, Recorded, TypeOK
  <2> QED BY <1>6, <2>1, <2>2, <2>3 DEF RecordTree, TypeOK, dbVars, chainVars, boundVars
<1>7. ASSUME NEW tree \in Tree, EnqueueLeaves(tree) PROVE TypeOK' /\ IsFiniteSet(anchors')
  <2>1. pc' \in PC /\ due' \in {"now", "later", "soon"}
    BY <1>7 DEF EnqueueLeaves, AfterBeat, Goto, TypeOK, PC
  <2>2. /\ snap' \in [Tree -> SUBSET (PairLeaf \cup TokenLeaf)]
        /\ \A t \in Tree : snap'[t] \subseteq LeavesOf[t]
    BY <1>7 DEF EnqueueLeaves, AfterBeat, NoSnap, TypeOK
  <2>3. queue' \in Seq(Row)
    BY <1>7, WhatIsEnqueued DEF Enqueued
  <2> QED BY <1>7, <2>1, <2>2, <2>3 DEF EnqueueLeaves, TypeOK, chainVars, boundVars
<1>8. CASE StoreAnchor
  <2>1. pc' \in PC /\ due' \in {"now", "later", "soon"}
    BY <1>8 DEF StoreAnchor, AfterRoot, AfterBeat, Goto, TypeOK, PC
  <2>2. /\ snap' \in [Tree -> SUBSET (PairLeaf \cup TokenLeaf)]
        /\ \A t \in Tree : snap'[t] \subseteq LeavesOf[t]
    BY <1>8 DEF StoreAnchor, AfterRoot, AfterBeat, NoSnap, TypeOK
  <2>3. sent.hash \in Hash
    BY <1>8 DEF StoreAnchor, InFlight, Recorded
  <2>4. anchors' \subseteq [tree : Tree, hash : Hash] /\ IsFiniteSet(anchors')
    <3> DEFINE a == [tree |-> sent.stream, hash |-> sent.hash]
    <3>1. a \in [tree : Tree, hash : Hash] /\ anchors' = anchors \cup {a}
      BY <1>8, <2>3 DEF StoreAnchor
    <3> HIDE DEF a
    <3>2. IsFiniteSet(anchors \cup {a})
      BY FS_AddElement
    <3> QED BY <3>1, <3>2 DEF TypeOK
  <2> QED BY <1>8, <2>1, <2>2, <2>4 DEF StoreAnchor, TypeOK, chainVars, boundVars
<1>9. CASE DripOne
  <2>1. CASE Pending = {}
    BY <1>9, <2>1 DEF DripOne, TypeOK, dbVars, chainVars, boundVars
  <2>2. CASE Pending # {}
    <3>1. item' \in DOMAIN queue /\ queue[item'] \in Row /\ item' \in Nat
      BY <1>9, <2>2, FirstPending, <1>a DEF DripOne
    <3>2. sent' \in Recorded
      BY <1>9, <2>2, <3>1 DEF DripOne, Recorded, Row, TypeOK
    <3> QED BY <1>9, <2>2, <3>1, <3>2 DEF DripOne, Goto, TypeOK, PC, dbVars, chainVars, boundVars
  <2> QED BY <2>1, <2>2
<1>10. CASE MarkAnchored
  <2>1. queue' \in Seq(Row)
    BY <1>10, WhatIsMarked
  <2> QED BY <1>10, <2>1, ForgetTyped DEF MarkAnchored, Return, Goto, TypeOK, PC, chainVars, boundVars
<1>11. CASE ThrowRefused
  BY <1>11, ForgetTyped DEF ThrowRefused, Return, Goto, TypeOK, PC, dbVars, chainVars, boundVars
<1>12. CASE Boot
  BY <1>12 DEF Boot, Goto, TypeOK, PC, dbVars, chainVars, boundVars
<1>13. CASE Throw \/ Crash
  <2>1. orphans' \subseteq Recorded
    BY <1>13 DEF Throw, Crash, GivenUp, TypeOK, InFlight
  <2>2. faults' \in 0..MaxFaults
    BY <1>13, BoundAssumption DEF Throw, Crash, TypeOK
  <2>3. Forget /\ pc' \in {"idle", "down"} /\ live' \in BOOLEAN /\ due' \in {"now", "later", "soon"}
    BY <1>13 DEF Throw, Crash, Return, Goto, TypeOK
  <2> QED BY <1>13, <2>1, <2>2, <2>3, ForgetTyped DEF Throw, Crash, TypeOK, PC, dbVars
<1>14. CASE Include
  <2>1. sent \in Recorded
    BY <1>14 DEF Include, InFlight
  <2>2. repeats' \in Nat
    BY <1>14 DEF Include, TypeOK
  <2> QED BY <1>14, <2>1, <2>2 DEF Include, Goto, TypeOK, PC, dbVars
<1>15. CASE IncludeOrphan
  <2>1. PICK tx \in orphans : ledger' = ledger \cup {tx} /\ repeats' \in {repeats, repeats + 1}
    BY <1>15 DEF IncludeOrphan
  <2>2. repeats' \in Nat /\ ledger' \subseteq Recorded
    BY <2>1 DEF TypeOK
  <2> QED BY <1>15, <2>2 DEF IncludeOrphan, Goto, TypeOK, PC, dbVars
<1>16. CASE DropOrphans
  BY <1>16 DEF DropOrphans, TypeOK, dbVars, writerVars, boundVars
<1>17. CASE Upgrade
  BY <1>17 DEF Upgrade, TypeOK, dbVars, writerVars, boundVars
<1>18. ASSUME NEW tree \in Tree, NEW leaf \in PairLeaf \cup TokenLeaf, Publish(tree, leaf)
       PROVE  TypeOK' /\ IsFiniteSet(anchors')
  <2>1. PICK now \in {published[tree] \cup {leaf}, published[tree] \ {leaf}} :
           /\ published' = [published EXCEPT ![tree] = now]
           /\ vouched' = vouched \cup LeafHashes(now) \cup RootOf(tree, now)
    BY <1>18 DEF Publish
  <2>2. now \in SUBSET LeavesOf[tree] /\ now \in SUBSET (PairLeaf \cup TokenLeaf)
    BY <1>18 DEF Publish, TypeOK
  <2>3. vouched' \subseteq Hash
    BY <2>1, <2>2, LeavesAreHashes DEF TypeOK
  <2>4. /\ published' \in [Tree -> SUBSET (PairLeaf \cup TokenLeaf)]
        /\ \A t \in Tree : published'[t] \subseteq LeavesOf[t]
    BY <2>1, <2>2 DEF TypeOK
  <2>5. churn' \in 0..MaxChurn
    BY <1>18, BoundAssumption DEF Publish, TypeOK
  <2> QED BY <1>18, <2>3, <2>4, <2>5 DEF Publish, TypeOK, chainVars, writerVars
<1>19. ASSUME NEW r \in Receipt, ReceiptArrives(r) PROVE TypeOK' /\ IsFiniteSet(anchors')
  <2>1. queue' \in Seq(Row)
    BY <1>19, WhatIsEnqueued DEF Enqueued
  <2>2. vouched' \subseteq Hash
    BY <1>19 DEF ReceiptArrives, TypeOK, Hash
  <2> QED BY <1>19, <2>1, <2>2 DEF ReceiptArrives, TypeOK, chainVars, writerVars
<1>20. CASE IntervalElapses
  BY <1>20 DEF IntervalElapses, TypeOK, dbVars, chainVars, boundVars
<1>21. CASE UNCHANGED vars
  BY <1>21 DEF vars, TypeOK, dbVars, chainVars, writerVars, boundVars
<1> QED
  BY <1>1, <1>2, <1>3, <1>4, <1>5, <1>6, <1>7, <1>8, <1>9, <1>10, <1>11, <1>12, <1>13,
     <1>14, <1>15, <1>16, <1>17, <1>18, <1>19, <1>20, <1>21
  DEF Next, Writer, Environment
\* Rows keep their place, their item and their mark when others are appended.
LEMMA FlightKept ==
    ASSUME TypeInv, UNCHANGED <<sent, item>>,
           pc' \in {"sent", "refused", "recorded"} => pc \in {"sent", "refused", "recorded"},
           \/ queue' = queue
           \/ \E stream \in Stream, hashes \in SUBSET Hash : Enqueued(queue', stream, hashes)
    PROVE  InFlight'
<1> SUFFICES ASSUME pc' \in {"sent", "refused", "recorded"} PROVE InFlight'
  BY DEF InFlight
<1>1. sent \in Recorded /\ InFlight /\ DOMAIN queue = 1..Len(queue) /\ Len(queue) \in Nat
  BY DEF TypeInv, TypeOK, InFlight
<1>2. \A i \in DOMAIN queue : i \in DOMAIN queue' /\ queue'[i] = queue[i]
  <2>1. CASE queue' = queue
    BY <2>1
  <2>2. ASSUME NEW stream, NEW hashes, Enqueued(queue', stream, hashes)
        PROVE  \A i \in DOMAIN queue : i \in DOMAIN queue' /\ queue'[i] = queue[i]
    <3>1. DOMAIN queue' = 1..Len(queue') /\ Len(queue') \in Nat /\ Len(queue) <= Len(queue')
      BY <2>2 DEF Enqueued
    <3> QED BY <1>1, <2>2, <3>1 DEF Enqueued
  <2> QED BY <2>1, <2>2
<1>3. ASSUME sent.stream \in Stream
      PROVE  /\ item \in DOMAIN queue'
             /\ queue'[item].stream = sent.stream /\ queue'[item].hash = sent.hash
             /\ ~queue'[item].anchored
             /\ \A k \in 1..(item - 1) : queue'[k].anchored
  <2>1. /\ item \in DOMAIN queue
        /\ queue[item].stream = sent.stream /\ queue[item].hash = sent.hash
        /\ ~queue[item].anchored
        /\ \A k \in 1..(item - 1) : queue[k].anchored
    BY <1>1, <1>3 DEF InFlight
  <2>2. \A k \in 1..(item - 1) : k \in DOMAIN queue
    BY <1>1, <2>1
  <2> QED BY <1>2, <2>1, <2>2
<1> QED BY <1>1, <1>3 DEF InFlight

LEMMA FlightStep == TypeInv /\ [Next]_vars => InFlight'
<1> SUFFICES ASSUME TypeInv, [Next]_vars PROVE InFlight'
  OBVIOUS
<1>a. TypeOK /\ queue \in Seq(Row)
  BY DEF TypeInv, TypeOK
<1>1. ASSUME pc' \notin {"sent", "refused", "recorded"} PROVE InFlight'
  BY <1>1 DEF InFlight
<1>2. CASE EnsureMetadata \/ Latch \/ SeedReanchorBacklog \/ MarkReanchorSeeded \/ Gather \/ Boot
  BY <1>1, <1>2 DEF EnsureMetadata, ProbeAnswers, Latch, SeedReanchorBacklog,
                    MarkReanchorSeeded, Gather, Boot, Goto
<1>3. CASE StoreAnchor \/ \E tree \in Tree : EnqueueLeaves(tree)
  BY <1>1, <1>3 DEF StoreAnchor, EnqueueLeaves, AfterRoot, AfterBeat, Goto
<1>4. CASE MarkAnchored \/ ThrowRefused \/ Throw \/ Crash
  BY <1>1, <1>4 DEF MarkAnchored, ThrowRefused, Throw, Crash, Return, Goto
<1>5. ASSUME NEW tree \in Tree, RecordTree(tree) PROVE InFlight'
  <2>1. CASE snap[tree] = {}
    BY <1>1, <1>5, <2>1 DEF RecordTree, AfterRoot, AfterBeat, Goto
  <2>2. CASE snap[tree] # {}
    <3>1. Root(snap[tree]) \in Hash
      BY <2>2, <1>a, LeavesAreHashes DEF TypeOK
    <3>2. sent' \in Recorded /\ sent'.stream \notin Stream
      BY <1>5, <1>a, <2>2, <3>1 DEF RecordTree, Recorded, Tree, Stream, TypeOK
    <3> QED BY <3>2 DEF InFlight
  <2> QED BY <2>1, <2>2
<1>6. CASE DripOne
  <2>1. CASE Pending = {}
    BY <1>6, <2>1, FlightKept DEF DripOne, dbVars
  <2>2. CASE Pending # {}
    <3>1. /\ item' \in DOMAIN queue /\ ~queue[item'].anchored
          /\ \A k \in 1..(item' - 1) : queue[k].anchored
      BY <1>6, <2>2, <1>a, FirstPending DEF DripOne
    <3>2. /\ queue' = queue
          /\ sent' = [stream |-> queue[item'].stream, hash |-> queue[item'].hash, described |-> live]
      BY <1>6, <2>2 DEF DripOne, dbVars
    <3>3. queue[item'] \in Row /\ live \in BOOLEAN
      BY <1>a, <3>1 DEF TypeOK
    <3>4. sent' \in Recorded /\ queue[item'].stream = sent'.stream /\ queue[item'].hash = sent'.hash
      BY <3>2, <3>3 DEF Recorded, Row
    <3> QED BY <3>1, <3>2, <3>4 DEF InFlight
  <2> QED BY <2>1, <2>2
<1>7. CASE Include \/ IncludeOrphan
  BY <1>7, FlightKept DEF Include, IncludeOrphan, Goto, dbVars
<1>8. CASE DropOrphans \/ Upgrade \/ IntervalElapses
  BY <1>8, FlightKept DEF DropOrphans, Upgrade, IntervalElapses, writerVars, dbVars
<1>9. ASSUME NEW tree, NEW leaf, Publish(tree, leaf) PROVE InFlight'
  BY <1>9, FlightKept DEF Publish, writerVars
<1>10. ASSUME NEW r \in Receipt, ReceiptArrives(r) PROVE InFlight'
  <2>1. Enqueued(queue', "fulfilment", {{r}}) /\ "fulfilment" \in Stream /\ {{r}} \in SUBSET Hash
    BY <1>10, WhatIsEnqueued DEF Stream, Hash
  <2> QED BY <1>10, <2>1, FlightKept DEF ReceiptArrives, writerVars
<1>11. CASE UNCHANGED vars
  BY <1>11, FlightKept DEF vars, writerVars, dbVars
<1> QED
  BY <1>2, <1>3, <1>4, <1>5, <1>6, <1>7, <1>8, <1>9, <1>10, <1>11 DEF Next, Writer, Environment

LEMMA Typed == Spec => []TypeInv
<1>1. TypeInv /\ [Next]_vars => TypeInv'
  BY TypeStep, FlightStep DEF TypeInv
<1> QED BY InitTyped, <1>1, PTL DEF Spec

\* Every variable keeps its type.
THEOREM TypeCorrect == Spec => []TypeOK
<1>1. TypeInv => TypeOK
  BY DEF TypeInv
<1> QED BY <1>1, Typed, PTL

---------------------------------------------------------------------------
(* The mirror.  A mark and a stored root come after the inclusion of what  *)
(* they claim, and the beacon forgets nothing.                             *)

MirrorInv == MirrorsTheChain /\ (pc = "recorded" => sent \in ledger)

\* What was recorded stays so, whatever is added.
LEMMA MirrorKept ==
    ASSUME TypeInv, MirrorInv, ledger \subseteq ledger', anchors' = anchors,
           pc' = "recorded" => sent' \in ledger',
           \/ queue' = queue
           \/ \E stream \in Stream, hashes \in SUBSET Hash : Enqueued(queue', stream, hashes)
    PROVE  MirrorInv'
<1> DEFINE Still(stream, h) == \E e \in ledger' : e.stream = stream /\ e.hash = h
<1>1. \A stream, h : OnLedger(stream, h) => Still(stream, h)
  BY DEF OnLedger
<1> HIDE DEF Still
<1>2. \A a \in anchors' : Still(a.tree, a.hash)
  BY <1>1 DEF MirrorInv, MirrorsTheChain
<1>3. ASSUME NEW i \in DOMAIN queue', queue'[i].anchored
      PROVE  Still(queue'[i].stream, queue'[i].hash)
  <2>1. CASE queue' = queue
    BY <2>1, <1>1, <1>3 DEF MirrorInv, MirrorsTheChain
  <2>2. ASSUME NEW stream, NEW hashes, Enqueued(queue', stream, hashes)
        PROVE  i \in DOMAIN queue /\ queue'[i] = queue[i]
    <3>1. /\ DOMAIN queue' = 1..Len(queue') /\ Len(queue') \in Nat
          /\ DOMAIN queue = 1..Len(queue) /\ Len(queue) \in Nat
      BY <2>2 DEF Enqueued, TypeInv, TypeOK
    <3>2. CASE i \in (Len(queue) + 1)..Len(queue')
      BY <1>3, <2>2, <3>2 DEF Enqueued
    <3>3. CASE i \in 1..Len(queue)
      BY <2>2, <3>1, <3>3 DEF Enqueued
    <3> QED BY <1>3, <3>1, <3>2, <3>3
  <2> QED BY <2>1, <2>2, <1>1, <1>3 DEF MirrorInv, MirrorsTheChain
<1> QED BY <1>2, <1>3 DEF MirrorInv, MirrorsTheChain, OnLedger, Still

LEMMA MirrorStep == TypeInv /\ MirrorInv /\ [Next]_vars => MirrorInv'
<1> SUFFICES ASSUME TypeInv, MirrorInv, [Next]_vars PROVE MirrorInv'
  OBVIOUS
<1>1. CASE EnsureMetadata \/ Latch \/ MarkReanchorSeeded \/ Gather \/ Boot
  BY <1>1, MirrorKept DEF EnsureMetadata, ProbeAnswers, Latch, MarkReanchorSeeded, Gather, Boot,
                          Goto, dbVars, chainVars
<1>2. CASE SeedReanchorBacklog
  <2>1. Enqueued(queue', "reanchor", Seedable) /\ "reanchor" \in Stream /\ Seedable \in SUBSET Hash
    BY <1>2, WhatIsEnqueued, SeedableAreHashes DEF Stream, TypeInv
  <2> QED BY <1>2, <2>1, MirrorKept DEF SeedReanchorBacklog, Goto, chainVars
<1>3. ASSUME NEW tree \in Tree, EnqueueLeaves(tree) PROVE MirrorInv'
  <2>1. Enqueued(queue', LeafStream[tree], LeafHashes(snap[tree]))
    BY <1>3, WhatIsEnqueued
  <2>2. LeafStream[tree] \in Stream /\ LeafHashes(snap[tree]) \in SUBSET Hash
    BY LeavesAreHashes DEF Stream, LeafStream, Tree, TypeInv, TypeOK
  <2>3. pc' # "recorded" /\ anchors' = anchors /\ ledger' = ledger
    BY <1>3 DEF EnqueueLeaves, AfterBeat, Goto, chainVars
  <2> QED BY <2>1, <2>2, <2>3, MirrorKept
<1>4. ASSUME NEW tree \in Tree, RecordTree(tree) PROVE MirrorInv'
  BY <1>4, MirrorKept DEF RecordTree, AfterRoot, AfterBeat, Goto, dbVars, chainVars
<1>5. CASE StoreAnchor
  <2>1. sent \in ledger /\ ledger' = ledger /\ queue' = queue /\ pc' # "recorded"
        /\ anchors' = anchors \cup {[tree |-> sent.stream, hash |-> sent.hash]}
    BY <1>5 DEF StoreAnchor, AfterRoot, AfterBeat, Goto, chainVars, MirrorInv
  <2>2. OnLedger(sent.stream, sent.hash)
    BY <2>1 DEF OnLedger
  <2> QED BY <2>1, <2>2 DEF MirrorInv, MirrorsTheChain, OnLedger
<1>6. CASE DripOne
  <2>1. ledger' = ledger /\ anchors' = anchors /\ queue' = queue /\ pc' # "recorded"
    BY <1>6 DEF DripOne, Goto, dbVars, chainVars
  <2> QED BY <2>1, MirrorKept
<1>7. CASE MarkAnchored
  <2>1. /\ sent \in ledger /\ ledger' = ledger /\ anchors' = anchors /\ pc' # "recorded"
        /\ queue[item].stream = sent.stream /\ queue[item].hash = sent.hash
    <3>1. pc = "recorded" /\ sent \in Recorded /\ sent.stream \in Stream
      BY <1>7 DEF MarkAnchored, TypeInv, InFlight, Recorded
    <3> QED BY <1>7, <3>1 DEF MarkAnchored, Return, Goto, chainVars, MirrorInv, TypeInv, InFlight
  <2>2. OnLedger(queue[item].stream, queue[item].hash)
    BY <2>1 DEF OnLedger
  <2>3. ASSUME NEW i \in DOMAIN queue', queue'[i].anchored
        PROVE  OnLedger(queue'[i].stream, queue'[i].hash)
    BY <1>7, <2>2, <2>3, WhatIsMarked DEF MirrorInv, MirrorsTheChain
  <2> QED BY <2>1, <2>3 DEF MirrorInv, MirrorsTheChain, OnLedger
<1>8. CASE ThrowRefused \/ Throw \/ Crash
  BY <1>8, MirrorKept DEF ThrowRefused, Throw, Crash, Return, Goto, dbVars, chainVars
<1>9. CASE Include \/ IncludeOrphan
  BY <1>9, MirrorKept DEF Include, IncludeOrphan, Goto, dbVars, MirrorInv
<1>10. CASE DropOrphans \/ Upgrade \/ IntervalElapses
  BY <1>10, MirrorKept DEF DropOrphans, Upgrade, IntervalElapses, writerVars, dbVars, chainVars, MirrorInv
<1>11. ASSUME NEW tree, NEW leaf, Publish(tree, leaf) PROVE MirrorInv'
  BY <1>11, MirrorKept DEF Publish, writerVars, chainVars, MirrorInv
<1>12. ASSUME NEW r \in Receipt, ReceiptArrives(r) PROVE MirrorInv'
  <2>1. Enqueued(queue', "fulfilment", {{r}}) /\ "fulfilment" \in Stream /\ {{r}} \in SUBSET Hash
    BY <1>12, WhatIsEnqueued DEF Stream, Hash
  <2> QED BY <1>12, <2>1, MirrorKept DEF ReceiptArrives, writerVars, chainVars, MirrorInv
<1>13. CASE UNCHANGED vars
  BY <1>13, MirrorKept DEF vars, writerVars, dbVars, chainVars, MirrorInv
<1> QED
  BY <1>1, <1>2, <1>3, <1>4, <1>5, <1>6, <1>7, <1>8, <1>9, <1>10, <1>11, <1>12, <1>13
  DEF Next, Writer, Environment

\* A row is marked, and a root stored, only if the beacon holds it.
THEOREM ChainMirrored == Spec => []MirrorsTheChain
<1>1. Init => MirrorInv
  BY DEF Init, MirrorInv, MirrorsTheChain
<1>2. MirrorInv => MirrorsTheChain
  BY DEF MirrorInv
<1> QED BY <1>1, <1>2, Typed, MirrorStep, PTL DEF Spec
---------------------------------------------------------------------------
(* The backlog.  Between the latch and the next heartbeat the writer does  *)
(* nothing but seed and seal, so nothing is marked in between; and whoever *)
(* records something after that knows that descriptors are served, for a   *)
(* writer that starts again passes through the latch before anything else. *)

\* What an enqueue leaves as it was, row by row.
LEMMA Appended ==
    ASSUME TypeInv, NEW stream, NEW hashes, Enqueued(queue', stream, hashes)
    PROVE  /\ \A i \in DOMAIN queue : i \in DOMAIN queue' /\ queue'[i] = queue[i]
           /\ \A i \in DOMAIN queue' : i \notin DOMAIN queue =>
                /\ i \in (Len(queue) + 1)..Len(queue') /\ ~queue'[i].anchored
                /\ queue'[i].stream = stream /\ queue'[i].hash \in hashes
                /\ ~Has(queue, stream, queue'[i].hash)
           /\ \A s, h : Has(queue, s, h) => Has(queue', s, h)
<1>1. /\ DOMAIN queue' = 1..Len(queue') /\ Len(queue') \in Nat /\ Len(queue) <= Len(queue')
      /\ DOMAIN queue = 1..Len(queue) /\ Len(queue) \in Nat
  BY DEF Enqueued, TypeInv, TypeOK
<1>2. \A i \in DOMAIN queue : i \in DOMAIN queue' /\ queue'[i] = queue[i]
  BY <1>1 DEF Enqueued
<1>3. \A i \in DOMAIN queue' : i \notin DOMAIN queue => i \in (Len(queue) + 1)..Len(queue')
  BY <1>1
<1> QED BY <1>2, <1>3 DEF Enqueued, Has

AllRedescribed ==
    /\ \A i \in DOMAIN queue : queue[i].anchored => Redescribed(queue[i].stream, queue[i].hash)
    /\ \A a \in anchors : Redescribed(a.tree, a.hash)

BacklogInv ==
    /\ dbSeeded => dbLive
    /\ live => dbLive
    /\ dbLive /\ ~live => due = "now" /\ pc \in {"down", "idle", "latch"}
    /\ pc \in {"latch", "seed", "seal"} => dbLive
    /\ pc \in {"seed", "seal"} => live
    /\ dbSeeded /\ pc \in {"sent", "recorded"} => sent.described
    /\ dbSeeded \/ pc = "seal" => AllRedescribed

\* What is described or queued to be stays so, while nothing is marked.
LEMMA RedescribedKept ==
    ASSUME TypeInv, AllRedescribed, ledger \subseteq ledger', anchors' = anchors,
           \/ queue' = queue
           \/ \E stream \in Stream, hashes \in SUBSET Hash : Enqueued(queue', stream, hashes)
    PROVE  AllRedescribed'
<1>1. CASE queue' = queue
  BY <1>1 DEF AllRedescribed, Redescribed, Has
<1>2. ASSUME NEW stream, NEW hashes, Enqueued(queue', stream, hashes) PROVE AllRedescribed'
  <2> DEFINE Still(s, h) == \/ [stream |-> s, hash |-> h, described |-> TRUE] \in ledger'
                            \/ Has(queue', s, h) /\ s = "reanchor"
                            \/ Has(queue', "reanchor", h)
  <2>1. \A s, h : Redescribed(s, h) => Still(s, h)
    BY <1>2, Appended DEF Redescribed
  <2>2. \A i \in DOMAIN queue' : queue'[i].anchored => i \in DOMAIN queue /\ queue'[i] = queue[i]
    BY <1>2, Appended
  <2>3. /\ \A i \in DOMAIN queue' : queue'[i].anchored => Still(queue'[i].stream, queue'[i].hash)
        /\ \A a \in anchors' : Still(a.tree, a.hash)
    <3> HIDE DEF Still
    <3> QED BY <2>1, <2>2 DEF AllRedescribed
  <2> QED BY <2>3 DEF AllRedescribed, Redescribed, Has
<1> QED BY <1>1, <1>2

LEMMA BacklogStep == TypeInv /\ MirrorInv /\ BacklogInv /\ [Next]_vars => BacklogInv'
<1> SUFFICES ASSUME TypeInv, MirrorInv, BacklogInv, [Next]_vars PROVE BacklogInv'
  OBVIOUS
<1>a. live \in BOOLEAN /\ dbLive \in BOOLEAN /\ dbSeeded \in BOOLEAN
  BY DEF TypeInv, TypeOK
<1> USE DEF BacklogInv
<1>1. ASSUME ledger \subseteq ledger', anchors' = anchors, queue' = queue,
             dbSeeded' = dbSeeded, pc' # "seal" \/ pc = "seal"
      PROVE  dbSeeded' \/ pc' = "seal" => AllRedescribed'
  BY <1>1, RedescribedKept
<1>2. CASE EnsureMetadata
  BY <1>1, <1>2, <1>a DEF EnsureMetadata, ProbeAnswers, Goto, chainVars
<1>3. CASE Latch
  BY <1>1, <1>3, <1>a DEF Latch, Goto, dbVars, chainVars
<1>4. CASE SeedReanchorBacklog
  <2>1. Enqueued(queue', "reanchor", Seedable)
    BY <1>4, WhatIsEnqueued
  <2>2. \A h \in Seedable : Has(queue', "reanchor", h)
    BY <2>1 DEF Enqueued
  <2>3. ASSUME NEW i \in DOMAIN queue', queue'[i].anchored
        PROVE  Has(queue', "reanchor", queue'[i].hash)
    <3>1. i \in DOMAIN queue /\ queue'[i] = queue[i]
      BY <2>1, <2>3, Appended
    <3>2. CASE queue[i].stream = "reanchor"
      BY <3>1, <3>2 DEF Has
    <3>3. CASE queue[i].stream # "reanchor"
      <4>1. queue[i].hash \in Seedable
        BY <2>3, <3>1, <3>3 DEF Seedable
      <4> QED BY <2>2, <3>1, <4>1
    <3> QED BY <3>2, <3>3
  <2>4. \A a \in anchors : Has(queue', "reanchor", a.hash)
    BY <2>2 DEF Seedable
  <2>5. AllRedescribed'
    BY <1>4, <2>3, <2>4 DEF AllRedescribed, Redescribed, SeedReanchorBacklog, Has
  <2> QED BY <1>4, <2>5 DEF SeedReanchorBacklog, Goto, chainVars
<1>5. CASE MarkReanchorSeeded
  <2>1. AllRedescribed'
    BY <1>5, RedescribedKept DEF MarkReanchorSeeded, chainVars
  <2> QED BY <1>5, <2>1 DEF MarkReanchorSeeded, Goto, chainVars
<1>6. CASE Gather \/ Boot
  BY <1>1, <1>6 DEF Gather, Boot, Goto, dbVars, chainVars
<1>7. ASSUME NEW tree \in Tree, RecordTree(tree) PROVE BacklogInv'
  <2>1. dbSeeded' \/ pc' = "seal" => AllRedescribed'
    BY <1>1, <1>7 DEF RecordTree, AfterRoot, AfterBeat, Goto, dbVars, chainVars, Tree
  <2>2. pc \in Tree /\ UNCHANGED <<dbSeeded, dbLive, live>>
    BY <1>7 DEF RecordTree, dbVars, chainVars
  <2>3. \/ pc' \notin {"sent", "recorded", "latch", "seed", "seal"}
        \/ pc' = "sent" /\ sent'.described = live
    BY <1>7 DEF RecordTree, AfterRoot, AfterBeat, Goto
  <2> QED BY <2>1, <2>2, <2>3, <1>a DEF Tree
<1>8. ASSUME NEW tree \in Tree, EnqueueLeaves(tree) PROVE BacklogInv'
  <2>1. Enqueued(queue', LeafStream[tree], LeafHashes(snap[tree]))
    BY <1>8, WhatIsEnqueued
  <2>2. LeafStream[tree] \in Stream /\ LeafHashes(snap[tree]) \in SUBSET Hash
    BY LeavesAreHashes DEF Stream, LeafStream, Tree, TypeInv, TypeOK
  <2>3. /\ pc \in {"file-pairs", "file-tokens"} /\ pc' \in {"file-tokens", "idle"}
        /\ UNCHANGED <<anchors, ledger, dbSeeded, dbLive, live>>
    BY <1>8 DEF EnqueueLeaves, AfterBeat, Goto, chainVars, FilePC, Tree
  <2>4. AllRedescribed => AllRedescribed'
    BY <2>1, <2>2, <2>3, RedescribedKept
  <2> QED BY <2>3, <2>4
<1>9. CASE StoreAnchor
  <2>1. /\ sent \in ledger /\ pc = "recorded" /\ UNCHANGED <<ledger, queue, dbSeeded, dbLive, live>>
        /\ anchors' = anchors \cup {[tree |-> sent.stream, hash |-> sent.hash]}
        /\ pc' \notin {"sent", "recorded", "latch", "seed", "seal"}
    BY <1>9 DEF StoreAnchor, AfterRoot, AfterBeat, Goto, chainVars, MirrorInv
  <2>2. ASSUME dbSeeded PROVE [stream |-> sent.stream, hash |-> sent.hash, described |-> TRUE] \in ledger
    <3>1. sent \in Recorded /\ sent.described = TRUE
      BY <2>1, <2>2 DEF TypeInv, InFlight, Recorded
    <3>2. sent = [stream |-> sent.stream, hash |-> sent.hash, described |-> TRUE]
      BY <3>1 DEF Recorded
    <3> QED BY <2>1, <3>2
  <2> DEFINE Still(s, h) == \/ [stream |-> s, hash |-> h, described |-> TRUE] \in ledger'
                            \/ Has(queue', "reanchor", h)
             stored == [tree |-> sent.stream, hash |-> sent.hash]
  <2>3. \A s, h : Redescribed(s, h) => Still(s, h)
    BY <2>1 DEF Redescribed
  <2>4. dbSeeded => Still(stored.tree, stored.hash)
    BY <2>1, <2>2
  <2>5. dbSeeded => /\ \A i \in DOMAIN queue' : queue'[i].anchored =>
                          Still(queue'[i].stream, queue'[i].hash)
                    /\ \A a \in anchors' : Still(a.tree, a.hash)
    <3> HIDE DEF Still, stored
    <3>1. anchors' = anchors \cup {stored}
      BY <2>1 DEF stored
    <3> QED BY <2>1, <2>3, <2>4, <3>1 DEF AllRedescribed
  <2>6. dbSeeded => AllRedescribed'
    BY <2>5 DEF AllRedescribed, Redescribed, Has
  <2> QED BY <2>1, <2>6
<1>10. CASE DripOne
  <2>1. /\ UNCHANGED <<ledger, anchors, queue, dbSeeded, dbLive, live>>
        /\ pc = "idle" /\ due # "now"
        /\ pc' = "idle" \/ (pc' = "sent" /\ sent'.described = live)
    BY <1>10 DEF DripOne, Goto, dbVars, chainVars
  <2>2. dbSeeded' \/ pc' = "seal" => AllRedescribed'
    BY <1>1, <2>1
  <2> QED BY <2>1, <2>2, <1>a
<1>11. CASE MarkAnchored
  <2>1. pc = "recorded" /\ sent \in Recorded /\ sent.stream \in Stream
    BY <1>11 DEF MarkAnchored, TypeInv, InFlight, Recorded
  <2>2. /\ sent \in ledger /\ UNCHANGED <<ledger, anchors, dbSeeded, dbLive, live>> /\ pc' = "idle"
        /\ queue[item].stream = sent.stream /\ queue[item].hash = sent.hash
    BY <1>11, <2>1 DEF MarkAnchored, Return, Goto, chainVars, MirrorInv, TypeInv, InFlight
  <2>3. ASSUME dbSeeded PROVE [stream |-> sent.stream, hash |-> sent.hash, described |-> TRUE] \in ledger
    <3>1. sent.described = TRUE
      BY <2>1, <2>3 DEF Recorded
    <3>2. sent = [stream |-> sent.stream, hash |-> sent.hash, described |-> TRUE]
      BY <2>1, <3>1 DEF Recorded
    <3> QED BY <2>2, <3>2
  <2>4. \A s, h : Has(queue, s, h) => Has(queue', s, h)
    BY <1>11, WhatIsMarked DEF Has
  <2> DEFINE Still(s, h) == \/ [stream |-> s, hash |-> h, described |-> TRUE] \in ledger'
                            \/ Has(queue', "reanchor", h)
  <2>5. \A s, h : Redescribed(s, h) => Still(s, h)
    BY <2>2, <2>4 DEF Redescribed
  <2>6. dbSeeded => Still(sent.stream, sent.hash)
    BY <2>2, <2>3
  <2>7. ASSUME dbSeeded, NEW i \in DOMAIN queue', queue'[i].anchored
        PROVE  Still(queue'[i].stream, queue'[i].hash)
    <3> HIDE DEF Still
    <3>1. CASE i = item
      BY <1>11, <2>2, <2>6, <2>7, <3>1, WhatIsMarked
    <3>2. CASE i # item
      BY <1>11, <2>5, <2>7, <3>2, WhatIsMarked DEF AllRedescribed
    <3> QED BY <3>1, <3>2
  <2>8. dbSeeded => \A a \in anchors' : Still(a.tree, a.hash)
    <3> HIDE DEF Still
    <3> QED BY <2>2, <2>5 DEF AllRedescribed
  <2>9. dbSeeded => AllRedescribed'
    BY <2>7, <2>8 DEF AllRedescribed, Redescribed, Has
  <2> QED BY <1>11, <2>1, <2>2, <2>9 DEF MarkAnchored, Return, Goto
<1>12. CASE ThrowRefused \/ Throw \/ Crash
  BY <1>1, <1>12 DEF ThrowRefused, Throw, Crash, Return, Goto, dbVars, chainVars
<1>13. CASE Include \/ IncludeOrphan
  BY <1>1, <1>13 DEF Include, IncludeOrphan, Goto, dbVars
<1>14. CASE DropOrphans \/ Upgrade \/ IntervalElapses
  BY <1>1, <1>14 DEF DropOrphans, Upgrade, IntervalElapses, writerVars, dbVars, chainVars
<1>15. ASSUME NEW tree, NEW leaf, Publish(tree, leaf) PROVE BacklogInv'
  BY <1>1, <1>15 DEF Publish, writerVars, chainVars
<1>16. ASSUME NEW r \in Receipt, ReceiptArrives(r) PROVE BacklogInv'
  <2>1. Enqueued(queue', "fulfilment", {{r}}) /\ "fulfilment" \in Stream /\ {{r}} \in SUBSET Hash
    BY <1>16, WhatIsEnqueued DEF Stream, Hash
  <2>2. AllRedescribed => AllRedescribed'
    BY <1>16, <2>1, RedescribedKept DEF ReceiptArrives, chainVars
  <2> QED BY <1>16, <2>2 DEF ReceiptArrives, writerVars
<1>17. CASE UNCHANGED vars
  BY <1>1, <1>17 DEF vars, writerVars, dbVars, chainVars
<1> QED
  BY <1>2, <1>3, <1>4, <1>5, <1>6, <1>7, <1>8, <1>9, <1>10, <1>11, <1>12, <1>13, <1>14, <1>15,
     <1>16, <1>17
  DEF Next, Writer, Environment

\* Once the backlog is marked seeded, all that counts as recorded is on the
\* ledger with its descriptor or queued to be.
THEOREM BacklogComplete == Spec => []BacklogIsComplete
<1>1. Init => MirrorInv /\ BacklogInv
  BY DEF Init, MirrorInv, MirrorsTheChain, BacklogInv
<1>2. BacklogInv => BacklogIsComplete
  BY DEF BacklogInv, BacklogIsComplete, AllRedescribed
<1> QED BY <1>1, <1>2, Typed, MirrorStep, BacklogStep, PTL DEF Spec
---------------------------------------------------------------------------
(* The abstract promise.  Whatever is on its way to the beacon (a queue    *)
(* row, a stored root, the snapshot of a heartbeat, a transaction, awaited *)
(* or given up) is a hash the service has stood behind.                    *)

Stood(t, S) == LeafHashes(S) \cup RootOf(t, S) \subseteq vouched

StoodInv ==
    /\ \A i \in DOMAIN queue : queue[i].hash \in vouched
    /\ \A a \in anchors : a.hash \in vouched
    /\ \A e \in ledger \cup orphans : e.hash \in vouched
    /\ pc \in {"sent", "recorded"} => sent.hash \in vouched
    /\ \A t \in Tree : Stood(t, published[t]) /\ Stood(t, snap[t])

LEMMA InitStood == Init => StoodInv
<1> SUFFICES ASSUME Init PROVE StoodInv
  OBVIOUS
<1>1. \A t \in Tree : Stood(t, published[t])
  BY DEF Init, Stood
<1>2. \A t \in Tree : Stood(t, snap[t])
  BY DEF Init, NoSnap, Stood, LeafHashes, RootOf
<1> QED BY <1>1, <1>2 DEF Init, StoodInv

\* Only hashes already stood behind are enqueued.
LEMMA RowsStood ==
    ASSUME TypeInv, StoodInv, NEW stream, NEW hashes, Enqueued(queue', stream, hashes),
           hashes \subseteq vouched'
    PROVE  vouched \subseteq vouched' => \A i \in DOMAIN queue' : queue'[i].hash \in vouched'
BY Appended DEF StoodInv

LEMMA StoodStep == TypeInv /\ StoodInv /\ [Next]_vars => StoodInv'
<1> SUFFICES ASSUME TypeInv, StoodInv, [Next]_vars PROVE StoodInv'
  OBVIOUS
<1>a. \A t \in Tree : Stood(t, {})
  BY DEF Stood, LeafHashes, RootOf
<1>b. ASSUME Forget PROVE \A t \in Tree : snap'[t] = {}
  BY <1>b DEF Forget, NoSnap
<1>c. ASSUME UNCHANGED <<queue, anchors, vouched, published>>,
             \A e \in ledger' \cup orphans' : e.hash \in vouched,
             pc' \in {"sent", "recorded"} => sent'.hash \in vouched,
             \A t \in Tree : snap'[t] \in {snap[t], published[t], {}}
      PROVE  StoodInv'
  <2>1. \A t \in Tree : Stood(t, published[t])' /\ Stood(t, snap[t])'
    BY <1>a, <1>c DEF StoodInv, Stood
  <2> QED BY <1>c, <2>1 DEF StoodInv
<1>1. CASE EnsureMetadata \/ Latch \/ MarkReanchorSeeded \/ Boot
  BY <1>1, <1>c DEF EnsureMetadata, ProbeAnswers, Latch, MarkReanchorSeeded, Boot, Goto,
                    dbVars, chainVars, boundVars, StoodInv
<1>2. CASE Gather
  BY <1>2, <1>c DEF Gather, Goto, dbVars, chainVars, boundVars, StoodInv
<1>3. CASE SeedReanchorBacklog
  <2>1. Enqueued(queue', "reanchor", Seedable)
    BY <1>3, WhatIsEnqueued
  <2>2. Seedable \subseteq vouched
    BY DEF Seedable, StoodInv
  <2>3. \A i \in DOMAIN queue' : queue'[i].hash \in vouched'
    BY <1>3, <2>1, <2>2, RowsStood DEF SeedReanchorBacklog, boundVars
  <2> QED BY <1>3, <2>3 DEF SeedReanchorBacklog, Goto, chainVars, boundVars, StoodInv, Stood
<1>4. ASSUME NEW tree \in Tree, EnqueueLeaves(tree) PROVE StoodInv'
  <2>1. Enqueued(queue', LeafStream[tree], LeafHashes(snap[tree]))
    BY <1>4, WhatIsEnqueued
  <2>2. LeafHashes(snap[tree]) \subseteq vouched
    BY DEF StoodInv, Stood
  <2>3. \A i \in DOMAIN queue' : queue'[i].hash \in vouched'
    BY <1>4, <2>1, <2>2, RowsStood DEF EnqueueLeaves, boundVars
  <2>4. /\ UNCHANGED <<anchors, vouched, published, ledger, orphans>>
        /\ pc' \notin {"sent", "recorded"}
        /\ \A t \in Tree : snap'[t] \in {snap[t], {}}
    BY <1>4 DEF EnqueueLeaves, AfterBeat, Goto, chainVars, boundVars, NoSnap
  <2>5. \A t \in Tree : Stood(t, published[t])' /\ Stood(t, snap[t])'
    BY <1>a, <2>4 DEF StoodInv, Stood
  <2> QED BY <2>3, <2>4, <2>5 DEF StoodInv
<1>5. ASSUME NEW tree \in Tree, RecordTree(tree) PROVE StoodInv'
  <2>1. \A t \in Tree : snap'[t] \in {snap[t], {}}
    BY <1>5 DEF RecordTree, AfterRoot, AfterBeat, NoSnap
  <2>2. pc' \in {"sent", "recorded"} => sent'.hash \in vouched
    BY <1>5 DEF RecordTree, AfterRoot, AfterBeat, Goto, StoodInv, Stood, RootOf
  <2> QED BY <1>5, <2>1, <2>2, <1>c DEF RecordTree, dbVars, chainVars, boundVars, StoodInv
<1>6. CASE StoreAnchor
  <2>1. sent.hash \in vouched
    BY <1>6 DEF StoreAnchor, StoodInv
  <2>2. /\ UNCHANGED <<queue, vouched, published, ledger, orphans>>
        /\ pc' \notin {"sent", "recorded"}
        /\ \A t \in Tree : snap'[t] \in {snap[t], {}}
        /\ anchors' = anchors \cup {[tree |-> sent.stream, hash |-> sent.hash]}
    BY <1>6 DEF StoreAnchor, AfterRoot, AfterBeat, Goto, chainVars, boundVars, NoSnap
  <2>3. \A t \in Tree : Stood(t, published[t])' /\ Stood(t, snap[t])'
    BY <1>a, <2>2 DEF StoodInv, Stood
  <2> QED BY <2>1, <2>2, <2>3 DEF StoodInv
<1>7. CASE DripOne
  <2>1. CASE Pending = {}
    BY <1>7, <2>1, <1>c DEF DripOne, dbVars, chainVars, boundVars, StoodInv
  <2>2. CASE Pending # {}
    <3>1. item' \in DOMAIN queue
      BY <1>7, <2>2, FirstPending DEF DripOne, TypeInv, TypeOK
    <3> QED BY <1>7, <2>2, <3>1, <1>c DEF DripOne, dbVars, chainVars, boundVars, StoodInv
  <2> QED BY <2>1, <2>2
<1>8. CASE MarkAnchored
  <2>1. \A i \in DOMAIN queue' : queue'[i].hash \in vouched
    BY <1>8, WhatIsMarked DEF StoodInv
  <2>2. /\ UNCHANGED <<anchors, vouched, published, ledger, orphans>> /\ Forget /\ pc' = "idle"
    BY <1>8 DEF MarkAnchored, Return, Goto, chainVars, boundVars
  <2>3. \A t \in Tree : Stood(t, published[t])' /\ Stood(t, snap[t])'
    BY <1>a, <1>b, <2>2 DEF StoodInv, Stood
  <2> QED BY <2>1, <2>2, <2>3 DEF StoodInv
<1>9. CASE ThrowRefused \/ Throw \/ Crash
  <2>1. /\ UNCHANGED <<queue, anchors, vouched, published, ledger>> /\ Forget /\ pc' \in {"idle", "down"}
        /\ orphans' \in {orphans, orphans \cup GivenUp}
    BY <1>9 DEF ThrowRefused, Throw, Crash, Return, Goto, dbVars, chainVars, boundVars
  <2>2. \A e \in GivenUp : e.hash \in vouched
    BY DEF GivenUp, StoodInv
  <2>3. \A e \in ledger' \cup orphans' : e.hash \in vouched
    BY <2>1, <2>2 DEF StoodInv
  <2> QED BY <1>b, <1>c, <2>1, <2>3
<1>10. CASE Include \/ IncludeOrphan
  <2>1. /\ UNCHANGED <<queue, anchors, vouched, published, snap, sent>> /\ orphans' = {}
        /\ \/ ledger' = ledger \cup {sent} /\ pc = "sent"
           \/ \E tx \in orphans : ledger' = ledger \cup {tx} /\ (pc' = pc \/ pc' = "refused")
    BY <1>10 DEF Include, IncludeOrphan, Goto, dbVars
  <2>2. /\ \A e \in ledger' \cup orphans' : e.hash \in vouched
        /\ pc' \in {"sent", "recorded"} => sent'.hash \in vouched
    BY <2>1 DEF StoodInv
  <2> QED BY <2>1, <2>2, <1>c
<1>11. CASE DropOrphans \/ Upgrade \/ IntervalElapses
  BY <1>11, <1>c DEF DropOrphans, Upgrade, IntervalElapses, writerVars, dbVars, chainVars,
                     boundVars, StoodInv
<1>12. ASSUME NEW tree \in Tree, NEW leaf \in PairLeaf \cup TokenLeaf, Publish(tree, leaf)
       PROVE  StoodInv'
  <2>1. PICK now \in {published[tree] \cup {leaf}, published[tree] \ {leaf}} :
           /\ published' = [published EXCEPT ![tree] = now]
           /\ vouched' = vouched \cup LeafHashes(now) \cup RootOf(tree, now)
    BY <1>12 DEF Publish
  <2>2. UNCHANGED <<queue, anchors, ledger, orphans, pc, sent, snap>>
    BY <1>12 DEF Publish, chainVars, writerVars
  <2>3. \A t \in Tree : published'[t] = IF t = tree THEN now ELSE published[t]
    BY <2>1 DEF TypeInv, TypeOK
  <2>4. ASSUME NEW t \in Tree PROVE Stood(t, published[t])' /\ Stood(t, snap[t])'
    BY <2>1, <2>2, <2>3 DEF StoodInv, Stood
  <2>5. vouched \subseteq vouched'
    BY <2>1
  <2> QED BY <2>2, <2>4, <2>5 DEF StoodInv
<1>13. ASSUME NEW r \in Receipt, ReceiptArrives(r) PROVE StoodInv'
  <2>1. Enqueued(queue', "fulfilment", {{r}})
    BY <1>13, WhatIsEnqueued
  <2>2. vouched' = vouched \cup {{r}} /\ UNCHANGED <<anchors, ledger, orphans, pc, sent, snap, published>>
    BY <1>13 DEF ReceiptArrives, chainVars, writerVars
  <2>3. \A i \in DOMAIN queue' : queue'[i].hash \in vouched'
    BY <2>1, <2>2, RowsStood
  <2>4. \A t \in Tree : Stood(t, published[t])' /\ Stood(t, snap[t])'
    BY <2>2 DEF StoodInv, Stood
  <2> QED BY <2>2, <2>3, <2>4 DEF StoodInv
<1>14. CASE UNCHANGED vars
  BY <1>14, <1>c DEF vars, writerVars, dbVars, chainVars, boundVars, StoodInv
<1> QED
  BY <1>1, <1>2, <1>3, <1>4, <1>5, <1>6, <1>7, <1>8, <1>9, <1>10, <1>11, <1>12, <1>13, <1>14
  DEF Next, Writer, Environment

\* Every step of the writer, the chain and the database is a step of the
\* abstract notary or none.
THEOREM NotaryImplemented == Spec => NotaryHolds
<1> DEFINE recorded == {e.hash : e \in ledger}
<1>1. Init => Notarised!Init
  <2> SUFFICES ASSUME Init PROVE Notarised!Init
    OBVIOUS
  <2>1. TypeInv
    BY InitTyped
  <2> QED BY <2>1 DEF Init, TypeInv, TypeOK, Notarised!Init
<1>2. TypeInv /\ TypeInv' /\ StoodInv /\ [Next]_vars => [Notarised!Next]_Notarised!vars
  <2> SUFFICES ASSUME TypeInv, TypeInv', StoodInv, [Next]_vars
               PROVE  [Notarised!Next]_Notarised!vars
    OBVIOUS
  <2> USE DEF Notarised!Next, Notarised!vars
  <2>1. ASSUME UNCHANGED <<vouched, ledger>> PROVE [Notarised!Next]_Notarised!vars
    BY <2>1
  <2>2. ASSUME UNCHANGED vouched, NEW e, e.hash \in vouched, ledger' = ledger \cup {e}
        PROVE  [Notarised!Next]_Notarised!vars
    <3>1. recorded' = recorded \cup {e.hash}
      BY <2>2
    <3> QED BY <2>2, <3>1 DEF Notarised!Record
  <2>3. ASSUME UNCHANGED ledger, vouched \subseteq vouched'
        PROVE  [Notarised!Next]_Notarised!vars
    <3>1. vouched' \in SUBSET Hash /\ vouched' = vouched \cup vouched'
      BY <2>3 DEF TypeInv, TypeOK
    <3> QED BY <2>3, <3>1 DEF Notarised!Vouch
  <2>4. CASE Include
    BY <2>4, <2>2 DEF Include, StoodInv
  <2>5. CASE IncludeOrphan
    <3>1. PICK tx \in orphans : ledger' = ledger \cup {tx}
      BY <2>5 DEF IncludeOrphan
    <3> QED BY <2>5, <3>1, <2>2 DEF IncludeOrphan, StoodInv
  <2>6. ASSUME NEW tree, NEW leaf, Publish(tree, leaf) PROVE [Notarised!Next]_Notarised!vars
    BY <2>6, <2>3 DEF Publish, chainVars
  <2>7. ASSUME NEW r, ReceiptArrives(r) PROVE [Notarised!Next]_Notarised!vars
    BY <2>7, <2>3 DEF ReceiptArrives, chainVars
  <2>8. CASE Writer
    BY <2>8, <2>1 DEF Writer, EnsureMetadata, Latch, SeedReanchorBacklog, MarkReanchorSeeded,
       Gather, RecordTree, EnqueueLeaves, StoreAnchor, DripOne, MarkAnchored, ThrowRefused, Boot,
       dbVars, chainVars, boundVars
  <2>9. CASE Throw \/ Crash \/ DropOrphans \/ Upgrade \/ IntervalElapses \/ UNCHANGED vars
    BY <2>9, <2>1 DEF Throw, Crash, DropOrphans, Upgrade, IntervalElapses, vars, dbVars, chainVars,
       boundVars, writerVars
  <2> QED BY <2>4, <2>5, <2>6, <2>7, <2>8, <2>9 DEF Next, Environment
<1> QED BY <1>1, <1>2, InitStood, StoodStep, Typed, PTL DEF Spec, NotaryHolds, Notarised!Spec
---------------------------------------------------------------------------
(* The repeats.  The drip takes the rows in order, so at most one row that *)
(* is not marked can be on the ledger or in an abandoned transaction: the  *)
(* first.  What may still be recorded again is owed, and each fault pays   *)
(* for one: the abandoned transaction, and the mark that did not follow.   *)

Match(j, e) == queue[j].stream = e.stream /\ queue[j].hash = e.hash

Before(j) == \A k \in 1..(j - 1) : queue[k].anchored

\* The drip's own transaction is on the ledger and about to be marked.
Marking == pc = "recorded" /\ sent.stream \in Stream

Unmarked ==
    /\ ~Marking
    /\ \E j \in DOMAIN queue : ~queue[j].anchored /\ OnLedger(queue[j].stream, queue[j].hash)

Abandoned == \E o \in orphans : o.stream \in Stream

Owed == (IF Unmarked THEN 1 ELSE 0) + (IF Abandoned THEN 1 ELSE 0)

Unique == \A i, j \in DOMAIN queue : Match(i, queue[j]) => i = j

LedgerInOrder ==
    \A e \in ledger : e.stream \in Stream => \E j \in DOMAIN queue : Match(j, e) /\ Before(j)

OrphansFirst ==
    \A o \in orphans : o.stream \in Stream =>
        \E j \in DOMAIN queue : Match(j, o) /\ Before(j) /\ ~queue[j].anchored

PaidInv ==
    /\ Unique /\ LedgerInOrder /\ OrphansFirst
    /\ pc = "recorded" => orphans = {}
    /\ repeats + Owed <= faults

LEMMA RowsInStream == TypeInv => \A j \in DOMAIN queue : queue[j].stream \in Stream
<1> SUFFICES ASSUME TypeInv, NEW j \in DOMAIN queue PROVE queue[j].stream \in Stream
  OBVIOUS
<1>1. queue[j] \in Row
  BY DEF TypeInv, TypeOK
<1> QED BY <1>1 DEF Row

LEMMA Counters == TypeInv => repeats \in Nat /\ faults \in Nat
BY BoundAssumption DEF TypeInv, TypeOK

\* Steps that touch no row and record nothing.
LEMMA PaidKept ==
    ASSUME TypeInv, TypeInv', PaidInv, UNCHANGED <<queue, ledger, repeats>>, orphans' \subseteq orphans,
           faults <= faults', pc' = "recorded" => pc = "recorded",
           Marking => Marking'
    PROVE  PaidInv'
<1>1. Unique' /\ LedgerInOrder' /\ OrphansFirst'
  BY DEF PaidInv, Unique, LedgerInOrder, OrphansFirst, Match, Before
<1>2. Unmarked' => Unmarked
  BY DEF Unmarked, OnLedger
<1>3. Abandoned' => Abandoned
  BY DEF Abandoned
<1>4. repeats \in Nat /\ faults \in Nat /\ faults' \in Nat
  BY BoundAssumption DEF TypeInv, TypeOK
<1>5. repeats' + Owed' <= faults'
  BY <1>2, <1>3, <1>4 DEF PaidInv, Owed
<1> QED BY <1>1, <1>5 DEF PaidInv

\* Rows that are appended are new to the ledger too.
LEMMA PaidGrown ==
    ASSUME TypeInv, TypeInv', PaidInv, NEW stream \in Stream, NEW hashes, Enqueued(queue', stream, hashes),
           UNCHANGED <<ledger, orphans, repeats, faults>>,
           pc' = "recorded" => pc = "recorded", Marking => Marking'
    PROVE  PaidInv'
<1>1. /\ \A i \in DOMAIN queue : i \in DOMAIN queue' /\ queue'[i] = queue[i]
      /\ \A i \in DOMAIN queue' : i \notin DOMAIN queue =>
            /\ i \in (Len(queue) + 1)..Len(queue') /\ queue'[i].stream = stream
            /\ ~Has(queue, stream, queue'[i].hash)
  BY Appended
<1>2. DOMAIN queue = 1..Len(queue) /\ Len(queue) \in Nat
  BY DEF TypeInv, TypeOK
<1>3. \A i, j \in (Len(queue) + 1)..Len(queue') : queue'[i].hash = queue'[j].hash => i = j
  BY DEF Enqueued
<1>4. Unique'
  <2> SUFFICES ASSUME NEW i \in DOMAIN queue', NEW j \in DOMAIN queue',
                      queue'[i].stream = queue'[j].stream, queue'[i].hash = queue'[j].hash
               PROVE  i = j
    BY DEF Unique, Match
  <2>1. CASE i \in DOMAIN queue /\ j \in DOMAIN queue
    BY <1>1, <2>1 DEF PaidInv, Unique, Match
  <2>2. CASE i \in DOMAIN queue /\ j \notin DOMAIN queue
    BY <1>1, <2>2 DEF Has
  <2>3. CASE i \notin DOMAIN queue /\ j \in DOMAIN queue
    BY <1>1, <2>3 DEF Has
  <2>4. CASE i \notin DOMAIN queue /\ j \notin DOMAIN queue
    BY <1>1, <1>3, <2>4
  <2> QED BY <2>1, <2>2, <2>3, <2>4
<1>5. ASSUME NEW j \in DOMAIN queue, Before(j) PROVE Before(j)'
  <2>1. \A k \in 1..(j - 1) : k \in DOMAIN queue
    BY <1>2
  <2> QED BY <1>1, <1>5, <2>1 DEF Before
<1>6. LedgerInOrder' /\ OrphansFirst'
  <2>1. \A j \in DOMAIN queue : \A e : Match(j, e) => Match(j, e)'
    BY <1>1 DEF Match
  <2>2. ASSUME NEW e \in ledger, e.stream \in Stream
        PROVE  \E j \in DOMAIN queue' : Match(j, e)' /\ Before(j)'
    <3>1. PICK j \in DOMAIN queue : Match(j, e) /\ Before(j)
      BY <2>2 DEF PaidInv, LedgerInOrder
    <3> QED BY <1>1, <1>5, <2>1, <3>1
  <2>3. ASSUME NEW o \in orphans, o.stream \in Stream
        PROVE  \E j \in DOMAIN queue' : Match(j, o)' /\ Before(j)' /\ ~queue'[j].anchored
    <3>1. PICK j \in DOMAIN queue : Match(j, o) /\ Before(j) /\ ~queue[j].anchored
      BY <2>3 DEF PaidInv, OrphansFirst
    <3> QED BY <1>1, <1>5, <2>1, <3>1
  <2> QED BY <2>2, <2>3 DEF LedgerInOrder, OrphansFirst
<1>7. Unmarked' => Unmarked
  <2> SUFFICES ASSUME Unmarked' PROVE Unmarked
    OBVIOUS
  <2>1. PICK j \in DOMAIN queue', e \in ledger :
          ~queue'[j].anchored /\ e.stream = queue'[j].stream /\ e.hash = queue'[j].hash
    BY DEF Unmarked, OnLedger
  <2>2. j \in DOMAIN queue
    <3> SUFFICES ASSUME j \notin DOMAIN queue PROVE FALSE
      OBVIOUS
    <3>1. e.stream = stream /\ ~Has(queue, e.stream, e.hash)
      BY <1>1, <2>1
    <3>2. PICK k \in DOMAIN queue : Match(k, e)
      BY <3>1 DEF PaidInv, LedgerInOrder
    <3> QED BY <3>1, <3>2 DEF Has, Match
  <2> QED BY <1>1, <2>1, <2>2 DEF Unmarked, OnLedger
<1>8. Abandoned' = Abandoned
  BY DEF Abandoned
<1>9. repeats' + Owed' <= faults'
  BY <1>7, <1>8, Counters DEF PaidInv, Owed
<1> QED BY <1>4, <1>6, <1>9 DEF PaidInv

\* A row that is marked was the last that anything was owed for.
LEMMA PaidMark == TypeInv /\ TypeInv' /\ PaidInv /\ MarkAnchored => PaidInv'
<1> SUFFICES ASSUME TypeInv, TypeInv', PaidInv, MarkAnchored PROVE PaidInv'
  OBVIOUS
<1>1. pc = "recorded" /\ sent \in Recorded /\ sent.stream \in Stream
  BY DEF MarkAnchored, TypeInv, InFlight, Recorded
<1>2. /\ orphans = {} /\ UNCHANGED <<ledger, orphans, repeats, faults>> /\ pc' = "idle"
      /\ item \in DOMAIN queue /\ ~queue[item].anchored /\ Before(item)
  BY <1>1 DEF MarkAnchored, Return, Goto, chainVars, boundVars, PaidInv, TypeInv, InFlight, Before
<1>3. /\ DOMAIN queue' = DOMAIN queue /\ queue'[item].anchored
      /\ \A i \in DOMAIN queue :
           /\ queue'[i].stream = queue[i].stream /\ queue'[i].hash = queue[i].hash
           /\ i # item => queue'[i] = queue[i]
  BY WhatIsMarked
<1>4. DOMAIN queue = 1..Len(queue) /\ Len(queue) \in Nat
  BY DEF TypeInv, TypeOK
<1>5. Unique'
  BY <1>3 DEF PaidInv, Unique, Match
<1>6. ASSUME NEW j \in DOMAIN queue, Before(j) PROVE Before(j)'
  <2>1. \A k \in 1..(j - 1) : k \in DOMAIN queue
    BY <1>4
  <2> QED BY <1>3, <1>6, <2>1 DEF Before
<1>7. LedgerInOrder'
  <2> SUFFICES ASSUME NEW e \in ledger, e.stream \in Stream
               PROVE  \E j \in DOMAIN queue' : Match(j, e)' /\ Before(j)'
    BY <1>2 DEF LedgerInOrder
  <2>1. PICK j \in DOMAIN queue : Match(j, e) /\ Before(j)
    BY DEF PaidInv, LedgerInOrder
  <2>2. Match(j, e)'
    BY <1>3, <2>1 DEF Match
  <2> QED BY <1>3, <1>6, <2>1, <2>2
<1>8. ~Unmarked'
  <2> SUFFICES ASSUME NEW j \in DOMAIN queue, ~queue'[j].anchored, NEW e \in ledger,
                      e.stream = queue'[j].stream, e.hash = queue'[j].hash
               PROVE  FALSE
    BY <1>2, <1>3 DEF Unmarked, OnLedger
  <2>1. j # item /\ queue'[j] = queue[j] /\ queue[j].stream \in Stream
    BY <1>3, RowsInStream
  <2>2. PICK i \in DOMAIN queue : Match(i, e) /\ Before(i)
    BY <2>1 DEF PaidInv, LedgerInOrder
  <2>3. i = j
    BY <2>1, <2>2 DEF PaidInv, Unique, Match
  <2>4. CASE item < j
    BY <1>2, <1>4, <2>2, <2>3, <2>4 DEF Before
  <2>5. CASE j < item
    BY <1>2, <1>4, <2>1, <2>5 DEF Before
  <2> QED BY <1>2, <1>4, <2>1, <2>4, <2>5
<1>9. ~Abandoned' /\ OrphansFirst'
  BY <1>2 DEF Abandoned, OrphansFirst
<1>10. repeats' + Owed' <= faults'
  BY <1>2, <1>8, <1>9, Counters DEF PaidInv, Owed
<1> QED BY <1>2, <1>5, <1>7, <1>9, <1>10 DEF PaidInv

\* An inclusion pays what was owed for its row and owes no more than before.
LEMMA PaidInclude == TypeInv /\ TypeInv' /\ PaidInv /\ Include => PaidInv'
<1> SUFFICES ASSUME TypeInv, TypeInv', PaidInv, Include PROVE PaidInv'
  OBVIOUS
<1>1. /\ pc = "sent" /\ pc' = "recorded" /\ ledger' = ledger \cup {sent} /\ orphans' = {}
      /\ repeats' = IF sent.stream \in Stream /\ OnLedger(sent.stream, sent.hash)
                    THEN repeats + 1 ELSE repeats
      /\ UNCHANGED <<queue, sent, item, faults>>
  BY DEF Include, Goto, dbVars
<1>2. sent.stream \in Stream => /\ item \in DOMAIN queue /\ Match(item, sent) /\ Before(item)
                                /\ ~queue[item].anchored
  BY <1>1 DEF TypeInv, InFlight, Match, Before
<1>3. Unique' /\ OrphansFirst' /\ ~Abandoned'
  BY <1>1 DEF PaidInv, Unique, Match, OrphansFirst, Abandoned
<1>4. LedgerInOrder'
  BY <1>1, <1>2 DEF PaidInv, LedgerInOrder, Match, Before
<1>5. CASE sent.stream \in Stream
  <2>1. ~Unmarked'
    BY <1>1, <1>5 DEF Unmarked, Marking
  <2>2. OnLedger(sent.stream, sent.hash) => Unmarked
    BY <1>1, <1>2, <1>5 DEF Unmarked, Marking, Match
  <2>3. repeats' + Owed' <= faults'
    BY <1>1, <1>3, <2>1, <2>2, Counters DEF PaidInv, Owed
  <2> QED BY <1>1, <1>3, <1>4, <2>3 DEF PaidInv
<1>6. CASE sent.stream \notin Stream
  <2>1. \A j \in DOMAIN queue : queue[j].stream \in Stream
    BY RowsInStream
  <2>2. Unmarked' => Unmarked
    BY <1>1, <1>6, <2>1 DEF Unmarked, Marking, OnLedger
  <2>3. repeats' + Owed' <= faults'
    BY <1>1, <1>3, <1>6, <2>2, Counters DEF PaidInv, Owed
  <2> QED BY <1>1, <1>3, <1>4, <2>3 DEF PaidInv
<1> QED BY <1>5, <1>6

LEMMA PaidOrphan == TypeInv /\ TypeInv' /\ PaidInv /\ IncludeOrphan => PaidInv'
<1> SUFFICES ASSUME TypeInv, TypeInv', PaidInv, IncludeOrphan PROVE PaidInv'
  OBVIOUS
<1>1. PICK tx \in orphans :
        /\ ledger' = ledger \cup {tx}
        /\ repeats' = IF tx.stream \in Stream /\ OnLedger(tx.stream, tx.hash)
                      THEN repeats + 1 ELSE repeats
  BY DEF IncludeOrphan
<1>2. pc # "recorded" /\ pc' # "recorded" /\ orphans' = {} /\ UNCHANGED <<queue, faults>>
  BY <1>1 DEF IncludeOrphan, Goto, dbVars, PaidInv
<1>3. tx.stream \in Stream =>
        \E j \in DOMAIN queue : Match(j, tx) /\ Before(j) /\ ~queue[j].anchored
  BY DEF PaidInv, OrphansFirst
<1>4. Unique' /\ OrphansFirst' /\ ~Abandoned'
  BY <1>2 DEF PaidInv, Unique, Match, OrphansFirst, Abandoned
<1>5. LedgerInOrder'
  BY <1>1, <1>2, <1>3 DEF PaidInv, LedgerInOrder, Match, Before
<1>6. CASE tx.stream \in Stream
  <2>1. Abandoned /\ (OnLedger(tx.stream, tx.hash) => Unmarked)
    BY <1>2, <1>3, <1>6 DEF Abandoned, Unmarked, Marking, Match
  <2>2. repeats' + Owed' <= faults'
    BY <1>1, <1>2, <1>4, <2>1, Counters DEF PaidInv, Owed
  <2> QED BY <1>2, <1>4, <1>5, <2>2 DEF PaidInv
<1>7. CASE tx.stream \notin Stream
  <2>1. \A j \in DOMAIN queue : queue[j].stream \in Stream
    BY RowsInStream
  <2>2. Unmarked' => Unmarked
    BY <1>1, <1>2, <1>7, <2>1 DEF Unmarked, Marking, OnLedger
  <2>3. repeats' + Owed' <= faults'
    BY <1>1, <1>2, <1>4, <1>7, <2>2, Counters DEF PaidInv, Owed
  <2> QED BY <1>2, <1>4, <1>5, <2>3 DEF PaidInv
<1> QED BY <1>6, <1>7

\* A fault pays for what it may cause to be recorded again.
LEMMA PaidFault == TypeInv /\ TypeInv' /\ PaidInv /\ (Throw \/ Crash) => PaidInv'
<1> SUFFICES ASSUME TypeInv, TypeInv', PaidInv, Throw \/ Crash PROVE PaidInv'
  OBVIOUS
<1>1. /\ orphans' = orphans \cup GivenUp /\ faults' = faults + 1 /\ pc' # "recorded"
      /\ UNCHANGED <<queue, ledger, repeats>>
  BY DEF Throw, Crash, Return, Goto, dbVars
<1>2. Unique' /\ LedgerInOrder'
  BY <1>1 DEF PaidInv, Unique, LedgerInOrder, Match, Before
<1>3. OrphansFirst'
  <2>1. \A o \in GivenUp : o.stream \in Stream =>
            \E j \in DOMAIN queue : Match(j, o) /\ Before(j) /\ ~queue[j].anchored
    BY DEF GivenUp, TypeInv, InFlight, Match, Before
  <2> QED BY <1>1, <2>1 DEF PaidInv, OrphansFirst, Match, Before
<1>4. repeats' + Owed' <= faults'
  <2>1. CASE pc = "sent"
    <3>1. Unmarked' => Unmarked
      BY <1>1, <2>1 DEF Unmarked, Marking, OnLedger
    <3> QED BY <1>1, <3>1, Counters DEF PaidInv, Owed
  <2>2. CASE pc = "recorded"
    <3>1. ~Abandoned /\ ~Abandoned'
      BY <1>1, <2>2 DEF PaidInv, Abandoned, GivenUp
    <3> QED BY <1>1, <3>1, Counters DEF PaidInv, Owed
  <2>3. CASE pc \notin {"sent", "recorded"}
    <3>1. Unmarked' => Unmarked
      BY <1>1, <2>3 DEF Unmarked, Marking, OnLedger
    <3>2. Abandoned' => Abandoned
      BY <1>1, <2>3 DEF Abandoned, GivenUp
    <3> QED BY <1>1, <3>1, <3>2, Counters DEF PaidInv, Owed
  <2> QED BY <2>1, <2>2, <2>3
<1> QED BY <1>1, <1>2, <1>3, <1>4 DEF PaidInv

LEMMA PaidStep == TypeInv /\ TypeInv' /\ PaidInv /\ [Next]_vars => PaidInv'
<1> SUFFICES ASSUME TypeInv, TypeInv', PaidInv, [Next]_vars PROVE PaidInv'
  OBVIOUS
<1>a. faults \in Nat /\ faults' \in Nat
  BY Counters, BoundAssumption DEF TypeInv, TypeOK
<1>1. CASE EnsureMetadata
  <2>1. faults <= faults' /\ pc = "idle" /\ pc' # "recorded"
        /\ UNCHANGED <<queue, ledger, repeats, orphans>>
    BY <1>1, <1>a DEF EnsureMetadata, ProbeAnswers, Goto, chainVars
  <2> QED BY <2>1, PaidKept DEF Marking
<1>2. CASE Latch \/ MarkReanchorSeeded \/ Gather \/ Boot \/ ThrowRefused \/ DripOne
  BY <1>2, <1>a, PaidKept DEF Latch, MarkReanchorSeeded, Gather, Boot, ThrowRefused, DripOne,
     Return, Goto, dbVars, chainVars, boundVars, Marking
<1>3. ASSUME NEW tree \in Tree, RecordTree(tree) PROVE PaidInv'
  <2>1. UNCHANGED <<queue, ledger, repeats, orphans, faults>> /\ pc # "recorded" /\ pc' # "recorded"
    BY <1>3 DEF RecordTree, AfterRoot, AfterBeat, Goto, dbVars, chainVars, boundVars, Tree
  <2> QED BY <2>1, <1>a, PaidKept DEF Marking
<1>4. CASE StoreAnchor
  <2>1. UNCHANGED <<queue, ledger, repeats, orphans, faults>> /\ sent.stream \notin Stream
        /\ pc' # "recorded"
    BY <1>4 DEF StoreAnchor, AfterRoot, AfterBeat, Goto, chainVars, boundVars, Tree, Stream
  <2> QED BY <2>1, <1>a, PaidKept DEF Marking
<1>5. CASE DropOrphans \/ Upgrade \/ IntervalElapses
  <2>1. UNCHANGED <<queue, ledger, repeats, faults, pc, sent>> /\ orphans' \subseteq orphans
    BY <1>5 DEF DropOrphans, Upgrade, IntervalElapses, dbVars, chainVars, boundVars, writerVars
  <2> QED BY <2>1, <1>a, PaidKept DEF Marking
<1>6. ASSUME NEW tree, NEW leaf, Publish(tree, leaf) PROVE PaidInv'
  <2>1. UNCHANGED <<queue, ledger, repeats, faults, pc, sent, orphans>>
    BY <1>6 DEF Publish, chainVars, writerVars
  <2> QED BY <2>1, <1>a, PaidKept DEF Marking
<1>7. CASE UNCHANGED vars
  <2>1. UNCHANGED <<queue, ledger, repeats, faults, pc, sent, orphans>>
    BY <1>7 DEF vars, dbVars, chainVars, boundVars, writerVars
  <2> QED BY <2>1, <1>a, PaidKept DEF Marking
<1>8. CASE SeedReanchorBacklog
  <2>1. Enqueued(queue', "reanchor", Seedable) /\ "reanchor" \in Stream
    BY <1>8, WhatIsEnqueued DEF Stream
  <2>2. UNCHANGED <<ledger, orphans, repeats, faults>> /\ pc # "recorded" /\ pc' # "recorded"
    BY <1>8 DEF SeedReanchorBacklog, Goto, chainVars, boundVars
  <2> QED BY <2>1, <2>2, PaidGrown DEF Marking
<1>9. ASSUME NEW tree \in Tree, EnqueueLeaves(tree) PROVE PaidInv'
  <2>1. Enqueued(queue', LeafStream[tree], LeafHashes(snap[tree])) /\ LeafStream[tree] \in Stream
    BY <1>9, WhatIsEnqueued DEF Stream, LeafStream, Tree
  <2>2. UNCHANGED <<ledger, orphans, repeats, faults>> /\ pc # "recorded" /\ pc' # "recorded"
    BY <1>9 DEF EnqueueLeaves, AfterBeat, Goto, chainVars, boundVars, FilePC, Tree
  <2> QED BY <2>1, <2>2, PaidGrown DEF Marking
<1>10. ASSUME NEW r \in Receipt, ReceiptArrives(r) PROVE PaidInv'
  <2>1. Enqueued(queue', "fulfilment", {{r}}) /\ "fulfilment" \in Stream
    BY <1>10, WhatIsEnqueued DEF Stream
  <2>2. UNCHANGED <<ledger, orphans, repeats, faults, pc, sent>>
    BY <1>10 DEF ReceiptArrives, chainVars, writerVars
  <2> QED BY <2>1, <2>2, PaidGrown DEF Marking
<1> QED
  BY <1>1, <1>2, <1>3, <1>4, <1>5, <1>6, <1>7, <1>8, <1>9, <1>10, PaidMark, PaidInclude,
     PaidOrphan, PaidFault
  DEF Next, Writer, Environment

\* The drip records an item again only after a fault, and once for each.
THEOREM RepeatsPaidFor == Spec => []RepeatsArePaidFor
<1>1. Init => PaidInv
  BY DEF Init, PaidInv, Unique, LedgerInOrder, OrphansFirst, Owed, Unmarked, Abandoned
<1>2. TypeInv /\ PaidInv => RepeatsArePaidFor
  BY Counters DEF PaidInv, Owed, RepeatsArePaidFor
<1> QED BY <1>1, <1>2, Typed, PaidStep, PTL DEF Spec

---------------------------------------------------------------------------
(* The feed.  VerdictsAreSignalled speaks of an idle go-ooo only; the      *)
(* induction needs what a poll in progress knows: until something is       *)
(* written, the rows it has read are the rows there are.                   *)

(* A pair go-ooo holds wrongly was judged later than what go-ooo holds.    *)
DifferencesAreDated ==
    "held" \notin missed =>
        \A p \in Pair : (p \in goooo.copy) # (p \in Exported) => pairs[p].verdictAt = "later"

(* Nothing written since the rows were read: they are still the rows.      *)
AnswerIsCurrent ==
    goooo.pc = "answer" /\ "coming" \notin missed => goooo.got = Exported

(* What a dated write tells go-ooo's bookkeeping.                          *)
LEMMA DatedWrite ==
    ASSUME NEW time, Dated(time), missed \subseteq {"held", "coming"}
    PROVE  /\ missed' \subseteq {"held", "coming"}
           /\ "held" \in missed' <=> "held" \in missed \/ time = "held"
           /\ "coming" \in missed' <=> "coming" \in missed \/ goooo.pc = "answer"
BY DEF Dated

(* A verdict written keeps the rows' type, and only its own row changes.    *)
LEMMA VerdictWrite ==
    ASSUME NEW p \in Pair, NEW time \in Times, FeedTypeOK, WriteVerdict(p, time)
    PROVE  /\ pairs' \in [Pair -> [status : Statuses, lastChecked : Times, verdictAt : Times]]
           /\ pairs'[p].verdictAt = time
           /\ \A q \in Pair \ {p} : pairs'[q] = pairs[q]
           /\ Dated(time)
<1>1. PICK verdict \in Outcomes :
         pairs' = [pairs EXCEPT ![p] = [pairs[p] EXCEPT !.status = verdict, !.verdictAt = time]]
  BY DEF WriteVerdict
<1> DEFINE row == [pairs[p] EXCEPT !.status = verdict, !.verdictAt = time]
<1>2. /\ row \in [status : Statuses, lastChecked : Times, verdictAt : Times]
      /\ row.verdictAt = time
  BY DEF FeedTypeOK, Outcomes, Statuses
<1>3. pairs' = [pairs EXCEPT ![p] = row]
  BY <1>1
<1> HIDE DEF row
<1> QED
  BY <1>2, <1>3 DEF FeedTypeOK, WriteVerdict

(* Every variable keeps its type.                                          *)
THEOREM FeedTypeCorrect == FeedSpec => []FeedTypeOK
<1>1. FeedInit => FeedTypeOK
  BY Bounds DEF FeedInit, FeedTypeOK, Exported, Statuses, Verified, Times
<1>2. FeedTypeOK /\ [FeedNext]_feedVars => FeedTypeOK'
  <2> SUFFICES ASSUME FeedTypeOK, [FeedNext]_feedVars PROVE FeedTypeOK'
    OBVIOUS
  <2> USE Bounds DEF FeedTypeOK, Times
  <2>1. ASSUME NEW r \in Pass, BeginIngest(r) PROVE FeedTypeOK'
    BY <2>1 DEF BeginIngest, Idle
  <2>2. ASSUME NEW r \in Pass, BeginRejudging(r) PROVE FeedTypeOK'
    BY <2>2 DEF BeginRejudging, Idle
  <2>3. ASSUME NEW r \in Pass, CrashPass(r) PROVE FeedTypeOK'
    BY <2>3 DEF CrashPass
  <2>4. ASSUME NEW r \in Pass, NEW p \in Pair, UpsertPair(r, p) PROVE FeedTypeOK'
    <3>1. passes[r].now \in Times
      OBVIOUS
    <3>2. pairs' \in [Pair -> [status : Statuses, lastChecked : Times, verdictAt : Times]]
      BY <2>4, <3>1 DEF UpsertPair
    <3>3. passes' \in [Pass -> [now : Times, pools : SUBSET Pair, judge : SUBSET Pair]]
      BY <2>4 DEF UpsertPair
    <3>4. missed' \subseteq {"held", "coming"}
      BY <2>4, <3>1, DatedWrite DEF UpsertPair
    <3> QED
      BY <2>4, <3>2, <3>3, <3>4 DEF UpsertPair
  <2>5. ASSUME NEW r \in Pass, NEW p \in Pair, Judge(r, p) PROVE FeedTypeOK'
    <3>1. passes' \in [Pass -> [now : Times, pools : SUBSET Pair, judge : SUBSET Pair]]
      BY <2>5 DEF Judge
    <3>2. CASE pairs[p].status \in Manual
      BY <2>5, <3>1, <3>2 DEF Judge
    <3>3. CASE pairs[p].status \notin Manual
      <4>1. passes[r].now \in Times
        OBVIOUS
      <4>2. WriteVerdict(p, passes[r].now)
        BY <2>5, <3>3 DEF Judge
      <4>3. Dated(passes[r].now)
        BY <4>2 DEF WriteVerdict
      <4>4. missed' \subseteq {"held", "coming"}
        BY <4>1, <4>3, DatedWrite
      <4>5. pairs' \in [Pair -> [status : Statuses, lastChecked : Times, verdictAt : Times]]
        BY <4>1, <4>2, VerdictWrite
      <4> QED
        BY <2>5, <3>1, <4>4, <4>5 DEF Judge
    <3> QED
      BY <3>2, <3>3
  <2>6. ASSUME NEW p \in Pair, RescanPair(p) PROVE FeedTypeOK'
    BY <2>6, VerdictWrite, DatedWrite DEF RescanPair
  <2>7. ASSUME NEW p \in Pair, OperatorDecides(p) PROVE FeedTypeOK'
    <3>1. pairs' \in [Pair -> [status : Statuses, lastChecked : Times, verdictAt : Times]]
      BY <2>7 DEF OperatorDecides
    <3>2. decisions' \in 0..MaxDecisions
      BY <2>7 DEF OperatorDecides
    <3> QED
      BY <2>7, <3>1, <3>2 DEF OperatorDecides
  <2>8. CASE Poll
    BY <2>8 DEF Poll
  <2>9. CASE FirstPoll
    BY <2>9 DEF FirstPoll
  <2>10. CASE ReadRows
    BY <2>10 DEF ReadRows, Exported
  <2>11. CASE Answer
    BY <2>11 DEF Answer
  <2>12. CASE Fail
    BY <2>12 DEF Fail
  <2>13. CASE Tick
    BY <2>13 DEF Tick
  <2>14. CASE UNCHANGED feedVars
    BY <2>14 DEF feedVars
  <2> QED
    BY <2>1, <2>2, <2>3, <2>4, <2>5, <2>6, <2>7, <2>8, <2>9, <2>10, <2>11,
       <2>12, <2>13, <2>14 DEF FeedNext
<1> QED
  BY <1>1, <1>2, PTL DEF FeedSpec

(* A verdict dated later than go-ooo's download is never hidden by a 304,  *)
(* unless an earlier date or the operator wrote since: for any pairs, any  *)
(* number of passes at once, and crashes and failed polls at will.         *)
THEOREM VerdictsSignalled == FeedSpec => []VerdictsAreSignalled
<1> DEFINE Facts == DifferencesAreDated /\ AnswerIsCurrent
<1>1. FeedInit => Facts
  BY DEF FeedInit, DifferencesAreDated, AnswerIsCurrent
<1>2. FeedTypeOK /\ Facts /\ [FeedNext]_feedVars => Facts'
  <2> SUFFICES ASSUME FeedTypeOK, Facts, [FeedNext]_feedVars PROVE Facts'
    OBVIOUS
  <2> USE DEF DifferencesAreDated, AnswerIsCurrent
  <2>1. ASSUME UNCHANGED <<pairs, missed, goooo>> PROVE Facts'
    BY <2>1 DEF Exported
  <2>2. ASSUME NEW r \in Pass, NEW p \in Pair, UpsertPair(r, p) PROVE Facts'
    <3>1. \A q \in Pair : /\ pairs'[q].status = pairs[q].status
                          /\ pairs'[q].verdictAt = pairs[q].verdictAt
      BY <2>2 DEF UpsertPair, FeedTypeOK
    <3>2. Exported' = Exported
      BY <3>1 DEF Exported
    <3> QED
      BY <2>2, <3>1, <3>2, DatedWrite DEF UpsertPair, FeedTypeOK
  <2>3. ASSUME NEW p \in Pair, NEW time \in Times, WriteVerdict(p, time), UNCHANGED goooo
        PROVE  Facts'
    <3> USE VerdictWrite, DatedWrite
    <3>1. ASSUME "held" \notin missed'
          PROVE  time = "later" /\ "held" \notin missed
      BY <2>3, <3>1 DEF FeedTypeOK, Times
    <3>2. \A q \in Pair \ {p} : /\ pairs'[q].verdictAt = pairs[q].verdictAt
                                /\ q \in Exported' <=> q \in Exported
      BY <2>3 DEF Exported
    <3>3. ASSUME "held" \notin missed', NEW q \in Pair, (q \in goooo'.copy) # (q \in Exported')
          PROVE  pairs'[q].verdictAt = "later"
      BY <2>3, <3>1, <3>2, <3>3
    <3>4. AnswerIsCurrent'
      BY <2>3 DEF FeedTypeOK
    <3> QED
      BY <3>3, <3>4
  <2>4. ASSUME NEW r \in Pass, NEW p \in Pair, Judge(r, p) PROVE Facts'
    <3>1. passes[r].now \in Times
      BY DEF FeedTypeOK
    <3>2. CASE pairs[p].status \in Manual
      BY <2>1, <2>4, <3>2 DEF Judge
    <3>3. CASE pairs[p].status \notin Manual
      BY <2>3, <2>4, <3>1, <3>3 DEF Judge
    <3> QED
      BY <3>2, <3>3
  <2>5. ASSUME NEW p \in Pair, RescanPair(p) PROVE Facts'
    BY <2>3, <2>5 DEF RescanPair, FeedTypeOK
  <2>6. ASSUME NEW p \in Pair, OperatorDecides(p) PROVE Facts'
    BY <2>6 DEF OperatorDecides
  <2>7. CASE Poll
    BY <2>7 DEF Poll, Exported, FeedTypeOK
  <2>8. CASE FirstPoll
    BY <2>8 DEF FirstPoll, Exported, FeedTypeOK
  <2>9. CASE ReadRows
    BY <2>9 DEF ReadRows, Exported, FeedTypeOK
  <2>10. CASE Answer
    <3>1. \A q \in Pair : pairs'[q].status = pairs[q].status
      BY <2>10 DEF Answer, FeedTypeOK
    <3>2. Exported' = Exported
      BY <3>1 DEF Exported
    <3>3. goooo'.pc = "idle" /\ goooo'.copy = goooo.got
      BY <2>10 DEF Answer
    <3>4. "held" \in missed' <=> "coming" \in missed
      BY <2>10 DEF Answer
    <3>5. goooo.pc = "answer"
      BY <2>10 DEF Answer
    <3> QED
      BY <3>2, <3>3, <3>4, <3>5
  <2>11. CASE Fail
    BY <2>11 DEF Fail, Exported, FeedTypeOK
  <2>12. ASSUME NEW r \in Pass, BeginIngest(r) \/ BeginRejudging(r) \/ CrashPass(r) PROVE Facts'
    BY <2>1, <2>12 DEF BeginIngest, BeginRejudging, CrashPass
  <2>13. CASE Tick \/ UNCHANGED feedVars
    BY <2>1, <2>13 DEF Tick, feedVars
  <2> QED
    BY <2>2, <2>4, <2>5, <2>6, <2>7, <2>8, <2>9, <2>10, <2>11, <2>12, <2>13 DEF FeedNext
<1>3. FeedTypeOK /\ Facts => VerdictsAreSignalled
  BY DEF FeedTypeOK, DifferencesAreDated, VerdictsAreSignalled, Stale, ModifiedSince, Stamps, Exported
<1> QED
  BY <1>1, <1>2, <1>3, FeedTypeCorrect, PTL DEF FeedSpec
===========================================================================
