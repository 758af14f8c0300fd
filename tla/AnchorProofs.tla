---------------------------- MODULE AnchorProofs ----------------------------
(***************************************************************************)
(* What a snapshot answered from memory is worth, for every set of pairs,  *)
(* tokens, passes and calls (lib/anchor.ts).  The watermark is a maximum,  *)
(* so its lemma comes first: a finite set of pairs has one dated last.     *)
(* Then what a root and a proof are worth, for every set of rows           *)
(* (lib/merkle.ts, lib/merkleVerify.ts).                                   *)
(***************************************************************************)
EXTENDS Anchor, Merkle, FiniteSetTheorems, SequenceTheorems, WellFoundedInduction, TLAPS

---------------------------------------------------------------------------
(* The watermark. *)

\* Some pair is dated no earlier than any other (lib/export.ts, pairsModifiedAt).
LEMMA SomeLatest ==
    ASSUME NEW d \in [Pair -> Nat]
    PROVE  \E q \in Pair : \A p \in Pair : d[q] >= d[p]
<1> DEFINE Above(q) == {p \in Pair : d[p] > d[q]}
           T == {Above(q) : q \in Pair}
           R == StrictSubsetOrdering(Pair)
<1>1. FiniteSubsetsOf(Pair) = SUBSET Pair /\ Pair # {}
  BY FS_FiniteSubsetsOfFinite, AnchorAssumption
<1>2. IsWellFoundedOn(R, SUBSET Pair)
  BY <1>1, FS_StrictSubsetOrderingWellFounded
<1>3. T \subseteq SUBSET Pair /\ T # {}
  <2>1. \A q \in Pair : Above(q) \in SUBSET Pair
    OBVIOUS
  <2>2. PICK q \in Pair : TRUE
    BY <1>1
  <2> HIDE DEF Above
  <2>3. Above(q) \in T
    OBVIOUS
  <2> QED BY <2>1, <2>3
<1>4. \E x \in T : \A y \in T : ~ (<<y, x>> \in R)
  <2> DEFINE S == SUBSET Pair
  <2>1. IsWellFoundedOn(R, S) /\ T \subseteq S /\ T # {}
    BY <1>2, <1>3
  <2> HIDE DEF R, S, T
  <2> QED BY <2>1, WFMin, Zenon
<1>5. PICK q \in Pair : \A t \in T : ~ (<<t, Above(q)>> \in R)
  <2> HIDE DEF R
  <2> QED BY <1>4
<1>6. Above(q) = {}
  <2> SUFFICES ASSUME NEW p \in Above(q) PROVE FALSE
    OBVIOUS
  <2>1. Above(p) \subseteq Above(q)
    OBVIOUS
  <2>2. p \in Above(q) /\ p \notin Above(p)
    OBVIOUS
  <2>3. <<Above(p), Above(q)>> \in R
    <3>1. Above(p) \in SUBSET Pair /\ Above(q) \in SUBSET Pair /\ Above(p) # Above(q)
      BY <2>2
    <3> HIDE DEF Above
    <3> QED BY <2>1, <3>1 DEF StrictSubsetOrdering
  <2>4. Above(p) \in T
    OBVIOUS
  <2> HIDE DEF T, R, Above
  <2> QED BY <2>3, <2>4, <1>5
<1> QED BY <1>6

\* The watermark is the date of a pair, and no pair is dated after it.
LEMMA WatermarkIsLatest ==
    ASSUME NEW d \in [Pair -> Nat]
    PROVE  Max(Range(d)) \in Nat /\ \A p \in Pair : Max(Range(d)) >= d[p]
<1>1. PICK q \in Pair : \A p \in Pair : d[q] >= d[p]
  BY SomeLatest
<1>2. d[q] \in Range(d) /\ \A y \in Range(d) : d[q] >= y
  BY <1>1 DEF Range
<1>3. Max(Range(d)) \in Range(d) /\ \A y \in Range(d) : Max(Range(d)) >= y
  BY <1>2 DEF Max
<1> QED BY <1>3 DEF Range

---------------------------------------------------------------------------
(* The types. *)

THEOREM TypeCorrect == Spec => []TypeOK
<1>1. Init => TypeOK
  BY DEF Init, TypeOK, Tree, Items, NoPass, None, Idle
<1>2. TypeOK /\ [Next]_vars => TypeOK'
  <2> SUFFICES ASSUME TypeOK, [Next]_vars PROVE TypeOK'
    OBVIOUS
  <2> USE DEF TypeOK
  <2>1. Watermark \in Nat
    BY WatermarkIsLatest DEF Watermark
  <2>2. ASSUME NEW date \in Nat, Missing(date)
        PROVE  /\ memo' \in [known : BOOLEAN, key : Nat, root : SUBSET (Pair \cup Token),
                             missed : BOOLEAN]
               /\ reads' \in [Reader -> [pc : {"idle", "rows", "store"}, wm : Nat,
                              root : SUBSET (Pair \cup Token), missed : BOOLEAN]]
    <3> DEFINE Read == [pc : {"idle", "rows", "store"}, wm : Nat,
                        root : SUBSET (Pair \cup Token), missed : BOOLEAN]
    <3>1. memo' \in [known : BOOLEAN, key : Nat, root : SUBSET (Pair \cup Token), missed : BOOLEAN]
      BY <2>2 DEF Missing
    <3>2. ASSUME NEW r \in Reader, NEW m \in BOOLEAN
          PROVE  [reads[r] EXCEPT !.missed = m] \in Read
      OBVIOUS
    <3>3. reads' \in [Reader -> Read]
      <4> HIDE DEF Read
      <4> QED BY <2>2, <3>2, Zenon DEF Missing
    <3> QED BY <3>1, <3>3
  <2>3. ASSUME NEW x \in Pair \cup Token, Judged(x) PROVE verified' \subseteq Pair \cup Token
    BY <2>3 DEF Judged
  <2>4. ASSUME NEW r \in Pass, NEW all \in SUBSET Pair, Begin(r, all) PROVE TypeOK'
    BY <2>4 DEF Begin
  <2>5. ASSUME NEW r \in Pass, NEW p \in Pair, Write(r, p) PROVE TypeOK'
    <3>1. passes[r].now \in Nat
      OBVIOUS
    <3>2. dates' \in [Pair -> Nat] /\ passes' \in [Pass -> [now : Nat, todo : SUBSET Pair, tokens : BOOLEAN]]
      BY <2>5, <3>1 DEF Write, Dated
    <3> QED BY <2>5, <3>1, <3>2, <2>2, <2>3 DEF Write, Dated
  <2>6. ASSUME NEW r \in Pass, NEW k \in Token, Retoken(r, k) PROVE TypeOK'
    BY <2>6, <2>2, <2>3 DEF Retoken, Undated
  <2>7. ASSUME NEW r \in Pass, EndPass(r) \/ CrashPass(r) PROVE TypeOK'
    <3>1. NoPass \in [now : Nat, todo : SUBSET Pair, tokens : BOOLEAN]
      BY DEF NoPass
    <3>2. /\ passes' = [passes EXCEPT ![r] = NoPass]
          /\ UNCHANGED <<tree, clock, dates, verified, memo, reads>>
      BY <2>7 DEF EndPass, CrashPass
    <3> QED BY <3>1, <3>2
  <2>8. ASSUME NEW p \in Pair, Rescan(p) \/ SetPairStatus(p) PROVE TypeOK'
    BY <2>8, <2>2, <2>3 DEF Rescan, SetPairStatus, Dated, Undated
  <2>9. ASSUME NEW k \in Token, SetTokenStatus(k) PROVE TypeOK'
    BY <2>9, <2>2 DEF SetTokenStatus, Undated
  <2>10. ASSUME NEW k \in Token, NEW ps \in SUBSET Pair, Cascade(k, ps) PROVE TypeOK'
    BY <2>10, <2>2 DEF Cascade, Undated
  <2>11. ASSUME NEW r \in Reader, Call(r) PROVE TypeOK'
    <3> DEFINE Read == [pc : {"idle", "rows", "store"}, wm : Nat,
                        root : SUBSET (Pair \cup Token), missed : BOOLEAN]
    <3>1. CASE ReadWatermark(r)
      <4>1. [reads[r] EXCEPT !.pc = "rows", !.wm = Watermark] \in Read
        BY <2>1
      <4>2. reads' \in [Reader -> Read]
        BY <3>1, <4>1 DEF ReadWatermark
      <4> QED BY <3>1, <4>2 DEF ReadWatermark
    <3>2. CASE ReadRows(r)
      <4>1. [reads[r] EXCEPT !.pc = "store", !.root = verified] \in Read
        OBVIOUS
      <4>2. reads' \in [Reader -> Read]
        BY <3>2, <4>1 DEF ReadRows
      <4> QED BY <3>2, <4>2 DEF ReadRows
    <3>3. CASE Store(r)
      BY <3>3 DEF Store, KeyOf, Idle
    <3> QED BY <2>11, <3>1, <3>2, <3>3 DEF Call
  <2>12. CASE Restart
    BY <2>12 DEF Restart, None, Idle
  <2>13. CASE Tick
    BY <2>13, AnchorAssumption DEF Tick
  <2>14. CASE UNCHANGED vars
    BY <2>14 DEF vars
  <2> QED
    BY <2>4, <2>5, <2>6, <2>7, <2>8, <2>9, <2>10, <2>11, <2>12, <2>13, <2>14 DEF Next, Work
<1> QED BY <1>1, <1>2, PTL DEF Spec

---------------------------------------------------------------------------
(* The memo.  A root whose rows were read after its watermark is one of    *)
(* three things as long as it is kept: what the database holds, or older   *)
(* than a date that moved the watermark past it, or known to have missed   *)
(* something.  A watermark can be lowered again, by a pass that began      *)
(* before the latest date: that write is dated no later than the snapshot, *)
(* and counts as missed.  Nothing else keeps a key from coming back.       *)

Dependable(root, key, missed) == missed \/ root = verified \/ key < Watermark

MemoDependable == memo.known => Dependable(memo.root, memo.key, memo.missed)

ReadsDependable ==
    \A r \in Reader :
        reads[r].pc = "store" => Dependable(reads[r].root, reads[r].wm, reads[r].missed)

\* A write dated later than every snapshot shows in the watermark, and every
\* other write marks the snapshots that cannot show it.
LEMMA WriteKeepsDependable ==
    ASSUME TypeOK, MemoDependable, ReadsDependable, NEW date \in Nat, Missing(date),
           \/ date = 0
           \/ dates' \in [Pair -> Nat] /\ \E p \in Pair : dates'[p] = date
    PROVE  MemoDependable' /\ ReadsDependable'
<1>1. ASSUME NEW key \in Nat, ~(date <= key) PROVE key < Watermark'
  <2>1. dates' \in [Pair -> Nat] /\ \E p \in Pair : dates'[p] = date
    BY <1>1
  <2>2. Watermark' \in Nat /\ Watermark' >= date
    BY <2>1, WatermarkIsLatest DEF Watermark
  <2> QED BY <1>1, <2>2
<1>2. MemoDependable'
  <2>1. /\ memo'.known = memo.known /\ memo'.root = memo.root /\ memo'.key = memo.key
        /\ memo'.missed = (memo.missed \/ (memo.known /\ date <= memo.key))
        /\ memo.key \in Nat
    BY DEF TypeOK, Missing
  <2> QED BY <2>1, <1>1 DEF MemoDependable, Dependable
<1>3. ReadsDependable'
  <2> SUFFICES ASSUME NEW r \in Reader, reads'[r].pc = "store"
               PROVE  Dependable(reads[r].root, reads[r].wm, reads[r].missed)'
    BY DEF ReadsDependable
  <2>1. /\ reads'[r].pc = reads[r].pc /\ reads'[r].root = reads[r].root /\ reads'[r].wm = reads[r].wm
        /\ reads'[r].missed = (reads[r].missed \/ (reads[r].pc = "store" /\ date <= reads[r].wm))
        /\ reads[r].wm \in Nat
    BY DEF TypeOK, Missing
  <2> QED BY <2>1, <1>1 DEF Dependable
<1> QED BY <1>2, <1>3

\* The two parts hold always.
THEOREM SnapshotsDependable == Spec => [](MemoDependable /\ ReadsDependable)
<1>1. Init => MemoDependable /\ ReadsDependable
  BY DEF Init, None, Idle, MemoDependable, ReadsDependable
<1>2. TypeOK /\ MemoDependable /\ ReadsDependable /\ [Next]_vars
        => MemoDependable' /\ ReadsDependable'
  <2> SUFFICES ASSUME TypeOK, MemoDependable, ReadsDependable, [Next]_vars
               PROVE  MemoDependable' /\ ReadsDependable'
    OBVIOUS
  <2>1. ASSUME NEW date \in Nat, NEW p \in Pair, Dated(p, date)
        PROVE  MemoDependable' /\ ReadsDependable'
    <3>1. dates' \in [Pair -> Nat] /\ dates'[p] = date /\ Missing(date)
      BY <2>1 DEF Dated, TypeOK
    <3> QED BY <3>1, WriteKeepsDependable
  <2>2. ASSUME Undated PROVE MemoDependable' /\ ReadsDependable'
    BY <2>2, WriteKeepsDependable DEF Undated
  <2>3. ASSUME UNCHANGED <<dates, verified, memo, reads>>
        PROVE  MemoDependable' /\ ReadsDependable'
    BY <2>3 DEF MemoDependable, ReadsDependable, Dependable, Watermark
  <2>4. ASSUME NEW r \in Pass, NEW all \in SUBSET Pair, Begin(r, all)
        PROVE  MemoDependable' /\ ReadsDependable'
    BY <2>4, <2>3 DEF Begin
  <2>5. ASSUME NEW r \in Pass, EndPass(r) \/ CrashPass(r)
        PROVE  MemoDependable' /\ ReadsDependable'
    BY <2>5, <2>3 DEF EndPass, CrashPass
  <2>6. ASSUME NEW r \in Pass, NEW p \in Pair, Write(r, p)
        PROVE  MemoDependable' /\ ReadsDependable'
    <3>1. passes[r].now \in Nat
      BY DEF TypeOK
    <3> QED BY <2>6, <3>1, <2>1 DEF Write
  <2>7. ASSUME NEW r \in Pass, NEW k \in Token, Retoken(r, k)
        PROVE  MemoDependable' /\ ReadsDependable'
    BY <2>7, <2>2 DEF Retoken
  <2>8. ASSUME NEW p \in Pair, Rescan(p) \/ SetPairStatus(p)
        PROVE  MemoDependable' /\ ReadsDependable'
    BY <2>8, <2>1, <2>2 DEF Rescan, SetPairStatus, TypeOK
  <2>9. ASSUME NEW k \in Token, SetTokenStatus(k) \/ \E ps \in SUBSET Pair : Cascade(k, ps)
        PROVE  MemoDependable' /\ ReadsDependable'
    BY <2>9, <2>2 DEF SetTokenStatus, Cascade
  <2>10. ASSUME NEW r \in Reader, Call(r) PROVE MemoDependable' /\ ReadsDependable'
    <3> USE DEF TypeOK, MemoDependable, ReadsDependable, Dependable
    <3>1. CASE ReadWatermark(r)
      BY <3>1 DEF ReadWatermark, Watermark
    <3>2. CASE ReadRows(r)
      BY <3>2 DEF ReadRows, Watermark
    <3>3. CASE Store(r)
      <4>1. UNCHANGED <<dates, verified>> /\ Watermark' = Watermark
        BY <3>3 DEF Store, Watermark
      <4>2. MemoDependable'
        BY <3>3, <4>1 DEF Store, KeyOf
      <4>3. ReadsDependable'
        BY <3>3, <4>1 DEF Store, Idle
      <4> QED BY <4>2, <4>3
    <3> QED BY <2>10, <3>1, <3>2, <3>3 DEF Call
  <2>11. CASE Restart
    BY <2>11 DEF Restart, None, Idle, MemoDependable, ReadsDependable
  <2>12. CASE Tick
    BY <2>12, <2>3 DEF Tick
  <2>13. CASE UNCHANGED vars
    BY <2>13, <2>3 DEF vars
  <2> QED
    BY <2>4, <2>5, <2>6, <2>7, <2>8, <2>9, <2>10, <2>11, <2>12, <2>13 DEF Next, Work
<1> QED BY <1>1, <1>2, TypeCorrect, PTL DEF Spec

\* An answer from memory is what the database holds, but for the writes no
\* watermark shows (lib/anchor.ts:54-58).
THEOREM MemoHonest == Spec => []MemoIsHonest
<1>1. TypeOK /\ MemoDependable => MemoIsHonest
  <2> SUFFICES ASSUME TypeOK, MemoDependable, Hit, ~memo.missed PROVE memo.root = verified
    BY DEF MemoIsHonest
  <2>1. memo.known /\ memo.key = Watermark /\ Watermark \in Nat
    BY DEF Hit, TypeOK
  <2> QED BY <2>1 DEF MemoDependable, Dependable
<1> QED BY <1>1, TypeCorrect, SnapshotsDependable, PTL

---------------------------------------------------------------------------
(* The naturals.  An induction takes the least for which something fails.  *)

\* Some natural is the least of its set.
LEMMA LeastNatural ==
    ASSUME NEW S \in SUBSET Nat, S # {}
    PROVE  \E i \in S : \A j \in S : i <= j
<1> DEFINE R == OpToRel(<, Nat)
<1>1. IsWellFoundedOn(R, Nat)
  BY NatLessThanWellFounded
<1>2. \E i \in S : \A j \in S : ~ (<<j, i>> \in R)
  <2> HIDE DEF R
  <2> QED BY <1>1, WFMin, Zenon
<1>3. \A i, j \in Nat : <<j, i>> \in R <=> j < i
  BY DEF OpToRel
<1>4. \A i, j \in Nat : ~(j < i) => i <= j
  OBVIOUS
<1> HIDE DEF R
<1> QED BY <1>2, <1>3, <1>4

---------------------------------------------------------------------------
(* The levels. *)
IsLevels(g, leaves, n) ==
    g = [k \in 0 .. n |-> IF k = 0 THEN leaves ELSE NextLevel(g[k - 1])]

\* Levels can be added any number of times.
LEMMA LevelsExist ==
    ASSUME NEW leaves, NEW n \in Nat
    PROVE  \E g : IsLevels(g, leaves, n)
<1> DEFINE Bad == {m \in Nat : ~ \E g : IsLevels(g, leaves, m)}
<1> SUFFICES ASSUME Bad # {} PROVE FALSE
  OBVIOUS
<1>1. PICK m \in Bad : \A j \in Bad : m <= j
  BY LeastNatural
<1>2. CASE m = 0
  <2> DEFINE g == [k \in 0 .. 0 |-> leaves]
  <2>1. IsLevels(g, leaves, 0)
    BY DEF IsLevels
  <2> QED BY <1>2, <2>1
<1>3. CASE m # 0
  <2>1. m - 1 \in Nat /\ ~(m <= m - 1) /\ m \in Nat
    BY <1>3
  <2>2. PICK g : IsLevels(g, leaves, m - 1)
    BY <1>1, <2>1
  <2> DEFINE Value(k) == IF k = 0 THEN leaves ELSE NextLevel(g[k - 1])
             G == [k \in 0 .. m |-> Value(k)]
  <2>3. \A k \in 0 .. m - 1 : g[k] = Value(k)
    BY <2>2, Zenon DEF IsLevels
  <2>4. ASSUME NEW k \in 0 .. m
        PROVE  Value(k) = IF k = 0 THEN leaves ELSE NextLevel(G[k - 1])
    <3>1. CASE k = 0
      BY <3>1
    <3>2. CASE k # 0
      <4>1. k - 1 \in 0 .. m - 1 /\ k - 1 \in 0 .. m
        BY <2>1, <3>2
      <4>2. G[k - 1] = g[k - 1]
        <5> HIDE DEF Value
        <5> QED BY <2>3, <4>1
      <4> QED BY <3>2, <4>2
    <3> QED BY <3>1, <3>2
  <2>5. IsLevels(G, leaves, m)
    <3> HIDE DEF Value
    <3>1. G = [k \in 0 .. m |-> IF k = 0 THEN leaves ELSE NextLevel(G[k - 1])]
      BY <2>4
    <3> HIDE DEF G
    <3> QED BY <3>1 DEF IsLevels
  <2> QED BY <2>5
<1> QED BY <1>2, <1>3

\* However many are added, a level is what it is.
LEMMA LevelsAgree ==
    ASSUME NEW leaves, NEW m \in Nat, NEW n \in Nat,
           NEW g, IsLevels(g, leaves, m), NEW h, IsLevels(h, leaves, n)
    PROVE  \A k \in 0 .. m : k <= n => g[k] = h[k]
<1> DEFINE Bad == {k \in 0 .. m : k <= n /\ g[k] # h[k]}
<1> SUFFICES ASSUME Bad # {} PROVE FALSE
  OBVIOUS
<1>1. Bad \in SUBSET Nat
  OBVIOUS
<1>2. PICK k \in Bad : \A j \in Bad : k <= j
  <2> HIDE DEF Bad
  <2> QED BY <1>1, LeastNatural
<1>3. k \in 0 .. m /\ k \in 0 .. n /\ g[k] # h[k] /\ k \in Nat
  OBVIOUS
<1>4. /\ g[k] = IF k = 0 THEN leaves ELSE NextLevel(g[k - 1])
      /\ h[k] = IF k = 0 THEN leaves ELSE NextLevel(h[k - 1])
  BY <1>3, Zenon DEF IsLevels
<1>5. k # 0
  BY <1>3, <1>4
<1>6. k - 1 \in 0 .. m /\ k - 1 <= n /\ ~(k <= k - 1)
  BY <1>3, <1>5
<1>7. g[k - 1] = h[k - 1]
  BY <1>2, <1>6
<1> QED BY <1>3, <1>4, <1>5, <1>7

\* A level, from the one below.
LEMMA LevelStep ==
    ASSUME NEW leaves
    PROVE  /\ Level(leaves, 0) = leaves
           /\ \A n \in Nat : Level(leaves, n + 1) = NextLevel(Level(leaves, n))
<1> DEFINE G(n) == CHOOSE g : IsLevels(g, leaves, n)
<1>1. \A n \in Nat : Level(leaves, n) = G(n)[n]
  BY Zenon DEF Level, IsLevels
<1>2. \A n \in Nat : IsLevels(G(n), leaves, n)
  BY LevelsExist, Zenon
<1>3. ASSUME NEW n \in Nat, NEW k \in 0 .. n
      PROVE  G(n)[k] = IF k = 0 THEN leaves ELSE NextLevel(G(n)[k - 1])
  <2>1. IsLevels(G(n), leaves, n)
    BY <1>2
  <2> HIDE DEF G
  <2> QED BY <2>1, Zenon DEF IsLevels
<1> HIDE DEF G
<1>4. Level(leaves, 0) = leaves
  BY <1>1, <1>3
<1>5. ASSUME NEW n \in Nat PROVE Level(leaves, n + 1) = NextLevel(Level(leaves, n))
  <2>1. n + 1 \in Nat /\ n + 1 \in 0 .. n + 1 /\ n + 1 # 0 /\ (n + 1) - 1 = n /\ n \in 0 .. n /\ n <= n + 1
    OBVIOUS
  <2>2. G(n + 1)[n + 1] = NextLevel(G(n + 1)[n])
    BY <1>3, <2>1
  <2>3. G(n)[n] = G(n + 1)[n]
    BY <1>2, <2>1, LevelsAgree
  <2> QED BY <1>1, <2>1, <2>2, <2>3
<1> QED BY <1>4, <1>5
\* A function on the first naturals is a sequence.
LEMMA MadeSeq ==
    ASSUME NEW n \in Nat, NEW s, s = [i \in 1 .. n |-> s[i]]
    PROVE  Len(s) = n /\ \E S : s \in Seq(S)
<1> DEFINE S == {s[i] : i \in 1 .. n}
<1>1. s \in [1 .. n -> S]
  BY Zenon
<1>2. s \in Seq(S)
  <2> HIDE DEF S
  <2> QED BY <1>1
<1>3. DOMAIN s = 1 .. n /\ DOMAIN s = 1 .. Len(s) /\ Len(s) \in Nat
  <2> HIDE DEF S
  <2> QED BY <1>1, <1>2, LenProperties
<1> QED BY <1>2, <1>3

\* A level, hashed pairwise.
LEMMA NextLevelIs ==
    ASSUME NEW S, NEW level \in Seq(S)
    PROVE  /\ \E T : NextLevel(level) \in Seq(T)
           /\ Len(level) \in Nat /\ Len(NextLevel(level)) = (Len(level) + 1) \div 2
           /\ \A i \in 1 .. Len(NextLevel(level)) :
                NextLevel(level)[i] =
                  hashNode(level[2 * i - 1],
                           level[IF 2 * i <= Len(level) THEN 2 * i ELSE 2 * i - 1])
<1> DEFINE n == (Len(level) + 1) \div 2
           next == NextLevel(level)
           Node(i) == hashNode(level[2 * i - 1],
                               level[IF 2 * i <= Len(level) THEN 2 * i ELSE 2 * i - 1])
<1>1. Len(level) \in Nat /\ n \in Nat
  BY LenProperties
<1>2. next = [i \in 1 .. n |-> Node(i)]
  BY DEF NextLevel
<1> HIDE DEF next, n, Node
<1>3. next = [i \in 1 .. n |-> next[i]] /\ \A i \in 1 .. n : next[i] = Node(i)
  BY <1>2
<1>4. Len(next) = n /\ \E T : next \in Seq(T)
  BY <1>1, <1>3, MadeSeq
<1> QED BY <1>1, <1>3, <1>4 DEF n, next, Node

\* Every level is a sequence, made of pairs of the one below.
LEMMA LevelsAre ==
    ASSUME NEW S, NEW leaves \in Seq(S), NEW k \in Nat
    PROVE  \E T : Level(leaves, k) \in Seq(T)
<1> DEFINE Bad == {m \in Nat : ~ \E T : Level(leaves, m) \in Seq(T)}
<1> SUFFICES ASSUME Bad # {} PROVE FALSE
  OBVIOUS
<1>1. PICK m \in Bad : \A j \in Bad : m <= j
  BY LeastNatural
<1>2. m # 0
  BY LevelStep
<1>3. m - 1 \in Nat /\ ~(m <= m - 1) /\ (m - 1) + 1 = m
  BY <1>2
<1>4. PICK T : Level(leaves, m - 1) \in Seq(T)
  BY <1>1, <1>3
<1>5. Level(leaves, m) = NextLevel(Level(leaves, m - 1))
  BY <1>3, LevelStep
<1> QED BY <1>4, <1>5, NextLevelIs

\* The nodes of a level and of the one above.
LEMMA LevelAbove ==
    ASSUME NEW S, NEW leaves \in Seq(S), NEW k \in Nat
    PROVE  LET low == Level(leaves, k)
               high == Level(leaves, k + 1)
           IN  /\ Len(low) \in Nat /\ DOMAIN low = 1 .. Len(low)
               /\ Len(high) = (Len(low) + 1) \div 2
               /\ \A i \in 1 .. Len(high) :
                    high[i] = hashNode(low[2 * i - 1],
                                       low[IF 2 * i <= Len(low) THEN 2 * i ELSE 2 * i - 1])
<1>1. PICK T : Level(leaves, k) \in Seq(T)
  BY LevelsAre
<1>2. Level(leaves, k + 1) = NextLevel(Level(leaves, k))
  BY LevelStep
<1> QED BY <1>1, <1>2, NextLevelIs, LenProperties

\* A level of more than one node has fewer than the one below.
LEMMA LevelsShrink ==
    ASSUME NEW S, NEW leaves \in Seq(S), leaves # <<>>, NEW k \in Nat
    PROVE  /\ Len(Level(leaves, k)) \in Nat /\ Len(Level(leaves, k)) >= 1
           /\ Len(Level(leaves, k)) = 1 \/ Len(Level(leaves, k)) + k <= Len(leaves)
<1> DEFINE size(m) == Len(Level(leaves, m))
           Good(m) == size(m) \in Nat /\ size(m) >= 1 /\ (size(m) = 1 \/ size(m) + m <= size(0))
           Bad == {m \in Nat : ~ Good(m)}
<1>0. size(0) = Len(leaves) /\ size(0) \in Nat /\ size(0) >= 1
  BY LevelStep, EmptySeq, LenProperties
<1>1. \A m \in Nat : size(m) \in Nat /\ size(m + 1) = (size(m) + 1) \div 2
  BY LevelAbove
<1> HIDE DEF size
<1>2. SUFFICES ASSUME Bad # {} PROVE FALSE
  <2>1. Good(k)
    BY <1>2
  <2> QED BY <1>0, <2>1 DEF size
<1>3. PICK m \in Bad : \A j \in Bad : m <= j
  BY <1>2, LeastNatural
<1>4. m # 0
  BY <1>0
<1>5. m - 1 \in Nat /\ ~(m <= m - 1) /\ (m - 1) + 1 = m /\ m \in Nat
  BY <1>4
<1>6. Good(m - 1)
  BY <1>3, <1>5
<1>7. size(m) = (size(m - 1) + 1) \div 2
  BY <1>1, <1>5
<1>8. Good(m)
  BY <1>0, <1>5, <1>6, <1>7
<1> QED BY <1>3, <1>8

\* There is a single node at the top, and more than one below.
LEMMA HeightIs ==
    ASSUME NEW S, NEW leaves \in Seq(S), leaves # <<>>
    PROVE  /\ Height(leaves) \in Nat /\ Len(Level(leaves, Height(leaves))) = 1
           /\ \A m \in 0 .. Height(leaves) - 1 : Len(Level(leaves, m)) > 1
<1> DEFINE size(m) == Len(Level(leaves, m))
           Low == {m \in 0 .. Len(leaves) : size(m) <= 1}
<1>1. Len(leaves) \in Nat /\ \A m \in Nat : size(m) \in Nat /\ size(m) >= 1
  BY LevelsShrink, LenProperties
<1>2. size(Len(leaves)) = 1
  <2>1. size(Len(leaves)) = 1 \/ size(Len(leaves)) + Len(leaves) <= Len(leaves)
    BY <1>1, LevelsShrink
  <2> HIDE DEF size
  <2> QED BY <1>1, <2>1
<1> HIDE DEF size
<1>3. Low \in SUBSET Nat /\ Low # {}
  BY <1>1, <1>2
<1>4. PICK n \in Low : \A j \in Low : n <= j
  <2> HIDE DEF Low
  <2> QED BY <1>3, LeastNatural
<1>5. n \in 0 .. Len(leaves) /\ size(n) <= 1
  OBVIOUS
<1>6. \A m \in 0 .. n - 1 : size(m) > 1
  BY <1>1, <1>4, <1>5
<1>7. \E x \in 0 .. Len(leaves) :
        Len(Level(leaves, x)) <= 1 /\ \A m \in 0 .. x - 1 : Len(Level(leaves, m)) > 1
  BY <1>5, <1>6 DEF size
<1>8. /\ Height(leaves) \in 0 .. Len(leaves) /\ Len(Level(leaves, Height(leaves))) <= 1
      /\ \A m \in 0 .. Height(leaves) - 1 : Len(Level(leaves, m)) > 1
  BY <1>7, Zenon DEF Height
<1>9. Height(leaves) \in Nat /\ size(Height(leaves)) <= 1
  BY <1>1, <1>8 DEF size
<1>10. size(Height(leaves)) = 1
  BY <1>1, <1>9
<1> QED BY <1>8, <1>9, <1>10 DEF size
---------------------------------------------------------------------------
(* The proofs. *)
IsPath(g, index, n) ==
    g = [k \in 0 .. n |-> IF k = 0 THEN index ELSE (g[k - 1] + 1) \div 2]

\* The positions above a leaf.
LEMMA PathExists ==
    ASSUME NEW index, NEW n \in Nat
    PROVE  \E g : IsPath(g, index, n)
<1> DEFINE Bad == {m \in Nat : ~ \E g : IsPath(g, index, m)}
<1> SUFFICES ASSUME Bad # {} PROVE FALSE
  OBVIOUS
<1>1. PICK m \in Bad : \A j \in Bad : m <= j
  BY LeastNatural
<1>2. CASE m = 0
  <2> DEFINE g == [k \in 0 .. 0 |-> index]
  <2>1. IsPath(g, index, 0)
    BY DEF IsPath
  <2> QED BY <1>2, <2>1
<1>3. CASE m # 0
  <2>1. m - 1 \in Nat /\ ~(m <= m - 1) /\ m \in Nat
    BY <1>3
  <2>2. PICK g : IsPath(g, index, m - 1)
    BY <1>1, <2>1
  <2> DEFINE Value(k) == IF k = 0 THEN index ELSE (g[k - 1] + 1) \div 2
             G == [k \in 0 .. m |-> Value(k)]
  <2>3. \A k \in 0 .. m - 1 : g[k] = Value(k)
    BY <2>2, Zenon DEF IsPath
  <2>4. ASSUME NEW k \in 0 .. m
        PROVE  Value(k) = IF k = 0 THEN index ELSE (G[k - 1] + 1) \div 2
    <3>1. CASE k = 0
      BY <3>1
    <3>2. CASE k # 0
      <4>1. k - 1 \in 0 .. m - 1 /\ k - 1 \in 0 .. m
        BY <2>1, <3>2
      <4>2. G[k - 1] = g[k - 1]
        <5> HIDE DEF Value
        <5> QED BY <2>3, <4>1
      <4> QED BY <3>2, <4>2
    <3> QED BY <3>1, <3>2
  <2>5. IsPath(G, index, m)
    <3> HIDE DEF Value
    <3>1. G = [k \in 0 .. m |-> IF k = 0 THEN index ELSE (G[k - 1] + 1) \div 2]
      BY <2>4
    <3> HIDE DEF G
    <3> QED BY <3>1 DEF IsPath
  <2> QED BY <2>5
<1> QED BY <1>2, <1>3

Climb(below, step) ==
    IF step.position = "left" THEN hashNode(step.hash, below) ELSE hashNode(below, step.hash)
IsTrace(h, preimage, proof, n) ==
    h = [k \in 0 .. n |-> IF k = 0 THEN leafHashOf(preimage) ELSE Climb(h[k - 1], proof[k])]

\* The nodes the browser works out.
LEMMA TraceExists ==
    ASSUME NEW preimage, NEW proof, NEW n \in Nat
    PROVE  \E h : IsTrace(h, preimage, proof, n)
<1> DEFINE Bad == {m \in Nat : ~ \E h : IsTrace(h, preimage, proof, m)}
<1> SUFFICES ASSUME Bad # {} PROVE FALSE
  OBVIOUS
<1>1. PICK m \in Bad : \A j \in Bad : m <= j
  BY LeastNatural
<1>2. CASE m = 0
  <2> DEFINE h == [k \in 0 .. 0 |-> leafHashOf(preimage)]
  <2>1. IsTrace(h, preimage, proof, 0)
    BY DEF IsTrace
  <2> QED BY <1>2, <2>1
<1>3. CASE m # 0
  <2>1. m - 1 \in Nat /\ ~(m <= m - 1) /\ m \in Nat
    BY <1>3
  <2>2. PICK h : IsTrace(h, preimage, proof, m - 1)
    BY <1>1, <2>1
  <2> DEFINE Value(k) == IF k = 0 THEN leafHashOf(preimage) ELSE Climb(h[k - 1], proof[k])
             G == [k \in 0 .. m |-> Value(k)]
  <2>3. \A k \in 0 .. m - 1 : h[k] = Value(k)
    BY <2>2, Zenon DEF IsTrace
  <2>4. ASSUME NEW k \in 0 .. m
        PROVE  Value(k) = IF k = 0 THEN leafHashOf(preimage) ELSE Climb(G[k - 1], proof[k])
    <3>1. CASE k = 0
      BY <3>1
    <3>2. CASE k # 0
      <4>1. k - 1 \in 0 .. m - 1 /\ k - 1 \in 0 .. m
        BY <2>1, <3>2
      <4>2. G[k - 1] = h[k - 1]
        <5> HIDE DEF Value
        <5> QED BY <2>3, <4>1
      <4> QED BY <3>2, <4>2
    <3> QED BY <3>1, <3>2
  <2>5. IsTrace(G, preimage, proof, m)
    <3> HIDE DEF Value
    <3>1. G = [k \in 0 .. m |-> IF k = 0 THEN leafHashOf(preimage) ELSE Climb(G[k - 1], proof[k])]
      BY <2>4
    <3> HIDE DEF G
    <3> QED BY <3>1 DEF IsTrace
  <2> QED BY <2>5
<1> QED BY <1>2, <1>3

\* The browser ends at the last of them.
LEMMA TraceIs ==
    ASSUME NEW preimage, NEW proof, Len(proof) \in Nat
    PROVE  \E h : /\ IsTrace(h, preimage, proof, Len(proof))
                  /\ traceLeafPreimage(preimage, proof) = h[Len(proof)]
<1> DEFINE h == CHOOSE g : IsTrace(g, preimage, proof, Len(proof))
<1>1. traceLeafPreimage(preimage, proof) = h[Len(proof)]
  BY Zenon DEF traceLeafPreimage, IsTrace, Climb
<1>2. IsTrace(h, preimage, proof, Len(proof))
  BY TraceExists, Zenon
<1> QED BY <1>1, <1>2

\* A hash is what was hashed.
LEMMA HashesAreBinding ==
    /\ \A a, b, c, d : hashNode(a, b) = hashNode(c, d) => a = c /\ b = d
    /\ \A a, b : leafHashOf(a) = leafHashOf(b) => a = b
    /\ \A a, b, c : hashNode(a, b) # leafHashOf(c)
    /\ \A a, b : hashNode(a, b) # EmptyRoot
    /\ \A a : leafHashOf(a) # EmptyRoot
BY DEF hashNode, leafHashOf, EmptyRoot

\* A proof is one of what it was made for, and of nothing else.
LEMMA ProofBinds ==
    ASSUME NEW one, NEW other, NEW proof, Len(proof) \in Nat,
           traceLeafPreimage(one, proof) = traceLeafPreimage(other, proof)
    PROVE  one = other
<1> DEFINE n == Len(proof)
<1>0. n \in Nat
  OBVIOUS
<1>1. PICK g : IsTrace(g, one, proof, n) /\ traceLeafPreimage(one, proof) = g[n]
  BY TraceIs
<1>2. PICK h : IsTrace(h, other, proof, n) /\ traceLeafPreimage(other, proof) = h[n]
  BY TraceIs
<1> HIDE DEF n
<1> DEFINE Same == {k \in 0 .. n : g[k] = h[k]}
<1>3. n \in Same /\ Same \in SUBSET Nat
  <2>1. g[n] = h[n]
    BY <1>1, <1>2 DEF n
  <2> QED BY <1>0, <2>1
<1>4. PICK k \in Same : \A j \in Same : k <= j
  <2> HIDE DEF Same
  <2> QED BY <1>3, LeastNatural
<1>5. k \in 0 .. n /\ g[k] = h[k] /\ k \in Nat
  OBVIOUS
<1>6. /\ g[k] = IF k = 0 THEN leafHashOf(one) ELSE Climb(g[k - 1], proof[k])
      /\ h[k] = IF k = 0 THEN leafHashOf(other) ELSE Climb(h[k - 1], proof[k])
  BY <1>1, <1>2, <1>5, Zenon DEF IsTrace
<1>7. CASE k # 0
  <2>1. g[k - 1] = h[k - 1]
    BY <1>5, <1>6, <1>7, HashesAreBinding DEF Climb
  <2>2. k - 1 \in 0 .. n /\ ~(k <= k - 1)
    BY <1>0, <1>5, <1>7
  <2> QED BY <1>4, <2>1, <2>2
<1>8. CASE k = 0
  BY <1>5, <1>6, <1>8, HashesAreBinding
<1> QED BY <1>7, <1>8

\* Where a node and its sibling are, in arithmetic.
LEMMA Halves ==
    ASSUME NEW n \in Nat, NEW i \in 1 .. n
    PROVE  LET j == (i + 1) \div 2
           IN  /\ j \in 1 .. (n + 1) \div 2
               /\ i % 2 = 0 => 2 * j = i /\ 2 * j <= n
               /\ i % 2 # 0 => 2 * j - 1 = i /\ 2 * j = i + 1
<1> DEFINE j == (i + 1) \div 2
<1>1. i % 2 = 0 \/ i % 2 = 1
  OBVIOUS
<1>2. i = 2 * (i \div 2) + (i % 2) /\ i \div 2 \in Int
  OBVIOUS
<1>3. i % 2 = 0 => j = i \div 2
  BY <1>2
<1>4. i % 2 = 1 => j = i \div 2 + 1
  BY <1>2
<1>5. j \in 1 .. (n + 1) \div 2
  OBVIOUS
<1> HIDE DEF j
<1>6. i % 2 = 0 => 2 * j = i /\ 2 * j <= n
  BY <1>2, <1>3
<1>7. i % 2 # 0 => 2 * j - 1 = i /\ 2 * j = i + 1
  BY <1>1, <1>2, <1>4
<1> QED BY <1>5, <1>6, <1>7 DEF j

SiblingOf(i, size) == IF i % 2 = 0 THEN i - 1 ELSE IF i < size THEN i + 1 ELSE i

\* The published proof, with the positions it follows.
LEMMA ProofIs ==
    ASSUME NEW leaves, NEW index, Height(leaves) \in Nat
    PROVE  \E idx : /\ IsPath(idx, index, Height(leaves))
                    /\ proofForIndex(leaves, index) =
                         [k \in 1 .. Height(leaves) |->
                            [hash |-> Level(leaves, k - 1)[SiblingOf(idx[k - 1], Len(Level(leaves, k - 1)))],
                             position |-> IF idx[k - 1] % 2 = 0 THEN "left" ELSE "right"]]
<1> DEFINE idx == CHOOSE g : IsPath(g, index, Height(leaves))
<1>1. proofForIndex(leaves, index) =
        [k \in 1 .. Height(leaves) |->
            [hash |-> Level(leaves, k - 1)[SiblingOf(idx[k - 1], Len(Level(leaves, k - 1)))],
             position |-> IF idx[k - 1] % 2 = 0 THEN "left" ELSE "right"]]
  BY Zenon DEF proofForIndex, IsPath, SiblingOf
<1>2. IsPath(idx, index, Height(leaves))
  BY PathExists, Zenon
<1> QED BY <1>1, <1>2

\* The proof of a leaf leads to the root.
LEMMA ProofAccepted ==
    ASSUME NEW S, NEW leaves \in Seq(S), NEW index \in 1 .. Len(leaves),
           NEW preimage, leaves[index] = leafHashOf(preimage)
    PROVE  /\ Len(proofForIndex(leaves, index)) \in Nat
           /\ verifyLeafPreimage(preimage, proofForIndex(leaves, index), rootOf(leaves))
<1> DEFINE H == Height(leaves)
           proof == proofForIndex(leaves, index)
           size(k) == Len(Level(leaves, k))
<1>1. leaves # <<>> /\ index \in Nat
  BY EmptySeq, LenProperties
<1>2. H \in Nat /\ size(H) = 1
  BY <1>1, HeightIs
<1>3. PICK idx : /\ IsPath(idx, index, H)
                 /\ proof = [k \in 1 .. H |->
                              [hash |-> Level(leaves, k - 1)[SiblingOf(idx[k - 1], size(k - 1))],
                               position |-> IF idx[k - 1] % 2 = 0 THEN "left" ELSE "right"]]
  BY <1>2, ProofIs
<1> HIDE DEF H, proof
<1>4. Len(proof) = H
  <2>1. proof = [k \in 1 .. H |-> proof[k]]
    <3> HIDE DEF size
    <3> QED BY <1>3
  <2> QED BY <1>2, <2>1, MadeSeq
<1>5. PICK h : IsTrace(h, preimage, proof, H) /\ traceLeafPreimage(preimage, proof) = h[H]
  BY <1>2, <1>4, TraceIs
<1>6. /\ idx[0] = index /\ \A k \in 1 .. H : idx[k] = (idx[k - 1] + 1) \div 2
      /\ h[0] = leafHashOf(preimage) /\ \A k \in 1 .. H : h[k] = Climb(h[k - 1], proof[k])
  <2>1. \A k \in 0 .. H : /\ idx[k] = IF k = 0 THEN index ELSE (idx[k - 1] + 1) \div 2
                          /\ h[k] = IF k = 0 THEN leafHashOf(preimage) ELSE Climb(h[k - 1], proof[k])
    BY <1>3, <1>5, Zenon DEF IsPath, IsTrace
  <2>2. 0 \in 0 .. H /\ \A k \in 1 .. H : k \in 0 .. H /\ k # 0
    BY <1>2
  <2> QED BY <2>1, <2>2, Zenon
<1> DEFINE Good(k) == idx[k] \in 1 .. size(k) /\ h[k] = Level(leaves, k)[idx[k]]
           Bad == {k \in 0 .. H : ~ Good(k)}
<1>7. Good(0)
  BY <1>6, LevelStep
<1>8. ASSUME NEW k \in 1 .. H, Good(k - 1) PROVE Good(k)
  <2> DEFINE low == Level(leaves, k - 1)
             high == Level(leaves, k)
             i == idx[k - 1]
  <2>0. k - 1 \in Nat /\ (k - 1) + 1 = k
    BY <1>2
  <2>1. /\ Len(low) \in Nat /\ Len(high) = (Len(low) + 1) \div 2
        /\ \A j \in 1 .. Len(high) :
             high[j] = hashNode(low[2 * j - 1], low[IF 2 * j <= Len(low) THEN 2 * j ELSE 2 * j - 1])
    <3>1. \A m \in Nat :
            LET l == Level(leaves, m)
                g == Level(leaves, m + 1)
            IN  /\ Len(l) \in Nat /\ Len(g) = (Len(l) + 1) \div 2
                /\ \A j \in 1 .. Len(g) :
                     g[j] = hashNode(l[2 * j - 1], l[IF 2 * j <= Len(l) THEN 2 * j ELSE 2 * j - 1])
      BY LevelAbove
    <3> QED BY <2>0, <3>1, Zenon
  <2>2. i \in 1 .. Len(low) /\ h[k - 1] = low[i]
    BY <1>8
  <2>3. idx[k] = (i + 1) \div 2 /\ h[k] = Climb(low[i], proof[k])
    BY <1>6, <2>2
  <2>4. /\ proof[k].hash = low[SiblingOf(i, Len(low))]
        /\ proof[k].position = IF i % 2 = 0 THEN "left" ELSE "right"
    BY <1>3
  <2> HIDE DEF low, high, i
  <2> DEFINE j == idx[k]
  <2>9. /\ j \in 1 .. Len(high)
        /\ i % 2 = 0 => 2 * j = i /\ 2 * j <= Len(low)
        /\ i % 2 # 0 => 2 * j - 1 = i /\ 2 * j = i + 1
    BY <2>1, <2>2, <2>3, Halves
  <2> HIDE DEF j
  <2>5. j \in 1 .. Len(high) /\ i \in Nat /\ Len(low) \in Nat
    BY <2>1, <2>2, <2>9
  <2>6. high[j] = hashNode(low[2 * j - 1], low[IF 2 * j <= Len(low) THEN 2 * j ELSE 2 * j - 1])
    BY <2>1, <2>5
  <2>7. CASE i % 2 = 0
    <3>1. 2 * j = i /\ 2 * j <= Len(low) /\ SiblingOf(i, Len(low)) = 2 * j - 1
      BY <2>7, <2>9 DEF SiblingOf
    <3>2. h[k] = hashNode(low[2 * j - 1], low[2 * j])
      BY <2>3, <2>4, <2>7, <3>1 DEF Climb
    <3> QED BY <2>5, <2>6, <3>1, <3>2 DEF high, j
  <2>8. CASE i % 2 # 0
    <3>1. /\ 2 * j - 1 = i
          /\ SiblingOf(i, Len(low)) = IF 2 * j <= Len(low) THEN 2 * j ELSE 2 * j - 1
      BY <2>5, <2>8, <2>9 DEF SiblingOf
    <3>2. h[k] = hashNode(low[2 * j - 1], low[IF 2 * j <= Len(low) THEN 2 * j ELSE 2 * j - 1])
      BY <2>3, <2>4, <2>8, <3>1 DEF Climb
    <3> QED BY <2>5, <2>6, <3>2 DEF high, j
  <2> QED BY <2>7, <2>8
<1>9. Good(H)
  <2> SUFFICES ASSUME ~ Good(H) PROVE FALSE
    OBVIOUS
  <2>1. H \in Bad /\ Bad \in SUBSET Nat
    <3> HIDE DEF Good
    <3> QED BY <1>2
  <2>2. PICK k \in Bad : \A j \in Bad : k <= j
    <3> HIDE DEF Bad
    <3> QED BY <2>1, LeastNatural
  <2>3. k \in 0 .. H /\ ~ Good(k)
    OBVIOUS
  <2>4. k # 0
    BY <1>7, <2>3
  <2>5. k \in 1 .. H /\ k - 1 \in 0 .. H /\ ~(k <= k - 1)
    BY <1>2, <2>3, <2>4
  <2>6. Good(k - 1)
    BY <2>2, <2>5
  <2> HIDE DEF Good
  <2> QED BY <1>8, <2>3, <2>5, <2>6
<1>10. h[H] = Level(leaves, H)[1]
  BY <1>2, <1>9
<1>11. rootOf(leaves) = h[H]
  BY <1>1, <1>10 DEF rootOf, H
<1>12. h[H] # EmptyRoot
  <2>1. CASE H = 0
    BY <1>6, <2>1, HashesAreBinding
  <2>2. CASE H # 0
    <3>1. H \in 1 .. H
      BY <1>2, <2>2
    <3> QED BY <1>6, <3>1, HashesAreBinding DEF Climb
  <2> QED BY <2>1, <2>2
<1> QED
  BY <1>2, <1>4, <1>5, <1>11, <1>12 DEF verifyLeafPreimage, proof
---------------------------------------------------------------------------
(* The root. *)
Distinct(s, n) == \A i, j \in 1 .. n : s[i] = s[j] => i = j

\* The pairs of two levels, of sizes a and b, hash alike.
HashAlike(A, a, B, b) ==
    \A i \in 1 .. (a + 1) \div 2 :
        hashNode(A[2 * i - 1], A[IF 2 * i <= a THEN 2 * i ELSE 2 * i - 1])
        = hashNode(B[2 * i - 1], B[IF 2 * i <= b THEN 2 * i ELSE 2 * i - 1])

\* Pairs that hash alike are of nodes that are alike; and an odd level does not hash
\* like an even one, unless that has two nodes alike.
LEMMA PairsAgree ==
    ASSUME NEW a \in Nat, NEW b \in Nat, NEW A, NEW B, Distinct(A, a), Distinct(B, b),
           (a + 1) \div 2 = (b + 1) \div 2, HashAlike(A, a, B, b)
    PROVE  a = b /\ \A i \in 1 .. a : A[i] = B[i]
<1> DEFINE l == (a + 1) \div 2
<1>1. \A i \in 1 .. l : /\ A[2 * i - 1] = B[2 * i - 1]
                        /\ A[IF 2 * i <= a THEN 2 * i ELSE 2 * i - 1]
                           = B[IF 2 * i <= b THEN 2 * i ELSE 2 * i - 1]
  BY HashesAreBinding DEF HashAlike
<1>2. /\ l \in Nat /\ (a = 2 * l \/ a = 2 * l - 1) /\ (b = 2 * l \/ b = 2 * l - 1)
      /\ (l = 0 => a = 0 /\ b = 0)
  OBVIOUS
<1> HIDE DEF l
<1>3. a = b
  <2>1. CASE l = 0
    BY <1>2, <2>1
  <2>2. CASE l # 0
    <3>1. l \in 1 .. l
      BY <1>2, <2>2
    <3>2. CASE a = 2 * l - 1 /\ b = 2 * l
      <4>1. A[2 * l - 1] = B[2 * l - 1] /\ A[2 * l - 1] = B[2 * l]
        BY <1>1, <1>2, <3>1, <3>2
      <4>2. 2 * l - 1 \in 1 .. b /\ 2 * l \in 1 .. b /\ 2 * l - 1 # 2 * l
        BY <1>2, <2>2, <3>2
      <4> QED BY <4>1, <4>2 DEF Distinct
    <3>3. CASE a = 2 * l /\ b = 2 * l - 1
      <4>1. A[2 * l - 1] = B[2 * l - 1] /\ A[2 * l] = B[2 * l - 1]
        BY <1>1, <1>2, <3>1, <3>3
      <4>2. 2 * l - 1 \in 1 .. a /\ 2 * l \in 1 .. a /\ 2 * l - 1 # 2 * l
        BY <1>2, <2>2, <3>3
      <4> QED BY <4>1, <4>2 DEF Distinct
    <3> QED BY <1>2, <3>2, <3>3
  <2> QED BY <2>1, <2>2
<1>4. ASSUME NEW p \in 1 .. a PROVE A[p] = B[p]
  <2> DEFINE i == (p + 1) \div 2
  <2>1. /\ i \in 1 .. l
        /\ p % 2 = 0 => 2 * i = p /\ 2 * i <= a
        /\ p % 2 # 0 => 2 * i - 1 = p /\ 2 * i = p + 1
    BY Halves DEF l
  <2> HIDE DEF i
  <2>2. /\ A[2 * i - 1] = B[2 * i - 1]
        /\ A[IF 2 * i <= a THEN 2 * i ELSE 2 * i - 1] = B[IF 2 * i <= b THEN 2 * i ELSE 2 * i - 1]
    BY <1>1, <2>1
  <2>3. CASE p % 2 = 0
    BY <1>3, <2>1, <2>2, <2>3
  <2>4. CASE p % 2 # 0
    BY <2>1, <2>2, <2>4
  <2> QED BY <2>3, <2>4
<1> QED BY <1>3, <1>4

Leaves(s) == \A i \in 1 .. Len(s) : \E p : s[i] = leafHashOf(p)

\* Nodes are distinct at every level if they are at the lowest.
LEMMA LevelsDistinct ==
    ASSUME NEW S, NEW leaves \in Seq(S), Distinct(leaves, Len(leaves)), NEW k \in Nat
    PROVE  Distinct(Level(leaves, k), Len(Level(leaves, k)))
<1> DEFINE Good(m) == Distinct(Level(leaves, m), Len(Level(leaves, m)))
           Bad == {m \in Nat : ~ Good(m)}
<1>1. SUFFICES ASSUME Bad # {} PROVE FALSE
  BY <1>1
<1>2. PICK m \in Bad : \A j \in Bad : m <= j
  BY <1>1, LeastNatural
<1>3. m # 0
  BY LevelStep
<1>4. m - 1 \in Nat /\ ~(m <= m - 1) /\ (m - 1) + 1 = m
  BY <1>3
<1>5. Good(m - 1)
  BY <1>2, <1>4
<1> DEFINE low == Level(leaves, m - 1)
           high == Level(leaves, m)
<1>6. /\ Len(low) \in Nat /\ Len(high) = (Len(low) + 1) \div 2
      /\ \A j \in 1 .. Len(high) :
           high[j] = hashNode(low[2 * j - 1], low[IF 2 * j <= Len(low) THEN 2 * j ELSE 2 * j - 1])
  <2>1. \A n \in Nat :
          LET l == Level(leaves, n)
              g == Level(leaves, n + 1)
          IN  /\ Len(l) \in Nat /\ Len(g) = (Len(l) + 1) \div 2
              /\ \A j \in 1 .. Len(g) :
                   g[j] = hashNode(l[2 * j - 1], l[IF 2 * j <= Len(l) THEN 2 * j ELSE 2 * j - 1])
    BY LevelAbove
  <2> QED BY <1>4, <2>1, Zenon
<1> HIDE DEF low, high
<1>7. ASSUME NEW i \in 1 .. Len(high), NEW j \in 1 .. Len(high), high[i] = high[j]
      PROVE  i = j
  <2>1. low[2 * i - 1] = low[2 * j - 1]
    BY <1>6, <1>7, HashesAreBinding
  <2>2. 2 * i - 1 \in 1 .. Len(low) /\ 2 * j - 1 \in 1 .. Len(low)
    BY <1>6
  <2>3. 2 * i - 1 = 2 * j - 1
    BY <1>5, <2>1, <2>2 DEF Distinct, low
  <2> QED BY <2>3
<1>8. Good(m)
  BY <1>7 DEF Distinct, high
<1> QED BY <1>2, <1>8

\* The first node of a level, from the one below.
LEMMA FirstNode ==
    ASSUME NEW S, NEW leaves \in Seq(S), leaves # <<>>, NEW k \in Nat
    PROVE  \E x : Level(leaves, k + 1)[1] = hashNode(Level(leaves, k)[1], x)
<1> DEFINE low == Level(leaves, k)
           high == Level(leaves, k + 1)
<1>1. Len(low) \in Nat /\ Len(low) >= 1
  BY LevelsShrink
<1>2. /\ Len(high) = (Len(low) + 1) \div 2
      /\ \A j \in 1 .. Len(high) :
           high[j] = hashNode(low[2 * j - 1], low[IF 2 * j <= Len(low) THEN 2 * j ELSE 2 * j - 1])
  BY LevelAbove
<1> HIDE DEF low, high
<1>3. 1 \in 1 .. Len(high) /\ 2 * 1 - 1 = 1
  BY <1>1, <1>2
<1>4. high[1] = hashNode(low[1], low[IF 2 * 1 <= Len(low) THEN 2 * 1 ELSE 1])
  BY <1>2, <1>3
<1> QED BY <1>4 DEF low, high

\* Trees of one root are equally high: a leaf's hash is not a node's.
LEMMA NotHigher ==
    ASSUME NEW S, NEW l \in Seq(S), NEW T, NEW m \in Seq(T), l # <<>>, m # <<>>,
           Leaves(l), Leaves(m), rootOf(l) = rootOf(m)
    PROVE  Height(l) <= Height(m)
<1> DEFINE a == Height(l)
           b == Height(m)
           d == a - b
           Same == {j \in 0 .. b : Level(l, d + j)[1] = Level(m, j)[1]}
<1>1. a \in Nat /\ b \in Nat
  BY HeightIs
<1>2. Level(l, a)[1] = Level(m, b)[1]
  BY DEF rootOf
<1> HIDE DEF a, b
<1>3. SUFFICES ASSUME d \in Nat, d >= 1 PROVE FALSE
  BY <1>1, <1>3 DEF a, b
<1>4. d + b = a
  BY <1>1
<1> HIDE DEF d
<1>5. b \in Same /\ Same \in SUBSET Nat
  BY <1>1, <1>2, <1>4
<1>6. PICK j \in Same : \A i \in Same : j <= i
  <2> HIDE DEF Same
  <2> QED BY <1>5, LeastNatural
<1>7. j \in 0 .. b /\ j \in Nat /\ Level(l, d + j)[1] = Level(m, j)[1]
  BY <1>5, <1>6
<1>8. CASE j # 0
  <2>1. /\ j - 1 \in Nat /\ (j - 1) + 1 = j /\ ~(j <= j - 1) /\ j - 1 \in 0 .. b
        /\ d + (j - 1) \in Nat /\ (d + (j - 1)) + 1 = d + j
    BY <1>1, <1>3, <1>7, <1>8
  <2>2. PICK x : Level(l, (d + (j - 1)) + 1)[1] = hashNode(Level(l, d + (j - 1))[1], x)
    BY <2>1, FirstNode
  <2>3. PICK y : Level(m, (j - 1) + 1)[1] = hashNode(Level(m, j - 1)[1], y)
    BY <2>1, FirstNode
  <2>4. Level(l, d + (j - 1))[1] = Level(m, j - 1)[1]
    BY <1>7, <2>1, <2>2, <2>3, HashesAreBinding
  <2> QED BY <1>6, <2>1, <2>4
<1>9. CASE j = 0
  <2>1. d - 1 \in Nat /\ (d - 1) + 1 = d /\ d + 0 = d
    BY <1>3
  <2>2. PICK x : Level(l, (d - 1) + 1)[1] = hashNode(Level(l, d - 1)[1], x)
    BY <2>1, FirstNode
  <2>3. 1 \in 1 .. Len(m)
    BY EmptySeq
  <2>4. PICK p : m[1] = leafHashOf(p)
    BY <2>3 DEF Leaves
  <2>5. Level(m, 0) = m
    BY LevelStep
  <2> QED BY <1>7, <1>9, <2>1, <2>2, <2>4, <2>5, HashesAreBinding
<1> QED BY <1>8, <1>9

\* No two sets of distinct leaves share a root.
LEMMA RootBinds ==
    ASSUME NEW S, NEW l \in Seq(S), NEW m \in Seq(S), Leaves(l), Leaves(m),
           Distinct(l, Len(l)), Distinct(m, Len(m)), rootOf(l) = rootOf(m)
    PROVE  l = m
<1>1. ASSUME NEW s \in Seq(S), Leaves(s), s # <<>> PROVE rootOf(s) # EmptyRoot
  <2>1. 1 \in 1 .. Len(s)
    BY <1>1, EmptySeq
  <2>2. PICK p : s[1] = leafHashOf(p)
    BY <1>1, <2>1 DEF Leaves
  <2> QED BY <2>1, <2>2, ProofAccepted DEF verifyLeafPreimage
<1>2. rootOf(<<>>) = EmptyRoot
  BY DEF rootOf
<1>3. CASE l = <<>> \/ m = <<>>
  BY <1>1, <1>2, <1>3
<1>4. CASE l # <<>> /\ m # <<>>
  <2> DEFINE H == Height(l)
             A(k) == Level(l, k)
             B(k) == Level(m, k)
             Alike(k) == Len(A(k)) = Len(B(k)) /\ \A i \in 1 .. Len(A(k)) : A(k)[i] = B(k)[i]
             Same == {k \in 0 .. H : Alike(k)}
  <2>1. H \in Nat /\ Height(m) \in Nat /\ Len(A(H)) = 1 /\ Len(B(Height(m))) = 1
    BY <1>4, HeightIs
  <2>2. Height(m) = H
    <3>1. Height(l) <= Height(m)
      BY <1>4, NotHigher
    <3>2. Height(m) <= Height(l)
      BY <1>4, NotHigher
    <3> QED BY <2>1, <3>1, <3>2
  <2>3. A(H)[1] = B(H)[1]
    BY <1>4, <2>2 DEF rootOf
  <2>4. \A k \in Nat : Distinct(A(k), Len(A(k))) /\ Distinct(B(k), Len(B(k)))
    BY LevelsDistinct
  <2>5. ASSUME NEW k \in Nat, Alike(k + 1) PROVE Alike(k)
    <3> DEFINE a == Len(A(k))
               b == Len(B(k))
    <3>1. /\ a \in Nat /\ Len(A(k + 1)) = (a + 1) \div 2
          /\ \A i \in 1 .. Len(A(k + 1)) :
               A(k + 1)[i] = hashNode(A(k)[2 * i - 1], A(k)[IF 2 * i <= a THEN 2 * i ELSE 2 * i - 1])
      BY LevelAbove
    <3>2. /\ b \in Nat /\ Len(B(k + 1)) = (b + 1) \div 2
          /\ \A i \in 1 .. Len(B(k + 1)) :
               B(k + 1)[i] = hashNode(B(k)[2 * i - 1], B(k)[IF 2 * i <= b THEN 2 * i ELSE 2 * i - 1])
      BY LevelAbove
    <3>3. Distinct(A(k), a) /\ Distinct(B(k), b)
      BY <2>4
    <3>4. Len(A(k + 1)) = Len(B(k + 1)) /\ \A i \in 1 .. Len(A(k + 1)) : A(k + 1)[i] = B(k + 1)[i]
      BY <2>5
    <3> HIDE DEF A, B, a, b
    <3>5. (a + 1) \div 2 = (b + 1) \div 2 /\ HashAlike(A(k), a, B(k), b)
      BY <3>1, <3>2, <3>4 DEF HashAlike
    <3>6. a = b /\ \A i \in 1 .. a : A(k)[i] = B(k)[i]
      BY <3>1, <3>2, <3>3, <3>5, PairsAgree
    <3> QED BY <3>6 DEF a, b
  <2>6. Alike(H)
    BY <2>1, <2>2, <2>3
  <2> HIDE DEF Alike, H
  <2>7. H \in Same /\ Same \in SUBSET Nat
    BY <2>1, <2>6
  <2>8. PICK k \in Same : \A j \in Same : k <= j
    <3> HIDE DEF Same
    <3> QED BY <2>7, LeastNatural
  <2>9. k \in 0 .. H /\ k \in Nat /\ Alike(k)
    BY <2>1, <2>8
  <2>10. k = 0
    <3>1. SUFFICES ASSUME k # 0 PROVE FALSE
      OBVIOUS
    <3>2. k - 1 \in Nat /\ (k - 1) + 1 = k /\ ~(k <= k - 1) /\ k - 1 \in 0 .. H
      BY <2>1, <2>9, <3>1
    <3>3. Alike(k - 1)
      BY <2>5, <2>9, <3>2
    <3> QED BY <2>8, <3>2, <3>3
  <2>11. A(0) = l /\ B(0) = m
    BY LevelStep
  <2>12. Len(l) = Len(m) /\ \A i \in 1 .. Len(l) : l[i] = m[i]
    BY <2>9, <2>10, <2>11 DEF Alike
  <2> QED BY <2>12, SeqEqual
<1> QED BY <1>3, <1>4
---------------------------------------------------------------------------
(* The leaves. *)
Rank(K, x) == Cardinality({y \in K : y <= x})
Ranked(K, n) == CHOOSE x \in K : Rank(K, x) = n

\* Sorted, every key has a place of its own, and every place a key.
LEMMA RanksArePlaces ==
    ASSUME NEW K \in SUBSET Key
    PROVE  /\ IsFiniteSet(K) /\ Cardinality(K) \in Nat
           /\ \A x \in K : Rank(K, x) \in 1 .. Cardinality(K)
           /\ \A x, y \in K : Rank(K, x) = Rank(K, y) => x = y
           /\ \A n \in 1 .. Cardinality(K) :
                Ranked(K, n) \in K /\ Rank(K, Ranked(K, n)) = n
<1> DEFINE N == Cardinality(K)
           Upto(x) == {y \in K : y <= x}
           r == [x \in K |-> Rank(K, x)]
<1>1. IsFiniteSet(K) /\ N \in Nat /\ K \subseteq Int
  BY MerkleAssumption, FS_Subset, FS_CardinalityType
<1>2. \A x \in K : IsFiniteSet(Upto(x)) /\ Cardinality(Upto(x)) <= N /\ Cardinality(Upto(x)) \in Nat
  <2>1. \A x : Upto(x) \in SUBSET K
    OBVIOUS
  <2> HIDE DEF Upto, N
  <2>2. ASSUME NEW x \in K PROVE IsFiniteSet(Upto(x)) /\ Cardinality(Upto(x)) <= Cardinality(K)
    BY <1>1, <2>1, FS_Subset
  <2> QED BY <2>2, FS_CardinalityType DEF N
<1>3. ASSUME NEW x \in K PROVE Rank(K, x) \in 1 .. N
  <2>1. x \in Upto(x)
    BY <1>1
  <2>2. Cardinality(Upto(x)) # 0
    <3> HIDE DEF Upto
    <3> QED BY <1>2, <2>1, FS_EmptySet
  <2>3. Rank(K, x) = Cardinality(Upto(x))
    BY DEF Rank
  <2> HIDE DEF Upto, N
  <2> QED BY <1>1, <1>2, <2>2, <2>3
<1>4. ASSUME NEW x \in K, NEW y \in K, x < y PROVE Rank(K, x) # Rank(K, y)
  <2>1. Upto(x) \in SUBSET Upto(y) /\ y \in Upto(y) /\ y \notin Upto(x)
    <3>1. x \in Int /\ y \in Int /\ \A z \in K : z \in Int
      BY <1>1
    <3>2. \A z \in Upto(x) : z \in Upto(y)
      BY <1>4, <3>1
    <3>3. y \in Upto(y) /\ y \notin Upto(x)
      BY <1>4, <3>1
    <3> HIDE DEF Upto
    <3> QED BY <3>2, <3>3
  <2>2. Rank(K, x) = Cardinality(Upto(x)) /\ Rank(K, y) = Cardinality(Upto(y))
    BY DEF Rank
  <2> HIDE DEF Upto
  <2>3. Cardinality(Upto(y)) = Cardinality(Upto(x)) => Upto(y) = Upto(x)
    BY <1>2, <2>1, FS_Subset
  <2> QED BY <2>1, <2>2, <2>3
<1>5. \A x, y \in K : Rank(K, x) = Rank(K, y) => x = y
  BY <1>1, <1>4
<1>6. r \in Injection(K, 1 .. N)
  BY <1>3, <1>5 DEF Injection, IsInjective
<1>7. r \in Surjection(K, 1 .. N)
  <2> HIDE DEF r
  <2>1. IsFiniteSet(1 .. N) /\ Cardinality(1 .. N) = N
    BY <1>1, FS_Interval
  <2> QED BY <1>6, <2>1, FS_Injection
<1>8. ASSUME NEW n \in 1 .. N PROVE \E x \in K : Rank(K, x) = n
  BY <1>7 DEF Surjection
<1>9. \A n \in 1 .. N : Ranked(K, n) \in K /\ Rank(K, Ranked(K, n)) = n
  BY <1>8, Zenon DEF Ranked
<1> QED BY <1>1, <1>3, <1>5, <1>9

\* The leaves of these facts, sorted.
Committed(F) ==
    [n \in 1 .. Cardinality(DOMAIN F) |->
        leafHashOf([key |-> Ranked(DOMAIN F, n), decided |-> F[Ranked(DOMAIN F, n)]])]

\* Facts are a function of some of the keys.
LEMMA FactsType ==
    ASSUME NEW F \in Facts
    PROVE  DOMAIN F \in SUBSET Key /\ F \in [DOMAIN F -> Decision]
BY DEF Facts

\* A query can answer with any set of facts.
LEMMA AnswersExist ==
    ASSUME NEW F \in Facts
    PROVE  Answers(F) # {}
<1> DEFINE K == DOMAIN F
<1>1. IsFiniteSet(K)
  BY FactsType, RanksArePlaces
<1>2. PICK order : order \in Bijection(1 .. Cardinality(K), K)
  BY <1>1, FS_CardinalityType DEF ExistsBijection
<1>3. order \in SetToSeqs(K)
  <2>1. /\ order \in [1 .. Cardinality(K) -> K]
        /\ \A i, j \in 1 .. Cardinality(K) : order[i] = order[j] => i = j
    BY <1>2 DEF Bijection, Injection, IsInjective
  <2> QED BY <2>1 DEF SetToSeqs
<1> QED BY <1>3 DEF Answers

\* Whatever the order of the query's answer, the same leaves are committed.
LEMMA EntriesAreCommitted ==
    ASSUME NEW F \in Facts, NEW rows \in Answers(F)
    PROVE  entries(rows) = Committed(F)
<1> DEFINE K == DOMAIN F
           N == Cardinality(K)
           D == 1 .. N
<1>1. K \in SUBSET Key /\ K \subseteq Int /\ IsFiniteSet(K) /\ N \in Nat
  BY FactsType, RanksArePlaces, MerkleAssumption
<1>2. PICK order \in SetToSeqs(K) :
        rows = [i \in DOMAIN order |-> [key |-> order[i], decided |-> F[order[i]], liquidity |-> i]]
  BY DEF Answers
<1>3. order \in [D -> K] /\ \A i, j \in D : i # j => order[i] # order[j]
  BY DEF SetToSeqs
<1>4. /\ DOMAIN rows = D
      /\ \A i \in D : rows[i].key = order[i] /\ rows[i].decided = F[order[i]]
  BY <1>2, <1>3
<1> HIDE DEF D
<1>5. order \in Bijection(D, K)
  <2>1. order \in Injection(D, K)
    BY <1>3 DEF Injection, IsInjective
  <2>2. IsFiniteSet(D) /\ Cardinality(D) = N
    BY <1>1, FS_Interval DEF D
  <2>3. order \in Surjection(D, K)
    BY <1>1, <2>1, <2>2, FS_Injection
  <2> QED BY <2>1, <2>3 DEF Bijection
<1>6. ASSUME NEW j \in D PROVE Place(rows, j) = Rank(K, order[j])
  <2> DEFINE I == {i \in D : order[i] <= order[j]}
             J == {y \in K : y <= order[j]}
             b == [i \in I |-> order[i]]
  <2>1. {i \in DOMAIN rows : \/ rows[i].key < rows[j].key
                             \/ rows[i].key = rows[j].key /\ i <= j} = I
    <3>1. ASSUME NEW i \in D
          PROVE  (order[i] < order[j] \/ (order[i] = order[j] /\ i <= j)) <=> order[i] <= order[j]
      <4>1. order[i] \in Int /\ order[j] \in Int /\ (order[i] = order[j] => i = j) /\ j \in Int
        BY <1>1, <1>3 DEF D
      <4> QED BY <4>1
    <3> QED BY <1>4, <3>1
  <2>2. b \in Bijection(I, J)
    <3>1. b \in [I -> J]
      BY <1>3
    <3>2. \A x, y \in I : b[x] = b[y] => x = y
      BY <1>3
    <3>3. \A y \in J : \E x \in I : b[x] = y
      BY <1>5 DEF Bijection, Surjection
    <3> HIDE DEF b, I, J
    <3>4. b \in Injection(I, J)
      BY <3>1, <3>2 DEF Injection, IsInjective
    <3>5. b \in Surjection(I, J)
      BY <3>1, <3>3 DEF Surjection
    <3> QED BY <3>4, <3>5 DEF Bijection
  <2>3. IsFiniteSet(I)
    <3>1. IsFiniteSet(D) /\ I \in SUBSET D
      BY <1>1, FS_Interval DEF D
    <3> QED BY <3>1, FS_Subset
  <2>4. Cardinality(J) = Cardinality(I)
    <3> HIDE DEF I, J, b
    <3> QED BY <2>2, <2>3, FS_Bijection DEF ExistsBijection
  <2> QED BY <2>1, <2>4 DEF Place, Rank
<1>7. ASSUME NEW n \in D
      PROVE  entries(rows)[n] = leafHashOf([key |-> Ranked(K, n), decided |-> F[Ranked(K, n)]])
  <2>1. Ranked(K, n) \in K /\ Rank(K, Ranked(K, n)) = n
    BY <1>1, RanksArePlaces DEF D
  <2>2. \E j \in D : order[j] = Ranked(K, n)
    BY <1>5, <2>1 DEF Bijection, Surjection
  <2>3. \E j \in D : Place(rows, j) = n
    BY <1>6, <2>1, <2>2
  <2> DEFINE at == CHOOSE j \in D : Place(rows, j) = n
  <2>4. at \in D /\ Place(rows, at) = n
    BY <2>3, Zenon
  <2>5. entries(rows)[n] = leafHashOf(canonicalLeaf(rows[at]))
    BY <1>4 DEF entries
  <2> HIDE DEF at
  <2>6. order[at] \in K /\ Rank(K, order[at]) = n
    BY <1>3, <1>6, <2>4
  <2>7. order[at] = Ranked(K, n)
    BY <1>1, <2>1, <2>6, RanksArePlaces
  <2>8. canonicalLeaf(rows[at]) = [key |-> Ranked(K, n), decided |-> F[Ranked(K, n)]]
    BY <1>4, <2>4, <2>7 DEF canonicalLeaf
  <2> QED BY <2>5, <2>8
<1>8. entries(rows) = [n \in D |-> entries(rows)[n]]
  BY <1>4 DEF entries
<1> QED BY <1>7, <1>8 DEF Committed, D

\* They are distinct, and each the hash of a leaf.
LEMMA CommittedIs ==
    ASSUME NEW F \in Facts
    PROVE  LET K == DOMAIN F
               s == Committed(F)
           IN  /\ \E S : s \in Seq(S)
               /\ Len(s) = Cardinality(K) /\ DOMAIN s = 1 .. Cardinality(K) /\ Cardinality(K) \in Nat
               /\ Leaves(s) /\ Distinct(s, Len(s))
               /\ \A n \in 1 .. Len(s) :
                    s[n] = leafHashOf([key |-> Ranked(K, n), decided |-> F[Ranked(K, n)]])
<1> DEFINE K == DOMAIN F
           N == Cardinality(K)
           s == Committed(F)
<1>1. K \in SUBSET Key /\ N \in Nat
  BY FactsType, RanksArePlaces
<1>2. /\ DOMAIN s = 1 .. N
      /\ \A n \in 1 .. N : s[n] = leafHashOf([key |-> Ranked(K, n), decided |-> F[Ranked(K, n)]])
  BY DEF Committed
<1>3. s = [n \in 1 .. N |-> s[n]]
  BY DEF Committed
<1> HIDE DEF s
<1>4. Len(s) = N /\ \E S : s \in Seq(S)
  BY <1>1, <1>3, MadeSeq
<1>5. Leaves(s)
  BY <1>2, <1>4 DEF Leaves
<1>6. Distinct(s, N)
  <2> SUFFICES ASSUME NEW i \in 1 .. N, NEW j \in 1 .. N, s[i] = s[j] PROVE i = j
    BY DEF Distinct
  <2>1. [key |-> Ranked(K, i), decided |-> F[Ranked(K, i)]]
        = [key |-> Ranked(K, j), decided |-> F[Ranked(K, j)]]
    BY <1>2, HashesAreBinding
  <2>2. Ranked(K, i) = Ranked(K, j)
    BY <2>1
  <2> QED BY <1>1, <2>2, RanksArePlaces
<1> QED BY <1>1, <1>2, <1>4, <1>5, <1>6 DEF s

\* The leaves tell the facts.
LEMMA CommittedTells ==
    ASSUME NEW F \in Facts, NEW G \in Facts, Committed(F) = Committed(G)
    PROVE  F = G
<1>1. ASSUME NEW f \in Facts, NEW g \in Facts, Committed(f) = Committed(g), NEW x \in DOMAIN f
      PROVE  x \in DOMAIN g /\ f[x] = g[x]
  <2> DEFINE n == Rank(DOMAIN f, x)
  <2>0. DOMAIN f \in SUBSET Key /\ DOMAIN g \in SUBSET Key
    BY FactsType
  <2>1. n \in 1 .. Cardinality(DOMAIN f) /\ Ranked(DOMAIN f, n) = x
    <3>1. n \in 1 .. Cardinality(DOMAIN f)
      BY <2>0, RanksArePlaces
    <3>2. Ranked(DOMAIN f, n) \in DOMAIN f /\ Rank(DOMAIN f, Ranked(DOMAIN f, n)) = Rank(DOMAIN f, x)
      BY <2>0, <3>1, RanksArePlaces
    <3> HIDE DEF n
    <3> QED BY <2>0, <3>1, <3>2, RanksArePlaces
  <2> HIDE DEF n
  <2>2. Cardinality(DOMAIN f) = Cardinality(DOMAIN g)
    BY <1>1, CommittedIs
  <2>3. [key |-> x, decided |-> f[x]]
        = [key |-> Ranked(DOMAIN g, n), decided |-> g[Ranked(DOMAIN g, n)]]
    <3>1. Committed(f)[n] = leafHashOf([key |-> x, decided |-> f[x]])
      BY <2>1, CommittedIs
    <3>2. Committed(g)[n] = leafHashOf([key |-> Ranked(DOMAIN g, n), decided |-> g[Ranked(DOMAIN g, n)]])
      BY <2>1, <2>2, CommittedIs
    <3> QED BY <1>1, <3>1, <3>2, HashesAreBinding
  <2>4. x = Ranked(DOMAIN g, n) /\ f[x] = g[Ranked(DOMAIN g, n)]
    BY <2>3
  <2>5. Ranked(DOMAIN g, n) \in DOMAIN g
    BY <2>0, <2>1, <2>2, RanksArePlaces
  <2> QED BY <2>4, <2>5
<1>2. DOMAIN F = DOMAIN G /\ \A x \in DOMAIN F : F[x] = G[x]
  BY <1>1
<1> QED BY <1>2, FactsType
\* So the answer chosen makes no difference.
LEMMA CommittedRoot ==
    ASSUME NEW F \in Facts
    PROVE  /\ {rootOf(entries(rows)) : rows \in Answers(F)} = {rootOf(Committed(F))}
           /\ (CHOOSE rows \in Answers(F) : TRUE) \in Answers(F)
           /\ entries(CHOOSE rows \in Answers(F) : TRUE) = Committed(F)
<1>1. Answers(F) # {} /\ \A rows \in Answers(F) : entries(rows) = Committed(F)
  BY AnswersExist, EntriesAreCommitted
<1>2. (CHOOSE rows \in Answers(F) : TRUE) \in Answers(F)
  BY <1>1
<1> QED BY <1>1, <1>2

\* A root is of one set of facts.
LEMMA RootTells == SnapshotInit => RootIsDetermined
<1> SUFFICES ASSUME facts \in Facts
             PROVE  LET roots(f) == {rootOf(entries(rows)) : rows \in Answers(f)}
                        aRoot(f) == rootOf(entries(CHOOSE rows \in Answers(f) : TRUE))
                    IN  /\ roots(facts) = {aRoot(facts)}
                        /\ \A others \in Facts : aRoot(others) = aRoot(facts) => others = facts
  BY DEF SnapshotInit, RootIsDetermined
<1>1. ASSUME NEW others \in Facts, rootOf(Committed(others)) = rootOf(Committed(facts))
      PROVE  others = facts
  <2> DEFINE l == Committed(others)
             m == Committed(facts)
  <2>1. /\ \E S : l \in Seq(S)
        /\ \E S : m \in Seq(S)
        /\ Leaves(l) /\ Leaves(m) /\ Distinct(l, Len(l)) /\ Distinct(m, Len(m))
    BY CommittedIs
  <2> HIDE DEF l, m
  <2>2. PICK S : l \in Seq(S)
    BY <2>1
  <2>3. PICK T : m \in Seq(T)
    BY <2>1
  <2>4. l \in Seq(S \cup T) /\ m \in Seq(S \cup T)
    BY <2>2, <2>3, SeqMonotonic
  <2>5. l = m
    BY <1>1, <2>1, <2>4, RootBinds DEF l, m
  <2> QED BY <2>5, CommittedTells DEF l, m
<1> QED BY <1>1, CommittedRoot

\* Where every key has one row, the preimage kept for it is that row's.
LEMMA PreimageIsOwn ==
    ASSUME NEW F \in Facts, NEW rows \in Answers(F), NEW key \in DOMAIN F
    PROVE  preimageFor(rows, key) = [key |-> key, decided |-> F[key]]
<1> DEFINE K == DOMAIN F
<1>1. PICK order \in SetToSeqs(K) :
        rows = [i \in DOMAIN order |-> [key |-> order[i], decided |-> F[order[i]], liquidity |-> i]]
  BY DEF Answers
<1>2. /\ DOMAIN order = 1 .. Cardinality(K) /\ Cardinality(K) \in Nat
      /\ \A x, y \in DOMAIN order : order[x] = order[y] => x = y
      /\ \E x \in DOMAIN order : order[x] = key
  <2> DEFINE D == 1 .. Cardinality(K)
  <2>1. K \in SUBSET Key /\ IsFiniteSet(K) /\ Cardinality(K) \in Nat
    BY FactsType, RanksArePlaces, MerkleAssumption
  <2>2. order \in [D -> K] /\ \A x, y \in D : x # y => order[x] # order[y]
    BY <1>1 DEF SetToSeqs
  <2> HIDE DEF D
  <2>3. order \in Injection(D, K)
    BY <2>2 DEF Injection, IsInjective
  <2>4. IsFiniteSet(D) /\ Cardinality(D) = Cardinality(K)
    BY <2>1, FS_Interval DEF D
  <2>5. order \in Surjection(D, K)
    BY <2>1, <2>3, <2>4, FS_Injection
  <2>6. \E x \in D : order[x] = key
    BY <2>5 DEF Surjection
  <2> QED BY <2>1, <2>2, <2>6 DEF D
<1>3. DOMAIN rows = DOMAIN order /\ Len(rows) = Cardinality(K)
  BY <1>1, <1>2
<1>4. \A i \in DOMAIN rows : rows[i].key = order[i] /\ canonicalLeaf(rows[i]) = [key |-> order[i], decided |-> F[order[i]]]
  BY <1>1, <1>3 DEF canonicalLeaf
<1>5. PICK j \in DOMAIN rows : order[j] = key
  BY <1>2, <1>3
<1> DEFINE IsLast(x) == rows[x].key = key /\ \A h \in x + 1 .. Len(rows) : rows[h].key # key
<1>6. IsLast(j)
  BY <1>2, <1>3, <1>4, <1>5
<1>7. (CHOOSE x \in DOMAIN rows : IsLast(x)) \in DOMAIN rows /\ IsLast(CHOOSE x \in DOMAIN rows : IsLast(x))
  BY <1>6
<1>8. canonicalLeaf(rows[CHOOSE x \in DOMAIN rows : IsLast(x)]) = [key |-> key, decided |-> F[key]]
  BY <1>4, <1>7
<1> QED BY <1>8 DEF preimageFor

\* Every item has a place of its own, and its proof leads to the root.
LEMMA ProofsLead == SnapshotInit => ProofsVerify
<1> DEFINE rows == CHOOSE answer \in Answers(facts) : TRUE
           K == DOMAIN facts
           L == entries(rows)
           N == Cardinality(K)
           Item(i) == [key |-> Ranked(K, i), decided |-> facts[Ranked(K, i)]]
<1> SUFFICES ASSUME facts \in Facts
             PROVE  /\ {leaf.preimage.key : leaf \in Published(rows)} = K
                    /\ \A leaf \in Published(rows) :
                         verifyLeafPreimage(leaf.preimage, leaf.proof, leaf.root)
                    /\ \A leaf \in Published(rows), d \in Decision :
                         verifyLeafPreimage([leaf.preimage EXCEPT !.decided = d], leaf.proof, leaf.root)
                           => d = leaf.preimage.decided
  BY DEF SnapshotInit, ProofsVerify
<1>1. L = Committed(facts)
  BY CommittedRoot
<1>2. PICK S : L \in Seq(S)
  BY <1>1, CommittedIs
<1>3. /\ DOMAIN L = 1 .. N /\ Len(L) = N /\ N \in Nat
      /\ \A i \in 1 .. N : L[i] = leafHashOf(Item(i))
  BY <1>1, CommittedIs
<1>4. K \in SUBSET Key
  BY FactsType
<1>own. \A i \in 1 .. N : preimageFor(rows, Ranked(K, i)) = Item(i)
  <2>1. rows \in Answers(facts)
    BY CommittedRoot DEF rows
  <2>2. \A i \in 1 .. N : Ranked(K, i) \in K
    BY <1>4, RanksArePlaces
  <2> HIDE DEF rows
  <2> QED BY <2>1, <2>2, PreimageIsOwn
<1> HIDE DEF rows
<1>5. Published(rows) =
        {[preimage |-> preimageFor(rows, L[i][2].key), proof |-> proofForIndex(L, i), root |-> rootOf(L)] :
            i \in {j \in DOMAIN L : \A h \in 1 .. j - 1 : L[h][2].key # L[j][2].key}}
  BY DEF Published
<1> HIDE DEF L
<1>6. \A i \in 1 .. N : L[i][2] = Item(i) /\ L[i][2].key = Ranked(K, i)
  <2>1. \A p : leafHashOf(p)[2] = p
    BY DEF leafHashOf
  <2> QED BY <1>3, <2>1
<1>7. {j \in DOMAIN L : \A h \in 1 .. j - 1 : L[h][2].key # L[j][2].key} = 1 .. N
  <2> SUFFICES ASSUME NEW j \in 1 .. N, NEW h \in 1 .. j - 1
               PROVE  L[h][2].key # L[j][2].key
    BY <1>3
  <2>1. h \in 1 .. N /\ h # j
    BY <1>3
  <2>2. Ranked(K, h) # Ranked(K, j)
    BY <1>4, <2>1, RanksArePlaces
  <2> QED BY <1>6, <2>1, <2>2
<1>8. Published(rows) =
        {[preimage |-> Item(i), proof |-> proofForIndex(L, i), root |-> rootOf(L)] : i \in 1 .. N}
  <2> HIDE DEF Item
  <2> QED BY <1>5, <1>6, <1>7, <1>own
<1>9. ASSUME NEW i \in 1 .. N
      PROVE  /\ Len(proofForIndex(L, i)) \in Nat
             /\ verifyLeafPreimage(Item(i), proofForIndex(L, i), rootOf(L))
  <2> HIDE DEF Item
  <2> QED BY <1>2, <1>3, ProofAccepted
<1>10. {leaf.preimage.key : leaf \in Published(rows)} = K
  <2>1. {leaf.preimage.key : leaf \in Published(rows)} = {Ranked(K, i) : i \in 1 .. N}
    <3>1. \A i \in 1 .. N : Item(i).key = Ranked(K, i)
      OBVIOUS
    <3> HIDE DEF Item
    <3>2. \A leaf \in Published(rows) : \E i \in 1 .. N : leaf.preimage = Item(i)
      BY <1>8
    <3>3. ASSUME NEW i \in 1 .. N
          PROVE  \E leaf \in Published(rows) : leaf.preimage = Item(i)
      <4> DEFINE leaf == [preimage |-> Item(i), proof |-> proofForIndex(L, i), root |-> rootOf(L)]
      <4>1. leaf \in Published(rows)
        BY <1>8
      <4>2. leaf.preimage = Item(i)
        OBVIOUS
      <4> HIDE DEF leaf
      <4> QED BY <4>1, <4>2
    <3> QED BY <3>1, <3>2, <3>3
  <2>2. \A x \in K : x \in {Ranked(K, i) : i \in 1 .. N}
    <3>1. ASSUME NEW x \in K PROVE \E i \in 1 .. N : Ranked(K, i) = x
      <4>1. Rank(K, x) \in 1 .. N
        BY <1>4, RanksArePlaces
      <4>2. Ranked(K, Rank(K, x)) \in K /\ Rank(K, Ranked(K, Rank(K, x))) = Rank(K, x)
        BY <1>4, <4>1, RanksArePlaces
      <4>3. Ranked(K, Rank(K, x)) = x
        BY <1>4, <4>2, RanksArePlaces
      <4> QED BY <4>1, <4>3
    <3> QED BY <3>1
  <2>3. \A i \in 1 .. N : Ranked(K, i) \in K
    BY <1>4, RanksArePlaces
  <2> QED BY <2>1, <2>2, <2>3
<1>11. ASSUME NEW i \in 1 .. N, NEW d \in Decision,
              verifyLeafPreimage([Item(i) EXCEPT !.decided = d], proofForIndex(L, i), rootOf(L))
       PROVE  d = Item(i).decided
  <2> DEFINE other == [Item(i) EXCEPT !.decided = d]
  <2>1. traceLeafPreimage(other, proofForIndex(L, i)) = traceLeafPreimage(Item(i), proofForIndex(L, i))
    BY <1>9, <1>11 DEF verifyLeafPreimage
  <2>2. other = Item(i)
    <3> HIDE DEF other, Item
    <3> QED BY <1>9, <2>1, ProofBinds
  <2>3. other.decided = d
    OBVIOUS
  <2> QED BY <2>2, <2>3
<1> QED
  <2> HIDE DEF Item
  <2>1. \A leaf \in Published(rows) :
          \E i \in 1 .. N : /\ leaf.preimage = Item(i) /\ leaf.proof = proofForIndex(L, i)
                            /\ leaf.root = rootOf(L)
    BY <1>8
  <2> QED BY <1>9, <1>10, <1>11, <2>1

(* The root depends on what is committed and on nothing else: not on the   *)
(* order of the query's answer nor on the figures that move, and no two    *)
(* sets of facts share one, though an odd level's last node is hashed with *)
(* itself (lib/merkle.ts buildMerkle).                                     *)
THEOREM RootDetermined == SnapshotSpec => []RootIsDetermined
<1>1. SnapshotInit /\ [UNCHANGED facts]_facts => SnapshotInit'
  BY DEF SnapshotInit, Facts
<1> QED
  BY <1>1, RootTells, PTL DEF SnapshotSpec

(* Every item published has a proof that the browser accepts against the   *)
(* root, and rejects for the item decided otherwise (lib/merkle.ts         *)
(* proofForIndex, lib/merkleVerify.ts verifyLeafPreimage).                 *)
THEOREM PublishedVerify == SnapshotSpec => []ProofsVerify
<1>1. SnapshotInit /\ [UNCHANGED facts]_facts => SnapshotInit'
  BY DEF SnapshotInit, Facts
<1> QED
  BY <1>1, ProofsLead, PTL DEF SnapshotSpec
=============================================================================
