--------------------------- MODULE PriceTestProofs ---------------------------
(***************************************************************************)
(* Proofs about SourceHealth, Publication and PriceTest, for any sources,  *)
(* pools, attempts, thresholds and prices: first the checks of the sources *)
(* by themselves, then what is published of the pools, then the pages, and *)
(* at last the statistics of the prices shown (lib/stats.ts).              *)
(***************************************************************************)
EXTENDS PriceTest, FiniteSetTheorems, SequenceTheorems, TLAPS

-----------------------------------------------------------------------------
(* The checks.  While a check is being recorded, a row that is paused is a *)
(* failing source's or has not been written yet; and the failing are no    *)
(* more than half.                                                         *)
LEMMA MinOfTwo ==
    ASSUME NEW a \in Int, NEW b \in Int
    PROVE  Min({a, b}) \in {a, b} /\ Min({a, b}) <= a /\ Min({a, b}) <= b
<1>1. \E x \in {a, b} : \A y \in {a, b} : x <= y
  OBVIOUS
<1> QED
  BY <1>1 DEF Min

(* A count starts again at 0, or goes on from what the check has read.     *)
LEMMA CountedType ==
    ASSUME TypeOK, NEW s \in Source
    PROVE  Counted(s) \in Counts /\ (Counted(s) >= UnhealthyAfter => s \in check.failing)
<1>1. UnhealthyAfter \in Nat /\ UnhealthyAfter > 0
  BY CountsAssumption
<1>2. CASE s \notin check.failing
  BY <1>1, <1>2 DEF Counted, Counts
<1>3. CASE s \in check.failing
  <2> DEFINE next == check.prev[s] + 1
  <2>1. next \in Nat /\ next \in Int /\ UnhealthyAfter \in Int
    BY <1>1 DEF TypeOK, CheckState, Counts
  <2>2. Counted(s) = Min({next, UnhealthyAfter})
    BY <1>3 DEF Counted
  <2> HIDE DEF next
  <2>3. Min({next, UnhealthyAfter}) \in {next, UnhealthyAfter} /\ Min({next, UnhealthyAfter}) <= UnhealthyAfter
    BY <2>1, MinOfTwo
  <2> QED
    BY <1>1, <1>3, <2>1, <2>2, <2>3 DEF Counts
<1> QED
  BY <1>2, <1>3

-----------------------------------------------------------------------------
(* Types.                                                                  *)

LEMMA NoCheckType == NoCheck \in CheckState /\ Len(NoCheck.left) = 0
<1>1. [s \in Source |-> 0] \in [Source -> Counts] /\ 0 \in 0..(Attempts - 1)
  BY CountsAssumption DEF Counts
<1> QED
  BY <1>1 DEF NoCheck, CheckState

LEMMA TypeStep == TypeOK /\ [Next]_vars => TypeOK'
<1> SUFFICES ASSUME TypeOK, [Next]_vars PROVE TypeOK'
  OBVIOUS
<1>1. /\ check \in CheckState /\ check.left \in Seq(Source) /\ check.tries \in Nat
      /\ Len(check.left) \in Nat /\ Len(check.left) <= Len(Order)
      /\ failures \in [Source -> Counts]
  BY CountsAssumption DEF TypeOK, CheckState
<1>2. Order \in Seq(Source) /\ Len(Order) \in Nat /\ 0 \in 0..(Attempts - 1)
  BY SourcesAssumption, CountsAssumption
<1>3. ASSUME check' \in CheckState, Len(check'.left) <= Len(Order), failures' \in [Source -> Counts],
             feed' \in [Source -> {"up", "down"}], network' \in {"up", "down"},
             torn' \in BOOLEAN, crashes' \in 0..MaxCrashes
      PROVE  TypeOK'
  BY <1>3 DEF TypeOK, CheckState
<1>4. /\ feed \in [Source -> {"up", "down"}] /\ network \in {"up", "down"}
      /\ torn \in BOOLEAN /\ crashes \in 0..MaxCrashes
  BY DEF TypeOK
<1>5. CASE BeginCheck
  <2>1. [NoCheck EXCEPT !.pc = "probe", !.left = Order, !.prev = failures] \in CheckState
    BY <1>1, <1>2, NoCheckType DEF CheckState
  <2>2. check' = [NoCheck EXCEPT !.pc = "probe", !.left = Order, !.prev = failures]
    BY <1>5 DEF BeginCheck, Selected
  <2>3. check'.left = Order
    BY <2>2, NoCheckType DEF CheckState
  <2> QED
    BY <1>1, <1>2, <1>3, <1>4, <1>5, <2>1, <2>2, <2>3 DEF BeginCheck
<1>6. CASE Probe
  <2> DEFINE s == Head(check.left)
  <2>1. /\ s \in Source /\ Tail(check.left) \in Seq(Source)
        /\ Len(Tail(check.left)) = Len(check.left) - 1
    BY <1>1, <1>6, HeadTailProperties DEF Probe
  <2>2. [check EXCEPT !.left = Tail(check.left), !.tries = 0] \in CheckState
    BY <1>1, <1>2, <2>1 DEF CheckState
  <2>3. CASE ProbePasses(s)
    <3>1. check' = [check EXCEPT !.left = Tail(check.left), !.tries = 0]
      BY <1>6, <2>3 DEF Probe
    <3>2. check' \in CheckState /\ check'.left = Tail(check.left)
      BY <1>1, <2>1, <2>2, <3>1 DEF CheckState
    <3> QED
      BY <1>1, <1>2, <1>3, <1>4, <1>6, <2>1, <3>2 DEF Probe
  <2>4. CASE ~ProbePasses(s) /\ MayRetry
    <3>1. check' = [check EXCEPT !.tries = check.tries + 1]
      BY <1>6, <2>4 DEF Probe
    <3>2. check.tries + 1 \in 0..(Attempts - 1)
      BY <1>1, <2>4, CountsAssumption DEF MayRetry
    <3>3. check' \in CheckState /\ check'.left = check.left
      BY <1>1, <3>1, <3>2 DEF CheckState
    <3> QED
      BY <1>1, <1>3, <1>4, <1>6, <3>3 DEF Probe
  <2>5. CASE ~ProbePasses(s) /\ ~MayRetry
    <3>1. check' = [check EXCEPT !.left = Tail(check.left), !.tries = 0,
                                 !.failing = check.failing \cup {s}]
      BY <1>6, <2>5 DEF Probe
    <3>2. check.failing \cup {s} \in SUBSET Source
      BY <1>1, <2>1 DEF CheckState
    <3>3. check' \in CheckState /\ check'.left = Tail(check.left)
      BY <1>1, <1>2, <2>1, <3>1, <3>2 DEF CheckState
    <3> QED
      BY <1>1, <1>2, <1>3, <1>4, <1>6, <2>1, <3>3 DEF Probe
  <2> QED
    BY <2>3, <2>4, <2>5
<1>7. CASE Decide
  <2>1. [check EXCEPT !.pc = "record", !.left = Order] \in CheckState
    BY <1>1, <1>2 DEF CheckState
  <2>2. check' \in CheckState /\ Len(check'.left) <= Len(Order)
    BY <1>1, <1>2, <1>7, <2>1, NoCheckType DEF Decide, Selected, CheckState
  <2> QED
    BY <1>1, <1>3, <1>4, <1>7, <2>2 DEF Decide
<1>8. CASE Record
  <2>1. /\ Head(check.left) \in Source /\ Tail(check.left) \in Seq(Source)
        /\ Len(Tail(check.left)) = Len(check.left) - 1
    BY <1>1, <1>8, HeadTailProperties DEF Record
  <2>2. check' = [check EXCEPT !.left = Tail(check.left)]
    BY <1>8 DEF Record
  <2>3. check' \in CheckState /\ check'.left = Tail(check.left)
    BY <1>1, <2>1, <2>2 DEF CheckState
  <2>4. failures' \in [Source -> Counts]
    BY <1>1, <1>8, <2>1, CountedType DEF Record
  <2> QED
    BY <1>1, <1>2, <1>3, <1>4, <1>8, <2>1, <2>3, <2>4 DEF Record
<1>9. CASE EndCheck
  BY <1>1, <1>2, <1>3, <1>4, <1>9, NoCheckType DEF EndCheck
<1>10. CASE Crash
  <2>1. crashes' \in 0..MaxCrashes
    BY <1>4, <1>10, CountsAssumption DEF Crash
  <2> QED
    BY <1>1, <1>2, <1>3, <1>4, <1>10, <2>1, NoCheckType DEF Crash
<1>11. CASE NetworkChanges
  BY <1>1, <1>3, <1>4, <1>11 DEF NetworkChanges
<1>12. ASSUME NEW s \in Source, FeedChanges(s) PROVE TypeOK'
  <2>1. feed' \in [Source -> {"up", "down"}]
    BY <1>4, <1>12 DEF FeedChanges
  <2> QED
    BY <1>1, <1>3, <1>4, <1>12, <2>1 DEF FeedChanges
<1>13. CASE UNCHANGED vars
  BY <1>13 DEF vars, TypeOK
<1> QED
  BY <1>5, <1>6, <1>7, <1>8, <1>9, <1>10, <1>11, <1>12, <1>13 DEF Next

LEMMA TypeInit == Init => TypeOK
<1> SUFFICES ASSUME Init PROVE TypeOK
  OBVIOUS
<1>1. check \in CheckState /\ Len(check.left) = 0
  BY NoCheckType DEF Init
<1>2. Len(Order) \in Nat /\ Len(check.left) <= Len(Order)
  BY <1>1, SourcesAssumption
<1>3. 0 \in Counts /\ 0 \in 0..MaxCrashes
  BY CountsAssumption DEF Counts
<1>4. failures \in [Source -> Counts] /\ crashes \in 0..MaxCrashes /\ torn \in BOOLEAN
  BY <1>3 DEF Init
<1> QED
  BY <1>1, <1>2, <1>4 DEF Init, TypeOK, CheckState

(* Every variable keeps its type.                                          *)
THEOREM TypeCorrect == Spec => []TypeOK
BY TypeInit, TypeStep, PTL DEF Spec

-----------------------------------------------------------------------------
(* The manifest.                                                           *)

Waiting(s) == \E i \in DOMAIN check.left : check.left[i] = s

IInv ==
    /\ TypeOK
    /\ check.pc # "record" /\ ~torn => 2 * Cardinality(Paused) <= Cardinality(Source)
    /\ check.pc = "record" =>
        /\ 2 * Cardinality(check.failing) <= Len(Order)
        /\ \A s \in Paused : Waiting(s) \/ s \in check.failing

LEMMA InvStep == IInv /\ [Next]_vars => IInv'
<1> SUFFICES ASSUME IInv, [Next]_vars PROVE IInv'
  OBVIOUS
<1>1. TypeOK /\ TypeOK'
  BY TypeStep DEF IInv
<1>2. /\ check \in CheckState /\ check.left \in Seq(Source)
      /\ DOMAIN check.left = 1 .. Len(check.left) /\ Len(check.left) \in Nat
  BY <1>1 DEF TypeOK, CheckState
<1>3. NoCheck.pc = "idle"
  BY DEF NoCheck
<1>4. ASSUME failures' = failures, torn' = torn, check'.pc # "record", check.pc # "record"
      PROVE  IInv'
  <2>1. Paused' = Paused
    BY <1>4 DEF Paused
  <2> QED
    BY <1>1, <1>4, <2>1 DEF IInv
<1>5. CASE BeginCheck
  <2>1. check'.pc = "probe"
    BY <1>5, NoCheckType DEF BeginCheck, CheckState
  <2> QED
    BY <1>4, <1>5, <2>1 DEF BeginCheck
<1>6. CASE Probe
  <2>1. check'.pc = "probe"
    BY <1>2, <1>6 DEF Probe, CheckState
  <2> QED
    BY <1>4, <1>6, <2>1 DEF Probe
<1>7. CASE Decide
  <2>1. CASE Systemic
    BY <1>3, <1>4, <1>7, <2>1 DEF Decide
  <2>2. CASE ~Systemic
    <3>1. check' = [check EXCEPT !.pc = "record", !.left = Order]
      BY <1>7, <2>2 DEF Decide, Selected
    <3>2. check'.pc = "record" /\ check'.left = Order /\ check'.failing = check.failing
      BY <1>2, <3>1 DEF CheckState
    <3>3. 2 * Cardinality(check.failing) <= Len(Order)
      <4>1. Cardinality(check.failing) \in Nat /\ Len(Order) \in Nat
        BY <1>2, SourcesAssumption, FS_Subset, FS_CardinalityType DEF CheckState
      <4> QED
        BY <2>2, <4>1 DEF Systemic
    <3>4. \A s \in Source : \E i \in DOMAIN Order : Order[i] = s
      BY SourcesAssumption
    <3>5. \A s \in Paused' : s \in Source
      BY DEF Paused
    <3> QED
      BY <1>1, <3>2, <3>3, <3>4, <3>5 DEF IInv, Waiting
  <2> QED
    BY <2>1, <2>2
<1>8. CASE Record
  <2> DEFINE s == Head(check.left)
  <2>1. s \in Source /\ Tail(check.left) \in Seq(Source) /\ Len(Tail(check.left)) = Len(check.left) - 1
    BY <1>2, <1>8, HeadTailProperties DEF Record
  <2>2. \A i \in 2 .. Len(check.left) : i - 1 \in DOMAIN Tail(check.left) /\ Tail(check.left)[i - 1] = check.left[i]
    BY <1>2, <1>8, HeadTailProperties DEF Record
  <2>3. /\ check'.pc = "record" /\ check'.left = Tail(check.left) /\ check'.failing = check.failing
    BY <1>2, <1>8, <2>1 DEF Record, CheckState
  <2>4. failures' = [failures EXCEPT ![s] = Counted(s)]
    BY <1>8 DEF Record
  <2>5. ASSUME NEW t \in Paused' PROVE Waiting(t)' \/ t \in check'.failing
    <3>1. t \in Source /\ failures'[t] >= UnhealthyAfter
      BY DEF Paused
    <3>2. CASE t = s
      <4>1. Counted(s) >= UnhealthyAfter
        BY <1>1, <2>1, <2>4, <3>1, <3>2 DEF TypeOK
      <4> QED
        BY <1>1, <2>1, <2>3, <3>2, <4>1, CountedType
    <3>3. CASE t # s
      <4>1. t \in Paused
        BY <1>1, <2>4, <3>1, <3>3 DEF Paused, TypeOK
      <4>2. CASE t \in check.failing
        BY <2>3, <4>2
      <4>3. CASE Waiting(t)
        <5>1. PICK i \in DOMAIN check.left : check.left[i] = t
          BY <4>3 DEF Waiting
        <5>2. i # 1
          BY <1>2, <1>8, <3>3, <5>1, HeadTailProperties DEF Record
        <5>3. i \in 2 .. Len(check.left)
          BY <1>2, <5>1, <5>2
        <5> QED
          BY <2>2, <2>3, <5>1, <5>3 DEF Waiting
      <4> QED
        BY <1>8, <4>1, <4>2, <4>3 DEF IInv, Record
    <3> QED
      BY <3>2, <3>3
  <2> QED
    BY <1>1, <1>8, <2>3, <2>5 DEF IInv, Record
<1>9. CASE EndCheck
  <2>1. Paused \subseteq check.failing
    BY <1>9 DEF IInv, EndCheck, Waiting
  <2>2. /\ IsFiniteSet(check.failing)
    BY <1>2, SourcesAssumption, FS_Subset DEF CheckState
  <2>3. /\ Cardinality(Paused) <= Cardinality(check.failing)
        /\ Cardinality(Paused) \in Nat /\ Cardinality(check.failing) \in Nat
    BY <2>1, <2>2, FS_Subset, FS_CardinalityType
  <2>4. Len(Order) = Cardinality(Source) /\ Len(Order) \in Nat
    BY SourcesAssumption
  <2>5. 2 * Cardinality(Paused) <= Cardinality(Source)
    BY <1>9, <2>3, <2>4 DEF IInv, EndCheck
  <2>6. Paused' = Paused /\ check'.pc = "idle"
    BY <1>3, <1>9 DEF EndCheck, Paused
  <2> QED
    BY <1>1, <2>5, <2>6 DEF IInv
<1>10. CASE Crash
  <2>1. CASE check.pc = "record"
    BY <1>1, <1>3, <1>10, <2>1 DEF Crash, IInv
  <2>2. CASE check.pc # "record"
    <3>1. torn' = torn
      BY <1>1, <1>10, <2>2 DEF Crash, TypeOK
    <3> QED
      BY <1>3, <1>4, <1>10, <2>2, <3>1 DEF Crash
  <2> QED
    BY <2>1, <2>2
<1>11. ASSUME UNCHANGED <<failures, check, torn>> PROVE IInv'
  BY <1>1, <1>11 DEF IInv, Paused, Waiting
<1>12. CASE NetworkChanges
  BY <1>11, <1>12 DEF NetworkChanges
<1>13. ASSUME NEW s \in Source, FeedChanges(s) PROVE IInv'
  BY <1>11, <1>13 DEF FeedChanges
<1>14. CASE UNCHANGED vars
  BY <1>11, <1>14 DEF vars
<1> QED
  BY <1>5, <1>6, <1>7, <1>8, <1>9, <1>10, <1>12, <1>13, <1>14 DEF Next

(* An outage on our side never empties the manifest: a check recorded to   *)
(* its end leaves at least half of the sources advertised, however many    *)
(* checks died while recording before it (isSystemic in sourceHealth.ts).  *)
THEOREM ManifestIsKept == Spec => []MostStayAdvertised
<1>1. Init => IInv
  <2> SUFFICES ASSUME Init PROVE IInv
    OBVIOUS
  <2>1. TypeOK
    BY TypeInit
  <2>2. Paused = {}
    BY CountsAssumption DEF Init, Paused
  <2>3. Cardinality(Paused) = 0 /\ Cardinality(Source) \in Nat
    BY <2>2, SourcesAssumption, FS_EmptySet, FS_CardinalityType
  <2>4. check.pc = "idle"
    BY DEF Init, NoCheck
  <2> QED
    BY <2>1, <2>3, <2>4 DEF IInv
<1>2. IInv => MostStayAdvertised
  BY DEF IInv, MostStayAdvertised
<1> QED
  BY <1>1, <1>2, InvStep, PTL DEF Spec

-----------------------------------------------------------------------------
(* A finite set of numbers has a least one, and so has any other: only    *)
(* the numbers up to some member of it can come before that member.        *)
LEMMA SomeLeast ==
    ASSUME NEW S \in SUBSET Nat, IsFiniteSet(S), S # {}
    PROVE  \E i \in S : \A j \in S : i <= j
<1> DEFINE Below(i) == {k \in S : k < i}
           T == {Below(i) : i \in S}
           R == StrictSubsetOrdering(S)
           Parts == SUBSET S
<1>1. IsWellFoundedOn(R, Parts)
  BY FS_FiniteSubsetsOfFinite, FS_StrictSubsetOrderingWellFounded
<1>2. T \subseteq Parts /\ T # {}
  <2>1. \A i \in S : Below(i) \in Parts
    OBVIOUS
  <2>2. PICK i \in S : TRUE
    OBVIOUS
  <2> HIDE DEF Below, Parts
  <2>3. Below(i) \in T
    OBVIOUS
  <2> QED BY <2>1, <2>3
<1>3. \E x \in T : \A y \in T : ~ (<<y, x>> \in R)
  <2> HIDE DEF R, T, Parts
  <2> QED BY <1>1, <1>2, WFMin, Zenon
<1>4. PICK i \in S : \A t \in T : ~ (<<t, Below(i)>> \in R)
  <2> HIDE DEF R
  <2> QED BY <1>3
<1>5. ASSUME NEW j \in S, ~(i <= j) PROVE FALSE
  <2>1. Below(j) \subseteq Below(i) /\ j \in Below(i) /\ j \notin Below(j)
    <3> HIDE DEF T, R, Parts
    <3>1. i \in Nat /\ j \in Nat /\ j < i /\ \A k \in S : k \in Nat
      BY <1>5
    <3>2. \A k \in S : k < j => k < i
      BY <3>1
    <3>3. ~(j < j)
      BY <3>1
    <3> QED BY <3>1, <3>2, <3>3, Zenon
  <2>2. Below(j) \in SUBSET S /\ Below(i) \in SUBSET S /\ Below(j) # Below(i)
    BY <2>1
  <2>3. Below(j) \in T
    OBVIOUS
  <2> HIDE DEF Below, T
  <2>4. <<Below(j), Below(i)>> \in R
    BY <2>1, <2>2 DEF StrictSubsetOrdering
  <2> QED BY <2>3, <2>4, <1>4
<1> QED BY <1>5
LEMMA LeastOfSome ==
    ASSUME NEW S \in SUBSET Nat, S # {}
    PROVE  \E i \in S : \A j \in S : i <= j
<1>1. PICK n \in S : TRUE
  OBVIOUS
<1> DEFINE Low == {k \in S : k <= n}
<1>2. n \in Nat /\ n \in Low /\ Low \subseteq 0..n
  <2>1. n \in Nat /\ n <= n
    OBVIOUS
  <2>2. \A k \in Low : k \in Nat /\ k <= n
    OBVIOUS
  <2>3. \A k \in Low : k \in 0..n
    BY <2>1, <2>2
  <2> QED
    BY <2>1, <2>3
<1>3. IsFiniteSet(0..n)
  BY <1>2, FS_Interval
<1>4. IsFiniteSet(Low)
  BY <1>2, <1>3, FS_Subset
<1>5. Low \in SUBSET Nat /\ Low # {}
  BY <1>2
<1> HIDE DEF Low
<1>6. PICK i \in Low : \A j \in Low : i <= j
  BY <1>4, <1>5, SomeLeast
<1>7. i \in S /\ i \in Nat /\ i <= n
  BY <1>6 DEF Low
<1>8. \A j \in S : j \in Nat /\ (j \in Low \/ n <= j)
  BY <1>2 DEF Low
<1> QED
  BY <1>2, <1>6, <1>7, <1>8

-----------------------------------------------------------------------------
(* What is published.  The catalogue and go-ooo each work out which pools  *)
(* can be priced, from different records; both arrive at Priceable.        *)
RowsOK == verified \in SUBSET Pool /\ floor \in [Source -> Nat \cup {None}]

Priceable == {p \in verified : poolIsPriceable(p)}

(* The floors the two sides apply to a source are the same.                *)
LEMMA OneFloor ==
    ASSUME RowsOK, NEW s \in Source
    PROVE  priceableFloor(s) = (IF exportOf(s).minLiquidityUsd > 0
                                THEN exportOf(s).minLiquidityUsd ELSE DefaultFloor)
<1>1. exportOf(s).minLiquidityUsd = (IF floor[s] = None THEN 0 ELSE floor[s])
  BY DEF exportOf
<1>2. CASE floor[s] = None
  BY <1>1, <1>2 DEF priceableFloor
<1>3. CASE floor[s] # None
  <2>1. floor[s] \in Nat
    BY <1>3 DEF RowsOK
  <2>2. (floor[s] > 0) <=> (floor[s] \notin {None, 0})
    BY <1>3, <2>1
  <2> QED
    BY <1>1, <1>3, <2>2 DEF priceableFloor
<1> QED
  BY <1>2, <1>3

(* What go-ooo reads of a source it builds.                                *)
PoolsRead(s) ==
    {r.pool : r \in {x \in exportOf(s).pairs :
        x.reserveUsd >= (IF exportOf(s).minLiquidityUsd > 0
                         THEN exportOf(s).minLiquidityUsd ELSE DefaultFloor)}}

LEMMA ReadOfSource ==
    ASSUME RowsOK, NEW s \in Source
    PROVE  PoolsRead(s) = {p \in verified : SourceOf[p] = s /\ Reserve[p] >= priceableFloor(s)}
<1> DEFINE row(p) == [pool |-> p, key |-> canonicalKey(p), reserveUsd |-> Reserve[p]]
           min == priceableFloor(s)
<1>1. exportOf(s).pairs = {row(p) : p \in {q \in verified : SourceOf[q] = s}}
  BY DEF exportOf
<1>2. PoolsRead(s) = {r.pool : r \in {x \in exportOf(s).pairs : x.reserveUsd >= min}}
  BY OneFloor DEF PoolsRead
<1>3. \A p : row(p).pool = p /\ row(p).reserveUsd = Reserve[p]
  OBVIOUS
<1> HIDE DEF row, min
<1>4. ASSUME NEW p PROVE p \in PoolsRead(s) <=> (p \in verified /\ SourceOf[p] = s /\ Reserve[p] >= min)
  <2>1. ASSUME p \in PoolsRead(s) PROVE p \in verified /\ SourceOf[p] = s /\ Reserve[p] >= min
    <3>1. PICK x \in exportOf(s).pairs : x.reserveUsd >= min /\ p = x.pool
      BY <1>2, <2>1
    <3>2. PICK q \in verified : SourceOf[q] = s /\ x = row(q)
      BY <1>1, <3>1
    <3> QED
      BY <1>3, <3>1, <3>2
  <2>2. ASSUME p \in verified, SourceOf[p] = s, Reserve[p] >= min PROVE p \in PoolsRead(s)
    <3>1. row(p) \in exportOf(s).pairs
      BY <1>1, <2>2
    <3> QED
      BY <1>2, <1>3, <2>2, <3>1
  <2> QED
    BY <2>1, <2>2
<1> QED
  BY <1>4 DEF min

(* go-ooo's sources are the priceable ones.                                *)
LEMMA ReadIsPriceable == RowsOK => OraclePools = Priceable
<1> SUFFICES ASSUME RowsOK PROVE OraclePools = Priceable
  OBVIOUS
<1> DEFINE entry(s) == [source |-> s, family |-> Family[s], sourceType |-> Transport[s],
                        pairCount |-> Cardinality({p \in verified : SourceOf[p] = s})]
           known == {x \in supportedSources :
                       x.family \in ModelledFamilies \/ x.sourceType \in CosmosTransports}
<1>1. supportedSources = {entry(s) : s \in Advertised}
  BY DEF supportedSources
<1>2. \A s : /\ entry(s).source = s /\ entry(s).family = Family[s]
             /\ entry(s).sourceType = Transport[s]
  OBVIOUS
<1>3. OraclePools = UNION {PoolsRead(m.source) : m \in known}
  BY DEF OraclePools, PoolsRead
<1> HIDE DEF entry
<1>4. \A m \in known : m.source \in priceableSourceMeta
  BY <1>1, <1>2 DEF priceableSourceMeta
<1>5. \A s \in priceableSourceMeta : entry(s) \in known
  BY <1>1, <1>2 DEF priceableSourceMeta
<1> HIDE DEF known
<1>6. OraclePools = UNION {PoolsRead(s) : s \in priceableSourceMeta}
  BY <1>2, <1>3, <1>4, <1>5
<1>7. priceableSourceMeta \subseteq Source
  BY DEF priceableSourceMeta, Advertised
<1>8. ASSUME NEW p PROVE p \in OraclePools <=> p \in Priceable
  <2>1. p \in OraclePools <=> \E s \in priceableSourceMeta : p \in PoolsRead(s)
    BY <1>6
  <2>2. p \in OraclePools <=>
          \E s \in priceableSourceMeta : p \in verified /\ SourceOf[p] = s /\ Reserve[p] >= priceableFloor(s)
    BY <1>7, <2>1, ReadOfSource
  <2> QED
    BY <2>2 DEF Priceable, poolIsPriceable
<1> QED
  BY <1>8

(* Grouped alike, one set of pools makes one catalogue.                    *)
LEMMA CatalogueFollows == RowsOK => CatalogueAgreesWithFeeds
<1> SUFFICES ASSUME RowsOK PROVE CatalogueAgreesWithFeeds
  OBVIOUS
<1> DEFINE On(g) == {SourceOf[p] : p \in {q \in Priceable : GroupOf(q) = g}}
           line(g) == [group |-> g, on |-> On(g)]
           listed == {line(e.group) : e \in Catalogue(TRUE)}
           read == {line(g) : g \in {GroupOf(p) : p \in Priceable}}
<1>1. ASSUME NEW g
      PROVE  /\ CatalogueEntry(g).group = g
             /\ CatalogueEntry(g).priceableSources = On(g)
             /\ CatalogueEntry(g).priceable <=> On(g) # {}
  <2>1. {q \in {p \in verified : GroupOf(p) = g} : poolIsPriceable(q)}
            = {q \in Priceable : GroupOf(q) = g}
    BY DEF Priceable
  <2> QED
    BY <2>1 DEF CatalogueEntry
<1>2. Catalogue(TRUE) = {e \in {CatalogueEntry(g) : g \in {GroupOf(p) : p \in verified}} : e.priceable}
  BY DEF Catalogue
<1>3. {[group |-> e.group, on |-> e.priceableSources] : e \in Catalogue(TRUE)} = listed
  <2>1. \A e \in Catalogue(TRUE) : e.priceableSources = On(e.group)
    <3> HIDE DEF On
    <3> QED BY <1>1, <1>2
  <2> HIDE DEF On
  <2> QED BY <2>1
<1>4. \A g : On(g) # {} <=> \E p \in Priceable : GroupOf(p) = g
  OBVIOUS
<1> HIDE DEF On, line
<1>5. listed \subseteq read
  <2> SUFFICES ASSUME NEW e \in Catalogue(TRUE) PROVE line(e.group) \in read
    OBVIOUS
  <2>1. On(e.group) # {}
    BY <1>1, <1>2
  <2> QED
    BY <1>4, <2>1
<1>6. read \subseteq listed
  <2> SUFFICES ASSUME NEW p \in Priceable PROVE line(GroupOf(p)) \in listed
    OBVIOUS
  <2> DEFINE e == CatalogueEntry(GroupOf(p))
  <2>1. e.group = GroupOf(p) /\ e.priceable
    BY <1>1, <1>4
  <2>2. p \in verified
    BY DEF Priceable
  <2>3. e \in Catalogue(TRUE)
    BY <1>2, <2>1, <2>2
  <2> HIDE DEF e
  <2> QED
    BY <2>1, <2>3
<1> HIDE DEF listed, read
<1>7. listed = read
  BY <1>5, <1>6
<1>8. CatalogueAgreesWithFeeds <=> listed = read
  BY <1>3, ReadIsPriceable DEF CatalogueAgreesWithFeeds, read, line, On
<1> QED
  BY <1>7, <1>8

-----------------------------------------------------------------------------
(* The composition: neither the edits nor the pages disturb the checks, so *)
(* what is proved of the checks by themselves holds beside them.           *)
THEOREM ChecksUndisturbed == PriceTestSpec => Spec
<1>1. PriceTestInit => Init
  BY DEF PriceTestInit
<1>2. [PriceTestNext]_<<vars, published, test>> => [Next]_vars
  BY DEF PriceTestNext
<1> QED
  BY <1>1, <1>2, PTL DEF PriceTestSpec, Spec

(* The rows published keep their types.                                    *)
LEMMA RowsStep == RowsOK /\ [PriceTestNext]_<<vars, published, test>> => RowsOK'
<1> SUFFICES ASSUME RowsOK, [PriceTestNext]_<<vars, published, test>> PROVE RowsOK'
  OBVIOUS
<1>1. CASE Edits
  <2>1. ASSUME NEW p \in Pool, SetVerified(p) PROVE RowsOK'
    BY <2>1 DEF SetVerified, RowsOK
  <2>2. ASSUME NEW s \in Source, SetFloor(s) PROVE RowsOK'
    BY <2>2, FloorsAssumption DEF SetFloor, RowsOK
  <2>3. ASSUME NEW t \in Token, LoseCoinId(t) PROVE RowsOK'
    BY <2>3 DEF LoseCoinId, RowsOK
  <2> QED
    BY <1>1, <2>1, <2>2, <2>3 DEF Edits
<1>2. CASE UNCHANGED published
  BY <1>2 DEF RowsOK, published
<1> QED
  BY <1>1, <1>2 DEF PriceTestNext

(* Whoever picks a pair the catalogue marks priceable picks one that       *)
(* go-ooo prices from the feeds, on the sources named and no other,        *)
(* whatever is paused, tuned and verified: lib/export.ts computes the flag *)
(* from the registry, go-ooo from the manifest and the exports.            *)
THEOREM CatalogueAgrees == PriceTestSpec => []CatalogueAgreesWithFeeds
<1>1. PriceTestInit => RowsOK
  BY FloorsAssumption DEF PriceTestInit, RowsInit, RowsOK
<1> QED
  BY <1>1, RowsStep, CatalogueFollows, PTL DEF PriceTestSpec

-----------------------------------------------------------------------------
(* The pages.  What a page is told of a source is told by a call that is   *)
(* still its own, and every row a call carries, or the cache holds, was    *)
(* fetched for the pools asked, no earlier than it is dated.               *)
CachedRow == [rows : SUBSET Pool, observed : Nat, fetchedAt : Nat \cup {None}]

CallState == [at : {"guard", "live", "lookup", "fetch", "store"}, source : Source,
              live : BOOLEAN, asked : SUBSET Pool, now : Nat \cup {None},
              cached : CachedRow \cup {None}]

Answers == [at : {"done"}, success : BOOLEAN, rows : SUBSET Pool,
            observed : Nat \cup {None}, stamp : Nat \cup {None}]

GroupState == {Unasked, [at |-> "asked"], [at |-> "waiting"]} \cup Answers

Queries == Query \cup {<<None, None>>} \cup {<<Symbol[t], Symbol[u]>> : t \in Token, u \in Token}

Coinages == {<<>>} \cup [Token -> {CoinOf[t] : t \in Token} \cup {None}]

PageState == [at : {"closed", "fetching", "shown"}, query : Queries, public : BOOLEAN,
              usable : SUBSET Pool, coins : Coinages, group : [Source -> GroupState]]

TestTypeOK ==
    /\ clock \in Nat
    /\ calls \in SUBSET CallState
    /\ page \in PageState

RowIsHonest(row, asked) ==
    /\ row \in CachedRow /\ row.rows \subseteq asked
    /\ row.fetchedAt \in Nat /\ row.fetchedAt <= row.observed

CallIsHonest(c) ==
    /\ c.live => c.asked \subseteq page.usable /\ (c.at = "live" <=> ~page.public)
    /\ c.at \in {"lookup", "fetch", "store"} => c.now \in Nat /\ c.now <= clock
    /\ c.at = "fetch" => c.cached = None \/ RowIsHonest(c.cached, c.asked)
    /\ c.at = "store" => /\ c.cached \in CachedRow /\ c.cached.rows \subseteq c.asked
                         /\ c.now <= c.cached.observed

AnswerIsHonest(g) ==
    /\ g.rows \subseteq page.usable
    /\ page.public /\ g.rows # {} => /\ g.stamp \in Nat /\ g.observed \in Nat
                                     /\ g.stamp <= g.observed

(* A pool found for a class query has a coin of the target class.          *)
IsOfTarget(p, query) ==
    aliasPairLabel(query[1], query[2]) # None =>
        \E i \in 1..2 : aliasForCgId(CoinOf[TokensOf[p][i]]) = query[2]

TestInv ==
    /\ TestTypeOK
    /\ \A c \in calls : CallIsHonest(c)
    /\ \A s \in Source : page.group[s].at = "done" => AnswerIsHonest(page.group[s])
    /\ \A asked \in DOMAIN cache : RowIsHonest(cache[asked], asked)
    /\ \A p \in page.usable : IsOfTarget(p, page.query)

LEMMA FailedIsAnswer == Failed \in Answers /\ Failed.rows = {}
BY DEF Failed, Answers

LEMMA AnswerType ==
    ASSUME NEW rows \in SUBSET Pool, NEW observed \in Nat \cup {None}, NEW stamp \in Nat \cup {None}
    PROVE  /\ Answer(rows, observed, stamp) \in Answers
           /\ Answer(rows, observed, stamp).rows = rows
           /\ Answer(rows, observed, stamp).observed = observed
           /\ Answer(rows, observed, stamp).stamp = stamp
BY DEF Answer, Answers

(* An honest row makes an honest answer.                                   *)
LEMMA FromCacheType ==
    ASSUME NEW row, NEW asked, RowIsHonest(row, asked)
    PROVE  LET g == FromCache(row)
           IN  /\ g \in Answers /\ g.rows \subseteq asked
               /\ g.stamp \in Nat /\ g.observed \in Nat /\ g.stamp <= g.observed
<1>1. /\ row.rows \in SUBSET Pool /\ row.rows \subseteq asked
      /\ row.observed \in Nat /\ row.fetchedAt \in Nat /\ row.fetchedAt <= row.observed
  BY DEF RowIsHonest, CachedRow
<1>2. FromCache(row) = Answer(row.rows, row.observed, row.fetchedAt)
  BY DEF FromCache
<1> HIDE DEF Answer
<1> QED
  BY <1>1, <1>2, AnswerType

(* What a subgraph answers is of the pools asked.                          *)
LEMMA FetchedAreAsked ==
    ASSUME NEW s, NEW asked
    PROVE  fetchPoolPrices(s, asked).prices \subseteq asked
<1>1. {toPoolPriceRow(p) : p \in asked} \ {None} \subseteq asked
  BY DEF toPoolPriceRow
<1> QED
  BY <1>1 DEF fetchPoolPrices

(* A pool resolved for a class query has the target's coin on one side.    *)
LEMMA ResolvedIsOfTarget ==
    ASSUME NEW query, NEW p \in resolvePriceTestPairs(query)
    PROVE  p \in verified /\ IsOfTarget(p, query)
<1> DEFINE classes == aliasPairLabel(query[1], query[2])
           key == canonicalKey(p)
<1>1. CASE classes = None
  BY <1>1 DEF resolvePriceTestPairs, IsOfTarget
<1>2. CASE classes # None
  <2>1. p \in verified /\ [pair |-> classes, key |-> key] \in aliasPairs
    BY <1>2 DEF resolvePriceTestPairs
  <2>2. PICK k \in {canonicalKey(q) : q \in verified} \ {None} :
            /\ aliasPairForCanonicalKey(k) # None
            /\ [pair |-> classes, key |-> key] = [pair |-> aliasPairForCanonicalKey(k), key |-> k]
    BY <2>1 DEF aliasPairs
  <2>3. key # None /\ aliasPairForCanonicalKey(key) = classes
    BY <2>2
  <2>4. key = {CoinOf[TokensOf[p][1]], CoinOf[TokensOf[p][2]]}
    BY <2>3 DEF canonicalKey
  <2>5. classes = {query[1], query[2]}
    BY <1>2 DEF aliasPairLabel
  <2>6. classes = {aliasForCgId(c) : c \in key}
    BY <1>2, <2>3 DEF aliasPairForCanonicalKey
  <2> HIDE DEF classes, key
  <2>7. PICK c \in key : aliasForCgId(c) = query[2]
    BY <2>5, <2>6
  <2>8. \E i \in 1..2 : c = CoinOf[TokensOf[p][i]]
    BY <2>4, <2>7
  <2> QED
    BY <2>1, <2>7, <2>8 DEF IsOfTarget
<1> QED
  BY <1>1, <1>2

-----------------------------------------------------------------------------
(* A page asked anew: nothing of before can reach it.                      *)
LEMMA AbandonedStay ==
    ASSUME TestInv, NEW d \in Abandoned
    PROVE  d \in CallState /\ d.live = FALSE /\
           \E c \in calls : /\ d.at = c.at /\ d.now = c.now /\ d.cached = c.cached
                            /\ d.asked = c.asked
<1>1. PICK c \in calls : d = [c EXCEPT !.live = FALSE]
  BY DEF Abandoned
<1>2. c \in CallState
  BY DEF TestInv, TestTypeOK
<1> QED
  BY <1>1, <1>2 DEF CallState

LEMMA FetchingAnew ==
    ASSUME TestInv, RowsOK, NEW base \in PageState, page' = Fetching(base), calls' = Abandoned,
           UNCHANGED <<clock, cache>>,
           \A p \in base.usable : IsOfTarget(p, base.query)
    PROVE  TestInv'
<1> DEFINE group == [s \in Source |->
               IF \E p \in base.usable : SourceOf[p] = s THEN [at |-> "asked"] ELSE Unasked]
<1>1. group \in [Source -> GroupState] /\ \A s \in Source : group[s].at # "done"
  BY DEF GroupState, Unasked
<1>2. page' = [base EXCEPT !.at = "fetching", !.group = group]
  BY DEF Fetching
<1> HIDE DEF group
<1>3. /\ page' \in PageState /\ page'.group = group
      /\ page'.usable = base.usable /\ page'.query = base.query
  BY <1>1, <1>2 DEF PageState
<1>4. ASSUME NEW d \in calls' PROVE d \in CallState /\ CallIsHonest(d)'
  <2>1. PICK c \in calls : /\ d.at = c.at /\ d.now = c.now /\ d.cached = c.cached
                           /\ d.asked = c.asked
    BY AbandonedStay
  <2>2. CallIsHonest(c)
    BY DEF TestInv
  <2>3. d \in CallState /\ d.live = FALSE
    BY AbandonedStay
  <2> QED
    BY <2>1, <2>2, <2>3 DEF CallIsHonest, RowIsHonest
<1>5. TestTypeOK'
  BY <1>3, <1>4 DEF TestInv, TestTypeOK
<1>6. \A s \in Source : page'.group[s].at # "done"
  BY <1>1, <1>3
<1>7. \A asked \in DOMAIN cache' : RowIsHonest(cache'[asked], asked)
  BY DEF TestInv
<1> QED
  BY <1>3, <1>4, <1>5, <1>6, <1>7 DEF TestInv, IsOfTarget, RowIsHonest

LEMMA OpenStep ==
    ASSUME TestInv, RowsOK, NEW query \in Queries, NEW public \in BOOLEAN, Open(query, public)
    PROVE  TestInv'
<1> DEFINE coins == [t \in Token |-> CoinId(t)]
           pools == Usable(resolvePriceTestPairs(query))
           base == [NoPage EXCEPT !.query = query, !.public = public,
                                  !.usable = pools, !.coins = coins]
<1>1. coins \in Coinages
  BY DEF CoinId, Coinages
<1>2. pools \subseteq resolvePriceTestPairs(query)
  BY DEF Usable
<1>3. \A p \in pools : p \in Pool /\ IsOfTarget(p, query)
  BY <1>2, ResolvedIsOfTarget DEF RowsOK
<1>4. [s \in Source |-> Unasked] \in [Source -> GroupState]
  BY DEF GroupState
<1>5. page' = Fetching(base) /\ calls' = Abandoned /\ UNCHANGED <<clock, cache>>
  BY DEF Open
<1> HIDE DEF coins, pools
<1>6. base \in PageState /\ base.usable = pools /\ base.query = query
  BY <1>1, <1>3, <1>4 DEF NoPage, PageState
<1> HIDE DEF base
<1> QED
  BY <1>3, <1>5, <1>6, FetchingAnew

(* A call goes on.                                                         *)
LEMMA GoesStep ==
    ASSUME TestInv, NEW c \in calls, NEW on, Goes(c, on), UNCHANGED <<clock, cache>>,
           on \in CallState, CallIsHonest(on)
    PROVE  TestInv'
<1>1. page' = page /\ calls' = (calls \ {c}) \cup {on}
  BY DEF Goes
<1>2. \A d \in calls' : d \in CallState /\ CallIsHonest(d)
  BY <1>1 DEF TestInv, TestTypeOK
<1>3. \A d : CallIsHonest(d) => CallIsHonest(d)'
  BY <1>1 DEF CallIsHonest, RowIsHonest
<1> QED
  BY <1>1, <1>2, <1>3 DEF TestInv, TestTypeOK, AnswerIsHonest, RowIsHonest, IsOfTarget

(* A page is changed in one source's group.                                *)
LEMMA GroupChanges ==
    ASSUME TestTypeOK, NEW s \in Source, NEW g \in GroupState, page' = [page EXCEPT !.group[s] = g]
    PROVE  /\ page' \in PageState
           /\ page'.query = page.query /\ page'.public = page.public
           /\ page'.usable = page.usable
           /\ page'.group[s] = g
           /\ \A x \in Source \ {s} : page'.group[x] = page.group[x]
<1>1. page.group \in [Source -> GroupState] /\ page \in PageState
  BY DEF TestTypeOK, PageState
<1>2. page' = [page EXCEPT !.group = [page.group EXCEPT ![s] = g]]
  OBVIOUS
<1> QED
  BY <1>1, <1>2 DEF PageState

(* The honesty of calls and answers depends on what stays.                 *)
LEMMA HonestyStays ==
    ASSUME page'.usable = page.usable, page'.public = page.public, clock' = clock
    PROVE  /\ \A c : CallIsHonest(c) => CallIsHonest(c)'
           /\ \A g : AnswerIsHonest(g) => AnswerIsHonest(g)'
BY DEF CallIsHonest, AnswerIsHonest, RowIsHonest

(* A call answers, its own page or nobody.                                 *)
LEMMA ReplyStep ==
    ASSUME TestInv, NEW c \in calls, NEW g \in Answers, Reply(c, g), UNCHANGED clock,
           c.live => AnswerIsHonest(g),
           \A asked \in DOMAIN cache' : RowIsHonest(cache'[asked], asked)
    PROVE  TestInv'
<1>1. c \in CallState
  BY DEF TestInv, TestTypeOK
<1>2. c.source \in Source /\ c.live \in BOOLEAN /\ g \in GroupState /\ g.at = "done"
  BY <1>1 DEF CallState, GroupState, Answers
<1>3. calls' = calls \ {c}
  BY DEF Reply
<1>4. /\ page' \in PageState
      /\ page'.query = page.query /\ page'.public = page.public
      /\ page'.usable = page.usable
      /\ \A s \in Source : page'.group[s] = page.group[s] \/ (c.live /\ page'.group[s] = g)
  <2>1. CASE c.live
    <3>1. page' = [page EXCEPT !.group[c.source] = g]
      BY <2>1 DEF Reply
    <3> QED
      BY <1>2, <2>1, <3>1, GroupChanges DEF TestInv
  <2>2. CASE ~c.live
    BY <2>2 DEF Reply, TestInv, TestTypeOK
  <2> QED
    BY <1>2, <2>1, <2>2
<1>5. TestTypeOK'
  BY <1>3, <1>4 DEF TestInv, TestTypeOK
<1>6. \A d \in calls' : CallIsHonest(d)'
  BY <1>3, <1>4, HonestyStays DEF TestInv
<1>7. \A s \in Source : (page.group[s].at = "done" => AnswerIsHonest(page.group[s]))'
  <2> SUFFICES ASSUME NEW s \in Source, page'.group[s].at = "done"
               PROVE  /\ page'.group[s].rows \subseteq page'.usable
                      /\ page'.public /\ page'.group[s].rows # {} =>
                            /\ page'.group[s].stamp \in Nat /\ page'.group[s].observed \in Nat
                            /\ page'.group[s].stamp <= page'.group[s].observed
    BY DEF AnswerIsHonest
  <2>1. CASE page'.group[s] = page.group[s]
    <3>1. AnswerIsHonest(page.group[s])
      BY <2>1 DEF TestInv
    <3> QED
      BY <1>4, <2>1, <3>1 DEF AnswerIsHonest
  <2>2. CASE c.live /\ page'.group[s] = g
    BY <1>4, <2>2 DEF AnswerIsHonest
  <2> QED
    BY <1>4, <2>1, <2>2
<1>8. \A p \in page'.usable : IsOfTarget(p, page'.query)
  BY <1>4 DEF TestInv
<1> QED
  BY <1>5, <1>6, <1>7, <1>8 DEF TestInv, RowIsHonest, IsOfTarget

-----------------------------------------------------------------------------
(* The endpoints, one step of a call at a time.                            *)
LEMMA GuardStep ==
    ASSUME TestInv, NEW c \in calls, Guard(c)
    PROVE  TestInv'
<1>1. c \in CallState /\ CallIsHonest(c) /\ c.at = "guard" /\ UNCHANGED <<clock, cache>>
  BY DEF TestInv, TestTypeOK, Guard
<1>2. PICK named \in SUBSET c.asked :
          LET safe == named \cap verified
          IN  IF safe = {} THEN Reply(c, Answer({}, None, None))
              ELSE Goes(c, [c EXCEPT !.at = "lookup", !.asked = safe, !.now = clock])
  BY DEF Guard
<1> DEFINE safe == named \cap verified
           on == [c EXCEPT !.at = "lookup", !.asked = safe, !.now = clock]
<1>3. CASE safe = {}
  <2>1. Reply(c, Answer({}, None, None))
    BY <1>2, <1>3
  <2>2. Answer({}, None, None) \in Answers /\ Answer({}, None, None).rows = {}
    BY AnswerType
  <2>3. AnswerIsHonest(Answer({}, None, None))
    BY <2>2 DEF AnswerIsHonest
  <2>4. \A asked \in DOMAIN cache' : RowIsHonest(cache'[asked], asked)
    BY <1>1 DEF TestInv
  <2> QED
    BY <1>1, <2>1, <2>2, <2>3, <2>4, ReplyStep
<1>4. CASE safe # {}
  <2>1. Goes(c, on)
    BY <1>2, <1>4
  <2>2. clock \in Nat /\ clock <= clock
    BY DEF TestInv, TestTypeOK
  <2>3. /\ on \in CallState /\ on.at = "lookup" /\ on.now = clock /\ on.live = c.live
        /\ on.asked \subseteq c.asked
    BY <1>1, <2>2 DEF CallState
  <2>4. CallIsHonest(on)
    BY <1>1, <2>2, <2>3 DEF CallIsHonest
  <2> HIDE DEF on
  <2> QED
    BY <1>1, <2>1, <2>3, <2>4, GoesStep
<1> QED
  BY <1>3, <1>4

LEMMA LookupStep ==
    ASSUME TestInv, NEW c \in calls, Lookup(c)
    PROVE  TestInv'
<1> DEFINE row == IF c.asked \in DOMAIN cache THEN cache[c.asked] ELSE None
           on == [c EXCEPT !.at = "fetch", !.cached = row]
<1>1. c \in CallState /\ CallIsHonest(c) /\ c.at = "lookup" /\ UNCHANGED <<clock, cache>>
  BY DEF TestInv, TestTypeOK, Lookup
<1>2. row # None => RowIsHonest(row, c.asked)
  BY DEF TestInv
<1>3. \/ row # None /\ Reply(c, FromCache(row))
      \/ Goes(c, on)
  BY DEF Lookup
<1> HIDE DEF row
<1>4. CASE row # None /\ Reply(c, FromCache(row))
  <2>1. /\ FromCache(row) \in Answers /\ FromCache(row).rows \subseteq c.asked
        /\ FromCache(row).stamp \in Nat /\ FromCache(row).observed \in Nat
        /\ FromCache(row).stamp <= FromCache(row).observed
    BY <1>2, <1>4, FromCacheType
  <2>2. c.live => AnswerIsHonest(FromCache(row))
    BY <1>1, <2>1 DEF CallIsHonest, AnswerIsHonest
  <2>3. \A asked \in DOMAIN cache' : RowIsHonest(cache'[asked], asked)
    BY <1>1 DEF TestInv
  <2> QED
    BY <1>1, <1>4, <2>1, <2>2, <2>3, ReplyStep
<1>5. CASE Goes(c, on)
  <2>1. row \in CachedRow \cup {None}
    BY <1>2 DEF RowIsHonest
  <2>2. /\ on \in CallState /\ on.at = "fetch" /\ on.now = c.now /\ on.live = c.live
        /\ on.asked = c.asked /\ on.cached = row
    BY <1>1, <2>1 DEF CallState
  <2>3. CallIsHonest(on)
    BY <1>1, <1>2, <2>2 DEF CallIsHonest
  <2> HIDE DEF on
  <2> QED
    BY <1>1, <1>5, <2>2, <2>3, GoesStep
<1> QED
  BY <1>3, <1>4, <1>5

LEMMA FetchLiveStep ==
    ASSUME TestInv, NEW c \in calls, FetchLive(c)
    PROVE  TestInv'
<1> DEFINE r == fetchPoolPrices(c.source, c.asked)
           g == IF r.success THEN Answer(r.prices, clock, None) ELSE Failed
<1>1. /\ c \in CallState /\ CallIsHonest(c) /\ c.at = "live" /\ UNCHANGED <<clock, cache>>
      /\ clock \in Nat /\ c.asked \in SUBSET Pool
  BY DEF TestInv, TestTypeOK, FetchLive, CallState
<1>2. Reply(c, g)
  BY DEF FetchLive
<1>3. r.prices \subseteq c.asked
  BY FetchedAreAsked
<1> HIDE DEF r
<1>4. g \in Answers /\ g.rows \subseteq c.asked
  <2>1. CASE r.success
    <3>1. r.prices \in SUBSET Pool /\ clock \in Nat \cup {None} /\ None \in Nat \cup {None}
      BY <1>1, <1>3
    <3>2. /\ Answer(r.prices, clock, None) \in Answers
          /\ Answer(r.prices, clock, None).rows = r.prices
      BY <3>1 DEF Answer, Answers
    <3> QED
      BY <1>3, <2>1, <3>2
  <2>2. CASE ~r.success
    BY <2>2, FailedIsAnswer
  <2> QED
    BY <2>1, <2>2
<1> HIDE DEF g
<1>5. c.live => AnswerIsHonest(g)
  BY <1>1, <1>4 DEF CallIsHonest, AnswerIsHonest
<1>6. \A asked \in DOMAIN cache' : RowIsHonest(cache'[asked], asked)
  BY <1>1 DEF TestInv
<1> QED
  BY <1>1, <1>2, <1>4, <1>5, <1>6, ReplyStep

LEMMA FetchStep ==
    ASSUME TestInv, NEW c \in calls, Fetch(c)
    PROVE  TestInv'
<1> DEFINE r == fetchPoolPrices(c.source, c.asked)
           row == [rows |-> r.prices, observed |-> clock, fetchedAt |-> None]
           on == [c EXCEPT !.at = "store", !.cached = row]
           g == IF c.cached # None THEN FromCache(c.cached) ELSE Failed
<1>1. /\ c \in CallState /\ CallIsHonest(c) /\ c.at = "fetch" /\ UNCHANGED <<clock, cache>>
      /\ clock \in Nat /\ c.asked \in SUBSET Pool
  BY DEF TestInv, TestTypeOK, Fetch, CallState
<1>2. Goes(c, on) \/ Reply(c, g)
  BY DEF Fetch
<1>3. r.prices \subseteq c.asked
  BY FetchedAreAsked
<1> HIDE DEF r
<1>4. CASE Goes(c, on)
  <2>1. row \in CachedRow /\ row.rows \subseteq c.asked /\ row.observed = clock
    BY <1>1, <1>3 DEF CachedRow
  <2> HIDE DEF row
  <2>2. /\ on \in CallState /\ on.at = "store" /\ on.now = c.now /\ on.live = c.live
        /\ on.asked = c.asked /\ on.cached = row
    BY <1>1, <2>1 DEF CallState
  <2>3. CallIsHonest(on)
    BY <1>1, <2>1, <2>2 DEF CallIsHonest
  <2> HIDE DEF on
  <2> QED
    BY <1>1, <1>4, <2>2, <2>3, GoesStep
<1>5. CASE Reply(c, g)
  <2>1. g \in Answers /\ (c.live => AnswerIsHonest(g))
    <3>1. CASE c.cached = None
      BY <3>1, FailedIsAnswer DEF AnswerIsHonest
    <3>2. CASE c.cached # None
      <4>1. RowIsHonest(c.cached, c.asked) /\ g = FromCache(c.cached)
        BY <1>1, <3>2 DEF CallIsHonest
      <4>2. /\ g \in Answers /\ g.rows \subseteq c.asked
            /\ g.stamp \in Nat /\ g.observed \in Nat /\ g.stamp <= g.observed
        BY <4>1, FromCacheType
      <4> QED
        BY <1>1, <4>2 DEF CallIsHonest, AnswerIsHonest
    <3> QED
      BY <3>1, <3>2
  <2>2. \A asked \in DOMAIN cache' : RowIsHonest(cache'[asked], asked)
    BY <1>1 DEF TestInv
  <2> HIDE DEF g
  <2> QED
    BY <1>1, <1>5, <2>1, <2>2, ReplyStep
<1> QED
  BY <1>2, <1>4, <1>5

LEMMA StoreStep ==
    ASSUME TestInv, NEW c \in calls, Store(c)
    PROVE  TestInv'
<1> DEFINE row == [c.cached EXCEPT !.fetchedAt = c.now]
<1>1. /\ c \in CallState /\ CallIsHonest(c) /\ c.at = "store" /\ UNCHANGED clock
      /\ c.asked \in SUBSET Pool
  BY DEF TestInv, TestTypeOK, Store, CallState
<1>2. /\ cache' \in {cache, [asked \in DOMAIN cache \cup {c.asked} |->
                            IF asked = c.asked THEN row ELSE cache[asked]]}
      /\ Reply(c, FromCache(row))
  BY DEF Store, Stamp
<1>3. /\ c.cached \in CachedRow /\ c.cached.rows \subseteq c.asked
      /\ c.now <= c.cached.observed /\ c.now \in Nat
  BY <1>1 DEF CallIsHonest
<1>4. RowIsHonest(row, c.asked)
  BY <1>3 DEF CachedRow, RowIsHonest
<1> HIDE DEF row
<1>5. /\ FromCache(row) \in Answers /\ FromCache(row).rows \subseteq c.asked
      /\ FromCache(row).stamp \in Nat /\ FromCache(row).observed \in Nat
      /\ FromCache(row).stamp <= FromCache(row).observed
  BY <1>4, FromCacheType
<1>6. c.live => AnswerIsHonest(FromCache(row))
  BY <1>1, <1>5 DEF CallIsHonest, AnswerIsHonest
<1>7. ASSUME NEW asked \in DOMAIN cache' PROVE RowIsHonest(cache'[asked], asked)
  <2>1. CASE cache' = cache
    BY <2>1 DEF TestInv
  <2>2. CASE cache' = [x \in DOMAIN cache \cup {c.asked} |->
                        IF x = c.asked THEN row ELSE cache[x]]
    BY <1>4, <2>2 DEF TestInv
  <2> QED
    BY <1>2, <2>1, <2>2
<1> QED
  BY <1>1, <1>2, <1>5, <1>6, <1>7, ReplyStep

-----------------------------------------------------------------------------
(* The page, and time.                                                     *)
LEMMA AskStep ==
    ASSUME TestInv, NEW s \in Source, Ask(s)
    PROVE  TestInv'
<1> DEFINE c == [at |-> IF page.public THEN "guard" ELSE "live", source |-> s, live |-> TRUE,
                 asked |-> {p \in page.usable : SourceOf[p] = s}, now |-> None, cached |-> None]
           g == [at |-> "waiting"]
<1>1. calls' = calls \cup {c} /\ page' = [page EXCEPT !.group[s] = g] /\ UNCHANGED <<clock, cache>>
  BY DEF Ask
<1>2. page \in PageState /\ page.usable \subseteq Pool /\ page.public \in BOOLEAN
  BY DEF TestInv, TestTypeOK, PageState
<1>3. c \in CallState /\ CallIsHonest(c)
  BY <1>2 DEF CallState, CallIsHonest
<1> HIDE DEF c
<1>4. g \in GroupState /\ g.at # "done"
  BY DEF GroupState
<1> HIDE DEF g
<1>5. /\ page' \in PageState
      /\ page'.query = page.query /\ page'.public = page.public
      /\ page'.usable = page.usable
      /\ page'.group[s] = g
      /\ \A x \in Source \ {s} : page'.group[x] = page.group[x]
  BY <1>1, <1>4, GroupChanges DEF TestInv
<1>6. \A d \in calls' : d \in CallState /\ CallIsHonest(d)
  BY <1>1, <1>3 DEF TestInv, TestTypeOK
<1>7. \A d \in calls' : CallIsHonest(d)'
  BY <1>1, <1>5, <1>6, HonestyStays
<1>8. \A x \in Source : (page.group[x].at = "done" => AnswerIsHonest(page.group[x]))'
  BY <1>4, <1>5 DEF TestInv, AnswerIsHonest
<1> QED
  BY <1>1, <1>5, <1>6, <1>7, <1>8 DEF TestInv, TestTypeOK, RowIsHonest, IsOfTarget

LEMMA LostStep ==
    ASSUME TestInv, NEW s \in Source, Lost(s)
    PROVE  TestInv'
<1>1. /\ calls' = {IF c.source = s THEN [c EXCEPT !.live = FALSE] ELSE c : c \in calls}
      /\ page' = [page EXCEPT !.group[s] = Failed]
      /\ UNCHANGED <<clock, cache>>
  BY DEF Lost
<1>2. Failed \in GroupState
  BY FailedIsAnswer DEF GroupState
<1>3. /\ page' \in PageState
      /\ page'.query = page.query /\ page'.public = page.public
      /\ page'.usable = page.usable
      /\ page'.group[s] = Failed
      /\ \A x \in Source \ {s} : page'.group[x] = page.group[x]
  BY <1>1, <1>2, GroupChanges DEF TestInv
<1>4. ASSUME NEW d \in calls' PROVE d \in CallState /\ CallIsHonest(d)
  <2>1. PICK c \in calls : d = c \/ d = [c EXCEPT !.live = FALSE]
    BY <1>1
  <2>2. c \in CallState /\ CallIsHonest(c)
    BY DEF TestInv, TestTypeOK
  <2>3. CASE d = c
    BY <2>2, <2>3
  <2>4. CASE d = [c EXCEPT !.live = FALSE]
    <3>1. /\ d \in CallState /\ d.live = FALSE
          /\ d.at = c.at /\ d.now = c.now /\ d.cached = c.cached /\ d.asked = c.asked
      BY <2>2, <2>4 DEF CallState
    <3> QED
      BY <2>2, <3>1 DEF CallIsHonest
  <2> QED
    BY <2>1, <2>3, <2>4
<1>5. \A d \in calls' : CallIsHonest(d)'
  BY <1>1, <1>3, <1>4, HonestyStays
<1>6. \A x \in Source : (page.group[x].at = "done" => AnswerIsHonest(page.group[x]))'
  BY <1>3, FailedIsAnswer DEF TestInv, AnswerIsHonest
<1> QED
  BY <1>1, <1>3, <1>4, <1>5, <1>6 DEF TestInv, TestTypeOK, RowIsHonest, IsOfTarget

LEMMA ShowStep ==
    ASSUME TestInv, Show
    PROVE  TestInv'
<1>1. page' = [page EXCEPT !.at = "shown"] /\ UNCHANGED <<clock, cache, calls>>
  BY DEF Show
<1>2. /\ page' \in PageState
      /\ page'.query = page.query /\ page'.public = page.public
      /\ page'.usable = page.usable /\ page'.group = page.group
  BY <1>1 DEF TestInv, TestTypeOK, PageState
<1>3. \A d \in calls' : CallIsHonest(d)'
  BY <1>1, <1>2, HonestyStays DEF TestInv
<1>4. \A x \in Source : (page.group[x].at = "done" => AnswerIsHonest(page.group[x]))'
  BY <1>2 DEF TestInv, AnswerIsHonest
<1> QED
  BY <1>1, <1>2, <1>3, <1>4 DEF TestInv, TestTypeOK, RowIsHonest, IsOfTarget

LEMMA TickStep ==
    ASSUME TestInv, Tick
    PROVE  TestInv'
<1>1. clock' = clock + 1 /\ UNCHANGED <<cache, calls, page>>
  BY DEF Tick
<1>2. clock \in Nat /\ clock' \in Nat
  BY <1>1 DEF TestInv, TestTypeOK
<1>3. \A n \in Nat : n <= clock => n <= clock'
  BY <1>1, <1>2
<1>4. \A d \in calls' : CallIsHonest(d)'
  BY <1>1, <1>3 DEF TestInv, CallIsHonest, RowIsHonest
<1> QED
  BY <1>1, <1>2, <1>4 DEF TestInv, TestTypeOK, AnswerIsHonest, RowIsHonest, IsOfTarget

LEMMA TestStepKeeps ==
    RowsOK /\ TestInv /\ [PriceTestNext]_<<vars, published, test>> => TestInv'
<1> SUFFICES ASSUME RowsOK, TestInv, [PriceTestNext]_<<vars, published, test>> PROVE TestInv'
  OBVIOUS
<1>1. CASE UNCHANGED test
  BY <1>1 DEF test, TestInv, TestTypeOK, CallIsHonest, AnswerIsHonest, RowIsHonest, IsOfTarget
<1>2. ASSUME NEW query \in Query, NEW public \in BOOLEAN, Open(query, public) PROVE TestInv'
  BY <1>2, OpenStep DEF Queries
<1>3. ASSUME NEW p \in verified, NEW public \in BOOLEAN,
             Open(<<Symbol[TokensOf[p][1]], Symbol[TokensOf[p][2]]>>, public)
      PROVE  TestInv'
  <2>1. TokensOf[p] \in Token \X Token
    BY PoolsAssumption DEF RowsOK
  <2>2. <<Symbol[TokensOf[p][1]], Symbol[TokensOf[p][2]]>> \in Queries
    BY <2>1 DEF Queries
  <2> QED
    BY <1>3, <2>2, OpenStep
<1>4. CASE Reload
  BY <1>4, FetchingAnew DEF Reload, TestInv, TestTypeOK
<1>5. CASE Show \/ Tick
  BY <1>5, ShowStep, TickStep
<1>6. ASSUME NEW s \in Source, Ask(s) \/ Lost(s) PROVE TestInv'
  BY <1>6, AskStep, LostStep
<1>7. ASSUME NEW c \in calls, Guard(c) \/ Lookup(c) \/ Fetch(c) \/ Store(c) \/ FetchLive(c)
      PROVE  TestInv'
  BY <1>7, GuardStep, LookupStep, FetchStep, StoreStep, FetchLiveStep
<1>8. CASE TestNext
  BY <1>2, <1>3, <1>4, <1>5, <1>6, <1>7, <1>8 DEF TestNext, Visit, VisitPair, TestStep
<1> QED
  BY <1>1, <1>8 DEF PriceTestNext

LEMMA TestInitially == PriceTestInit => TestInv
<1> SUFFICES ASSUME PriceTestInit PROVE TestInv
  OBVIOUS
<1>1. clock = 0 /\ cache = <<>> /\ calls = {} /\ page = NoPage
  BY DEF PriceTestInit, TestInit
<1>2. NoPage \in PageState /\ NoPage.usable = {} /\ \A s \in Source : NoPage.group[s].at = "none"
  BY DEF NoPage, PageState, Queries, Coinages, GroupState, Unasked
<1> QED
  BY <1>1, <1>2 DEF TestInv, TestTypeOK

LEMMA TestHolds == PriceTestSpec => [](RowsOK /\ TestInv)
<1>1. PriceTestInit => RowsOK
  BY FloorsAssumption DEF PriceTestInit, RowsInit, RowsOK
<1> QED
  BY <1>1, TestInitially, RowsStep, TestStepKeeps, PTL DEF PriceTestSpec

(* The variables of the price test keep their types.                       *)
THEOREM TestTypeCorrect == PriceTestSpec => [](RowsOK /\ TestTypeOK)
<1>1. TestInv => TestTypeOK
  BY DEF TestInv
<1> QED
  BY <1>1, TestHolds, PTL

(* "Last refreshed" never flatters: no price on a public page was seen     *)
(* before the time the banner shows, however calls of several pages        *)
(* overlap, slow ones overwrite newer rows of the cache, and outages send  *)
(* old ones (pages/api/ooo/v1/prices.ts, components/PriceTest).            *)
THEOREM BannerNeverFlatters == PriceTestSpec => []BannerIsHonest
<1>1. TestInv => BannerIsHonest
  <2> SUFFICES ASSUME TestInv, page.public, NEW s \in Source,
                      page.group[s].at = "done", page.group[s].rows # {}
               PROVE  Stamps # {} /\ page.group[s].observed >= Min(Stamps)
    BY DEF BannerIsHonest
  <2>1. /\ page.group[s].stamp \in Nat /\ page.group[s].observed \in Nat
        /\ page.group[s].stamp <= page.group[s].observed
    BY DEF TestInv, AnswerIsHonest
  <2>2. page.group[s].stamp \in Stamps
    BY <2>1, NoneAssumption DEF Stamps
  <2>3. Stamps \in SUBSET Nat
    <3>1. ASSUME NEW x \in Source, page.group[x].at = "done"
          PROVE  page.group[x].stamp \in Nat \cup {None}
      <4>1. page.group[x] \in GroupState
        BY DEF TestInv, TestTypeOK, PageState
      <4>2. page.group[x] \in Answers
        BY <3>1, <4>1 DEF GroupState, Unasked
      <4> QED
        BY <4>2 DEF Answers
    <3> QED
      BY <3>1 DEF Stamps
  <2>4. \E n \in Stamps : \A m \in Stamps : n <= m
    BY <2>2, <2>3, LeastOfSome
  <2>5. Min(Stamps) \in Stamps /\ \A m \in Stamps : Min(Stamps) <= m
    BY <2>4 DEF Min
  <2>6. Min(Stamps) \in Nat /\ Min(Stamps) <= page.group[s].stamp
    BY <2>2, <2>3, <2>5
  <2> QED
    BY <2>1, <2>2, <2>6
<1> QED
  BY <1>1, TestHolds, PTL

(* No price is upside-down: in a query by symbol or by class, on whichever *)
(* side of the pool the target is, a legible pool's price is target per    *)
(* base (lib/aliasGroups.ts targetSideSymbol).                             *)
THEOREM NoneUpsideDown == PriceTestSpec => []RightWayUp
<1>1. TestInv => RightWayUp
  <2> SUFFICES ASSUME TestInv, NEW p \in Samples, Legible(p)
               PROVE  targetPrice(p) = (IF TargetSide(p) = 1 THEN token0Price(p) ELSE token1Price(p))
    BY DEF RightWayUp, Prices
  <2> DEFINE base == page.query[1]
             target == page.query[2]
             t == TokensOf[p]
             label == aliasPairLabel(base, target)
  <2>1. p \in page.usable /\ p \in Pool
    <3>1. page.usable \subseteq Pool
      BY DEF TestInv, TestTypeOK, PageState
    <3> QED
      BY <3>1 DEF Samples, TestInv, AnswerIsHonest
  <2>2. normaliseV4Symbol(p, 1) = Symbol[t[1]]
    BY <2>1, NativeAssumption DEF normaliseV4Symbol, Legible
  <2>3. Symbol[t[1]] # Symbol[t[2]] /\ \A i \in 1..2 : page.coins[t[i]] = CoinOf[t[i]]
    BY DEF Legible
  <2>4. CASE label = None
    BY <2>2, <2>3, <2>4 DEF targetPrice, targetSideSymbol, TargetSide
  <2>5. CASE label # None
    <3> DEFINE sides == {i \in 1..2 : aliasForCgId(CoinOf[t[i]]) = target}
    <3>1. IsOfTarget(p, page.query)
      BY <2>1 DEF TestInv
    <3>2. sides # {}
      BY <2>5, <3>1 DEF IsOfTarget
    <3>3. sides = {i \in 1..2 : aliasForCgId(page.coins[t[i]]) = target}
      BY <2>3
    <3>4. targetSideSymbol(p) = Symbol[t[Min(sides)]]
      BY <2>5, <3>2, <3>3 DEF targetSideSymbol
    <3>5. \E i \in sides : \A j \in sides : i <= j
      BY <3>2, SmallestNatural
    <3>6. Min(sides) \in sides /\ \A j \in sides : Min(sides) <= j
      <4> HIDE DEF sides
      <4> QED BY <3>5 DEF Min
    <3>7. CASE 1 \in sides
      <4>1. Min(sides) = 1 /\ TargetSide(p) = 1
        BY <2>5, <3>6, <3>7 DEF TargetSide
      <4> QED
        BY <2>2, <3>4, <4>1 DEF targetPrice
    <3>8. CASE 1 \notin sides
      <4>1. Min(sides) = 2 /\ TargetSide(p) = 2
        BY <2>5, <3>6, <3>8 DEF TargetSide
      <4> QED
        BY <2>2, <2>3, <3>4, <4>1 DEF targetPrice
    <3> QED
      BY <3>7, <3>8
  <2> QED
    BY <2>4, <2>5
<1> QED
  BY <1>1, TestHolds, PTL

-----------------------------------------------------------------------------
(* Sums.  An induction over a finite set takes the smallest of its subsets *)
(* for which something fails.                                              *)
LEMMA SmallestOf ==
    ASSUME NEW S, IsFiniteSet(S), NEW T \in SUBSET (SUBSET S), T # {}
    PROVE  \E U \in T : \A V \in T : V \subseteq U => V = U
<1> DEFINE R == StrictSubsetOrdering(S)
           Parts == SUBSET S
<1>1. IsWellFoundedOn(R, Parts)
  BY FS_FiniteSubsetsOfFinite, FS_StrictSubsetOrderingWellFounded
<1>2. \E U \in T : \A V \in T : ~ (<<V, U>> \in R)
  <2> HIDE DEF R
  <2> QED BY <1>1, WFMin, Zenon
<1> QED
  BY <1>2 DEF StrictSubsetOrdering

\* The element a fold takes next, and the function that sums f by it.
Next1(s) == CHOOSE x \in s : TRUE
Adds(f, g, S) ==
    g = [s \in SUBSET S |-> IF s = {} THEN 0 ELSE f[Next1(s)] + g[s \ {Next1(s)}]]

\* A fold takes an element of what is left.
LEMMA TakesOne == ASSUME NEW s, s # {} PROVE Next1(s) \in s
BY DEF Next1

\* Two functions that sum f agree where both are defined.
LEMMA AddsAlike ==
    ASSUME NEW f, NEW S, NEW T, IsFiniteSet(S), S \subseteq T,
           NEW g, Adds(f, g, S), NEW h, Adds(f, h, T)
    PROVE  \A s \in SUBSET S : g[s] = h[s]
<1> DEFINE Bad == {s \in SUBSET S : g[s] # h[s]}
<1> SUFFICES ASSUME Bad # {} PROVE FALSE
  OBVIOUS
<1>1. PICK s \in Bad : \A t \in Bad : t \subseteq s => t = s
  <2>1. Bad \in SUBSET (SUBSET S)
    OBVIOUS
  <2> HIDE DEF Bad
  <2> QED BY <2>1, SmallestOf
<1>2. s \in SUBSET S /\ s \in SUBSET T /\ g[s] # h[s]
  OBVIOUS
<1>3. /\ g[s] = IF s = {} THEN 0 ELSE f[Next1(s)] + g[s \ {Next1(s)}]
      /\ h[s] = IF s = {} THEN 0 ELSE f[Next1(s)] + h[s \ {Next1(s)}]
  BY <1>2, Zenon DEF Adds
<1>4. s # {}
  BY <1>2, <1>3
<1>5. s \ {Next1(s)} \in SUBSET S /\ s \ {Next1(s)} \subseteq s /\ s \ {Next1(s)} # s
  BY <1>2, <1>4, TakesOne
<1>6. g[s \ {Next1(s)}] = h[s \ {Next1(s)}]
  BY <1>1, <1>5
<1> QED
  BY <1>2, <1>3, <1>6

\* There is a function that sums f over the subsets of a finite set.
LEMMA AddsExist ==
    ASSUME NEW f, NEW S, IsFiniteSet(S)
    PROVE  \E g : Adds(f, g, S)
<1> DEFINE Bad == {s \in SUBSET S : ~ \E g : Adds(f, g, s)}
<1> SUFFICES ASSUME Bad # {} PROVE FALSE
  OBVIOUS
<1>1. PICK U \in Bad : \A t \in Bad : t \subseteq U => t = U
  <2>1. Bad \in SUBSET (SUBSET S)
    OBVIOUS
  <2> HIDE DEF Bad
  <2> QED BY <2>1, SmallestOf
<1>2. U \in SUBSET S /\ ~ \E g : Adds(f, g, U)
  OBVIOUS
<1> DEFINE Part(s) == CHOOSE g : Adds(f, g, s)
           Value(s) == IF s = {} THEN 0
                       ELSE f[Next1(s)] + Part(s \ {Next1(s)})[s \ {Next1(s)}]
           G == [s \in SUBSET U |-> Value(s)]
<1>3. ASSUME NEW s \in SUBSET U, s # U
      PROVE  Adds(f, Part(s), s)
  <2>1. \E g : Adds(f, g, s)
    <3>1. s \notin Bad
      BY <1>1, <1>3
    <3> QED BY <1>2, <3>1
  <2> QED BY <2>1, Zenon
<1>4. ASSUME NEW s \in SUBSET U, s # U
      PROVE  Part(s)[s] = Value(s)
  <2>1. Adds(f, Part(s), s)
    BY <1>3, <1>4
  <2>2. Part(s)[s] = IF s = {} THEN 0 ELSE f[Next1(s)] + Part(s)[s \ {Next1(s)}]
    <3> HIDE DEF Part
    <3> QED BY <2>1, Zenon DEF Adds
  <2>3. CASE s = {}
    BY <2>2, <2>3
  <2>4. CASE s # {}
    <3> DEFINE r == s \ {Next1(s)}
    <3>1. r \subseteq s /\ r \in SUBSET U /\ r # U /\ r \in SUBSET r
      BY <2>4, <1>4, TakesOne
    <3>2. Adds(f, Part(r), r)
      BY <3>1, <1>3
    <3>3. IsFiniteSet(r)
      BY <1>2, <3>1, FS_Subset
    <3>4. Part(r)[r] = Part(s)[r]
      <4> HIDE DEF Part, r
      <4> QED BY <2>1, <3>1, <3>2, <3>3, AddsAlike
    <3> QED
      BY <2>2, <2>4, <3>4
  <2> QED BY <2>3, <2>4
<1>5. Adds(f, G, U)
  <2>1. ASSUME NEW s \in SUBSET U
        PROVE  Value(s) = IF s = {} THEN 0 ELSE f[Next1(s)] + G[s \ {Next1(s)}]
    <3>1. CASE s = {}
      BY <3>1
    <3>2. CASE s # {}
      <4> DEFINE r == s \ {Next1(s)}
      <4>1. r \in SUBSET U /\ r # U
        BY <3>2, TakesOne
      <4>2. Part(r)[r] = Value(r) /\ G[r] = Value(r)
        BY <4>1, <1>4
      <4> QED
        BY <3>2, <4>2
    <3> QED BY <3>1, <3>2
  <2> HIDE DEF Value
  <2>2. G = [s \in SUBSET U |-> IF s = {} THEN 0 ELSE f[Next1(s)] + G[s \ {Next1(s)}]]
    BY <2>1
  <2> HIDE DEF G
  <2> QED BY <2>2 DEF Adds
<1> QED
  BY <1>2, <1>5

\* The sum of f over S.
SumOver(f, S) == (CHOOSE g : Adds(f, g, S))[S]

\* What the model calls a total is a sum.
LEMMA TotalIsSum == ASSUME NEW f PROVE Total(f) = SumOver(f, DOMAIN f)
BY Zenon DEF Total, FoldFunction, FoldFunctionOnSet, MapThenFoldSet, SumOver, Adds, Next1

\* A sum, an element at a time.
LEMMA SumStep ==
    ASSUME NEW f, NEW S, IsFiniteSet(S)
    PROVE  SumOver(f, S) = IF S = {} THEN 0 ELSE f[Next1(S)] + SumOver(f, S \ {Next1(S)})
<1> DEFINE Part(s) == CHOOSE g : Adds(f, g, s)
           r == S \ {Next1(S)}
<1>1. Adds(f, Part(S), S)
  BY AddsExist, Zenon
<1>2. Part(S)[S] = IF S = {} THEN 0 ELSE f[Next1(S)] + Part(S)[r]
  <2> HIDE DEF Part
  <2> QED BY <1>1, Zenon DEF Adds
<1>3. IsFiniteSet(r) /\ r \subseteq S
  BY FS_Subset
<1>4. Adds(f, Part(r), r)
  <2> HIDE DEF r
  <2> QED BY <1>3, AddsExist, Zenon
<1>5. Part(r)[r] = Part(S)[r]
  <2> HIDE DEF Part, r
  <2> QED BY <1>1, <1>3, <1>4, AddsAlike
<1> QED
  BY <1>2, <1>5 DEF SumOver

\* A sum of integers is one.
LEMMA SumInt ==
    ASSUME NEW f, NEW S, IsFiniteSet(S), \A i \in S : f[i] \in Int
    PROVE  SumOver(f, S) \in Int
<1> DEFINE Bad == {s \in SUBSET S : SumOver(f, s) \notin Int}
<1> SUFFICES ASSUME Bad # {} PROVE FALSE
  OBVIOUS
<1>1. PICK s \in Bad : \A t \in Bad : t \subseteq s => t = s
  <2>1. Bad \in SUBSET (SUBSET S)
    OBVIOUS
  <2> HIDE DEF Bad
  <2> QED BY <2>1, SmallestOf
<1>2. s \in SUBSET S /\ SumOver(f, s) \notin Int /\ IsFiniteSet(s)
  BY FS_Subset
<1>3. SumOver(f, s) = IF s = {} THEN 0 ELSE f[Next1(s)] + SumOver(f, s \ {Next1(s)})
  BY <1>2, SumStep
<1>4. s # {} /\ Next1(s) \in S /\ s \ {Next1(s)} \in SUBSET S /\ s \ {Next1(s)} # s
  BY <1>2, <1>3, TakesOne
<1>5. SumOver(f, s \ {Next1(s)}) \in Int
  BY <1>1, <1>4
<1> QED
  BY <1>2, <1>3, <1>4, <1>5

(* A bound on each of the summands, in proportion to a weight, bounds the  *)
(* sum in proportion to the sum of the weights.                            *)
LEMMA Proportion ==
    ASSUME NEW a \in Int, NEW b \in Int, NEW f \in Int, NEW w \in Int, NEW F \in Int, NEW W \in Int,
           a * f <= b * w, a * F <= b * W
    PROVE  a * (f + F) <= b * (w + W)
<1>1. a * (f + F) = a * f + a * F /\ b * (w + W) = b * w + b * W
  OBVIOUS
<1>2. a * f \in Int /\ a * F \in Int /\ b * w \in Int /\ b * W \in Int
  OBVIOUS
<1> QED BY <1>1, <1>2

LEMMA SumBounded ==
    ASSUME NEW f, NEW w, NEW S, IsFiniteSet(S), NEW a \in Int, NEW b \in Int,
           \A i \in S : f[i] \in Int /\ w[i] \in Int /\ a * f[i] <= b * w[i]
    PROVE  a * SumOver(f, S) <= b * SumOver(w, S)
<1> DEFINE Bad == {s \in SUBSET S : ~(a * SumOver(f, s) <= b * SumOver(w, s))}
<1> SUFFICES ASSUME Bad # {} PROVE FALSE
  OBVIOUS
<1>1. PICK s \in Bad : \A t \in Bad : t \subseteq s => t = s
  <2>1. Bad \in SUBSET (SUBSET S)
    OBVIOUS
  <2> HIDE DEF Bad
  <2> QED BY <2>1, SmallestOf
<1>2. s \in SUBSET S /\ ~(a * SumOver(f, s) <= b * SumOver(w, s)) /\ IsFiniteSet(s)
  BY FS_Subset
<1> DEFINE r == s \ {Next1(s)}
<1>3. /\ SumOver(f, s) = IF s = {} THEN 0 ELSE f[Next1(s)] + SumOver(f, r)
      /\ SumOver(w, s) = IF s = {} THEN 0 ELSE w[Next1(s)] + SumOver(w, r)
  BY <1>2, SumStep
<1>4. s # {}
  BY <1>2, <1>3
<1>5. Next1(s) \in S /\ r \in SUBSET S /\ r \subseteq s /\ r # s /\ IsFiniteSet(r)
  BY <1>2, <1>4, TakesOne, FS_Subset
<1>6. a * SumOver(f, r) <= b * SumOver(w, r)
  <2> HIDE DEF r
  <2>1. r \notin Bad
    BY <1>1, <1>5
  <2> QED BY <1>5, <2>1
<1>7. SumOver(f, r) \in Int /\ SumOver(w, r) \in Int
  <2> HIDE DEF r
  <2> QED BY <1>5, SumInt
<1> HIDE DEF r, Bad
<1>8. f[Next1(s)] \in Int /\ w[Next1(s)] \in Int /\ a * f[Next1(s)] <= b * w[Next1(s)]
  BY <1>5
<1>9. a * SumOver(f, s) <= b * SumOver(w, s)
  BY <1>3, <1>4, <1>6, <1>7, <1>8, Proportion
<1> QED
  BY <1>2, <1>9

(* Weights of one sum to a number of elements.                             *)
LEMMA SumOnes ==
    ASSUME NEW w, NEW S, IsFiniteSet(S), \A i \in S : w[i] = 1
    PROVE  SumOver(w, S) = Cardinality(S)
<1> DEFINE Bad == {s \in SUBSET S : SumOver(w, s) # Cardinality(s)}
<1> SUFFICES ASSUME Bad # {} PROVE FALSE
  OBVIOUS
<1>1. PICK s \in Bad : \A t \in Bad : t \subseteq s => t = s
  <2>1. Bad \in SUBSET (SUBSET S)
    OBVIOUS
  <2> HIDE DEF Bad
  <2> QED BY <2>1, SmallestOf
<1>2. s \in SUBSET S /\ SumOver(w, s) # Cardinality(s) /\ IsFiniteSet(s)
  BY FS_Subset
<1> DEFINE r == s \ {Next1(s)}
<1>3. SumOver(w, s) = IF s = {} THEN 0 ELSE w[Next1(s)] + SumOver(w, r)
  BY <1>2, SumStep
<1>4. s # {}
  BY <1>2, <1>3, FS_EmptySet
<1>5. Next1(s) \in s /\ r \in SUBSET S /\ r \subseteq s /\ r # s
  BY <1>2, <1>4, TakesOne
<1>6. SumOver(w, r) = Cardinality(r)
  <2> HIDE DEF r
  <2> QED BY <1>1, <1>5
<1>7. Cardinality(r) = Cardinality(s) - 1 /\ Cardinality(s) \in Nat
  BY <1>2, <1>5, FS_RemoveElement, FS_CardinalityType
<1> HIDE DEF r, Bad
<1> QED
  BY <1>2, <1>3, <1>4, <1>5, <1>6, <1>7

-----------------------------------------------------------------------------
(* Order statistics.                                                       *)
LEMMA GreatestOf ==
    ASSUME NEW D, IsFiniteSet(D), D # {}, NEW f, \A i \in D : f[i] \in Int
    PROVE  \E m \in D : \A j \in D : f[j] <= f[m]
<1> DEFINE Above(i) == {j \in D : f[j] > f[i]}
           T == {Above(i) : i \in D}
<1>1. T \in SUBSET (SUBSET D) /\ T # {}
  OBVIOUS
<1>2. PICK U \in T : \A V \in T : V \subseteq U => V = U
  <2> HIDE DEF T
  <2> QED BY <1>1, SmallestOf
<1>3. PICK m \in D : U = Above(m)
  OBVIOUS
<1>4. ASSUME NEW j \in D, ~(f[j] <= f[m]) PROVE FALSE
  <2>1. f[j] \in Int /\ f[m] \in Int /\ f[j] > f[m]
    BY <1>4
  <2>2. Above(j) \subseteq Above(m)
    BY <2>1
  <2>3. j \in Above(m) /\ j \notin Above(j)
    BY <2>1
  <2> HIDE DEF Above
  <2> QED BY <1>2, <1>3, <2>2, <2>3
<1> QED BY <1>4

UnderIn(f, v) == {i \in DOMAIN f : f[i] < v}
UpToIn(f, v) == {i \in DOMAIN f : f[i] <= v}

(* There is a k-th smallest value, whichever k of the values it is.        *)
LEMMA NthIs ==
    ASSUME NEW D, IsFiniteSet(D), NEW f \in [D -> Int], NEW k \in 1..Cardinality(D)
    PROVE  /\ Nth(f, k) \in Int /\ \E i \in D : f[i] = Nth(f, k)
           /\ Cardinality(UnderIn(f, Nth(f, k))) < k
           /\ Cardinality(UpToIn(f, Nth(f, k))) >= k
<1> DEFINE T == {UpToIn(f, f[i]) : i \in {j \in D : Cardinality(UpToIn(f, f[j])) >= k}}
<1>0. \A v \in Int : /\ UnderIn(f, v) \in SUBSET D /\ IsFiniteSet(UnderIn(f, v))
                     /\ UpToIn(f, v) \in SUBSET D /\ IsFiniteSet(UpToIn(f, v))
  <2>1. \A v : UnderIn(f, v) \in SUBSET D /\ UpToIn(f, v) \in SUBSET D
    BY DEF UnderIn, UpToIn
  <2> QED BY <2>1, FS_Subset
<1>1. D # {} /\ Cardinality(D) \in Nat /\ k \in Nat
  BY FS_EmptySet, FS_CardinalityType
<1>2. PICK m \in D : \A j \in D : f[j] <= f[m]
  BY <1>1, GreatestOf
<1>3. UpToIn(f, f[m]) = D
  BY <1>2 DEF UpToIn
<1>4. UpToIn(f, f[m]) \in T
  BY <1>1, <1>2, <1>3
<1>5. T \in SUBSET (SUBSET D)
  BY <1>0
<1>6. PICK U \in T : \A V \in T : V \subseteq U => V = U
  <2> HIDE DEF T
  <2> QED BY <1>4, <1>5, SmallestOf
<1>7. PICK i \in D : U = UpToIn(f, f[i]) /\ Cardinality(UpToIn(f, f[i])) >= k
  OBVIOUS
<1>8. ASSUME ~(Cardinality(UnderIn(f, f[i])) < k) PROVE FALSE
  <2> DEFINE W == UnderIn(f, f[i])
  <2>0. IsFiniteSet(W) /\ W \subseteq D
    <3>1. f[i] \in Int
      BY <1>7
    <3> QED BY <1>0, <3>1
  <2>1. IsFiniteSet(W) /\ W \subseteq D /\ Cardinality(W) \in Nat /\ Cardinality(W) >= k
    <3>1. Cardinality(W) \in Nat
      <4> HIDE DEF W
      <4> QED BY <2>0, FS_CardinalityType
    <3> QED BY <1>1, <1>8, <2>0, <3>1
  <2>2. W # {}
    BY <2>1, <1>1, FS_EmptySet
  <2>3. PICK n \in W : \A j \in W : f[j] <= f[n]
    <3> HIDE DEF W
    <3> QED BY <2>1, <2>2, GreatestOf
  <2>4. n \in D /\ f[n] < f[i] /\ f[n] \in Int /\ f[i] \in Int
    BY <2>3 DEF UnderIn
  <2>5. UpToIn(f, f[n]) = W
    <3>1. ASSUME NEW j \in D PROVE f[j] <= f[n] <=> f[j] < f[i]
      <4>1. f[j] < f[i] => j \in W
        BY DEF UnderIn
      <4> HIDE DEF W
      <4>2. f[j] \in Int
        BY <3>1
      <4> QED BY <2>3, <2>4, <4>1, <4>2
    <3> QED BY <3>1 DEF UnderIn, UpToIn
  <2>6. W \in T
    <3>1. n \in {j \in D : Cardinality(UpToIn(f, f[j])) >= k}
      BY <2>1, <2>4, <2>5
    <3> HIDE DEF W
    <3> QED BY <2>5, <3>1
  <2>7. W \subseteq U /\ i \in U /\ i \notin W
    BY <1>7, <2>4 DEF UnderIn, UpToIn
  <2> QED BY <1>6, <2>6, <2>7
<1>9. \E v \in Range(f) : Cardinality({j \in DOMAIN f : f[j] < v}) < k
                          /\ Cardinality({j \in DOMAIN f : f[j] <= v}) >= k
  BY <1>7, <1>8 DEF Range, UnderIn, UpToIn
<1>10. /\ Nth(f, k) \in Range(f)
       /\ Cardinality({j \in DOMAIN f : f[j] < Nth(f, k)}) < k
       /\ Cardinality({j \in DOMAIN f : f[j] <= Nth(f, k)}) >= k
  BY <1>9, Zenon DEF Nth
<1> QED
  BY <1>10 DEF Range, UnderIn, UpToIn

\* A part of a finite set has no more elements.
LEMMA CountIn ==
    ASSUME NEW D, IsFiniteSet(D), NEW S, NEW T, S \subseteq T, T \subseteq D
    PROVE  Cardinality(S) \in Nat /\ Cardinality(T) \in Nat /\ Cardinality(S) <= Cardinality(T)
BY FS_Subset, FS_CardinalityType

\* The order statistics are in order.
LEMMA NthGrows ==
    ASSUME NEW D, IsFiniteSet(D), NEW f \in [D -> Int],
           NEW k \in 1..Cardinality(D), NEW l \in 1..Cardinality(D), k <= l
    PROVE  Nth(f, k) <= Nth(f, l)
<1> DEFINE u == Nth(f, k)
           v == Nth(f, l)
<1>1. /\ u \in Int /\ Cardinality(UnderIn(f, u)) < k
      /\ v \in Int /\ Cardinality(UpToIn(f, v)) >= l
  BY NthIs
<1> SUFFICES ASSUME v < u PROVE FALSE
  BY <1>1
<1> HIDE DEF u, v
<1>2. UpToIn(f, v) \subseteq UnderIn(f, u) /\ UnderIn(f, u) \subseteq D
  BY <1>1 DEF UnderIn, UpToIn
<1>3. /\ Cardinality(UpToIn(f, v)) \in Nat /\ Cardinality(UnderIn(f, u)) \in Nat
      /\ Cardinality(UpToIn(f, v)) <= Cardinality(UnderIn(f, u))
  BY <1>2, CountIn
<1>4. k \in Int /\ l \in Int
  OBVIOUS
<1> QED BY <1>1, <1>3, <1>4

(* A middle value lies where most of the values lie.                       *)
LEMMA MiddleIsCommon ==
    ASSUME NEW D, IsFiniteSet(D), NEW f \in [D -> Int], NEW k \in 1..Cardinality(D),
           Cardinality(D) <= 2 * k, 2 * (k - 1) <= Cardinality(D),
           NEW G \in SUBSET D, 2 * Cardinality(G) > Cardinality(D),
           NEW lo \in Int, NEW hi \in Int, \A i \in G : lo <= f[i] /\ f[i] <= hi
    PROVE  lo <= Nth(f, k) /\ Nth(f, k) <= hi
<1> DEFINE v == Nth(f, k)
<1>1. v \in Int /\ Cardinality(UnderIn(f, v)) < k /\ Cardinality(UpToIn(f, v)) >= k
  BY NthIs
<1> HIDE DEF v
<1>2. k \in Nat /\ Cardinality(D) \in Nat /\ Cardinality(G) \in Nat /\ IsFiniteSet(G)
  BY FS_CardinalityType, FS_Subset
<1>3. ASSUME v < lo PROVE FALSE
  <2>1. UpToIn(f, v) \subseteq D \ G
    BY <1>1, <1>3 DEF UpToIn
  <2>2. Cardinality(D \ G) = Cardinality(D) - Cardinality(G)
    <3>1. D \cap G = G
      OBVIOUS
    <3> QED BY <3>1, FS_Difference
  <2>3. Cardinality(UpToIn(f, v)) \in Nat /\ Cardinality(UpToIn(f, v)) <= Cardinality(D \ G)
    BY <2>1, CountIn
  <2> QED BY <1>1, <1>2, <2>2, <2>3
<1>4. ASSUME v > hi PROVE FALSE
  <2>1. G \subseteq UnderIn(f, v) /\ UnderIn(f, v) \subseteq D
    BY <1>1, <1>4 DEF UnderIn
  <2>2. Cardinality(UnderIn(f, v)) \in Nat /\ Cardinality(G) <= Cardinality(UnderIn(f, v))
    BY <2>1, CountIn
  <2> QED BY <1>1, <1>2, <2>2
<1> QED BY <1>1, <1>3, <1>4 DEF v

-----------------------------------------------------------------------------
(* No method rejects everything.  The deviation least far from the middle  *)
(* is not above the median of the deviations.                              *)
LEMMA NoneEmptiedByMAD ==
    ASSUME NEW D, IsFiniteSet(D), D # {}, NEW f \in [D -> Nat]
    PROVE  removeOutliersMAD(f) # {}
<1> DEFINE n == Cardinality(D)
<1>1. n \in Nat /\ n >= 1 /\ Count(f) = n
  BY FS_CardinalityType, FS_EmptySet DEF Count
<1>2. CASE n < 3
  BY <1>1, <1>2 DEF removeOutliersMAD
<1>3. CASE ~(n < 3)
  <2> DEFINE a == (n + 1) \div 2
             b == n \div 2 + 1
             dev == Deviation2(f)
             mad == Mad4(f)
  <2> HIDE DEF n
  <2>1. a \in 1..n /\ b \in 1..n /\ a <= b
    BY <1>1, <1>3
  <2>2. Median2(f) = Nth(f, a) + Nth(f, b) /\ Median2(f) \in Int
    <3>1. f \in [D -> Int]
      OBVIOUS
    <3>2. Nth(f, a) \in Int /\ Nth(f, b) \in Int
      BY <2>1, <3>1, NthIs DEF n
    <3> QED BY <1>1, <3>2 DEF Median2
  <2>3. dev \in [D -> Nat]
    BY <2>2 DEF Deviation2, Magnitude
  <2> HIDE DEF dev
  <2>4. dev \in [D -> Int] /\ Count(dev) = n
    BY <2>3 DEF Count, n
  <2>5. PICK i \in D : dev[i] = Nth(dev, a)
    BY <2>1, <2>4, NthIs DEF n
  <2>6. Nth(dev, a) <= Nth(dev, b) /\ Nth(dev, b) \in Int
    BY <2>1, <2>4, NthIs, NthGrows DEF n
  <2>7. mad = Nth(dev, a) + Nth(dev, b)
    BY <2>4 DEF Mad4, Median2, dev
  <2>8. dev[i] \in Nat /\ mad \in Int /\ mad >= 2 * dev[i]
    <3> HIDE DEF mad
    <3> QED BY <2>3, <2>5, <2>6, <2>7
  <2>9. ~ isMadOutlier(dev[i], mad)
    <3> HIDE DEF mad
    <3> QED BY <2>8 DEF isMadOutlier
  <2> QED
    BY <1>1, <1>3, <2>9 DEF removeOutliersMAD, dev
<1> QED BY <1>2, <1>3
\* The fences hold the value between the quartiles.
LEMMA NoneEmptiedByIQD ==
    ASSUME NEW D, IsFiniteSet(D), D # {}, NEW f \in [D -> Nat]
    PROVE  removeOutliersIQD(f) # {}
<1> DEFINE n == Cardinality(D)
           q1 == Quartile4(f, 1)
           q3 == Quartile4(f, 3)
<1>1. n \in Nat /\ n >= 1 /\ Count(f) = n /\ f \in [D -> Int]
  BY FS_CardinalityType, FS_EmptySet DEF Count
<1>2. ASSUME NEW k \in 1..n, 8 * Nth(f, k) <= 2 * q3 + 3 * (q3 - q1),
                             8 * Nth(f, k) >= 2 * q1 - 3 * (q3 - q1)
      PROVE  removeOutliersIQD(f) # {}
  <2>2. PICK i \in D : f[i] = Nth(f, k)
    BY <1>1, NthIs
  <2> HIDE DEF q1, q3
  <2>3. 2 * 4 * f[i] = 8 * Nth(f, k)
    BY <2>2
  <2> QED
    BY <1>2, <2>3 DEF removeOutliersIQD, q1, q3
<1> HIDE DEF n
<1>3. \A k \in 1..n : Nth(f, k) \in Int
  BY <1>1, NthIs DEF n
<1>4. \A k, l \in 1..n : k <= l => Nth(f, k) <= Nth(f, l)
  BY <1>1, NthGrows DEF n
<1>5. CASE n = 1
  <2>1. 1 \in 1..n /\ q1 = 4 * Nth(f, 1) /\ q3 = 4 * Nth(f, 1) /\ Nth(f, 1) \in Int
    BY <1>1, <1>3, <1>5 DEF Quartile4
  <2> HIDE DEF q1, q3
  <2>2. 8 * Nth(f, 1) <= 2 * q3 + 3 * (q3 - q1) /\ 8 * Nth(f, 1) >= 2 * q1 - 3 * (q3 - q1)
    BY <2>1
  <2> QED BY <1>2, <2>1, <2>2
<1>6. CASE n = 2
  <2>1. /\ 1 \in 1..n /\ Nth(f, 1) \in Int /\ Nth(f, 2) \in Int /\ Nth(f, 1) <= Nth(f, 2)
        /\ q1 = 4 * Nth(f, 1) + 1 * (Nth(f, 2) - Nth(f, 1))
        /\ q3 = 4 * Nth(f, 1) + 3 * (Nth(f, 2) - Nth(f, 1))
    BY <1>1, <1>3, <1>4, <1>6 DEF Quartile4
  <2> HIDE DEF q1, q3
  <2>2. 8 * Nth(f, 1) <= 2 * q3 + 3 * (q3 - q1) /\ 8 * Nth(f, 1) >= 2 * q1 - 3 * (q3 - q1)
    BY <2>1
  <2> QED BY <1>2, <2>1, <2>2
<1>7. CASE n > 2
  <2> DEFINE j == (n - 1) \div 4 + 1
             k == j + 1
             l == ((n - 1) * 3) \div 4 + 1
             r == (n - 1) % 4
             t == ((n - 1) * 3) % 4
  <2>1. /\ j \in 1..n /\ k \in 1..n /\ l \in 1..n /\ j < n /\ j <= k /\ k <= l
        /\ r \in 0..3 /\ t \in 0..3
    BY <1>1, <1>7
  <2>2. q1 = 4 * Nth(f, j) + r * (Nth(f, k) - Nth(f, j))
    BY <1>1, <2>1 DEF Quartile4
  <2>3. q3 = IF l < n THEN 4 * Nth(f, l) + t * (Nth(f, l + 1) - Nth(f, l)) ELSE 4 * Nth(f, l)
    BY <1>1 DEF Quartile4
  <2> HIDE DEF q1, q3, j, k, l, r, t
  <2>4. /\ Nth(f, j) \in Int /\ Nth(f, k) \in Int /\ Nth(f, l) \in Int
        /\ Nth(f, j) <= Nth(f, k) /\ Nth(f, k) <= Nth(f, l)
    BY <1>3, <1>4, <2>1
  <2>5. q1 \in Int /\ q1 <= 4 * Nth(f, k)
    <3>1. r = 0 \/ r = 1 \/ r = 2 \/ r = 3
      BY <2>1
    <3> QED BY <2>2, <2>4, <3>1
  <2>6. q3 \in Int /\ q3 >= 4 * Nth(f, l)
    <3>1. t = 0 \/ t = 1 \/ t = 2 \/ t = 3
      BY <2>1
    <3>2. CASE l < n
      <4>1. Nth(f, l + 1) \in Int /\ Nth(f, l) <= Nth(f, l + 1)
        <5>1. l + 1 \in 1..n /\ l <= l + 1
          BY <1>1, <2>1, <3>2
        <5> QED BY <1>3, <1>4, <2>1, <5>1
      <4> QED BY <2>3, <2>4, <3>1, <3>2, <4>1
    <3>3. CASE ~(l < n)
      BY <2>3, <2>4, <3>3
    <3> QED BY <3>2, <3>3
  <2>7. /\ 8 * Nth(f, k) <= 2 * q3 + 3 * (q3 - q1)
        /\ 8 * Nth(f, k) >= 2 * q1 - 3 * (q3 - q1)
    BY <2>4, <2>5, <2>6
  <2> QED
    BY <1>2, <2>1, <2>7
<1> QED
  BY <1>1, <1>5, <1>6, <1>7

\* Arithmetic for the criterion below.
LEMMA SquaresGrow ==
    ASSUME NEW d \in Nat \ {0}, NEW v \in Int, v > 0
    PROVE  d * d * v >= v
<1>1. d * d >= 1 /\ d * d \in Int
  OBVIOUS
<1>2. \A e \in Int : e >= 1 => e * v >= v
  OBVIOUS
<1> QED BY <1>1, <1>2

\* A square is no less than nothing.
LEMMA SquareIsNatural == ASSUME NEW x \in Int PROVE x * x \in Nat
OBVIOUS

(* The mean of the squared deviations is not above the variance, so one of  *)
(* them is within it.                                                      *)
LEMMA NoneEmptiedByChauvenet ==
    ASSUME NEW D, IsFiniteSet(D), D # {}, NEW f \in [D -> Nat], NEW dMax \in Nat \ {0}
    PROVE  removeOutliersChauvenet(f, dMax) # {}
<1> DEFINE n == Cardinality(D)
           m == Spreads(Count(f))
           squared == SquaredN(f)
           ones == [i \in D |-> 1]
           V == Total(squared)
<1> SUFFICES ASSUME removeOutliersChauvenet(f, dMax) = {} PROVE FALSE
  OBVIOUS
<1>1. n \in Nat /\ n >= 1 /\ Count(f) = n
  BY FS_CardinalityType, FS_EmptySet DEF Count
<1>2. Total(f) \in Int /\ Total(f) = SumOver(f, D)
  BY TotalIsSum, SumInt
<1>3. squared = [i \in D |-> (n * f[i] - Total(f)) * (n * f[i] - Total(f))]
  BY <1>1 DEF SquaredN
<1>4. squared \in [D -> Nat]
  <2>1. \A i \in D : n * f[i] - Total(f) \in Int
    BY <1>1, <1>2
  <2> QED BY <1>3, <2>1, SquareIsNatural
<1> HIDE DEF squared
<1>5. V = SumOver(squared, D) /\ V \in Int
  BY <1>4, TotalIsSum, SumInt
<1> HIDE DEF V
<1>6. V > 0 /\ \A i \in D : dMax * dMax * V <= squared[i] * m
  <2>1. \A i \in D : ~ (V > 0 => dMax * dMax * V > squared[i] * m)
    BY DEF removeOutliersChauvenet, squared, V
  <2>2. m \in Int
    BY <1>1 DEF Spreads
  <2> HIDE DEF m
  <2>3. dMax * dMax * V \in Int /\ \A i \in D : squared[i] * m \in Int
    BY <1>4, <1>5, <2>2
  <2> QED BY <2>1, <2>3, <1>5
<1>7. CASE n = 1
  <2>1. PICK i : D = {i}
    BY <1>7, FS_Singleton
  <2>2. Next1(D) = i /\ D \ {Next1(D)} = {} /\ D # {}
    BY <2>1, TakesOne
  <2>3. SumOver(f, {}) = 0 /\ SumOver(squared, {}) = 0
    BY FS_EmptySet, SumStep
  <2>4. SumOver(f, D) = f[i] + 0 /\ SumOver(squared, D) = squared[i] + 0
    BY <2>2, <2>3, SumStep
  <2>5. squared[i] = (1 * f[i] - Total(f)) * (1 * f[i] - Total(f)) /\ f[i] \in Nat
    BY <1>3, <1>7, <2>1
  <2>6. squared[i] = 0
    BY <1>2, <2>4, <2>5
  <2> QED BY <1>5, <1>6, <2>4, <2>6
<1>8. CASE n > 1
  <2>1. m = n - 1 /\ m \in Int
    BY <1>1, <1>8 DEF Spreads
  <2> HIDE DEF m, n
  <2>2. \A i \in D : squared[i] \in Int /\ ones[i] \in Int /\ (-m) * squared[i] <= (-V) * ones[i]
    <3>1. dMax * dMax * V >= V /\ dMax * dMax * V \in Int
      BY <1>5, <1>6, SquaresGrow
    <3>2. ASSUME NEW i \in D
          PROVE  squared[i] \in Int /\ ones[i] \in Int /\ (-m) * squared[i] <= (-V) * ones[i]
      <4>1. squared[i] \in Int /\ ones[i] = 1 /\ squared[i] * m \in Int
        BY <1>4, <2>1
      <4>2. (-m) * squared[i] = -(squared[i] * m) /\ (-V) * ones[i] = -V
        BY <1>5, <2>1, <4>1
      <4> QED BY <1>5, <1>6, <3>1, <4>1, <4>2
    <3> QED BY <3>2
  <2>3. (-m) * SumOver(squared, D) <= (-V) * SumOver(ones, D)
    <3> HIDE DEF ones
    <3>1. -m \in Int /\ -V \in Int
      BY <1>5, <2>1
    <3> QED BY <2>2, <3>1, SumBounded
  <2>4. SumOver(ones, D) = n
    BY SumOnes DEF n
  <2>5. (-m) * V <= (-V) * n
    BY <1>5, <2>3, <2>4
  <2>6. (-m) * V = V - n * V /\ (-V) * n = -(n * V) /\ n * V \in Int
    BY <1>1, <1>5, <2>1
  <2> QED BY <1>5, <1>6, <2>5, <2>6
<1> QED BY <1>1, <1>7, <1>8
-----------------------------------------------------------------------------
(* A minority of samples does not carry the mean off.                      *)

(* The least and the greatest of finitely many values.                     *)
LEMMA RangeOf ==
    ASSUME NEW G, IsFiniteSet(G), G # {}, NEW f, \A i \in G : f[i] \in Nat
    PROVE  LET V == {f[i] : i \in G}
           IN  /\ Min(V) \in Nat /\ Max(V) \in Nat
               /\ \A i \in G : Min(V) <= f[i] /\ f[i] <= Max(V)
<1> DEFINE V == {f[i] : i \in G}
           g == [i \in G |-> -f[i]]
<1>1. PICK top \in G : \A j \in G : f[j] <= f[top]
  BY GreatestOf
<1>2. PICK low \in G : \A j \in G : g[j] <= g[low]
  <2>1. \A i \in G : g[i] \in Int
    OBVIOUS
  <2> HIDE DEF g
  <2> QED BY <2>1, GreatestOf
<1>3. \A j \in G : f[low] <= f[j]
  BY <1>2
<1>4. \E x \in V : \A y \in V : x >= y
  BY <1>1
<1>5. \E x \in V : \A y \in V : x <= y
  BY <1>3
<1>6. Max(V) \in V /\ \A y \in V : Max(V) >= y
  <2> HIDE DEF V
  <2> QED BY <1>4 DEF Max
<1>7. Min(V) \in V /\ \A y \in V : Min(V) <= y
  <2> HIDE DEF V
  <2> QED BY <1>5 DEF Min
<1>8. V \subseteq Nat /\ \A i \in G : f[i] \in V
  OBVIOUS
<1> HIDE DEF V
<1>9. Max(V) \in Nat /\ Min(V) \in Nat /\ \A i \in G : Max(V) >= f[i] /\ Min(V) <= f[i] /\ f[i] \in Nat
  BY <1>6, <1>7, <1>8
<1> QED BY <1>9 DEF V

\* No further from a range than the robust method's cutoff times the range.
Near(x, lo, hi) ==
    6745 * (x - hi) <= 35000 * (hi - lo) /\ 6745 * (lo - x) <= 35000 * (hi - lo)

(* What survives the robust method is near where most samples lie.         *)
LEMMA SurvivorsAreNear ==
    ASSUME NEW D, IsFiniteSet(D), NEW f \in [D -> Nat],
           NEW G \in SUBSET D, 2 * Cardinality(G) > Cardinality(D), Cardinality(D) >= 3,
           NEW lo \in Nat, NEW hi \in Nat, \A i \in G : lo <= f[i] /\ f[i] <= hi,
           Mad4(f) > 0, NEW s \in removeOutliersMAD(f)
    PROVE  s \in D /\ Near(f[s], lo, hi)
<1> DEFINE n == Cardinality(D)
           a == (n + 1) \div 2
           b == n \div 2 + 1
           med2 == Median2(f)
           dev == Deviation2(f)
           mad == Mad4(f)
<1>1. n \in Nat /\ n >= 3 /\ Count(f) = n /\ f \in [D -> Int]
  BY FS_CardinalityType DEF Count
<1>2. /\ a \in 1..n /\ n <= 2 * a /\ 2 * (a - 1) <= n
      /\ b \in 1..n /\ n <= 2 * b /\ 2 * (b - 1) <= n
  <2> HIDE DEF n
  <2> QED BY <1>1
<1>3. s \in D /\ ~ isMadOutlier(dev[s], mad)
  BY <1>1 DEF removeOutliersMAD
<1>4. med2 = Nth(f, a) + Nth(f, b)
  BY <1>1 DEF Median2
<1> HIDE DEF a, b
<1>5. Nth(f, a) \in Int /\ Nth(f, b) \in Int
  BY <1>1, <1>2, NthIs
<1>6. lo <= Nth(f, a) /\ Nth(f, a) <= hi /\ lo <= Nth(f, b) /\ Nth(f, b) <= hi
  <2>1. lo \in Int /\ hi \in Int
    OBVIOUS
  <2>2. lo <= Nth(f, a) /\ Nth(f, a) <= hi
    BY <1>1, <1>2, <2>1, MiddleIsCommon
  <2>3. lo <= Nth(f, b) /\ Nth(f, b) <= hi
    BY <1>1, <1>2, <2>1, MiddleIsCommon
  <2> QED BY <2>2, <2>3
<1> HIDE DEF med2
<1>7. med2 \in Int /\ 2 * lo <= med2 /\ med2 <= 2 * hi
  BY <1>4, <1>5, <1>6
<1>8. dev = [i \in D |-> IF 2 * f[i] - med2 < 0 THEN -(2 * f[i] - med2) ELSE 2 * f[i] - med2]
  BY DEF Deviation2, Magnitude, med2
<1> HIDE DEF dev
<1>9. dev \in [D -> Int] /\ Count(dev) = n
  BY <1>7, <1>8 DEF Count
<1>10. \A i \in G : 0 <= dev[i] /\ dev[i] <= 2 * (hi - lo)
  BY <1>7, <1>8
<1>11. mad = Nth(dev, a) + Nth(dev, b)
  BY <1>9 DEF Mad4, Median2, dev, a, b
<1>12. /\ Nth(dev, a) \in Int /\ Nth(dev, b) \in Int
       /\ Nth(dev, a) <= 2 * (hi - lo) /\ Nth(dev, b) <= 2 * (hi - lo)
  <2>1. 0 \in Int /\ 2 * (hi - lo) \in Int
    OBVIOUS
  <2>2. Nth(dev, a) \in Int /\ Nth(dev, b) \in Int
    BY <1>2, <1>9, NthIs
  <2>3. Nth(dev, a) <= 2 * (hi - lo)
    BY <1>2, <1>9, <1>10, <2>1, MiddleIsCommon
  <2>4. Nth(dev, b) <= 2 * (hi - lo)
    BY <1>2, <1>9, <1>10, <2>1, MiddleIsCommon
  <2> QED BY <2>2, <2>3, <2>4
<1> HIDE DEF mad
<1>13. mad \in Int /\ mad <= 4 * (hi - lo)
  BY <1>11, <1>12
<1>14. dev[s] \in Int /\ 13490 * dev[s] <= 35000 * mad
  <2>1. mad > 0
    BY DEF mad
  <2> QED BY <1>3, <1>9, <1>13, <2>1 DEF isMadOutlier
<1>15. 6745 * dev[s] <= 70000 * (hi - lo)
  BY <1>13, <1>14
<1>16. 2 * f[s] - med2 <= dev[s] /\ med2 - 2 * f[s] <= dev[s] /\ f[s] \in Int
  BY <1>3, <1>7, <1>8
<1> QED
  BY <1>3, <1>7, <1>14, <1>15, <1>16 DEF Near

(* A bound of the values of positive weight is one of their mean.          *)
LEMMA MeanIsBounded ==
    ASSUME NEW S, IsFiniteSet(S), NEW f, NEW w, NEW a \in Int, NEW b \in Int,
           \A i \in S : f[i] \in Nat /\ w[i] \in Nat /\ a * f[i] <= b
    PROVE  a * SumOver([i \in S |-> f[i] * w[i]], S) <= b * SumOver(w, S)
<1> DEFINE g == [i \in S |-> f[i] * w[i]]
<1>1. ASSUME NEW i \in S
      PROVE  g[i] \in Int /\ w[i] \in Int /\ a * g[i] <= b * w[i]
  <2>1. f[i] \in Nat /\ w[i] \in Nat /\ a * f[i] \in Int /\ a * f[i] <= b /\ g[i] = f[i] * w[i]
    OBVIOUS
  <2>2. a * (f[i] * w[i]) = (a * f[i]) * w[i]
    BY <2>1
  <2>3. \A x \in Int : x <= b => x * w[i] <= b * w[i]
    BY <2>1
  <2> QED BY <2>1, <2>2, <2>3
<1> HIDE DEF g
<1>2. a * SumOver(g, S) <= b * SumOver(w, S)
  BY <1>1, SumBounded
<1> QED BY <1>2 DEF g

\* Bounds of a sum, as bounds of the mean.
LEMMA MeanIsNear ==
    ASSUME NEW num \in Int, NEW den \in Int, NEW hi \in Int, NEW lo \in Int,
           6745 * num <= (6745 * hi + 35000 * (hi - lo)) * den,
           (-6745) * num <= (35000 * (hi - lo) - 6745 * lo) * den
    PROVE  /\ 6745 * (num - hi * den) <= (35000 * (hi - lo)) * den
           /\ 6745 * (lo * den - num) <= (35000 * (hi - lo)) * den
<1> DEFINE spread == 35000 * (hi - lo)
<1>1. spread \in Int
  OBVIOUS
<1> HIDE DEF spread
<1>2. /\ (6745 * hi + spread) * den = 6745 * (hi * den) + spread * den
      /\ (spread - 6745 * lo) * den = spread * den - 6745 * (lo * den)
      /\ hi * den \in Int /\ lo * den \in Int /\ spread * den \in Int
  BY <1>1
<1>3. /\ 6745 * num <= 6745 * (hi * den) + spread * den
      /\ -(6745 * num) <= spread * den - 6745 * (lo * den)
  BY <1>2 DEF spread
<1>4. /\ 6745 * (num - hi * den) <= spread * den
      /\ 6745 * (lo * den - num) <= spread * den
  BY <1>2, <1>3
<1> QED BY <1>4 DEF spread

(* Sound samples that are most of them hold the mean, weighted or not.     *)
LEMMA MinorityContained ==
    ASSUME NEW D, IsFiniteSet(D), NEW f \in [D -> Nat], NEW w \in [D -> Nat],
           NEW G \in SUBSET D, G # {}
    PROVE  MinorityIsContained(f, w, G)
<1> DEFINE kept == removeOutliersMAD(f)
           lo == Min({f[i] : i \in G})
           hi == Max({f[i] : i \in G})
           r == weightedMean(f, w, kept)
           wk == [i \in kept |-> w[i]]
           ones == [i \in kept |-> 1]
<1>1. Count(f) = Cardinality(D) /\ aggregatePrices(f, w, "mad", 1).price = r
  BY DEF Count, aggregatePrices, Survivors
<1>2. SUFFICES ASSUME Cardinality(D) >= 3, 2 * Cardinality(G) > Cardinality(D), Mad4(f) > 0
               PROVE  /\ 6745 * (r.num - hi * r.den) <= (35000 * (hi - lo)) * r.den
                      /\ 6745 * (lo * r.den - r.num) <= (35000 * (hi - lo)) * r.den
  BY <1>1 DEF MinorityIsContained
<1>3. lo \in Nat /\ hi \in Nat /\ \A i \in G : lo <= f[i] /\ f[i] <= hi
  <2>1. IsFiniteSet(G) /\ \A i \in G : f[i] \in Nat
    BY FS_Subset
  <2> QED BY <2>1, RangeOf
<1> HIDE DEF lo, hi
<1>4. \A s \in kept : s \in D /\ Near(f[s], lo, hi)
  BY <1>2, <1>3, SurvivorsAreNear, Zenon
<1>5. kept # {}
  <2>1. D # {}
    OBVIOUS
  <2> QED BY <2>1, NoneEmptiedByMAD
<1> HIDE DEF kept
<1>6. IsFiniteSet(kept) /\ \A i \in kept : f[i] \in Nat /\ w[i] \in Nat
  <2>1. kept \subseteq D
    BY <1>4
  <2> QED BY <2>1, FS_Subset
<1>7. /\ 6745 * hi + 35000 * (hi - lo) \in Int /\ 35000 * (hi - lo) - 6745 * lo \in Int
      /\ \A i \in kept : /\ 6745 * f[i] <= 6745 * hi + 35000 * (hi - lo)
                         /\ (-6745) * f[i] <= 35000 * (hi - lo) - 6745 * lo
  BY <1>3, <1>4, <1>6 DEF Near
(* The mean weighted by any naturals.                                      *)
<1>8. ASSUME NEW v, \A i \in kept : v[i] \in Nat
      PROVE  LET num == SumOver([i \in kept |-> f[i] * v[i]], kept)
                 den == SumOver(v, kept)
             IN  /\ num \in Int /\ den \in Int
                 /\ 6745 * (num - hi * den) <= (35000 * (hi - lo)) * den
                 /\ 6745 * (lo * den - num) <= (35000 * (hi - lo)) * den
  <2> DEFINE g == [i \in kept |-> f[i] * v[i]]
             num == SumOver(g, kept)
             den == SumOver(v, kept)
  <2>1. num \in Int
    <3>1. \A i \in kept : g[i] \in Int
      BY <1>6, <1>8
    <3> HIDE DEF g
    <3> QED BY <1>6, <3>1, SumInt
  <2>2. den \in Int
    BY <1>6, <1>8, SumInt
  <2>3. 6745 * num <= (6745 * hi + 35000 * (hi - lo)) * den
    <3> DEFINE a == 6745
               b == 6745 * hi + 35000 * (hi - lo)
    <3>1. a \in Int /\ b \in Int /\ \A i \in kept : a * f[i] <= b
      BY <1>7
    <3> HIDE DEF a, b
    <3>2. \A i \in kept : f[i] \in Nat /\ v[i] \in Nat /\ a * f[i] <= b
      BY <1>6, <1>8, <3>1
    <3>3. a * num <= b * den
      BY <1>6, <3>1, <3>2, MeanIsBounded
    <3> QED BY <3>3 DEF a, b
  <2>4. (-6745) * num <= (35000 * (hi - lo) - 6745 * lo) * den
    <3> DEFINE a == -6745
               b == 35000 * (hi - lo) - 6745 * lo
    <3>1. a \in Int /\ b \in Int /\ \A i \in kept : a * f[i] <= b
      BY <1>7
    <3> HIDE DEF a, b
    <3>2. \A i \in kept : f[i] \in Nat /\ v[i] \in Nat /\ a * f[i] <= b
      BY <1>6, <1>8, <3>1
    <3>3. a * num <= b * den
      BY <1>6, <3>1, <3>2, MeanIsBounded
    <3> QED BY <3>3 DEF a, b
  <2> HIDE DEF num, den
  <2>5. /\ 6745 * (num - hi * den) <= (35000 * (hi - lo)) * den
        /\ 6745 * (lo * den - num) <= (35000 * (hi - lo)) * den
    BY <1>3, <2>1, <2>2, <2>3, <2>4, MeanIsNear
  <2> QED BY <2>1, <2>2, <2>5 DEF num, den
<1>9. Total(wk) = SumOver(wk, kept)
  BY TotalIsSum
<1>10. CASE Total(wk) > 0
  <2>1. r.num = SumOver([i \in kept |-> f[i] * w[i]], kept) /\ r.den = SumOver(wk, kept)
    <3> DEFINE g == [i \in kept |-> f[i] * w[i]]
    <3>1. Total(g) = SumOver(g, DOMAIN g) /\ DOMAIN g = kept
      <4>1. Total(g) = SumOver(g, DOMAIN g)
        <5> HIDE DEF g
        <5> QED BY TotalIsSum
      <4> QED BY <4>1
    <3> QED BY <1>9, <1>10, <3>1 DEF weightedMean
  <2>2. [i \in kept |-> f[i] * w[i]] = [i \in kept |-> f[i] * wk[i]] /\ \A i \in kept : wk[i] \in Nat
    BY <1>6
  <2> HIDE DEF r, wk
  <2> QED BY <1>8, <2>1, <2>2
<1>11. CASE ~(Total(wk) > 0)
  <2>1. Cardinality(kept) \in Nat /\ Cardinality(kept) >= 1
    BY <1>5, <1>6, FS_CardinalityType, FS_EmptySet
  <2>2. Max({Cardinality(kept), 1}) = Cardinality(kept)
    BY <2>1 DEF Max
  <2>3. SumOver(ones, kept) = Cardinality(kept)
    BY <1>6, SumOnes
  <2>4. r.num = SumOver([i \in kept |-> f[i]], kept) /\ r.den = SumOver(ones, kept)
    <3> DEFINE g == [i \in kept |-> f[i]]
    <3>1. Total(g) = SumOver(g, DOMAIN g) /\ DOMAIN g = kept
      <4>1. Total(g) = SumOver(g, DOMAIN g)
        <5> HIDE DEF g
        <5> QED BY TotalIsSum
      <4> QED BY <4>1
    <3> QED BY <1>11, <2>2, <2>3, <3>1 DEF weightedMean
  <2>5. [i \in kept |-> f[i]] = [i \in kept |-> f[i] * ones[i]] /\ \A i \in kept : ones[i] \in Nat
    BY <1>6
  <2> HIDE DEF r, ones
  <2> QED BY <1>8, <2>4, <2>5
<1> QED BY <1>10, <1>11

-----------------------------------------------------------------------------
(* The prices shown.  A pool's price does not move while it is looked at.  *)
LEMMA RatesStay == PriceTestSpec => [](rate \in Rates)
<1>1. PriceTestInit => rate \in Rates
  BY DEF PriceTestInit, TestInit
<1>2. rate \in Rates /\ [PriceTestNext]_<<vars, published, test>> => (rate \in Rates)'
  <2> SUFFICES ASSUME rate \in Rates, [PriceTestNext]_<<vars, published, test>>
               PROVE  rate' \in Rates
    OBVIOUS
  <2>1. CASE UNCHANGED test
    BY <2>1 DEF test
  <2>2. CASE TestNext
    <3>1. rate' = rate
      BY <2>2 DEF TestNext, Visit, VisitPair, Open, TestStep, Reload, Show, Tick, Ask, Lost,
                  Guard, Lookup, Fetch, Store, FetchLive
    <3> QED BY <3>1
  <2> QED
    BY <2>1, <2>2 DEF PriceTestNext
<1> QED
  BY <1>1, <1>2, PTL DEF PriceTestSpec

\* What the page shows is a finite set of samples with natural prices.
LEMMA PricesType ==
    ASSUME TestInv, rate \in Rates
    PROVE  /\ IsFiniteSet(Samples)
           /\ Prices \in [Samples -> Nat] /\ Depths \in [Samples -> Nat]
<1>1. Samples \subseteq Pool
  <2>1. page.usable \subseteq Pool
    BY DEF TestInv, TestTypeOK, PageState
  <2> QED
    BY <2>1 DEF Samples, TestInv, AnswerIsHonest
<1>2. \A p \in Samples : rate[p] \in Nat /\ Reserve[p] \in Nat
  BY <1>1, PricesAssumption
<1>3. \A x \in Nat : Reciprocal(x) \in Nat
  <2>1. Unit * Unit \in Nat
    BY PricesAssumption
  <2>2. \A x \in Nat, u \in Nat : x # 0 => u \div x \in Nat
    OBVIOUS
  <2> QED BY <2>1, <2>2 DEF Reciprocal
<1>4. \A p \in Samples : targetPrice(p) \in Nat
  BY <1>2, <1>3 DEF targetPrice, token0Price, token1Price
<1>5. IsFiniteSet(Samples)
  BY <1>1, PricesAssumption, FS_Subset
<1> QED
  BY <1>2, <1>4, <1>5 DEF Prices, Depths

(* Whatever method the operator picks, and however strict, something is    *)
(* left to make the headline price of (lib/stats.ts removeOutliersMAD,     *)
(* removeOutliersChauvenet, removeOutliersIQD).                            *)
THEOREM SomethingKept == PriceTestSpec => []SomethingIsKept
<1>1. TestInv /\ rate \in Rates => SomethingIsKept
  <2> SUFFICES ASSUME TestInv, rate \in Rates, Samples # {},
                      NEW method \in Methods, NEW dMax \in 1..4
               PROVE  Survivors(Prices, method, dMax) # {}
    BY DEF SomethingIsKept
  <2>1. IsFiniteSet(Samples) /\ Prices \in [Samples -> Nat] /\ DOMAIN Prices = Samples
    BY PricesType
  <2>2. dMax \in Nat \ {0}
    OBVIOUS
  <2>3. /\ removeOutliersMAD(Prices) # {} /\ removeOutliersIQD(Prices) # {}
        /\ removeOutliersChauvenet(Prices, dMax) # {}
    BY <2>1, <2>2, NoneEmptiedByMAD, NoneEmptiedByIQD, NoneEmptiedByChauvenet
  <2> QED
    BY <2>1, <2>3 DEF Survivors, Methods
<1> QED
  BY <1>1, RatesStay, TestHolds, PTL

(* While most of the pools shown are sound, the others, at any depth and   *)
(* any price, move the headline out of the range of the sound ones by no   *)
(* more than the cutoff times that range, if there is a deviation at all   *)
(* to measure by (lib/stats.ts aggregatePrices).                           *)
THEOREM MinorityShrugged == PriceTestSpec => []MinorityIsShrugged
<1>1. TestInv /\ rate \in Rates => MinorityIsShrugged
  <2> DEFINE sound == {p \in Samples \ Manipulated : Legible(p)}
  <2> SUFFICES ASSUME TestInv, rate \in Rates, sound # {}
               PROVE  MinorityIsContained(Prices, Depths, sound)
    BY DEF MinorityIsShrugged
  <2>1. sound \in SUBSET Samples
    OBVIOUS
  <2> HIDE DEF sound
  <2> QED
    BY <2>1, PricesType, MinorityContained
<1> QED
  BY <1>1, RatesStay, TestHolds, PTL
=============================================================================
