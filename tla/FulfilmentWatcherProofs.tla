----------------------- MODULE FulfilmentWatcherProofs -----------------------
(***************************************************************************)
(* NothingMissed and NothingInvented for any ids, scans, backfills, batch  *)
(* and confirmations.  Two facts carry them: nothing at or below final     *)
(* changes, and no job works beyond it but a backfill told to; and a scan  *)
(* starts where everything before has been done, which stays so wherever   *)
(* the others move the cursor meanwhile, unless it is a first scan without *)
(* a start block, which moves the place the cursor vouches from.           *)
(***************************************************************************)
EXTENDS FulfilmentWatcher, SequenceTheorems, TLAPS

LEMMA MaxOfTwo ==
    ASSUME NEW a \in Int, NEW b \in Int
    PROVE  /\ Max({a, b}) \in {a, b}
           /\ Max({a, b}) >= a /\ Max({a, b}) >= b
<1>1. \E x \in {a, b} : \A y \in {a, b} : x >= y
  OBVIOUS
<1> QED
  BY <1>1 DEF Max

LEMMA MinOfTwo ==
    ASSUME NEW a \in Int, NEW b \in Int
    PROVE  /\ Min({a, b}) \in {a, b}
           /\ Min({a, b}) <= a /\ Min({a, b}) <= b
<1>1. \E x \in {a, b} : \A y \in {a, b} : x <= y
  OBVIOUS
<1> QED
  BY <1>1 DEF Min

(* A batch is not empty and does not reach beyond its end.                 *)
LEMMA BatchBounds ==
    ASSUME NEW from \in Nat, NEW end \in Int, from <= end
    PROVE  /\ BatchEnd(from, end) \in Nat
           /\ from <= BatchEnd(from, end) /\ BatchEnd(from, end) <= end
<1>1. Batch \in Nat /\ Batch > 0
  BY ConfigAssumption
<1> DEFINE last == from + Batch - 1
<1>2. last \in Int /\ from <= last
  BY <1>1
<1>3. Min({end, last}) \in {end, last} /\ Min({end, last}) <= end
  BY <1>2, MinOfTwo
<1>4. BatchEnd(from, end) = Min({end, last})
  BY DEF BatchEnd
<1> QED
  BY <1>2, <1>3, <1>4

(* The range a scan or a backfill takes up next.                           *)
LEMMA NextFromType ==
    ASSUME TypeOK, NEW j \in Job, SomethingNew(j)
    PROVE  /\ NextFrom(j) \in Nat /\ NextFrom(j) >= 1 /\ NextFrom(j) <= job[j].safe
           /\ BatchEnd(NextFrom(j), job[j].safe) \in Nat
           /\ BatchEnd(NextFrom(j), job[j].safe) <= job[j].safe
<1>1. job[j].safe \in Int
  BY DEF TypeOK, JobState
<1>2. NextFrom(j) \in Nat /\ NextFrom(j) >= 1 /\ NextFrom(j) <= job[j].safe
  BY <1>1 DEF SomethingNew
<1> QED
  BY <1>1, <1>2, BatchBounds

LEMMA EventsTyped ==
    ASSUME TypeOK, NEW from, NEW to
    PROVE  EventsIn(from, to) \subseteq Event
<1>1. \A h \in DOMAIN blocks : blocks[h] \subseteq Event
  BY DEF TypeOK
<1> QED
  BY <1>1 DEF EventsIn, EventsOf

LEMMA FulfilledTyped ==
    ASSUME NEW events \in SUBSET Event PROVE Fulfilled(events) \subseteq Id
BY DEF Fulfilled, Event

-----------------------------------------------------------------------------
(* Types.                                                                  *)

LEMMA StateTyped ==
    ASSUME TypeOK, NEW j \in Job, NEW state \in JobState, Step(j, state)
    PROVE  job' \in [Job -> JobState]
BY DEF TypeOK, Step

LEMMA RangeTyped ==
    ASSUME TypeOK, NEW j \in Job, NextRange(j)
    PROVE  job' \in [Job -> JobState]
<1> DEFINE from == job[j].from + Batch
<1>1. Idle \in JobState
  BY DEF Idle, JobState
<1>2. job[j] \in JobState /\ from \in Nat
  BY ConfigAssumption DEF TypeOK, JobState
<1>3. CASE from > job[j].safe
  BY <1>1, <1>3, StateTyped DEF NextRange
<1>4. CASE from <= job[j].safe
  <2> DEFINE next == BackfillRange(j, from)
  <2>1. job[j].safe \in Int
    BY <1>2 DEF JobState
  <2>2. BatchEnd(from, job[j].safe) \in Nat
    BY <1>2, <1>4, <2>1, BatchBounds
  <2>3. next \in JobState
    BY <1>2, <2>1, <2>2 DEF Idle, JobState, BackfillRange
  <2>4. Step(j, next)
    BY <1>2, <1>4, <2>1 DEF NextRange
  <2> QED
    BY <2>3, <2>4, StateTyped
<1> QED
  BY <1>2, <1>3, <1>4 DEF JobState

LEMMA TypeStep == TypeOK /\ [Next]_vars => TypeOK'
<1> SUFFICES ASSUME TypeOK, [Next]_vars PROVE TypeOK'
  OBVIOUS
<1> USE BoundAssumption DEF dbVars, histVars
<1>1. Idle \in JobState
  BY DEF Idle, JobState
<1>2. \A j \in Job : /\ job[j] \in JobState
                     /\ job[j].safe \in Int /\ job[j].from \in Nat /\ job[j].to \in Nat
                     /\ job[j].found \subseteq Event /\ job[j].todo \subseteq Event
  BY DEF TypeOK, JobState
<1>3. Len(blocks) \in Nat /\ Safe \in Int
  BY ConfigAssumption DEF TypeOK, Safe
<1>4. Scan \subseteq Job /\ Backfill \subseteq Job
  BY DEF Job
<1>5. ASSUME NEW j \in Job, BeginScan(j) PROVE TypeOK'
  <2>1. [Idle EXCEPT !.at = "cursor", !.safe = Safe] \in JobState
    BY <1>3 DEF Idle, JobState
  <2> QED
    BY <1>5, <2>1, StateTyped DEF BeginScan, TypeOK
<1>6. ASSUME NEW j \in Job, ReadCursor(j) PROVE TypeOK'
  <2>1. CASE End(j)
    BY <1>1, <1>6, <2>1, StateTyped DEF ReadCursor, End, TypeOK
  <2> DEFINE next == [job[j] EXCEPT !.at = "logs", !.from = NextFrom(j),
                                    !.to = BatchEnd(NextFrom(j), job[j].safe),
                                    !.kind = IF FirstScan THEN "first" ELSE "plain"]
  <2>2. CASE SomethingNew(j) /\ Step(j, next) /\ UNCHANGED timer
    <3>1. NextFrom(j) \in Nat /\ BatchEnd(NextFrom(j), job[j].safe) \in Nat
      BY <2>2, NextFromType
    <3>2. next \in JobState
      BY <1>2, <3>1 DEF JobState
    <3> QED
      BY <1>6, <2>2, <3>2, StateTyped DEF ReadCursor, TypeOK
  <2> QED
    BY <1>6, <2>1, <2>2 DEF ReadCursor
<1>7. ASSUME NEW j \in Job, GetLogs(j) PROVE TypeOK'
  <2> DEFINE events == EventsIn(job[j].from, job[j].to)
  <2>1. [job[j] EXCEPT !.at = "upsert", !.found = events, !.todo = events] \in JobState
    BY <1>2, EventsTyped DEF JobState
  <2>2. hasty' \subseteq Event
    BY <1>7, EventsTyped DEF GetLogs, TypeOK
  <2> QED
    BY <1>7, <2>1, <2>2, StateTyped DEF GetLogs, TypeOK
<1>8. ASSUME NEW j \in Job, Upsert(j) PROVE TypeOK'
  <2>1. PICK e \in job[j].todo : /\ FillIn(e)
                                 /\ Step(j, [job[j] EXCEPT !.todo = job[j].todo \ {e}])
    BY <1>8 DEF Upsert
  <2>2. [job[j] EXCEPT !.todo = job[j].todo \ {e}] \in JobState
    BY <1>2 DEF JobState
  <2>3. history' \subseteq Event
    BY <1>2, <2>1 DEF FillIn, TypeOK
  <2> QED
    BY <1>8, <2>1, <2>2, <2>3, StateTyped DEF Upsert, TypeOK
<1>9. ASSUME NEW j \in Job, UpsertsDone(j) PROVE TypeOK'
  <2>1. [job[j] EXCEPT !.at = "enqueue"] \in JobState
    BY <1>2 DEF JobState
  <2> QED
    BY <1>9, <2>1, StateTyped DEF UpsertsDone, TypeOK
<1>10. ASSUME NEW j \in Job, EnqueueFulfilments(j) PROVE TypeOK'
  <2>1. [job[j] EXCEPT !.at = "save", !.found = {}] \in JobState
    BY <1>2 DEF JobState
  <2>2. receipts' \subseteq Id
    BY <1>2, <1>10, FulfilledTyped DEF EnqueueFulfilments, TypeOK
  <2> QED
    BY <1>10, <2>1, <2>2, StateTyped DEF EnqueueFulfilments, TypeOK
<1>11. ASSUME NEW j \in Job, SetCursor(j) PROVE TypeOK'
  <2>1. began' \in Nat
    <3>1. began \in Int /\ job[j].from \in Int /\ began \in Nat /\ job[j].from \in Nat
      BY <1>2 DEF TypeOK
    <3>2. Max({began, job[j].from}) \in {began, job[j].from}
      BY <3>1, MaxOfTwo
    <3> QED
      BY <1>11, <3>1, <3>2 DEF SetCursor
  <2> QED
    BY <1>1, <1>2, <1>11, <2>1, StateTyped DEF SetCursor, End, TypeOK
<1>12. ASSUME NEW j \in Backfill, NEW from \in 1 .. MaxHead, NEW kind \in {"plain", "named"},
              NEW end \in Int, BeginBackfill(j, from, kind, end)
       PROVE  TypeOK'
  <2>1. from \in Nat /\ from <= end
    BY <1>12 DEF BeginBackfill
  <2>2. BatchEnd(from, end) \in Nat
    BY <2>1, BatchBounds
  <2>3. [Idle EXCEPT !.at = "logs", !.kind = kind, !.safe = end, !.from = from,
                     !.to = BatchEnd(from, end)] \in JobState
    BY <2>1, <2>2 DEF Idle, JobState
  <2> QED
    BY <1>4, <1>12, <2>3, StateTyped DEF BeginBackfill, TypeOK
<1>13. ASSUME NEW j \in Backfill, NEW anchor \in BOOLEAN, FinishRange(j, anchor) PROVE TypeOK'
  <2>1. receipts' \subseteq Id
    BY <1>2, <1>4, <1>13, FulfilledTyped DEF FinishRange, TypeOK
  <2> QED
    BY <1>4, <1>13, <2>1, RangeTyped DEF FinishRange, TypeOK
<1>14. ASSUME NEW j \in Job, SkipRange(j) PROVE TypeOK'
  BY <1>14, RangeTyped DEF SkipRange, TypeOK
<1>15. ASSUME NEW j \in Job, Throw(j) PROVE TypeOK'
  BY <1>1, <1>15, StateTyped DEF Throw, End, TypeOK
<1>16. CASE Crash
  <2>1. job' \in [Job -> JobState]
    BY <1>1, <1>16 DEF Crash, TypeOK
  <2>2. faults' \in 0 .. MaxFaults
    BY <1>16 DEF Crash, TypeOK
  <2>3. timer' = FALSE
    BY <1>16 DEF Crash
  <2>4. UNCHANGED <<startBlock, blocks, final, dbVars, histVars>>
    BY <1>16 DEF Crash
  <2> QED
    BY <2>1, <2>2, <2>3, <2>4 DEF TypeOK
<1>17. ASSUME NEW events \in SUBSET Event, Mine(events) PROVE TypeOK'
  <2>1. Append(blocks, events) \in Seq(SUBSET Event) /\ Len(Append(blocks, events)) = Len(blocks) + 1
    BY DEF TypeOK
  <2>2. final' \in Nat
    <3> DEFINE deep == Len(blocks) + 1 - Confirmations
    <3>1. final \in Nat /\ final \in Int /\ deep \in Int
      BY <1>3, ConfigAssumption DEF TypeOK
    <3>2. final' = Max({final, deep})
      BY <1>17 DEF Mine
    <3> HIDE DEF deep
    <3>3. Max({final, deep}) \in {final, deep} /\ Max({final, deep}) >= final
      BY <3>1, MaxOfTwo
    <3> QED
      BY <3>1, <3>2, <3>3
  <2> QED
    BY <1>3, <1>17, <2>1, <2>2 DEF Mine, TypeOK
<1>18. CASE Reorganise
  <2>1. PICK h \in final .. Len(blocks) - 1 : blocks' = SubSeq(blocks, 1, h)
    BY <1>18 DEF Reorganise
  <2>2. blocks' \in Seq(SUBSET Event) /\ Len(blocks') <= MaxHead
    BY <1>3, <2>1, SubSeqProperties DEF TypeOK
  <2> QED
    BY <1>18, <2>2 DEF Reorganise, TypeOK
<1>19. CASE UNCHANGED vars
  BY <1>19 DEF vars, TypeOK
<1> QED
  BY <1>3, <1>4, <1>5, <1>6, <1>7, <1>8, <1>9, <1>10, <1>11, <1>12, <1>13, <1>14, <1>15, <1>16,
     <1>17, <1>18, <1>19 DEF Next, Watcher

LEMMA InitTyped == Init => TypeOK
<1> SUFFICES ASSUME Init PROVE TypeOK
  OBVIOUS
<1>1. job \in [Job -> JobState]
  BY DEF Init, Idle, JobState
<1>2. began \in Nat /\ startBlock \in StartBlocks /\ timer \in BOOLEAN
  BY ConfigAssumption DEF Init
<1> QED
  BY <1>1, <1>2, BoundAssumption DEF Init, TypeOK

(* Every variable keeps its type.                                          *)
THEOREM TypeCorrect == Spec => []TypeOK
<1>1. Init => TypeOK
  BY InitTyped
<1> QED
  BY <1>1, TypeStep, PTL DEF Spec

-----------------------------------------------------------------------------
(* Heights.                                                                *)

Ranged == {"logs", "upsert", "enqueue", "save"}

(* No job looks beyond what was safe when it began, unless it was told to. *)
Within(s) ==
    /\ s.at # "idle" /\ s.kind # "named" => s.safe <= final
    /\ s.at \in Ranged => s.from >= 1 /\ s.from <= s.safe /\ s.to <= s.safe

Heights ==
    /\ final <= Len(blocks) /\ Safe <= final
    /\ cursor <= final
    /\ \A j \in Job : Within(job[j])

(* No scan is told to, and no backfill reads or saves a cursor.            *)
Kinds ==
    /\ \A j \in Scan : job[j].kind # "named"
    /\ \A j \in Backfill : job[j].at \notin {"cursor", "save"}

LEMMA KindsStep == TypeOK /\ Kinds /\ [Next]_vars => Kinds'
<1> SUFFICES ASSUME TypeOK, Kinds, [Next]_vars PROVE Kinds'
  OBVIOUS
<1>1. /\ Idle.kind = "plain" /\ Idle.at = "idle"
      /\ Scan \subseteq Job /\ Backfill \subseteq Job /\ Scan \cap Backfill = {}
      /\ \A j \in Job : job[j] \in JobState
  BY JobAssumption DEF Idle, TypeOK, Job
<1>2. ASSUME NEW j \in Job, NEW state, Step(j, state),
             j \in Scan => state.kind # "named", j \in Backfill => state.at \notin {"cursor", "save"}
      PROVE  Kinds'
  <2>1. \A k \in Job : job'[k] = IF k = j THEN state ELSE job[k]
    BY <1>2 DEF TypeOK, Step
  <2> QED
    BY <1>1, <1>2, <2>1 DEF Kinds
<1>3. ASSUME NEW j \in Job, Step(j, Idle) PROVE Kinds'
  BY <1>1, <1>2, <1>3
<1>4. ASSUME NEW j \in Job, NEW state, Step(j, state), state.kind \in {job[j].kind, "plain", "first"},
             state.at \in {"cursor", "save"} => j \in Scan
      PROVE  Kinds'
  BY <1>1, <1>2, <1>4 DEF Kinds
<1>5. ASSUME NEW j \in Job, Watcher(j) PROVE Kinds'
  <2>1. ASSUME BeginScan(j) PROVE Kinds'
    BY <1>4, <2>1 DEF BeginScan, Idle
  <2>2. ASSUME ReadCursor(j) PROVE Kinds'
    <3> DEFINE next == [job[j] EXCEPT !.at = "logs", !.from = NextFrom(j),
                                      !.to = BatchEnd(NextFrom(j), job[j].safe),
                                      !.kind = IF FirstScan THEN "first" ELSE "plain"]
    <3>1. next.at = "logs" /\ next.kind \in {"plain", "first"}
      BY <1>1 DEF JobState
    <3>2. Step(j, Idle) \/ Step(j, next)
      BY <2>2 DEF ReadCursor, End
    <3> HIDE DEF next
    <3> QED
      BY <1>3, <1>4, <3>1, <3>2
  <2>3. ASSUME NEW state, Step(j, state), state.kind = job[j].kind,
               state.at \in {"upsert", "enqueue"}
        PROVE  Kinds'
    BY <1>4, <2>3
  <2>4. ASSUME GetLogs(j) PROVE Kinds'
    BY <1>1, <2>3, <2>4 DEF GetLogs, JobState
  <2>5. ASSUME Upsert(j) PROVE Kinds'
    BY <1>1, <2>3, <2>5 DEF Upsert, JobState
  <2>6. ASSUME UpsertsDone(j) PROVE Kinds'
    BY <1>1, <2>3, <2>6 DEF UpsertsDone, JobState
  <2>7. ASSUME EnqueueFulfilments(j) PROVE Kinds'
    BY <1>1, <1>4, <2>7 DEF EnqueueFulfilments, JobState
  <2>8. ASSUME SetCursor(j) PROVE Kinds'
    BY <1>3, <2>8 DEF SetCursor, End
  <2> QED
    BY <1>5, <2>1, <2>2, <2>4, <2>5, <2>6, <2>7, <2>8 DEF Watcher
<1>6. ASSUME NEW j \in Backfill, NEW state, Step(j, state), state.at \notin {"cursor", "save"}
      PROVE  Kinds'
  BY <1>1, <1>2, <1>6
<1>7. ASSUME NEW j \in Backfill, NextRange(j) PROVE Kinds'
  <2>1. \A from : BackfillRange(j, from).at = "logs"
    BY DEF BackfillRange, Idle
  <2> QED
    BY <1>1, <1>6, <1>7, <2>1 DEF NextRange
<1>8. ASSUME NEW j \in Backfill, NEW from, NEW kind, NEW end, BeginBackfill(j, from, kind, end)
      PROVE  Kinds'
  BY <1>6, <1>8 DEF BeginBackfill, Idle
<1>9. ASSUME NEW j \in Backfill, NEW anchor, FinishRange(j, anchor) PROVE Kinds'
  BY <1>7, <1>9 DEF FinishRange
<1>10. ASSUME NEW j \in Job, SkipRange(j) \/ Throw(j) PROVE Kinds'
  BY <1>3, <1>7, <1>10 DEF SkipRange, Throw, End
<1>11. CASE Crash
  BY <1>1, <1>11 DEF Crash, Kinds
<1>12. CASE UNCHANGED job
  BY <1>12 DEF Kinds
<1> QED
  BY <1>5, <1>8, <1>9, <1>10, <1>11, <1>12 DEF Next, vars, Mine, Reorganise

LEMMA WithinStep ==
    ASSUME TypeOK, \A k \in Job : Within(job[k]), final' = final,
           NEW j \in Job, NEW state \in JobState, Step(j, state), Within(state)
    PROVE  \A k \in Job : Within(job[k])'
<1>1. \A k \in Job : job'[k] = IF k = j THEN state ELSE job[k]
  BY DEF TypeOK, Step
<1> QED
  BY <1>1 DEF Within

(* final only grows, and the blocks up to it stay what they are.           *)
LEMMA Frozen ==
    ASSUME TypeOK, Heights, [Next]_vars
    PROVE  /\ final' >= final
           /\ \A h \in 1 .. final : /\ h \in DOMAIN blocks /\ h \in DOMAIN blocks'
                                    /\ blocks'[h] = blocks[h]
<1>1. /\ final \in Nat /\ final \in Int /\ Len(blocks) \in Nat /\ final <= Len(blocks)
      /\ blocks \in Seq(SUBSET Event) /\ DOMAIN blocks = 1 .. Len(blocks)
  BY DEF TypeOK, Heights
<1>2. ASSUME NEW events \in SUBSET Event, Mine(events)
      PROVE  /\ final' >= final
             /\ \A h \in 1 .. final : h \in DOMAIN blocks' /\ blocks'[h] = blocks[h]
  <2> DEFINE deep == Len(blocks) + 1 - Confirmations
  <2>1. deep \in Int
    BY <1>1, ConfigAssumption
  <2>2. final' = Max({final, deep})
    BY <1>2 DEF Mine
  <2> HIDE DEF deep
  <2>3. Max({final, deep}) >= final
    BY <1>1, <2>1, MaxOfTwo
  <2>4. blocks' = Append(blocks, events)
    BY <1>2 DEF Mine
  <2>5. \A h \in 1 .. Len(blocks) : h \in DOMAIN blocks' /\ blocks'[h] = blocks[h]
    BY <1>1, <2>4, AppendProperties
  <2> QED
    BY <1>1, <2>2, <2>3, <2>5
<1>3. ASSUME Reorganise
      PROVE  /\ final' >= final
             /\ \A h \in 1 .. final : h \in DOMAIN blocks' /\ blocks'[h] = blocks[h]
  <2>1. PICK h \in final .. Len(blocks) - 1 : blocks' = SubSeq(blocks, 1, h)
    BY <1>3 DEF Reorganise
  <2>2. DOMAIN blocks' = 1 .. h /\ \A i \in 1 .. h : blocks'[i] = blocks[i]
    BY <1>1, <2>1, SubSeqProperties
  <2> QED
    BY <1>1, <1>3, <2>1, <2>2 DEF Reorganise
<1>4. CASE UNCHANGED <<blocks, final>>
  BY <1>1, <1>4
<1>5. \/ UNCHANGED <<blocks, final>> \/ Reorganise
      \/ \E events \in SUBSET Event : Mine(events)
  BY DEF Next, vars, Watcher, BeginScan, ReadCursor, GetLogs, Upsert, UpsertsDone,
         EnqueueFulfilments, SetCursor, BeginBackfill, FinishRange, SkipRange, Throw, Crash
<1> QED
  BY <1>1, <1>2, <1>3, <1>4, <1>5

(* So are the events in them.                                              *)
LEMMA FrozenEvents ==
    ASSUME TypeOK, Heights, [Next]_vars, NEW from \in Nat, NEW to \in Int, to <= final
    PROVE  EventsOf(blocks', from, to) = EventsOf(blocks, from, to)
<1>1. \A h \in 1 .. final : /\ h \in DOMAIN blocks /\ h \in DOMAIN blocks'
                            /\ blocks'[h] = blocks[h]
  BY Frozen
<1>2. /\ final \in Nat
      /\ DOMAIN blocks \subseteq Nat \ {0} /\ DOMAIN blocks' \subseteq Nat \ {0}
  BY TypeStep DEF TypeOK
<1>3. \A h \in from .. to : h \in DOMAIN blocks \/ h \in DOMAIN blocks' => h \in 1 .. final
  BY <1>2
<1>4. \A h \in from .. to : /\ h \in DOMAIN blocks <=> h \in DOMAIN blocks'
                            /\ h \in DOMAIN blocks => blocks'[h] = blocks[h]
  BY <1>1, <1>3
<1> DEFINE range   == from .. to
           heights == range \cap DOMAIN blocks
<1> HIDE DEF range
<1>5. range \cap DOMAIN blocks' = heights
  BY <1>4 DEF range
<1>6. \A h \in heights : blocks'[h] = blocks[h]
  BY <1>4 DEF range
<1> HIDE DEF heights
<1>7. {blocks'[h] : h \in heights} = {blocks[h] : h \in heights}
  BY <1>6
<1>8. EventsOf(blocks', from, to) = UNION {blocks'[h] : h \in heights}
  BY <1>5 DEF EventsOf, range
<1>9. EventsOf(blocks, from, to) = UNION {blocks[h] : h \in heights}
  BY DEF EventsOf, heights, range
<1> QED
  BY <1>7, <1>8, <1>9

LEMMA RangeWithin ==
    ASSUME TypeOK, \A k \in Job : Within(job[k]), final' = final,
           NEW j \in Job, job[j].at \in Ranged, NextRange(j)
    PROVE  \A k \in Job : Within(job[k])'
<1> DEFINE from == job[j].from + Batch
<1>1. Idle \in JobState /\ Within(Idle)
  BY DEF Idle, JobState, Within, Ranged
<1>2. job[j] \in JobState /\ from \in Nat /\ job[j].safe \in Int /\ from >= 1
  BY ConfigAssumption DEF TypeOK, JobState, Within
<1>3. final \in Nat /\ (job[j].kind # "named" => job[j].safe <= final)
  BY DEF TypeOK, Within, Ranged
<1>4. CASE from > job[j].safe
  <2>1. Step(j, Idle)
    BY <1>4 DEF NextRange
  <2> QED
    BY <1>1, <2>1, WithinStep
<1>5. CASE from <= job[j].safe
  <2> DEFINE next == BackfillRange(j, from)
  <2>1. BatchEnd(from, job[j].safe) \in Nat /\ BatchEnd(from, job[j].safe) <= job[j].safe
    BY <1>2, <1>5, BatchBounds
  <2>2. next \in JobState /\ Within(next)
    BY <1>2, <1>3, <1>5, <2>1 DEF Idle, JobState, Within, BackfillRange
  <2>3. Step(j, next)
    BY <1>2, <1>5 DEF NextRange
  <2> QED
    BY <2>2, <2>3, WithinStep
<1> QED
  BY <1>2, <1>4, <1>5

LEMMA HeightsStep == TypeOK /\ Kinds /\ Heights /\ [Next]_vars => Heights'
<1> SUFFICES ASSUME TypeOK, Kinds, Heights, [Next]_vars PROVE Heights'
  OBVIOUS
<1> USE DEF dbVars, histVars
<1>1. /\ final \in Nat /\ final \in Int /\ Len(blocks) \in Nat /\ Confirmations \in Nat
      /\ cursor \in Nat /\ Safe \in Int
  BY ConfigAssumption DEF TypeOK, Safe
<1>2. /\ final <= Len(blocks) /\ Safe <= final /\ cursor <= final
      /\ \A k \in Job : Within(job[k])
  BY DEF Heights
<1>3. Idle \in JobState /\ Within(Idle)
  BY DEF Idle, JobState, Within, Ranged
<1>4. \A j \in Job : /\ job[j] \in JobState /\ job[j].safe \in Int
                     /\ job[j].from \in Nat /\ job[j].to \in Nat
                     /\ job[j].found \subseteq Event /\ job[j].todo \subseteq Event
  BY DEF TypeOK, JobState
<1>5. Scan \subseteq Job /\ Backfill \subseteq Job
  BY DEF Job
<1>6. ASSUME UNCHANGED <<blocks, final, cursor>>, \A k \in Job : Within(job[k])'
      PROVE  Heights'
  BY <1>2, <1>6 DEF Heights, Safe
<1>7. ASSUME NEW j \in Job, BeginScan(j) PROVE Heights'
  <2> DEFINE next == [Idle EXCEPT !.at = "cursor", !.safe = Safe]
  <2>1. next \in JobState /\ Within(next)
    BY <1>1, <1>2 DEF Idle, JobState, Within, Ranged
  <2> QED
    BY <1>2, <1>6, <1>7, <2>1, WithinStep DEF BeginScan
<1>8. ASSUME NEW j \in Job, ReadCursor(j) PROVE Heights'
  <2>1. CASE End(j)
    BY <1>2, <1>3, <1>6, <1>8, <2>1, WithinStep DEF ReadCursor, End
  <2> DEFINE next == [job[j] EXCEPT !.at = "logs", !.from = NextFrom(j),
                                    !.to = BatchEnd(NextFrom(j), job[j].safe),
                                    !.kind = IF FirstScan THEN "first" ELSE "plain"]
  <2>2. CASE SomethingNew(j) /\ Step(j, next)
    <3>1. /\ NextFrom(j) \in Nat /\ NextFrom(j) >= 1 /\ NextFrom(j) <= job[j].safe
          /\ BatchEnd(NextFrom(j), job[j].safe) \in Nat
          /\ BatchEnd(NextFrom(j), job[j].safe) <= job[j].safe
      BY <2>2, NextFromType
    <3>2. /\ next \in JobState /\ next.safe = job[j].safe /\ next.from = NextFrom(j)
          /\ next.to = BatchEnd(NextFrom(j), job[j].safe)
      BY <1>4, <3>1 DEF JobState
    <3>3. job[j].safe <= final
      BY <1>2, <1>8 DEF ReadCursor, Within, Kinds, Job
    <3>4. Within(next)
      BY <3>1, <3>2, <3>3 DEF Within
    <3> QED
      BY <1>2, <1>6, <1>8, <2>2, <3>2, <3>4, WithinStep DEF ReadCursor
  <2> QED
    BY <1>8, <2>1, <2>2 DEF ReadCursor
<1>9. ASSUME NEW j \in Job, NEW state \in JobState, Step(j, state),
             UNCHANGED <<blocks, final, cursor>>, job[j].at \in Ranged,
             state.kind = job[j].kind, state.safe = job[j].safe, state.from = job[j].from, state.to = job[j].to
      PROVE  Heights'
  <2>1. Within(state)
    BY <1>2, <1>9 DEF Within, Ranged
  <2> QED
    BY <1>2, <1>6, <1>9, <2>1, WithinStep
<1>10. ASSUME NEW j \in Job, GetLogs(j) PROVE Heights'
  <2> DEFINE events == EventsIn(job[j].from, job[j].to)
             next   == [job[j] EXCEPT !.at = "upsert", !.found = events, !.todo = events]
  <2>1. next \in JobState /\ next.kind = job[j].kind /\ next.safe = job[j].safe /\ next.from = job[j].from /\ next.to = job[j].to
    BY <1>4, EventsTyped DEF JobState
  <2> QED
    BY <1>9, <1>10, <2>1 DEF GetLogs, Ranged
<1>11. ASSUME NEW j \in Job, Upsert(j) PROVE Heights'
  <2>1. PICK e \in job[j].todo : Step(j, [job[j] EXCEPT !.todo = job[j].todo \ {e}])
    BY <1>11 DEF Upsert
  <2> DEFINE next == [job[j] EXCEPT !.todo = job[j].todo \ {e}]
  <2>2. next \in JobState /\ next.kind = job[j].kind /\ next.safe = job[j].safe /\ next.from = job[j].from /\ next.to = job[j].to
    BY <1>4 DEF JobState
  <2> QED
    BY <1>9, <1>11, <2>1, <2>2 DEF Upsert, Ranged
<1>12. ASSUME NEW j \in Job, UpsertsDone(j) PROVE Heights'
  <2> DEFINE next == [job[j] EXCEPT !.at = "enqueue"]
  <2>1. next \in JobState /\ next.kind = job[j].kind /\ next.safe = job[j].safe /\ next.from = job[j].from /\ next.to = job[j].to
    BY <1>4 DEF JobState
  <2> QED
    BY <1>9, <1>12, <2>1 DEF UpsertsDone, Ranged
<1>13. ASSUME NEW j \in Job, EnqueueFulfilments(j) PROVE Heights'
  <2> DEFINE next == [job[j] EXCEPT !.at = "save", !.found = {}]
  <2>1. next \in JobState /\ next.kind = job[j].kind /\ next.safe = job[j].safe /\ next.from = job[j].from /\ next.to = job[j].to
    BY <1>4 DEF JobState
  <2> QED
    BY <1>9, <1>13, <2>1 DEF EnqueueFulfilments, Ranged
<1>14. ASSUME NEW j \in Job, SetCursor(j) PROVE Heights'
  <2>0. j \in Scan
    BY <1>14 DEF SetCursor, Kinds, Job
  <2>1. cursor' <= final
    BY <1>1, <1>2, <1>4, <1>14, <2>0 DEF SetCursor, Within, Ranged, Kinds
  <2>2. \A k \in Job : Within(job[k])'
    BY <1>2, <1>3, <1>14, WithinStep DEF SetCursor, End
  <2> QED
    BY <1>2, <1>14, <2>1, <2>2 DEF SetCursor, Heights, Safe
<1>15. ASSUME NEW j \in Backfill, NEW from \in 1 .. MaxHead, NEW kind \in {"plain", "named"},
              NEW end \in Int, kind = "plain" => end = Safe, BeginBackfill(j, from, kind, end)
       PROVE  Heights'
  <2> DEFINE next == [Idle EXCEPT !.at = "logs", !.kind = kind, !.safe = end, !.from = from,
                                  !.to = BatchEnd(from, end)]
  <2>1. from \in Nat /\ from >= 1 /\ from <= end
    BY <1>15, BoundAssumption DEF BeginBackfill
  <2>2. BatchEnd(from, end) \in Nat /\ BatchEnd(from, end) <= end
    BY <2>1, BatchBounds
  <2>3. next \in JobState /\ Within(next)
    BY <1>1, <1>2, <1>15, <2>1, <2>2 DEF Idle, JobState, Within
  <2> QED
    BY <1>2, <1>5, <1>6, <1>15, <2>3, WithinStep DEF BeginBackfill
<1>16. ASSUME NEW j \in Backfill, NEW anchor \in BOOLEAN, FinishRange(j, anchor) PROVE Heights'
  BY <1>2, <1>5, <1>6, <1>16, RangeWithin DEF FinishRange, Ranged
<1>17. ASSUME NEW j \in Job, SkipRange(j) PROVE Heights'
  BY <1>2, <1>6, <1>17, RangeWithin DEF SkipRange, Ranged
<1>18. ASSUME NEW j \in Job, Throw(j) PROVE Heights'
  BY <1>2, <1>3, <1>6, <1>18, WithinStep DEF Throw, End
<1>19. CASE Crash
  <2>1. \A k \in Job : Within(job[k])'
    BY <1>2, <1>3, <1>19 DEF Crash, Within
  <2> QED
    BY <1>6, <1>19, <2>1 DEF Crash
<1>20. ASSUME NEW events \in SUBSET Event, Mine(events) PROVE Heights'
  <2> DEFINE deep == Len(blocks) + 1 - Confirmations
  <2>1. deep \in Int
    BY <1>1
  <2>2. final' = Max({final, deep})
    BY <1>20 DEF Mine
  <2> HIDE DEF deep
  <2>3. final' \in {final, deep} /\ final' >= final /\ final' >= deep
    BY <1>1, <2>1, <2>2, MaxOfTwo
  <2>4. Len(blocks') = Len(blocks) + 1
    BY <1>20, AppendProperties DEF Mine, TypeOK
  <2>5. final' <= Len(blocks') /\ Safe' <= final'
    BY <1>1, <1>2, <2>1, <2>3, <2>4 DEF Safe, deep
  <2>6. cursor' <= final'
    BY <1>1, <1>2, <1>20, <2>1, <2>3 DEF Mine
  <2>7. \A k \in Job : Within(job[k])'
    BY <1>1, <1>2, <1>4, <1>20, <2>1, <2>3 DEF Mine, Within
  <2> QED
    BY <2>5, <2>6, <2>7 DEF Heights
<1>21. CASE Reorganise
  <2>1. PICK h \in final .. Len(blocks) - 1 : blocks' = SubSeq(blocks, 1, h)
    BY <1>21 DEF Reorganise
  <2>2. Len(blocks') = h
    BY <1>1, <2>1, SubSeqProperties DEF TypeOK
  <2>3. final <= Len(blocks') /\ Safe' <= final
    BY <1>1, <1>2, <2>1, <2>2 DEF Safe
  <2> QED
    BY <1>2, <1>21, <2>3 DEF Reorganise, Heights, Within
<1>22. CASE UNCHANGED vars
  BY <1>22 DEF vars, Heights, Within, Safe
<1> QED
  BY <1>1, <1>5, <1>7, <1>8, <1>10, <1>11, <1>12, <1>13, <1>14, <1>15, <1>16, <1>17, <1>18, <1>19,
     <1>20, <1>21, <1>22 DEF Next, Watcher

-----------------------------------------------------------------------------
(* Events of ranges.                                                       *)

LEMMA FulfilledGrows ==
    ASSUME NEW a, NEW b, a \subseteq b PROVE Fulfilled(a) \subseteq Fulfilled(b)
BY DEF Fulfilled

LEMMA FulfilledUnion ==
    ASSUME NEW a, NEW b PROVE Fulfilled(a \cup b) = Fulfilled(a) \cup Fulfilled(b)
BY DEF Fulfilled

LEMMA NoEvents ==
    ASSUME NEW from \in Int, NEW to \in Int, to < from PROVE EventsIn(from, to) = {}
<1>1. from .. to = {}
  OBVIOUS
<1> QED
  BY <1>1 DEF EventsIn, EventsOf

LEMMA RangeOfEvents ==
    ASSUME NEW from \in Int, NEW to \in Int, NEW low \in Int, NEW high \in Int,
           low <= from, to <= high
    PROVE  EventsIn(from, to) \subseteq EventsIn(low, high)
<1>1. from .. to \subseteq low .. high
  OBVIOUS
<1> QED
  BY <1>1 DEF EventsIn, EventsOf

LEMMA EventsSplit ==
    ASSUME NEW low \in Int, NEW from \in Int, NEW to \in Int
    PROVE  EventsIn(low, to) \subseteq EventsIn(low, from - 1) \cup EventsIn(from, to)
<1>1. low .. to \subseteq (low .. from - 1) \cup (from .. to)
  OBVIOUS
<1> QED
  BY <1>1 DEF EventsIn, EventsOf

(* What stands for an event of a block that stays, or was read in haste.   *)
Real == EventsIn(1, final) \cup hasty

(* What no reorganisation takes back stays so.                             *)
LEMMA FinalEventsStay ==
    ASSUME TypeOK, Heights, [Next]_vars
    PROVE  EventsIn(1, final) \subseteq EventsIn(1, final)'
<1>1. final \in Int /\ final' \in Int /\ final <= final'
  BY TypeStep, Frozen DEF TypeOK
<1>2. EventsOf(blocks', 1, final) = EventsOf(blocks, 1, final)
  BY <1>1, FrozenEvents
<1>3. 1 .. final \subseteq 1 .. final'
  BY <1>1
<1>4. EventsOf(blocks', 1, final) \subseteq EventsOf(blocks', 1, final')
  BY <1>3 DEF EventsOf
<1> QED
  BY <1>2, <1>4 DEF EventsIn

-----------------------------------------------------------------------------
(* Nothing is invented: what a job carries has been read at depth.         *)

Carries(s, events) ==
    s.at \in {"upsert", "enqueue"} => s.found \subseteq events /\ s.todo \subseteq events

AllReal ==
    /\ NothingInvented
    /\ \A j \in Job : Carries(job[j], Real)

LEMMA HastyGrows == [Next]_vars => hasty \subseteq hasty'
BY DEF Next, vars, histVars, Watcher, BeginScan, ReadCursor, GetLogs, Upsert, UpsertsDone,
       EnqueueFulfilments, SetCursor, BeginBackfill, FinishRange, SkipRange, Throw, Crash,
       Mine, Reorganise

LEMMA RealStays ==
    ASSUME TypeOK, Heights, [Next]_vars
    PROVE  Real \subseteq Real' /\ Fulfilled(Real) \subseteq Fulfilled(Real')
<1>1. Real \subseteq Real'
  BY FinalEventsStay, HastyGrows DEF Real
<1> QED
  BY <1>1, FulfilledGrows

LEMMA CarriesStep ==
    ASSUME TypeOK, Heights, [Next]_vars, AllReal,
           NEW j \in Job, NEW state \in JobState, Step(j, state),
           Carries(state, Real) \/ Carries(state, Real')
    PROVE  \A k \in Job : Carries(job[k], Real)'
<1>1. \A k \in Job : job'[k] = IF k = j THEN state ELSE job[k]
  BY DEF TypeOK, Step
<1>2. Real \subseteq Real'
  BY RealStays
<1> DEFINE before == Real
           after  == Real'
<1>3. \A k \in Job : Carries(job[k], before)
  BY DEF AllReal
<1> HIDE DEF before, after
<1>4. Carries(state, after) /\ before \subseteq after
  BY <1>2 DEF before, after, Carries
<1>5. \A k \in Job : Carries(job'[k], after)
  BY <1>1, <1>3, <1>4 DEF Carries
<1> QED
  BY <1>5 DEF Carries, after

LEMMA RealStep == TypeOK /\ Heights /\ AllReal /\ [Next]_vars => AllReal'
<1> SUFFICES ASSUME TypeOK, Heights, AllReal, [Next]_vars PROVE AllReal'
  OBVIOUS
<1> USE DEF dbVars, histVars
<1>1. Idle \in JobState /\ Carries(Idle, Real)
  BY DEF Idle, JobState, Carries
<1>2. \A j \in Job : /\ job[j] \in JobState /\ job[j].safe \in Int
                     /\ job[j].from \in Nat /\ job[j].to \in Nat
                     /\ job[j].found \subseteq Event /\ job[j].todo \subseteq Event
                     /\ Carries(job[j], Real)
  BY DEF TypeOK, JobState, AllReal
<1>3. final \in Int /\ Safe \in Int /\ Scan \subseteq Job /\ Backfill \subseteq Job
  BY ConfigAssumption DEF TypeOK, Safe, Job
<1>4. Real \subseteq Real' /\ Fulfilled(Real) \subseteq Fulfilled(Real')
  BY RealStays
<1>5. ASSUME history' \subseteq Real,
             receipts' \subseteq Fulfilled(Real),
             \A k \in Job : Carries(job[k], Real)'
      PROVE  AllReal'
  <2>1. history' \subseteq Real' /\ receipts' \subseteq Fulfilled(Real')
    BY <1>4, <1>5
  <2>2. NothingInvented'
    BY <2>1 DEF NothingInvented, Real, Fulfilled
  <2> QED
    BY <1>5, <2>2 DEF AllReal
<1>6. /\ history \subseteq Real
      /\ receipts \subseteq Fulfilled(Real)
  BY DEF AllReal, NothingInvented, Real
<1>7. ASSUME NEW j \in Job, NEW state \in JobState, Step(j, state),
             Carries(state, Real) \/ Carries(state, Real'), UNCHANGED <<history, receipts>>
      PROVE  AllReal'
  BY <1>5, <1>6, <1>7, CarriesStep
<1>8. ASSUME NEW j \in Job, BeginScan(j) PROVE AllReal'
  <2> DEFINE next == [Idle EXCEPT !.at = "cursor", !.safe = Safe]
  <2>1. next \in JobState /\ Carries(next, Real)
    BY <1>3 DEF Idle, JobState, Carries
  <2> QED
    BY <1>7, <1>8, <2>1 DEF BeginScan
<1>9. ASSUME NEW j \in Job, ReadCursor(j) PROVE AllReal'
  <2>1. CASE End(j)
    BY <1>1, <1>7, <1>9, <2>1 DEF ReadCursor, End
  <2> DEFINE next == [job[j] EXCEPT !.at = "logs", !.from = NextFrom(j),
                                    !.to = BatchEnd(NextFrom(j), job[j].safe),
                                    !.kind = IF FirstScan THEN "first" ELSE "plain"]
  <2>2. CASE SomethingNew(j) /\ Step(j, next)
    <3>1. NextFrom(j) \in Nat /\ BatchEnd(NextFrom(j), job[j].safe) \in Nat
      BY <2>2, NextFromType
    <3>2. next \in JobState /\ next.at = "logs"
      BY <1>2, <3>1 DEF JobState
    <3> QED
      BY <1>7, <1>9, <2>2, <3>2 DEF ReadCursor, Carries
  <2> QED
    BY <1>9, <2>1, <2>2 DEF ReadCursor
<1>10. ASSUME NEW j \in Job, GetLogs(j) PROVE AllReal'
  <2> DEFINE events == EventsIn(job[j].from, job[j].to)
             next   == [job[j] EXCEPT !.at = "upsert", !.found = events, !.todo = events]
  <2>1. next \in JobState /\ next.found = events /\ next.todo = events
    BY <1>2, EventsTyped DEF JobState
  <2>2. CASE job[j].kind = "named"
    <3>1. events \subseteq Real'
      BY <1>10, <2>2 DEF GetLogs, Real
    <3> QED
      BY <1>7, <1>10, <2>1, <3>1 DEF GetLogs, Carries
  <2>3. CASE job[j].kind # "named"
    <3>1. job[j].from >= 1 /\ job[j].to <= final
      BY <1>2, <1>3, <1>10, <2>3 DEF GetLogs, Heights, Within, Ranged
    <3>2. events \subseteq Real
      BY <1>2, <1>3, <3>1, RangeOfEvents DEF Real
    <3> QED
      BY <1>7, <1>10, <2>1, <3>2 DEF GetLogs, Carries
  <2> QED
    BY <2>2, <2>3
<1>11. ASSUME NEW j \in Job, Upsert(j) PROVE AllReal'
  <2>1. PICK e \in job[j].todo : FillIn(e) /\ Step(j, [job[j] EXCEPT !.todo = job[j].todo \ {e}])
    BY <1>11 DEF Upsert
  <2> DEFINE next == [job[j] EXCEPT !.todo = job[j].todo \ {e}]
  <2>2. /\ next \in JobState /\ next.at = job[j].at
        /\ next.found = job[j].found /\ next.todo = job[j].todo \ {e}
    BY <1>2 DEF JobState
  <2>3. job[j].todo \subseteq Real /\ Carries(next, Real)
    BY <1>2, <1>11, <2>2 DEF Upsert, Carries
  <2>4. history' \subseteq Real
    BY <1>6, <2>1, <2>3 DEF FillIn
  <2> QED
    BY <1>5, <1>6, <1>11, <2>1, <2>2, <2>3, <2>4, CarriesStep DEF Upsert
<1>12. ASSUME NEW j \in Job, UpsertsDone(j) PROVE AllReal'
  <2> DEFINE next == [job[j] EXCEPT !.at = "enqueue"]
  <2>1. next \in JobState /\ next.found = job[j].found /\ next.todo = job[j].todo
    BY <1>2 DEF JobState
  <2>2. Carries(next, Real)
    BY <1>2, <1>12, <2>1 DEF UpsertsDone, Carries
  <2> QED
    BY <1>7, <1>12, <2>1, <2>2 DEF UpsertsDone
<1>13. ASSUME NEW j \in Job, job[j].at = "enqueue"
       PROVE  Fulfilled(job[j].found) \subseteq Fulfilled(Real)
  BY <1>2, <1>13, FulfilledGrows DEF Carries
<1>14. ASSUME NEW j \in Job, EnqueueFulfilments(j) PROVE AllReal'
  <2> DEFINE next == [job[j] EXCEPT !.at = "save", !.found = {}]
  <2>1. next \in JobState /\ next.at = "save"
    BY <1>2 DEF JobState
  <2>2. receipts' \subseteq Fulfilled(Real)
    BY <1>6, <1>13, <1>14 DEF EnqueueFulfilments
  <2>3. \A k \in Job : Carries(job[k], Real)'
    BY <1>14, <2>1, CarriesStep DEF EnqueueFulfilments, Carries
  <2> QED
    BY <1>5, <1>6, <1>14, <2>2, <2>3 DEF EnqueueFulfilments
<1>15. ASSUME NEW j \in Job, SetCursor(j) PROVE AllReal'
  BY <1>1, <1>7, <1>15 DEF SetCursor, End
<1>16. ASSUME NEW j \in Backfill, NEW from \in 1 .. MaxHead, NEW kind \in {"plain", "named"},
              NEW end \in Int, BeginBackfill(j, from, kind, end)
       PROVE  AllReal'
  <2> DEFINE next == [Idle EXCEPT !.at = "logs", !.kind = kind, !.safe = end, !.from = from,
                                  !.to = BatchEnd(from, end)]
  <2>1. from \in Nat /\ from <= end
    BY <1>16, BoundAssumption DEF BeginBackfill
  <2>2. BatchEnd(from, end) \in Nat
    BY <2>1, BatchBounds
  <2>3. next \in JobState /\ next.at = "logs"
    BY <2>1, <2>2 DEF Idle, JobState
  <2> QED
    BY <1>3, <1>7, <1>16, <2>3 DEF BeginBackfill, Carries
<1>17. ASSUME NEW j \in Job, NextRange(j)
       PROVE  \A k \in Job : Carries(job[k], Real)'
  <2> DEFINE from == job[j].from + Batch
             next == BackfillRange(j, from)
  <2>1. from \in Nat
    BY <1>2, ConfigAssumption
  <2>2. CASE from > job[j].safe
    BY <1>1, <1>17, <2>2, CarriesStep DEF NextRange
  <2>3. CASE from <= job[j].safe
    <3>1. BatchEnd(from, job[j].safe) \in Nat
      BY <1>2, <2>1, <2>3, BatchBounds
    <3>2. next \in JobState /\ next.at = "logs"
      BY <1>2, <2>1, <3>1 DEF Idle, JobState, BackfillRange
    <3>3. Step(j, next)
      BY <1>2, <1>17, <2>1, <2>3 DEF NextRange
    <3> QED
      BY <3>2, <3>3, CarriesStep DEF Carries
  <2> QED
    BY <1>2, <2>1, <2>2, <2>3
<1>18. ASSUME NEW j \in Backfill, NEW anchor \in BOOLEAN, FinishRange(j, anchor) PROVE AllReal'
  <2>1. receipts' \subseteq Fulfilled(Real)
    BY <1>3, <1>6, <1>13, <1>18 DEF FinishRange
  <2> QED
    BY <1>3, <1>5, <1>6, <1>17, <1>18, <2>1 DEF FinishRange
<1>19. ASSUME NEW j \in Job, SkipRange(j) PROVE AllReal'
  BY <1>5, <1>6, <1>17, <1>19 DEF SkipRange
<1>20. ASSUME NEW j \in Job, Throw(j) PROVE AllReal'
  BY <1>1, <1>7, <1>20 DEF Throw, End
<1>21. ASSUME UNCHANGED <<history, receipts>>,
              \A k \in Job : job'[k] \in {Idle, job[k]}
       PROVE  AllReal'
  <2> DEFINE before == Real
             after  == Real'
  <2>1. before \subseteq after /\ \A k \in Job : Carries(job[k], before)
    BY <1>2, <1>4
  <2> HIDE DEF before, after
  <2>2. \A k \in Job : Carries(job'[k], after)
    BY <1>21, <2>1 DEF Carries, Idle
  <2>3. \A k \in Job : Carries(job[k], Real)'
    BY <2>2 DEF Carries, after
  <2> QED
    BY <1>5, <1>6, <1>21, <2>3
<1>22. CASE Crash
  BY <1>21, <1>22 DEF Crash
<1>23. ASSUME NEW events \in SUBSET Event, Mine(events) PROVE AllReal'
  BY <1>21, <1>23 DEF Mine
<1>24. CASE Reorganise
  BY <1>21, <1>24 DEF Reorganise
<1>25. CASE UNCHANGED vars
  BY <1>21, <1>25 DEF vars
<1> QED
  BY <1>3, <1>8, <1>9, <1>10, <1>11, <1>12, <1>14, <1>15, <1>16, <1>18, <1>19, <1>20, <1>22,
     <1>23, <1>24, <1>25 DEF Next, Watcher

-----------------------------------------------------------------------------
(* Nothing is missed: what a scan has behind it stays done.                *)

(* Everything from begun to height to is in hist and, if fulfilled, in rec. *)
Passed(begun, to, hist, rec) ==
    /\ EventsIn(begun, to) \subseteq hist
    /\ Fulfilled(EventsIn(begun, to)) \subseteq rec

(* A scan begins where everything before is done, or is a first scan, and  *)
(* does its own range.                                                     *)
Scanned(s, begun, hist, rec) ==
    /\ s.at \in Ranged /\ s.kind # "first" => Passed(begun, s.from - 1, hist, rec)
    /\ s.at \in {"upsert", "enqueue"} => s.found = EventsIn(s.from, s.to)
    /\ s.at = "upsert" => s.found \subseteq hist \cup s.todo
    /\ s.at \in {"enqueue", "save"} => EventsIn(s.from, s.to) \subseteq hist
    /\ s.at = "save" => Fulfilled(EventsIn(s.from, s.to)) \subseteq rec

Progress ==
    /\ startBlock <= began
    /\ cursor # 0 => Passed(began, cursor, history, receipts)
    /\ \A j \in Scan : Scanned(job[j], began, history, receipts)

LEMMA PassedGrows ==
    ASSUME NEW b1 \in Int, NEW b2 \in Int, b1 <= b2, NEW to \in Int,
           NEW h1, NEW h2, NEW r1, NEW r2, h1 \subseteq h2, r1 \subseteq r2,
           Passed(b1, to, h1, r1)
    PROVE  Passed(b2, to, h2, r2)
<1>1. EventsIn(b2, to) \subseteq EventsIn(b1, to)
  BY RangeOfEvents
<1>2. Fulfilled(EventsIn(b2, to)) \subseteq Fulfilled(EventsIn(b1, to))
  BY <1>1, FulfilledGrows
<1> QED
  BY <1>1, <1>2 DEF Passed

LEMMA ScannedGrows ==
    ASSUME NEW s \in JobState, NEW b1 \in Int, NEW b2 \in Int, b1 <= b2,
           NEW h1, NEW h2, NEW r1, NEW r2, h1 \subseteq h2, r1 \subseteq r2,
           Scanned(s, b1, h1, r1)
    PROVE  Scanned(s, b2, h2, r2)
<1>1. s.from - 1 \in Int
  BY DEF JobState
<1>2. Passed(b1, s.from - 1, h1, r1) => Passed(b2, s.from - 1, h2, r2)
  BY <1>1, PassedGrows
<1> QED
  BY <1>2 DEF Scanned

LEMMA ProgressGrows ==
    ASSUME TypeOK, Progress, began' \in Int, began <= began',
           history \subseteq history', receipts \subseteq receipts'
    PROVE  /\ cursor # 0 => Passed(began', cursor, history', receipts')
           /\ \A k \in Scan : Scanned(job[k], began', history', receipts')
<1>1. began \in Int /\ cursor \in Int /\ \A k \in Scan : job[k] \in JobState
  BY DEF TypeOK, Job
<1>2. ASSUME cursor # 0 PROVE Passed(began', cursor, history', receipts')
  BY <1>1, <1>2, PassedGrows DEF Progress
<1>3. ASSUME NEW k \in Scan PROVE Scanned(job[k], began', history', receipts')
  BY <1>1, <1>3, ScannedGrows DEF Progress
<1> QED
  BY <1>2, <1>3

(* What the old chain says of the next state, the next chain says too.     *)
LEMMA NextChain ==
    ASSUME TypeOK, Kinds, Heights, [Next]_vars, startBlock <= began', cursor' <= final,
           cursor' # 0 => Passed(began', cursor', history', receipts'),
           \A k \in Scan : /\ job'[k].kind # "named" /\ Within(job'[k])
                           /\ Scanned(job'[k], began', history', receipts')
    PROVE  Progress'
<1> DEFINE hist  == history'
           rec   == receipts'
           next  == cursor'
           begun == began'
<1>1. /\ next \in Int /\ begun \in Nat /\ final \in Int
      /\ \A k \in Scan : job'[k] \in JobState
  BY TypeStep DEF TypeOK, Job
<1>2. next <= final /\ (next # 0 => Passed(begun, next, hist, rec))
  OBVIOUS
<1>3. startBlock' <= begun
  BY DEF Next, vars, Watcher, BeginScan, ReadCursor, GetLogs, Upsert, UpsertsDone,
         EnqueueFulfilments, SetCursor, BeginBackfill, FinishRange, SkipRange, Throw, Crash,
         Mine, Reorganise
<1> HIDE DEF hist, rec, next, begun
<1>4. EventsOf(blocks', begun, next) = EventsOf(blocks, begun, next)
  BY <1>1, <1>2, FrozenEvents
<1>5. (cursor # 0 => Passed(began, cursor, history, receipts))'
  BY <1>2, <1>4 DEF Passed, EventsIn, Fulfilled, hist, rec, next, begun
<1>6. ASSUME NEW k \in Scan PROVE Scanned(job[k], began, history, receipts)'
  <2> DEFINE s == job'[k]
  <2>1. s \in JobState /\ s.kind # "named" /\ Within(s) /\ Scanned(s, begun, hist, rec)
    BY <1>1 DEF hist, rec, begun
  <2> HIDE DEF s
  <2>2. s.from \in Nat /\ s.to \in Nat /\ s.safe \in Int
    BY <2>1 DEF JobState
  <2>3. CASE s.at \in Ranged
    <3>1. s.from - 1 \in Int /\ s.from - 1 <= final /\ s.to <= final
      BY <1>1, <2>1, <2>2, <2>3 DEF Within, Ranged
    <3>2. EventsOf(blocks', s.from, s.to) = EventsOf(blocks, s.from, s.to)
      BY <2>2, <3>1, FrozenEvents
    <3>3. EventsOf(blocks', begun, s.from - 1) = EventsOf(blocks, begun, s.from - 1)
      BY <1>1, <3>1, FrozenEvents
    <3> QED
      BY <2>1, <3>2, <3>3 DEF Scanned, Passed, EventsIn, Fulfilled, hist, rec, begun, s
  <2>4. CASE s.at \notin Ranged
    BY <2>1, <2>4 DEF Scanned, Ranged, s
  <2> QED
    BY <2>3, <2>4
<1>7. (startBlock <= began)'
  BY <1>3 DEF begun
<1> QED
  BY <1>5, <1>6, <1>7 DEF Progress

(* A step of one job, which has done what its next state says.             *)
LEMMA JobStep ==
    ASSUME TypeOK, Kinds, Heights, Progress, [Next]_vars,
           history \subseteq history', receipts \subseteq receipts',
           cursor' = cursor, began' = began,
           NEW j \in Job, NEW state \in JobState, Step(j, state),
           j \in Scan => Within(state) /\ Scanned(state, began, history', receipts')
    PROVE  Progress'
<1>1. \A k \in Job : job'[k] = IF k = j THEN state ELSE job[k]
  BY DEF TypeOK, Step
<1>2. /\ cursor # 0 => Passed(began', cursor, history', receipts')
      /\ \A k \in Scan : Scanned(job[k], began', history', receipts')
  BY ProgressGrows DEF TypeOK
<1>3. /\ cursor' <= final /\ startBlock <= began' /\ \A k \in Job : Within(job[k])
      /\ Kinds'
  BY KindsStep DEF Heights, Progress
<1>4. \A k \in Scan : /\ job'[k].kind # "named" /\ Within(job'[k])
                      /\ Scanned(job'[k], began', history', receipts')
  BY <1>1, <1>2, <1>3 DEF Job, Kinds
<1> QED
  BY <1>2, <1>3, <1>4, NextChain

LEMMA ProgressStep == TypeOK /\ Kinds /\ Heights /\ Progress /\ [Next]_vars => Progress'
<1> SUFFICES ASSUME TypeOK, Kinds, Heights, Progress, [Next]_vars PROVE Progress'
  OBVIOUS
<1> USE DEF dbVars, histVars
<1>1. /\ Idle \in JobState /\ Within(Idle) /\ Idle.kind # "named"
      /\ \A begun, hist, rec : Scanned(Idle, begun, hist, rec)
  BY DEF Idle, JobState, Within, Scanned, Ranged
<1>2. \A j \in Job : /\ job[j] \in JobState /\ job[j].safe \in Int
                     /\ job[j].from \in Nat /\ job[j].to \in Nat
                     /\ job[j].found \subseteq Event /\ job[j].todo \subseteq Event
                     /\ Within(job[j])
  BY DEF TypeOK, JobState, Heights
<1>3. /\ final \in Int /\ Safe \in Int /\ Scan \subseteq Job /\ Backfill \subseteq Job
      /\ Scan \cap Backfill = {}
  BY ConfigAssumption, JobAssumption DEF TypeOK, Safe, Job
<1>4. \A j \in Scan : Scanned(job[j], began, history, receipts)
  BY DEF Progress
<1>5. ASSUME NEW j \in Job, Step(j, Idle), UNCHANGED <<cursor, began, history, receipts>>
      PROVE  Progress'
  BY <1>1, <1>5, JobStep
<1>6. ASSUME NEW j \in Job, BeginScan(j) PROVE Progress'
  <2> DEFINE next == [Idle EXCEPT !.at = "cursor", !.safe = Safe]
  <2>1. next \in JobState /\ next.at = "cursor" /\ Within(next)
    BY <1>3 DEF Idle, JobState, Within, Heights, Ranged
  <2>2. Scanned(next, began, history', receipts')
    BY <2>1 DEF Scanned, Ranged
  <2> QED
    BY <1>6, <2>1, <2>2, JobStep DEF BeginScan
<1>7. ASSUME NEW j \in Job, ReadCursor(j) PROVE Progress'
  <2>1. CASE End(j)
    BY <1>5, <1>7, <2>1 DEF ReadCursor, End
  <2> DEFINE next == [job[j] EXCEPT !.at = "logs", !.from = NextFrom(j),
                                    !.to = BatchEnd(NextFrom(j), job[j].safe),
                                    !.kind = IF FirstScan THEN "first" ELSE "plain"]
  <2>2. CASE SomethingNew(j) /\ Step(j, next)
    <3>1. /\ NextFrom(j) \in Nat /\ NextFrom(j) >= 1 /\ NextFrom(j) <= job[j].safe
          /\ BatchEnd(NextFrom(j), job[j].safe) \in Nat
          /\ BatchEnd(NextFrom(j), job[j].safe) <= job[j].safe
      BY <2>2, NextFromType
    <3>2. /\ next \in JobState /\ next.at = "logs" /\ next.safe = job[j].safe
          /\ next.from = NextFrom(j) /\ next.to = BatchEnd(NextFrom(j), job[j].safe)
          /\ next.kind = IF FirstScan THEN "first" ELSE "plain"
      BY <1>2, <3>1 DEF JobState
    <3>3. Within(next)
      BY <1>2, <1>7, <3>1, <3>2 DEF ReadCursor, Within, Kinds, Job
    <3>4. ASSUME ~FirstScan PROVE Passed(began, NextFrom(j) - 1, history, receipts)
      <4>1. CASE cursor = 0
        <5>1. NextFrom(j) - 1 < began /\ NextFrom(j) - 1 \in Int /\ began \in Int
          BY <3>1, <3>4, <4>1, ConfigAssumption DEF NextFrom, FirstScan, Progress, TypeOK
        <5> QED
          BY <5>1, NoEvents DEF Passed, Fulfilled
      <4>2. CASE cursor # 0
        <5>1. NextFrom(j) - 1 = cursor
          BY <4>2 DEF NextFrom, TypeOK
        <5> QED
          BY <4>2, <5>1 DEF Progress
      <4> QED
        BY <4>1, <4>2
    <3>5. history' = history /\ receipts' = receipts /\ cursor' = cursor /\ began' = began
      BY <1>7 DEF ReadCursor
    <3> HIDE DEF next
    <3>6. Scanned(next, began, history', receipts')
      BY <3>2, <3>4, <3>5 DEF Scanned
    <3> QED
      BY <2>2, <3>2, <3>3, <3>5, <3>6, JobStep
  <2> QED
    BY <1>7, <2>1, <2>2 DEF ReadCursor
<1>8. ASSUME NEW j \in Job, GetLogs(j) PROVE Progress'
  <2> DEFINE events == EventsIn(job[j].from, job[j].to)
             next   == [job[j] EXCEPT !.at = "upsert", !.found = events, !.todo = events]
  <2>1. /\ next \in JobState /\ next.at = "upsert" /\ next.safe = job[j].safe
        /\ next.kind = job[j].kind /\ next.from = job[j].from /\ next.to = job[j].to
        /\ next.found = events /\ next.todo = events
    BY <1>2, EventsTyped DEF JobState
  <2>2. /\ history' = history /\ receipts' = receipts /\ cursor' = cursor /\ began' = began
        /\ job[j].at \in Ranged /\ Step(j, next)
    BY <1>8 DEF GetLogs, Ranged
  <2>3. Within(next)
    BY <1>2, <2>1, <2>2 DEF Within, Ranged
  <2> HIDE DEF events
  <2>4. j \in Scan => Scanned(next, began, history', receipts')
    BY <1>4, <2>1, <2>2 DEF Scanned, events
  <2> QED
    BY <2>1, <2>2, <2>3, <2>4, JobStep
<1>9. ASSUME NEW j \in Job, Upsert(j) PROVE Progress'
  <2>1. PICK e \in job[j].todo : FillIn(e) /\ Step(j, [job[j] EXCEPT !.todo = job[j].todo \ {e}])
    BY <1>9 DEF Upsert
  <2> DEFINE next == [job[j] EXCEPT !.todo = job[j].todo \ {e}]
  <2>2. /\ next \in JobState /\ next.at = "upsert" /\ next.safe = job[j].safe
        /\ next.kind = job[j].kind /\ next.from = job[j].from /\ next.to = job[j].to
        /\ next.found = job[j].found /\ next.todo = job[j].todo \ {e}
    BY <1>2, <1>9 DEF Upsert, JobState
  <2>3. history' = history \cup {e} /\ receipts' = receipts /\ cursor' = cursor /\ began' = began /\ job[j].at = "upsert"
    BY <1>9, <2>1 DEF Upsert, FillIn
  <2>4. Within(next)
    BY <1>2, <2>2, <2>3 DEF Within, Ranged
  <2>5. j \in Scan => Scanned(next, began, history', receipts')
    BY <1>4, <2>2, <2>3 DEF Scanned, Passed, Ranged
  <2> QED
    BY <2>1, <2>2, <2>3, <2>4, <2>5, JobStep
<1>10. ASSUME NEW j \in Job, UpsertsDone(j) PROVE Progress'
  <2> DEFINE next == [job[j] EXCEPT !.at = "enqueue"]
  <2>1. /\ next \in JobState /\ next.at = "enqueue" /\ next.safe = job[j].safe
        /\ next.kind = job[j].kind /\ next.from = job[j].from /\ next.to = job[j].to /\ next.found = job[j].found
    BY <1>2 DEF JobState
  <2>2. /\ history' = history /\ receipts' = receipts /\ cursor' = cursor /\ began' = began
        /\ job[j].at = "upsert" /\ job[j].todo = {} /\ Step(j, next)
    BY <1>10 DEF UpsertsDone
  <2>3. Within(next)
    BY <1>2, <2>1, <2>2 DEF Within, Ranged
  <2>4. j \in Scan => Scanned(next, began, history', receipts')
    BY <1>4, <2>1, <2>2 DEF Scanned, Ranged
  <2> QED
    BY <2>1, <2>2, <2>3, <2>4, JobStep
<1>11. ASSUME NEW j \in Job, EnqueueFulfilments(j) PROVE Progress'
  <2> DEFINE next == [job[j] EXCEPT !.at = "save", !.found = {}]
  <2>1. /\ next \in JobState /\ next.at = "save" /\ next.safe = job[j].safe
        /\ next.kind = job[j].kind /\ next.from = job[j].from /\ next.to = job[j].to
    BY <1>2 DEF JobState
  <2>2. /\ history' = history /\ receipts' = receipts \cup Fulfilled(job[j].found)
        /\ cursor' = cursor /\ began' = began /\ j \in Scan /\ job[j].at = "enqueue" /\ Step(j, next)
    BY <1>11 DEF EnqueueFulfilments
  <2>3. Within(next)
    BY <1>2, <2>1, <2>2 DEF Within, Ranged
  <2>4. Scanned(next, began, history', receipts')
    BY <1>4, <2>1, <2>2 DEF Scanned, Passed, Ranged
  <2> QED
    BY <1>3, <2>1, <2>2, <2>3, <2>4, JobStep
<1>12. ASSUME NEW j \in Job, SetCursor(j) PROVE Progress'
  <2> DEFINE from == job[j].from
             to   == job[j].to
  <2>1. /\ history' = history /\ receipts' = receipts /\ cursor' = to
        /\ began' = IF job[j].kind = "first" THEN Max({began, from}) ELSE began
        /\ job[j].at = "save" /\ Step(j, Idle)
    BY <1>12 DEF SetCursor, End
  <2>2. /\ j \in Scan /\ from \in Int /\ to \in Int /\ to <= final
        /\ began \in Int /\ startBlock \in Int /\ startBlock <= began
    BY <1>2, <1>3, <2>1, ConfigAssumption DEF Kinds, Job, Within, Ranged, TypeOK, Progress
  <2>3. /\ EventsIn(from, to) \subseteq history /\ Fulfilled(EventsIn(from, to)) \subseteq receipts
        /\ job[j].kind # "first" => Passed(began, from - 1, history, receipts)
    BY <1>4, <2>1, <2>2 DEF Scanned, Ranged
  <2>4. began' \in Int /\ began <= began' /\ (job[j].kind = "first" => from <= began')
    BY <2>1, <2>2, MaxOfTwo
  <2> HIDE DEF from, to
  <2>5. Passed(began', to, history, receipts)
    <3>1. CASE job[j].kind = "first"
      <4>1. Passed(from, to, history, receipts)
        BY <2>3 DEF Passed
      <4> QED
        BY <2>2, <2>4, <3>1, <4>1, PassedGrows
    <3>2. CASE job[j].kind # "first"
      <4> DEFINE all == EventsIn(began, to)
                 old == EventsIn(began, from - 1)
                 new == EventsIn(from, to)
      <4>1. all \subseteq old \cup new
        BY <2>2, EventsSplit
      <4>2. old \subseteq history /\ Fulfilled(old) \subseteq receipts
        BY <2>3, <3>2 DEF Passed
      <4>3. new \subseteq history /\ Fulfilled(new) \subseteq receipts
        BY <2>3
      <4> HIDE DEF all, old, new
      <4>4. Fulfilled(all) \subseteq Fulfilled(old \cup new)
        BY <4>1, FulfilledGrows
      <4>5. Fulfilled(old \cup new) = Fulfilled(old) \cup Fulfilled(new)
        BY FulfilledUnion
      <4>6. all \subseteq history /\ Fulfilled(all) \subseteq receipts
        BY <4>1, <4>2, <4>3, <4>4, <4>5
      <4> QED
        BY <2>1, <3>2, <4>6 DEF Passed, all
    <3> QED
      BY <3>1, <3>2
  <2>6. \A k \in Job : job'[k] = IF k = j THEN Idle ELSE job[k]
    BY <2>1 DEF TypeOK, Step
  <2>7. \A k \in Scan : Scanned(job[k], began', history', receipts')
    BY <2>1, <2>4, ProgressGrows
  <2>8. \A k \in Scan : /\ job'[k].kind # "named" /\ Within(job'[k])
                        /\ Scanned(job'[k], began', history', receipts')
    BY <1>1, <1>2, <1>3, <2>6, <2>7 DEF Kinds
  <2>9. startBlock <= began'
    BY <2>2, <2>4
  <2> QED
    BY <2>1, <2>2, <2>5, <2>8, <2>9, NextChain
<1>13. ASSUME NEW j \in Backfill, NEW state \in JobState, Step(j, state), history' = history,
              receipts \subseteq receipts', cursor' = cursor, began' = began
       PROVE  Progress'
  BY <1>3, <1>13, JobStep
<1>14. ASSUME NEW j \in Backfill, NEW from \in 1 .. MaxHead, NEW kind \in {"plain", "named"},
              NEW end \in Int, BeginBackfill(j, from, kind, end)
       PROVE  Progress'
  <2> DEFINE next == [Idle EXCEPT !.at = "logs", !.kind = kind, !.safe = end, !.from = from,
                                  !.to = BatchEnd(from, end)]
  <2>1. from \in Nat /\ from <= end
    BY <1>14, BoundAssumption DEF BeginBackfill
  <2>2. BatchEnd(from, end) \in Nat
    BY <2>1, BatchBounds
  <2>3. next \in JobState
    BY <2>1, <2>2 DEF Idle, JobState
  <2> QED
    BY <1>13, <1>14, <2>3 DEF BeginBackfill
<1>15. ASSUME NEW j \in Backfill, NextRange(j),
              history' = history, receipts \subseteq receipts', cursor' = cursor, began' = began
       PROVE  Progress'
  <2> DEFINE from == job[j].from + Batch
             next == BackfillRange(j, from)
  <2>1. from \in Nat /\ job[j].safe \in Int
    BY <1>2, <1>3, ConfigAssumption
  <2>2. CASE from > job[j].safe
    BY <1>1, <1>13, <1>15, <2>2 DEF NextRange
  <2>3. CASE from <= job[j].safe
    <3>1. BatchEnd(from, job[j].safe) \in Nat
      BY <2>1, <2>3, BatchBounds
    <3>2. next \in JobState
      BY <1>2, <1>3, <2>1, <3>1 DEF Idle, JobState, BackfillRange
    <3>3. Step(j, next)
      BY <1>15, <2>1, <2>3 DEF NextRange
    <3> QED
      BY <1>13, <1>15, <3>2, <3>3
  <2> QED
    BY <2>1, <2>2, <2>3
<1>16. ASSUME NEW j \in Backfill, NEW anchor \in BOOLEAN, FinishRange(j, anchor) PROVE Progress'
  BY <1>15, <1>16 DEF FinishRange
<1>17. ASSUME NEW j \in Job, SkipRange(j) PROVE Progress'
  BY <1>15, <1>17 DEF SkipRange
<1>18. ASSUME NEW j \in Job, Throw(j) PROVE Progress'
  BY <1>5, <1>18 DEF Throw, End
<1>19. ASSUME UNCHANGED <<cursor, began, history, receipts>>,
              \A k \in Job : job'[k] \in {Idle, job[k]}
       PROVE  Progress'
  <2>1. /\ cursor' <= final /\ startBlock <= began'
        /\ cursor' # 0 => Passed(began', cursor', history', receipts')
    BY <1>19 DEF Heights, Progress
  <2>2. \A k \in Scan : /\ job'[k].kind # "named" /\ Within(job'[k])
                        /\ Scanned(job'[k], began', history', receipts')
    BY <1>1, <1>2, <1>3, <1>4, <1>19 DEF Kinds
  <2> QED
    BY <2>1, <2>2, NextChain
<1>20. CASE Crash
  BY <1>19, <1>20 DEF Crash
<1>21. ASSUME NEW events \in SUBSET Event, Mine(events) PROVE Progress'
  BY <1>19, <1>21 DEF Mine
<1>22. CASE Reorganise
  BY <1>19, <1>22 DEF Reorganise
<1>23. CASE UNCHANGED vars
  BY <1>19, <1>23 DEF vars
<1> QED
  BY <1>3, <1>6, <1>7, <1>8, <1>9, <1>10, <1>11, <1>12, <1>14, <1>16, <1>17, <1>18, <1>20,
     <1>21, <1>22, <1>23 DEF Next, Watcher

-----------------------------------------------------------------------------
IInv == TypeOK /\ Kinds /\ Heights /\ AllReal /\ Progress

LEMMA IInvInit == Init => IInv
<1> SUFFICES ASSUME Init PROVE IInv
  OBVIOUS
<1>1. /\ blocks = <<>> /\ final = 0 /\ cursor = 0 /\ history = {} /\ receipts = {}
      /\ \A j \in Job : job[j] = Idle
  BY DEF Init
<1>2. \A from, to : EventsIn(from, to) = {}
  BY <1>1 DEF EventsIn, EventsOf
<1>3. Fulfilled({}) = {}
  BY DEF Fulfilled
<1>4. TypeOK
  BY InitTyped
<1>5. Kinds /\ Heights
  BY <1>1, ConfigAssumption DEF Kinds, Heights, Safe, Within, Idle, Ranged, Job
<1>6. AllReal
  BY <1>1 DEF AllReal, NothingInvented, Carries, Idle
<1>7. Progress
  <2>1. cursor = 0 /\ startBlock <= began
    BY <1>4, ConfigAssumption DEF Init, TypeOK
  <2>2. \A j \in Job : job[j].at = "idle"
    BY <1>1 DEF Idle
  <2> QED
    BY <2>1, <2>2 DEF Progress, Scanned, Ranged, Job
<1> QED
  BY <1>4, <1>5, <1>6, <1>7 DEF IInv

LEMMA Inductive == Spec => []IInv
<1>1. IInv /\ [Next]_vars => IInv'
  BY TypeStep, KindsStep, HeightsStep, RealStep, ProgressStep DEF IInv
<1> QED
  BY <1>1, IInvInit, PTL DEF Spec

(* No event is missed: whatever the scans and backfills do to each other,  *)
(* and whenever they throw or die, every event of the blocks the stored    *)
(* cursor has passed is in the history, with its receipt (setCursor after  *)
(* the upserts and the enqueueing, in scanChain), from the start block on  *)
(* or, where there is none, from where the last first scan to save began.  *)
THEOREM CursorIsHonest == Spec => []NothingMissed
<1>1. IInv => NothingMissed
  BY DEF IInv, Heights, Progress, Passed, NothingMissed
<1> QED
  BY <1>1, Inductive, PTL

(* No reorganisation takes back what the history or a receipt records, as  *)
(* long as none is deeper than the confirmations (safe, in scanChain), but *)
(* for what a backfill to a block the operator named has read.             *)
THEOREM RecordsAreFinal == Spec => []NothingInvented
<1>1. IInv => NothingInvented
  BY DEF IInv, AllReal
<1> QED
  BY <1>1, Inductive, PTL
=============================================================================
