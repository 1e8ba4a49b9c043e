--------------------------- MODULE StepCounterProofs ---------------------------
(***************************************************************************)
(* Proofs about StepCounter, for every value of its constants: any number  *)
(* of days, steps, goals, running saves, kills and reboots.                *)
(***************************************************************************)
EXTENDS StepCounter, SequenceTheorems, WellFoundedInduction, TLAPS

-----------------------------------------------------------------------------
(* What the handlers compute from well-typed fields is well typed. *)

(* _saveTodaySteps' update of the history yields a list of entries. *)
LEMMA WithEntryType ==
    ASSUME NEW h \in Seq(Entry), NEW e \in Entry
    PROVE  WithEntry(h, e) \in Seq(Entry)
<1> DEFINE same == EntriesOf(h, e.date)
           first == CHOOSE i \in same : \A j \in same : i <= j
           longer == IF same = {} THEN <<e>> \o h ELSE [h EXCEPT ![first] = e]
<1>1. longer \in Seq(Entry)
  <2>1. <<e>> \o h \in Seq(Entry)
    OBVIOUS
  <2>2. [h EXCEPT ![first] = e] \in Seq(Entry)
    <3> HIDE DEF first
    <3>1. CASE first \in 1 .. Len(h)
      BY <3>1, ExceptSeq, Zenon
    <3>2. CASE first \notin 1 .. Len(h)
      BY <3>2, [h EXCEPT ![first] = e] = h
    <3> QED BY <3>1, <3>2
  <2> QED BY <2>1, <2>2
<1>2. Len(longer) > HistoryLimit => SubSeq(longer, 1, HistoryLimit) \in Seq(Entry)
  <2> HIDE DEF longer
  <2> QED BY <1>1, HistoryAssumption
<1> HIDE DEF longer
<1> QED BY <1>1, <1>2 DEF WithEntry, longer, first, same

(* _saveTodaySteps keeps the fields well typed. *)
LEMMA BankedType ==
    ASSUME NEW m \in FieldType
    PROVE  Banked(m) \in FieldType
<1>1. m.today > 0 => TodayEntry(m) \in Entry
  <2>1. m.lastDate \in Int /\ m.today \in Nat /\ m.goal \in Int
    BY GoalAssumption DEF FieldType
  <2> QED BY <2>1 DEF TodayEntry, Entry
<1>2. m.today > 0 => WithEntry(m.history, TodayEntry(m)) \in Seq(Entry)
  BY <1>1, WithEntryType DEF FieldType
<1> QED BY <1>2 DEF Banked, FieldType

(* _resetForNewDay keeps the fields well typed. *)
LEMMA NewDayResetType ==
    ASSUME NEW m \in FieldType, NEW d \in Int
    PROVE  NewDayReset(m, d) \in FieldType
BY DEF NewDayReset, FieldType

(* _onStepCount keeps the fields well typed: no count goes negative. *)
LEMMA CountedType ==
    ASSUME NEW m \in FieldType, NEW n \in Nat
    PROVE  Counted(m, n) \in FieldType
<1> DEFINE b == IF m.baseline = 0 THEN n ELSE m.baseline
<1>1. m.baseline \in Nat
  BY DEF FieldType
<1>2. b \in Nat /\ (~(n < b) => n - b \in Nat)
  BY <1>1
<1> HIDE DEF b
<1>3. [m EXCEPT !.total = n, !.baseline = IF n < b THEN n ELSE b,
                !.today = IF n < b THEN 0 ELSE n - b] \in FieldType
  BY <1>2 DEF FieldType
<1> QED BY <1>3 DEF Counted, b

(* _loadSavedData yields well-typed fields from any well-typed store. *)
LEMMA RestoredType ==
    ASSUME NEW m \in FieldType, NEW s, StoreOK(s)
    PROVE  Restored(m, s) \in FieldType
BY GoalAssumption, HistoryAssumption
   DEF Restored, Stored, FieldType, StoreOK, Keys, Entry

(* A save that starts keeps memory, the map and the queue well typed. *)
LEMMA SaveDataType ==
    ASSUME TypeOK, NEW m \in FieldType, SaveData(m)
    PROVE  mem' \in FieldType /\ StoreOK(cache') /\ saves' \in Seq(Write)
<1>1. m.baseline \in Nat /\ FirstWrite(m) \in Write
  BY DEF FieldType, FirstWrite, Write
<1>2. StoreOK([cache EXCEPT !["baseline"] = m.baseline])
  BY <1>1 DEF TypeOK, StoreOK, Keys
<1> QED BY <1>1, <1>2 DEF TypeOK, SaveData, prefs

(* So does _saveTodaySteps. *)
LEMMA SaveTodayStepsType ==
    ASSUME TypeOK, SaveTodaySteps
    PROVE  mem' \in FieldType /\ StoreOK(cache') /\ saves' \in Seq(Write)
<1>1. mem \in FieldType
  BY DEF TypeOK
<1>2. CASE mem.today > 0
  BY <1>1, <1>2, BankedType, SaveDataType DEF SaveTodaySteps
<1>3. CASE ~(mem.today > 0)
  BY <1>3 DEF SaveTodaySteps, TypeOK, prefs
<1> QED BY <1>2, <1>3

(* So does _checkDateChange. *)
LEMMA CheckDateChangeType ==
    ASSUME TypeOK, NEW m \in FieldType, NEW ready, CheckDateChange(m, ready)
    PROVE  mem' \in FieldType /\ StoreOK(cache') /\ saves' \in Seq(Write)
<1> DEFINE banked == Banked(m)
           reset == NewDayReset(banked, day)
           saved == IF m.today > 0 THEN Append(saves, FirstWrite(banked)) ELSE saves
<1>1. banked \in FieldType /\ reset \in FieldType
  BY BankedType, NewDayResetType DEF TypeOK
<1> HIDE DEF banked, reset
<1>2. FirstWrite(banked) \in Write /\ FirstWrite(reset) \in Write
  BY <1>1 DEF FieldType, FirstWrite, Write
<1>3. saved \in Seq(Write) /\ Append(saved, FirstWrite(reset)) \in Seq(Write)
  BY <1>2 DEF TypeOK
<1>4. \A n \in Nat : StoreOK([cache EXCEPT !["baseline"] = n])
  BY DEF TypeOK, StoreOK, Keys
<1>5. m.baseline \in Nat /\ reset.baseline \in Nat
  BY <1>1 DEF FieldType
<1> HIDE DEF saved
<1>6. \/ mem' = m /\ UNCHANGED prefs
      \/ mem' = reset /\ UNCHANGED prefs
      \/ /\ mem' = reset
         /\ saves' = Append(saved, FirstWrite(reset))
         /\ cache' = [cache EXCEPT !["baseline"] = reset.baseline]
      \/ /\ mem' \in {banked, reset}
         /\ saves' = saved
         /\ cache' \in {cache, [cache EXCEPT !["baseline"] = m.baseline]}
  BY DEF CheckDateChange, banked, reset, saved
<1> QED BY <1>1, <1>3, <1>4, <1>5, <1>6 DEF TypeOK, prefs

(* A save's next write is well typed: the key after its last one, with the *)
(* value that the field has when the write is sent.                        *)
LEMMA NextWriteType ==
    ASSUME NEW m \in FieldType, NEW k \in 1 .. 5, k < 5
    PROVE  [k |-> k + 1, val |-> m[KeyOrder[k + 1]]] \in Write
<1>1. k = 1 \/ k = 2 \/ k = 3 \/ k = 4
  OBVIOUS
<1>2. CASE k = 1
  BY <1>2 DEF Write, FieldType, KeyOrder
<1>3. CASE k = 2
  BY <1>3 DEF Write, FieldType, KeyOrder
<1>4. CASE k = 3
  BY <1>4 DEF Write, FieldType, KeyOrder
<1>5. CASE k = 4
  BY <1>5 DEF Write, FieldType, KeyOrder
<1> QED BY <1>1, <1>2, <1>3, <1>4, <1>5

(* The answer to a write keeps the store, the map and the queue well typed. *)
LEMMA SaveReplyType ==
    ASSUME TypeOK, SaveReply
    PROVE  StoreOK(disk') /\ StoreOK(cache') /\ saves' \in Seq(Write)
<1> DEFINE w == Head(saves)
<1>1. w \in Write /\ Tail(saves) \in Seq(Write)
  BY HeadTailProperties DEF TypeOK, SaveReply
<1> HIDE DEF w
<1>2. w.k \in 1 .. 5
  BY <1>1 DEF Write
<1>3. StoreOK([disk EXCEPT ![KeyOrder[w.k]] = w.val])
  BY <1>1 DEF Write, TypeOK, StoreOK, Keys, KeyOrder
<1>4. ASSUME w.k < 5
      PROVE  /\ [k |-> w.k + 1, val |-> mem[KeyOrder[w.k + 1]]] \in Write
             /\ StoreOK([cache EXCEPT ![KeyOrder[w.k + 1]] = mem[KeyOrder[w.k + 1]]])
  <2>1. [k |-> w.k + 1, val |-> mem[KeyOrder[w.k + 1]]] \in Write
    BY <1>2, <1>4, NextWriteType DEF TypeOK
  <2>2. StoreOK([cache EXCEPT ![KeyOrder[w.k + 1]] = mem[KeyOrder[w.k + 1]]])
    BY <1>2, <1>4 DEF TypeOK, StoreOK, Keys, KeyOrder, FieldType
  <2> QED BY <2>1, <2>2
<1>5. w.k < 5 => Append(Tail(saves), [k |-> w.k + 1, val |-> mem[KeyOrder[w.k + 1]]]) \in Seq(Write)
  BY <1>1, <1>4
<1>6. /\ disk' = [disk EXCEPT ![KeyOrder[w.k]] = w.val]
      /\ w.k < 5 => /\ saves' = Append(Tail(saves), [k |-> w.k + 1, val |-> mem[KeyOrder[w.k + 1]]])
                    /\ cache' = [cache EXCEPT ![KeyOrder[w.k + 1]] = mem[KeyOrder[w.k + 1]]]
      /\ ~(w.k < 5) => saves' = Tail(saves) /\ cache' = cache
  BY DEF SaveReply, w
<1> QED BY <1>1, <1>3, <1>4, <1>5, <1>6 DEF TypeOK

(* The initial fields are well typed. *)
LEMMA FreshType == ASSUME NEW d \in Int PROVE Fresh(d) \in FieldType
BY GoalAssumption DEF Fresh, FieldType

(* The empty queue and the cleared history are lists of their kind. *)
LEMMA EmptyLists == <<>> \in Seq(Write) /\ <<>> \in Seq(Entry)
BY EmptySeq

(* The end of a process leaves nothing but the file. *)
LEMMA ProcessEndsType ==
    ASSUME TypeOK, ProcessEnds
    PROVE  /\ phase' = "none" /\ mounted' \in BOOLEAN /\ foreground' \in BOOLEAN
           /\ view' = "today" /\ lateRoll' \in BOOLEAN /\ torn' \in BOOLEAN
           /\ mem' \in FieldType /\ saves' \in Seq(Write)
           /\ StoreOK(cache') /\ StoreOK(disk')
<1>1. mem' \in FieldType
  BY FreshType DEF ProcessEnds
<1>2. saves' \in Seq(Write)
  BY EmptyLists DEF ProcessEnds
<1>3. StoreOK(cache') /\ StoreOK(disk')
  BY DEF ProcessEnds, TypeOK
<1> QED BY <1>1, <1>2, <1>3 DEF ProcessEnds, TypeOK

(* Every step keeps the types. *)
LEMMA TypeStep == TypeOK /\ [Next]_vars => TypeOK'
<1> SUFFICES ASSUME TypeOK, [Next]_vars PROVE TypeOK'
  OBVIOUS
<1> USE DEF env, page, bounds, aux
<1>1. CASE Open
  BY <1>1, FreshType DEF Open, TypeOK, prefs
<1>2. CASE Load
  <2>1. Restored(mem, cache) \in FieldType
    BY RestoredType DEF TypeOK
  <2>2. mem' \in FieldType /\ StoreOK(cache') /\ saves' \in Seq(Write)
    BY <1>2, <2>1, CheckDateChangeType DEF Load
  <2> QED BY <1>2, <2>2 DEF Load, TypeOK
<1>3. CASE Permission
  BY <1>3 DEF Permission, TypeOK, prefs
<1>4. CASE StreamDone
  BY <1>4 DEF StreamDone, TypeOK, prefs
<1>5. CASE StepEvent
  <2>1. Counted(mem, sensor) \in FieldType
    BY CountedType DEF TypeOK
  <2>2. mem' \in FieldType /\ StoreOK(cache') /\ saves' \in Seq(Write)
    <3>1. CASE mounted
      BY <1>5, <2>1, <3>1, SaveDataType DEF StepEvent
    <3>2. CASE ~mounted
      BY <1>5, <2>1, <3>2 DEF StepEvent, TypeOK, prefs
    <3> QED BY <3>1, <3>2
  <2> QED BY <1>5, <2>2 DEF StepEvent, TypeOK
<1>6. CASE Pause
  BY <1>6, SaveTodayStepsType DEF Pause, TypeOK
<1>7. CASE Resume
  <2>1. mem' \in FieldType /\ StoreOK(cache') /\ saves' \in Seq(Write)
    BY <1>7, CheckDateChangeType DEF Resume, TypeOK
  <2> QED BY <1>7, <2>1 DEF Resume, TypeOK
<1>8. CASE Dispose
  BY <1>8, SaveTodayStepsType DEF Dispose, TypeOK
<1>9. CASE ResetTodaySteps
  <2>1. [mem EXCEPT !.baseline = mem.total, !.today = 0] \in FieldType
    BY DEF TypeOK, FieldType
  <2>2. mem' \in FieldType /\ StoreOK(cache') /\ saves' \in Seq(Write)
    BY <1>9, <2>1, SaveDataType DEF ResetTodaySteps
  <2> QED BY <1>9, <2>2 DEF ResetTodaySteps, TypeOK
<1>10. CASE ResetAllHistory
  <2>1. [mem EXCEPT !.history = <<>>, !.today = 0, !.baseline = mem.total] \in FieldType
    BY EmptyLists DEF TypeOK, FieldType
  <2>2. mem' \in FieldType /\ StoreOK(cache') /\ saves' \in Seq(Write)
    BY <1>10, <2>1, SaveDataType DEF ResetAllHistory
  <2> QED BY <1>10, <2>2 DEF ResetAllHistory, TypeOK
<1>11. ASSUME NEW g \in Goals, SetGoal(g) PROVE TypeOK'
  <2>1. [mem EXCEPT !.goal = g] \in FieldType
    BY DEF TypeOK, FieldType
  <2>2. mem' \in FieldType /\ StoreOK(cache') /\ saves' \in Seq(Write)
    BY <1>11, <2>1, SaveDataType DEF SetGoal
  <2> QED BY <1>11, <2>2 DEF SetGoal, TypeOK
<1>12. ASSUME NEW v \in {"today", "history"}, SelectView(v) PROVE TypeOK'
  BY <1>12 DEF SelectView, TypeOK, prefs
<1>13. CASE SaveReply
  BY <1>13, SaveReplyType DEF SaveReply, TypeOK
<1>14. CASE Walk
  BY <1>14 DEF Walk, TypeOK, prefs
<1>15. CASE Midnight
  BY <1>15 DEF Midnight, TypeOK, prefs
<1>16. CASE ClockBack
  BY <1>16 DEF ClockBack, TypeOK, prefs
<1>17. CASE Kill
  BY <1>17, ProcessEndsType DEF Kill, TypeOK
<1>18. CASE Reboot
  BY <1>18, ProcessEndsType DEF Reboot, TypeOK
<1>19. CASE UNCHANGED vars
  BY <1>19 DEF vars, TypeOK, prefs
<1> QED
  BY <1>1, <1>2, <1>3, <1>4, <1>5, <1>6, <1>7, <1>8, <1>9, <1>10, <1>11, <1>12,
     <1>13, <1>14, <1>15, <1>16, <1>17, <1>18, <1>19 DEF Next

(* In every reachable state the fields, the preference map, the file and   *)
(* the writes in flight are well typed (what TypeOK says, for every number *)
(* of days, steps, kills and reboots).                                     *)
THEOREM TypeCorrect == Spec => []TypeOK
<1>1. ASSUME Init PROVE TypeOK
  <2>1. mem \in FieldType
    BY <1>1, FreshType DEF Init
  <2>2. saves \in Seq(Write)
    BY <1>1, EmptyLists DEF Init
  <2>3. StoreOK(cache) /\ StoreOK(disk)
    BY <1>1 DEF Init, StoreOK, Keys
  <2>4. day \in Int /\ sensor \in Nat /\ walked \in Nat
        /\ kills \in Nat /\ boots \in Nat /\ backs \in Nat
    BY <1>1, SensorAssumption DEF Init
  <2>5. /\ phase \in {"none", "loading", "asking", "listening", "denied", "stopped"}
        /\ view \in {"today", "history"}
        /\ mounted \in BOOLEAN /\ foreground \in BOOLEAN /\ lateRoll \in BOOLEAN /\ torn \in BOOLEAN
    BY <1>1 DEF Init
  <2> QED BY <2>1, <2>2, <2>3, <2>4, <2>5 DEF TypeOK
<1> QED BY <1>1, TypeStep, PTL DEF Spec

-----------------------------------------------------------------------------
(* The queue of writes: sending one and answering one keep Settled. *)

(* setX: the map takes the value and the write goes to the back. *)
LEMMA SettledSend ==
    ASSUME NEW q \in Seq(Write), NEW c, NEW d, NEW w \in Write, DOMAIN c = Keys,
           \A j \in 1 .. 5 : Settled(q, c, d, j)
    PROVE  \A j \in 1 .. 5 :
              Settled(Append(q, w), [c EXCEPT ![KeyOrder[w.k]] = w.val], d, j)
<1> DEFINE r == Append(q, w)
           e == [c EXCEPT ![KeyOrder[w.k]] = w.val]
           L == Len(q)
<1>1. /\ L \in Nat /\ DOMAIN q = 1 .. L
      /\ DOMAIN r = 1 .. (L + 1) /\ r[L + 1] = w
      /\ \A i \in 1 .. L : r[i] = q[i]
  BY AppendProperties, LenProperties
<1>2. w.k \in 1 .. 5
  BY DEF Write
<1>3. /\ e[KeyOrder[w.k]] = w.val
      /\ \A j \in 1 .. 5 : j # w.k => e[KeyOrder[j]] = c[KeyOrder[j]]
  BY <1>2 DEF KeyOrder, Keys
<1> HIDE DEF r, e, L
<1> SUFFICES ASSUME NEW j \in 1 .. 5 PROVE Settled(r, e, d, j)
  BY DEF r, e
<1>4. Settled(q, c, d, j)
  OBVIOUS
<1>5. CASE j = w.k
  <2>1. L + 1 \in DOMAIN r /\ \A i \in DOMAIN r : i # L + 1 => L + 1 > i
    BY <1>1
  <2> QED BY <1>1, <1>3, <1>5, <2>1 DEF Settled
<1>6. CASE j # w.k
  <2>1. (\A i \in DOMAIN r : r[i].k # j) => \A i \in DOMAIN q : q[i].k # j
    BY <1>1
  <2>2. ASSUME NEW i \in DOMAIN r, r[i].k = j, \A n \in DOMAIN r : n > i => r[n].k # j
        PROVE  r[i].val = c[KeyOrder[j]]
    <3>1. i \in DOMAIN q /\ q[i] = r[i]
      BY <1>1, <1>6, <2>2
    <3>2. \A n \in DOMAIN q : n > i => q[n].k # j
      BY <1>1, <2>2
    <3> QED BY <1>4, <2>2, <3>1, <3>2 DEF Settled
  <2> QED BY <1>3, <1>4, <1>6, <2>1, <2>2 DEF Settled
<1> QED BY <1>5, <1>6

(* The platform's answer: the front write is in the file. *)
LEMMA SettledAnswer ==
    ASSUME NEW q \in Seq(Write), NEW c, NEW d, DOMAIN d = Keys, q # <<>>,
           \A j \in 1 .. 5 : Settled(q, c, d, j)
    PROVE  \A j \in 1 .. 5 :
              Settled(Tail(q), c, [d EXCEPT ![KeyOrder[Head(q).k]] = Head(q).val], j)
<1> DEFINE r == Tail(q)
           w == Head(q)
           f == [d EXCEPT ![KeyOrder[w.k]] = w.val]
           L == Len(q)
<1>1. /\ L \in Nat \ {0} /\ DOMAIN q = 1 .. L /\ q[1] = w /\ w \in Write
      /\ DOMAIN r = 1 .. (L - 1)
      /\ \A i \in 1 .. (L - 1) : r[i] = q[i + 1]
  BY HeadTailProperties, LenProperties, EmptySeq
<1>2. w.k \in 1 .. 5
  BY <1>1 DEF Write
<1>3. /\ f[KeyOrder[w.k]] = w.val
      /\ \A j \in 1 .. 5 : j # w.k => f[KeyOrder[j]] = d[KeyOrder[j]]
  BY <1>2 DEF KeyOrder, Keys
<1> HIDE DEF r, f, L, w
<1> TAKE j \in 1 .. 5
<1>4. Settled(q, c, d, j)
  OBVIOUS
<1>5. ASSUME \A i \in DOMAIN r : r[i].k # j
      PROVE  f[KeyOrder[j]] = c[KeyOrder[j]]
  <2>1. \A n \in DOMAIN q : n > 1 => q[n].k # j
    <3> SUFFICES ASSUME NEW n \in DOMAIN q, n > 1 PROVE q[n].k # j
      OBVIOUS
    <3>1. n - 1 \in DOMAIN r /\ r[n - 1] = q[n]
      BY <1>1
    <3> QED BY <1>5, <3>1
  <2>2. CASE j = w.k
    BY <1>1, <1>3, <1>4, <2>1, <2>2 DEF Settled
  <2>3. CASE j # w.k
    BY <1>1, <1>3, <1>4, <2>1, <2>3 DEF Settled
  <2> QED BY <2>2, <2>3
<1>6. ASSUME NEW i \in DOMAIN r, r[i].k = j, \A n \in DOMAIN r : n > i => r[n].k # j
      PROVE  r[i].val = c[KeyOrder[j]]
  <2>1. i + 1 \in DOMAIN q /\ q[i + 1] = r[i]
    BY <1>1
  <2>2. \A n \in DOMAIN q : n > i + 1 => q[n].k # j
    <3> SUFFICES ASSUME NEW n \in DOMAIN q, n > i + 1 PROVE q[n].k # j
      OBVIOUS
    <3>1. n - 1 \in DOMAIN r /\ r[n - 1] = q[n] /\ n - 1 > i
      BY <1>1
    <3> QED BY <1>6, <3>1
  <2> QED BY <1>4, <1>6, <2>1, <2>2 DEF Settled
<1> QED BY <1>5, <1>6 DEF Settled, r, f, w

-----------------------------------------------------------------------------
(* Which keys the running saves still cover. *)

(* A value in a field is never taken for a missing key. *)
LEMMA NotAbsent ==
    ASSUME NEW m \in FieldType
    PROVE  \A key \in Keys : m[key] # Absent
<1>1. /\ m["baseline"] \in Nat /\ m["today"] \in Nat /\ m["goal"] \in Goals
      /\ m["lastDate"] \in Int /\ m["history"] \in Seq(Entry)
  BY DEF FieldType
<1>2. \A x : (x \in Nat \/ x \in Goals \/ x \in Int) => x # Absent
  <2>1. Nat \subseteq Int /\ Goals \subseteq Int
    BY GoalAssumption
  <2> QED BY <2>1, AbsentAssumption
<1> QED BY <1>1, <1>2, AbsentAssumption DEF Keys, Entry

(* A key whose stored value is the field's is restored to the field. *)
LEMMA RestoredKey ==
    ASSUME NEW m \in FieldType, NEW c, NEW key \in Keys, c[key] = m[key]
    PROVE  Restored(m, c)[key] = m[key]
BY NotAbsent DEF Restored, Stored, FieldType, Keys

(* What a key is restored to depends on its own stored value only. *)
LEMMA RestoredLocal ==
    ASSUME NEW m \in FieldType, NEW c, NEW d, NEW key \in Keys, c[key] = d[key]
    PROVE  Restored(m, c)[key] = Restored(m, d)[key]
BY DEF Restored, Stored, FieldType, Keys

(* A _saveData that starts covers every key. *)
LEMMA CoveredStart ==
    ASSUME NEW m \in FieldType, NEW q \in Seq(Write), NEW c, DOMAIN c = Keys
    PROVE  Covered(m, Append(q, FirstWrite(m)), [c EXCEPT !["baseline"] = m.baseline])
<1> DEFINE r == Append(q, FirstWrite(m))
           e == [c EXCEPT !["baseline"] = m.baseline]
<1>1. FirstWrite(m) \in Write /\ FirstWrite(m).k = 1
  BY DEF FirstWrite, FieldType, Write
<1>2. Len(q) + 1 \in DOMAIN r /\ r[Len(q) + 1].k = 1
  BY <1>1, AppendProperties, LenProperties
<1>3. Restored(m, e)[KeyOrder[1]] = m[KeyOrder[1]]
  BY RestoredKey DEF KeyOrder, Keys
<1> HIDE DEF r, e
<1>4. ASSUME NEW j \in 1 .. 5
      PROVE  \/ Restored(m, e)[KeyOrder[j]] = m[KeyOrder[j]]
             \/ \E i \in DOMAIN r : r[i].k < j
  <2>1. CASE j = 1
    BY <1>3, <2>1
  <2>2. CASE j # 1
    BY <1>2, <2>2
  <2> QED BY <2>1, <2>2
<1>5. Covered(m, r, e)
  BY <1>4 DEF Covered
<1> QED BY <1>5 DEF r, e

(* Freshly loaded fields agree with the map on every key. *)
LEMMA CoveredLoad ==
    ASSUME NEW m \in FieldType, NEW q, NEW c, StoreOK(c)
    PROVE  Covered(Restored(m, c), q, c)
<1> DEFINE n == Restored(m, c)
<1>1. \A key \in Keys : Restored(n, c)[key] = n[key]
  BY DEF Restored, Stored, Keys, FieldType
<1> HIDE DEF n
<1>2. \A j \in 1 .. 5 : KeyOrder[j] \in Keys
  BY DEF KeyOrder, Keys
<1>3. Covered(n, q, c)
  BY <1>1, <1>2 DEF Covered
<1> QED BY <1>3 DEF n

(* The answer to a write moves one save on by one key. *)
LEMMA CoveredReply ==
    ASSUME TypeOK, SaveReply, Covered(mem, saves, cache)
    PROVE  Covered(mem, saves', cache')
<1> DEFINE w == Head(saves)
           L == Len(saves)
           nxt == KeyOrder[w.k + 1]
<1>1. /\ L \in Nat \ {0} /\ DOMAIN saves = 1 .. L /\ saves[1] = w /\ w \in Write
      /\ Tail(saves) \in Seq(Write) /\ Len(Tail(saves)) = L - 1
      /\ \A i \in 1 .. (L - 1) : Tail(saves)[i] = saves[i + 1]
  BY HeadTailProperties, LenProperties, EmptySeq DEF TypeOK, SaveReply
<1>2. w.k \in 1 .. 5
  BY <1>1 DEF Write
<1>3. mem \in FieldType /\ DOMAIN cache = Keys
  BY DEF TypeOK, StoreOK
<1> SUFFICES ASSUME NEW j \in 1 .. 5
             PROVE  \/ Restored(mem, cache')[KeyOrder[j]] = mem[KeyOrder[j]]
                    \/ \E i \in DOMAIN saves' : saves'[i].k < j
  BY DEF Covered
<1>4. \/ Restored(mem, cache)[KeyOrder[j]] = mem[KeyOrder[j]]
      \/ \E i \in DOMAIN saves : saves[i].k < j
  BY DEF Covered
<1>5. CASE w.k < 5
  <2> DEFINE u == [k |-> w.k + 1, val |-> mem[nxt]]
  <2>1. saves' = Append(Tail(saves), u) /\ cache' = [cache EXCEPT ![nxt] = mem[nxt]]
    BY <1>5 DEF SaveReply
  <2>2. u \in Write
    BY <1>2, <1>3, <1>5, NextWriteType
  <2>3. u.k = w.k + 1
    OBVIOUS
  <2> HIDE DEF u
  <2>4. /\ DOMAIN saves' = 1 .. L /\ saves'[L] = u
        /\ \A i \in 1 .. (L - 1) : saves'[i] = saves[i + 1]
    BY <1>1, <2>1, <2>2, AppendProperties, LenProperties
  <2>5. CASE j > w.k + 1
    BY <1>1, <2>3, <2>4, <2>5
  <2>6. CASE j = w.k + 1
    <3>1. nxt \in Keys /\ cache'[nxt] = mem[nxt]
      BY <1>2, <1>3, <1>5, <2>1 DEF KeyOrder, Keys
    <3>2. Restored(mem, cache')[nxt] = mem[nxt]
      BY <1>3, <3>1, RestoredKey
    <3> QED BY <2>6, <3>2
  <2>7. CASE j < w.k + 1
    <3>1. ASSUME NEW i \in DOMAIN saves, saves[i].k < j
          PROVE  \E n \in DOMAIN saves' : saves'[n].k < j
      <4>1. i # 1
        BY <1>1, <1>2, <2>7, <3>1
      <4>2. i - 1 \in DOMAIN saves' /\ saves'[i - 1] = saves[i]
        BY <1>1, <2>4, <4>1
      <4> QED BY <3>1, <4>2
    <3>2. Restored(mem, cache')[KeyOrder[j]] = Restored(mem, cache)[KeyOrder[j]]
      <4>1. KeyOrder[j] \in Keys /\ KeyOrder[j] # nxt
        BY <1>2, <1>5, <2>7 DEF KeyOrder, Keys
      <4>2. cache'[KeyOrder[j]] = cache[KeyOrder[j]]
        BY <1>3, <2>1, <4>1
      <4> QED BY <1>3, <4>1, <4>2, RestoredLocal
    <3> QED BY <1>4, <3>1, <3>2
  <2> QED BY <1>2, <2>5, <2>6, <2>7
<1>6. CASE w.k = 5
  <2>1. saves' = Tail(saves) /\ cache' = cache
    BY <1>6 DEF SaveReply
  <2>2. ASSUME NEW i \in DOMAIN saves, saves[i].k < j
        PROVE  \E n \in DOMAIN saves' : saves'[n].k < j
    <3>1. i # 1
      BY <1>1, <1>6, <2>2
    <3>2. i - 1 \in DOMAIN saves' /\ saves'[i - 1] = saves[i]
      BY <1>1, <2>1, <3>1, LenProperties
    <3> QED BY <2>2, <3>2
  <2> QED BY <1>4, <2>1, <2>2
<1> QED BY <1>2, <1>5, <1>6

-----------------------------------------------------------------------------
(* The handlers' effects on both halves of SavesCatchUp. *)

AllSettled(q, c, d) == \A j \in 1 .. 5 : Settled(q, c, d, j)

(* Starting a _saveData keeps the queue settled. *)
LEMMA SettledStart ==
    ASSUME NEW m \in FieldType, NEW q \in Seq(Write), NEW c, NEW d, DOMAIN c = Keys,
           AllSettled(q, c, d)
    PROVE  AllSettled(Append(q, FirstWrite(m)), [c EXCEPT !["baseline"] = m.baseline], d)
<1> DEFINE w == FirstWrite(m)
<1>1. w \in Write /\ KeyOrder[w.k] = "baseline" /\ w.val = m.baseline
  BY DEF FirstWrite, FieldType, Write, KeyOrder
<1> HIDE DEF w
<1>2. \A j \in 1 .. 5 : Settled(Append(q, w), [c EXCEPT ![KeyOrder[w.k]] = w.val], d, j)
  BY <1>1, SettledSend DEF AllSettled
<1> QED BY <1>1, <1>2 DEF AllSettled, w

(* _saveData, called by a handler that has set the fields to m. *)
LEMMA SaveDataCatchUp ==
    ASSUME TypeOK, SavesCatchUp, NEW m \in FieldType, SaveData(m)
    PROVE  /\ phase # "loading" => Covered(mem', saves', cache')
           /\ AllSettled(saves', cache', disk)
<1>1. saves \in Seq(Write) /\ DOMAIN cache = Keys /\ AllSettled(saves, cache, disk)
  BY DEF TypeOK, StoreOK, SavesCatchUp, AllSettled
<1>2. CASE phase = "loading"
  BY <1>1, <1>2 DEF SaveData, prefs
<1>3. CASE phase # "loading"
  <2>1. mem' = m /\ saves' = Append(saves, FirstWrite(m))
        /\ cache' = [cache EXCEPT !["baseline"] = m.baseline]
    BY <1>3 DEF SaveData
  <2> QED BY <1>1, <2>1, CoveredStart, SettledStart
<1> QED BY <1>2, <1>3

(* _saveTodaySteps. *)
LEMMA SaveTodayCatchUp ==
    ASSUME TypeOK, SavesCatchUp, SaveTodaySteps, mounted
    PROVE  /\ phase # "loading" => Covered(mem', saves', cache')
           /\ AllSettled(saves', cache', disk)
<1>1. CASE mem.today > 0
  <2>1. Banked(mem) \in FieldType
    BY BankedType DEF TypeOK
  <2> QED BY <1>1, <2>1, SaveDataCatchUp DEF SaveTodaySteps
<1>2. CASE ~(mem.today > 0)
  BY <1>2 DEF SaveTodaySteps, prefs, SavesCatchUp, AllSettled
<1> QED BY <1>1, <1>2

(* _checkDateChange on fields m. *)
LEMMA CheckDateCatchUp ==
    ASSUME TypeOK, SavesCatchUp, NEW m \in FieldType, NEW ready, CheckDateChange(m, ready),
           ready /\ mounted => Covered(m, saves, cache)
    PROVE  /\ ready /\ mounted => Covered(mem', saves', cache')
           /\ AllSettled(saves', cache', disk)
<1> DEFINE banked == Banked(m)
           reset == NewDayReset(banked, day)
           saved == IF m.today > 0 THEN Append(saves, FirstWrite(banked)) ELSE saves
           noted == IF m.today > 0 THEN [cache EXCEPT !["baseline"] = m.baseline] ELSE cache
<1>1. saves \in Seq(Write) /\ DOMAIN cache = Keys /\ AllSettled(saves, cache, disk)
  BY DEF TypeOK, StoreOK, SavesCatchUp, AllSettled
<1>2. banked \in FieldType /\ reset \in FieldType /\ banked.baseline = m.baseline
  <2>1. banked \in FieldType /\ reset \in FieldType
    BY BankedType, NewDayResetType DEF TypeOK
  <2>2. banked.baseline = m.baseline
    BY DEF Banked, FieldType
  <2> QED BY <2>1, <2>2
<1> HIDE DEF banked, reset
<1>3. saved \in Seq(Write) /\ DOMAIN noted = Keys /\ AllSettled(saved, noted, disk)
  <2>1. FirstWrite(banked) \in Write
    BY <1>2 DEF FirstWrite, FieldType, Write
  <2>2. saved \in Seq(Write)
    <3>1. Append(saves, FirstWrite(banked)) \in Seq(Write)
      BY <1>1, <2>1, AppendProperties
    <3> QED BY <1>1, <3>1, Zenon
  <2>3. DOMAIN noted = Keys
    BY <1>1
  <2>4. AllSettled(saved, noted, disk)
    <3>1. CASE m.today > 0
      <4>1. AllSettled(Append(saves, FirstWrite(banked)),
                       [cache EXCEPT !["baseline"] = banked.baseline], disk)
        BY <1>1, <1>2, SettledStart
      <4> QED BY <1>2, <3>1, <4>1
    <3>2. CASE ~(m.today > 0)
      BY <1>1, <3>2
    <3> QED BY <3>1, <3>2
  <2> QED BY <2>2, <2>3, <2>4
<1>4. [noted EXCEPT !["baseline"] = reset.baseline] = [cache EXCEPT !["baseline"] = reset.baseline]
  BY <1>1
<1> HIDE DEF saved, noted
<1>5. /\ Covered(reset, Append(saved, FirstWrite(reset)), [cache EXCEPT !["baseline"] = reset.baseline])
      /\ AllSettled(Append(saved, FirstWrite(reset)), [cache EXCEPT !["baseline"] = reset.baseline], disk)
  <2>1. Covered(reset, Append(saved, FirstWrite(reset)), [noted EXCEPT !["baseline"] = reset.baseline])
    BY <1>2, <1>3, CoveredStart
  <2>2. AllSettled(Append(saved, FirstWrite(reset)), [noted EXCEPT !["baseline"] = reset.baseline], disk)
    BY <1>2, <1>3, SettledStart
  <2> QED BY <1>4, <2>1, <2>2
<1>6. \/ mem' = m /\ saves' = saves /\ cache' = cache
      \/ ~ready /\ saves' = saves /\ cache' = cache
      \/ /\ mem' = reset
         /\ saves' = Append(saved, FirstWrite(reset))
         /\ cache' = [cache EXCEPT !["baseline"] = reset.baseline]
      \/ ~mounted /\ saves' = saved /\ cache' = noted
  BY DEF CheckDateChange, prefs, banked, reset, saved, noted
<1> QED BY <1>1, <1>3, <1>5, <1>6

(* SaveReply on the queue. *)
LEMMA SettledReply ==
    ASSUME TypeOK, SavesCatchUp, SaveReply
    PROVE  AllSettled(saves', cache', disk')
<1> DEFINE w == Head(saves)
           nxt == KeyOrder[w.k + 1]
           u == [k |-> w.k + 1, val |-> mem[nxt]]
<1>1. /\ saves \in Seq(Write) /\ DOMAIN cache = Keys /\ DOMAIN disk = Keys
      /\ AllSettled(saves, cache, disk) /\ saves # <<>>
  BY DEF TypeOK, StoreOK, SavesCatchUp, AllSettled, SaveReply
<1>2. w \in Write /\ Tail(saves) \in Seq(Write)
  BY <1>1, HeadTailProperties
<1>3. AllSettled(Tail(saves), cache, disk')
  <2>1. disk' = [disk EXCEPT ![KeyOrder[Head(saves).k]] = Head(saves).val]
    BY DEF SaveReply
  <2> QED BY <1>1, <2>1, SettledAnswer DEF AllSettled
<1> HIDE DEF w
<1>4. w.k \in 1 .. 5
  BY <1>2 DEF Write
<1>5. CASE w.k < 5
  <2>1. u \in Write
    BY <1>4, <1>5, NextWriteType DEF TypeOK
  <2>2. saves' = Append(Tail(saves), u) /\ cache' = [cache EXCEPT ![KeyOrder[u.k]] = u.val]
    BY <1>5 DEF SaveReply, w
  <2> HIDE DEF u
  <2> QED BY <1>1, <1>2, <1>3, <2>1, <2>2, SettledSend DEF AllSettled
<1>6. CASE ~(w.k < 5)
  <2>1. saves' = Tail(saves) /\ cache' = cache
    BY <1>6 DEF SaveReply, w
  <2> QED BY <1>3, <2>1
<1> QED BY <1>5, <1>6

(* Every step keeps SavesCatchUp. *)
LEMMA CatchUpStep == TypeOK /\ SavesCatchUp /\ [Next]_vars => SavesCatchUp'
<1> SUFFICES ASSUME TypeOK, SavesCatchUp, [Next]_vars PROVE SavesCatchUp'
  OBVIOUS
<1> SUFFICES /\ mounted' /\ phase' # "loading" => Covered(mem', saves', cache')
             /\ AllSettled(saves', cache', disk')
  BY DEF SavesCatchUp, AllSettled
<1>0. /\ mounted /\ phase # "loading" => Covered(mem, saves, cache)
      /\ AllSettled(saves, cache, disk)
      /\ mem \in FieldType /\ StoreOK(cache)
  BY DEF SavesCatchUp, AllSettled, TypeOK
<1> USE DEF env, page, bounds, aux
<1>1. CASE Open
  BY <1>0, <1>1 DEF Open, prefs
<1>2. CASE Load
  <2> DEFINE m == Restored(mem, cache)
  <2>1. m \in FieldType
    BY <1>0, RestoredType
  <2>2. Covered(m, saves, cache)
    BY <1>0, CoveredLoad
  <2> HIDE DEF m
  <2>3. CheckDateChange(m, TRUE) /\ mounted' = mounted /\ disk' = disk
    BY <1>2 DEF Load, m
  <2>4. (mounted => Covered(mem', saves', cache')) /\ AllSettled(saves', cache', disk)
    BY <2>1, <2>2, <2>3, CheckDateCatchUp
  <2> QED BY <2>3, <2>4
<1>3. CASE Permission
  BY <1>0, <1>3 DEF Permission, prefs
<1>4. CASE StreamDone
  BY <1>0, <1>4 DEF StreamDone, prefs
<1>5. CASE StepEvent
  <2>1. Counted(mem, sensor) \in FieldType
    BY <1>0, CountedType DEF TypeOK
  <2>2. CASE mounted
    BY <1>5, <2>1, <2>2, SaveDataCatchUp DEF StepEvent
  <2>3. CASE ~mounted
    BY <1>0, <1>5, <2>3 DEF StepEvent, prefs
  <2> QED BY <2>2, <2>3
<1>6. CASE Pause
  BY <1>6, SaveTodayCatchUp DEF Pause
<1>7. CASE Resume
  <2>1. CheckDateChange(mem, phase # "loading") /\ phase' = phase /\ disk' = disk
    BY <1>7 DEF Resume
  <2> QED BY <1>0, <2>1, CheckDateCatchUp, <1>7 DEF Resume
<1>8. CASE Dispose
  BY <1>8, SaveTodayCatchUp DEF Dispose
<1>9. CASE ResetTodaySteps
  <2>1. [mem EXCEPT !.baseline = mem.total, !.today = 0] \in FieldType
    BY <1>0 DEF FieldType
  <2> QED BY <1>9, <2>1, SaveDataCatchUp DEF ResetTodaySteps
<1>10. CASE ResetAllHistory
  <2>1. [mem EXCEPT !.history = <<>>, !.today = 0, !.baseline = mem.total] \in FieldType
    BY <1>0, EmptyLists DEF FieldType
  <2> QED BY <1>10, <2>1, SaveDataCatchUp DEF ResetAllHistory
<1>11. ASSUME NEW g \in Goals, SetGoal(g)
       PROVE  /\ mounted' /\ phase' # "loading" => Covered(mem', saves', cache')
              /\ AllSettled(saves', cache', disk')
  <2>1. [mem EXCEPT !.goal = g] \in FieldType
    BY <1>0 DEF FieldType
  <2> QED BY <1>11, <2>1, SaveDataCatchUp DEF SetGoal
<1>12. ASSUME NEW v \in {"today", "history"}, SelectView(v)
       PROVE  /\ mounted' /\ phase' # "loading" => Covered(mem', saves', cache')
              /\ AllSettled(saves', cache', disk')
  BY <1>0, <1>12 DEF SelectView, prefs
<1>13. CASE SaveReply
  <2>1. AllSettled(saves', cache', disk')
    BY <1>13, SettledReply
  <2>2. mounted /\ phase # "loading" => Covered(mem, saves', cache')
    BY <1>0, <1>13, CoveredReply
  <2> QED BY <1>13, <2>1, <2>2 DEF SaveReply
<1>14. CASE Walk \/ Midnight \/ ClockBack
  BY <1>0, <1>14 DEF Walk, Midnight, ClockBack, prefs
<1>15. CASE Kill \/ Reboot
  <2>1. mounted' = FALSE /\ saves' = <<>> /\ cache' = disk /\ disk' = disk
    BY <1>15 DEF Kill, Reboot, ProcessEnds
  <2> QED BY <2>1 DEF AllSettled, Settled
<1>16. CASE UNCHANGED vars
  BY <1>0, <1>16 DEF vars, prefs
<1> QED
  BY <1>1, <1>2, <1>3, <1>4, <1>5, <1>6, <1>7, <1>8, <1>9, <1>10, <1>11, <1>12,
     <1>13, <1>14, <1>15, <1>16 DEF Next

(* The file is never behind the page by more than the running saves will   *)
(* make up (SavesCatchUp): an inductive invariant.                         *)
THEOREM CatchUp == Spec => []SavesCatchUp
<1>1. Init => SavesCatchUp
  BY DEF Init, SavesCatchUp, Settled
<1> QED BY <1>1, CatchUpStep, TypeCorrect, PTL DEF Spec

(* Whenever no save is running, the preferences file holds exactly what an *)
(* initialised page holds: overlapping _saveData calls never leave an      *)
(* older value behind, for any number of them.                             *)
THEOREM ReloadAgreement == Spec => []ReloadAgrees
<1>1. ASSUME TypeOK, SavesCatchUp PROVE ReloadAgrees
  <2> SUFFICES ASSUME mounted, phase # "loading", saves = <<>>, NEW key \in Keys
               PROVE  Restored(mem, disk)[key] = mem[key]
    BY DEF ReloadAgrees
  <2>1. PICK j \in 1 .. 5 : KeyOrder[j] = key
    BY DEF KeyOrder, Keys
  <2>2. DOMAIN saves = {}
    OBVIOUS
  <2>3. Restored(mem, cache)[key] = mem[key]
    BY <1>1, <2>1, <2>2 DEF SavesCatchUp, Covered
  <2>4. disk[key] = cache[key]
    BY <1>1, <2>1, <2>2 DEF SavesCatchUp, Settled
  <2> QED BY <1>1, <2>3, <2>4, RestoredLocal DEF TypeOK
<1> QED BY <1>1, TypeCorrect, CatchUp, PTL
-----------------------------------------------------------------------------
(* The histories: in memory, in the file and on their way to it. *)

Histories ==
    {mem.history} \cup ({disk["history"]} \ {Absent})
    \cup {saves[i].val : i \in {j \in DOMAIN saves : saves[j].k = 5}}

(* One entry per date, within the limit. *)
Once(h) ==
    /\ \A i, j \in DOMAIN h : h[i].date = h[j].date => i = j
    /\ Len(h) <= HistoryLimit

(* A page that is not open or still loading has no save running and has    *)
(* neither a history nor a count of its own.                               *)
Quiet ==
    /\ phase \in {"none", "loading"} => saves = <<>> /\ mem.history = <<>> /\ mem.today = 0
    /\ phase = "none" => ~mounted

OnceInv == Quiet /\ \A h \in Histories : Once(h)

(* The dates on their way to the file: the writes of lastDate are sent in  *)
(* the order of the dates, none is behind the file's or ahead of the       *)
(* page's date, and a history is stored after some date.                   *)
DatesFlow ==
    /\ 1 <= mem.lastDate /\ mem.lastDate <= day
    /\ disk["lastDate"] # Absent =>
          /\ 1 <= disk["lastDate"] /\ disk["lastDate"] <= day
          /\ phase # "none" => disk["lastDate"] <= mem.lastDate
    /\ \A i \in DOMAIN saves : saves[i].k = 4 =>
          /\ 1 <= saves[i].val /\ saves[i].val <= mem.lastDate
          /\ disk["lastDate"] # Absent => disk["lastDate"] <= saves[i].val
          /\ \A j \in DOMAIN saves : i < j /\ saves[j].k = 4 => saves[i].val <= saves[j].val

Dated ==
    disk["history"] # Absent \/ (\E i \in DOMAIN saves : saves[i].k = 5)
        => disk["lastDate"] # Absent

(* The file is behind date e, or a write under way would put it there; and *)
(* the saves that have still to store a date not before e.                 *)
Behind(q, d, e) ==
    \/ d["lastDate"] # Absent /\ d["lastDate"] < e
    \/ \E i \in DOMAIN q : q[i].k = 4 /\ q[i].val < e

Ahead(q, e) == {i \in DOMAIN q : q[i].k <= 3 \/ (q[i].k = 4 /\ q[i].val >= e)}

Two(S) == \E i, j \in S : i # j
Three(S) == \E i, j, l \in S : i # j /\ i # l /\ j # l

(* When the file is behind the page's date, the save of the date change is *)
(* still running, and with a count so is the save of a step event after    *)
(* it.  When it is behind an entry of a history, so is the save that       *)
(* banked the entry: three saves.                                          *)
PageAhead ==
    mounted /\ phase # "loading" /\ Behind(saves, disk, mem.lastDate) =>
        /\ Ahead(saves, mem.lastDate) # {}
        /\ mem.today > 0 => Two(Ahead(saves, mem.lastDate))

EntriesAhead ==
    \A h \in Histories : \A i \in DOMAIN h :
        /\ phase # "none" => h[i].date <= mem.lastDate
        /\ Behind(saves, disk, h[i].date) => Three(Ahead(saves, h[i].date))

OrderInv ==
    /\ Quiet /\ Dated
    /\ backs = 0 => DatesFlow
    /\ backs = 0 /\ ~torn =>
          /\ \A h \in Histories : StrictlyNewestFirst(h)
          /\ PageAhead /\ EntriesAhead
-----------------------------------------------------------------------------
(* What _saveTodaySteps does to a history. *)

(* A set of natural numbers has a smallest element. *)
LEMMA SmallestOf ==
  ASSUME NEW T \in SUBSET Nat, T # {}
  PROVE  \E n \in T : \A m \in T : n <= m
<1>1. PICK n \in T : \A m \in T : ~(<<m, n>> \in OpToRel(<, Nat))
  BY WFMin, NatLessThanWellFounded, Zenon
<1>2. ASSUME NEW m \in T, m < n PROVE FALSE
  <2>1. <<m, n>> \in OpToRel(<, Nat)
    BY <1>2 DEF OpToRel
  <2> QED BY <1>1, <2>1
<1> QED BY <1>2

(* The two outcomes: the dates stay (some dropped from the end), or the    *)
(* entry, of a date not there yet, is in front of the others.              *)
DatesKept(h, r) ==
    \A i \in DOMAIN r : i \in DOMAIN h /\ r[i].date = h[i].date

PutInFront(h, e, r) ==
    /\ \A i \in DOMAIN h : h[i].date # e.date
    /\ \A i \in DOMAIN r : \/ i = 1 /\ r[i].date = e.date
                           \/ i > 1 /\ i - 1 \in DOMAIN h /\ r[i].date = h[i - 1].date

(* WithEntry has one of the two, within the limit. *)
LEMMA WithEntryDates ==
  ASSUME NEW h \in Seq(Entry), NEW e \in Entry
  PROVE  LET r == WithEntry(h, e)
         IN  Len(r) <= HistoryLimit /\ (DatesKept(h, r) \/ PutInFront(h, e, r))
<1> DEFINE same == EntriesOf(h, e.date)
           first == CHOOSE i \in same : \A j \in same : i <= j
           longer == IF same = {} THEN <<e>> \o h ELSE [h EXCEPT ![first] = e]
           r == WithEntry(h, e)
<1>1. HistoryLimit \in Nat \ {0} /\ Len(h) \in Nat /\ DOMAIN h = 1 .. Len(h)
  BY HistoryAssumption, LenProperties
<1>2. /\ longer \in Seq(Entry)
      /\ DatesKept(h, longer) \/ PutInFront(h, e, longer)
  <2>1. CASE same = {}
    <3> DEFINE l == <<e>> \o h
    <3>1. \A i \in DOMAIN h : h[i].date # e.date
      BY <2>1 DEF EntriesOf
    <3>2. l \in Seq(Entry) /\ Len(l) = 1 + Len(h)
      OBVIOUS
    <3>3. \A i \in 1 .. Len(l) : IF i = 1 THEN l[i] = e ELSE l[i] = h[i - 1]
      BY <1>1
    <3> HIDE DEF l
    <3>4. DOMAIN l = 1 .. (1 + Len(h))
      BY <3>2, LenProperties
    <3>5. PutInFront(h, e, l)
      BY <1>1, <3>1, <3>2, <3>3, <3>4 DEF PutInFront
    <3> QED BY <2>1, <3>2, <3>5 DEF l
  <2>2. CASE same # {}
    <3>1. same \in SUBSET Nat
      BY <1>1 DEF EntriesOf
    <3>2. \E i \in same : \A j \in same : i <= j
      BY <2>2, <3>1, SmallestOf
    <3>3. first \in same
      BY <3>2
    <3> HIDE DEF first
    <3>4. first \in 1 .. Len(h) /\ h[first].date = e.date
      BY <1>1, <3>3 DEF EntriesOf
    <3> DEFINE l == [h EXCEPT ![first] = e]
    <3>5. l \in Seq(Entry)
      BY <3>4, ExceptSeq, Zenon
    <3>6. DatesKept(h, l)
      BY <1>1, <3>4 DEF DatesKept
    <3> QED BY <2>2, <3>5, <3>6
  <2> QED BY <2>1, <2>2
<1>3. r = IF Len(longer) > HistoryLimit THEN SubSeq(longer, 1, HistoryLimit) ELSE longer
  BY DEF WithEntry
<1> HIDE DEF longer, r
<1>4. Len(r) <= HistoryLimit /\ \A i \in DOMAIN r : i \in DOMAIN longer /\ r[i] = longer[i]
  <2>1. Len(longer) \in Nat /\ DOMAIN longer = 1 .. Len(longer)
    BY <1>2, LenProperties
  <2>2. CASE Len(longer) > HistoryLimit
    <3>1. /\ Len(r) = HistoryLimit /\ DOMAIN r = 1 .. HistoryLimit
          /\ \A i \in 1 .. HistoryLimit : r[i] = longer[i]
      BY <1>1, <1>2, <1>3, <2>1, <2>2
    <3> QED BY <1>1, <2>1, <2>2, <3>1
  <2>3. CASE ~(Len(longer) > HistoryLimit)
    BY <1>1, <1>3, <2>1, <2>3
  <2> QED BY <2>2, <2>3
<1>5. DatesKept(h, r) \/ PutInFront(h, e, r)
  <2>1. CASE DatesKept(h, longer)
    BY <1>4, <2>1 DEF DatesKept
  <2>2. CASE PutInFront(h, e, longer)
    BY <1>4, <2>2 DEF PutInFront
  <2> QED BY <1>2, <2>1, <2>2
<1> QED BY <1>4, <1>5 DEF r

(* It keeps one entry per date. *)
LEMMA WithEntryOnce ==
  ASSUME NEW h \in Seq(Entry), NEW e \in Entry, Once(h)
  PROVE  Once(WithEntry(h, e))
<1> DEFINE r == WithEntry(h, e)
<1>1. Len(r) <= HistoryLimit /\ (DatesKept(h, r) \/ PutInFront(h, e, r))
  BY WithEntryDates
<1>2. r \in Seq(Entry)
  BY WithEntryType
<1> HIDE DEF r
<1>3. DOMAIN r \subseteq Nat /\ DOMAIN h \subseteq Nat
  BY <1>2, LenProperties
<1>4. CASE DatesKept(h, r)
  BY <1>1, <1>4 DEF DatesKept, Once, r
<1>5. CASE PutInFront(h, e, r)
  <2> SUFFICES ASSUME NEW i \in DOMAIN r, NEW j \in DOMAIN r, r[i].date = r[j].date
               PROVE  i = j
    BY <1>1 DEF Once, r
  <2>1. \A n \in DOMAIN r : (n = 1 /\ r[n].date = e.date)
                \/ (n > 1 /\ n - 1 \in DOMAIN h /\ r[n].date = h[n - 1].date)
    BY <1>5 DEF PutInFront
  <2>2. CASE i = 1 \/ j = 1
    BY <1>3, <1>5, <2>1, <2>2 DEF PutInFront
  <2>3. CASE i # 1 /\ j # 1
    <3>1. i - 1 \in DOMAIN h /\ j - 1 \in DOMAIN h /\ h[i - 1].date = h[j - 1].date
      BY <2>1, <2>3
    <3>2. i - 1 = j - 1
      BY <3>1 DEF Once
    <3> QED BY <1>3, <3>2
  <2> QED BY <2>2, <2>3
<1> QED BY <1>1, <1>4, <1>5

(* It keeps the order, if no entry is ahead of the new one's date. *)
LEMMA WithEntryOrdered ==
  ASSUME NEW h \in Seq(Entry), NEW e \in Entry,
         StrictlyNewestFirst(h), DatesUpTo(h, e.date)
  PROVE  /\ StrictlyNewestFirst(WithEntry(h, e))
         /\ \A i \in DOMAIN WithEntry(h, e) :
               \/ WithEntry(h, e)[i].date = e.date
               \/ \E j \in DOMAIN h : WithEntry(h, e)[i].date = h[j].date
<1> DEFINE r == WithEntry(h, e)
<1>1. DatesKept(h, r) \/ PutInFront(h, e, r)
  BY WithEntryDates
<1>2. r \in Seq(Entry)
  BY WithEntryType
<1> HIDE DEF r
<1>3. DOMAIN r \subseteq Nat /\ DOMAIN h \subseteq Nat
  BY <1>2, LenProperties
<1>4. (\A i \in DOMAIN h : h[i].date \in Int) /\ e.date \in Int
  <2>1. \A i \in DOMAIN h : h[i] \in Entry
    BY LenProperties, ElementOfSeq
  <2> QED BY <2>1 DEF Entry
<1>5. \A i \in DOMAIN r : r[i].date = e.date \/ \E j \in DOMAIN h : r[i].date = h[j].date
  BY <1>1 DEF DatesKept, PutInFront
<1>6. CASE DatesKept(h, r)
  <2>1. StrictlyNewestFirst(r)
    BY <1>6 DEF DatesKept, StrictlyNewestFirst
  <2> QED BY <1>5, <2>1 DEF r
<1>7. CASE PutInFront(h, e, r)
  <2>1. ASSUME NEW i \in DOMAIN r, NEW j \in DOMAIN r, i < j
        PROVE  r[i].date > r[j].date
    <3>1. j > 1 /\ j - 1 \in DOMAIN h /\ r[j].date = h[j - 1].date
      BY <1>3, <1>7, <2>1 DEF PutInFront
    <3>2. CASE i = 1
      <4>1. r[i].date = e.date
        BY <1>7, <3>2 DEF PutInFront
      <4>2. h[j - 1].date <= e.date /\ h[j - 1].date # e.date
        BY <1>7, <3>1 DEF PutInFront, DatesUpTo
      <4> QED BY <1>4, <3>1, <4>1, <4>2
    <3>3. CASE i # 1
      <4>1. i - 1 \in DOMAIN h /\ r[i].date = h[i - 1].date
        BY <1>7, <3>3 DEF PutInFront
      <4>2. i - 1 < j - 1
        BY <1>3, <2>1
      <4> QED BY <3>1, <4>1, <4>2 DEF StrictlyNewestFirst
    <3> QED BY <3>2, <3>3
  <2>2. StrictlyNewestFirst(r)
    BY <2>1 DEF StrictlyNewestFirst
  <2> QED BY <1>5, <2>2 DEF r
<1> QED BY <1>1, <1>6, <1>7
-----------------------------------------------------------------------------
(* What a step does to the saves, to the file and to the page's history.   *)

(* Queue r is q with first writes of new saves at its end. *)
Extended(q, r) ==
    /\ r \in Seq(Write) /\ DOMAIN q \subseteq DOMAIN r
    /\ \A i \in DOMAIN q : r[i] = q[i]
    /\ \A i \in DOMAIN r : i \notin DOMAIN q => r[i].k = 1

(* At least one save is new. *)
Longer(q, r) == Extended(q, r) /\ \E i \in DOMAIN r : i \notin DOMAIN q

(* A first write at the end of an extended queue extends it. *)
LEMMA ExtendedAppend ==
  ASSUME NEW q \in Seq(Write), NEW r, Extended(q, r), NEW m \in FieldType
  PROVE  Longer(q, Append(r, FirstWrite(m)))
<1> DEFINE w == FirstWrite(m)
           s == Append(r, w)
<1>1. w \in Write /\ w.k = 1
  BY DEF FirstWrite, FieldType, Write
<1> HIDE DEF w
<1>2. r \in Seq(Write) /\ Len(r) \in Nat /\ DOMAIN r = 1 .. Len(r)
  BY LenProperties DEF Extended
<1>3. /\ s \in Seq(Write) /\ DOMAIN s = 1 .. (Len(r) + 1) /\ s[Len(r) + 1] = w
      /\ \A i \in 1 .. Len(r) : s[i] = r[i]
  BY <1>1, <1>2, AppendProperties, LenProperties
<1> HIDE DEF s
<1>4. Len(r) + 1 \notin DOMAIN r /\ Len(r) + 1 \in DOMAIN s /\ DOMAIN r \subseteq DOMAIN s
  BY <1>2, <1>3
<1>5. \A i \in DOMAIN s : i \in DOMAIN r \/ i = Len(r) + 1
  BY <1>2, <1>3
<1>6. DOMAIN q \subseteq DOMAIN s /\ \A i \in DOMAIN q : s[i] = q[i]
  BY <1>2, <1>3, <1>4 DEF Extended
<1>7. \A i \in DOMAIN s : i \notin DOMAIN q => s[i].k = 1
  BY <1>1, <1>2, <1>3, <1>5 DEF Extended
<1>8. Len(r) + 1 \notin DOMAIN q
  BY <1>4 DEF Extended
<1>9. Longer(q, s)
  BY <1>3, <1>4, <1>6, <1>7, <1>8 DEF Longer, Extended
<1> QED BY <1>9 DEF s, w

(* A queue extends itself. *)
LEMMA ExtendedSelf == ASSUME NEW q \in Seq(Write) PROVE Extended(q, q)
BY DEF Extended

(* _saveTodaySteps changes the history only, and only with a count. *)
LEMMA BankedFields ==
  ASSUME NEW m \in FieldType
  PROVE  /\ Banked(m).lastDate = m.lastDate /\ Banked(m).today = m.today
         /\ m.today > 0 => Banked(m).history = WithEntry(m.history, TodayEntry(m))
         /\ ~(m.today > 0) => Banked(m).history = m.history
BY DEF Banked, FieldType

(* _resetForNewDay sets the date and clears the count. *)
LEMMA ResetFields ==
  ASSUME NEW m \in FieldType, NEW d
  PROVE  /\ NewDayReset(m, d).lastDate = d /\ NewDayReset(m, d).today = 0
         /\ NewDayReset(m, d).history = m.history
BY DEF NewDayReset, FieldType

(* The effect of a save on the queue. *)
LEMMA SaveDataEffect ==
  ASSUME TypeOK, NEW m \in FieldType, SaveData(m)
  PROVE  /\ mem' = m
         /\ phase = "loading" => saves' = saves
         /\ phase # "loading" => Longer(saves, saves')
<1>1. saves \in Seq(Write) /\ Extended(saves, saves)
  BY ExtendedSelf DEF TypeOK
<1>2. CASE phase = "loading"
  BY <1>2 DEF SaveData, prefs
<1>3. CASE phase # "loading"
  <2>1. mem' = m /\ saves' = Append(saves, FirstWrite(m))
    BY <1>3 DEF SaveData
  <2> QED BY <1>1, <1>3, <2>1, ExtendedAppend
<1> QED BY <1>2, <1>3

(* The effect of _saveTodaySteps. *)
LEMMA SaveTodayEffect ==
  ASSUME TypeOK, SaveTodaySteps
  PROVE  /\ mem.today > 0 =>
              /\ mem' = Banked(mem)
              /\ phase = "loading" => saves' = saves
              /\ phase # "loading" => Longer(saves, saves')
         /\ ~(mem.today > 0) => mem' = mem /\ saves' = saves
<1>1. CASE mem.today > 0
  <2>1. Banked(mem) \in FieldType
    BY BankedType DEF TypeOK
  <2> QED BY <1>1, <2>1, SaveDataEffect DEF SaveTodaySteps
<1>2. CASE ~(mem.today > 0)
  BY <1>2 DEF SaveTodaySteps, prefs
<1> QED BY <1>1, <1>2

(* The effect of _checkDateChange: nothing on the same date; else the day  *)
(* is banked and the fields are reset, each with its save.                 *)
LEMMA CheckDateEffect ==
  ASSUME TypeOK, NEW m \in FieldType, NEW ready \in BOOLEAN, CheckDateChange(m, ready)
  PROVE  \/ m.lastDate = day /\ mem' = m /\ saves' = saves
         \/ /\ m.lastDate # day /\ mounted /\ ~ready
            /\ mem' = NewDayReset(Banked(m), day) /\ saves' = saves
         \/ /\ m.lastDate # day /\ mounted /\ ready
            /\ mem' = NewDayReset(Banked(m), day)
            /\ \E q : /\ IF m.today > 0 THEN Longer(saves, q) ELSE q = saves
                      /\ q \in Seq(Write) /\ Longer(q, saves')
         \/ /\ m.lastDate # day /\ ~mounted
            /\ mem' \in {Banked(m), NewDayReset(Banked(m), day)}
            /\ Extended(saves, saves')
<1> DEFINE banked == Banked(m)
           reset == NewDayReset(banked, day)
           saved == IF m.today > 0 THEN Append(saves, FirstWrite(banked)) ELSE saves
<1>1. saves \in Seq(Write) /\ Extended(saves, saves)
  BY ExtendedSelf DEF TypeOK
<1>2. banked \in FieldType /\ reset \in FieldType
  BY BankedType, NewDayResetType DEF TypeOK
<1>3. /\ IF m.today > 0 THEN Longer(saves, saved) ELSE saved = saves
      /\ Extended(saves, saved) /\ saved \in Seq(Write)
  <2>1. CASE m.today > 0
    <3>1. saved = Append(saves, FirstWrite(banked))
      BY <2>1
    <3> HIDE DEF saved, banked
    <3> QED BY <1>1, <1>2, <2>1, <3>1, ExtendedAppend DEF Longer, Extended
  <2>2. CASE ~(m.today > 0)
    BY <1>1, <2>2
  <2> QED BY <2>1, <2>2
<1>4. \/ m.lastDate = day /\ mem' = m /\ saves' = saves
      \/ m.lastDate # day /\ mounted /\ ~ready /\ mem' = reset /\ saves' = saves
      \/ /\ m.lastDate # day /\ mounted /\ ready /\ mem' = reset
         /\ saves' = Append(saved, FirstWrite(reset))
      \/ m.lastDate # day /\ ~mounted /\ mem' \in {banked, reset} /\ saves' = saved
  BY DEF CheckDateChange, prefs
<1> HIDE DEF banked, reset, saved
<1>5. Longer(saved, Append(saved, FirstWrite(reset)))
  BY <1>2, <1>3, ExtendedSelf, ExtendedAppend
<1>6. ASSUME m.lastDate # day, mounted, ready, mem' = reset,
             saves' = Append(saved, FirstWrite(reset))
      PROVE  \E q : /\ IF m.today > 0 THEN Longer(saves, q) ELSE q = saves
                    /\ q \in Seq(Write) /\ Longer(q, saves')
  BY <1>3, <1>5, <1>6
<1> QED BY <1>3, <1>4, <1>6 DEF banked, reset
(* Two extensions in a row are one. *)
LEMMA ExtendedTwice ==
  ASSUME NEW q, NEW r, NEW s, Extended(q, r), Extended(r, s)
  PROVE  Extended(q, s)
BY DEF Extended

(* The saves and the file change in three ways: a write is answered, the   *)
(* process ends, or new saves start.                                       *)
LEMMA SavesEffect ==
  ASSUME TypeOK, [Next]_vars
  PROVE  \/ SaveReply
         \/ (Kill \/ Reboot) /\ disk' = disk /\ saves' = <<>>
         \/ disk' = disk /\ Extended(saves, saves')
<1> DEFINE Goal == \/ SaveReply
                   \/ (Kill \/ Reboot) /\ disk' = disk /\ saves' = <<>>
                   \/ disk' = disk /\ Extended(saves, saves')
<1>0. saves \in Seq(Write) /\ Extended(saves, saves) /\ mem \in FieldType
  BY ExtendedSelf DEF TypeOK
<1>a. ASSUME disk' = disk, saves' = saves \/ Extended(saves, saves') \/ Longer(saves, saves')
      PROVE  Goal
  BY <1>0, <1>a DEF Longer
<1> SUFFICES Goal
  OBVIOUS
<1> HIDE DEF Goal
<1> USE DEF env, page, bounds, aux
<1>b. ASSUME NEW m \in FieldType, SaveData(m), disk' = disk PROVE Goal
  BY <1>a, <1>b, SaveDataEffect
<1>c. ASSUME SaveTodaySteps, disk' = disk PROVE Goal
  BY <1>a, <1>c, SaveTodayEffect
<1>d. ASSUME NEW m \in FieldType, NEW r \in BOOLEAN, CheckDateChange(m, r), disk' = disk PROVE Goal
  <2>1. CASE \E q : /\ IF m.today > 0 THEN Longer(saves, q) ELSE q = saves
                    /\ q \in Seq(Write) /\ Longer(q, saves')
    <3>1. PICK q : /\ IF m.today > 0 THEN Longer(saves, q) ELSE q = saves
                   /\ q \in Seq(Write) /\ Longer(q, saves')
      BY <2>1
    <3>2. Extended(saves, q) /\ Extended(q, saves')
      BY <1>0, <3>1 DEF Longer
    <3> QED BY <1>a, <1>d, <3>2, ExtendedTwice
  <2>2. CASE saves' = saves \/ Extended(saves, saves')
    BY <1>a, <1>d, <2>2
  <2> QED BY <1>d, <2>1, <2>2, CheckDateEffect
<1>1. CASE Load
  <2>1. Restored(mem, cache) \in FieldType
    BY RestoredType DEF TypeOK
  <2> QED BY <1>1, <1>d, <2>1 DEF Load
<1>2. CASE StepEvent
  <2>1. Counted(mem, sensor) \in FieldType
    BY CountedType DEF TypeOK
  <2> QED BY <1>2, <1>a, <1>b, <2>1 DEF StepEvent, prefs
<1>3. CASE Pause \/ Dispose
  BY <1>3, <1>c DEF Pause, Dispose
<1>4. CASE Resume
  <2>1. (phase # "loading") \in BOOLEAN
    BY Zenon
  <2> QED BY <1>0, <1>4, <1>d, <2>1 DEF Resume
<1>5. CASE ResetTodaySteps
  <2>1. [mem EXCEPT !.baseline = mem.total, !.today = 0] \in FieldType
    BY <1>0 DEF FieldType
  <2> QED BY <1>5, <1>b, <2>1 DEF ResetTodaySteps
<1>6. CASE ResetAllHistory
  <2>1. [mem EXCEPT !.history = <<>>, !.today = 0, !.baseline = mem.total] \in FieldType
    BY <1>0, EmptyLists DEF FieldType
  <2> QED BY <1>6, <1>b, <2>1 DEF ResetAllHistory
<1>7. ASSUME NEW g \in Goals, SetGoal(g) PROVE Goal
  <2>1. [mem EXCEPT !.goal = g] \in FieldType
    BY <1>0 DEF FieldType
  <2> QED BY <1>7, <1>b, <2>1 DEF SetGoal
<1>8. CASE SaveReply
  BY <1>8 DEF Goal
<1>9. CASE Kill \/ Reboot
  BY <1>9 DEF Kill, Reboot, ProcessEnds, Goal
<1>10. CASE Open \/ Permission \/ StreamDone \/ Walk \/ Midnight \/ ClockBack \/ UNCHANGED vars
  <2>1. disk' = disk /\ saves' = saves
    BY <1>10 DEF Open, Permission, StreamDone, Walk, Midnight, ClockBack, vars, prefs
  <2> QED BY <1>a, <2>1
<1>11. ASSUME NEW v \in {"today", "history"}, SelectView(v) PROVE Goal
  BY <1>11, <1>a DEF SelectView, prefs
<1> QED
  BY <1>1, <1>2, <1>3, <1>4, <1>5, <1>6, <1>7, <1>8, <1>9, <1>10, <1>11 DEF Next

(* The answer to a write, position by position: the others move up, and    *)
(* the save goes to the end with its next key, read now.                   *)
LEMMA ReplyEffect ==
  ASSUME TypeOK, SaveReply
  PROVE  LET L == Len(saves)
             w == saves[1]
         IN  /\ L \in Nat \ {0} /\ DOMAIN saves = 1 .. L /\ w \in Write /\ w.k \in 1 .. 5
             /\ mem' = mem /\ phase' = phase /\ mounted' = mounted /\ day' = day
             /\ backs' = backs /\ torn' = torn /\ saves' \in Seq(Write)
             /\ \A i \in 1 .. (L - 1) : saves'[i] = saves[i + 1]
             /\ w.k < 5 => DOMAIN saves' = 1 .. L /\ saves'[L].k = w.k + 1
             /\ w.k = 3 => saves'[L].val = mem.lastDate
             /\ w.k = 4 => saves'[L].val = mem.history
             /\ w.k = 5 => DOMAIN saves' = 1 .. (L - 1) /\ disk'["history"] = w.val
             /\ w.k = 4 => disk'["lastDate"] = w.val
             /\ w.k # 4 => disk'["lastDate"] = disk["lastDate"]
             /\ w.k # 5 => disk'["history"] = disk["history"]
<1> DEFINE L == Len(saves)
           w == saves[1]
           u == [k |-> w.k + 1, val |-> mem[KeyOrder[w.k + 1]]]
<1>1. /\ L \in Nat \ {0} /\ DOMAIN saves = 1 .. L /\ Head(saves) = w /\ w \in Write
      /\ Tail(saves) \in Seq(Write) /\ Len(Tail(saves)) = L - 1
      /\ \A i \in 1 .. (L - 1) : Tail(saves)[i] = saves[i + 1]
  BY HeadTailProperties, LenProperties, EmptySeq DEF TypeOK, SaveReply
<1>2. w.k \in 1 .. 5
  BY <1>1 DEF Write
<1>3. /\ mem' = mem /\ phase' = phase /\ mounted' = mounted /\ day' = day
      /\ backs' = backs /\ torn' = torn
  BY DEF SaveReply, env, page, aux, bounds
<1>4. disk' = [disk EXCEPT ![KeyOrder[w.k]] = w.val]
  BY <1>1 DEF SaveReply
<1>5. saves' \in Seq(Write)
  BY SaveReplyType
<1>6. w.k < 5 => saves' = Append(Tail(saves), u)
  BY <1>1 DEF SaveReply
<1>7. w.k = 5 => saves' = Tail(saves)
  BY <1>1 DEF SaveReply
<1>8. w.k < 5 => u \in Write
  BY <1>2, NextWriteType DEF TypeOK
<1>9. u.k = w.k + 1 /\ u.val = mem[KeyOrder[w.k + 1]]
  OBVIOUS
<1> HIDE DEF u
<1>10. w.k < 5 => /\ DOMAIN saves' = 1 .. L /\ saves'[L] = u
                  /\ \A i \in 1 .. (L - 1) : saves'[i] = saves[i + 1]
  BY <1>1, <1>6, <1>8, AppendProperties, LenProperties
<1>11. w.k = 5 => /\ DOMAIN saves' = 1 .. (L - 1)
                  /\ \A i \in 1 .. (L - 1) : saves'[i] = saves[i + 1]
  BY <1>1, <1>7, LenProperties
<1> HIDE DEF L
<1>12. DOMAIN disk = Keys
  BY DEF TypeOK, StoreOK
<1>13. /\ w.k = 4 => disk'["lastDate"] = w.val
       /\ w.k # 4 => disk'["lastDate"] = disk["lastDate"]
       /\ w.k = 5 => disk'["history"] = w.val
       /\ w.k # 5 => disk'["history"] = disk["history"]
  BY <1>2, <1>4, <1>12 DEF KeyOrder, Keys
<1>14. /\ w.k = 3 => KeyOrder[w.k + 1] = "lastDate"
       /\ w.k = 4 => KeyOrder[w.k + 1] = "history"
  BY DEF KeyOrder
<1>15. \A i \in 1 .. (L - 1) : saves'[i] = saves[i + 1]
  BY <1>2, <1>10, <1>11
<1> QED BY <1>1, <1>2, <1>3, <1>5, <1>9, <1>10, <1>11, <1>13, <1>14, <1>15 DEF L
(* Every history there is after a step was there before, or is the page's. *)
LEMMA HistoriesStep ==
  ASSUME TypeOK, [Next]_vars, NEW h \in Histories'
  PROVE  h \in Histories \/ h = mem'.history
<1>1. \/ h = mem'.history
      \/ disk'["history"] # Absent /\ h = disk'["history"]
      \/ \E i \in DOMAIN saves' : saves'[i].k = 5 /\ saves'[i].val = h
  BY DEF Histories
<1>2. /\ mem.history \in Histories
      /\ disk["history"] # Absent => disk["history"] \in Histories
      /\ \A i \in DOMAIN saves : saves[i].k = 5 => saves[i].val \in Histories
  BY DEF Histories
<1>3. CASE SaveReply
  <2> DEFINE L == Len(saves)
             w == saves[1]
  <2>1. /\ L \in Nat \ {0} /\ DOMAIN saves = 1 .. L /\ w.k \in 1 .. 5 /\ mem' = mem
        /\ \A i \in 1 .. (L - 1) : saves'[i] = saves[i + 1]
        /\ w.k < 5 => DOMAIN saves' = 1 .. L /\ saves'[L].k = w.k + 1
        /\ w.k = 4 => saves'[L].val = mem.history
        /\ w.k = 5 => DOMAIN saves' = 1 .. (L - 1) /\ disk'["history"] = w.val
        /\ w.k # 5 => disk'["history"] = disk["history"]
    BY <1>3, ReplyEffect
  <2> HIDE DEF L, w
  <2>2. disk'["history"] = disk["history"] \/ disk'["history"] \in Histories
    BY <1>2, <2>1 DEF w
  <2>3. ASSUME NEW i \in DOMAIN saves', saves'[i].k = 5
        PROVE  saves'[i].val \in Histories
    <3>1. CASE i = L
      BY <1>2, <2>1, <2>3, <3>1
    <3>2. CASE i # L
      <4>1. i \in 1 .. (L - 1) /\ i + 1 \in DOMAIN saves
        BY <2>1, <3>2
      <4> QED BY <1>2, <2>1, <2>3, <4>1
    <3> QED BY <3>1, <3>2
  <2> QED BY <1>1, <1>2, <2>2, <2>3
<1>4. CASE disk' = disk /\ (saves' = <<>> \/ Extended(saves, saves'))
  <2>1. \A i \in DOMAIN saves' : saves'[i].k = 5 => i \in DOMAIN saves /\ saves'[i] = saves[i]
    BY <1>4 DEF Extended
  <2> QED BY <1>1, <1>2, <1>4, <2>1
<1> QED BY <1>3, <1>4, SavesEffect

(* What _initialize reads: the map is the file when no save is running.    *)
LEMMA LoadedFields ==
  ASSUME TypeOK, SavesCatchUp, saves = <<>>
  PROVE  LET m == Restored(mem, cache)
         IN  /\ m \in FieldType
             /\ disk["history"] = Absent => m.history = SampleHistory
             /\ disk["history"] # Absent => m.history = disk["history"]
             /\ disk["lastDate"] = Absent => m.lastDate = mem.lastDate
             /\ disk["lastDate"] # Absent => m.lastDate = disk["lastDate"]
<1>1. DOMAIN saves = {}
  OBVIOUS
<1>2. \A j \in 1 .. 5 : disk[KeyOrder[j]] = cache[KeyOrder[j]]
  BY <1>1 DEF SavesCatchUp, Settled
<1>3. disk["history"] = cache["history"] /\ disk["lastDate"] = cache["lastDate"]
  BY <1>2 DEF KeyOrder
<1>4. mem \in FieldType /\ StoreOK(cache)
  BY DEF TypeOK
<1>5. Restored(mem, cache) \in FieldType
  BY <1>4, RestoredType
<1>6. /\ Restored(mem, cache).history = Stored(cache, "history", SampleHistory)
      /\ Restored(mem, cache).lastDate = Stored(cache, "lastDate", mem.lastDate)
  BY <1>4 DEF Restored, FieldType
<1> QED BY <1>3, <1>5, <1>6 DEF Stored

(* Two saves or more are at least one. *)
LEMMA LongerTwice ==
  ASSUME NEW q, NEW r, NEW s, Longer(q, r), Longer(r, s)
  PROVE  Longer(q, s)
BY DEF Longer, Extended

(* The page's history after a step that is no load: kept, cleared, or with *)
(* the count of the page's date banked, and then a save has started.       *)
LEMMA FieldsEffect ==
  ASSUME TypeOK, Quiet, [Next]_vars, ~Load
  PROVE  \/ mem'.history = mem.history
         \/ mem'.history = <<>>
         \/ /\ mem.today > 0 /\ mem'.history = WithEntry(mem.history, TodayEntry(mem))
            /\ mounted /\ phase # "loading" /\ Longer(saves, saves') /\ disk' = disk
<1> DEFINE Goal == \/ mem'.history = mem.history
                   \/ mem'.history = <<>>
                   \/ /\ mem.today > 0 /\ mem'.history = WithEntry(mem.history, TodayEntry(mem))
                      /\ mounted /\ phase # "loading" /\ Longer(saves, saves') /\ disk' = disk
<1>0. mem \in FieldType
  BY DEF TypeOK
<1>a. /\ Banked(mem) \in FieldType
      /\ mem.today > 0 => Banked(mem).history = WithEntry(mem.history, TodayEntry(mem))
      /\ ~(mem.today > 0) => Banked(mem).history = mem.history
      /\ NewDayReset(Banked(mem), day).history = Banked(mem).history
      /\ mem.today > 0 => phase # "loading"
  BY <1>0, BankedType, BankedFields, ResetFields DEF Quiet
<1>b. ASSUME mem.today > 0, mem' \in {Banked(mem), NewDayReset(Banked(mem), day)},
             mounted, Longer(saves, saves'), disk' = disk
      PROVE  Goal
  BY <1>a, <1>b
<1>c. ASSUME mem'.history = mem.history \/ mem'.history = <<>> PROVE Goal
  BY <1>c
<1> SUFFICES Goal
  OBVIOUS
<1> HIDE DEF Goal
<1> USE DEF env, page, bounds, aux
<1>1. CASE StepEvent
  <2>1. Counted(mem, sensor).history = mem.history
    BY <1>0 DEF Counted, FieldType
  <2> QED BY <1>1, <1>c, <2>1 DEF StepEvent, SaveData
<1>2. CASE Pause \/ Dispose
  <2>1. mounted /\ disk' = disk /\ SaveTodaySteps
    BY <1>2 DEF Pause, Dispose
  <2> QED BY <1>a, <1>b, <1>c, <2>1, SaveTodayEffect
<1>3. CASE Resume
  <2>1. /\ mounted /\ disk' = disk /\ CheckDateChange(mem, phase # "loading")
        /\ (phase # "loading") \in BOOLEAN
    BY <1>3, Zenon DEF Resume
  <2>2. CASE mem.today > 0
    <3>1. phase # "loading"
      BY <1>a, <2>2
    <3>2. \/ mem' = mem
          \/ /\ mem' = NewDayReset(Banked(mem), day)
             /\ \E q : Longer(saves, q) /\ Longer(q, saves')
      BY <1>0, <2>1, <2>2, <3>1, CheckDateEffect
    <3>3. mem' = mem \/ Longer(saves, saves')
      BY <3>2, LongerTwice
    <3> QED BY <1>b, <1>c, <2>1, <2>2, <3>2, <3>3
  <2>3. CASE ~(mem.today > 0)
    <3>1. mem' \in {mem, Banked(mem), NewDayReset(Banked(mem), day)}
      BY <2>1 DEF CheckDateChange
    <3> QED BY <1>a, <1>c, <2>3, <3>1
  <2> QED BY <2>2, <2>3
<1>4. CASE ResetTodaySteps
  BY <1>0, <1>4, <1>c DEF ResetTodaySteps, SaveData, FieldType
<1>5. CASE ResetAllHistory
  BY <1>0, <1>5, <1>c DEF ResetAllHistory, SaveData, FieldType
<1>6. ASSUME NEW g \in Goals, SetGoal(g) PROVE Goal
  BY <1>0, <1>6, <1>c DEF SetGoal, SaveData, FieldType
<1>7. CASE Open \/ Kill \/ Reboot
  BY <1>7, <1>c DEF Open, Kill, Reboot, ProcessEnds, Fresh
<1>8. CASE \/ SaveReply \/ Permission \/ StreamDone \/ Walk \/ Midnight \/ ClockBack
           \/ UNCHANGED vars
  BY <1>8, <1>c DEF SaveReply, Permission, StreamDone, Walk, Midnight, ClockBack, vars
<1>9. ASSUME NEW v \in {"today", "history"}, SelectView(v) PROVE Goal
  BY <1>9, <1>c DEF SelectView
<1> QED
  BY <1>1, <1>2, <1>3, <1>4, <1>5, <1>6, <1>7, <1>8, <1>9 DEF Next

(* A closed or loading page stays without saves, history and count. *)
LEMMA QuietStep == TypeOK /\ Quiet /\ [Next]_vars => Quiet'
<1> SUFFICES ASSUME TypeOK, Quiet, [Next]_vars PROVE Quiet'
  OBVIOUS
<1>0. mem \in FieldType /\ mounted \in BOOLEAN
  BY DEF TypeOK
<1> USE DEF env, page, bounds, aux
<1>a. ASSUME phase' \notin {"none", "loading"} PROVE Quiet'
  BY <1>a DEF Quiet
<1>b. ASSUME phase' = phase, phase \notin {"none", "loading"} PROVE Quiet'
  BY <1>a, <1>b
<1>c. ASSUME phase = "loading", phase' = "loading", saves' = saves,
             mem'.history = mem.history, mem'.today = 0
      PROVE  Quiet'
  BY <1>c DEF Quiet
<1>1. CASE Open
  BY <1>1 DEF Open, Fresh, Quiet, prefs
<1>2. CASE Load \/ Permission \/ StreamDone \/ StepEvent
  BY <1>2, <1>a DEF Load, Permission, StreamDone, StepEvent
<1>3. CASE Pause \/ Dispose
  <2>1. phase' = phase /\ mounted /\ SaveTodaySteps
    BY <1>3 DEF Pause, Dispose
  <2>2. CASE phase = "loading"
    <3>1. ~(mem.today > 0) /\ mem.today = 0
      BY <2>2 DEF Quiet
    <3> QED BY <1>c, <2>1, <2>2, <3>1, SaveTodayEffect
  <2> QED BY <1>b, <2>1, <2>2 DEF Quiet
<1>4. CASE Resume
  <2>1. phase' = phase /\ mounted /\ CheckDateChange(mem, phase # "loading")
    BY <1>4 DEF Resume
  <2>2. CASE phase = "loading"
    <3>1. ~(mem.today > 0) /\ mem.today = 0
      BY <2>2 DEF Quiet
    <3>2. /\ NewDayReset(Banked(mem), day).history = mem.history
          /\ NewDayReset(Banked(mem), day).today = 0
      BY <1>0, <3>1, BankedType, BankedFields, ResetFields
    <3>3. saves' = saves /\ mem' \in {mem, NewDayReset(Banked(mem), day)}
      BY <2>1, <2>2 DEF CheckDateChange, prefs
    <3> QED BY <1>c, <2>1, <2>2, <3>1, <3>2, <3>3
  <2> QED BY <1>b, <2>1, <2>2 DEF Quiet
<1>5. ASSUME NEW m \in FieldType, SaveData(m), phase' = phase, mounted,
             m.history = mem.history \/ m.history = <<>>, m.today = 0 \/ m.today = mem.today
      PROVE  Quiet'
  <2>1. CASE phase = "loading"
    <3>1. mem.today = 0 /\ mem.history = <<>>
      BY <2>1 DEF Quiet
    <3> QED BY <1>5, <1>c, <2>1, <3>1, SaveDataEffect
  <2> QED BY <1>5, <1>b, <2>1 DEF Quiet
<1>6. CASE ResetTodaySteps
  <2> DEFINE m == [mem EXCEPT !.baseline = mem.total, !.today = 0]
  <2>1. m \in FieldType /\ m.history = mem.history /\ m.today = 0
    BY <1>0 DEF FieldType
  <2>2. SaveData(m) /\ phase' = phase /\ mounted
    BY <1>6 DEF ResetTodaySteps, OnTodayView
  <2> HIDE DEF m
  <2> QED BY <1>5, <2>1, <2>2
<1>7. CASE ResetAllHistory
  <2> DEFINE m == [mem EXCEPT !.history = <<>>, !.today = 0, !.baseline = mem.total]
  <2>1. m \in FieldType /\ m.history = <<>> /\ m.today = 0
    BY <1>0, EmptyLists DEF FieldType
  <2>2. SaveData(m) /\ phase' = phase /\ mounted
    BY <1>7 DEF ResetAllHistory, OnHistoryView
  <2> HIDE DEF m
  <2> QED BY <1>5, <2>1, <2>2
<1>8. ASSUME NEW g \in Goals, SetGoal(g) PROVE Quiet'
  <2> DEFINE m == [mem EXCEPT !.goal = g]
  <2>1. m \in FieldType /\ m.history = mem.history /\ m.today = mem.today
    BY <1>0 DEF FieldType
  <2>2. SaveData(m) /\ phase' = phase /\ mounted
    BY <1>8 DEF SetGoal, OnTodayView
  <2> HIDE DEF m
  <2> QED BY <1>5, <2>1, <2>2
<1>9. CASE SaveReply
  BY <1>9, <1>b DEF SaveReply, Quiet
<1>10. CASE Kill \/ Reboot
  BY <1>10 DEF Kill, Reboot, ProcessEnds, Fresh, Quiet
<1>11. CASE Walk \/ Midnight \/ ClockBack \/ UNCHANGED vars
  BY <1>11 DEF Walk, Midnight, ClockBack, vars, prefs, Quiet
<1>12. ASSUME NEW v \in {"today", "history"}, SelectView(v) PROVE Quiet'
  BY <1>12 DEF SelectView, prefs, Quiet
<1> QED
  BY <1>1, <1>2, <1>3, <1>4, <1>6, <1>7, <1>8, <1>9, <1>10, <1>11, <1>12 DEF Next
(* The entry of a count is an entry. *)
LEMMA TodayEntryType ==
  ASSUME NEW m \in FieldType, m.today > 0
  PROVE  TodayEntry(m) \in Entry /\ TodayEntry(m).date = m.lastDate /\ m.history \in Seq(Entry)
<1>1. m.lastDate \in Int /\ m.today \in Nat /\ m.goal \in Int /\ m.history \in Seq(Entry)
  BY GoalAssumption DEF FieldType
<1> QED BY <1>1 DEF TodayEntry, Entry

(* The history after a load: the stored one or the sample, with the day    *)
(* banked on a date change.                                                *)
LEMMA LoadEffect ==
  ASSUME TypeOK, Load
  PROVE  LET m == Restored(mem, cache)
         IN  \/ mem' = m
             \/ mem' \in {Banked(m), NewDayReset(Banked(m), day)}
BY DEF Load, CheckDateChange

(* Every step keeps one entry per date in every history. *)
LEMMA OnceStep ==
  ASSUME TypeOK, SavesCatchUp, OnceInv, [Next]_vars
  PROVE  OnceInv'
<1>0. Quiet /\ (\A h \in Histories : Once(h)) /\ mem \in FieldType /\ mem.history \in Histories
  BY DEF OnceInv, TypeOK, Histories
<1>1. Quiet'
  BY <1>0, QuietStep
<1>2. Once(<<>>)
  BY HistoryAssumption DEF Once
<1>3. Once(mem'.history)
  <2>1. CASE Load
    <3> DEFINE m == Restored(mem, cache)
    <3>1. saves = <<>>
      BY <1>0, <2>1 DEF Load, Quiet
    <3>2. m \in FieldType /\ (m.history = SampleHistory \/ m.history \in Histories)
      BY <3>1, LoadedFields DEF Histories
    <3>3. mem' \in {m, Banked(m), NewDayReset(Banked(m), day)}
      BY <2>1, LoadEffect
    <3> HIDE DEF m
    <3>4. Once(SampleHistory)
      <4>1. SampleHistory \in Seq(Entry) /\ DOMAIN SampleHistory \subseteq Nat
        BY HistoryAssumption, LenProperties DEF Entry
      <4>2. \A i \in DOMAIN SampleHistory : SampleHistory[i].date \in Int
        <5>1. \A i \in DOMAIN SampleHistory : SampleHistory[i] \in Entry
          BY <4>1, LenProperties, ElementOfSeq
        <5> QED BY <5>1 DEF Entry
      <4>3. ASSUME NEW i \in DOMAIN SampleHistory, NEW j \in DOMAIN SampleHistory, i # j
            PROVE  SampleHistory[i].date # SampleHistory[j].date
        <5>1. i < j \/ j < i
          BY <4>1, <4>3
        <5> QED BY <4>2, <5>1, SampleAssumption
      <4> QED BY <4>3, SampleAssumption DEF Once
    <3>5. Once(m.history)
      BY <1>0, <3>2, <3>4
    <3>6. m.today > 0 => Once(WithEntry(m.history, TodayEntry(m)))
      BY <3>2, <3>5, TodayEntryType, WithEntryOnce
    <3>7. Once(Banked(m).history)
      BY <3>2, <3>5, <3>6, BankedFields
    <3>8. Once(NewDayReset(Banked(m), day).history)
      BY <3>2, <3>7, BankedType, ResetFields
    <3> QED BY <3>3, <3>5, <3>7, <3>8
  <2>2. CASE ~Load
    <3>1. mem.today > 0 => Once(WithEntry(mem.history, TodayEntry(mem)))
      BY <1>0, TodayEntryType, WithEntryOnce
    <3> QED BY <1>0, <1>2, <2>2, <3>1, FieldsEffect
  <2> QED BY <2>1, <2>2
<1>4. \A h \in Histories' : Once(h)
  BY <1>0, <1>3, HistoriesStep
<1>5. (\A h \in Histories : Once(h))'
  BY <1>4 DEF Once
<1> QED BY <1>1, <1>5 DEF OnceInv

(* In every reachable state no date has two entries in the page's history, *)
(* and the history is within its limit, whatever the clock does and        *)
(* wherever a kill falls: what _saveTodaySteps' search for the date and    *)
(* its trim promise.                                                       *)
THEOREM OncePerDate == Spec => []OneEntryPerDate
<1>1. Init => OnceInv
  <2> SUFFICES ASSUME Init PROVE OnceInv
    OBVIOUS
  <2>1. mem.history = <<>> /\ mem.today = 0 /\ saves = <<>> /\ disk["history"] = Absent
    BY DEF Init, Fresh, Keys
  <2>2. Histories = {<<>>}
    BY <2>1 DEF Histories
  <2>3. Once(<<>>)
    BY HistoryAssumption DEF Once
  <2>4. Quiet
    BY <2>1 DEF Quiet, Init
  <2> QED BY <2>2, <2>3, <2>4 DEF OnceInv
<1>2. TypeOK /\ SavesCatchUp /\ OnceInv /\ [Next]_vars => OnceInv'
  BY OnceStep
<1>3. OnceInv => OneEntryPerDate
  BY DEF OnceInv, Once, Histories, OneEntryPerDate
<1> QED BY <1>1, <1>2, <1>3, TypeCorrect, CatchUp, PTL DEF Spec
-----------------------------------------------------------------------------
(* The saves that have still to store a date. *)

(* New saves put nothing behind and add to those ahead. *)
LEMMA AheadExtended ==
  ASSUME NEW q \in Seq(Write), NEW r, NEW d, NEW e, Extended(q, r)
  PROVE  /\ Behind(r, d, e) => Behind(q, d, e)
         /\ Ahead(q, e) \subseteq Ahead(r, e)
         /\ Two(Ahead(q, e)) => Two(Ahead(r, e))
         /\ Three(Ahead(q, e)) => Three(Ahead(r, e))
<1>1. Behind(r, d, e) => Behind(q, d, e)
  BY DEF Extended, Behind
<1>2. Ahead(q, e) \subseteq Ahead(r, e)
  BY DEF Extended, Ahead
<1> QED BY <1>1, <1>2 DEF Two, Three

(* A new save is one more. *)
LEMMA AheadLonger ==
  ASSUME NEW q \in Seq(Write), NEW r, NEW e, Longer(q, r)
  PROVE  /\ Ahead(r, e) # {}
         /\ Ahead(q, e) # {} => Two(Ahead(r, e))
         /\ Two(Ahead(q, e)) => Three(Ahead(r, e))
<1>1. PICK n \in DOMAIN r : n \notin DOMAIN q
  BY DEF Longer
<1>2. n \in Ahead(r, e) /\ n \notin Ahead(q, e)
  BY <1>1 DEF Longer, Extended, Ahead
<1>3. Ahead(q, e) \subseteq Ahead(r, e)
  BY AheadExtended DEF Longer
<1> HIDE DEF Ahead
<1> QED BY <1>2, <1>3 DEF Two, Three

(* The answer to a write puts nothing behind, and of the saves ahead of a  *)
(* date still in front of the file none is lost.                           *)
LEMMA AheadReply ==
  ASSUME TypeOK, DatesFlow, SaveReply, NEW e \in Int, e <= mem.lastDate,
         Behind(saves', disk', e)
  PROVE  /\ Behind(saves, disk, e)
         /\ Ahead(saves, e) # {} => Ahead(saves', e) # {}
         /\ Two(Ahead(saves, e)) => Two(Ahead(saves', e))
         /\ Three(Ahead(saves, e)) => Three(Ahead(saves', e))
<1> DEFINE L == Len(saves)
           w == saves[1]
           f(i) == IF i = 1 THEN L ELSE i - 1
<1>0. mem.lastDate \in Int
  BY DEF TypeOK, FieldType
<1>1. /\ L \in Nat \ {0} /\ DOMAIN saves = 1 .. L /\ w \in Write /\ w.k \in 1 .. 5
      /\ \A i \in 1 .. (L - 1) : saves'[i] = saves[i + 1]
      /\ w.k < 5 => DOMAIN saves' = 1 .. L /\ saves'[L].k = w.k + 1
      /\ w.k = 3 => saves'[L].val = mem.lastDate
      /\ w.k = 5 => DOMAIN saves' = 1 .. (L - 1)
      /\ w.k = 4 => disk'["lastDate"] = w.val
      /\ w.k # 4 => disk'["lastDate"] = disk["lastDate"]
  BY ReplyEffect
<1>2. \A i \in DOMAIN saves : saves[i] \in Write
  BY LenProperties, ElementOfSeq DEF TypeOK
<1>3. \A i \in DOMAIN saves : saves[i].k = 4 => saves[i].val \in Int
  BY <1>2 DEF Write
<1> HIDE DEF L, w
<1>4. 1 \in DOMAIN saves /\ saves[1] = w
  BY <1>1 DEF w
<1>5. w.k = 4 => w.val < e
  <2> SUFFICES ASSUME w.k = 4, ~(w.val < e) PROVE FALSE
    OBVIOUS
  <2>1. w.val \in Int /\ w.val >= e
    BY <1>3, <1>4
  <2>2. disk'["lastDate"] = w.val
    BY <1>1
  <2>3. PICK i \in DOMAIN saves' : saves'[i].k = 4 /\ saves'[i].val < e
    BY <2>1, <2>2 DEF Behind
  <2>4. i # L
    BY <1>1, <2>3
  <2>5. i + 1 \in DOMAIN saves /\ 1 < i + 1 /\ saves[i + 1] = saves'[i]
    BY <1>1, <2>4
  <2>6. w.val <= saves[i + 1].val
    BY <1>4, <2>3, <2>5 DEF DatesFlow
  <2>7. saves[i + 1].val \in Int
    BY <1>3, <2>3, <2>5
  <2> QED BY <2>1, <2>3, <2>5, <2>6, <2>7
<1>6. Behind(saves, disk, e)
  <2>1. CASE w.k = 4
    BY <1>4, <1>5, <2>1 DEF Behind
  <2>2. CASE w.k # 4
    <3>1. CASE \E i \in DOMAIN saves' : saves'[i].k = 4 /\ saves'[i].val < e
      <4>1. PICK i \in DOMAIN saves' : saves'[i].k = 4 /\ saves'[i].val < e
        BY <3>1
      <4>2. i # L
        BY <1>0, <1>1, <4>1
      <4>3. i + 1 \in DOMAIN saves /\ saves[i + 1] = saves'[i]
        BY <1>1, <4>2
      <4> QED BY <4>1, <4>3 DEF Behind
    <3>2. CASE disk'["lastDate"] # Absent /\ disk'["lastDate"] < e
      BY <1>1, <2>2, <3>2 DEF Behind
    <3> QED BY <3>1, <3>2 DEF Behind
  <2> QED BY <2>1, <2>2
<1>7. ASSUME NEW i \in Ahead(saves, e) PROVE f(i) \in Ahead(saves', e)
  <2>1. i \in 1 .. L /\ (saves[i].k <= 3 \/ (saves[i].k = 4 /\ saves[i].val >= e))
    BY <1>1, <1>7 DEF Ahead
  <2>2. CASE i = 1
    <3>1. w.k <= 3
      <4>1. ~(w.k = 4 /\ w.val >= e)
        BY <1>3, <1>4, <1>5
      <4> QED BY <1>1, <1>4, <2>1, <2>2, <4>1
    <3>2. L \in DOMAIN saves' /\ saves'[L].k = w.k + 1
      BY <1>1, <3>1
    <3>3. saves'[L].k <= 3 \/ (saves'[L].k = 4 /\ saves'[L].val >= e)
      BY <1>0, <1>1, <3>1, <3>2
    <3> QED BY <2>2, <3>2, <3>3 DEF Ahead
  <2>3. CASE i # 1
    <3>1. i - 1 \in 1 .. (L - 1) /\ saves'[i - 1] = saves[i] /\ i - 1 \in DOMAIN saves'
      BY <1>1, <2>1, <2>3
    <3> QED BY <2>1, <2>3, <3>1 DEF Ahead
  <2> QED BY <2>2, <2>3
<1>8. \A i, j \in Ahead(saves, e) : i # j => f(i) # f(j)
  BY <1>1 DEF Ahead
<1> HIDE DEF f, Ahead
<1>9. Ahead(saves, e) # {} => Ahead(saves', e) # {}
  BY <1>7
<1>10. Two(Ahead(saves, e)) => Two(Ahead(saves', e))
  <2> SUFFICES ASSUME Two(Ahead(saves, e)) PROVE Two(Ahead(saves', e))
    OBVIOUS
  <2>1. PICK i, j \in Ahead(saves, e) : i # j
    BY DEF Two
  <2> QED BY <1>7, <1>8, <2>1 DEF Two
<1>11. Three(Ahead(saves, e)) => Three(Ahead(saves', e))
  <2> SUFFICES ASSUME Three(Ahead(saves, e)) PROVE Three(Ahead(saves', e))
    OBVIOUS
  <2>1. PICK i, j, l \in Ahead(saves, e) : i # j /\ i # l /\ j # l
    BY DEF Three
  <2>2. f(i) # f(j) /\ f(i) # f(l) /\ f(j) # f(l)
    BY <1>8, <2>1
  <2> QED BY <1>7, <2>1, <2>2 DEF Three
<1> QED BY <1>6, <1>9, <1>10, <1>11

(* Two saves are not three. *)
LEMMA NotThree ==
  ASSUME NEW q \in Seq(Write), NEW e, Len(q) <= 2
  PROVE  ~Three(Ahead(q, e))
<1>1. DOMAIN q \subseteq {1, 2}
  BY LenProperties
<1>2. Ahead(q, e) \subseteq {1, 2}
  BY <1>1 DEF Ahead
<1> QED BY <1>2 DEF Three

(* A history is never stored before a date. *)
LEMMA DatedStep == ASSUME TypeOK, Dated, [Next]_vars PROVE Dated'
<1>1. CASE SaveReply
  <2> DEFINE L == Len(saves)
             w == saves[1]
  <2>1. /\ L \in Nat \ {0} /\ DOMAIN saves = 1 .. L /\ w \in Write /\ w.k \in 1 .. 5
        /\ \A i \in 1 .. (L - 1) : saves'[i] = saves[i + 1]
        /\ w.k < 5 => DOMAIN saves' = 1 .. L /\ saves'[L].k = w.k + 1
        /\ w.k = 5 => DOMAIN saves' = 1 .. (L - 1)
        /\ w.k = 4 => disk'["lastDate"] = w.val
        /\ w.k # 4 => disk'["lastDate"] = disk["lastDate"]
        /\ w.k # 5 => disk'["history"] = disk["history"]
    BY <1>1, ReplyEffect
  <2>2. w.k = 4 => w.val # Absent
    BY <2>1, AbsentAssumption DEF Write
  <2>3. 1 \in DOMAIN saves /\ saves[1].k = w.k
    BY <2>1
  <2> HIDE DEF L, w
  <2>4. CASE w.k = 4
    BY <2>1, <2>2, <2>4 DEF Dated
  <2>5. CASE w.k = 5
    BY <2>1, <2>3, <2>5 DEF Dated
  <2>6. CASE w.k # 4 /\ w.k # 5
    <3>1. ASSUME NEW i \in DOMAIN saves', saves'[i].k = 5
          PROVE  \E j \in DOMAIN saves : saves[j].k = 5
      <4>1. i \in 1 .. (L - 1) /\ i + 1 \in DOMAIN saves
        BY <2>1, <2>6, <3>1
      <4> QED BY <2>1, <3>1, <4>1
    <3> QED BY <2>1, <2>6, <3>1 DEF Dated
  <2> QED BY <2>4, <2>5, <2>6
<1>2. CASE disk' = disk /\ (saves' = <<>> \/ Extended(saves, saves'))
  BY <1>2 DEF Dated, Extended
<1> QED BY <1>1, <1>2, SavesEffect
-----------------------------------------------------------------------------
(* The page's date and the dates on their way to the file. *)

(* The clock goes forward unless it is set back, and faults are counted. *)
LEMMA ClockEffect ==
  ASSUME TypeOK, [Next]_vars, backs' = 0
  PROVE  backs = 0 /\ day \in Int /\ day' \in Int /\ day <= day' /\ (torn => torn')
<1>0. day \in Int /\ backs \in Nat /\ torn \in BOOLEAN
  BY DEF TypeOK
<1> USE DEF env, page, bounds, aux
<1>1. CASE Midnight
  BY <1>0, <1>1 DEF Midnight
<1>2. CASE ClockBack
  BY <1>0, <1>2 DEF ClockBack
<1>3. CASE Kill \/ Reboot
  BY <1>0, <1>3 DEF Kill, Reboot, ProcessEnds
<1>4. CASE \/ Open \/ Load \/ Permission \/ StreamDone \/ StepEvent \/ Pause \/ Resume
           \/ Dispose \/ ResetTodaySteps \/ ResetAllHistory \/ SaveReply \/ Walk
           \/ UNCHANGED vars
  <2>1. day' = day /\ backs' = backs /\ torn' = torn
    BY <1>4, Zenon DEF Open, Load, Permission, StreamDone, StepEvent, Pause, Resume, Dispose,
       ResetTodaySteps, ResetAllHistory, SaveReply, Walk, vars
  <2> QED BY <1>0, <2>1
<1>5. CASE \/ \E g \in Goals : SetGoal(g)
           \/ \E v \in {"today", "history"} : SelectView(v)
  <2>1. day' = day /\ backs' = backs /\ torn' = torn
    BY <1>5, Zenon DEF SetGoal, SelectView
  <2> QED BY <1>0, <2>1
<1> QED BY <1>1, <1>2, <1>3, <1>4, <1>5 DEF Next

(* The page's date is kept or becomes today's; a page that opens has       *)
(* today's.                                                                *)
LEMMA DateEffect ==
  ASSUME TypeOK, [Next]_vars, ~Load, ~Kill, ~Reboot
  PROVE  /\ \/ mem'.lastDate = day
            \/ mem'.lastDate = mem.lastDate /\ (phase = "none" => phase' = "none")
         /\ phase' = "none" => phase = "none"
<1> DEFINE Goal == /\ \/ mem'.lastDate = day
                      \/ mem'.lastDate = mem.lastDate /\ (phase = "none" => phase' = "none")
                   /\ phase' = "none" => phase = "none"
<1>0. mem \in FieldType
  BY DEF TypeOK
<1>a. ASSUME mem'.lastDate = mem.lastDate \/ mem'.lastDate = day, phase' = phase PROVE Goal
  BY <1>a
<1>b. ASSUME mem'.lastDate = mem.lastDate, phase # "none", phase' # "none" PROVE Goal
  BY <1>b
<1>c. ASSUME mem'.lastDate = day, phase' = "loading" PROVE Goal
  BY <1>c
<1> SUFFICES Goal
  OBVIOUS
<1> HIDE DEF Goal
<1> USE DEF env, page, bounds, aux
<1>1. CASE Open
  BY <1>1, <1>c DEF Open, Fresh
<1>2. CASE Permission \/ StreamDone
  BY <1>2, <1>b DEF Permission, StreamDone
<1>3. CASE StepEvent
  <2>1. Counted(mem, sensor).lastDate = mem.lastDate
    BY <1>0 DEF Counted, FieldType
  <2> QED BY <1>3, <1>a, <2>1 DEF StepEvent, SaveData
<1>4. CASE Pause \/ Dispose
  <2>1. Banked(mem).lastDate = mem.lastDate
    BY <1>0, BankedFields
  <2> QED BY <1>4, <1>a, <2>1 DEF Pause, Dispose, SaveTodaySteps, SaveData
<1>5. CASE Resume
  <2>1. /\ Banked(mem).lastDate = mem.lastDate
        /\ NewDayReset(Banked(mem), day).lastDate = day
    BY <1>0, BankedType, BankedFields, ResetFields
  <2> QED BY <1>5, <1>a, <2>1 DEF Resume, CheckDateChange
<1>6. CASE ResetTodaySteps
  BY <1>0, <1>6, <1>a DEF ResetTodaySteps, SaveData, FieldType
<1>7. CASE ResetAllHistory
  BY <1>0, <1>7, <1>a DEF ResetAllHistory, SaveData, FieldType
<1>8. ASSUME NEW g \in Goals, SetGoal(g) PROVE Goal
  BY <1>0, <1>8, <1>a DEF SetGoal, SaveData, FieldType
<1>9. CASE SaveReply \/ Walk \/ Midnight \/ ClockBack \/ UNCHANGED vars
  BY <1>9, <1>a DEF SaveReply, Walk, Midnight, ClockBack, vars
<1>10. ASSUME NEW v \in {"today", "history"}, SelectView(v) PROVE Goal
  BY <1>10, <1>a DEF SelectView
<1> QED
  BY <1>1, <1>2, <1>3, <1>4, <1>5, <1>6, <1>7, <1>8, <1>9, <1>10 DEF Next

(* The date after a load: the file's, or the new State's, or today's. *)
LEMMA LoadDate ==
  ASSUME TypeOK, SavesCatchUp, Quiet, Load
  PROVE  /\ saves = <<>> /\ mem.history = <<>> /\ mem.today = 0
         /\ phase = "loading" /\ phase' = "asking" /\ mounted' = mounted
         /\ disk' = disk /\ Extended(saves, saves') /\ day' = day
         /\ \/ mem'.lastDate = day
            \/ disk["lastDate"] # Absent /\ mem'.lastDate = disk["lastDate"]
            \/ disk["lastDate"] = Absent /\ mem'.lastDate = mem.lastDate
<1> DEFINE m == Restored(mem, cache)
<1>1. /\ saves = <<>> /\ mem.history = <<>> /\ mem.today = 0
      /\ phase = "loading" /\ phase' = "asking" /\ mounted' = mounted
      /\ disk' = disk /\ day' = day
  BY DEF Load, Quiet, env
<1>2. /\ m \in FieldType
      /\ disk["lastDate"] = Absent => m.lastDate = mem.lastDate
      /\ disk["lastDate"] # Absent => m.lastDate = disk["lastDate"]
  BY <1>1, LoadedFields
<1>3. CheckDateChange(m, TRUE)
  BY DEF Load
<1> HIDE DEF m
<1>4. mem'.lastDate = day \/ mem'.lastDate = m.lastDate
  <2>1. Banked(m).lastDate = m.lastDate /\ NewDayReset(Banked(m), day).lastDate = day
    BY <1>2, BankedType, BankedFields, ResetFields
  <2> QED BY <1>3, <2>1 DEF CheckDateChange
<1>5. Extended(saves, saves')
  <2>1. ~SaveReply /\ ~Kill /\ ~Reboot
    BY <1>1 DEF SaveReply, Kill, Reboot, ProcessEnds
  <2> QED BY <2>1, SavesEffect DEF Next
<1> QED BY <1>1, <1>2, <1>4, <1>5

(* The dates keep flowing in order to the file. *)
LEMMA FlowStep ==
  ASSUME TypeOK, SavesCatchUp, Quiet, DatesFlow, [Next]_vars, backs' = 0
  PROVE  DatesFlow'
<1>0. /\ mem.lastDate \in Int /\ day \in Int
      /\ disk["lastDate"] # Absent => disk["lastDate"] \in Int
      /\ \A i \in DOMAIN saves : saves[i].k = 4 => saves[i].val \in Int
  <2>1. \A i \in DOMAIN saves : saves[i] \in Write
    BY LenProperties, ElementOfSeq DEF TypeOK
  <2>2. \A i \in DOMAIN saves : saves[i].k = 4 => saves[i].val \in Int
    BY <2>1 DEF Write
  <2> QED BY <2>2 DEF TypeOK, FieldType, StoreOK
<1>1. day \in Int /\ day' \in Int /\ day <= day'
  BY ClockEffect
<1>2. /\ 1 <= mem.lastDate /\ mem.lastDate <= day
      /\ disk["lastDate"] # Absent =>
            /\ 1 <= disk["lastDate"] /\ disk["lastDate"] <= day
            /\ phase # "none" => disk["lastDate"] <= mem.lastDate
      /\ \A i \in DOMAIN saves : saves[i].k = 4 =>
            /\ 1 <= saves[i].val /\ saves[i].val <= mem.lastDate
            /\ disk["lastDate"] # Absent => disk["lastDate"] <= saves[i].val
            /\ \A j \in DOMAIN saves : i < j /\ saves[j].k = 4 => saves[i].val <= saves[j].val
  BY DEF DatesFlow
<1>3. CASE SaveReply
  <2> DEFINE L == Len(saves)
             w == saves[1]
  <2>1. /\ L \in Nat \ {0} /\ DOMAIN saves = 1 .. L /\ w \in Write /\ w.k \in 1 .. 5
        /\ mem' = mem /\ phase' = phase /\ day' = day
        /\ \A i \in 1 .. (L - 1) : saves'[i] = saves[i + 1]
        /\ w.k < 5 => DOMAIN saves' = 1 .. L /\ saves'[L].k = w.k + 1
        /\ w.k = 3 => saves'[L].val = mem.lastDate
        /\ w.k = 5 => DOMAIN saves' = 1 .. (L - 1)
        /\ w.k = 4 => disk'["lastDate"] = w.val
        /\ w.k # 4 => disk'["lastDate"] = disk["lastDate"]
    BY <1>3, ReplyEffect
  <2>2. 1 \in DOMAIN saves /\ saves[1] = w
    BY <2>1
  <2> HIDE DEF L, w
  <2>3. disk'["lastDate"] # Absent =>
            /\ 1 <= disk'["lastDate"] /\ disk'["lastDate"] <= day
            /\ phase # "none" => disk'["lastDate"] <= mem.lastDate
    <3>1. CASE w.k = 4
      BY <1>0, <1>2, <2>1, <2>2, <3>1
    <3>2. CASE w.k # 4
      BY <1>2, <2>1, <3>2
    <3> QED BY <3>1, <3>2
  <2>4. \A i \in DOMAIN saves' : saves'[i].k = 4 =>
           \/ i # L /\ i + 1 \in DOMAIN saves /\ saves'[i] = saves[i + 1]
           \/ i = L /\ w.k = 3 /\ saves'[i].val = mem.lastDate
    BY <2>1
  <2>5. phase # "none"
    BY <2>2 DEF Quiet
  <2>6. ASSUME NEW i \in DOMAIN saves', saves'[i].k = 4
        PROVE  /\ 1 <= saves'[i].val /\ saves'[i].val <= mem.lastDate
               /\ disk'["lastDate"] # Absent => disk'["lastDate"] <= saves'[i].val
    <3>1. CASE i # L /\ i + 1 \in DOMAIN saves /\ saves'[i] = saves[i + 1]
      <4>1. w.k = 4 => w.val <= saves[i + 1].val
        BY <1>2, <2>1, <2>2, <2>6, <3>1
      <4> QED BY <1>2, <2>1, <2>6, <3>1, <4>1
    <3>2. CASE i = L /\ w.k = 3 /\ saves'[i].val = mem.lastDate
      BY <1>0, <1>2, <2>1, <2>5, <3>2
    <3> QED BY <2>4, <2>6, <3>1, <3>2
  <2>7. ASSUME NEW i \in DOMAIN saves', NEW j \in DOMAIN saves', i < j,
               saves'[i].k = 4, saves'[j].k = 4
        PROVE  saves'[i].val <= saves'[j].val
    <3>1. i # L /\ i + 1 \in DOMAIN saves /\ saves'[i] = saves[i + 1]
      BY <2>1, <2>4, <2>7
    <3>2. CASE j # L /\ j + 1 \in DOMAIN saves /\ saves'[j] = saves[j + 1]
      <4>1. i + 1 < j + 1
        BY <2>1, <2>7
      <4> QED BY <1>2, <2>7, <3>1, <3>2, <4>1
    <3>3. CASE j = L /\ w.k = 3 /\ saves'[j].val = mem.lastDate
      BY <1>2, <2>7, <3>1, <3>3
    <3> QED BY <2>4, <2>7, <3>2, <3>3
  <2> QED BY <1>2, <2>1, <2>3, <2>6, <2>7 DEF DatesFlow
<1>4. CASE Kill \/ Reboot
  <2>1. /\ saves' = <<>> /\ mem'.lastDate = 1 /\ disk' = disk /\ phase' = "none" /\ day' = day
    BY <1>4 DEF Kill, Reboot, ProcessEnds, Fresh, env
  <2> QED BY <1>0, <1>2, <2>1 DEF DatesFlow
<1>5. ASSUME disk' = disk, Extended(saves, saves'), mem'.lastDate \in Int,
             1 <= mem'.lastDate, mem'.lastDate <= day,
             saves = <<>> \/ mem.lastDate <= mem'.lastDate,
             disk["lastDate"] # Absent /\ phase' # "none" => disk["lastDate"] <= mem'.lastDate
      PROVE  DatesFlow'
  <2>1. \A i \in DOMAIN saves' : saves'[i].k = 4 =>
            i \in DOMAIN saves /\ saves'[i] = saves[i] /\ saves[i].k = 4
    BY <1>5 DEF Extended
  <2>2. \A i \in DOMAIN saves : saves[i].k = 4 => saves[i].val <= mem'.lastDate
    BY <1>0, <1>2, <1>5
  <2>3. mem'.lastDate <= day' /\ (disk["lastDate"] # Absent => disk["lastDate"] <= day')
    BY <1>0, <1>1, <1>2, <1>5
  <2>4. \A i \in DOMAIN saves' : saves'[i].k = 4 =>
            /\ 1 <= saves'[i].val /\ saves'[i].val <= mem'.lastDate
            /\ disk["lastDate"] # Absent => disk["lastDate"] <= saves'[i].val
            /\ \A j \in DOMAIN saves' : i < j /\ saves'[j].k = 4 => saves'[i].val <= saves'[j].val
    BY <1>2, <2>1, <2>2
  <2> QED BY <1>2, <1>5, <2>3, <2>4 DEF DatesFlow
<1>6. CASE Load
  BY <1>0, <1>2, <1>5, <1>6, LoadDate
<1>7. CASE ~SaveReply /\ ~Kill /\ ~Reboot /\ ~Load
  <2>1. /\ \/ mem'.lastDate = day
           \/ mem'.lastDate = mem.lastDate /\ (phase = "none" => phase' = "none")
        /\ phase' = "none" => phase = "none"
    BY <1>7, DateEffect
  <2>2. disk' = disk /\ Extended(saves, saves')
    BY <1>7, SavesEffect
  <2> QED BY <1>0, <1>2, <1>5, <2>1, <2>2
<1> QED BY <1>3, <1>4, <1>6, <1>7
(* When the file is behind the page's date, the saves that will bring it   *)
(* up are running.                                                         *)
LEMMA PageStep ==
  ASSUME TypeOK, SavesCatchUp, Quiet, DatesFlow, PageAhead, [Next]_vars
  PROVE  PageAhead'
<1>0. /\ mem \in FieldType /\ mem.lastDate \in Int /\ saves \in Seq(Write)
      /\ Extended(saves, saves)
  BY ExtendedSelf DEF TypeOK, FieldType
<1>a. ASSUME ~mounted' \/ phase' = "loading" PROVE PageAhead'
  BY <1>a DEF PageAhead
<1>b. ASSUME disk' = disk, Extended(saves, saves'), mem'.lastDate = mem.lastDate,
             mounted, phase # "loading",
             mem'.today > 0 => mem.today > 0 \/ Longer(saves, saves')
      PROVE  PageAhead'
  <2> DEFINE e == mem.lastDate
  <2> SUFFICES ASSUME Behind(saves', disk, e)
               PROVE  Ahead(saves', e) # {} /\ (mem'.today > 0 => Two(Ahead(saves', e)))
    BY <1>b DEF PageAhead
  <2>1. Ahead(saves, e) # {} /\ (mem.today > 0 => Two(Ahead(saves, e)))
    BY <1>0, <1>b, AheadExtended DEF PageAhead
  <2> QED BY <1>0, <1>b, <2>1, AheadExtended, AheadLonger
<1>c. ASSUME disk' = disk, saves' = saves, mem' = mem,
             mounted' = mounted, phase' = phase \/ phase # "loading"
      PROVE  PageAhead'
  BY <1>a, <1>b, <1>c, <1>0
<1> USE DEF env, page, bounds, aux
<1>1. CASE Open
  BY <1>1, <1>a DEF Open
<1>2. CASE Load
  <2> DEFINE m == Restored(mem, cache)
  <2>1. saves = <<>> /\ disk' = disk /\ Extended(saves, saves') /\ mounted' = mounted
    BY <1>2, LoadDate
  <2>2. /\ m \in FieldType
        /\ disk["lastDate"] = Absent => m.lastDate = mem.lastDate
        /\ disk["lastDate"] # Absent => m.lastDate = disk["lastDate"]
    BY <2>1, LoadedFields
  <2>3. CheckDateChange(m, TRUE) /\ TRUE \in BOOLEAN
    BY <1>2 DEF Load
  <2> HIDE DEF m
  <2>4. m.lastDate \in Int
    BY <2>2 DEF FieldType
  <2>5. ~Behind(saves, disk, m.lastDate)
    BY <2>1, <2>2, <2>4 DEF Behind
  <2>6. CASE mem' = m
    BY <1>0, <2>1, <2>5, <2>6, AheadExtended DEF PageAhead
  <2>7. CASE ~mounted
    BY <1>a, <2>1, <2>7
  <2>8. CASE /\ mem' = NewDayReset(Banked(m), day)
             /\ \E q : /\ IF m.today > 0 THEN Longer(saves, q) ELSE q = saves
                       /\ q \in Seq(Write) /\ Longer(q, saves')
    <3>1. mem'.today = 0
      BY <2>2, <2>8, BankedType, ResetFields
    <3>2. Ahead(saves', mem'.lastDate) # {}
      BY <2>8, AheadLonger
    <3> QED BY <3>1, <3>2 DEF PageAhead
  <2> QED BY <2>2, <2>3, <2>6, <2>7, <2>8, CheckDateEffect
<1>3. CASE Permission \/ StreamDone
  BY <1>3, <1>c DEF Permission, StreamDone, prefs
<1>4. CASE StepEvent
  <2>1. Counted(mem, sensor) \in FieldType /\ Counted(mem, sensor).lastDate = mem.lastDate
    <3>1. Counted(mem, sensor) \in FieldType
      BY <1>0, CountedType DEF TypeOK
    <3>2. Counted(mem, sensor).lastDate = mem.lastDate
      BY <1>0 DEF Counted, FieldType
    <3> QED BY <3>1, <3>2
  <2>2. disk' = disk /\ mounted' = mounted /\ phase # "loading"
    BY <1>4 DEF StepEvent
  <2>3. CASE mounted
    <3>1. mem' = Counted(mem, sensor) /\ Longer(saves, saves')
      BY <1>4, <2>1, <2>2, <2>3, SaveDataEffect DEF StepEvent
    <3> QED BY <1>b, <2>1, <2>2, <2>3, <3>1 DEF Longer
  <2>4. CASE ~mounted
    BY <1>a, <2>2, <2>4
  <2> QED BY <2>3, <2>4
<1>5. CASE Pause
  <2>1. mounted /\ mounted' = mounted /\ phase' = phase /\ disk' = disk /\ SaveTodaySteps
    BY <1>5 DEF Pause
  <2>2. CASE phase = "loading"
    BY <1>a, <2>1, <2>2
  <2>3. CASE phase # "loading"
    <3>1. Banked(mem).lastDate = mem.lastDate /\ Banked(mem).today = mem.today
      BY <1>0, BankedFields
    <3> QED BY <1>0, <1>b, <2>1, <2>3, <3>1, SaveTodayEffect DEF Longer
  <2> QED BY <2>2, <2>3
<1>6. CASE Dispose
  BY <1>6, <1>a DEF Dispose
<1>7. CASE Resume
  <2>1. /\ mounted /\ mounted' = mounted /\ phase' = phase /\ disk' = disk
        /\ CheckDateChange(mem, phase # "loading") /\ (phase # "loading") \in BOOLEAN
    BY <1>7, Zenon DEF Resume
  <2>2. CASE phase = "loading"
    BY <1>a, <2>1, <2>2
  <2>3. CASE phase # "loading"
    <3>1. \/ mem' = mem /\ saves' = saves
          \/ /\ mem' = NewDayReset(Banked(mem), day)
             /\ \E q \in Seq(Write) : Longer(q, saves')
      BY <1>0, <2>1, <2>3, CheckDateEffect
    <3>2. CASE mem' = mem /\ saves' = saves
      BY <1>c, <2>1, <2>3, <3>2
    <3>3. CASE /\ mem' = NewDayReset(Banked(mem), day)
               /\ \E q \in Seq(Write) : Longer(q, saves')
      <4>1. mem'.today = 0
        BY <1>0, <3>3, BankedType, ResetFields
      <4>2. Ahead(saves', mem'.lastDate) # {}
        BY <3>3, AheadLonger
      <4> QED BY <4>1, <4>2 DEF PageAhead
    <3> QED BY <3>1, <3>2, <3>3
  <2> QED BY <2>2, <2>3
<1>8. ASSUME NEW m \in FieldType, SaveData(m), mounted, mounted' = mounted, phase' = phase,
             disk' = disk, m.lastDate = mem.lastDate, m.today = 0 \/ m.today = mem.today
      PROVE  PageAhead'
  <2>1. CASE phase = "loading"
    BY <1>8, <1>a, <2>1
  <2>2. CASE phase # "loading"
    <3>1. mem' = m /\ Extended(saves, saves')
      BY <1>8, <2>2, SaveDataEffect DEF Longer
    <3> QED BY <1>8, <1>b, <2>2, <3>1
  <2> QED BY <2>1, <2>2
<1>9. CASE ResetTodaySteps
  <2> DEFINE m == [mem EXCEPT !.baseline = mem.total, !.today = 0]
  <2>1. m \in FieldType /\ m.lastDate = mem.lastDate /\ m.today = 0
    BY <1>0 DEF FieldType
  <2>2. SaveData(m) /\ mounted /\ mounted' = mounted /\ phase' = phase /\ disk' = disk
    BY <1>9 DEF ResetTodaySteps, OnTodayView
  <2> HIDE DEF m
  <2> QED BY <1>8, <2>1, <2>2
<1>10. CASE ResetAllHistory
  <2> DEFINE m == [mem EXCEPT !.history = <<>>, !.today = 0, !.baseline = mem.total]
  <2>1. m \in FieldType /\ m.lastDate = mem.lastDate /\ m.today = 0
    BY <1>0, EmptyLists DEF FieldType
  <2>2. SaveData(m) /\ mounted /\ mounted' = mounted /\ phase' = phase /\ disk' = disk
    BY <1>10 DEF ResetAllHistory, OnHistoryView
  <2> HIDE DEF m
  <2> QED BY <1>8, <2>1, <2>2
<1>11. ASSUME NEW g \in Goals, SetGoal(g) PROVE PageAhead'
  <2> DEFINE m == [mem EXCEPT !.goal = g]
  <2>1. m \in FieldType /\ m.lastDate = mem.lastDate /\ m.today = mem.today
    BY <1>0 DEF FieldType
  <2>2. SaveData(m) /\ mounted /\ mounted' = mounted /\ phase' = phase /\ disk' = disk
    BY <1>11 DEF SetGoal, OnTodayView
  <2> HIDE DEF m
  <2> QED BY <1>8, <2>1, <2>2
<1>12. CASE SaveReply
  <2>1. mem' = mem /\ phase' = phase /\ mounted' = mounted
    BY <1>12 DEF SaveReply
  <2>2. mem.lastDate <= mem.lastDate
    BY <1>0
  <2> SUFFICES ASSUME mounted, phase # "loading", Behind(saves', disk', mem.lastDate)
               PROVE  /\ Ahead(saves', mem.lastDate) # {}
                      /\ mem.today > 0 => Two(Ahead(saves', mem.lastDate))
    BY <2>1 DEF PageAhead
  <2> QED BY <1>0, <1>12, <2>2, AheadReply DEF PageAhead
<1>13. CASE Kill \/ Reboot
  BY <1>13, <1>a DEF Kill, Reboot, ProcessEnds
<1>14. CASE Walk \/ Midnight \/ ClockBack \/ UNCHANGED vars
  BY <1>14, <1>c DEF Walk, Midnight, ClockBack, vars, prefs
<1>15. ASSUME NEW v \in {"today", "history"}, SelectView(v) PROVE PageAhead'
  BY <1>15, <1>c DEF SelectView, prefs
<1> QED
  BY <1>1, <1>2, <1>3, <1>4, <1>5, <1>6, <1>7, <1>9, <1>10, <1>11, <1>12, <1>13,
     <1>14, <1>15 DEF Next
-----------------------------------------------------------------------------
(* The order of the histories. *)

(* The dates of a history are dates. *)
LEMMA EntryDates ==
  ASSUME NEW h \in Seq(Entry), NEW i \in DOMAIN h
  PROVE  h[i].date \in Int
<1>1. h[i] \in Entry
  BY LenProperties, ElementOfSeq
<1> QED BY <1>1 DEF Entry

(* The histories are lists of entries. *)
LEMMA HistoriesType == ASSUME TypeOK, NEW h \in Histories PROVE h \in Seq(Entry)
<1>1. mem.history \in Seq(Entry) /\ (disk["history"] # Absent => disk["history"] \in Seq(Entry))
  BY DEF TypeOK, FieldType, StoreOK
<1>2. ASSUME NEW i \in DOMAIN saves, saves[i].k = 5 PROVE saves[i].val \in Seq(Entry)
  <2>1. saves[i] \in Write
    BY LenProperties, ElementOfSeq DEF TypeOK
  <2> QED BY <1>2, <2>1 DEF Write
<1> QED BY <1>1, <1>2 DEF Histories

(* The file is not behind the dates up to its own when no save runs. *)
LEMMA FileAlone ==
  ASSUME TypeOK, DatesFlow, saves = <<>>, NEW e \in Int
  PROVE  /\ ~Three(Ahead(saves, e))
         /\ Behind(saves, disk, e) <=> disk["lastDate"] # Absent /\ disk["lastDate"] < e
<1>1. ~Three(Ahead(saves, e))
  <2>1. saves \in Seq(Write) /\ Len(saves) = 0
    BY DEF TypeOK
  <2>2. Len(saves) <= 2
    BY <2>1
  <2> QED BY <2>1, <2>2, NotThree, Zenon
<1>2. Behind(saves, disk, e) <=> disk["lastDate"] # Absent /\ disk["lastDate"] < e
  BY DEF Behind
<1> QED BY <1>1, <1>2

(* What EntriesAhead says of an entry of a history survives a step. *)
LEMMA EntryKept ==
  ASSUME TypeOK, SavesCatchUp, Quiet, Dated, DatesFlow, EntriesAhead, [Next]_vars,
         backs' = 0, ~torn', NEW h \in Histories, NEW i \in DOMAIN h
  PROVE  /\ phase' # "none" => h[i].date <= mem'.lastDate
         /\ Behind(saves', disk', h[i].date) => Three(Ahead(saves', h[i].date))
<1> DEFINE e == h[i].date
<1>0. /\ e \in Int /\ mem.lastDate \in Int /\ day \in Int /\ saves \in Seq(Write)
      /\ disk["lastDate"] # Absent => disk["lastDate"] \in Int
  BY HistoriesType, EntryDates DEF TypeOK, FieldType, StoreOK
<1>1. /\ phase # "none" => e <= mem.lastDate
      /\ Behind(saves, disk, e) => Three(Ahead(saves, e))
  BY DEF EntriesAhead
<1> HIDE DEF e
<1>2. /\ mem.lastDate <= day /\ (disk["lastDate"] # Absent => disk["lastDate"] <= day)
  BY DEF DatesFlow
<1>3. ASSUME phase \in {"none", "loading"}
      PROVE  saves = <<>> /\ disk["lastDate"] # Absent /\ e <= disk["lastDate"]
  <2>1. saves = <<>> /\ mem.history = <<>>
    BY <1>3 DEF Quiet
  <2>2. disk["history"] # Absent
    <3>1. h # <<>>
      OBVIOUS
    <3> QED BY <2>1, <3>1 DEF Histories
  <2>3. disk["lastDate"] # Absent
    BY <2>2 DEF Dated
  <2>4. ~(disk["lastDate"] < e)
    BY <1>0, <1>1, <2>1, <2>3, FileAlone
  <2> QED BY <1>0, <2>1, <2>3, <2>4
<1>4. phase' # "none" => e <= mem'.lastDate
  <2>1. CASE Kill \/ Reboot
    BY <2>1 DEF Kill, Reboot, ProcessEnds
  <2>2. CASE Load
    <3>1. phase = "loading"
      BY <2>2 DEF Load
    <3>2. mem'.lastDate = day \/ mem'.lastDate = disk["lastDate"]
      BY <1>3, <2>2, <3>1, LoadDate
    <3> QED BY <1>0, <1>2, <1>3, <3>1, <3>2
  <2>3. CASE ~Load /\ ~Kill /\ ~Reboot
    <3>1. \/ mem'.lastDate = day
          \/ mem'.lastDate = mem.lastDate /\ (phase = "none" => phase' = "none")
      BY <2>3, DateEffect
    <3>2. e <= day
      BY <1>0, <1>1, <1>2, <1>3
    <3> QED BY <1>1, <3>1, <3>2
  <2> QED BY <2>1, <2>2, <2>3
<1>5. Behind(saves', disk', e) => Three(Ahead(saves', e))
  <2> SUFFICES ASSUME Behind(saves', disk', e) PROVE Three(Ahead(saves', e))
    OBVIOUS
  <2>1. CASE SaveReply
    <3>1. phase # "none"
      BY <1>3, <2>1 DEF SaveReply
    <3> QED BY <1>0, <1>1, <2>1, <3>1, AheadReply
  <2>2. CASE (Kill \/ Reboot) /\ disk' = disk /\ saves' = <<>>
    <3>1. Len(saves) \in Nat /\ ~(Len(saves) > 2)
      BY <1>0, <2>2, LenProperties DEF Kill, Reboot, ProcessEnds
    <3>2. ~Three(Ahead(saves, e))
      BY <1>0, <3>1, NotThree
    <3>3. Behind(saves, disk, e)
      BY <2>2 DEF Behind
    <3> QED BY <1>1, <3>2, <3>3
  <2>3. CASE disk' = disk /\ Extended(saves, saves')
    BY <1>0, <1>1, <2>3, AheadExtended
  <2> QED BY <2>1, <2>2, <2>3, SavesEffect
<1> QED BY <1>4, <1>5 DEF e

(* The page's history after a load is in order, and the file is behind     *)
(* none of its entries.                                                    *)
LEMMA LoadOrdered ==
  ASSUME TypeOK, SavesCatchUp, Quiet, Dated, DatesFlow, EntriesAhead,
         \A h \in Histories : StrictlyNewestFirst(h), Load
  PROVE  /\ StrictlyNewestFirst(mem'.history)
         /\ \A i \in DOMAIN mem'.history :
               /\ mem'.history[i].date <= mem'.lastDate
               /\ ~Behind(saves', disk', mem'.history[i].date)
<1> DEFINE m == Restored(mem, cache)
<1>0. /\ mem.lastDate \in Int /\ day \in Int /\ saves \in Seq(Write)
      /\ disk["lastDate"] # Absent => disk["lastDate"] \in Int
      /\ 1 <= mem.lastDate /\ mem.lastDate <= day
      /\ disk["lastDate"] # Absent => 1 <= disk["lastDate"] /\ disk["lastDate"] <= day
  BY DEF TypeOK, FieldType, StoreOK, DatesFlow
<1>1. saves = <<>> /\ disk' = disk /\ Extended(saves, saves')
  BY LoadDate
<1>2. /\ m \in FieldType
      /\ disk["history"] = Absent => m.history = SampleHistory
      /\ disk["history"] # Absent => m.history = disk["history"]
      /\ disk["lastDate"] = Absent => m.lastDate = mem.lastDate
      /\ disk["lastDate"] # Absent => m.lastDate = disk["lastDate"]
  BY <1>1, LoadedFields
<1>3. mem' \in {m, Banked(m), NewDayReset(Banked(m), day)}
  BY LoadEffect
<1> HIDE DEF m
<1>4. /\ m.lastDate \in Int /\ m.history \in Seq(Entry)
      /\ 1 <= m.lastDate /\ m.lastDate <= day
  BY <1>0, <1>2 DEF FieldType
<1>5. \A e \in Int : e <= m.lastDate => ~Behind(saves', disk', e)
  <2> SUFFICES ASSUME NEW e \in Int, e <= m.lastDate PROVE ~Behind(saves', disk', e)
    OBVIOUS
  <2>1. ~Behind(saves, disk, e)
    BY <1>0, <1>1, <1>2, <1>4, FileAlone
  <2> QED BY <1>0, <1>1, <2>1, AheadExtended
<1>6. StrictlyNewestFirst(m.history) /\ DatesUpTo(m.history, m.lastDate)
  <2>1. CASE disk["history"] = Absent
    <3>1. StrictlyNewestFirst(SampleHistory)
      BY SampleAssumption DEF StrictlyNewestFirst
    <3>2. \A i \in DOMAIN m.history : m.history[i].date \in Int /\ m.history[i].date <= 0
      BY <1>2, <1>4, <2>1, SampleAssumption, EntryDates
    <3>3. DatesUpTo(m.history, m.lastDate)
      BY <1>4, <3>2 DEF DatesUpTo
    <3> QED BY <1>2, <2>1, <3>1, <3>3
  <2>2. CASE disk["history"] # Absent
    <3>1. m.history \in Histories
      BY <1>2, <2>2 DEF Histories
    <3>2. disk["lastDate"] # Absent
      BY <2>2 DEF Dated
    <3>3. ASSUME NEW i \in DOMAIN m.history PROVE m.history[i].date <= m.lastDate
      <4>1. m.history[i].date \in Int
        BY <1>4, EntryDates
      <4>2. Behind(saves, disk, m.history[i].date) => Three(Ahead(saves, m.history[i].date))
        BY <3>1 DEF EntriesAhead
      <4>3. ~(disk["lastDate"] < m.history[i].date)
        BY <1>1, <3>2, <4>1, <4>2, FileAlone
      <4> QED BY <1>0, <1>2, <3>2, <4>1, <4>3
    <3> QED BY <3>1, <3>3 DEF DatesUpTo
  <2> QED BY <2>1, <2>2
<1>7. /\ StrictlyNewestFirst(Banked(m).history) /\ DatesUpTo(Banked(m).history, m.lastDate)
      /\ Banked(m).history \in Seq(Entry) /\ Banked(m).lastDate = m.lastDate
  <2>1. Banked(m).history \in Seq(Entry) /\ Banked(m).lastDate = m.lastDate
    BY <1>2, BankedType, BankedFields DEF FieldType
  <2>2. CASE m.today > 0
    <3>1. /\ TodayEntry(m) \in Entry /\ TodayEntry(m).date = m.lastDate
          /\ Banked(m).history = WithEntry(m.history, TodayEntry(m))
      BY <1>2, <2>2, TodayEntryType, BankedFields
    <3>2. /\ StrictlyNewestFirst(Banked(m).history)
          /\ \A i \in DOMAIN Banked(m).history :
                \/ Banked(m).history[i].date = m.lastDate
                \/ \E j \in DOMAIN m.history : Banked(m).history[i].date = m.history[j].date
      BY <1>4, <1>6, <3>1, WithEntryOrdered
    <3>3. DatesUpTo(Banked(m).history, m.lastDate)
      BY <1>4, <1>6, <3>2 DEF DatesUpTo
    <3> QED BY <2>1, <3>2, <3>3
  <2>3. CASE ~(m.today > 0)
    BY <1>2, <1>6, <2>1, <2>3, BankedFields
  <2> QED BY <2>2, <2>3
<1>8. /\ NewDayReset(Banked(m), day).history = Banked(m).history
      /\ NewDayReset(Banked(m), day).lastDate = day
  BY <1>2, BankedType, ResetFields
<1>9. /\ mem'.history \in Seq(Entry) /\ StrictlyNewestFirst(mem'.history)
      /\ DatesUpTo(mem'.history, m.lastDate)
      /\ mem'.lastDate = m.lastDate \/ mem'.lastDate = day
  BY <1>3, <1>4, <1>6, <1>7, <1>8
<1>10. ASSUME NEW i \in DOMAIN mem'.history
       PROVE  /\ mem'.history[i].date <= mem'.lastDate
              /\ ~Behind(saves', disk', mem'.history[i].date)
  <2>1. mem'.history[i].date \in Int /\ mem'.history[i].date <= m.lastDate
    BY <1>9, EntryDates DEF DatesUpTo
  <2> QED BY <1>0, <1>4, <1>5, <1>9, <2>1
<1> QED BY <1>9, <1>10

(* Every step keeps the order of every history. *)
LEMMA OrderStep ==
  ASSUME TypeOK, SavesCatchUp, OrderInv, [Next]_vars
  PROVE  OrderInv'
<1>1. Quiet' /\ Dated'
  BY QuietStep, DatedStep DEF OrderInv
<1>2. ASSUME backs' = 0 PROVE DatesFlow'
  BY <1>2, ClockEffect, FlowStep DEF OrderInv
<1>3. ASSUME backs' = 0, ~torn'
      PROVE  /\ \A h \in Histories' : StrictlyNewestFirst(h)
             /\ PageAhead' /\ EntriesAhead'
  <2>1. /\ Quiet /\ Dated /\ DatesFlow /\ PageAhead /\ EntriesAhead
        /\ \A h \in Histories : StrictlyNewestFirst(h)
    BY <1>3, ClockEffect DEF OrderInv
  <2>2. PageAhead'
    BY <2>1, PageStep
  <2>3. /\ StrictlyNewestFirst(mem'.history)
        /\ \A i \in DOMAIN mem'.history :
              /\ phase' # "none" => mem'.history[i].date <= mem'.lastDate
              /\ Behind(saves', disk', mem'.history[i].date) =>
                    Three(Ahead(saves', mem'.history[i].date))
    <3> DEFINE H == mem'.history
    <3>0. mem \in FieldType /\ mem.history \in Histories /\ saves \in Seq(Write)
      BY DEF TypeOK, Histories
    <3>1. CASE Load
      BY <2>1, <3>1, LoadOrdered
    <3>2. CASE ~Load /\ H = mem.history
      BY <1>3, <2>1, <3>0, <3>2, EntryKept
    <3>3. CASE H = <<>>
      BY <3>3 DEF StrictlyNewestFirst
    <3>4. CASE /\ ~Load /\ mem.today > 0 /\ H = WithEntry(mem.history, TodayEntry(mem))
               /\ mounted /\ phase # "loading" /\ Longer(saves, saves') /\ disk' = disk
      <4>1. /\ TodayEntry(mem) \in Entry /\ TodayEntry(mem).date = mem.lastDate
            /\ mem.history \in Seq(Entry) /\ mem.lastDate \in Int /\ day \in Int
        BY <3>0, <3>4, TodayEntryType DEF FieldType, TypeOK
      <4>2. phase # "none"
        BY <2>1, <3>4 DEF Quiet
      <4>3. DatesUpTo(mem.history, mem.lastDate)
        BY <2>1, <3>0, <4>2 DEF EntriesAhead, DatesUpTo
      <4>4. /\ StrictlyNewestFirst(H)
            /\ \A i \in DOMAIN H : \/ H[i].date = mem.lastDate
                                   \/ \E j \in DOMAIN mem.history : H[i].date = mem.history[j].date
        BY <2>1, <3>0, <3>4, <4>1, <4>3, WithEntryOrdered
      <4>5. mem.lastDate <= mem'.lastDate
        <5>1. ~Kill /\ ~Reboot
          BY <3>4 DEF Kill, Reboot, ProcessEnds, Longer
        <5>2. mem'.lastDate = day \/ mem'.lastDate = mem.lastDate
          BY <3>4, <5>1, DateEffect
        <5> QED BY <2>1, <4>1, <5>2 DEF DatesFlow
      <4>6. Behind(saves', disk', mem.lastDate) => Three(Ahead(saves', mem.lastDate))
        BY <2>1, <3>0, <3>4, AheadExtended, AheadLonger DEF PageAhead, Longer
      <4>7. \A j \in DOMAIN mem.history :
               /\ phase' # "none" => mem.history[j].date <= mem'.lastDate
               /\ Behind(saves', disk', mem.history[j].date) =>
                     Three(Ahead(saves', mem.history[j].date))
        BY <1>3, <2>1, <3>0, EntryKept
      <4> QED BY <4>4, <4>5, <4>6, <4>7
    <3> QED BY <2>1, <3>1, <3>2, <3>3, <3>4, FieldsEffect
  <2>4. ASSUME NEW h \in Histories'
        PROVE  /\ StrictlyNewestFirst(h)
               /\ \A i \in DOMAIN h :
                    /\ phase' # "none" => h[i].date <= mem'.lastDate
                    /\ Behind(saves', disk', h[i].date) => Three(Ahead(saves', h[i].date))
    <3>1. CASE h \in Histories
      BY <1>3, <2>1, <3>1, EntryKept
    <3>2. CASE h = mem'.history
      BY <2>3, <3>2
    <3> QED BY <2>4, <3>1, <3>2, HistoriesStep
  <2>5. EntriesAhead'
    BY <2>4 DEF EntriesAhead, Behind, Ahead, Three
  <2> QED BY <2>2, <2>4, <2>5
<1>4. (\A h \in Histories : StrictlyNewestFirst(h))' <=> \A h \in Histories' : StrictlyNewestFirst(h)
  BY DEF StrictlyNewestFirst
<1> QED BY <1>1, <1>2, <1>3, <1>4 DEF OrderInv

(* While the clock never goes back and no process ends with three saves    *)
(* running, the page's history and the stored one are in strictly          *)
(* descending order of the days, and no entry is ahead of the date the     *)
(* next one will be filed under: for any number of saves running at once   *)
(* and wherever a kill falls between their writes.                         *)
THEOREM HistoryInOrder == Spec => []NewestFirst
<1>1. Init => OrderInv
  <2> SUFFICES ASSUME Init PROVE OrderInv
    OBVIOUS
  <2>1. /\ mem.history = <<>> /\ mem.today = 0 /\ mem.lastDate = 1 /\ saves = <<>>
        /\ disk["history"] = Absent /\ disk["lastDate"] = Absent /\ day = 1
        /\ phase = "none" /\ ~mounted
    BY DEF Init, Fresh, Keys
  <2>2. Histories = {<<>>}
    BY <2>1 DEF Histories
  <2>3. Quiet /\ Dated /\ DatesFlow
    BY <2>1 DEF Quiet, Dated, DatesFlow
  <2>4. PageAhead /\ EntriesAhead /\ \A h \in Histories : StrictlyNewestFirst(h)
    BY <2>1, <2>2 DEF PageAhead, EntriesAhead, StrictlyNewestFirst
  <2> QED BY <2>3, <2>4 DEF OrderInv
<1>2. TypeOK /\ SavesCatchUp /\ OrderInv /\ [Next]_vars => OrderInv'
  BY OrderStep
<1>3. TypeOK /\ OrderInv => NewestFirst
  <2> SUFFICES ASSUME TypeOK, OrderInv, backs = 0, ~torn
               PROVE  /\ StrictlyNewestFirst(mem.history) /\ DatesUpTo(mem.history, mem.lastDate)
                      /\ disk["history"] # Absent =>
                           /\ StrictlyNewestFirst(disk["history"])
                           /\ Len(saves) <= 2 => DatesUpTo(disk["history"], disk["lastDate"])
    BY DEF NewestFirst
  <2>1. /\ Quiet /\ Dated /\ DatesFlow /\ EntriesAhead
        /\ \A h \in Histories : StrictlyNewestFirst(h)
        /\ mem.history \in Histories
        /\ disk["history"] # Absent => disk["history"] \in Histories
    BY DEF OrderInv, Histories
  <2>2. DatesUpTo(mem.history, mem.lastDate)
    BY <2>1 DEF EntriesAhead, Quiet, DatesUpTo
  <2>3. ASSUME disk["history"] # Absent, Len(saves) <= 2, NEW i \in DOMAIN disk["history"]
        PROVE  disk["history"][i].date <= disk["lastDate"]
    <3> DEFINE e == disk["history"][i].date
    <3>1. disk["lastDate"] # Absent /\ disk["lastDate"] \in Int
      BY <2>1, <2>3 DEF Dated, TypeOK, StoreOK
    <3>2. e \in Int
      BY <2>1, <2>3, HistoriesType, EntryDates
    <3>3. ~Three(Ahead(saves, e))
      BY <2>3, NotThree DEF TypeOK
    <3>4. ~Behind(saves, disk, e)
      BY <2>1, <2>3, <3>3 DEF EntriesAhead
    <3>5. ~(disk["lastDate"] < e)
      BY <3>1, <3>4 DEF Behind
    <3> QED BY <3>1, <3>2, <3>5
  <2> QED BY <2>1, <2>2, <2>3 DEF DatesUpTo
<1> QED BY <1>1, <1>2, <1>3, TypeCorrect, CatchUp, PTL DEF Spec
=============================================================================
