------------------------------ MODULE StepCounter ------------------------------
(***************************************************************************)
(* The step-counter page (lib/health/step_counter/step_counter_page.dart). *)
(*                                                                         *)
(* One State object (_StepCounterPageState) keeps today's count, the       *)
(* sensor baseline, the goal and the history in memory and persists them   *)
(* through SharedPreferences.  Everything runs on one thread; what makes   *)
(* it hard is _saveData: five awaited writes, each of which reads the      *)
(* field it stores at the moment it is reached, so that several running    *)
(* calls interleave with each other and with every handler, and a process  *)
(* kill can fall between any two of them.                                  *)
(*                                                                         *)
(* Days are numbered, dates at or before 0 belong to the bundled sample    *)
(* history.  The status text is left out.                                  *)
(***************************************************************************)
EXTENDS Integers, Sequences

CONSTANTS
    Absent,         \* what SharedPreferences returns for a key never written
    DefaultGoal,    \* 10000 in the code
    Goals,          \* the goals a user may enter (zero and negative included)
    SampleHistory,  \* the demonstration entries of _loadSavedData
    HistoryLimit,   \* 30 in the code
    SensorStart,    \* values the hardware counter may have at installation
    MaxDay, MaxWalk, MaxSaves, MaxFaults     \* bounds

ASSUME HistoryAssumption ==
    /\ HistoryLimit \in Nat \ {0}
    /\ SampleHistory \in Seq([date : Int, steps : Nat \ {0}, goal : Int])

(* The five demonstration entries: newest first, older than any day the    *)
(* page runs on.                                                           *)
ASSUME SampleAssumption ==
    /\ Len(SampleHistory) <= HistoryLimit
    /\ \A i, j \in DOMAIN SampleHistory :
          i < j => SampleHistory[i].date > SampleHistory[j].date
    /\ \A i \in DOMAIN SampleHistory : SampleHistory[i].date <= 0

ASSUME GoalAssumption ==
    /\ DefaultGoal \in Goals
    /\ Goals \subseteq Int

ASSUME SensorAssumption ==
    /\ SensorStart \subseteq Nat
    /\ MaxDay \in Nat \ {0}

ASSUME AbsentAssumption ==
    /\ Absent \notin Int
    /\ Absent \notin Seq([date : Int, steps : Nat \ {0}, goal : Int])

VARIABLES
    day,         \* the date DateTime.now() reports
    sensor,      \* steps since boot, as the hardware counts them
    walked,      \* steps really taken since installation (auxiliary)
    phase,       \* how far _initialize and the pedometer stream have come
    mounted,     \* the State is in the tree: setState is allowed
    foreground,  \* the app is resumed
    view,        \* _selectedIndex
    mem,         \* the fields of the State
    cache,       \* the in-process map of SharedPreferences
    disk,        \* the preferences file
    saves,       \* the outstanding write of every running _saveData, in order
    lateRoll,    \* a disposed State has rolled the date over (auxiliary)
    torn,        \* a process ended with three or more saves running (auxiliary)
    kills, boots, backs                                  \* bounded counters

env  == <<day, sensor, walked>>
page == <<phase, mounted, foreground, view>>
prefs == <<cache, saves>>
aux == <<lateRoll, torn>>
bounds == <<kills, boots, backs>>
vars == <<env, page, mem, prefs, disk, aux, bounds>>

Entry == [date : Int, steps : Nat \ {0}, goal : Int]

(* The keys _saveData writes, in its order. *)
KeyOrder == <<"baseline", "today", "goal", "lastDate", "history">>
Keys == {"baseline", "today", "goal", "lastDate", "history"}

-----------------------------------------------------------------------------
(* The State's fields and what each handler computes from them. *)

(* The field initialisers: a new State starts from zero, dated now. *)
Fresh(d) ==
    [baseline |-> 0, today |-> 0, goal |-> DefaultGoal,
     lastDate |-> d, history |-> <<>>, total |-> 0]

Stored(s, key, default) == IF s[key] = Absent THEN default ELSE s[key]

(* _loadSavedData: every key has a default; a missing lastDate keeps the    *)
(* field as it is.                                                         *)
Restored(m, s) ==
    [m EXCEPT !.baseline = Stored(s, "baseline", 0),
              !.today    = Stored(s, "today", 0),
              !.goal     = Stored(s, "goal", DefaultGoal),
              !.lastDate = Stored(s, "lastDate", m.lastDate),
              !.history  = Stored(s, "history", SampleHistory)]

EntriesOf(h, d) == {i \in DOMAIN h : h[i].date = d}

(* Mutants of WithEntry: the look-up of the date is missing; a new entry   *)
(* goes to the end.                                                        *)
WithEntryAlways(h, e) ==
    SubSeq(<<e>> \o h, 1, IF Len(h) < HistoryLimit THEN Len(h) + 1 ELSE HistoryLimit)

WithEntryLast(h, e) ==
    [i \in 1 .. (IF Len(h) < HistoryLimit THEN Len(h) + 1 ELSE Len(h)) |->
       IF i <= Len(h) THEN h[i] ELSE e]

(* The history after _saveTodaySteps stores entry e: the first entry of    *)
(* the same date is replaced, else e goes to the front; then the trim.     *)
WithEntry(h, e) ==
    LET same == EntriesOf(h, e.date)
        first == CHOOSE i \in same : \A j \in same : i <= j
        longer == IF same = {} THEN <<e>> \o h ELSE [h EXCEPT ![first] = e]
    IN  IF Len(longer) > HistoryLimit THEN SubSeq(longer, 1, HistoryLimit)
                                      ELSE longer

TodayEntry(m) == [date |-> m.lastDate, steps |-> m.today, goal |-> m.goal]

(* Mutant: the early return of _saveTodaySteps is missing. *)
BankedAlways(m) == [m EXCEPT !.history = WithEntry(@, TodayEntry(m))]

(* _saveTodaySteps, up to its call of _saveData. *)
Banked(m) ==
    IF m.today > 0 THEN [m EXCEPT !.history = WithEntry(@, TodayEntry(m))] ELSE m

(* Mutant: the count is not reset. *)
NewDayKeepsCount(m, d) == [m EXCEPT !.baseline = m.total, !.lastDate = d]

(* The setState of _resetForNewDay. *)
NewDayReset(m, d) ==
    [m EXCEPT !.baseline = m.total, !.today = 0, !.lastDate = d]

(* The setState of _onStepCount. *)
Counted(m, n) ==
    LET b == IF m.baseline = 0 THEN n ELSE m.baseline
    IN  [m EXCEPT !.total    = n,
                  !.baseline = IF n < b THEN n ELSE b,
                  !.today    = IF n < b THEN 0 ELSE n - b]

-----------------------------------------------------------------------------
(* SharedPreferences: setX updates the process's map at once and sends the *)
(* write to the platform; writes reach the file, and are answered, in the  *)
(* order they were sent.                                                   *)

FirstWrite(m) == [k |-> 1, val |-> m.baseline]

(* A call of _saveData runs up to its first await.  Before getInstance has *)
(* answered, _prefs is not initialised and the call fails without writing. *)
SaveData(m) ==
    /\ mem' = m
    /\ IF phase = "loading"
       THEN UNCHANGED prefs
       ELSE /\ saves' = Append(saves, FirstWrite(m))
            /\ cache' = [cache EXCEPT !["baseline"] = m.baseline]

(* _saveTodaySteps: nothing at all when there is nothing to save. *)
SaveTodaySteps ==
    IF mem.today > 0 THEN SaveData(Banked(mem)) ELSE UNCHANGED <<mem, prefs>>

(* _checkDateChange on fields m; ready says that _prefs is initialised.    *)
(* On another day: bank and save, then reset and save.  On a disposed State *)
(* the setState of the reset throws, before its callback in a debug build  *)
(* and after it in a release build, and the second save is not reached.    *)
CheckDateChange(m, ready) ==
    LET banked == Banked(m)
        reset  == NewDayReset(banked, day)
        saved  == IF m.today > 0 THEN Append(saves, FirstWrite(banked)) ELSE saves
    IN  \/ m.lastDate = day /\ mem' = m /\ UNCHANGED prefs
        \/ /\ m.lastDate # day /\ mounted
           /\ mem' = reset
           /\ IF ready
              THEN /\ saves' = Append(saved, FirstWrite(reset))
                   /\ cache' = [cache EXCEPT !["baseline"] = reset.baseline]
              ELSE UNCHANGED prefs
        \/ /\ m.lastDate # day /\ ~mounted
           /\ mem' \in {banked, reset}
           /\ saves' = saved
           /\ cache' = IF m.today > 0 THEN [cache EXCEPT !["baseline"] = m.baseline]
                                      ELSE cache

(* Bound: at most MaxSaves calls of _saveData run at once. *)
Room(n) == Len(saves) + n <= MaxSaves

(* Mutant: _saveData ends before the history. *)
SaveReplyNoHistory ==
    /\ saves # <<>>
    /\ LET w == Head(saves)
           next == KeyOrder[w.k + 1]
       IN  /\ disk' = [disk EXCEPT ![KeyOrder[w.k]] = w.val]
           /\ IF w.k < 4
              THEN /\ saves' = Append(Tail(saves), [k |-> w.k + 1, val |-> mem[next]])
                   /\ cache' = [cache EXCEPT ![next] = mem[next]]
              ELSE saves' = Tail(saves) /\ UNCHANGED cache
    /\ UNCHANGED <<env, page, mem, aux, bounds>>

(* The answer to the oldest write: the next one of the same _saveData      *)
(* reads its field now.                                                    *)
SaveReply ==
    /\ saves # <<>>
    /\ LET w == Head(saves)
           next == KeyOrder[w.k + 1]
       IN  /\ disk' = [disk EXCEPT ![KeyOrder[w.k]] = w.val]
           /\ IF w.k < 5
              THEN /\ saves' = Append(Tail(saves), [k |-> w.k + 1, val |-> mem[next]])
                   /\ cache' = [cache EXCEPT ![next] = mem[next]]
              ELSE saves' = Tail(saves) /\ UNCHANGED cache
    /\ UNCHANGED <<env, page, mem, aux, bounds>>

-----------------------------------------------------------------------------
(* The page's life. *)

Init ==
    /\ day = 1 /\ sensor \in SensorStart /\ walked = 0
    /\ phase = "none" /\ mounted = FALSE /\ foreground = TRUE /\ view = "today"
    /\ mem = Fresh(1)
    /\ cache = [key \in Keys |-> Absent] /\ disk = cache
    /\ saves = <<>>
    /\ lateRoll = FALSE /\ torn = FALSE
    /\ kills = 0 /\ boots = 0 /\ backs = 0

(* initState.  Bound: a page is not opened while an earlier one still      *)
(* loads or saves, so one State at a time owns the running saves.  The     *)
(* earlier State's listener, never cancelled, has no visible effect.       *)
Open ==
    /\ ~mounted /\ phase # "loading" /\ saves = <<>>
    /\ mounted' = TRUE /\ phase' = "loading" /\ view' = "today"
    /\ mem' = Fresh(day)
    /\ UNCHANGED <<env, foreground, prefs, disk, aux, bounds>>

(* _initialize after getInstance: load, ask for the permission, check the  *)
(* date.  Runs on a disposed State too.                                    *)
Load ==
    /\ phase = "loading" /\ Room(2)
    /\ phase' = "asking"
    /\ CheckDateChange(Restored(mem, cache), TRUE)
    /\ lateRoll' = (lateRoll \/ (~mounted /\ Restored(mem, cache).lastDate # day))
    /\ UNCHANGED <<env, mounted, foreground, view, disk, torn, bounds>>

(* The answer to the permission request; granted, the page subscribes to   *)
(* the pedometer stream (a disposed one too, before its setState throws).  *)
Permission ==
    /\ phase = "asking"
    /\ phase' \in {"listening", "denied"}
    /\ UNCHANGED <<env, mounted, foreground, view, mem, prefs, disk, aux, bounds>>

(* _onDone. *)
StreamDone ==
    /\ phase = "listening"
    /\ phase' = "stopped"
    /\ UNCHANGED <<env, mounted, foreground, view, mem, prefs, disk, aux, bounds>>

(* _onStepCount.  There is no date check here.  On a disposed State        *)
(* setState throws as in CheckDateChange and nothing is saved.             *)
StepEvent ==
    /\ phase = "listening" /\ Room(1)
    /\ IF mounted
       THEN SaveData(Counted(mem, sensor))
       ELSE mem' \in {mem, Counted(mem, sensor)} /\ UNCHANGED prefs
    /\ UNCHANGED <<env, page, disk, aux, bounds>>

(* didChangeAppLifecycleState(paused). *)
Pause ==
    /\ mounted /\ foreground /\ Room(1)
    /\ foreground' = FALSE
    /\ SaveTodaySteps
    /\ UNCHANGED <<env, phase, mounted, view, disk, aux, bounds>>

(* didChangeAppLifecycleState(resumed). *)
Resume ==
    /\ mounted /\ ~foreground /\ Room(2)
    /\ foreground' = TRUE
    /\ CheckDateChange(mem, phase # "loading")
    /\ UNCHANGED <<env, phase, mounted, view, disk, aux, bounds>>

(* The user is looking at the view, and its buttons are always enabled. *)
OnTodayView == mounted /\ foreground /\ view = "today"
OnHistoryView == mounted /\ foreground /\ view = "history"

(* The app-bar button and the bottom bar. *)
SelectView(v) ==
    /\ mounted /\ foreground /\ view # v
    /\ view' = v
    /\ UNCHANGED <<env, phase, mounted, foreground, mem, prefs, disk, aux, bounds>>

(* Mutant: the reset is not saved. *)
ResetTodayUnsaved ==
    /\ OnTodayView
    /\ mem' = [mem EXCEPT !.baseline = mem.total, !.today = 0]
    /\ UNCHANGED <<env, page, prefs, disk, aux, bounds>>

(* The confirmed dialog of _resetTodaySteps. *)
ResetTodaySteps ==
    /\ OnTodayView /\ Room(1)
    /\ SaveData([mem EXCEPT !.baseline = mem.total, !.today = 0])
    /\ UNCHANGED <<env, page, disk, aux, bounds>>

(* The confirmed dialog of _resetAllHistory. *)
ResetAllHistory ==
    /\ OnHistoryView /\ Room(1)
    /\ SaveData([mem EXCEPT !.history = <<>>, !.today = 0, !.baseline = mem.total])
    /\ UNCHANGED <<env, page, disk, aux, bounds>>

(* The saved dialog of _showSetGoalDialog; text that is no integer gives   *)
(* DefaultGoal.                                                            *)
SetGoal(g) ==
    /\ OnTodayView /\ Room(1)
    /\ SaveData([mem EXCEPT !.goal = g])
    /\ UNCHANGED <<env, page, disk, aux, bounds>>

(* dispose: the back button takes the page down. *)
Dispose ==
    /\ mounted /\ foreground /\ Room(1)
    /\ SaveTodaySteps
    /\ mounted' = FALSE
    /\ UNCHANGED <<env, phase, foreground, view, disk, aux, bounds>>

-----------------------------------------------------------------------------
(* The world around the page. *)

Walk ==
    /\ walked < MaxWalk
    /\ walked' = walked + 1 /\ sensor' = sensor + 1
    /\ UNCHANGED <<day, page, mem, prefs, disk, aux, bounds>>

Midnight ==
    /\ day < MaxDay
    /\ day' = day + 1
    /\ UNCHANGED <<sensor, walked, page, mem, prefs, disk, aux, bounds>>

(* Bound: kills, reboots and steps back of the clock together. *)
FaultsLeft == kills + boots + backs < MaxFaults

(* The user or the network sets the clock back a day. *)
ClockBack ==
    /\ day > 1 /\ FaultsLeft
    /\ day' = day - 1 /\ backs' = backs + 1
    /\ UNCHANGED <<sensor, walked, page, mem, prefs, disk, aux, kills, boots>>

(* The process ends: memory, the preference map and unsent writes are gone; *)
(* the next process fills its map from the file.                           *)
ProcessEnds ==
    /\ phase' = "none" /\ mounted' = FALSE /\ foreground' = TRUE /\ view' = "today"
    /\ mem' = Fresh(1)
    /\ saves' = <<>> /\ cache' = disk
    /\ torn' = (torn \/ Len(saves) > 2)
    /\ UNCHANGED <<disk, lateRoll>>

Kill ==
    /\ phase # "none" /\ FaultsLeft
    /\ kills' = kills + 1
    /\ ProcessEnds
    /\ UNCHANGED <<env, boots, backs>>

(* A reboot also restarts the hardware counter from zero. *)
Reboot ==
    /\ FaultsLeft
    /\ boots' = boots + 1
    /\ sensor' = 0
    /\ ProcessEnds
    /\ UNCHANGED <<day, walked, kills, backs>>

Next ==
    \/ Open \/ Load \/ Permission \/ StreamDone \/ StepEvent
    \/ Pause \/ Resume \/ Dispose
    \/ ResetTodaySteps \/ ResetAllHistory
    \/ \E g \in Goals : SetGoal(g)
    \/ \E v \in {"today", "history"} : SelectView(v)
    \/ SaveReply
    \/ Walk \/ Midnight \/ ClockBack \/ Kill \/ Reboot

Spec == Init /\ [][Next]_vars

-----------------------------------------------------------------------------
(* Properties *)

FieldType ==
    [baseline : Nat, today : Nat, goal : Goals, lastDate : Int,
     history : Seq(Entry), total : Nat]

StoreOK(s) ==
    /\ DOMAIN s = Keys
    /\ s["baseline"] = Absent \/ s["baseline"] \in Nat
    /\ s["today"] = Absent \/ s["today"] \in Nat
    /\ s["goal"] = Absent \/ s["goal"] \in Goals
    /\ s["lastDate"] = Absent \/ s["lastDate"] \in Int
    /\ s["history"] = Absent \/ s["history"] \in Seq(Entry)

(* A write in flight: its place in KeyOrder and a value of that key's type. *)
Write ==
    [k : {1, 2}, val : Nat] \cup [k : {3}, val : Goals]
    \cup [k : {4}, val : Int] \cup [k : {5}, val : Seq(Entry)]

(* Type correctness.  Its content is in the fields: the counts never go    *)
(* negative although every one of them comes from a subtraction or from a  *)
(* file written by another process, and every history entry, in memory, in *)
(* flight or in the file, has at least one step, so the history view       *)
(* (steps / goal, goal possibly 0) never computes 0 / 0.                   *)
TypeOK ==
    /\ day \in Int /\ sensor \in Nat /\ walked \in Nat
    /\ phase \in {"none", "loading", "asking", "listening", "denied", "stopped"}
    /\ mounted \in BOOLEAN /\ foreground \in BOOLEAN
    /\ view \in {"today", "history"}
    /\ mem \in FieldType
    /\ StoreOK(cache) /\ StoreOK(disk)
    /\ saves \in Seq(Write)
    /\ lateRoll \in BOOLEAN /\ torn \in BOOLEAN
    /\ kills \in Nat /\ boots \in Nat /\ backs \in Nat

(* Once the page is initialised and no _saveData is running, loading the   *)
(* file into the State would change none of its fields: the interleaved,   *)
(* field-by-field saves of several handlers add up to a complete one, with *)
(* no older value of any key written last.                                 *)
ReloadAgrees ==
    mounted /\ phase # "loading" /\ saves = <<>>
        => \A key \in Keys : Restored(mem, disk)[key] = mem[key]

(* For the key at place j of KeyOrder: the youngest write of it in queue q *)
(* carries the map's value, and without one the file has that value.       *)
Settled(q, c, d, j) ==
    /\ (\A i \in DOMAIN q : q[i].k # j) => d[KeyOrder[j]] = c[KeyOrder[j]]
    /\ \A i \in DOMAIN q :
          q[i].k = j /\ (\A n \in DOMAIN q : n > i => q[n].k # j)
              => q[i].val = c[KeyOrder[j]]

(* Map c agrees with fields m on every key, except on those a save running *)
(* in queue q has still to reach.                                          *)
Covered(m, q, c) ==
    \A j \in 1 .. 5 :
        \/ Restored(m, c)[KeyOrder[j]] = m[KeyOrder[j]]
        \/ \E i \in DOMAIN q : q[i].k < j

(* Why ReloadAgrees holds.  In an initialised page the map agrees with the *)
(* fields on every key, except on those a running _saveData has still to   *)
(* reach; and the file is behind the map only by writes in flight, however *)
(* the saves overlap and whoever started them.                             *)
SavesCatchUp ==
    /\ mounted /\ phase # "loading" => Covered(mem, saves, cache)
    /\ \A j \in 1 .. 5 : Settled(saves, cache, disk, j)

StrictlyNewestFirst(h) ==
    \A i, j \in DOMAIN h : i < j => h[i].date > h[j].date

DatesUpTo(h, d) == \A i \in DOMAIN h : h[i].date <= d

(* While the clock never goes back, the history in memory and in the file  *)
(* is in strictly descending date order (one entry per day, and the trim   *)
(* to HistoryLimit drops the oldest), and no entry is ahead of the date    *)
(* _saveTodaySteps would file the next one under: also after a kill left   *)
(* the five keys from different saves.  The one exception is a process     *)
(* that ends with three saves running: the file may then have an entry of  *)
(* the new day under the old date, because a save begun before the date    *)
(* change stores the history of now, and a later count of the old date     *)
(* goes in front of it.                                                    *)
NewestFirst ==
    backs = 0 /\ ~torn =>
        /\ StrictlyNewestFirst(mem.history) /\ DatesUpTo(mem.history, mem.lastDate)
        /\ disk["history"] # Absent =>
             /\ StrictlyNewestFirst(disk["history"])
             /\ Len(saves) <= 2 => DatesUpTo(disk["history"], disk["lastDate"])

(* Whatever the clock does, no date has two entries, and the history never *)
(* outgrows its limit.                                                     *)
OneEntryPerDate ==
    /\ \A i, j \in DOMAIN mem.history :
          mem.history[i].date = mem.history[j].date => i = j
    /\ Len(mem.history) <= HistoryLimit

(* "Save today's steps to history before resetting": when the process is   *)
(* killed, every finished day in memory is in the file, as an entry or as  *)
(* the unbanked count of its date.                                         *)
FinishedDaySurvives ==
    [][Kill => \A i \in DOMAIN mem.history :
         LET e == mem.history[i]
         IN  e.date >= 1 /\ e.date # mem.lastDate =>
               \/ disk["history"] # Absent
                  /\ \E j \in DOMAIN disk["history"] : disk["history"][j].date = e.date
               \/ disk["lastDate"] = e.date /\ disk["today"] = e.steps]_vars
=============================================================================
