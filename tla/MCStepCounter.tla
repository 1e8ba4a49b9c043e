----------------------------- MODULE MCStepCounter -----------------------------
(* Small instances of StepCounter for TLC. *)
EXTENDS StepCounter, FiniteSetsExt

(* One demonstration entry, dated before the first day, stands for the five. *)
MCSample == <<[date |-> 0, steps |-> 2, goal |-> 2]>>

(* The steps the page accounts for: the real, finished days of the history *)
(* (the entry of the current date is a copy of today's count) and today.   *)
StepsOfHistory(h, current) ==
    MapThenSumSet(LAMBDA i : h[i].steps,
                  {i \in DOMAIN h : h[i].date >= 1 /\ h[i].date # current})

(* The page never credits the user with steps that were not taken: the     *)
(* finished days and today's count together are at most the steps walked,  *)
(* over counter restarts, kills between two writes of a save, reloads,     *)
(* resets and days that end while the page is closed.  There are two       *)
(* exceptions.  A date change found by a State that was disposed while it  *)
(* loaded: in a release build its running save stores the new date and a   *)
(* zero count with the old baseline, and the old day's steps are counted   *)
(* again.  And a process that ends with three or more saves running: the   *)
(* file may hold the new day's count both as its entry and under the old   *)
(* date.                                                                   *)
NoOvercount ==
    mounted /\ ~lateRoll /\ ~torn =>
        StepsOfHistory(mem.history, mem.lastDate) + mem.today <= walked
=============================================================================
