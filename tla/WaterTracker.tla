------------------------------ MODULE WaterTracker ------------------------------
(***************************************************************************)
(* The water tracker (lib/project/water_tracker/water_tracker.dart).       *)
(*                                                                         *)
(* A tank between 0 and targetWater that a timer fills by one a second and *)
(* buttons by more; when a button meets a limit the page shows a snack     *)
(* bar, unless one of its own is up (_isSnackBarVisible).  Snack bars      *)
(* belong to the app's ScaffoldMessenger: they queue behind those of other *)
(* screens and outlive the page, whose callback on their closing then      *)
(* finds a disposed State.  The timer is never cancelled; on a disposed    *)
(* State its setState throws and nobody sees the tank any more.            *)
(***************************************************************************)
EXTENDS Integers, Sequences, FiniteSets

CONSTANTS
    Target,             \* targetWater, 2000 in the code
    Adds, Removes,      \* the amounts of the buttons, {100, 200} and {100}
    MaxBars             \* bound: snack bars in the messenger's queue

ASSUME WaterAssumption ==
    /\ Target \in Nat \ {0}
    /\ Adds \subseteq Nat \ {0} /\ Removes \subseteq Nat \ {0}
    /\ MaxBars \in Nat

VARIABLES
    waterOpen, \* the page is open
    water,     \* currentWaterInTank
    visible,   \* _isSnackBarVisible
    bars       \* the messenger's queue: TRUE for a bar of the open page

waterVars == <<waterOpen, water, visible, bars>>

Mine == {i \in DOMAIN bars : bars[i]}

WaterInit == waterOpen = FALSE /\ water = 0 /\ visible = FALSE /\ bars = <<>>

(* A new State; its timer starts. *)
OpenTracker ==
    /\ ~waterOpen
    /\ waterOpen' = TRUE /\ water' = 0 /\ visible' = FALSE
    /\ UNCHANGED bars

(* The back button: the bars stay, their callbacks reach nobody. *)
Close ==
    /\ waterOpen
    /\ waterOpen' = FALSE
    /\ bars' = [i \in DOMAIN bars |-> FALSE]
    /\ UNCHANGED <<water, visible>>

(* Mutant: the flag is not looked at. *)
AnnounceAlways == visible' = TRUE /\ bars' = Append(bars, TRUE)

(* The page shows a bar, when none of its own is up. *)
Announce ==
    IF visible THEN UNCHANGED <<visible, bars>>
    ELSE visible' = TRUE /\ bars' = Append(bars, TRUE)

(* waterAdd.  Bound, here and below: MaxBars bars are queued. *)
WaterAdd(n) ==
    /\ waterOpen /\ Len(bars) < MaxBars
    /\ IF water + n >= Target
       THEN water' = Target /\ Announce
       ELSE water' = water + n /\ UNCHANGED <<visible, bars>>
    /\ UNCHANGED waterOpen

(* waterRemove. *)
WaterRemove(n) ==
    /\ waterOpen /\ Len(bars) < MaxBars
    /\ IF water - n <= 0
       THEN water' = 0 /\ Announce
       ELSE water' = water - n /\ UNCHANGED <<visible, bars>>
    /\ UNCHANGED waterOpen

(* The timer: full is not announced. *)
Tick ==
    /\ waterOpen
    /\ water' = IF water + 1 >= Target THEN Target ELSE water + 1
    /\ UNCHANGED <<waterOpen, visible, bars>>

(* Mutant: closing does not clear the flag. *)
BarClosesUnnoticed ==
    /\ bars # <<>>
    /\ bars' = Tail(bars)
    /\ UNCHANGED <<waterOpen, water, visible>>

(* The bar in front closes, after its time or by a swipe. *)
BarCloses ==
    /\ bars # <<>>
    /\ bars' = Tail(bars)
    /\ visible' = (visible /\ ~Head(bars))
    /\ UNCHANGED <<waterOpen, water>>

(* Another screen shows a snack bar. *)
OtherBar ==
    /\ Len(bars) < MaxBars
    /\ bars' = Append(bars, FALSE)
    /\ UNCHANGED <<waterOpen, water, visible>>

WaterNext ==
    \/ OpenTracker \/ Close \/ Tick \/ BarCloses \/ OtherBar
    \/ \E n \in Adds : WaterAdd(n)
    \/ \E n \in Removes : WaterRemove(n)

WaterSpec == WaterInit /\ [][WaterNext]_waterVars

(* The messenger closes every bar in the end. *)
FairWater == WaterSpec /\ WF_waterVars(BarCloses)

-----------------------------------------------------------------------------
(* Properties *)

(* Type correctness; the tank never leaves its limits, whatever mixture of *)
(* buttons and ticks meets them, so the progress ring gets a value between *)
(* 0 and 1.                                                                *)
WaterTypeOK ==
    /\ waterOpen \in BOOLEAN /\ visible \in BOOLEAN
    /\ water \in 0 .. Target
    /\ bars \in Seq(BOOLEAN)

(* _isSnackBarVisible tells the truth: it is set exactly while a bar of    *)
(* this page, and then only one, is in the messenger's queue, also when    *)
(* bars of other screens or of an earlier visit are in front of it.        *)
FlagMeansBar ==
    /\ Cardinality(Mine) <= 1
    /\ waterOpen => (visible <=> Mine # {})

(* The flag cannot stay set and silence the page for good. *)
FlagClears == (waterOpen /\ visible) ~> (~waterOpen \/ ~visible)
=============================================================================
