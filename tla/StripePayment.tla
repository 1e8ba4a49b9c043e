----------------------------- MODULE StripePayment -----------------------------
(***************************************************************************)
(* Payments (lib/stripe): every press of a button starts a call that       *)
(* creates a payment intent at Stripe, gives it to the native payment      *)
(* sheet, presents the sheet and shows a message.                          *)
(*                                                                         *)
(* The buttons are never disabled and there is one sheet: it holds the     *)
(* intent it was given last, whichever call presents it.  The page may be  *)
(* left, or the process end, at any await.  What Stripe's server and SDK   *)
(* do is external: the server takes each intent's money once, and the      *)
(* result of the sheet is true.                                            *)
(***************************************************************************)
EXTENDS Integers, Sequences, FiniteSets

CONSTANTS Amounts, MaxPresses, MaxVisits       \* the prices; bounds

ASSUME StripeAssumption ==
    Amounts \subseteq Nat /\ MaxPresses \in Nat /\ MaxVisits \in Nat

VARIABLES
    calls,    \* the calls, in the order of the presses
    sheet,    \* the call whose intent the native sheet holds, 0 for none
    paid,     \* the calls whose intents were paid, as Stripe's server knows
    page,     \* the visit whose page is open, 0 for none
    closing,  \* visits whose page is leaving and still mounted
    visits    \* pages opened so far

vars == <<calls, sheet, paid, page, closing, visits>>

Stages == {"creating", "created", "ready", "up", "paid",
           "succeeded", "failed", "silent", "killed"}
Ended == {"succeeded", "failed", "silent", "killed"}

Underway(i) == calls[i].stage \notin Ended

SheetUp == \E i \in DOMAIN calls : calls[i].stage = "up"

Mounted(v) == v = page \/ v \in closing

Init ==
    /\ calls = <<>> /\ sheet = 0 /\ paid = {}
    /\ page = 0 /\ closing = {} /\ visits = 0

OpenPage ==
    /\ page = 0 /\ visits < MaxVisits /\ ~SheetUp
    /\ visits' = visits + 1 /\ page' = visits + 1
    /\ UNCHANGED <<calls, sheet, paid, closing>>

LeavePage ==
    /\ page # 0 /\ ~SheetUp
    /\ page' = 0 /\ closing' = closing \cup {page}
    /\ UNCHANGED <<calls, sheet, paid, visits>>

(* The exit transition ends; from here on the call's context is defunct. *)
Disposed(v) ==
    /\ closing' = closing \ {v}
    /\ UNCHANGED <<calls, sheet, paid, page, visits>>

(* A button, with its price in cents.  A call is alone (auxiliary) if no   *)
(* other call is under way before it ends.                                 *)
Press(amount) ==
    /\ page # 0 /\ ~SheetUp /\ Len(calls) < MaxPresses
    /\ calls' = Append([i \in DOMAIN calls |->
                          [calls[i] EXCEPT !.alone = @ /\ ~Underway(i)]],
                  [cents |-> amount * 100, visit |-> page, stage |-> "creating",
                   shown |-> 0, alone |-> \A i \in DOMAIN calls : ~Underway(i)])
    /\ UNCHANGED <<sheet, paid, page, closing, visits>>

To(i, stage) == calls' = [calls EXCEPT ![i].stage = stage]

(* The message at the end of the handler.  On a defunct context its lookup *)
(* throws, in the catch block as well, and nothing is shown.               *)
Tell(i, message) == To(i, IF Mounted(calls[i].visit) THEN message ELSE "silent")

-----------------------------------------------------------------------------
(* _createPaymentIntent is answered. *)
IntentCreated(i) ==
    /\ calls[i].stage = "creating"
    /\ To(i, "created")
    /\ UNCHANGED <<sheet, paid, page, closing, visits>>

(* Mutant: initPaymentSheet does not rethrow, and the handler presents. *)
PreparingFailsOn(i) ==
    /\ calls[i].stage \in {"creating", "created"}
    /\ To(i, "ready")
    /\ UNCHANGED <<sheet, paid, page, closing, visits>>

(* The request or the sheet's initialisation throws: initPaymentSheet      *)
(* rethrows and the handler goes to its catch block.                       *)
PreparingFails(i) ==
    /\ calls[i].stage \in {"creating", "created"}
    /\ Tell(i, "failed")
    /\ UNCHANGED <<sheet, paid, page, closing, visits>>

(* Stripe.initPaymentSheet: the sheet takes this call's intent. *)
SheetInitialised(i) ==
    /\ calls[i].stage = "created"
    /\ To(i, "ready")
    /\ sheet' = i
    /\ UNCHANGED <<paid, page, closing, visits>>

(* Stripe.presentPaymentSheet: the sheet shows the intent it holds. *)
SheetPresented(i) ==
    /\ calls[i].stage = "ready" /\ sheet # 0
    /\ calls' = [calls EXCEPT ![i].stage = "up", ![i].shown = sheet]
    /\ UNCHANGED <<sheet, paid, page, closing, visits>>

(* Mutant: a sheet without an intent is not reported as an error. *)
SheetRefusedIfUp(i) ==
    /\ calls[i].stage = "ready" /\ SheetUp
    /\ Tell(i, "failed")
    /\ UNCHANGED <<sheet, paid, page, closing, visits>>

(* There is no intent, it has been paid, or a sheet is up already. *)
SheetRefused(i) ==
    /\ calls[i].stage = "ready" /\ (sheet \in paid \cup {0} \/ SheetUp)
    /\ Tell(i, "failed")
    /\ UNCHANGED <<sheet, paid, page, closing, visits>>

(* The user pays; the SDK may or may not let go of the intent. *)
Pay(i) ==
    /\ calls[i].stage = "up" /\ calls[i].shown \notin paid
    /\ To(i, "paid")
    /\ paid' = paid \cup {calls[i].shown}
    /\ sheet' \in {0, sheet}
    /\ UNCHANGED <<page, closing, visits>>

(* Mutant: presentPaymentSheet swallows the error. *)
SheetFailsWell(i) ==
    /\ calls[i].stage = "up"
    /\ Tell(i, "succeeded")
    /\ UNCHANGED <<sheet, paid, page, closing, visits>>

(* The sheet is cancelled, or the payment is declined. *)
SheetFails(i) ==
    /\ calls[i].stage = "up"
    /\ Tell(i, "failed")
    /\ UNCHANGED <<sheet, paid, page, closing, visits>>

(* presentPaymentSheet returns. *)
PaymentSucceeds(i) ==
    /\ calls[i].stage = "paid"
    /\ Tell(i, "succeeded")
    /\ UNCHANGED <<sheet, paid, page, closing, visits>>

(* The process ends. *)
Restart ==
    /\ calls' = [i \in DOMAIN calls |->
                    IF Underway(i) THEN [calls[i] EXCEPT !.stage = "killed"] ELSE calls[i]]
    /\ sheet' = 0 /\ page' = 0 /\ closing' = {}
    /\ UNCHANGED <<paid, visits>>

CallStep(i) ==
    \/ IntentCreated(i) \/ PreparingFails(i) \/ SheetInitialised(i)
    \/ SheetPresented(i) \/ SheetRefused(i) \/ PaymentSucceeds(i)

UserStep(i) == Pay(i) \/ SheetFails(i)

Next ==
    \/ OpenPage \/ LeavePage \/ \E v \in closing : Disposed(v)
    \/ \E amount \in Amounts : Press(amount)
    \/ \E i \in DOMAIN calls : CallStep(i) \/ UserStep(i)
    \/ Restart

Spec == Init /\ [][Next]_vars

(* Stripe answers and the handlers go on; nothing is assumed of the user.  *)
Fairness == \A i \in 1 .. MaxPresses : WF_vars(i \in DOMAIN calls /\ CallStep(i))

FairSpec == Spec /\ Fairness

-----------------------------------------------------------------------------
(* Properties *)

(* Type correctness; the intents' amounts are in cents. *)
TypeOK ==
    /\ calls \in Seq([cents : {100 * a : a \in Amounts}, visit : 1 .. MaxVisits,
                      stage : Stages, shown : 0 .. MaxPresses, alone : BOOLEAN])
    /\ sheet \in 0 .. Len(calls) /\ paid \subseteq DOMAIN calls
    /\ page \in 0 .. visits /\ closing \subseteq 1 .. visits /\ visits \in 0 .. MaxVisits

(* A press that no other press overlaps presents its own price, whatever   *)
(* sheets earlier calls have left behind; overlapping presses may present  *)
(* each other's.                                                           *)
ShowsOwnPrice ==
    \A i \in DOMAIN calls :
        calls[i].alone /\ calls[i].stage \in {"up", "paid"} =>
            calls[i].shown = i

(* What an unoverlapped press says is what happened to its own intent:     *)
(* success means it was paid, failure that it was not and, later sheets    *)
(* and presses notwithstanding, never will be.                             *)
MessageIsTrue ==
    \A i \in DOMAIN calls : calls[i].alone =>
        /\ calls[i].stage = "succeeded" => i \in paid
        /\ calls[i].stage = "failed" => i \notin paid

(* Overlapped or not, money is taken once per success: each paid intent    *)
(* belongs to one call that succeeded, is about to, has no page left to    *)
(* say so, or was killed.                                                  *)
PaidOnce ==
    /\ \A i \in DOMAIN calls : calls[i].stage \in {"paid", "succeeded"} =>
          /\ calls[i].shown \in paid
          /\ \A j \in DOMAIN calls : j # i /\ calls[j].shown = calls[i].shown =>
                calls[j].stage \notin {"paid", "succeeded"}
    /\ \A k \in paid : \E i \in DOMAIN calls :
          calls[i].shown = k /\ calls[i].stage \in {"paid", "succeeded", "silent", "killed"}

(* A call under way ends or has its sheet before the user: no overlap, no  *)
(* refused sheet and no page left meanwhile makes it hang.  Money taken is *)
(* acknowledged, also while other calls are under way: the call that took  *)
(* it says so unless its page or the process is gone.                      *)
PressAnswered ==
    \A i \in 1 .. MaxPresses :
        /\ (i \in DOMAIN calls /\ Underway(i))
              ~> (i \in DOMAIN calls /\ calls[i].stage \in Ended \cup {"up"})
        /\ (i \in DOMAIN calls /\ calls[i].stage = "paid")
              ~> (i \in DOMAIN calls /\ calls[i].stage \in {"succeeded", "silent", "killed"})
=============================================================================
