--------------------------- MODULE StripePaymentProofs --------------------------
(***************************************************************************)
(* TLAPS proofs for StripePayment: type correctness, that money is taken   *)
(* once per success (PaidOnce), and that a press no other press overlaps   *)
(* presents its own price (ShowsOwnPrice) and tells the truth              *)
(* (MessageIsTrue), for any number of presses and visits.                  *)
(***************************************************************************)
EXTENDS StripePayment, TLAPS

Call == [cents : {100 * a : a \in Amounts}, visit : 1 .. MaxVisits,
         stage : Stages, shown : 0 .. MaxPresses, alone : BOOLEAN]

(* A call shows an intent from the sheet's presentation on, and it is the  *)
(* intent of a call that was made.                                         *)
ShownWhenPresented ==
    \A i \in DOMAIN calls :
        /\ calls[i].shown \in 0 .. Len(calls)
        /\ calls[i].stage \in {"creating", "created", "ready"} => calls[i].shown = 0
        /\ calls[i].stage \in {"up", "paid", "succeeded"} => calls[i].shown # 0

(* While a call that is alone is under way, no other is. *)
AloneUnderway ==
    \A i, j \in DOMAIN calls : calls[i].alone /\ Underway(i) /\ Underway(j) => i = j

(* A call about to present never finds the intent of another call that was *)
(* alone: its own initialisation came after that call had ended.  One that *)
(* is alone finds its own.                                                 *)
SheetIsFresh ==
    \A i, j \in DOMAIN calls : calls[i].alone /\ calls[j].stage = "ready" =>
        (sheet = i <=> i = j)

(* The intent of a call that was alone is shown by no other call, and from *)
(* the presentation on by itself.                                          *)
AloneIntentPrivate ==
    \A i \in DOMAIN calls : calls[i].alone =>
        /\ \A j \in DOMAIN calls : calls[j].shown = i => j = i
        /\ calls[i].stage \in {"up", "paid", "succeeded"} => calls[i].shown = i

StripeInv ==
    /\ TypeOK /\ Len(calls) <= MaxPresses
    /\ ShownWhenPresented /\ PaidOnce
    /\ AloneUnderway /\ SheetIsFresh /\ AloneIntentPrivate

-----------------------------------------------------------------------------
(* The call handed on: its stage, and nothing else of any call, changes. *)
LEMMA ToFacts ==
  ASSUME TypeOK, NEW i \in DOMAIN calls, NEW s \in Stages, To(i, s)
  PROVE  /\ calls' \in Seq(Call)
         /\ Len(calls') = Len(calls) /\ DOMAIN calls' = DOMAIN calls
         /\ calls'[i].stage = s
         /\ \A j \in DOMAIN calls :
               /\ calls'[j].shown = calls[j].shown
               /\ calls'[j].alone <=> calls[j].alone
               /\ j # i => calls'[j].stage = calls[j].stage
<1>1. calls \in Seq(Call)
  BY DEF TypeOK, Call
<1>2. calls' = [calls EXCEPT ![i] = [calls[i] EXCEPT !.stage = s]]
  BY DEF To
<1>3. calls[i] \in Call
  BY <1>1
<1>4. /\ [calls[i] EXCEPT !.stage = s] \in Call
      /\ [calls[i] EXCEPT !.stage = s].stage = s
      /\ [calls[i] EXCEPT !.stage = s].shown = calls[i].shown
      /\ [calls[i] EXCEPT !.stage = s].alone = calls[i].alone
  BY <1>3 DEF Call
<1>5. /\ calls' \in Seq(Call) /\ Len(calls') = Len(calls) /\ DOMAIN calls' = DOMAIN calls
      /\ calls'[i] = [calls[i] EXCEPT !.stage = s]
      /\ \A j \in DOMAIN calls : j # i => calls'[j] = calls[j]
  BY <1>1, <1>2, <1>4
<1> QED BY <1>4, <1>5, Zenon

(* A call that ends, without success unless its intent was paid, keeps     *)
(* the invariant.                                                          *)
LEMMA EndKeeps ==
  ASSUME StripeInv, NEW i \in DOMAIN calls, Underway(i),
         NEW s \in {"succeeded", "failed", "silent"}, To(i, s),
         s = "succeeded" => calls[i].stage = "paid",
         calls[i].stage = "paid" => s \in {"succeeded", "silent"},
         UNCHANGED <<sheet, paid, page, closing, visits>>
  PROVE  StripeInv'
<1>1. s \in Stages
  BY DEF Stages
<1>2. /\ calls' \in Seq(Call)
      /\ Len(calls') = Len(calls) /\ DOMAIN calls' = DOMAIN calls
      /\ calls'[i].stage = s
      /\ \A j \in DOMAIN calls :
            /\ calls'[j].shown = calls[j].shown
            /\ calls'[j].alone <=> calls[j].alone
            /\ j # i => calls'[j].stage = calls[j].stage
  BY <1>1, ToFacts DEF StripeInv
<1>3. TypeOK' /\ Len(calls') <= MaxPresses
  BY <1>2 DEF StripeInv, TypeOK, Call
<1>4. ShownWhenPresented'
  BY <1>2 DEF StripeInv, ShownWhenPresented
<1>5. PaidOnce'
  BY <1>2 DEF StripeInv, PaidOnce, Underway, Ended
<1>6. AloneUnderway'
  BY <1>2 DEF StripeInv, AloneUnderway, Underway, Ended
<1>7. SheetIsFresh'
  BY <1>2 DEF StripeInv, SheetIsFresh
<1>8. AloneIntentPrivate'
  BY <1>2 DEF StripeInv, AloneIntentPrivate
<1> QED BY <1>3, <1>4, <1>5, <1>6, <1>7, <1>8 DEF StripeInv

(* The message at the end: the call ends with it, or silently. *)
LEMMA TellKeeps ==
  ASSUME StripeInv, NEW i \in DOMAIN calls, Underway(i),
         NEW m \in {"succeeded", "failed"}, Tell(i, m),
         m = "succeeded" <=> calls[i].stage = "paid",
         UNCHANGED <<sheet, paid, page, closing, visits>>
  PROVE  StripeInv'
<1>1. CASE To(i, m)
  BY <1>1, EndKeeps
<1>2. CASE To(i, "silent")
  BY <1>2, EndKeeps
<1> QED BY <1>1, <1>2 DEF Tell

(* The intent is there: the call goes on. *)
LEMMA CreatedKeeps ==
  ASSUME StripeInv, NEW i \in DOMAIN calls, IntentCreated(i)
  PROVE  StripeInv'
<1>1. /\ calls[i].stage = "creating" /\ To(i, "created")
      /\ UNCHANGED <<sheet, paid, page, closing, visits>>
  BY DEF IntentCreated
<1>2. /\ calls' \in Seq(Call)
      /\ Len(calls') = Len(calls) /\ DOMAIN calls' = DOMAIN calls
      /\ calls'[i].stage = "created"
      /\ \A j \in DOMAIN calls :
            /\ calls'[j].shown = calls[j].shown
            /\ calls'[j].alone <=> calls[j].alone
            /\ j # i => calls'[j].stage = calls[j].stage
  <2>1. "created" \in Stages BY DEF Stages
  <2> QED BY <1>1, <2>1, ToFacts DEF StripeInv
<1>3. TypeOK' /\ Len(calls') <= MaxPresses
  BY <1>1, <1>2 DEF StripeInv, TypeOK, Call
<1>4. ShownWhenPresented' /\ PaidOnce'
  BY <1>1, <1>2 DEF StripeInv, ShownWhenPresented, PaidOnce
<1>5. AloneUnderway'
  BY <1>1, <1>2 DEF StripeInv, AloneUnderway, Underway, Ended
<1>6. SheetIsFresh' /\ AloneIntentPrivate'
  BY <1>1, <1>2 DEF StripeInv, SheetIsFresh, AloneIntentPrivate
<1> QED BY <1>3, <1>4, <1>5, <1>6 DEF StripeInv

(* The sheet takes the call's intent: the call of another intent that is   *)
(* alone has ended, or would not be alone.                                 *)
LEMMA InitialisedKeeps ==
  ASSUME StripeInv, NEW i \in DOMAIN calls, SheetInitialised(i)
  PROVE  StripeInv'
<1>1. /\ calls[i].stage = "created" /\ To(i, "ready") /\ sheet' = i
      /\ UNCHANGED <<paid, page, closing, visits>>
  BY DEF SheetInitialised
<1>2. /\ calls' \in Seq(Call)
      /\ Len(calls') = Len(calls) /\ DOMAIN calls' = DOMAIN calls
      /\ calls'[i].stage = "ready"
      /\ \A j \in DOMAIN calls :
            /\ calls'[j].shown = calls[j].shown
            /\ calls'[j].alone <=> calls[j].alone
            /\ j # i => calls'[j].stage = calls[j].stage
  <2>1. "ready" \in Stages BY DEF Stages
  <2> QED BY <1>1, <2>1, ToFacts DEF StripeInv
<1>3. TypeOK' /\ Len(calls') <= MaxPresses
  <2>1. sheet' \in 0 .. Len(calls')
    BY <1>1, <1>2 DEF StripeInv, TypeOK
  <2> QED BY <1>1, <1>2, <2>1 DEF StripeInv, TypeOK, Call
<1>4. ShownWhenPresented' /\ PaidOnce'
  BY <1>1, <1>2 DEF StripeInv, ShownWhenPresented, PaidOnce
<1>5. AloneUnderway'
  BY <1>1, <1>2 DEF StripeInv, AloneUnderway, Underway, Ended
<1>6. SheetIsFresh'
  <2>1. ASSUME NEW k \in DOMAIN calls, NEW j \in DOMAIN calls,
               calls[k].alone, calls'[j].stage = "ready"
        PROVE  i = k <=> k = j
    <3>1. Underway(j)
      BY <1>1, <1>2, <2>1 DEF Underway, Ended
    <3>2. Underway(i)
      BY <1>1 DEF Underway, Ended
    <3>3. i = k => i = j
      BY <2>1, <3>1, <3>2 DEF StripeInv, AloneUnderway
    <3>4. k = j => i = j
      BY <2>1, <3>1, <3>2 DEF StripeInv, AloneUnderway
    <3> QED BY <3>3, <3>4
  <2> QED BY <1>1, <1>2, <2>1 DEF SheetIsFresh
<1>7. AloneIntentPrivate'
  BY <1>1, <1>2 DEF StripeInv, AloneIntentPrivate
<1> QED BY <1>3, <1>4, <1>5, <1>6, <1>7 DEF StripeInv

(* The sheet comes up with the intent it holds: not with that of another   *)
(* call that was alone.                                                    *)
LEMMA PresentedKeeps ==
  ASSUME StripeInv, NEW i \in DOMAIN calls, SheetPresented(i)
  PROVE  StripeInv'
<1>1. /\ calls[i].stage = "ready" /\ sheet # 0
      /\ calls' = [calls EXCEPT ![i] = [calls[i] EXCEPT !.stage = "up", !.shown = sheet]]
      /\ UNCHANGED <<sheet, paid, page, closing, visits>>
  BY DEF SheetPresented
<1>2. calls \in Seq(Call) /\ calls[i] \in Call /\ sheet \in 0 .. Len(calls) /\ sheet \in 0 .. MaxPresses
  <2>1. calls \in Seq(Call) /\ sheet \in 0 .. Len(calls) /\ Len(calls) <= MaxPresses
    BY DEF StripeInv, TypeOK, Call
  <2> QED BY <2>1, StripeAssumption
<1> DEFINE c == [calls[i] EXCEPT !.stage = "up", !.shown = sheet]
<1>3. c \in Call /\ c.stage = "up" /\ c.shown = sheet /\ c.alone = calls[i].alone
  BY <1>2 DEF Call, Stages
<1>4. /\ calls' \in Seq(Call)
      /\ Len(calls') = Len(calls) /\ DOMAIN calls' = DOMAIN calls
      /\ calls'[i] = c /\ \A j \in DOMAIN calls : j # i => calls'[j] = calls[j]
  BY <1>1, <1>2, <1>3
<1>5. /\ calls'[i].stage = "up" /\ calls'[i].shown = sheet
      /\ \A j \in DOMAIN calls :
            /\ calls'[j].alone <=> calls[j].alone
            /\ j # i => calls'[j].stage = calls[j].stage /\ calls'[j].shown = calls[j].shown
  BY <1>3, <1>4, Zenon
<1>6. TypeOK' /\ Len(calls') <= MaxPresses
  BY <1>1, <1>4 DEF StripeInv, TypeOK, Call
<1>7. ShownWhenPresented'
  BY <1>1, <1>2, <1>4, <1>5 DEF StripeInv, ShownWhenPresented
<1>8. PaidOnce'
  <2>1. calls[i].shown = 0
    BY <1>1 DEF StripeInv, ShownWhenPresented
  <2>2. \A k \in paid : k # 0
    BY <1>2 DEF StripeInv, TypeOK
  <2> QED BY <1>1, <1>4, <1>5, <2>1, <2>2 DEF StripeInv, PaidOnce
<1>9. AloneUnderway'
  BY <1>1, <1>4, <1>5 DEF StripeInv, AloneUnderway, Underway, Ended
<1>10. SheetIsFresh'
  BY <1>1, <1>4, <1>5 DEF StripeInv, SheetIsFresh
<1>11. AloneIntentPrivate'
  BY <1>1, <1>4, <1>5 DEF StripeInv, AloneIntentPrivate, SheetIsFresh
<1> QED BY <1>6, <1>7, <1>8, <1>9, <1>10, <1>11 DEF StripeInv

(* Stripe takes the money of an intent that was not paid: no other call    *)
(* that showed it succeeded.                                               *)
LEMMA PayKeeps ==
  ASSUME StripeInv, NEW i \in DOMAIN calls, Pay(i)
  PROVE  StripeInv'
<1>1. /\ calls[i].stage = "up" /\ calls[i].shown \notin paid /\ To(i, "paid")
      /\ paid' = paid \cup {calls[i].shown} /\ sheet' \in {0, sheet}
      /\ UNCHANGED <<page, closing, visits>>
  BY DEF Pay
<1>2. /\ calls' \in Seq(Call)
      /\ Len(calls') = Len(calls) /\ DOMAIN calls' = DOMAIN calls
      /\ calls'[i].stage = "paid"
      /\ \A j \in DOMAIN calls :
            /\ calls'[j].shown = calls[j].shown
            /\ calls'[j].alone <=> calls[j].alone
            /\ j # i => calls'[j].stage = calls[j].stage
  <2>1. "paid" \in Stages BY DEF Stages
  <2> QED BY <1>1, <2>1, ToFacts DEF StripeInv
<1>3. TypeOK' /\ Len(calls') <= MaxPresses
  <2>1. calls[i].shown \in 0 .. Len(calls) /\ calls[i].shown # 0
    BY <1>1 DEF StripeInv, ShownWhenPresented
  <2>2. calls \in Seq(Call)
    BY DEF StripeInv, TypeOK, Call
  <2>3. calls[i].shown \in DOMAIN calls
    BY <2>1, <2>2
  <2>4. sheet \in 0 .. Len(calls) /\ 0 \in 0 .. Len(calls)
    BY <2>2 DEF StripeInv, TypeOK
  <2> QED BY <1>1, <1>2, <2>3, <2>4 DEF StripeInv, TypeOK, Call
<1>4. ShownWhenPresented'
  BY <1>1, <1>2 DEF StripeInv, ShownWhenPresented
<1>5. PaidOnce'
  BY <1>1, <1>2 DEF StripeInv, PaidOnce
<1>6. AloneUnderway'
  BY <1>1, <1>2 DEF StripeInv, AloneUnderway, Underway, Ended
<1>7. SheetIsFresh'
  <2>1. ASSUME NEW k \in DOMAIN calls, NEW j \in DOMAIN calls,
               calls[k].alone, calls'[j].stage = "ready"
        PROVE  sheet' = k <=> k = j
    <3>1. j # i /\ calls[j].stage = "ready"
      BY <1>1, <1>2, <2>1
    <3>2. sheet = k <=> k = j
      BY <2>1, <3>1 DEF StripeInv, SheetIsFresh
    <3>3. k # j
      BY <1>1, <2>1, <3>1 DEF StripeInv, AloneUnderway, Underway, Ended
    <3>4. k # 0
      BY DEF StripeInv, TypeOK
    <3> QED BY <1>1, <3>2, <3>3, <3>4
  <2> QED BY <1>2, <2>1 DEF SheetIsFresh
<1>8. AloneIntentPrivate'
  BY <1>1, <1>2 DEF StripeInv, AloneIntentPrivate
<1> QED BY <1>3, <1>4, <1>5, <1>6, <1>7, <1>8 DEF StripeInv

(* A press adds a call that is alone if none is under way, and ends the    *)
(* aloneness of those that are.                                            *)
LEMMA PressKeeps ==
  ASSUME StripeInv, NEW a \in Amounts, Press(a)
  PROVE  StripeInv'
<1> DEFINE n == Len(calls) + 1
           old == [i \in 1 .. Len(calls) |-> [calls[i] EXCEPT !.alone = @ /\ ~Underway(i)]]
           new == [cents |-> a * 100, visit |-> page, stage |-> "creating",
                   shown |-> 0, alone |-> \A i \in DOMAIN calls : ~Underway(i)]
<1>1. page # 0 /\ Len(calls) < MaxPresses /\ UNCHANGED <<sheet, paid, page, closing, visits>>
  BY DEF Press
<1>2. /\ calls \in Seq(Call) /\ sheet \in 0 .. Len(calls) /\ paid \subseteq DOMAIN calls
      /\ DOMAIN calls = 1 .. Len(calls) /\ Len(calls) \in Nat
  <2>1. calls \in Seq(Call) /\ sheet \in 0 .. Len(calls) /\ paid \subseteq DOMAIN calls
    BY DEF StripeInv, TypeOK, Call
  <2> QED BY <2>1
<1>3. calls' = Append(old, new)
  BY <1>2, Zenon DEF Press
<1>4. old \in Seq(Call) /\ Len(old) = Len(calls)
  <2>1. \A i \in 1 .. Len(calls) : [calls[i] EXCEPT !.alone = @ /\ ~Underway(i)] \in Call
    <3> SUFFICES ASSUME NEW i \in 1 .. Len(calls)
                 PROVE  [calls[i] EXCEPT !.alone = @ /\ ~Underway(i)] \in Call
      OBVIOUS
    <3>1. calls[i] \in Call
      BY <1>2
    <3>2. (calls[i].alone /\ ~Underway(i)) \in BOOLEAN
      BY Zenon
    <3> QED BY <3>1, <3>2 DEF Call
  <2> QED BY <1>2, <2>1
<1>5. new \in Call
  <2>1. a * 100 \in {100 * b : b \in Amounts}
    BY StripeAssumption
  <2>2. page \in 1 .. MaxVisits
    BY <1>1, StripeAssumption DEF StripeInv, TypeOK
  <2>3. (\A i \in DOMAIN calls : ~Underway(i)) \in BOOLEAN
    BY Zenon
  <2>4. 0 \in 0 .. MaxPresses /\ "creating" \in Stages
    BY StripeAssumption DEF Stages
  <2> QED BY <2>1, <2>2, <2>3, <2>4 DEF Call
<1>6. /\ calls' \in Seq(Call) /\ Len(calls') = n /\ DOMAIN calls' = DOMAIN calls \cup {n}
      /\ n \notin DOMAIN calls /\ calls'[n] = new
      /\ \A i \in DOMAIN calls : calls'[i] = old[i]
  <2> HIDE DEF old, new
  <2> QED BY <1>2, <1>3, <1>4, <1>5
<1>7. /\ calls'[n].stage = "creating" /\ calls'[n].shown = 0
      /\ calls'[n].alone <=> \A i \in DOMAIN calls : ~Underway(i)
  <2>1. new.stage = "creating" /\ new.shown = 0
    OBVIOUS
  <2>2. new.alone = (\A i \in DOMAIN calls : ~Underway(i))
    BY Zenon
  <2> HIDE DEF n, new
  <2> QED BY <1>6, <2>1, <2>2, Zenon
<1>8. \A i \in DOMAIN calls :
         /\ calls'[i].stage = calls[i].stage /\ calls'[i].shown = calls[i].shown
         /\ calls'[i].alone <=> calls[i].alone /\ ~Underway(i)
  <2> SUFFICES ASSUME NEW i \in DOMAIN calls
               PROVE  /\ calls'[i].stage = calls[i].stage /\ calls'[i].shown = calls[i].shown
                      /\ calls'[i].alone <=> calls[i].alone /\ ~Underway(i)
    BY Zenon
  <2>1. calls'[i] = [calls[i] EXCEPT !.alone = @ /\ ~Underway(i)]
    BY <1>2, <1>6, Zenon
  <2>2. calls[i] \in Call
    BY <1>2
  <2>3. calls'[i].stage = calls[i].stage /\ calls'[i].shown = calls[i].shown
    BY <2>1, <2>2 DEF Call
  <2>4. "alone" \in DOMAIN calls[i]
    BY <2>2 DEF Call
  <2>5. calls'[i].alone = (calls[i].alone /\ ~Underway(i))
    BY <2>1, <2>4, Zenon
  <2> QED BY <2>3, <2>5, Zenon
<1> HIDE DEF old, new
<1>9. TypeOK' /\ Len(calls') <= MaxPresses
  <2>1. Len(calls') <= MaxPresses /\ sheet' \in 0 .. Len(calls')
    BY <1>1, <1>2, <1>6, StripeAssumption
  <2>2. paid' \subseteq DOMAIN calls'
    BY <1>1, <1>2, <1>6
  <2> QED BY <1>1, <1>6, <2>1, <2>2 DEF StripeInv, TypeOK, Call
<1>10. ShownWhenPresented'
  <2>1. 0 .. Len(calls) \subseteq 0 .. Len(calls') /\ 0 \in 0 .. Len(calls')
    BY <1>2, <1>6
  <2> HIDE DEF n
  <2> QED BY <1>6, <1>7, <1>8, <2>1 DEF StripeInv, ShownWhenPresented
<1>11. PaidOnce'
  <2> HIDE DEF n
  <2> QED BY <1>1, <1>6, <1>7, <1>8 DEF StripeInv, PaidOnce
<1>12. \A i \in DOMAIN calls : Underway(i)' <=> Underway(i)
  BY <1>6, <1>8 DEF Underway
<1>13. AloneUnderway'
  <2> HIDE DEF n
  <2> QED BY <1>6, <1>7, <1>8, <1>12 DEF StripeInv, AloneUnderway
<1>14. SheetIsFresh'
  <2>1. sheet' # n
    BY <1>1, <1>2
  <2> HIDE DEF n
  <2>2. ASSUME NEW k \in DOMAIN calls', NEW j \in DOMAIN calls',
               calls'[k].alone, calls'[j].stage = "ready"
        PROVE  sheet' = k <=> k = j
    <3>1. j \in DOMAIN calls /\ calls[j].stage = "ready" /\ j # n
      BY <1>6, <1>7, <1>8, <2>2
    <3>2. CASE k = n
      BY <2>1, <3>1, <3>2
    <3>3. CASE k \in DOMAIN calls
      BY <1>1, <1>8, <2>2, <3>1, <3>3 DEF StripeInv, SheetIsFresh
    <3> QED BY <1>6, <3>2, <3>3
  <2> QED BY <2>2 DEF SheetIsFresh
<1>15. AloneIntentPrivate'
  <2>1. \A i \in DOMAIN calls : i # 0 /\ calls[i].shown # n
    BY <1>2 DEF StripeInv, ShownWhenPresented
  <2>2. n # 0
    BY <1>2
  <2> HIDE DEF n
  <2>3. ASSUME NEW i \in DOMAIN calls', calls'[i].alone, NEW j \in DOMAIN calls', calls'[j].shown = i
        PROVE  j = i
    <3>1. j # n
      BY <1>6, <1>7, <2>1, <2>2, <2>3
    <3>2. j \in DOMAIN calls /\ calls[j].shown = i
      BY <1>6, <1>8, <2>3, <3>1
    <3>3. i \in DOMAIN calls /\ calls[i].alone
      BY <1>6, <1>8, <2>1, <2>3, <3>2
    <3> QED BY <3>2, <3>3 DEF StripeInv, AloneIntentPrivate
  <2>4. ASSUME NEW i \in DOMAIN calls', calls'[i].alone, calls'[i].stage \in {"up", "paid", "succeeded"}
        PROVE  calls'[i].shown = i
    <3>1. i \in DOMAIN calls
      BY <1>6, <1>7, <2>4
    <3> QED BY <1>8, <2>4, <3>1 DEF StripeInv, AloneIntentPrivate
  <2> QED BY <2>3, <2>4 DEF AloneIntentPrivate
<1> QED BY <1>9, <1>10, <1>11, <1>13, <1>14, <1>15 DEF StripeInv

(* The end of the process ends every call, with its stage as its trace. *)
LEMMA RestartKeeps ==
  ASSUME StripeInv, Restart
  PROVE  StripeInv'
<1> DEFINE kill(i) == IF Underway(i) THEN [calls[i] EXCEPT !.stage = "killed"] ELSE calls[i]
<1>1. sheet' = 0 /\ page' = 0 /\ closing' = {} /\ paid' = paid /\ visits' = visits
  BY DEF Restart
<1>2. calls \in Seq(Call) /\ DOMAIN calls = 1 .. Len(calls)
  <2>1. calls \in Seq(Call)
    BY DEF StripeInv, TypeOK, Call
  <2> QED BY <2>1
<1>3. calls' = [i \in 1 .. Len(calls) |-> kill(i)]
  BY <1>2, Zenon DEF Restart
<1>4. \A i \in 1 .. Len(calls) :
         /\ kill(i) \in Call
         /\ kill(i).shown = calls[i].shown /\ kill(i).alone = calls[i].alone
         /\ kill(i).stage = IF Underway(i) THEN "killed" ELSE calls[i].stage
  <2> SUFFICES ASSUME NEW i \in 1 .. Len(calls)
               PROVE  /\ kill(i) \in Call
                      /\ kill(i).shown = calls[i].shown /\ kill(i).alone = calls[i].alone
                      /\ kill(i).stage = IF Underway(i) THEN "killed" ELSE calls[i].stage
    OBVIOUS
  <2>1. calls[i] \in Call
    BY <1>2
  <2>2. CASE Underway(i)
    BY <2>1, <2>2 DEF Call, Stages
  <2>3. CASE ~Underway(i)
    BY <2>1, <2>3
  <2> QED BY <2>2, <2>3
<1> HIDE DEF kill
<1>5. /\ calls' \in Seq(Call) /\ Len(calls') = Len(calls) /\ DOMAIN calls' = DOMAIN calls
      /\ \A i \in DOMAIN calls : calls'[i] = kill(i)
  BY <1>2, <1>3, <1>4
<1>6. \A i \in DOMAIN calls :
         /\ calls'[i].shown = calls[i].shown
         /\ calls'[i].alone <=> calls[i].alone
         /\ calls'[i].stage = IF Underway(i) THEN "killed" ELSE calls[i].stage
  BY <1>2, <1>4, <1>5, Zenon
<1>7. TypeOK' /\ Len(calls') <= MaxPresses
  <2>1. sheet' \in 0 .. Len(calls') /\ page' \in 0 .. visits' /\ closing' \subseteq 1 .. visits'
    BY <1>1, <1>2, <1>5 DEF StripeInv, TypeOK
  <2> QED BY <1>1, <1>5, <2>1 DEF StripeInv, TypeOK, Call
<1>8. ShownWhenPresented'
  BY <1>5, <1>6 DEF StripeInv, ShownWhenPresented
<1>9. PaidOnce'
  BY <1>1, <1>5, <1>6 DEF StripeInv, PaidOnce
<1>10. \A i \in DOMAIN calls' : calls'[i].stage \in Ended
  BY <1>5, <1>6 DEF Underway, Ended
<1>11. AloneUnderway'
  BY <1>10 DEF AloneUnderway, Underway
<1>12. SheetIsFresh'
  BY <1>10 DEF SheetIsFresh, Ended
<1>13. AloneIntentPrivate'
  BY <1>5, <1>6 DEF StripeInv, AloneIntentPrivate
<1> QED BY <1>7, <1>8, <1>9, <1>11, <1>12, <1>13 DEF StripeInv

(* The page's own steps change no call. *)
LEMMA PageKeeps ==
  ASSUME StripeInv, UNCHANGED <<calls, sheet, paid>>,
         page' \in 0 .. visits', closing' \subseteq 1 .. visits', visits' \in 0 .. MaxVisits
  PROVE  StripeInv'
<1>1. TypeOK' /\ Len(calls') <= MaxPresses
  BY DEF StripeInv, TypeOK
<1>2. ShownWhenPresented' /\ PaidOnce'
  BY DEF StripeInv, ShownWhenPresented, PaidOnce
<1>3. AloneUnderway' /\ SheetIsFresh' /\ AloneIntentPrivate'
  BY DEF StripeInv, AloneUnderway, SheetIsFresh, AloneIntentPrivate, Underway
<1> QED BY <1>1, <1>2, <1>3 DEF StripeInv

(* Every step keeps the invariant. *)
LEMMA StripeStep == StripeInv /\ [Next]_vars => StripeInv'
<1> SUFFICES ASSUME StripeInv, [Next]_vars PROVE StripeInv'
  OBVIOUS
<1>0. page \in 0 .. visits /\ closing \subseteq 1 .. visits /\ visits \in 0 .. MaxVisits
  BY DEF StripeInv, TypeOK
<1>1. CASE OpenPage
  <2>1. /\ UNCHANGED <<calls, sheet, paid>> /\ visits < MaxVisits
        /\ visits' = visits + 1 /\ page' = visits + 1 /\ closing' = closing
    BY <1>1 DEF OpenPage
  <2>2. page' \in 0 .. visits' /\ closing' \subseteq 1 .. visits' /\ visits' \in 0 .. MaxVisits
    BY <1>0, <2>1, StripeAssumption
  <2> QED BY <2>1, <2>2, PageKeeps
<1>2. CASE LeavePage
  <2>1. page' \in 0 .. visits' /\ closing' \subseteq 1 .. visits' /\ visits' \in 0 .. MaxVisits
    BY <1>0, <1>2, StripeAssumption DEF LeavePage
  <2> QED BY <1>2, <2>1, PageKeeps DEF LeavePage
<1>3. ASSUME NEW v \in closing, Disposed(v) PROVE StripeInv'
  BY <1>0, <1>3, PageKeeps DEF Disposed
<1>4. ASSUME NEW a \in Amounts, Press(a) PROVE StripeInv'
  BY <1>4, PressKeeps
<1>5. ASSUME NEW i \in DOMAIN calls, CallStep(i) PROVE StripeInv'
  <2>1. CASE IntentCreated(i)
    BY <2>1, CreatedKeeps
  <2>2. CASE PreparingFails(i)
    BY <2>2, TellKeeps DEF PreparingFails, Underway, Ended
  <2>3. CASE SheetInitialised(i)
    BY <2>3, InitialisedKeeps
  <2>4. CASE SheetPresented(i)
    BY <2>4, PresentedKeeps
  <2>5. CASE SheetRefused(i)
    BY <2>5, TellKeeps DEF SheetRefused, Underway, Ended
  <2>6. CASE PaymentSucceeds(i)
    BY <2>6, TellKeeps DEF PaymentSucceeds, Underway, Ended
  <2> QED BY <1>5, <2>1, <2>2, <2>3, <2>4, <2>5, <2>6 DEF CallStep
<1>6. ASSUME NEW i \in DOMAIN calls, UserStep(i) PROVE StripeInv'
  <2>1. CASE Pay(i)
    BY <2>1, PayKeeps
  <2>2. CASE SheetFails(i)
    BY <2>2, TellKeeps DEF SheetFails, Underway, Ended
  <2> QED BY <1>6, <2>1, <2>2 DEF UserStep
<1>7. CASE Restart
  BY <1>7, RestartKeeps
<1>8. CASE UNCHANGED vars
  BY <1>0, <1>8, PageKeeps DEF vars
<1> QED BY <1>1, <1>2, <1>3, <1>4, <1>5, <1>6, <1>7, <1>8 DEF Next

(* The invariant holds from the start on. *)
LEMMA StripeInvariant == Spec => []StripeInv
<1>1. Init => StripeInv
  <2> SUFFICES ASSUME Init PROVE StripeInv
    OBVIOUS
  <2>1. calls = <<>> /\ Len(calls) = 0 /\ DOMAIN calls = {} /\ paid = {}
    BY DEF Init
  <2>2. TypeOK /\ Len(calls) <= MaxPresses
    BY <2>1, StripeAssumption DEF Init, TypeOK
  <2>3. ShownWhenPresented /\ PaidOnce /\ AloneUnderway /\ SheetIsFresh /\ AloneIntentPrivate
    BY <2>1, Zenon DEF ShownWhenPresented, PaidOnce, AloneUnderway, SheetIsFresh, AloneIntentPrivate
  <2> QED BY <2>2, <2>3 DEF StripeInv
<1> QED BY <1>1, StripeStep, PTL DEF Spec

-----------------------------------------------------------------------------
(* Type correctness: the intents that are shown, held and paid are those   *)
(* of presses that were made, their amounts in cents.                      *)
THEOREM TypeCorrect == Spec => []TypeOK
<1>1. StripeInv => TypeOK BY DEF StripeInv
<1> QED BY <1>1, StripeInvariant, PTL

(* However presses overlap, sheets are refused or cancelled and the        *)
(* process ends: money is taken once per success, and each payment has the *)
(* one call that took it.                                                  *)
THEOREM MoneyTakenOnce == Spec => []PaidOnce
<1>1. StripeInv => PaidOnce BY DEF StripeInv
<1> QED BY <1>1, StripeInvariant, PTL

(* A press that no other press overlaps presents its own price, whatever   *)
(* sheets earlier calls have left behind.                                  *)
THEOREM OwnPriceShown == Spec => []ShowsOwnPrice
<1>1. StripeInv => ShowsOwnPrice
  BY DEF StripeInv, AloneIntentPrivate, ShowsOwnPrice
<1> QED BY <1>1, StripeInvariant, PTL

(* An unoverlapped press that says success has been paid, and one that     *)
(* says failure is not and never will be: no later press presents its      *)
(* intent.                                                                 *)
THEOREM MessagesTrue == Spec => []MessageIsTrue
<1>1. StripeInv => MessageIsTrue
  <2> SUFFICES ASSUME StripeInv, NEW i \in DOMAIN calls, calls[i].alone
               PROVE  /\ calls[i].stage = "succeeded" => i \in paid
                      /\ calls[i].stage = "failed" => i \notin paid
    BY DEF MessageIsTrue
  <2>1. calls[i].stage = "succeeded" => i \in paid
    BY DEF StripeInv, AloneIntentPrivate, PaidOnce
  <2>2. ASSUME i \in paid PROVE calls[i].stage # "failed"
    <3>1. PICK j \in DOMAIN calls :
             calls[j].shown = i /\ calls[j].stage \in {"paid", "succeeded", "silent", "killed"}
      BY <2>2 DEF StripeInv, PaidOnce
    <3>2. j = i
      BY <3>1 DEF StripeInv, AloneIntentPrivate
    <3> QED BY <3>1, <3>2
  <2> QED BY <2>1, <2>2
<1> QED BY <1>1, StripeInvariant, PTL
=============================================================================
