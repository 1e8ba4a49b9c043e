---------------------------- MODULE FirestoreProofs ----------------------------
(***************************************************************************)
(* Proofs about Firestore, for every number of screens, submits and saves, *)
(* in debug and in release builds.                                         *)
(***************************************************************************)
EXTENDS Firestore, SequenceTheorems, WellFoundedInduction, TLAPS

-----------------------------------------------------------------------------
(* The inductive invariant, in named parts. *)

PageRoute == [kind : {"home", "view"}, no : {0}]
ScreenRoute == [kind : {"send", "fetch"}, no : Screens]

Submission ==
    [entry : Nat \ {0}, no : 0 .. MaxScreens, stage : Stages,
     strayed : BOOLEAN, again : BOOLEAN]

StackType ==
    /\ debug \in BOOLEAN /\ locked \in BOOLEAN
    /\ stack \in Seq(PageRoute \cup ScreenRoute) /\ stack # <<>>
    /\ exiting \subseteq ScreenRoute

DataType ==
    /\ form \in [Screens -> Nat] /\ entries \in Nat
    /\ submits \in Seq(Submission) /\ store \subseteq DOMAIN submits
    /\ shown \in [Screens -> SUBSET Int] /\ saves \in Seq(SUBSET Int)
    /\ copy \in SUBSET Int /\ lastShown \in SUBSET Int

FireType == StackType /\ DataType

(* Only the route in front is a screen, the routes below it are pages; a   *)
(* screen has its number to itself; the navigator is locked only in debug  *)
(* builds and with a page in front.                                        *)
StackShape ==
    /\ \A i \in DOMAIN stack : i < Len(stack) => stack[i] \in PageRoute
    /\ \A q, r \in Routes : q.no = r.no /\ q.no # 0 => q = r
    /\ Range(stack) \cap exiting = {}
    /\ locked => debug /\ IsPage(Top)
    /\ debug => stack[1].kind = "home"

(* A screen that is gone left no form and no data. *)
GoneIsBlank ==
    \A n \in Screens : ~Mounted(n) => form[n] = 0 /\ shown[n] = Waiting

(* What the stage of a submit says of the store. *)
StageTrue(i) ==
    /\ submits[i].stage \in {"sent", "refused", "failed"} => i \notin store
    /\ submits[i].stage \in {"stored", "succeeded", "both"} => i \in store
    /\ submits[i].stage \in {"stored", "refused"} => submits[i].no # 0
    /\ submits[i].stage = "both" => debug /\ submits[i].strayed

StageOfStore == \A i \in DOMAIN submits : StageTrue(i)

(* A submit under way that did not stray has its page in front. *)
OwnPageInFront ==
    \A i \in DOMAIN submits :
        Underway(i) /\ ~submits[i].strayed /\ submits[i].no # 0 =>
            Top = Route("send", submits[i].no)

(* An entry is in one form only, and what a form holds was submitted       *)
(* before only with an error or by a submit of that page still under way.  *)
EntriesOwned ==
    /\ \A n \in Screens : form[n] <= entries
    /\ \A i \in DOMAIN submits : submits[i].entry <= entries
    /\ \A m, n \in Screens : form[m] = form[n] /\ form[m] # 0 => m = n
    /\ \A n \in Screens : \A i \in DOMAIN submits :
          form[n] # 0 /\ submits[i].entry = form[n] =>
              \/ submits[i].stage = "failed"
              \/ Underway(i) /\ submits[i].no = n

(* Of two submits of an entry the later one was an overlap, or the earlier *)
(* one failed.                                                             *)
RepeatsKnown ==
    \A i, j \in DOMAIN submits :
        i < j /\ submits[i].entry = submits[j].entry =>
            submits[j].again \/ submits[i].stage = "failed"

(* The fetch page in front shows the stored records and the pending ones.  *)
ShowsAll ==
    Top.kind = "fetch" /\ shown[Top.no] \notin {Waiting, Broken} =>
        QueryResult \subseteq shown[Top.no]

FireInv ==
    /\ FireType /\ StackShape /\ GoneIsBlank /\ StageOfStore /\ OwnPageInFront
    /\ EntriesOwned /\ RepeatsKnown /\ ShowsAll

-----------------------------------------------------------------------------
(* Facts about stacks, screen numbers and submits. *)

(* A set of natural numbers has a smallest element. *)
LEMMA SmallestOf ==
  ASSUME NEW T \in SUBSET Nat, T # {}
  PROVE  \E n \in T : \A m \in T : n <= m
<1>1. PICK n \in T : \A m \in T : ~(<<m, n>> \in OpToRel(<, Nat))
  BY WFMin, NatLessThanWellFounded, Zenon
<1>2. ASSUME NEW m \in T, m < n PROVE FALSE
  <2>1. <<m, n>> \in OpToRel(<, Nat)
    BY <1>2 DEF OpToRel
  <2> QED BY <1>1, <2>1, Zenon
<1> QED BY <1>2

(* A new screen gets a number no mounted screen and no submit under way    *)
(* has.                                                                    *)
LEMMA NewNoFacts ==
  ASSUME FreeNo # {}
  PROVE  /\ NewNo \in Screens /\ ~Mounted(NewNo)
         /\ \A i \in DOMAIN submits : Underway(i) => submits[i].no # NewNo
<1>1. FreeNo \in SUBSET Nat
  BY FirestoreAssumption DEF FreeNo, Screens
<1>2. \E n \in FreeNo : \A m \in FreeNo : n <= m
  BY <1>1, SmallestOf, Zenon
<1>3. NewNo \in FreeNo
  BY <1>2, Zenon DEF NewNo
<1> QED BY <1>3, Zenon DEF FreeNo

(* A stack that is not empty is its front and its last route. *)
LEMMA StackFacts ==
  ASSUME NEW R, NEW s \in Seq(R), s # <<>>
  PROVE  /\ Len(s) \in Nat \ {0} /\ Len(s) \in DOMAIN s
         /\ Last(s) = s[Len(s)] /\ Last(s) \in R
         /\ Last(s) \in Range(s) /\ Range(s) \subseteq R
         /\ Front(s) \in Seq(R) /\ Len(Front(s)) = Len(s) - 1
         /\ \A i \in DOMAIN Front(s) : i \in DOMAIN s /\ i < Len(s) /\ Front(s)[i] = s[i]
         /\ Range(s) = Range(Front(s)) \cup {Last(s)}
<1>1. Len(s) \in Nat \ {0} /\ Len(s) \in DOMAIN s /\ Last(s) = s[Len(s)] /\ Last(s) \in R
  BY DEF Last
<1>2. Front(s) \in Seq(R) /\ Len(Front(s)) = Len(s) - 1
  <2>1. /\ Len(s) - 1 \in Int /\ Len(s) >= 1
        /\ \A i \in 1 .. (Len(s) - 1) : s[i] \in R
    BY <1>1
  <2>2. \A n \in Int : n >= 0 => (IF 1 <= n THEN n - 1 + 1 ELSE 0) = n
    OBVIOUS
  <2>3. ASSUME NEW n \in Int, n = Len(s) - 1, n >= 0, \A i \in 1 .. n : s[i] \in R
        PROVE  SubSeq(s, 1, n) \in Seq(R) /\ Len(SubSeq(s, 1, n)) = n
    <3>1. Len(SubSeq(s, 1, n)) = IF 1 <= n THEN n - 1 + 1 ELSE 0
      BY <2>3, SubSeqProperties
    <3>2. SubSeq(s, 1, n) \in Seq(R)
      BY <2>3, SubSeqProperties
    <3> QED BY <2>2, <2>3, <3>1, <3>2, Zenon
  <2>4. Len(s) - 1 >= 0
    BY <2>1
  <2> QED BY <2>1, <2>3, <2>4, Zenon DEF Front
<1>3. \A i \in DOMAIN Front(s) : i \in DOMAIN s /\ i < Len(s) /\ Front(s)[i] = s[i]
  BY <1>1, <1>2 DEF Front
<1>4. \A i \in DOMAIN s : i = Len(s) \/ (i \in DOMAIN Front(s) /\ Front(s)[i] = s[i])
  BY <1>1, <1>2 DEF Front
<1>5. Range(s) \subseteq R
  BY DEF Range
<1>6. Range(s) = Range(Front(s)) \cup {Last(s)}
  <2> HIDE DEF Front
  <2>1. ASSUME NEW r \in Range(s) PROVE r \in Range(Front(s)) \cup {Last(s)}
    BY <1>1, <1>4, <2>1, Zenon DEF Range
  <2>2. ASSUME NEW r \in Range(Front(s)) \cup {Last(s)} PROVE r \in Range(s)
    BY <1>1, <1>3, <2>2, Zenon DEF Range
  <2> QED BY <2>1, <2>2, Zenon
<1> QED BY <1>1, <1>2, <1>3, <1>5, <1>6, Zenon

(* What a route put on a stack does. *)
LEMMA PushFacts ==
  ASSUME NEW R, NEW s \in Seq(R), NEW r \in R
  PROVE  LET t == Append(s, r)
         IN  /\ t \in Seq(R) /\ t # <<>> /\ Len(t) = Len(s) + 1 /\ Len(s) \in Nat
             /\ Last(t) = r /\ Front(t) = s
             /\ \A i \in DOMAIN t : i < Len(t) => i \in DOMAIN s /\ t[i] = s[i]
             /\ s # <<>> => t[1] = s[1]
             /\ Range(t) = Range(s) \cup {r}
<1> DEFINE t == Append(s, r)
<1>1. t \in Seq(R) /\ t # <<>> /\ Len(t) = Len(s) + 1 /\ Len(s) \in Nat
  OBVIOUS
<1>2. Last(t) = r
  BY DEF Last
<1>3. Front(t) = s
  BY DEF Front
<1>4. \A i \in DOMAIN t : i < Len(t) => i \in DOMAIN s /\ t[i] = s[i]
  OBVIOUS
<1>5. s # <<>> => t[1] = s[1]
  OBVIOUS
<1>6. Range(t) = Range(s) \cup {r}
  <2> HIDE DEF t
  <2> QED BY <1>1, <1>2, <1>3, StackFacts
<1> QED BY <1>1, <1>2, <1>3, <1>4, <1>5, <1>6

(* Marking the submits of a page changes nothing else of them. *)
LEMMA StrayedFacts ==
  ASSUME NEW ss \in Seq(Submission), NEW n
  PROVE  LET tt == Strayed(ss, n)
         IN  /\ tt \in Seq(Submission) /\ Len(tt) = Len(ss) /\ DOMAIN tt = DOMAIN ss
             /\ \A i \in DOMAIN ss :
                   /\ tt[i].entry = ss[i].entry /\ tt[i].no = ss[i].no
                   /\ tt[i].stage = ss[i].stage /\ tt[i].again = ss[i].again
                   /\ tt[i].strayed <=> ss[i].strayed \/ ss[i].no = n
<1> DEFINE e(i) == IF ss[i].no = n THEN [ss[i] EXCEPT !.strayed = TRUE] ELSE ss[i]
           tt == Strayed(ss, n)
<1>1. \A i \in 1 .. Len(ss) : ss[i] \in Submission
  OBVIOUS
<1>2. ASSUME NEW i \in 1 .. Len(ss) PROVE e(i) \in Submission
  BY <1>1 DEF Submission
<1>3. tt = [i \in 1 .. Len(ss) |-> e(i)] /\ Len(ss) \in Nat
  BY DEF Strayed
<1>4. tt \in Seq(Submission)
  <2> HIDE DEF e, tt
  <2> QED BY <1>2, <1>3, IsASeq
<1>5. DOMAIN tt = DOMAIN ss /\ Len(tt) = Len(ss)
  BY <1>3, <1>4
<1>6. ASSUME NEW i \in DOMAIN ss
      PROVE  /\ tt[i].entry = ss[i].entry /\ tt[i].no = ss[i].no
             /\ tt[i].stage = ss[i].stage /\ tt[i].again = ss[i].again
             /\ tt[i].strayed <=> ss[i].strayed \/ ss[i].no = n
  <2>1. tt[i] = e(i) /\ ss[i] \in Submission
    BY <1>1, <1>3
  <2> QED BY <2>1 DEF Submission
<1> QED BY <1>4, <1>5, <1>6

(* A submit goes to another stage: nothing else of the submits changes. *)
LEMMA ToFacts ==
  ASSUME submits \in Seq(Submission), NEW k \in DOMAIN submits, NEW st \in Stages
  PROVE  LET tt == To(k, st)
         IN  /\ tt \in Seq(Submission) /\ Len(tt) = Len(submits) /\ DOMAIN tt = DOMAIN submits
             /\ tt[k].stage = st
             /\ \A i \in DOMAIN submits :
                   /\ tt[i].entry = submits[i].entry /\ tt[i].no = submits[i].no
                   /\ tt[i].again = submits[i].again
                   /\ tt[i].strayed <=> submits[i].strayed
                   /\ i # k => tt[i].stage = submits[i].stage
<1> DEFINE tt == To(k, st)
           u == [submits[k] EXCEPT !.stage = st]
<1>1. submits[k] \in Submission /\ u \in Submission
  <2>1. submits[k] \in Submission
    OBVIOUS
  <2> QED BY <2>1 DEF Submission
<1>2. tt = [submits EXCEPT ![k] = u]
  BY DEF To
<1>3. tt \in Seq(Submission) /\ Len(tt) = Len(submits) /\ DOMAIN tt = DOMAIN submits
  BY <1>1, <1>2
<1>4. tt[k] = u /\ \A i \in DOMAIN submits : i # k => tt[i] = submits[i]
  BY <1>2
<1>5. /\ u.entry = submits[k].entry /\ u.no = submits[k].no /\ u.again = submits[k].again
      /\ u.strayed = submits[k].strayed /\ u.stage = st
  BY <1>1 DEF Submission
<1> HIDE DEF tt, u
<1>6. tt[k].stage = st
  BY <1>4, <1>5
<1>7. \A i \in DOMAIN submits :
         /\ tt[i].entry = submits[i].entry /\ tt[i].no = submits[i].no
         /\ tt[i].again = submits[i].again
         /\ tt[i].strayed <=> submits[i].strayed
         /\ i # k => tt[i].stage = submits[i].stage
  BY <1>4, <1>5, Zenon
<1> QED BY <1>3, <1>6, <1>7, Zenon DEF tt

-----------------------------------------------------------------------------
(* How the steps move the routes. *)

AnyRoute == PageRoute \cup ScreenRoute

(* The screens that are mounted, and what is in front. *)
OnScreen == Routes \cap ScreenRoute

(* Pages have no number, screens have one. *)
LEMMA RouteKinds ==
  /\ \A r \in PageRoute : r.no = 0 /\ IsPage(r) /\ r.kind \notin {"send", "fetch"}
  /\ \A r \in ScreenRoute : r.no \in Screens /\ r.no # 0 /\ ~IsPage(r)
                              /\ r.kind \in {"send", "fetch"} /\ r = Route(r.kind, r.no)
  /\ Route("home", 0) \in PageRoute /\ Route("view", 0) \in PageRoute
  /\ \A n \in Screens : Route("send", n) \in ScreenRoute /\ Route("fetch", n) \in ScreenRoute
                         /\ Route("send", n) # Route("fetch", n)
  /\ \A k, n : Route(k, n).kind = k /\ Route(k, n).no = n
BY FirestoreAssumption DEF PageRoute, ScreenRoute, IsPage, Route, Screens

(* What is in front is a page or a screen, and mounted. *)
LEMMA TopFacts ==
  ASSUME StackType
  PROVE  /\ Routes \subseteq AnyRoute /\ Top \in Routes /\ Top \in Range(stack)
         /\ \A n \in Screens : Mounted(n) <=> \E r \in OnScreen : r.no = n
         /\ Top \in PageRoute <=> IsPage(Top)
         /\ Top \in ScreenRoute <=> ~IsPage(Top)
<1>1. stack \in Seq(AnyRoute) /\ stack # <<>> /\ exiting \subseteq ScreenRoute
  BY DEF StackType, AnyRoute
<1>2. Range(stack) \subseteq AnyRoute /\ Last(stack) \in Range(stack)
  <2> HIDE DEF AnyRoute
  <2> QED BY <1>1, StackFacts
<1>3. Routes \subseteq AnyRoute /\ Top \in Routes /\ Top \in Range(stack)
  BY <1>1, <1>2, Zenon DEF Routes, Top, AnyRoute
<1>4. \A n \in Screens : n # 0
  BY DEF Screens
<1>5. \A n \in Screens : Mounted(n) <=> \E r \in OnScreen : r.no = n
  BY <1>3, <1>4, RouteKinds, Zenon DEF Mounted, OnScreen, AnyRoute
<1>6. Top \in PageRoute \/ Top \in ScreenRoute
  BY <1>3, Zenon DEF AnyRoute
<1>7. (Top \in PageRoute <=> IsPage(Top)) /\ (Top \in ScreenRoute <=> ~IsPage(Top))
  BY <1>6, RouteKinds, Zenon
<1> QED BY <1>3, <1>5, <1>7, Zenon

(* A route is put on top of a page. *)
LEMMA PushStep ==
  ASSUME StackType, StackShape, NEW r \in AnyRoute, IsPage(Top), ~locked,
         r.no = 0 \/ ~Mounted(r.no),
         stack' = Append(stack, r), UNCHANGED <<debug, locked, exiting>>
  PROVE  /\ StackType' /\ StackShape' /\ Top' = r
         /\ OnScreen' = OnScreen \cup ({r} \cap ScreenRoute)
<1> DEFINE t == Append(stack, r)
<1>1. stack \in Seq(AnyRoute) /\ stack # <<>> /\ exiting \subseteq ScreenRoute
  BY DEF StackType, AnyRoute
<1>2. /\ t \in Seq(AnyRoute) /\ t # <<>> /\ Len(t) = Len(stack) + 1 /\ Len(stack) \in Nat
      /\ Last(t) = r /\ Front(t) = stack
      /\ \A i \in DOMAIN t : i < Len(t) => i \in DOMAIN stack /\ t[i] = stack[i]
      /\ t[1] = stack[1]
      /\ Range(t) = Range(stack) \cup {r}
  <2> HIDE DEF AnyRoute
  <2> QED BY <1>1, PushFacts
<1> HIDE DEF t
<1>a. stack' = t
  BY DEF t
<1>3. StackType'
  BY <1>1, <1>2, <1>a, Zenon DEF StackType, AnyRoute
<1>4. Top' = r /\ Routes' = Routes \cup {r}
  BY <1>2, <1>a, Zenon DEF Top, Routes
<1>5. OnScreen' = OnScreen \cup ({r} \cap ScreenRoute)
  BY <1>4, Zenon DEF OnScreen
<1>6. /\ Top \in PageRoute /\ Last(stack) = stack[Len(stack)]
      /\ \A i \in DOMAIN stack : i < Len(stack) => stack[i] \in PageRoute
      /\ \A i \in DOMAIN stack : i < Len(stack) \/ i = Len(stack)
  <2>1. \A i \in DOMAIN stack : i < Len(stack) \/ i = Len(stack)
    BY <1>1
  <2> QED BY <2>1, TopFacts, Zenon DEF StackShape, Last
<1>7. \A i \in DOMAIN stack' : i < Len(stack') => stack'[i] \in PageRoute
  BY <1>2, <1>6, <1>a, Zenon DEF Top
<1>8. \A q \in Routes : q.no = r.no => r.no = 0
  BY Zenon DEF Mounted
<1>9. \A p, q \in Routes' : p.no = q.no /\ p.no # 0 => p = q
  BY <1>4, <1>8, Zenon DEF StackShape
<1>10. (Range(stack) \cap exiting = {})'
  <2>1. r \notin exiting
    BY <1>1, <1>8, RouteKinds, Zenon DEF Routes
  <2> QED BY <1>2, <1>a, <2>1, Zenon DEF StackShape
<1>11. (locked => debug /\ IsPage(Top))' /\ (debug => stack[1].kind = "home")'
  BY <1>2, <1>a, Zenon DEF StackShape
<1> QED BY <1>3, <1>4, <1>5, <1>7, <1>9, <1>10, <1>11, Zenon DEF StackShape

(* The front of the stack consists of pages. *)
LEMMA FrontPages ==
  ASSUME StackType, StackShape
  PROVE  /\ Front(stack) \in Seq(PageRoute) /\ Range(Front(stack)) \subseteq PageRoute
         /\ Len(Front(stack)) = Len(stack) - 1 /\ Len(stack) \in Nat \ {0}
         /\ Len(stack) > 1 => Front(stack) # <<>> /\ Front(stack)[1] = stack[1]
         /\ Len(stack) = 1 => Top = stack[1] /\ Front(stack) = <<>>
         /\ Range(stack) = Range(Front(stack)) \cup {Top}
<1>1. stack \in Seq(AnyRoute) /\ stack # <<>>
  BY DEF StackType, AnyRoute
<1>2. /\ Len(stack) \in Nat \ {0} /\ Last(stack) = stack[Len(stack)]
      /\ Front(stack) \in Seq(AnyRoute) /\ Len(Front(stack)) = Len(stack) - 1
      /\ \A i \in DOMAIN Front(stack) : i \in DOMAIN stack /\ i < Len(stack) /\ Front(stack)[i] = stack[i]
      /\ Range(stack) = Range(Front(stack)) \cup {Last(stack)}
  <2> HIDE DEF AnyRoute
  <2> QED BY <1>1, StackFacts
<1> DEFINE f == Front(stack)
<1> HIDE DEF f
<1>3. \A i \in DOMAIN f : f[i] \in PageRoute
  BY <1>2, Zenon DEF StackShape, f
<1>4. f \in Seq(PageRoute)
  <2>1. f \in Seq(AnyRoute)
    BY <1>2, Zenon DEF f
  <2> HIDE DEF AnyRoute
  <2> QED BY <1>3, <2>1
<1>5. Range(f) \subseteq PageRoute
  BY <1>3, Zenon DEF Range
<1>6. Len(stack) > 1 => f # <<>> /\ f[1] = stack[1]
  <2>1. Len(stack) > 1 => Len(f) > 0
    BY <1>2 DEF f
  <2>2. Len(stack) > 1 => 1 \in DOMAIN f /\ f # <<>>
    BY <1>4, <2>1
  <2> QED BY <1>2, <2>2, Zenon DEF f
<1>7. Len(stack) = 1 => Top = stack[1] /\ f = <<>>
  <2>1. Len(stack) = 1 => Top = stack[1]
    BY <1>2, Zenon DEF Top
  <2>2. Len(stack) = 1 => Len(f) = 0
    BY <1>2 DEF f
  <2> QED BY <1>4, <2>1, <2>2
<1> QED BY <1>2, <1>4, <1>5, <1>6, <1>7, Zenon DEF f, Top

(* Back reveals a page; a screen that was in front stays mounted. *)
LEMMA BackStep ==
  ASSUME StackType, StackShape, Back
  PROVE  StackType' /\ StackShape' /\ Top' \in PageRoute /\ OnScreen' = OnScreen
<1> DEFINE f == Front(stack)
           gone == {r \in {Top} : ~IsPage(r)}
<1> HIDE DEF f, gone
<1>1. Len(stack) > 1 /\ ~locked /\ stack' = f /\ exiting' = exiting \cup gone
  BY Zenon DEF Back, f, gone
<1>2. debug' = debug /\ locked' = locked
  BY DEF Back
<1>3. /\ f \in Seq(PageRoute) /\ f # <<>> /\ f[1] = stack[1]
      /\ Range(f) \subseteq PageRoute /\ Range(stack) = Range(f) \cup {Top}
  BY <1>1, FrontPages, Zenon DEF f
<1>4. gone = {Top} \cap ScreenRoute
  BY TopFacts, Zenon DEF gone
<1>5. \A r \in ScreenRoute : r \notin PageRoute
  BY RouteKinds, Zenon
<1>6. Last(f) \in PageRoute /\ \A i \in DOMAIN f : f[i] \in PageRoute
  BY <1>3, StackFacts
<1>7. f \in Seq(PageRoute \cup ScreenRoute)
  BY <1>3
<1>8. StackType'
  BY <1>1, <1>2, <1>3, <1>4, <1>7, Zenon DEF StackType
<1>9. Top' \in PageRoute
  BY <1>1, <1>6, Zenon DEF Top
<1>10. Routes' \subseteq Routes
  BY <1>1, <1>3, <1>4, Zenon DEF Routes
<1>11. OnScreen' = OnScreen
  BY <1>1, <1>3, <1>4, <1>5, Zenon DEF Routes, OnScreen
<1>12. (Range(stack) \cap exiting = {})'
  BY <1>1, <1>3, <1>4, <1>5, Zenon DEF StackShape
<1>13. (\A q, r \in Routes : q.no = r.no /\ q.no # 0 => q = r)'
  BY <1>10, Zenon DEF StackShape
<1>14. (locked => debug /\ IsPage(Top))' /\ (debug => stack[1].kind = "home")'
  BY <1>1, <1>2, <1>3, Zenon DEF StackShape
<1>15. (\A i \in DOMAIN stack : i < Len(stack) => stack[i] \in PageRoute)'
  BY <1>1, <1>6, Zenon
<1> QED BY <1>8, <1>9, <1>11, <1>12, <1>13, <1>14, <1>15, Zenon DEF StackShape

(* An exit transition ends: that screen is no longer mounted. *)
LEMMA ExitStep ==
  ASSUME StackType, StackShape, NEW r \in exiting, exiting' = exiting \ {r},
         UNCHANGED <<debug, locked, stack>>
  PROVE  StackType' /\ StackShape' /\ Top' = Top /\ OnScreen' = OnScreen \ {r}
<1>1. r \in ScreenRoute /\ r \notin Range(stack)
  BY Zenon DEF StackType, StackShape
<1>2. Routes' = Routes \ {r}
  BY <1>1, Zenon DEF Routes
<1>3. StackType' /\ Top' = Top
  BY Zenon DEF StackType, Top
<1>4. OnScreen' = OnScreen \ {r}
  BY <1>2, Zenon DEF OnScreen
<1> QED BY <1>2, <1>3, <1>4, Zenon DEF StackShape, IsPage

(* The fetch page replaces the route on top, which stays mounted if it is  *)
(* a screen.                                                               *)
LEMMA ReplaceStep ==
  ASSUME StackType, StackShape, ~locked, ~(debug /\ IsPage(Top)), FreeNo # {},
         stack' = Append(Front(stack), Route("fetch", NewNo)),
         exiting' = exiting \cup {r \in {Top} : ~IsPage(r)},
         UNCHANGED <<debug, locked>>
  PROVE  /\ StackType' /\ StackShape' /\ Top' = Route("fetch", NewNo)
         /\ OnScreen' = OnScreen \cup {Route("fetch", NewNo)}
<1> DEFINE f == Front(stack)
           r == Route("fetch", NewNo)
           t == Append(f, r)
           gone == {q \in {Top} : ~IsPage(q)}
<1>1. r \in ScreenRoute /\ r \in AnyRoute /\ ~Mounted(NewNo) /\ NewNo # 0 /\ r.no = NewNo
  <2>1. NewNo \in Screens /\ ~Mounted(NewNo)
    BY NewNoFacts
  <2>2. NewNo # 0
    BY <2>1 DEF Screens
  <2>3. r \in ScreenRoute /\ r.no = NewNo
    BY <2>1, RouteKinds, Zenon
  <2> QED BY <2>1, <2>2, <2>3, Zenon DEF AnyRoute
<1> HIDE DEF f, gone, r
<1>2. /\ f \in Seq(PageRoute) /\ Range(f) \subseteq PageRoute /\ Range(stack) = Range(f) \cup {Top}
      /\ Len(stack) > 1 => f # <<>> /\ f[1] = stack[1]
      /\ Len(stack) = 1 => Top = stack[1]
      /\ Len(stack) = 1 \/ Len(stack) > 1
  <2>1. Len(stack) = 1 \/ Len(stack) > 1
    BY FrontPages
  <2> QED BY <2>1, FrontPages, Zenon DEF f
<1>3. f \in Seq(AnyRoute) /\ \A i \in DOMAIN f : f[i] \in PageRoute
  BY <1>2 DEF AnyRoute
<1>4. /\ t \in Seq(AnyRoute) /\ t # <<>> /\ Last(t) = r
      /\ \A i \in DOMAIN t : i < Len(t) => i \in DOMAIN f /\ t[i] = f[i]
      /\ f # <<>> => t[1] = f[1]
      /\ Range(t) = Range(f) \cup {r}
  <2> HIDE DEF AnyRoute
  <2> QED BY <1>1, <1>3, PushFacts
<1> HIDE DEF t
<1>5. stack' = t /\ exiting' = exiting \cup gone
  BY Zenon DEF t, f, r, gone
<1>6. gone = {Top} \cap ScreenRoute
  BY TopFacts, Zenon DEF gone
<1>7. \A q \in ScreenRoute : q \notin PageRoute
  BY RouteKinds, Zenon
<1>8. StackType'
  BY <1>4, <1>5, <1>6, Zenon DEF StackType, AnyRoute
<1>9. Top' = r
  BY <1>4, <1>5, Zenon DEF Top
<1>10. Routes' \subseteq Routes \cup {r} /\ OnScreen' = OnScreen \cup {r}
  <2>1. Routes' = Range(f) \cup {r} \cup exiting \cup gone
    BY <1>4, <1>5, Zenon DEF Routes
  <2>2. Routes = Range(f) \cup {Top} \cup exiting
    BY <1>2, Zenon DEF Routes
  <2>3. Routes' \subseteq Routes \cup {r}
    BY <2>1, <2>2, <1>6, Zenon
  <2>4. OnScreen' = OnScreen \cup {r}
    BY <2>1, <2>2, <1>1, <1>2, <1>6, <1>7, Zenon DEF OnScreen
  <2> QED BY <2>3, <2>4
<1>11. \A q \in Routes : q.no # r.no
  BY <1>1, Zenon DEF Mounted
<1>12. (\A p, q \in Routes : p.no = q.no /\ p.no # 0 => p = q)'
  BY <1>10, <1>11, Zenon DEF StackShape
<1>13. (Range(stack) \cap exiting = {})'
  <2>1. r \notin exiting /\ r # Top
    BY <1>11, TopFacts, Zenon DEF Routes
  <2>2. ASSUME NEW q \in Range(f) \cup {r}, q \in exiting \cup gone PROVE FALSE
    <3>1. CASE q = r
      BY <2>1, <2>2, <3>1, <1>6, Zenon
    <3>2. CASE q \in Range(f)
      BY <2>2, <3>2, <1>2, <1>6, <1>7, Zenon DEF StackShape
    <3> QED BY <3>1, <3>2, <2>2, Zenon
  <2> QED BY <2>2, <1>4, <1>5, Zenon
<1>14. (locked => debug /\ IsPage(Top))'
  OBVIOUS
<1>15. (debug => stack[1].kind = "home")'
  <2>1. debug => stack[1].kind = "home" /\ ~IsPage(Top)
    BY Zenon DEF StackShape
  <2>2. debug => Len(stack) > 1
    BY <2>1, <1>2, Zenon DEF IsPage
  <2> QED BY <2>1, <2>2, <1>2, <1>4, <1>5, Zenon
<1>16. (\A i \in DOMAIN stack : i < Len(stack) => stack[i] \in PageRoute)'
  BY <1>3, <1>4, <1>5, Zenon
<1> QED BY <1>8, <1>9, <1>10, <1>12, <1>13, <1>14, <1>15, <1>16, Zenon DEF StackShape, r

(* Nothing of the routes changes. *)
LEMMA StillStep ==
  ASSUME StackType, StackShape, UNCHANGED <<debug, locked, stack, exiting>>
  PROVE  StackType' /\ StackShape' /\ Top' = Top /\ OnScreen' = OnScreen
BY Zenon DEF StackType, StackShape, Top, OnScreen, Routes, IsPage

-----------------------------------------------------------------------------
(* What keeps each of the other parts. *)

(* The forms at most lose entries, and a submit that ends without an error *)
(* or loses its page leaves no entry in its form.                          *)
LEMMA EntriesKept ==
  ASSUME DataType, DataType', EntriesOwned, RepeatsKnown,
         DOMAIN submits' = DOMAIN submits, entries' = entries,
         \A n \in Screens : form'[n] = 0 \/ form'[n] = form[n],
         \A i \in DOMAIN submits :
             /\ submits'[i].entry = submits[i].entry
             /\ submits'[i].again <=> submits[i].again
             /\ submits[i].stage = "failed" => submits'[i].stage = "failed"
             /\ Underway(i) =>
                   \/ Underway(i)' /\ submits'[i].no = submits[i].no
                   \/ submits'[i].stage = "failed"
                   \/ submits[i].no \in Screens => form'[submits[i].no] = 0
  PROVE  EntriesOwned' /\ RepeatsKnown'
<1>1. \A n \in Screens : form'[n] <= entries'
  <2>1. \A n \in Screens : form[n] <= entries /\ 0 <= entries
    BY DEF EntriesOwned, DataType
  <2> QED BY <2>1, Zenon
<1>2. \A i \in DOMAIN submits' : submits'[i].entry <= entries'
  BY Zenon DEF EntriesOwned
<1>3. \A m, n \in Screens : form'[m] = form'[n] /\ form'[m] # 0 => m = n
  BY Zenon DEF EntriesOwned
<1>4. ASSUME NEW n \in Screens, NEW i \in DOMAIN submits', form'[n] # 0,
             submits'[i].entry = form'[n]
      PROVE  submits'[i].stage = "failed" \/ (Underway(i)' /\ submits'[i].no = n)
  <2>1. form[n] # 0 /\ submits[i].entry = form[n] /\ i \in DOMAIN submits
    BY <1>4, Zenon
  <2>2. submits[i].stage = "failed" \/ (Underway(i) /\ submits[i].no = n)
    BY <2>1, Zenon DEF EntriesOwned
  <2> QED BY <1>4, <2>1, <2>2, Zenon
<1>5. RepeatsKnown'
  BY Zenon DEF RepeatsKnown
<1> QED BY <1>1, <1>2, <1>3, <1>4, <1>5, Zenon DEF EntriesOwned

(* A submit keeps its stage and the store what it holds of it. *)
LEMMA StageTrueKept ==
  ASSUME NEW i, StageTrue(i), debug' = debug, i \in store' <=> i \in store,
         submits'[i].stage = submits[i].stage, submits'[i].no = submits[i].no,
         submits[i].strayed => submits'[i].strayed
  PROVE  StageTrue(i)'
BY Zenon DEF StageTrue

(* A submit that ended silently says nothing of the store. *)
LEMMA StageTrueSilent ==
  ASSUME NEW i, submits'[i].stage = "silent"
  PROVE  StageTrue(i)'
BY DEF StageTrue

(* A submit goes to a stage that is true of the store. *)
LEMMA StageTrueMoved ==
  ASSUME NEW i, NEW st, debug' = debug, submits'[i].stage = st, st # "sent",
         submits'[i].no = submits[i].no, submits[i].strayed => submits'[i].strayed,
         st \in {"refused", "failed"} => i \notin store',
         st \in {"stored", "succeeded", "both"} => i \in store',
         st \in {"stored", "refused"} => submits[i].no # 0,
         st = "both" => debug /\ submits[i].strayed
  PROVE  StageTrue(i)'
BY Zenon DEF StageTrue

(* The submits keep their stages, the store what it holds. *)
LEMMA StageKept ==
  ASSUME StageOfStore, DOMAIN submits' = DOMAIN submits, UNCHANGED <<debug, store>>,
         \A i \in DOMAIN submits :
             /\ submits'[i].stage = submits[i].stage /\ submits'[i].no = submits[i].no
             /\ submits[i].strayed => submits'[i].strayed
  PROVE  StageOfStore'
BY Zenon DEF StageOfStore, StageTrue

(* What is in front stays, and no submit begins. *)
LEMMA FrontKept ==
  ASSUME OwnPageInFront, Top' = Top, DOMAIN submits' = DOMAIN submits,
         \A i \in DOMAIN submits :
             /\ Underway(i)' => Underway(i)
             /\ submits'[i].no = submits[i].no \/ submits'[i].no = 0
             /\ submits[i].strayed => submits'[i].strayed
  PROVE  OwnPageInFront'
BY Zenon DEF OwnPageInFront

(* Screens are only added. *)
LEMMA MountedKept ==
  ASSUME StackType, StackType', OnScreen \subseteq OnScreen'
  PROVE  \A m \in Screens : Mounted(m) => Mounted(m)'
<1>1. \A n \in Screens : Mounted(n) <=> \E r \in OnScreen : r.no = n
  BY TopFacts, Zenon
<1>2. (\A n \in Screens : Mounted(n) <=> \E r \in OnScreen : r.no = n)'
  BY TopFacts, PTL
<1> QED BY <1>1, <1>2, Zenon

(* Screens are only added, and their forms and data are unchanged. *)
LEMMA BlankKept ==
  ASSUME StackType, StackType', GoneIsBlank, OnScreen \subseteq OnScreen',
         UNCHANGED <<form, shown>>
  PROVE  GoneIsBlank'
BY MountedKept, Zenon DEF GoneIsBlank

-----------------------------------------------------------------------------
(* Each step keeps the invariant. *)

(* A route is put on a page: no unstrayed submit is under way then, and a  *)
(* new fetch page has no data yet.                                         *)
LEMMA OpenKeeps ==
  ASSUME FireInv, NEW r \in AnyRoute, IsPage(Top), ~locked,
         r.no = 0 \/ ~Mounted(r.no), stack' = Append(stack, r),
         UNCHANGED <<debug, locked, exiting, forms, submits, records>>
  PROVE  FireInv'
<1>1. /\ StackType' /\ StackShape' /\ Top' = r
      /\ OnScreen' = OnScreen \cup ({r} \cap ScreenRoute)
  BY PushStep, Zenon DEF FireInv, FireType
<1>2. UNCHANGED <<debug, form, entries, submits, store, shown, saves, copy, lastShown>>
  BY DEF forms, records
<1>3. DataType'
  BY <1>2, Zenon DEF FireInv, FireType, DataType
<1>4. GoneIsBlank'
  BY <1>1, <1>2, BlankKept, Zenon DEF FireInv, FireType
<1>5. StageOfStore' /\ EntriesOwned' /\ RepeatsKnown'
  <2>0. debug' = debug /\ submits' = submits /\ store' = store
    BY <1>2
  <2>1. StageOfStore'
    BY <2>0, StageKept, Zenon DEF FireInv
  <2>2. EntriesOwned'
    BY <1>2, Zenon DEF FireInv, EntriesOwned, Underway
  <2>3. RepeatsKnown'
    BY <1>2, Zenon DEF FireInv, RepeatsKnown
  <2> QED BY <2>1, <2>2, <2>3
<1>6. OwnPageInFront'
  <2>1. \A n : Top # Route("send", n)
    BY RouteKinds, Zenon DEF IsPage
  <2> QED BY <1>2, <2>1, Zenon DEF FireInv, OwnPageInFront, Underway
<1>7. ShowsAll'
  <2>1. CASE r \in ScreenRoute
    <3>1. r.no \in Screens /\ ~Mounted(r.no)
      BY <2>1, RouteKinds, Zenon
    <3>2. shown[r.no] = Waiting
      BY <3>1, Zenon DEF FireInv, GoneIsBlank
    <3> QED BY <1>1, <1>2, <3>2, Zenon DEF ShowsAll
  <2>2. CASE r \in PageRoute
    BY <1>1, <2>2, RouteKinds, Zenon DEF ShowsAll
  <2> QED BY <2>1, <2>2, Zenon DEF AnyRoute
<1> QED BY <1>1, <1>3, <1>4, <1>5, <1>6, <1>7, Zenon DEF FireInv, FireType

(* Back marks the submits of the page that was in front, which are the     *)
(* only ones that had not strayed.                                         *)
LEMMA BackKeeps == ASSUME FireInv, Back PROVE FireInv'
<1>1. StackType' /\ StackShape' /\ Top' \in PageRoute /\ OnScreen' = OnScreen
  BY BackStep, Zenon DEF FireInv, FireType
<1>2. UNCHANGED <<debug, form, entries, store, shown, saves, copy, lastShown>>
  BY DEF Back, forms, records
<1>3. /\ submits' \in Seq(Submission) /\ DOMAIN submits' = DOMAIN submits
      /\ \A i \in DOMAIN submits :
            /\ submits'[i].entry = submits[i].entry /\ submits'[i].no = submits[i].no
            /\ submits'[i].stage = submits[i].stage /\ submits'[i].again = submits[i].again
            /\ submits'[i].strayed <=> submits[i].strayed \/ submits[i].no = Top.no
  <2>1. submits \in Seq(Submission) /\ submits' = Strayed(submits, Top.no)
    BY DEF FireInv, FireType, DataType, Back
  <2> QED BY <2>1, StrayedFacts
<1>4. DataType'
  BY <1>2, <1>3, Zenon DEF FireInv, FireType, DataType
<1>5. GoneIsBlank'
  BY <1>1, <1>2, BlankKept, Zenon DEF FireInv, FireType
<1>6. StageOfStore'
  BY <1>2, <1>3, StageKept, Zenon DEF FireInv
<1>7. EntriesOwned' /\ RepeatsKnown'
  BY <1>2, <1>3, <1>4, EntriesKept, Zenon DEF FireInv, FireType, Underway
<1>8. OwnPageInFront'
  <2>1. ASSUME NEW i \in DOMAIN submits, Underway(i), ~submits[i].strayed, submits[i].no # 0
        PROVE  submits[i].no = Top.no
    <3>1. Top = Route("send", submits[i].no)
      BY <2>1, Zenon DEF FireInv, OwnPageInFront
    <3> QED BY <3>1 DEF Route
  <2> QED BY <1>3, <2>1, Zenon DEF OwnPageInFront, Underway
<1>9. ShowsAll'
  BY <1>1, RouteKinds, Zenon DEF ShowsAll
<1> QED BY <1>1, <1>4, <1>5, <1>6, <1>7, <1>8, <1>9, Zenon DEF FireInv, FireType

(* A page that is gone takes its form and its data with it; what is in     *)
(* front is another one.                                                   *)
LEMMA ExitKeeps == ASSUME FireInv, NEW r \in exiting, ExitEnds(r) PROVE FireInv'
<1>0. StackType /\ StackShape /\ DataType /\ GoneIsBlank
  BY DEF FireInv, FireType
<1>1. StackType' /\ StackShape' /\ Top' = Top /\ OnScreen' = OnScreen \ {r}
  BY <1>0, ExitStep, Zenon DEF ExitEnds
<1>2. /\ UNCHANGED <<debug, entries, submits, store, saves, copy, lastShown>>
      /\ form' = [n \in Screens |-> IF n = r.no THEN 0 ELSE form[n]]
      /\ shown' = [n \in Screens |-> IF n = r.no THEN Waiting ELSE shown[n]]
  BY DEF ExitEnds
<1>3. \A n \in Screens : /\ form'[n] = IF n = r.no THEN 0 ELSE form[n]
                         /\ shown'[n] = IF n = r.no THEN Waiting ELSE shown[n]
  BY <1>2, Zenon
<1>4. DataType'
  <2>1. form' \in [Screens -> Nat] /\ shown' \in [Screens -> SUBSET Int]
    BY <1>0, <1>2 DEF DataType, Waiting
  <2> QED BY <1>0, <1>2, <2>1, Zenon DEF DataType
<1>5. GoneIsBlank'
  <2>1. ASSUME NEW n \in Screens, ~Mounted(n)', n # r.no PROVE ~Mounted(n)
    <3>1. \A q \in Routes : q # r => q \in Routes'
      BY Zenon DEF Routes, ExitEnds
    <3> QED BY <2>1, <3>1, Zenon DEF Mounted
  <2> QED BY <1>0, <1>3, <2>1, Zenon DEF GoneIsBlank
<1>6. StageOfStore'
  BY <1>2, StageKept, Zenon DEF FireInv
<1>7. EntriesOwned' /\ RepeatsKnown'
  BY <1>0, <1>2, <1>3, <1>4, EntriesKept, Zenon DEF FireInv, Underway
<1>8. OwnPageInFront'
  BY <1>1, <1>2, FrontKept, Zenon DEF FireInv, Underway
<1>9. ShowsAll'
  <2>1. r \in Routes /\ Top \in Routes /\ Top # r /\ r \in ScreenRoute
    BY <1>0, TopFacts, Zenon DEF StackShape, Routes, StackType
  <2>2. Top.no # r.no
    BY <1>0, <2>1, RouteKinds, Zenon DEF StackShape
  <2>3. Top.kind = "fetch" => Top.no \in Screens
    BY <1>0, <2>1, TopFacts, RouteKinds, Zenon DEF AnyRoute
  <2>4. QueryResult' = QueryResult
    BY <1>2, Zenon DEF QueryResult
  <2> QED BY <1>1, <1>3, <2>2, <2>3, <2>4, Zenon DEF FireInv, ShowsAll
<1> QED BY <1>1, <1>4, <1>5, <1>6, <1>7, <1>8, <1>9, Zenon DEF FireInv, FireType

(* A form is filled in with an entry of its own. *)
LEMMA FillKeeps == ASSUME FireInv, Fill PROVE FireInv'
<1>0. /\ StackType /\ StackShape /\ DataType /\ GoneIsBlank /\ EntriesOwned
      /\ Top.kind = "send" /\ form[Top.no] = 0
  BY DEF FireInv, FireType, Fill
<1>1. StackType' /\ StackShape' /\ Top' = Top /\ OnScreen' = OnScreen /\ Routes' = Routes
  <2>1. UNCHANGED <<debug, locked, stack, exiting>>
    BY DEF Fill
  <2> QED BY <1>0, <2>1, StillStep, Zenon DEF Routes
<1>2. /\ UNCHANGED <<debug, submits, store, shown, saves, copy, lastShown>>
      /\ entries' = entries + 1 /\ form' = [form EXCEPT ![Top.no] = entries + 1]
  BY DEF Fill, records
<1>3. Top \in ScreenRoute /\ Top.no \in Screens /\ Top \in Routes
  BY <1>0, TopFacts, RouteKinds, Zenon DEF AnyRoute
<1>4. \A n \in Screens : form'[n] = IF n = Top.no THEN entries + 1 ELSE form[n]
  BY <1>0, <1>2, <1>3 DEF DataType
<1>5. DataType'
  <2>1. form' \in [Screens -> Nat] /\ entries' \in Nat
    BY <1>0, <1>2, <1>3 DEF DataType
  <2> QED BY <1>0, <1>2, <2>1, Zenon DEF DataType
<1>6. GoneIsBlank'
  <2>1. Mounted(Top.no) /\ \A n : Mounted(n)' <=> Mounted(n)
    BY <1>1, <1>3, Zenon DEF Mounted
  <2> QED BY <1>0, <1>2, <1>4, <2>1, Zenon DEF GoneIsBlank
<1>7. StageOfStore'
  BY <1>2, StageKept, Zenon DEF FireInv
<1>8. EntriesOwned'
  <2>1. /\ entries \in Nat /\ \A n \in Screens : form[n] \in Nat /\ form[n] <= entries
        /\ \A i \in DOMAIN submits : submits[i].entry \in Nat /\ submits[i].entry <= entries
    <3>1. \A i \in DOMAIN submits : submits[i] \in Submission
      BY <1>0 DEF DataType
    <3>2. \A i \in DOMAIN submits : submits[i].entry \in Nat
      BY <3>1 DEF Submission
    <3> QED BY <1>0, <3>2, Zenon DEF DataType, EntriesOwned
  <2>2. /\ \A n \in Screens : form'[n] <= entries'
        /\ \A i \in DOMAIN submits' : submits'[i].entry <= entries'
    BY <1>2, <1>4, <2>1
  <2>3. \A m, n \in Screens : form'[m] = form'[n] /\ form'[m] # 0 => m = n
    <3>1. \A n \in Screens : form[n] # entries + 1
      BY <2>1
    <3>2. \A m, o \in Screens : form[m] = form[o] /\ form[m] # 0 => m = o
      BY <1>0, Zenon DEF EntriesOwned
    <3> QED BY <1>4, <3>1, <3>2
  <2>4. ASSUME NEW n \in Screens, NEW i \in DOMAIN submits, form'[n] # 0,
               submits[i].entry = form'[n]
        PROVE  submits[i].stage = "failed" \/ (Underway(i) /\ submits[i].no = n)
    <3>1. n # Top.no
      BY <1>4, <2>1, <2>4
    <3> QED BY <1>0, <1>4, <2>4, <3>1, Zenon DEF EntriesOwned
  <2> QED BY <1>2, <2>2, <2>3, <2>4, Zenon DEF EntriesOwned, Underway
<1>9. RepeatsKnown'
  BY <1>2, Zenon DEF FireInv, RepeatsKnown
<1>10. OwnPageInFront'
  BY <1>1, <1>2, FrontKept, Zenon DEF FireInv, Underway
<1>11. ShowsAll'
  BY <1>0, <1>1, Zenon DEF ShowsAll
<1> QED BY <1>1, <1>5, <1>6, <1>7, <1>8, <1>9, <1>10, <1>11, Zenon DEF FireInv, FireType

(* A submit begins on the page in front; a repetition of an entry is one   *)
(* of a failed submit, or the earlier one is under way on that page.       *)
LEMMA SubmitKeeps == ASSUME FireInv, Submit PROVE FireInv'
<1> DEFINE n == Top.no
           again == \E i \in DOMAIN submits : Underway(i) /\ submits[i].no = n
           new == [entry |-> form[n], no |-> n, stage |-> "sent",
                   strayed |-> again, again |-> again]
           ss == Strayed(submits, n)
           k == Len(submits) + 1
<1>0. /\ StackType /\ StackShape /\ DataType /\ GoneIsBlank /\ EntriesOwned /\ RepeatsKnown
      /\ Top.kind = "send" /\ form[n] # 0 /\ StageOfStore /\ OwnPageInFront
  BY DEF FireInv, FireType, Submit
<1>1. StackType' /\ StackShape' /\ Top' = Top /\ OnScreen' = OnScreen /\ Routes' = Routes
  <2>1. UNCHANGED <<debug, locked, stack, exiting>>
    BY DEF Submit
  <2> QED BY <1>0, <2>1, StillStep, Zenon DEF Routes
<1>2. /\ UNCHANGED <<debug, form, entries, store, shown, saves, copy, lastShown>>
      /\ submits' = Append(ss, new)
  BY DEF Submit, records, forms
<1>3. n \in Screens /\ Top = Route("send", n)
  BY <1>0, TopFacts, RouteKinds, Zenon DEF AnyRoute
<1>4. /\ ss \in Seq(Submission) /\ Len(ss) = Len(submits) /\ DOMAIN ss = DOMAIN submits
      /\ \A i \in DOMAIN submits :
            /\ ss[i].entry = submits[i].entry /\ ss[i].no = submits[i].no
            /\ ss[i].stage = submits[i].stage /\ ss[i].again = submits[i].again
            /\ ss[i].strayed <=> submits[i].strayed \/ submits[i].no = n
  <2>1. submits \in Seq(Submission)
    BY <1>0 DEF DataType
  <2> QED BY <2>1, StrayedFacts
<1>5. new \in Submission
  <2>1. again \in BOOLEAN
    BY Zenon
  <2> HIDE DEF again
  <2>2. form[n] \in Nat \ {0} /\ n \in 0 .. MaxScreens
    BY <1>0, <1>3 DEF DataType, Screens
  <2> QED BY <2>1, <2>2 DEF Submission, Stages
<1>6. /\ new.entry = form[n] /\ new.no = n /\ new.stage = "sent"
      /\ new.strayed = again /\ new.again = again
  OBVIOUS
<1> HIDE DEF new, ss, again
<1>7. /\ submits' \in Seq(Submission) /\ DOMAIN submits' = DOMAIN submits \cup {k}
      /\ submits'[k] = new /\ \A i \in DOMAIN submits : submits'[i] = ss[i]
      /\ \A i \in DOMAIN submits : i < k /\ ~(k < i) /\ i # k
      /\ ~(k < k)
  <2>1. Len(submits) \in Nat /\ DOMAIN submits = 1 .. Len(submits)
    BY <1>0 DEF DataType
  <2>2. submits' \in Seq(Submission) /\ Len(submits') = k /\ submits'[k] = new
    BY <1>2, <1>4, <1>5
  <2>3. \A i \in DOMAIN submits : submits'[i] = ss[i]
    BY <1>2, <1>4, <1>5, <2>1
  <2>4. DOMAIN submits' = DOMAIN submits \cup {k}
    BY <2>1, <2>2
  <2> QED BY <2>1, <2>2, <2>3, <2>4
<1>a. \A i \in DOMAIN submits :
         /\ submits'[i].entry = submits[i].entry /\ submits'[i].no = submits[i].no
         /\ submits'[i].stage = submits[i].stage /\ submits'[i].again = submits[i].again
         /\ submits'[i].strayed <=> submits[i].strayed \/ submits[i].no = n
  BY <1>4, <1>7, Zenon
<1> HIDE DEF k, n
<1>8. DataType'
  <2>1. store' \subseteq DOMAIN submits'
    BY <1>0, <1>2, <1>7, Zenon DEF DataType
  <2> QED BY <1>0, <1>2, <1>7, <2>1, Zenon DEF DataType
<1>9. GoneIsBlank'
  BY <1>0, <1>1, <1>2, BlankKept, Zenon
<1>10. StageOfStore'
  <2>1. k \notin store
    BY <1>0, <1>7, Zenon DEF DataType
  <2>2. ASSUME NEW i \in DOMAIN submits
        PROVE  /\ submits'[i].stage \in {"sent", "refused", "failed"} => i \notin store'
               /\ submits'[i].stage \in {"stored", "succeeded", "both"} => i \in store'
               /\ submits'[i].stage \in {"stored", "refused"} => submits'[i].no # 0
               /\ submits'[i].stage = "both" => debug' /\ submits'[i].strayed
    <3>1. StageOfStore /\ debug' = debug /\ store' = store
      BY <1>0, <1>2
    <3> QED BY <1>a, <3>1, Zenon DEF StageOfStore, StageTrue
  <2>3. /\ submits'[k].stage \in {"sent", "refused", "failed"} => k \notin store'
        /\ submits'[k].stage \in {"stored", "succeeded", "both"} => k \in store'
        /\ submits'[k].stage \in {"stored", "refused"} => submits'[k].no # 0
        /\ submits'[k].stage = "both" => debug' /\ submits'[k].strayed
    BY <1>2, <1>6, <1>7, <2>1
  <2> QED BY <1>7, <2>2, <2>3, Zenon DEF StageOfStore, StageTrue
<1>11. EntriesOwned'
  <2>1. \A i \in DOMAIN submits' : submits'[i].entry <= entries'
    <3>1. form[n] <= entries /\ \A i \in DOMAIN submits : submits[i].entry <= entries
      BY <1>0, <1>3, Zenon DEF EntriesOwned
    <3>2. submits'[k].entry = form[n] /\ entries' = entries
      BY <1>2, <1>6, <1>7
    <3> QED BY <1>a, <1>7, <3>1, <3>2, Zenon
  <2>2. ASSUME NEW m \in Screens, NEW i \in DOMAIN submits', form'[m] # 0,
               submits'[i].entry = form'[m]
        PROVE  submits'[i].stage = "failed" \/ (Underway(i)' /\ submits'[i].no = m)
    <3>1. CASE i = k
      <4>1. form[m] = form[n] /\ form[m] # 0
        BY <1>2, <1>6, <1>7, <2>2, <3>1, Zenon
      <4>2. m = n
        BY <1>0, <1>3, <4>1, Zenon DEF EntriesOwned
      <4> QED BY <1>6, <1>7, <3>1, <4>2 DEF Underway, Ended
    <3>2. CASE i \in DOMAIN submits
      <4>1. form[m] # 0 /\ submits[i].entry = form[m]
        BY <1>2, <1>4, <1>7, <2>2, <3>2, Zenon
      <4>2. submits[i].stage = "failed" \/ (Underway(i) /\ submits[i].no = m)
        BY <1>0, <3>2, <4>1, Zenon DEF EntriesOwned
      <4> QED BY <1>4, <1>7, <3>2, <4>2, Zenon DEF Underway
    <3> QED BY <1>7, <3>1, <3>2, Zenon
  <2> QED BY <1>0, <1>2, <2>1, <2>2, Zenon DEF EntriesOwned
<1>12. RepeatsKnown'
  <2>1. ASSUME NEW i \in DOMAIN submits', NEW j \in DOMAIN submits', i < j,
               submits'[i].entry = submits'[j].entry
        PROVE  submits'[j].again \/ submits'[i].stage = "failed"
    <3>1. i \in DOMAIN submits
      BY <1>7, <2>1, Zenon
    <3>2. CASE j \in DOMAIN submits
      <4>1. submits[i].entry = submits[j].entry
        BY <1>a, <2>1, <3>1, <3>2, Zenon
      <4>2. submits[j].again \/ submits[i].stage = "failed"
        BY <1>0, <2>1, <3>1, <3>2, <4>1, Zenon DEF RepeatsKnown
      <4> QED BY <1>a, <3>1, <3>2, <4>2, Zenon
    <3>3. CASE j = k
      <4>1. submits[i].entry = form[n] /\ submits'[j] = new
        BY <1>4, <1>6, <1>7, <2>1, <3>1, <3>3, Zenon
      <4>2. submits[i].stage = "failed" \/ (Underway(i) /\ submits[i].no = n)
        BY <1>0, <1>3, <3>1, <4>1, Zenon DEF EntriesOwned
      <4>3. Underway(i) /\ submits[i].no = n => again
        BY <3>1, Zenon DEF again
      <4> QED BY <1>4, <1>6, <1>7, <3>1, <4>1, <4>2, <4>3, Zenon
    <3> QED BY <1>7, <3>2, <3>3, Zenon
  <2> QED BY <2>1, Zenon DEF RepeatsKnown
<1>13. OwnPageInFront'
  <2>1. ASSUME NEW i \in DOMAIN submits', Underway(i)', ~submits'[i].strayed, submits'[i].no # 0
        PROVE  Top' = Route("send", submits'[i].no)
    <3>1. CASE i = k
      BY <1>1, <1>3, <1>6, <1>7, <3>1, Zenon
    <3>2. CASE i \in DOMAIN submits
      <4>1. Underway(i) /\ ~submits[i].strayed /\ submits[i].no # 0
        BY <1>a, <2>1, <3>2, Zenon DEF Underway
      <4>2. Top = Route("send", submits[i].no)
        BY <1>0, <3>2, <4>1, Zenon DEF OwnPageInFront
      <4> QED BY <1>1, <1>a, <3>2, <4>2, Zenon
    <3> QED BY <1>7, <3>1, <3>2, Zenon
  <2> QED BY <2>1, Zenon DEF OwnPageInFront
<1>14. ShowsAll'
  BY <1>0, <1>1, Zenon DEF ShowsAll
<1> QED BY <1>1, <1>8, <1>9, <1>10, <1>11, <1>12, <1>13, <1>14, Zenon DEF FireInv, FireType

(* A submit under way goes to another stage, with the routes as they are.  *)
(* The store may gain its record, which was pending, and its form may be   *)
(* cleared.                                                                *)
LEMMA StageKeeps ==
  ASSUME FireInv, NEW k \in DOMAIN submits, Underway(k), NEW st \in Stages \ {"sent"},
         submits' = To(k, st),
         StackType', StackShape', Top' = Top, OnScreen' = OnScreen,
         UNCHANGED <<debug, entries, shown, saves, copy, lastShown>>,
         form' \in [Screens -> Nat],
         \A n \in Screens : form'[n] = 0 \/ form'[n] = form[n],
         store' = store \/ (store' = store \cup {k} /\ submits[k].stage = "sent"),
         /\ st \in {"refused", "failed"} => k \notin store'
         /\ st \in {"stored", "succeeded", "both"} => k \in store'
         /\ st \in {"stored", "refused"} => submits[k].no # 0
         /\ st = "both" => debug /\ submits[k].strayed,
         \/ st = "failed" \/ st \notin Ended
         \/ submits[k].no \in Screens => form'[submits[k].no] = 0
  PROVE  FireInv'
<1>0. /\ StackType /\ DataType /\ GoneIsBlank /\ StageOfStore /\ OwnPageInFront
      /\ EntriesOwned /\ RepeatsKnown /\ ShowsAll
  BY DEF FireInv, FireType
<1>1. /\ submits' \in Seq(Submission) /\ DOMAIN submits' = DOMAIN submits
      /\ submits'[k].stage = st
      /\ \A i \in DOMAIN submits :
            /\ submits'[i].entry = submits[i].entry /\ submits'[i].no = submits[i].no
            /\ submits'[i].again = submits[i].again
            /\ submits'[i].strayed <=> submits[i].strayed
            /\ i # k => submits'[i].stage = submits[i].stage
  <2>1. submits \in Seq(Submission)
    BY <1>0 DEF DataType
  <2> QED BY <2>1, ToFacts
<1>2. \A i \in DOMAIN submits : i # k => (i \in store' <=> i \in store)
  BY Zenon
<1>3. DataType'
  <2>1. store' \subseteq DOMAIN submits'
    BY <1>0, <1>1, Zenon DEF DataType
  <2> QED BY <1>0, <1>1, <2>1, Zenon DEF DataType
<1>4. GoneIsBlank'
  <2>1. \A n \in Screens : Mounted(n) => Mounted(n)'
    BY <1>0, MountedKept, Zenon
  <2> QED BY <1>0, <2>1, Zenon DEF GoneIsBlank
<1>5. StageOfStore'
  <2>0. debug' = debug
    OBVIOUS
  <2>1. ASSUME NEW i \in DOMAIN submits, i # k PROVE StageTrue(i)'
    <3>1. StageTrue(i)
      BY <1>0, Zenon DEF StageOfStore
    <3> QED BY <1>1, <1>2, <2>0, <2>1, <3>1, StageTrueKept, Zenon
  <2>2. StageTrue(k)'
    BY <1>1, <2>0, StageTrueMoved, Zenon
  <2> QED BY <1>1, <2>1, <2>2, Zenon DEF StageOfStore
<1>6. EntriesOwned' /\ RepeatsKnown'
  <2>1. ASSUME NEW i \in DOMAIN submits
        PROVE  /\ submits'[i].entry = submits[i].entry
               /\ submits'[i].again <=> submits[i].again
               /\ submits[i].stage = "failed" => submits'[i].stage = "failed"
               /\ Underway(i) =>
                     \/ Underway(i)' /\ submits'[i].no = submits[i].no
                     \/ submits'[i].stage = "failed"
                     \/ submits[i].no \in Screens => form'[submits[i].no] = 0
    <3>1. CASE i = k
      <4>1. submits[i].stage # "failed"
        BY <3>1 DEF Underway, Ended
      <4> QED BY <1>1, <3>1, <4>1, Zenon DEF Underway
    <3>2. CASE i # k
      BY <1>1, <3>2, Zenon DEF Underway
    <3> QED BY <3>1, <3>2
  <2>2. entries' = entries
    OBVIOUS
  <2> QED BY <1>0, <1>1, <1>3, <2>1, <2>2, EntriesKept, Zenon
<1>7. OwnPageInFront'
  <2>1. \A i \in DOMAIN submits :
           /\ Underway(i)' => Underway(i)
           /\ submits'[i].no = submits[i].no \/ submits'[i].no = 0
           /\ submits[i].strayed => submits'[i].strayed
    BY <1>1, Zenon DEF Underway
  <2> QED BY <1>0, <1>1, <2>1, FrontKept, Zenon
<1>8. ShowsAll'
  <2>1. QueryResult' \subseteq QueryResult
    <3>1. ASSUME NEW i \in QueryResult' PROVE i \in QueryResult
      <4>1. i \in store' \/ (i \in DOMAIN submits /\ submits'[i].stage = "sent")
        BY <1>1, <3>1, Zenon DEF QueryResult
      <4>2. CASE i \in store'
        BY <4>2, Zenon DEF QueryResult
      <4>3. CASE i \in DOMAIN submits /\ submits'[i].stage = "sent"
        <5>1. i # k
          BY <1>1, <4>3, Zenon
        <5> QED BY <1>1, <4>3, <5>1, Zenon DEF QueryResult
      <4> QED BY <4>1, <4>2, <4>3, Zenon
    <3> QED BY <3>1, Zenon
  <2> QED BY <1>0, <2>1, Zenon DEF ShowsAll
<1> QED BY <1>3, <1>4, <1>5, <1>6, <1>7, <1>8, Zenon DEF FireInv, FireType

(* The server answers, and the page hears of it. *)
LEMMA AnswerKeeps ==
  ASSUME FireInv, NEW k \in DOMAIN submits, Stored(k) \/ Refused(k) \/ AddFails(k)
  PROVE  FireInv'
<1>0. StackType /\ StackShape /\ DataType /\ GoneIsBlank /\ StageOfStore
  BY DEF FireInv, FireType
<1>1. /\ UNCHANGED <<debug, locked, stack, exiting>>
      /\ UNCHANGED <<debug, entries, shown, saves, copy, lastShown>> /\ form' = form
  BY DEF Stored, Refused, AddFails, forms, records
<1>2. StackType' /\ StackShape' /\ Top' = Top /\ OnScreen' = OnScreen
  BY <1>0, <1>1, StillStep, Zenon
<1>3. form' \in [Screens -> Nat] /\ \A n \in Screens : form'[n] = 0 \/ form'[n] = form[n]
  BY <1>0, <1>1, Zenon DEF DataType
<1>4. submits[k] \in Submission /\ (submits[k].no \in Screens \/ submits[k].no = 0)
  <2>1. submits[k] \in Submission
    BY <1>0 DEF DataType
  <2> QED BY <2>1, FirestoreAssumption DEF Submission, Screens
<1>5. ~(0 \in Screens)
  BY DEF Screens
<1>6. CASE Stored(k)
  <2> DEFINE st == IF submits[k].no = 0 THEN "silent" ELSE "stored"
  <2>1. /\ submits[k].stage = "sent" /\ store' = store \cup {k} /\ submits' = To(k, st)
        /\ Underway(k)
    BY <1>6 DEF Stored, Underway, Ended
  <2>2. /\ st \in Stages \ {"sent"} /\ st \notin {"refused", "failed", "both"}
        /\ k \in store'
        /\ st \in {"stored", "refused"} => submits[k].no # 0
        /\ st \notin Ended \/ submits[k].no = 0
    BY <2>1 DEF Stages, Ended
  <2> HIDE DEF st
  <2> QED BY <1>1, <1>2, <1>3, <1>5, <2>1, <2>2, StageKeeps, Zenon
<1>7. CASE Refused(k)
  <2> DEFINE st == IF submits[k].no = 0 THEN "silent" ELSE "refused"
  <2>1. submits[k].stage = "sent" /\ store' = store /\ submits' = To(k, st) /\ Underway(k)
    BY <1>7 DEF Refused, Underway, Ended, records
  <2>2. k \notin store
    BY <1>0, <2>1, Zenon DEF StageOfStore, StageTrue
  <2>3. /\ st \in Stages \ {"sent"} /\ st \notin {"stored", "succeeded", "both"}
        /\ st \in {"stored", "refused"} => submits[k].no # 0
        /\ st \notin Ended \/ submits[k].no = 0
    BY <2>1 DEF Stages, Ended
  <2> HIDE DEF st
  <2> QED BY <1>1, <1>2, <1>3, <1>5, <2>1, <2>2, <2>3, StageKeeps, Zenon
<1>8. CASE AddFails(k)
  <2> DEFINE st == IF Mounted(submits[k].no) THEN "failed" ELSE "silent"
  <2>1. submits[k].stage = "refused" /\ store' = store /\ submits' = To(k, st) /\ Underway(k)
    BY <1>8 DEF AddFails, Underway, Ended, records
  <2>2. k \notin store
    BY <1>0, <2>1, Zenon DEF StageOfStore, StageTrue
  <2>3. /\ st \in Stages \ {"sent"} /\ st \notin {"stored", "succeeded", "both", "refused"}
        /\ st = "failed" \/ ~Mounted(submits[k].no)
    <3> HIDE DEF Mounted
    <3> QED BY DEF Stages, Ended
  <2>4. st = "failed" \/ (submits[k].no \in Screens => form'[submits[k].no] = 0)
    BY <1>0, <1>1, <2>3, Zenon DEF GoneIsBlank
  <2> HIDE DEF st
  <2> QED BY <1>1, <1>2, <1>3, <2>1, <2>2, <2>3, <2>4, StageKeeps, Zenon
<1> QED BY <1>6, <1>7, <1>8, Zenon

(* add returns.  A submit that did not stray has its own page in front,    *)
(* so that the navigator is not locked and refuses nothing; otherwise only *)
(* a submit that strayed is told both.                                     *)
LEMMA AddEndsKeeps ==
  ASSUME FireInv, NEW k \in DOMAIN submits, AddEnds(k) PROVE FireInv'
<1> DEFINE n == submits[k].no
           refuses == locked \/ (debug /\ IsPage(Top))
<1>0. /\ StackType /\ StackShape /\ DataType /\ GoneIsBlank /\ StageOfStore /\ OwnPageInFront
      /\ EntriesOwned /\ RepeatsKnown
  BY DEF FireInv, FireType
<1>1. /\ submits[k].stage = "stored" /\ Underway(k)
      /\ UNCHANGED <<debug, entries, shown, saves, copy, lastShown>> /\ store' = store
  BY DEF AddEnds, records, Underway, Ended
<1>2. k \in store /\ n # 0
  BY <1>0, <1>1, Zenon DEF StageOfStore, StageTrue
<1>3. n \in Screens
  <2>1. submits[k] \in Submission
    BY <1>0 DEF DataType
  <2> QED BY <1>2, <2>1, FirestoreAssumption DEF Submission, Screens
<1>4. /\ "silent" \in Stages \ {"sent"} /\ "both" \in Stages \ {"sent"}
      /\ "succeeded" \in Stages \ {"sent"}
      /\ "silent" \notin {"refused", "failed", "stored", "succeeded", "both"}
      /\ "both" \notin {"refused", "failed", "stored"}
  BY DEF Stages, Ended
<1>5. CASE ~Mounted(n) /\ submits' = To(k, "silent") /\ UNCHANGED <<locked, stack, exiting, form>>
  <2>1. StackType' /\ StackShape' /\ Top' = Top /\ OnScreen' = OnScreen
    BY <1>0, <1>1, <1>5, StillStep, Zenon
  <2>2. /\ form' \in [Screens -> Nat] /\ \A m \in Screens : form'[m] = 0 \/ form'[m] = form[m]
        /\ form'[n] = 0
    BY <1>0, <1>3, <1>5, Zenon DEF DataType, GoneIsBlank
  <2> QED BY <1>1, <1>2, <1>4, <1>5, <2>1, <2>2, StageKeeps, Zenon
<1>6. CASE /\ Mounted(n) /\ refuses /\ submits' = To(k, "both") /\ locked' = TRUE
           /\ form' = [form EXCEPT ![n] = 0] /\ UNCHANGED <<stack, exiting>>
  <2>1. debug /\ IsPage(Top)
    BY <1>0, <1>6, Zenon DEF StackShape
  <2>2. Top' = Top /\ OnScreen' = OnScreen /\ Routes' = Routes
    BY <1>6, Zenon DEF Top, OnScreen, Routes
  <2>3. StackType'
    BY <1>0, <1>1, <1>6, Zenon DEF StackType
  <2>4. StackShape'
    BY <1>0, <1>1, <1>6, <2>1, <2>2, Zenon DEF StackShape, IsPage
  <2>5. /\ form' \in [Screens -> Nat] /\ form'[n] = 0
        /\ \A m \in Screens : form'[m] = 0 \/ form'[m] = form[m]
    BY <1>0, <1>3, <1>6 DEF DataType
  <2>6. submits[k].strayed
    <3>1. \A m : Top # Route("send", m)
      BY <2>1 DEF IsPage, Route
    <3> QED BY <1>0, <1>1, <1>2, <3>1, Zenon DEF OwnPageInFront
  <2> QED BY <1>1, <1>2, <1>4, <1>6, <2>1, <2>2, <2>3, <2>4, <2>5, <2>6, StageKeeps, Zenon
<1>7. CASE /\ Mounted(n) /\ ~refuses /\ FreeNo # {}
           /\ submits' = Strayed(To(k, "succeeded"), Top.no)
           /\ stack' = Append(Front(stack), Route("fetch", NewNo))
           /\ exiting' = exiting \cup {r \in {Top} : ~IsPage(r)}
           /\ form' = [form EXCEPT ![n] = 0] /\ UNCHANGED locked
  <2> DEFINE tt == To(k, "succeeded")
  <2>1. /\ StackType' /\ StackShape' /\ Top' = Route("fetch", NewNo)
        /\ OnScreen' = OnScreen \cup {Route("fetch", NewNo)}
    BY <1>0, <1>1, <1>7, ReplaceStep, Zenon
  <2>2. /\ tt \in Seq(Submission) /\ DOMAIN tt = DOMAIN submits /\ tt[k].stage = "succeeded"
        /\ \A i \in DOMAIN submits :
              /\ tt[i].entry = submits[i].entry /\ tt[i].no = submits[i].no
              /\ tt[i].again = submits[i].again /\ (tt[i].strayed <=> submits[i].strayed)
              /\ i # k => tt[i].stage = submits[i].stage
    <3>1. submits \in Seq(Submission) /\ "succeeded" \in Stages
      BY <1>0, <1>4 DEF DataType
    <3> QED BY <3>1, ToFacts
  <2> HIDE DEF tt
  <2>3. submits' = Strayed(tt, Top.no)
    BY <1>7 DEF tt
  <2>4. /\ submits' \in Seq(Submission) /\ DOMAIN submits' = DOMAIN tt
        /\ \A i \in DOMAIN tt :
              /\ submits'[i].entry = tt[i].entry /\ submits'[i].no = tt[i].no
              /\ submits'[i].stage = tt[i].stage /\ submits'[i].again = tt[i].again
              /\ submits'[i].strayed <=> tt[i].strayed \/ tt[i].no = Top.no
    BY <2>2, <2>3, StrayedFacts
  <2>5. /\ DOMAIN submits' = DOMAIN submits /\ submits'[k].stage = "succeeded"
        /\ \A i \in DOMAIN submits :
              /\ submits'[i].entry = submits[i].entry /\ submits'[i].no = submits[i].no
              /\ submits'[i].again = submits[i].again
              /\ submits'[i].strayed <=> submits[i].strayed \/ submits[i].no = Top.no
              /\ i # k => submits'[i].stage = submits[i].stage
    BY <2>2, <2>4, Zenon
  <2>6. /\ form' \in [Screens -> Nat] /\ form'[n] = 0
        /\ \A m \in Screens : form'[m] = 0 \/ form'[m] = form[m]
    BY <1>0, <1>3, <1>7 DEF DataType
  <2>7. DataType'
    <3>1. store' \subseteq DOMAIN submits'
      BY <1>0, <1>1, <2>5, Zenon DEF DataType
    <3> QED BY <1>0, <1>1, <2>4, <2>6, <3>1, Zenon DEF DataType
  <2>8. GoneIsBlank'
    <3>1. \A m \in Screens : Mounted(m) => Mounted(m)'
      BY <1>0, <2>1, MountedKept, Zenon
    <3> QED BY <1>0, <1>1, <2>6, <3>1, Zenon DEF GoneIsBlank
  <2>9. StageOfStore'
    <3>0. debug' = debug
      BY <1>1
    <3>1. ASSUME NEW i \in DOMAIN submits, i # k PROVE StageTrue(i)'
      <4>1. StageTrue(i)
        BY <1>0, Zenon DEF StageOfStore
      <4> QED BY <1>1, <2>5, <3>0, <3>1, <4>1, StageTrueKept, Zenon
    <3>2. StageTrue(k)'
      <4>1. submits'[k].no = submits[k].no /\ (submits[k].strayed => submits'[k].strayed)
        BY <2>5, Zenon
      <4>2. k \in store'
        BY <1>1, <1>2
      <4> QED BY <2>5, <3>0, <4>1, <4>2, StageTrueMoved, Zenon
    <3> QED BY <2>5, <3>1, <3>2, Zenon DEF StageOfStore
  <2>10. EntriesOwned' /\ RepeatsKnown'
    <3>1. ASSUME NEW i \in DOMAIN submits
          PROVE  /\ submits'[i].entry = submits[i].entry
                 /\ submits'[i].again <=> submits[i].again
                 /\ submits[i].stage = "failed" => submits'[i].stage = "failed"
                 /\ Underway(i) =>
                       \/ Underway(i)' /\ submits'[i].no = submits[i].no
                       \/ submits'[i].stage = "failed"
                       \/ submits[i].no \in Screens => form'[submits[i].no] = 0
      <4>1. CASE i = k
        <5>1. submits[i].stage # "failed"
          BY <1>1, <4>1
        <5> QED BY <2>5, <2>6, <4>1, <5>1, Zenon
      <4>2. CASE i # k
        BY <2>5, <4>2, Zenon DEF Underway
      <4> QED BY <4>1, <4>2
    <3>2. entries' = entries
      BY <1>1
    <3> QED BY <1>0, <2>5, <2>6, <2>7, <3>1, <3>2, EntriesKept, Zenon
  <2>11. OwnPageInFront'
    <3>1. ASSUME NEW i \in DOMAIN submits, Underway(i)', ~submits'[i].strayed, submits'[i].no # 0
          PROVE  FALSE
      <4>1. i # k
        BY <2>5, <3>1 DEF Underway, Ended
      <4>2. Underway(i) /\ ~submits[i].strayed /\ submits[i].no # 0 /\ submits[i].no # Top.no
        BY <2>5, <3>1, <4>1, Zenon DEF Underway
      <4>3. Top = Route("send", submits[i].no)
        BY <1>0, <4>2, Zenon DEF OwnPageInFront
      <4> QED BY <4>2, <4>3 DEF Route
    <3> QED BY <2>5, <3>1, Zenon DEF OwnPageInFront
  <2>12. ShowsAll'
    <3>1. NewNo \in Screens /\ ~Mounted(NewNo)
      BY <1>7, NewNoFacts, Zenon
    <3>2. shown'[NewNo] = Waiting
      BY <1>0, <1>1, <3>1, Zenon DEF GoneIsBlank
    <3>3. Top'.no = NewNo
      BY <2>1 DEF Route
    <3> QED BY <3>2, <3>3, Zenon DEF ShowsAll
  <2> QED BY <2>1, <2>7, <2>8, <2>9, <2>10, <2>11, <2>12, Zenon DEF FireInv, FireType
<1> QED BY <1>5, <1>6, <1>7, Zenon DEF AddEnds

(* A fetch page hears of news or of the end of its stream, or a write of   *)
(* the copy is done: the routes, the forms and the submits are as before.  *)
LEMMA FetchKeeps ==
  ASSUME FireInv, SaveDone \/ \E n \in FetchPages : Snapshot(n) \/ SnapshotError(n)
  PROVE  FireInv'
<1>0. /\ StackType /\ StackShape /\ DataType /\ GoneIsBlank /\ StageOfStore /\ OwnPageInFront
      /\ EntriesOwned /\ RepeatsKnown /\ ShowsAll
  BY DEF FireInv, FireType
<1>1. /\ UNCHANGED <<debug, locked, stack, exiting>>
      /\ UNCHANGED <<debug, form, entries, submits, store>>
  BY DEF SaveDone, Snapshot, SnapshotError, forms
<1>2. StackType' /\ StackShape' /\ Top' = Top /\ OnScreen' = OnScreen /\ Routes' = Routes
  BY <1>0, <1>1, StillStep, Zenon DEF Routes
<1>3. QueryResult \in SUBSET Int /\ QueryResult' = QueryResult
  <2>1. DOMAIN submits \subseteq Int
    BY <1>0 DEF DataType
  <2> QED BY <1>0, <1>1, <2>1, Zenon DEF DataType, QueryResult
<1>4. Waiting \in SUBSET Int /\ Broken \in SUBSET Int
  BY DEF Waiting, Broken
<1>5. \/ shown' = shown
      \/ \E n \in FetchPages : \/ shown' = [shown EXCEPT ![n] = QueryResult]
                               \/ shown' = [shown EXCEPT ![n] = Broken]
  BY Zenon DEF SaveDone, Snapshot, SnapshotError
<1>6. \A n \in FetchPages : n \in Screens /\ Mounted(n)
  BY RouteKinds, Zenon DEF FetchPages, Mounted
<1>7. /\ shown' \in [Screens -> SUBSET Int]
      /\ \A n \in Screens : \/ shown'[n] = shown[n]
                            \/ Mounted(n) /\ (shown'[n] = QueryResult \/ shown'[n] = Broken)
  <2>0. shown \in [Screens -> SUBSET Int]
    BY <1>0 DEF DataType
  <2>1. ASSUME NEW n \in Screens, NEW v \in SUBSET Int, shown' = [shown EXCEPT ![n] = v]
        PROVE  shown' \in [Screens -> SUBSET Int]
               /\ \A m \in Screens : shown'[m] = IF m = n THEN v ELSE shown[m]
    BY <2>0, <2>1, Zenon
  <2>2. CASE shown' = shown
    BY <2>0, <2>2, Zenon
  <2>3. CASE \E n \in FetchPages : \/ shown' = [shown EXCEPT ![n] = QueryResult]
                                   \/ shown' = [shown EXCEPT ![n] = Broken]
    <3>1. PICK n \in FetchPages : \/ shown' = [shown EXCEPT ![n] = QueryResult]
                                  \/ shown' = [shown EXCEPT ![n] = Broken]
      BY <2>3
    <3>2. n \in Screens /\ Mounted(n)
      BY <1>6
    <3>3. CASE shown' = [shown EXCEPT ![n] = QueryResult]
      BY <1>3, <2>1, <3>2, <3>3, Zenon
    <3>4. CASE shown' = [shown EXCEPT ![n] = Broken]
      BY <1>4, <2>1, <3>2, <3>4, Zenon
    <3> QED BY <3>1, <3>3, <3>4, Zenon
  <2> QED BY <1>5, <2>2, <2>3, Zenon
<1>8. saves' \in Seq(SUBSET Int) /\ copy' \in SUBSET Int /\ lastShown' \in SUBSET Int
  <2>0. saves \in Seq(SUBSET Int) /\ copy \in SUBSET Int /\ lastShown \in SUBSET Int
    BY <1>0 DEF DataType
  <2>1. CASE SaveDone
    <3> DEFINE V == SUBSET Int
    <3>1. saves \in Seq(V) /\ saves # <<>> /\ saves' = Tail(saves) /\ copy' = Head(saves)
          /\ lastShown' = lastShown
      BY <2>0, <2>1 DEF SaveDone
    <3> HIDE DEF V
    <3>2. saves' \in Seq(V) /\ copy' \in V
      BY <3>1
    <3> QED BY <2>0, <3>1, <3>2 DEF V
  <2>2. ASSUME NEW n \in FetchPages, Snapshot(n)
        PROVE  saves' \in Seq(SUBSET Int) /\ copy' \in SUBSET Int /\ lastShown' \in SUBSET Int
    <3> DEFINE V == SUBSET Int
    <3>1. /\ saves \in Seq(V) /\ QueryResult \in V /\ saves' = Append(saves, QueryResult)
          /\ copy' = copy /\ lastShown' = QueryResult
      BY <1>3, <2>0, <2>2 DEF Snapshot
    <3> HIDE DEF V
    <3>2. saves' \in Seq(V)
      BY <3>1
    <3> QED BY <1>3, <2>0, <3>1, <3>2 DEF V
  <2>3. ASSUME NEW n \in FetchPages, SnapshotError(n)
        PROVE  saves' \in Seq(SUBSET Int) /\ copy' \in SUBSET Int /\ lastShown' \in SUBSET Int
    BY <2>0, <2>3 DEF SnapshotError
  <2> QED BY <2>1, <2>2, <2>3, Zenon
<1>9. DataType'
  BY <1>0, <1>1, <1>7, <1>8, Zenon DEF DataType
<1>10. GoneIsBlank'
  <2>1. \A n : Mounted(n)' <=> Mounted(n)
    BY <1>2, Zenon DEF Mounted
  <2>2. form' = form
    BY <1>1
  <2> QED BY <1>0, <1>7, <2>1, <2>2, Zenon DEF GoneIsBlank
<1>11. StageOfStore'
  BY <1>0, <1>1, StageKept, Zenon
<1>12. EntriesOwned' /\ RepeatsKnown'
  BY <1>0, <1>1, <1>9, EntriesKept, Zenon DEF Underway
<1>13. OwnPageInFront'
  BY <1>0, <1>1, <1>2, FrontKept, Zenon DEF Underway
<1>14. ShowsAll'
  <2>1. Top.kind = "fetch" => Top.no \in Screens
    BY <1>0, TopFacts, RouteKinds, Zenon DEF AnyRoute
  <2> QED BY <1>0, <1>2, <1>3, <1>7, <2>1, Zenon DEF ShowsAll
<1> QED BY <1>2, <1>9, <1>10, <1>11, <1>12, <1>13, <1>14, Zenon DEF FireInv, FireType

(* The process ends: nothing is mounted and nothing typed, and the submits *)
(* left are the pending ones, which no page waits for.                     *)
LEMMA RestartKeeps == ASSUME FireInv, Restart PROVE FireInv'
<1> DEFINE over(i) == submits[i].stage \in {"stored", "refused"}
           e(i) == IF over(i) THEN [submits[i] EXCEPT !.stage = "silent", !.no = 0]
                              ELSE [submits[i] EXCEPT !.no = 0]
<1>0. /\ StackType /\ StackShape /\ DataType /\ StageOfStore /\ EntriesOwned /\ RepeatsKnown
  BY DEF FireInv, FireType
<1>1. /\ locked' = FALSE /\ stack' = <<Route("home", 0)>> /\ exiting' = {}
      /\ submits' = [i \in DOMAIN submits |-> e(i)]
      /\ form' = [n \in Screens |-> 0] /\ shown' = [n \in Screens |-> Waiting]
      /\ saves' = <<>> /\ lastShown' = Waiting
      /\ debug' = debug /\ entries' = entries /\ store' = store /\ copy' = copy
  BY DEF Restart
<1>2. ASSUME NEW i \in DOMAIN submits
      PROVE  /\ e(i) \in Submission /\ e(i).no = 0
             /\ e(i).entry = submits[i].entry /\ e(i).again = submits[i].again
             /\ e(i).strayed = submits[i].strayed
             /\ e(i).stage = IF over(i) THEN "silent" ELSE submits[i].stage
  <2>1. submits[i] \in Submission
    BY <1>0 DEF DataType
  <2>2. 0 \in 0 .. MaxScreens
    BY FirestoreAssumption
  <2> QED BY <2>1, <2>2 DEF Submission, Stages, Ended
<1> HIDE DEF e, over
<1>3. submits' \in Seq(Submission) /\ DOMAIN submits' = DOMAIN submits
  <2>1. DOMAIN submits = 1 .. Len(submits) /\ Len(submits) \in Nat
    BY <1>0 DEF DataType
  <2>2. submits' = [i \in 1 .. Len(submits) |-> e(i)] /\ \A i \in 1 .. Len(submits) : e(i) \in Submission
    BY <1>1, <1>2, <2>1, Zenon
  <2>3. submits' \in Seq(Submission)
    BY <2>1, <2>2, IsASeq
  <2> QED BY <1>1, <2>3, Zenon
<1>4. \A i \in DOMAIN submits :
         /\ submits'[i].no = 0
         /\ submits'[i].entry = submits[i].entry /\ submits'[i].again = submits[i].again
         /\ submits'[i].strayed = submits[i].strayed
         /\ submits'[i].stage = IF over(i) THEN "silent" ELSE submits[i].stage
  BY <1>1, <1>2, Zenon
<1>5. /\ StackType' /\ StackShape' /\ Top' = Route("home", 0)
  <2>1. Route("home", 0) \in PageRoute
    BY RouteKinds
  <2>2. /\ stack' \in Seq(PageRoute \cup ScreenRoute) /\ stack' # <<>> /\ Len(stack') = 1
        /\ stack'[1] = Route("home", 0) /\ DOMAIN stack' = {1}
    BY <1>1, <2>1
  <2>3. StackType'
    BY <1>0, <1>1, <2>2, Zenon DEF StackType
  <2>4. Top' = Route("home", 0) /\ Routes' = {Route("home", 0)}
    BY <1>1, <2>2, Zenon DEF Top, Last, Routes, Range
  <2>5. \A i \in DOMAIN stack' : ~(i < Len(stack'))
    BY <2>2
  <2>6. Route("home", 0).kind = "home"
    BY DEF Route
  <2> QED BY <1>1, <2>2, <2>3, <2>4, <2>5, <2>6, Zenon DEF StackShape
<1>6. DataType'
  <2>1. form' \in [Screens -> Nat] /\ shown' \in [Screens -> SUBSET Int] /\ lastShown' \in SUBSET Int
    BY <1>1 DEF Waiting
  <2>2. saves' \in Seq(SUBSET Int)
    BY <1>1
  <2> QED BY <1>0, <1>1, <1>3, <2>1, <2>2, Zenon DEF DataType
<1>7. GoneIsBlank'
  BY <1>1, Zenon DEF GoneIsBlank
<1>8. StageOfStore'
  <2>1. ASSUME NEW i \in DOMAIN submits PROVE StageTrue(i)'
    <3>0. StageTrue(i)
      BY <1>0, Zenon DEF StageOfStore
    <3>1. CASE over(i)
      BY <1>1, <1>4, <3>1, StageTrueSilent, Zenon
    <3>2. CASE ~over(i)
      <4>1. submits[i].stage \notin {"stored", "refused"} /\ submits'[i].stage = submits[i].stage
        BY <1>4, <3>2, Zenon DEF over
      <4> QED BY <1>1, <1>4, <3>0, <4>1, Zenon DEF StageTrue
    <3> QED BY <3>1, <3>2
  <2> QED BY <1>3, <2>1, Zenon DEF StageOfStore
<1>9. EntriesOwned' /\ RepeatsKnown'
  <2>1. \A n \in Screens : form'[n] = 0
    BY <1>1, Zenon
  <2>2. ASSUME NEW i \in DOMAIN submits
        PROVE  /\ submits'[i].entry = submits[i].entry
               /\ submits'[i].again <=> submits[i].again
               /\ submits[i].stage = "failed" => submits'[i].stage = "failed"
    <3>1. submits[i].stage = "failed" => ~over(i)
      BY DEF over
    <3> QED BY <1>4, <3>1, Zenon
  <2> QED BY <1>0, <1>1, <1>3, <1>6, <2>1, <2>2, EntriesKept, Zenon
<1>10. OwnPageInFront'
  BY <1>3, <1>4, Zenon DEF OwnPageInFront
<1>11. ShowsAll'
  <2>1. Top'.kind = "home"
    BY <1>5 DEF Route
  <2> QED BY <2>1 DEF ShowsAll
<1> QED BY <1>5, <1>6, <1>7, <1>8, <1>9, <1>10, <1>11, Zenon DEF FireInv, FireType

(* Every step keeps the invariant. *)
LEMMA FireStep == FireInv /\ [Next]_vars => FireInv'
<1> SUFFICES ASSUME FireInv, [Next]_vars PROVE FireInv'
  OBVIOUS
<1>0. StackType /\ StackShape
  BY DEF FireInv, FireType
<1>1. CASE OpenView
  <2>1. Route("view", 0) \in AnyRoute /\ Route("view", 0).no = 0
    BY RouteKinds, Zenon DEF AnyRoute
  <2> QED BY <1>1, <2>1, OpenKeeps, Zenon DEF OpenView, IsPage
<1>2. ASSUME NEW kind \in {"send", "fetch"}, OpenPage(kind) PROVE FireInv'
  <2>1. FreeNo # {} /\ Top.kind = "view" /\ ~locked
    BY <1>2 DEF OpenPage
  <2>2. NewNo \in Screens /\ ~Mounted(NewNo)
    BY <2>1, NewNoFacts, Zenon
  <2>3. Route(kind, NewNo) \in AnyRoute /\ Route(kind, NewNo).no = NewNo
    BY <2>2 DEF AnyRoute, ScreenRoute, Route
  <2> QED BY <1>2, <2>1, <2>2, <2>3, OpenKeeps, Zenon DEF OpenPage, IsPage
<1>3. CASE UNCHANGED vars
  <2>1. UNCHANGED <<debug, locked, stack, exiting>>
        /\ UNCHANGED <<form, entries, submits, store, shown, saves, copy, lastShown>>
    BY <1>3 DEF vars
  <2>2. StackType' /\ StackShape' /\ Top' = Top /\ OnScreen' = OnScreen
    BY <1>0, <2>1, StillStep, Zenon
  <2>3. DataType'
    BY <2>1, Zenon DEF FireInv, FireType, DataType
  <2>4. StageOfStore'
    BY <2>1, StageKept, Zenon DEF FireInv
  <2>5. EntriesOwned' /\ RepeatsKnown'
    BY <2>1, <2>3, EntriesKept, Zenon DEF FireInv, FireType, Underway
  <2>6. OwnPageInFront'
    BY <2>1, <2>2, FrontKept, Zenon DEF FireInv, Underway
  <2>7. GoneIsBlank'
    BY <1>0, <2>1, <2>2, BlankKept, Zenon DEF FireInv
  <2>8. ShowsAll'
    BY <2>1, <2>2, Zenon DEF FireInv, ShowsAll, QueryResult
  <2> QED BY <2>2, <2>3, <2>4, <2>5, <2>6, <2>7, <2>8, Zenon DEF FireInv, FireType
<1> QED BY <1>1, <1>2, <1>3, BackKeeps, ExitKeeps, FillKeeps, SubmitKeeps, AnswerKeeps,
           AddEndsKeeps, FetchKeeps, RestartKeeps, Zenon DEF Next, SubmitStep

(* The invariant holds when the app starts. *)
LEMMA FireInit == Init => FireInv
<1> SUFFICES ASSUME Init PROVE FireInv
  OBVIOUS
<1>1. /\ debug \in BOOLEAN /\ locked = FALSE /\ stack = <<Route("home", 0)>> /\ exiting = {}
      /\ form = [n \in Screens |-> 0] /\ entries = 0 /\ submits = <<>> /\ store = {}
      /\ shown = [n \in Screens |-> Waiting]
      /\ saves = <<>> /\ copy = Waiting /\ lastShown = Waiting
  BY DEF Init
<1>2. StackType /\ StackShape /\ Top = Route("home", 0)
  <2>1. Route("home", 0) \in PageRoute
    BY RouteKinds
  <2>2. /\ stack \in Seq(PageRoute \cup ScreenRoute) /\ stack # <<>> /\ Len(stack) = 1
        /\ stack[1] = Route("home", 0) /\ DOMAIN stack = {1}
    BY <1>1, <2>1
  <2>3. StackType
    BY <1>1, <2>2, Zenon DEF StackType
  <2>4. Top = Route("home", 0) /\ Routes = {Route("home", 0)}
    BY <1>1, <2>2, Zenon DEF Top, Last, Routes, Range
  <2>5. \A i \in DOMAIN stack : ~(i < Len(stack))
    BY <2>2
  <2>6. Route("home", 0).kind = "home"
    BY DEF Route
  <2> QED BY <1>1, <2>2, <2>3, <2>4, <2>5, <2>6, Zenon DEF StackShape
<1>3. DataType
  <2>1. /\ form \in [Screens -> Nat] /\ entries \in Nat
        /\ shown \in [Screens -> SUBSET Int] /\ copy \in SUBSET Int
    BY <1>1 DEF Waiting
  <2>2. saves \in Seq(SUBSET Int) /\ submits \in Seq(Submission)
    BY <1>1
  <2> QED BY <1>1, <2>1, <2>2, Zenon DEF DataType
<1>4. GoneIsBlank
  BY <1>1, Zenon DEF GoneIsBlank
<1>5. StageOfStore /\ OwnPageInFront /\ RepeatsKnown
  BY <1>1 DEF StageOfStore, OwnPageInFront, RepeatsKnown
<1>6. EntriesOwned
  BY <1>1 DEF EntriesOwned
<1>7. ShowsAll
  <2>1. Top.kind = "home"
    BY <1>2 DEF Route
  <2> QED BY <2>1 DEF ShowsAll
<1> QED BY <1>2, <1>3, <1>4, <1>5, <1>6, <1>7, Zenon DEF FireInv, FireType

(* The inductive invariant holds in every reachable state. *)
LEMMA FireInvariant == Spec => []FireInv
BY FireInit, FireStep, PTL DEF Spec

-----------------------------------------------------------------------------
(* What the invariant says of the screens. *)

(* For any number of screens and submits: a success was stored, an error   *)
(* was not and never will be, and only in debug builds and after the page  *)
(* was left, replaced or submitted again is an error shown after a success.*)
THEOREM MessagesTrue == Spec => []MessageIsTrue
<1>1. FireInv => MessageIsTrue
  BY Zenon DEF FireInv, StageOfStore, StageTrue, MessageIsTrue
<1> QED BY <1>1, FireInvariant, PTL

(* For any number of screens and submits: the fetch page in front misses   *)
(* no stored record.                                                       *)
THEOREM StoredShown == Spec => []ShowsStored
<1>1. FireInv => ShowsStored
  BY Zenon DEF FireInv, ShowsAll, QueryResult, ShowsStored
<1> QED BY <1>1, FireInvariant, PTL

(* For any number of screens and submits: one form entry becomes two       *)
(* records only by a tap during an earlier submit of it.                   *)
THEOREM DuplicatesKnown == Spec => []DuplicateNeedsOverlap
<1>1. ASSUME FireInv, NEW i \in store, NEW j \in store, i < j,
             submits[i].entry = submits[j].entry
      PROVE  submits[j].again
  <2>1. i \in DOMAIN submits /\ j \in DOMAIN submits
    BY <1>1, Zenon DEF FireInv, FireType, DataType
  <2>2. submits[i].stage # "failed"
    BY <1>1, <2>1, Zenon DEF FireInv, StageOfStore, StageTrue
  <2> QED BY <1>1, <2>1, <2>2, Zenon DEF FireInv, RepeatsKnown
<1>2. FireInv => DuplicateNeedsOverlap
  BY <1>1, Zenon DEF DuplicateNeedsOverlap
<1> QED BY <1>2, FireInvariant, PTL

(* For any number of screens and submits: a submit whose page was not      *)
(* left, replaced or submitted again replaces its own page, and it alone,  *)
(* by a fetch page.                                                        *)
THEOREM OwnPageReplaced == Spec => ReplacesOwnPage
<1> DEFINE Own == \A i \in DOMAIN submits :
              ~submits[i].strayed /\ AddEnds(i) =>
                  /\ submits[i].no = Top.no
                  /\ Front(stack') = Front(stack) /\ Last(stack').kind = "fetch"
<1>1. ASSUME FireInv, NEW i \in DOMAIN submits, ~submits[i].strayed, AddEnds(i)
      PROVE  /\ submits[i].no = Top.no
             /\ Front(stack') = Front(stack) /\ Last(stack').kind = "fetch"
  <2>0. StackType /\ StackShape
    BY <1>1 DEF FireInv, FireType
  <2>1. submits[i].stage = "stored" /\ Underway(i)
    BY <1>1 DEF AddEnds, Underway, Ended
  <2>2. submits[i].no # 0
    BY <1>1, <2>1, Zenon DEF FireInv, StageOfStore, StageTrue
  <2>3. Top = Route("send", submits[i].no)
    BY <1>1, <2>1, <2>2, Zenon DEF FireInv, OwnPageInFront
  <2>4. Top.no = submits[i].no /\ ~IsPage(Top)
    BY <2>3 DEF Route, IsPage
  <2>5. Mounted(submits[i].no)
    BY <2>0, <2>4, TopFacts, Zenon DEF Mounted
  <2>6. ~locked
    BY <2>0, <2>4, Zenon DEF StackShape
  <2>7. FreeNo # {} /\ stack' = Append(Front(stack), Route("fetch", NewNo))
    BY <1>1, <2>4, <2>5, <2>6, Zenon DEF AddEnds
  <2>8. Front(stack) \in Seq(PageRoute)
    BY <2>0, FrontPages
  <2> DEFINE f == Front(stack)
             R == AnyRoute
  <2>9. f \in Seq(R) /\ Route("fetch", NewNo) \in R
    <3>1. Route("fetch", NewNo) \in AnyRoute
      BY <2>7, NewNoFacts, RouteKinds, Zenon DEF AnyRoute
    <3> HIDE DEF f
    <3> QED BY <2>8, <3>1 DEF f, AnyRoute
  <2>10. Last(stack') = Route("fetch", NewNo) /\ Front(stack') = f
    <3> HIDE DEF f, R
    <3>1. stack' = Append(f, Route("fetch", NewNo))
      BY <2>7 DEF f
    <3> QED BY <2>9, <3>1, PushFacts
  <2>11. Route("fetch", NewNo).kind = "fetch"
    BY DEF Route
  <2> QED BY <2>4, <2>10, <2>11, Zenon
<1>2. FireInv => Own
  BY <1>1, Zenon
<1> HIDE DEF Own
<1>3. FireInv /\ [Next]_vars => [Own]_vars
  BY <1>2, Zenon
<1>4. Spec => [][Own]_vars
  BY <1>3, FireInvariant, PTL DEF Spec
<1> QED BY <1>4 DEF Own, ReplacesOwnPage

(* For any number of pages and saves: once the writes under way are done,  *)
(* the local copy is the snapshot that was shown last.                     *)
THEOREM CopyFollowed == Spec => []CopyFollows
<1>1. Init => CopyFollows
  BY DEF Init, CopyFollows
<1>2. ASSUME FireInv, CopyFollows, [Next]_vars PROVE CopyFollows'
  <2> DEFINE V == SUBSET Int
  <2>0. saves \in Seq(V)
    BY <1>2 DEF FireInv, FireType, DataType
  <2>1. CASE UNCHANGED <<saves, copy, lastShown>>
    BY <1>2, <2>1, Zenon DEF CopyFollows
  <2>2. CASE SaveDone
    <3> HIDE DEF V
    <3>1. saves # <<>> /\ copy' = Head(saves) /\ saves' = Tail(saves) /\ lastShown' = lastShown
      BY <2>2 DEF SaveDone
    <3>2. (IF saves' # <<>> THEN Last(saves') ELSE copy') = Last(saves)
      <4>1. CASE Len(saves) = 1
        BY <2>0, <3>1, <4>1 DEF Last
      <4>2. CASE Len(saves) # 1
        BY <2>0, <3>1, <4>2 DEF Last
      <4> QED BY <4>1, <4>2
    <3> QED BY <1>2, <3>1, <3>2, Zenon DEF CopyFollows
  <2>3. ASSUME NEW n \in FetchPages, Snapshot(n) PROVE CopyFollows'
    <3>1. QueryResult \in V
      <4>1. DOMAIN submits \subseteq Int /\ store \subseteq DOMAIN submits
        BY <1>2 DEF FireInv, FireType, DataType
      <4> QED BY <4>1, Zenon DEF QueryResult
    <3> HIDE DEF V
    <3>2. saves' = Append(saves, QueryResult) /\ lastShown' = QueryResult
      BY <2>3 DEF Snapshot
    <3>3. saves' # <<>> /\ Last(saves') = QueryResult
      BY <2>0, <3>1, <3>2 DEF Last
    <3> QED BY <3>2, <3>3, Zenon DEF CopyFollows
  <2>4. CASE Restart
    BY <2>4 DEF Restart, CopyFollows
  <2>5. \/ UNCHANGED <<saves, copy, lastShown>> \/ SaveDone \/ Restart
        \/ \E n \in FetchPages : Snapshot(n)
    BY <1>2 DEF Next, vars, records, OpenView, OpenPage, Back, ExitEnds, Fill, Submit,
         SubmitStep, Stored, Refused, AddEnds, AddFails, SnapshotError
  <2> QED BY <2>1, <2>2, <2>3, <2>4, <2>5, Zenon
<1>3. FireInv /\ CopyFollows /\ [Next]_vars => CopyFollows'
  BY <1>2
<1> QED BY <1>1, <1>3, FireInvariant, PTL DEF Spec

(* The bounds, and that only submits are shown and written to the copy. *)
BoundsKept ==
    /\ entries <= MaxSubmits /\ Len(saves) <= MaxSaves
    /\ \A k \in DOMAIN saves : saves[k] \subseteq DOMAIN submits

(* No step takes a submit back, and what a query answers are submits. *)
LEMMA BoundsStep ==
  ASSUME FireInv, BoundsKept, [Next]_vars PROVE BoundsKept'
<1> DEFINE V == SUBSET Int
<1>0. /\ saves \in Seq(V) /\ submits \in Seq(Submission) /\ store \subseteq DOMAIN submits
      /\ entries \in Nat /\ MaxSubmits \in Nat /\ MaxSaves \in Nat
  BY FirestoreAssumption DEF FireInv, FireType, DataType
<1>1. DOMAIN submits \subseteq DOMAIN submits'
  <2>1. CASE Submit
    <3>1. \E u : submits' = Append(Strayed(submits, Top.no), u)
      BY <2>1, Zenon DEF Submit
    <3>2. PICK u : submits' = Append(Strayed(submits, Top.no), u)
      BY <3>1
    <3> DEFINE ss == Strayed(submits, Top.no)
    <3>3. ss \in Seq(Submission) /\ DOMAIN ss = DOMAIN submits
      BY <1>0, StrayedFacts
    <3> HIDE DEF ss
    <3>4. submits' = Append(ss, u)
      BY <3>2 DEF ss
    <3>5. DOMAIN ss \subseteq DOMAIN submits'
      BY <3>3, <3>4
    <3> QED BY <3>3, <3>5
  <2>2. CASE ~Submit
    <3>1. \A n : DOMAIN Strayed(submits, n) = DOMAIN submits
      BY DEF Strayed
    <3>2. \A i, st : DOMAIN To(i, st) = DOMAIN submits
      BY <1>0 DEF To
    <3>3. \A i, st, n : DOMAIN Strayed(To(i, st), n) = DOMAIN submits
      BY <3>2, Zenon DEF Strayed
    <3>4. Restart => DOMAIN submits' = DOMAIN submits
      BY DEF Restart
    <3>5. \/ submits' = submits \/ Restart
          \/ \E n : submits' = Strayed(submits, n)
          \/ \E i, st : submits' = To(i, st)
          \/ \E i, st, n : submits' = Strayed(To(i, st), n)
      <4>1. CASE \E i \in DOMAIN submits : SubmitStep(i)
        BY <4>1, Zenon DEF SubmitStep, Stored, Refused, AddEnds, AddFails
      <4>2. CASE Back
        BY <4>2, Zenon DEF Back
      <4>3. CASE ~Back /\ ~(\E i \in DOMAIN submits : SubmitStep(i)) /\ ~Restart
        BY <2>2, <4>3 DEF Next, vars, OpenView, OpenPage, ExitEnds, Fill,
             Snapshot, SnapshotError, SaveDone
      <4> QED BY <4>1, <4>2, <4>3, Zenon
    <3> QED BY <3>1, <3>2, <3>3, <3>4, <3>5, Zenon
  <2> QED BY <2>1, <2>2
<1>2. entries' <= MaxSubmits
  <2>1. CASE Fill
    BY <1>0, <2>1 DEF Fill
  <2>2. CASE ~Fill
    BY <2>2 DEF BoundsKept, Next, vars, forms, OpenView, OpenPage, Back, ExitEnds, Submit,
         SubmitStep, Stored, Refused, AddEnds, AddFails, Snapshot, SnapshotError, SaveDone, Restart
  <2> QED BY <2>1, <2>2
<1>3. Len(saves') <= MaxSaves /\ \A k \in DOMAIN saves' : saves'[k] \subseteq DOMAIN submits
  <2>0. Len(saves) <= MaxSaves /\ \A k \in DOMAIN saves : saves[k] \subseteq DOMAIN submits
    BY DEF BoundsKept
  <2>1. CASE saves' = saves
    BY <2>0, <2>1
  <2>2. CASE SaveDone
    <3>1. saves # <<>> /\ saves' = Tail(saves)
      BY <2>2 DEF SaveDone
    <3> HIDE DEF V
    <3>2. /\ Len(saves') = Len(saves) - 1 /\ Len(saves) \in Nat
          /\ \A k \in DOMAIN saves' : k + 1 \in DOMAIN saves /\ saves'[k] = saves[k + 1]
      BY <1>0, <3>1
    <3>3. Len(saves') <= MaxSaves
      BY <1>0, <2>0, <3>2
    <3> QED BY <2>0, <3>2, <3>3, Zenon
  <2>3. ASSUME NEW n \in FetchPages, Snapshot(n)
        PROVE  Len(saves') <= MaxSaves /\ \A k \in DOMAIN saves' : saves'[k] \subseteq DOMAIN submits
    <3>1. saves' = Append(saves, QueryResult) /\ Len(saves) < MaxSaves
      BY <2>3 DEF Snapshot
    <3>2. QueryResult \subseteq DOMAIN submits
      BY <1>0, Zenon DEF QueryResult
    <3>3. QueryResult \in V
      BY <1>0, <3>2
    <3> HIDE DEF V
    <3>4. /\ Len(saves') = Len(saves) + 1 /\ Len(saves) \in Nat
          /\ \A k \in DOMAIN saves' : saves'[k] = QueryResult
                                        \/ (k \in DOMAIN saves /\ saves'[k] = saves[k])
      BY <1>0, <3>1, <3>3
    <3>5. Len(saves') <= MaxSaves
      BY <1>0, <3>1, <3>4
    <3> QED BY <2>0, <3>2, <3>4, <3>5, Zenon
  <2>4. CASE Restart
    <3>1. saves' = <<>>
      BY <2>4 DEF Restart
    <3> QED BY <1>0, <3>1
  <2>5. saves' = saves \/ SaveDone \/ Restart \/ \E n \in FetchPages : Snapshot(n)
    BY DEF Next, vars, records, OpenView, OpenPage, Back, ExitEnds, Fill, Submit,
         SubmitStep, Stored, Refused, AddEnds, AddFails, SnapshotError
  <2> QED BY <2>1, <2>2, <2>3, <2>4, <2>5, Zenon
<1> QED BY <1>1, <1>2, <1>3, Zenon DEF BoundsKept

(* Type correctness, with the shape of the stack, for every value of the   *)
(* constants.                                                              *)
THEOREM TypeCorrect == Spec => []TypeOK
<1>1. Init => BoundsKept
  BY FirestoreAssumption DEF Init, BoundsKept
<1>2. FireInv /\ BoundsKept /\ [Next]_vars => BoundsKept'
  BY BoundsStep
<1>3. ASSUME FireInv, BoundsKept PROVE TypeOK
  <2>0. StackType /\ StackShape /\ DataType /\ EntriesOwned
    BY <1>3 DEF FireInv, FireType
  <2>1. stack # <<>> /\ (debug => stack[1].kind = "home") /\ (locked => debug)
        /\ \A q, r \in Routes : q.no = r.no /\ q.no # 0 => q = r
    BY <2>0, Zenon DEF StackType, StackShape
  <2>2. Routes \subseteq [kind : {"home", "view", "send", "fetch"}, no : 0 .. MaxScreens]
    <3>1. AnyRoute \subseteq [kind : {"home", "view", "send", "fetch"}, no : 0 .. MaxScreens]
      BY FirestoreAssumption DEF AnyRoute, PageRoute, ScreenRoute, Screens
    <3> QED BY <2>0, <3>1, TopFacts, Zenon
  <2>3. form \in [Screens -> 0 .. entries] /\ entries \in 0 .. MaxSubmits
    BY <1>3, <2>0, FirestoreAssumption DEF DataType, EntriesOwned, BoundsKept
  <2>4. submits \in Seq([entry : 1 .. MaxSubmits, no : 0 .. MaxScreens, stage : Stages,
                         strayed : BOOLEAN, again : BOOLEAN])
    <3> DEFINE S == [entry : 1 .. MaxSubmits, no : 0 .. MaxScreens, stage : Stages,
                     strayed : BOOLEAN, again : BOOLEAN]
    <3>1. submits \in Seq(Submission)
      BY <2>0 DEF DataType
    <3>2. ASSUME NEW i \in DOMAIN submits PROVE submits[i] \in S
      <4>1. submits[i] \in Submission
        BY <3>1
      <4>2. submits[i].entry <= entries /\ entries <= MaxSubmits
        BY <1>3, <2>0 DEF EntriesOwned, BoundsKept
      <4>3. entries \in Nat
        BY <2>0 DEF DataType
      <4> QED BY <4>1, <4>2, <4>3, FirestoreAssumption DEF Submission
    <3> HIDE DEF S
    <3>3. submits \in Seq(S)
      BY <3>1, <3>2
    <3> QED BY <3>3 DEF S
  <2>5. store \subseteq DOMAIN submits /\ Len(saves) <= MaxSaves
        /\ Range(saves) \subseteq SUBSET DOMAIN submits
    BY <1>3, <2>0, Zenon DEF DataType, BoundsKept, Range
  <2> QED BY <2>1, <2>2, <2>3, <2>4, <2>5, Zenon DEF TypeOK
<1>4. FireInv /\ BoundsKept => TypeOK
  BY <1>3
<1> QED BY <1>1, <1>2, <1>4, FireInvariant, PTL DEF Spec
=============================================================================
