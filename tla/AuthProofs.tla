------------------------------- MODULE AuthProofs -------------------------------
(***************************************************************************)
(* TLAPS proofs for Auth: type correctness, that the wrapper follows the   *)
(* auth stream (WrapperFollows), that only a sign-in leads to a home page  *)
(* (HomeNeedsSignIn), that every spinner has a call that ends it           *)
(* (SpinnerHasCause), and that an undisturbed call replaces its own screen *)
(* (ReplacesOwnScreen), for any number of screens, calls and events.       *)
(***************************************************************************)
EXTENDS Auth, SequenceTheorems, WellFoundedInduction, TLAPS

RouteSet == [kind : {"wrapper", "login", "signup", "home"}, no : 0 .. MaxScreens]
Flow == [no : 1 .. MaxScreens, kind : Kinds, stage : Stages, away : BOOLEAN]

(* The identities of the screens: a log-in or sign-up route has one, no    *)
(* two routes have the same, and none of a mounted route is still that of  *)
(* a screen in its exit transition.                                        *)
Identities ==
    /\ \A i \in DOMAIN stack : stack[i].kind \in {"login", "signup"} => stack[i].no # 0
    /\ \A i, j \in DOMAIN stack : stack[i].no = stack[j].no => stack[i].no = 0 \/ i = j
    /\ \A i \in DOMAIN stack : stack[i].no \notin exiting

(* What makes HomeNeedsSignIn inductive: whatever may still lead to a home *)
(* page, the user, an event under way or a call that was accepted, comes   *)
(* from a sign-in.                                                         *)
Earned ==
    /\ HomeNeedsSignIn
    /\ user => everIn
    /\ \A i \in DOMAIN events : events[i] => everIn
    /\ \A i \in DOMAIN flows : flows[i].stage \in {"done", "stored"} => everIn

(* What makes ReplacesOwnScreen hold: the screen of an undisturbed call is *)
(* on top for as long as it is mounted.                                    *)
OwnOnTop ==
    \A i \in DOMAIN flows : ~flows[i].away /\ Mounted(flows[i].no) => flows[i].no = Top.no

AuthInv == TypeOK /\ Identities /\ Earned /\ SpinnerHasCause /\ WrapperFollows /\ OwnOnTop

-----------------------------------------------------------------------------
(* The operators the actions are built from. *)

(* A set of natural numbers has a smallest element. *)
LEMMA SmallestNo ==
  ASSUME NEW T \in SUBSET Nat, T # {}
  PROVE  \E n \in T : \A m \in T : n <= m
<1>1. PICK n \in T : \A m \in T : ~(<<m, n>> \in OpToRel(<, Nat))
  BY WFMin, NatLessThanWellFounded, Zenon
<1>2. ASSUME NEW m \in T, m < n PROVE FALSE
  <2>1. <<m, n>> \in OpToRel(<, Nat)
    BY <1>2 DEF OpToRel
  <2> QED BY <1>1, <2>1, Zenon
<1> QED BY <1>2

(* A new identity is that of no mounted screen and of no call under way. *)
LEMMA NewNoFacts ==
  ASSUME FreeNo # {}
  PROVE  /\ NewNo \in 1 .. MaxScreens /\ ~Mounted(NewNo)
         /\ \A i \in DOMAIN flows : flows[i].no # NewNo
<1>1. FreeNo \in SUBSET Nat
  BY AuthAssumption DEF FreeNo
<1>2. \E n \in FreeNo : \A m \in FreeNo : n <= m
  BY <1>1, SmallestNo, Zenon
<1>3. NewNo \in FreeNo
  BY <1>2, Zenon DEF NewNo
<1> QED BY <1>3, Zenon DEF FreeNo

(* A sequence with one element taken out: the positions behind it move up. *)
LEMMA RemoveAtFacts ==
  ASSUME NEW S, NEW s \in Seq(S), NEW i \in DOMAIN s
  PROVE  LET t == RemoveAt(s, i)
         IN  /\ t \in Seq(S) /\ Len(t) = Len(s) - 1 /\ Len(s) \in Nat \ {0}
             /\ DOMAIN s = 1 .. Len(s) /\ DOMAIN t = 1 .. (Len(s) - 1)
             /\ \A k \in DOMAIN t : IF k < i THEN t[k] = s[k] ELSE t[k] = s[k + 1]
<1> DEFINE n == Len(s)
           a == SubSeq(s, 1, i - 1)
           b == SubSeq(s, i + 1, n)
<1>1. n \in Nat \ {0} /\ DOMAIN s = 1 .. n /\ i \in 1 .. n
  OBVIOUS
<1>2. /\ a \in Seq(S) /\ Len(a) = i - 1
      /\ \A k \in 1 .. (i - 1) : a[k] = s[k]
  BY <1>1
<1>3. /\ b \in Seq(S) /\ Len(b) = n - i
      /\ \A k \in 1 .. (n - i) : b[k] = s[i + k]
  BY <1>1
<1>4. RemoveAt(s, i) = a \o b
  BY DEF RemoveAt
<1> HIDE DEF a, b
<1>5. /\ a \o b \in Seq(S) /\ Len(a \o b) = n - 1
      /\ \A k \in 1 .. (n - 1) : (a \o b)[k] = IF k <= i - 1 THEN a[k] ELSE b[k - (i - 1)]
  <2>1. /\ a \o b \in Seq(S) /\ Len(a \o b) = Len(a) + Len(b)
        /\ \A k \in 1 .. Len(a) + Len(b) :
              (a \o b)[k] = IF k <= Len(a) THEN a[k] ELSE b[k - Len(a)]
    BY <1>2, <1>3, ConcatProperties
  <2>2. Len(a) + Len(b) = n - 1
    BY <1>1, <1>2, <1>3
  <2> QED BY <1>2, <2>1, <2>2, Zenon
<1>6. DOMAIN (a \o b) = 1 .. (n - 1)
  BY <1>5
<1>7. ASSUME NEW k \in 1 .. (n - 1)
      PROVE  IF k < i THEN (a \o b)[k] = s[k] ELSE (a \o b)[k] = s[k + 1]
  <2>1. CASE k < i
    BY <1>1, <1>2, <1>5, <2>1
  <2>2. CASE ~(k < i)
    <3>1. k - (i - 1) \in 1 .. (n - i) /\ i + (k - (i - 1)) = k + 1
      BY <1>1, <2>2
    <3>2. (a \o b)[k] = b[k - (i - 1)]
      BY <1>1, <1>5, <2>2
    <3> QED BY <1>3, <2>2, <3>1, <3>2
  <2> QED BY <2>1, <2>2
<1> QED BY <1>1, <1>4, <1>5, <1>6, <1>7

(* Which elements are left: all but the one taken out. *)
LEMMA RemoveAtElements ==
  ASSUME NEW S, NEW s \in Seq(S), NEW i \in DOMAIN s
  PROVE  LET t == RemoveAt(s, i)
         IN  /\ t \in Seq(S)
             /\ \A k \in DOMAIN t : \E j \in DOMAIN s : j # i /\ t[k] = s[j]
             /\ \A j \in DOMAIN s : j # i => \E k \in DOMAIN t : t[k] = s[j]
<1> DEFINE t == RemoveAt(s, i)
           n == Len(s)
<1>1. /\ t \in Seq(S) /\ n \in Nat \ {0} /\ DOMAIN s = 1 .. n /\ DOMAIN t = 1 .. (n - 1)
      /\ \A k \in DOMAIN t : IF k < i THEN t[k] = s[k] ELSE t[k] = s[k + 1]
  BY RemoveAtFacts
<1> HIDE DEF t, n
<1>2. ASSUME NEW k \in DOMAIN t PROVE \E j \in DOMAIN s : j # i /\ t[k] = s[j]
  <2>1. CASE k < i
    BY <1>1, <2>1
  <2>2. CASE ~(k < i)
    BY <1>1, <2>2
  <2> QED BY <2>1, <2>2
<1>3. ASSUME NEW j \in DOMAIN s, j # i PROVE \E k \in DOMAIN t : t[k] = s[j]
  <2>1. CASE j < i
    BY <1>1, <2>1
  <2>2. CASE ~(j < i)
    <3>1. j - 1 \in DOMAIN t /\ ~(j - 1 < i) /\ (j - 1) + 1 = j
      BY <1>1, <1>3, <2>2
    <3>2. t[j - 1] = s[(j - 1) + 1]
      BY <1>1, <3>1
    <3> QED BY <3>1, <3>2
  <2> QED BY <2>1, <2>2
<1> QED BY <1>1, <1>2, <1>3 DEF t

(* The stack by its positions; the last one is on top. *)
LEMMA StackFacts ==
  ASSUME TypeOK
  PROVE  /\ Len(stack) \in Nat \ {0} /\ DOMAIN stack = 1 .. Len(stack)
         /\ stack \in Seq(RouteSet) /\ \A i \in DOMAIN stack : stack[i] \in RouteSet
         /\ Top = stack[Len(stack)] /\ Top \in RouteSet
<1>1. stack \in Seq(RouteSet) /\ stack # <<>>
  BY Zenon DEF TypeOK, RouteSet
<1> QED BY <1>1 DEF Top, Last

(* A stack with one more route. *)
LEMMA PushFacts ==
  ASSUME NEW R, NEW s \in Seq(R), NEW r \in R
  PROVE  LET t == Append(s, r)
         IN  /\ t \in Seq(R) /\ t # <<>> /\ Len(t) = Len(s) + 1
             /\ DOMAIN t = 1 .. (Len(s) + 1) /\ t[Len(s) + 1] = r
             /\ \A i \in 1 .. Len(s) : t[i] = s[i]
  OBVIOUS

(* A stack without its top. *)
LEMMA FrontFacts ==
  ASSUME NEW R, NEW s \in Seq(R), s # <<>>
  PROVE  LET t == Front(s)
         IN  /\ t \in Seq(R) /\ Len(t) = Len(s) - 1 /\ Len(s) \in Nat \ {0}
             /\ DOMAIN t = 1 .. (Len(s) - 1)
             /\ \A i \in 1 .. (Len(s) - 1) : t[i] = s[i]
<1> DEFINE n == Len(s) - 1
<1>1. n \in Nat /\ Len(s) \in Nat \ {0} /\ \A i \in 1 .. n : s[i] \in R
  OBVIOUS
<1>2. Front(s) = SubSeq(s, 1, n)
  BY DEF Front
<1> HIDE DEF n
<1>3. /\ SubSeq(s, 1, n) \in Seq(R) /\ Len(SubSeq(s, 1, n)) = n
      /\ \A i \in 1 .. n : SubSeq(s, 1, n)[i] = s[i]
  <2>1. /\ SubSeq(s, 1, n) \in Seq(R)
        /\ Len(SubSeq(s, 1, n)) = IF 1 <= n THEN n - 1 + 1 ELSE 0
        /\ \A i \in 1 .. n - 1 + 1 : SubSeq(s, 1, n)[i] = s[1 + i - 1]
    BY <1>1, SubSeqProperties
  <2>2. /\ (IF 1 <= n THEN n - 1 + 1 ELSE 0) = n /\ n - 1 + 1 = n
        /\ \A i \in 1 .. n : 1 + i - 1 = i
    BY <1>1
  <2> QED BY <2>1, <2>2, Zenon
<1>4. DOMAIN SubSeq(s, 1, n) = 1 .. n
  BY <1>1, <1>3
<1> QED BY <1>1, <1>2, <1>3, <1>4 DEF n

(* A stack with its top replaced. *)
LEMMA ReplaceFacts ==
  ASSUME NEW R, NEW s \in Seq(R), s # <<>>, NEW r \in R
  PROVE  LET t == Append(Front(s), r)
         IN  /\ t \in Seq(R) /\ t # <<>> /\ Len(t) = Len(s) /\ DOMAIN t = 1 .. Len(s)
             /\ t[Len(s)] = r /\ \A i \in 1 .. (Len(s) - 1) : t[i] = s[i]
<1> DEFINE f == Front(s)
<1>1. /\ f \in Seq(R) /\ Len(f) = Len(s) - 1 /\ Len(s) \in Nat \ {0}
      /\ \A i \in 1 .. (Len(s) - 1) : f[i] = s[i]
  BY FrontFacts
<1> HIDE DEF f
<1>2. LET t == Append(f, r)
      IN  /\ t \in Seq(R) /\ t # <<>> /\ Len(t) = Len(f) + 1
          /\ DOMAIN t = 1 .. (Len(f) + 1) /\ t[Len(f) + 1] = r
          /\ \A i \in 1 .. Len(f) : t[i] = f[i]
  BY <1>1, PushFacts
<1>3. Len(f) + 1 = Len(s)
  BY <1>1
<1> QED BY <1>1, <1>2, <1>3 DEF f

(* An event added to those under way. *)
LEMMA EventAdded ==
  ASSUME NEW S, NEW q \in Seq(S), NEW b \in S
  PROVE  LET t == Append(q, b)
         IN  /\ t \in Seq(S) /\ t # <<>> /\ Last(t) = b
             /\ \A i \in DOMAIN t : t[i] = b \/ (i \in DOMAIN q /\ t[i] = q[i])
  BY DEF Last

(* The first event under way is told. *)
LEMMA EventTold ==
  ASSUME NEW S, NEW q \in Seq(S), q # <<>>
  PROVE  /\ Tail(q) \in Seq(S) /\ Head(q) \in S /\ Head(q) = q[1] /\ 1 \in DOMAIN q
         /\ Tail(q) # <<>> => Last(Tail(q)) = Last(q)
         /\ Tail(q) = <<>> => Last(q) = Head(q)
         /\ \A i \in DOMAIN Tail(q) : \E j \in DOMAIN q : Tail(q)[i] = q[j]
<1>1. /\ Len(q) \in Nat \ {0} /\ Tail(q) \in Seq(S) /\ Head(q) \in S /\ Head(q) = q[1]
      /\ 1 \in DOMAIN q /\ Len(Tail(q)) = Len(q) - 1
      /\ DOMAIN Tail(q) = 1 .. (Len(q) - 1) /\ DOMAIN q = 1 .. Len(q)
  OBVIOUS
<1>2. \A i \in 1 .. (Len(q) - 1) : Tail(q)[i] = q[i + 1]
  OBVIOUS
<1>3. ASSUME Tail(q) # <<>> PROVE Last(Tail(q)) = Last(q)
  <2>1. Len(q) - 1 \in 1 .. (Len(q) - 1)
    BY <1>1, <1>3
  <2> QED BY <1>1, <1>2, <2>1 DEF Last
<1>4. ASSUME Tail(q) = <<>> PROVE Last(q) = Head(q)
  <2>1. Len(Tail(q)) = 0
    BY <1>1, <1>4, EmptySeq, Zenon
  <2>2. \A m \in Nat : 0 = m - 1 => m = 1
    OBVIOUS
  <2>3. Len(q) = 1
    BY <1>1, <2>1, <2>2, Zenon
  <2> QED BY <1>1, <2>3, Zenon DEF Last
<1>5. ASSUME NEW i \in DOMAIN Tail(q) PROVE \E j \in DOMAIN q : Tail(q)[i] = q[j]
  BY <1>1, <1>2
<1> QED BY <1>1, <1>3, <1>4, <1>5

(* Marking the calls of a screen changes nothing else of them. *)
LEMMA MarkedFacts ==
  ASSUME NEW fs \in Seq(Flow), NEW n
  PROVE  LET t == Marked(fs, n)
         IN  /\ t \in Seq(Flow) /\ Len(t) = Len(fs) /\ DOMAIN t = DOMAIN fs
             /\ \A i \in DOMAIN fs :
                   /\ t[i].no = fs[i].no /\ t[i].kind = fs[i].kind /\ t[i].stage = fs[i].stage
                   /\ t[i].away <=> fs[i].away \/ fs[i].no = n
<1> DEFINE e(i) == IF fs[i].no = n THEN [fs[i] EXCEPT !.away = TRUE] ELSE fs[i]
           t == Marked(fs, n)
<1>1. \A i \in 1 .. Len(fs) : fs[i] \in Flow
  OBVIOUS
<1>2. ASSUME NEW i \in 1 .. Len(fs) PROVE e(i) \in Flow
  BY <1>1 DEF Flow
<1>3. t = [i \in 1 .. Len(fs) |-> e(i)] /\ Len(fs) \in Nat
  BY DEF Marked
<1>4. t \in Seq(Flow)
  <2> HIDE DEF e, t
  <2> QED BY <1>2, <1>3, IsASeq
<1>5. DOMAIN t = DOMAIN fs /\ Len(t) = Len(fs)
  BY <1>3, <1>4
<1>6. ASSUME NEW i \in DOMAIN fs
      PROVE  /\ t[i].no = fs[i].no /\ t[i].kind = fs[i].kind /\ t[i].stage = fs[i].stage
             /\ t[i].away <=> fs[i].away \/ fs[i].no = n
  <2>1. t[i] = e(i) /\ fs[i] \in Flow
    BY <1>1, <1>3
  <2> QED BY <2>1 DEF Flow
<1> QED BY <1>4, <1>5, <1>6

(* A call that goes on to another stage. *)
LEMMA MovedFacts ==
  ASSUME flows \in Seq(Flow), NEW k \in DOMAIN flows, NEW st \in Stages
  PROVE  LET t == Moved(k, st)
         IN  /\ t \in Seq(Flow) /\ DOMAIN t = DOMAIN flows /\ t[k].stage = st
             /\ \A i \in DOMAIN flows :
                   /\ t[i].no = flows[i].no /\ t[i].kind = flows[i].kind
                   /\ t[i].away <=> flows[i].away
                   /\ i # k => t[i].stage = flows[i].stage
<1> DEFINE t == Moved(k, st)
           u == [flows[k] EXCEPT !.stage = st]
<1>1. flows[k] \in Flow /\ u \in Flow
  <2>1. flows[k] \in Flow
    OBVIOUS
  <2> QED BY <2>1 DEF Flow
<1>2. t = [flows EXCEPT ![k] = u]
  BY DEF Moved
<1>3. t \in Seq(Flow) /\ DOMAIN t = DOMAIN flows
  BY <1>1, <1>2
<1>4. t[k] = u /\ \A i \in DOMAIN flows : i # k => t[i] = flows[i]
  BY <1>2
<1>5. u.no = flows[k].no /\ u.kind = flows[k].kind /\ u.away = flows[k].away /\ u.stage = st
  BY <1>1 DEF Flow
<1> HIDE DEF t, u
<1>6. \A i \in DOMAIN flows :
         /\ t[i].no = flows[i].no /\ t[i].kind = flows[i].kind
         /\ t[i].away <=> flows[i].away
         /\ i # k => t[i].stage = flows[i].stage
  BY <1>4, <1>5, Zenon
<1> QED BY <1>3, <1>4, <1>5, <1>6, Zenon DEF t

-----------------------------------------------------------------------------
(* The parts of TypeOK, by the variables they are about. *)

ServiceOK ==
    /\ debug \in BOOLEAN /\ locked \in BOOLEAN /\ user \in BOOLEAN /\ everIn \in BOOLEAN
    /\ events \in Seq(BOOLEAN)
    /\ locked => debug

StackOK ==
    /\ stack \in Seq(RouteSet) /\ stack # <<>>
    /\ \A i \in DOMAIN stack : stack[i].kind = "wrapper" => i = 1
    /\ stack[1].kind = "wrapper" \/ (stack[1].kind \in {"home", "login"} /\ ~debug)
    /\ exiting \subseteq 1 .. MaxScreens

FlowsOK == flows \in Seq(Flow)

BusyMounted == \A n \in busy \cup googleBusy : Mounted(n)

(* TypeOK is its parts. *)
LEMMA TypeParts == TypeOK <=> ServiceOK /\ StackOK /\ FlowsOK /\ BusyMounted
  BY Zenon DEF TypeOK, ServiceOK, StackOK, FlowsOK, BusyMounted, RouteSet, Flow

(* The parts of the next state's TypeOK. *)
LEMMA TypePartsNext ==
    TypeOK' <=> ServiceOK' /\ StackOK' /\ FlowsOK' /\ BusyMounted'
  BY Zenon DEF TypeOK, ServiceOK, StackOK, FlowsOK, BusyMounted, RouteSet, Flow

-----------------------------------------------------------------------------
(* What each change of the stack does to the routes and their identities. *)

(* The numbers of the calls and of the spinners are those of screens. *)
LEMMA FlowNos ==
  ASSUME FlowsOK
  PROVE  \A i \in DOMAIN flows : flows[i] \in Flow /\ flows[i].no \in 1 .. MaxScreens
                                 /\ flows[i].no # 0 /\ flows[i].no \in Nat
<1>1. \A i \in DOMAIN flows : flows[i] \in Flow
  BY DEF FlowsOK
<1> QED BY <1>1, AuthAssumption DEF Flow

(* A spinner turns on a screen, not on a home page. *)
LEMMA BusyNotZero ==
  ASSUME FlowsOK, SpinnerHasCause
  PROVE  \A n \in busy \cup googleBusy : n # 0
<1>1. \A i \in DOMAIN flows : flows[i].no # 0
  BY FlowNos
<1> QED BY <1>1 DEF SpinnerHasCause, HasFlow

(* The screen that leaves the top of the stack, if the route keeps one. *)
LEMMA TopLeaves ==
  ASSUME StackOK
  PROVE  Top \in RouteSet /\ Top.no \in 0 .. MaxScreens /\ {Top.no} \ {0} \subseteq 1 .. MaxScreens
<1>1. Top \in RouteSet
  BY DEF StackOK, Top, Last
<1>2. Top.no \in 0 .. MaxScreens
  BY <1>1 DEF RouteSet
<1> DEFINE t == Top.no
<1>3. t \in 0 .. MaxScreens
  BY <1>2
<1> HIDE DEF t
<1>4. {t} \ {0} \subseteq 1 .. MaxScreens
  BY <1>3, AuthAssumption
<1> QED BY <1>1, <1>2, <1>4 DEF t

(* A screen with a new identity comes on top of the stack. *)
LEMMA CoverKeeps ==
  ASSUME StackOK, Identities, NEW r \in RouteSet, r.kind \in {"login", "signup"},
         r.no # 0, ~Mounted(r.no), UNCHANGED <<debug, exiting>>,
         stack' = Append(stack, r)
  PROVE  /\ StackOK' /\ Identities' /\ stack'[1] = stack[1] /\ Top' = r
         /\ \A x : Mounted(x)' <=> Mounted(x) \/ x = r.no
         /\ \A i \in DOMAIN stack' : stack'[i].no = 0 => \E j \in DOMAIN stack : stack[j].no = 0
<1> DEFINE n == Len(stack)
<1>1. n \in Nat \ {0} /\ DOMAIN stack = 1 .. n /\ stack \in Seq(RouteSet)
  BY DEF StackOK
<1>2. /\ stack' \in Seq(RouteSet) /\ stack' # <<>> /\ Len(stack') = n + 1
      /\ DOMAIN stack' = 1 .. (n + 1) /\ stack'[n + 1] = r
      /\ \A i \in 1 .. n : stack'[i] = stack[i]
  BY <1>1, PushFacts
<1> HIDE DEF n
<1>3. stack'[1] = stack[1] /\ Top' = r
  BY <1>1, <1>2 DEF Top, Last
<1>4. \A i \in DOMAIN stack' : i = n + 1 \/ i \in DOMAIN stack
  BY <1>1, <1>2
<1>5. DOMAIN stack \subseteq DOMAIN stack' /\ n + 1 \in DOMAIN stack' /\ n + 1 \notin DOMAIN stack
  BY <1>1, <1>2
<1>6. \A i \in DOMAIN stack : stack[i].no # r.no
  BY Zenon DEF Mounted
<1>7. StackOK'
  <2>1. \A i \in DOMAIN stack' : stack'[i].kind = "wrapper" => i = 1
    BY <1>1, <1>2, <1>4 DEF StackOK
  <2>2. stack'[1].kind = "wrapper" \/ (stack'[1].kind \in {"home", "login"} /\ ~debug')
    BY <1>3 DEF StackOK
  <2> QED BY <1>2, <2>1, <2>2 DEF StackOK
<1>8. Identities'
  <2>1. \A i \in DOMAIN stack' : stack'[i].kind \in {"login", "signup"} => stack'[i].no # 0
    BY <1>1, <1>2, <1>4 DEF Identities
  <2>2. \A i, j \in DOMAIN stack' : stack'[i].no = stack'[j].no => stack'[i].no = 0 \/ i = j
    BY <1>1, <1>2, <1>4, <1>6 DEF Identities
  <2>3. r.no \notin exiting
    BY DEF Mounted
  <2>4. \A i \in DOMAIN stack' : stack'[i].no \notin exiting'
    BY <1>1, <1>2, <1>4, <2>3 DEF Identities
  <2> QED BY <2>1, <2>2, <2>4 DEF Identities
<1>9. ASSUME NEW x PROVE Mounted(x)' <=> Mounted(x) \/ x = r.no
  <2>1. (\E i \in DOMAIN stack' : stack'[i].no = x)
           <=> (\E i \in DOMAIN stack : stack[i].no = x) \/ x = r.no
    BY <1>1, <1>2, <1>4, <1>5
  <2> QED BY <2>1 DEF Mounted
<1>10. \A i \in DOMAIN stack' : stack'[i].no = 0 => \E j \in DOMAIN stack : stack[j].no = 0
  BY <1>1, <1>2, <1>4
<1> QED BY <1>3, <1>7, <1>8, <1>9, <1>10

(* The route on top is popped; its screen stays mounted for a while. *)
LEMMA PopKeeps ==
  ASSUME StackOK, Identities, Len(stack) > 1, UNCHANGED debug,
         stack' = Front(stack), exiting' = exiting \cup ({Top.no} \ {0})
  PROVE  /\ StackOK' /\ Identities' /\ stack'[1] = stack[1]
         /\ \A x : x # 0 => (Mounted(x)' <=> Mounted(x))
         /\ \A i \in DOMAIN stack' : stack'[i].no = 0 => \E j \in DOMAIN stack : stack[j].no = 0
<1> DEFINE n == Len(stack)
<1>1. n \in Nat \ {0} /\ n > 1 /\ DOMAIN stack = 1 .. n /\ stack \in Seq(RouteSet)
      /\ stack # <<>> /\ Top = stack[n]
  BY DEF StackOK, Top, Last
<1>2. /\ stack' \in Seq(RouteSet) /\ Len(stack') = n - 1 /\ DOMAIN stack' = 1 .. (n - 1)
      /\ \A i \in 1 .. (n - 1) : stack'[i] = stack[i]
  BY <1>1, FrontFacts
<1>3. exiting' \subseteq 1 .. MaxScreens
  BY TopLeaves, Zenon DEF StackOK
<1> HIDE DEF n
<1>4. /\ stack'[1] = stack[1] /\ stack' # <<>>
      /\ \A i \in DOMAIN stack' : i \in DOMAIN stack /\ i # n /\ stack'[i] = stack[i]
      /\ \A i \in DOMAIN stack : i # n => i \in DOMAIN stack'
  BY <1>1, <1>2
<1>5. StackOK'
  BY <1>2, <1>3, <1>4 DEF StackOK
<1>6. \A i \in DOMAIN stack' : stack'[i].no \notin {Top.no} \ {0}
  BY <1>1, <1>4 DEF Identities
<1>7. Identities'
  BY <1>4, <1>6 DEF Identities
<1>8. ASSUME NEW x, x # 0 PROVE Mounted(x)' <=> Mounted(x)
  <2>1. (\E i \in DOMAIN stack : stack[i].no = x)
           <=> (\E i \in DOMAIN stack' : stack'[i].no = x) \/ x = Top.no
    BY <1>1, <1>4
  <2> QED BY <1>8, <2>1 DEF Mounted
<1>9. \A i \in DOMAIN stack' : stack'[i].no = 0 => \E j \in DOMAIN stack : stack[j].no = 0
  BY <1>4
<1> QED BY <1>4, <1>5, <1>7, <1>8, <1>9

(* The route on top is replaced, by a home page or a screen with a new     *)
(* identity; the wrapper is never replaced in a debug build.               *)
LEMMA ReplaceKeeps ==
  ASSUME StackOK, Identities, NEW r \in RouteSet, r.kind \in {"home", "login"},
         r.kind = "login" => r.no # 0, r.no # 0 => ~Mounted(r.no),
         ~(debug /\ Top.kind = "wrapper"), UNCHANGED debug,
         stack' = Append(Front(stack), r), exiting' = exiting \cup ({Top.no} \ {0})
  PROVE  /\ StackOK' /\ Identities' /\ Top' = r
         /\ stack'[1].kind = "wrapper" => stack'[1] = stack[1]
         /\ \A x : x # 0 => (Mounted(x)' <=> Mounted(x) \/ x = r.no)
         /\ \A i \in DOMAIN stack' : stack'[i].no = 0 =>
               r.no = 0 \/ \E j \in DOMAIN stack : stack[j].no = 0
<1> DEFINE n == Len(stack)
<1>1. n \in Nat \ {0} /\ DOMAIN stack = 1 .. n /\ stack \in Seq(RouteSet)
      /\ stack # <<>> /\ Top = stack[n]
  BY DEF StackOK, Top, Last
<1>2. /\ stack' \in Seq(RouteSet) /\ stack' # <<>> /\ Len(stack') = n /\ DOMAIN stack' = 1 .. n
      /\ stack'[n] = r /\ \A i \in 1 .. (n - 1) : stack'[i] = stack[i]
  <2> DEFINE t == Append(Front(stack), r)
  <2>1. /\ t \in Seq(RouteSet) /\ t # <<>> /\ Len(t) = Len(stack) /\ DOMAIN t = 1 .. Len(stack)
        /\ t[Len(stack)] = r /\ \A i \in 1 .. (Len(stack) - 1) : t[i] = stack[i]
    <3> HIDE DEF n, t
    <3>1. stack \in Seq(RouteSet) /\ stack # <<>> /\ r \in RouteSet
      BY <1>1
    <3> QED BY <3>1, ReplaceFacts DEF t
  <2> QED BY <2>1
<1>3. exiting' \subseteq 1 .. MaxScreens
  BY TopLeaves, Zenon DEF StackOK
<1> HIDE DEF n
<1>4. /\ DOMAIN stack' = DOMAIN stack /\ n \in DOMAIN stack /\ 1 \in DOMAIN stack
      /\ \A i \in DOMAIN stack : i # n => stack'[i] = stack[i]
  BY <1>1, <1>2
<1>5. Top' = r
  BY <1>2 DEF Top, Last
<1>6. r.no # 0 => r.no \notin exiting /\ \A i \in DOMAIN stack : stack[i].no # r.no
  BY Zenon DEF Mounted
<1>7. stack'[1].kind = "wrapper" => stack'[1] = stack[1]
  BY <1>2, <1>4
<1>8. StackOK'
  <2>1. \A i \in DOMAIN stack' : stack'[i].kind = "wrapper" => i = 1
    BY <1>2, <1>4 DEF StackOK
  <2>2. stack'[1].kind = "wrapper" \/ (stack'[1].kind \in {"home", "login"} /\ ~debug')
    <3>1. CASE n = 1
      BY <1>1, <1>2, <3>1 DEF StackOK
    <3>2. CASE n # 1
      BY <1>4, <3>2 DEF StackOK
    <3> QED BY <3>1, <3>2
  <2> QED BY <1>2, <1>3, <2>1, <2>2 DEF StackOK
<1>9. Identities'
  <2>1. \A i \in DOMAIN stack' : stack'[i].kind \in {"login", "signup"} => stack'[i].no # 0
    BY <1>2, <1>4 DEF Identities
  <2>2. \A i, j \in DOMAIN stack' : stack'[i].no = stack'[j].no => stack'[i].no = 0 \/ i = j
    BY <1>2, <1>4, <1>6 DEF Identities
  <2>3. \A i \in DOMAIN stack' : stack'[i].no \notin {Top.no} \ {0}
    BY <1>1, <1>2, <1>4, <1>6 DEF Identities
  <2>4. \A i \in DOMAIN stack' : stack'[i].no \notin exiting
    <3>1. 0 \notin exiting
      BY AuthAssumption DEF StackOK
    <3> QED BY <1>2, <1>4, <1>6, <3>1 DEF Identities
  <2> QED BY <2>1, <2>2, <2>3, <2>4 DEF Identities
<1>10. ASSUME NEW x, x # 0 PROVE Mounted(x)' <=> Mounted(x) \/ x = r.no
  <2>1. (\E i \in DOMAIN stack : stack[i].no = x) \/ x = r.no
           <=> (\E i \in DOMAIN stack' : stack'[i].no = x) \/ x = Top.no
    BY <1>1, <1>2, <1>4
  <2> QED BY <1>10, <2>1 DEF Mounted
<1>11. \A i \in DOMAIN stack' : stack'[i].no = 0 =>
          r.no = 0 \/ \E j \in DOMAIN stack : stack[j].no = 0
  BY <1>2, <1>4
<1> QED BY <1>5, <1>7, <1>8, <1>9, <1>10, <1>11

(* The wrapper is rebuilt: its log-in screen goes, or a new one comes. *)
LEMMA RebuildKeeps ==
  ASSUME StackOK, Identities, stack[1].kind = "wrapper", NEW m \in 0 .. MaxScreens,
         m # 0 => ~Mounted(m), UNCHANGED <<debug, exiting>>,
         stack' = [stack EXCEPT ![1].no = m]
  PROVE  /\ StackOK' /\ Identities'
         /\ stack'[1].kind = "wrapper" /\ stack'[1].no = m
         /\ \A x : x # 0 => (Mounted(x)' <=> x = m \/ (Mounted(x) /\ x # stack[1].no))
         /\ Top' = IF Len(stack) = 1 THEN stack'[1] ELSE Top
         /\ \A i \in DOMAIN stack' : stack'[i].no = 0 =>
               m = 0 \/ \E j \in DOMAIN stack : stack[j].no = 0
<1> DEFINE n == Len(stack)
           u == [stack[1] EXCEPT !.no = m]
<1>1. n \in Nat \ {0} /\ DOMAIN stack = 1 .. n /\ stack \in Seq(RouteSet)
      /\ stack # <<>> /\ Top = stack[n] /\ 1 \in DOMAIN stack
  BY DEF StackOK, Top, Last
<1>2. u \in RouteSet /\ u.kind = "wrapper" /\ u.no = m
  <2>1. stack[1] \in RouteSet
    BY <1>1
  <2> QED BY <2>1 DEF RouteSet
<1>3. stack' = [stack EXCEPT ![1] = u]
  OBVIOUS
<1> HIDE DEF n, u
<1>4. /\ stack' \in Seq(RouteSet) /\ DOMAIN stack' = DOMAIN stack /\ stack' # <<>>
      /\ Len(stack') = n
      /\ stack'[1] = u /\ \A i \in DOMAIN stack : i # 1 => stack'[i] = stack[i]
  BY <1>1, <1>2, <1>3 DEF n
<1>5. Top' = IF n = 1 THEN stack'[1] ELSE Top
  BY <1>1, <1>4 DEF Top, Last
<1>6. m # 0 => m \notin exiting /\ \A i \in DOMAIN stack : stack[i].no # m
  BY Zenon DEF Mounted
<1>7. StackOK'
  BY <1>2, <1>4 DEF StackOK
<1>8. Identities'
  <2>1. \A i \in DOMAIN stack' : stack'[i].kind \in {"login", "signup"} => stack'[i].no # 0
    BY <1>2, <1>4 DEF Identities
  <2>2. \A i, j \in DOMAIN stack' : stack'[i].no = stack'[j].no => stack'[i].no = 0 \/ i = j
    BY <1>2, <1>4, <1>6 DEF Identities
  <2>3. \A i \in DOMAIN stack' : stack'[i].no \notin exiting
    <3>1. 0 \notin exiting
      BY AuthAssumption DEF StackOK
    <3> QED BY <1>2, <1>4, <1>6, <3>1 DEF Identities
  <2> QED BY <2>1, <2>2, <2>3 DEF Identities
<1>9. ASSUME NEW x, x # 0 PROVE Mounted(x)' <=> x = m \/ (Mounted(x) /\ x # stack[1].no)
  <2>1. (\E i \in DOMAIN stack' : stack'[i].no = x)
           <=> x = m \/ \E i \in DOMAIN stack : i # 1 /\ stack[i].no = x
    BY <1>1, <1>2, <1>4
  <2>2. (\E i \in DOMAIN stack : i # 1 /\ stack[i].no = x)
           <=> (\E i \in DOMAIN stack : stack[i].no = x) /\ x # stack[1].no
    BY <1>1, <1>9 DEF Identities
  <2>3. x \in exiting => x # stack[1].no
    BY <1>1 DEF Identities
  <2> QED BY <1>6, <2>1, <2>2, <2>3 DEF Mounted
<1>10. \A i \in DOMAIN stack' : stack'[i].no = 0 =>
          m = 0 \/ \E j \in DOMAIN stack : stack[j].no = 0
  BY <1>2, <1>4
<1> QED BY <1>2, <1>4, <1>5, <1>7, <1>8, <1>9, <1>10 DEF n

-----------------------------------------------------------------------------
(* What each change of the calls under way does to the parts about them. *)

(* Calls that keep their screens and kinds keep every spinner's cause. *)
LEMMA CausesKept ==
  ASSUME SpinnerHasCause, UNCHANGED <<busy, googleBusy>>,
         DOMAIN flows' = DOMAIN flows,
         \A i \in DOMAIN flows : flows'[i].no = flows[i].no /\ flows'[i].kind = flows[i].kind
  PROVE  SpinnerHasCause'
<1>1. ASSUME NEW n \in busy' PROVE HasFlow(n, {"login", "signup"})'
  BY <1>1 DEF SpinnerHasCause, HasFlow
<1>2. ASSUME NEW n \in googleBusy' PROVE HasFlow(n, {"google"})'
  BY <1>2 DEF SpinnerHasCause, HasFlow
<1> QED BY <1>1, <1>2 DEF SpinnerHasCause

(* The calls of the screen on top are marked when it is covered or leaves; *)
(* as long as no other call's screen is mounted anew, the rest hold.       *)
LEMMA MarkedOnTop ==
  ASSUME OwnOnTop,
         \A k \in DOMAIN flows' : \E j \in DOMAIN flows :
            /\ flows'[k].no = flows[j].no
            /\ flows[j].away \/ flows[j].no = Top.no => flows'[k].away,
         \A x : (\E j \in DOMAIN flows : flows[j].no = x) => (Mounted(x)' => Mounted(x))
  PROVE  OwnOnTop'
<1> SUFFICES ASSUME NEW k \in DOMAIN flows', ~flows'[k].away, Mounted(flows[k].no)'
             PROVE  FALSE
  BY Zenon DEF OwnOnTop
<1>1. PICK j \in DOMAIN flows :
         /\ flows'[k].no = flows[j].no
         /\ flows[j].away \/ flows[j].no = Top.no => flows'[k].away
  BY Zenon
<1>2. PICK x : x = flows[j].no
  OBVIOUS
<1>3. Mounted(x)'
  BY <1>1, <1>2, Zenon DEF Mounted
<1>4. Mounted(x)
  BY <1>2, <1>3, Zenon
<1>5. Mounted(flows[j].no)
  BY <1>2, <1>4, Zenon
<1> QED BY <1>1, <1>5, Zenon DEF OwnOnTop

-----------------------------------------------------------------------------
(* Every action keeps the invariant. *)

(* The links between the screens. *)
LEMMA PushKeeps ==
  ASSUME AuthInv, NEW kind \in {"login", "signup"}, Push(kind)
  PROVE  AuthInv'
<1> DEFINE r == Route(kind, NewNo)
<1>1. ServiceOK /\ StackOK /\ FlowsOK /\ BusyMounted /\ Identities
  BY TypeParts DEF AuthInv
<1>2. FreeNo # {}
  BY DEF Push, SpareNo
<1>3. /\ NewNo \in 1 .. MaxScreens /\ ~Mounted(NewNo)
      /\ \A i \in DOMAIN flows : flows[i].no # NewNo
  BY <1>2, NewNoFacts
<1>4. r \in RouteSet /\ r.kind = kind /\ r.no = NewNo /\ r.no # 0
  BY <1>3, AuthAssumption DEF Route, RouteSet
<1>5. /\ stack' = Append(stack, r) /\ flows' = Marked(flows, Top.no)
      /\ UNCHANGED <<debug, user, events, everIn, locked, exiting, busy, googleBusy>>
  BY DEF Push, session
<1> HIDE DEF r
<1>6. /\ StackOK' /\ Identities' /\ stack'[1] = stack[1] /\ Top' = r
      /\ \A x : Mounted(x)' <=> Mounted(x) \/ x = r.no
      /\ \A i \in DOMAIN stack' : stack'[i].no = 0 => \E j \in DOMAIN stack : stack[j].no = 0
  BY <1>1, <1>3, <1>4, <1>5, CoverKeeps
<1>7. /\ flows' \in Seq(Flow) /\ DOMAIN flows' = DOMAIN flows
      /\ \A i \in DOMAIN flows :
            /\ flows'[i].no = flows[i].no /\ flows'[i].kind = flows[i].kind
            /\ flows'[i].stage = flows[i].stage
            /\ flows'[i].away <=> flows[i].away \/ flows[i].no = Top.no
  BY <1>1, <1>5, MarkedFacts DEF FlowsOK
<1>8. TypeOK'
  <2>1. ServiceOK'
    BY <1>1, <1>5 DEF ServiceOK
  <2>2. BusyMounted'
    BY <1>1, <1>5, <1>6 DEF BusyMounted
  <2> QED BY <1>6, <1>7, <2>1, <2>2, TypePartsNext DEF FlowsOK
<1>9. Earned'
  BY <1>5, <1>6, <1>7 DEF AuthInv, Earned, HomeNeedsSignIn
<1>10. SpinnerHasCause'
  BY <1>5, <1>7, CausesKept DEF AuthInv
<1>11. WrapperFollows'
  BY <1>5, <1>6 DEF AuthInv, WrapperFollows, Last
<1>12. OwnOnTop'
  <2>1. \A x : (\E j \in DOMAIN flows : flows[j].no = x) => (Mounted(x)' => Mounted(x))
    BY <1>3, <1>4, <1>6, Zenon
  <2>2. \A k \in DOMAIN flows' : \E j \in DOMAIN flows :
            /\ flows'[k].no = flows[j].no
            /\ flows[j].away \/ flows[j].no = Top.no => flows'[k].away
    BY <1>7, Zenon
  <2> QED BY <2>1, <2>2, MarkedOnTop DEF AuthInv
<1> QED BY <1>6, <1>8, <1>9, <1>10, <1>11, <1>12 DEF AuthInv

(* The back button. *)
LEMMA BackKeeps == ASSUME AuthInv, Back PROVE AuthInv'
<1>1. ServiceOK /\ StackOK /\ FlowsOK /\ BusyMounted /\ Identities
  BY TypeParts DEF AuthInv
<1>2. /\ Len(stack) > 1 /\ stack' = Front(stack) /\ exiting' = exiting \cup ({Top.no} \ {0})
      /\ flows' = Marked(flows, Top.no)
      /\ UNCHANGED <<debug, user, events, everIn, locked, busy, googleBusy>>
  BY DEF Back, session
<1>3. /\ StackOK' /\ Identities' /\ stack'[1] = stack[1]
      /\ \A x : x # 0 => (Mounted(x)' <=> Mounted(x))
      /\ \A i \in DOMAIN stack' : stack'[i].no = 0 => \E j \in DOMAIN stack : stack[j].no = 0
  BY <1>1, <1>2, PopKeeps
<1>4. /\ flows' \in Seq(Flow) /\ DOMAIN flows' = DOMAIN flows
      /\ \A i \in DOMAIN flows :
            /\ flows'[i].no = flows[i].no /\ flows'[i].kind = flows[i].kind
            /\ flows'[i].stage = flows[i].stage
            /\ flows'[i].away <=> flows[i].away \/ flows[i].no = Top.no
  BY <1>1, <1>2, MarkedFacts DEF FlowsOK
<1>5. \A i \in DOMAIN flows : flows[i].no # 0
  BY <1>1, FlowNos
<1>6. TypeOK'
  <2>1. ServiceOK'
    BY <1>1, <1>2 DEF ServiceOK
  <2>2. BusyMounted'
    BY <1>1, <1>2, <1>3, <1>5, BusyNotZero DEF AuthInv, BusyMounted
  <2> QED BY <1>3, <1>4, <2>1, <2>2, TypePartsNext DEF FlowsOK
<1>7. Earned'
  BY <1>2, <1>3, <1>4 DEF AuthInv, Earned, HomeNeedsSignIn
<1>8. SpinnerHasCause'
  BY <1>2, <1>4, CausesKept DEF AuthInv
<1>9. WrapperFollows'
  BY <1>2, <1>3 DEF AuthInv, WrapperFollows, Last
<1>10. OwnOnTop'
  <2>1. \A x : (\E j \in DOMAIN flows : flows[j].no = x) => (Mounted(x)' => Mounted(x))
    BY <1>3, <1>5, Zenon
  <2>2. \A k \in DOMAIN flows' : \E j \in DOMAIN flows :
            /\ flows'[k].no = flows[j].no
            /\ flows[j].away \/ flows[j].no = Top.no => flows'[k].away
    BY <1>4, Zenon
  <2> QED BY <2>1, <2>2, MarkedOnTop DEF AuthInv
<1> QED BY <1>3, <1>6, <1>7, <1>8, <1>9, <1>10 DEF AuthInv

(* The end of an exit transition. *)
LEMMA ExitKeeps == ASSUME AuthInv, NEW n \in exiting, ExitEnds(n) PROVE AuthInv'
<1>1. ServiceOK /\ StackOK /\ FlowsOK /\ BusyMounted /\ Identities
  BY TypeParts DEF AuthInv
<1>2. /\ exiting' = exiting \ {n} /\ busy' = busy \ {n} /\ googleBusy' = googleBusy \ {n}
      /\ UNCHANGED <<debug, user, events, everIn, locked, stack, flows>>
  BY DEF ExitEnds, session
<1>3. \A x : Mounted(x)' <=> Mounted(x) /\ x # n
  <2>1. \A i \in DOMAIN stack : stack[i].no # n
    BY <1>1 DEF Identities
  <2> QED BY <1>2, <2>1 DEF Mounted
<1>4. TypeOK'
  <2>1. ServiceOK'
    BY <1>1, <1>2 DEF ServiceOK
  <2>2. StackOK'
    BY <1>1, <1>2 DEF StackOK
  <2>3. FlowsOK'
    BY <1>1, <1>2 DEF FlowsOK
  <2>4. BusyMounted'
    BY <1>1, <1>2, <1>3 DEF BusyMounted
  <2> QED BY <2>1, <2>2, <2>3, <2>4, TypePartsNext
<1>5. Identities'
  BY <1>1, <1>2 DEF Identities
<1>6. Earned'
  BY <1>2 DEF AuthInv, Earned, HomeNeedsSignIn
<1>7. SpinnerHasCause'
  BY <1>2 DEF AuthInv, SpinnerHasCause, HasFlow
<1>8. WrapperFollows'
  BY <1>2 DEF AuthInv, WrapperFollows, Last
<1>9. OwnOnTop'
  <2> SUFFICES ASSUME NEW k \in DOMAIN flows, ~flows[k].away, Mounted(flows[k].no)'
               PROVE  flows[k].no = Top.no
    BY <1>2 DEF OwnOnTop, Top, Last
  <2>1. Mounted(flows[k].no)
    BY <1>2 DEF Mounted
  <2> QED BY <2>1 DEF AuthInv, OwnOnTop
<1> QED BY <1>4, <1>5, <1>6, <1>7, <1>8, <1>9 DEF AuthInv

(* The screen that shows a log-in or sign-up form has an identity. *)
LEMMA FormShown ==
  ASSUME StackOK, Identities, Shown \in {"login", "signup"}
  PROVE  Top.no \in 1 .. MaxScreens /\ Top.no # 0 /\ Mounted(Top.no)
<1>1. Top.no \in 0 .. MaxScreens
  BY TopLeaves
<1>2. Len(stack) \in DOMAIN stack /\ Top = stack[Len(stack)]
  BY DEF StackOK, Top, Last
<1>3. Top.no # 0
  BY <1>2 DEF Shown, Identities
<1>4. Mounted(Top.no)
  BY <1>2, Zenon DEF Mounted
<1> DEFINE t == Top.no
<1>5. t \in 0 .. MaxScreens /\ t # 0
  BY <1>1, <1>3
<1> HIDE DEF t
<1>6. t \in 1 .. MaxScreens
  BY <1>5, AuthAssumption
<1> QED BY <1>3, <1>4, <1>6 DEF t

(* A call starts: its spinner is the one it will end. *)
LEMMA StartKeeps ==
  ASSUME AuthInv, Shown \in {"login", "signup"},
         NEW kind \in Kinds, NEW st \in {"account", "sent"}, Start(kind, st),
         kind = "google" => busy' = busy /\ googleBusy' = googleBusy \cup {Top.no},
         kind # "google" => googleBusy' = googleBusy /\ busy' = busy \cup {Top.no}
  PROVE  AuthInv'
<1> DEFINE f == [no |-> Top.no, kind |-> kind, stage |-> st,
                 away |-> HasFlow(Top.no, {"login", "google", "signup"})]
           g == Marked(flows, Top.no)
           L == Len(flows)
<1>1. ServiceOK /\ StackOK /\ FlowsOK /\ BusyMounted /\ Identities
  BY TypeParts DEF AuthInv
<1>2. Top.no \in 1 .. MaxScreens /\ Mounted(Top.no)
  BY <1>1, FormShown
<1>3. /\ flows' = Append(g, f)
      /\ UNCHANGED <<debug, user, events, everIn, locked, stack, exiting>>
  BY DEF Start, session
<1>4. f \in Flow /\ f.no = Top.no /\ f.kind = kind /\ f.stage \notin {"done", "stored"}
  <2>1. HasFlow(Top.no, {"login", "google", "signup"}) \in BOOLEAN
    BY Zenon DEF HasFlow
  <2> QED BY <1>2, <2>1 DEF Flow, Stages
<1>5. /\ g \in Seq(Flow) /\ Len(g) = L /\ DOMAIN g = DOMAIN flows
      /\ \A i \in DOMAIN flows :
            /\ g[i].no = flows[i].no /\ g[i].kind = flows[i].kind
            /\ g[i].stage = flows[i].stage
            /\ g[i].away <=> flows[i].away \/ flows[i].no = Top.no
  BY <1>1, MarkedFacts DEF FlowsOK
<1>6. L \in Nat /\ DOMAIN flows = 1 .. L
  BY <1>1 DEF FlowsOK
<1> HIDE DEF f, g, L
<1>7. /\ flows' \in Seq(Flow) /\ DOMAIN flows' = 1 .. (L + 1) /\ flows'[L + 1] = f
      /\ \A i \in 1 .. L : flows'[i] = g[i]
  BY <1>3, <1>4, <1>5, PushFacts
<1>8. /\ \A k \in DOMAIN flows' : k \in DOMAIN flows \/ k = L + 1
      /\ DOMAIN flows \subseteq DOMAIN flows' /\ L + 1 \in DOMAIN flows'
      /\ \A k \in DOMAIN flows : flows'[k] = g[k]
  BY <1>6, <1>7
<1>9. TypeOK'
  <2>1. ServiceOK'
    BY <1>1, <1>3 DEF ServiceOK
  <2>2. StackOK'
    BY <1>1, <1>3 DEF StackOK
  <2>3. \A x : Mounted(x)' <=> Mounted(x)
    BY <1>3 DEF Mounted
  <2>4. busy' \cup googleBusy' \subseteq busy \cup googleBusy \cup {Top.no}
    OBVIOUS
  <2>5. BusyMounted'
    BY <1>1, <1>2, <2>3, <2>4 DEF BusyMounted
  <2> QED BY <1>7, <2>1, <2>2, <2>5, TypePartsNext DEF FlowsOK
<1>10. Identities'
  BY <1>1, <1>3 DEF Identities
<1>11. Earned'
  <2>1. \A i \in DOMAIN flows' : flows'[i].stage \in {"done", "stored"} => everIn'
    BY <1>3, <1>4, <1>5, <1>7, <1>8 DEF AuthInv, Earned
  <2> QED BY <1>3, <2>1 DEF AuthInv, Earned, HomeNeedsSignIn
<1>12. SpinnerHasCause'
  <2>1. ASSUME NEW n, NEW K, HasFlow(n, K) PROVE HasFlow(n, K)'
    BY <1>5, <1>8, <2>1 DEF HasFlow
  <2>2. kind # "google" => HasFlow(Top.no, {"login", "signup"})'
    <3>1. kind # "google" => kind \in {"login", "signup"}
      BY DEF Kinds
    <3>2. Top' = Top
      BY <1>3 DEF Top, Last
    <3> QED BY <1>4, <1>7, <1>8, <3>1, <3>2, Zenon DEF HasFlow
  <2>3. kind = "google" => HasFlow(Top.no, {"google"})'
    <3>1. Top' = Top
      BY <1>3 DEF Top, Last
    <3> QED BY <1>4, <1>7, <1>8, <3>1 DEF HasFlow
  <2>4. Top' = Top
    BY <1>3 DEF Top, Last
  <2>5. ASSUME NEW n \in busy' PROVE HasFlow(n, {"login", "signup"})'
    <3>1. CASE n \in busy
      BY <2>1, <3>1 DEF AuthInv, SpinnerHasCause
    <3>2. CASE n \notin busy
      <4>1. kind # "google" /\ n = Top.no
        BY <2>5, <3>2
      <4> QED BY <2>2, <2>4, <4>1 DEF HasFlow
    <3> QED BY <3>1, <3>2
  <2>6. ASSUME NEW n \in googleBusy' PROVE HasFlow(n, {"google"})'
    <3>1. CASE n \in googleBusy
      BY <2>1, <3>1 DEF AuthInv, SpinnerHasCause
    <3>2. CASE n \notin googleBusy
      <4>1. kind = "google" /\ n = Top.no
        BY <2>6, <3>2
      <4> QED BY <2>3, <2>4, <4>1 DEF HasFlow
    <3> QED BY <3>1, <3>2
  <2> QED BY <2>5, <2>6 DEF SpinnerHasCause
<1>13. WrapperFollows'
  BY <1>3 DEF AuthInv, WrapperFollows, Last
<1>14. OwnOnTop'
  <2> SUFFICES ASSUME NEW k \in DOMAIN flows', ~flows'[k].away, Mounted(flows[k].no)'
               PROVE  flows'[k].no = Top'.no
    BY Zenon DEF OwnOnTop
  <2>1. Top' = Top
    BY <1>3 DEF Top, Last
  <2>2. CASE k = L + 1
    BY <1>4, <1>7, <2>1, <2>2
  <2>3. CASE k \in DOMAIN flows
    <3>1. flows'[k].no = flows[k].no /\ ~flows[k].away
      BY <1>5, <1>8, <2>3
    <3>2. Mounted(flows[k].no)
      BY <1>3, <3>1 DEF Mounted
    <3> QED BY <2>1, <2>3, <3>1, <3>2 DEF AuthInv, OwnOnTop
  <2> QED BY <1>8, <2>2, <2>3
<1> QED BY <1>9, <1>10, <1>11, <1>12, <1>13, <1>14 DEF AuthInv

(* The log-out button. *)
LEMMA LogOutKeeps == ASSUME AuthInv, LogOut PROVE AuthInv'
<1>1. ServiceOK /\ StackOK /\ FlowsOK /\ BusyMounted
  BY TypeParts DEF AuthInv
<1>2. /\ user' = FALSE /\ events' = Append(events, FALSE)
      /\ UNCHANGED <<debug, locked, stack, exiting, busy, googleBusy, flows, everIn>>
  BY DEF LogOut
<1>3. /\ events' \in Seq(BOOLEAN) /\ events' # <<>> /\ Last(events') = FALSE
      /\ \A i \in DOMAIN events' : events'[i] => i \in DOMAIN events /\ events[i]
  <2>1. events \in Seq(BOOLEAN) /\ FALSE \in BOOLEAN
    BY <1>1 DEF ServiceOK
  <2>2. /\ events' \in Seq(BOOLEAN) /\ events' # <<>> /\ Last(events') = FALSE
        /\ \A i \in DOMAIN events' :
              events'[i] = FALSE \/ (i \in DOMAIN events /\ events'[i] = events[i])
    BY <1>2, <2>1, EventAdded
  <2> QED BY <2>2, Zenon
<1>4. TypeOK'
  <2>1. ServiceOK'
    BY <1>1, <1>2, <1>3 DEF ServiceOK
  <2>2. StackOK' /\ FlowsOK'
    BY <1>1, <1>2 DEF StackOK, FlowsOK
  <2>3. BusyMounted'
    BY <1>1, <1>2 DEF BusyMounted, Mounted
  <2> QED BY <2>1, <2>2, <2>3, TypePartsNext
<1>5. Identities'
  BY <1>2 DEF AuthInv, Identities
<1>6. Earned'
  BY <1>2, <1>3 DEF AuthInv, Earned, HomeNeedsSignIn
<1>7. SpinnerHasCause'
  BY <1>2 DEF AuthInv, SpinnerHasCause, HasFlow
<1>8. WrapperFollows'
  BY <1>2, <1>3 DEF WrapperFollows
<1>9. OwnOnTop'
  BY <1>2 DEF AuthInv, OwnOnTop, Mounted, Top, Last
<1> QED BY <1>4, <1>5, <1>6, <1>7, <1>8, <1>9 DEF AuthInv

(* A call goes on without a change to the screens. *)
LEMMA MovedKeeps ==
  ASSUME AuthInv, NEW k \in DOMAIN flows, NEW st \in Stages, flows' = Moved(k, st),
         st \in {"done", "stored"} => everIn', everIn => everIn',
         UNCHANGED <<debug, locked, stack, exiting, busy, googleBusy>>
  PROVE  /\ StackOK' /\ FlowsOK' /\ BusyMounted' /\ Identities' /\ SpinnerHasCause' /\ OwnOnTop'
         /\ \A i \in DOMAIN flows' : flows'[i].stage \in {"done", "stored"} => everIn'
<1>1. StackOK /\ FlowsOK /\ BusyMounted /\ Identities
  BY TypeParts DEF AuthInv
<1>2. /\ flows' \in Seq(Flow) /\ DOMAIN flows' = DOMAIN flows /\ flows'[k].stage = st
      /\ \A i \in DOMAIN flows :
            /\ flows'[i].no = flows[i].no /\ flows'[i].kind = flows[i].kind
            /\ flows'[i].away <=> flows[i].away
            /\ i # k => flows'[i].stage = flows[i].stage
  BY <1>1, MovedFacts DEF FlowsOK
<1>3. StackOK' /\ FlowsOK'
  BY <1>1, <1>2 DEF StackOK, FlowsOK
<1>4. BusyMounted' /\ Identities'
  BY <1>1 DEF BusyMounted, Mounted, Identities
<1>5. SpinnerHasCause'
  BY <1>2, CausesKept DEF AuthInv
<1>6. OwnOnTop'
  <2> SUFFICES ASSUME NEW i \in DOMAIN flows', ~flows'[i].away, Mounted(flows[i].no)'
               PROVE  flows'[i].no = Top'.no
    BY Zenon DEF OwnOnTop
  <2>1. Top' = Top /\ flows'[i].no = flows[i].no /\ ~flows[i].away /\ i \in DOMAIN flows
    BY <1>2 DEF Top, Last
  <2>2. Mounted(flows[i].no)
    BY <2>1 DEF Mounted
  <2> QED BY <2>1, <2>2 DEF AuthInv, OwnOnTop
<1>7. \A i \in DOMAIN flows' : flows'[i].stage \in {"done", "stored"} => everIn'
  BY <1>2, Zenon DEF AuthInv, Earned
<1> QED BY <1>3, <1>4, <1>5, <1>6, <1>7

(* The service accepts a call: somebody is signed in, and the wrapper will *)
(* be told unless it was so before.                                        *)
LEMMA AcceptedKeeps ==
  ASSUME AuthInv, NEW k \in DOMAIN flows, Accepted(k)
  PROVE  AuthInv'
<1>1. ServiceOK
  BY TypeParts DEF AuthInv
<1>2. /\ flows' = Moved(k, "done") /\ user' = TRUE /\ everIn' = TRUE
      /\ events' = IF user THEN events ELSE Append(events, TRUE)
      /\ UNCHANGED <<debug, locked, stack, exiting, busy, googleBusy>>
  BY DEF Accepted
<1>3. /\ StackOK' /\ FlowsOK' /\ BusyMounted' /\ Identities' /\ SpinnerHasCause' /\ OwnOnTop'
  <2>1. "done" \in Stages
    BY DEF Stages
  <2> QED BY <1>2, <2>1, MovedKeeps
<1>4. ~user => events' \in Seq(BOOLEAN) /\ events' # <<>> /\ Last(events') = TRUE
  <2>1. events \in Seq(BOOLEAN) /\ TRUE \in BOOLEAN
    BY <1>1 DEF ServiceOK
  <2> QED BY <1>2, <2>1, EventAdded
<1>5. ServiceOK'
  BY <1>1, <1>2, <1>4 DEF ServiceOK
<1>6. Earned'
  BY <1>2 DEF Earned, HomeNeedsSignIn
<1>7. WrapperFollows'
  <2>1. CASE user
    <3>1. events' = events /\ stack' = stack
      BY <1>2, <2>1
    <3>2. user' = user
      BY <1>1, <1>2, <2>1 DEF ServiceOK
    <3> QED BY <3>1, <3>2 DEF AuthInv, WrapperFollows
  <2>2. CASE ~user
    BY <1>2, <1>4, <2>2 DEF WrapperFollows
  <2> QED BY <2>1, <2>2
<1> QED BY <1>3, <1>5, <1>6, <1>7, TypePartsNext DEF AuthInv

(* A refusal, the choice of an account, and the stored preference. *)
LEMMA QuietKeeps ==
  ASSUME AuthInv, NEW k \in DOMAIN flows,
         Refused(k) \/ AccountChosen(k) \/ GoogleStoresFlag(k)
  PROVE  AuthInv'
<1>1. ServiceOK
  BY TypeParts DEF AuthInv
<1>2. UNCHANGED <<debug, user, events, everIn, locked, stack, exiting, busy, googleBusy>>
  BY DEF Refused, AccountChosen, GoogleStoresFlag, session
<1>3. PICK st \in Stages : flows' = Moved(k, st) /\ (st \in {"done", "stored"} => everIn')
  <2>1. CASE Refused(k)
    BY <2>1 DEF Refused, Stages
  <2>2. CASE AccountChosen(k)
    BY <2>2 DEF AccountChosen, Stages
  <2>3. CASE GoogleStoresFlag(k)
    <3>1. flows' = Moved(k, "stored") /\ "stored" \in Stages /\ flows[k].stage = "done"
      BY <2>3 DEF GoogleStoresFlag, At, Stages
    <3>2. everIn'
      BY <1>2, <3>1 DEF AuthInv, Earned
    <3> QED BY <3>1, <3>2
  <2> QED BY <2>1, <2>2, <2>3
<1>4. /\ StackOK' /\ FlowsOK' /\ BusyMounted' /\ Identities' /\ SpinnerHasCause' /\ OwnOnTop'
      /\ \A i \in DOMAIN flows' : flows'[i].stage \in {"done", "stored"} => everIn'
  BY <1>2, <1>3, MovedKeeps
<1>5. ServiceOK'
  BY <1>1, <1>2 DEF ServiceOK
<1>6. Earned'
  BY <1>2, <1>4 DEF AuthInv, Earned, HomeNeedsSignIn
<1>7. WrapperFollows'
  BY <1>2 DEF AuthInv, WrapperFollows, Last
<1> QED BY <1>4, <1>5, <1>6, <1>7, TypePartsNext DEF AuthInv

(* The stream tells the wrapper. *)
LEMMA AuthEventKeeps == ASSUME AuthInv, AuthEvent PROVE AuthInv'
<1>1. ServiceOK /\ StackOK /\ FlowsOK /\ BusyMounted /\ Identities
  BY TypeParts DEF AuthInv
<1>2. /\ events # <<>> /\ events' = Tail(events)
      /\ UNCHANGED <<debug, locked, user, exiting, flows, everIn>>
  BY DEF AuthEvent
<1>3. /\ events' \in Seq(BOOLEAN) /\ Head(events) \in BOOLEAN
      /\ Head(events) = events[1] /\ 1 \in DOMAIN events
      /\ events' # <<>> => Last(events') = Last(events)
      /\ events' = <<>> => Last(events) = Head(events)
      /\ \A i \in DOMAIN events' : \E j \in DOMAIN events : events'[i] = events[j]
  <2>1. events \in Seq(BOOLEAN)
    BY <1>1 DEF ServiceOK
  <2> QED BY <1>2, <2>1, EventTold
<1>4. ServiceOK'
  BY <1>1, <1>2, <1>3 DEF ServiceOK
<1>5. FlowsOK'
  BY <1>1, <1>2 DEF FlowsOK
<1>6. Head(events) => everIn
  BY <1>3 DEF AuthInv, Earned
<1>7. \A i \in DOMAIN events' : events'[i] => everIn'
  BY <1>2, <1>3, Zenon DEF AuthInv, Earned
<1>8. ASSUME \A i \in DOMAIN stack' : stack'[i].no = 0 => everIn
      PROVE  Earned'
  BY <1>2, <1>7, <1>8 DEF AuthInv, Earned, HomeNeedsSignIn
<1>9. ASSUME stack'[1].kind = "wrapper" =>
                stack[1].kind = "wrapper" /\ (stack'[1].no = 0 <=> Head(events))
      PROVE  WrapperFollows'
  <2> SUFFICES ASSUME stack'[1].kind = "wrapper"
               PROVE  user' = IF events' # <<>> THEN Last(events') ELSE stack'[1].no = 0
    BY DEF WrapperFollows
  <2>1. user = Last(events)
    BY <1>2, <1>9 DEF AuthInv, WrapperFollows
  <2>2. CASE events' # <<>>
    BY <1>2, <1>3, <2>1, <2>2
  <2>3. CASE events' = <<>>
    <3>1. user' = Head(events)
      BY <1>2, <1>3, <2>1, <2>3
    <3>2. Head(events) = (stack'[1].no = 0)
      BY <1>3, <1>9, Zenon
    <3> QED BY <2>3, <3>1, <3>2, Zenon
  <2> QED BY <2>2, <2>3
<1>10. \A i \in DOMAIN flows : flows[i].no # 0
  BY <1>1, FlowNos
<1>11. \A n \in busy \cup googleBusy : n # 0
  BY <1>1, BusyNotZero DEF AuthInv
<1>12. Len(stack) = 1 => Top = stack[1]
  BY DEF Top, Last
<1>13. CASE stack[1].kind = "wrapper" /\ Head(events) /\ stack' = [stack EXCEPT ![1].no = 0]
            /\ busy' = busy \ {stack[1].no} /\ googleBusy' = googleBusy \ {stack[1].no}
  <2>1. /\ StackOK' /\ Identities' /\ stack'[1].kind = "wrapper" /\ stack'[1].no = 0
        /\ \A x : x # 0 => (Mounted(x)' <=> x = 0 \/ (Mounted(x) /\ x # stack[1].no))
        /\ Top' = IF Len(stack) = 1 THEN stack'[1] ELSE Top
    <3>1. 0 \in 0 .. MaxScreens
      BY AuthAssumption
    <3> QED BY <1>1, <1>2, <1>13, <3>1, RebuildKeeps
  <2>2. BusyMounted'
    BY <1>1, <1>11, <1>13, <2>1 DEF BusyMounted
  <2>3. Earned'
    BY <1>6, <1>8, <1>13
  <2>4. SpinnerHasCause'
    BY <1>2, <1>13 DEF AuthInv, SpinnerHasCause, HasFlow
  <2>5. WrapperFollows'
    BY <1>9, <1>13, <2>1
  <2>6. OwnOnTop'
    <3> SUFFICES ASSUME NEW k \in DOMAIN flows, ~flows[k].away, NEW x, x = flows[k].no, Mounted(x)'
                 PROVE  x = Top'.no
      BY <1>2 DEF OwnOnTop, Mounted
    <3>1. x # 0 /\ Mounted(x) /\ x # stack[1].no
      BY <1>10, <2>1
    <3>2. x = Top.no
      BY <3>1 DEF AuthInv, OwnOnTop
    <3> QED BY <1>12, <2>1, <3>1, <3>2
  <2> QED BY <1>4, <1>5, <2>1, <2>2, <2>3, <2>4, <2>5, <2>6, TypePartsNext DEF AuthInv
<1>14. CASE stack[1].kind = "wrapper" /\ ~Head(events) /\ stack[1].no = 0 /\ FreeNo # {}
            /\ stack' = [stack EXCEPT ![1].no = NewNo] /\ UNCHANGED <<busy, googleBusy>>
  <2>1. /\ NewNo \in 1 .. MaxScreens /\ ~Mounted(NewNo)
        /\ \A i \in DOMAIN flows : flows[i].no # NewNo
    BY <1>14, NewNoFacts
  <2>2. PICK m : m = NewNo
    OBVIOUS
  <2>3. m \in 0 .. MaxScreens /\ m # 0
    BY <2>1, <2>2, AuthAssumption
  <2>4. /\ StackOK' /\ Identities' /\ stack'[1].kind = "wrapper" /\ stack'[1].no = m
        /\ \A x : x # 0 => (Mounted(x)' <=> x = m \/ (Mounted(x) /\ x # stack[1].no))
        /\ Top' = IF Len(stack) = 1 THEN stack'[1] ELSE Top
        /\ \A i \in DOMAIN stack' : stack'[i].no = 0 =>
              m = 0 \/ \E j \in DOMAIN stack : stack[j].no = 0
    BY <1>1, <1>2, <1>14, <2>1, <2>2, <2>3, RebuildKeeps
  <2>5. BusyMounted'
    BY <1>1, <1>11, <1>14, <2>4 DEF BusyMounted
  <2>6. Earned'
    BY <1>8, <2>3, <2>4 DEF AuthInv, Earned, HomeNeedsSignIn
  <2>7. SpinnerHasCause'
    BY <1>2, <1>14 DEF AuthInv, SpinnerHasCause, HasFlow
  <2>8. WrapperFollows'
    BY <1>9, <1>14, <2>3, <2>4
  <2>9. OwnOnTop'
    <3> SUFFICES ASSUME NEW k \in DOMAIN flows, ~flows[k].away, NEW x, x = flows[k].no, Mounted(x)'
                 PROVE  x = Top'.no
      BY <1>2 DEF OwnOnTop, Mounted
    <3>1. x # 0 /\ Mounted(x)
      BY <1>10, <2>1, <2>2, <2>4
    <3>2. x = Top.no
      BY <3>1 DEF AuthInv, OwnOnTop
    <3> QED BY <1>12, <1>14, <2>4, <3>1, <3>2
  <2> QED BY <1>4, <1>5, <2>4, <2>5, <2>6, <2>7, <2>8, <2>9, TypePartsNext DEF AuthInv
<1>15. CASE /\ stack[1].kind # "wrapper" \/ (~Head(events) /\ stack[1].no # 0)
            /\ UNCHANGED <<stack, busy, googleBusy>>
  <2>1. StackOK' /\ Identities'
    BY <1>1, <1>2, <1>15 DEF StackOK, Identities
  <2>2. BusyMounted'
    BY <1>1, <1>2, <1>15 DEF BusyMounted, Mounted
  <2>3. Earned'
    BY <1>8, <1>15 DEF AuthInv, Earned, HomeNeedsSignIn
  <2>4. SpinnerHasCause'
    BY <1>2, <1>15 DEF AuthInv, SpinnerHasCause, HasFlow
  <2>5. WrapperFollows'
    BY <1>9, <1>15
  <2>6. OwnOnTop'
    BY <1>2, <1>15 DEF AuthInv, OwnOnTop, Mounted, Top, Last
  <2> QED BY <1>4, <1>5, <2>1, <2>2, <2>3, <2>4, <2>5, <2>6, TypePartsNext DEF AuthInv
<1> QED BY <1>13, <1>14, <1>15, Zenon DEF AuthEvent

(* The spinner of call k is switched off. *)
SpinnerOff(k) ==
    \/ /\ flows[k].kind = "google"
       /\ googleBusy' = googleBusy \ {flows[k].no} /\ busy' = busy
    \/ /\ flows[k].kind \in {"login", "signup"}
       /\ busy' = busy \ {flows[k].no} /\ googleBusy' = googleBusy

(* The calls after call k has ended: every other one is still there. *)
LEMMA EndedFlows ==
  ASSUME FlowsOK, NEW k \in DOMAIN flows
  PROVE  /\ Ended(k) \in Seq(Flow)
         /\ \A i \in DOMAIN Ended(k) : \E j \in DOMAIN flows : j # k /\ Ended(k)[i] = flows[j]
         /\ \A j \in DOMAIN flows : j # k => \E i \in DOMAIN Ended(k) : Ended(k)[i] = flows[j]
  BY RemoveAtElements DEF Ended, FlowsOK

(* A call that ends switches off its own spinner and leaves no other one   *)
(* without a call.                                                         *)
LEMMA EndedCauses ==
  ASSUME SpinnerHasCause, NEW k \in DOMAIN flows, SpinnerOff(k),
         \A j \in DOMAIN flows : j # k =>
            \E i \in DOMAIN flows' : flows'[i].no = flows[j].no /\ flows'[i].kind = flows[j].kind
  PROVE  SpinnerHasCause' /\ busy' \subseteq busy /\ googleBusy' \subseteq googleBusy
<1>1. ASSUME NEW n \in busy' PROVE HasFlow(n, {"login", "signup"})'
  <2>1. n \in busy
    BY <1>1 DEF SpinnerOff
  <2>2. PICK j \in DOMAIN flows : flows[j].no = n /\ flows[j].kind \in {"login", "signup"}
    BY <2>1 DEF SpinnerHasCause, HasFlow
  <2>3. j # k
    BY <1>1, <2>2 DEF SpinnerOff
  <2> QED BY <2>2, <2>3 DEF HasFlow
<1>2. ASSUME NEW n \in googleBusy' PROVE HasFlow(n, {"google"})'
  <2>1. n \in googleBusy
    BY <1>2 DEF SpinnerOff
  <2>2. PICK j \in DOMAIN flows : flows[j].no = n /\ flows[j].kind = "google"
    BY <2>1 DEF SpinnerHasCause, HasFlow
  <2>3. j # k
    BY <1>2, <2>2 DEF SpinnerOff
  <2> QED BY <2>2, <2>3 DEF HasFlow
<1> QED BY <1>1, <1>2 DEF SpinnerHasCause, SpinnerOff

(* A call ends and leaves the screens alone; the navigator may stay locked *)
(* by an assertion of a debug build.                                       *)
LEMMA PlainEndKeeps ==
  ASSUME AuthInv, NEW k \in DOMAIN flows, flows' = Ended(k), SpinnerOff(k),
         locked' \in BOOLEAN, locked' => debug,
         UNCHANGED <<debug, user, events, everIn, stack, exiting>>
  PROVE  AuthInv'
<1>1. ServiceOK /\ StackOK /\ FlowsOK /\ BusyMounted /\ Identities
  BY TypeParts DEF AuthInv
<1>2. /\ flows' \in Seq(Flow)
      /\ \A i \in DOMAIN flows' : \E j \in DOMAIN flows : j # k /\ flows'[i] = flows[j]
      /\ \A j \in DOMAIN flows : j # k => \E i \in DOMAIN flows' : flows'[i] = flows[j]
  BY <1>1, EndedFlows
<1>3. SpinnerHasCause' /\ busy' \subseteq busy /\ googleBusy' \subseteq googleBusy
  BY <1>2, EndedCauses DEF AuthInv
<1>4. TypeOK'
  <2>1. ServiceOK'
    BY <1>1 DEF ServiceOK
  <2>2. StackOK' /\ FlowsOK'
    BY <1>1, <1>2 DEF StackOK, FlowsOK
  <2>3. BusyMounted'
    BY <1>1, <1>3 DEF BusyMounted, Mounted
  <2> QED BY <2>1, <2>2, <2>3, TypePartsNext
<1>5. Identities'
  BY <1>1 DEF Identities
<1>6. Earned'
  <2>1. \A i \in DOMAIN flows' : flows'[i].stage \in {"done", "stored"} => everIn'
    BY <1>2 DEF AuthInv, Earned
  <2> QED BY <2>1 DEF AuthInv, Earned, HomeNeedsSignIn
<1>7. WrapperFollows'
  BY DEF AuthInv, WrapperFollows, Last
<1>8. OwnOnTop'
  <2> SUFFICES ASSUME NEW i \in DOMAIN flows', ~flows'[i].away, Mounted(flows[i].no)'
               PROVE  flows'[i].no = Top'.no
    BY Zenon DEF OwnOnTop
  <2>1. PICK j \in DOMAIN flows : flows'[i] = flows[j]
    BY <1>2
  <2>2. Top' = Top
    BY DEF Top, Last
  <2>3. Mounted(flows[j].no) /\ ~flows[j].away
    BY <2>1 DEF Mounted
  <2> QED BY <2>1, <2>2, <2>3 DEF AuthInv, OwnOnTop
<1> QED BY <1>3, <1>4, <1>5, <1>6, <1>7, <1>8 DEF AuthInv

(* A call ends with Navigator.pushReplacement, of a home page after a      *)
(* sign-in or of a log-in screen with a new identity.                      *)
LEMMA ReplaceEndKeeps ==
  ASSUME AuthInv, NEW k \in DOMAIN flows, SpinnerOff(k),
         NEW r \in RouteSet, r.kind \in {"home", "login"}, r.kind = "login" => r.no # 0,
         r.no = 0 => everIn, r.no # 0 => ~Mounted(r.no),
         \A i \in DOMAIN flows : flows[i].no # r.no,
         PushReplacement(r, Ended(k)), UNCHANGED <<debug, user, events, everIn>>
  PROVE  AuthInv'
<1>1. ServiceOK /\ StackOK /\ FlowsOK /\ BusyMounted /\ Identities
  BY TypeParts DEF AuthInv
<1>2. CASE locked \/ (debug /\ Top.kind = "wrapper")
  <2>1. locked' = TRUE /\ flows' = Ended(k) /\ UNCHANGED <<stack, exiting>>
    BY <1>2 DEF PushReplacement
  <2>2. debug
    BY <1>1, <1>2 DEF ServiceOK
  <2> QED BY <2>1, <2>2, PlainEndKeeps
<1>3. CASE ~(locked \/ (debug /\ Top.kind = "wrapper"))
  <2>1. /\ stack' = Append(Front(stack), r) /\ exiting' = exiting \cup ({Top.no} \ {0})
        /\ flows' = Marked(Ended(k), Top.no) /\ UNCHANGED locked
    BY <1>3 DEF PushReplacement
  <2>2. /\ StackOK' /\ Identities' /\ Top' = r
        /\ stack'[1].kind = "wrapper" => stack'[1] = stack[1]
        /\ \A x : x # 0 => (Mounted(x)' <=> Mounted(x) \/ x = r.no)
        /\ \A i \in DOMAIN stack' : stack'[i].no = 0 =>
              r.no = 0 \/ \E j \in DOMAIN stack : stack[j].no = 0
    BY <1>1, <1>3, <2>1, ReplaceKeeps
  <2>3. /\ Ended(k) \in Seq(Flow)
        /\ \A i \in DOMAIN Ended(k) : \E j \in DOMAIN flows : j # k /\ Ended(k)[i] = flows[j]
        /\ \A j \in DOMAIN flows : j # k => \E i \in DOMAIN Ended(k) : Ended(k)[i] = flows[j]
    BY <1>1, EndedFlows
  <2>4. /\ flows' \in Seq(Flow) /\ DOMAIN flows' = DOMAIN Ended(k)
        /\ \A i \in DOMAIN Ended(k) :
              /\ flows'[i].no = Ended(k)[i].no /\ flows'[i].kind = Ended(k)[i].kind
              /\ flows'[i].stage = Ended(k)[i].stage
              /\ flows'[i].away <=> Ended(k)[i].away \/ Ended(k)[i].no = Top.no
    BY <2>1, <2>3, MarkedFacts
  <2>5. \A i \in DOMAIN flows' : \E j \in DOMAIN flows :
           /\ flows'[i].no = flows[j].no /\ flows'[i].stage = flows[j].stage
           /\ flows[j].away \/ flows[j].no = Top.no => flows'[i].away
    <3> TAKE i \in DOMAIN flows'
    <3>1. i \in DOMAIN Ended(k)
      BY <2>4
    <3>2. PICK j \in DOMAIN flows : Ended(k)[i] = flows[j]
      BY <2>3, <3>1
    <3> WITNESS j \in DOMAIN flows
    <3> QED BY <2>4, <3>1, <3>2
  <2>6. \A j \in DOMAIN flows : j # k =>
           \E i \in DOMAIN flows' : flows'[i].no = flows[j].no /\ flows'[i].kind = flows[j].kind
    <3> SUFFICES ASSUME NEW j \in DOMAIN flows, j # k
                 PROVE  \E i \in DOMAIN flows' :
                           flows'[i].no = flows[j].no /\ flows'[i].kind = flows[j].kind
      OBVIOUS
    <3>1. PICK i \in DOMAIN Ended(k) : Ended(k)[i] = flows[j]
      BY <2>3
    <3>2. i \in DOMAIN flows' /\ flows'[i].no = flows[j].no /\ flows'[i].kind = flows[j].kind
      BY <2>4, <3>1
    <3> QED BY <3>2
  <2>7. SpinnerHasCause' /\ busy' \subseteq busy /\ googleBusy' \subseteq googleBusy
    BY <2>6, EndedCauses DEF AuthInv
  <2>8. TypeOK'
    <3>1. ServiceOK'
      BY <1>1, <2>1 DEF ServiceOK
    <3>2. \A n \in busy \cup googleBusy : n # 0
      BY <1>1, BusyNotZero DEF AuthInv
    <3>3. BusyMounted'
      BY <1>1, <2>2, <2>7, <3>2 DEF BusyMounted
    <3> QED BY <2>2, <2>4, <3>1, <3>3, TypePartsNext DEF FlowsOK
  <2>9. Earned'
    <3>1. \A i \in DOMAIN flows' : flows'[i].stage \in {"done", "stored"} => everIn'
      BY <2>5 DEF AuthInv, Earned
    <3> QED BY <2>2, <3>1 DEF AuthInv, Earned, HomeNeedsSignIn
  <2>10. WrapperFollows'
    BY <2>2 DEF AuthInv, WrapperFollows, Last
  <2>11. OwnOnTop'
    <3>1. \A i \in DOMAIN flows : flows[i].no # 0
      BY <1>1, FlowNos
    <3>2. \A x : (\E j \in DOMAIN flows : flows[j].no = x) => (Mounted(x)' => Mounted(x))
      BY <2>2, <3>1, Zenon
    <3> QED BY <2>5, <3>2, MarkedOnTop, Zenon DEF AuthInv
  <2> QED BY <2>2, <2>7, <2>8, <2>9, <2>10, <2>11 DEF AuthInv
<1> QED BY <1>2, <1>3

(* logIn and signInWithGoogle after their awaits. *)
LEMMA GoHomeKeeps ==
  ASSUME AuthInv, NEW k \in DOMAIN flows, flows[k].stage \in {"done", "stored"},
         GoHome(k), SpinnerOff(k), UNCHANGED <<debug, user, events, everIn>>
  PROVE  AuthInv'
<1>1. ServiceOK /\ FlowsOK
  BY TypeParts DEF AuthInv
<1>2. CASE Mounted(flows[k].no)
  <2>1. Home \in RouteSet /\ Home.kind = "home" /\ Home.no = 0
    BY AuthAssumption DEF Home, Route, RouteSet
  <2>2. everIn
    BY DEF AuthInv, Earned
  <2>3. \A i \in DOMAIN flows : flows[i].no # 0
    BY <1>1, FlowNos
  <2>4. PushReplacement(Home, Ended(k))
    BY <1>2 DEF GoHome
  <2> QED BY <2>1, <2>2, <2>3, <2>4, ReplaceEndKeeps
<1>3. CASE ~Mounted(flows[k].no)
  <2>1. flows' = Ended(k) /\ UNCHANGED <<locked, stack, exiting>>
    BY <1>3 DEF GoHome
  <2>2. locked' \in BOOLEAN /\ (locked' => debug)
    BY <1>1, <2>1 DEF ServiceOK
  <2> QED BY <2>1, <2>2, PlainEndKeeps
<1> QED BY <1>2, <1>3

(* signup after the account was created. *)
LEMMA SignUpEndsKeeps ==
  ASSUME AuthInv, NEW k \in DOMAIN flows, SignUpEnds(k)
  PROVE  AuthInv'
<1>1. ServiceOK /\ FlowsOK
  BY TypeParts DEF AuthInv
<1>2. SpinnerOff(k) /\ UNCHANGED <<debug, user, events, everIn>>
  BY DEF SignUpEnds, At, SpinnerOff, session
<1>3. CASE Mounted(flows[k].no)
  <2> DEFINE r == Route("login", NewNo)
  <2>1. FreeNo # {} /\ PushReplacement(r, Ended(k))
    BY <1>3 DEF SignUpEnds, SpareNo
  <2>2. /\ NewNo \in 1 .. MaxScreens /\ ~Mounted(NewNo)
        /\ \A i \in DOMAIN flows : flows[i].no # NewNo
    BY <2>1, NewNoFacts
  <2>3. r \in RouteSet /\ r.kind = "login" /\ r.no = NewNo /\ r.no # 0
    BY <2>2, AuthAssumption DEF Route, RouteSet
  <2> HIDE DEF r
  <2> QED BY <1>2, <2>1, <2>2, <2>3, ReplaceEndKeeps
<1>4. CASE ~Mounted(flows[k].no)
  <2>1. flows' = Ended(k) /\ UNCHANGED <<locked, stack, exiting>>
    BY <1>4 DEF SignUpEnds
  <2>2. locked' \in BOOLEAN /\ (locked' => debug)
    BY <1>1, <2>1 DEF ServiceOK
  <2> QED BY <1>2, <2>1, <2>2, PlainEndKeeps
<1> QED BY <1>3, <1>4

(* The calls that fail. *)
LEMMA FailsKeeps ==
  ASSUME AuthInv, NEW k \in DOMAIN flows, LogInFails(k) \/ GoogleFails(k) \/ SignUpFails(k)
  PROVE  AuthInv'
<1>1. ServiceOK
  BY TypeParts DEF AuthInv
<1>2. /\ flows' = Ended(k)
      /\ UNCHANGED <<debug, user, events, everIn, locked, stack, exiting>>
  BY DEF LogInFails, GoogleFails, SignUpFails, session
<1>3. SpinnerOff(k)
  BY DEF LogInFails, GoogleFails, SignUpFails, At, SpinnerOff
<1>4. locked' \in BOOLEAN /\ (locked' => debug)
  BY <1>1, <1>2 DEF ServiceOK
<1> QED BY <1>2, <1>3, <1>4, PlainEndKeeps

(* A process that has just started. *)
Started ==
    /\ debug \in BOOLEAN /\ user \in BOOLEAN
    /\ locked = FALSE /\ everIn = user /\ events = <<user>>
    /\ stack = <<Route("wrapper", 1)>>
    /\ exiting = {} /\ busy = {} /\ googleBusy = {} /\ flows = <<>>

(* It satisfies the invariant: the stream's first event is under way. *)
LEMMA StartedInv == Started => AuthInv
<1> SUFFICES ASSUME Started PROVE AuthInv
  OBVIOUS
<1>1. /\ stack \in Seq(RouteSet) /\ stack # <<>> /\ DOMAIN stack = {1}
      /\ stack[1].kind = "wrapper" /\ stack[1].no = 1
  <2>1. Route("wrapper", 1) \in RouteSet
    BY AuthAssumption DEF Route, RouteSet
  <2>2. Route("wrapper", 1).kind = "wrapper" /\ Route("wrapper", 1).no = 1
    BY DEF Route
  <2> DEFINE w == Route("wrapper", 1)
  <2>3. stack = <<w>> /\ w \in RouteSet
    BY <2>1 DEF Started
  <2> HIDE DEF w
  <2>4. stack \in Seq(RouteSet) /\ stack # <<>> /\ DOMAIN stack = {1} /\ stack[1] = w
    BY <2>3
  <2> QED BY <2>2, <2>4 DEF w
<1>2. /\ events \in Seq(BOOLEAN) /\ events # <<>> /\ DOMAIN events = {1}
      /\ events[1] = user /\ Last(events) = user
  <2>1. \A S : \A b \in S : /\ <<b>> \in Seq(S) /\ <<b>> # <<>> /\ DOMAIN <<b>> = {1}
                           /\ <<b>>[1] = b /\ Last(<<b>>) = b
    BY DEF Last
  <2> QED BY <2>1, Zenon DEF Started
<1>3. flows \in Seq(Flow) /\ DOMAIN flows = {}
  BY EmptySeq DEF Started
<1>4. TypeOK
  <2>1. ServiceOK
    BY <1>2, Zenon DEF Started, ServiceOK
  <2>2. StackOK
    BY <1>1 DEF Started, StackOK
  <2>3. FlowsOK /\ BusyMounted
    BY <1>3 DEF Started, FlowsOK, BusyMounted
  <2> QED BY <2>1, <2>2, <2>3, TypeParts
<1>5. Identities
  BY <1>1 DEF Started, Identities
<1>6. Earned
  <2>1. \A i \in DOMAIN events : events[i] => everIn
    BY <1>2, Zenon DEF Started
  <2>2. user => everIn
    BY Zenon DEF Started
  <2> QED BY <1>1, <1>3, <2>1, <2>2 DEF Earned, HomeNeedsSignIn
<1>7. SpinnerHasCause
  BY DEF Started, SpinnerHasCause
<1>8. WrapperFollows
  BY <1>2, Zenon DEF WrapperFollows
<1>9. OwnOnTop
  BY <1>3 DEF OwnOnTop
<1> QED BY <1>4, <1>5, <1>6, <1>7, <1>8, <1>9 DEF AuthInv

(* Also after a restart. *)
LEMMA StartedInvNext == Started' => AuthInv'
  BY StartedInv, PTL

(* Every step keeps the invariant. *)
LEMMA AuthStep == AuthInv /\ [Next]_vars => AuthInv'
<1> SUFFICES ASSUME AuthInv, [Next]_vars PROVE AuthInv'
  OBVIOUS
<1>1. CASE OpenSignUp \/ OpenLogin
  BY <1>1, PushKeeps DEF OpenSignUp, OpenLogin
<1>2. CASE Back
  BY <1>2, BackKeeps
<1>3. CASE \E n \in exiting : ExitEnds(n)
  BY <1>3, ExitKeeps
<1>4. CASE LogIn
  <2>1. "login" \in Kinds
    BY DEF Kinds
  <2> QED BY <1>4, <2>1, StartKeeps DEF LogIn
<1>5. CASE SignInWithGoogle
  <2>1. "google" \in Kinds
    BY DEF Kinds
  <2> QED BY <1>5, <2>1, StartKeeps DEF SignInWithGoogle
<1>6. CASE SignUp
  <2>1. "signup" \in Kinds
    BY DEF Kinds
  <2> QED BY <1>6, <2>1, StartKeeps DEF SignUp
<1>7. CASE LogOut
  BY <1>7, LogOutKeeps
<1>8. CASE AuthEvent
  BY <1>8, AuthEventKeeps
<1>9. ASSUME NEW k \in DOMAIN flows, FlowStep(k) PROVE AuthInv'
  <2>1. CASE AccountChosen(k) \/ Refused(k) \/ GoogleStoresFlag(k)
    BY <2>1, QuietKeeps
  <2>2. CASE Accepted(k)
    BY <2>2, AcceptedKeeps
  <2>3. CASE LogInEnds(k)
    <3>1. SpinnerOff(k) /\ flows[k].stage \in {"done", "stored"} /\ GoHome(k)
      BY <2>3 DEF LogInEnds, At, SpinnerOff
    <3> QED BY <2>3, <3>1, GoHomeKeeps DEF LogInEnds
  <2>4. CASE GoogleEnds(k)
    <3>1. SpinnerOff(k) /\ flows[k].stage \in {"done", "stored"} /\ GoHome(k)
      BY <2>4 DEF GoogleEnds, At, SpinnerOff
    <3> QED BY <2>4, <3>1, GoHomeKeeps DEF GoogleEnds, session
  <2>5. CASE SignUpEnds(k)
    BY <2>5, SignUpEndsKeeps
  <2>6. CASE LogInFails(k) \/ GoogleFails(k) \/ SignUpFails(k)
    BY <2>6, FailsKeeps
  <2> QED BY <1>9, <2>1, <2>2, <2>3, <2>4, <2>5, <2>6 DEF FlowStep
<1>10. CASE Restart
  <2>1. debug \in BOOLEAN /\ user \in BOOLEAN
    BY TypeParts DEF AuthInv, ServiceOK
  <2>2. Started'
    BY <1>10, <2>1 DEF Restart, Started, Route
  <2> QED BY <2>2, StartedInvNext
<1>11. CASE UNCHANGED vars
  BY <1>11 DEF vars, AuthInv, TypeOK, Identities, Earned, HomeNeedsSignIn, SpinnerHasCause,
               HasFlow, WrapperFollows, Last, OwnOnTop, Mounted, Top
<1> QED
  BY <1>1, <1>2, <1>3, <1>4, <1>5, <1>6, <1>7, <1>8, <1>9, <1>10, <1>11 DEF Next

(* The invariant holds from the start of the app on. *)
LEMMA AuthInvariant == Spec => []AuthInv
<1>1. Init => Started
  BY DEF Init, Started
<1> QED BY <1>1, StartedInv, AuthStep, PTL DEF Spec

-----------------------------------------------------------------------------
(* Type correctness: with it, the wrapper is the bottom route unless a     *)
(* release build has replaced it, the navigator is locked only in a debug  *)
(* build, and no spinner turns on a screen that is gone.                   *)
THEOREM TypeCorrect == Spec => []TypeOK
<1>1. AuthInv => TypeOK BY DEF AuthInv
<1> QED BY <1>1, AuthInvariant, PTL

(* The wrapper's StreamBuilder never misses a change of the auth state,    *)
(* for any number of screens, calls and events under way.                  *)
THEOREM WrapperTrue == Spec => []WrapperFollows
<1>1. AuthInv => WrapperFollows BY DEF AuthInv
<1> QED BY <1>1, AuthInvariant, PTL

(* A home page, the wrapper's or one that logIn or signInWithGoogle        *)
(* pushed, comes from a sign-in of this process.                           *)
THEOREM HomeEarned == Spec => []HomeNeedsSignIn
<1>1. AuthInv => HomeNeedsSignIn BY DEF AuthInv, Earned
<1> QED BY <1>1, AuthInvariant, PTL

(* Every loading and googleLoading that is set has a call of that very     *)
(* screen under way, which will clear it.                                  *)
THEOREM SpinnersEnd == Spec => []SpinnerHasCause
<1>1. AuthInv => SpinnerHasCause BY DEF AuthInv
<1> QED BY <1>1, AuthInvariant, PTL

(* Navigator.pushReplacement at the end of logIn, signInWithGoogle and     *)
(* signup hits the caller's own screen, unless that was covered, left,     *)
(* replaced or given a second call while the first one ran.                *)
THEOREM OwnScreenReplaced == Spec => ReplacesOwnScreen
<1>1. ASSUME AuthInv, NEW k \in DOMAIN flows, ~flows[k].away,
             LogInEnds(k) \/ GoogleEnds(k) \/ SignUpEnds(k)
      PROVE  stack' = stack \/ flows[k].no = Top.no
  <2>1. CASE Mounted(flows[k].no)
    BY <1>1, <2>1 DEF AuthInv, OwnOnTop
  <2>2. CASE ~Mounted(flows[k].no)
    BY <1>1, <2>2 DEF LogInEnds, GoogleEnds, SignUpEnds, GoHome
  <2> QED BY <2>1, <2>2
<1>2. AuthInv /\ [Next]_vars =>
        [\A i \in DOMAIN flows :
           ~flows[i].away /\ (LogInEnds(i) \/ GoogleEnds(i) \/ SignUpEnds(i))
              => stack' = stack \/ flows[i].no = Top.no]_vars
  BY <1>1
<1> QED BY <1>2, AuthInvariant, PTL DEF Spec, ReplacesOwnScreen
=============================================================================
