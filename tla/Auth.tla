---------------------------------- MODULE Auth ---------------------------------
(***************************************************************************)
(* Authentication (lib/firebase): the wrapper at the bottom of the         *)
(* navigator, which follows the stream of auth-state changes, and the      *)
(* log-in and sign-up screens, whose calls push routes of their own.       *)
(*                                                                         *)
(* A sign-in has two effects that reach the app separately: the event that *)
(* makes the wrapper swap its log-in screen for the home page, and the     *)
(* reply that lets logIn, signInWithGoogle or signup go on.  Nothing is    *)
(* cancelled when a screen goes; a screen stays mounted while its exit     *)
(* transition runs; Navigator.pushReplacement replaces whatever route is   *)
(* on top, which need not be the caller's.                                 *)
(*                                                                         *)
(* The wrapper is a page of GoRouter.  To replace a page trips an          *)
(* assertion in a debug build, which also leaves the navigator locked; in  *)
(* a release build the page is replaced.  Feature pages opened from the    *)
(* home page are not on this stack.                                        *)
(***************************************************************************)
EXTENDS Integers, Sequences, SequencesExt

CONSTANTS MaxScreens, MaxDepth, MaxFlows, MaxEvents     \* bounds

ASSUME AuthAssumption ==
    /\ MaxScreens \in Nat \ {0} /\ MaxDepth \in Nat \ {0}
    /\ MaxFlows \in Nat /\ MaxEvents \in Nat \ {0}

VARIABLES
    debug,        \* assertions are on
    locked,       \* an assertion has left the navigator locked
    user,         \* FirebaseAuth has a current user
    events,       \* auth-state changes the wrapper has not been told of
    stack,        \* the routes, bottom first
    exiting,      \* screens gone from the stack and still mounted
    busy,         \* screens whose loading is set
    googleBusy,   \* screens whose googleLoading is set
    flows,        \* calls of logIn, signInWithGoogle and signup under way
    everIn        \* somebody was signed in in this process (auxiliary)

vars == <<debug, locked, user, events, stack, exiting, busy, googleBusy,
          flows, everIn>>

(* A route is what it shows and the identity of the State it keeps.  The   *)
(* wrapper keeps the State of its log-in screen, or 0 when it shows home.  *)
Route(kind, no) == [kind |-> kind, no |-> no]
Home == Route("home", 0)

Top == Last(stack)

Shown == IF Top.kind # "wrapper" THEN Top.kind
         ELSE IF Top.no = 0 THEN "home" ELSE "login"

Mounted(n) == n \in exiting \/ \E i \in DOMAIN stack : stack[i].no = n

HasFlow(n, kinds) == \E i \in DOMAIN flows : flows[i].no = n /\ flows[i].kind \in kinds

(* Identities; bound: at most MaxScreens are mounted or awaited. *)
FreeNo == {n \in 1 .. MaxScreens :
              ~Mounted(n) /\ \A i \in DOMAIN flows : flows[i].no # n}
NewNo == CHOOSE n \in FreeNo : \A m \in FreeNo : n <= m

(* The screens the user opens leave an identity to the wrapper, so that    *)
(* the bound never holds up an auth-state change for good.                 *)
SpareNo == \E m, n \in FreeNo : m # n

(* Google's account chooser lies over the app; below it nothing can be     *)
(* touched.                                                                *)
Touchable == \A i \in DOMAIN flows : flows[i].stage # "account"

(* The flows of screen n, marked: the screen was covered, left, replaced   *)
(* or given another flow while they ran.                                   *)
Marked(fs, n) == [i \in DOMAIN fs |-> IF fs[i].no = n THEN [fs[i] EXCEPT !.away = TRUE]
                                                      ELSE fs[i]]

-----------------------------------------------------------------------------
Init ==
    /\ debug \in BOOLEAN /\ locked = FALSE
    /\ user \in BOOLEAN /\ everIn = user
    /\ events = <<user>>                    \* the stream's first event
    /\ stack = <<Route("wrapper", 1)>>      \* no data yet: the log-in screen
    /\ exiting = {} /\ busy = {} /\ googleBusy = {} /\ flows = <<>>

session == <<debug, user, events, everIn>>

(* Navigator.push from the screen on top. *)
Push(kind) ==
    /\ Touchable /\ ~locked /\ SpareNo /\ Len(stack) < MaxDepth
    /\ stack' = Append(stack, Route(kind, NewNo))
    /\ flows' = Marked(flows, Top.no)
    /\ UNCHANGED <<session, locked, exiting, busy, googleBusy>>

(* The links between the two screens. *)
OpenSignUp == Shown = "login" /\ Push("signup")
OpenLogin == Shown = "signup" /\ Push("login")

(* The back button; the last route is not popped. *)
Back ==
    /\ Touchable /\ ~locked /\ Len(stack) > 1
    /\ stack' = Front(stack)
    /\ exiting' = exiting \cup ({Top.no} \ {0})
    /\ flows' = Marked(flows, Top.no)
    /\ UNCHANGED <<session, locked, busy, googleBusy>>

(* The exit transition of a screen ends and its State is disposed. *)
ExitEnds(n) ==
    /\ n \in exiting
    /\ exiting' = exiting \ {n}
    /\ busy' = busy \ {n} /\ googleBusy' = googleBusy \ {n}
    /\ UNCHANGED <<session, locked, stack, flows>>

(* A call starts on the screen on top, at its first await. *)
Start(kind, stage) ==
    /\ Touchable /\ Len(flows) < MaxFlows
    /\ flows' = Append(Marked(flows, Top.no),
                  [no |-> Top.no, kind |-> kind, stage |-> stage,
                   away |-> HasFlow(Top.no, {"login", "google", "signup"})])
    /\ UNCHANGED <<session, locked, stack, exiting>>

(* The Login button, in whose place a spinner is shown while loading; the  *)
(* form is valid.                                                          *)
LogIn ==
    /\ Shown = "login" /\ Top.no \notin busy
    /\ busy' = busy \cup {Top.no}
    /\ Start("login", "sent")
    /\ UNCHANGED googleBusy

(* The Google button. *)
SignInWithGoogle ==
    /\ Shown = "login" /\ Top.no \notin busy /\ Top.no \notin googleBusy
    /\ googleBusy' = googleBusy \cup {Top.no}
    /\ Start("google", "account")
    /\ UNCHANGED busy

(* The Sign Up button; RoundButton ignores its loading. *)
SignUp ==
    /\ Shown = "signup"
    /\ busy' = busy \cup {Top.no}
    /\ Start("signup", "sent")
    /\ UNCHANGED googleBusy

(* The log-out button of a home page; signing out is local. *)
LogOut ==
    /\ Shown = "home" /\ Touchable /\ user /\ Len(events) < MaxEvents
    /\ user' = FALSE
    /\ events' = Append(events, FALSE)
    /\ UNCHANGED <<debug, locked, stack, exiting, busy, googleBusy, flows, everIn>>

-----------------------------------------------------------------------------
(* FirebaseAuth and Google. *)

At(i, kind, stage) == flows[i].kind = kind /\ flows[i].stage = stage

Moved(i, stage) == [flows EXCEPT ![i].stage = stage]

(* The service accepts the credentials or creates the account: both sign   *)
(* in.                                                                     *)
Accepted(i) ==
    /\ flows[i].stage = "sent"
    /\ flows' = Moved(i, "done")
    /\ user' = TRUE /\ everIn' = TRUE
    /\ events' = IF user THEN events ELSE Append(events, TRUE)
    /\ UNCHANGED <<debug, locked, stack, exiting, busy, googleBusy>>

Refused(i) ==
    /\ flows[i].stage = "sent"
    /\ flows' = Moved(i, "failed")
    /\ UNCHANGED <<session, locked, stack, exiting, busy, googleBusy>>

(* An account is chosen; the tokens and the credential follow. *)
AccountChosen(i) ==
    /\ At(i, "google", "account")
    /\ flows' = Moved(i, "sent")
    /\ UNCHANGED <<session, locked, stack, exiting, busy, googleBusy>>

(* Mutant: the wrapper ignores a sign-out. *)
AuthEventKeepsHome ==
    /\ events # <<>>
    /\ events' = Tail(events)
    /\ stack' = IF stack[1].kind = "wrapper" /\ Head(events)
                THEN [stack EXCEPT ![1].no = 0] ELSE stack
    /\ busy' = IF stack' = stack THEN busy ELSE busy \ {stack[1].no}
    /\ googleBusy' = IF stack' = stack THEN googleBusy ELSE googleBusy \ {stack[1].no}
    /\ UNCHANGED <<debug, locked, user, exiting, flows, everIn>>

(* Mutant: the wrapper ignores a sign-in. *)
AuthEventKeepsLogin ==
    /\ events # <<>> /\ FreeNo # {}
    /\ events' = Tail(events)
    /\ stack' = IF stack[1].kind = "wrapper" /\ ~Head(events) /\ stack[1].no = 0
                THEN [stack EXCEPT ![1].no = NewNo] ELSE stack
    /\ UNCHANGED <<debug, locked, user, exiting, busy, googleBusy, flows, everIn>>

(* The stream tells the wrapper, whose child is rebuilt: the State of its  *)
(* log-in screen is disposed, or a new one is made.                        *)
AuthEvent ==
    /\ events # <<>>
    /\ events' = Tail(events)
    /\ \/ /\ stack[1].kind = "wrapper" /\ Head(events)
          /\ stack' = [stack EXCEPT ![1].no = 0]
          /\ busy' = busy \ {stack[1].no}
          /\ googleBusy' = googleBusy \ {stack[1].no}
       \/ /\ stack[1].kind = "wrapper" /\ ~Head(events) /\ stack[1].no = 0
          /\ FreeNo # {}
          /\ stack' = [stack EXCEPT ![1].no = NewNo]
          /\ UNCHANGED <<busy, googleBusy>>
       \/ /\ stack[1].kind # "wrapper" \/ (~Head(events) /\ stack[1].no # 0)
          /\ UNCHANGED <<stack, busy, googleBusy>>
    /\ UNCHANGED <<debug, locked, user, exiting, flows, everIn>>

-----------------------------------------------------------------------------
(* The calls go on. *)

Ended(i) == RemoveAt(flows, i)

(* Navigator.pushReplacement with fs the flows left.  A locked navigator,  *)
(* and in a debug build a page, refuse with an assertion, which the        *)
(* callers catch.                                                          *)
PushReplacement(route, fs) ==
    IF locked \/ (debug /\ Top.kind = "wrapper")
    THEN locked' = TRUE /\ flows' = fs /\ UNCHANGED <<stack, exiting>>
    ELSE /\ stack' = Append(Front(stack), route)
         /\ exiting' = exiting \cup ({Top.no} \ {0})
         /\ flows' = Marked(fs, Top.no)
         /\ UNCHANGED locked

(* Mutant: no look at mounted. *)
GoHomeAlways(i) == PushReplacement(Home, Ended(i))

(* What both log-ins do in the end: the home page, if still mounted. *)
GoHome(i) ==
    IF Mounted(flows[i].no) THEN PushReplacement(Home, Ended(i))
    ELSE flows' = Ended(i) /\ UNCHANGED <<locked, stack, exiting>>

(* logIn after the sign-in: the preference isLoggedIn, which nothing reads *)
(* and the model leaves out, the home page, loading.  On a disposed screen *)
(* the last setState throws, is caught as an error, and the handler's      *)
(* setState throws again.  A reply without a user, which would leave       *)
(* loading set, is left out: the SDK throws instead.                       *)
LogInEnds(i) ==
    /\ At(i, "login", "done")
    /\ GoHome(i)
    /\ busy' = busy \ {flows[i].no}
    /\ UNCHANGED <<debug, user, events, everIn, googleBusy>>

(* Mutant: the spinner is not switched off. *)
LogInFailsBusy(i) ==
    /\ At(i, "login", "failed")
    /\ flows' = Ended(i)
    /\ UNCHANGED <<session, locked, stack, exiting, busy, googleBusy>>

(* The catch of logIn: the sign-in, or the preferences, failed. *)
LogInFails(i) ==
    /\ At(i, "login", "failed") \/ At(i, "login", "done")
    /\ flows' = Ended(i)
    /\ busy' = busy \ {flows[i].no}
    /\ UNCHANGED <<session, locked, stack, exiting, googleBusy>>

(* signInWithGoogle after the sign-in: it awaits the same preference. *)
GoogleStoresFlag(i) ==
    /\ At(i, "google", "done")
    /\ flows' = Moved(i, "stored")
    /\ UNCHANGED <<debug, locked, user, events, everIn, stack, exiting, busy, googleBusy>>

GoogleEnds(i) ==
    /\ At(i, "google", "stored")
    /\ GoHome(i)
    /\ googleBusy' = googleBusy \ {flows[i].no}
    /\ UNCHANGED <<session, busy>>

(* Mutant: a cancelled chooser is taken for a sign-in. *)
GoogleFailsForward(i) ==
    /\ flows[i].kind = "google" /\ flows[i].stage = "account"
    /\ GoHome(i)
    /\ googleBusy' = googleBusy \ {flows[i].no}
    /\ UNCHANGED <<session, busy>>

(* The chooser is cancelled or any await throws; the finally block. *)
GoogleFails(i) ==
    /\ flows[i].kind = "google" /\ flows[i].stage # "sent"
    /\ flows' = Ended(i)
    /\ googleBusy' = googleBusy \ {flows[i].no}
    /\ UNCHANGED <<session, locked, stack, exiting, busy>>

(* signup after the account was created: a log-in screen, if mounted. *)
SignUpEnds(i) ==
    /\ At(i, "signup", "done")
    /\ IF Mounted(flows[i].no)
       THEN SpareNo /\ PushReplacement(Route("login", NewNo), Ended(i))
       ELSE flows' = Ended(i) /\ UNCHANGED <<locked, stack, exiting>>
    /\ busy' = busy \ {flows[i].no}
    /\ UNCHANGED <<session, googleBusy>>

SignUpFails(i) ==
    /\ At(i, "signup", "failed")
    /\ flows' = Ended(i)
    /\ busy' = busy \ {flows[i].no}
    /\ UNCHANGED <<session, locked, stack, exiting, googleBusy>>

(* The process ends; FirebaseAuth keeps its user. *)
Restart ==
    /\ locked' = FALSE /\ everIn' = user /\ events' = <<user>>
    /\ stack' = <<Route("wrapper", 1)>>
    /\ exiting' = {} /\ busy' = {} /\ googleBusy' = {} /\ flows' = <<>>
    /\ UNCHANGED <<debug, user>>

FlowStep(i) ==
    \/ AccountChosen(i) \/ Accepted(i) \/ Refused(i)
    \/ LogInEnds(i) \/ LogInFails(i)
    \/ GoogleStoresFlag(i) \/ GoogleEnds(i) \/ GoogleFails(i)
    \/ SignUpEnds(i) \/ SignUpFails(i)

Next ==
    \/ OpenSignUp \/ OpenLogin \/ Back
    \/ \E n \in exiting : ExitEnds(n)
    \/ LogIn \/ SignInWithGoogle \/ SignUp \/ LogOut
    \/ AuthEvent
    \/ \E i \in DOMAIN flows : FlowStep(i)
    \/ Restart

Spec == Init /\ [][Next]_vars

(* Events are delivered, calls are answered and transitions end; nothing   *)
(* is assumed of the user.                                                 *)
Fairness ==
    /\ WF_vars(AuthEvent)
    /\ WF_vars(\E i \in DOMAIN flows : FlowStep(i))
    /\ WF_vars(\E n \in exiting : ExitEnds(n))

FairSpec == Spec /\ Fairness

-----------------------------------------------------------------------------
(* Properties *)

Kinds == {"login", "google", "signup"}
Stages == {"account", "sent", "done", "failed", "stored"}

(* Type correctness.  The wrapper is the bottom route or is gone, and gone *)
(* it is only in a release build; the navigator is locked only in a debug  *)
(* build.                                                                  *)
TypeOK ==
    /\ debug \in BOOLEAN /\ locked \in BOOLEAN /\ user \in BOOLEAN
    /\ everIn \in BOOLEAN
    /\ events \in Seq(BOOLEAN)
    /\ stack \in Seq([kind : {"wrapper", "login", "signup", "home"}, no : 0 .. MaxScreens])
    /\ stack # <<>>
    /\ \A i \in DOMAIN stack : stack[i].kind = "wrapper" => i = 1
    /\ stack[1].kind = "wrapper" \/ (stack[1].kind \in {"home", "login"} /\ ~debug)
    /\ locked => debug
    /\ exiting \subseteq 1 .. MaxScreens
    /\ flows \in Seq([no : 1 .. MaxScreens, kind : Kinds, stage : Stages, away : BOOLEAN])
    /\ \A n \in busy \cup googleBusy : Mounted(n)

(* What the wrapper shows, after the events under way, is whether somebody *)
(* is signed in: no order of sign-ins, sign-outs, replies and restarts     *)
(* makes it miss a change.                                                 *)
WrapperFollows ==
    stack[1].kind = "wrapper" =>
        user = IF events # <<>> THEN Last(events) ELSE stack[1].no = 0

(* No refused, cancelled or failed call leads to a home page: there is one *)
(* on the stack only if somebody was signed in in this process.            *)
HomeNeedsSignIn ==
    (\E i \in DOMAIN stack : stack[i].no = 0) => everIn

(* A spinner has a call of its own screen that will end it, whichever      *)
(* screens were pushed, replaced and popped since.                         *)
SpinnerHasCause ==
    /\ \A n \in busy : HasFlow(n, {"login", "signup"})
    /\ \A n \in googleBusy : HasFlow(n, {"google"})

(* A call whose screen was not covered, left, replaced or given a second   *)
(* call meanwhile replaces its own screen and no other route: also when    *)
(* the auth event swaps that screen away first.                            *)
ReplacesOwnScreen ==
    [][\A i \in DOMAIN flows :
          ~flows[i].away /\ (LogInEnds(i) \/ GoogleEnds(i) \/ SignUpEnds(i))
             => stack' = stack \/ flows[i].no = Top.no]_vars

(* The wrapper keeps catching up: again and again, whatever signs in and   *)
(* out, it shows home to somebody signed in and the log-in screen to       *)
(* somebody who is not, although replies may find their screens gone.  The *)
(* exception is a wrapper that a call has replaced, after which nobody     *)
(* follows the auth stream.                                                *)
ScreenFollowsUser ==
    []<>(stack[1].kind = "wrapper" => (user <=> stack[1].no = 0))
=============================================================================
