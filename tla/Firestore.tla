------------------------------- MODULE Firestore -------------------------------
(***************************************************************************)
(* The Firestore screens (lib/firestore): the view, the page that sends a  *)
(* student's data and the page that fetches the students.                  *)
(*                                                                         *)
(* add ends when the server has taken the record, which may be long after  *)
(* the tap; until then the button stays enabled, the page can be left and  *)
(* the SDK shows, and across restarts keeps, the record as a pending       *)
(* write.  A page stays mounted while its exit transition runs, and        *)
(* pushReplacement replaces the route on top, which need not be the        *)
(* caller's; home and view are pages of GoRouter, which a debug build      *)
(* refuses to replace, leaving the navigator locked (see Auth).            *)
(*                                                                         *)
(* Somebody is signed in: without a user a submit only shows an error and  *)
(* the fetch page fails to build, and neither changes any state here.      *)
(***************************************************************************)
EXTENDS Integers, Sequences, SequencesExt

CONSTANTS MaxScreens, MaxSubmits, MaxSaves      \* bounds

ASSUME FirestoreAssumption ==
    MaxScreens \in Nat \ {0} /\ MaxSubmits \in Nat /\ MaxSaves \in Nat

VARIABLES
    debug, locked,  \* assertions are on; one has locked the navigator
    stack,          \* the routes, bottom first
    exiting,        \* send and fetch routes gone from the stack, still mounted
    form,           \* what each send page's form holds: an entry, or 0
    entries,        \* entries typed so far
    submits,        \* the taps on Submit with a valid form, in their order
    store,          \* the submits whose records the server holds
    shown,          \* the snapshot each fetch page shows, or Waiting or Broken
    saves,          \* snapshots _saveDataLocally is still to write
    copy,           \* students_data on disk
    lastShown       \* the last snapshot built in this process (auxiliary)

vars == <<debug, locked, stack, exiting, form, entries, submits, store, shown,
          saves, copy, lastShown>>

records == <<store, shown, saves, copy, lastShown>>
forms == <<form, entries>>

Screens == 1 .. MaxScreens
Waiting == {0}         \* told apart from every set of submits
Broken == {-1}

Route(kind, no) == [kind |-> kind, no |-> no]
Top == Last(stack)
IsPage(route) == route.kind \in {"home", "view"}

Routes == Range(stack) \cup exiting
Mounted(n) == \E r \in Routes : r.no = n

Ended == {"succeeded", "failed", "both", "silent"}
Underway(i) == submits[i].stage \notin Ended

FreeNo == {n \in Screens : ~Mounted(n) /\ \A i \in DOMAIN submits :
                              Underway(i) => submits[i].no # n}
NewNo == CHOOSE n \in FreeNo : \A m \in FreeNo : n <= m

(* The submits of page n, marked: the page was left or replaced, or Submit *)
(* was tapped again, while they ran.                                       *)
Strayed(ss, n) == [i \in DOMAIN ss |-> IF ss[i].no = n THEN [ss[i] EXCEPT !.strayed = TRUE]
                                                       ELSE ss[i]]

Init ==
    /\ debug \in BOOLEAN /\ locked = FALSE
    /\ stack = <<Route("home", 0)>> /\ exiting = {}
    /\ form = [n \in Screens |-> 0] /\ entries = 0
    /\ submits = <<>> /\ store = {}
    /\ shown = [n \in Screens |-> Waiting]
    /\ saves = <<>> /\ copy = Waiting /\ lastShown = Waiting

-----------------------------------------------------------------------------
(* Navigation. *)

OpenView ==
    /\ Top.kind = "home" /\ ~locked
    /\ stack' = Append(stack, Route("view", 0))
    /\ UNCHANGED <<debug, locked, exiting, forms, submits, records>>

(* The two cards of the view. *)
OpenPage(kind) ==
    /\ Top.kind = "view" /\ ~locked /\ FreeNo # {}
    /\ stack' = Append(stack, Route(kind, NewNo))
    /\ UNCHANGED <<debug, locked, exiting, forms, submits, records>>

Back ==
    /\ Len(stack) > 1 /\ ~locked
    /\ stack' = Front(stack)
    /\ exiting' = exiting \cup {r \in {Top} : ~IsPage(r)}
    /\ submits' = Strayed(submits, Top.no)
    /\ UNCHANGED <<debug, locked, forms, records>>

(* The exit transition ends and the page's state is disposed; a new page   *)
(* starts with an empty form and no data.                                  *)
ExitEnds(r) ==
    /\ exiting' = exiting \ {r}
    /\ form' = [n \in Screens |-> IF n = r.no THEN 0 ELSE form[n]]
    /\ shown' = [n \in Screens |-> IF n = r.no THEN Waiting ELSE shown[n]]
    /\ UNCHANGED <<debug, locked, stack, entries, submits, store, saves, copy, lastShown>>

-----------------------------------------------------------------------------
(* FirestoreSendData *)

(* The three fields are filled in. *)
Fill ==
    /\ Top.kind = "send" /\ form[Top.no] = 0 /\ entries < MaxSubmits
    /\ entries' = entries + 1
    /\ form' = [form EXCEPT ![Top.no] = entries + 1]
    /\ UNCHANGED <<debug, locked, stack, exiting, submits, records>>

(* _submitData up to its await: nothing keeps it from being tapped again.  *)
(* again (auxiliary): a submit of the same entry is under way.             *)
Submit ==
    /\ Top.kind = "send" /\ form[Top.no] # 0 /\ Len(submits) < MaxSubmits
    /\ LET running(i) == Underway(i) /\ submits[i].no = Top.no
           again == \E i \in DOMAIN submits : running(i)
       IN submits' = Append(Strayed(submits, Top.no),
                       [entry |-> form[Top.no], no |-> Top.no, stage |-> "sent",
                        strayed |-> again, again |-> again])
    /\ UNCHANGED <<debug, locked, stack, exiting, forms, records>>

To(i, stage) == [submits EXCEPT ![i].stage = stage]

(* The server takes the record, or refuses it; also a pending write of an  *)
(* earlier process.                                                        *)
Stored(i) ==
    /\ submits[i].stage = "sent"
    /\ store' = store \cup {i}
    /\ submits' = To(i, IF submits[i].no = 0 THEN "silent" ELSE "stored")
    /\ UNCHANGED <<debug, locked, stack, exiting, forms, shown, saves, copy, lastShown>>

Refused(i) ==
    /\ submits[i].stage = "sent"
    /\ submits' = To(i, IF submits[i].no = 0 THEN "silent" ELSE "refused")
    /\ UNCHANGED <<debug, locked, stack, exiting, forms, records>>

(* Mutant: the page is popped before the fetch page replaces the top. *)
AddEndsPopsFirst(i) ==
    /\ submits[i].stage = "stored" /\ Mounted(submits[i].no)
    /\ ~locked /\ ~debug /\ Len(stack) > 1 /\ FreeNo # {}
    /\ stack' = Append(Front(Front(stack)), Route("fetch", NewNo))
    /\ exiting' = exiting \cup {r \in {Top} : ~IsPage(r)}
    /\ submits' = Strayed(To(i, "succeeded"), Top.no)
    /\ UNCHANGED <<debug, locked, forms, records>>

(* add returns.  On a mounted page: the message, the form is cleared, and  *)
(* the fetch page replaces the route on top.  Where that trips an          *)
(* assertion the catch block shows an error after the success.             *)
AddEnds(i) ==
    /\ submits[i].stage = "stored"
    /\ LET n == submits[i].no
           refuses == locked \/ (debug /\ IsPage(Top))
       IN \/ /\ ~Mounted(n)
             /\ submits' = To(i, "silent")
             /\ UNCHANGED <<locked, stack, exiting, form>>
          \/ /\ Mounted(n) /\ refuses
             /\ submits' = To(i, "both")
             /\ locked' = TRUE
             /\ form' = [form EXCEPT ![n] = 0]
             /\ UNCHANGED <<stack, exiting>>
          \/ /\ Mounted(n) /\ ~refuses /\ FreeNo # {}
             /\ submits' = Strayed(To(i, "succeeded"), Top.no)
             /\ stack' = Append(Front(stack), Route("fetch", NewNo))
             /\ exiting' = exiting \cup {r \in {Top} : ~IsPage(r)}
             /\ form' = [form EXCEPT ![n] = 0]
             /\ UNCHANGED locked
    /\ UNCHANGED <<debug, entries, records>>

(* Mutant: the page gives up waiting for add and reports an error. *)
AddFailsEarly(i) ==
    /\ submits[i].stage \in {"sent", "refused"} /\ submits[i].no # 0
    /\ IF submits[i].stage = "refused"
       THEN submits' = To(i, IF Mounted(submits[i].no) THEN "failed" ELSE "silent")
            /\ UNCHANGED store
       ELSE submits' = To(i, "failed") /\ store' = store \cup {i}
    /\ UNCHANGED <<debug, locked, stack, exiting, forms, shown, saves, copy, lastShown>>

(* The catch block: the error is shown, the form is kept. *)
AddFails(i) ==
    /\ submits[i].stage = "refused"
    /\ submits' = To(i, IF Mounted(submits[i].no) THEN "failed" ELSE "silent")
    /\ UNCHANGED <<debug, locked, stack, exiting, forms, records>>

-----------------------------------------------------------------------------
(* FirestoreFetchData *)

(* Mutant: pending writes are left out. *)
QueryResultStored == store

(* What a query answers: the server's records and the pending writes. *)
QueryResult == store \cup {i \in DOMAIN submits : submits[i].stage = "sent"}

FetchPages == {n \in Screens : Route("fetch", n) \in Routes}

(* Mutant: only the first snapshot of a page is saved. *)
SnapshotSavesOnce(n) ==
    /\ shown[n] # QueryResult /\ shown[n] # Broken /\ Len(saves) < MaxSaves
    /\ shown' = [shown EXCEPT ![n] = QueryResult]
    /\ saves' = IF shown[n] = Waiting THEN Append(saves, QueryResult) ELSE saves
    /\ lastShown' = QueryResult
    /\ UNCHANGED <<debug, locked, stack, exiting, forms, submits, store, copy>>

(* The stream of a fetch page has news: it is shown and _saveDataLocally   *)
(* is called, which is not awaited.                                        *)
Snapshot(n) ==
    /\ shown[n] # QueryResult /\ shown[n] # Broken /\ Len(saves) < MaxSaves
    /\ shown' = [shown EXCEPT ![n] = QueryResult]
    /\ saves' = Append(saves, QueryResult)
    /\ lastShown' = QueryResult
    /\ UNCHANGED <<debug, locked, stack, exiting, forms, submits, store, copy>>

(* The stream fails, for good: the page shows the error. *)
SnapshotError(n) ==
    /\ shown[n] # Broken
    /\ shown' = [shown EXCEPT ![n] = Broken]
    /\ UNCHANGED <<debug, locked, stack, exiting, forms, submits, store, saves, copy, lastShown>>

(* The calls of setStringList reach the disk in their order. *)
SaveDone ==
    /\ saves # <<>>
    /\ copy' = Head(saves)
    /\ saves' = Tail(saves)
    /\ UNCHANGED <<debug, locked, stack, exiting, forms, submits, store, shown, lastShown>>

(* The process ends; the SDK keeps its pending writes, which nobody awaits *)
(* any more.                                                               *)
Restart ==
    /\ locked' = FALSE /\ stack' = <<Route("home", 0)>> /\ exiting' = {}
    /\ submits' = [i \in DOMAIN submits |->
          IF submits[i].stage \in {"stored", "refused"}
          THEN [submits[i] EXCEPT !.stage = "silent", !.no = 0]
          ELSE [submits[i] EXCEPT !.no = 0]]
    /\ form' = [n \in Screens |-> 0] /\ shown' = [n \in Screens |-> Waiting]
    /\ saves' = <<>> /\ lastShown' = Waiting
    /\ UNCHANGED <<debug, entries, store, copy>>

SubmitStep(i) == Stored(i) \/ Refused(i) \/ AddEnds(i) \/ AddFails(i)

Next ==
    \/ OpenView \/ OpenPage("send") \/ OpenPage("fetch") \/ Back
    \/ \E r \in exiting : ExitEnds(r)
    \/ Fill \/ Submit
    \/ \E i \in DOMAIN submits : SubmitStep(i)
    \/ \E n \in FetchPages : Snapshot(n) \/ SnapshotError(n)
    \/ SaveDone \/ Restart

Spec == Init /\ [][Next]_vars

-----------------------------------------------------------------------------
(* Properties *)

Stages == {"sent", "stored", "refused"} \cup Ended

(* Type correctness.  The bottom page is there, or replaced in a release   *)
(* build; the navigator is locked only in a debug build.                   *)
TypeOK ==
    /\ stack # <<>> /\ (debug => stack[1].kind = "home") /\ (locked => debug)
    /\ Routes \subseteq [kind : {"home", "view", "send", "fetch"}, no : 0 .. MaxScreens]
    /\ \A q, r \in Routes : q.no = r.no /\ q.no # 0 => q = r
    /\ form \in [Screens -> 0 .. entries] /\ entries \in 0 .. MaxSubmits
    /\ submits \in Seq([entry : 1 .. MaxSubmits, no : 0 .. MaxScreens, stage : Stages,
                        strayed : BOOLEAN, again : BOOLEAN])
    /\ store \subseteq DOMAIN submits
    /\ Range(saves) \subseteq SUBSET DOMAIN submits /\ Len(saves) <= MaxSaves

(* A submit whose page was not left, replaced or submitted again meanwhile *)
(* finds its page in front and replaces it, and it alone, by a fetch page. *)
ReplacesOwnPage ==
    [][\A i \in DOMAIN submits :
          ~submits[i].strayed /\ AddEnds(i) =>
              /\ submits[i].no = Top.no
              /\ Front(stack') = Front(stack) /\ Last(stack').kind = "fetch"]_vars

(* The fetch page in front misses no stored record, although records reach *)
(* the server long after their taps, from pages and processes now gone.    *)
ShowsStored ==
    Top.kind = "fetch" /\ shown[Top.no] \notin {Waiting, Broken} =>
        store \subseteq shown[Top.no]

(* One form entry becomes two records only by a tap during an earlier      *)
(* submit of it: never by a retry after an error, nor by a pending write   *)
(* of an earlier process.                                                  *)
DuplicateNeedsOverlap ==
    \A i, j \in store : i < j /\ submits[i].entry = submits[j].entry => submits[j].again

(* The messages are true: a success was stored, an error was not and never *)
(* will be.  Success followed by an error is for debug builds, where the   *)
(* user left during the submit or tapped twice.                            *)
MessageIsTrue ==
    \A i \in DOMAIN submits :
        /\ submits[i].stage = "succeeded" => i \in store
        /\ submits[i].stage = "failed" => i \notin store
        /\ submits[i].stage = "both" => i \in store /\ debug /\ submits[i].strayed

(* Once the writes under way are done, the local copy is the snapshot that *)
(* was shown last, on whichever fetch page.                                *)
CopyFollows ==
    lastShown # Waiting =>
        lastShown = IF saves # <<>> THEN Last(saves) ELSE copy
=============================================================================
