-------------------------------- MODULE Students --------------------------------
(***************************************************************************)
(* The student database (lib/local_storage/sqflite): DatabaseHelper's one  *)
(* lazily opened connection, StudentRepository, and StudentPage on top.    *)
(*                                                                         *)
(* Every repository call first awaits the connection.  The calls made      *)
(* before it is open all start opening it and resume in order; a call made *)
(* once _database is set goes straight to sqflite, past those that have    *)
(* not resumed yet.  sqflite runs one statement at a time, in order.  A    *)
(* page that is closed does not stop its calls; a write that ends makes    *)
(* the page that asked for it load again, and no other.                    *)
(*                                                                         *)
(* A student is an id and a name; age and grade go the same way.           *)
(***************************************************************************)
EXTENDS Integers, Sequences

CONSTANTS
    Names,
    MaxId, MaxCalls     \* bounds

ASSUME StudentsAssumption == MaxId \in Nat /\ MaxCalls \in Nat

VARIABLES
    table, nextId,   \* the students table and its AUTOINCREMENT
    opened,          \* _database is set
    awaiting,        \* calls that await the opening of the database, in order
    sent,            \* statements sqflite has still to run, in order
    page,            \* StudentPage is on the navigator
    dialog,          \* its Add Student dialog is open
    students,        \* the page's list
    missed,          \* the page's latest query has failed (auxiliary)
    overtook         \* the page was opened past waiting calls (auxiliary)

vars == <<table, nextId, opened, awaiting, sent, page, dialog, students, missed, overtook>>

Student == [id : Nat \ {0}, name : Names]

(* A call: what it asks for, whether the page on the navigator made it,    *)
(* and the name to insert or the id to delete.                             *)
Query == [kind |-> "query", mine |-> TRUE, arg |-> 0]
Insert(n) == [kind |-> "insert", mine |-> TRUE, arg |-> n]
Delete(i) == [kind |-> "delete", mine |-> TRUE, arg |-> i]

(* The calls in q after their page was closed. *)
Orphaned(q) ==
    [i \in DOMAIN q |-> [kind |-> q[i].kind, mine |-> FALSE, arg |-> q[i].arg]]

(* Bound: at most MaxCalls calls are under way. *)
Room == Len(awaiting) + Len(sent) < MaxCalls

-----------------------------------------------------------------------------
Init ==
    /\ table = {} /\ nextId = 1
    /\ opened = FALSE /\ awaiting = <<>> /\ sent = <<>>
    /\ page = FALSE /\ dialog = FALSE /\ students = {}
    /\ missed = FALSE /\ overtook = FALSE

(* Mutant: the connection is taken for open before it is. *)
IssueNoWait(call) == sent' = Append(sent, call) /\ UNCHANGED awaiting

(* A repository method, up to its first await: the database getter. *)
Issue(call) ==
    IF opened THEN sent' = Append(sent, call) /\ UNCHANGED awaiting
              ELSE awaiting' = Append(awaiting, call) /\ UNCHANGED sent

(* Mutant: initState does not load. *)
OpenPageUnloaded ==
    /\ ~page /\ Room
    /\ page' = TRUE /\ students' = {}
    /\ missed' = FALSE
    /\ overtook' = (opened /\ awaiting # <<>>)
    /\ UNCHANGED <<table, nextId, opened, awaiting, sent, dialog>>

(* The page: initState loads. *)
OpenPage ==
    /\ ~page /\ Room
    /\ page' = TRUE /\ students' = {}
    /\ missed' = FALSE
    /\ overtook' = (opened /\ awaiting # <<>>)
    /\ Issue(Query)
    /\ UNCHANGED <<table, nextId, opened, dialog>>

ClosePage ==
    /\ page /\ ~dialog
    /\ page' = FALSE
    /\ awaiting' = Orphaned(awaiting) /\ sent' = Orphaned(sent)
    /\ UNCHANGED <<table, nextId, opened, dialog, students, missed, overtook>>

(* The floating button, and a tap beside the dialog or back. *)
OpenDialog ==
    /\ page /\ ~dialog
    /\ dialog' = TRUE
    /\ UNCHANGED <<table, nextId, opened, awaiting, sent, page, students, missed, overtook>>

DismissDialog ==
    /\ dialog
    /\ dialog' = FALSE
    /\ UNCHANGED <<table, nextId, opened, awaiting, sent, page, students, missed, overtook>>

(* Save: addStudent, then the dialog is popped.  An age that int.parse     *)
(* refuses makes addStudent throw before the insert; to the page that is   *)
(* DismissDialog.                                                          *)
AddStudent(n) ==
    /\ dialog /\ Room
    /\ dialog' = FALSE
    /\ Issue(Insert(n))
    /\ UNCHANGED <<table, nextId, opened, page, students, missed, overtook>>

(* The delete button of a row; a row already deleted may still be shown. *)
DeleteStudent(s) ==
    /\ page /\ ~dialog /\ s \in students /\ Room
    /\ Issue(Delete(s.id))
    /\ UNCHANGED <<table, nextId, opened, page, dialog, students, missed, overtook>>

-----------------------------------------------------------------------------
(* The connection. *)

(* openDatabase answers the first of the waiting calls; _createDB has run. *)
OpenDone ==
    /\ ~opened /\ awaiting # <<>>
    /\ opened' = TRUE
    /\ UNCHANGED <<table, nextId, awaiting, sent, page, dialog, students, missed, overtook>>

(* openDatabase fails for the first waiting call: an exception nobody      *)
(* catches, and _database stays null.                                      *)
OpenFails ==
    /\ ~opened /\ awaiting # <<>>
    /\ awaiting' = Tail(awaiting)
    /\ missed' = (missed \/ (Head(awaiting).kind = "query" /\ Head(awaiting).mine))
    /\ UNCHANGED <<table, nextId, opened, sent, page, dialog, students, overtook>>

(* The oldest waiting call resumes and sends its statement. *)
Resume ==
    /\ opened /\ awaiting # <<>>
    /\ sent' = Append(sent, Head(awaiting))
    /\ awaiting' = Tail(awaiting)
    /\ UNCHANGED <<table, nextId, opened, page, dialog, students, missed, overtook>>

-----------------------------------------------------------------------------
(* Statements and their continuations. *)

Running(kind) == sent # <<>> /\ Head(sent).kind = kind

(* getAll and the end of load; on a disposed page setState throws. *)
RunQuery ==
    /\ Running("query")
    /\ IF Head(sent).mine THEN students' = table /\ missed' = FALSE
                          ELSE UNCHANGED <<students, missed>>
    /\ sent' = Tail(sent)
    /\ UNCHANGED <<table, nextId, opened, awaiting, page, dialog, overtook>>

(* The load that follows a write; that of a closed page reaches nobody. *)
LoadAfter(call) == Append(Tail(sent), [kind |-> "query", mine |-> call.mine, arg |-> 0])

(* Mutant: addStudent does not load. *)
RunInsertNoLoad ==
    /\ Running("insert") /\ nextId <= MaxId
    /\ table' = table \cup {[id |-> nextId, name |-> Head(sent).arg]}
    /\ nextId' = nextId + 1
    /\ sent' = Tail(sent)
    /\ UNCHANGED <<opened, awaiting, page, dialog, students, missed, overtook>>

(* insert, then load.  Bound: at most MaxId rows are ever inserted. *)
RunInsert ==
    /\ Running("insert") /\ nextId <= MaxId
    /\ table' = table \cup {[id |-> nextId, name |-> Head(sent).arg]}
    /\ nextId' = nextId + 1
    /\ sent' = LoadAfter(Head(sent))
    /\ UNCHANGED <<opened, awaiting, page, dialog, students, missed, overtook>>

(* delete, of a row that may be gone already, then load. *)
RunDelete ==
    /\ Running("delete")
    /\ table' = {s \in table : s.id # Head(sent).arg}
    /\ sent' = LoadAfter(Head(sent))
    /\ UNCHANGED <<nextId, opened, awaiting, page, dialog, students, missed, overtook>>

(* The statement fails; nobody catches the exception and nothing follows. *)
RunFails ==
    /\ sent # <<>>
    /\ sent' = Tail(sent)
    /\ missed' = (missed \/ (Head(sent).kind = "query" /\ Head(sent).mine))
    /\ UNCHANGED <<table, nextId, opened, awaiting, page, dialog, students, overtook>>

(* The process ends: the calls under way are gone, the table stays. *)
Kill ==
    /\ opened' = FALSE /\ awaiting' = <<>> /\ sent' = <<>>
    /\ page' = FALSE /\ dialog' = FALSE /\ students' = {}
    /\ missed' = FALSE /\ overtook' = FALSE
    /\ UNCHANGED <<table, nextId>>

Next ==
    \/ OpenPage \/ ClosePage \/ OpenDialog \/ DismissDialog
    \/ \E n \in Names : AddStudent(n)
    \/ \E s \in students : DeleteStudent(s)
    \/ OpenDone \/ OpenFails \/ Resume
    \/ RunQuery \/ RunInsert \/ RunDelete \/ RunFails
    \/ Kill

Spec == Init /\ [][Next]_vars

-----------------------------------------------------------------------------
(* Properties *)

Call ==
    [kind : {"query", "delete"}, mine : BOOLEAN, arg : Nat]
    \cup [kind : {"insert"}, mine : BOOLEAN, arg : Names]

(* Type correctness; ids are never used twice, and nothing is sent before  *)
(* the database is open.                                                   *)
TypeOK ==
    /\ table \subseteq Student /\ students \subseteq Student
    /\ nextId \in Nat \ {0}
    /\ \A s \in table : s.id < nextId
    /\ opened \in BOOLEAN /\ page \in BOOLEAN /\ dialog \in BOOLEAN
    /\ missed \in BOOLEAN /\ overtook \in BOOLEAN
    /\ awaiting \in Seq(Call) /\ sent \in Seq(Call)
    /\ ~opened => sent = <<>>

(* When nothing is under way the page shows the table: each of any number  *)
(* of overlapping adds and deletes, of this page and of pages closed       *)
(* before it, is followed by a load of this page that sees it.  Excepted   *)
(* are a page whose latest load failed, which nobody repeats, and a page   *)
(* opened in the instant in which the connection is open and calls of an   *)
(* earlier page have not resumed: its load runs before their writes.       *)
ListFresh ==
    page /\ ~missed /\ ~overtook /\ awaiting = <<>> /\ sent = <<>>
        => students = table

(* At place i of q there is a query of the page on the navigator. *)
MyQuery(q, i) == q[i].kind = "query" /\ q[i].mine
Awaited(q) == \E i \in DOMAIN q : MyQuery(q, i)

(* Behind every write of an earlier page in q there is such a query. *)
Foreign(q, i) == q[i].kind # "query" /\ ~q[i].mine
Covered(q) ==
    \A i \in DOMAIN q : Foreign(q, i) => \E j \in DOMAIN q : i < j /\ MyQuery(q, j)

(* Why ListFresh holds.  A list that differs from the table has a query of *)
(* its page under way, and every write of an earlier page will be followed *)
(* by one, in the same queue or from among the calls still waiting.        *)
LoadsFollowWrites ==
    page /\ ~overtook =>
        /\ missed \/ students = table \/ Awaited(sent) \/ Awaited(awaiting)
        /\ Awaited(awaiting) \/ Covered(sent)
        /\ Covered(awaiting)
=============================================================================
