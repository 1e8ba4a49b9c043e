--------------------------------- MODULE Hisabi --------------------------------
(***************************************************************************)
(* The product manager (lib/hisabi): the products table behind             *)
(* DatabaseHelper, the product list screen and the add/edit page on top of *)
(* it.                                                                     *)
(*                                                                         *)
(* sqflite runs the statements of the one open database in the order they  *)
(* were issued; no transaction is used, so every insert and update is two  *)
(* statements (look for the barcode, then write) between which others run. *)
(* Any of them may fail: a constraint of the table (a price of NaN passes   *)
(* the form and is NULL to SQLite), or an error of the database.           *)
(* A page the user closes does not stop its statements, and stays mounted  *)
(* until its exit animation ends: a submit that succeeds in that time calls *)
(* Navigator.pop, which takes away whatever screen is then on top.  So does *)
(* a barcode the camera reports while the scanner dialog is closing.       *)
(*                                                                         *)
(* A product is its barcode, its category and its createdAt.  The form's   *)
(* text fields are the user's choice at the moment of submitting.          *)
(***************************************************************************)
EXTENDS Integers, Sequences

CONSTANTS
    Barcodes, Categories,
    Queries, Chips,                    \* what users type in the list's search field, and
                                       \* the category chips they tap
    None,                              \* Dart's null
    MaxSubmits, MaxScreens, MaxQueue,  \* bounds
    MaxScanners                        \* bound: scanner dialogs alive, 0 or 1

ASSUME HisabiAssumption ==
    /\ None \notin Categories /\ None \notin Barcodes /\ None \notin Int
    /\ Queries \subseteq Barcodes /\ Chips \subseteq Categories
    /\ MaxSubmits \in Nat /\ MaxScreens \in Nat /\ MaxQueue \in Nat
    /\ MaxScanners \in {0, 1}

VARIABLES
    table,     \* the rows of products
    nextId,    \* AUTOINCREMENT
    now,       \* DateTime.now(), advanced by every submit
    queue,     \* statements issued and not yet run, each with its continuation
    home,      \* the Hisabi screen is on the navigator stack
    list,      \* the ProductsListScreen
    page,      \* the AddProductScreen
    exiting,   \* closed pages whose exit animation still runs
    scanner,   \* the BarcodeScannerDialog and the page it belongs to
    born,      \* createdAt each id was inserted with (auxiliary)
    searched,  \* ids edited after a search instead of from the list (auxiliary)
    left,      \* a page was closed while its submit ran (auxiliary)
    late       \* a barcode was reported to a closing dialog (auxiliary)

vars == <<table, nextId, now, queue, home, list, page, exiting, scanner,
          born, searched, left, late>>

Row == [id : Nat \ {0}, barcode : Barcodes, category : Categories, createdAt : Nat]

Closed == [open |-> FALSE, no |-> 0]

-----------------------------------------------------------------------------
(* The table: the statements DatabaseHelper issues. *)

HasBarcode(t, b) == \E r \in t : r.barcode = b

(* Another row than id has barcode b. *)
BarcodeTaken(t, b, id) == \E r \in t : r.barcode = b /\ r.id # id

AllCategories(t) == {r.category : r \in t}

(* UPDATE ... WHERE id = ?: no row, no change, no error. *)
Updated(t, p) == {IF r.id = p.id THEN p ELSE r : r \in t}

-----------------------------------------------------------------------------
(* The list screen's own computations. *)

(* _filterProducts. *)
Matching(rows, query, selected) ==
    {r \in rows : /\ query = None \/ r.barcode = query
                  /\ selected = None \/ r.category = selected}

(* _loadData, up to its first await: sends the query for all products.  On *)
(* a disposed list setState throws, is caught, and nothing is sent.        *)
Loading(l) == IF l.open THEN [l EXCEPT !.loading = TRUE] ELSE l
AllQuery(l) == IF l.open THEN <<[kind |-> "all", no |-> l.no]>> ELSE <<>>

NewList(n) ==
    [open |-> TRUE, no |-> n, products |-> {}, filtered |-> {}, categories |-> {},
     query |-> None, selected |-> None, loading |-> TRUE,
     asking |-> None,           \* the product its delete dialog asks about
     missed |-> "nothing"]      \* what the last load did not get (auxiliary)

(* initState of the page, with or without a product to edit. *)
NewPage(n, toEdit) ==
    [open |-> TRUE, no |-> n, toEdit |-> toEdit, loading |-> FALSE,
     editMode |-> toEdit # None,
     currentId |-> IF toEdit = None THEN None ELSE toEdit.id]

Mounted(n) == (page.open /\ page.no = n) \/ n \in exiting

(* A screen's identity; bound: at most MaxScreens are alive or awaited.    *)
FreeNo == (1 .. MaxScreens) \ ({list.no, page.no, scanner.no} \cup exiting
                               \cup {queue[i].no : i \in DOMAIN queue})
NewNo == CHOOSE n \in FreeNo : \A m \in FreeNo : n <= m

(* The user can reach a screen when nothing lies on it. *)
OnHome == home /\ ~list.open /\ ~page.open
OnDialog == list.open /\ list.asking # None /\ ~page.open
OnList == list.open /\ list.asking = None /\ ~page.open
OnPage == page.open /\ ~scanner.open

(* The filter row and the cards are there while the list is not loading;   *)
(* every card carries its Edit and Delete buttons.                         *)
RowsShown == OnList /\ ~list.loading
CardShown(r) == RowsShown /\ r \in list.filtered

(* The page's buttons: disabled while _isLoading, Search only when adding, *)
(* Cancel only when editing.                                               *)
SubmitEnabled == OnPage /\ ~page.loading
SearchEnabled == OnPage /\ ~page.loading /\ ~page.editMode
CancelEnabled == OnPage /\ ~page.loading /\ page.editMode

Room(n) == Len(queue) + n <= MaxQueue

-----------------------------------------------------------------------------
Init ==
    /\ table = {} /\ nextId = 1 /\ now = 1 /\ queue = <<>>
    /\ home = TRUE /\ list = Closed /\ page = Closed
    /\ exiting = {} /\ scanner = Closed
    /\ born = <<>> /\ searched = {} /\ left = FALSE /\ late = FALSE

database == <<table, nextId, born, searched>>
dialog == <<scanner, late>>

(* The Hisabi screen is left for the app's home page, and opened again. *)
LeaveHisabi ==
    /\ OnHome
    /\ home' = FALSE
    /\ UNCHANGED <<database, now, queue, list, page, exiting, left, dialog>>

EnterHisabi ==
    /\ ~home /\ ~list.open /\ ~page.open
    /\ home' = TRUE
    /\ UNCHANGED <<database, now, queue, list, page, exiting, left, dialog>>

(* The two buttons of the Hisabi screen, and a card's Edit button. *)
OpenAddPage ==
    /\ OnHome /\ FreeNo # {}
    /\ page' = NewPage(NewNo, None)
    /\ UNCHANGED <<database, now, queue, home, list, exiting, left, dialog>>

OpenList ==
    /\ OnHome /\ FreeNo # {} /\ Room(1)
    /\ list' = NewList(NewNo)
    /\ queue' = queue \o AllQuery(list')
    /\ UNCHANGED <<database, now, home, page, exiting, left, dialog>>

EditProduct(r) ==
    /\ CardShown(r) /\ FreeNo # {}
    /\ page' = NewPage(NewNo, r)
    /\ UNCHANGED <<database, now, queue, home, list, exiting, left, dialog>>

CloseList ==
    /\ OnList
    /\ list' = Closed
    /\ UNCHANGED <<database, now, queue, home, page, exiting, left, dialog>>

(* The close button, or back: the page leaves without a result. *)
ClosePage ==
    /\ OnPage
    /\ page' = Closed
    /\ exiting' = exiting \cup {page.no}
    /\ left' = (left \/ page.loading)
    /\ UNCHANGED <<database, now, queue, home, list, dialog>>

(* The exit animation ends and the page is disposed. *)
ExitEnds(n) ==
    /\ n \in exiting
    /\ exiting' = exiting \ {n}
    /\ UNCHANGED <<database, now, queue, home, list, page, left, dialog>>

-----------------------------------------------------------------------------
(* The list screen's handlers. *)

(* The search field, its clear button and the category chips: each sets    *)
(* its part of the filter and calls _filterProducts.                       *)
Filter(query, selected) ==
    /\ RowsShown
    /\ query # list.query \/ selected # list.selected
    /\ query = list.query \/ selected = list.selected
    /\ selected \in list.categories \cup {None, list.selected}
    /\ list' = [list EXCEPT !.query = query, !.selected = selected,
                            !.filtered = Matching(list.products, query, selected)]
    /\ UNCHANGED <<database, now, queue, home, page, exiting, left, dialog>>

(* The refresh button; it stays enabled while a load is running. *)
Refresh ==
    /\ OnList /\ Room(1)
    /\ list' = Loading(list)
    /\ queue' = queue \o AllQuery(list)
    /\ UNCHANGED <<database, now, home, page, exiting, left, dialog>>

(* _deleteProduct asks, and goes on only when the dialog is answered. *)
DeleteProduct(r) ==
    /\ CardShown(r)
    /\ list' = [list EXCEPT !.asking = r.id]
    /\ UNCHANGED <<database, now, queue, home, page, exiting, left, dialog>>

(* Cancel, a tap beside the dialog, or back. *)
CancelDelete ==
    /\ OnDialog
    /\ list' = [list EXCEPT !.asking = None]
    /\ UNCHANGED <<database, now, queue, home, page, exiting, left, dialog>>

(* The deletion that follows when the dialog returns true. *)
Deletion == [kind |-> "delete", no |-> list.no, id |-> list.asking]

ConfirmDelete ==
    /\ OnDialog /\ Room(1)
    /\ list' = [list EXCEPT !.asking = None]
    /\ queue' = Append(queue, Deletion)
    /\ UNCHANGED <<database, now, home, page, exiting, left, dialog>>

-----------------------------------------------------------------------------
(* The page's handlers. *)

SearchProductById(id) ==
    /\ SearchEnabled /\ Room(1)
    /\ page' = [page EXCEPT !.loading = TRUE]
    /\ queue' = Append(queue, [kind |-> "search", no |-> page.no, id |-> id])
    /\ UNCHANGED <<database, now, home, list, exiting, left, dialog>>

(* Mutant: _clearForm forgets _currentProductId. *)
ClearFormKeepsId ==
    /\ CancelEnabled
    /\ page' = [page EXCEPT !.editMode = FALSE]
    /\ UNCHANGED <<database, now, queue, home, list, exiting, left, dialog>>

ClearForm ==
    /\ CancelEnabled
    /\ page' = [page EXCEPT !.editMode = FALSE, !.currentId = None]
    /\ UNCHANGED <<database, now, queue, home, list, exiting, left, dialog>>

(* Mutant: every submit is a creation. *)
FormProductNew(b, c) ==
    [id |-> IF page.editMode THEN page.currentId ELSE None,
     barcode |-> b, category |-> c, createdAt |-> now]

(* The product _submitForm builds: in edit mode createdAt is that of the   *)
(* product the page was opened with, if any, whichever product it edits.   *)
FormProduct(b, c) ==
    [id        |-> IF page.editMode THEN page.currentId ELSE None,
     barcode   |-> b,
     category  |-> c,
     createdAt |-> IF page.editMode /\ page.toEdit # None
                   THEN page.toEdit.createdAt ELSE now]

(* _submitForm up to the first await in insertProduct or updateProduct. *)
SubmitForm(b, c) ==
    /\ SubmitEnabled /\ Room(1) /\ now <= MaxSubmits
    /\ now' = now + 1
    /\ page' = [page EXCEPT !.loading = TRUE]
    /\ queue' = Append(queue,
          [kind |-> IF page.editMode THEN "updateCheck" ELSE "insertCheck",
           no |-> page.no, row |-> FormProduct(b, c),
           own |-> page.toEdit # None /\ page.toEdit.id = page.currentId])
    /\ UNCHANGED <<database, home, list, exiting, left, dialog>>

-----------------------------------------------------------------------------
(* The scanner dialog over the page. *)

ScanBarcode ==
    /\ SubmitEnabled /\ scanner = Closed /\ MaxScanners > 0
    /\ scanner' = [open |-> TRUE, no |-> page.no]
    /\ UNCHANGED <<database, now, queue, home, list, page, exiting, left, late>>

CloseScanner ==
    /\ scanner.open
    /\ scanner' = [scanner EXCEPT !.open = FALSE]
    /\ UNCHANGED <<database, now, queue, home, list, page, exiting, left, late>>

(* The exit animation ends; the camera's controller is disposed. *)
ScannerDisposed ==
    /\ scanner.no # 0 /\ ~scanner.open
    /\ scanner' = Closed
    /\ UNCHANGED <<database, now, queue, home, list, page, exiting, left, late>>

(* _checkBarcodeExists, whose answer is at most a message. *)
Lookup == [kind |-> "lookup", no |-> scanner.no]

(* Mutant: every barcode in the picture pops, here two of them. *)
BarcodeDetectedTwice ==
    /\ scanner.open /\ Room(1)
    /\ queue' = Append(queue, Lookup)
    /\ scanner' = [scanner EXCEPT !.open = FALSE]
    /\ page' = Closed /\ exiting' = exiting \cup {page.no}
    /\ UNCHANGED <<database, now, list, home, left, late>>

(* onDetect: the page takes the barcode and looks it up, and the screen on *)
(* top is popped, without a result: the dialog, or once that is closing    *)
(* what lies below.  A disposed page throws before the pop.                *)
BarcodeDetected ==
    /\ scanner.no # 0 /\ Mounted(scanner.no) /\ Room(1)
    /\ queue' = Append(queue, Lookup)
    /\ late' = (late \/ ~scanner.open)
    /\ \/ /\ scanner.open
          /\ scanner' = [scanner EXCEPT !.open = FALSE]
          /\ UNCHANGED <<page, exiting, left, list, home>>
       \/ /\ OnPage
          /\ page' = Closed /\ exiting' = exiting \cup {page.no}
          /\ left' = (left \/ page.loading)
          /\ UNCHANGED <<scanner, list, home>>
       \/ /\ OnDialog
          /\ list' = [list EXCEPT !.asking = None]
          /\ UNCHANGED <<scanner, page, exiting, left, home>>
       \/ /\ OnList
          /\ list' = Closed
          /\ UNCHANGED <<scanner, page, exiting, left, home>>
       \/ /\ ~page.open /\ ~list.open
          /\ home' = FALSE
          /\ UNCHANGED <<scanner, page, exiting, left, list>>
    /\ UNCHANGED <<database, now>>

-----------------------------------------------------------------------------
(* The statements run, oldest first, and their continuations. *)

Running(kind) == queue # <<>> /\ Head(queue).kind = kind

(* Navigator.pop(context, true) at the end of _submitForm: the screen on   *)
(* top goes.  Under a page lies the list that pushed it, which reloads; a  *)
(* delete dialog takes the result for the user's answer.                   *)
PopTop(rest) ==
    \/ /\ scanner.open
       /\ scanner' = [scanner EXCEPT !.open = FALSE]
       /\ queue' = rest
       /\ UNCHANGED <<page, exiting, list, home>>
    \/ /\ OnPage
       /\ page' = Closed
       /\ exiting' = exiting \cup {page.no}
       /\ list' = Loading(list)
       /\ queue' = rest \o AllQuery(list)
       /\ UNCHANGED <<home, scanner>>
    \/ /\ OnDialog
       /\ list' = [list EXCEPT !.asking = None]
       /\ queue' = Append(rest, Deletion)
       /\ UNCHANGED <<page, exiting, home, scanner>>
    \/ /\ OnList
       /\ list' = Closed
       /\ queue' = rest
       /\ UNCHANGED <<page, exiting, home, scanner>>
    \/ /\ ~page.open /\ ~list.open
       /\ home' = FALSE
       /\ queue' = rest
       /\ UNCHANGED <<page, exiting, list, scanner>>

(* The submit has succeeded; on a disposed page the pop throws and the     *)
(* exception is swallowed.                                                 *)
SubmitSucceeds(op, rest) ==
    IF Mounted(op.no) THEN PopTop(rest)
    ELSE queue' = rest /\ UNCHANGED <<page, exiting, list, home, scanner>>

(* The finally block of a submit or a search that leaves the page open. *)
NoLongerLoading(op) ==
    IF page.open /\ page.no = op.no THEN [page EXCEPT !.loading = FALSE] ELSE page

(* Mutant: no finally block. *)
SubmitFailsBusy(op, rest) == queue' = rest /\ UNCHANGED <<page, exiting, list, home, scanner>>

SubmitFails(op, rest) ==
    /\ page' = NoLongerLoading(op)
    /\ queue' = rest
    /\ UNCHANGED <<exiting, list, home, scanner>>

(* insertProduct: SELECT by barcode; then the INSERT is sent.  Here and in *)
(* the three statements that follow, a submit fails for a barcode in use   *)
(* or for any other error of its statement.                                *)
RunInsertCheck ==
    /\ Running("insertCheck")
    /\ LET op == Head(queue)
       IN  \/ SubmitFails(op, Tail(queue))
           \/ /\ ~HasBarcode(table, op.row.barcode)
              /\ queue' = Append(Tail(queue), [op EXCEPT !.kind = "insert"])
              /\ UNCHANGED <<page, exiting, list, home, scanner>>
    /\ UNCHANGED <<database, now, left, late>>

(* Mutant: barcode is not UNIQUE in the schema. *)
RunInsertNoIndex ==
    /\ Running("insert")
    /\ table' = table \cup {[Head(queue).row EXCEPT !.id = nextId]}
    /\ nextId' = nextId + 1
    /\ born' = Append(born, Head(queue).row.createdAt)
    /\ SubmitSucceeds(Head(queue), Tail(queue))
    /\ UNCHANGED <<now, left, late, searched>>

(* insertProduct: INSERT, under the UNIQUE index. *)
RunInsert ==
    /\ Running("insert")
    /\ LET op == Head(queue)
       IN  \/ SubmitFails(op, Tail(queue)) /\ UNCHANGED database
           \/ /\ ~HasBarcode(table, op.row.barcode)
              /\ table' = table \cup {[op.row EXCEPT !.id = nextId]}
              /\ nextId' = nextId + 1
              /\ born' = Append(born, op.row.createdAt)
              /\ UNCHANGED searched
              /\ SubmitSucceeds(op, Tail(queue))
    /\ UNCHANGED <<now, left, late>>

(* updateProduct: SELECT of another row with the barcode. *)
RunUpdateCheck ==
    /\ Running("updateCheck")
    /\ LET op == Head(queue)
       IN  \/ SubmitFails(op, Tail(queue))
           \/ /\ ~BarcodeTaken(table, op.row.barcode, op.row.id)
              /\ queue' = Append(Tail(queue), [op EXCEPT !.kind = "update"])
              /\ UNCHANGED <<page, exiting, list, home, scanner>>
    /\ UNCHANGED <<database, now, left, late>>

(* Mutant: the UPDATE is an INSERT OR REPLACE. *)
RunUpdateReplaces ==
    /\ Running("update")
    /\ LET op == Head(queue)
       IN  \/ SubmitFails(op, Tail(queue)) /\ UNCHANGED database
           \/ /\ ~BarcodeTaken(table, op.row.barcode, op.row.id)
              /\ table' = {r \in table : r.id # op.row.id} \cup {op.row}
              /\ UNCHANGED <<nextId, born, searched>>
              /\ SubmitSucceeds(op, Tail(queue))
    /\ UNCHANGED <<now, left, late>>

(* updateProduct: UPDATE, under the UNIQUE index; a row that is gone is    *)
(* not noticed.                                                            *)
RunUpdate ==
    /\ Running("update")
    /\ LET op == Head(queue)
           hit == \E r \in table : r.id = op.row.id
       IN  \/ SubmitFails(op, Tail(queue)) /\ UNCHANGED database
           \/ /\ ~hit \/ ~BarcodeTaken(table, op.row.barcode, op.row.id)
              /\ table' = Updated(table, op.row)
              /\ searched' = IF hit /\ ~op.own THEN searched \cup {op.row.id}
                                                ELSE searched
              /\ UNCHANGED <<nextId, born>>
              /\ SubmitSucceeds(op, Tail(queue))
    /\ UNCHANGED <<now, left, late>>

(* The open list waits for op. *)
Awaits(op) == list.open /\ list.no = op.no

(* Mutant: the list is not loaded again. *)
RunDeleteNoReload ==
    /\ Running("delete")
    /\ table' = {r \in table : r.id # Head(queue).id}
    /\ queue' = Tail(queue)
    /\ UNCHANGED <<nextId, born, searched, now, home, list, page, exiting, left, dialog>>

(* deleteProduct, after which _deleteProduct reloads its list; when it     *)
(* fails there is a message and no load.                                   *)
RunDelete ==
    /\ Running("delete")
    /\ LET op == Head(queue)
       IN  \/ queue' = Tail(queue) /\ UNCHANGED <<table, list>>
           \/ /\ table' = {r \in table : r.id # op.id}
              /\ list' = IF Awaits(op) THEN Loading(list) ELSE list
              /\ queue' = Tail(queue) \o (IF Awaits(op) THEN AllQuery(list) ELSE <<>>)
    /\ UNCHANGED <<nextId, born, searched, now, home, page, exiting, left, dialog>>

(* _loadData catches the exception of getAllProducts: the list keeps what  *)
(* it had.                                                                 *)
LoadFails(op) ==
    IF Awaits(op) THEN [list EXCEPT !.loading = FALSE, !.missed = "products"] ELSE list

(* getAllProducts, after which _loadData asks for the categories. *)
RunAll ==
    /\ Running("all")
    /\ LET op == Head(queue)
       IN  \/ list' = LoadFails(op) /\ queue' = Tail(queue)
           \/ /\ queue' = Append(Tail(queue),
                             [kind |-> "categories", no |-> op.no, rows |-> table])
              /\ UNCHANGED list
    /\ UNCHANGED <<database, now, home, page, exiting, left, dialog>>

(* Mutant: the shown products stay those of the last filter. *)
LoadedKeepsShown(op, categories, missed) ==
    IF Awaits(op)
    THEN [list EXCEPT !.products = op.rows, !.categories = categories,
                      !.loading = FALSE, !.missed = missed]
    ELSE list

(* The rest of _loadData: the filter is not applied. *)
Loaded(op, categories, missed) ==
    IF Awaits(op)
    THEN [list EXCEPT !.products = op.rows, !.filtered = op.rows,
                      !.categories = categories,
                      !.loading = FALSE, !.missed = missed]
    ELSE list

(* getAllCategories, which answers an error with no categories. *)
RunCategories ==
    /\ Running("categories")
    /\ \/ list' = Loaded(Head(queue), AllCategories(table), "nothing")
       \/ list' = Loaded(Head(queue), {}, "categories")
    /\ queue' = Tail(queue)
    /\ UNCHANGED <<database, now, home, page, exiting, left, dialog>>

(* getProductById and the rest of _searchProductById; not found and failed *)
(* differ in the message only.                                             *)
RunSearch ==
    /\ Running("search")
    /\ LET op == Head(queue)
           found == \E r \in table : r.id = op.id
           done == NoLongerLoading(op)
       IN  \/ page' = done
           \/ /\ page.open /\ page.no = op.no /\ found
              /\ page' = [done EXCEPT !.editMode = TRUE, !.currentId = op.id]
    /\ queue' = Tail(queue)
    /\ UNCHANGED <<database, now, home, list, exiting, left, dialog>>

(* getProductByBarcode for the scanner: whatever comes is a message. *)
RunLookup ==
    /\ Running("lookup")
    /\ queue' = Tail(queue)
    /\ UNCHANGED <<database, now, home, list, page, exiting, left, dialog>>

RunStatement ==
    \/ RunInsertCheck \/ RunInsert \/ RunUpdateCheck \/ RunUpdate
    \/ RunDelete \/ RunAll \/ RunCategories \/ RunSearch \/ RunLookup

Next ==
    \/ LeaveHisabi \/ EnterHisabi \/ OpenAddPage \/ OpenList
    \/ \E r \in (IF list.open THEN list.filtered ELSE {}) :
          EditProduct(r) \/ DeleteProduct(r)
    \/ CancelDelete \/ ConfirmDelete
    \/ CloseList \/ ClosePage
    \/ \E n \in exiting : ExitEnds(n)
    \/ \E q \in Queries \cup {None}, s \in Chips \cup {None} : Filter(q, s)
    \/ Refresh
    \/ \E id \in 1 .. MaxSubmits : SearchProductById(id)
    \/ ClearForm
    \/ ScanBarcode \/ CloseScanner \/ ScannerDisposed \/ BarcodeDetected
    \/ \E b \in Barcodes, c \in Categories : SubmitForm(b, c)
    \/ RunStatement

Spec == Init /\ [][Next]_vars

(* The database runs what it was given. *)
FairSpec == Spec /\ WF_vars(RunStatement)

-----------------------------------------------------------------------------
(* Properties *)

(* Type correctness; an open dialog lies over the page it belongs to. *)
TypeOK ==
    /\ scanner \in [open : BOOLEAN, no : 0 .. MaxScreens] /\ late \in BOOLEAN
    /\ scanner.open => page.open /\ page.no = scanner.no
    /\ table \subseteq Row
    /\ nextId \in Nat \ {0} /\ now \in Nat /\ home \in BOOLEAN /\ left \in BOOLEAN
    /\ list.open =>
         /\ list.no \in 1 .. MaxScreens /\ list.products \subseteq Row
         /\ list.categories \subseteq Categories /\ list.loading \in BOOLEAN
         /\ list.query \in Barcodes \cup {None} /\ list.selected \in Categories \cup {None}
         /\ list.asking \in (Nat \ {0}) \cup {None}
         /\ list.missed \in {"nothing", "categories", "products"}
    /\ page.open =>
         /\ page.no \in 1 .. MaxScreens /\ page.loading \in BOOLEAN
         /\ page.toEdit \in Row \cup {None}
         /\ page.editMode <=> page.currentId # None
    /\ exiting \subseteq 1 .. MaxScreens
    /\ Len(born) = nextId - 1 /\ searched \subseteq 1 .. (nextId - 1)

(* No barcode and no id is stored twice.  The look-ups of insertProduct    *)
(* and updateProduct alone do not ensure it: two submits, one of a page    *)
(* already closed, both look before either writes.                         *)
BarcodesUnique ==
    \A r, s \in table : r.barcode = s.barcode \/ r.id = s.id => r = s

(* Editing keeps a product's creation time, however stale the list was     *)
(* that the edit started from; the exception are products edited after a   *)
(* search by id, which get the time of the edit or that of another product *)
(* (_submitForm looks at productToEdit and not at the product it loaded).  *)
CreatedAtKept ==
    \A r \in table : r.id \notin searched => r.createdAt = born[r.id]

(* When the database is idle the list is not loading and shows the table,  *)
(* unless the user has closed a page while its submit was running (its     *)
(* result never comes), or a load has failed since the last that did not:  *)
(* nobody repeats it, while a delete that fails leaves list and table in   *)
(* step.  A load whose second query failed shows the products without      *)
(* their categories.                                                       *)
ListFresh ==
    list.open /\ queue = <<>> /\ ~left =>
        /\ ~list.loading
        /\ list.missed # "products" =>
             /\ list.products = table
             /\ list.categories = IF list.missed = "categories" THEN {}
                                                               ELSE AllCategories(table)

(* What the list shows is either everything loaded or exactly what the     *)
(* current search text and chip select, never a mixture of an old filter   *)
(* and new products.                                                       *)
FilterMeaning ==
    list.open => list.filtered \in {list.products,
                    Matching(list.products, list.query, list.selected)}

(* As long as no page is closed with a submit running and no barcode comes *)
(* to a closing dialog, a finished submit takes its own page away, and a   *)
(* barcode its dialog: never another page, the list or the Hisabi screen,  *)
(* and no delete dialog is answered but by the user.                       *)
PopsOwnPage ==
    [][~left /\ ~late' =>
         /\ home /\ ~home' => LeaveHisabi
         /\ list.open /\ ~list'.open => CloseList
         /\ list.open /\ list'.open /\ list.asking # None /\ list'.asking = None
                => CancelDelete \/ ConfirmDelete
         /\ page.open /\ ~page'.open => ClosePage \/ (RunStatement /\ Head(queue).no = page.no)]_vars

(* The submits of the pages, from the tap to their last statement. *)
PendingSubmits ==
    LET submits == {i \in DOMAIN queue :
                       queue[i].kind \in {"insertCheck", "insert", "updateCheck", "update"}}
    IN {[no |-> queue[i].no, row |-> queue[i].row] : i \in submits}

Store == INSTANCE ProductStore WITH rows <- table, nextRow <- nextId, pending <- PendingSubmits

(* The two statements of a submit, among the statements of other screens,  *)
(* amount to one step of the store: stored at once, or refused without a   *)
(* trace.  An edit of a product deleted meanwhile, which the page reports  *)
(* as a success, stores nothing and brings nothing back.                   *)
ImplementsProductStore == Store!Spec

(* Every search and submit gives the page back to the user or closes it.   *)
PageFreed ==
    \A n \in 1 .. MaxScreens :
        page.open /\ page.no = n /\ page.loading
            ~> ~(page.open /\ page.no = n /\ page.loading)
=============================================================================
