------------------------------ MODULE HisabiProofs ------------------------------
(***************************************************************************)
(* TLAPS proofs for Hisabi: type correctness, the table's integrity        *)
(* (BarcodesUnique, CreatedAtKept), what the list shows (FilterMeaning,    *)
(* ListFresh), which screen a submit closes (PopsOwnPage), and that the    *)
(* two statements of a submit implement one step of ProductStore.          *)
(***************************************************************************)
EXTENDS Hisabi, WellFoundedInduction, TLAPS

-----------------------------------------------------------------------------
(* The inductive invariant. *)

SubmitKinds == {"insertCheck", "insert", "updateCheck", "update"}

(* The statements, by the data they carry. *)
Form == [id : (Nat \ {0}) \cup {None}, barcode : Barcodes, category : Categories, createdAt : Nat]
Screens == 1 .. MaxScreens
SubmitOp == [kind : SubmitKinds, no : Screens, row : Form, own : BOOLEAN]
IdOp == [kind : {"delete", "search"}, no : Screens, id : Nat \ {0}]
PlainOp == [kind : {"all", "lookup"}, no : Screens]
CategoriesOp == [kind : {"categories"}, no : Screens, rows : SUBSET Row]
Op == SubmitOp \cup IdOp \cup PlainOp \cup CategoriesOp

OpenedList ==
    [open : {TRUE}, no : Screens, products : SUBSET Row, filtered : SUBSET Row,
     categories : SUBSET Categories, query : Barcodes \cup {None},
     selected : Categories \cup {None}, loading : BOOLEAN,
     asking : (Nat \ {0}) \cup {None}, missed : {"nothing", "categories", "products"}]

OpenedPage ==
    [open : {TRUE}, no : Screens, toEdit : Row \cup {None}, loading : BOOLEAN,
     editMode : BOOLEAN, currentId : (Nat \ {0}) \cup {None}]

(* The types, with those of the statements in the queue. *)
DatabaseType ==
    /\ table \subseteq Row /\ nextId \in Nat \ {0} /\ \A r \in table : r.id < nextId
    /\ born \in Seq(Nat) /\ Len(born) = nextId - 1 /\ searched \subseteq 1 .. (nextId - 1)

QueueType == queue \in Seq(Op)

ScreensType ==
    /\ now \in Nat /\ home \in BOOLEAN /\ left \in BOOLEAN /\ late \in BOOLEAN
    /\ list \in OpenedList \cup {Closed}
    /\ page \in OpenedPage \cup {Closed}
    /\ page.open => (page.editMode <=> page.currentId # None)
    /\ exiting \subseteq Screens
    /\ scanner \in [open : BOOLEAN, no : 0 .. MaxScreens]
    /\ scanner.open => page.open /\ page.no = scanner.no

HisabiType == DatabaseType /\ QueueType /\ ScreensType

(* A row as it was read from the table at some time before the numbers     *)
(* given reached n: its createdAt is the one it was inserted with (b),     *)
(* unless it was edited after a search (s).                                *)
Genuine(r, n, s, b) ==
    /\ r \in Row /\ r.id < n
    /\ r.id \in s \/ r.createdAt = b[r.id]

OpGenuine(op, n, s, b) ==
    /\ op.kind \in {"insertCheck", "insert"} => op.row.id = None
    /\ op.kind \in {"updateCheck", "update"} =>
          op.row.id # None /\ (op.own => Genuine(op.row, n, s, b))
    /\ op.kind = "categories" => \A r \in op.rows : Genuine(r, n, s, b)

(* Every row the table, the screens and the statements hold is genuine, an *)
(* insert has no id yet and an update has one.                             *)
RowsGenuine ==
    /\ \A r \in table : Genuine(r, nextId, searched, born)
    /\ list.open => \A r \in list.products : Genuine(r, nextId, searched, born)
    /\ page.open /\ page.toEdit # None => Genuine(page.toEdit, nextId, searched, born)
    /\ \A i \in DOMAIN queue : OpGenuine(queue[i], nextId, searched, born)

(* A page waits for one statement at a time, and is loading while it does. *)
PageOp(op) == op.kind \in SubmitKinds \cup {"search"}

OnePerPage(q) ==
    \A i, j \in DOMAIN q : PageOp(q[i]) /\ PageOp(q[j]) /\ q[i].no = q[j].no => i = j

PageWaits ==
    /\ OnePerPage(queue)
    /\ page.open => \A i \in DOMAIN queue :
          PageOp(queue[i]) /\ queue[i].no = page.no => page.loading

(* While no page was closed with its submit running, the page of every     *)
(* submit is open with nothing on it.                                      *)
SubmitterOpen ==
    ~left => \A i \in DOMAIN queue : queue[i].kind \in SubmitKinds =>
        page.open /\ page.no = queue[i].no

ScannerIdle == scanner.open => ~page.loading

(* The list: either it shows the table, or what a load that failed left,   *)
(* and nothing is being loaded for it; or the last load under way for it,  *)
(* if it does not fail, ends with what the table has now; and              *)
(* a deletion that an earlier list asked for is still ahead of every load  *)
(* of this one.                                                            *)
LoadOp(op, n) == op.no = n /\ op.kind \in {"all", "categories"}

LoadEnds(q, t, n) ==
    \E k \in DOMAIN q :
        /\ LoadOp(q[k], n) /\ (q[k].kind = "categories" => q[k].rows = t)
        /\ \A j \in DOMAIN q : k < j => ~LoadOp(q[j], n)

NoLoad(q, n) == \A j \in DOMAIN q : ~LoadOp(q[j], n)

DeletesFirst(q, n) ==
    \A i \in DOMAIN q : q[i].kind = "delete" /\ q[i].no # n =>
        /\ \E j \in DOMAIN q : LoadOp(q[j], n)
        /\ \A j \in DOMAIN q : LoadOp(q[j], n) => i < j /\ q[j].kind = "all"

Shows(l, t) ==
    /\ ~l.loading
    /\ l.missed # "products" =>
         /\ l.products = t
         /\ l.categories = IF l.missed = "categories" THEN {} ELSE AllCategories(t)

Current(l, t, q) ==
    /\ LoadEnds(q, t, l.no) \/ (Shows(l, t) /\ NoLoad(q, l.no))
    /\ DeletesFirst(q, l.no)

ListFollows == list.open /\ ~left => Current(list, table, queue)

-----------------------------------------------------------------------------
(* Facts about screens, statements and queues that the proofs keep using.  *)

(* A set of natural numbers has a smallest element. *)
LEMMA SmallestOf ==
  ASSUME NEW T \in SUBSET Nat, T # {}
  PROVE  \E n \in T : \A m \in T : n <= m
<1>1. PICK n \in T : \A m \in T : ~(<<m, n>> \in OpToRel(<, Nat))
  BY WFMin, NatLessThanWellFounded, Zenon
<1>2. ASSUME NEW m \in T, m < n PROVE FALSE
  <2>1. <<m, n>> \in OpToRel(<, Nat)
    BY <1>2 DEF OpToRel
  <2> QED BY <1>1, <2>1, Zenon
<1> QED BY <1>2

(* A screen is open with all its fields, or the closed one. *)
LEMMA Shapes ==
  ASSUME ScreensType
  PROVE  /\ list.open \in BOOLEAN /\ page.open \in BOOLEAN /\ scanner.open \in BOOLEAN
         /\ list.open => list \in OpenedList /\ list.no \in Screens
         /\ ~list.open => list = Closed
         /\ page.open => page \in OpenedPage /\ page.no \in Screens
         /\ ~page.open => page = Closed
         /\ Closed.open = FALSE /\ Closed.no = 0
<1>1. Closed.open = FALSE /\ Closed.no = 0
  BY DEF Closed
<1>2. \A l \in OpenedList : l.open = TRUE /\ l.no \in Screens
  BY DEF OpenedList
<1>3. \A p \in OpenedPage : p.open = TRUE /\ p.no \in Screens
  BY DEF OpenedPage
<1>4. list \in OpenedList \/ list = Closed
  BY DEF ScreensType
<1>5. page \in OpenedPage \/ page = Closed
  BY DEF ScreensType
<1>6. scanner.open \in BOOLEAN
  BY DEF ScreensType
<1> QED BY <1>1, <1>2, <1>3, <1>4, <1>5, <1>6, Zenon

(* A new screen's number is used by nothing that is alive or awaited. *)
LEMMA NewNoFacts ==
  ASSUME HisabiType, FreeNo # {}
  PROVE  /\ NewNo \in Screens
         /\ NewNo # list.no /\ NewNo # page.no /\ NewNo # scanner.no
         /\ NewNo \notin exiting
         /\ \A i \in DOMAIN queue : queue[i].no # NewNo
<1>1. FreeNo \in SUBSET Nat
  BY DEF FreeNo
<1>2. PICK n \in FreeNo : \A m \in FreeNo : n <= m
  BY <1>1, SmallestOf
<1>3. NewNo \in FreeNo
  BY <1>2 DEF NewNo
<1> QED BY <1>3 DEF FreeNo, Screens

(* The kind of a statement tells what it carries. *)
LEMMA OpKinds ==
  ASSUME NEW op \in Op
  PROVE  /\ op.no \in Screens
         /\ op.kind \in SubmitKinds => op \in SubmitOp
         /\ op.kind \in {"delete", "search"} => op \in IdOp
         /\ op.kind = "categories" => op \in CategoriesOp
  BY DEF Op, SubmitOp, IdOp, PlainOp, CategoriesOp, SubmitKinds

(* The oldest statement and the others. *)
LEMMA QueueTail ==
  ASSUME NEW q \in Seq(Op), q # <<>>
  PROVE  /\ Head(q) \in Op /\ Tail(q) \in Seq(Op)
         /\ 1 \in DOMAIN q /\ Head(q) = q[1]
         /\ \A i \in DOMAIN Tail(q) :
               /\ i \in Nat /\ 1 <= i /\ i + 1 \in DOMAIN q /\ Tail(q)[i] = q[i + 1]
         /\ \A i \in DOMAIN q : i \in Nat /\ 1 <= i
         /\ \A i \in DOMAIN q : i # 1 => i - 1 \in DOMAIN Tail(q) /\ Tail(q)[i - 1] = q[i]
  OBVIOUS

(* A statement at the end of the queue. *)
LEMMA QueueAppend ==
  ASSUME NEW q \in Seq(Op), NEW x \in Op
  PROVE  /\ Append(q, x) \in Seq(Op)
         /\ DOMAIN Append(q, x) = DOMAIN q \cup {Len(q) + 1}
         /\ Append(q, x)[Len(q) + 1] = x
         /\ \A i \in DOMAIN q : Append(q, x)[i] = q[i] /\ i \in Nat /\ i < Len(q) + 1
         /\ Len(q) + 1 \notin DOMAIN q /\ Len(q) + 1 \in Nat
  OBVIOUS

(* _loadData sends one query, on a list that is open. *)
LEMMA AllQueryFacts ==
  ASSUME NEW q \in Seq(Op), NEW l \in OpenedList \cup {Closed}
  PROVE  /\ l.open => /\ [kind |-> "all", no |-> l.no] \in Op
                      /\ q \o AllQuery(l) = Append(q, [kind |-> "all", no |-> l.no])
         /\ ~l.open => q \o AllQuery(l) = q
         /\ q \o AllQuery(l) \in Seq(Op)
<1>1. CASE l \in OpenedList
  <2>1. l.open = TRUE /\ l.no \in Screens
    BY <1>1 DEF OpenedList
  <2>2. [kind |-> "all", no |-> l.no] \in Op
    BY <2>1 DEF Op, PlainOp
  <2>3. AllQuery(l) = <<[kind |-> "all", no |-> l.no]>>
    BY <2>1 DEF AllQuery
  <2>4. q \o AllQuery(l) = Append(q, [kind |-> "all", no |-> l.no])
    BY <2>2, <2>3
  <2>5. q \o AllQuery(l) \in Seq(Op)
    BY <2>2, <2>4
  <2> QED BY <2>1, <2>2, <2>4, <2>5
<1>2. CASE l = Closed
  <2>1. l.open = FALSE
    BY <1>2 DEF Closed
  <2>2. AllQuery(l) = <<>>
    BY <2>1 DEF AllQuery
  <2>3. q \o AllQuery(l) = q
    BY <2>2
  <2> QED BY <2>1, <2>3
<1> QED BY <1>1, <1>2

(* The list that loads again differs only in that. *)
LEMMA LoadingFacts ==
  ASSUME NEW l \in OpenedList \cup {Closed}
  PROVE  /\ Loading(l) \in OpenedList \cup {Closed}
         /\ Loading(l).open = l.open /\ Loading(l).no = l.no
         /\ l.open => /\ Loading(l).products = l.products /\ Loading(l).filtered = l.filtered
                      /\ Loading(l).query = l.query /\ Loading(l).selected = l.selected
                      /\ Loading(l).asking = l.asking
<1>1. CASE l \in OpenedList
  <2>1. l.open = TRUE
    BY <1>1 DEF OpenedList
  <2>2. Loading(l) = [l EXCEPT !.loading = TRUE]
    BY <2>1 DEF Loading
  <2> QED BY <1>1, <2>2 DEF OpenedList
<1>2. CASE l = Closed
  BY <1>2 DEF Closed, Loading
<1> QED BY <1>1, <1>2

(* The list after a load that was answered. *)
LEMMA LoadedFacts ==
  ASSUME ScreensType, NEW op, op.rows \in SUBSET Row, NEW c \in SUBSET Categories,
         NEW m \in {"nothing", "categories", "products"}
  PROVE  LET l == Loaded(op, c, m)
         IN  /\ l \in OpenedList \cup {Closed} /\ l.open = list.open /\ l.no = list.no
             /\ Awaits(op) => /\ l.products = op.rows /\ l.filtered = op.rows
                              /\ l.categories = c /\ l.loading = FALSE /\ l.missed = m
                              /\ l.asking = list.asking
             /\ ~Awaits(op) => l = list
<1>1. CASE Awaits(op)
  <2>1. list \in OpenedList
    BY <1>1, Shapes DEF Awaits
  <2> DEFINE rows == op.rows
             l == Loaded(op, c, m)
  <2>2. l = [list EXCEPT !.products = rows, !.filtered = rows,
                         !.categories = c, !.loading = FALSE, !.missed = m]
    BY <1>1 DEF Loaded
  <2>3. rows \in SUBSET Row
    OBVIOUS
  <2> HIDE DEF l, rows
  <2>4. l \in OpenedList /\ l.open = list.open /\ l.no = list.no
    BY <2>1, <2>2, <2>3 DEF OpenedList
  <2>5. /\ l.products = rows /\ l.filtered = rows
        /\ l.categories = c /\ l.loading = FALSE /\ l.missed = m
        /\ l.asking = list.asking
    BY <2>1, <2>2 DEF OpenedList
  <2> QED BY <1>1, <2>4, <2>5 DEF l, rows
<1>2. CASE ~Awaits(op)
  BY <1>2 DEF Loaded, ScreensType
<1> QED BY <1>1, <1>2

(* What an open list shows after its load was answered. *)
LEMMA LoadedShown ==
  ASSUME ScreensType, NEW op, op.rows \in SUBSET Row, NEW c \in SUBSET Categories,
         NEW m \in {"nothing", "categories", "products"}, Awaits(op)
  PROVE  /\ Loaded(op, c, m).no = list.no /\ Loaded(op, c, m).products = op.rows
         /\ Loaded(op, c, m).categories = c /\ Loaded(op, c, m).loading = FALSE
         /\ Loaded(op, c, m).missed = m
<1> DEFINE l == Loaded(op, c, m)
<1>1. l.no = list.no
  BY LoadedFacts
<1>2. l.products = op.rows /\ l.categories = c /\ l.loading = FALSE /\ l.missed = m
  BY LoadedFacts
<1> QED BY <1>1, <1>2

(* The list after a load that failed. *)
LEMMA LoadFailsFacts ==
  ASSUME ScreensType, NEW op
  PROVE  LET l == LoadFails(op)
         IN  /\ l \in OpenedList \cup {Closed} /\ l.open = list.open /\ l.no = list.no
             /\ list.open => /\ l.products = list.products /\ l.filtered = list.filtered
                             /\ l.query = list.query /\ l.selected = list.selected
                             /\ l.asking = list.asking
             /\ Awaits(op) => l.loading = FALSE /\ l.missed = "products"
             /\ ~Awaits(op) => l = list
<1>1. CASE Awaits(op)
  <2>1. list \in OpenedList
    BY <1>1, Shapes DEF Awaits
  <2> DEFINE l == LoadFails(op)
  <2>2. l = [list EXCEPT !.loading = FALSE, !.missed = "products"]
    BY <1>1 DEF LoadFails
  <2> HIDE DEF l
  <2>3. l \in OpenedList /\ l.open = list.open /\ l.no = list.no
    BY <2>1, <2>2 DEF OpenedList
  <2>4. /\ l.products = list.products /\ l.filtered = list.filtered
        /\ l.query = list.query /\ l.selected = list.selected
        /\ l.asking = list.asking /\ l.loading = FALSE /\ l.missed = "products"
    BY <2>1, <2>2 DEF OpenedList
  <2> QED BY <1>1, <2>3, <2>4 DEF l
<1>2. CASE ~Awaits(op)
  BY <1>2 DEF LoadFails, ScreensType
<1> QED BY <1>1, <1>2

(* New screens are typed. *)
LEMMA NewListType ==
  ASSUME NEW n \in Screens
  PROVE  /\ NewList(n) \in OpenedList /\ NewList(n).open = TRUE /\ NewList(n).no = n
         /\ NewList(n).products = {} /\ NewList(n).filtered = {}
  BY DEF NewList, OpenedList

(* A new product page is typed, waits for nothing, and is in edit mode     *)
(* exactly when it has an id.                                              *)
LEMMA NewPageType ==
  ASSUME NEW n \in Screens, NEW r \in Row \cup {None}
  PROVE  /\ NewPage(n, r) \in OpenedPage
         /\ NewPage(n, r).open = TRUE /\ NewPage(n, r).no = n /\ NewPage(n, r).toEdit = r
         /\ NewPage(n, r).loading = FALSE
         /\ NewPage(n, r).editMode <=> NewPage(n, r).currentId # None
<1>1. (r # None) \in BOOLEAN
  BY Zenon
<1>2. CASE r = None
  <2>1. NewPage(n, r) = [open |-> TRUE, no |-> n, toEdit |-> None, loading |-> FALSE,
                         editMode |-> FALSE, currentId |-> None]
    BY <1>2 DEF NewPage
  <2> QED BY <1>2, <2>1 DEF OpenedPage
<1>3. CASE r # None
  <2>1. r \in Row /\ r.id \in Nat \ {0} /\ r.id # None
    BY <1>3, HisabiAssumption DEF Row
  <2>2. NewPage(n, r) = [open |-> TRUE, no |-> n, toEdit |-> r, loading |-> FALSE,
                         editMode |-> TRUE, currentId |-> r.id]
    BY <1>3 DEF NewPage
  <2> QED BY <2>1, <2>2 DEF OpenedPage
<1> QED BY <1>2, <1>3

(* A page whose loading flag is set or cleared is otherwise the same. *)
LEMMA PageLoading ==
  ASSUME NEW p \in OpenedPage, NEW b \in BOOLEAN
  PROVE  LET q == [p EXCEPT !.loading = b]
         IN  /\ q \in OpenedPage /\ q.open = TRUE /\ q.no = p.no /\ q.loading = b
             /\ q.toEdit = p.toEdit /\ q.editMode = p.editMode /\ q.currentId = p.currentId
  BY DEF OpenedPage

(* What the finally block leaves. *)
LEMMA NoLongerLoadingFacts ==
  ASSUME ScreensType, NEW op
  PROVE  LET q == NoLongerLoading(op)
         IN  /\ q \in OpenedPage \cup {Closed} /\ q.open = page.open /\ q.no = page.no
             /\ page.open => /\ q \in OpenedPage
                             /\ q.toEdit = page.toEdit
                             /\ q.editMode = page.editMode /\ q.currentId = page.currentId
                             /\ op.no # page.no => q.loading = page.loading
                             /\ op.no = page.no => q.loading = FALSE
             /\ ~page.open => q = Closed
<1> DEFINE q == NoLongerLoading(op)
<1>1. CASE page.open /\ page.no = op.no
  <2>1. page \in OpenedPage /\ q = [page EXCEPT !.loading = FALSE]
    BY <1>1, Shapes DEF NoLongerLoading
  <2>2. page.open = TRUE
    BY <2>1 DEF OpenedPage
  <2>3. /\ q \in OpenedPage /\ q.open = TRUE /\ q.no = page.no
        /\ q.toEdit = page.toEdit /\ q.editMode = page.editMode /\ q.currentId = page.currentId
        /\ q.loading = FALSE
    BY <2>1, PageLoading
  <2> HIDE DEF q
  <2> QED BY <1>1, <2>2, <2>3 DEF q
<1>2. CASE ~(page.open /\ page.no = op.no)
  <2>1. q = page
    BY <1>2 DEF NoLongerLoading
  <2>2. page \in OpenedPage \cup {Closed} /\ (page.open => page \in OpenedPage) /\ (~page.open => page = Closed)
    BY Shapes DEF ScreensType
  <2> HIDE DEF q
  <2> QED BY <1>2, <2>1, <2>2, Zenon DEF q
<1> QED BY <1>1, <1>2

(* An answered delete dialog leaves the list otherwise as it was, and the  *)
(* deletion it may send is typed.                                          *)
LEMMA DialogFacts ==
  ASSUME ScreensType, OnDialog
  PROVE  LET l == [list EXCEPT !.asking = None]
         IN  /\ list \in OpenedList /\ list.no \in Screens /\ Deletion \in Op
             /\ Deletion.kind = "delete" /\ Deletion.no = list.no
             /\ l \in OpenedList /\ l.open = TRUE /\ l.no = list.no
             /\ l.products = list.products /\ l.filtered = list.filtered
             /\ l.categories = list.categories /\ l.loading = list.loading
             /\ l.query = list.query /\ l.selected = list.selected
             /\ l.missed = list.missed /\ l.asking = None
<1>1. list \in OpenedList /\ list.no \in Screens /\ list.asking # None
  BY Shapes DEF OnDialog
<1>2. list.asking \in Nat \ {0}
  BY <1>1 DEF OpenedList
<1>3. Deletion \in Op /\ Deletion.kind = "delete" /\ Deletion.no = list.no
  BY <1>1, <1>2 DEF Deletion, Op, IdOp
<1> QED BY <1>1, <1>3 DEF OpenedList

(* A submit that succeeds: the queue without it, with a load of the list   *)
(* behind it only if a page was popped off the list, and a deletion only   *)
(* if a delete dialog was popped.                                          *)
LEMMA SucceedsFacts ==
  ASSUME ScreensType, NEW op, NEW rest \in Seq(Op), SubmitSucceeds(op, rest),
         UNCHANGED <<now, left, late>>
  PROVE  /\ ScreensType' /\ queue' \in Seq(Op)
         /\ \/ queue' = rest
            \/ queue' = rest \o AllQuery(list)
            \/ OnDialog /\ queue' = Append(rest, Deletion)
<1>0. /\ list \in OpenedList \cup {Closed} /\ page \in OpenedPage \cup {Closed}
      /\ scanner \in [open : BOOLEAN, no : 0 .. MaxScreens] /\ exiting \subseteq Screens
      /\ Closed.open = FALSE
      /\ page.open => page.no \in Screens
      /\ scanner.open => page.open /\ page.no = scanner.no
      /\ page.open => (page.editMode <=> page.currentId # None)
  BY Shapes DEF ScreensType
<1>a. now' \in Nat /\ left' \in BOOLEAN /\ late' \in BOOLEAN
  BY DEF ScreensType
<1>b. home \in BOOLEAN
  BY DEF ScreensType
<1>1. CASE queue' = rest /\ UNCHANGED <<page, exiting, list, home, scanner>>
  BY <1>0, <1>a, <1>b, <1>1 DEF ScreensType
<1>2. CASE PopTop(rest)
  <2>1. CASE /\ scanner.open /\ scanner' = [scanner EXCEPT !.open = FALSE] /\ queue' = rest
             /\ UNCHANGED <<page, exiting, list, home>>
    <3>1. scanner' \in [open : BOOLEAN, no : 0 .. MaxScreens] /\ scanner'.open = FALSE
      BY <1>0, <2>1
    <3> QED BY <1>0, <1>a, <1>b, <2>1, <3>1 DEF ScreensType
  <2>2. CASE /\ OnPage /\ page' = Closed /\ exiting' = exiting \cup {page.no}
             /\ list' = Loading(list) /\ queue' = rest \o AllQuery(list)
             /\ UNCHANGED <<home, scanner>>
    <3>1. list' \in OpenedList \cup {Closed}
      BY <1>0, <2>2, LoadingFacts
    <3>2. queue' \in Seq(Op)
      BY <1>0, <2>2, AllQueryFacts
    <3>3. ~scanner'.open /\ ~page'.open /\ page' \in OpenedPage \cup {Closed} /\ exiting' \subseteq Screens
      BY <1>0, <2>2 DEF OnPage
    <3> QED BY <1>0, <1>a, <1>b, <2>2, <3>1, <3>2, <3>3 DEF ScreensType
  <2>3. CASE /\ OnList /\ list' = Closed /\ queue' = rest
             /\ UNCHANGED <<page, exiting, home, scanner>>
    BY <1>0, <1>a, <1>b, <2>3 DEF ScreensType
  <2>4. CASE /\ ~page.open /\ ~list.open /\ home' = FALSE /\ queue' = rest
             /\ UNCHANGED <<page, exiting, list, scanner>>
    BY <1>0, <1>a, <2>4 DEF ScreensType
  <2>5. CASE /\ OnDialog /\ list' = [list EXCEPT !.asking = None]
             /\ queue' = Append(rest, Deletion)
             /\ UNCHANGED <<page, exiting, home, scanner>>
    <3>1. list' \in OpenedList /\ Deletion \in Op
      BY <2>5, DialogFacts
    <3>2. queue' \in Seq(Op)
      BY <2>5, <3>1, QueueAppend
    <3> QED BY <1>0, <1>a, <1>b, <2>5, <3>1, <3>2 DEF ScreensType
  <2> QED BY <1>2, <2>1, <2>2, <2>3, <2>4, <2>5 DEF PopTop
<1> QED BY <1>1, <1>2 DEF SubmitSucceeds

(* A submit that fails. *)
LEMMA FailsFacts ==
  ASSUME ScreensType, NEW op, NEW rest \in Seq(Op), SubmitFails(op, rest),
         UNCHANGED <<now, left, late>>
  PROVE  ScreensType' /\ queue' \in Seq(Op) /\ queue' = rest
<1>1. /\ page' = NoLongerLoading(op) /\ queue' = rest
      /\ UNCHANGED <<exiting, list, home, scanner>>
  BY DEF SubmitFails
<1>2. /\ page' \in OpenedPage \cup {Closed} /\ page'.open = page.open /\ page'.no = page.no
      /\ page.open => page'.editMode = page.editMode /\ page'.currentId = page.currentId
  BY <1>1, NoLongerLoadingFacts
<1>3. page'.open => (page'.editMode <=> page'.currentId # None)
  BY <1>2 DEF ScreensType
<1>4. scanner'.open => page'.open /\ page'.no = scanner'.no
  BY <1>1, <1>2 DEF ScreensType
<1> QED BY <1>1, <1>2, <1>3, <1>4 DEF ScreensType

-----------------------------------------------------------------------------
(* Types. *)

LEMMA DatabaseUnchanged ==
  ASSUME DatabaseType, UNCHANGED database
  PROVE  DatabaseType'
  BY DEF DatabaseType, database

(* The steps that only move between screens. *)
MoveStep ==
    \/ LeaveHisabi \/ EnterHisabi \/ OpenAddPage \/ CloseList \/ ClosePage \/ ClearForm
    \/ \E r \in (IF list.open THEN list.filtered ELSE {}) : EditProduct(r) \/ DeleteProduct(r)
    \/ CancelDelete
    \/ \E n \in exiting : ExitEnds(n)
    \/ \E q \in Queries \cup {None}, s \in Chips \cup {None} : Filter(q, s)
    \/ ScanBarcode \/ CloseScanner \/ ScannerDisposed

(* The handlers that send a statement. *)
SendStep ==
    \/ OpenList \/ Refresh \/ BarcodeDetected \/ ConfirmDelete
    \/ \E id \in 1 .. MaxSubmits : SearchProductById(id)
    \/ \E b \in Barcodes, c \in Categories : SubmitForm(b, c)

(* A step of the specification is a move, a send or a run of the first     *)
(* statement.                                                              *)
LEMMA NextSplit == Next <=> MoveStep \/ SendStep \/ RunStatement
  BY DEF Next, MoveStep, SendStep

(* A move changes neither the database nor the queue. *)
LEMMA MoveFrame == MoveStep => UNCHANGED <<table, nextId, born, searched, queue>>
<1> SUFFICES ASSUME MoveStep PROVE UNCHANGED <<table, nextId, born, searched, queue>>
  OBVIOUS
<1>1. ASSUME NEW r, EditProduct(r) \/ DeleteProduct(r)
      PROVE  UNCHANGED <<table, nextId, born, searched, queue>>
  BY <1>1 DEF EditProduct, DeleteProduct, database
<1>2. ASSUME NEW q, NEW s, Filter(q, s) PROVE UNCHANGED <<table, nextId, born, searched, queue>>
  BY <1>2 DEF Filter, database
<1> QED BY <1>1, <1>2 DEF MoveStep, LeaveHisabi, EnterHisabi, OpenAddPage, CloseList, ClosePage,
         ClearForm, CancelDelete, ExitEnds, ScanBarcode, CloseScanner, ScannerDisposed, database

(* The filter keeps the list's type and sets only its own fields. *)
LEMMA FilterFacts ==
  ASSUME ScreensType, NEW q \in Queries \cup {None}, NEW s \in Chips \cup {None}, Filter(q, s)
  PROVE  /\ list \in OpenedList /\ list' \in OpenedList
         /\ list'.open = TRUE /\ list'.no = list.no /\ list'.products = list.products
         /\ list'.categories = list.categories /\ list'.loading = list.loading
         /\ list'.query = q /\ list'.selected = s
         /\ list'.filtered = Matching(list.products, q, s)
         /\ list'.asking = list.asking /\ list'.missed = list.missed
<1>1. list \in OpenedList
  BY Shapes DEF Filter, RowsShown, OnList
<1>2. list' = [list EXCEPT !.query = q, !.selected = s,
                           !.filtered = Matching(list.products, q, s)]
  BY DEF Filter
<1>3. Matching(list.products, q, s) \subseteq Row
  BY <1>1 DEF Matching, OpenedList
<1>4. q \in Barcodes \cup {None} /\ s \in Categories \cup {None}
  BY HisabiAssumption
<1> QED BY <1>1, <1>2, <1>3, <1>4 DEF OpenedList

(* Moves keep the screens typed. *)
LEMMA MoveType ==
  ASSUME HisabiType, MoveStep
  PROVE  ScreensType'
<1>0. /\ list \in OpenedList \cup {Closed} /\ page \in OpenedPage \cup {Closed}
      /\ scanner \in [open : BOOLEAN, no : 0 .. MaxScreens] /\ exiting \subseteq Screens
      /\ Closed.open = FALSE /\ Closed.no = 0
      /\ page.open => page.no \in Screens /\ page \in OpenedPage
      /\ list.open => list \in OpenedList
      /\ scanner.open => page.open /\ page.no = scanner.no
      /\ page.open => (page.editMode <=> page.currentId # None)
      /\ now \in Nat /\ home \in BOOLEAN /\ left \in BOOLEAN /\ late \in BOOLEAN
  BY Shapes DEF HisabiType, ScreensType
<1>1. CASE LeaveHisabi \/ EnterHisabi
  BY <1>0, <1>1 DEF LeaveHisabi, EnterHisabi, dialog, ScreensType
<1>2. ASSUME NEW r \in Row \cup {None}, FreeNo # {}, page' = NewPage(NewNo, r),
             ~page.open, UNCHANGED <<now, home, list, exiting, left, scanner, late>>
      PROVE  ScreensType'
  <2>1. NewNo \in Screens
    BY <1>2, NewNoFacts
  <2>2. page' \in OpenedPage /\ (page'.editMode <=> page'.currentId # None)
    BY <1>2, <2>1, NewPageType
  <2> QED BY <1>0, <1>2, <2>2 DEF ScreensType
<1>3. CASE OpenAddPage
  BY <1>2, <1>3 DEF OpenAddPage, OnHome, dialog
<1>4. ASSUME NEW r \in (IF list.open THEN list.filtered ELSE {}), EditProduct(r) PROVE ScreensType'
  <2>1. r \in Row
    BY <1>0, <1>4 DEF EditProduct, CardShown, RowsShown, OnList, OpenedList
  <2> QED BY <1>2, <1>4, <2>1 DEF EditProduct, CardShown, RowsShown, OnList, dialog
<1>13. ASSUME NEW r \in (IF list.open THEN list.filtered ELSE {}), DeleteProduct(r) PROVE ScreensType'
  <2>1. list.open /\ r \in list.filtered /\ list' = [list EXCEPT !.asking = r.id]
    BY <1>13 DEF DeleteProduct, CardShown, RowsShown, OnList
  <2>2. r.id \in Nat \ {0}
    BY <1>0, <2>1 DEF OpenedList, Row
  <2>3. list' \in OpenedList
    BY <1>0, <2>1, <2>2 DEF OpenedList
  <2> QED BY <1>0, <1>13, <2>3 DEF DeleteProduct, dialog, ScreensType
<1>14. CASE CancelDelete
  <2>1. list' \in OpenedList
    BY <1>14, DialogFacts DEF CancelDelete, HisabiType
  <2> QED BY <1>0, <1>14, <2>1 DEF CancelDelete, dialog, ScreensType
<1>5. CASE CloseList
  BY <1>0, <1>5 DEF CloseList, dialog, ScreensType
<1>6. CASE ClosePage
  <2>1. left' \in BOOLEAN
    BY <1>6, Zenon DEF ClosePage
  <2>2. page' = Closed /\ ~scanner.open /\ exiting' \subseteq Screens
    BY <1>0, <1>6 DEF ClosePage, OnPage
  <2> QED BY <1>0, <1>6, <2>1, <2>2 DEF ClosePage, dialog, ScreensType
<1>7. CASE ClearForm
  <2>1. page \in OpenedPage /\ page' = [page EXCEPT !.editMode = FALSE, !.currentId = None]
    BY <1>0, <1>7 DEF ClearForm, CancelEnabled, OnPage
  <2>2. /\ page' \in OpenedPage /\ page'.open = page.open /\ page'.no = page.no
        /\ page'.editMode = FALSE /\ page'.currentId = None
    BY <2>1 DEF OpenedPage
  <2> QED BY <1>0, <1>7, <2>2 DEF ClearForm, dialog, ScreensType
<1>8. ASSUME NEW n \in exiting, ExitEnds(n) PROVE ScreensType'
  BY <1>0, <1>8 DEF ExitEnds, dialog, ScreensType
<1>9. ASSUME NEW q \in Queries \cup {None}, NEW s \in Chips \cup {None}, Filter(q, s)
      PROVE  ScreensType'
  <2>1. list' \in OpenedList
    BY <1>9, FilterFacts DEF HisabiType
  <2> QED BY <1>0, <1>9, <2>1 DEF Filter, dialog, ScreensType
<1>10. CASE ScanBarcode
  <2>1. scanner' = [open |-> TRUE, no |-> page.no] /\ page.open
    BY <1>10 DEF ScanBarcode, SubmitEnabled, OnPage
  <2>2. /\ scanner' \in [open : BOOLEAN, no : 0 .. MaxScreens] /\ scanner'.no = page.no
    BY <1>0, <2>1 DEF Screens
  <2> QED BY <1>0, <1>10, <2>1, <2>2 DEF ScanBarcode, database, ScreensType
<1>11. CASE CloseScanner
  <2>1. scanner' \in [open : BOOLEAN, no : 0 .. MaxScreens] /\ scanner'.open = FALSE
    BY <1>0, <1>11 DEF CloseScanner
  <2> QED BY <1>0, <1>11, <2>1 DEF CloseScanner, ScreensType
<1>12. CASE ScannerDisposed
  <2>1. scanner' \in [open : BOOLEAN, no : 0 .. MaxScreens] /\ scanner'.open = FALSE
    BY <1>12, HisabiAssumption DEF ScannerDisposed, Closed
  <2> QED BY <1>0, <1>12, <2>1 DEF ScannerDisposed, ScreensType
<1> QED BY <1>1, <1>3, <1>4, <1>5, <1>6, <1>7, <1>8, <1>9, <1>10, <1>11, <1>12, <1>13, <1>14
        DEF MoveStep

(* The statement a submit sends: typed, an insert without an id or an      *)
(* update with one, and an own update keeps the createdAt of the row it    *)
(* was opened with.                                                        *)
SubmittedOp(b, c) ==
    [kind |-> IF page.editMode THEN "updateCheck" ELSE "insertCheck",
     no |-> page.no, row |-> FormProduct(b, c),
     own |-> page.toEdit # None /\ page.toEdit.id = page.currentId]

(* Its type, and what an insert and an own update carry. *)
LEMMA SubmittedFacts ==
  ASSUME ScreensType, page.open, NEW b \in Barcodes, NEW c \in Categories
  PROVE  LET op == SubmittedOp(b, c)
         IN  /\ op \in SubmitOp /\ op \in Op /\ op.no = page.no
             /\ op.kind = "insertCheck" \/ op.kind = "updateCheck"
             /\ op.kind = "insertCheck" => op.row.id = None
             /\ op.kind = "updateCheck" =>
                   /\ op.row.id # None
                   /\ op.own => /\ page.toEdit # None /\ op.row.id = page.toEdit.id
                                /\ op.row.createdAt = page.toEdit.createdAt
                                /\ op.row \in Row
<1> DEFINE row == FormProduct(b, c)
           own == page.toEdit # None /\ page.toEdit.id = page.currentId
           op == SubmittedOp(b, c)
<1>1. /\ page \in OpenedPage /\ page.no \in Screens /\ page.editMode \in BOOLEAN
      /\ page.toEdit \in Row \cup {None} /\ page.currentId \in (Nat \ {0}) \cup {None}
      /\ page.editMode <=> page.currentId # None
      /\ now \in Nat
  BY Shapes DEF ScreensType, OpenedPage
<1>2. own \in BOOLEAN
  BY Zenon
<1>3. /\ row.id = (IF page.editMode THEN page.currentId ELSE None)
      /\ row.barcode = b /\ row.category = c
      /\ row.createdAt = (IF page.editMode /\ page.toEdit # None THEN page.toEdit.createdAt ELSE now)
      /\ row = [id |-> row.id, barcode |-> row.barcode, category |-> row.category, createdAt |-> row.createdAt]
  BY DEF FormProduct
<1>4. page.toEdit # None => page.toEdit.createdAt \in Nat
  BY <1>1 DEF Row
<1>5. row.id \in (Nat \ {0}) \cup {None} /\ row.createdAt \in Nat
  BY <1>1, <1>3, <1>4
<1>6. row \in Form
  BY <1>3, <1>5 DEF Form
<1>7. /\ op.kind = (IF page.editMode THEN "updateCheck" ELSE "insertCheck")
      /\ op.no = page.no /\ op.row = row /\ op.own = own
      /\ op = [kind |-> op.kind, no |-> op.no, row |-> op.row, own |-> op.own]
  BY Zenon DEF SubmittedOp
<1> HIDE DEF row, own, op
<1>8. op \in SubmitOp
  <2>1. op.kind \in SubmitKinds
    BY <1>7 DEF SubmitKinds
  <2> QED BY <1>1, <1>2, <1>6, <1>7, <2>1 DEF SubmitOp
<1>9. op \in Op
  BY <1>8 DEF Op
<1>10. op.kind = "insertCheck" => op.row.id = None
  BY <1>1, <1>3, <1>7
<1>11. ASSUME op.kind = "updateCheck"
       PROVE  /\ op.row.id # None
              /\ op.own => /\ page.toEdit # None /\ op.row.id = page.toEdit.id
                           /\ op.row.createdAt = page.toEdit.createdAt
                           /\ op.row \in Row
  <2>1. page.editMode
    BY <1>7, <1>11
  <2>2. op.row.id = page.currentId /\ op.row.id # None
    BY <1>1, <1>3, <1>7, <2>1
  <2>3. ASSUME op.own PROVE page.toEdit # None /\ op.row.id = page.toEdit.id
    BY <1>7, <2>2, <2>3, Zenon DEF own
  <2>4. ASSUME op.own PROVE op.row.createdAt = page.toEdit.createdAt
    BY <1>3, <1>7, <2>1, <2>3, <2>4
  <2>5. op.row \in Row
    <3>1. op.row.id \in Nat \ {0}
      BY <1>5, <1>7, <2>2
    <3> QED BY <1>6, <1>7, <3>1 DEF Form, Row
  <2> QED BY <2>2, <2>3, <2>4, <2>5
<1> QED BY <1>7, <1>8, <1>9, <1>10, <1>11 DEF op

(* What the handlers send. *)
LEMMA SendOps ==
  ASSUME HisabiType
  PROVE  /\ OpenList => /\ list' = NewList(NewNo) /\ NewNo \in Screens
                        /\ [kind |-> "all", no |-> NewNo] \in Op
                        /\ queue' = Append(queue, [kind |-> "all", no |-> NewNo])
         /\ Refresh => /\ [kind |-> "all", no |-> list.no] \in Op
                       /\ queue' = Append(queue, [kind |-> "all", no |-> list.no])
         /\ ConfirmDelete => Deletion \in Op /\ queue' = Append(queue, Deletion)
         /\ \A id \in 1 .. MaxSubmits : SearchProductById(id) =>
               /\ [kind |-> "search", no |-> page.no, id |-> id] \in Op
               /\ queue' = Append(queue, [kind |-> "search", no |-> page.no, id |-> id])
         /\ \A b \in Barcodes, c \in Categories : SubmitForm(b, c) =>
               queue' = Append(queue, SubmittedOp(b, c))
         /\ BarcodeDetected => /\ [kind |-> "lookup", no |-> scanner.no] \in Op
                               /\ queue' = Append(queue, [kind |-> "lookup", no |-> scanner.no])
<1>0. /\ queue \in Seq(Op) /\ list \in OpenedList \cup {Closed}
      /\ list.open => list \in OpenedList /\ list.no \in Screens
      /\ page.open => page.no \in Screens
      /\ scanner.no \in 0 .. MaxScreens
  BY Shapes DEF HisabiType, QueueType, ScreensType
<1>1. ASSUME OpenList
      PROVE  /\ list' = NewList(NewNo) /\ NewNo \in Screens
             /\ [kind |-> "all", no |-> NewNo] \in Op
             /\ queue' = Append(queue, [kind |-> "all", no |-> NewNo])
  <2>1. NewNo \in Screens /\ list' = NewList(NewNo) /\ queue' = queue \o AllQuery(list')
    BY <1>1, NewNoFacts DEF OpenList
  <2>2. list' \in OpenedList /\ list'.open = TRUE /\ list'.no = NewNo
    BY <2>1, NewListType
  <2> QED BY <1>0, <2>1, <2>2, AllQueryFacts
<1>2. Refresh => /\ [kind |-> "all", no |-> list.no] \in Op
                 /\ queue' = Append(queue, [kind |-> "all", no |-> list.no])
  BY <1>0, AllQueryFacts DEF Refresh, OnList
<1>3. ConfirmDelete => Deletion \in Op /\ queue' = Append(queue, Deletion)
  BY DialogFacts DEF ConfirmDelete, HisabiType
<1>4. ASSUME NEW id \in 1 .. MaxSubmits, SearchProductById(id)
      PROVE  /\ [kind |-> "search", no |-> page.no, id |-> id] \in Op
             /\ queue' = Append(queue, [kind |-> "search", no |-> page.no, id |-> id])
  <2>1. id \in Nat \ {0} /\ page.no \in Screens
    BY <1>0, <1>4, HisabiAssumption DEF SearchProductById, SearchEnabled, OnPage
  <2>2. [kind |-> "search", no |-> page.no, id |-> id] \in Op
    BY <2>1 DEF Op, IdOp
  <2> QED BY <1>4, <2>2 DEF SearchProductById
<1>5. \A b \in Barcodes, c \in Categories : SubmitForm(b, c) =>
         queue' = Append(queue, SubmittedOp(b, c))
  BY DEF SubmitForm, SubmittedOp
<1>6. ASSUME BarcodeDetected
      PROVE  /\ [kind |-> "lookup", no |-> scanner.no] \in Op
             /\ queue' = Append(queue, [kind |-> "lookup", no |-> scanner.no])
  <2>1. scanner.no \in Screens
    BY <1>0, <1>6, HisabiAssumption DEF BarcodeDetected, Screens
  <2>2. [kind |-> "lookup", no |-> scanner.no] \in Op
    BY <2>1 DEF Op, PlainOp
  <2> QED BY <1>6, <2>2 DEF BarcodeDetected, Lookup
<1> QED BY <1>1, <1>2, <1>3, <1>4, <1>5, <1>6

(* A handler that sends a statement appends it to the queue and leaves the *)
(* database alone.                                                         *)
LEMMA SendFrame ==
  ASSUME HisabiType, SendStep
  PROVE  /\ UNCHANGED <<table, nextId, born, searched>>
         /\ \E x \in Op : queue' = Append(queue, x)
<1>1. UNCHANGED <<table, nextId, born, searched>>
  BY DEF SendStep, OpenList, Refresh, BarcodeDetected, ConfirmDelete, SearchProductById,
         SubmitForm, database
<1>2. ASSUME NEW b \in Barcodes, NEW c \in Categories, SubmitForm(b, c)
      PROVE  \E x \in Op : queue' = Append(queue, x)
  <2>1. page.open /\ ScreensType
    BY <1>2 DEF SubmitForm, SubmitEnabled, OnPage, HisabiType
  <2>2. SubmittedOp(b, c) \in Op
    BY <2>1, SubmittedFacts
  <2> QED BY <1>2, <2>2, SendOps
<1>3. \E x \in Op : queue' = Append(queue, x)
  BY <1>2, SendOps DEF SendStep
<1> QED BY <1>1, <1>3

(* These handlers keep the screens typed. *)
LEMMA SendType ==
  ASSUME HisabiType, SendStep
  PROVE  ScreensType'
<1>0. /\ list \in OpenedList \cup {Closed} /\ page \in OpenedPage \cup {Closed}
      /\ scanner \in [open : BOOLEAN, no : 0 .. MaxScreens] /\ exiting \subseteq Screens
      /\ Closed.open = FALSE /\ Closed.no = 0
      /\ page.open => page.no \in Screens /\ page \in OpenedPage
      /\ list.open => list \in OpenedList
      /\ scanner.open => page.open /\ page.no = scanner.no
      /\ page.open => (page.editMode <=> page.currentId # None)
      /\ now \in Nat /\ home \in BOOLEAN /\ left \in BOOLEAN /\ late \in BOOLEAN
      /\ ScreensType
  BY Shapes DEF HisabiType, ScreensType
<1>1. CASE OpenList
  <2>1. list' \in OpenedList
    BY <1>1, SendOps, NewListType
  <2> QED BY <1>0, <1>1, <2>1 DEF OpenList, dialog, ScreensType
<1>2. CASE Refresh
  <2>1. list' \in OpenedList \cup {Closed}
    BY <1>0, <1>2, LoadingFacts DEF Refresh
  <2> QED BY <1>0, <1>2, <2>1 DEF Refresh, dialog, ScreensType
<1>3. CASE ConfirmDelete
  <2>1. list' \in OpenedList
    BY <1>0, <1>3, DialogFacts DEF ConfirmDelete
  <2> QED BY <1>0, <1>3, <2>1 DEF ConfirmDelete, dialog, ScreensType
<1>4. ASSUME page \in OpenedPage, page' = [page EXCEPT !.loading = TRUE], now' \in Nat,
             UNCHANGED <<home, list, exiting, left, scanner, late>>
      PROVE  ScreensType'
  <2>1. /\ page' \in OpenedPage /\ page'.open = TRUE /\ page'.no = page.no
        /\ page'.editMode = page.editMode /\ page'.currentId = page.currentId
    BY <1>4, PageLoading
  <2>2. page.open
    BY <1>4 DEF OpenedPage
  <2> QED BY <1>0, <1>4, <2>1, <2>2 DEF ScreensType
<1>5. ASSUME NEW id \in 1 .. MaxSubmits, SearchProductById(id) PROVE ScreensType'
  BY <1>0, <1>4, <1>5 DEF SearchProductById, SearchEnabled, OnPage, dialog
<1>6. ASSUME NEW b \in Barcodes, NEW c \in Categories, SubmitForm(b, c) PROVE ScreensType'
  <2>1. now' \in Nat
    BY <1>0, <1>6 DEF SubmitForm
  <2> QED BY <1>0, <1>4, <1>6, <2>1 DEF SubmitForm, SubmitEnabled, OnPage, dialog
<1>7. CASE BarcodeDetected
  <2>1. late' \in BOOLEAN
    BY <1>7, Zenon DEF BarcodeDetected
  <2>2. now' \in Nat
    BY <1>0, <1>7 DEF BarcodeDetected
  <2>3. CASE scanner.open /\ scanner' = [scanner EXCEPT !.open = FALSE]
             /\ UNCHANGED <<page, exiting, left, list, home>>
    <3>1. scanner' \in [open : BOOLEAN, no : 0 .. MaxScreens] /\ scanner'.open = FALSE
      BY <1>0, <2>3
    <3> QED BY <1>0, <2>1, <2>2, <2>3, <3>1 DEF ScreensType
  <2>4. CASE OnPage /\ page' = Closed /\ exiting' = exiting \cup {page.no}
             /\ left' = (left \/ page.loading) /\ UNCHANGED <<scanner, list, home>>
    <3>1. left' \in BOOLEAN
      BY <2>4, Zenon
    <3>2. ~scanner.open /\ exiting' \subseteq Screens /\ ~page'.open
      BY <1>0, <2>4 DEF OnPage
    <3> QED BY <1>0, <2>1, <2>2, <2>4, <3>1, <3>2 DEF ScreensType
  <2>5. CASE OnList /\ list' = Closed /\ UNCHANGED <<scanner, page, exiting, left, home>>
    BY <1>0, <2>1, <2>2, <2>5 DEF ScreensType
  <2>6. CASE ~page.open /\ ~list.open /\ home' = FALSE
             /\ UNCHANGED <<scanner, page, exiting, left, list>>
    BY <1>0, <2>1, <2>2, <2>6 DEF ScreensType
  <2>7. CASE OnDialog /\ list' = [list EXCEPT !.asking = None]
             /\ UNCHANGED <<scanner, page, exiting, left, home>>
    <3>1. list' \in OpenedList
      BY <1>0, <2>7, DialogFacts
    <3> QED BY <1>0, <2>1, <2>2, <2>7, <3>1 DEF ScreensType
  <2> QED BY <1>7, <2>3, <2>4, <2>5, <2>6, <2>7 DEF BarcodeDetected
<1> QED BY <1>1, <1>2, <1>3, <1>5, <1>6, <1>7 DEF SendStep

-----------------------------------------------------------------------------
(* A row inserted, updated or deleted keeps the database typed. *)
LEMMA InsertType ==
  ASSUME DatabaseType, NEW row \in Form,
         table' = table \cup {[row EXCEPT !.id = nextId]}, nextId' = nextId + 1,
         born' = Append(born, row.createdAt), searched' = searched
  PROVE  /\ DatabaseType'
         /\ [row EXCEPT !.id = nextId] \in Row
         /\ [row EXCEPT !.id = nextId].id = nextId
         /\ [row EXCEPT !.id = nextId].barcode = row.barcode
         /\ born'[nextId] = [row EXCEPT !.id = nextId].createdAt
         /\ \A k \in 1 .. (nextId - 1) : born'[k] = born[k]
<1>1. /\ table \subseteq Row /\ nextId \in Nat \ {0} /\ \A r \in table : r.id < nextId
      /\ born \in Seq(Nat) /\ Len(born) = nextId - 1 /\ searched \subseteq 1 .. (nextId - 1)
  BY DEF DatabaseType
<1>2. /\ [row EXCEPT !.id = nextId] \in Row /\ [row EXCEPT !.id = nextId].id = nextId
      /\ [row EXCEPT !.id = nextId].barcode = row.barcode
      /\ [row EXCEPT !.id = nextId].createdAt = row.createdAt
      /\ row.createdAt \in Nat
  BY <1>1 DEF Form, Row
<1> DEFINE new == [row EXCEPT !.id = nextId]
<1> HIDE DEF new
<1>3. new \in Row /\ new.id = nextId /\ table' = table \cup {new}
  BY <1>2 DEF new
<1>4. table' \subseteq Row /\ nextId' \in Nat \ {0}
  BY <1>1, <1>3
<1>5. \A r \in table : r.id \in Nat
  BY <1>1 DEF Row
<1>6. \A r \in table' : r.id < nextId'
  BY <1>1, <1>3, <1>5
<1>7. /\ born' \in Seq(Nat) /\ Len(born') = nextId' - 1 /\ born'[nextId] = row.createdAt
      /\ \A k \in 1 .. (nextId - 1) : born'[k] = born[k]
  BY <1>1, <1>2
<1>8. searched' \subseteq 1 .. (nextId' - 1)
  BY <1>1
<1> QED BY <1>2, <1>4, <1>6, <1>7, <1>8 DEF DatabaseType

(* An update keeps the table typed: it replaces rows that are there. *)
LEMMA UpdateType ==
  ASSUME DatabaseType, NEW row \in Row, table' = Updated(table, row),
         searched' = searched \/
            (searched' = searched \cup {row.id} /\ \E r \in table : r.id = row.id),
         UNCHANGED <<nextId, born>>
  PROVE  DatabaseType'
<1>1. /\ table \subseteq Row /\ nextId \in Nat \ {0} /\ \A r \in table : r.id < nextId
      /\ searched \subseteq 1 .. (nextId - 1)
  BY DEF DatabaseType
<1>2. \A r \in table' : r \in Row /\ \E s \in table : s.id = r.id
  BY <1>1 DEF Updated
<1>3. table' \subseteq Row /\ \A r \in table' : r.id < nextId
  BY <1>1, <1>2
<1>4. (\E r \in table : r.id = row.id) => row.id \in 1 .. (nextId - 1)
  BY <1>1 DEF Row
<1>5. searched' \subseteq 1 .. (nextId - 1)
  BY <1>1, <1>4
<1> QED BY <1>1, <1>3, <1>5 DEF DatabaseType

(* An UPDATE that succeeds replaces the row with its id, if there is one,  *)
(* and changes nothing otherwise.                                          *)
LEMMA UpdateFacts ==
  ASSUME DatabaseType, Head(queue).row \in Form, RunUpdate
  PROVE  /\ DatabaseType'
         /\ UNCHANGED <<nextId, born>>
         /\ \/ UNCHANGED <<table, searched>>
            \/ /\ Head(queue).row \in Row
               /\ \E r \in table : r.id = Head(queue).row.id
               /\ ~BarcodeTaken(table, Head(queue).row.barcode, Head(queue).row.id)
               /\ table' = Updated(table, Head(queue).row)
               /\ searched' = searched \cup (IF Head(queue).own THEN {} ELSE {Head(queue).row.id})
<1> DEFINE row == Head(queue).row
           hit == \E r \in table : r.id = row.id
<1>1. CASE UNCHANGED database
  BY <1>1, DatabaseUnchanged DEF database
<1>2. CASE /\ ~hit \/ ~BarcodeTaken(table, row.barcode, row.id)
           /\ table' = Updated(table, row)
           /\ searched' = IF hit /\ ~Head(queue).own THEN searched \cup {row.id} ELSE searched
           /\ UNCHANGED <<nextId, born>>
  <2>1. /\ table' = Updated(table, row)
        /\ searched' = IF hit /\ ~Head(queue).own THEN searched \cup {row.id} ELSE searched
        /\ UNCHANGED <<nextId, born>>
    BY <1>2
  <2>2. CASE ~hit
    <3>1. table' = table
      BY <2>1, <2>2 DEF Updated
    <3>2. searched' = searched
      BY <2>1, <2>2
    <3> QED BY <2>1, <3>1, <3>2, DatabaseUnchanged DEF database
  <2>3. CASE hit
    <3>1. row.id \in Nat \ {0}
      BY <2>3 DEF DatabaseType, Row
    <3>2. row \in Row
      BY <3>1 DEF Form, Row
    <3>3. searched' = searched \cup (IF Head(queue).own THEN {} ELSE {row.id})
      BY <2>1, <2>3
    <3>4. DatabaseType'
      BY <2>1, <2>3, <3>2, <3>3, UpdateType
    <3> QED BY <1>2, <2>1, <2>3, <3>2, <3>3, <3>4
  <2> QED BY <2>2, <2>3
<1> QED BY <1>1, <1>2 DEF RunUpdate

(* The statement that runs is the oldest one, and it is typed. *)
LEMMA RunningOp ==
  ASSUME QueueType, NEW kind, Running(kind)
  PROVE  /\ queue # <<>> /\ Head(queue).kind = kind
         /\ Head(queue) \in Op /\ Tail(queue) \in Seq(Op)
         /\ Head(queue).no \in Screens
         /\ kind \in SubmitKinds => Head(queue) \in SubmitOp /\ Head(queue).row \in Form
         /\ kind \in {"delete", "search"} => Head(queue).id \in Nat \ {0}
         /\ kind = "categories" => Head(queue).rows \in SUBSET Row
<1>1. queue \in Seq(Op) /\ queue # <<>> /\ Head(queue).kind = kind
  BY DEF QueueType, Running
<1>2. Head(queue) \in Op /\ Tail(queue) \in Seq(Op)
  BY <1>1, QueueTail
<1>3. /\ Head(queue).no \in Screens
      /\ kind \in SubmitKinds => Head(queue) \in SubmitOp
      /\ kind \in {"delete", "search"} => Head(queue) \in IdOp
      /\ kind = "categories" => Head(queue) \in CategoriesOp
  BY <1>1, <1>2, OpKinds
<1> QED BY <1>1, <1>2, <1>3 DEF SubmitOp, IdOp, CategoriesOp

(* The open list after a load that getAllProducts answered: the categories *)
(* are those of the table, or none after an error.                         *)
LEMMA CategoriesLoaded ==
  ASSUME HisabiType, RunCategories, Awaits(Head(queue))
  PROVE  /\ list'.no = list.no /\ list'.products = Head(queue).rows
         /\ list'.loading = FALSE
         /\ \/ list'.categories = AllCategories(table) /\ list'.missed = "nothing"
            \/ list'.categories = {} /\ list'.missed = "categories"
<1>1. ScreensType /\ Head(queue).rows \in SUBSET Row
  BY RunningOp DEF HisabiType, RunCategories
<1>2. AllCategories(table) \in SUBSET Categories /\ {} \in SUBSET Categories
  BY DEF AllCategories, HisabiType, DatabaseType, Row
<1>3. ASSUME NEW c \in SUBSET Categories, NEW m \in {"nothing", "categories", "products"}
      PROVE  /\ Loaded(Head(queue), c, m).no = list.no
             /\ Loaded(Head(queue), c, m).products = Head(queue).rows
             /\ Loaded(Head(queue), c, m).categories = c
             /\ Loaded(Head(queue), c, m).loading = FALSE
             /\ Loaded(Head(queue), c, m).missed = m
  <2>1. /\ Loaded(Head(queue), c, m).no = list.no
        /\ Loaded(Head(queue), c, m).products = Head(queue).rows
    BY <1>1, LoadedShown
  <2>2. Loaded(Head(queue), c, m).categories = c
    BY <1>1, LoadedShown
  <2>3. Loaded(Head(queue), c, m).loading = FALSE
    BY <1>1, LoadedShown
  <2>4. Loaded(Head(queue), c, m).missed = m
    BY <1>1, LoadedShown
  <2> QED BY <2>1, <2>2, <2>3, <2>4
<1>4. CASE list' = Loaded(Head(queue), AllCategories(table), "nothing")
  BY <1>2, <1>3, <1>4
<1>5. CASE list' = Loaded(Head(queue), {}, "categories")
  BY <1>2, <1>3, <1>5
<1> QED BY <1>4, <1>5 DEF RunCategories

(* The check of a submit hands it on unchanged but for its kind. *)
LEMMA HandedOn ==
  ASSUME NEW op \in SubmitOp, NEW k \in SubmitKinds
  PROVE  LET x == [op EXCEPT !.kind = k]
         IN  /\ x \in Op /\ x \in SubmitOp /\ x.kind = k
             /\ x.no = op.no /\ x.row = op.row /\ x.own = op.own
  BY DEF Op, SubmitOp

(* Every statement that runs keeps the types. *)
LEMMA RunType ==
  ASSUME HisabiType, RunStatement
  PROVE  HisabiType'
<1>0. DatabaseType /\ QueueType /\ ScreensType
  BY DEF HisabiType
<1>a. SubmitKinds = {"insertCheck", "insert", "updateCheck", "update"}
  BY DEF SubmitKinds
<1>b. ASSUME UNCHANGED <<page, exiting, list, home, scanner, now, left, late>> PROVE ScreensType'
  BY <1>0, <1>b DEF ScreensType
<1>1. CASE RunInsertCheck
  <2>1. Running("insertCheck") /\ UNCHANGED <<database, now, left, late>>
    BY <1>1 DEF RunInsertCheck
  <2>2. Head(queue) \in SubmitOp /\ Tail(queue) \in Seq(Op)
    BY <1>0, <1>a, <2>1, RunningOp
  <2>3. CASE SubmitFails(Head(queue), Tail(queue))
    BY <1>0, <2>1, <2>2, <2>3, FailsFacts, DatabaseUnchanged DEF HisabiType, QueueType
  <2>4. CASE /\ queue' = Append(Tail(queue), [Head(queue) EXCEPT !.kind = "insert"])
             /\ UNCHANGED <<page, exiting, list, home, scanner>>
    <3>0. [Head(queue) EXCEPT !.kind = "insert"] \in Op
      BY <1>a, <2>2, HandedOn
    <3>1. queue' \in Seq(Op)
      BY <2>2, <2>4, <3>0, QueueAppend, Zenon
    <3> QED BY <1>0, <1>b, <2>1, <2>4, <3>1, DatabaseUnchanged DEF HisabiType, QueueType
  <2> QED BY <1>1, <2>3, <2>4 DEF RunInsertCheck
<1>2. CASE RunInsert
  <2>1. Running("insert") /\ UNCHANGED <<now, left, late>>
    BY <1>2 DEF RunInsert
  <2>2. Head(queue).row \in Form /\ Tail(queue) \in Seq(Op)
    BY <1>0, <1>a, <2>1, RunningOp
  <2>3. CASE SubmitFails(Head(queue), Tail(queue)) /\ UNCHANGED database
    BY <1>0, <2>1, <2>2, <2>3, FailsFacts, DatabaseUnchanged DEF HisabiType, QueueType
  <2>4. CASE /\ table' = table \cup {[Head(queue).row EXCEPT !.id = nextId]}
             /\ nextId' = nextId + 1
             /\ born' = Append(born, Head(queue).row.createdAt)
             /\ UNCHANGED searched
             /\ SubmitSucceeds(Head(queue), Tail(queue))
    BY <1>0, <2>1, <2>2, <2>4, InsertType, SucceedsFacts DEF HisabiType, QueueType
  <2> QED BY <1>2, <2>3, <2>4 DEF RunInsert
<1>3. CASE RunUpdateCheck
  <2>1. Running("updateCheck") /\ UNCHANGED <<database, now, left, late>>
    BY <1>3 DEF RunUpdateCheck
  <2>2. Head(queue) \in SubmitOp /\ Tail(queue) \in Seq(Op)
    BY <1>0, <1>a, <2>1, RunningOp
  <2>3. CASE SubmitFails(Head(queue), Tail(queue))
    BY <1>0, <2>1, <2>2, <2>3, FailsFacts, DatabaseUnchanged DEF HisabiType, QueueType
  <2>4. CASE /\ queue' = Append(Tail(queue), [Head(queue) EXCEPT !.kind = "update"])
             /\ UNCHANGED <<page, exiting, list, home, scanner>>
    <3>0. [Head(queue) EXCEPT !.kind = "update"] \in Op
      BY <1>a, <2>2, HandedOn
    <3>1. queue' \in Seq(Op)
      BY <2>2, <2>4, <3>0, QueueAppend, Zenon
    <3> QED BY <1>0, <1>b, <2>1, <2>4, <3>1, DatabaseUnchanged DEF HisabiType, QueueType
  <2> QED BY <1>3, <2>3, <2>4 DEF RunUpdateCheck
<1>4. CASE RunDelete
  <2>1. Running("delete") /\ UNCHANGED <<nextId, born, searched, now, home, page, exiting, left, dialog>>
    BY <1>4 DEF RunDelete
  <2>2. Tail(queue) \in Seq(Op) /\ list \in OpenedList \cup {Closed}
    BY <1>0, <2>1, RunningOp DEF ScreensType
  <2>3. list' \in OpenedList \cup {Closed}
    BY <1>4, <2>2, LoadingFacts DEF RunDelete
  <2>4. queue' \in Seq(Op)
    <3>1. Tail(queue) \o <<>> \in Seq(Op)
      BY <2>2
    <3>2. Tail(queue) \o AllQuery(list) \in Seq(Op)
      BY <2>2, AllQueryFacts
    <3> QED BY <1>4, <2>2, <3>1, <3>2 DEF RunDelete
  <2>5. DatabaseType'
    <3>1. table' \subseteq table
      BY <1>4 DEF RunDelete
    <3> QED BY <1>0, <2>1, <3>1 DEF DatabaseType
  <2>6. ScreensType'
    BY <1>0, <2>1, <2>3 DEF ScreensType, dialog
  <2> QED BY <2>4, <2>5, <2>6 DEF HisabiType, QueueType
<1>5. CASE RunAll
  <2>1. Running("all") /\ UNCHANGED <<database, now, home, page, exiting, left, dialog>>
    BY <1>5 DEF RunAll
  <2>2. Tail(queue) \in Seq(Op) /\ Head(queue).no \in Screens
    BY <1>0, <2>1, RunningOp
  <2>3. [kind |-> "categories", no |-> Head(queue).no, rows |-> table] \in Op
    BY <1>0, <2>2 DEF Op, CategoriesOp, DatabaseType
  <2>4. queue' \in Seq(Op)
    BY <1>5, <2>2, <2>3 DEF RunAll
  <2>5. list' \in OpenedList \cup {Closed}
    <3>1. LoadFails(Head(queue)) \in OpenedList \cup {Closed} /\ list \in OpenedList \cup {Closed}
      BY <1>0, LoadFailsFacts DEF ScreensType
    <3> QED BY <1>5, <3>1, Zenon DEF RunAll
  <2>6. ScreensType'
    BY <1>0, <2>1, <2>5 DEF ScreensType, dialog
  <2> QED BY <1>0, <2>1, <2>4, <2>6, DatabaseUnchanged DEF HisabiType, QueueType
<1>6. CASE RunCategories
  <2>1. /\ Running("categories") /\ queue' = Tail(queue)
        /\ UNCHANGED <<database, now, home, page, exiting, left, dialog>>
    BY <1>6 DEF RunCategories
  <2>2. Tail(queue) \in Seq(Op) /\ Head(queue).rows \in SUBSET Row
    BY <1>0, <2>1, RunningOp
  <2>3. list' \in OpenedList \cup {Closed}
    <3>1. AllCategories(table) \in SUBSET Categories /\ {} \in SUBSET Categories
      BY <1>0 DEF AllCategories, DatabaseType, Row
    <3>2. \A c \in SUBSET Categories, m \in {"nothing", "categories", "products"} :
             Loaded(Head(queue), c, m) \in OpenedList \cup {Closed}
      BY <1>0, <2>2, LoadedFacts
    <3> QED BY <1>6, <3>1, <3>2 DEF RunCategories
  <2>4. ScreensType'
    BY <1>0, <2>1, <2>3 DEF ScreensType, dialog
  <2> QED BY <1>0, <2>1, <2>2, <2>4, DatabaseUnchanged DEF HisabiType, QueueType
<1>7. CASE RunSearch
  <2>1. /\ Running("search") /\ queue' = Tail(queue)
        /\ UNCHANGED <<database, now, home, list, exiting, left, dialog>>
    BY <1>7 DEF RunSearch
  <2>2. Tail(queue) \in Seq(Op) /\ Head(queue).id \in Nat \ {0}
    BY <1>0, <2>1, RunningOp
  <2> DEFINE done == NoLongerLoading(Head(queue))
  <2>3. /\ done \in OpenedPage \cup {Closed} /\ done.open = page.open /\ done.no = page.no
        /\ page.open => /\ done \in OpenedPage
                        /\ done.editMode = page.editMode /\ done.currentId = page.currentId
    BY <1>0, NoLongerLoadingFacts
  <2> HIDE DEF done
  <2>4. page' = done \/ (page.open /\ page' = [done EXCEPT !.editMode = TRUE, !.currentId = Head(queue).id])
    BY <1>7 DEF RunSearch, done
  <2>5. CASE page' = done
    <3>1. page'.open => (page'.editMode <=> page'.currentId # None)
      BY <1>0, <2>3, <2>5 DEF ScreensType
    <3>2. ScreensType'
      BY <1>0, <2>1, <2>3, <2>5, <3>1 DEF ScreensType, dialog
    <3> QED BY <1>0, <2>1, <2>2, <3>2, DatabaseUnchanged DEF HisabiType, QueueType
  <2>6. CASE page.open /\ page' = [done EXCEPT !.editMode = TRUE, !.currentId = Head(queue).id]
    <3>1. /\ page' \in OpenedPage /\ page'.open = page.open /\ page'.no = page.no
          /\ page'.editMode = TRUE /\ page'.currentId = Head(queue).id
      BY <2>2, <2>3, <2>6 DEF OpenedPage
    <3>2. page'.currentId # None
      BY <2>2, <3>1, HisabiAssumption
    <3>3. ScreensType'
      BY <1>0, <2>1, <3>1, <3>2 DEF ScreensType, dialog
    <3> QED BY <1>0, <2>1, <2>2, <3>3, DatabaseUnchanged DEF HisabiType, QueueType
  <2> QED BY <2>4, <2>5, <2>6
<1>8. CASE RunLookup
  <2>1. Tail(queue) \in Seq(Op)
    BY <1>0, <1>8, RunningOp DEF RunLookup
  <2> QED BY <1>0, <1>8, <1>b, <2>1, DatabaseUnchanged DEF RunLookup, HisabiType, QueueType, dialog
<1>9. CASE RunUpdate
  <2>1. Running("update") /\ UNCHANGED <<now, left, late>>
    BY <1>9 DEF RunUpdate
  <2>2. Head(queue).row \in Form /\ Tail(queue) \in Seq(Op)
    BY <1>0, <1>a, <2>1, RunningOp
  <2>3. CASE SubmitFails(Head(queue), Tail(queue)) /\ UNCHANGED database
    BY <1>0, <2>1, <2>2, <2>3, FailsFacts, DatabaseUnchanged DEF HisabiType, QueueType
  <2>4. CASE SubmitSucceeds(Head(queue), Tail(queue))
    <3>1. DatabaseType'
      BY <1>0, <1>9, <2>2, UpdateFacts
    <3> QED BY <1>0, <2>1, <2>2, <2>4, <3>1, SucceedsFacts DEF HisabiType, QueueType
  <2> QED BY <1>9, <2>3, <2>4 DEF RunUpdate
<1> QED BY <1>1, <1>2, <1>3, <1>4, <1>5, <1>6, <1>7, <1>8, <1>9 DEF RunStatement

(* Every step keeps the types. *)
LEMMA TypeStep == HisabiType /\ [Next]_vars => HisabiType'
<1> SUFFICES ASSUME HisabiType, [Next]_vars PROVE HisabiType'
  OBVIOUS
<1>1. CASE MoveStep
  <2>1. DatabaseType' /\ QueueType'
    BY <1>1, MoveFrame, DatabaseUnchanged DEF HisabiType, QueueType, database
  <2> QED BY <1>1, <2>1, MoveType DEF HisabiType
<1>2. CASE SendStep
  <2>1. DatabaseType'
    BY <1>2, SendFrame, DatabaseUnchanged DEF HisabiType, database
  <2>2. PICK x \in Op : queue' = Append(queue, x)
    BY <1>2, SendFrame
  <2>3. QueueType'
    BY <2>2 DEF HisabiType, QueueType
  <2> QED BY <1>2, <2>1, <2>3, SendType DEF HisabiType
<1>3. CASE RunStatement
  BY <1>3, RunType
<1>4. CASE UNCHANGED vars
  BY <1>4 DEF vars, HisabiType, DatabaseType, QueueType, ScreensType
<1> QED BY <1>1, <1>2, <1>3, <1>4, NextSplit

(* The app starts typed. *)
LEMMA TypeInit == Init => HisabiType
<1> SUFFICES ASSUME Init PROVE HisabiType
  OBVIOUS
<1>1. DatabaseType
  <2>1. table \subseteq Row /\ \A r \in table : r.id < nextId
    BY Zenon DEF Init
  <2>2. nextId \in Nat \ {0} /\ born \in Seq(Nat) /\ Len(born) = nextId - 1
    BY DEF Init
  <2>3. searched \subseteq 1 .. (nextId - 1)
    BY Zenon DEF Init
  <2> QED BY <2>1, <2>2, <2>3 DEF DatabaseType
<1>2. QueueType
  BY DEF Init, QueueType
<1>3. ScreensType
  <2>1. list = Closed /\ page = Closed /\ scanner = Closed /\ exiting = {} /\ now = 1
    BY DEF Init
  <2>2. Closed.open = FALSE /\ Closed \in [open : BOOLEAN, no : 0 .. MaxScreens]
    BY HisabiAssumption DEF Closed
  <2>3. exiting \subseteq Screens
    BY <2>1, Zenon
  <2>4. now \in Nat /\ home \in BOOLEAN /\ left \in BOOLEAN /\ late \in BOOLEAN
    BY DEF Init
  <2>5. ~page.open /\ ~scanner.open
    BY <2>1, <2>2
  <2> QED BY <2>1, <2>2, <2>3, <2>4, <2>5, Zenon DEF ScreensType
<1> QED BY <1>1, <1>2, <1>3 DEF HisabiType

(* Type correctness of the product manager, for any barcodes, categories,  *)
(* numbers of screens and lengths of the queue.                            *)
THEOREM TypeCorrect == Spec => []TypeOK
<1>1. Spec => []HisabiType
  BY TypeInit, TypeStep, PTL DEF Spec
<1>2. HisabiType => TypeOK
  <2> SUFFICES ASSUME HisabiType PROVE TypeOK
    OBVIOUS
  <2>1. /\ list.open => list \in OpenedList
        /\ page.open => page \in OpenedPage
    BY Shapes DEF HisabiType
  <2>2. list.open =>
         /\ list.no \in 1 .. MaxScreens /\ list.products \subseteq Row
         /\ list.categories \subseteq Categories /\ list.loading \in BOOLEAN
         /\ list.query \in Barcodes \cup {None} /\ list.selected \in Categories \cup {None}
         /\ list.asking \in (Nat \ {0}) \cup {None}
         /\ list.missed \in {"nothing", "categories", "products"}
    BY <2>1 DEF OpenedList, Screens
  <2>3. page.open =>
         /\ page.no \in 1 .. MaxScreens /\ page.loading \in BOOLEAN
         /\ page.toEdit \in Row \cup {None}
    BY <2>1 DEF OpenedPage, Screens
  <2> QED BY <2>2, <2>3 DEF HisabiType, DatabaseType, ScreensType, Screens, TypeOK
<1> QED BY <1>1, <1>2, PTL

-----------------------------------------------------------------------------
(* The table's integrity. *)

(* The two writes that change rows keep barcodes and ids unique. *)
LEMMA InsertUnique ==
  ASSUME DatabaseType, BarcodesUnique, NEW row \in Form, ~HasBarcode(table, row.barcode),
         NEW new \in Row, new.id = nextId, new.barcode = row.barcode,
         table' = table \cup {new}
  PROVE  BarcodesUnique'
<1>1. \A r \in table : r.barcode # new.barcode /\ r.id # new.id
  BY DEF HasBarcode, DatabaseType, Row
<1> QED BY <1>1 DEF BarcodesUnique

(* An update whose barcode no other row has keeps barcodes and ids unique. *)
LEMMA UpdateUnique ==
  ASSUME BarcodesUnique, NEW row \in Row, ~BarcodeTaken(table, row.barcode, row.id),
         table' = Updated(table, row)
  PROVE  BarcodesUnique'
<1>1. \A r \in table' : r = row \/ (r \in table /\ r.id # row.id)
  BY DEF Updated
<1>2. \A r \in table : r.id # row.id => r.barcode # row.barcode
  BY DEF BarcodeTaken
<1> QED BY <1>1, <1>2 DEF BarcodesUnique

(* Every step keeps barcodes and ids unique. *)
LEMMA UniqueStep ==
  ASSUME HisabiType, BarcodesUnique, [Next]_vars
  PROVE  BarcodesUnique'
<1>0. DatabaseType /\ QueueType
  BY DEF HisabiType
<1>1. CASE UNCHANGED table
  BY <1>1 DEF BarcodesUnique
<1>2. CASE RunInsert
  <2>1. Head(queue).row \in Form
    BY <1>0, <1>2, RunningOp DEF RunInsert, SubmitKinds
  <2>2. CASE /\ table' = table \cup {[Head(queue).row EXCEPT !.id = nextId]}
             /\ nextId' = nextId + 1
             /\ born' = Append(born, Head(queue).row.createdAt)
             /\ UNCHANGED searched
             /\ ~HasBarcode(table, Head(queue).row.barcode)
    BY <1>0, <2>1, <2>2, InsertType, InsertUnique
  <2> QED BY <1>1, <1>2, <2>2 DEF RunInsert, database
<1>3. CASE RunUpdate
  <2>1. Head(queue).row \in Form
    BY <1>0, <1>3, RunningOp DEF RunUpdate, SubmitKinds
  <2> QED BY <1>0, <1>1, <1>3, <2>1, UpdateFacts, UpdateUnique
<1>4. CASE RunDelete
  BY <1>4 DEF RunDelete, BarcodesUnique
<1>5. CASE MoveStep \/ SendStep
  BY <1>1, <1>5, MoveFrame, SendFrame
<1>6. CASE RunInsertCheck \/ RunUpdateCheck \/ RunAll \/ RunCategories \/ RunSearch \/ RunLookup
  BY <1>1, <1>6 DEF RunInsertCheck, RunUpdateCheck, RunAll, RunCategories, RunSearch, RunLookup,
                    database
<1>7. CASE UNCHANGED vars
  BY <1>1, <1>7 DEF vars
<1> QED BY <1>2, <1>3, <1>4, <1>5, <1>6, <1>7, NextSplit DEF RunStatement

(* No barcode and no id is ever stored twice, whatever submits of open and *)
(* closed pages run between each other's look-up and write.                *)
THEOREM UniqueBarcodes == Spec => []BarcodesUnique
<1>1. Init => HisabiType /\ BarcodesUnique
  <2>1. Init => BarcodesUnique
    BY DEF Init, BarcodesUnique
  <2> QED BY <2>1, TypeInit
<1>2. (HisabiType /\ BarcodesUnique) /\ [Next]_vars => (HisabiType /\ BarcodesUnique)'
  BY TypeStep, UniqueStep
<1> QED BY <1>1, <1>2, PTL DEF Spec

-----------------------------------------------------------------------------
(* What one step may do to the queue, to the list and to the page: each    *)
(* invariant below needs only these summaries of the actions.              *)

(* What a statement that has run sends. *)
Follows(x) ==
    \/ list.open /\ x = [kind |-> "all", no |-> list.no]
    \/ OnDialog /\ x = Deletion
    \/ RunAll /\ x = [kind |-> "categories", no |-> Head(queue).no, rows |-> table]
    \/ RunInsertCheck /\ x = [Head(queue) EXCEPT !.kind = "insert"]
    \/ RunUpdateCheck /\ x = [Head(queue) EXCEPT !.kind = "update"]

(* A statement that runs leaves the queue and may send one other. *)
LEMMA RunQueue ==
  ASSUME HisabiType, RunStatement
  PROVE  /\ queue # <<>> /\ Head(queue) \in Op /\ Tail(queue) \in Seq(Op)
         /\ \/ queue' = Tail(queue)
            \/ \E x \in Op : queue' = Append(Tail(queue), x) /\ Follows(x)
<1>0. QueueType /\ ScreensType /\ DatabaseType /\ list \in OpenedList \cup {Closed}
  BY DEF HisabiType, ScreensType
<1>1. queue # <<>>
  BY DEF RunStatement, RunInsertCheck, RunInsert, RunUpdateCheck, RunUpdate, RunDelete, RunAll,
         RunCategories, RunSearch, RunLookup, Running
<1>2. Head(queue) \in Op /\ Tail(queue) \in Seq(Op)
  BY <1>0, <1>1, QueueTail DEF QueueType
<1> DEFINE Goal == \/ queue' = Tail(queue)
                   \/ \E x \in Op : queue' = Append(Tail(queue), x) /\ Follows(x)
<1>a. ASSUME NEW x \in Op, queue' = Append(Tail(queue), x), Follows(x) PROVE Goal
  BY <1>a, Zenon
<1>b. ASSUME queue' = Tail(queue) PROVE Goal
  BY <1>b, Zenon
<1> SUFFICES Goal
  BY <1>1, <1>2
<1> HIDE DEF Goal
<1>3. ASSUME queue' = Tail(queue) \o AllQuery(list) PROVE Goal
  <2>1. CASE list.open
    <3>1. /\ [kind |-> "all", no |-> list.no] \in Op
          /\ queue' = Append(Tail(queue), [kind |-> "all", no |-> list.no])
      BY <1>0, <1>2, <1>3, <2>1, AllQueryFacts
    <3>2. Follows([kind |-> "all", no |-> list.no])
      BY <2>1, Zenon DEF Follows
    <3> QED BY <1>a, <3>1, <3>2, Zenon
  <2>2. CASE ~list.open
    <3>1. queue' = Tail(queue)
      BY <1>0, <1>2, <1>3, <2>2, AllQueryFacts
    <3> QED BY <1>b, <3>1
  <2> QED BY <2>1, <2>2
<1>4. ASSUME SubmitSucceeds(Head(queue), Tail(queue)), UNCHANGED <<now, left, late>> PROVE Goal
  <2>1. \/ queue' = Tail(queue) \/ queue' = Tail(queue) \o AllQuery(list)
        \/ OnDialog /\ queue' = Append(Tail(queue), Deletion)
    BY <1>0, <1>2, <1>4, SucceedsFacts
  <2>2. OnDialog => Deletion \in Op /\ Follows(Deletion)
    BY <1>0, DialogFacts DEF Follows
  <2> QED BY <1>3, <1>a, <1>b, <2>1, <2>2
<1>5. ASSUME NEW k \in SubmitKinds, Head(queue).kind \in SubmitKinds
      PROVE  [Head(queue) EXCEPT !.kind = k] \in Op
  BY <1>2, <1>5, OpKinds, HandedOn
<1>6. CASE RunInsertCheck
  <2>1. CASE queue' = Append(Tail(queue), [Head(queue) EXCEPT !.kind = "insert"])
    <3>1. [Head(queue) EXCEPT !.kind = "insert"] \in Op
      BY <1>5, <1>6 DEF RunInsertCheck, Running, SubmitKinds
    <3>2. Follows([Head(queue) EXCEPT !.kind = "insert"])
      BY <1>6, Zenon DEF Follows
    <3> QED BY <1>a, <2>1, <3>1, <3>2, Zenon
  <2> QED BY <1>6, <1>b, <2>1 DEF RunInsertCheck, SubmitFails
<1>7. CASE RunUpdateCheck
  <2>1. CASE queue' = Append(Tail(queue), [Head(queue) EXCEPT !.kind = "update"])
    <3>1. [Head(queue) EXCEPT !.kind = "update"] \in Op
      BY <1>5, <1>7 DEF RunUpdateCheck, Running, SubmitKinds
    <3>2. Follows([Head(queue) EXCEPT !.kind = "update"])
      BY <1>7, Zenon DEF Follows
    <3> QED BY <1>a, <2>1, <3>1, <3>2, Zenon
  <2> QED BY <1>7, <1>b, <2>1 DEF RunUpdateCheck, SubmitFails
<1>8. CASE RunInsert
  BY <1>4, <1>8, <1>b DEF RunInsert, SubmitFails
<1>9. CASE RunUpdate
  BY <1>4, <1>9, <1>b DEF RunUpdate, SubmitFails
<1>10. CASE RunDelete
  <2>1. Tail(queue) \o <<>> = Tail(queue)
    BY <1>2
  <2> QED BY <1>3, <1>10, <1>b, <2>1 DEF RunDelete
<1>11. CASE RunAll
  <2> DEFINE x == [kind |-> "categories", no |-> Head(queue).no, rows |-> table]
  <2>1. x \in Op
    BY <1>0, <1>2, OpKinds DEF Op, CategoriesOp, DatabaseType
  <2>2. queue' = Tail(queue) \/ queue' = Append(Tail(queue), x)
    BY <1>11, Zenon DEF RunAll
  <2>3. Follows(x)
    BY <1>11, Zenon DEF Follows
  <2> QED BY <1>a, <1>b, <2>1, <2>2, <2>3, Zenon
<1>12. CASE RunCategories \/ RunSearch \/ RunLookup
  BY <1>12, <1>b DEF RunCategories, RunSearch, RunLookup
<1> QED BY <1>6, <1>7, <1>8, <1>9, <1>10, <1>11, <1>12 DEF RunStatement

(* The list after a step: closed; new and empty; filled with what a load   *)
(* read; or the same products with the same or a new filter applied.       *)
LEMMA ListStep ==
  ASSUME HisabiType, [Next]_vars
  PROVE  \/ ~list'.open
         \/ list'.products = {} /\ list'.filtered = {}
         \/ /\ RunCategories /\ list'.products = Head(queue).rows
            /\ list'.filtered = Head(queue).rows
         \/ /\ list.open /\ list'.products = list.products
            /\ \/ /\ list'.filtered = list.filtered
                  /\ list'.query = list.query /\ list'.selected = list.selected
               \/ list'.filtered = Matching(list'.products, list'.query, list'.selected)
<1> DEFINE Same == /\ list'.products = list.products /\ list'.filtered = list.filtered
                   /\ list'.query = list.query /\ list'.selected = list.selected
           Goal == \/ ~list'.open
                   \/ list'.products = {} /\ list'.filtered = {}
                   \/ /\ RunCategories /\ list'.products = Head(queue).rows
                      /\ list'.filtered = Head(queue).rows
                   \/ /\ list.open /\ list'.products = list.products
                      /\ \/ /\ list'.filtered = list.filtered
                            /\ list'.query = list.query /\ list'.selected = list.selected
                         \/ list'.filtered = Matching(list'.products, list'.query, list'.selected)
<1>0. /\ ScreensType /\ list \in OpenedList \cup {Closed} /\ Closed.open = FALSE
      /\ list.open => list \in OpenedList
  BY Shapes DEF HisabiType, ScreensType
<1>1. CASE list' = list
  BY <1>1
<1>2. CASE list' = Closed
  BY <1>0, <1>2
<1>3. CASE list' = Loading(list)
  BY <1>0, <1>3, LoadingFacts
<1>8. ASSUME NEW a, list.open, list' = [list EXCEPT !.asking = a] PROVE Goal
  <2>1. Same /\ list'.open = TRUE
    BY <1>0, <1>8 DEF OpenedList
  <2> QED BY <1>8, <2>1
<1>4. CASE MoveStep
  <2>1. ASSUME NEW q \in Queries \cup {None}, NEW s \in Chips \cup {None}, Filter(q, s)
        PROVE  Goal
    <3>1. /\ list'.open = TRUE /\ list'.products = list.products
          /\ list'.query = q /\ list'.selected = s
          /\ list'.filtered = Matching(list.products, q, s)
      BY <1>0, <2>1, FilterFacts
    <3>2. list.open
      BY <2>1 DEF Filter, RowsShown, OnList
    <3> QED BY <3>1, <3>2
  <2>3. CASE CancelDelete
    BY <1>8, <2>3 DEF CancelDelete, OnDialog
  <2>4. ASSUME NEW r \in (IF list.open THEN list.filtered ELSE {}), DeleteProduct(r) PROVE Goal
    BY <1>8, <2>4 DEF DeleteProduct, CardShown, RowsShown, OnList
  <2>5. \/ list' = list \/ list' = Closed \/ CancelDelete
        \/ \E r \in (IF list.open THEN list.filtered ELSE {}) : DeleteProduct(r)
        \/ \E q \in Queries \cup {None}, s \in Chips \cup {None} : Filter(q, s)
    BY <1>4 DEF MoveStep, LeaveHisabi, EnterHisabi, OpenAddPage, CloseList, ClosePage, ClearForm,
         EditProduct, ExitEnds, ScanBarcode, CloseScanner, ScannerDisposed
  <2> QED BY <1>1, <1>2, <2>1, <2>3, <2>4, <2>5
<1>5. CASE SendStep
  <2>1. CASE OpenList
    BY <2>1, SendOps, NewListType
  <2>2. \/ list' = list \/ list' = Closed \/ list' = Loading(list) \/ OpenList
        \/ list.open /\ list' = [list EXCEPT !.asking = None]
    BY <1>5 DEF SendStep, Refresh, BarcodeDetected, ConfirmDelete, OnDialog, SearchProductById,
                SubmitForm
  <2> QED BY <1>1, <1>2, <1>3, <1>8, <2>1, <2>2
<1>6. CASE RunStatement
  <2>1. CASE RunCategories
    <3>1. Head(queue).rows \in SUBSET Row
      BY <2>1, RunningOp DEF HisabiType, RunCategories
    <3>2. AllCategories(table) \in SUBSET Categories /\ {} \in SUBSET Categories
      BY DEF AllCategories, HisabiType, DatabaseType, Row
    <3>3. CASE Awaits(Head(queue))
      <4>1. ASSUME NEW c \in SUBSET Categories,
                   NEW m \in {"nothing", "categories", "products"}
            PROVE  /\ Loaded(Head(queue), c, m).products = Head(queue).rows
                   /\ Loaded(Head(queue), c, m).filtered = Head(queue).rows
        BY <1>0, <3>1, <3>3, LoadedFacts
      <4>2. list'.products = Head(queue).rows /\ list'.filtered = Head(queue).rows
        BY <2>1, <3>2, <4>1 DEF RunCategories
      <4> QED BY <2>1, <4>2
    <3>4. CASE ~Awaits(Head(queue))
      BY <1>1, <2>1, <3>4 DEF RunCategories, Loaded
    <3> QED BY <3>3, <3>4
  <2>2. CASE list' = LoadFails(Head(queue))
    <3>1. list.open => /\ list'.products = list.products /\ list'.filtered = list.filtered
                       /\ list'.query = list.query /\ list'.selected = list.selected
      BY <1>0, <2>2, LoadFailsFacts
    <3>2. list'.open = list.open
      BY <1>0, <2>2, LoadFailsFacts
    <3> QED BY <3>1, <3>2
  <2>3. \/ RunCategories \/ list' = list \/ list' = Closed \/ list' = Loading(list)
        \/ list' = LoadFails(Head(queue))
        \/ list.open /\ list' = [list EXCEPT !.asking = None]
    BY <1>6 DEF RunStatement, RunInsertCheck, RunInsert, RunUpdateCheck, RunUpdate, RunDelete,
         RunAll, RunSearch, RunLookup, SubmitFails, SubmitSucceeds, PopTop, OnDialog
  <2> QED BY <1>1, <1>2, <1>3, <1>8, <2>1, <2>2, <2>3
<1>7. CASE UNCHANGED vars
  BY <1>1, <1>7 DEF vars
<1> QED BY <1>4, <1>5, <1>6, <1>7, NextSplit

(* The page after a step: closed, by the user or by a submit; opened from  *)
(* nothing, for no product or for one the list shows; or the same page,    *)
(* which begins to load, or ends loading with the statement it waits for.  *)
Closing ==
    /\ page.open /\ page' = Closed /\ ~scanner.open
    /\ \/ left' = (left \/ page.loading) /\ (queue' = queue \/ BarcodeDetected)
       \/ RunInsert \/ RunUpdate

Opening ==
    /\ ~page.open /\ FreeNo # {} /\ page'.no = NewNo /\ page'.loading = FALSE
    /\ queue' = queue
    /\ page'.toEdit = None \/ (list.open /\ page'.toEdit \in list.filtered)

Staying ==
    /\ page.open /\ page'.open = TRUE /\ page'.no = page.no /\ page'.toEdit = page.toEdit
    /\ \/ page'.loading = page.loading
       \/ page'.loading = TRUE /\ ~scanner.open /\ scanner' = scanner
       \/ /\ page'.loading = FALSE /\ RunStatement /\ queue' = Tail(queue)
          /\ PageOp(Head(queue)) /\ Head(queue).no = page.no

(* A step leaves the page closed, closes it, opens it, or keeps it with    *)
(* its number and its row.                                                 *)
LEMMA PageStep ==
  ASSUME HisabiType, [Next]_vars
  PROVE  (~page.open /\ ~page'.open) \/ Closing \/ Opening \/ Staying
<1>0. /\ ScreensType /\ page \in OpenedPage \cup {Closed} /\ Closed.open = FALSE
      /\ page.open => page \in OpenedPage /\ page.open = TRUE
      /\ list.open => list \in OpenedList
  BY Shapes DEF HisabiType, ScreensType
<1>1. CASE page' = page
  <2>1. CASE page.open
    <3>1. Staying
      BY <1>0, <1>1, <2>1, Zenon DEF Staying
    <3> QED BY <3>1
  <2> QED BY <1>1, <2>1
<1>2. ASSUME page' = NoLongerLoading(Head(queue)), RunStatement, queue' = Tail(queue),
             PageOp(Head(queue))
      PROVE  (~page.open /\ ~page'.open) \/ Staying
  <2>1. /\ page'.open = page.open /\ page'.no = page.no
        /\ page.open => /\ page'.toEdit = page.toEdit
                        /\ Head(queue).no # page.no => page'.loading = page.loading
                        /\ Head(queue).no = page.no => page'.loading = FALSE
    BY <1>0, <1>2, NoLongerLoadingFacts
  <2> QED BY <1>0, <1>2, <2>1, Zenon DEF Staying
<1>3. CASE MoveStep
  <2>0. ASSUME NEW r \in Row \cup {None}, FreeNo # {}, page' = NewPage(NewNo, r)
        PROVE  page'.no = NewNo /\ page'.loading = FALSE /\ page'.toEdit = r
    BY <2>0, NewNoFacts, NewPageType
  <2>1. CASE OpenAddPage
    BY <2>0, <2>1 DEF OpenAddPage, OnHome, Opening
  <2>2. ASSUME NEW r \in (IF list.open THEN list.filtered ELSE {}), EditProduct(r) PROVE Opening
    <3>1. list.open /\ r \in list.filtered /\ ~page.open /\ FreeNo # {} /\ queue' = queue
      BY <2>2 DEF EditProduct, CardShown, RowsShown, OnList
    <3>2. r \in Row
      BY <1>0, <3>1 DEF OpenedList
    <3>3. page'.no = NewNo /\ page'.loading = FALSE /\ page'.toEdit = r
      BY <2>0, <2>2, <3>1, <3>2 DEF EditProduct
    <3> QED BY <3>1, <3>3 DEF Opening
  <2>3. CASE ClearForm
    <3>1. page \in OpenedPage /\ page' = [page EXCEPT !.editMode = FALSE, !.currentId = None]
      BY <1>0, <2>3 DEF ClearForm, CancelEnabled, OnPage
    <3>2. /\ page.open /\ page'.open = TRUE /\ page'.no = page.no /\ page'.toEdit = page.toEdit
          /\ page'.loading = page.loading
      BY <3>1 DEF OpenedPage
    <3> QED BY <3>2, Zenon DEF Staying
  <2>4. CASE ClosePage
    BY <2>4 DEF ClosePage, OnPage, Closing
  <2>6. ASSUME NEW r, DeleteProduct(r) PROVE page' = page
    BY <2>6 DEF DeleteProduct
  <2>5. \/ page' = page \/ ClosePage \/ OpenAddPage \/ ClearForm
        \/ \E r \in (IF list.open THEN list.filtered ELSE {}) : EditProduct(r)
    BY <1>3, <2>6 DEF MoveStep, LeaveHisabi, EnterHisabi, CloseList, ExitEnds, Filter, CancelDelete,
         ScanBarcode, CloseScanner, ScannerDisposed
  <2> QED BY <1>1, <2>1, <2>2, <2>3, <2>4, <2>5
<1>4. CASE SendStep
  <2>1. CASE BarcodeDetected /\ page' # page
    BY <2>1 DEF BarcodeDetected, OnPage, Closing
  <2>2. ASSUME page.open, page' = [page EXCEPT !.loading = TRUE], ~scanner.open, scanner' = scanner
        PROVE  Staying
    <3>1. /\ page'.open = TRUE /\ page'.no = page.no /\ page'.toEdit = page.toEdit
          /\ page'.loading = TRUE
      BY <1>0, <2>2, PageLoading
    <3> QED BY <2>2, <3>1, Zenon DEF Staying
  <2>3. \/ page' = page \/ (BarcodeDetected /\ page' # page)
        \/ /\ page.open /\ page' = [page EXCEPT !.loading = TRUE]
           /\ ~scanner.open /\ scanner' = scanner
    BY <1>4 DEF SendStep, OpenList, Refresh, BarcodeDetected, ConfirmDelete, SearchProductById,
         SubmitForm, SearchEnabled, SubmitEnabled, OnPage, dialog
  <2> QED BY <1>1, <2>1, <2>2, <2>3
<1>5. CASE RunStatement
  <2>1. CASE RunSearch
    <3>0. RunStatement /\ queue' = Tail(queue) /\ PageOp(Head(queue))
      BY <1>5, <2>1 DEF RunSearch, Running, PageOp
    <3> DEFINE done == NoLongerLoading(Head(queue))
    <3>1. CASE /\ page.open /\ page.no = Head(queue).no
               /\ page' = [done EXCEPT !.editMode = TRUE, !.currentId = Head(queue).id]
      <4>1. /\ done \in OpenedPage /\ done.no = page.no /\ done.toEdit = page.toEdit
            /\ done.loading = FALSE
        BY <1>0, <3>1, NoLongerLoadingFacts
      <4> HIDE DEF done
      <4>2. /\ page'.open = TRUE /\ page'.no = page.no /\ page'.toEdit = page.toEdit
            /\ page'.loading = FALSE
        BY <3>1, <4>1 DEF OpenedPage
      <4>3. Staying
        BY <3>0, <3>1, <4>2, Zenon DEF Staying
      <4> QED BY <4>3
    <3>2. CASE page' = done
      BY <1>2, <3>0, <3>2
    <3> QED BY <2>1, <3>1, <3>2 DEF RunSearch
  <2>2. CASE (RunInsert \/ RunUpdate) /\ page' = Closed /\ page.open /\ ~scanner.open
    BY <2>2 DEF Closing
  <2>3. ASSUME NEW op, NEW rest, SubmitSucceeds(op, rest)
        PROVE  page' = page \/ (page' = Closed /\ page.open /\ ~scanner.open)
    BY <2>3 DEF SubmitSucceeds, PopTop, OnPage
  <2>4. CASE /\ RunInsertCheck \/ RunInsert \/ RunUpdateCheck \/ RunUpdate
             /\ SubmitFails(Head(queue), Tail(queue))
    <3>1. PageOp(Head(queue))
      BY <2>4 DEF RunInsertCheck, RunInsert, RunUpdateCheck, RunUpdate, Running, PageOp, SubmitKinds
    <3> QED BY <1>2, <1>5, <2>4, <3>1 DEF SubmitFails
  <2>5. CASE RunInsertCheck \/ RunUpdateCheck
    BY <1>1, <2>4, <2>5 DEF RunInsertCheck, RunUpdateCheck
  <2>6. CASE RunInsert \/ RunUpdate
    BY <1>1, <2>2, <2>3, <2>4, <2>6 DEF RunInsert, RunUpdate
  <2>7. CASE RunDelete \/ RunAll \/ RunCategories \/ RunLookup
    BY <1>1, <2>7 DEF RunDelete, RunAll, RunCategories, RunLookup
  <2> QED BY <1>5, <2>1, <2>5, <2>6, <2>7 DEF RunStatement
<1>6. CASE UNCHANGED vars
  BY <1>1, <1>6 DEF vars
<1> QED BY <1>3, <1>4, <1>5, <1>6, NextSplit

-----------------------------------------------------------------------------
(* The creation times: rows once read stay genuine while the database      *)
(* moves on, so an edit started from a stale list still carries the        *)
(* createdAt the product was inserted with.                                *)

DatabaseGrows ==
    /\ nextId' \in Nat /\ nextId <= nextId' /\ searched \subseteq searched'
    /\ \A k \in 1 .. (nextId - 1) : born'[k] = born[k]

(* Numbers are only given, the inserted times kept and ids only added to   *)
(* those edited after a search.                                            *)
LEMMA Grows ==
  ASSUME HisabiType, [Next]_vars
  PROVE  DatabaseGrows
<1>0. DatabaseType /\ QueueType /\ nextId \in Nat
  BY DEF HisabiType, DatabaseType
<1>1. CASE UNCHANGED <<nextId, born, searched>>
  BY <1>0, <1>1 DEF DatabaseGrows
<1>2. CASE RunInsert
  <2>1. Head(queue).row \in Form
    BY <1>0, <1>2, RunningOp DEF RunInsert, SubmitKinds
  <2>2. CASE /\ table' = table \cup {[Head(queue).row EXCEPT !.id = nextId]}
             /\ nextId' = nextId + 1
             /\ born' = Append(born, Head(queue).row.createdAt)
             /\ UNCHANGED searched
    <3>1. \A k \in 1 .. (nextId - 1) : born'[k] = born[k]
      BY <1>0, <2>1, <2>2, InsertType
    <3>2. nextId' \in Nat /\ nextId <= nextId' /\ searched' = searched
      BY <1>0, <2>2
    <3> QED BY <3>1, <3>2 DEF DatabaseGrows
  <2> QED BY <1>1, <1>2, <2>2 DEF RunInsert, database
<1>3. CASE RunUpdate
  <2>1. Head(queue).row \in Form
    BY <1>0, <1>3, RunningOp DEF RunUpdate, SubmitKinds
  <2>2. UNCHANGED <<nextId, born>> /\ searched \subseteq searched'
    BY <1>0, <1>3, <2>1, UpdateFacts
  <2> QED BY <1>0, <2>2 DEF DatabaseGrows
<1>4. CASE RunDelete
  BY <1>1, <1>4 DEF RunDelete
<1>5. CASE MoveStep \/ SendStep
  BY <1>1, <1>5, MoveFrame, SendFrame
<1>6. CASE RunInsertCheck \/ RunUpdateCheck \/ RunAll \/ RunCategories \/ RunSearch \/ RunLookup
  BY <1>1, <1>6 DEF RunInsertCheck, RunUpdateCheck, RunAll, RunCategories, RunSearch, RunLookup,
                    database
<1>7. CASE UNCHANGED vars
  BY <1>1, <1>7 DEF vars
<1> QED BY <1>2, <1>3, <1>4, <1>5, <1>6, <1>7, NextSplit DEF RunStatement

(* A genuine row stays genuine, and a statement that carries one too. *)
LEMMA GenuineKept ==
  ASSUME nextId \in Nat, DatabaseGrows, NEW r, Genuine(r, nextId, searched, born)
  PROVE  Genuine(r, nextId', searched', born')
<1>1. r \in Row /\ r.id \in Nat \ {0} /\ r.id < nextId
  BY DEF Genuine, Row
<1>2. r.id \in 1 .. (nextId - 1) /\ r.id < nextId'
  BY <1>1 DEF DatabaseGrows
<1> QED BY <1>1, <1>2 DEF Genuine, DatabaseGrows

(* What a statement carries stays genuine as the database grows. *)
LEMMA OpGenuineKept ==
  ASSUME nextId \in Nat, DatabaseGrows, NEW op, OpGenuine(op, nextId, searched, born)
  PROVE  OpGenuine(op, nextId', searched', born')
<1>1. \A r : Genuine(r, nextId, searched, born) => Genuine(r, nextId', searched', born')
  BY GenuineKept
<1> QED BY <1>1 DEF OpGenuine

(* What the list shows is part of what it loaded. *)
LEMMA ShownLoaded ==
  ASSUME FilterMeaning, list.open
  PROVE  list.filtered \subseteq list.products
  BY DEF FilterMeaning, Matching

(* The filter is never a mixture. *)
LEMMA FilterStep ==
  ASSUME HisabiType, FilterMeaning, [Next]_vars
  PROVE  FilterMeaning'
<1> SUFFICES ASSUME list'.open
             PROVE  \/ list'.filtered = list'.products
                    \/ list'.filtered = Matching(list'.products, list'.query, list'.selected)
  BY DEF FilterMeaning
<1>1. list.open => \/ list.filtered = list.products
                   \/ list.filtered = Matching(list.products, list.query, list.selected)
  BY DEF FilterMeaning
<1>2. CASE list'.products = {} /\ list'.filtered = {}
  BY <1>2
<1>3. CASE list'.products = Head(queue).rows /\ list'.filtered = Head(queue).rows
  BY <1>3
<1>4. CASE /\ list.open /\ list'.products = list.products /\ list'.filtered = list.filtered
           /\ list'.query = list.query /\ list'.selected = list.selected
  BY <1>1, <1>4
<1> QED BY <1>2, <1>3, <1>4, ListStep

(* The rows a step writes to the table are genuine. *)
LEMMA TableGenuine ==
  ASSUME HisabiType, RowsGenuine, [Next]_vars
  PROVE  \A r \in table' : Genuine(r, nextId', searched', born')
<1>0. DatabaseType /\ QueueType /\ nextId \in Nat /\ DatabaseGrows
  BY Grows DEF HisabiType, DatabaseType
<1>1. ASSUME NEW r \in table' \cap table PROVE Genuine(r, nextId', searched', born')
  BY <1>0, GenuineKept DEF RowsGenuine
<1>2. CASE table' \subseteq table
  BY <1>1, <1>2
<1>3. CASE RunInsert
  <2>1. Head(queue).row \in Form
    BY <1>0, <1>3, RunningOp DEF RunInsert, SubmitKinds
  <2>2. CASE /\ table' = table \cup {[Head(queue).row EXCEPT !.id = nextId]}
             /\ nextId' = nextId + 1
             /\ born' = Append(born, Head(queue).row.createdAt)
             /\ UNCHANGED searched
    <3> DEFINE new == [Head(queue).row EXCEPT !.id = nextId]
    <3>1. new \in Row /\ new.id = nextId /\ born'[nextId] = new.createdAt
      <4>1. searched' = searched
        BY <2>2
      <4> QED BY <1>0, <2>1, <2>2, <4>1, InsertType, Zenon
    <3> HIDE DEF new
    <3>2. Genuine(new, nextId', searched', born')
      <4>1. nextId < nextId'
        BY <1>0, <2>2
      <4>2. new.createdAt = born'[new.id]
        BY <3>1
      <4> QED BY <3>1, <4>1, <4>2, Zenon DEF Genuine
    <3>3. \A r \in table' : r = new \/ r \in table
      BY <2>2 DEF new
    <3> QED BY <1>1, <3>2, <3>3
  <2> QED BY <1>2, <1>3, <2>2 DEF RunInsert, database
<1>4. CASE RunUpdate
  <2> DEFINE op == Head(queue)
  <2>0. Running("update")
    BY <1>4 DEF RunUpdate
  <2>1. op.row \in Form /\ op.kind = "update" /\ queue # <<>>
    BY <1>0, <2>0, RunningOp DEF SubmitKinds
  <2>2. OpGenuine(op, nextId, searched, born)
    <3>1. 1 \in DOMAIN queue /\ op = queue[1]
      BY <1>0, <2>1, QueueTail DEF QueueType
    <3> HIDE DEF op
    <3> QED BY <3>1 DEF RowsGenuine
  <2>3. CASE /\ op.row \in Row
             /\ \E r \in table : r.id = op.row.id
             /\ table' = Updated(table, op.row)
             /\ searched' = searched \cup (IF op.own THEN {} ELSE {op.row.id})
    <3>1. UNCHANGED <<nextId, born>>
      BY <1>0, <1>4, <2>1, UpdateFacts
    <3>2. Genuine(op.row, nextId', searched', born')
      <4>1. CASE op.own
        <5>1. Genuine(op.row, nextId, searched, born)
          BY <2>1, <2>2, <4>1 DEF OpGenuine
        <5> QED BY <1>0, <5>1, GenuineKept
      <4>2. CASE ~op.own
        <5>1. op.row.id \in searched' /\ op.row.id < nextId'
          BY <1>0, <2>3, <3>1, <4>2 DEF DatabaseType
        <5> QED BY <2>3, <5>1 DEF Genuine
      <4> QED BY <4>1, <4>2
    <3>3. \A r \in table' : r = op.row \/ r \in table
      BY <2>3 DEF Updated
    <3> QED BY <1>1, <3>2, <3>3
  <2>4. CASE UNCHANGED <<table, searched>>
    BY <1>2, <2>4
  <2> QED BY <1>0, <1>4, <2>1, <2>3, <2>4, UpdateFacts
<1>5. CASE RunDelete
  BY <1>2, <1>5 DEF RunDelete
<1>6. CASE MoveStep \/ SendStep
  BY <1>2, <1>6, MoveFrame, SendFrame
<1>7. CASE RunInsertCheck \/ RunUpdateCheck \/ RunAll \/ RunCategories \/ RunSearch \/ RunLookup
  BY <1>2, <1>7 DEF RunInsertCheck, RunUpdateCheck, RunAll, RunCategories, RunSearch, RunLookup,
                    database
<1>8. CASE UNCHANGED vars
  BY <1>2, <1>8 DEF vars
<1> QED BY <1>3, <1>4, <1>5, <1>6, <1>7, <1>8, NextSplit DEF RunStatement

(* What the list and the page hold, and the statements in the queue. *)
LEMMA ScreensGenuine ==
  ASSUME HisabiType, RowsGenuine, FilterMeaning, [Next]_vars
  PROVE  /\ list'.open => \A r \in list'.products : Genuine(r, nextId', searched', born')
         /\ page'.open /\ page'.toEdit # None => Genuine(page'.toEdit, nextId', searched', born')
<1>0. QueueType /\ nextId \in Nat /\ DatabaseGrows
  BY Grows DEF HisabiType, DatabaseType
<1>1. \A r : Genuine(r, nextId, searched, born) => Genuine(r, nextId', searched', born')
  BY <1>0, GenuineKept
<1>2. ASSUME list'.open, NEW r \in list'.products PROVE Genuine(r, nextId', searched', born')
  <2>1. CASE list.open /\ list'.products = list.products
    BY <1>1, <1>2, <2>1 DEF RowsGenuine
  <2>2. CASE RunCategories /\ list'.products = Head(queue).rows
    <3>1. Running("categories")
      BY <2>2 DEF RunCategories
    <3>2. Head(queue).kind = "categories" /\ queue # <<>>
      BY <3>1 DEF Running
    <3>3. 1 \in DOMAIN queue /\ Head(queue) = queue[1]
      BY <1>0, <3>2, QueueTail DEF QueueType
    <3>4. OpGenuine(Head(queue), nextId, searched, born)
      BY <3>3 DEF RowsGenuine
    <3> QED BY <1>1, <1>2, <2>2, <3>2, <3>4 DEF OpGenuine
  <2>3. CASE list'.products = {}
    BY <1>2, <2>3
  <2> QED BY <1>2, <2>1, <2>2, <2>3, ListStep
<1>3. ASSUME page'.open, page'.toEdit # None PROVE Genuine(page'.toEdit, nextId', searched', born')
  <2>1. CASE page.open /\ page'.toEdit = page.toEdit
    BY <1>1, <1>3, <2>1 DEF RowsGenuine
  <2>2. CASE list.open /\ page'.toEdit \in list.filtered
    BY <1>1, <2>2, ShownLoaded DEF RowsGenuine
  <2>3. ~Closing
    BY <1>3, Shapes DEF Closing, HisabiType
  <2> QED BY <1>3, <2>1, <2>2, <2>3, PageStep DEF Opening, Staying
<1> QED BY <1>2, <1>3

(* What is sent carries genuine rows. *)
LEMMA SentGenuine ==
  ASSUME HisabiType, RowsGenuine, SendStep
  PROVE  \E x \in Op : queue' = Append(queue, x) /\ OpGenuine(x, nextId, searched, born)
<1> DEFINE G(x) == x \in Op /\ queue' = Append(queue, x) /\ OpGenuine(x, nextId, searched, born)
<1>1. ASSUME NEW x \in Op, queue' = Append(queue, x),
             x.kind \notin SubmitKinds, x.kind # "categories"
      PROVE  \E y : G(y)
  <2>1. OpGenuine(x, nextId, searched, born)
    BY <1>1 DEF OpGenuine, SubmitKinds
  <2> QED BY <1>1, <2>1
<1>2. ASSUME NEW b \in Barcodes, NEW c \in Categories, SubmitForm(b, c) PROVE \E y : G(y)
  <2> DEFINE x == SubmittedOp(b, c)
  <2>1. ScreensType /\ page.open
    BY <1>2 DEF HisabiType, SubmitForm, SubmitEnabled, OnPage
  <2>2. /\ x \in Op /\ (x.kind = "insertCheck" \/ x.kind = "updateCheck")
        /\ x.kind = "insertCheck" => x.row.id = None
        /\ x.kind = "updateCheck" =>
              /\ x.row.id # None
              /\ x.own => /\ page.toEdit # None /\ x.row.id = page.toEdit.id
                          /\ x.row.createdAt = page.toEdit.createdAt
                          /\ x.row \in Row
    BY <2>1, SubmittedFacts
  <2>3. queue' = Append(queue, x)
    BY <1>2, SendOps
  <2> HIDE DEF x
  <2>4. ASSUME x.kind = "updateCheck", x.own PROVE Genuine(x.row, nextId, searched, born)
    <3>1. Genuine(page.toEdit, nextId, searched, born)
      BY <2>1, <2>2, <2>4 DEF RowsGenuine
    <3> QED BY <2>2, <2>4, <3>1 DEF Genuine
  <2>5. OpGenuine(x, nextId, searched, born)
    BY <2>2, <2>4 DEF OpGenuine
  <2> QED BY <2>2, <2>3, <2>5
<1>3. CASE OpenList
  <2> DEFINE x == [kind |-> "all", no |-> NewNo]
  <2>1. x \in Op /\ queue' = Append(queue, x) /\ x.kind = "all"
    BY <1>3, SendOps
  <2> QED BY <1>1, <2>1 DEF SubmitKinds
<1>4. CASE Refresh
  <2> DEFINE x == [kind |-> "all", no |-> list.no]
  <2>1. x \in Op /\ queue' = Append(queue, x) /\ x.kind = "all"
    BY <1>4, SendOps
  <2> QED BY <1>1, <2>1 DEF SubmitKinds
<1>5. CASE BarcodeDetected
  <2> DEFINE x == [kind |-> "lookup", no |-> scanner.no]
  <2>1. x \in Op /\ queue' = Append(queue, x) /\ x.kind = "lookup"
    BY <1>5, SendOps
  <2> QED BY <1>1, <2>1 DEF SubmitKinds
<1>6. CASE ConfirmDelete
  <2>1. Deletion \in Op /\ queue' = Append(queue, Deletion) /\ Deletion.kind = "delete"
    BY <1>6, SendOps DEF Deletion
  <2> QED BY <1>1, <2>1 DEF SubmitKinds
<1>7. ASSUME NEW id \in 1 .. MaxSubmits, SearchProductById(id) PROVE \E y : G(y)
  <2> DEFINE x == [kind |-> "search", no |-> page.no, id |-> id]
  <2>1. x \in Op /\ queue' = Append(queue, x) /\ x.kind = "search"
    BY <1>7, SendOps
  <2> QED BY <1>1, <2>1 DEF SubmitKinds
<1> QED BY <1>2, <1>3, <1>4, <1>5, <1>6, <1>7 DEF SendStep

(* The statement that follows the one just run carries genuine rows. *)
LEMMA FollowsGenuine ==
  ASSUME HisabiType, RowsGenuine, queue # <<>>, NEW x \in Op, Follows(x)
  PROVE  OpGenuine(x, nextId, searched, born)
<1>0. 1 \in DOMAIN queue /\ Head(queue) = queue[1] /\ Head(queue) \in Op
  BY QueueTail DEF HisabiType, QueueType
<1>1. OpGenuine(Head(queue), nextId, searched, born)
  BY <1>0 DEF RowsGenuine
<1>2. CASE x = [kind |-> "all", no |-> list.no]
  BY <1>2 DEF OpGenuine
<1>6. CASE x = Deletion
  BY <1>6 DEF OpGenuine, Deletion
<1>3. CASE x = [kind |-> "categories", no |-> Head(queue).no, rows |-> table]
  BY <1>3 DEF OpGenuine, RowsGenuine
<1>4. CASE RunInsertCheck /\ x = [Head(queue) EXCEPT !.kind = "insert"]
  <2>1. Head(queue).kind = "insertCheck" /\ Head(queue) \in SubmitOp
    BY <1>0, <1>4, OpKinds DEF RunInsertCheck, Running, SubmitKinds
  <2>2. x.kind = "insert" /\ x.row = Head(queue).row
    BY <1>4, <2>1, HandedOn DEF SubmitKinds
  <2> QED BY <1>1, <2>1, <2>2 DEF OpGenuine
<1>5. CASE RunUpdateCheck /\ x = [Head(queue) EXCEPT !.kind = "update"]
  <2>1. Head(queue).kind = "updateCheck" /\ Head(queue) \in SubmitOp
    BY <1>0, <1>5, OpKinds DEF RunUpdateCheck, Running, SubmitKinds
  <2>2. x.kind = "update" /\ x.row = Head(queue).row /\ x.own = Head(queue).own
    BY <1>5, <2>1, HandedOn DEF SubmitKinds
  <2> QED BY <1>1, <2>1, <2>2 DEF OpGenuine
<1> QED BY <1>2, <1>3, <1>4, <1>5, <1>6 DEF Follows

(* Every row held anywhere stays genuine. *)
LEMMA GenuineStep ==
  ASSUME HisabiType, RowsGenuine, FilterMeaning, [Next]_vars
  PROVE  RowsGenuine'
<1>0. queue \in Seq(Op) /\ nextId \in Nat /\ DatabaseGrows
  BY Grows DEF HisabiType, DatabaseType, QueueType
<1>1. ASSUME NEW op, OpGenuine(op, nextId, searched, born)
      PROVE  OpGenuine(op, nextId', searched', born')
  BY <1>0, <1>1, OpGenuineKept
<1>2. \A i \in DOMAIN queue : OpGenuine(queue[i], nextId', searched', born')
  BY <1>1 DEF RowsGenuine
<1>3. ASSUME NEW q \in Seq(Op), NEW x \in Op, OpGenuine(x, nextId, searched, born),
             \A i \in DOMAIN q : OpGenuine(q[i], nextId', searched', born')
      PROVE  \A i \in DOMAIN Append(q, x) : OpGenuine(Append(q, x)[i], nextId', searched', born')
  <2>1. OpGenuine(x, nextId', searched', born')
    BY <1>1, <1>3
  <2> QED BY <1>3, <2>1, QueueAppend
<1>4. \A i \in DOMAIN queue' : OpGenuine(queue'[i], nextId', searched', born')
  <2>1. CASE queue' = queue
    BY <1>2, <2>1
  <2>2. CASE SendStep
    <3>1. PICK x \in Op : queue' = Append(queue, x) /\ OpGenuine(x, nextId, searched, born)
      BY <2>2, SentGenuine
    <3> QED BY <1>0, <1>2, <1>3, <3>1
  <2>3. CASE RunStatement
    <3>1. queue # <<>> /\ Tail(queue) \in Seq(Op)
      BY <2>3, RunQueue
    <3>2. \A i \in DOMAIN Tail(queue) : OpGenuine(Tail(queue)[i], nextId', searched', born')
      BY <1>0, <1>2, <3>1, QueueTail
    <3>3. CASE queue' = Tail(queue)
      BY <3>2, <3>3
    <3>4. ASSUME NEW x \in Op, queue' = Append(Tail(queue), x), Follows(x)
          PROVE  \A i \in DOMAIN queue' : OpGenuine(queue'[i], nextId', searched', born')
      BY <1>3, <3>1, <3>2, <3>4, FollowsGenuine
    <3> QED BY <2>3, <3>3, <3>4, RunQueue
  <2>4. CASE MoveStep \/ UNCHANGED vars
    BY <2>1, <2>4, MoveFrame DEF vars
  <2> QED BY <2>2, <2>3, <2>4, NextSplit
<1> QED BY <1>4, TableGenuine, ScreensGenuine DEF RowsGenuine

(* The invariant of the stored and shown rows. *)
RowsInv == HisabiType /\ RowsGenuine /\ FilterMeaning

(* Every reachable state has genuine rows and a current filter. *)
LEMMA RowsInvariant == Spec => []RowsInv
<1>1. Init => RowsInv
  <2> SUFFICES ASSUME Init PROVE RowsInv
    OBVIOUS
  <2>1. table = {} /\ queue = <<>> /\ ~list.open /\ ~page.open
    BY DEF Init, Closed
  <2>2. RowsGenuine
    BY <2>1 DEF RowsGenuine
  <2> QED BY <2>1, <2>2, TypeInit DEF RowsInv, FilterMeaning
<1>2. RowsInv /\ [Next]_vars => RowsInv'
  BY TypeStep, GenuineStep, FilterStep DEF RowsInv
<1> QED BY <1>1, <1>2, PTL DEF Spec

(* Editing a product from the list keeps its creation time, however stale  *)
(* the list was, for any number of products, screens and statements.       *)
THEOREM CreationTimeKept == Spec => []CreatedAtKept
<1>1. RowsInv => CreatedAtKept
  BY DEF RowsInv, RowsGenuine, Genuine, CreatedAtKept
<1> QED BY <1>1, RowsInvariant, PTL

(* The list shows all it loaded, or exactly what its filter selects.       *)
THEOREM FilterIsCurrent == Spec => []FilterMeaning
<1>1. RowsInv => FilterMeaning
  BY DEF RowsInv
<1> QED BY <1>1, RowsInvariant, PTL

-----------------------------------------------------------------------------
(* Which page a statement belongs to: the ground of PopsOwnPage and of the *)
(* refinement.                                                             *)

(* Taking the oldest statement away, or adding one for a page that has     *)
(* none, leaves at most one statement per page.                            *)
LEMMA OnePerPageTail ==
  ASSUME NEW q \in Seq(Op), q # <<>>, OnePerPage(q)
  PROVE  /\ OnePerPage(Tail(q))
         /\ PageOp(Head(q)) => \A i \in DOMAIN Tail(q) :
               PageOp(Tail(q)[i]) => Tail(q)[i].no # Head(q).no
<1>1. ASSUME NEW i \in DOMAIN Tail(q), NEW j \in DOMAIN Tail(q), PageOp(Tail(q)[i]),
             PageOp(Tail(q)[j]), Tail(q)[i].no = Tail(q)[j].no
      PROVE  i = j
  <2>1. /\ i \in Nat /\ j \in Nat /\ i + 1 \in DOMAIN q /\ j + 1 \in DOMAIN q
        /\ Tail(q)[i] = q[i + 1] /\ Tail(q)[j] = q[j + 1]
    BY QueueTail
  <2>2. i + 1 = j + 1
    BY <1>1, <2>1 DEF OnePerPage
  <2> QED BY <2>1, <2>2
<1>2. ASSUME PageOp(Head(q)), NEW i \in DOMAIN Tail(q), PageOp(Tail(q)[i]), Tail(q)[i].no = Head(q).no
      PROVE  FALSE
  <2>1. /\ i \in Nat /\ 1 <= i /\ i + 1 \in DOMAIN q /\ Tail(q)[i] = q[i + 1]
        /\ 1 \in DOMAIN q /\ Head(q) = q[1]
    BY QueueTail
  <2>2. i + 1 = 1
    BY <1>2, <2>1 DEF OnePerPage
  <2> QED BY <2>1, <2>2
<1> QED BY <1>1, <1>2 DEF OnePerPage

(* Appending a statement keeps one statement per page if its page had      *)
(* none.                                                                   *)
LEMMA OnePerPageAppend ==
  ASSUME NEW q \in Seq(Op), NEW x \in Op, OnePerPage(q),
         PageOp(x) => \A i \in DOMAIN q : PageOp(q[i]) => q[i].no # x.no
  PROVE  OnePerPage(Append(q, x))
<1> DEFINE r == Append(q, x)
           n == Len(q) + 1
<1>1. /\ DOMAIN r = DOMAIN q \cup {n} /\ r[n] = x /\ n \notin DOMAIN q
      /\ \A i \in DOMAIN q : r[i] = q[i]
  BY QueueAppend
<1> HIDE DEF r, n
<1>2. OnePerPage(r)
  BY <1>1 DEF OnePerPage
<1> QED BY <1>2 DEF r

(* A page sends a statement only while it waits for none. *)
SentByPage(x) ==
    /\ page.open /\ ~page.loading /\ ~scanner.open /\ x.no = page.no
    /\ page' = [page EXCEPT !.loading = TRUE]

(* A statement that a page sends is sent by the open, idle page, which     *)
(* then waits.                                                             *)
LEMMA SentPageOp ==
  ASSUME HisabiType, SendStep
  PROVE  \E x \in Op : queue' = Append(queue, x) /\ (PageOp(x) => SentByPage(x))
<1> DEFINE Goal == \E x \in Op : queue' = Append(queue, x) /\ (PageOp(x) => SentByPage(x))
<1>1. ASSUME NEW x \in Op, queue' = Append(queue, x), PageOp(x) => SentByPage(x) PROVE Goal
  BY <1>1
<1> SUFFICES Goal
  OBVIOUS
<1> HIDE DEF Goal
<1>2. ASSUME NEW x \in Op, queue' = Append(queue, x), x.kind \in {"all", "lookup", "delete"}
      PROVE  Goal
  <2>1. ~PageOp(x)
    BY <1>2 DEF PageOp, SubmitKinds
  <2> QED BY <1>1, <1>2, <2>1
<1>3. ASSUME NEW b \in Barcodes, NEW c \in Categories, SubmitForm(b, c) PROVE Goal
  <2>1. ScreensType /\ page.open
    BY <1>3 DEF HisabiType, SubmitForm, SubmitEnabled, OnPage
  <2>2. SubmittedOp(b, c) \in Op /\ SubmittedOp(b, c).no = page.no
    BY <2>1, SubmittedFacts
  <2>3. SentByPage(SubmittedOp(b, c))
    BY <1>3, <2>2 DEF SentByPage, SubmitForm, SubmitEnabled, OnPage
  <2>4. queue' = Append(queue, SubmittedOp(b, c))
    BY <1>3, SendOps
  <2> QED BY <1>1, <2>2, <2>3, <2>4, Zenon
<1>4. CASE OpenList
  <2> DEFINE x == [kind |-> "all", no |-> NewNo]
  <2>1. x \in Op /\ queue' = Append(queue, x) /\ x.kind = "all"
    BY <1>4, SendOps
  <2> QED BY <1>2, <2>1
<1>5. CASE Refresh
  <2> DEFINE x == [kind |-> "all", no |-> list.no]
  <2>1. x \in Op /\ queue' = Append(queue, x) /\ x.kind = "all"
    BY <1>5, SendOps
  <2> QED BY <1>2, <2>1
<1>6. CASE BarcodeDetected
  <2> DEFINE x == [kind |-> "lookup", no |-> scanner.no]
  <2>1. x \in Op /\ queue' = Append(queue, x) /\ x.kind = "lookup"
    BY <1>6, SendOps
  <2> QED BY <1>2, <2>1
<1>7. CASE ConfirmDelete
  <2>1. Deletion \in Op /\ queue' = Append(queue, Deletion) /\ Deletion.kind = "delete"
    BY <1>7, SendOps DEF Deletion
  <2> QED BY <1>2, <2>1
<1>8. ASSUME NEW id \in 1 .. MaxSubmits, SearchProductById(id) PROVE Goal
  <2> DEFINE x == [kind |-> "search", no |-> page.no, id |-> id]
  <2>1. x \in Op /\ queue' = Append(queue, x) /\ x.no = page.no
    BY <1>8, SendOps
  <2>2. SentByPage(x)
    BY <1>8, <2>1 DEF SentByPage, SearchProductById, SearchEnabled, OnPage
  <2> HIDE DEF x
  <2> QED BY <1>1, <2>1, <2>2
<1> QED BY <1>3, <1>4, <1>5, <1>6, <1>7, <1>8 DEF SendStep

(* What a page's statement sends is the write of the same page's submit. *)
LEMMA FollowsPageOp ==
  ASSUME HisabiType, queue # <<>>, NEW x \in Op, Follows(x), PageOp(x)
  PROVE  /\ RunInsertCheck \/ RunUpdateCheck
         /\ PageOp(Head(queue)) /\ Head(queue).kind \in SubmitKinds /\ x.kind \in SubmitKinds
         /\ x.no = Head(queue).no /\ x.row = Head(queue).row
<1>0. Head(queue) \in Op
  BY QueueTail DEF HisabiType, QueueType
<1>1. CASE x = [kind |-> "all", no |-> list.no]
  BY <1>1 DEF PageOp, SubmitKinds
<1>5. CASE x = Deletion
  BY <1>5 DEF PageOp, SubmitKinds, Deletion
<1>2. CASE x = [kind |-> "categories", no |-> Head(queue).no, rows |-> table]
  BY <1>2 DEF PageOp, SubmitKinds
<1>3. CASE RunInsertCheck /\ x = [Head(queue) EXCEPT !.kind = "insert"]
  <2>1. Head(queue).kind \in SubmitKinds
    BY <1>3 DEF RunInsertCheck, Running, SubmitKinds
  <2>2. Head(queue) \in SubmitOp
    BY <1>0, <2>1, OpKinds
  <2>3. x.kind = "insert" /\ x.no = Head(queue).no /\ x.row = Head(queue).row
    BY <1>3, <2>2, HandedOn DEF SubmitKinds
  <2> QED BY <1>3, <2>1, <2>3 DEF PageOp, SubmitKinds
<1>4. CASE RunUpdateCheck /\ x = [Head(queue) EXCEPT !.kind = "update"]
  <2>1. Head(queue).kind \in SubmitKinds
    BY <1>4 DEF RunUpdateCheck, Running, SubmitKinds
  <2>2. Head(queue) \in SubmitOp
    BY <1>0, <2>1, OpKinds
  <2>3. x.kind = "update" /\ x.no = Head(queue).no /\ x.row = Head(queue).row
    BY <1>4, <2>2, HandedOn DEF SubmitKinds
  <2> QED BY <1>4, <2>1, <2>3 DEF PageOp, SubmitKinds
<1> QED BY <1>1, <1>2, <1>3, <1>4, <1>5 DEF Follows

(* A page's statement in the queue after a step was there before, or is    *)
(* the write that follows the check just run, or was sent by the open page *)
(* in this step.                                                           *)
CameFrom(i, j) ==
    /\ PageOp(queue[j]) /\ queue[j].no = queue'[i].no
    /\ queue'[i].kind \in SubmitKinds => queue[j].kind \in SubmitKinds
    /\ j = 1 /\ RunStatement =>
          queue' # Tail(queue) /\ (RunInsertCheck \/ RunUpdateCheck)

(* The origin of every page statement of the next queue. *)
LEMMA PageOpOrigin ==
  ASSUME HisabiType, [Next]_vars, NEW i \in DOMAIN queue', PageOp(queue'[i])
  PROVE  (\E j \in DOMAIN queue : CameFrom(i, j)) \/ SentByPage(queue'[i])
<1>0. queue \in Seq(Op)
  BY DEF HisabiType, QueueType
<1>1. CASE queue' = queue /\ ~RunStatement
  <2>1. CameFrom(i, i)
    BY <1>1 DEF CameFrom
  <2> QED BY <1>1, <2>1
<1>2. CASE SendStep /\ ~RunStatement
  <2>1. PICK x \in Op : queue' = Append(queue, x) /\ (PageOp(x) => SentByPage(x))
    BY <1>2, SentPageOp
  <2>2. CASE i \in DOMAIN queue
    <3>1. queue'[i] = queue[i]
      BY <1>0, <2>1, <2>2, QueueAppend
    <3>2. CameFrom(i, i)
      BY <1>2, <3>1 DEF CameFrom
    <3> QED BY <2>2, <3>2
  <2>3. CASE i \notin DOMAIN queue
    <3>1. queue'[i] = x
      BY <1>0, <2>1, <2>3, QueueAppend
    <3> QED BY <2>1, <3>1
  <2> QED BY <2>2, <2>3
<1>3. CASE RunStatement
  <2>1. queue # <<>> /\ Tail(queue) \in Seq(Op) /\ Head(queue) = queue[1] /\ 1 \in DOMAIN queue
    BY <1>0, <1>3, RunQueue, QueueTail
  <2>2. ASSUME i \in DOMAIN Tail(queue), queue'[i] = Tail(queue)[i]
        PROVE  \E j \in DOMAIN queue : CameFrom(i, j)
    <3>1. i \in Nat /\ 1 <= i /\ i + 1 \in DOMAIN queue /\ queue'[i] = queue[i + 1]
      BY <1>0, <2>1, <2>2, QueueTail
    <3>2. i + 1 # 1
      BY <3>1
    <3>3. CameFrom(i, i + 1)
      BY <3>1, <3>2 DEF CameFrom
    <3> QED BY <3>1, <3>3
  <2>3. CASE queue' = Tail(queue)
    BY <2>2, <2>3
  <2>4. ASSUME NEW x \in Op, queue' = Append(Tail(queue), x), Follows(x)
        PROVE  \E j \in DOMAIN queue : CameFrom(i, j)
    <3>1. CASE i \in DOMAIN Tail(queue)
      <4>1. queue'[i] = Tail(queue)[i]
        BY <2>1, <2>4, <3>1, QueueAppend
      <4> QED BY <2>2, <3>1, <4>1
    <3>2. CASE i \notin DOMAIN Tail(queue)
      <4>1. queue'[i] = x
        BY <2>1, <2>4, <3>2, QueueAppend
      <4>2. queue' # Tail(queue)
        BY <3>2
      <4>3. CameFrom(i, 1)
        BY <2>1, <2>4, <4>1, <4>2, FollowsPageOp DEF CameFrom
      <4> QED BY <2>1, <4>3
    <3> QED BY <3>1, <3>2
  <2> QED BY <1>3, <2>3, <2>4, RunQueue
<1>4. CASE (MoveStep \/ UNCHANGED vars) /\ ~RunStatement
  BY <1>1, <1>4, MoveFrame DEF vars
<1> QED BY <1>2, <1>3, <1>4, NextSplit

(* The auxiliary left is never taken back, and the scanner is opened only  *)
(* by the page's button.                                                   *)
LEMMA LeftAndScanner ==
  ASSUME HisabiType, [Next]_vars
  PROVE  /\ left => left'
         /\ scanner'.open => scanner.open \/ ScanBarcode
<1>0. scanner.open \in BOOLEAN /\ scanner \in [open : BOOLEAN, no : 0 .. MaxScreens]
  BY DEF HisabiType, ScreensType
<1>1. \/ left' = left \/ left' = (left \/ page.loading)
  BY DEF Next, LeaveHisabi, EnterHisabi, OpenAddPage, OpenList, EditProduct, DeleteProduct,
         CancelDelete, ConfirmDelete, CloseList, ClosePage, ExitEnds, Filter, Refresh, SearchProductById, ClearForm,
         ScanBarcode, CloseScanner, ScannerDisposed, BarcodeDetected, SubmitForm,
         RunStatement, RunInsertCheck, RunInsert, RunUpdateCheck, RunUpdate, RunDelete, RunAll,
         RunCategories, RunSearch, RunLookup, vars
<1>2. \/ scanner' = scanner \/ scanner' = [scanner EXCEPT !.open = FALSE] \/ scanner' = Closed
      \/ ScanBarcode
  BY DEF Next, LeaveHisabi, EnterHisabi, OpenAddPage, OpenList, EditProduct, DeleteProduct,
         CancelDelete, ConfirmDelete, CloseList, ClosePage, ExitEnds, Filter, Refresh, SearchProductById, ClearForm,
         CloseScanner, ScannerDisposed, BarcodeDetected, SubmitForm, dialog,
         RunStatement, RunInsertCheck, RunInsert, RunUpdateCheck, RunUpdate, RunDelete, RunAll,
         RunCategories, RunSearch, RunLookup, vars, SubmitFails, SubmitSucceeds, PopTop
<1>3. left => left'
  BY <1>1, Zenon
<1>4. ASSUME scanner' = [scanner EXCEPT !.open = FALSE] \/ scanner' = Closed PROVE ~scanner'.open
  BY <1>0, <1>4 DEF Closed
<1> QED BY <1>2, <1>3, <1>4

(* A page goes on waiting for one statement at a time. *)
LEMMA WaitsStep ==
  ASSUME HisabiType, PageWaits, [Next]_vars
  PROVE  PageWaits'
<1>0. /\ queue \in Seq(Op) /\ OnePerPage(queue)
      /\ page.open => \A j \in DOMAIN queue :
            PageOp(queue[j]) /\ queue[j].no = page.no => page.loading
  BY DEF HisabiType, QueueType, PageWaits
<1>1. OnePerPage(queue')
  <2>1. CASE queue' = queue
    BY <1>0, <2>1
  <2>2. CASE SendStep
    <3>1. PICK x \in Op : queue' = Append(queue, x) /\ (PageOp(x) => SentByPage(x))
      BY <2>2, SentPageOp
    <3>2. PageOp(x) => \A i \in DOMAIN queue : PageOp(queue[i]) => queue[i].no # x.no
      BY <1>0, <3>1 DEF SentByPage
    <3> QED BY <1>0, <3>1, <3>2, OnePerPageAppend
  <2>3. CASE RunStatement
    <3>1. queue # <<>> /\ Tail(queue) \in Seq(Op)
      BY <2>3, RunQueue
    <3>2. /\ OnePerPage(Tail(queue))
          /\ PageOp(Head(queue)) => \A i \in DOMAIN Tail(queue) :
               PageOp(Tail(queue)[i]) => Tail(queue)[i].no # Head(queue).no
      BY <1>0, <3>1, OnePerPageTail
    <3>3. ASSUME NEW x \in Op, queue' = Append(Tail(queue), x), Follows(x)
          PROVE  OnePerPage(queue')
      <4>1. PageOp(x) => PageOp(Head(queue)) /\ x.no = Head(queue).no
        BY <3>1, <3>3, FollowsPageOp
      <4> QED BY <3>1, <3>2, <3>3, <4>1, OnePerPageAppend
    <3> QED BY <2>3, <3>2, <3>3, RunQueue
  <2>4. CASE MoveStep \/ UNCHANGED vars
    BY <2>1, <2>4, MoveFrame DEF vars
  <2> QED BY <2>2, <2>3, <2>4, NextSplit
<1>2. ASSUME page'.open, NEW i \in DOMAIN queue', PageOp(queue'[i]), queue'[i].no = page'.no
      PROVE  page'.loading
  <2>1. CASE SentByPage(queue'[i])
    <3>1. page \in OpenedPage /\ page' = [page EXCEPT !.loading = TRUE]
      BY <2>1, Shapes DEF SentByPage, HisabiType
    <3> QED BY <3>1, PageLoading
  <2>2. ASSUME NEW j \in DOMAIN queue, CameFrom(i, j) PROVE page'.loading
    <3>1. CASE Opening
      <4>1. queue[j].no # NewNo
        BY <3>1, NewNoFacts DEF Opening
      <4> QED BY <1>2, <2>2, <3>1, <4>1 DEF Opening, CameFrom
    <3>2. CASE Staying
      <4>1. page.loading
        BY <1>0, <1>2, <2>2, <3>2 DEF Staying, CameFrom
      <4>2. CASE /\ page'.loading = FALSE /\ RunStatement /\ queue' = Tail(queue)
                 /\ PageOp(Head(queue)) /\ Head(queue).no = page.no
        <5>1. queue # <<>>
          BY <4>2, RunQueue
        <5>2. 1 \in DOMAIN queue /\ Head(queue) = queue[1]
          BY <1>0, <5>1, QueueTail
        <5>3. j = 1
          BY <1>0, <1>2, <2>2, <3>2, <4>2, <5>2 DEF OnePerPage, CameFrom, Staying
        <5> QED BY <2>2, <4>2, <5>3 DEF CameFrom
      <4> QED BY <3>2, <4>1, <4>2 DEF Staying
    <3>3. ~Closing
      BY <1>2, Shapes DEF Closing, HisabiType
    <3> QED BY <1>2, <3>1, <3>2, <3>3, PageStep
  <2> QED BY <1>2, <2>1, <2>2, PageOpOrigin
<1> QED BY <1>1, <1>2 DEF PageWaits

(* Without a page left behind, every submit still has its page. *)
LEMMA SubmitterStep ==
  ASSUME HisabiType, PageWaits, SubmitterOpen, [Next]_vars
  PROVE  SubmitterOpen'
<1> SUFFICES ASSUME ~left', NEW i \in DOMAIN queue', queue'[i].kind \in SubmitKinds
             PROVE  page'.open /\ page'.no = queue'[i].no
  BY DEF SubmitterOpen
<1>0. /\ queue \in Seq(Op) /\ OnePerPage(queue) /\ ~left
      /\ page.open => \A j \in DOMAIN queue :
            PageOp(queue[j]) /\ queue[j].no = page.no => page.loading
      /\ \A j \in DOMAIN queue : queue[j].kind \in SubmitKinds =>
            page.open /\ page.no = queue[j].no
  BY LeftAndScanner DEF HisabiType, QueueType, PageWaits, SubmitterOpen
<1>1. PageOp(queue'[i])
  BY DEF PageOp
<1>2. CASE SentByPage(queue'[i])
  <2>1. page \in OpenedPage /\ page' = [page EXCEPT !.loading = TRUE]
    BY <1>2, Shapes DEF SentByPage, HisabiType
  <2>2. page'.open = TRUE /\ page'.no = page.no
    BY <2>1, PageLoading
  <2> QED BY <1>2, <2>2 DEF SentByPage
<1>3. ASSUME NEW j \in DOMAIN queue, CameFrom(i, j)
      PROVE  page'.open /\ page'.no = queue'[i].no
  <2>1. queue[j].kind \in SubmitKinds /\ queue[j].no = queue'[i].no /\ PageOp(queue[j])
    BY <1>3 DEF CameFrom
  <2>2. page.open /\ page.no = queue'[i].no /\ page.loading
    BY <1>0, <2>1
  <2>3. CASE Closing
    <3>1. RunInsert \/ RunUpdate
      <4>1. left' = (left \/ page.loading) => left'
        BY <2>2, Zenon
      <4> QED BY <2>3, <4>1 DEF Closing
    <3>2. /\ RunStatement /\ ~RunInsertCheck /\ ~RunUpdateCheck /\ queue # <<>>
          /\ Head(queue).kind \in SubmitKinds
      BY <3>1 DEF RunStatement, RunInsert, RunUpdate, RunInsertCheck, RunUpdateCheck, Running,
                  SubmitKinds
    <3>3. 1 \in DOMAIN queue /\ Head(queue) = queue[1]
      BY <1>0, <3>2, QueueTail
    <3>4. PageOp(queue[1]) /\ queue[1].no = page.no
      BY <1>0, <3>2, <3>3 DEF PageOp
    <3>5. j = 1
      BY <1>0, <2>1, <2>2, <3>3, <3>4 DEF OnePerPage
    <3> QED BY <1>3, <3>2, <3>5 DEF CameFrom
  <2>4. CASE Staying
    BY <2>2, <2>4 DEF Staying
  <2> QED BY <2>2, <2>3, <2>4, PageStep DEF Opening
<1> QED BY <1>1, <1>2, <1>3, PageOpOrigin

(* The scanner lies only on a page that waits for nothing. *)
LEMMA ScannerStep ==
  ASSUME HisabiType, ScannerIdle, [Next]_vars
  PROVE  ScannerIdle'
<1> SUFFICES ASSUME scanner'.open PROVE ~page'.loading
  BY DEF ScannerIdle
<1>1. page'.open
  BY TypeStep DEF HisabiType, ScreensType
<1>2. scanner.open \/ ScanBarcode
  BY LeftAndScanner
<1>3. page.open /\ ~page.loading
  BY <1>2 DEF ScannerIdle, ScanBarcode, SubmitEnabled, OnPage, HisabiType, ScreensType
<1>4. CASE Staying
  BY <1>3, <1>4 DEF Staying
<1>5. ~Closing
  BY <1>1, Shapes DEF Closing, HisabiType
<1> QED BY <1>1, <1>3, <1>4, <1>5, PageStep DEF Opening

(* The invariant of the pages and their statements. *)
PagesInv == HisabiType /\ PageWaits /\ SubmitterOpen /\ ScannerIdle

(* Every reachable state keeps the pages and their statements in step. *)
LEMMA PagesInvariant == Spec => []PagesInv
<1>1. Init => PagesInv
  <2> SUFFICES ASSUME Init PROVE PagesInv
    OBVIOUS
  <2>1. queue = <<>> /\ ~page.open /\ ~scanner.open
    BY DEF Init, Closed
  <2>2. PageWaits /\ SubmitterOpen /\ ScannerIdle
    BY <2>1 DEF PageWaits, OnePerPage, SubmitterOpen, ScannerIdle
  <2> QED BY <2>2, TypeInit DEF PagesInv
<1>2. PagesInv /\ [Next]_vars => PagesInv'
  BY TypeStep, WaitsStep, SubmitterStep, ScannerStep DEF PagesInv
<1> QED BY <1>1, <1>2, PTL DEF Spec

(* With no page left behind, the page of the submit that is running is     *)
(* open, waits for it, and nothing lies on it.                             *)
LEMMA SubmitterOnTop ==
  ASSUME PagesInv, ~left, queue # <<>>, Head(queue).kind \in SubmitKinds
  PROVE  page.open /\ page.no = Head(queue).no /\ page.loading /\ ~scanner.open
<1>1. 1 \in DOMAIN queue /\ Head(queue) = queue[1]
  BY QueueTail DEF PagesInv, HisabiType, QueueType
<1>2. page.open /\ page.no = queue[1].no
  BY <1>1 DEF PagesInv, SubmitterOpen
<1>3. page.loading
  BY <1>1, <1>2 DEF PagesInv, PageWaits, PageOp
<1> QED BY <1>1, <1>2, <1>3 DEF PagesInv, ScannerIdle

(* For any number of screens and statements: as long as no page is closed  *)
(* with its submit running and no barcode comes to a closing dialog, a     *)
(* finished submit pops its own page and a barcode its dialog, and a       *)
(* delete dialog is answered by the user alone.                            *)
THEOREM OwnPagePopped == Spec => PopsOwnPage
<1> DEFINE Own == /\ home /\ ~home' => LeaveHisabi
                  /\ list.open /\ ~list'.open => CloseList
                  /\ list.open /\ list'.open /\ list.asking # None /\ list'.asking = None =>
                        CancelDelete \/ ConfirmDelete
                  /\ page.open /\ ~page'.open =>
                        ClosePage \/ (RunStatement /\ Head(queue).no = page.no)
<1>1. ASSUME PagesInv, Next, ~left, ~late' PROVE Own
  <2>0. /\ list.open => list \in OpenedList
        /\ list \in OpenedList \cup {Closed} /\ page \in OpenedPage \cup {Closed}
        /\ scanner.open => page.open
        /\ HisabiType
    BY <1>1, Shapes DEF PagesInv, HisabiType, ScreensType
  <2>1. CASE /\ home' = home /\ list'.open = list.open /\ page'.open = page.open
             /\ list.open => list'.asking = list.asking
    BY <2>1
  <2>2. CASE MoveStep
    <3>1. CASE ClosePage
      BY <3>1 DEF ClosePage
    <3>2. CASE CloseList
      BY <3>2 DEF CloseList, Closed
    <3>3. CASE LeaveHisabi
      BY <3>3 DEF LeaveHisabi
    <3>4. CASE ~ClosePage /\ ~CloseList /\ ~LeaveHisabi
      <4>1. home => home'
        BY <2>2, <3>4 DEF MoveStep, EnterHisabi, OpenAddPage, ClearForm, EditProduct, ExitEnds,
                     DeleteProduct, CancelDelete, Filter, ScanBarcode, CloseScanner,
                     ScannerDisposed
      <4>2. /\ list.open => list'.open
            /\ list.open /\ list.asking # None /\ list'.asking = None => CancelDelete
        <5>1. ASSUME NEW q \in Queries \cup {None}, NEW s \in Chips \cup {None}, Filter(q, s)
              PROVE  list'.open /\ list'.asking = list.asking
          BY <2>0, <5>1, FilterFacts DEF HisabiType
        <5>2. ASSUME NEW r \in (IF list.open THEN list.filtered ELSE {}), DeleteProduct(r)
              PROVE  list'.open /\ list.asking = None
          BY <2>0, <5>2 DEF DeleteProduct, CardShown, RowsShown, OnList, OpenedList
        <5>3. CancelDelete => list'.open
          BY <2>0, DialogFacts DEF CancelDelete, HisabiType
        <5>4. \/ list' = list \/ CancelDelete
              \/ \E r \in (IF list.open THEN list.filtered ELSE {}) : DeleteProduct(r)
              \/ \E q \in Queries \cup {None}, s \in Chips \cup {None} : Filter(q, s)
          BY <2>2, <3>4 DEF MoveStep, EnterHisabi, OpenAddPage, ClearForm, EditProduct,
                     ExitEnds, ScanBarcode, CloseScanner, ScannerDisposed
        <5> QED BY <5>1, <5>2, <5>3, <5>4
      <4>3. page.open => page'.open
        <5>1. ASSUME ClearForm, page.open PROVE page'.open
          BY <2>0, <5>1, Shapes DEF ClearForm, OpenedPage, HisabiType
        <5> QED BY <2>2, <3>4, <5>1 DEF MoveStep, EnterHisabi, OpenAddPage, EditProduct,
                     DeleteProduct, CancelDelete, ExitEnds, Filter, ScanBarcode, CloseScanner, ScannerDisposed, OnHome,
                     CardShown, RowsShown, OnList
      <4> QED BY <4>1, <4>2, <4>3
    <3> QED BY <3>1, <3>2, <3>3, <3>4
  <2>3. CASE BarcodeDetected
    <3>1. scanner.open
      BY <1>1, <2>3, Zenon DEF BarcodeDetected
    <3>2. UNCHANGED <<page, list, home>>
      BY <2>0, <2>3, <3>1 DEF BarcodeDetected, OnPage, OnDialog, OnList
    <3> QED BY <2>1, <3>2
  <2>4. CASE SendStep /\ ~BarcodeDetected
    <3>1. home' = home
      BY <2>4 DEF SendStep, OpenList, Refresh, ConfirmDelete, SearchProductById, SubmitForm
    <3>2. /\ list.open => list'.open
          /\ list.open /\ list.asking # None /\ list'.asking = None => ConfirmDelete
      <4>1. CASE OpenList
        BY <4>1 DEF OpenList, OnHome
      <4>2. CASE list' = Loading(list)
        BY <2>0, <4>2, LoadingFacts
      <4>3. CASE ConfirmDelete
        BY <2>0, <4>3, DialogFacts DEF ConfirmDelete, HisabiType
      <4> QED BY <2>4, <4>1, <4>2, <4>3 DEF SendStep, Refresh, SearchProductById, SubmitForm
    <3>3. page.open => page'.open
      <4>1. ASSUME page.open, page' = [page EXCEPT !.loading = TRUE] PROVE page'.open
        BY <2>0, <4>1, Shapes, PageLoading DEF HisabiType
      <4> QED BY <2>4, <4>1 DEF SendStep, OpenList, Refresh, ConfirmDelete, SearchProductById,
                                SubmitForm
    <3> QED BY <3>1, <3>2, <3>3
  <2>5. CASE RunStatement
    <3>1. CASE /\ RunInsert \/ RunUpdate
               /\ SubmitSucceeds(Head(queue), Tail(queue))
      <4>1. queue # <<>> /\ Head(queue).kind \in SubmitKinds
        BY <3>1 DEF RunInsert, RunUpdate, Running, SubmitKinds
      <4>2. page.open /\ page.no = Head(queue).no /\ page.loading /\ ~scanner.open
        BY <1>1, <4>1, SubmitterOnTop
      <4>3. list' = Loading(list) /\ home' = home
        BY <3>1, <4>2 DEF SubmitSucceeds, Mounted, PopTop, OnPage, OnDialog, OnList
      <4>4. list'.open = list.open /\ (list.open => list'.asking = list.asking)
        BY <2>0, <4>3, LoadingFacts
      <4> QED BY <2>5, <4>2, <4>3, <4>4
    <3>2. CASE SubmitFails(Head(queue), Tail(queue))
      BY <2>0, <2>1, <3>2, NoLongerLoadingFacts DEF SubmitFails, HisabiType
    <3>3. CASE RunInsertCheck \/ RunUpdateCheck
      BY <2>1, <3>2, <3>3 DEF RunInsertCheck, RunUpdateCheck
    <3>4. CASE RunInsert \/ RunUpdate
      BY <3>1, <3>2, <3>4 DEF RunInsert, RunUpdate
    <3>5. CASE RunDelete
      BY <2>0, <2>1, <3>5, LoadingFacts DEF RunDelete
    <3>6. CASE RunAll \/ RunLookup
      <4>1. /\ LoadFails(Head(queue)).open = list.open
            /\ list.open => LoadFails(Head(queue)).asking = list.asking
        BY <2>0, LoadFailsFacts DEF HisabiType
      <4> QED BY <2>1, <3>6, <4>1 DEF RunAll, RunLookup
    <3>7. CASE RunCategories
      <4>1. Head(queue).rows \in SUBSET Row
        BY <2>0, <3>7, RunningOp DEF RunCategories, HisabiType
      <4>2. AllCategories(table) \in SUBSET Categories /\ {} \in SUBSET Categories
        BY <2>0 DEF AllCategories, HisabiType, DatabaseType, Row
      <4>4. ASSUME NEW c \in SUBSET Categories,
                   NEW m \in {"nothing", "categories", "products"}
            PROVE  /\ Loaded(Head(queue), c, m).open = list.open
                   /\ list.open => Loaded(Head(queue), c, m).asking = list.asking
        <5>1. ScreensType
          BY <2>0 DEF HisabiType
        <5>2. Loaded(Head(queue), c, m).open = list.open
          BY <4>1, <5>1, LoadedFacts
        <5>3. CASE Awaits(Head(queue))
          <6>1. Loaded(Head(queue), c, m).asking = list.asking
            BY <4>1, <5>1, <5>3, LoadedFacts
          <6> QED BY <5>2, <6>1
        <5>4. CASE ~Awaits(Head(queue))
          BY <5>4 DEF Loaded
        <5> QED BY <5>3, <5>4
      <4>3. list'.open = list.open /\ (list.open => list'.asking = list.asking)
        BY <3>7, <4>2, <4>4 DEF RunCategories
      <4> QED BY <2>1, <3>7, <4>3 DEF RunCategories
    <3>8. CASE RunSearch
      <4>1. /\ NoLongerLoading(Head(queue)).open = page.open
            /\ page.open => NoLongerLoading(Head(queue)) \in OpenedPage
        BY <2>0, NoLongerLoadingFacts DEF HisabiType
      <4>2. page.open => page'.open
        BY <3>8, <4>1 DEF RunSearch, OpenedPage
      <4> QED BY <3>8, <4>2 DEF RunSearch
    <3> QED BY <2>5, <3>3, <3>4, <3>5, <3>6, <3>7, <3>8 DEF RunStatement
  <2> QED BY <1>1, <2>2, <2>3, <2>4, <2>5, NextSplit
<1>2. PagesInv /\ [Next]_vars =>
        [~left /\ ~late' =>
           /\ home /\ ~home' => LeaveHisabi
           /\ list.open /\ ~list'.open => CloseList
           /\ list.open /\ list'.open /\ list.asking # None /\ list'.asking = None =>
                 CancelDelete \/ ConfirmDelete
           /\ page.open /\ ~page'.open =>
                 ClosePage \/ (RunStatement /\ Head(queue).no = page.no)]_vars
  BY <1>1
<1> QED BY <1>2, PagesInvariant, PTL DEF Spec, PopsOwnPage

-----------------------------------------------------------------------------
(* The refinement: the submits in a queue, and what a step does to them.   *)

SubmitOf(op) == [no |-> op.no, row |-> op.row]

Pend(q) == {SubmitOf(q[i]) : i \in {j \in DOMAIN q : q[j].kind \in SubmitKinds}}

(* The submits of the refinement mapping are those of the queue. *)
LEMMA PendingIs == PendingSubmits = Pend(queue) /\ PendingSubmits' = Pend(queue')
  BY DEF PendingSubmits, Pend, SubmitOf, SubmitKinds

(* A submit is pending when a statement of the queue carries it. *)
LEMMA PendMember ==
  ASSUME NEW q, NEW s
  PROVE  s \in Pend(q) <=> \E i \in DOMAIN q : q[i].kind \in SubmitKinds /\ s = SubmitOf(q[i])
  BY DEF Pend

(* A submit names the page and the row of its statement. *)
LEMMA SubmitOfFacts ==
  ASSUME NEW op
  PROVE  SubmitOf(op).no = op.no /\ SubmitOf(op).row = op.row
  BY DEF SubmitOf

(* A statement at the end adds its submit, if it is one. *)
LEMMA PendAppend ==
  ASSUME NEW q \in Seq(Op), NEW x \in Op
  PROVE  /\ x.kind \in SubmitKinds => Pend(Append(q, x)) = Pend(q) \cup {SubmitOf(x)}
         /\ x.kind \notin SubmitKinds => Pend(Append(q, x)) = Pend(q)
<1> DEFINE r == Append(q, x)
           n == Len(q) + 1
<1>1. /\ DOMAIN r = DOMAIN q \cup {n} /\ r[n] = x /\ n \notin DOMAIN q
      /\ \A i \in DOMAIN q : r[i] = q[i]
  BY QueueAppend
<1> HIDE DEF r, n
<1>2. \A s : s \in Pend(r) <=> s \in Pend(q) \/ (x.kind \in SubmitKinds /\ s = SubmitOf(x))
  BY <1>1, PendMember
<1>3. x.kind \in SubmitKinds => Pend(r) = Pend(q) \cup {SubmitOf(x)}
  BY <1>2
<1>4. x.kind \notin SubmitKinds => Pend(r) = Pend(q)
  BY <1>2
<1> QED BY <1>3, <1>4 DEF r

(* The oldest statement takes its submit away, which no other one is. *)
LEMMA PendTail ==
  ASSUME NEW q \in Seq(Op), q # <<>>, OnePerPage(q)
  PROVE  /\ Head(q).kind \in SubmitKinds =>
               /\ SubmitOf(Head(q)) \in Pend(q)
               /\ Pend(Tail(q)) = Pend(q) \ {SubmitOf(Head(q))}
         /\ Head(q).kind \notin SubmitKinds => Pend(Tail(q)) = Pend(q)
<1>1. /\ 1 \in DOMAIN q /\ Head(q) = q[1]
      /\ \A i \in DOMAIN Tail(q) : i + 1 \in DOMAIN q /\ Tail(q)[i] = q[i + 1]
      /\ \A i \in DOMAIN q : i # 1 => i - 1 \in DOMAIN Tail(q) /\ Tail(q)[i - 1] = q[i]
  BY QueueTail
<1>2. \A s : s \in Pend(q) <=> \/ s \in Pend(Tail(q))
                               \/ Head(q).kind \in SubmitKinds /\ s = SubmitOf(Head(q))
  <2> SUFFICES ASSUME NEW s
               PROVE  s \in Pend(q) <=> \/ s \in Pend(Tail(q))
                                        \/ Head(q).kind \in SubmitKinds /\ s = SubmitOf(Head(q))
    OBVIOUS
  <2>1. ASSUME s \in Pend(q)
        PROVE  s \in Pend(Tail(q)) \/ (Head(q).kind \in SubmitKinds /\ s = SubmitOf(Head(q)))
    <3>1. PICK i \in DOMAIN q : q[i].kind \in SubmitKinds /\ s = SubmitOf(q[i])
      BY <2>1, PendMember
    <3>2. CASE i # 1
      <4>1. i - 1 \in DOMAIN Tail(q) /\ Tail(q)[i - 1] = q[i]
        BY <1>1, <3>2
      <4> QED BY <3>1, <4>1, PendMember
    <3> QED BY <1>1, <3>1, <3>2
  <2>2. ASSUME s \in Pend(Tail(q)) PROVE s \in Pend(q)
    <3>1. PICK i \in DOMAIN Tail(q) : Tail(q)[i].kind \in SubmitKinds /\ s = SubmitOf(Tail(q)[i])
      BY <2>2, PendMember
    <3>2. i + 1 \in DOMAIN q /\ Tail(q)[i] = q[i + 1]
      BY <1>1
    <3> QED BY <3>1, <3>2, PendMember
  <2>3. ASSUME Head(q).kind \in SubmitKinds, s = SubmitOf(Head(q)) PROVE s \in Pend(q)
    BY <1>1, <2>3, PendMember
  <2> QED BY <2>1, <2>2, <2>3
<1>3. Head(q).kind \in SubmitKinds => SubmitOf(Head(q)) \notin Pend(Tail(q))
  <2> SUFFICES ASSUME Head(q).kind \in SubmitKinds, SubmitOf(Head(q)) \in Pend(Tail(q)) PROVE FALSE
    OBVIOUS
  <2>1. PICK i \in DOMAIN Tail(q) :
           Tail(q)[i].kind \in SubmitKinds /\ SubmitOf(Head(q)) = SubmitOf(Tail(q)[i])
    BY PendMember
  <2>2. Tail(q)[i].no = Head(q).no
    BY <2>1, SubmitOfFacts
  <2> QED BY <2>1, <2>2, OnePerPageTail DEF PageOp
<1> QED BY <1>2, <1>3

(* A statement that runs takes its submit away, unless it is a check that  *)
(* hands it on; a statement that is no submit changes none.                *)
LEMMA PendRun ==
  ASSUME PagesInv, RunStatement
  PROVE  /\ Head(queue).kind \notin SubmitKinds => Pend(queue') = Pend(queue)
         /\ Head(queue).kind \in SubmitKinds =>
               /\ SubmitOf(Head(queue)) \in Pend(queue)
               /\ (queue' = Tail(queue) \/ RunInsert \/ RunUpdate) =>
                     Pend(queue') = Pend(queue) \ {SubmitOf(Head(queue))}
               /\ queue' # Tail(queue) /\ (RunInsertCheck \/ RunUpdateCheck) =>
                     Pend(queue') = Pend(queue)
<1>0. HisabiType /\ queue \in Seq(Op) /\ OnePerPage(queue)
  BY DEF PagesInv, HisabiType, QueueType, PageWaits
<1>1. queue # <<>> /\ Head(queue) \in Op /\ Tail(queue) \in Seq(Op)
  BY <1>0, RunQueue
<1>2. /\ Head(queue).kind \in SubmitKinds =>
            /\ SubmitOf(Head(queue)) \in Pend(queue)
            /\ Pend(Tail(queue)) = Pend(queue) \ {SubmitOf(Head(queue))}
      /\ Head(queue).kind \notin SubmitKinds => Pend(Tail(queue)) = Pend(queue)
  BY <1>0, <1>1, PendTail
<1>3. CASE queue' = Tail(queue)
  BY <1>2, <1>3
<1>4. ASSUME NEW x \in Op, queue' = Append(Tail(queue), x), Follows(x)
      PROVE  /\ Head(queue).kind \notin SubmitKinds => Pend(queue') = Pend(queue)
             /\ Head(queue).kind \in SubmitKinds =>
                   /\ (queue' = Tail(queue) \/ RunInsert \/ RunUpdate) =>
                         Pend(queue') = Pend(queue) \ {SubmitOf(Head(queue))}
                   /\ queue' # Tail(queue) /\ (RunInsertCheck \/ RunUpdateCheck) =>
                         Pend(queue') = Pend(queue)
  <2>1. CASE x.kind \in SubmitKinds
    <3>1. /\ RunInsertCheck \/ RunUpdateCheck
          /\ Head(queue).kind \in SubmitKinds
          /\ x.no = Head(queue).no /\ x.row = Head(queue).row
      BY <1>0, <1>1, <1>4, <2>1, FollowsPageOp DEF PageOp
    <3>2. ~RunInsert /\ ~RunUpdate
      BY <3>1 DEF RunInsertCheck, RunUpdateCheck, RunInsert, RunUpdate, Running
    <3>3. SubmitOf(x) = SubmitOf(Head(queue))
      BY <3>1 DEF SubmitOf
    <3>4. Pend(queue') = Pend(Tail(queue)) \cup {SubmitOf(Head(queue))}
      BY <1>1, <1>4, <2>1, <3>3, PendAppend
    <3>5. queue' # Tail(queue)
      BY <1>1, <1>4
    <3> QED BY <1>2, <3>1, <3>2, <3>4, <3>5
  <2>2. CASE x.kind \notin SubmitKinds
    <3>1. Pend(queue') = Pend(Tail(queue))
      BY <1>1, <1>4, <2>2, PendAppend
    <3>2. ~(RunInsertCheck \/ RunUpdateCheck)
      <4>1. SUFFICES ASSUME RunInsertCheck \/ RunUpdateCheck PROVE FALSE
        OBVIOUS
      <4>2. queue' # Tail(queue)
        BY <1>1, <1>4
      <4>3. PICK k \in {"insert", "update"} :
               queue' = Append(Tail(queue), [Head(queue) EXCEPT !.kind = k])
        BY <4>1, <4>2 DEF RunInsertCheck, RunUpdateCheck, SubmitFails
      <4>4. Head(queue) \in SubmitOp
        BY <1>1, <4>1, OpKinds DEF RunInsertCheck, RunUpdateCheck, Running, SubmitKinds
      <4> DEFINE y == [Head(queue) EXCEPT !.kind = k]
      <4>5. y \in Op /\ y.kind = k /\ k \in SubmitKinds
        BY <4>4, HandedOn DEF SubmitKinds
      <4>6. queue' = Append(Tail(queue), y)
        BY <4>3
      <4> HIDE DEF y
      <4>7. x = y
        <5>1. /\ Append(Tail(queue), x)[Len(Tail(queue)) + 1] = x
              /\ Append(Tail(queue), y)[Len(Tail(queue)) + 1] = y
          BY <1>1, <4>5, QueueAppend
        <5> QED BY <1>4, <4>6, <5>1
      <4> QED BY <2>2, <4>5, <4>7
    <3> QED BY <1>2, <3>1, <3>2
  <2> QED BY <2>1, <2>2
<1> QED BY <1>0, <1>2, <1>3, <1>4, RunQueue

(* What the refinement needs to know of a state. *)
StoreInv == RowsInv /\ PagesInv

(* A submit that fails, for whatever reason, is refused without a trace. *)
LEMMA RefuseStep ==
  ASSUME StoreInv, RunStatement, Head(queue).kind \in SubmitKinds, queue' = Tail(queue),
         UNCHANGED database
  PROVE  Store!Next
<1> DEFINE s == SubmitOf(Head(queue))
<1>1. s \in PendingSubmits /\ PendingSubmits' = PendingSubmits \ {s} /\ s.row = Head(queue).row
  BY PendingIs, PendRun, SubmitOfFacts DEF StoreInv
<1> HIDE DEF s
<1>2. Store!Refuse(s)
  BY <1>1 DEF Store!Refuse, database
<1> QED BY <1>1, <1>2 DEF Store!Next

(* A row without an id is in nobody's way but its barcode's. *)
LEMMA NewRowTaken ==
  ASSUME DatabaseType, NEW b
  PROVE  BarcodeTaken(table, b, None) <=> HasBarcode(table, b)
<1>1. \A r \in table : r.id # None
  BY HisabiAssumption DEF DatabaseType, Row
<1> QED BY <1>1 DEF BarcodeTaken, HasBarcode

(* One step of the screens and the queue is one step of the store or none. *)
LEMMA StoreStep ==
  ASSUME StoreInv, Next
  PROVE  Store!Next \/ UNCHANGED <<table, nextId, PendingSubmits>>
<1>0. /\ HisabiType /\ RowsGenuine /\ PagesInv /\ PageWaits /\ DatabaseType /\ QueueType
      /\ queue \in Seq(Op)
  BY DEF StoreInv, RowsInv, PagesInv, HisabiType, QueueType
<1>a. ASSUME RunStatement
      PROVE  OpGenuine(Head(queue), nextId, searched, born)
  <2>1. queue # <<>>
    BY <1>0, <1>a, RunQueue
  <2>2. 1 \in DOMAIN queue /\ Head(queue) = queue[1]
    BY <1>0, <2>1, QueueTail
  <2> QED BY <1>0, <2>2 DEF RowsGenuine
<1>1. CASE MoveStep
  BY <1>1, MoveFrame, PendingIs
<1>2. CASE SendStep /\ ~\E b \in Barcodes, c \in Categories : SubmitForm(b, c)
  <2>1. UNCHANGED <<table, nextId>>
    BY <1>0, <1>2, SendFrame
  <2>2. ASSUME NEW x \in Op, queue' = Append(queue, x), x.kind \notin SubmitKinds
        PROVE  PendingSubmits' = PendingSubmits
    BY <1>0, <2>2, PendAppend, PendingIs
  <2>3. CASE OpenList
    <3> DEFINE x == [kind |-> "all", no |-> NewNo]
    <3>1. x \in Op /\ queue' = Append(queue, x) /\ x.kind \notin SubmitKinds
      BY <1>0, <2>3, SendOps DEF SubmitKinds
    <3> HIDE DEF x
    <3> QED BY <2>1, <2>2, <3>1
  <2>4. CASE Refresh
    <3> DEFINE x == [kind |-> "all", no |-> list.no]
    <3>1. x \in Op /\ queue' = Append(queue, x) /\ x.kind \notin SubmitKinds
      BY <1>0, <2>4, SendOps DEF SubmitKinds
    <3> HIDE DEF x
    <3> QED BY <2>1, <2>2, <3>1
  <2>5. CASE BarcodeDetected
    <3> DEFINE x == [kind |-> "lookup", no |-> scanner.no]
    <3>1. x \in Op /\ queue' = Append(queue, x) /\ x.kind \notin SubmitKinds
      BY <1>0, <2>5, SendOps DEF SubmitKinds
    <3> HIDE DEF x
    <3> QED BY <2>1, <2>2, <3>1
  <2>6. CASE ConfirmDelete
    <3>1. Deletion \in Op /\ queue' = Append(queue, Deletion) /\ Deletion.kind \notin SubmitKinds
      BY <1>0, <2>6, SendOps DEF SubmitKinds, Deletion
    <3> QED BY <2>1, <2>2, <3>1
  <2>7. ASSUME NEW id \in 1 .. MaxSubmits, SearchProductById(id)
        PROVE  PendingSubmits' = PendingSubmits
    <3> DEFINE x == [kind |-> "search", no |-> page.no, id |-> id]
    <3>1. x \in Op /\ queue' = Append(queue, x) /\ x.kind \notin SubmitKinds
      BY <1>0, <2>7, SendOps DEF SubmitKinds
    <3> HIDE DEF x
    <3> QED BY <2>2, <3>1
  <2> QED BY <1>2, <2>1, <2>3, <2>4, <2>5, <2>6, <2>7 DEF SendStep
<1>3. ASSUME NEW b \in Barcodes, NEW c \in Categories, SubmitForm(b, c) PROVE Store!Next
  <2> DEFINE x == SubmittedOp(b, c)
             s == SubmitOf(x)
  <2>1. ScreensType /\ page.open /\ ~page.loading /\ UNCHANGED <<table, nextId>>
    BY <1>0, <1>3 DEF HisabiType, SubmitForm, SubmitEnabled, OnPage, database
  <2>2. x \in Op /\ x.kind \in SubmitKinds /\ x.no = page.no
    BY <2>1, SubmittedFacts DEF SubmitKinds
  <2>3. queue' = Append(queue, x)
    BY <1>0, <1>3, SendOps
  <2>4. x.row.barcode = b /\ x.row.category = c
    BY DEF SubmittedOp, FormProduct
  <2> HIDE DEF x
  <2>5. s.no = page.no /\ s.row.barcode = b /\ s.row.category = c
    BY <2>2, <2>4, SubmitOfFacts
  <2>6. PendingSubmits' = PendingSubmits \cup {s}
    BY <1>0, <2>2, <2>3, PendAppend, PendingIs
  <2> HIDE DEF s
  <2>7. \A t \in PendingSubmits : t.no # s.no
    <3> SUFFICES ASSUME NEW t \in Pend(queue), t.no = s.no PROVE FALSE
      BY PendingIs
    <3>1. PICK i \in DOMAIN queue : queue[i].kind \in SubmitKinds /\ t = SubmitOf(queue[i])
      BY PendMember
    <3>2. PageOp(queue[i]) /\ queue[i].no = page.no
      BY <2>5, <3>1, SubmitOfFacts DEF PageOp
    <3> QED BY <1>0, <2>1, <3>1, <3>2 DEF PageWaits
  <2>8. Store!Submit(s)
    BY <2>1, <2>5, <2>6, <2>7 DEF Store!Submit
  <2> QED BY <2>6, <2>8 DEF Store!Next
<1>4. CASE RunInsertCheck
  <2>1. /\ RunStatement /\ UNCHANGED database /\ Head(queue).kind = "insertCheck"
        /\ Head(queue).kind \in SubmitKinds
    BY <1>4 DEF RunStatement, RunInsertCheck, Running, SubmitKinds
  <2>2. CASE queue' = Tail(queue)
    BY <2>1, <2>2, RefuseStep
  <2>3. CASE queue' # Tail(queue)
    <3>1. PendingSubmits' = PendingSubmits
      BY <1>0, <1>4, <2>1, <2>3, PendRun, PendingIs
    <3> QED BY <2>1, <3>1 DEF database
  <2> QED BY <2>2, <2>3
<1>5. CASE RunUpdateCheck
  <2>1. /\ RunStatement /\ UNCHANGED database /\ Head(queue).kind = "updateCheck"
        /\ Head(queue).kind \in SubmitKinds
    BY <1>5 DEF RunStatement, RunUpdateCheck, Running, SubmitKinds
  <2>2. CASE queue' = Tail(queue)
    BY <2>1, <2>2, RefuseStep
  <2>3. CASE queue' # Tail(queue)
    <3>1. PendingSubmits' = PendingSubmits
      BY <1>0, <1>5, <2>1, <2>3, PendRun, PendingIs
    <3> QED BY <2>1, <3>1 DEF database
  <2> QED BY <2>2, <2>3
<1>6. CASE RunInsert
  <2>1. RunStatement /\ Head(queue).kind = "insert" /\ Head(queue).kind \in SubmitKinds
    BY <1>6 DEF RunStatement, RunInsert, Running, SubmitKinds
  <2>2. Head(queue).row.id = None
    BY <1>a, <2>1 DEF OpGenuine
  <2>3. CASE SubmitFails(Head(queue), Tail(queue)) /\ UNCHANGED database
    BY <2>1, <2>3, RefuseStep DEF SubmitFails
  <2>4. CASE /\ ~HasBarcode(table, Head(queue).row.barcode)
             /\ table' = table \cup {[Head(queue).row EXCEPT !.id = nextId]}
             /\ nextId' = nextId + 1
    <3> DEFINE s == SubmitOf(Head(queue))
    <3>1. /\ table' = table \cup {[Head(queue).row EXCEPT !.id = nextId]}
          /\ nextId' = nextId + 1
      BY <2>4
    <3>2. s \in PendingSubmits /\ PendingSubmits' = PendingSubmits \ {s} /\ s.row = Head(queue).row
      BY <1>0, <1>6, <2>1, PendRun, PendingIs, SubmitOfFacts
    <3> HIDE DEF s
    <3>3. ~BarcodeTaken(table, s.row.barcode, s.row.id)
      BY <1>0, <2>2, <2>4, <3>2, NewRowTaken
    <3>4. Store!Create(s)
      BY <2>2, <3>1, <3>2, <3>3 DEF Store!Create, Store!InUse, BarcodeTaken
    <3> QED BY <3>2, <3>4 DEF Store!Next
  <2> QED BY <1>6, <2>3, <2>4 DEF RunInsert
<1>7. CASE RunUpdate
  <2> DEFINE s == SubmitOf(Head(queue))
  <2>1. RunStatement /\ Head(queue).kind = "update" /\ Head(queue).kind \in SubmitKinds
    BY <1>7 DEF RunStatement, RunUpdate, Running, SubmitKinds
  <2>2. Head(queue).row.id # None
    BY <1>a, <2>1 DEF OpGenuine
  <2>3. s \in PendingSubmits /\ PendingSubmits' = PendingSubmits \ {s} /\ s.row = Head(queue).row
    BY <1>0, <1>7, <2>1, PendRun, PendingIs, SubmitOfFacts
  <2> HIDE DEF s
  <2> DEFINE hit == \E r \in table : r.id = s.row.id
  <2>4. CASE SubmitFails(Head(queue), Tail(queue)) /\ UNCHANGED database
    BY <2>1, <2>4, RefuseStep DEF SubmitFails
  <2>5. CASE /\ ~hit \/ ~BarcodeTaken(table, s.row.barcode, s.row.id)
             /\ table' = Updated(table, s.row) /\ nextId' = nextId
    <3>1. table' = Updated(table, s.row) /\ nextId' = nextId
      BY <2>5
    <3>2. CASE hit
      <4>1. table' = {r \in table : r.id # s.row.id} \cup {s.row}
        BY <3>1, <3>2 DEF Updated
      <4>2. Store!Change(s)
        BY <2>3, <2>5, <3>1, <3>2, <4>1 DEF Store!Change, Store!InUse, Store!Known, BarcodeTaken
      <4> QED BY <2>3, <4>2 DEF Store!Next
    <3>3. CASE ~hit
      <4>1. table' = table
        BY <3>1, <3>3 DEF Updated
      <4>2. Store!Miss(s)
        BY <2>2, <2>3, <3>1, <3>3, <4>1 DEF Store!Miss, Store!Known
      <4> QED BY <2>3, <4>2 DEF Store!Next
    <3> QED BY <3>2, <3>3
  <2>6. \/ SubmitFails(Head(queue), Tail(queue)) /\ UNCHANGED database
        \/ /\ ~hit \/ ~BarcodeTaken(table, s.row.barcode, s.row.id)
           /\ table' = Updated(table, s.row) /\ nextId' = nextId
    BY <1>7, <2>3 DEF RunUpdate
  <2> QED BY <2>4, <2>5, <2>6
<1>8. CASE RunDelete \/ RunAll \/ RunCategories \/ RunSearch \/ RunLookup
  <2>1. RunStatement /\ Head(queue).kind \notin SubmitKinds
    BY <1>8 DEF RunStatement, RunDelete, RunAll, RunCategories, RunSearch, RunLookup, Running,
                SubmitKinds
  <2>2. PendingSubmits' = PendingSubmits
    BY <1>0, <2>1, PendRun, PendingIs
  <2>3. CASE RunDelete /\ table' # table
    <3>1. table' = {r \in table : r.id # Head(queue).id} /\ nextId' = nextId
      BY <2>3 DEF RunDelete
    <3>2. CASE \E r \in table : r.id = Head(queue).id
      <4>1. PICK r \in table : r.id = Head(queue).id
        BY <3>2
      <4>2. Store!Delete(r.id)
        BY <2>2, <3>1, <4>1 DEF Store!Delete, Store!Known
      <4> QED BY <4>2 DEF Store!Next
    <3>3. CASE ~\E r \in table : r.id = Head(queue).id
      BY <2>2, <3>1, <3>3
    <3> QED BY <3>2, <3>3
  <2>4. CASE (RunDelete /\ table' = table) \/ RunAll \/ RunCategories \/ RunSearch \/ RunLookup
    BY <2>2, <2>4 DEF RunDelete, RunAll, RunCategories, RunSearch, RunLookup, database
  <2> QED BY <1>8, <2>3, <2>4
<1> QED BY <1>1, <1>2, <1>3, <1>4, <1>5, <1>6, <1>7, <1>8, NextSplit DEF RunStatement

(* Hisabi implements ProductStore: the two statements of a submit, among   *)
(* those of other pages, amount to one step that stores the product or     *)
(* refuses it, whatever the number of screens, submits and statements.     *)
THEOREM StoreImplemented == Spec => ImplementsProductStore
<1>1. Init => Store!Init
  <2> SUFFICES ASSUME Init PROVE Store!Init
    OBVIOUS
  <2>1. PendingSubmits = {}
    BY DEF Init, PendingSubmits
  <2> QED BY <2>1 DEF Init, Store!Init
<1>2. StoreInv /\ [Next]_vars => [Store!Next]_(Store!vars)
  <2>1. StoreInv /\ Next => Store!Next \/ UNCHANGED <<table, nextId, PendingSubmits>>
    BY StoreStep
  <2>2. UNCHANGED vars => UNCHANGED <<table, nextId, PendingSubmits>>
    BY PendingIs DEF vars
  <2> QED BY <2>1, <2>2 DEF Store!vars
<1>3. Spec => []StoreInv
  BY RowsInvariant, PagesInvariant, PTL DEF StoreInv
<1> QED BY <1>1, <1>2, <1>3, PTL DEF Spec, ImplementsProductStore, Store!Spec

-----------------------------------------------------------------------------
(* The list and the table. *)

(* A load of the list put behind the others ends with the table, whatever  *)
(* the table and the rest of the list are then.                            *)
LEMMA CurrentLoad ==
  ASSUME NEW q \in Seq(Op), NEW n, DeletesFirst(q, n), NEW l, l.no = n, NEW t,
         NEW x \in Op, LoadOp(x, n), x.kind = "all"
  PROVE  Current(l, t, Append(q, x))
<1> DEFINE r == Append(q, x)
           m == Len(q) + 1
<1>1. /\ DOMAIN r = DOMAIN q \cup {m} /\ r[m] = x /\ m \notin DOMAIN q /\ m \in Nat
      /\ \A i \in DOMAIN q : r[i] = q[i] /\ i \in Nat /\ i < m
  BY QueueAppend
<1> HIDE DEF r, m
<1>2. LoadEnds(r, t, n)
  <2>1. \A j \in DOMAIN r : ~(m < j)
    BY <1>1
  <2> QED BY <1>1, <2>1 DEF LoadEnds
<1>3. DeletesFirst(r, n)
  <2> SUFFICES ASSUME NEW i \in DOMAIN r, r[i].kind = "delete", r[i].no # n
               PROVE  \A j \in DOMAIN r : LoadOp(r[j], n) => i < j /\ r[j].kind = "all"
    BY <1>1 DEF DeletesFirst
  <2>1. i \in DOMAIN q /\ q[i] = r[i]
    BY <1>1
  <2>2. \A j \in DOMAIN q : LoadOp(q[j], n) => i < j /\ q[j].kind = "all"
    BY <2>1 DEF DeletesFirst
  <2> QED BY <1>1, <2>1, <2>2
<1> QED BY <1>2, <1>3 DEF Current, r

(* Another statement behind the others does not matter to the list, unless *)
(* it deletes for an earlier list.                                         *)
LEMMA CurrentAppend ==
  ASSUME NEW q \in Seq(Op), NEW l, NEW t, Current(l, t, q),
         NEW x \in Op, ~LoadOp(x, l.no), x.kind = "delete" => x.no = l.no
  PROVE  Current(l, t, Append(q, x))
<1> DEFINE r == Append(q, x)
           m == Len(q) + 1
           n == l.no
<1>1. /\ DOMAIN r = DOMAIN q \cup {m} /\ r[m] = x /\ m \notin DOMAIN q /\ m \in Nat
      /\ \A i \in DOMAIN q : r[i] = q[i] /\ i \in Nat /\ i < m
  BY QueueAppend
<1> HIDE DEF r, m
<1>2. LoadEnds(q, t, n) => LoadEnds(r, t, n)
  <2> SUFFICES ASSUME LoadEnds(q, t, n) PROVE LoadEnds(r, t, n)
    OBVIOUS
  <2>1. PICK k \in DOMAIN q :
           /\ LoadOp(q[k], n) /\ (q[k].kind = "categories" => q[k].rows = t)
           /\ \A j \in DOMAIN q : k < j => ~LoadOp(q[j], n)
    BY DEF LoadEnds
  <2>2. \A j \in DOMAIN r : k < j => ~LoadOp(r[j], n)
    BY <1>1, <2>1
  <2>3. k \in DOMAIN r /\ r[k] = q[k]
    BY <1>1
  <2> QED BY <2>1, <2>2, <2>3 DEF LoadEnds
<1>3. NoLoad(q, n) => NoLoad(r, n)
  BY <1>1 DEF NoLoad
<1>4. DeletesFirst(r, n)
  <2> SUFFICES ASSUME NEW i \in DOMAIN r, r[i].kind = "delete", r[i].no # n
               PROVE  /\ \E j \in DOMAIN r : LoadOp(r[j], n)
                      /\ \A j \in DOMAIN r : LoadOp(r[j], n) => i < j /\ r[j].kind = "all"
    BY DEF DeletesFirst
  <2>1. i \in DOMAIN q /\ q[i] = r[i]
    BY <1>1
  <2>2. /\ \E j \in DOMAIN q : LoadOp(q[j], n)
        /\ \A j \in DOMAIN q : LoadOp(q[j], n) => i < j /\ q[j].kind = "all"
    BY <2>1 DEF DeletesFirst, Current
  <2> QED BY <1>1, <2>2
<1> QED BY <1>2, <1>3, <1>4 DEF Current, r

(* The deletions stay ahead when the oldest statement has run. *)
LEMMA DeletesTail ==
  ASSUME NEW q \in Seq(Op), q # <<>>, NEW n, DeletesFirst(q, n)
  PROVE  /\ DeletesFirst(Tail(q), n)
         /\ LoadOp(Head(q), n) =>
               \A i \in DOMAIN Tail(q) : Tail(q)[i].kind = "delete" => Tail(q)[i].no = n
<1> DEFINE r == Tail(q)
<1>1. /\ 1 \in DOMAIN q /\ Head(q) = q[1]
      /\ \A i \in DOMAIN r : i \in Nat /\ 1 <= i /\ i + 1 \in DOMAIN q /\ r[i] = q[i + 1]
      /\ \A i \in DOMAIN q : i \in Nat /\ 1 <= i
      /\ \A i \in DOMAIN q : i # 1 => i - 1 \in DOMAIN r /\ r[i - 1] = q[i]
  BY QueueTail
<1> HIDE DEF r
<1>2. ASSUME NEW i \in DOMAIN r, r[i].kind = "delete", r[i].no # n
      PROVE  /\ \E j \in DOMAIN r : LoadOp(r[j], n)
             /\ \A j \in DOMAIN r : LoadOp(r[j], n) => i < j /\ r[j].kind = "all"
             /\ ~LoadOp(q[1], n)
  <2>1. i \in Nat /\ 1 <= i /\ i + 1 \in DOMAIN q /\ q[i + 1] = r[i]
    BY <1>1
  <2>2. /\ \E j \in DOMAIN q : LoadOp(q[j], n)
        /\ \A j \in DOMAIN q : LoadOp(q[j], n) => i + 1 < j /\ q[j].kind = "all"
    BY <1>2, <2>1 DEF DeletesFirst
  <2>3. PICK j \in DOMAIN q : LoadOp(q[j], n)
    BY <2>2
  <2>4. j # 1
    BY <2>1, <2>2, <2>3
  <2>5. j - 1 \in DOMAIN r /\ r[j - 1] = q[j]
    BY <1>1, <2>4
  <2>6. ~LoadOp(q[1], n)
    BY <1>1, <2>1, <2>2
  <2>7. ASSUME NEW k \in DOMAIN r, LoadOp(r[k], n) PROVE i < k /\ r[k].kind = "all"
    <3>1. k \in Nat /\ k + 1 \in DOMAIN q /\ r[k] = q[k + 1]
      BY <1>1
    <3>2. i + 1 < k + 1 /\ q[k + 1].kind = "all"
      BY <2>2, <2>7, <3>1
    <3> QED BY <2>1, <3>1, <3>2
  <2> QED BY <2>3, <2>5, <2>6, <2>7
<1> QED BY <1>1, <1>2 DEF DeletesFirst, r

(* A load that is not the oldest statement moves up. *)
LEMMA LoadTail ==
  ASSUME NEW q \in Seq(Op), q # <<>>, NEW n, NEW t, NEW k \in DOMAIN q, k # 1,
         LoadOp(q[k], n), q[k].kind = "categories" => q[k].rows = t,
         \A j \in DOMAIN q : k < j => ~LoadOp(q[j], n)
  PROVE  LoadEnds(Tail(q), t, n)
<1> DEFINE r == Tail(q)
<1>1. /\ \A i \in DOMAIN r : i \in Nat /\ 1 <= i /\ i + 1 \in DOMAIN q /\ r[i] = q[i + 1]
      /\ \A i \in DOMAIN q : i \in Nat /\ 1 <= i
      /\ k - 1 \in DOMAIN r /\ r[k - 1] = q[k]
  BY QueueTail
<1> HIDE DEF r
<1>2. ASSUME NEW j \in DOMAIN r, k - 1 < j PROVE ~LoadOp(r[j], n)
  <2>1. j \in Nat /\ j + 1 \in DOMAIN q /\ r[j] = q[j + 1] /\ k \in Nat
    BY <1>1
  <2>2. k < j + 1
    BY <1>2, <2>1
  <2> QED BY <2>1, <2>2
<1>3. LoadEnds(r, t, n)
  BY <1>1, <1>2 DEF LoadEnds
<1> QED BY <1>3 DEF r

(* Running a statement that is no load of the list keeps the list current. *)
LEMMA CurrentTail ==
  ASSUME NEW q \in Seq(Op), q # <<>>, NEW l, NEW t, Current(l, t, q), ~LoadOp(Head(q), l.no)
  PROVE  Current(l, t, Tail(q))
<1> DEFINE n == l.no
<1>1. DeletesFirst(Tail(q), n)
  BY DeletesTail DEF Current
<1>2. ASSUME LoadEnds(q, t, n) PROVE LoadEnds(Tail(q), t, n)
  <2>1. PICK k \in DOMAIN q :
           /\ LoadOp(q[k], n) /\ (q[k].kind = "categories" => q[k].rows = t)
           /\ \A j \in DOMAIN q : k < j => ~LoadOp(q[j], n)
    BY <1>2 DEF LoadEnds
  <2>2. k # 1
    BY <2>1, QueueTail
  <2> QED BY <2>1, <2>2, LoadTail
<1>3. NoLoad(q, n) => NoLoad(Tail(q), n)
  BY QueueTail DEF NoLoad
<1> QED BY <1>1, <1>2, <1>3 DEF Current

(* The rest of the list does not matter as long as it still shows the table. *)
LEMMA CurrentSame ==
  ASSUME NEW q, NEW l, NEW m, NEW t, Current(l, t, q), m.no = l.no, Shows(l, t) => Shows(m, t)
  PROVE  Current(m, t, q)
  BY DEF Current

(* What a handler sends, to the list. *)
LEMMA SendKeepsList ==
  ASSUME HisabiType, ListFollows, SendStep, list'.open, ~left'
  PROVE  Current(list', table', queue')
<1>0. /\ queue \in Seq(Op) /\ list \in OpenedList \cup {Closed} /\ ScreensType
      /\ table' = table /\ ~left
      /\ list.open => Current(list, table, queue)
  BY LeftAndScanner, NextSplit, SendFrame DEF HisabiType, QueueType, ScreensType, ListFollows
<1>1. CASE OpenList
  <2> DEFINE x == [kind |-> "all", no |-> NewNo]
  <2>1. list' = NewList(NewNo) /\ NewNo \in Screens /\ x \in Op /\ queue' = Append(queue, x)
    BY <1>1, SendOps
  <2>2. list'.no = NewNo
    BY <2>1, NewListType
  <2>3. LoadOp(x, NewNo) /\ x.kind = "all"
    BY DEF LoadOp
  <2> HIDE DEF x
  <2>4. \A i \in DOMAIN queue : queue[i].no # NewNo
    BY <1>1, NewNoFacts DEF OpenList
  <2> DEFINE r == Append(queue, x)
             m == Len(queue) + 1
  <2>5. /\ DOMAIN r = DOMAIN queue \cup {m} /\ r[m] = x /\ m \notin DOMAIN queue /\ m \in Nat
        /\ \A i \in DOMAIN queue : r[i] = queue[i] /\ i \in Nat /\ i < m
    BY <1>0, <2>1, QueueAppend
  <2> HIDE DEF r, m
  <2>6. \A j \in DOMAIN r : LoadOp(r[j], NewNo) => j = m
    BY <2>4, <2>5 DEF LoadOp
  <2>7. \A i \in DOMAIN r : r[i].kind = "delete" => i # m
    BY <2>3, <2>5
  <2>8. DeletesFirst(r, NewNo)
    BY <2>3, <2>5, <2>6, <2>7 DEF DeletesFirst
  <2>9. LoadEnds(r, table', NewNo)
    <3>1. \A j \in DOMAIN r : ~(m < j)
      BY <2>5
    <3> QED BY <2>3, <2>5, <3>1 DEF LoadEnds
  <2> QED BY <2>1, <2>2, <2>8, <2>9 DEF Current, r
<1>2. CASE Refresh
  <2> DEFINE x == [kind |-> "all", no |-> list.no]
  <2>1. x \in Op /\ queue' = Append(queue, x) /\ list.open /\ list' = Loading(list)
    BY <1>2, SendOps DEF Refresh, OnList
  <2>2. LoadOp(x, list.no) /\ x.kind = "all"
    BY DEF LoadOp
  <2> HIDE DEF x
  <2>3. list'.no = list.no
    BY <1>0, <2>1, LoadingFacts
  <2>4. DeletesFirst(queue, list.no)
    BY <1>0, <2>1 DEF Current
  <2> QED BY <1>0, <2>1, <2>2, <2>3, <2>4, CurrentLoad
<1>3. ASSUME NEW x \in Op, queue' = Append(queue, x), list' = list, x.kind \notin {"all", "categories"},
             x.kind = "delete" => x.no = list.no
      PROVE  Current(list', table', queue')
  <2>1. ~LoadOp(x, list.no)
    BY <1>3 DEF LoadOp
  <2> QED BY <1>0, <1>3, <2>1, CurrentAppend
<1>8. ASSUME OnDialog, list' = [list EXCEPT !.asking = None],
             \E x \in Op : /\ queue' = Append(queue, x) /\ x.kind \notin {"all", "categories"}
                           /\ x.kind = "delete" => x.no = list.no
      PROVE  Current(list', table', queue')
  <2>1. PICK x \in Op : /\ queue' = Append(queue, x) /\ x.kind \notin {"all", "categories"}
                        /\ x.kind = "delete" => x.no = list.no
    BY <1>8
  <2>2. ~LoadOp(x, list.no) /\ Current(list, table, queue)
    BY <1>0, <1>8, <2>1 DEF LoadOp, OnDialog
  <2>3. Current(list, table, queue')
    BY <1>0, <2>1, <2>2, CurrentAppend
  <2>4. /\ list'.no = list.no /\ list'.products = list.products
        /\ list'.categories = list.categories /\ list'.loading = list.loading
        /\ list'.missed = list.missed
    BY <1>0, <1>8, DialogFacts
  <2>5. Shows(list, table) => Shows(list', table)
    BY <2>4 DEF Shows
  <2> QED BY <1>0, <2>3, <2>4, <2>5, CurrentSame
<1>4. CASE ConfirmDelete
  <2>1. /\ Deletion \in Op /\ queue' = Append(queue, Deletion)
        /\ Deletion.kind = "delete" /\ Deletion.no = list.no
    BY <1>0, <1>4, SendOps, DialogFacts DEF ConfirmDelete
  <2> HIDE DEF Deletion
  <2> QED BY <1>4, <1>8, <2>1 DEF ConfirmDelete
<1>5. ASSUME NEW id \in 1 .. MaxSubmits, SearchProductById(id)
      PROVE  Current(list', table', queue')
  <2> DEFINE x == [kind |-> "search", no |-> page.no, id |-> id]
  <2>1. x \in Op /\ queue' = Append(queue, x) /\ x.kind = "search" /\ list' = list
    BY <1>5, SendOps DEF SearchProductById
  <2> HIDE DEF x
  <2> QED BY <1>3, <2>1
<1>6. ASSUME NEW b \in Barcodes, NEW c \in Categories, SubmitForm(b, c)
      PROVE  Current(list', table', queue')
  <2> DEFINE x == SubmittedOp(b, c)
  <2>1. page.open /\ list' = list /\ queue' = Append(queue, x)
    BY <1>6, SendOps DEF SubmitForm, SubmitEnabled, OnPage
  <2>2. x \in Op /\ (x.kind = "insertCheck" \/ x.kind = "updateCheck")
    BY <1>0, <2>1, SubmittedFacts
  <2> HIDE DEF x
  <2> QED BY <1>3, <2>1, <2>2
<1>7. CASE BarcodeDetected
  <2> DEFINE x == [kind |-> "lookup", no |-> scanner.no]
  <2>1. x \in Op /\ queue' = Append(queue, x) /\ x.kind = "lookup"
    BY <1>7, SendOps
  <2>2. list' = list \/ (OnDialog /\ list' = [list EXCEPT !.asking = None])
    BY <1>7, Shapes DEF BarcodeDetected, HisabiType
  <2> HIDE DEF x
  <2> QED BY <1>3, <1>8, <2>1, <2>2
<1> QED BY <1>1, <1>2, <1>4, <1>5, <1>6, <1>7 DEF SendStep

(* What a statement that runs does, to the list.  A submit that succeeds   *)
(* pops its page off the list, which loads again; so does a list that asks *)
(* for a deletion; and the deletion an earlier list asked for is read by a *)
(* load still to come.                                                     *)
LEMMA RunKeepsList ==
  ASSUME PagesInv, ListFollows, RunStatement, list'.open, ~left'
  PROVE  Current(list', table', queue')
<1>0. /\ HisabiType /\ ScreensType /\ DatabaseType /\ queue \in Seq(Op)
      /\ list \in OpenedList \cup {Closed} /\ Closed.open = FALSE
      /\ queue # <<>> /\ Tail(queue) \in Seq(Op) /\ Head(queue) \in Op
      /\ 1 \in DOMAIN queue /\ Head(queue) = queue[1]
      /\ list.open => Current(list, table, queue)
  <2>1. HisabiType /\ queue \in Seq(Op)
    BY DEF PagesInv, HisabiType, QueueType
  <2>2. ~left
    BY <2>1, LeftAndScanner, NextSplit
  <2> QED BY <2>1, <2>2, RunQueue, QueueTail, Shapes DEF HisabiType, ScreensType, ListFollows
<1> DEFINE n == list.no
<1>a. ASSUME ~LoadOp(Head(queue), n), list.open PROVE Current(list, table, Tail(queue))
  BY <1>0, <1>a, CurrentTail
<1>b. ASSUME list.open PROVE DeletesFirst(queue, n) /\ DeletesFirst(Tail(queue), n)
  BY <1>0, <1>b, DeletesTail DEF Current
<1>c. ASSUME list.open, list' = Loading(list), queue' = Tail(queue) \o AllQuery(list)
      PROVE  Current(list', table', queue')
  <2> DEFINE x == [kind |-> "all", no |-> n]
  <2>1. x \in Op /\ queue' = Append(Tail(queue), x)
    BY <1>0, <1>c, AllQueryFacts
  <2>2. LoadOp(x, n) /\ x.kind = "all"
    BY DEF LoadOp
  <2> HIDE DEF x
  <2>3. list'.no = n
    BY <1>0, <1>c, LoadingFacts
  <2> QED BY <1>0, <1>b, <1>c, <2>1, <2>2, <2>3, CurrentLoad
<1>1. CASE SubmitFails(Head(queue), Tail(queue)) /\ Head(queue).kind \in SubmitKinds /\ table' = table
  <2>1. list' = list /\ queue' = Tail(queue) /\ ~LoadOp(Head(queue), n)
    BY <1>1 DEF SubmitFails, LoadOp, SubmitKinds
  <2> QED BY <1>1, <1>a, <2>1
<1>2. CASE RunInsertCheck \/ RunUpdateCheck
  <2>1. Head(queue).kind \in SubmitKinds /\ table' = table
    BY <1>2 DEF RunInsertCheck, RunUpdateCheck, Running, SubmitKinds, database
  <2>2. ASSUME NEW k \in {"insert", "update"}, list' = list,
               queue' = Append(Tail(queue), [Head(queue) EXCEPT !.kind = k])
        PROVE  Current(list', table', queue')
    <3> DEFINE x == [Head(queue) EXCEPT !.kind = k]
    <3>0. Head(queue) \in SubmitOp /\ k \in SubmitKinds
      BY <1>0, <2>1, OpKinds DEF SubmitKinds
    <3>1. x \in Op /\ x.kind = k
      BY <3>0, HandedOn
    <3>2. queue' = Append(Tail(queue), x) /\ list' = list
      BY <2>2
    <3> HIDE DEF x
    <3>3. ~LoadOp(x, n) /\ ~LoadOp(Head(queue), n) /\ x.kind # "delete"
      BY <2>1, <3>1 DEF LoadOp, SubmitKinds
    <3>4. Current(list, table, Tail(queue))
      BY <1>a, <2>2, <3>3
    <3>5. Current(list, table, Append(Tail(queue), x))
      BY <1>0, <3>1, <3>3, <3>4, CurrentAppend
    <3> QED BY <2>1, <3>2, <3>5
  <2> QED BY <1>1, <1>2, <2>1, <2>2 DEF RunInsertCheck, RunUpdateCheck
<1>3. CASE RunInsert \/ RunUpdate
  <2>1. Head(queue).kind \in SubmitKinds /\ ~left
    BY <1>3 DEF RunInsert, RunUpdate, Running, SubmitKinds
  <2>2. CASE SubmitSucceeds(Head(queue), Tail(queue))
    <3>1. page.open /\ page.no = Head(queue).no /\ ~scanner.open
      BY <1>0, <2>1, SubmitterOnTop
    <3>2. list' = Loading(list) /\ queue' = Tail(queue) \o AllQuery(list)
      BY <2>2, <3>1 DEF SubmitSucceeds, Mounted, PopTop, OnPage, OnDialog, OnList
    <3>3. list.open
      BY <1>0, <3>2, LoadingFacts
    <3> QED BY <1>c, <3>2, <3>3
  <2>3. CASE SubmitFails(Head(queue), Tail(queue)) /\ UNCHANGED database
    BY <1>1, <2>1, <2>3 DEF database
  <2> QED BY <1>3, <2>2, <2>3 DEF RunInsert, RunUpdate
<1>4. CASE RunDelete
  <2>0. Head(queue).kind = "delete"
    BY <1>4 DEF RunDelete, Running
  <2>3. CASE queue' = Tail(queue) /\ UNCHANGED <<table, list>>
    <3>1. ~LoadOp(Head(queue), n)
      BY <2>0 DEF LoadOp
    <3> QED BY <1>a, <2>3, <3>1
  <2> DEFINE Deleted ==
        /\ table' = {r \in table : r.id # Head(queue).id}
        /\ list' = (IF Awaits(Head(queue)) THEN Loading(list) ELSE list)
        /\ queue' = Tail(queue) \o (IF Awaits(Head(queue)) THEN AllQuery(list) ELSE <<>>)
  <2>1. CASE Deleted /\ Awaits(Head(queue))
    BY <1>c, <2>1 DEF Awaits
  <2>2. CASE Deleted /\ ~Awaits(Head(queue))
    <3>1. list' = list /\ list.open /\ n # Head(queue).no /\ queue' = Tail(queue) \o <<>>
      BY <2>2 DEF Awaits
    <3>2. queue' = Tail(queue)
      BY <1>0, <3>1
    <3>3. /\ \E j \in DOMAIN queue : LoadOp(queue[j], n)
          /\ \A j \in DOMAIN queue : LoadOp(queue[j], n) => 1 < j /\ queue[j].kind = "all"
      BY <1>0, <1>b, <2>0, <3>1 DEF DeletesFirst
    <3>4. PICK k \in DOMAIN queue :
             /\ LoadOp(queue[k], n)
             /\ \A j \in DOMAIN queue : k < j => ~LoadOp(queue[j], n)
      BY <1>0, <3>1, <3>3 DEF Current, LoadEnds, NoLoad
    <3>5. k # 1 /\ queue[k].kind = "all"
      BY <3>3, <3>4
    <3>6. LoadEnds(Tail(queue), table', n)
      BY <1>0, <3>4, <3>5, LoadTail
    <3> QED BY <1>b, <3>1, <3>2, <3>6 DEF Current
  <2>4. (queue' = Tail(queue) /\ UNCHANGED <<table, list>>) \/ Deleted
    BY <1>4, Zenon DEF RunDelete
  <2> QED BY <2>1, <2>2, <2>3, <2>4
<1>9. ASSUME list.open, LoadOp(Head(queue), n), queue' = Tail(queue), table' = table,
             list'.no = n,
             Head(queue).kind = "categories" /\ Head(queue).rows = table => Shows(list', table),
             Head(queue).kind = "all" => Shows(list', table)
      PROVE  Current(list', table', queue')
  <2>1. PICK k \in DOMAIN queue :
           /\ LoadOp(queue[k], n) /\ (queue[k].kind = "categories" => queue[k].rows = table)
           /\ \A j \in DOMAIN queue : k < j => ~LoadOp(queue[j], n)
    BY <1>0, <1>9 DEF Current, LoadEnds, NoLoad
  <2>2. CASE k = 1
    <3>1. Shows(list', table)
      BY <1>0, <1>9, <2>1, <2>2 DEF LoadOp
    <3>2. NoLoad(Tail(queue), n)
      <4> SUFFICES ASSUME NEW j \in DOMAIN Tail(queue) PROVE ~LoadOp(Tail(queue)[j], n)
        BY DEF NoLoad
      <4>1. j \in Nat /\ 1 <= j /\ j + 1 \in DOMAIN queue /\ Tail(queue)[j] = queue[j + 1]
        BY <1>0, QueueTail
      <4>2. 1 < j + 1
        BY <4>1
      <4> QED BY <2>1, <2>2, <4>1, <4>2
    <3> QED BY <1>b, <1>9, <3>1, <3>2 DEF Current
  <2>3. CASE k # 1
    <3>1. LoadEnds(Tail(queue), table, n)
      BY <1>0, <2>1, <2>3, LoadTail
    <3> QED BY <1>b, <1>9, <3>1 DEF Current
  <2> QED BY <2>2, <2>3
<1>5. CASE RunAll
  <2> DEFINE x == [kind |-> "categories", no |-> Head(queue).no, rows |-> table]
  <2>0. /\ Head(queue).kind = "all" /\ table' = table
        /\ \/ list' = LoadFails(Head(queue)) /\ queue' = Tail(queue)
           \/ list' = list /\ queue' = Append(Tail(queue), x)
    BY <1>5 DEF RunAll, Running, database
  <2>5. CASE list' = LoadFails(Head(queue)) /\ queue' = Tail(queue)
    <3> DEFINE l == LoadFails(Head(queue))
    <3>1. /\ l.open = list.open /\ l.no = n
          /\ Awaits(Head(queue)) => l.loading = FALSE /\ l.missed = "products"
          /\ ~Awaits(Head(queue)) => l = list
      BY <1>0, LoadFailsFacts
    <3> HIDE DEF l
    <3>2. list' = l
      BY <2>5 DEF l
    <3>3. CASE Awaits(Head(queue))
      <4>1. Shows(list', table)
        BY <3>1, <3>2, <3>3 DEF Shows
      <4>2. list.open /\ LoadOp(Head(queue), n)
        BY <2>0, <3>3 DEF Awaits, LoadOp
      <4> QED BY <1>9, <2>0, <2>5, <3>1, <3>2, <4>1, <4>2
    <3>4. CASE ~Awaits(Head(queue))
      <4>1. list' = list /\ list.open /\ ~LoadOp(Head(queue), n)
        BY <3>1, <3>2, <3>4 DEF Awaits, LoadOp
      <4> QED BY <1>a, <2>0, <2>5, <4>1
    <3> QED BY <3>3, <3>4
  <2>1. SUFFICES ASSUME list' = list, queue' = Append(Tail(queue), x)
                 PROVE  Current(list', table', queue')
    BY <2>0, <2>5
  <2>2. x \in Op /\ x.kind = "categories" /\ x.no = Head(queue).no /\ x.rows = table
    BY <1>0, OpKinds DEF Op, CategoriesOp, DatabaseType
  <2> HIDE DEF x
  <2>3. CASE Head(queue).no # n
    <3>1. ~LoadOp(Head(queue), n) /\ ~LoadOp(x, n) /\ x.kind # "delete"
      BY <2>2, <2>3 DEF LoadOp
    <3>2. Current(list, table, Tail(queue))
      BY <1>a, <2>0, <2>1, <3>1
    <3> QED BY <1>0, <2>0, <2>1, <2>2, <3>1, <3>2, CurrentAppend
  <2>4. CASE Head(queue).no = n
    <3>1. LoadOp(Head(queue), n) /\ LoadOp(x, n)
      BY <2>0, <2>2, <2>4 DEF LoadOp
    <3>2. \A i \in DOMAIN Tail(queue) : Tail(queue)[i].kind = "delete" => Tail(queue)[i].no = n
      BY <1>0, <1>b, <2>1, <3>1, DeletesTail
    <3> DEFINE r == Append(Tail(queue), x)
               m == Len(Tail(queue)) + 1
    <3>3. /\ DOMAIN r = DOMAIN Tail(queue) \cup {m} /\ r[m] = x /\ m \in Nat
          /\ \A i \in DOMAIN Tail(queue) : r[i] = Tail(queue)[i] /\ i \in Nat /\ i < m
      BY <1>0, <2>2, QueueAppend
    <3> HIDE DEF r, m
    <3>4. \A i \in DOMAIN r : r[i].kind = "delete" => r[i].no = n
      BY <2>2, <3>2, <3>3
    <3>5. DeletesFirst(r, n)
      BY <3>4 DEF DeletesFirst
    <3>6. LoadEnds(r, table, n)
      <4>1. \A j \in DOMAIN r : ~(m < j)
        BY <3>3
      <4> QED BY <2>2, <3>1, <3>3, <4>1 DEF LoadEnds
    <3> QED BY <2>0, <2>1, <3>5, <3>6 DEF Current, r
  <2> QED BY <2>3, <2>4
<1>6. CASE RunCategories
  <2>1. Head(queue).kind = "categories" /\ queue' = Tail(queue) /\ table' = table
    BY <1>6 DEF RunCategories, Running, database
  <2>2. Head(queue).rows \in SUBSET Row
    BY <1>0, <1>6, RunningOp DEF HisabiType, RunCategories
  <2>3. AllCategories(table) \in SUBSET Categories /\ {} \in SUBSET Categories
    BY <1>0 DEF AllCategories, DatabaseType, Row
  <2>4. CASE Awaits(Head(queue))
    <3>2. /\ list'.no = n /\ list'.products = Head(queue).rows /\ list'.loading = FALSE
          /\ \/ list'.categories = AllCategories(table) /\ list'.missed = "nothing"
             \/ list'.categories = {} /\ list'.missed = "categories"
      BY <1>0, <1>6, <2>4, CategoriesLoaded
    <3>3. Head(queue).rows = table => Shows(list', table)
      BY <3>2 DEF Shows
    <3>4. list.open /\ LoadOp(Head(queue), n)
      BY <2>1, <2>4 DEF Awaits, LoadOp
    <3> QED BY <1>9, <2>1, <3>2, <3>3, <3>4
  <2>5. CASE ~Awaits(Head(queue))
    <3>1. list' = list /\ list.open
      BY <1>6, <2>5 DEF RunCategories, Loaded
    <3>2. ~LoadOp(Head(queue), n)
      BY <2>5, <3>1 DEF LoadOp, Awaits
    <3> QED BY <1>a, <2>1, <3>1, <3>2
  <2> QED BY <2>4, <2>5
<1>7. CASE RunSearch \/ RunLookup
  <2>1. list' = list /\ queue' = Tail(queue) /\ table' = table /\ ~LoadOp(Head(queue), n)
    BY <1>7 DEF RunSearch, RunLookup, Running, database, LoadOp
  <2> QED BY <1>a, <2>1
<1> QED BY <1>2, <1>3, <1>4, <1>5, <1>6, <1>7 DEF RunStatement

(* The list follows the table. *)
LEMMA ListFollowsStep ==
  ASSUME PagesInv, ListFollows, [Next]_vars
  PROVE  ListFollows'
<1> SUFFICES ASSUME list'.open, ~left' PROVE Current(list', table', queue')
  BY DEF ListFollows
<1>0. HisabiType /\ ScreensType /\ Closed.open = FALSE /\ ~left
  BY LeftAndScanner, Shapes DEF PagesInv, HisabiType
<1>1. CASE SendStep
  BY <1>0, <1>1, SendKeepsList
<1>2. CASE RunStatement
  BY <1>2, RunKeepsList
<1>3. CASE list' = list /\ table' = table /\ queue' = queue
  BY <1>0, <1>3 DEF ListFollows
<1>4. CASE MoveStep
  <2>0. table' = table /\ queue' = queue
    BY <1>4, MoveFrame
  <2>3. ASSUME list.open, list'.no = list.no, list'.products = list.products,
               list'.categories = list.categories, list'.loading = list.loading,
               list'.missed = list.missed
        PROVE  Current(list', table', queue')
    <3>1. Current(list, table, queue)
      BY <1>0, <2>3 DEF ListFollows
    <3>2. Shows(list, table) => Shows(list', table)
      BY <2>3 DEF Shows
    <3> QED BY <2>0, <2>3, <3>1, <3>2, CurrentSame
  <2>1. ASSUME NEW q \in Queries \cup {None}, NEW s \in Chips \cup {None}, Filter(q, s)
        PROVE  Current(list', table', queue')
    <3>1. /\ list'.no = list.no /\ list'.products = list.products
          /\ list'.categories = list.categories /\ list'.loading = list.loading
          /\ list'.missed = list.missed
      BY <1>0, <2>1, FilterFacts
    <3>2. list.open
      BY <2>1 DEF Filter, RowsShown, OnList
    <3> QED BY <2>3, <3>1, <3>2
  <2>4. CASE CancelDelete
    <3>1. /\ list'.no = list.no /\ list'.products = list.products
          /\ list'.categories = list.categories /\ list'.loading = list.loading
          /\ list'.missed = list.missed /\ list.open
      BY <1>0, <2>4, DialogFacts DEF CancelDelete, OnDialog
    <3> QED BY <2>3, <3>1
  <2>5. ASSUME NEW r \in (IF list.open THEN list.filtered ELSE {}), DeleteProduct(r)
        PROVE  Current(list', table', queue')
    <3>1. list.open /\ list' = [list EXCEPT !.asking = r.id]
      BY <2>5 DEF DeleteProduct, CardShown, RowsShown, OnList
    <3>2. list \in OpenedList
      BY <1>0, <3>1, Shapes
    <3>3. /\ list'.no = list.no /\ list'.products = list.products
          /\ list'.categories = list.categories /\ list'.loading = list.loading
          /\ list'.missed = list.missed
      BY <3>1, <3>2 DEF OpenedList
    <3> QED BY <2>3, <3>1, <3>3
  <2>2. \/ list' = list \/ list' = Closed \/ CancelDelete
        \/ \E r \in (IF list.open THEN list.filtered ELSE {}) : DeleteProduct(r)
        \/ \E q \in Queries \cup {None}, s \in Chips \cup {None} : Filter(q, s)
    BY <1>4 DEF MoveStep, LeaveHisabi, EnterHisabi, OpenAddPage, CloseList, ClosePage, ClearForm,
         EditProduct, ExitEnds, ScanBarcode, CloseScanner, ScannerDisposed
  <2> QED BY <1>0, <1>3, <2>0, <2>1, <2>2, <2>4, <2>5
<1>5. CASE UNCHANGED vars
  BY <1>3, <1>5 DEF vars
<1> QED BY <1>1, <1>2, <1>4, <1>5, NextSplit

(* For any number of products, screens and statements: when the database   *)
(* is idle the open list is not loading and shows the table, unless a page *)
(* was closed while its submit was running; a list whose last load failed  *)
(* keeps what it had, or has the products without their categories.        *)
THEOREM IdleListFresh == Spec => []ListFresh
<1>1. Init => ListFollows
  BY DEF Init, ListFollows, Closed
<1>2. Spec => [](PagesInv /\ ListFollows)
  BY <1>1, PagesInvariant, ListFollowsStep, PTL DEF Spec
<1>3. ListFollows => ListFresh
  <2> SUFFICES ASSUME ListFollows, list.open, queue = <<>>, ~left PROVE Shows(list, table)
    BY DEF ListFresh, Shows
  <2>1. ~LoadEnds(queue, table, list.no)
    BY DEF LoadEnds
  <2> QED BY <2>1 DEF ListFollows, Current
<1> QED BY <1>2, <1>3, PTL
=============================================================================
