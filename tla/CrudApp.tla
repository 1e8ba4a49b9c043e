-------------------------------- MODULE CrudApp --------------------------------
(***************************************************************************)
(* The product CRUD client (lib/project/crud_app): the product list, its   *)
(* delete menu, the add screen and the update screen, against an HTTP      *)
(* service that is external.                                               *)
(*                                                                         *)
(* Requests may be answered in any order, and any of them may fail after   *)
(* or before it was served.  Nothing is ever cancelled: a request outlives *)
(* the screen that sent it.  Every screen keeps a progress flag; none of   *)
(* the loads, adds and deletes catches an exception, which then leaves the *)
(* flag set.                                                               *)
(*                                                                         *)
(* A product is its id and whether its prices are whole numbers: the       *)
(* update screen sends doubles and ProductsModel.fromJson reads ints.      *)
(***************************************************************************)
EXTENDS Integers, Sequences, SequencesExt

CONSTANTS MaxId, MaxRequests      \* bounds

ASSUME CrudAssumption == MaxId \in Nat \ {0} /\ MaxRequests \in Nat \ {0}

VARIABLES
    server,      \* the service's products
    nextId,
    requests,    \* sent and not yet answered
    list,        \* the CrudAppScreen
    form,        \* the add or update screen on top of it
    acked,       \* ids whose deletion an open list was told of (auxiliary)
    overlapped,  \* the latest load met another one (auxiliary)
    broke,       \* where an exception has left a progress flag set (auxiliary)
    strayed      \* a form was left, or sent, while it was waiting (auxiliary)

vars == <<server, nextId, requests, list, form, acked, overlapped, broke, strayed>>

Prices == {"whole", "fraction"}
Product == [id : 1 .. MaxId, price : Prices]

NoForm == [kind |-> "none", busy |-> FALSE, id |-> 0]
NoList == [open |-> FALSE, items |-> <<>>, inProgress |-> FALSE, deleting |-> {}]

(* pos is the position of the item widget that sent a delete, 0 once the  *)
(* widget is disposed.                                                     *)
(* screen tells what became of the screen that sent the request: a form    *)
(* stays mounted while its exit animation runs.                            *)
Request(kind, id, price, pos) ==
    [kind |-> kind, id |-> id, price |-> price, pos |-> pos,
     stage |-> "sent", data |-> <<>>, screen |-> "open"]

IsFormRequest(q) == q.kind \in {"add", "update"}

Room == Len(requests) < MaxRequests

OnList == list.open /\ form.kind = "none"

LoadsRunning(rs) ==
    \E i \in DOMAIN rs : rs[i].kind = "load" /\ rs[i].screen = "open"

-----------------------------------------------------------------------------
(* Effects shared by several handlers. *)

(* Mutant: the list is not cleared. *)
StartLoadNoClear(rs) ==
    /\ list' = [list EXCEPT !.open = TRUE, !.inProgress = TRUE, !.deleting = {}]
    /\ requests' = Append([i \in DOMAIN rs |-> [rs[i] EXCEPT !.pos = 0]],
                          Request("load", 0, "whole", 0))
    /\ overlapped' = LoadsRunning(rs)
    /\ broke' = broke \ {"list"}

(* _getProductList up to its await, with rs the requests left: the shown   *)
(* list is emptied, its item widgets go.                                   *)
StartLoad(rs) ==
    /\ list' = [open |-> TRUE, items |-> <<>>, inProgress |-> TRUE, deleting |-> {}]
    /\ requests' = Append([i \in DOMAIN rs |-> [rs[i] EXCEPT !.pos = 0]],
                          Request("load", 0, "whole", 0))
    /\ overlapped' = LoadsRunning(rs)
    /\ broke' = broke \ {"list"}

(* The requests after the form, or the list, was popped. *)
AfterFormPop(rs) ==
    [i \in DOMAIN rs |-> IF IsFormRequest(rs[i]) /\ rs[i].screen = "open"
                         THEN [rs[i] EXCEPT !.screen = "exiting"] ELSE rs[i]]

AfterListPop(rs) ==
    [i \in DOMAIN rs |-> IF IsFormRequest(rs[i]) THEN rs[i]
                         ELSE [rs[i] EXCEPT !.screen = "gone"]]

(* The products a load appends: fromJson throws at the first price that is *)
(* not an int.                                                             *)
Decoded(data) ==
    LET bad == {i \in DOMAIN data : data[i].price = "fraction"}
    IN  IF bad = {} THEN data
        ELSE SubSeq(data, 1, (CHOOSE i \in bad : \A j \in bad : i <= j) - 1)

-----------------------------------------------------------------------------
Init ==
    /\ server = <<>> /\ nextId = 1
    /\ requests = <<>> /\ list = NoList /\ form = NoForm
    /\ acked = {} /\ overlapped = FALSE /\ broke = {} /\ strayed = FALSE

OpenList ==
    /\ ~list.open /\ form.kind = "none" /\ Room
    /\ StartLoad(requests)
    /\ UNCHANGED <<server, nextId, form, acked, strayed>>

CloseList ==
    /\ OnList
    /\ list' = NoList
    /\ requests' = AfterListPop(requests)
    /\ UNCHANGED <<server, nextId, form, acked, overlapped, broke, strayed>>

(* The refresh button; nothing disables it while a load runs. *)
Refresh ==
    /\ OnList /\ Room
    /\ StartLoad(requests)
    /\ UNCHANGED <<server, nextId, form, acked, strayed>>

(* _deleteProduct of the item at position i: the item shows its spinner.   *)
DeleteProduct(i) ==
    /\ OnList /\ ~list.inProgress /\ i \in DOMAIN list.items /\ i \notin list.deleting
    /\ Room
    /\ list' = [list EXCEPT !.deleting = @ \cup {i}]
    /\ requests' = Append(requests, Request("delete", list.items[i], "whole", i))
    /\ UNCHANGED <<server, nextId, form, acked, overlapped, broke, strayed>>

OpenAdd ==
    /\ OnList
    /\ form' = [kind |-> "add", busy |-> FALSE, id |-> 0]
    /\ UNCHANGED <<server, nextId, requests, list, acked, overlapped, broke, strayed>>

OpenUpdate(i) ==
    /\ OnList /\ ~list.inProgress /\ i \in DOMAIN list.items /\ i \notin list.deleting
    /\ form' = [kind |-> "update", busy |-> FALSE, id |-> list.items[i]]
    /\ UNCHANGED <<server, nextId, requests, list, acked, overlapped, broke, strayed>>

(* Back: the list is not reloaded. *)
CloseForm ==
    /\ form.kind # "none"
    /\ form' = NoForm
    /\ requests' = AfterFormPop(requests)
    /\ strayed' = (strayed \/ (form.kind = "update" /\ form.busy))
    /\ broke' = broke \ {"form"}
    /\ UNCHANGED <<server, nextId, list, acked, overlapped>>

(* The exit animations end: the left forms are disposed. *)
ExitEnds ==
    /\ \E i \in DOMAIN requests : requests[i].screen = "exiting"
    /\ requests' = [i \in DOMAIN requests |->
                      IF requests[i].screen = "exiting"
                      THEN [requests[i] EXCEPT !.screen = "gone"] ELSE requests[i]]
    /\ UNCHANGED <<server, nextId, list, form, acked, overlapped, broke, strayed>>

(* The add form's button, replaced by a spinner while busy; behind it the  *)
(* validators ask for a text in every field and for nothing more.          *)
AddButton == form.kind = "add" /\ ~form.busy

(* The update form's button stays enabled while an update is running. *)
UpdateButton == form.kind = "update"

(* _onTapAddProductButton. *)
SubmitAdd ==
    /\ AddButton /\ Room
    /\ form' = [form EXCEPT !.busy = TRUE]
    /\ requests' = Append(requests, Request("add", 0, "whole", 0))
    /\ UNCHANGED <<server, nextId, list, acked, overlapped, broke, strayed>>

(* The same with a number field that does not parse: an exception.  *)
SubmitAddUnparsable ==
    /\ AddButton
    /\ form' = [form EXCEPT !.busy = TRUE]
    /\ broke' = broke \cup {"form"}
    /\ UNCHANGED <<server, nextId, requests, list, acked, overlapped, strayed>>

(* _updateProduct; a second tap sends it again. *)
SubmitUpdate(p) ==
    /\ UpdateButton /\ Room
    /\ form' = [form EXCEPT !.busy = TRUE]
    /\ requests' = Append(requests, Request("update", form.id, p, 0))
    /\ strayed' = (strayed \/ form.busy)
    /\ UNCHANGED <<server, nextId, list, acked, overlapped, broke>>

(* The same with a number that does not parse: caught, and the finally     *)
(* block clears the flag, also that of an update still on its way.         *)
SubmitUpdateUnparsable ==
    /\ UpdateButton
    /\ form' = [form EXCEPT !.busy = FALSE]
    /\ strayed' = (strayed \/ form.busy)
    /\ UNCHANGED <<server, nextId, requests, list, acked, overlapped, broke>>

-----------------------------------------------------------------------------
(* The service: external, as the client uses it. *)

(* The service's products without the one with this id, if there is one. *)
WithoutProduct(id) ==
    LET at == {k \in DOMAIN server : server[k].id = id}
    IN  IF at = {} THEN server ELSE RemoveAt(server, CHOOSE k \in at : TRUE)

(* The service serves request i. *)
Serve(i) ==
    /\ requests[i].stage = "sent"
    /\ LET q == requests[i]
       IN  /\ requests' = [requests EXCEPT ![i].stage = "served",
                                ![i].data = IF q.kind = "load" THEN server ELSE <<>>]
           /\ CASE q.kind = "load" -> UNCHANGED <<server, nextId>>
                [] q.kind = "delete" ->
                     /\ server' = WithoutProduct(q.id)
                     /\ UNCHANGED nextId
                [] q.kind = "add" ->
                     IF nextId > MaxId THEN UNCHANGED <<server, nextId>>
                     ELSE /\ server' = Append(server, [id |-> nextId, price |-> q.price])
                          /\ nextId' = nextId + 1
                [] q.kind = "update" ->
                     /\ server' = [k \in DOMAIN server |->
                                     IF server[k].id = q.id
                                     THEN [server[k] EXCEPT !.price = q.price]
                                     ELSE server[k]]
                     /\ UNCHANGED nextId
    /\ UNCHANGED <<list, form, acked, overlapped, broke, strayed>>

Served(i, kind) == requests[i].stage = "served" /\ requests[i].kind = kind

-----------------------------------------------------------------------------
(* The rest of each handler, after its await. *)

(* _getProductList with status 200. *)
LoadArrives(i) ==
    /\ Served(i, "load")
    /\ LET q == requests[i]
           good == Decoded(q.data)
       IN  IF q.screen = "open"
           THEN /\ list' = [list EXCEPT !.items = @ \o [k \in DOMAIN good |-> good[k].id],
                                        !.inProgress = @ /\ good # q.data]
                /\ broke' = IF good # q.data THEN broke \cup {"list"} ELSE broke
           ELSE UNCHANGED <<list, broke>>
    /\ requests' = RemoveAt(requests, i)
    /\ UNCHANGED <<server, nextId, form, acked, overlapped, strayed>>

(* _deleteProduct with status 200: the list is loaded again; a list that   *)
(* is disposed throws before it asks.                                      *)
DeleteArrives(i) ==
    /\ Served(i, "delete")
    /\ IF requests[i].screen = "open"
       THEN /\ StartLoad(RemoveAt(requests, i))
            /\ acked' = acked \cup {requests[i].id}
       ELSE requests' = RemoveAt(requests, i) /\ UNCHANGED <<list, acked, overlapped, broke>>
    /\ UNCHANGED <<server, nextId, form, strayed>>

(* Mutant: the pop takes the list too. *)
PopBoth(rs) ==
    /\ form' = NoForm /\ list' = NoList
    /\ requests' = AfterListPop(AfterFormPop(rs))
    /\ broke' = broke \ {"form"}

(* Navigator.pop(context, true): the screen on top goes. *)
PopTop(rs) ==
    \/ /\ form.kind # "none"
       /\ form' = NoForm /\ requests' = AfterFormPop(rs)
       /\ broke' = broke \ {"form"}
       /\ UNCHANGED list
    \/ /\ form.kind = "none"
       /\ list' = NoList /\ requests' = AfterListPop(rs)
       /\ UNCHANGED <<form, broke>>

(* _updateProduct with status 200 and success; on a disposed form every    *)
(* use of its context throws and nothing more happens.                     *)
UpdateArrives(i) ==
    /\ Served(i, "update")
    /\ IF requests[i].screen # "gone"
       THEN PopTop(RemoveAt(requests, i))
       ELSE requests' = RemoveAt(requests, i) /\ UNCHANGED <<list, form, broke>>
    /\ UNCHANGED <<server, nextId, acked, overlapped, strayed>>

(* Mutant: the flag stays. *)
FormNotFreed(q) == form

(* The form's progress flag is cleared, if the request is of the form that *)
(* is open.                                                                *)
FormFreed(q) == IF q.screen = "open" THEN [form EXCEPT !.busy = FALSE] ELSE form

(* _onTapAddProductButton with any status. *)
AddArrives(i) ==
    /\ Served(i, "add")
    /\ form' = FormFreed(requests[i])
    /\ requests' = RemoveAt(requests, i)
    /\ UNCHANGED <<server, nextId, list, acked, overlapped, broke, strayed>>

(* Another status than 200 to a load, a delete or an update. *)
Refused(i) ==
    /\ requests[i].kind # "add"
    /\ LET q == requests[i]
           mine == q.screen = "open"
       IN  /\ list' = IF mine /\ q.kind = "load" THEN [list EXCEPT !.inProgress = FALSE]
                      ELSE IF mine /\ q.kind = "delete"
                      THEN [list EXCEPT !.deleting = @ \ {q.pos}] ELSE list
           /\ form' = IF q.kind = "update" THEN FormFreed(q) ELSE form
    /\ requests' = RemoveAt(requests, i)
    /\ UNCHANGED <<server, nextId, acked, overlapped, broke, strayed>>

(* An exception instead of an answer; only _updateProduct catches it. *)
NetworkError(i) ==
    /\ LET q == requests[i]
           mine == q.screen = "open"
       IN  /\ form' = IF q.kind = "update" THEN FormFreed(q) ELSE form
           /\ broke' = IF mine /\ q.kind = "load" THEN broke \cup {"list"}
                       ELSE IF mine /\ q.kind = "add" THEN broke \cup {"form"} ELSE broke
    /\ requests' = RemoveAt(requests, i)
    /\ UNCHANGED <<server, nextId, list, acked, overlapped, strayed>>

Next ==
    \/ OpenList \/ CloseList \/ Refresh
    \/ \E i \in DOMAIN list.items : DeleteProduct(i) \/ OpenUpdate(i)
    \/ OpenAdd \/ CloseForm \/ ExitEnds \/ SubmitAdd \/ SubmitAddUnparsable
    \/ SubmitUpdateUnparsable
    \/ \E p \in Prices : SubmitUpdate(p)
    \/ \E i \in DOMAIN requests :
          \/ Serve(i) \/ LoadArrives(i) \/ DeleteArrives(i) \/ UpdateArrives(i)
          \/ AddArrives(i) \/ Refused(i) \/ NetworkError(i)

Spec == Init /\ [][Next]_vars

-----------------------------------------------------------------------------
(* Properties *)

(* Type correctness. *)
TypeOK ==
    /\ server \in Seq(Product) /\ nextId \in 1 .. (MaxId + 1)
    /\ list.items \in Seq(1 .. MaxId) /\ list.deleting \subseteq DOMAIN list.items
    /\ form.kind \in {"none", "add", "update"}
    /\ \A i \in DOMAIN requests :
          /\ requests[i].kind \in {"load", "delete", "add", "update"}
          /\ requests[i].screen = "exiting" => IsFormRequest(requests[i])
          /\ requests[i].screen = "open" /\ IsFormRequest(requests[i])
                => form.kind = requests[i].kind
    /\ broke \subseteq {"list", "form"}

(* A list filled by loads that did not overlap shows no product twice, and *)
(* none whose deletion the list was already told of.  (Overlapping loads   *)
(* both append to the list that each of them emptied when it started.)     *)
ListFaithful ==
    ~overlapped =>
        /\ \A i, j \in DOMAIN list.items : list.items[i] = list.items[j] => i = j
        /\ \A i \in DOMAIN list.items : list.items[i] \notin acked

(* Only an exception can leave a spinner behind: the list's spinner has a  *)
(* load running or a load or a decoding has thrown; the add button is away *)
(* because an add runs or has thrown; an update screen that waits has an   *)
(* update running.                                                         *)
SpinnerHasCause ==
    /\ list.inProgress => LoadsRunning(requests) \/ "list" \in broke
    /\ form.busy =>
         \/ \E i \in DOMAIN requests :
              requests[i].kind = form.kind /\ requests[i].screen = "open"
         \/ form.kind = "add" /\ "form" \in broke

(* An update that arrives closes the update screen it came from and never  *)
(* the list or another screen, as long as nobody leaves that screen or     *)
(* taps its button again while it waits.                                   *)
UpdateClosesOwnScreen ==
    [][~strayed =>
         /\ list.open /\ ~list'.open => CloseList
         /\ form.kind # "none" /\ form'.kind = "none" =>
              \/ CloseForm
              \/ \E i \in DOMAIN requests :
                   UpdateArrives(i) /\ requests[i].screen = "open"
                   /\ requests[i].id = form.id]_vars
=============================================================================
