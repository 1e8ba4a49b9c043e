------------------------------- MODULE UserPaging ------------------------------
(***************************************************************************)
(* The paged user list (lib/rest_api/complex_json/complex_api.dart).       *)
(*                                                                         *)
(* _fetchUsers asks for _currentPage and appends the answer to _users;     *)
(* _isLoading allows one request at a time.  _refreshData empties the list *)
(* and starts again from page 1, but its _fetchUsers returns at once when  *)
(* a request is running, whose answer then lands in the emptied list.      *)
(*                                                                         *)
(* The server's users are numbered in its order; a user is its number.     *)
(***************************************************************************)
EXTENDS Integers, Sequences

CONSTANTS
    PageSize,     \* _pageSize, 5 in the code
    Totals        \* how many users the server may have

ASSUME PagingAssumption ==
    /\ PageSize \in Nat \ {0}
    /\ Totals \subseteq Nat

VARIABLES
    total,        \* the users the server has
    users, currentPage, isLoading, hasMore,   \* the State's fields
    request,      \* the page asked for, 0 when no request is running
    mounted,
    raced         \* a refresh has met a running request (auxiliary)

pagingVars == <<total, users, currentPage, isLoading, hasMore, request, mounted, raced>>

Smaller(a, b) == IF a <= b THEN a ELSE b

(* What the server answers for page p: the external service's part. *)
ServerPage(p) ==
    [i \in 1 .. Smaller(PageSize, total - (p - 1) * PageSize) |-> (p - 1) * PageSize + i]

PagingInit ==
    /\ total \in Totals
    /\ users = <<>> /\ currentPage = 1 /\ hasMore = TRUE
    /\ isLoading = TRUE /\ request = 1     \* initState calls _fetchUsers
    /\ mounted = TRUE /\ raced = FALSE

(* _fetchUsers up to its await, called with page p current. *)
Fetch(p) == isLoading' = TRUE /\ request' = p

(* The scrollable list is built only when there are users; without them a  *)
(* spinner or the Retry button takes its place.                            *)
ListShown == mounted /\ users # <<>>

(* The scroll listener at the end of the list. *)
ScrollToEnd ==
    /\ ListShown /\ hasMore /\ ~isLoading
    /\ Fetch(currentPage)
    /\ UNCHANGED <<total, users, currentPage, hasMore, mounted, raced>>

(* The answer with status 200. *)
PageArrives ==
    /\ request # 0
    /\ request' = 0
    /\ IF mounted
       THEN LET fetched == ServerPage(request)
            IN  /\ users' = users \o fetched
                /\ currentPage' = currentPage + 1
                /\ hasMore' = (Len(fetched) = PageSize)
                /\ isLoading' = FALSE
       ELSE UNCHANGED <<users, currentPage, hasMore, isLoading>>
    /\ UNCHANGED <<total, mounted, raced>>

(* Mutants of FetchFails: the spinner stays; the page counter moves on. *)
FetchFailsBusy ==
    /\ request # 0
    /\ request' = 0
    /\ UNCHANGED <<total, users, currentPage, isLoading, hasMore, mounted, raced>>

FetchFailsAdvances ==
    /\ request # 0
    /\ request' = 0
    /\ isLoading' = (isLoading /\ ~mounted)
    /\ currentPage' = IF mounted THEN currentPage + 1 ELSE currentPage
    /\ UNCHANGED <<total, users, hasMore, mounted, raced>>

(* Another status, a network error or an undecodable body. *)
FetchFails ==
    /\ request # 0
    /\ request' = 0
    /\ isLoading' = (isLoading /\ ~mounted)
    /\ UNCHANGED <<total, users, currentPage, hasMore, mounted, raced>>

(* _refreshData: the app-bar button, the pull gesture and Retry. *)
RefreshData ==
    /\ mounted
    /\ users' = <<>> /\ currentPage' = 1 /\ hasMore' = TRUE
    /\ IF isLoading
       THEN raced' = (request # 1) /\ UNCHANGED <<isLoading, request>>
       ELSE raced' = FALSE /\ Fetch(1)
    /\ UNCHANGED <<total, mounted>>

(* dispose: the route is left, a running request is not cancelled. *)
Dispose ==
    /\ mounted
    /\ mounted' = FALSE
    /\ UNCHANGED <<total, users, currentPage, isLoading, hasMore, request, raced>>

(* The route is opened anew: a new State.  An answer still to come for the *)
(* old one can no longer be seen.                                          *)
Reopen ==
    /\ ~mounted
    /\ mounted' = TRUE
    /\ users' = <<>> /\ currentPage' = 1 /\ hasMore' = TRUE
    /\ Fetch(1) /\ raced' = FALSE
    /\ UNCHANGED total

PagingNext ==
    \/ ScrollToEnd \/ PageArrives \/ FetchFails \/ RefreshData \/ Dispose \/ Reopen

PagingSpec == PagingInit /\ [][PagingNext]_pagingVars

(* Every request ends, with an answer or an error. *)
FairPaging == PagingSpec /\ WF_pagingVars(PageArrives \/ FetchFails)

-----------------------------------------------------------------------------
(* Properties *)

(* Type correctness. *)
PagingTypeOK ==
    /\ total \in Nat /\ users \in Seq(Nat \ {0}) /\ currentPage \in Nat \ {0}
    /\ request \in Nat
    /\ isLoading \in BOOLEAN /\ hasMore \in BOOLEAN
    /\ mounted \in BOOLEAN /\ raced \in BOOLEAN

(* The list is the server's users from the first one on, without a gap or  *)
(* a repetition and as far as currentPage says, and a list that claims to  *)
(* be complete is: also when the total is a multiple of the page size.     *)
(* The exception is a refresh that met a request for a later page.         *)
PagesInOrder ==
    mounted /\ ~raced =>
        /\ users = [i \in 1 .. Smaller((currentPage - 1) * PageSize, total) |-> i]
        /\ ~hasMore => Len(users) = total

(* No request is outstanding for ever: the spinner ends. *)
SpinnerEnds == (mounted /\ isLoading) ~> (~mounted \/ ~isLoading)
=============================================================================
