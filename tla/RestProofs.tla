------------------------------- MODULE RestProofs -------------------------------
(***************************************************************************)
(* TLAPS proofs for the two screens that talk to an HTTP service.          *)
(*                                                                         *)
(* The product client (CrudApp): type correctness, that a list             *)
(* filled by loads that did not overlap shows no product twice and none    *)
(* that it was told is deleted (ListFaithful), that only an exception      *)
(* leaves a spinner behind (SpinnerHasCause), and that the answer to an    *)
(* update closes the screen that sent it (UpdateClosesOwnScreen), for any  *)
(* number of products and requests.                                        *)
(*                                                                         *)
(* The paged user list (UserPaging): type correctness, and                 *)
(* that the list is the server's users in order (PagesInOrder), for every  *)
(* page size and total.                                                    *)
(***************************************************************************)
EXTENDS CrudApp, UserPaging, SequenceTheorems, WellFoundedInduction, TLAPS

-----------------------------------------------------------------------------
(* The product client.                                                     *)

Stored == [kind : {"load", "delete", "add", "update"}, id : 0 .. MaxId, price : Prices,
           pos : Nat, stage : {"sent", "served"}, data : Seq(Product),
           screen : {"open", "exiting", "gone"}]
ListState == [open : BOOLEAN, items : Seq(1 .. MaxId), inProgress : BOOLEAN,
              deleting : SUBSET Nat]
FormState == [kind : {"none", "add", "update"}, busy : BOOLEAN, id : 0 .. MaxId]

(* The requests of a kind whose screen is open, and the updates that may   *)
(* still pop a screen.                                                     *)
OpenOf(kind) == {q \in Stored : q.kind = kind /\ q.screen = "open"}
Updates == {q \in Stored : q.kind = "update" /\ q.screen # "gone"}

(* A sequence has an element in T; it has at most one. *)
Has(s, T) == \E i \in DOMAIN s : s[i] \in T
AtMostOne(s, T) == \A i, j \in DOMAIN s : s[i] \in T /\ s[j] \in T => i = j

(* The elements of t are those of s but the i-th, none of them doubled. *)
LeftOver(t, s, i) ==
    \E f \in [DOMAIN t -> DOMAIN s] :
        /\ \A k \in DOMAIN t : f[k] # i /\ t[k] = s[f[k]]
        /\ \A k, l \in DOMAIN t : f[k] = f[l] => k = l
        /\ \A j \in DOMAIN s : j # i => \E k \in DOMAIN t : f[k] = j

(* No product twice; only ids that the service has given out. *)
Unique(s) == \A i, j \in DOMAIN s : s[i].id = s[j].id => i = j
Given(s) == \A i \in DOMAIN s : s[i].id < nextId

(* The service: its ids are its own, and what the list was told is deleted *)
(* is deleted for good.                                                    *)
ServiceOK ==
    /\ server \in Seq(Product) /\ nextId \in 1 .. (MaxId + 1)
    /\ Unique(server) /\ Given(server)
    /\ acked \subseteq 1 .. (nextId - 1)
    /\ \A k \in DOMAIN server : server[k].id \notin acked

(* The two screens. *)
ListOK ==
    /\ list \in ListState /\ list.deleting \subseteq DOMAIN list.items
    /\ \A k \in DOMAIN list.items : list.items[k] < nextId
FormOK == form \in FormState /\ (form.kind = "none" => ~form.busy)
FlagsOK == overlapped \in BOOLEAN /\ strayed \in BOOLEAN /\ broke \subseteq {"list", "form"}

(* The requests that agree with the form: an open one belongs to it, and   *)
(* unless somebody strayed an update that may pop a screen is waited for.  *)
Owned ==
    {q \in Stored :
        /\ q.screen = "exiting" => IsFormRequest(q)
        /\ q.screen = "open" /\ IsFormRequest(q) => form.kind = q.kind
        /\ q.screen = "open" /\ q.kind = "update" => q.id = form.id
        /\ ~strayed /\ q \in Updates => q.screen = "open" /\ form.busy}

(* The requests that agree with the service: products that it has given    *)
(* out, and a served delete whose product is away for good.                *)
Known ==
    {q \in Stored :
        /\ Unique(q.data) /\ Given(q.data)
        /\ q.kind = "delete" =>
              /\ q.id \in 1 .. (nextId - 1)
              /\ q.stage = "served" => \A k \in DOMAIN server : server[k].id # q.id}

(* The requests that agree with the list: a load that met no other one     *)
(* finds the list still empty and was served after every delete that the   *)
(* list was told of.                                                       *)
Fresh ==
    {q \in Stored :
        ~overlapped /\ q \in OpenOf("load") =>
            /\ list.items = <<>>
            /\ \A k \in DOMAIN q.data : q.data[k].id \notin acked}

RequestsOK ==
    /\ requests \in Seq(Owned) /\ requests \in Seq(Known) /\ requests \in Seq(Fresh)
    /\ ~overlapped => AtMostOne(requests, OpenOf("load"))
    /\ ~strayed => AtMostOne(requests, Updates)

(* SpinnerHasCause, said of sets of requests. *)
ListSpin == list.inProgress => Has(requests, OpenOf("load")) \/ "list" \in broke
FormSpin ==
    form.busy => \/ Has(requests, OpenOf(form.kind))
                 \/ form.kind = "add" /\ "form" \in broke

CrudInv ==
    /\ ServiceOK /\ ListOK /\ FormOK /\ FlagsOK /\ RequestsOK
    /\ ListFaithful /\ ListSpin /\ FormSpin

-----------------------------------------------------------------------------
(* Sequences. *)

(* A sequence with one element taken out: the others keep their order and  *)
(* none of them is doubled.                                                *)
LEMMA RemoveAtSource ==
  ASSUME NEW S, NEW s \in Seq(S), NEW i \in DOMAIN s
  PROVE  LET t == RemoveAt(s, i)
         IN  /\ t \in Seq(S) /\ Len(t) = Len(s) - 1 /\ DOMAIN t = 1 .. (Len(s) - 1)
             /\ LeftOver(t, s, i)
<1> DEFINE n == Len(s)
           a == SubSeq(s, 1, i - 1)
           b == SubSeq(s, i + 1, n)
           t == RemoveAt(s, i)
           f == [k \in 1 .. (n - 1) |-> IF k < i THEN k ELSE k + 1]
<1>1. n \in Nat \ {0} /\ DOMAIN s = 1 .. n /\ i \in 1 .. n
  OBVIOUS
<1>2. /\ a \in Seq(S) /\ Len(a) = i - 1
      /\ \A k \in 1 .. (i - 1) : a[k] = s[k]
  BY <1>1
<1>3. /\ b \in Seq(S) /\ Len(b) = n - i
      /\ \A k \in 1 .. (n - i) : b[k] = s[i + k]
  BY <1>1
<1>4. t = a \o b
  BY DEF RemoveAt
<1> HIDE DEF a, b, t
<1>5. /\ t \in Seq(S) /\ Len(t) = n - 1
      /\ \A k \in 1 .. (n - 1) : t[k] = IF k <= i - 1 THEN a[k] ELSE b[k - (i - 1)]
  <2>1. /\ a \o b \in Seq(S) /\ Len(a \o b) = Len(a) + Len(b)
        /\ \A k \in 1 .. Len(a) + Len(b) :
              (a \o b)[k] = IF k <= Len(a) THEN a[k] ELSE b[k - Len(a)]
    BY <1>2, <1>3, ConcatProperties
  <2>2. Len(a) + Len(b) = n - 1
    BY <1>1, <1>2, <1>3
  <2> QED BY <1>2, <1>4, <2>1, <2>2, Zenon
<1>6. DOMAIN t = 1 .. (n - 1)
  BY <1>5
<1>7. ASSUME NEW k \in 1 .. (n - 1)
      PROVE  f[k] \in 1 .. n /\ f[k] # i /\ t[k] = s[f[k]]
  <2>1. CASE k < i
    BY <1>1, <1>2, <1>5, <2>1
  <2>2. CASE ~(k < i)
    <3>1. k - (i - 1) \in 1 .. (n - i) /\ i + (k - (i - 1)) = k + 1 /\ ~(k <= i - 1)
      BY <1>1, <2>2
    <3>2. t[k] = b[k - (i - 1)]
      BY <1>5, <3>1
    <3>3. f[k] = k + 1 /\ k + 1 \in 1 .. n /\ k + 1 # i
      BY <1>1, <2>2
    <3> QED BY <1>3, <3>1, <3>2, <3>3
  <2> QED BY <2>1, <2>2
<1>8. ASSUME NEW k \in 1 .. (n - 1), NEW l \in 1 .. (n - 1), f[k] = f[l] PROVE k = l
  BY <1>1, <1>8
<1>9. ASSUME NEW j \in 1 .. n, j # i PROVE \E k \in 1 .. (n - 1) : f[k] = j
  <2>1. CASE j < i
    BY <1>1, <2>1
  <2>2. CASE ~(j < i)
    <3>1. j - 1 \in 1 .. (n - 1) /\ f[j - 1] = j
      BY <1>1, <1>9, <2>2
    <3> QED BY <3>1
  <2> QED BY <2>1, <2>2
<1>10. f \in [1 .. (n - 1) -> 1 .. n]
  BY <1>7
<1> HIDE DEF f, n
<1>11. LeftOver(t, s, i)
  <2>1. f \in [DOMAIN t -> DOMAIN s]
    BY <1>1, <1>6, <1>10, Zenon
  <2>2. \A k \in DOMAIN t : f[k] # i /\ t[k] = s[f[k]]
    BY <1>6, <1>7, Zenon
  <2>3. \A k, l \in DOMAIN t : f[k] = f[l] => k = l
    BY <1>6, <1>8, Zenon
  <2>4. \A j \in DOMAIN s : j # i => \E k \in DOMAIN t : f[k] = j
    BY <1>1, <1>6, <1>9, Zenon
  <2> QED BY <2>1, <2>2, <2>3, <2>4, Zenon DEF LeftOver
<1> QED BY <1>5, <1>6, <1>11, Zenon DEF t, n

(* What is left in T when an element is taken out. *)
LEMMA Removed ==
  ASSUME NEW S, NEW s \in Seq(S), NEW i \in DOMAIN s, NEW T
  PROVE  LET t == RemoveAt(s, i)
         IN  /\ t \in Seq(S)
             /\ AtMostOne(s, T) => AtMostOne(t, T)
             /\ AtMostOne(s, T) /\ s[i] \in T => ~Has(t, T)
             /\ Has(t, T) => Has(s, T)
             /\ Has(s, T) /\ s[i] \notin T => Has(t, T)
<1> DEFINE t == RemoveAt(s, i)
<1>1. t \in Seq(S) /\ LeftOver(t, s, i)
  BY RemoveAtSource
<1>2. PICK f \in [DOMAIN t -> DOMAIN s] :
           /\ \A k \in DOMAIN t : f[k] # i /\ t[k] = s[f[k]]
           /\ \A k, l \in DOMAIN t : f[k] = f[l] => k = l
           /\ \A j \in DOMAIN s : j # i => \E k \in DOMAIN t : f[k] = j
  BY <1>1, Zenon DEF LeftOver
<1> HIDE DEF t
<1>3. \A k \in DOMAIN t : f[k] \in DOMAIN s
  BY <1>2
<1>4. AtMostOne(s, T) => AtMostOne(t, T)
  BY <1>2, <1>3, Zenon DEF AtMostOne
<1>5. AtMostOne(s, T) /\ s[i] \in T => ~Has(t, T)
  BY <1>2, <1>3, Zenon DEF AtMostOne, Has
<1>6. Has(t, T) => Has(s, T)
  BY <1>2, <1>3, Zenon DEF Has
<1>7. ASSUME Has(s, T), s[i] \notin T PROVE Has(t, T)
  <2>1. PICK j \in DOMAIN s : s[j] \in T
    BY <1>7, Zenon DEF Has
  <2>2. PICK k \in DOMAIN t : f[k] = j
    BY <1>2, <1>7, <2>1, Zenon
  <2>3. t[k] \in T
    BY <1>2, <2>1, <2>2
  <2> QED BY <2>3, Zenon DEF Has
<1> QED BY <1>1, <1>4, <1>5, <1>6, <1>7, Zenon DEF t

(* The same when an element is added. *)
LEMMA Added ==
  ASSUME NEW S, NEW s \in Seq(S), NEW q \in S, NEW T
  PROVE  LET t == Append(s, q)
         IN  /\ t \in Seq(S)
             /\ AtMostOne(s, T) /\ (q \notin T \/ ~Has(s, T)) => AtMostOne(t, T)
             /\ Has(s, T) \/ q \in T => Has(t, T)
             /\ \A k \in DOMAIN t : t[k] = q \/ (k \in DOMAIN s /\ t[k] = s[k])
<1> DEFINE t == Append(s, q)
           n == Len(s)
<1>1. /\ t \in Seq(S) /\ n \in Nat /\ DOMAIN s = 1 .. n /\ DOMAIN t = 1 .. (n + 1)
      /\ t[n + 1] = q /\ \A k \in 1 .. n : t[k] = s[k]
  OBVIOUS
<1> HIDE DEF t, n
<1>2. \A k \in DOMAIN t : k \in DOMAIN s \/ k = n + 1
  BY <1>1
<1>3. n + 1 \in DOMAIN t /\ \A k \in DOMAIN s : k \in DOMAIN t /\ t[k] = s[k]
  BY <1>1
<1>4. AtMostOne(s, T) /\ (q \notin T \/ ~Has(s, T)) => AtMostOne(t, T)
  BY <1>1, <1>2, <1>3, Zenon DEF AtMostOne, Has
<1>5. Has(s, T) \/ q \in T => Has(t, T)
  BY <1>1, <1>3, Zenon DEF Has
<1>6. \A k \in DOMAIN t : t[k] = q \/ (k \in DOMAIN s /\ t[k] = s[k])
  BY <1>1, <1>2, <1>3, Zenon
<1> QED BY <1>1, <1>4, <1>5, <1>6, Zenon DEF t

(* The same when every element is changed. *)
LEMMA Mapped ==
  ASSUME NEW S, NEW s \in Seq(S), NEW U, NEW t, t = [k \in DOMAIN s |-> t[k]],
         \A k \in DOMAIN s : t[k] \in U
  PROVE  /\ t \in Seq(U) /\ DOMAIN t = DOMAIN s /\ Len(t) = Len(s)
         /\ \A T : (\A k \in DOMAIN s : t[k] \in T => s[k] \in T) =>
                   /\ AtMostOne(s, T) => AtMostOne(t, T)
                   /\ Has(t, T) => Has(s, T)
         /\ \A T : (\A k \in DOMAIN s : s[k] \in T => t[k] \in T) =>
                   (Has(s, T) => Has(t, T))
<1>1. DOMAIN s = 1 .. Len(s) /\ Len(s) \in Nat
  OBVIOUS
<1>2. DOMAIN t = DOMAIN s
  OBVIOUS
<1>3. t \in Seq(U)
  <2>1. [k \in 1 .. Len(s) |-> t[k]] \in Seq(U)
    BY <1>1, IsASeq
  <2> QED BY <1>1, <2>1
<1>4. Len(t) = Len(s)
  BY <1>1, <1>2, <1>3
<1> QED BY <1>2, <1>3, <1>4, Zenon DEF AtMostOne, Has

(* An element of a sequence. *)
LEMMA Element ==
  ASSUME NEW S, NEW s \in Seq(S), NEW i \in DOMAIN s
  PROVE  s[i] \in S /\ i \in Nat \ {0}
  OBVIOUS

(* A sequence over a larger set. *)
LEMMA Widened ==
  ASSUME NEW S, NEW U, NEW s \in Seq(S), \A k \in DOMAIN s : s[k] \in S => s[k] \in U
  PROVE  s \in Seq(U)
<1>1. \A k \in DOMAIN s : s[k] \in U
  OBVIOUS
<1> QED BY <1>1

-----------------------------------------------------------------------------
(* Products. *)

(* A set of natural numbers has a smallest element. *)
LEMMA SmallestNumber ==
  ASSUME NEW T \in SUBSET Nat, T # {}
  PROVE  \E n \in T : \A m \in T : n <= m
<1>1. PICK n \in T : \A m \in T : ~(<<m, n>> \in OpToRel(<, Nat))
  BY WFMin, NatLessThanWellFounded, Zenon
<1>2. ASSUME NEW m \in T, m < n PROVE FALSE
  <2>1. <<m, n>> \in OpToRel(<, Nat)
    BY <1>2 DEF OpToRel
  <2> QED BY <1>1, <2>1, Zenon
<1> QED BY <1>2

(* Decoding stops early or not at all: what it returns is a prefix. *)
LEMMA DecodedPrefix ==
  ASSUME NEW S, NEW d \in Seq(S)
  PROVE  LET t == Decoded(d)
         IN  /\ t \in Seq(S) /\ DOMAIN t \subseteq DOMAIN d
             /\ \A k \in DOMAIN t : t[k] = d[k]
<1> DEFINE bad == {i \in DOMAIN d : d[i].price = "fraction"}
           m == CHOOSE i \in bad : \A j \in bad : i <= j
<1>1. CASE bad = {}
  BY <1>1 DEF Decoded
<1>2. CASE bad # {}
  <2>1. bad \in SUBSET Nat /\ \A i \in bad : i \in 1 .. Len(d)
    OBVIOUS
  <2>2. \E n \in bad : \A j \in bad : n <= j
    <3> HIDE DEF bad
    <3> QED BY <1>2, <2>1, SmallestNumber, Zenon
  <2>3. m \in bad
    <3> HIDE DEF bad
    <3> QED BY <2>2, Zenon
  <2>4. m \in 1 .. Len(d)
    BY <2>1, <2>3, Zenon
  <2>5. Decoded(d) = SubSeq(d, 1, m - 1)
    BY <1>2 DEF Decoded
  <2> HIDE DEF bad, m
  <2>6. /\ SubSeq(d, 1, m - 1) \in Seq(S) /\ Len(SubSeq(d, 1, m - 1)) = m - 1
        /\ \A k \in 1 .. (m - 1) : SubSeq(d, 1, m - 1)[k] = d[k]
    BY <2>4
  <2>7. DOMAIN SubSeq(d, 1, m - 1) = 1 .. (m - 1) /\ 1 .. (m - 1) \subseteq DOMAIN d
    BY <2>4, <2>6
  <2> QED BY <2>5, <2>6, <2>7
<1> QED BY <1>1, <1>2

(* The service without a product: the id is away, the others are as before. *)
LEMMA WithoutFacts ==
  ASSUME server \in Seq(Product), Unique(server), NEW id
  PROVE  LET t == WithoutProduct(id)
         IN  /\ t \in Seq(Product) /\ Unique(t)
             /\ \A k \in DOMAIN t : t[k].id # id
             /\ \A k \in DOMAIN t : \E j \in DOMAIN server : t[k] = server[j]
<1> DEFINE at == {k \in DOMAIN server : server[k].id = id}
           c == CHOOSE k \in at : TRUE
           t == WithoutProduct(id)
<1>1. CASE at = {}
  <2>1. t = server /\ \A k \in DOMAIN server : server[k].id # id
    BY <1>1 DEF WithoutProduct
  <2> HIDE DEF t
  <2> QED BY <2>1, Zenon DEF t
<1>2. CASE at # {}
  <2>1. c \in DOMAIN server /\ server[c].id = id
    BY <1>2
  <2>2. t = RemoveAt(server, c)
    BY <1>2 DEF WithoutProduct
  <2> HIDE DEF t, c, at
  <2>3. t \in Seq(Product) /\ LeftOver(t, server, c)
    BY <2>1, <2>2, RemoveAtSource
  <2>4. PICK f \in [DOMAIN t -> DOMAIN server] :
            /\ \A k \in DOMAIN t : f[k] # c /\ t[k] = server[f[k]]
            /\ \A k, l \in DOMAIN t : f[k] = f[l] => k = l
    BY <2>3, Zenon DEF LeftOver
  <2>5. \A k \in DOMAIN t : f[k] \in DOMAIN server
    BY <2>4
  <2>6. ASSUME NEW k \in DOMAIN t, NEW l \in DOMAIN t, t[k].id = t[l].id PROVE k = l
    <3>1. server[f[k]].id = server[f[l]].id /\ f[k] \in DOMAIN server /\ f[l] \in DOMAIN server
      BY <2>4, <2>5, <2>6
    <3>2. f[k] = f[l]
      BY <3>1, Zenon DEF Unique
    <3> QED BY <2>4, <3>2, Zenon
  <2>7. \A k \in DOMAIN t : t[k].id # id
    BY <2>1, <2>4, <2>5, Zenon DEF Unique
  <2>8. \A k \in DOMAIN t : \E j \in DOMAIN server : t[k] = server[j]
    BY <2>4, <2>5, Zenon
  <2> QED BY <2>3, <2>6, <2>7, <2>8, Zenon DEF t, Unique
<1> QED BY <1>1, <1>2

-----------------------------------------------------------------------------
(* Requests. *)

(* The requests are well-formed ones. *)
LEMMA RequestsStored ==
  ASSUME RequestsOK
  PROVE  /\ requests \in Seq(Stored)
         /\ \A i \in DOMAIN requests :
               /\ requests[i] \in Stored /\ requests[i] \in Owned
               /\ requests[i] \in Known /\ requests[i] \in Fresh
<1>1. requests \in Seq(Owned) /\ requests \in Seq(Known) /\ requests \in Seq(Fresh)
  BY DEF RequestsOK
<1>2. \A q \in Owned : q \in Stored
  BY DEF Owned
<1> HIDE DEF Owned, Known, Fresh
<1>3. \A i \in DOMAIN requests :
         requests[i] \in Owned /\ requests[i] \in Known /\ requests[i] \in Fresh
  BY <1>1
<1>4. \A i \in DOMAIN requests : requests[i] \in Stored
  BY <1>2, <1>3, Zenon
<1>5. requests \in Seq(Stored)
  BY <1>1, <1>4, Widened, Zenon
<1> QED BY <1>3, <1>4, <1>5, Zenon

(* Every invariant of the requests, but for the one taken out. *)
LEMMA RequestRemoved ==
  ASSUME RequestsOK, NEW i \in DOMAIN requests
  PROVE  LET t == RemoveAt(requests, i)
         IN  /\ t \in Seq(Stored) /\ t \in Seq(Owned) /\ t \in Seq(Known) /\ t \in Seq(Fresh)
             /\ ~overlapped => AtMostOne(t, OpenOf("load"))
             /\ ~strayed => AtMostOne(t, Updates)
             /\ ~overlapped /\ requests[i] \in OpenOf("load") => ~Has(t, OpenOf("load"))
             /\ ~strayed /\ requests[i] \in Updates => ~Has(t, Updates)
             /\ \A T : Has(requests, T) /\ requests[i] \notin T => Has(t, T)
<1>1. /\ requests \in Seq(Owned) /\ requests \in Seq(Known) /\ requests \in Seq(Fresh)
      /\ requests \in Seq(Stored)
      /\ ~overlapped => AtMostOne(requests, OpenOf("load"))
      /\ ~strayed => AtMostOne(requests, Updates)
  BY RequestsStored DEF RequestsOK
<1> DEFINE t == RemoveAt(requests, i)
<1>2. t \in Seq(Stored) /\ t \in Seq(Owned) /\ t \in Seq(Known) /\ t \in Seq(Fresh)
  BY <1>1, Removed
<1>3. ASSUME NEW T
      PROVE  /\ AtMostOne(requests, T) => AtMostOne(t, T)
             /\ AtMostOne(requests, T) /\ requests[i] \in T => ~Has(t, T)
             /\ Has(requests, T) /\ requests[i] \notin T => Has(t, T)
  BY <1>1, Removed
<1> HIDE DEF t
<1>4. /\ ~overlapped => AtMostOne(t, OpenOf("load"))
      /\ ~strayed => AtMostOne(t, Updates)
      /\ ~overlapped /\ requests[i] \in OpenOf("load") => ~Has(t, OpenOf("load"))
      /\ ~strayed /\ requests[i] \in Updates => ~Has(t, Updates)
      /\ \A T : Has(requests, T) /\ requests[i] \notin T => Has(t, T)
  BY <1>1, <1>3, Zenon
<1> QED BY <1>2, <1>4, Zenon DEF t

(* A request changed in its position only. *)
LEMMA Unplaced ==
  ASSUME NEW q \in Stored
  PROVE  LET r == [q EXCEPT !.pos = 0]
         IN  /\ r \in Stored /\ (q \in Owned => r \in Owned) /\ (q \in Known => r \in Known)
             /\ \A x : r \in OpenOf(x) <=> q \in OpenOf(x)
             /\ r \in Updates <=> q \in Updates
<1> DEFINE r == [q EXCEPT !.pos = 0]
<1>1. /\ r \in Stored /\ r.kind = q.kind /\ r.id = q.id /\ r.stage = q.stage
      /\ r.data = q.data /\ r.screen = q.screen
  BY DEF Stored
<1> HIDE DEF r
<1>2. \A x : r \in OpenOf(x) <=> q \in OpenOf(x)
  BY <1>1, Zenon DEF OpenOf
<1>3. r \in Updates <=> q \in Updates
  BY <1>1, Zenon DEF Updates
<1>4. q \in Owned => r \in Owned
  BY <1>1, <1>3, Zenon DEF Owned, IsFormRequest
<1>5. q \in Known => r \in Known
  BY <1>1, Zenon DEF Known
<1> QED BY <1>1, <1>2, <1>3, <1>4, <1>5, Zenon DEF r

(* What the sets of good requests depend on. *)
LEMMA SetsKept ==
  /\ UNCHANGED <<form, strayed>> => Owned' = Owned /\ (FormOK => FormOK')
  /\ UNCHANGED <<server, nextId>> => Known' = Known
  /\ UNCHANGED <<list, overlapped, acked>> => Fresh' = Fresh
  /\ UNCHANGED <<server, nextId, acked>> => (ServiceOK => ServiceOK')
  /\ UNCHANGED <<list, nextId>> => (ListOK => ListOK')
  /\ UNCHANGED <<list, overlapped, acked>> => (ListFaithful => ListFaithful')
<1>1. ASSUME UNCHANGED <<form, strayed>> PROVE Owned' = Owned /\ (FormOK => FormOK')
  BY <1>1 DEF Owned, FormOK
<1>2. ASSUME UNCHANGED <<server, nextId>> PROVE Known' = Known
  BY <1>2 DEF Known, Given
<1>3. ASSUME UNCHANGED <<list, overlapped, acked>> PROVE Fresh' = Fresh
  BY <1>3 DEF Fresh
<1>4. ASSUME UNCHANGED <<server, nextId, acked>> PROVE ServiceOK => ServiceOK'
  BY <1>4 DEF ServiceOK, Given
<1>5. ASSUME UNCHANGED <<list, nextId>> PROVE ListOK => ListOK'
  BY <1>5 DEF ListOK
<1>6. ASSUME UNCHANGED <<list, overlapped, acked>> PROVE ListFaithful => ListFaithful'
  BY <1>6 DEF ListFaithful
<1> QED BY <1>1, <1>2, <1>3, <1>4, <1>5, <1>6, Zenon

(* The request that a load sends. *)
LEMMA LoadRequest ==
  LET q == Request("load", 0, "whole", 0)
  IN  /\ q \in Stored /\ q \in Owned /\ q \in Known /\ q \in OpenOf("load") /\ q.data = <<>>
      /\ \A x : x # "load" => q \notin OpenOf(x)
      /\ q \notin Updates
<1> DEFINE q == Request("load", 0, "whole", 0)
<1>1. /\ q \in Stored /\ q.kind = "load" /\ q.screen = "open" /\ q.stage = "sent"
      /\ q.data = <<>>
  BY CrudAssumption DEF Request, Stored, Prices
<1>2. DOMAIN <<>> = {}
  OBVIOUS
<1> HIDE DEF q
<1>3. q \in OpenOf("load") /\ q \notin Updates /\ \A x : x # "load" => q \notin OpenOf(x)
  BY <1>1 DEF OpenOf, Updates
<1>4. q \in Owned
  BY <1>1, <1>3 DEF Owned, IsFormRequest
<1>5. q \in Known
  BY <1>1, <1>2 DEF Known, Unique, Given
<1> QED BY <1>1, <1>3, <1>4, <1>5, Zenon DEF q

(* A load that starts, with rs the requests left: it empties the list, so  *)
(* that nothing in it can be wrong, and it is alone unless it says so.     *)
LEMMA LoadStarts ==
  ASSUME NEW rs \in Seq(Stored), rs \in Seq(Owned), rs \in Seq(Known),
         ~strayed => AtMostOne(rs, Updates),
         form.busy => Has(rs, OpenOf(form.kind)) \/ (form.kind = "add" /\ "form" \in broke),
         FormOK, FlagsOK, StartLoad(rs), UNCHANGED <<server, nextId, form, strayed>>
  PROVE  /\ ListOK' /\ FormOK' /\ FlagsOK' /\ RequestsOK' /\ ListFaithful'
         /\ ListSpin' /\ FormSpin'
<1> DEFINE t == [i \in DOMAIN rs |-> [rs[i] EXCEPT !.pos = 0]]
           q == Request("load", 0, "whole", 0)
<1>1. /\ list' = [open |-> TRUE, items |-> <<>>, inProgress |-> TRUE, deleting |-> {}]
      /\ requests' = Append(t, q) /\ overlapped' = LoadsRunning(rs)
      /\ broke' = broke \ {"list"} /\ form' = form /\ strayed' = strayed
  BY DEF StartLoad
<1>2. Owned' = Owned /\ Known' = Known /\ FormOK'
  BY SetsKept
<1>3. /\ q \in Stored /\ q \in Owned /\ q \in Known /\ q \in OpenOf("load") /\ q.data = <<>>
      /\ \A x : x # "load" => q \notin OpenOf(x)
      /\ q \notin Updates
  BY LoadRequest
<1>4. \A i \in DOMAIN rs : rs[i] \in Stored /\ rs[i] \in Owned /\ rs[i] \in Known
  <2> HIDE DEF Owned, Known
  <2> QED OBVIOUS
<1>5. ASSUME NEW i \in DOMAIN rs
      PROVE  /\ t[i] \in Stored /\ t[i] \in Owned /\ t[i] \in Known
             /\ \A x : t[i] \in OpenOf(x) <=> rs[i] \in OpenOf(x)
             /\ t[i] \in Updates <=> rs[i] \in Updates
  <2>1. t[i] = [rs[i] EXCEPT !.pos = 0]
    OBVIOUS
  <2> HIDE DEF t
  <2> QED BY <1>4, <2>1, Unplaced
<1>6. t = [i \in DOMAIN rs |-> t[i]]
  OBVIOUS
<1>7. list'.items = <<>> /\ list'.inProgress /\ list' \in ListState /\ list'.deleting = {}
  BY <1>1 DEF ListState
<1>8. DOMAIN <<>> = {}
  OBVIOUS
<1> HIDE DEF t, q
<1>9. /\ t \in Seq(Owned) /\ t \in Seq(Known) /\ t \in Seq(Stored)
      /\ \A T : (\A k \in DOMAIN rs : t[k] \in T => rs[k] \in T) =>
                 /\ AtMostOne(rs, T) => AtMostOne(t, T)
                 /\ Has(t, T) => Has(rs, T)
      /\ \A T : (\A k \in DOMAIN rs : rs[k] \in T => t[k] \in T) => (Has(rs, T) => Has(t, T))
  <2>1. t \in Seq(Owned)
    BY <1>5, <1>6, Mapped, Zenon
  <2>2. t \in Seq(Known)
    BY <1>5, <1>6, Mapped, Zenon
  <2>3. t \in Seq(Stored)
    BY <1>5, <1>6, Mapped, Zenon
  <2>4. \A T : (\A k \in DOMAIN rs : t[k] \in T => rs[k] \in T) =>
                 /\ AtMostOne(rs, T) => AtMostOne(t, T)
                 /\ Has(t, T) => Has(rs, T)
    BY <1>5, <1>6, Mapped, Zenon
  <2>5. \A T : (\A k \in DOMAIN rs : rs[k] \in T => t[k] \in T) => (Has(rs, T) => Has(t, T))
    BY <1>5, <1>6, Mapped, Zenon
  <2> QED BY <2>1, <2>2, <2>3, <2>4, <2>5, Zenon
<1>10. /\ AtMostOne(rs, Updates) => AtMostOne(t, Updates)
       /\ Has(t, OpenOf("load")) => Has(rs, OpenOf("load"))
       /\ \A x : Has(rs, OpenOf(x)) => Has(t, OpenOf(x))
  BY <1>5, <1>9, Zenon
<1>11. ASSUME NEW T
       PROVE  /\ AtMostOne(t, T) /\ (q \notin T \/ ~Has(t, T)) => AtMostOne(requests', T)
              /\ Has(t, T) \/ q \in T => Has(requests', T)
  BY <1>1, <1>3, <1>9, Added, Zenon
<1>12. requests' \in Seq(Owned) /\ requests' \in Seq(Known) /\ requests' \in Seq(Stored)
  BY <1>1, <1>3, <1>9, Added, Zenon
<1>13. Has(rs, OpenOf("load")) <=> overlapped'
  <2>1. LoadsRunning(rs) <=> Has(rs, OpenOf("load"))
    BY <1>4, Zenon DEF LoadsRunning, Has, OpenOf
  <2> QED BY <1>1, <2>1, Zenon
<1>14. \A T : ~Has(t, T) => AtMostOne(t, T)
  BY Zenon DEF Has, AtMostOne
<1>15. RequestsOK'
  <2>1. ~overlapped' => AtMostOne(requests', OpenOf("load"))
    BY <1>10, <1>11, <1>13, <1>14, Zenon
  <2>2. ~strayed' => AtMostOne(requests', Updates)
    BY <1>1, <1>3, <1>10, <1>11
  <2>3. ASSUME NEW r \in Stored, r \in OpenOf("load") => r = q \/ overlapped'
        PROVE  r \in Fresh'
    <3>1. CASE r = q
      <4>1. DOMAIN r.data = {}
        BY <1>3, <1>8, <3>1
      <4> QED BY <1>7, <4>1 DEF Fresh
    <3>2. CASE r \notin OpenOf("load") \/ overlapped'
      BY <3>2 DEF Fresh
    <3> QED BY <2>3, <3>1, <3>2
  <2>4. ASSUME NEW k \in DOMAIN requests' PROVE requests'[k] \in Fresh'
    <3>1. requests'[k] = q \/ (k \in DOMAIN t /\ requests'[k] = t[k])
      BY <1>1, <1>3, <1>9, Added, Zenon
    <3>2. requests'[k] \in Stored
      BY <1>12
    <3>3. k \in DOMAIN t /\ t[k] \in OpenOf("load") => overlapped'
      BY <1>10, <1>13, Zenon DEF Has
    <3> QED BY <2>3, <3>1, <3>2, <3>3, Zenon
  <2>5. requests' \in Seq(Fresh')
    BY <1>12, <2>4, Widened, Zenon
  <2> QED BY <1>2, <1>12, <2>1, <2>2, <2>5, Zenon DEF RequestsOK
<1>16. ListSpin' /\ ListFaithful' /\ ListOK'
  BY <1>3, <1>7, <1>8, <1>11 DEF ListSpin, ListFaithful, ListOK
<1>17. FormSpin'
  BY <1>1, <1>10, <1>11 DEF FormSpin
<1>18. FlagsOK'
  BY <1>1 DEF FlagsOK, LoadsRunning
<1> QED BY <1>2, <1>15, <1>16, <1>17, <1>18

-----------------------------------------------------------------------------
(* The screens. *)

(* Opening the list, or refreshing it. *)
LEMMA LoadStep ==
  ASSUME CrudInv, OpenList \/ Refresh
  PROVE  CrudInv'
<1>1. StartLoad(requests) /\ UNCHANGED <<server, nextId, form, acked, strayed>>
  BY DEF OpenList, Refresh
<1>2. PICK rs : rs = requests
  OBVIOUS
<1>3. /\ rs \in Seq(Stored) /\ rs \in Seq(Owned) /\ rs \in Seq(Known)
      /\ ~strayed => AtMostOne(rs, Updates)
  BY <1>2, RequestsStored DEF CrudInv, RequestsOK
<1>4. form.busy => Has(rs, OpenOf(form.kind)) \/ (form.kind = "add" /\ "form" \in broke)
  BY <1>2 DEF CrudInv, FormSpin
<1>5. /\ ListOK' /\ FormOK' /\ FlagsOK' /\ RequestsOK' /\ ListFaithful'
      /\ ListSpin' /\ FormSpin'
  BY <1>1, <1>2, <1>3, <1>4, LoadStarts DEF CrudInv
<1>6. ServiceOK'
  BY <1>1, SetsKept DEF CrudInv
<1> QED BY <1>5, <1>6 DEF CrudInv

(* The list is popped, with rs the requests left: its requests go with it. *)
LEMMA ListPopped ==
  ASSUME NEW rs \in Seq(Stored), rs \in Seq(Owned), rs \in Seq(Known), rs \in Seq(Fresh),
         ~overlapped => AtMostOne(rs, OpenOf("load")),
         ~strayed => AtMostOne(rs, Updates),
         FormOK, form.kind = "none", list' = NoList, requests' = AfterListPop(rs),
         UNCHANGED <<server, nextId, form, acked, overlapped, broke, strayed>>
  PROVE  ListOK' /\ RequestsOK' /\ ListFaithful' /\ ListSpin' /\ FormSpin'
<1> DEFINE t == requests'
<1>1. Owned' = Owned /\ Known' = Known
  BY SetsKept
<1>2. /\ list'.items = <<>> /\ list' \in ListState /\ list'.deleting = {}
      /\ ~list'.inProgress
  BY DEF NoList, ListState
<1>3. ASSUME NEW i \in DOMAIN rs
      PROVE  /\ t[i] \in Owned /\ t[i] \in Known /\ t[i] \in Fresh'
             /\ t[i] \notin OpenOf("load") /\ (t[i] \in Updates => rs[i] \in Updates)
  <2>1. rs[i] \in Stored /\ rs[i] \in Owned /\ rs[i] \in Known
    <3> HIDE DEF Owned, Known
    <3> QED OBVIOUS
  <2>2. /\ IsFormRequest(rs[i]) => t[i] = rs[i]
        /\ ~IsFormRequest(rs[i]) => t[i] = [rs[i] EXCEPT !.screen = "gone"]
    BY DEF AfterListPop
  <2>3. /\ t[i] \in Stored /\ t[i].kind = rs[i].kind /\ t[i].id = rs[i].id
        /\ t[i].stage = rs[i].stage /\ t[i].data = rs[i].data
        /\ t[i].screen = rs[i].screen \/ t[i].screen = "gone"
    BY <2>1, <2>2 DEF Stored
  <2>4. t[i] \notin OpenOf("load")
    BY <2>1, <2>2 DEF OpenOf, IsFormRequest, Stored
  <2> HIDE DEF t
  <2>5. t[i] \in Updates => rs[i] \in Updates
    BY <2>1, <2>3 DEF Updates
  <2>6. t[i] \in Owned
    BY <2>1, <2>3, <2>5 DEF Owned, IsFormRequest, Updates
  <2>7. t[i] \in Known
    BY <2>1, <2>3, Zenon DEF Known
  <2>8. t[i] \in Fresh'
    BY <2>3, <2>4, Zenon DEF Fresh
  <2> QED BY <2>4, <2>5, <2>6, <2>7, <2>8
<1>4. t = [i \in DOMAIN rs |-> t[i]]
  BY DEF AfterListPop
<1> HIDE DEF t
<1>5. t \in Seq(Owned) /\ t \in Seq(Known) /\ DOMAIN t = DOMAIN rs
  BY <1>3, <1>4, Mapped, Zenon
<1>6. t \in Seq(Fresh')
  BY <1>3, <1>4, Mapped, Zenon
<1>7. AtMostOne(rs, Updates) => AtMostOne(t, Updates)
  <2>1. \A k \in DOMAIN rs : t[k] \in Updates => rs[k] \in Updates
    BY <1>3, Zenon
  <2> QED BY <1>5, <2>1, Zenon DEF AtMostOne
<1>8. AtMostOne(t, OpenOf("load"))
  BY <1>3, <1>5, Zenon DEF AtMostOne
<1>9. RequestsOK'
  BY <1>1, <1>5, <1>6, <1>7, <1>8 DEF RequestsOK, t
<1>10. DOMAIN <<>> = {}
  OBVIOUS
<1>11. ListOK' /\ ListFaithful' /\ ListSpin'
  BY <1>2, <1>10 DEF ListOK, ListFaithful, ListSpin
<1>12. FormSpin'
  BY DEF FormOK, FormSpin
<1> QED BY <1>9, <1>11, <1>12

(* Back on the list. *)
LEMMA CloseListStep ==
  ASSUME CrudInv, CloseList
  PROVE  CrudInv'
<1>1. /\ form.kind = "none" /\ list' = NoList /\ requests' = AfterListPop(requests)
      /\ UNCHANGED <<server, nextId, form, acked, overlapped, broke, strayed>>
  BY DEF CloseList, OnList
<1>2. PICK rs : rs = requests
  OBVIOUS
<1>3. /\ rs \in Seq(Stored) /\ rs \in Seq(Owned) /\ rs \in Seq(Known) /\ rs \in Seq(Fresh)
      /\ ~overlapped => AtMostOne(rs, OpenOf("load"))
      /\ ~strayed => AtMostOne(rs, Updates)
  BY <1>2, RequestsStored DEF CrudInv, RequestsOK
<1>4. ListOK' /\ RequestsOK' /\ ListFaithful' /\ ListSpin' /\ FormSpin'
  BY <1>1, <1>2, <1>3, ListPopped DEF CrudInv
<1>5. ServiceOK' /\ FormOK'
  BY <1>1, SetsKept DEF CrudInv
<1>6. FlagsOK'
  BY <1>1 DEF CrudInv, FlagsOK
<1> QED BY <1>4, <1>5, <1>6 DEF CrudInv

(* The form is popped, with rs the requests left: nothing waits for an     *)
(* update any more, which is why a form must not be left with one running. *)
LEMMA FormPopped ==
  ASSUME NEW rs \in Seq(Stored), rs \in Seq(Owned), rs \in Seq(Known), rs \in Seq(Fresh),
         ~overlapped => AtMostOne(rs, OpenOf("load")),
         ~strayed' => ~Has(rs, Updates),
         list.inProgress => Has(rs, OpenOf("load")) \/ "list" \in broke,
         FlagsOK, ListOK, ListFaithful,
         form' = NoForm, requests' = AfterFormPop(rs), broke' = broke \ {"form"},
         strayed' \in BOOLEAN, UNCHANGED <<server, nextId, list, acked, overlapped>>
  PROVE  /\ ListOK' /\ FormOK' /\ FlagsOK' /\ RequestsOK' /\ ListFaithful'
         /\ ListSpin' /\ FormSpin'
<1> DEFINE t == requests'
<1>1. Known' = Known /\ Fresh' = Fresh /\ ListOK' /\ ListFaithful'
  BY SetsKept
<1>2. form'.kind = "none" /\ ~form'.busy /\ form' \in FormState
  BY CrudAssumption DEF NoForm, FormState
<1>3. ASSUME NEW i \in DOMAIN rs
      PROVE  /\ t[i] \in Owned' /\ t[i] \in Known /\ t[i] \in Fresh
             /\ t[i] \in OpenOf("load") <=> rs[i] \in OpenOf("load")
             /\ t[i] \in Updates => rs[i] \in Updates
  <2>1. rs[i] \in Stored /\ rs[i] \in Owned /\ rs[i] \in Known /\ rs[i] \in Fresh
    <3> HIDE DEF Owned, Known, Fresh
    <3> QED OBVIOUS
  <2>2. /\ IsFormRequest(rs[i]) /\ rs[i].screen = "open" =>
              t[i] = [rs[i] EXCEPT !.screen = "exiting"]
        /\ ~(IsFormRequest(rs[i]) /\ rs[i].screen = "open") => t[i] = rs[i]
    BY DEF AfterFormPop
  <2>3. /\ t[i] \in Stored /\ t[i].kind = rs[i].kind /\ t[i].id = rs[i].id
        /\ t[i].stage = rs[i].stage /\ t[i].data = rs[i].data
        /\ IF IsFormRequest(rs[i]) /\ rs[i].screen = "open"
           THEN t[i].screen = "exiting" ELSE t[i].screen = rs[i].screen
    BY <2>1, <2>2 DEF Stored
  <2> HIDE DEF t
  <2>4. t[i] \in OpenOf("load") <=> rs[i] \in OpenOf("load")
    BY <2>1, <2>3 DEF OpenOf, IsFormRequest
  <2>5. t[i] \in Updates => rs[i] \in Updates
    BY <2>1, <2>3 DEF Updates, IsFormRequest
  <2>6. ~strayed' => t[i] \notin Updates
    BY <2>5, Zenon DEF Has
  <2>7. t[i] \in Owned'
    BY <1>2, <2>1, <2>3, <2>6 DEF Owned, IsFormRequest
  <2>8. t[i] \in Known
    BY <2>1, <2>3, Zenon DEF Known
  <2>9. t[i] \in Fresh
    BY <2>1, <2>3, <2>4, Zenon DEF Fresh
  <2> QED BY <2>4, <2>5, <2>7, <2>8, <2>9
<1>4. t = [i \in DOMAIN rs |-> t[i]]
  BY DEF AfterFormPop
<1> HIDE DEF t
<1>5. t \in Seq(Known) /\ t \in Seq(Fresh) /\ DOMAIN t = DOMAIN rs
  BY <1>3, <1>4, Mapped, Zenon
<1>6. t \in Seq(Owned')
  BY <1>3, <1>4, Mapped, Zenon
<1>7. ~strayed' => AtMostOne(t, Updates)
  BY <1>3, <1>5, Zenon DEF AtMostOne, Has
<1>8. /\ AtMostOne(rs, OpenOf("load")) => AtMostOne(t, OpenOf("load"))
      /\ Has(rs, OpenOf("load")) => Has(t, OpenOf("load"))
  <2>1. \A k \in DOMAIN rs : t[k] \in OpenOf("load") <=> rs[k] \in OpenOf("load")
    BY <1>3, Zenon
  <2> QED BY <1>5, <2>1, Zenon DEF AtMostOne, Has
<1>9. RequestsOK'
  BY <1>1, <1>5, <1>6, <1>7, <1>8 DEF RequestsOK, t
<1>10. ListSpin'
  BY <1>8 DEF ListSpin, t
<1>11. FormOK' /\ FormSpin' /\ FlagsOK'
  BY <1>2 DEF FormOK, FormSpin, FlagsOK
<1> QED BY <1>1, <1>9, <1>10, <1>11

(* While the form does not wait, and nobody strayed, no update may pop it. *)
LEMMA NoUpdateWaits ==
  ASSUME FormOK, RequestsOK, ~strayed, ~form.busy \/ form.kind # "update"
  PROVE  ~Has(requests, Updates)
<1>1. ASSUME NEW q \in Owned PROVE q \notin Updates
  BY <1>1 DEF Owned, Updates, IsFormRequest
<1> QED BY <1>1, RequestsStored, Zenon DEF Has

(* Back on a form. *)
LEMMA CloseFormStep ==
  ASSUME CrudInv, CloseForm
  PROVE  CrudInv'
<1>1. /\ form' = NoForm /\ requests' = AfterFormPop(requests) /\ broke' = broke \ {"form"}
      /\ strayed' = (strayed \/ (form.kind = "update" /\ form.busy))
      /\ UNCHANGED <<server, nextId, list, acked, overlapped>>
  BY DEF CloseForm
<1>2. PICK rs : rs = requests
  OBVIOUS
<1>3. /\ rs \in Seq(Stored) /\ rs \in Seq(Owned) /\ rs \in Seq(Known) /\ rs \in Seq(Fresh)
      /\ ~overlapped => AtMostOne(rs, OpenOf("load"))
  BY <1>2, RequestsStored DEF CrudInv, RequestsOK
<1>4. list.inProgress => Has(rs, OpenOf("load")) \/ "list" \in broke
  BY <1>2 DEF CrudInv, ListSpin
<1>5. ~strayed' => ~Has(rs, Updates)
  BY <1>1, <1>2, NoUpdateWaits DEF CrudInv
<1>6. strayed' \in BOOLEAN
  BY <1>1
<1>7. /\ ListOK' /\ FormOK' /\ FlagsOK' /\ RequestsOK' /\ ListFaithful'
      /\ ListSpin' /\ FormSpin'
  BY <1>1, <1>2, <1>3, <1>4, <1>5, <1>6, FormPopped DEF CrudInv
<1>8. ServiceOK'
  BY <1>1, SetsKept DEF CrudInv
<1> QED BY <1>7, <1>8 DEF CrudInv

(* The left forms are disposed: their updates can pop nothing any more. *)
LEMMA ExitEndsStep ==
  ASSUME CrudInv, ExitEnds
  PROVE  CrudInv'
<1> DEFINE t == requests'
<1>1. /\ t = [i \in DOMAIN requests |->
               IF requests[i].screen = "exiting"
               THEN [requests[i] EXCEPT !.screen = "gone"] ELSE requests[i]]
      /\ UNCHANGED <<server, nextId, list, form, acked, overlapped, broke, strayed>>
  BY DEF ExitEnds
<1>2. /\ Owned' = Owned /\ Known' = Known /\ Fresh' = Fresh
      /\ ServiceOK' /\ ListOK' /\ FormOK' /\ ListFaithful'
  BY <1>1, SetsKept DEF CrudInv
<1>3. ASSUME NEW i \in DOMAIN requests
      PROVE  /\ t[i] \in Owned /\ t[i] \in Known /\ t[i] \in Fresh
             /\ \A x : t[i] \in OpenOf(x) <=> requests[i] \in OpenOf(x)
             /\ t[i] \in Updates => requests[i] \in Updates
  <2>1. /\ requests[i] \in Stored /\ requests[i] \in Owned
        /\ requests[i] \in Known /\ requests[i] \in Fresh
    BY RequestsStored DEF CrudInv
  <2>2. t[i] = IF requests[i].screen = "exiting"
               THEN [requests[i] EXCEPT !.screen = "gone"] ELSE requests[i]
    BY <1>1
  <2>3. /\ t[i] \in Stored /\ t[i].kind = requests[i].kind /\ t[i].id = requests[i].id
        /\ t[i].stage = requests[i].stage /\ t[i].data = requests[i].data
        /\ IF requests[i].screen = "exiting"
           THEN t[i].screen = "gone" ELSE t[i].screen = requests[i].screen
    BY <2>1, <2>2 DEF Stored
  <2> HIDE DEF t
  <2>4. \A x : t[i] \in OpenOf(x) <=> requests[i] \in OpenOf(x)
    BY <2>1, <2>3 DEF OpenOf
  <2>5. t[i] \in Updates => requests[i] \in Updates
    BY <2>1, <2>3 DEF Updates
  <2>6. t[i] \in Owned
    BY <2>1, <2>3, <2>5 DEF Owned, IsFormRequest, Updates
  <2>7. t[i] \in Known
    BY <2>1, <2>3, Zenon DEF Known
  <2>8. t[i] \in Fresh
    BY <2>1, <2>3, <2>4, Zenon DEF Fresh
  <2> QED BY <2>4, <2>5, <2>6, <2>7, <2>8
<1>4. t = [i \in DOMAIN requests |-> t[i]]
  BY <1>1
<1>5. /\ requests \in Seq(Stored)
      /\ ~overlapped => AtMostOne(requests, OpenOf("load"))
      /\ ~strayed => AtMostOne(requests, Updates)
  BY RequestsStored DEF CrudInv, RequestsOK
<1> HIDE DEF t
<1>6. t \in Seq(Owned) /\ t \in Seq(Known) /\ t \in Seq(Fresh) /\ DOMAIN t = DOMAIN requests
  BY <1>3, <1>4, <1>5, Mapped, Zenon
<1>7. /\ AtMostOne(requests, OpenOf("load")) => AtMostOne(t, OpenOf("load"))
      /\ AtMostOne(requests, Updates) => AtMostOne(t, Updates)
      /\ \A x : Has(requests, OpenOf(x)) => Has(t, OpenOf(x))
  BY <1>3, <1>6, Zenon DEF AtMostOne, Has
<1>8. RequestsOK'
  BY <1>1, <1>2, <1>5, <1>6, <1>7 DEF RequestsOK, t
<1>9. ListSpin' /\ FormSpin'
  BY <1>1, <1>7 DEF CrudInv, ListSpin, FormSpin, t
<1>10. FlagsOK'
  BY <1>1 DEF CrudInv, FlagsOK
<1> QED BY <1>2, <1>8, <1>9, <1>10 DEF CrudInv

(* A request stays owned while its form stays, if its form still waits. *)
LEMMA OwnedStays ==
  ASSUME NEW q \in Owned, form'.kind = form.kind, form'.id = form.id,
         q \in Updates /\ ~strayed' => ~strayed /\ form'.busy
  PROVE  q \in Owned'
<1>1. /\ q \in Stored
      /\ q.screen = "exiting" => IsFormRequest(q)
      /\ q.screen = "open" /\ IsFormRequest(q) => form'.kind = q.kind
      /\ q.screen = "open" /\ q.kind = "update" => q.id = form'.id
      /\ ~strayed /\ q \in Updates => q.screen = "open"
  BY DEF Owned
<1> QED BY <1>1 DEF Owned

(* A form opens, on which nothing can be waiting yet. *)
LEMMA OpenFormStep ==
  ASSUME CrudInv, OpenAdd \/ \E i \in DOMAIN list.items : OpenUpdate(i)
  PROVE  CrudInv'
<1>1. /\ form.kind = "none" /\ form' \in FormState /\ ~form'.busy
      /\ UNCHANGED <<server, nextId, requests, list, acked, overlapped, broke, strayed>>
  <2>1. CASE OpenAdd
    BY <2>1, CrudAssumption DEF OpenAdd, OnList, FormState
  <2>2. CASE \E i \in DOMAIN list.items : OpenUpdate(i)
    <3>1. PICK i \in DOMAIN list.items : OpenUpdate(i)
      BY <2>2
    <3>2. list.items \in Seq(1 .. MaxId)
      BY DEF CrudInv, ListOK, ListState
    <3>3. list.items[i] \in 1 .. MaxId
      BY <3>1, <3>2, Element, Zenon
    <3> QED BY <3>1, <3>3 DEF OpenUpdate, OnList, FormState
  <2> QED BY <2>1, <2>2
<1>2. /\ Known' = Known /\ Fresh' = Fresh
      /\ ServiceOK' /\ ListOK' /\ ListFaithful'
  BY <1>1, SetsKept DEF CrudInv
<1>3. ASSUME NEW q \in Owned PROVE q \in Owned'
  <2>1. ~form.busy
    BY <1>1 DEF CrudInv, FormOK
  <2> QED BY <1>1, <1>3, <2>1 DEF Owned, IsFormRequest, Updates
<1>4. /\ requests \in Seq(Owned) /\ requests \in Seq(Known) /\ requests \in Seq(Fresh)
      /\ ~overlapped => AtMostOne(requests, OpenOf("load"))
      /\ ~strayed => AtMostOne(requests, Updates)
  BY DEF CrudInv, RequestsOK
<1>5. requests \in Seq(Owned')
  BY <1>3, <1>4, Widened, Zenon
<1>6. RequestsOK'
  BY <1>1, <1>2, <1>4, <1>5 DEF RequestsOK
<1>7. FormOK' /\ FormSpin' /\ ListSpin' /\ FlagsOK'
  BY <1>1 DEF CrudInv, FormOK, FormSpin, ListSpin, FlagsOK
<1> QED BY <1>2, <1>6, <1>7 DEF CrudInv

-----------------------------------------------------------------------------
(* Sending. *)

(* The request of a form or of an item is sent. *)
LEMMA SentFacts ==
  ASSUME NEW kind \in {"delete", "add", "update"}, NEW id \in 0 .. MaxId,
         NEW price \in Prices, NEW pos \in Nat
  PROVE  LET q == Request(kind, id, price, pos)
         IN  /\ q \in Stored /\ q.kind = kind /\ q.id = id /\ q.screen = "open"
             /\ q.stage = "sent" /\ q.data = <<>> /\ q \notin OpenOf("load")
             /\ q \in Fresh /\ q \in OpenOf(kind)
             /\ (kind = "delete" => id \in 1 .. (nextId - 1)) => q \in Known
<1> DEFINE q == Request(kind, id, price, pos)
<1>1. /\ q \in Stored /\ q.kind = kind /\ q.id = id /\ q.screen = "open"
      /\ q.stage = "sent" /\ q.data = <<>>
  BY DEF Request, Stored
<1>2. DOMAIN <<>> = {}
  OBVIOUS
<1> HIDE DEF q
<1>3. q \notin OpenOf("load") /\ q \in OpenOf(kind)
  BY <1>1 DEF OpenOf
<1>4. q \in Fresh
  BY <1>1, <1>3, Zenon DEF Fresh
<1>5. ASSUME kind = "delete" => id \in 1 .. (nextId - 1) PROVE q \in Known
  BY <1>1, <1>2, <1>5 DEF Known, Unique, Given
<1> QED BY <1>1, <1>3, <1>4, <1>5, Zenon DEF q

(* A delete is sent: its product was given out, since the list shows it. *)
LEMMA DeleteStep ==
  ASSUME CrudInv, NEW i \in DOMAIN list.items, DeleteProduct(i)
  PROVE  CrudInv'
<1> DEFINE q == Request("delete", list.items[i], "whole", i)
<1>1. /\ list' = [list EXCEPT !.deleting = @ \cup {i}] /\ requests' = Append(requests, q)
      /\ UNCHANGED <<server, nextId, form, acked, overlapped, broke, strayed>>
  BY DEF DeleteProduct
<1>2. /\ list \in ListState /\ list.deleting \subseteq DOMAIN list.items
      /\ list.items \in Seq(1 .. MaxId) /\ nextId \in 1 .. (MaxId + 1)
      /\ list.items[i] < nextId
  BY DEF CrudInv, ListOK, ListState, ServiceOK
<1>3. list.items[i] \in 1 .. (nextId - 1) /\ list.items[i] \in 0 .. MaxId /\ i \in Nat
  <2>1. list.items[i] \in 1 .. MaxId /\ i \in Nat
    BY <1>2, Element, Zenon
  <2> QED BY <1>2, <2>1
<1>4. "whole" \in Prices
  BY DEF Prices
<1>5. /\ q \in Stored /\ q.kind = "delete" /\ q.screen = "open"
      /\ q \notin OpenOf("load") /\ q \in Fresh /\ q \in Known
  BY <1>3, <1>4, SentFacts
<1>6. /\ list' \in ListState /\ list'.items = list.items /\ list'.inProgress = list.inProgress
      /\ list'.deleting \subseteq DOMAIN list'.items
  <2>1. list.deleting \cup {i} \in SUBSET Nat
    BY <1>2, <1>3 DEF ListState
  <2> QED BY <1>1, <1>2, <2>1 DEF ListState
<1> HIDE DEF q
<1>7. /\ Owned' = Owned /\ Known' = Known /\ ServiceOK' /\ FormOK'
  BY <1>1, SetsKept DEF CrudInv
<1>8. Fresh' = Fresh
  BY <1>1, <1>6 DEF Fresh
<1>9. q \in Owned /\ q \notin Updates
  BY <1>5 DEF Owned, Updates, IsFormRequest
<1>10. /\ requests \in Seq(Owned) /\ requests \in Seq(Known) /\ requests \in Seq(Fresh)
       /\ ~overlapped => AtMostOne(requests, OpenOf("load"))
       /\ ~strayed => AtMostOne(requests, Updates)
  BY DEF CrudInv, RequestsOK
<1>11. requests' \in Seq(Owned) /\ requests' \in Seq(Known) /\ requests' \in Seq(Fresh)
  BY <1>1, <1>5, <1>9, <1>10, Added, Zenon
<1>12. ASSUME NEW T
       PROVE  /\ AtMostOne(requests, T) /\ q \notin T => AtMostOne(requests', T)
              /\ Has(requests, T) => Has(requests', T)
  BY <1>1, <1>5, <1>10, Added, Zenon
<1>13. RequestsOK'
  BY <1>1, <1>5, <1>7, <1>8, <1>9, <1>10, <1>11, <1>12 DEF RequestsOK
<1>14. ListOK' /\ ListFaithful'
  BY <1>1, <1>6 DEF CrudInv, ListOK, ListFaithful
<1>15. ListSpin' /\ FormSpin' /\ FlagsOK'
  BY <1>1, <1>6, <1>12 DEF CrudInv, ListSpin, FormSpin, FlagsOK
<1> QED BY <1>7, <1>13, <1>14, <1>15 DEF CrudInv

(* A form sends its request: an update may be the second one only when     *)
(* somebody strayed.                                                       *)
LEMMA SubmitStep ==
  ASSUME CrudInv, SubmitAdd \/ \E p \in Prices : SubmitUpdate(p)
  PROVE  CrudInv'
<1>1. PICK id \in 0 .. MaxId, price \in Prices :
        /\ form.kind \in {"add", "update"} /\ form' = [form EXCEPT !.busy = TRUE]
        /\ requests' = Append(requests, Request(form.kind, id, price, 0))
        /\ form.kind = "update" => id = form.id
        /\ strayed' \in BOOLEAN /\ (strayed => strayed')
        /\ form.kind = "update" /\ ~strayed' => ~form.busy
        /\ UNCHANGED <<server, nextId, list, acked, overlapped, broke>>
  <2>1. "whole" \in Prices /\ 0 \in 0 .. MaxId /\ form \in FormState /\ strayed \in BOOLEAN
    BY CrudAssumption DEF Prices, CrudInv, FormOK, FlagsOK
  <2>2. form.id \in 0 .. MaxId
    BY <2>1 DEF FormState
  <2>3. CASE SubmitAdd
    <3>1. /\ form.kind = "add" /\ form' = [form EXCEPT !.busy = TRUE]
          /\ requests' = Append(requests, Request(form.kind, 0, "whole", 0))
          /\ strayed' = strayed
          /\ UNCHANGED <<server, nextId, list, acked, overlapped, broke>>
      BY <2>3 DEF SubmitAdd, AddButton
    <3> QED BY <2>1, <3>1
  <2>4. CASE \E p \in Prices : SubmitUpdate(p)
    <3>1. PICK p \in Prices : SubmitUpdate(p)
      BY <2>4
    <3>2. /\ form.kind = "update" /\ form' = [form EXCEPT !.busy = TRUE]
          /\ requests' = Append(requests, Request(form.kind, form.id, p, 0))
          /\ strayed' = (strayed \/ form.busy)
          /\ UNCHANGED <<server, nextId, list, acked, overlapped, broke>>
      BY <3>1 DEF SubmitUpdate, UpdateButton
    <3> QED BY <2>1, <2>2, <3>2
  <2> QED BY <2>3, <2>4
<1> DEFINE q == Request(form.kind, id, price, 0)
<1>2. /\ q \in Stored /\ q.kind = form.kind /\ q.id = id /\ q.screen = "open"
      /\ q \notin OpenOf("load") /\ q \in Fresh /\ q \in Known /\ q \in OpenOf(form.kind)
  <2>1. form.kind \in {"delete", "add", "update"} /\ form.kind # "delete" /\ 0 \in Nat
    BY <1>1
  <2> QED BY <1>1, <2>1, SentFacts
<1>3. form'.kind = form.kind /\ form'.id = form.id /\ form'.busy /\ form' \in FormState
  BY <1>1 DEF CrudInv, FormOK, FormState
<1>4. requests' = Append(requests, q)
  BY <1>1
<1> HIDE DEF q
<1>5. /\ Known' = Known /\ Fresh' = Fresh /\ ServiceOK' /\ ListOK' /\ ListFaithful'
  BY <1>1, SetsKept DEF CrudInv
<1>6. q \in Owned'
  BY <1>1, <1>2, <1>3 DEF Owned
<1>7. /\ requests \in Seq(Owned) /\ requests \in Seq(Known) /\ requests \in Seq(Fresh)
      /\ ~overlapped => AtMostOne(requests, OpenOf("load"))
      /\ ~strayed => AtMostOne(requests, Updates)
  BY DEF CrudInv, RequestsOK
<1>8. requests \in Seq(Owned')
  <2>1. ASSUME NEW r \in Owned PROVE r \in Owned'
    BY <1>1, <1>3, OwnedStays
  <2> QED BY <1>7, <2>1, Widened, Zenon
<1>9. requests' \in Seq(Owned') /\ requests' \in Seq(Known) /\ requests' \in Seq(Fresh)
  BY <1>2, <1>4, <1>6, <1>7, <1>8, Added, Zenon
<1>10. ASSUME NEW T
       PROVE  /\ AtMostOne(requests, T) /\ (q \notin T \/ ~Has(requests, T)) =>
                     AtMostOne(requests', T)
              /\ Has(requests, T) \/ q \in T => Has(requests', T)
  BY <1>2, <1>4, <1>7, Added, Zenon
<1>11. ASSUME ~strayed' PROVE q \notin Updates \/ ~Has(requests, Updates)
  <2>1. CASE form.kind = "update"
    <3>1. ~strayed /\ ~form.busy
      BY <1>1, <1>11, <2>1
    <3> QED BY <3>1, NoUpdateWaits DEF CrudInv
  <2>2. CASE form.kind # "update"
    BY <1>2, <2>2 DEF Updates
  <2> QED BY <2>1, <2>2
<1>12. RequestsOK'
  <2>1. ~overlapped' => AtMostOne(requests', OpenOf("load"))
    BY <1>1, <1>2, <1>7, <1>10
  <2>2. ~strayed' => AtMostOne(requests', Updates)
    BY <1>1, <1>7, <1>10, <1>11
  <2> QED BY <1>5, <1>9, <2>1, <2>2 DEF RequestsOK
<1>13. FormSpin'
  BY <1>2, <1>3, <1>10 DEF FormSpin
<1>14. ListSpin' /\ FlagsOK' /\ FormOK'
  BY <1>1, <1>3, <1>10 DEF CrudInv, ListSpin, FlagsOK, FormOK
<1> QED BY <1>5, <1>12, <1>13, <1>14 DEF CrudInv

(* A number that does not parse: nothing is sent. *)
LEMMA UnparsableStep ==
  ASSUME CrudInv, SubmitAddUnparsable \/ SubmitUpdateUnparsable
  PROVE  CrudInv'
<1>1. /\ form.kind \in {"add", "update"} /\ form'.kind = form.kind /\ form'.id = form.id
      /\ form' \in FormState
      /\ strayed' \in BOOLEAN /\ (strayed => strayed') /\ broke \subseteq broke'
      /\ broke' \subseteq {"list", "form"}
      /\ form'.busy => form.kind = "add" /\ "form" \in broke'
      /\ form.kind = "update" /\ ~strayed' => ~form.busy
      /\ UNCHANGED <<server, nextId, requests, list, acked, overlapped>>
  <2>1. form \in FormState /\ strayed \in BOOLEAN /\ broke \subseteq {"list", "form"}
    BY DEF CrudInv, FormOK, FlagsOK
  <2>2. CASE SubmitAddUnparsable
    BY <2>1, <2>2 DEF SubmitAddUnparsable, AddButton, FormState
  <2>3. CASE SubmitUpdateUnparsable
    BY <2>1, <2>3 DEF SubmitUpdateUnparsable, UpdateButton, FormState
  <2> QED BY <2>2, <2>3
<1>2. /\ Known' = Known /\ Fresh' = Fresh /\ ServiceOK' /\ ListOK' /\ ListFaithful'
  BY <1>1, SetsKept DEF CrudInv
<1>3. ~strayed' => ~Has(requests, Updates)
  BY <1>1, NoUpdateWaits DEF CrudInv
<1>4. ASSUME NEW k \in DOMAIN requests PROVE requests[k] \in Owned'
  <2>1. requests[k] \in Owned
    BY RequestsStored DEF CrudInv
  <2>2. ~strayed' => requests[k] \notin Updates
    BY <1>3, Zenon DEF Has
  <2>3. PICK q : q = requests[k]
    OBVIOUS
  <2> QED BY <1>1, <2>1, <2>2, <2>3, OwnedStays
<1>5. /\ requests \in Seq(Owned) /\ requests \in Seq(Known) /\ requests \in Seq(Fresh)
      /\ ~overlapped => AtMostOne(requests, OpenOf("load"))
      /\ ~strayed => AtMostOne(requests, Updates)
  BY DEF CrudInv, RequestsOK
<1>6. requests \in Seq(Owned')
  BY <1>4, <1>5, Widened, Zenon
<1>7. RequestsOK'
  BY <1>1, <1>2, <1>5, <1>6 DEF RequestsOK
<1>8. FormOK' /\ FormSpin' /\ ListSpin' /\ FlagsOK'
  BY <1>1 DEF CrudInv, FormOK, FormSpin, ListSpin, FlagsOK
<1> QED BY <1>2, <1>7, <1>8 DEF CrudInv

-----------------------------------------------------------------------------
(* The service. *)

(* What serving a request may do to the products: no id comes back, a new  *)
(* one is the next one, and a deleted one is away.                         *)
LEMMA ServedProducts ==
  ASSUME CrudInv, NEW i \in DOMAIN requests, Serve(i)
  PROVE  /\ server' \in Seq(Product) /\ Unique(server')
         /\ nextId' \in 1 .. (MaxId + 1) /\ nextId <= nextId'
         /\ \A k \in DOMAIN server' :
               \/ \E j \in DOMAIN server : server'[k].id = server[j].id
               \/ server'[k].id = nextId /\ nextId' = nextId + 1
         /\ requests[i].kind = "delete" =>
               \A k \in DOMAIN server' : server'[k].id # requests[i].id
<1> DEFINE q == requests[i]
<1>1. /\ server \in Seq(Product) /\ Unique(server) /\ nextId \in 1 .. (MaxId + 1)
      /\ \A k \in DOMAIN server : server[k].id < nextId
  BY DEF CrudInv, ServiceOK, Given
<1>2. /\ q.kind \in {"load", "delete", "add", "update"} /\ q.price \in Prices
  BY RequestsStored DEF CrudInv, Stored
<1>3. CASE q.kind = "load" \/ (q.kind = "add" /\ nextId > MaxId)
  <2>1. server' = server /\ nextId' = nextId
    BY <1>3 DEF Serve
  <2> QED BY <1>1, <1>3, <2>1
<1>4. CASE q.kind = "delete"
  <2>1. server' = WithoutProduct(q.id) /\ nextId' = nextId
    BY <1>4 DEF Serve
  <2>2. /\ server' \in Seq(Product) /\ Unique(server')
        /\ \A k \in DOMAIN server' : server'[k].id # q.id
        /\ \A k \in DOMAIN server' : \E j \in DOMAIN server : server'[k] = server[j]
    BY <1>1, <2>1, WithoutFacts
  <2>3. \A k \in DOMAIN server' : \E j \in DOMAIN server : server'[k].id = server[j].id
    BY <2>2, Zenon
  <2> QED BY <1>1, <2>1, <2>2, <2>3
<1>5. CASE q.kind = "add" /\ ~(nextId > MaxId)
  <2> DEFINE p == [id |-> nextId, price |-> q.price]
             n == Len(server)
  <2>1. server' = Append(server, p) /\ nextId' = nextId + 1
    BY <1>5 DEF Serve
  <2>2. p \in Product /\ p.id = nextId /\ nextId' \in 1 .. (MaxId + 1)
    <3>1. nextId \in 1 .. MaxId /\ nextId' \in 1 .. (MaxId + 1)
      BY <1>1, <1>5, <2>1, CrudAssumption
    <3> QED BY <1>2, <3>1 DEF Product
  <2> HIDE DEF p
  <2>3. /\ server' \in Seq(Product) /\ n \in Nat /\ DOMAIN server = 1 .. n
        /\ DOMAIN server' = 1 .. (n + 1) /\ server'[n + 1] = p
        /\ \A k \in 1 .. n : server'[k] = server[k]
    BY <1>1, <2>1, <2>2
  <2> HIDE DEF n
  <2>4. \A k \in DOMAIN server' :
           (k \in DOMAIN server /\ server'[k] = server[k]) \/ (k = n + 1 /\ server'[k] = p)
    BY <2>3
  <2>5. \A k \in DOMAIN server : server[k].id # nextId
    BY <1>1
  <2>6. Unique(server')
    <3> SUFFICES ASSUME NEW k \in DOMAIN server', NEW l \in DOMAIN server',
                        server'[k].id = server'[l].id
                 PROVE  k = l
      BY Zenon DEF Unique
    <3>1. (k \in DOMAIN server /\ server'[k] = server[k]) \/ (k = n + 1 /\ server'[k] = p)
      BY <2>4, Zenon
    <3>2. (l \in DOMAIN server /\ server'[l] = server[l]) \/ (l = n + 1 /\ server'[l] = p)
      BY <2>4, Zenon
    <3>3. CASE k \in DOMAIN server /\ server'[k] = server[k]
      BY <1>1, <2>2, <2>5, <3>2, <3>3, Zenon DEF Unique
    <3>4. CASE k = n + 1 /\ server'[k] = p
      BY <2>2, <2>5, <3>2, <3>4, Zenon
    <3> QED BY <3>1, <3>3, <3>4, Zenon
  <2>7. \A k \in DOMAIN server' :
           \/ \E j \in DOMAIN server : server'[k].id = server[j].id
           \/ server'[k].id = nextId /\ nextId' = nextId + 1
    BY <2>1, <2>2, <2>4, Zenon
  <2>8. nextId <= nextId'
    BY <1>1, <2>1
  <2> QED BY <1>5, <2>2, <2>3, <2>6, <2>7, <2>8
<1>6. CASE q.kind = "update"
  <2> DEFINE e(k) == IF server[k].id = q.id THEN [server[k] EXCEPT !.price = q.price]
                     ELSE server[k]
  <2>1. server' = [k \in DOMAIN server |-> e(k)] /\ nextId' = nextId
    BY <1>6 DEF Serve
  <2>2. \A k \in DOMAIN server : server[k] \in Product
    BY <1>1
  <2>3. ASSUME NEW k \in DOMAIN server
        PROVE  server'[k] \in Product /\ server'[k].id = server[k].id
    BY <1>2, <2>1, <2>2 DEF Product
  <2>4. server' = [k \in DOMAIN server |-> server'[k]]
    BY <2>1
  <2>5. server' \in Seq(Product) /\ DOMAIN server' = DOMAIN server
    BY <1>1, <2>3, <2>4, Mapped, Zenon
  <2>6. Unique(server')
    BY <1>1, <2>3, <2>5, Zenon DEF Unique
  <2>7. \A k \in DOMAIN server' : \E j \in DOMAIN server : server'[k].id = server[j].id
    BY <2>3, <2>5, Zenon
  <2>8. nextId <= nextId'
    BY <1>1, <2>1
  <2> QED BY <1>1, <1>6, <2>1, <2>5, <2>6, <2>7, <2>8
<1> QED BY <1>2, <1>3, <1>4, <1>5, <1>6

(* The service serves a request. *)
LEMMA ServeStep ==
  ASSUME CrudInv, NEW i \in DOMAIN requests, Serve(i)
  PROVE  CrudInv'
<1> DEFINE t == requests'
<1>1. /\ server' \in Seq(Product) /\ Unique(server')
      /\ nextId' \in 1 .. (MaxId + 1) /\ nextId <= nextId'
      /\ \A k \in DOMAIN server' :
            \/ \E j \in DOMAIN server : server'[k].id = server[j].id
            \/ server'[k].id = nextId /\ nextId' = nextId + 1
      /\ requests[i].kind = "delete" =>
            \A k \in DOMAIN server' : server'[k].id # requests[i].id
  BY ServedProducts
<1>2. /\ server \in Seq(Product) /\ nextId \in 1 .. (MaxId + 1)
      /\ Unique(server) /\ Given(server) /\ acked \subseteq 1 .. (nextId - 1)
      /\ \A k \in DOMAIN server : server[k].id \notin acked
      /\ \A k \in DOMAIN server : server[k].id < nextId
  BY DEF CrudInv, ServiceOK, Given
<1>3. /\ t = [requests EXCEPT ![i].stage = "served",
                              ![i].data = IF requests[i].kind = "load" THEN server ELSE <<>>]
      /\ UNCHANGED <<list, form, acked, overlapped, broke, strayed>>
  BY DEF Serve
<1>4. ServiceOK'
  <2>1. ASSUME NEW k \in DOMAIN server'
        PROVE  server'[k].id < nextId' /\ server'[k].id \notin acked
    <3>1. CASE \E j \in DOMAIN server : server'[k].id = server[j].id
      <4>1. PICK j \in DOMAIN server : server'[k].id = server[j].id
        BY <3>1
      <4>2. server[j] \in Product /\ server[j].id < nextId /\ server[j].id \notin acked
        BY <1>2, Element, Zenon
      <4>3. server[j].id \in 1 .. MaxId
        BY <4>2 DEF Product
      <4> QED BY <1>1, <1>2, <4>1, <4>2, <4>3
    <3>2. CASE server'[k].id = nextId /\ nextId' = nextId + 1
      BY <1>2, <3>2
    <3> QED BY <1>1, <2>1, <3>1, <3>2
  <2>2. acked' \subseteq 1 .. (nextId' - 1)
    BY <1>1, <1>2, <1>3
  <2>3. Given(server)'
    BY <2>1 DEF Given
  <2>4. Unique(server)'
    BY <1>1 DEF Unique
  <2> QED BY <1>1, <1>3, <2>1, <2>2, <2>3, <2>4 DEF ServiceOK
<1>5. /\ Owned' = Owned /\ Fresh' = Fresh /\ FormOK' /\ ListFaithful'
  BY <1>3, SetsKept DEF CrudInv
<1>6. /\ requests \in Seq(Stored)
      /\ \A k \in DOMAIN requests :
            /\ requests[k] \in Stored /\ requests[k] \in Owned
            /\ requests[k] \in Known /\ requests[k] \in Fresh
  BY RequestsStored DEF CrudInv
<1>7. ASSUME NEW d \in Seq(Product), NEW k \in DOMAIN d PROVE d[k].id \in 1 .. MaxId
  <2>1. d[k] \in Product
    BY Element, Zenon
  <2> QED BY <2>1 DEF Product
<1>8. ASSUME NEW r \in Known, r.kind = "delete"
      PROVE  /\ r.id \in 1 .. (nextId' - 1)
             /\ r.stage = "served" => \A k \in DOMAIN server' : server'[k].id # r.id
  <2>1. /\ r.id \in 1 .. (nextId - 1)
        /\ r.stage = "served" => \A k \in DOMAIN server : server[k].id # r.id
    BY <1>8 DEF Known
  <2>2. r.id \in 1 .. (nextId' - 1) /\ r.id # nextId
    BY <1>1, <1>2, <2>1
  <2>3. r.stage = "served" => \A k \in DOMAIN server' : server'[k].id # r.id
    BY <1>1, <2>1, <2>2, Zenon
  <2> QED BY <2>2, <2>3
<1>9. ASSUME NEW d \in Seq(Product), \A k \in DOMAIN d : d[k].id < nextId
      PROVE  \A k \in DOMAIN d : d[k].id < nextId'
  <2> SUFFICES ASSUME NEW k \in DOMAIN d PROVE d[k].id < nextId'
    OBVIOUS
  <2>1. d[k].id \in 1 .. MaxId /\ d[k].id < nextId
    BY <1>7, <1>9, Zenon
  <2> QED BY <1>1, <1>2, <2>1
<1>10. ASSUME NEW k \in DOMAIN requests
       PROVE  /\ t[k] \in Owned /\ t[k] \in Known' /\ t[k] \in Fresh
              /\ \A x : t[k] \in OpenOf(x) <=> requests[k] \in OpenOf(x)
              /\ t[k] \in Updates => requests[k] \in Updates
  <2>1. CASE k # i
    <3>1. t[k] = requests[k]
      BY <1>3, <2>1
    <3> HIDE DEF t
    <3>2. t[k] \in Known'
      <4>1. /\ t[k] \in Known /\ t[k] \in Stored
        BY <1>6, <3>1
      <4>2. Unique(t[k].data) /\ t[k].data \in Seq(Product)
            /\ \A l \in DOMAIN t[k].data : t[k].data[l].id < nextId
        BY <4>1 DEF Known, Given, Stored
      <4>3. \A l \in DOMAIN t[k].data : t[k].data[l].id < nextId'
        BY <1>9, <4>2, Zenon
      <4> QED BY <1>8, <4>1, <4>2, <4>3, Zenon DEF Known, Given
    <3> QED BY <1>6, <3>1, <3>2
  <2>2. CASE k = i
    <3>1. t[i] = [requests[i] EXCEPT !.stage = "served",
                              !.data = IF requests[i].kind = "load" THEN server ELSE <<>>]
      BY <1>3
    <3>2. /\ t[i].kind = requests[i].kind /\ t[i].id = requests[i].id
          /\ t[i].screen = requests[i].screen /\ t[i].stage = "served"
          /\ t[i].data = (IF requests[i].kind = "load" THEN server ELSE <<>>)
      BY <1>6, <3>1 DEF Stored
    <3>3. (IF requests[i].kind = "load" THEN server ELSE <<>>) \in Seq(Product)
      BY <1>2
    <3>4. t[i] \in Stored
      <4> DEFINE d == IF requests[i].kind = "load" THEN server ELSE <<>>
      <4>1. d \in Seq(Product) /\ t[i] = [requests[i] EXCEPT !.stage = "served", !.data = d]
        BY <3>1, <3>3
      <4> HIDE DEF d, t
      <4> QED BY <1>6, <4>1 DEF Stored
    <3>5. DOMAIN <<>> = {}
      OBVIOUS
    <3>6. /\ Unique(t[i].data)
          /\ \A l \in DOMAIN t[i].data : t[i].data[l].id < nextId /\ t[i].data[l].id \notin acked
      <4>1. CASE requests[i].kind = "load"
        <5>1. t[i].data = server
          BY <3>2, <4>1
        <5> HIDE DEF t
        <5> QED BY <1>2, <5>1
      <4>2. CASE requests[i].kind # "load"
        <5>1. t[i].data = <<>>
          BY <3>2, <4>2
        <5> HIDE DEF t
        <5> QED BY <3>5, <5>1 DEF Unique
      <4> QED BY <4>1, <4>2
    <3>7. t[i].data \in Seq(Product)
      BY <3>2, <3>3
    <3> HIDE DEF t
    <3>8. \A x : t[i] \in OpenOf(x) <=> requests[i] \in OpenOf(x)
      BY <1>6, <3>2, <3>4, Zenon DEF OpenOf
    <3>9. t[i] \in Updates <=> requests[i] \in Updates
      BY <1>6, <3>2, <3>4, Zenon DEF Updates
    <3>10. t[i] \in Owned
      <4>1. requests[i] \in Owned
        BY <1>6
      <4> QED BY <3>2, <3>4, <3>9, <4>1, Zenon DEF Owned, IsFormRequest
    <3>11. t[i] \in Known'
      <4>1. \A l \in DOMAIN t[i].data : t[i].data[l].id < nextId'
        BY <1>9, <3>6, <3>7, Zenon
      <4>2. t[i].kind = "delete" =>
              /\ t[i].id \in 1 .. (nextId' - 1)
              /\ \A l \in DOMAIN server' : server'[l].id # t[i].id
        BY <1>1, <1>6, <1>8, <3>2, Zenon
      <4> QED BY <3>4, <3>6, <4>1, <4>2, Zenon DEF Known, Given
    <3>12. t[i] \in Fresh
      <4>1. requests[i] \in Fresh
        BY <1>6
      <4> QED BY <3>4, <3>6, <3>8, <4>1, Zenon DEF Fresh
    <3> QED BY <2>2, <3>8, <3>9, <3>10, <3>11, <3>12
  <2> QED BY <2>1, <2>2
<1>11. t = [k \in DOMAIN requests |-> t[k]]
  BY <1>3
<1>12. /\ ~overlapped => AtMostOne(requests, OpenOf("load"))
       /\ ~strayed => AtMostOne(requests, Updates)
  BY DEF CrudInv, RequestsOK
<1> HIDE DEF t
<1>13. t \in Seq(Owned) /\ t \in Seq(Fresh) /\ DOMAIN t = DOMAIN requests
  BY <1>6, <1>10, <1>11, Mapped, Zenon
<1>14. t \in Seq(Known')
  BY <1>6, <1>10, <1>11, Mapped, Zenon
<1>15. /\ AtMostOne(requests, OpenOf("load")) => AtMostOne(t, OpenOf("load"))
       /\ AtMostOne(requests, Updates) => AtMostOne(t, Updates)
       /\ \A x : Has(requests, OpenOf(x)) => Has(t, OpenOf(x))
  BY <1>10, <1>13, Zenon DEF AtMostOne, Has
<1>16. RequestsOK'
  BY <1>3, <1>5, <1>12, <1>13, <1>14, <1>15 DEF RequestsOK, t
<1>17. ListSpin' /\ FormSpin'
  BY <1>3, <1>15 DEF CrudInv, ListSpin, FormSpin, t
<1>18. FlagsOK'
  BY <1>3 DEF CrudInv, FlagsOK
<1>19. ListOK'
  <2>1. /\ list \in ListState /\ list.deleting \subseteq DOMAIN list.items
        /\ \A k \in DOMAIN list.items : list.items[k] < nextId
        /\ list.items \in Seq(1 .. MaxId)
    BY DEF CrudInv, ListOK, ListState
  <2>2. ASSUME NEW k \in DOMAIN list.items PROVE list.items[k] < nextId'
    <3>1. list.items[k] \in 1 .. MaxId
      BY <2>1, Element, Zenon
    <3>2. list.items[k] < nextId
      BY <2>1
    <3> QED BY <1>1, <1>2, <3>1, <3>2
  <2> QED BY <1>3, <2>1, <2>2 DEF ListOK
<1> QED BY <1>4, <1>5, <1>16, <1>17, <1>18, <1>19 DEF CrudInv

-----------------------------------------------------------------------------
(* Answers. *)

(* A request is answered, with an answer that may free its own form or     *)
(* fill the list, and that leaves a spinner without a request only behind  *)
(* an exception.                                                           *)
LEMMA Answered ==
  ASSUME CrudInv, NEW i \in DOMAIN requests, requests' = RemoveAt(requests, i),
         UNCHANGED <<server, nextId, acked, overlapped, strayed>>,
         form' = form \/ (form' = FormFreed(requests[i]) /\ IsFormRequest(requests[i])),
         list'.items = list.items \/ requests[i] \in OpenOf("load"),
         list'.inProgress => list.inProgress,
         broke \subseteq broke', broke' \subseteq {"list", "form"},
         requests[i] \in OpenOf(form.kind) =>
            ~form'.busy \/ (form.kind = "add" /\ "form" \in broke'),
         requests[i] \in OpenOf("load") => ~list'.inProgress \/ "list" \in broke'
  PROVE  ServiceOK' /\ FormOK' /\ FlagsOK' /\ RequestsOK' /\ ListSpin' /\ FormSpin'
<1> DEFINE t == requests'
<1>1. /\ t \in Seq(Stored) /\ t \in Seq(Owned) /\ t \in Seq(Known) /\ t \in Seq(Fresh)
      /\ ~overlapped => AtMostOne(t, OpenOf("load"))
      /\ ~strayed => AtMostOne(t, Updates)
      /\ ~overlapped /\ requests[i] \in OpenOf("load") => ~Has(t, OpenOf("load"))
      /\ ~strayed /\ requests[i] \in Updates => ~Has(t, Updates)
      /\ \A T : Has(requests, T) /\ requests[i] \notin T => Has(t, T)
  BY RequestRemoved DEF CrudInv
<1>2. Known' = Known /\ ServiceOK'
  BY SetsKept DEF CrudInv
<1>3. /\ requests[i] \in Stored /\ requests[i] \in Owned
  BY RequestsStored DEF CrudInv
<1>4. /\ form'.kind = form.kind /\ form'.id = form.id /\ form' \in FormState
      /\ form'.busy => form.busy
      /\ form' = form \/ (requests[i].screen = "open" /\ IsFormRequest(requests[i]))
  BY DEF CrudInv, FormOK, FormState, FormFreed
<1> HIDE DEF t
<1>5. ASSUME NEW k \in DOMAIN t PROVE t[k] \in Owned'
  <2>1. t[k] \in Owned /\ t[k] \in Stored
    BY <1>1, Element, Zenon
  <2>2. t[k] \in Updates /\ ~strayed => form'.busy
    <3> SUFFICES ASSUME t[k] \in Updates, ~strayed PROVE form'.busy
      OBVIOUS
    <3>1. t[k].screen = "open" /\ form.busy /\ form.kind = "update"
      BY <2>1 DEF Owned, IsFormRequest, Updates
    <3>2. Has(t, Updates)
      BY Zenon DEF Has
    <3>3. requests[i] \notin Updates
      BY <1>1, <3>2
    <3>4. ~(requests[i].screen = "open" /\ IsFormRequest(requests[i]))
      <4>1. SUFFICES ASSUME requests[i].screen = "open", IsFormRequest(requests[i])
                     PROVE  FALSE
        OBVIOUS
      <4>2. requests[i].kind = "update"
        BY <1>3, <3>1, <4>1 DEF Owned
      <4> QED BY <1>3, <3>3, <4>1, <4>2 DEF Updates
    <3> QED BY <1>4, <3>1, <3>4
  <2>3. PICK q : q = t[k]
    OBVIOUS
  <2> QED BY <1>4, <2>1, <2>2, <2>3, OwnedStays
<1>6. ASSUME NEW k \in DOMAIN t PROVE t[k] \in Fresh'
  <2>1. t[k] \in Fresh /\ t[k] \in Stored
    BY <1>1, Element, Zenon
  <2>2. CASE list'.items = list.items
    BY <2>1, <2>2 DEF Fresh
  <2>3. CASE requests[i] \in OpenOf("load")
    <3>1. ~overlapped => t[k] \notin OpenOf("load")
      BY <1>1, <2>3, Zenon DEF Has
    <3> QED BY <2>1, <3>1 DEF Fresh
  <2> QED BY <2>2, <2>3
<1>7. t \in Seq(Owned') /\ t \in Seq(Fresh')
  BY <1>1, <1>5, <1>6, Widened, Zenon
<1>8. RequestsOK'
  BY <1>1, <1>2, <1>7 DEF RequestsOK, t
<1>9. ListSpin'
  BY <1>1 DEF CrudInv, ListSpin, t
<1>10. FormSpin'
  <2> SUFFICES ASSUME form'.busy
               PROVE  Has(t, OpenOf(form.kind)) \/ (form.kind = "add" /\ "form" \in broke')
    BY <1>4 DEF FormSpin, t
  <2>1. Has(requests, OpenOf(form.kind)) \/ (form.kind = "add" /\ "form" \in broke)
    BY <1>4 DEF CrudInv, FormSpin
  <2> QED BY <1>1, <2>1
<1>11. FormOK' /\ FlagsOK'
  BY <1>4 DEF CrudInv, FormOK, FlagsOK
<1> QED BY <1>2, <1>8, <1>9, <1>10, <1>11

(* The products of a load are appended: if it met no other load, to an     *)
(* empty list, which then shows what the service had.                      *)
LEMMA LoadArrivesStep ==
  ASSUME CrudInv, NEW i \in DOMAIN requests, LoadArrives(i)
  PROVE  CrudInv'
<1> DEFINE q == requests[i]
           good == Decoded(q.data)
           ids == [k \in DOMAIN good |-> good[k].id]
<1>1. /\ q \in Stored /\ q \in Known /\ q \in Fresh /\ q.kind = "load"
      /\ requests' = RemoveAt(requests, i)
      /\ UNCHANGED <<server, nextId, form, acked, overlapped, strayed>>
  BY RequestsStored DEF CrudInv, LoadArrives, Served
<1>2. broke \subseteq {"list", "form"} /\ list \in ListState
  BY DEF CrudInv, FlagsOK, ListOK
<1>3. q \in OpenOf("load") <=> q.screen = "open"
  BY <1>1 DEF OpenOf
<1>4. q \in OpenOf(form.kind) => form.kind = "load"
  BY <1>1 DEF OpenOf
<1>5. form.kind # "load"
  BY DEF CrudInv, FormOK, FormState
<1>6. CASE q.screen # "open"
  <2>1. list' = list /\ broke' = broke
    BY <1>6 DEF LoadArrives
  <2>2. ServiceOK' /\ FormOK' /\ FlagsOK' /\ RequestsOK' /\ ListSpin' /\ FormSpin'
    BY <1>1, <1>2, <1>3, <1>4, <1>5, <1>6, <2>1, Answered
  <2>3. ListOK' /\ ListFaithful'
    BY <1>1, <2>1, SetsKept DEF CrudInv
  <2> QED BY <2>2, <2>3 DEF CrudInv
<1>7. CASE q.screen = "open"
  <2>1. /\ list' = [list EXCEPT !.items = @ \o ids, !.inProgress = @ /\ good # q.data]
        /\ broke' = IF good # q.data THEN broke \cup {"list"} ELSE broke
    BY <1>7 DEF LoadArrives
  <2>2. q.data \in Seq(Product) /\ Unique(q.data) /\ \A k \in DOMAIN q.data : q.data[k].id < nextId
    BY <1>1 DEF Stored, Known, Given
  <2>3. /\ good \in Seq(Product) /\ DOMAIN good \subseteq DOMAIN q.data
        /\ \A k \in DOMAIN good : good[k] = q.data[k]
    BY <2>2, DecodedPrefix
  <2> HIDE DEF good
  <2>4. ids \in Seq(1 .. MaxId) /\ DOMAIN ids = DOMAIN good
    <3>1. ASSUME NEW k \in DOMAIN good PROVE ids[k] \in 1 .. MaxId
      <4>1. good[k] \in Product
        BY <2>3, Element, Zenon
      <4> QED BY <4>1 DEF Product
    <3>2. ids = [k \in DOMAIN good |-> ids[k]]
      OBVIOUS
    <3> HIDE DEF ids
    <3> QED BY <2>3, <3>1, <3>2, Mapped, Zenon
  <2>5. \A k \in DOMAIN ids : k \in DOMAIN q.data /\ ids[k] = q.data[k].id
    BY <2>3, <2>4
  <2> HIDE DEF ids
  <2>6. \A k, l \in DOMAIN ids : ids[k] = ids[l] => k = l
    BY <2>2, <2>5, Zenon DEF Unique
  <2>7. \A k \in DOMAIN ids : ids[k] < nextId
    BY <2>2, <2>5
  <2>8. /\ list.items \in Seq(1 .. MaxId) /\ list.deleting \subseteq DOMAIN list.items
        /\ \A k \in DOMAIN list.items : list.items[k] < nextId
    BY DEF CrudInv, ListOK, ListState
  <2>9. PICK its : its = list.items \o ids
    OBVIOUS
  <2>10. /\ its \in Seq(1 .. MaxId) /\ DOMAIN list.items \subseteq DOMAIN its
         /\ \A k \in DOMAIN its : its[k] < nextId
    <3>1. PICK old : old = list.items
      OBVIOUS
    <3>2. /\ old \in Seq(1 .. MaxId) /\ \A k \in DOMAIN old : old[k] < nextId
      BY <2>8, <3>1
    <3>3. /\ its \in Seq(1 .. MaxId) /\ Len(its) = Len(old) + Len(ids)
          /\ \A k \in 1 .. Len(old) + Len(ids) :
                its[k] = IF k <= Len(old) THEN old[k] ELSE ids[k - Len(old)]
      BY <2>4, <2>9, <3>1, <3>2, ConcatProperties
    <3>4. Len(old) \in Nat /\ Len(ids) \in Nat /\ DOMAIN old = 1 .. Len(old)
          /\ DOMAIN ids = 1 .. Len(ids) /\ DOMAIN its = 1 .. (Len(old) + Len(ids))
      BY <2>4, <3>2, <3>3
    <3>5. ASSUME NEW k \in DOMAIN its PROVE its[k] < nextId
      <4>1. CASE k <= Len(old)
        BY <3>2, <3>3, <3>4, <4>1
      <4>2. CASE ~(k <= Len(old))
        <5>1. k - Len(old) \in DOMAIN ids
          BY <3>4, <4>2
        <5>2. its[k] = ids[k - Len(old)]
          BY <3>3, <3>4, <4>2
        <5> QED BY <2>7, <5>1, <5>2
      <4> QED BY <4>1, <4>2
    <3> QED BY <3>1, <3>3, <3>4, <3>5
  <2>11. /\ list'.items = its /\ list' \in ListState /\ list'.deleting = list.deleting
         /\ list'.inProgress <=> list.inProgress /\ good # q.data
    BY <1>2, <2>1, <2>9, <2>10 DEF ListState
  <2>12. /\ broke \subseteq broke' /\ broke' \subseteq {"list", "form"}
         /\ ~list'.inProgress \/ "list" \in broke'
    BY <1>2, <2>1, <2>11
  <2>13. ServiceOK' /\ FormOK' /\ FlagsOK' /\ RequestsOK' /\ ListSpin' /\ FormSpin'
    <3>1. /\ requests[i] \in OpenOf("load") /\ requests[i] \notin OpenOf(form.kind)
          /\ list'.inProgress => list.inProgress
      BY <1>3, <1>4, <1>5, <1>7, <2>11
    <3>2. /\ requests' = RemoveAt(requests, i) /\ form' = form
          /\ UNCHANGED <<server, nextId, acked, overlapped, strayed>>
      BY <1>1
    <3> HIDE DEF q
    <3> QED BY <2>12, <3>1, <3>2, Answered
  <2>14. ListOK'
    BY <1>1, <2>8, <2>10, <2>11 DEF ListOK
  <2>15. ListFaithful'
    <3> SUFFICES ASSUME ~overlapped
                 PROVE  /\ \A k, l \in DOMAIN its : its[k] = its[l] => k = l
                        /\ \A k \in DOMAIN its : its[k] \notin acked
      BY <1>1, <2>11 DEF ListFaithful
    <3>1. list.items = <<>> /\ \A k \in DOMAIN q.data : q.data[k].id \notin acked
      BY <1>1, <1>3, <1>7 DEF Fresh
    <3>2. its = ids
      BY <2>4, <2>9, <3>1, ConcatEmptySeq, Zenon
    <3> QED BY <2>5, <2>6, <3>1, <3>2
  <2> QED BY <2>13, <2>14, <2>15 DEF CrudInv
<1> QED BY <1>6, <1>7

(* The answer to a delete: an open list is told, and loads again. *)
LEMMA DeleteArrivesStep ==
  ASSUME CrudInv, NEW i \in DOMAIN requests, DeleteArrives(i)
  PROVE  CrudInv'
<1> DEFINE q == requests[i]
<1>1. /\ q \in Stored /\ q \in Known /\ q.kind = "delete" /\ q.stage = "served"
      /\ UNCHANGED <<server, nextId, form, strayed>>
  BY RequestsStored DEF CrudInv, DeleteArrives, Served
<1>2. \A x : q \in OpenOf(x) => x = "delete"
  BY <1>1 DEF OpenOf
<1>3. form.kind # "delete" /\ broke \subseteq {"list", "form"}
  BY DEF CrudInv, FormOK, FormState, FlagsOK
<1>4. CASE q.screen # "open"
  <2>1. /\ requests' = RemoveAt(requests, i) /\ list' = list /\ broke' = broke /\ form' = form
        /\ UNCHANGED <<server, nextId, acked, overlapped, strayed>>
    BY <1>1, <1>4 DEF DeleteArrives
  <2>2. requests[i] \notin OpenOf("load") /\ requests[i] \notin OpenOf(form.kind)
    BY <1>2, <1>3
  <2>3. ServiceOK' /\ FormOK' /\ FlagsOK' /\ RequestsOK' /\ ListSpin' /\ FormSpin'
    BY <1>3, <2>1, <2>2, Answered
  <2>4. ListOK' /\ ListFaithful'
    BY <2>1, SetsKept DEF CrudInv
  <2> QED BY <2>3, <2>4 DEF CrudInv
<1>5. CASE q.screen = "open"
  <2>1. StartLoad(RemoveAt(requests, i)) /\ acked' = acked \cup {q.id}
    BY <1>5 DEF DeleteArrives
  <2>2. PICK rs : rs = RemoveAt(requests, i)
    OBVIOUS
  <2>3. /\ rs \in Seq(Stored) /\ rs \in Seq(Owned) /\ rs \in Seq(Known)
        /\ ~strayed => AtMostOne(rs, Updates)
        /\ \A T : Has(requests, T) /\ requests[i] \notin T => Has(rs, T)
    BY <2>2, RequestRemoved DEF CrudInv
  <2>4. form.busy => Has(rs, OpenOf(form.kind)) \/ (form.kind = "add" /\ "form" \in broke)
    <3>1. form.busy => Has(requests, OpenOf(form.kind)) \/ (form.kind = "add" /\ "form" \in broke)
      BY DEF CrudInv, FormSpin
    <3>2. requests[i] \notin OpenOf(form.kind)
      BY <1>2, <1>3
    <3> QED BY <2>3, <3>1, <3>2
  <2>5. /\ ListOK' /\ FormOK' /\ FlagsOK' /\ RequestsOK' /\ ListFaithful'
        /\ ListSpin' /\ FormSpin'
    <3>1. StartLoad(rs)
      BY <2>1, <2>2
    <3>2. FormOK /\ FlagsOK
      BY DEF CrudInv
    <3> QED BY <1>1, <2>3, <2>4, <3>1, <3>2, LoadStarts
  <2>6. ServiceOK'
    <3>1. q.id \in 1 .. (nextId - 1) /\ \A k \in DOMAIN server : server[k].id # q.id
      BY <1>1 DEF Known
    <3>2. /\ server \in Seq(Product) /\ nextId \in 1 .. (MaxId + 1)
          /\ Unique(server) /\ Given(server)
          /\ acked \subseteq 1 .. (nextId - 1)
          /\ \A k \in DOMAIN server : server[k].id \notin acked
      BY DEF CrudInv, ServiceOK
    <3>3. Given(server)'
      BY <1>1, <3>2 DEF Given
    <3>4. acked' \subseteq 1 .. (nextId' - 1) /\ \A k \in DOMAIN server' : server'[k].id \notin acked'
      BY <1>1, <2>1, <3>1, <3>2
    <3>5. Unique(server)'
      BY <1>1, <3>2 DEF Unique
    <3> QED BY <1>1, <3>2, <3>3, <3>4, <3>5 DEF ServiceOK
  <2> QED BY <2>5, <2>6 DEF CrudInv
<1> QED BY <1>4, <1>5

(* An update whose screen is mounted, when nobody strayed: the screen is   *)
(* open, it is the form on top and it is the one that sent the update.     *)
LEMMA OwnUpdate ==
  ASSUME CrudInv, ~strayed, NEW i \in DOMAIN requests,
         requests[i].kind = "update", requests[i].screen # "gone"
  PROVE  requests[i].screen = "open" /\ requests[i].id = form.id /\ form.kind = "update"
<1>1. requests[i] \in Owned /\ requests[i] \in Updates
  BY RequestsStored DEF CrudInv, Updates
<1> QED BY <1>1 DEF Owned, IsFormRequest

(* The answer to an update pops the screen on top. *)
LEMMA UpdateArrivesStep ==
  ASSUME CrudInv, NEW i \in DOMAIN requests, UpdateArrives(i)
  PROVE  CrudInv'
<1> DEFINE q == requests[i]
<1>1. /\ q \in Stored /\ q.kind = "update"
      /\ UNCHANGED <<server, nextId, acked, overlapped, strayed>>
  BY RequestsStored DEF CrudInv, UpdateArrives, Served
<1>2. \A x : q \in OpenOf(x) => x = "update" /\ q.screen = "open"
  BY <1>1 DEF OpenOf
<1>3. /\ broke \subseteq {"list", "form"} /\ strayed \in BOOLEAN
      /\ FormOK /\ FlagsOK /\ ListOK /\ ListFaithful
  BY DEF CrudInv, FlagsOK
<1>4. CASE q.screen = "gone"
  <2>1. /\ requests' = RemoveAt(requests, i) /\ list' = list /\ broke' = broke /\ form' = form
    BY <1>4 DEF UpdateArrives
  <2>2. requests[i] \notin OpenOf("load") /\ requests[i] \notin OpenOf(form.kind)
    BY <1>2, <1>4
  <2>3. ServiceOK' /\ FormOK' /\ FlagsOK' /\ RequestsOK' /\ ListSpin' /\ FormSpin'
    BY <1>1, <1>3, <2>1, <2>2, Answered
  <2>4. ListOK' /\ ListFaithful'
    BY <1>1, <2>1, SetsKept DEF CrudInv
  <2> QED BY <2>3, <2>4 DEF CrudInv
<1>5. CASE q.screen # "gone"
  <2>1. PopTop(RemoveAt(requests, i))
    BY <1>5 DEF UpdateArrives
  <2>2. PICK rs : rs = RemoveAt(requests, i)
    OBVIOUS
  <2>3. /\ rs \in Seq(Stored) /\ rs \in Seq(Owned) /\ rs \in Seq(Known) /\ rs \in Seq(Fresh)
        /\ ~overlapped => AtMostOne(rs, OpenOf("load"))
        /\ ~strayed => AtMostOne(rs, Updates)
        /\ ~strayed /\ requests[i] \in Updates => ~Has(rs, Updates)
        /\ \A T : Has(requests, T) /\ requests[i] \notin T => Has(rs, T)
    BY <2>2, RequestRemoved DEF CrudInv
  <2>4. ServiceOK'
    BY <1>1, SetsKept DEF CrudInv
  <2>5. CASE form.kind # "none"
    <3>1. /\ form' = NoForm /\ requests' = AfterFormPop(rs)
          /\ broke' = broke \ {"form"} /\ list' = list
      BY <2>1, <2>2, <2>5 DEF PopTop
    <3>2. ~strayed' => ~Has(rs, Updates)
      BY <1>1, <1>5, <2>3 DEF Updates
    <3>3. list.inProgress => Has(rs, OpenOf("load")) \/ "list" \in broke
      <4>1. list.inProgress => Has(requests, OpenOf("load")) \/ "list" \in broke
        BY DEF CrudInv, ListSpin
      <4>2. requests[i] \notin OpenOf("load")
        BY <1>2
      <4> QED BY <2>3, <4>1, <4>2
    <3>4. strayed' \in BOOLEAN
      BY <1>1, <1>3
    <3>5. /\ ListOK' /\ FormOK' /\ FlagsOK' /\ RequestsOK' /\ ListFaithful'
          /\ ListSpin' /\ FormSpin'
      BY <1>1, <1>3, <2>3, <3>1, <3>2, <3>3, <3>4, FormPopped
    <3> QED BY <2>4, <3>5 DEF CrudInv
  <2>6. CASE form.kind = "none"
    <3>1. /\ list' = NoList /\ requests' = AfterListPop(rs)
          /\ form' = form /\ broke' = broke
      BY <2>1, <2>2, <2>6 DEF PopTop
    <3>2. ListOK' /\ RequestsOK' /\ ListFaithful' /\ ListSpin' /\ FormSpin'
      BY <1>1, <1>3, <2>3, <2>6, <3>1, ListPopped
    <3>3. FormOK' /\ FlagsOK'
      BY <1>1, <1>3, <3>1 DEF FormOK, FlagsOK
    <3> QED BY <2>4, <3>2, <3>3 DEF CrudInv
  <2> QED BY <2>5, <2>6
<1> QED BY <1>4, <1>5

(* The answer to an add, a refusal, and an exception instead of an answer. *)
LEMMA OtherAnswerStep ==
  ASSUME CrudInv, NEW i \in DOMAIN requests, AddArrives(i) \/ Refused(i) \/ NetworkError(i)
  PROVE  CrudInv'
<1>1. requests[i] \in Stored
  BY RequestsStored DEF CrudInv
<1>2. /\ requests' = RemoveAt(requests, i)
      /\ UNCHANGED <<server, nextId, acked, overlapped, strayed>>
  BY DEF AddArrives, Refused, NetworkError
<1>3. form' = form \/ (form' = FormFreed(requests[i]) /\ IsFormRequest(requests[i]))
  BY DEF AddArrives, Refused, NetworkError, Served, IsFormRequest
<1>4. /\ list \in ListState /\ list.deleting \subseteq DOMAIN list.items
      /\ form \in FormState /\ broke \subseteq {"list", "form"}
  BY DEF CrudInv, ListOK, FormOK, FlagsOK
<1>5. /\ list' \in ListState /\ list'.items = list.items
      /\ list'.deleting \subseteq list.deleting
      /\ list'.inProgress => list.inProgress
  <2>1. \A d \in SUBSET Nat : [list EXCEPT !.deleting = d] \in ListState
    BY <1>4 DEF ListState
  <2>2. list.deleting \ {requests[i].pos} \in SUBSET Nat
    BY <1>4 DEF ListState
  <2>3. \/ list' = list \/ list' = [list EXCEPT !.inProgress = FALSE]
        \/ list' = [list EXCEPT !.deleting = list.deleting \ {requests[i].pos}]
    BY DEF AddArrives, Refused, NetworkError
  <2>4. CASE list' = list
    BY <1>4, <2>4
  <2>5. CASE list' = [list EXCEPT !.inProgress = FALSE]
    BY <1>4, <2>5 DEF ListState
  <2>6. CASE list' = [list EXCEPT !.deleting = list.deleting \ {requests[i].pos}]
    BY <1>4, <2>1, <2>2, <2>6 DEF ListState
  <2> QED BY <2>3, <2>4, <2>5, <2>6
<1>6. broke \subseteq broke' /\ broke' \subseteq {"list", "form"}
  BY <1>4 DEF AddArrives, Refused, NetworkError
<1>7. requests[i] \in OpenOf(form.kind) =>
         ~form'.busy \/ (form.kind = "add" /\ "form" \in broke')
  <2> SUFFICES ASSUME requests[i].kind = form.kind, requests[i].screen = "open"
               PROVE  ~form'.busy \/ (form.kind = "add" /\ "form" \in broke')
    BY DEF OpenOf
  <2>1. form.kind \in {"none", "add", "update"} /\ requests[i].kind # "none"
    BY <1>1, <1>4 DEF FormState, Stored
  <2> QED BY <1>4, <2>1 DEF AddArrives, Refused, NetworkError, FormFreed, FormState, Served
<1>8. requests[i] \in OpenOf("load") => ~list'.inProgress \/ "list" \in broke'
  BY <1>4 DEF OpenOf, AddArrives, Refused, NetworkError, Served, ListState
<1>9. ServiceOK' /\ FormOK' /\ FlagsOK' /\ RequestsOK' /\ ListSpin' /\ FormSpin'
  BY <1>2, <1>3, <1>5, <1>6, <1>7, <1>8, Answered
<1>10. ListOK' /\ ListFaithful'
  BY <1>2, <1>4, <1>5 DEF CrudInv, ListOK, ListFaithful
<1> QED BY <1>9, <1>10 DEF CrudInv

-----------------------------------------------------------------------------
(* The theorems. *)

(* Every step keeps the invariant. *)
LEMMA CrudStep ==
  ASSUME CrudInv, [Next]_vars
  PROVE  CrudInv'
<1>1. CASE UNCHANGED vars
  <2>1. /\ Owned' = Owned /\ Known' = Known /\ Fresh' = Fresh
        /\ ServiceOK' /\ ListOK' /\ FormOK' /\ ListFaithful'
    BY <1>1, SetsKept DEF CrudInv, vars
  <2>2. RequestsOK'
    BY <1>1, <2>1 DEF CrudInv, RequestsOK, vars
  <2>3. FlagsOK' /\ ListSpin' /\ FormSpin'
    BY <1>1 DEF CrudInv, FlagsOK, ListSpin, FormSpin, vars
  <2> QED BY <2>1, <2>2, <2>3 DEF CrudInv
<1>2. CASE OpenList \/ Refresh
  BY <1>2, LoadStep
<1>3. CASE CloseList
  BY <1>3, CloseListStep
<1>4. CASE \E i \in DOMAIN list.items : DeleteProduct(i)
  BY <1>4, DeleteStep
<1>5. CASE OpenAdd \/ \E i \in DOMAIN list.items : OpenUpdate(i)
  BY <1>5, OpenFormStep
<1>6. CASE CloseForm
  BY <1>6, CloseFormStep
<1>7. CASE ExitEnds
  BY <1>7, ExitEndsStep
<1>8. CASE SubmitAdd \/ \E p \in Prices : SubmitUpdate(p)
  BY <1>8, SubmitStep
<1>9. CASE SubmitAddUnparsable \/ SubmitUpdateUnparsable
  BY <1>9, UnparsableStep
<1>10. ASSUME NEW i \in DOMAIN requests,
              \/ Serve(i) \/ LoadArrives(i) \/ DeleteArrives(i) \/ UpdateArrives(i)
              \/ AddArrives(i) \/ Refused(i) \/ NetworkError(i)
       PROVE  CrudInv'
  BY <1>10, ServeStep, LoadArrivesStep, DeleteArrivesStep, UpdateArrivesStep, OtherAnswerStep
<1> QED BY <1>1, <1>2, <1>3, <1>4, <1>5, <1>6, <1>7, <1>8, <1>9, <1>10 DEF Next

(* The program starts in the invariant. *)
LEMMA CrudStart == Init => CrudInv
<1> SUFFICES ASSUME Init PROVE CrudInv
  OBVIOUS
<1>1. /\ server = <<>> /\ nextId = 1 /\ requests = <<>> /\ acked = {} /\ broke = {}
      /\ overlapped = FALSE /\ strayed = FALSE /\ list = NoList /\ form = NoForm
  BY DEF Init
<1>2. DOMAIN <<>> = {} /\ \A S : <<>> \in Seq(S)
  OBVIOUS
<1>3. ServiceOK
  BY <1>1, <1>2, CrudAssumption DEF ServiceOK, Unique, Given
<1>4. ListOK /\ ListFaithful /\ ListSpin
  BY <1>1, <1>2 DEF ListOK, ListState, NoList, ListFaithful, ListSpin
<1>5. FormOK /\ FormSpin /\ FlagsOK
  <2>1. form \in FormState /\ ~form.busy
    BY <1>1, CrudAssumption DEF FormState, NoForm
  <2> QED BY <1>1, <2>1 DEF FormOK, FormSpin, FlagsOK
<1>6. RequestsOK
  BY <1>1, <1>2 DEF RequestsOK, AtMostOne
<1> QED BY <1>3, <1>4, <1>5, <1>6 DEF CrudInv

(* The invariant holds in every reachable state. *)
THEOREM CrudInvariant == Spec => []CrudInv
<1>1. Init => CrudInv
  BY CrudStart
<1>2. CrudInv /\ [Next]_vars => CrudInv'
  BY CrudStep
<1> QED BY <1>1, <1>2, PTL DEF Spec

(* Type correctness of the client and the service. *)
THEOREM CrudTypes == Spec => []TypeOK
<1>1. ASSUME CrudInv PROVE TypeOK
  <2>1. \A i \in DOMAIN requests : requests[i] \in Stored /\ requests[i] \in Owned
    BY <1>1, RequestsStored DEF CrudInv
  <2>2. \A i \in DOMAIN requests :
          /\ requests[i].kind \in {"load", "delete", "add", "update"}
          /\ requests[i].screen = "exiting" => IsFormRequest(requests[i])
          /\ requests[i].screen = "open" /\ IsFormRequest(requests[i])
                => form.kind = requests[i].kind
    BY <2>1 DEF Stored, Owned
  <2>3. server \in Seq(Product) /\ nextId \in 1 .. (MaxId + 1)
    BY <1>1 DEF CrudInv, ServiceOK
  <2>4. /\ list.items \in Seq(1 .. MaxId) /\ list.deleting \subseteq DOMAIN list.items
        /\ form.kind \in {"none", "add", "update"} /\ broke \subseteq {"list", "form"}
    BY <1>1 DEF CrudInv, ListOK, ListState, FormOK, FormState, FlagsOK
  <2> QED BY <2>2, <2>3, <2>4 DEF TypeOK
<1> QED BY <1>1, CrudInvariant, PTL

(* A list filled by loads that did not overlap shows no product twice and  *)
(* none whose deletion it was told of: the answers to _getProductList and  *)
(* _deleteProduct may come in any order.                                   *)
THEOREM ListTrue == Spec => []ListFaithful
<1>1. CrudInv => ListFaithful
  BY DEF CrudInv
<1> QED BY <1>1, CrudInvariant, PTL

(* Only an exception leaves a spinner behind: otherwise a request of the   *)
(* screen is still running, whose answer ends it.                          *)
THEOREM SpinnersHaveCause == Spec => []SpinnerHasCause
<1>1. ASSUME CrudInv PROVE SpinnerHasCause
  <2>1. ListSpin /\ FormSpin
    BY <1>1 DEF CrudInv
  <2> QED BY <2>1, Zenon
          DEF SpinnerHasCause, ListSpin, FormSpin, Has, OpenOf, LoadsRunning
<1> QED BY <1>1, CrudInvariant, PTL

(* Unless somebody strayed, the answer to an update closes the screen that *)
(* sent it and nothing else: Navigator.pop takes whatever is on top.       *)
THEOREM OwnScreenCloses == Spec => UpdateClosesOwnScreen
<1> DEFINE Own == \E i \in DOMAIN requests :
                      UpdateArrives(i) /\ requests[i].screen = "open"
                      /\ requests[i].id = form.id
           Closes == ~strayed =>
                       /\ list.open /\ ~list'.open => CloseList
                       /\ form.kind # "none" /\ form'.kind = "none" => CloseForm \/ Own
<1>1. ASSUME CrudInv, Next PROVE Closes
  <2> SUFFICES ASSUME ~strayed
               PROVE  /\ list.open /\ ~list'.open => CloseList
                      /\ form.kind # "none" /\ form'.kind = "none" => CloseForm \/ Own
    OBVIOUS
  <2> HIDE DEF Own
  <2>1. list \in ListState /\ form \in FormState
    BY <1>1 DEF CrudInv, ListOK, FormOK
  <2>2. CASE OpenList \/ Refresh
    BY <2>2 DEF OpenList, Refresh, StartLoad
  <2>3. CASE \E i \in DOMAIN list.items : DeleteProduct(i)
    BY <2>1, <2>3 DEF DeleteProduct, ListState
  <2>4. CASE OpenAdd \/ \E i \in DOMAIN list.items : OpenUpdate(i)
    BY <2>4 DEF OpenAdd, OpenUpdate
  <2>5. CASE ExitEnds
    BY <2>5 DEF ExitEnds
  <2>6. CASE SubmitAdd \/ \E p \in Prices : SubmitUpdate(p)
    BY <2>1, <2>6 DEF SubmitAdd, SubmitUpdate, FormState
  <2>7. CASE SubmitAddUnparsable \/ SubmitUpdateUnparsable
    BY <2>1, <2>7 DEF SubmitAddUnparsable, SubmitUpdateUnparsable, FormState
  <2>8. ASSUME NEW i \in DOMAIN requests, Serve(i) PROVE list' = list /\ form' = form
    BY <2>8 DEF Serve
  <2>9. ASSUME NEW i \in DOMAIN requests, LoadArrives(i)
        PROVE  (list.open => list'.open) /\ form' = form
    BY <2>1, <2>9 DEF LoadArrives, ListState
  <2>10. ASSUME NEW i \in DOMAIN requests, DeleteArrives(i)
         PROVE  (list.open => list'.open) /\ form' = form
    BY <2>10 DEF DeleteArrives, StartLoad
  <2>11. ASSUME NEW i \in DOMAIN requests, UpdateArrives(i)
         PROVE  /\ list' = list
                /\ form' = form \/ Own
    <3>1. CASE requests[i].screen = "gone"
      BY <2>11, <3>1 DEF UpdateArrives
    <3>2. CASE requests[i].screen # "gone"
      <4>1. requests[i].kind = "update" /\ PopTop(RemoveAt(requests, i))
        BY <2>11, <3>2 DEF UpdateArrives, Served
      <4>2. requests[i].screen = "open" /\ requests[i].id = form.id /\ form.kind = "update"
        BY <1>1, <3>2, <4>1, OwnUpdate
      <4>3. Own
        BY <2>11, <4>2 DEF Own
      <4> QED BY <4>1, <4>2, <4>3 DEF PopTop
    <3> QED BY <3>1, <3>2
  <2>12. ASSUME NEW i \in DOMAIN requests, AddArrives(i) \/ Refused(i) \/ NetworkError(i)
         PROVE  (list.open => list'.open) /\ form'.kind = form.kind
    BY <2>1, <2>12 DEF AddArrives, Refused, NetworkError, FormFreed, ListState, FormState
  <2>13. CASE CloseList
    BY <2>13 DEF CloseList
  <2>14. CASE CloseForm
    BY <2>14 DEF CloseForm
  <2> QED BY <1>1, <2>2, <2>3, <2>4, <2>5, <2>6, <2>7, <2>8, <2>9, <2>10, <2>11, <2>12, <2>13,
             <2>14 DEF Next
<1>2. CrudInv /\ [Next]_vars => [Closes]_vars
  BY <1>1
<1> QED BY <1>2, CrudInvariant, PTL DEF Spec, UpdateClosesOwnScreen

-----------------------------------------------------------------------------
(* The paged user list. *)

(* What makes PagesInOrder inductive: unless a refresh has met a request   *)
(* for a later page, a running request asks for the current page and runs  *)
(* only while there may be more, and then the pages fetched so far are all *)
(* full.                                                                   *)
Caught ==
    mounted /\ ~raced =>
        /\ request # 0 => request = currentPage /\ hasMore
        /\ hasMore => (currentPage - 1) * PageSize <= total

PagingInv == PagingTypeOK /\ PagesInOrder /\ Caught

(* The users before a page, and how their number grows with the page. *)
LEMMA PageOffset ==
  ASSUME NEW p \in Nat \ {0}
  PROVE  /\ (p - 1) * PageSize \in Nat
         /\ p * PageSize = (p - 1) * PageSize + PageSize
<1>1. PageSize \in Nat
  BY PagingAssumption
<1>2. PICK q \in Nat : q = p - 1
  OBVIOUS
<1>3. q * PageSize \in Nat
  BY <1>1, <1>2
<1>4. (q + 1) * PageSize = q * PageSize + PageSize
  BY <1>1, <1>2
<1>5. p = q + 1
  BY <1>2
<1> QED BY <1>2, <1>3, <1>4, <1>5

(* A page of the server: its users in order, none past the last one. *)
LEMMA ServerPageFacts ==
  ASSUME PagingTypeOK, NEW p \in Nat \ {0}
  PROVE  /\ ServerPage(p) \in Seq(Nat \ {0})
         /\ \A i \in 1 .. Len(ServerPage(p)) : ServerPage(p)[i] = (p - 1) * PageSize + i
         /\ (p - 1) * PageSize <= total =>
               Len(ServerPage(p)) = Smaller(PageSize, total - (p - 1) * PageSize)
<1> DEFINE o == (p - 1) * PageSize
           n == Smaller(PageSize, total - o)
<1>1. o \in Nat
  BY PageOffset
<1>2. PageSize \in Nat /\ total \in Nat
  BY PagingAssumption DEF PagingTypeOK
<1>3. ServerPage(p) = [i \in 1 .. n |-> o + i]
  BY DEF ServerPage
<1> HIDE DEF o
<1>4. n \in Int /\ (o <= total => n \in Nat)
  BY <1>1, <1>2 DEF Smaller
<1> HIDE DEF n
<1>5. CASE n \in Nat
  <2>1. PICK f : f = [i \in 1 .. n |-> o + i]
    OBVIOUS
  <2>2. f \in Seq(Nat \ {0}) /\ Len(f) = n /\ \A i \in 1 .. n : f[i] = o + i
    BY <1>1, <1>5, <2>1
  <2> QED BY <1>3, <2>1, <2>2 DEF o, n
<1>6. CASE n \notin Nat
  <2>1. 1 .. n = 1 .. 0 BY <1>4, <1>6
  <2>2. ServerPage(p) = [i \in 1 .. 0 |-> o + i] BY <1>3, <2>1
  <2>3. ServerPage(p) \in Seq(Nat \ {0}) /\ Len(ServerPage(p)) = 0 BY <2>2
  <2> QED BY <1>4, <1>6, <2>3 DEF o
<1> QED BY <1>5, <1>6

(* An answer for the current page extends the list in order, and tells     *)
(* rightly whether there is more.                                          *)
LEMMA ArrivalKeeps ==
  ASSUME PagingInv, PageArrives, mounted, ~raced
  PROVE  /\ users' = [i \in 1 .. Smaller((currentPage' - 1) * PageSize, total) |-> i]
         /\ ~hasMore' => Len(users') = total
         /\ hasMore' => (currentPage' - 1) * PageSize <= total
<1> DEFINE o == (currentPage - 1) * PageSize
           f == ServerPage(request)
<1>1. request = currentPage /\ hasMore /\ o <= total
  BY DEF PagingInv, Caught, PageArrives
<1>2. /\ PageSize \in Nat \ {0} /\ total \in Nat
      /\ currentPage \in Nat \ {0} /\ users \in Seq(Nat \ {0})
  BY PagingAssumption DEF PagingInv, PagingTypeOK
<1>3. o \in Nat /\ currentPage * PageSize = o + PageSize
  BY <1>2, PageOffset
<1>4. users = [i \in 1 .. Smaller(o, total) |-> i]
  BY DEF PagingInv, PagesInOrder
<1>5. /\ f \in Seq(Nat \ {0}) /\ Len(f) = Smaller(PageSize, total - o)
      /\ \A i \in 1 .. Len(f) : f[i] = o + i
  BY <1>1, <1>2, ServerPageFacts DEF PagingInv
<1>6. /\ users' = users \o f /\ currentPage' = currentPage + 1
      /\ hasMore' <=> Len(f) = PageSize
  <2>1. users' = users \o f /\ currentPage' = currentPage + 1
    BY Zenon DEF PageArrives
  <2>2. hasMore' = (Len(f) = PageSize)
    BY Zenon DEF PageArrives
  <2> QED BY <2>1, <2>2, Zenon
<1>7. (currentPage' - 1) * PageSize = o + PageSize
  <2>1. currentPage' - 1 = currentPage
    BY <1>2, <1>6
  <2> QED BY <1>3, <2>1
<1> HIDE DEF o, f
<1>8. users = [i \in 1 .. o |-> i] /\ Len(users) = o
  BY <1>1, <1>2, <1>3, <1>4 DEF Smaller
<1>9. Len(users') = Smaller(o + PageSize, total)
  <2>1. Len(users') = o + Len(f) /\ Len(f) \in Nat
    BY <1>2, <1>3, <1>5, <1>6, <1>8
  <2> QED BY <1>1, <1>2, <1>3, <1>5, <2>1 DEF Smaller
<1>10. users' = [i \in 1 .. Smaller(o + PageSize, total) |-> i]
  <2>1. users' \in Seq(Nat \ {0})
    BY <1>2, <1>5, <1>6
  <2>2. \A i \in 1 .. Len(users') : users'[i] = i
    BY <1>2, <1>3, <1>5, <1>6, <1>8
  <2> QED BY <1>9, <2>1, <2>2
<1>11. ~hasMore' => Len(users') = total
  BY <1>1, <1>2, <1>3, <1>5, <1>6, <1>9 DEF Smaller
<1>12. hasMore' => o + PageSize <= total
  BY <1>1, <1>2, <1>3, <1>5, <1>6 DEF Smaller
<1> QED BY <1>7, <1>10, <1>11, <1>12

(* An emptied list at page 1 is in order. *)
LEMMA StartInOrder ==
  ASSUME total \in Nat
  PROVE  /\ <<>> = [i \in 1 .. Smaller((1 - 1) * PageSize, total) |-> i]
         /\ (1 - 1) * PageSize <= total
<1>1. (1 - 1) * PageSize = 0
  BY PagingAssumption
<1>2. Smaller(0, total) = 0
  BY DEF Smaller
<1> QED BY <1>1, <1>2

(* Every step keeps the types. *)
LEMMA PagingTypeStep ==
  PagingTypeOK /\ [PagingNext]_pagingVars => PagingTypeOK'
<1> SUFFICES ASSUME PagingTypeOK, [PagingNext]_pagingVars PROVE PagingTypeOK'
  OBVIOUS
<1>1. CASE ScrollToEnd
  BY <1>1 DEF ScrollToEnd, Fetch, PagingTypeOK
<1>2. CASE PageArrives
  <2>1. CASE mounted
    <3>1. ServerPage(request) \in Seq(Nat \ {0})
      BY <1>2, ServerPageFacts DEF PageArrives, PagingTypeOK
    <3>0. /\ users' = users \o ServerPage(request)
          /\ currentPage' = currentPage + 1 /\ request' = 0
      BY <1>2, <2>1, Zenon DEF PageArrives
    <3>2. users' \in Seq(Nat \ {0})
      BY <3>0, <3>1 DEF PagingTypeOK
    <3>3. currentPage' \in Nat \ {0} /\ request' \in Nat
      BY <3>0 DEF PagingTypeOK
    <3>4. hasMore' \in BOOLEAN /\ isLoading' \in BOOLEAN
      BY <1>2, <2>1, Zenon DEF PageArrives
    <3> QED BY <1>2, <3>2, <3>3, <3>4 DEF PageArrives, PagingTypeOK
  <2>2. CASE ~mounted
    BY <1>2, <2>2 DEF PageArrives, PagingTypeOK
  <2> QED BY <2>1, <2>2
<1>3. CASE FetchFails
  <2>1. isLoading' \in BOOLEAN
    BY <1>3, Zenon DEF FetchFails
  <2> QED BY <1>3, <2>1 DEF FetchFails, PagingTypeOK
<1>4. CASE RefreshData
  <2>1. users' \in Seq(Nat \ {0}) /\ currentPage' \in Nat \ {0} /\ request' \in Nat
    BY <1>4 DEF RefreshData, Fetch, PagingTypeOK
  <2>2. raced' \in BOOLEAN /\ isLoading' \in BOOLEAN /\ hasMore' \in BOOLEAN
    BY <1>4, Zenon DEF RefreshData, Fetch, PagingTypeOK
  <2> QED BY <1>4, <2>1, <2>2 DEF RefreshData, PagingTypeOK
<1>5. CASE Dispose
  BY <1>5 DEF Dispose, PagingTypeOK
<1>6. CASE Reopen
  <2>1. users' \in Seq(Nat \ {0}) /\ currentPage' \in Nat \ {0} /\ request' \in Nat
    BY <1>6 DEF Reopen, Fetch
  <2> QED BY <1>6, <2>1, Zenon DEF Reopen, Fetch, PagingTypeOK
<1>7. CASE UNCHANGED pagingVars
  BY <1>7 DEF pagingVars, PagingTypeOK
<1> QED BY <1>1, <1>2, <1>3, <1>4, <1>5, <1>6, <1>7 DEF PagingNext

(* Every step keeps the invariant. *)
LEMMA PagingStep ==
  PagingInv /\ [PagingNext]_pagingVars => PagingInv'
<1> SUFFICES ASSUME PagingInv, [PagingNext]_pagingVars PROVE PagesInOrder' /\ Caught'
  BY PagingTypeStep DEF PagingInv
<1>0. total \in Nat /\ request \in Nat /\ total' = total
  BY DEF PagingInv, PagingTypeOK, PagingNext, ScrollToEnd, PageArrives,
         FetchFails, RefreshData, Dispose, Reopen, pagingVars
<1>1. CASE ScrollToEnd
  BY <1>1 DEF ScrollToEnd, Fetch, PagingInv, PagesInOrder, Caught
<1>2. CASE PageArrives
  <2>1. CASE mounted /\ ~raced
    <3>1. mounted' = mounted /\ raced' = raced /\ request' = 0
      BY <1>2 DEF PageArrives
    <3> QED BY <1>0, <1>2, <2>1, <3>1, ArrivalKeeps DEF PagesInOrder, Caught
  <2>2. CASE ~mounted \/ raced
    BY <1>2, <2>2 DEF PageArrives, PagesInOrder, Caught
  <2> QED BY <2>1, <2>2
<1>3. CASE FetchFails
  BY <1>3 DEF FetchFails, PagingInv, PagesInOrder, Caught
<1>4. CASE RefreshData
  <2>1. users' = <<>> /\ currentPage' = 1 /\ hasMore'
    BY <1>4 DEF RefreshData
  <2>2. ~raced' => request' = 1
    BY <1>4 DEF RefreshData, Fetch
  <2> QED BY <1>0, <2>1, <2>2, StartInOrder DEF PagesInOrder, Caught
<1>5. CASE Dispose
  BY <1>5 DEF Dispose, PagesInOrder, Caught
<1>6. CASE Reopen
  <2>1. users' = <<>> /\ currentPage' = 1 /\ hasMore' /\ request' = 1
    BY <1>6 DEF Reopen, Fetch
  <2> QED BY <1>0, <2>1, StartInOrder DEF PagesInOrder, Caught
<1>7. CASE UNCHANGED pagingVars
  BY <1>7 DEF pagingVars, PagingInv, PagesInOrder, Caught
<1> QED BY <1>1, <1>2, <1>3, <1>4, <1>5, <1>6, <1>7 DEF PagingNext

(* The first request is for page 1 of an empty list. *)
LEMMA PagingStarts ==
  PagingInit => PagingInv
<1> SUFFICES ASSUME PagingInit PROVE PagingInv
  OBVIOUS
<1>1. total \in Nat
  BY PagingAssumption DEF PagingInit
<1>2. users \in Seq(Nat \ {0}) /\ currentPage \in Nat \ {0} /\ request \in Nat
  BY DEF PagingInit
<1>3. PagingTypeOK
  BY <1>1, <1>2, Zenon DEF PagingInit, PagingTypeOK
<1> QED BY <1>1, <1>3, StartInOrder DEF PagingInit, PagingInv, PagesInOrder, Caught

(* Type correctness of the user list. *)
THEOREM PagingTypes ==
  PagingSpec => []PagingTypeOK
<1>1. PagingInit => PagingTypeOK
  BY PagingStarts DEF PagingInv
<1>2. PagingTypeOK /\ [PagingNext]_pagingVars => PagingTypeOK'
  BY PagingTypeStep
<1> QED BY <1>1, <1>2, PTL DEF PagingSpec

(* For every page size and number of users, and any interleaving of        *)
(* scrolling, answers, failures, refreshes and reopenings: the list is the *)
(* server's users in order without gap or repetition, complete when it     *)
(* says so, unless a refresh has met a request for a later page.           *)
THEOREM InOrder ==
  PagingSpec => []PagesInOrder
<1>1. PagingInit => PagingInv
  BY PagingStarts
<1>2. PagingInv /\ [PagingNext]_pagingVars => PagingInv'
  BY PagingStep
<1>3. PagingInv => PagesInOrder
  BY DEF PagingInv
<1> QED BY <1>1, <1>2, <1>3, PTL DEF PagingSpec
=============================================================================
