---------------------------- MODULE ProjectPagesProofs --------------------------
(***************************************************************************)
(* TLAPS proofs for two pages of lib/project.                              *)
(*                                                                         *)
(* The ledger (MoneyManagement): type correctness, that what has           *)
(* reached the preferences file is never lost (StoredNeverLost), and that  *)
(* what a loaded page shows is saved (ShownIsSaved), for any number of     *)
(* entries, saves and kills.                                               *)
(*                                                                         *)
(* The water tracker (WaterTracker): the tank stays within                 *)
(* its limits, and _isSnackBarVisible tells the truth about the            *)
(* messenger's queue (FlagMeansBar), however long the queue is.            *)
(***************************************************************************)
EXTENDS MoneyManagement, WaterTracker, FiniteSetTheorems, TLAPS

-----------------------------------------------------------------------------
(* The ledger.                                                             *)

Write == [list : Lists, val : Seq(Entry)]

(* IsPrefix, element by element. *)
Begins(s, t) == Len(s) <= Len(t) /\ \A i \in 1 .. Len(s) : s[i] = t[i]

(* No amount that jsonEncode refuses is on its way to the file. *)
WritesEncodable == \A i \in DOMAIN writes : Encodable(writes[i].val)

(* The file and the writes in flight lead up to the process's map: the     *)
(* last write of a list carries what the map has, and without a write in   *)
(* flight the file has it.                                                 *)
LastWrite(l) ==
    \/ disk[l] = cache[l] /\ \A i \in DOMAIN writes : writes[i].list # l
    \/ \E i \in DOMAIN writes :
          /\ writes[i].list = l /\ writes[i].val = cache[l]
          /\ \A j \in DOMAIN writes : i < j => writes[j].list # l

(* The load precedes every save of an open page, unless an entry was added *)
(* early.                                                                  *)
LoadFirst ==
    /\ loaded => ready
    /\ mounted /\ ready => loaded
    /\ ~early => waiting = 0

(* Without early entries each version of a list begins the next one, from  *)
(* the file through the writes in flight to the map ...                    *)
Growing(l) ==
    /\ Begins(disk[l], cache[l])
    /\ \A i \in DOMAIN writes : writes[i].list = l =>
          /\ Begins(disk[l], writes[i].val) /\ Begins(writes[i].val, cache[l])
          /\ \A j \in DOMAIN writes : i < j /\ writes[j].list = l =>
                Begins(writes[i].val, writes[j].val)

(* ... and on to the page.                                                 *)
PageGrown(l) == mounted /\ loaded => Begins(cache[l], book[l])

(* The map has the lists that can be encoded: the expenses only together   *)
(* with the earnings, which are encoded first.                             *)
MapCurrent ==
    mounted /\ loaded /\ Encodable(book["earning"]) =>
        /\ cache["earning"] = book["earning"]
        /\ Encodable(book["expense"]) => cache["expense"] = book["expense"]

MoneyInv ==
    /\ TypeOK /\ WritesEncodable /\ LoadFirst
    /\ \A l \in Lists : LastWrite(l)
    /\ ~early => MapCurrent /\ \A l \in Lists : Growing(l) /\ PageGrown(l)

(* IsPrefix means what Begins says. *)
LEMMA PrefixBegins ==
  ASSUME NEW S, NEW s \in Seq(S), NEW t \in Seq(S), Begins(s, t)
  PROVE  IsPrefix(s, t)
  BY DEF IsPrefix, Begins

(* Begins is reflexive and transitive, and an appended entry keeps it. *)
LEMMA BeginsOrder ==
  ASSUME NEW r \in Seq(Entry), NEW s \in Seq(Entry), NEW t \in Seq(Entry), NEW e \in Entry
  PROVE  /\ Begins(s, s)
         /\ Begins(r, s) /\ Begins(s, t) => Begins(r, t)
         /\ Begins(r, s) => Begins(r, Append(s, e))
  BY DEF Begins

-----------------------------------------------------------------------------
(* What a save sends: each list at most once, as the page has it, and only *)
(* what can be encoded.                                                    *)
LEMMA SentFacts ==
  ASSUME NEW b \in Books
  PROVE  /\ Sent(b) \in Seq(Write)
         /\ \A i \in DOMAIN Sent(b) : Sent(b)[i].val = b[Sent(b)[i].list] /\ Encodable(Sent(b)[i].val)
         /\ \A i, j \in DOMAIN Sent(b) : Sent(b)[i].list = Sent(b)[j].list => i = j
         /\ Encodable(b["earning"]) =>
               /\ \E i \in DOMAIN Sent(b) : Sent(b)[i].list = "earning"
               /\ Encodable(b["expense"]) => \E i \in DOMAIN Sent(b) : Sent(b)[i].list = "expense"
<1> DEFINE we == [list |-> "earning", val |-> b["earning"]]
           wx == [list |-> "expense", val |-> b["expense"]]
<1>1. /\ we \in Write /\ wx \in Write
      /\ we.list = "earning" /\ we.val = b["earning"]
      /\ wx.list = "expense" /\ wx.val = b["expense"]
  BY DEF Books, Lists, Write
<1>2. Sent(b) = IF ~Encodable(b["earning"]) THEN <<>>
                ELSE IF ~Encodable(b["expense"]) THEN <<we>> ELSE <<we, wx>>
  BY DEF Sent
<1> HIDE DEF we, wx
<1>3. CASE ~Encodable(b["earning"])
  BY <1>2, <1>3
<1>4. CASE Encodable(b["earning"]) /\ ~Encodable(b["expense"])
  <2>1. Sent(b) = <<we>>
    BY <1>2, <1>4
  <2>2. /\ Sent(b) \in Seq(Write) /\ DOMAIN Sent(b) = {1} /\ Sent(b)[1] = we
    BY <1>1, <2>1
  <2> QED BY <1>1, <1>4, <2>2
<1>5. CASE Encodable(b["earning"]) /\ Encodable(b["expense"])
  <2>1. Sent(b) = <<we, wx>>
    BY <1>2, <1>5
  <2>2. /\ Sent(b) \in Seq(Write) /\ DOMAIN Sent(b) = {1, 2}
        /\ Sent(b)[1] = we /\ Sent(b)[2] = wx
    BY <1>1, <2>1
  <2> QED BY <1>1, <1>5, <2>2
<1> QED BY <1>3, <1>4, <1>5

(* A queue with another one behind it. *)
LEMMA ConcatFacts ==
  ASSUME NEW p \in Seq(Write), NEW q \in Seq(Write)
  PROVE  /\ p \o q \in Seq(Write)
         /\ \A i \in DOMAIN p : i \in DOMAIN (p \o q) /\ (p \o q)[i] = p[i]
         /\ \A k \in DOMAIN q : Len(p) + k \in DOMAIN (p \o q) /\ (p \o q)[Len(p) + k] = q[k]
         /\ \A i \in DOMAIN (p \o q) :
               \/ i \in DOMAIN p /\ (p \o q)[i] = p[i]
               \/ \E k \in DOMAIN q : i = Len(p) + k /\ (p \o q)[i] = q[k]
         /\ \A i \in DOMAIN p, k \in DOMAIN q : i < Len(p) + k
         /\ \A k, m \in DOMAIN q : Len(p) + k < Len(p) + m <=> k < m
<1>1. /\ p \o q \in Seq(Write)
      /\ \A i \in DOMAIN p : i \in DOMAIN (p \o q) /\ (p \o q)[i] = p[i]
  OBVIOUS
<1>2. \A k \in DOMAIN q : Len(p) + k \in DOMAIN (p \o q) /\ (p \o q)[Len(p) + k] = q[k]
  OBVIOUS
<1>3. ASSUME NEW i \in DOMAIN (p \o q)
      PROVE  \/ i \in DOMAIN p /\ (p \o q)[i] = p[i]
             \/ \E k \in DOMAIN q : i = Len(p) + k /\ (p \o q)[i] = q[k]
  <2>1. CASE i <= Len(p)
    BY <2>1
  <2>2. CASE ~(i <= Len(p))
    <3>1. i - Len(p) \in DOMAIN q /\ i = Len(p) + (i - Len(p)) /\ (p \o q)[i] = q[i - Len(p)]
      BY <2>2
    <3> QED BY <3>1
  <2> QED BY <2>1, <2>2
<1>4. /\ \A i \in DOMAIN p, k \in DOMAIN q : i < Len(p) + k
      /\ \A k, m \in DOMAIN q : Len(p) + k < Len(p) + m <=> k < m
  OBVIOUS
<1> QED BY <1>1, <1>2, <1>3, <1>4

(* What a save does to the map. *)
LEMMA MappedFacts ==
  ASSUME TypeOK, NEW b \in Books
  PROVE  /\ Mapped(cache, b) \in Books
         /\ \A l \in Lists : Encodable(Mapped(cache, b)[l])
         /\ \A i \in DOMAIN Sent(b) : Mapped(cache, b)[Sent(b)[i].list] = b[Sent(b)[i].list]
         /\ \A l \in Lists : (\A i \in DOMAIN Sent(b) : Sent(b)[i].list # l) =>
               Mapped(cache, b)[l] = cache[l]
<1>1. \A i \in DOMAIN Sent(b) :
         Sent(b)[i] \in Write /\ Sent(b)[i].list \in Lists /\ Encodable(b[Sent(b)[i].list])
  <2>1. \A i \in DOMAIN Sent(b) : Sent(b)[i] \in Write
    BY SentFacts
  <2>2. \A i \in DOMAIN Sent(b) : Encodable(b[Sent(b)[i].list])
    BY SentFacts, Zenon
  <2> QED BY <2>1, <2>2 DEF Write
<1>2. \A l \in Lists : Mapped(cache, b)[l] =
         IF \E i \in DOMAIN Sent(b) : Sent(b)[i].list = l THEN b[l] ELSE cache[l]
  BY Zenon DEF Mapped
<1>3. Mapped(cache, b) \in Books
  BY DEF Mapped, TypeOK, Books
<1>4. \A l \in Lists : Encodable(cache[l])
  BY DEF TypeOK
<1> QED BY <1>1, <1>2, <1>3, <1>4, Zenon

(* A save keeps the queue typed and leading up to the map. *)
LEMMA SaveKeeps ==
  ASSUME TypeOK, WritesEncodable, \A l \in Lists : LastWrite(l),
         NEW b \in Books, SaveData(b), UNCHANGED disk
  PROVE  /\ cache' \in Books /\ writes' \in Seq(Write)
         /\ \A l \in Lists : Encodable(cache'[l])
         /\ WritesEncodable'
         /\ \A l \in Lists : LastWrite(l)'
<1> DEFINE S == Sent(b)
<1>1. writes' = writes \o S /\ cache' = Mapped(cache, b)
  BY DEF SaveData
<1>2. writes \in Seq(Write)
  BY DEF TypeOK, Write
<1>3. /\ S \in Seq(Write)
      /\ \A i \in DOMAIN S : S[i].val = b[S[i].list] /\ Encodable(S[i].val)
      /\ \A i, j \in DOMAIN S : S[i].list = S[j].list => i = j
  BY SentFacts, Zenon
<1>4. /\ writes' \in Seq(Write)
      /\ \A i \in DOMAIN writes : i \in DOMAIN writes' /\ writes'[i] = writes[i]
      /\ \A k \in DOMAIN S : Len(writes) + k \in DOMAIN writes' /\ writes'[Len(writes) + k] = S[k]
      /\ \A i \in DOMAIN writes' :
            \/ i \in DOMAIN writes /\ writes'[i] = writes[i]
            \/ \E k \in DOMAIN S : i = Len(writes) + k /\ writes'[i] = S[k]
      /\ \A i \in DOMAIN writes, k \in DOMAIN S : i < Len(writes) + k
      /\ \A k, m \in DOMAIN S : Len(writes) + k < Len(writes) + m <=> k < m
  <2> HIDE DEF S
  <2> QED BY <1>1, <1>2, <1>3, ConcatFacts
<1>5. /\ cache' \in Books /\ \A l \in Lists : Encodable(cache'[l])
      /\ \A i \in DOMAIN S : cache'[S[i].list] = b[S[i].list]
      /\ \A l \in Lists : (\A i \in DOMAIN S : S[i].list # l) => cache'[l] = cache[l]
  BY <1>1, MappedFacts, Zenon
<1> HIDE DEF S
<1>6. WritesEncodable'
  <2> SUFFICES ASSUME NEW i \in DOMAIN writes' PROVE Encodable(writes'[i].val)
    BY DEF WritesEncodable, Encodable
  <2>1. CASE i \in DOMAIN writes /\ writes'[i] = writes[i]
    BY <2>1 DEF WritesEncodable
  <2>2. CASE \E k \in DOMAIN S : i = Len(writes) + k /\ writes'[i] = S[k]
    BY <1>3, <2>2
  <2> QED BY <1>4, <2>1, <2>2
<1>7. ASSUME NEW l \in Lists PROVE LastWrite(l)'
  <2>1. CASE \E k \in DOMAIN S : S[k].list = l
    <3>1. PICK k \in DOMAIN S : S[k].list = l
      BY <2>1
    <3>2. writes'[Len(writes) + k].list = l /\ writes'[Len(writes) + k].val = cache'[l]
      BY <1>3, <1>4, <1>5, <3>1, Zenon
    <3>3. ASSUME NEW j \in DOMAIN writes', Len(writes) + k < j PROVE writes'[j].list # l
      <4>1. CASE j \in DOMAIN writes
        BY <1>2, <1>3, <3>3, <4>1
      <4>2. ASSUME NEW m \in DOMAIN S, j = Len(writes) + m, writes'[j] = S[m]
            PROVE  writes'[j].list # l
        <5>1. k < m
          BY <1>4, <3>3, <4>2
        <5>2. k # m
          BY <1>3, <5>1
        <5> QED BY <1>3, <3>1, <4>2, <5>2
      <4> QED BY <1>4, <4>1, <4>2
    <3> QED BY <1>4, <3>2, <3>3 DEF LastWrite
  <2>2. CASE \A k \in DOMAIN S : S[k].list # l
    <3>1. cache'[l] = cache[l]
      BY <1>5, <2>2
    <3>2. CASE disk[l] = cache[l] /\ \A i \in DOMAIN writes : writes[i].list # l
      BY <1>4, <2>2, <3>1, <3>2 DEF LastWrite
    <3>3. CASE \E i \in DOMAIN writes :
                  /\ writes[i].list = l /\ writes[i].val = cache[l]
                  /\ \A j \in DOMAIN writes : i < j => writes[j].list # l
      <4>1. PICK i \in DOMAIN writes :
                  /\ writes[i].list = l /\ writes[i].val = cache[l]
                  /\ \A j \in DOMAIN writes : i < j => writes[j].list # l
        BY <3>3
      <4>2. i \in DOMAIN writes' /\ writes'[i].list = l /\ writes'[i].val = cache'[l]
        BY <1>4, <3>1, <4>1
      <4>3. \A j \in DOMAIN writes' : i < j => writes'[j].list # l
        BY <1>4, <2>2, <4>1
      <4> QED BY <4>2, <4>3 DEF LastWrite
    <3> QED BY <3>2, <3>3 DEF LastWrite
  <2> QED BY <2>1, <2>2
<1> QED BY <1>4, <1>5, <1>6, <1>7

(* The save of a page that has grown from the map continues the chain, and *)
(* brings the map up to date as far as the lists can be encoded.           *)
LEMMA SaveGrows ==
  ASSUME TypeOK, NEW b \in Books, SaveData(b), UNCHANGED disk,
         \A l \in Lists : Growing(l) /\ Begins(cache[l], b[l])
  PROVE  /\ \A l \in Lists : Growing(l)' /\ Begins(cache'[l], b[l])
         /\ Encodable(b["earning"]) =>
               /\ cache'["earning"] = b["earning"]
               /\ Encodable(b["expense"]) => cache'["expense"] = b["expense"]
<1> DEFINE S == Sent(b)
<1>1. writes' = writes \o S /\ cache' = Mapped(cache, b)
  BY DEF SaveData
<1>2. writes \in Seq(Write)
  BY DEF TypeOK, Write
<1>3. /\ S \in Seq(Write)
      /\ \A i \in DOMAIN S : S[i].val = b[S[i].list]
      /\ \A i, j \in DOMAIN S : S[i].list = S[j].list => i = j
      /\ Encodable(b["earning"]) =>
               /\ \E i \in DOMAIN S : S[i].list = "earning"
               /\ Encodable(b["expense"]) => \E i \in DOMAIN S : S[i].list = "expense"
  BY SentFacts, Zenon
<1>4. /\ writes' \in Seq(Write)
      /\ \A i \in DOMAIN writes' :
            \/ i \in DOMAIN writes /\ writes'[i] = writes[i]
            \/ \E k \in DOMAIN S : i = Len(writes) + k /\ writes'[i] = S[k]
  <2> HIDE DEF S
  <2>1. S \in Seq(Write) BY <1>3
  <2> QED BY <1>1, <1>2, <2>1, ConcatFacts
<1>5. /\ cache' \in Books
      /\ \A i \in DOMAIN S : cache'[S[i].list] = b[S[i].list]
      /\ \A l \in Lists : (\A i \in DOMAIN S : S[i].list # l) => cache'[l] = cache[l]
  BY <1>1, MappedFacts, Zenon
<1> HIDE DEF S
<1>6. ASSUME NEW l \in Lists PROVE Growing(l)' /\ Begins(cache'[l], b[l])
  <2>1. /\ cache[l] \in Seq(Entry) /\ cache'[l] \in Seq(Entry)
        /\ b[l] \in Seq(Entry) /\ disk[l] \in Seq(Entry)
    BY <1>5 DEF TypeOK, Books
  <2>2. cache'[l] = b[l] \/ cache'[l] = cache[l]
    BY <1>5
  <2>3. Begins(cache[l], cache'[l]) /\ Begins(cache'[l], b[l])
    BY <2>1, <2>2, BeginsOrder
  <2>4. Begins(disk[l], cache[l])
    BY DEF Growing
  <2>5. Begins(disk[l], cache'[l])
    BY <2>1, <2>3, <2>4, BeginsOrder
  <2>6. ASSUME NEW i \in DOMAIN writes', writes'[i].list = l
        PROVE  /\ Begins(disk[l], writes'[i].val) /\ Begins(writes'[i].val, cache'[l])
               /\ \A j \in DOMAIN writes' : i < j /\ writes'[j].list = l =>
                     Begins(writes'[i].val, writes'[j].val)
    <3>1. \A k \in DOMAIN S : S[k].list = l => S[k].val = cache'[l]
      BY <1>3, <1>5
    <3>2. CASE i \in DOMAIN writes /\ writes'[i] = writes[i]
      <4>1. writes[i].val \in Seq(Entry)
        <5>1. writes[i] \in Write BY <1>2, <3>2
        <5> QED BY <5>1 DEF Write
      <4>2. Begins(disk[l], writes[i].val) /\ Begins(writes[i].val, cache[l])
        BY <2>6, <3>2 DEF Growing
      <4>3. Begins(writes[i].val, cache'[l])
        BY <2>1, <2>3, <4>1, <4>2, BeginsOrder
      <4>4. ASSUME NEW j \in DOMAIN writes', i < j, writes'[j].list = l
            PROVE  Begins(writes[i].val, writes'[j].val)
        <5>1. CASE j \in DOMAIN writes /\ writes'[j] = writes[j]
          BY <2>6, <3>2, <4>4, <5>1 DEF Growing
        <5>2. CASE \E k \in DOMAIN S : j = Len(writes) + k /\ writes'[j] = S[k]
          BY <3>1, <4>3, <4>4, <5>2
        <5> QED BY <1>4, <5>1, <5>2
      <4> QED BY <3>2, <4>2, <4>3, <4>4
    <3>3. ASSUME NEW k \in DOMAIN S, i = Len(writes) + k, writes'[i] = S[k]
          PROVE  /\ writes'[i].val = cache'[l]
                 /\ \A j \in DOMAIN writes' : i < j => writes'[j].list # l
      <4>1. S[k].list = l /\ S[k].val = cache'[l]
        BY <2>6, <3>1, <3>3
      <4>2. ASSUME NEW j \in DOMAIN writes', i < j, writes'[j].list = l PROVE FALSE
        <5>1. CASE j \in DOMAIN writes
          BY <1>2, <1>3, <3>3, <4>2, <5>1
        <5>2. ASSUME NEW m \in DOMAIN S, j = Len(writes) + m, writes'[j] = S[m] PROVE FALSE
          <6>1. m = k
            BY <1>3, <4>1, <4>2, <5>2
          <6> QED BY <1>2, <1>3, <3>3, <4>2, <5>2, <6>1
        <5> QED BY <1>4, <5>1, <5>2
      <4> QED BY <3>3, <4>1, <4>2
    <3>4. Begins(cache'[l], cache'[l])
      BY <2>1, BeginsOrder
    <3> QED BY <1>4, <2>5, <3>2, <3>3, <3>4
  <2> QED BY <2>3, <2>5, <2>6 DEF Growing
<1>7. Encodable(b["earning"]) =>
         /\ cache'["earning"] = b["earning"]
         /\ Encodable(b["expense"]) => cache'["expense"] = b["expense"]
  BY <1>3, <1>5, Zenon
<1> QED BY <1>6, <1>7

-----------------------------------------------------------------------------
(* The queue without its front. *)
LEMMA TailFacts ==
  ASSUME NEW q \in Seq(Write), q # <<>>
  PROVE  /\ Tail(q) \in Seq(Write)
         /\ 1 \in DOMAIN q /\ Head(q) = q[1] /\ Head(q) \in Write
         /\ \A i \in DOMAIN Tail(q) : i \in Nat /\ i + 1 \in DOMAIN q /\ Tail(q)[i] = q[i + 1]
         /\ \A i \in DOMAIN q : i # 1 => i - 1 \in DOMAIN Tail(q) /\ Tail(q)[i - 1] = q[i]
         /\ \A i \in DOMAIN q : i \in Nat /\ 1 <= i
  OBVIOUS

(* The oldest write reaches the file: the rest of the queue still leads up *)
(* to the map and, in a chain without early entries, the list in the file  *)
(* has grown.                                                              *)
LEMMA WriteDoneKeeps ==
  ASSUME MoneyInv, WriteDone
  PROVE  /\ disk' \in Books /\ writes' \in Seq(Write)
         /\ \A l \in Lists : Encodable(disk'[l])
         /\ WritesEncodable'
         /\ \A l \in Lists : LastWrite(l)'
         /\ ~early => \A l \in Lists : Growing(l)' /\ Begins(disk[l], disk'[l])
<1> DEFINE h == Head(writes)
<1>1. /\ writes # <<>> /\ writes' = Tail(writes) /\ cache' = cache
      /\ disk' = [disk EXCEPT ![h.list] = h.val]
  BY DEF WriteDone
<1>2. writes \in Seq(Write) /\ disk \in Books /\ cache \in Books
  BY DEF MoneyInv, TypeOK, Write
<1>3. /\ writes' \in Seq(Write)
      /\ 1 \in DOMAIN writes /\ h = writes[1] /\ h \in Write
      /\ \A i \in DOMAIN writes' : i \in Nat /\ i + 1 \in DOMAIN writes /\ writes'[i] = writes[i + 1]
      /\ \A i \in DOMAIN writes : i # 1 => i - 1 \in DOMAIN writes' /\ writes'[i - 1] = writes[i]
      /\ \A i \in DOMAIN writes : i \in Nat /\ 1 <= i
  BY <1>1, <1>2, TailFacts
<1>4. h.list \in Lists /\ h.val \in Seq(Entry)
  BY <1>3 DEF Write
<1> HIDE DEF h
<1>5. /\ disk' \in Books
      /\ disk'[h.list] = h.val
      /\ \A l \in Lists : l # h.list => disk'[l] = disk[l]
  BY <1>1, <1>2, <1>4 DEF Books
<1>6. Encodable(h.val)
  BY <1>3 DEF MoneyInv, WritesEncodable
<1>7. \A l \in Lists : Encodable(disk'[l])
  BY <1>5, <1>6 DEF MoneyInv, TypeOK
<1>8. WritesEncodable'
  <2> SUFFICES ASSUME NEW i \in DOMAIN writes' PROVE Encodable(writes'[i].val)
    BY DEF WritesEncodable, Encodable
  <2> QED BY <1>3 DEF MoneyInv, WritesEncodable
<1>9. ASSUME NEW l \in Lists PROVE LastWrite(l)'
  <2>1. CASE disk[l] = cache[l] /\ \A i \in DOMAIN writes : writes[i].list # l
    <3>1. disk'[l] = cache'[l]
      BY <1>1, <1>3, <1>5, <2>1
    <3>2. \A i \in DOMAIN writes' : writes'[i].list # l
      BY <1>3, <2>1
    <3> QED BY <3>1, <3>2 DEF LastWrite
  <2>2. ASSUME NEW i \in DOMAIN writes, writes[i].list = l, writes[i].val = cache[l],
               \A j \in DOMAIN writes : i < j => writes[j].list # l
        PROVE  LastWrite(l)'
    <3>1. CASE i = 1
      <4>1. disk'[l] = cache'[l]
        BY <1>1, <1>3, <1>5, <2>2, <3>1
      <4>2. ASSUME NEW j \in DOMAIN writes' PROVE writes'[j].list # l
        <5>1. j + 1 \in DOMAIN writes /\ i < j + 1 /\ writes'[j] = writes[j + 1]
          <6>1. j \in Nat /\ j + 1 \in DOMAIN writes /\ writes'[j] = writes[j + 1]
            BY <1>3
          <6>2. 1 <= j
            BY <1>3
          <6> QED BY <3>1, <6>1, <6>2
        <5> QED BY <2>2, <5>1
      <4> QED BY <4>1, <4>2 DEF LastWrite
    <3>2. CASE i # 1
      <4>1. i - 1 \in DOMAIN writes' /\ writes'[i - 1] = writes[i]
        BY <1>3, <3>2
      <4>2. ASSUME NEW j \in DOMAIN writes', i - 1 < j PROVE writes'[j].list # l
        <5>1. j + 1 \in DOMAIN writes /\ i < j + 1 /\ writes'[j] = writes[j + 1]
          BY <1>3, <4>2
        <5> QED BY <2>2, <5>1
      <4> QED BY <1>1, <2>2, <4>1, <4>2 DEF LastWrite
    <3> QED BY <3>1, <3>2
  <2> QED BY <2>1, <2>2 DEF MoneyInv, LastWrite
<1>10. ASSUME ~early, NEW l \in Lists PROVE Growing(l)' /\ Begins(disk[l], disk'[l])
  <2>1. Growing(l) /\ disk[l] \in Seq(Entry)
    BY <1>2, <1>10 DEF MoneyInv, Books
  <2>2. ASSUME NEW i \in DOMAIN writes', NEW j \in DOMAIN writes', i < j,
               writes'[i].list = l, writes'[j].list = l
        PROVE  Begins(writes'[i].val, writes'[j].val)
    <3>1. /\ i + 1 \in DOMAIN writes /\ j + 1 \in DOMAIN writes /\ i + 1 < j + 1
          /\ writes'[i] = writes[i + 1] /\ writes'[j] = writes[j + 1]
      BY <1>3, <2>2
    <3> QED BY <2>1, <2>2, <3>1 DEF Growing
  <2>3. ASSUME NEW i \in DOMAIN writes', writes'[i].list = l
        PROVE  Begins(disk'[l], writes'[i].val) /\ Begins(writes'[i].val, cache'[l])
    <3>1. i + 1 \in DOMAIN writes /\ 1 < i + 1 /\ writes'[i] = writes[i + 1]
      <4>1. i \in Nat /\ i + 1 \in DOMAIN writes /\ writes'[i] = writes[i + 1] /\ 1 <= i
        BY <1>3
      <4> QED BY <4>1
    <3>2. Begins(disk[l], writes'[i].val) /\ Begins(writes'[i].val, cache'[l])
      BY <1>1, <2>1, <2>3, <3>1 DEF Growing
    <3>3. h.list = l => Begins(h.val, writes'[i].val)
      BY <1>3, <2>1, <2>3, <3>1 DEF Growing
    <3> QED BY <1>5, <3>2, <3>3
  <2>4. Begins(disk'[l], cache'[l]) /\ Begins(disk[l], disk'[l])
    <3>1. CASE h.list = l
      BY <1>1, <1>3, <1>5, <2>1, <3>1 DEF Growing
    <3>2. CASE h.list # l
      <4>1. Begins(disk[l], disk[l])
        BY <2>1 DEF Begins
      <4> QED BY <1>1, <1>5, <2>1, <3>2, <4>1 DEF Growing
    <3> QED BY <3>1, <3>2
  <2> QED BY <2>2, <2>3, <2>4 DEF Growing
<1> QED BY <1>3, <1>5, <1>7, <1>8, <1>9, <1>10

(* A step that leaves the map, the file and the writes alone. *)
LEMMA StoreUnchanged ==
  ASSUME MoneyInv, UNCHANGED <<cache, disk, writes>>
  PROVE  /\ WritesEncodable' /\ \A l \in Lists : LastWrite(l)'
         /\ ~early => \A l \in Lists : Growing(l)'
<1>1. WritesEncodable'
  BY DEF MoneyInv, WritesEncodable
<1>2. \A l \in Lists : LastWrite(l)'
  BY DEF MoneyInv, LastWrite
<1>3. ~early => \A l \in Lists : Growing(l)'
  BY DEF MoneyInv, Growing
<1> QED BY <1>1, <1>2, <1>3

(* The page that shows exactly what the map has. *)
LEMMA LoadedPage ==
  ASSUME cache' \in Books, mounted' /\ loaded' => book' = cache'
  PROVE  MapCurrent' /\ \A l \in Lists : PageGrown(l)'
<1>1. \A l \in Lists : Begins(cache'[l], cache'[l])
  BY DEF Books, Begins
<1> QED BY <1>1 DEF MapCurrent, PageGrown

(* Opening the page. *)
LEMMA OpenKeeps == ASSUME MoneyInv, Open PROVE MoneyInv'
<1>1. Empty \in Books
  BY DEF Empty, Books
<1>2. TypeOK'
  BY <1>1, Zenon DEF Open, MoneyInv, TypeOK
<1>3. LoadFirst'
  BY DEF Open, MoneyInv, LoadFirst
<1>4. mounted' /\ loaded' => book' = cache'
  BY DEF Open
<1>5. cache' \in Books
  BY <1>2 DEF TypeOK
<1>6. MapCurrent' /\ \A l \in Lists : PageGrown(l)'
  BY <1>4, <1>5, LoadedPage
<1>7. /\ WritesEncodable' /\ \A l \in Lists : LastWrite(l)'
      /\ ~early' => \A l \in Lists : Growing(l)'
  BY StoreUnchanged DEF Open
<1> QED BY <1>2, <1>3, <1>6, <1>7 DEF MoneyInv

(* getInstance answers: only early entries have saves that waited. *)
LEMMA ReadyKeeps == ASSUME MoneyInv, InstanceReady PROVE MoneyInv'
<1>1. /\ ready' = TRUE /\ loaded' = TRUE /\ waiting' = 0
      /\ UNCHANGED <<mounted, disk, added, early, kills>>
  BY DEF InstanceReady
<1>2. LoadFirst'
  BY <1>1 DEF LoadFirst
<1>3. /\ cache \in Books /\ book \in Books /\ disk \in Books /\ early \in BOOLEAN
      /\ \A l \in Lists : Encodable(cache[l]) /\ Encodable(disk[l])
  BY DEF MoneyInv, TypeOK
<1>4. \A c \in Books : AfterLoad(c) \subseteq Books /\ (mounted => AfterLoad(c) = {c})
  BY <1>3 DEF AfterLoad
<1>5. ASSUME book' \in Books, cache' \in Books, writes' \in Seq(Write),
             \A l \in Lists : Encodable(cache'[l])
      PROVE  TypeOK'
  <2>1. waiting' \in Nat
    BY <1>1
  <2> QED BY <1>1, <1>3, <1>5, <2>1, Zenon DEF MoneyInv, TypeOK, Write
<1>6. CASE waiting = 0 /\ book' \in AfterLoad(cache) /\ UNCHANGED <<cache, writes>>
  <2>1. TypeOK'
    BY <1>3, <1>4, <1>5, <1>6 DEF MoneyInv, TypeOK, Write
  <2>2. mounted' /\ loaded' => book' = cache'
    BY <1>1, <1>3, <1>4, <1>6
  <2>3. MapCurrent' /\ \A l \in Lists : PageGrown(l)'
    BY <1>3, <1>6, <2>2, LoadedPage
  <2>4. /\ WritesEncodable' /\ \A l \in Lists : LastWrite(l)'
        /\ ~early => \A l \in Lists : Growing(l)'
    BY <1>1, <1>6, StoreUnchanged
  <2> QED BY <1>1, <1>2, <2>1, <2>3, <2>4 DEF MoneyInv
<1>7. CASE waiting > 0
  <2>1. early'
    BY <1>1, <1>7 DEF MoneyInv, LoadFirst
  <2>2. CASE book' \in AfterLoad(cache) /\ SaveData(book')
    <3>1. book' \in Books
      BY <1>3, <1>4, <2>2
    <3>2. /\ cache' \in Books /\ writes' \in Seq(Write)
          /\ \A l \in Lists : Encodable(cache'[l])
          /\ WritesEncodable' /\ \A l \in Lists : LastWrite(l)'
      BY <1>1, <2>2, <3>1, SaveKeeps DEF MoneyInv
    <3> QED BY <1>2, <1>5, <2>1, <3>1, <3>2 DEF MoneyInv
  <2>3. CASE SaveData(book) /\ book' \in AfterLoad(cache')
    <3>1. /\ cache' \in Books /\ writes' \in Seq(Write)
          /\ \A l \in Lists : Encodable(cache'[l])
          /\ WritesEncodable' /\ \A l \in Lists : LastWrite(l)'
      BY <1>1, <1>3, <2>3, SaveKeeps DEF MoneyInv
    <3>2. book' \in Books
      BY <1>4, <2>3, <3>1
    <3> QED BY <1>2, <1>5, <2>1, <3>1, <3>2 DEF MoneyInv
  <2>4. waiting # 0
    BY <1>7
  <2> QED BY <2>2, <2>3, <2>4 DEF InstanceReady
<1>8. waiting = 0 \/ waiting > 0
  BY DEF MoneyInv, TypeOK
<1> QED BY <1>6, <1>7, <1>8 DEF InstanceReady

(* An entry: one added to loaded lists is saved at once, as far as its     *)
(* lists can be encoded, and continues the chain.                          *)
LEMMA AddKeeps ==
  ASSUME MoneyInv, NEW l \in Lists, NEW f \in BOOLEAN, AddEntry(l, f)
  PROVE  MoneyInv'
<1> DEFINE e == [no |-> added + 1, finite |-> f]
<1>1. /\ mounted /\ added' = added + 1
      /\ book' = [book EXCEPT ![l] = Append(book[l], e)]
      /\ early' = (early \/ ~loaded)
      /\ UNCHANGED <<ready, mounted, loaded, disk, kills>>
      /\ ready => SaveData(book') /\ UNCHANGED waiting
      /\ ~ready => waiting' = waiting + 1 /\ UNCHANGED <<cache, writes>>
  BY DEF AddEntry
<1>2. /\ book \in Books /\ cache \in Books /\ disk \in Books /\ added \in Nat /\ waiting \in Nat
      /\ writes \in Seq(Write)
      /\ \A k \in Lists : Encodable(cache[k]) /\ Encodable(disk[k])
  BY DEF MoneyInv, TypeOK, Write
<1>3. e \in Entry
  BY <1>2 DEF Entry
<1> HIDE DEF e
<1>4. /\ book' \in Books /\ book'[l] = Append(book[l], e)
      /\ \A k \in Lists : k # l => book'[k] = book[k]
  BY <1>1, <1>2, <1>3 DEF Books
<1>5. early' \in BOOLEAN
  BY <1>1, Zenon
<1>6. ASSUME cache' \in Books, writes' \in Seq(Write), \A k \in Lists : Encodable(cache'[k])
      PROVE  TypeOK'
  <2>1. waiting' \in Nat /\ added' \in Nat
    BY <1>1, <1>2
  <2>2. disk' \in Books /\ \A k \in Lists : Encodable(disk'[k])
    BY <1>1, <1>2
  <2>3. ready' \in BOOLEAN /\ mounted' \in BOOLEAN /\ loaded' \in BOOLEAN /\ kills' \in Nat
    BY <1>1 DEF MoneyInv, TypeOK
  <2> QED BY <1>4, <1>5, <1>6, <2>1, <2>2, <2>3, Zenon DEF TypeOK, Write
<1>7. LoadFirst'
  <2>1. (loaded' => ready') /\ (mounted' /\ ready' => loaded')
    BY <1>1 DEF MoneyInv, LoadFirst
  <2>2. ~early' => waiting' = 0
    BY <1>1 DEF MoneyInv, LoadFirst
  <2> QED BY <2>1, <2>2 DEF LoadFirst
<1>8. CASE ~ready
  <2>1. early'
    BY <1>1, <1>8 DEF MoneyInv, LoadFirst
  <2>2. TypeOK'
    BY <1>1, <1>2, <1>6, <1>8
  <2>3. WritesEncodable' /\ \A k \in Lists : LastWrite(k)'
    BY <1>1, <1>8, StoreUnchanged
  <2> QED BY <1>7, <2>1, <2>2, <2>3 DEF MoneyInv
<1>9. CASE ready
  <2>1. SaveData(book') /\ disk' = disk
    BY <1>1, <1>9
  <2>2. /\ cache' \in Books /\ writes' \in Seq(Write)
        /\ \A k \in Lists : Encodable(cache'[k])
        /\ WritesEncodable' /\ \A k \in Lists : LastWrite(k)'
    BY <1>4, <2>1, SaveKeeps DEF MoneyInv
  <2>3. TypeOK'
    BY <1>6, <2>2
  <2>4. ASSUME ~early' PROVE MapCurrent' /\ \A k \in Lists : Growing(k)' /\ PageGrown(k)'
    <3>1. ~early /\ loaded
      BY <1>1, <2>4
    <3>2. \A k \in Lists : Growing(k) /\ Begins(cache[k], book[k])
      BY <1>1, <3>1 DEF MoneyInv, PageGrown
    <3>3. ASSUME NEW k \in Lists PROVE Begins(cache[k], book'[k])
      <4>1. cache[k] \in Seq(Entry) /\ book[k] \in Seq(Entry)
        BY <1>2 DEF Books
      <4>2. Begins(cache[k], Append(book[k], e))
        BY <1>3, <3>2, <4>1, BeginsOrder
      <4> QED BY <1>4, <3>2, <4>2
    <3>4. \A k \in Lists : Growing(k) /\ Begins(cache[k], book'[k])
      BY <3>2, <3>3
    <3>5. /\ \A k \in Lists : Growing(k)' /\ Begins(cache'[k], book'[k])
          /\ Encodable(book'["earning"]) =>
                /\ cache'["earning"] = book'["earning"]
                /\ Encodable(book'["expense"]) => cache'["expense"] = book'["expense"]
      BY <1>4, <2>1, <3>4, SaveGrows DEF MoneyInv
    <3> QED BY <3>5 DEF MapCurrent, PageGrown, Encodable
  <2> QED BY <1>7, <2>2, <2>3, <2>4 DEF MoneyInv
<1> QED BY <1>8, <1>9

(* The end of the process: the next map is the file. *)
LEMMA KillKeeps == ASSUME MoneyInv, Kill PROVE MoneyInv'
<1>1. /\ ready' = FALSE /\ mounted' = FALSE /\ loaded' = FALSE /\ book' = Empty /\ waiting' = 0
      /\ cache' = disk /\ writes' = <<>> /\ kills' = kills + 1
      /\ UNCHANGED <<disk, added, early>>
  BY DEF Kill
<1>2. /\ disk \in Books /\ added \in Nat /\ kills \in Nat /\ early \in BOOLEAN
      /\ \A l \in Lists : Encodable(disk[l])
  BY DEF MoneyInv, TypeOK
<1>3. writes' \in Seq(Write) /\ DOMAIN writes' = {} /\ waiting' \in Nat /\ kills' \in Nat
  BY <1>1, <1>2
<1>4. book' \in Books
  BY <1>1 DEF Empty, Books
<1>5. TypeOK'
  BY <1>1, <1>2, <1>3, <1>4, Zenon DEF TypeOK, Write
<1>6. WritesEncodable' /\ LoadFirst' /\ \A l \in Lists : LastWrite(l)'
  BY <1>1, <1>3, Zenon DEF WritesEncodable, LoadFirst, LastWrite
<1>7. \A l \in Lists : Begins(disk[l], disk[l])
  BY <1>2 DEF Books, Begins
<1>8. MapCurrent' /\ \A l \in Lists : Growing(l)' /\ PageGrown(l)'
  BY <1>1, <1>3, <1>7, Zenon DEF MapCurrent, Growing, PageGrown
<1> QED BY <1>5, <1>6, <1>8 DEF MoneyInv

(* Every step keeps the invariant. *)
LEMMA MoneyStep == MoneyInv /\ [Next]_vars => MoneyInv'
<1> SUFFICES ASSUME MoneyInv, [Next]_vars PROVE MoneyInv'
  OBVIOUS
<1>1. CASE Open
  BY <1>1, OpenKeeps
<1>2. CASE InstanceReady
  BY <1>2, ReadyKeeps
<1>3. CASE Dispose
  <2>1. /\ mounted' = FALSE
        /\ UNCHANGED <<ready, loaded, book, waiting, cache, disk, writes, added, early, kills>>
    BY <1>3 DEF Dispose
  <2>2. TypeOK'
    BY <2>1 DEF MoneyInv, TypeOK
  <2>3. LoadFirst' /\ MapCurrent' /\ \A l \in Lists : PageGrown(l)'
    BY <2>1 DEF MoneyInv, LoadFirst, MapCurrent, PageGrown
  <2>4. /\ WritesEncodable' /\ \A l \in Lists : LastWrite(l)'
        /\ ~early => \A l \in Lists : Growing(l)'
    BY <2>1, StoreUnchanged
  <2> QED BY <2>1, <2>2, <2>3, <2>4 DEF MoneyInv
<1>4. CASE WriteDone
  <2>1. UNCHANGED <<ready, mounted, loaded, book, waiting, cache, added, early, kills>>
    BY <1>4 DEF WriteDone
  <2>2. /\ disk' \in Books /\ writes' \in Seq(Write)
        /\ \A l \in Lists : Encodable(disk'[l])
        /\ WritesEncodable' /\ \A l \in Lists : LastWrite(l)'
        /\ ~early => \A l \in Lists : Growing(l)'
    BY <1>4, WriteDoneKeeps
  <2>3. TypeOK'
    BY <2>1, <2>2 DEF MoneyInv, TypeOK, Write
  <2>4. LoadFirst' /\ (~early => MapCurrent' /\ \A l \in Lists : PageGrown(l)')
    BY <2>1 DEF MoneyInv, LoadFirst, MapCurrent, PageGrown
  <2> QED BY <2>1, <2>2, <2>3, <2>4 DEF MoneyInv
<1>5. CASE Kill
  BY <1>5, KillKeeps
<1>6. ASSUME NEW l \in Lists, NEW f \in BOOLEAN, AddEntry(l, f) PROVE MoneyInv'
  BY <1>6, AddKeeps
<1>7. CASE UNCHANGED vars
  <2>1. TypeOK' /\ LoadFirst'
    BY <1>7 DEF vars, MoneyInv, TypeOK, LoadFirst
  <2>2. ~early => MapCurrent' /\ \A l \in Lists : PageGrown(l)'
    BY <1>7 DEF vars, MoneyInv, MapCurrent, PageGrown
  <2>3. /\ WritesEncodable' /\ \A l \in Lists : LastWrite(l)'
        /\ ~early => \A l \in Lists : Growing(l)'
    BY <1>7, StoreUnchanged DEF vars
  <2>4. early' = early
    BY <1>7 DEF vars
  <2> QED BY <2>1, <2>2, <2>3, <2>4 DEF MoneyInv
<1> QED BY <1>1, <1>2, <1>3, <1>4, <1>5, <1>6, <1>7 DEF Next

(* The invariant holds from the first start of the app on. *)
LEMMA MoneyInvariant == Spec => []MoneyInv
<1>1. Init => MoneyInv
  <2> SUFFICES ASSUME Init PROVE MoneyInv
    OBVIOUS
  <2>1. /\ book = Empty /\ cache = Empty /\ disk = Empty
        /\ ~ready /\ ~mounted /\ ~loaded /\ waiting = 0
    BY DEF Init
  <2>2. writes = <<>> /\ writes \in Seq(Write) /\ DOMAIN writes = {}
    BY DEF Init
  <2>3. Empty \in Books /\ \A l \in Lists : Empty[l] = <<>>
    BY DEF Empty, Books
  <2>4. Encodable(<<>>) /\ Begins(<<>>, <<>>)
    BY DEF Encodable, Begins
  <2>5. TypeOK
    <3>1. waiting \in Nat /\ added \in Nat /\ kills \in Nat
      BY DEF Init
    <3> QED BY <2>1, <2>2, <2>3, <2>4, <3>1, Zenon DEF Init, TypeOK, Write
  <2>6. WritesEncodable /\ LoadFirst /\ \A l \in Lists : LastWrite(l)
    BY <2>1, <2>2, Zenon DEF WritesEncodable, LoadFirst, LastWrite
  <2>7. MapCurrent /\ \A l \in Lists : Growing(l) /\ PageGrown(l)
    BY <2>1, <2>2, <2>3, <2>4, Zenon DEF MapCurrent, Growing, PageGrown
  <2> QED BY <2>5, <2>6, <2>7 DEF MoneyInv
<1> QED BY <1>1, MoneyStep, PTL DEF Spec

-----------------------------------------------------------------------------
(* Type correctness: what reaches the map or the file can be decoded.      *)
THEOREM MoneyTypes == Spec => []TypeOK
<1>1. MoneyInv => TypeOK BY DEF MoneyInv
<1> QED BY <1>1, MoneyInvariant, PTL

(* For any number of entries, writes in flight, visits and kills: no step  *)
(* shortens or changes a list in the file, as long as no entry was added   *)
(* before the lists were loaded.                                           *)
THEOREM NothingLost == Spec => StoredNeverLost
<1>1. MoneyInv /\ [Next]_vars =>
         [~early' => \A l \in Lists : IsPrefix(disk[l], disk'[l])]_vars
  <2> SUFFICES ASSUME MoneyInv, Next, ~early', NEW l \in Lists
               PROVE  IsPrefix(disk[l], disk'[l])
    BY DEF vars
  <2>1. disk[l] \in Seq(Entry) /\ disk'[l] \in Seq(Entry)
    <3>1. disk' \in Books
      BY MoneyStep DEF MoneyInv, TypeOK
    <3> QED BY <3>1 DEF MoneyInv, TypeOK, Books
  <2>2. CASE WriteDone
    <3>1. ~early
      BY <2>2 DEF WriteDone
    <3>2. Begins(disk[l], disk'[l])
      BY <2>2, <3>1, WriteDoneKeeps
    <3> QED BY <2>1, <3>2, PrefixBegins
  <2>3. CASE disk' = disk
    <3>1. Begins(disk[l], disk'[l])
      BY <2>1, <2>3 DEF Begins
    <3> QED BY <2>1, <3>1, PrefixBegins
  <2> QED BY <2>2, <2>3 DEF Next, Open, InstanceReady, Dispose, Kill, AddEntry
<1> QED BY <1>1, MoneyInvariant, PTL DEF Spec, StoredNeverLost

(* Every entry a loaded page shows is in the file or in a write on its     *)
(* way there, list by list, as long as the list (for expenses: and the     *)
(* earnings) can be encoded.                                               *)
THEOREM ShownSaved == Spec => []ShownIsSaved
<1>1. ASSUME MoneyInv, NEW l \in Lists PROVE Settled(l) = cache[l]
  <2> DEFINE mine == {i \in DOMAIN writes : writes[i].list = l}
  <2>1. writes \in Seq(Write)
    BY <1>1 DEF MoneyInv, TypeOK, Write
  <2>2. CASE disk[l] = cache[l] /\ \A i \in DOMAIN writes : writes[i].list # l
    <3>1. mine = {} BY <2>2
    <3> QED BY <2>2, <3>1 DEF Settled
  <2>3. ASSUME NEW i \in DOMAIN writes, writes[i].list = l, writes[i].val = cache[l],
               \A j \in DOMAIN writes : i < j => writes[j].list # l
        PROVE  Settled(l) = cache[l]
    <3>1. i \in mine /\ mine # {}
      BY <2>3
    <3>2. \A j \in mine : j <= i
      BY <2>1, <2>3
    <3>3. \A k \in mine : (\A j \in mine : j <= k) => k = i
      BY <2>1, <3>1, <3>2
    <3> HIDE DEF mine
    <3>4. (CHOOSE k \in mine : \A j \in mine : j <= k) = i
      BY <3>1, <3>2, <3>3
    <3>5. Settled(l) = IF mine = {} THEN disk[l]
                       ELSE writes[CHOOSE k \in mine : \A j \in mine : j <= k].val
      BY Zenon DEF Settled, mine
    <3> QED BY <2>3, <3>1, <3>4, <3>5
  <2> QED BY <1>1, <2>2, <2>3 DEF MoneyInv, LastWrite
<1>2. MoneyInv => ShownIsSaved
  <2>1. "earning" \in Lists /\ "expense" \in Lists
    BY DEF Lists
  <2> QED BY <1>1, <2>1 DEF MoneyInv, MapCurrent, ShownIsSaved
<1> QED BY <1>2, MoneyInvariant, PTL

-----------------------------------------------------------------------------
(* The water tracker. *)

(* The inductive form of FlagMeansBar: bars of the open page are counted   *)
(* by comparing positions, and a closed page has none, so that a new State *)
(* may start with the flag cleared.                                        *)
OneOwnBar ==
    /\ \A i, j \in DOMAIN bars : bars[i] /\ bars[j] => i = j
    /\ waterOpen => (visible <=> \E i \in DOMAIN bars : bars[i])
    /\ ~waterOpen => \A i \in DOMAIN bars : ~bars[i]

WaterInv == WaterTypeOK /\ OneOwnBar

(* A bar at the end of the queue. *)
LEMMA AppendBar ==
  ASSUME NEW q \in Seq(BOOLEAN), NEW b \in BOOLEAN
  PROVE  /\ Append(q, b) \in Seq(BOOLEAN)
         /\ DOMAIN Append(q, b) = DOMAIN q \cup {Len(q) + 1}
         /\ Len(q) + 1 \notin DOMAIN q
         /\ \A i \in DOMAIN q : Append(q, b)[i] = q[i]
         /\ Append(q, b)[Len(q) + 1] = b
  OBVIOUS

(* The queue without its front. *)
LEMMA TailBar ==
  ASSUME NEW q \in Seq(BOOLEAN), q # <<>>
  PROVE  /\ Tail(q) \in Seq(BOOLEAN)
         /\ 1 \in DOMAIN q /\ Head(q) = q[1] /\ Head(q) \in BOOLEAN
         /\ \A i \in DOMAIN Tail(q) : i \in Nat /\ i + 1 \in DOMAIN q /\ Tail(q)[i] = q[i + 1]
         /\ \A i \in DOMAIN q : i # 1 => i - 1 \in DOMAIN Tail(q) /\ Tail(q)[i - 1] = q[i]
  OBVIOUS

(* A bar shown by the page while the flag is cleared is its only one; a    *)
(* page whose flag is set adds none.                                       *)
LEMMA AnnounceKeeps ==
  ASSUME WaterInv, waterOpen, UNCHANGED waterOpen, Announce
  PROVE  bars' \in Seq(BOOLEAN) /\ visible' \in BOOLEAN /\ OneOwnBar'
<1>1. CASE visible
  BY <1>1 DEF Announce, WaterInv, WaterTypeOK, OneOwnBar
<1>2. CASE ~visible
  <2>1. visible' = TRUE /\ bars' = Append(bars, TRUE)
    BY <1>2 DEF Announce
  <2>2. \A i \in DOMAIN bars : ~bars[i]
    BY <1>2 DEF WaterInv, OneOwnBar
  <2>3. bars \in Seq(BOOLEAN)
    BY DEF WaterInv, WaterTypeOK
  <2>4. bars' \in Seq(BOOLEAN)
    BY <2>1, <2>3, AppendBar
  <2>5. \A i \in DOMAIN bars' : bars'[i] <=> i = Len(bars) + 1
    BY <2>1, <2>2, <2>3, AppendBar, Zenon
  <2>6. Len(bars) + 1 \in DOMAIN bars'
    BY <2>1, <2>3, AppendBar, Zenon
  <2> QED BY <2>1, <2>4, <2>5, <2>6 DEF OneOwnBar
<1> QED BY <1>1, <1>2

(* Every step keeps the invariant. *)
LEMMA WaterStep ==
  WaterInv /\ [WaterNext]_waterVars => WaterInv'
<1> SUFFICES ASSUME WaterInv, [WaterNext]_waterVars PROVE WaterInv'
  OBVIOUS
<1> USE WaterAssumption
<1>0. bars \in Seq(BOOLEAN)
  BY DEF WaterInv, WaterTypeOK
<1>1. CASE OpenTracker
  <2>0. water' \in 0 .. Target
    BY <1>1 DEF OpenTracker
  <2>1. WaterTypeOK'
    BY <1>0, <1>1, <2>0, Zenon DEF OpenTracker, WaterTypeOK
  <2>2. bars' = bars /\ waterOpen' /\ ~visible' /\ \A i \in DOMAIN bars : ~bars[i]
    BY <1>1 DEF OpenTracker, WaterInv, OneOwnBar
  <2> QED BY <2>1, <2>2, Zenon DEF WaterInv, OneOwnBar
<1>2. CASE Close
  <2>1. bars' = [i \in 1 .. Len(bars) |-> FALSE]
    BY <1>0, <1>2 DEF Close
  <2>2. bars' \in Seq(BOOLEAN)
    BY <1>0, <2>1
  <2>3. \A i \in DOMAIN bars' : ~bars'[i]
    BY <2>1, Zenon
  <2>4. ~waterOpen' /\ WaterTypeOK'
    BY <1>2, <2>2 DEF Close, WaterInv, WaterTypeOK
  <2> QED BY <2>3, <2>4, Zenon DEF WaterInv, OneOwnBar
<1>3. CASE Tick
  BY <1>3 DEF Tick, WaterInv, WaterTypeOK, OneOwnBar
<1>4. CASE BarCloses
  <2>1. bars # <<>> /\ bars' = Tail(bars) /\ visible' = (visible /\ ~Head(bars))
    BY <1>4 DEF BarCloses
  <2>2. WaterTypeOK'
    <3>1. bars' \in Seq(BOOLEAN)
      BY <1>0, <2>1, TailBar, Zenon
    <3>2. visible' \in BOOLEAN
      BY <2>1, Zenon
    <3> QED BY <1>4, <3>1, <3>2 DEF BarCloses, WaterInv, WaterTypeOK
  <2>3. ASSUME NEW i \in DOMAIN bars', NEW j \in DOMAIN bars', bars'[i], bars'[j]
        PROVE  i = j
    <3>1. i + 1 \in DOMAIN bars /\ j + 1 \in DOMAIN bars /\ bars[i + 1] /\ bars[j + 1]
      BY <1>0, <2>1, <2>3, TailBar, Zenon
    <3>2. i + 1 = j + 1
      BY <3>1, Zenon DEF WaterInv, OneOwnBar
    <3>3. i \in Nat /\ j \in Nat
      BY <1>0, <2>1, TailBar, Zenon
    <3> QED BY <3>2, <3>3
  <2>4. ASSUME waterOpen' PROVE visible' <=> \E i \in DOMAIN bars' : bars'[i]
    <3>1. waterOpen /\ (visible <=> \E i \in DOMAIN bars : bars[i])
      BY <1>4, <2>4 DEF BarCloses, WaterInv, OneOwnBar
    <3>2. CASE Head(bars)
      <4>1. ~visible' BY <2>1, <3>2
      <4>2. \A i \in DOMAIN bars : bars[i] => i = 1
        BY <1>0, <2>1, <3>2, TailBar DEF WaterInv, OneOwnBar
      <4>3. ASSUME NEW i \in DOMAIN bars', bars'[i] PROVE FALSE
        <5>1. i \in DOMAIN Tail(bars) /\ i + 1 \in DOMAIN bars /\ bars[i + 1]
          BY <1>0, <2>1, <4>3, TailBar, Zenon
        <5>2. i + 1 = 1
          BY <4>2, <5>1, Zenon
        <5> QED BY <1>0, <5>1, <5>2
      <4> QED BY <4>1, <4>3
    <3>3. CASE ~Head(bars)
      <4>1. visible' <=> visible BY <2>1, <3>3
      <4>2. ASSUME NEW i \in DOMAIN bars, bars[i] PROVE \E j \in DOMAIN bars' : bars'[j]
        <5>1. i # 1 BY <1>0, <2>1, <3>3, <4>2, TailBar
        <5> QED BY <1>0, <2>1, <4>2, <5>1, TailBar
      <4>3. ASSUME NEW j \in DOMAIN bars', bars'[j] PROVE \E i \in DOMAIN bars : bars[i]
        BY <1>0, <2>1, <4>3, TailBar
      <4> QED BY <3>1, <4>1, <4>2, <4>3
    <3> QED BY <3>2, <3>3
  <2>5. ASSUME ~waterOpen', NEW i \in DOMAIN bars', bars'[i] PROVE FALSE
    <3>1. i + 1 \in DOMAIN bars /\ bars[i + 1]
      BY <1>0, <2>1, <2>5, TailBar, Zenon
    <3>2. ~waterOpen
      BY <1>4, <2>5 DEF BarCloses
    <3> QED BY <3>1, <3>2, Zenon DEF WaterInv, OneOwnBar
  <2> QED BY <2>2, <2>3, <2>4, <2>5 DEF WaterInv, OneOwnBar
<1>5. CASE OtherBar
  <2>1. bars' = Append(bars, FALSE) /\ UNCHANGED <<waterOpen, water, visible>>
    BY <1>5 DEF OtherBar
  <2>2. bars' \in Seq(BOOLEAN)
    BY <1>0, <2>1
  <2>3. \A i \in DOMAIN bars' : bars'[i] => i \in DOMAIN bars /\ bars[i]
    BY <1>0, <2>1, AppendBar, Zenon
  <2>4. \A i \in DOMAIN bars : i \in DOMAIN bars' /\ (bars[i] => bars'[i])
    BY <1>0, <2>1, AppendBar, Zenon
  <2> QED BY <2>1, <2>2, <2>3, <2>4 DEF WaterInv, WaterTypeOK, OneOwnBar
<1>6. ASSUME NEW n \in Adds, WaterAdd(n) PROVE WaterInv'
  <2>1. water' \in 0 .. Target
    BY <1>6 DEF WaterAdd, WaterInv, WaterTypeOK
  <2>2. waterOpen /\ UNCHANGED waterOpen
    BY <1>6 DEF WaterAdd
  <2>3. CASE Announce
    BY <2>1, <2>2, <2>3, AnnounceKeeps DEF WaterInv, WaterTypeOK
  <2>4. CASE UNCHANGED <<visible, bars>>
    BY <2>1, <2>2, <2>4 DEF WaterInv, WaterTypeOK, OneOwnBar
  <2> QED BY <1>6, <2>3, <2>4 DEF WaterAdd
<1>7. ASSUME NEW n \in Removes, WaterRemove(n) PROVE WaterInv'
  <2>1. water' \in 0 .. Target
    BY <1>7 DEF WaterRemove, WaterInv, WaterTypeOK
  <2>2. waterOpen /\ UNCHANGED waterOpen
    BY <1>7 DEF WaterRemove
  <2>3. CASE Announce
    BY <2>1, <2>2, <2>3, AnnounceKeeps DEF WaterInv, WaterTypeOK
  <2>4. CASE UNCHANGED <<visible, bars>>
    BY <2>1, <2>2, <2>4 DEF WaterInv, WaterTypeOK, OneOwnBar
  <2> QED BY <1>7, <2>3, <2>4 DEF WaterRemove
<1>8. CASE UNCHANGED waterVars
  BY <1>8 DEF waterVars, WaterInv, WaterTypeOK, OneOwnBar
<1> QED BY <1>1, <1>2, <1>3, <1>4, <1>5, <1>6, <1>7, <1>8 DEF WaterNext

(* The invariant holds from the start of the app on. *)
LEMMA WaterInvariant ==
  WaterSpec => []WaterInv
<1>1. WaterInit => WaterInv
  <2> SUFFICES ASSUME WaterInit PROVE WaterInv
    OBVIOUS
  <2>1. water \in 0 .. Target /\ bars \in Seq(BOOLEAN) /\ DOMAIN bars = {}
    BY WaterAssumption DEF WaterInit
  <2> QED BY <2>1, Zenon DEF WaterInit, WaterInv, WaterTypeOK, OneOwnBar
<1>2. WaterInv /\ [WaterNext]_waterVars => WaterInv'
  BY WaterStep
<1> QED BY <1>1, <1>2, PTL DEF WaterSpec

(* Type correctness: the tank never leaves 0 .. targetWater, for any       *)
(* target, any amounts on the buttons and any queue of snack bars.         *)
THEOREM WaterTypes ==
  WaterSpec => []WaterTypeOK
<1>1. WaterInv => WaterTypeOK BY DEF WaterInv
<1>2. WaterSpec => []WaterInv
  BY WaterInvariant
<1> QED BY <1>1, <1>2, PTL

(* A set with at most one element has a cardinality of at most 1. *)
LEMMA AtMostOne ==
  ASSUME NEW S, \A i, j \in S : i = j
  PROVE  Cardinality(S) <= 1
<1>1. CASE S = {}
  BY <1>1, FS_EmptySet
<1>2. CASE S # {}
  <2>1. PICK x \in S : TRUE BY <1>2
  <2>2. S = {x} BY <2>1
  <2> QED BY <2>2, FS_Singleton
<1> QED BY <1>1, <1>2

(* _isSnackBarVisible is set exactly while one bar of the open page is in  *)
(* the messenger's queue, wherever in a queue of any length it stands.     *)
THEOREM FlagTrue ==
  WaterSpec => []FlagMeansBar
<1>1. WaterInv => FlagMeansBar
  <2> SUFFICES ASSUME WaterInv PROVE FlagMeansBar
    OBVIOUS
  <2>1. \A i, j \in Mine : i = j
    BY DEF WaterInv, OneOwnBar, Mine
  <2>2. Cardinality(Mine) <= 1
    BY <2>1, AtMostOne
  <2>3. Mine # {} <=> \E i \in DOMAIN bars : bars[i]
    BY DEF Mine
  <2>4. waterOpen => (visible <=> Mine # {})
    BY <2>3 DEF WaterInv, OneOwnBar
  <2> QED BY <2>2, <2>4 DEF FlagMeansBar
<1>2. WaterSpec => []WaterInv
  BY WaterInvariant
<1> QED BY <1>1, <1>2, PTL
=============================================================================
