----------------------------- MODULE StudentsProofs -----------------------------
(***************************************************************************)
(* TLAPS proofs for Students: type correctness, and that an idle page      *)
(* shows the table (ListFresh), from the invariant LoadsFollowWrites.      *)
(***************************************************************************)
EXTENDS Students, TLAPS

(* A repository call keeps both queues well typed, and sends nothing       *)
(* before the database is open.                                            *)
LEMMA IssueType ==
  ASSUME TypeOK, NEW call \in Call, Issue(call)
  PROVE  /\ awaiting' \in Seq(Call) /\ sent' \in Seq(Call)
         /\ ~opened => sent' = <<>>
<1>1. CASE opened
  BY <1>1 DEF TypeOK, Issue
<1>2. CASE ~opened
  BY <1>2 DEF TypeOK, Issue
<1> QED BY <1>1, <1>2 DEF TypeOK

(* Closing a page changes only the mine field of its calls. *)
LEMMA OrphanedType ==
  ASSUME NEW q \in Seq(Call)
  PROVE  /\ Orphaned(q) \in Seq(Call)
         /\ Len(Orphaned(q)) = Len(q)
         /\ q = <<>> => Orphaned(q) = <<>>
<1>1. \A i \in DOMAIN q : [kind |-> q[i].kind, mine |-> FALSE, arg |-> q[i].arg] \in Call
  BY DEF Call
<1>2. Orphaned(q) = [i \in 1 .. Len(q) |-> [kind |-> q[i].kind, mine |-> FALSE, arg |-> q[i].arg]]
  BY DEF Orphaned
<1>3. Orphaned(q) \in Seq(Call) /\ Len(Orphaned(q)) = Len(q)
  BY <1>1, <1>2
<1> QED BY <1>3

(* The load behind a write is a query. *)
LEMMA LoadAfterType ==
  ASSUME TypeOK, sent # <<>>
  PROVE  /\ Head(sent) \in Call
         /\ [kind |-> "query", mine |-> Head(sent).mine, arg |-> 0] \in Call
         /\ LoadAfter(Head(sent)) \in Seq(Call)
         /\ Tail(sent) \in Seq(Call)
<1>1. Head(sent) \in Call /\ Tail(sent) \in Seq(Call)
  BY DEF TypeOK
<1>2. Head(sent).mine \in BOOLEAN
  BY <1>1 DEF Call
<1>3. [kind |-> "query", mine |-> Head(sent).mine, arg |-> 0] \in Call
  BY <1>2 DEF Call
<1> QED BY <1>1, <1>3 DEF LoadAfter

(* Every step keeps the types. *)
LEMMA TypeStep == TypeOK /\ [Next]_vars => TypeOK'
<1> SUFFICES ASSUME TypeOK, [Next]_vars PROVE TypeOK'
  OBVIOUS
<1>1. CASE OpenPage
  <2>1. Query \in Call BY DEF Query, Call
  <2>2. awaiting' \in Seq(Call) /\ sent' \in Seq(Call) /\ (~opened => sent' = <<>>)
    BY <1>1, <2>1, IssueType DEF OpenPage
  <2> QED BY <1>1, <2>2 DEF OpenPage, TypeOK
<1>2. CASE ClosePage
  BY <1>2, OrphanedType DEF ClosePage, TypeOK
<1>3. CASE OpenDialog
  BY <1>3 DEF OpenDialog, TypeOK
<1>4. CASE DismissDialog
  BY <1>4 DEF DismissDialog, TypeOK
<1>5. ASSUME NEW n \in Names, AddStudent(n) PROVE TypeOK'
  <2>1. Insert(n) \in Call BY DEF Insert, Call
  <2>2. awaiting' \in Seq(Call) /\ sent' \in Seq(Call) /\ (~opened => sent' = <<>>)
    BY <1>5, <2>1, IssueType DEF AddStudent
  <2> QED BY <1>5, <2>2 DEF AddStudent, TypeOK
<1>6. ASSUME NEW s \in students, DeleteStudent(s) PROVE TypeOK'
  <2>1. Delete(s.id) \in Call BY DEF Delete, Call, TypeOK, Student
  <2>2. awaiting' \in Seq(Call) /\ sent' \in Seq(Call) /\ (~opened => sent' = <<>>)
    BY <1>6, <2>1, IssueType DEF DeleteStudent
  <2> QED BY <1>6, <2>2 DEF DeleteStudent, TypeOK
<1>7. CASE OpenDone
  BY <1>7 DEF OpenDone, TypeOK
<1>8. CASE OpenFails
  <2>1. Tail(awaiting) \in Seq(Call) BY <1>8 DEF OpenFails, TypeOK
  <2> QED BY <1>8, <2>1 DEF OpenFails, TypeOK
<1>9. CASE Resume
  <2>1. Tail(awaiting) \in Seq(Call) /\ Append(sent, Head(awaiting)) \in Seq(Call)
    BY <1>9 DEF Resume, TypeOK
  <2> QED BY <1>9, <2>1 DEF Resume, TypeOK
<1>10. CASE RunQuery
  <2>1. sent # <<>> BY <1>10 DEF RunQuery, Running
  <2> QED BY <1>10, <2>1, LoadAfterType DEF RunQuery, TypeOK
<1>11. CASE RunInsert
  <2>1. sent # <<>> /\ Head(sent).kind = "insert" BY <1>11 DEF RunInsert, Running
  <2>2. Head(sent) \in Call BY <2>1, LoadAfterType
  <2>3. Head(sent).arg \in Names BY <2>1, <2>2 DEF Call
  <2>4. table' \subseteq Student /\ nextId' \in Nat \ {0}
    BY <1>11, <2>3 DEF RunInsert, TypeOK, Student
  <2>5. \A s \in table' : s.id < nextId'
    BY <1>11 DEF RunInsert, TypeOK, Student
  <2>6. sent' \in Seq(Call) BY <1>11, <2>1, LoadAfterType DEF RunInsert
  <2>7. opened BY <2>1 DEF TypeOK
  <2> QED BY <1>11, <2>4, <2>5, <2>6, <2>7 DEF RunInsert, TypeOK
<1>12. CASE RunDelete
  <2>1. sent # <<>> BY <1>12 DEF RunDelete, Running
  <2>2. sent' \in Seq(Call) /\ opened BY <1>12, <2>1, LoadAfterType DEF RunDelete, TypeOK
  <2> QED BY <1>12, <2>2 DEF RunDelete, TypeOK
<1>13. CASE RunFails
  <2>1. sent' \in Seq(Call) /\ opened BY <1>13, LoadAfterType DEF RunFails, TypeOK
  <2> QED BY <1>13, <2>1 DEF RunFails, TypeOK
<1>14. CASE Kill
  <2>1. students' \subseteq Student
    BY <1>14, Zenon DEF Kill
  <2>2. awaiting' \in Seq(Call) /\ sent' \in Seq(Call)
    BY <1>14 DEF Kill
  <2> QED BY <1>14, <2>1, <2>2 DEF Kill, TypeOK
<1>15. CASE UNCHANGED vars
  BY <1>15 DEF vars, TypeOK
<1> QED
  BY <1>1, <1>2, <1>3, <1>4, <1>5, <1>6, <1>7, <1>8, <1>9, <1>10, <1>11, <1>12,
     <1>13, <1>14, <1>15 DEF Next

(* Type correctness of the student database, for any names and any number  *)
(* of calls under way.                                                     *)
THEOREM TypeCorrect == Spec => []TypeOK
<1>1. Init => TypeOK
  <2> SUFFICES ASSUME Init PROVE TypeOK
    OBVIOUS
  <2>1. awaiting \in Seq(Call) /\ sent \in Seq(Call)
    BY DEF Init
  <2>2. table \subseteq Student /\ students \subseteq Student /\ \A s \in table : s.id < nextId
    BY Zenon DEF Init
  <2>3. nextId \in Nat \ {0}
    BY DEF Init
  <2>4. /\ opened \in BOOLEAN /\ page \in BOOLEAN /\ dialog \in BOOLEAN
        /\ missed \in BOOLEAN /\ overtook \in BOOLEAN
        /\ sent = <<>>
    BY DEF Init
  <2> QED BY <2>1, <2>2, <2>3, <2>4, Zenon DEF TypeOK
<1> QED BY <1>1, TypeStep, PTL DEF Spec

-----------------------------------------------------------------------------
(* What taking the first call off a queue does to Covered and Awaited. *)
LEMMA TailCovered ==
  ASSUME NEW q \in Seq(Call), q # <<>>
  PROVE  /\ Covered(q) => Covered(Tail(q))
         /\ Covered(q) /\ Foreign(q, 1) => Awaited(Tail(q))
         /\ Awaited(q) => MyQuery(q, 1) \/ Awaited(Tail(q))
         /\ Head(q) = q[1] /\ Tail(q) \in Seq(Call) /\ Head(q) \in Call
<1>1. /\ Tail(q) \in Seq(Call) /\ Head(q) = q[1] /\ Head(q) \in Call
      /\ DOMAIN q = 1 .. Len(q) /\ Len(q) \in Nat \ {0}
      /\ DOMAIN Tail(q) = 1 .. (Len(q) - 1)
      /\ \A i \in DOMAIN Tail(q) : Tail(q)[i] = q[i + 1]
  OBVIOUS
<1>2. ASSUME NEW j \in DOMAIN q, MyQuery(q, j), j # 1
      PROVE  j - 1 \in DOMAIN Tail(q) /\ MyQuery(Tail(q), j - 1)
  <2>1. j - 1 \in DOMAIN Tail(q) /\ Tail(q)[j - 1] = q[j]
    BY <1>1, <1>2
  <2> QED BY <2>1, <1>2 DEF MyQuery
<1>3. Awaited(q) => MyQuery(q, 1) \/ Awaited(Tail(q))
  BY <1>2 DEF Awaited
<1>4. ASSUME Covered(q), Foreign(q, 1) PROVE Awaited(Tail(q))
  <2>1. PICK j \in DOMAIN q : 1 < j /\ MyQuery(q, j)
    BY <1>1, <1>4 DEF Covered
  <2> QED BY <1>1, <1>2, <2>1 DEF Awaited
<1>5. ASSUME Covered(q) PROVE Covered(Tail(q))
  <2> SUFFICES ASSUME NEW i \in DOMAIN Tail(q), Foreign(Tail(q), i)
               PROVE  \E j \in DOMAIN Tail(q) : i < j /\ MyQuery(Tail(q), j)
    BY DEF Covered
  <2>1. i + 1 \in DOMAIN q /\ Foreign(q, i + 1)
    BY <1>1 DEF Foreign
  <2>2. PICK j \in DOMAIN q : i + 1 < j /\ MyQuery(q, j)
    BY <1>5, <2>1 DEF Covered
  <2>3. j # 1 /\ i < j - 1
    BY <1>1, <2>2
  <2> QED BY <1>2, <2>2, <2>3
<1> QED BY <1>1, <1>3, <1>4, <1>5

(* What a new call at the end of a queue does to them. *)
LEMMA AppendCovered ==
  ASSUME NEW q \in Seq(Call), NEW c \in Call
  PROVE  /\ Awaited(q) => Awaited(Append(q, c))
         /\ c.kind = "query" /\ c.mine => Awaited(Append(q, c)) /\ Covered(Append(q, c))
         /\ Covered(q) /\ (c.kind = "query" \/ c.mine) => Covered(Append(q, c))
<1> DEFINE r == Append(q, c)
           n == Len(q) + 1
<1>1. /\ Len(q) \in Nat /\ DOMAIN q = 1 .. Len(q) /\ DOMAIN r = 1 .. n
      /\ r[n] = c
      /\ \A i \in DOMAIN q : i \in DOMAIN r /\ i < n /\ r[i] = q[i]
      /\ \A i \in DOMAIN r : i \in DOMAIN q \/ i = n
  OBVIOUS
<1> HIDE DEF r, n
<1>2. \A i \in DOMAIN q : (MyQuery(q, i) => MyQuery(r, i)) /\ (Foreign(r, i) => Foreign(q, i))
  BY <1>1 DEF MyQuery, Foreign
<1>3. Awaited(q) => Awaited(r)
  BY <1>1, <1>2 DEF Awaited
<1>4. n \in DOMAIN r
  BY <1>1 DEF n
<1>5. ASSUME c.kind = "query", c.mine PROVE Awaited(r) /\ Covered(r)
  <2>1. MyQuery(r, n) /\ ~Foreign(r, n)
    BY <1>1, <1>5 DEF MyQuery, Foreign
  <2> QED BY <1>1, <1>4, <2>1 DEF Awaited, Covered
<1>6. ASSUME Covered(q), c.kind = "query" \/ c.mine PROVE Covered(r)
  <2>1. ~Foreign(r, n)
    BY <1>1, <1>6 DEF Foreign
  <2> QED BY <1>1, <1>2, <1>6, <2>1 DEF Covered
<1> QED BY <1>3, <1>5, <1>6 DEF r

(* An empty queue. *)
LEMMA EmptyCovered == Covered(<<>>) /\ ~Awaited(<<>>)
BY DEF Covered, Awaited

(* A call of the page on the navigator keeps the invariant. *)
LEMMA IssueCovered ==
  ASSUME TypeOK, LoadsFollowWrites, NEW c \in Call, c.mine, Issue(c),
         UNCHANGED <<page, overtook, missed, students, table>>
  PROVE  LoadsFollowWrites'
<1> SUFFICES ASSUME page, ~overtook PROVE LoadsFollowWrites'
  BY DEF LoadsFollowWrites
<1>1. CASE opened
  <2>1. sent' = Append(sent, c) /\ awaiting' = awaiting /\ sent \in Seq(Call)
    BY <1>1 DEF Issue, TypeOK
  <2> QED BY <2>1, AppendCovered DEF LoadsFollowWrites
<1>2. CASE ~opened
  <2>1. awaiting' = Append(awaiting, c) /\ sent' = sent /\ awaiting \in Seq(Call)
    BY <1>2 DEF Issue, TypeOK
  <2> QED BY <2>1, AppendCovered DEF LoadsFollowWrites
<1> QED BY <1>1, <1>2

(* A write and the load behind it keep the invariant, whatever the write   *)
(* does to the table.                                                      *)
LEMMA WriteCovered ==
  ASSUME TypeOK, LoadsFollowWrites, sent # <<>>, Head(sent).kind # "query",
         sent' = LoadAfter(Head(sent)),
         UNCHANGED <<page, overtook, missed, students, awaiting>>
  PROVE  LoadsFollowWrites'
<1> SUFFICES ASSUME page, ~overtook PROVE LoadsFollowWrites'
  BY DEF LoadsFollowWrites
<1> DEFINE c == [kind |-> "query", mine |-> Head(sent).mine, arg |-> 0]
<1>1. c \in Call /\ c.kind = "query" /\ (c.mine <=> Head(sent).mine)
  BY LoadAfterType
<1>2. sent' = Append(Tail(sent), c)
  BY DEF LoadAfter
<1>3. sent \in Seq(Call)
  BY DEF TypeOK
<1> HIDE DEF c
<1>4. Tail(sent) \in Seq(Call) /\ Head(sent) = sent[1]
  BY <1>3, TailCovered
<1>5. CASE Head(sent).mine
  <2>1. Awaited(sent') /\ Covered(sent')
    BY <1>1, <1>2, <1>4, <1>5, AppendCovered
  <2> QED BY <2>1 DEF LoadsFollowWrites
<1>6. CASE ~Head(sent).mine
  <2>1. Foreign(sent, 1)
    BY <1>4, <1>6 DEF Foreign
  <2>2. Covered(sent) => Covered(sent') /\ Awaited(sent')
    BY <1>1, <1>2, <1>3, <1>4, <2>1, TailCovered, AppendCovered
  <2> QED BY <2>2 DEF LoadsFollowWrites
<1> QED BY <1>5, <1>6

(* Every step keeps the invariant. *)
LEMMA LoadsStep == TypeOK /\ LoadsFollowWrites /\ [Next]_vars => LoadsFollowWrites'
<1> SUFFICES ASSUME TypeOK, LoadsFollowWrites, [Next]_vars PROVE LoadsFollowWrites'
  OBVIOUS
<1>0. sent \in Seq(Call) /\ awaiting \in Seq(Call) /\ (~opened => sent = <<>>)
  BY DEF TypeOK
<1>1. CASE OpenPage
  <2> SUFFICES ASSUME ~overtook' PROVE LoadsFollowWrites'
    BY DEF LoadsFollowWrites
  <2>1. Query \in Call /\ Query.kind = "query" /\ Query.mine
    BY DEF Query, Call
  <2>2. CASE opened
    <3>1. awaiting' = <<>> /\ sent' = Append(sent, Query)
      BY <1>1, <2>2 DEF OpenPage, Issue
    <3> QED BY <1>0, <2>1, <3>1, AppendCovered, EmptyCovered DEF LoadsFollowWrites
  <2>3. CASE ~opened
    <3>1. sent' = <<>> /\ awaiting' = Append(awaiting, Query)
      BY <1>0, <1>1, <2>3 DEF OpenPage, Issue
    <3> QED BY <1>0, <2>1, <3>1, AppendCovered, EmptyCovered DEF LoadsFollowWrites
  <2> QED BY <2>2, <2>3
<1>2. CASE ClosePage
  BY <1>2 DEF ClosePage, LoadsFollowWrites
<1>3. CASE OpenDialog
  BY <1>3 DEF OpenDialog, LoadsFollowWrites
<1>4. CASE DismissDialog
  BY <1>4 DEF DismissDialog, LoadsFollowWrites
<1>5. ASSUME NEW n \in Names, AddStudent(n) PROVE LoadsFollowWrites'
  <2>1. Insert(n) \in Call /\ Insert(n).mine BY DEF Insert, Call
  <2> QED BY <1>5, <2>1, IssueCovered DEF AddStudent
<1>6. ASSUME NEW s \in students, DeleteStudent(s) PROVE LoadsFollowWrites'
  <2>1. Delete(s.id) \in Call /\ Delete(s.id).mine BY DEF Delete, Call, TypeOK, Student
  <2> QED BY <1>6, <2>1, IssueCovered DEF DeleteStudent
<1>7. CASE OpenDone
  BY <1>7 DEF OpenDone, LoadsFollowWrites
<1>8. CASE OpenFails
  <2> SUFFICES ASSUME page, ~overtook PROVE LoadsFollowWrites'
    BY <1>8 DEF OpenFails, LoadsFollowWrites
  <2>1. /\ awaiting # <<>> /\ awaiting' = Tail(awaiting) /\ sent = <<>> /\ sent' = <<>>
        /\ UNCHANGED <<page, overtook, students, table>>
        /\ missed => missed'
    BY <1>0, <1>8 DEF OpenFails
  <2>2. MyQuery(awaiting, 1) => missed'
    BY <1>0, <1>8, <2>1, TailCovered DEF OpenFails, MyQuery
  <2> QED BY <1>0, <2>1, <2>2, TailCovered, EmptyCovered DEF LoadsFollowWrites
<1>9. CASE Resume
  <2> SUFFICES ASSUME page, ~overtook PROVE LoadsFollowWrites'
    BY <1>9 DEF Resume, LoadsFollowWrites
  <2> DEFINE c == Head(awaiting)
  <2>1. /\ awaiting # <<>> /\ awaiting' = Tail(awaiting) /\ sent' = Append(sent, c)
        /\ UNCHANGED <<page, overtook, missed, students, table>>
    BY <1>9 DEF Resume
  <2>2. c \in Call /\ c = awaiting[1]
    BY <1>0, <2>1, TailCovered
  <2>3. Covered(awaiting')
    BY <1>0, <2>1, TailCovered DEF LoadsFollowWrites
  <2> HIDE DEF c
  <2>4. CASE c.kind = "query" /\ c.mine
    BY <1>0, <2>1, <2>2, <2>3, <2>4, AppendCovered DEF LoadsFollowWrites
  <2>5. CASE ~(c.kind = "query" /\ c.mine)
    <3>1. ~MyQuery(awaiting, 1)
      BY <2>2, <2>5 DEF MyQuery
    <3>2. CASE Awaited(awaiting)
      BY <1>0, <2>1, <2>2, <2>3, <3>1, <3>2, TailCovered, AppendCovered
         DEF LoadsFollowWrites
    <3>3. CASE ~Awaited(awaiting)
      <4>1. ~Awaited(Tail(awaiting)) \/ Awaited(awaiting')
        BY <2>1
      <4>2. ~Foreign(awaiting, 1) \/ Awaited(awaiting')
        BY <1>0, <2>1, TailCovered DEF LoadsFollowWrites
      <4>3. Covered(sent)
        BY <3>3 DEF LoadsFollowWrites
      <4>4. Covered(sent') \/ Awaited(awaiting')
        BY <1>0, <2>1, <2>2, <4>2, <4>3, AppendCovered DEF Foreign
      <4> QED BY <1>0, <2>1, <2>2, <2>3, <3>3, <4>4, AppendCovered DEF LoadsFollowWrites
    <3> QED BY <3>2, <3>3
  <2> QED BY <2>4, <2>5
<1>10. CASE RunQuery
  <2> SUFFICES ASSUME page, ~overtook PROVE LoadsFollowWrites'
    BY <1>10 DEF RunQuery, LoadsFollowWrites
  <2>1. /\ sent # <<>> /\ Head(sent).kind = "query" /\ sent' = Tail(sent)
        /\ UNCHANGED <<page, overtook, awaiting, table>>
    BY <1>10 DEF RunQuery, Running
  <2>2. Head(sent).mine => students' = table
    BY <1>10 DEF RunQuery
  <2>3. ~Head(sent).mine => UNCHANGED <<students, missed>>
    BY <1>10 DEF RunQuery
  <2>4. MyQuery(sent, 1) <=> Head(sent).mine
    BY <1>0, <2>1, TailCovered DEF MyQuery
  <2> QED BY <1>0, <2>1, <2>2, <2>3, <2>4, TailCovered DEF LoadsFollowWrites
<1>11. CASE RunInsert
  BY <1>11, WriteCovered DEF RunInsert, Running
<1>12. CASE RunDelete
  BY <1>12, WriteCovered DEF RunDelete, Running
<1>13. CASE RunFails
  <2> SUFFICES ASSUME page, ~overtook PROVE LoadsFollowWrites'
    BY <1>13 DEF RunFails, LoadsFollowWrites
  <2>1. /\ sent # <<>> /\ sent' = Tail(sent)
        /\ UNCHANGED <<page, overtook, awaiting, students, table>>
        /\ missed => missed'
    BY <1>13 DEF RunFails
  <2>2. MyQuery(sent, 1) => missed'
    BY <1>0, <1>13, <2>1, TailCovered DEF RunFails, MyQuery
  <2> QED BY <1>0, <2>1, <2>2, TailCovered DEF LoadsFollowWrites
<1>14. CASE Kill
  BY <1>14 DEF Kill, LoadsFollowWrites
<1>15. CASE UNCHANGED vars
  BY <1>15 DEF vars, LoadsFollowWrites
<1> QED
  BY <1>1, <1>2, <1>3, <1>4, <1>5, <1>6, <1>7, <1>8, <1>9, <1>10, <1>11, <1>12,
     <1>13, <1>14, <1>15 DEF Next

(* Behind every write of an earlier page, and whenever the list is stale,  *)
(* there is a load of the page on the navigator.                           *)
THEOREM LoadsFollow == Spec => []LoadsFollowWrites
<1>1. Init => LoadsFollowWrites
  BY DEF Init, LoadsFollowWrites
<1> QED BY <1>1, TypeCorrect, LoadsStep, PTL DEF Spec

(* An idle page shows the table. *)
THEOREM Freshness == Spec => []ListFresh
<1>1. LoadsFollowWrites => ListFresh
  BY EmptyCovered DEF LoadsFollowWrites, ListFresh
<1> QED BY <1>1, LoadsFollow, PTL
=============================================================================
