------------------------------ MODULE ProductStore ------------------------------
(***************************************************************************)
(* What DatabaseHelper of lib/hisabi promises the screens: a set of        *)
(* products with unique barcodes, in which every submitted product is      *)
(* stored in one step, only while no other product has its barcode, or     *)
(* refused in one step; a number is given once and a deleted product does  *)
(* not come back.  Hisabi, where a submit is two statements among those of *)
(* other screens, either of which may fail, is shown to implement it.      *)
(***************************************************************************)
EXTENDS Integers

CONSTANTS Barcodes, Categories, None

VARIABLES
    rows,      \* the products stored
    nextRow,   \* the number of the next product
    pending    \* products submitted and neither stored nor refused, by page

vars == <<rows, nextRow, pending>>

Init == rows = {} /\ nextRow = 1 /\ pending = {}

InUse(p) == \E r \in rows : r.barcode = p.barcode /\ r.id # p.id

Known(id) == \E r \in rows : r.id = id

(* A page submits a product, one at a time. *)
Submit(s) ==
    /\ \A t \in pending : t.no # s.no
    /\ s.row.barcode \in Barcodes /\ s.row.category \in Categories
    /\ pending' = pending \cup {s}
    /\ UNCHANGED <<rows, nextRow>>

(* For a barcode in use, or because the database reports an error: the     *)
(* product leaves no trace.                                                *)
Refuse(s) ==
    /\ pending' = pending \ {s}
    /\ UNCHANGED <<rows, nextRow>>

Create(s) ==
    /\ s.row.id = None /\ ~InUse(s.row)
    /\ rows' = rows \cup {[s.row EXCEPT !.id = nextRow]}
    /\ nextRow' = nextRow + 1
    /\ pending' = pending \ {s}

Change(s) ==
    /\ Known(s.row.id) /\ ~InUse(s.row)
    /\ rows' = {r \in rows : r.id # s.row.id} \cup {s.row}
    /\ pending' = pending \ {s}
    /\ UNCHANGED nextRow

(* The product has been deleted since it was read: nothing happens to it,  *)
(* or to any other.                                                        *)
Miss(s) ==
    /\ s.row.id # None /\ ~Known(s.row.id)
    /\ pending' = pending \ {s}
    /\ UNCHANGED <<rows, nextRow>>

Delete(id) ==
    /\ Known(id)
    /\ rows' = {r \in rows : r.id # id}
    /\ UNCHANGED <<nextRow, pending>>

Next ==
    \/ \E s \in pending' : Submit(s)
    \/ \E s \in pending : Refuse(s) \/ Create(s) \/ Change(s) \/ Miss(s)
    \/ \E r \in rows : Delete(r.id)

Spec == Init /\ [][Next]_vars
=============================================================================
