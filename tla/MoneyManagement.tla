---------------------------- MODULE MoneyManagement ----------------------------
(***************************************************************************)
(* The income and expense ledger                                           *)
(* (lib/project/money_management/money_management.dart).                   *)
(*                                                                         *)
(* _loadData and _saveData both wait for SharedPreferences.getInstance:    *)
(* before it has answered, an entry can be added whose save waits as well, *)
(* and the load replaces the lists.  Afterwards a save runs at once: it    *)
(* encodes both lists and sends two writes that nobody awaits.  An amount  *)
(* that is not finite (double.parse accepts "NaN" and "1e999") cannot be   *)
(* encoded: from then on the save throws at that list.                     *)
(*                                                                         *)
(* An entry is its number and whether its amount is finite; nothing in the *)
(* program removes an entry.                                               *)
(***************************************************************************)
EXTENDS Integers, Sequences, SequencesExt

CONSTANTS MaxEntries, MaxKills      \* bounds

ASSUME MoneyAssumption == MaxEntries \in Nat /\ MaxKills \in Nat

VARIABLES
    ready,     \* getInstance has answered in this process
    mounted,   \* the page is open
    loaded,    \* the page's _loadData has finished
    book,      \* the page's _earning and _expense
    waiting,   \* saves that wait for getInstance
    cache,     \* the in-process map of SharedPreferences
    disk,      \* the preferences file
    writes,    \* writes sent and not yet done, in order
    added,     \* entries added so far
    early,     \* an entry was added before the lists were loaded (auxiliary)
    kills

vars == <<ready, mounted, loaded, book, waiting, cache, disk, writes, added, early, kills>>

Lists == {"earning", "expense"}
Entry == [no : Nat \ {0}, finite : BOOLEAN]
Empty == [l \in Lists |-> <<>>]

Encodable(list) == \A i \in DOMAIN list : list[i].finite

-----------------------------------------------------------------------------
(* Mutant: the expenses are not saved. *)
SentEarningsOnly(b) ==
    IF Encodable(b["earning"]) THEN <<[list |-> "earning", val |-> b["earning"]]>> ELSE <<>>

(* What a save of book b sends: it encodes and writes the earnings, then   *)
(* the expenses, and throws at the first list it cannot encode.            *)
Sent(b) ==
    IF ~Encodable(b["earning"]) THEN <<>>
    ELSE IF ~Encodable(b["expense"])
    THEN <<[list |-> "earning", val |-> b["earning"]]>>
    ELSE <<[list |-> "earning", val |-> b["earning"]],
           [list |-> "expense", val |-> b["expense"]]>>

(* setStringList updates the process's map at once. *)
Mapped(c, b) ==
    [l \in Lists |-> IF \E i \in DOMAIN Sent(b) : Sent(b)[i].list = l THEN b[l] ELSE c[l]]

(* _saveData of book b once getInstance has answered. *)
SaveData(b) ==
    /\ writes' = writes \o Sent(b)
    /\ cache' = Mapped(cache, b)

-----------------------------------------------------------------------------
Init ==
    /\ ready = FALSE /\ mounted = FALSE /\ loaded = FALSE
    /\ book = Empty /\ waiting = 0
    /\ cache = Empty /\ disk = Empty /\ writes = <<>>
    /\ added = 0 /\ early = FALSE /\ kills = 0

(* Mutant: initState does not load. *)
OpenUnloaded ==
    /\ ~mounted /\ waiting = 0
    /\ mounted' = TRUE /\ loaded' = ready /\ book' = Empty
    /\ UNCHANGED <<ready, waiting, cache, disk, writes, added, early, kills>>

(* initState; with the preferences at hand the load ends before the user   *)
(* can do anything.  Bound: a page is not opened while an earlier one      *)
(* still waits for getInstance.                                            *)
Open ==
    /\ ~mounted /\ waiting = 0
    /\ mounted' = TRUE
    /\ loaded' = ready
    /\ book' = IF ready THEN cache ELSE Empty
    /\ UNCHANGED <<ready, waiting, cache, disk, writes, added, early, kills>>

(* What the load leaves in the page when the map is c: on a disposed page  *)
(* its setState throws, before its callback in a debug build and after it  *)
(* in a release build.                                                     *)
AfterLoad(c) == IF mounted THEN {c} ELSE {c, book}

(* getInstance answers (another screen may have asked for it).  The load   *)
(* and the saves that waited go on, in an order the library's futures      *)
(* decide; saves of the same lists count as one.                           *)
InstanceReady ==
    /\ ~ready
    /\ ready' = TRUE /\ loaded' = TRUE /\ waiting' = 0
    /\ \/ /\ waiting = 0
          /\ book' \in AfterLoad(cache)
          /\ UNCHANGED <<cache, writes>>
       \/ /\ waiting > 0                  \* the load, then the saves
          /\ book' \in AfterLoad(cache)
          /\ SaveData(book')
       \/ /\ waiting > 0                  \* the saves, then the load
          /\ SaveData(book)
          /\ book' \in AfterLoad(cache')
    /\ UNCHANGED <<mounted, disk, added, early, kills>>

(* _addEntry, from the form: the entry goes to the end of its list and     *)
(* everything is saved.                                                    *)
AddEntry(l, finite) ==
    /\ mounted /\ added < MaxEntries
    /\ added' = added + 1
    /\ book' = [book EXCEPT ![l] = Append(@, [no |-> added + 1, finite |-> finite])]
    /\ early' = (early \/ ~loaded)
    /\ IF ready THEN SaveData(book') /\ UNCHANGED waiting
                ELSE waiting' = waiting + 1 /\ UNCHANGED <<cache, writes>>
    /\ UNCHANGED <<ready, mounted, loaded, disk, kills>>

(* The back button. *)
Dispose ==
    /\ mounted
    /\ mounted' = FALSE
    /\ UNCHANGED <<ready, loaded, book, waiting, cache, disk, writes, added, early, kills>>

(* The platform stores the oldest write. *)
WriteDone ==
    /\ writes # <<>>
    /\ disk' = [disk EXCEPT ![Head(writes).list] = Head(writes).val]
    /\ writes' = Tail(writes)
    /\ UNCHANGED <<ready, mounted, loaded, book, waiting, cache, added, early, kills>>

(* The process ends; the next one fills its map from the file. *)
Kill ==
    /\ kills < MaxKills
    /\ kills' = kills + 1
    /\ ready' = FALSE /\ mounted' = FALSE /\ loaded' = FALSE
    /\ book' = Empty /\ waiting' = 0
    /\ cache' = disk /\ writes' = <<>>
    /\ UNCHANGED <<disk, added, early>>

Next ==
    \/ Open \/ InstanceReady \/ Dispose \/ WriteDone \/ Kill
    \/ \E l \in Lists, f \in BOOLEAN : AddEntry(l, f)

Spec == Init /\ [][Next]_vars

-----------------------------------------------------------------------------
(* Properties *)

Books == [Lists -> Seq(Entry)]

(* Type correctness.  What reaches the map or the file can be decoded: no  *)
(* amount that jsonEncode refuses gets there.                              *)
TypeOK ==
    /\ ready \in BOOLEAN /\ mounted \in BOOLEAN /\ loaded \in BOOLEAN
    /\ book \in Books /\ cache \in Books /\ disk \in Books
    /\ waiting \in Nat /\ added \in Nat /\ early \in BOOLEAN /\ kills \in Nat
    /\ writes \in Seq([list : Lists, val : Seq(Entry)])
    /\ \A l \in Lists : Encodable(cache[l]) /\ Encodable(disk[l])

(* What the file has at list l once the writes in flight are done. *)
Settled(l) ==
    LET mine == {i \in DOMAIN writes : writes[i].list = l}
    IN  IF mine = {} THEN disk[l]
        ELSE writes[CHOOSE i \in mine : \A j \in mine : j <= i].val

(* Nothing stored is ever lost: no write in flight, save, reload or kill   *)
(* shortens or changes a stored list, as long as no entry was added before *)
(* the lists were loaded.  (Such an entry is lost when the load goes       *)
(* first; when its save goes first, it overwrites all that was stored.)    *)
StoredNeverLost ==
    [][~early' => \A l \in Lists : IsPrefix(disk[l], disk'[l])]_vars

(* Every entry shown is stored or on its way, list by list, as long as the *)
(* list (for expenses: and the earnings) can be encoded.                   *)
ShownIsSaved ==
    mounted /\ loaded /\ ~early /\ Encodable(book["earning"]) =>
        /\ Settled("earning") = book["earning"]
        /\ Encodable(book["expense"]) => Settled("expense") = book["expense"]

=============================================================================
