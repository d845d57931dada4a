------------------------------ MODULE DbQueue ------------------------------
(***************************************************************************)
(* The linked list of src/src/wrappers.c that stands for OwnTone's table of*)
(* queue items: heap cells with next pointers, the operations that walk    *)
(* them, and artwork_get_by_queue_item_id, which reads the file whose name *)
(* an item holds.  OwnTone is the caller; of an item only its id and its   *)
(* artwork_url are told apart.                                             *)
(***************************************************************************)
EXTENDS Links, SequencesExt

CONSTANTS
    Cells,      \* nodes that calloc returns; bound: how many there are at a time
    NULL,
    BaseIds,    \* the item_id of db_queue_add_by_query
    Urls,       \* artwork_url, by the extension of the file: "jpg", "png" or another
    NoUrl,      \* no artwork_url
    KeepIds     \* the item that db_queue_clear is to keep: 0 for none

ASSUME CellsAssumption ==
    /\ NULL \notin Cells /\ IsFiniteSet(Cells)
    /\ BaseIds \subseteq Nat /\ KeepIds \subseteq Nat

\* The only call of db_queue_clear that this repository has is db_queue_clear(0), and an
\* id is one more than a base: no item is ever kept.
ASSUME NothingIsKept == \A base \in BaseIds : base + 1 \notin KeepIds

VARIABLES
    queue,      \* head of the list
    cell,       \* what is in a cell
    live,       \* cells allocated and not freed
    ret,        \* what the last call returned: "0", "-1" or the format of an artwork
    asked       \* the last call, which may have changed nothing
queueVars == <<queue, cell, live, ret, asked>>

Ids == {base + 1 : base \in BaseIds}

\* What a cell holds that is not allocated, which does not matter as long as none is read
Blank == [id |-> 0, artwork_url |-> NoUrl, next |-> NULL]

Free(cells, rest) == [c \in Cells |-> IF c \in cells THEN Blank ELSE rest[c]]

QueueInit ==
    /\ queue = NULL /\ live = {} /\ ret = "0" /\ asked = "nothing"
    /\ cell = [c \in Cells |-> Blank]

\* The cells that a walk from the head meets
NextOf == [c \in Cells |-> cell[c].next]
Walk == Followed(queue, NextOf, NULL)

\* The first place from a range at which there is an item with the id
Place(id, places) ==
    {i \in places : cell[Walk[i]].id = id /\
                    \A j \in places : j < i => cell[Walk[j]].id # id}

-----------------------------------------------------------------------------

\* db_queue_insert_atend
LinkNode(node, c) ==
    IF Walk = <<>>
      THEN queue' = c /\ cell' = [cell EXCEPT ![c] = node]
      ELSE cell' = [cell EXCEPT ![c] = node, ![Walk[Len(Walk)]].next = c] /\ UNCHANGED queue

\* db_queue_add_by_query, at the end, when so many of its two calls of calloc succeed.
\* Without the first there is no item; without the second db_queue_insert_atend returns the
\* head of the list as if it had linked a node, unless there is no list.
QueueAdd(base, callocs) ==
    \/ callocs = 0 /\ ret' = "-1" /\ UNCHANGED <<queue, cell, live>>
    \/ callocs = 1 /\ ret' = (IF queue = NULL THEN "-1" ELSE "0") /\ UNCHANGED <<queue, cell, live>>
    \/ /\ callocs = 2
       /\ \E c \in Cells \ live :
             /\ LinkNode([id |-> base + 1, artwork_url |-> NoUrl, next |-> NULL], c)
             /\ live' = live \cup {c}
       /\ ret' = "0"

\* Mutant of QueueDelete: the node is freed and not taken out of the list.
QueueDelete_StaysLinked(id) ==
    /\ \E i \in Place(id, 2..Len(Walk) - 1) :
          live' = live \ {Walk[i]} /\ cell' = Free({Walk[i]}, cell)
    /\ ret' = "0" /\ UNCHANGED queue

\* db_queue_delete_byitemid: the loop ends before the last node, and for want of a
\* previous one it passes over the first.
QueueDelete(id) ==
    LET found == Place(id, 2..Len(Walk) - 1) IN
    /\ IF found = {} THEN UNCHANGED <<cell, live>>
       ELSE \E i \in found :
               /\ cell' = Free({Walk[i]}, [cell EXCEPT ![Walk[i - 1]].next =
                                               cell[Walk[i]].next])
               /\ live' = live \ {Walk[i]}
    /\ ret' = "0" /\ UNCHANGED queue

\* db_queue_clear: the last node with the id is kept, with its next pointer.
QueueClear(keep) ==
    LET kept == {i \in 1..Len(Walk) : cell[Walk[i]].id = keep} IN
    /\ live' = live \ {Walk[i] : i \in (1..Len(Walk)) \ kept}
    /\ cell' = Free(live \ live', cell)
    /\ queue' = IF kept = {} THEN NULL
                ELSE Walk[CHOOSE i \in kept : \A j \in kept : j <= i]
    /\ ret' = "0"

\* Mutant of Fetched: the caller gets a copy of the item, as from a data base.
Fetched_Copy(id, url) == cell

\* db_queue_fetch_byitemid hands out the item in the list itself, so that what the caller
\* writes to it is in the list at once.
Fetched(id, url) ==
    [c \in Cells |-> IF c \in {Walk[i] : i \in Place(id, 1..Len(Walk))}
                       THEN [cell[c] EXCEPT !.artwork_url = url] ELSE cell[c]]

\* The caller changes an item it fetched, and db_queue_item_update copies it to the node
\* with its id, which it looks for up to the last but one.
QueueUpdate(id, url) ==
    /\ Place(id, 1..Len(Walk)) # {}
    /\ cell' = [c \in Cells |-> IF c \in {Walk[i] : i \in Place(id, 1..Len(Walk) - 1)}
                                  THEN [Fetched(id, url)[c] EXCEPT !.artwork_url = url]
                                  ELSE Fetched(id, url)[c]]
    /\ ret' = "0" /\ UNCHANGED <<queue, live>>

\* The format goes by the extension.
ArtFormat(url) == IF url = "png" THEN "ART_FMT_PNG" ELSE "ART_FMT_JPEG"

\* artwork_get_by_queue_item_id; there may be no such file, or no memory to read it.
QueueArtwork(id) ==
    /\ \/ \E i \in Place(id, 1..Len(Walk)) :
             /\ cell[Walk[i]].artwork_url # NoUrl
             /\ ret' = ArtFormat(cell[Walk[i]].artwork_url)
       \/ ret' = "-1"
    /\ UNCHANGED <<queue, cell, live>>

QueueNext ==
    \/ \E base \in BaseIds, callocs \in 0..2 : QueueAdd(base, callocs) /\ asked' = "add"
    \/ \E keep \in KeepIds : QueueClear(keep) /\ asked' = "clear"
    \/ \E id \in Ids :
          \/ QueueDelete(id) /\ asked' = "delete"
          \/ QueueArtwork(id) /\ asked' = "artwork"
    \/ \E id \in Ids, url \in Urls : QueueUpdate(id, url) /\ asked' = "update"

-----------------------------------------------------------------------------

QueueSpec == QueueInit /\ [][QueueNext]_queueVars

\* No sequence of calls, as long as db_queue_clear is to keep no item, makes the walks of
\* later ones follow a pointer to freed memory or go in circles, and none loses a node that
\* is not freed.
QueueIsSound ==
    /\ live = {Walk[i] : i \in DOMAIN Walk}
    /\ Cardinality(live) = Len(Walk)

\* What the nodes say in their order
View == [i \in DOMAIN Walk |-> [id |-> cell[Walk[i]].id,
                                artwork_url |-> cell[Walk[i]].artwork_url]]

Table == INSTANCE QueueTable
    WITH items <- View, answer <- ret, NoArtwork <- NoUrl, FormatOf <- ArtFormat

\* Where db_queue_delete_byitemid does not keep its promise: the first or last item stays,
\* and at most another one with the same id goes.
StaysAtTheEnd(id) ==
    \/ UNCHANGED View
    \/ \E i \in 2..Len(View) - 1 : View[i].id = id /\ View' = RemoveAt(View, i)

\* Each call on the list does what it promises of the table: above all, an item that the
\* player changed is changed for the artwork request that comes later, though
\* db_queue_item_update never gets to the last node, usually the only one.  Two calls have
\* an exception, in which they do not: the item to delete is at an end of the list
\* (wrappers.c:162-168), and an item is added without memory for its node to a list that
\* is not empty, which changes nothing and reports success (wrappers.c:91-92).
ServesTheTable ==
    /\ \A base \in BaseIds, callocs \in 0..2 : QueueAdd(base, callocs) =>
          CASE callocs = 2 -> Table!TableAdd(base + 1)
            [] callocs = 1 /\ View # <<>> -> UNCHANGED View /\ ret' = "0"
            [] OTHER -> Table!TableRefuse
    /\ \A id \in Ids : QueueDelete(id) =>
          IF Table!First(id) \cap {1, Len(View)} = {} THEN Table!TableDelete(id)
          ELSE StaysAtTheEnd(id)
    /\ QueueClear(0) => Table!TableClear
    /\ \A id \in Ids : QueueArtwork(id) => Table!TableRead(id)
    /\ \A id \in Ids, url \in Urls : QueueUpdate(id, url) => Table!TableSet(id, url)

\* Every step is such a call.
CallsServeTheTable == [][ServesTheTable]_queueVars

\* What makes them inductive: the cells from the head on are a list, and what is allocated.
CellRecord == [id : Nat, artwork_url : Urls \cup {NoUrl}, next : Cells \cup {NULL}]
QueueInv ==
    /\ cell \in [Cells -> CellRecord]
    /\ IsChain(Walk, queue, NextOf, NULL)
    /\ live = {Walk[i] : i \in DOMAIN Walk}
    /\ \A c \in live : cell[c].id \in Ids
=============================================================================
