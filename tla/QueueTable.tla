----------------------------- MODULE QueueTable -----------------------------
(***************************************************************************)
(* What the callers of the queue emulation in src/src/wrappers.c rely on:  *)
(* a table of items in the order in which they were added, from which they *)
(* can be deleted, and whose artwork can be set and read by the item's id. *)
(***************************************************************************)
EXTENDS Naturals, Sequences, SequencesExt

CONSTANTS
    NoArtwork,
    FormatOf(_)     \* of the file that an artwork_url names

VARIABLES
    items,      \* records with an id and an artwork_url
    answer      \* to the last call

\* Where the first item with an id is, if there is one
First(id) == {i \in DOMAIN items : items[i].id = id /\
                                   \A j \in 1..i - 1 : items[j].id # id}

TableAdd(id) ==
    items' = Append(items, [id |-> id, artwork_url |-> NoArtwork]) /\ answer' = "0"

\* What cannot be added leaves the table as it was, and the caller is told.
TableRefuse == UNCHANGED items /\ answer' = "-1"

TableDelete(id) ==
    /\ \/ First(id) = {} /\ UNCHANGED items
       \/ \E i \in First(id) : items' = RemoveAt(items, i)
    /\ answer' = "0"

TableClear == items' = <<>> /\ answer' = "0"

TableSet(id, url) ==
    /\ items' = [i \in DOMAIN items |->
                    IF i \in First(id) THEN [items[i] EXCEPT !.artwork_url = url]
                    ELSE items[i]]
    /\ answer' = "0"

\* The format of what was set last, or nothing if the file cannot be opened
TableRead(id) ==
    /\ \/ answer' = "-1"
       \/ \E i \in First(id) : answer' = FormatOf(items[i].artwork_url)
    /\ UNCHANGED items
=============================================================================
