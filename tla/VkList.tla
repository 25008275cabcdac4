------------------------------- MODULE VkList -------------------------------
(***************************************************************************)
(* The doubly linked list of src/utils/utils.h: heads and elements are     *)
(* nodes of a ring.  The safe loops read the successor of an element       *)
(* before their body runs, which may remove the element.                   *)
(***************************************************************************)
EXTENDS Integers, Sequences, FiniteSets, SequencesExt

CONSTANTS
    Heads, Elements,
    NoNode              \* NULL

ASSUME NodesAssumption == Heads \cap Elements = {} /\ NoNode \notin Heads \cup Elements

VARIABLES
    ring,               \* the links, by direction: node -> node
    order,              \* head -> its elements in their order (history)
    stale,              \* heads whose elements were given to another list
    loop                \* the loop that runs, or none

listVars == <<ring, order, stale, loop>>

Nodes == Heads \cup Elements
Directions == {"next", "prev"}
NoLoop == [list |-> NoNode, way |-> "next", pos |-> NoNode, tmp |-> NoNode,
           seen |-> <<>>, all |-> <<>>]

(* vk_list_init of the heads; an element that is in no list has no links.  *)
ListInit ==
    /\ ring = [way \in Directions |-> [n \in Nodes |-> IF n \in Heads THEN n ELSE NoNode]]
    /\ order = [h \in Heads |-> <<>>]
    /\ stale = {}
    /\ loop = NoLoop
-----------------------------------------------------------------------------
Linked(h) == h \notin stale
InList(e, h) == Linked(h) /\ e \in Range(order[h])
Loose(e) == \A h \in Heads : ~InList(e, h)

(* The head, or an element: where something is inserted behind. *)
Place(p, h) == Linked(h) /\ (p = h \/ InList(p, h))
IndexOf(p, h) == IF p = h THEN 0 ELSE SelectInSeq(order[h], LAMBDA e : e = p)

InsertSeq(s, i, t) == SubSeq(s, 1, i) \o t \o SubSeq(s, i + 1, Len(s))

vk_list_init(h) ==
    /\ loop = NoLoop /\ ~Linked(h)
    /\ ring' = [way \in Directions |-> [ring[way] EXCEPT ![h] = h]]
    /\ order' = [order EXCEPT ![h] = <<>>]
    /\ stale' = stale \ {h}
    /\ UNCHANGED loop

vk_list_insert(p, e, h) ==
    /\ loop = NoLoop /\ Place(p, h) /\ Loose(e)
    /\ LET after == ring["next"][p] IN
       ring' = [next |-> [ring["next"] EXCEPT ![p] = e, ![e] = after],
                prev |-> [ring["prev"] EXCEPT ![e] = p, ![after] = e]]
    /\ order' = [order EXCEPT ![h] = InsertSeq(@, IndexOf(p, h), <<e>>)]
    /\ UNCHANGED <<stale, loop>>

(* What vk_list_remove does to the links. *)
Unlink(e) ==
    LET before == ring["prev"][e]
        after  == ring["next"][e]
    IN  [next |-> [ring["next"] EXCEPT ![before] = after, ![e] = NoNode],
         prev |-> [ring["prev"] EXCEPT ![after] = before, ![e] = NoNode]]

vk_list_remove(e, h) ==
    /\ loop = NoLoop /\ InList(e, h)
    /\ ring' = Unlink(e)
    /\ order' = [order EXCEPT ![h] = RemoveAt(@, IndexOf(e, h))]
    /\ UNCHANGED <<stale, loop>>

vk_list_empty(h) == ring["next"][h] = h

(* A mutant: the last element of the other list is not linked back. *)
SpliceOneWay(p, other, h) ==
    /\ loop = NoLoop /\ Place(p, h) /\ Linked(other) /\ other # h
    /\ ~vk_list_empty(other)
    /\ LET first == ring["next"][other]
           last  == ring["prev"][other]
           after == ring["next"][p]
       IN  ring' = [next |-> [ring["next"] EXCEPT ![last] = after, ![p] = first],
                    prev |-> [ring["prev"] EXCEPT ![first] = p]]
    /\ order' = [order EXCEPT ![h] = InsertSeq(@, IndexOf(p, h), order[other])]
    /\ stale' = stale \cup {other}
    /\ UNCHANGED loop

(* The elements of another list are put behind p; the other head still     *)
(* points to them and has to be initialised again.                         *)
vk_list_insert_list(p, other, h) ==
    /\ loop = NoLoop /\ Place(p, h) /\ Linked(other) /\ other # h
    /\ ~vk_list_empty(other)
    /\ LET first == ring["next"][other]
           last  == ring["prev"][other]
           after == ring["next"][p]
       IN  ring' = [next |-> [ring["next"] EXCEPT ![last] = after, ![p] = first],
                    prev |-> [ring["prev"] EXCEPT ![first] = p, ![after] = last]]
    /\ order' = [order EXCEPT ![h] = InsertSeq(@, IndexOf(p, h), order[other])]
    /\ stale' = stale \cup {other}
    /\ UNCHANGED loop
-----------------------------------------------------------------------------
(* vk_list_for_each_safe and its reverse: the first element and the one    *)
(* after it.                                                               *)
ForEach(h, way) ==
    /\ loop = NoLoop /\ Linked(h) /\ ~vk_list_empty(h)
    /\ loop' = [list |-> h, way |-> way, pos |-> ring[way][h], tmp |-> ring[way][ring[way][h]],
                seen |-> <<>>, all |-> IF way = "next" THEN order[h] ELSE Reverse(order[h])]
    /\ UNCHANGED <<ring, order, stale>>

(* The body keeps or removes the element; then the loop moves on to tmp.   *)
Body ==
    /\ loop # NoLoop /\ loop.pos # loop.list
    /\ \E remove \in BOOLEAN :
           /\ ring' = IF remove THEN Unlink(loop.pos) ELSE ring
           /\ order' = IF remove
                       THEN [order EXCEPT ![loop.list] = RemoveAt(@, IndexOf(loop.pos, loop.list))]
                       ELSE order
    /\ loop' = [loop EXCEPT !.seen = Append(@, loop.pos), !.pos = loop.tmp,
                            !.tmp = ring'[loop.way][loop.tmp]]
    /\ UNCHANGED stale

EndLoop ==
    /\ loop # NoLoop /\ loop.pos = loop.list
    /\ loop' = NoLoop
    /\ UNCHANGED <<ring, order, stale>>

ListNext ==
    \/ \E h \in Heads : vk_list_init(h)
    \/ \E h \in Heads, e \in Elements : vk_list_remove(e, h)
    \/ \E h \in Heads, p \in Nodes : \/ \E e \in Elements : vk_list_insert(p, e, h)
                                     \/ \E other \in Heads : vk_list_insert_list(p, other, h)
    \/ \E h \in Heads, way \in Directions : ForEach(h, way)
    \/ Body \/ EndLoop

ListSpec == ListInit /\ [][ListNext]_listVars
-----------------------------------------------------------------------------
(* Following the links in either direction from a head meets its elements  *)
(* in their order and comes back, through any sequence of insertions,      *)
(* removals and splices, also of removals in the body of a loop; the loop  *)
(* meets every element it started with, and nothing else.                  *)
Ring(s, h, way) ==
    \A i \in 0..Len(s) :
        ring[way][IF i = 0 THEN h ELSE s[i]] = IF i = Len(s) THEN h ELSE s[i + 1]

ListsMatch ==
    /\ \A h \in Heads : Linked(h) => Ring(order[h], h, "next") /\ Ring(Reverse(order[h]), h, "prev")
    /\ loop # NoLoop => /\ IsPrefix(loop.seen, loop.all)
                        /\ loop.pos = loop.list => loop.seen = loop.all
=============================================================================
