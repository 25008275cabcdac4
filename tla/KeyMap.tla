------------------------------- MODULE KeyMap -------------------------------
(***************************************************************************)
(* What vk_map (src/utils/utils.h) promises: a function from keys to data, *)
(* 0 where there is none.  Data are numbered as they are given.  Keys that *)
(* compare equal are one key; "class" says which those are.  No bucket and *)
(* no entry appears here; VkMap is checked to implement this module.       *)
(***************************************************************************)
EXTENDS Integers

VARIABLES
    class,      \* key -> the keys that are the same
    contents,   \* key -> its datum, or 0
    given       \* how many data have been given

vars == <<class, contents, given>>

Init ==
    /\ \A k \in DOMAIN class : k \in class[k]
    /\ contents = [k \in DOMAIN class |-> 0]
    /\ given = 0

Store(k, d) == contents' = [l \in DOMAIN class |-> IF l \in class[k] THEN d ELSE contents[l]]

(* The datum is stored, or refused for want of memory. *)
Set(k) ==
    /\ given' = given + 1
    /\ Store(k, given + 1) \/ contents' = contents

Delete(k) == Store(k, 0) /\ given' = given

Clear == contents' = [l \in DOMAIN class |-> 0] /\ given' = given

Next ==
    /\ class' = class
    /\ Clear \/ \E k \in DOMAIN class : Set(k) \/ Delete(k)

Spec == Init /\ [][Next]_vars
=============================================================================
