------------------------------ MODULE MCLibrary ------------------------------
(***************************************************************************)
(* The parts of the library that run one call at a time and share nothing: *)
(* the list queries, the map and the list.  An initial state belongs to    *)
(* one of them, the other two do not step.                                 *)
(***************************************************************************)
EXTENDS Enumerate, VkMap, VkList

VARIABLE part

Parts == {"queries", "map", "list"}

MCInit ==
    /\ part \in Parts
    /\ IF part = "queries" THEN Init
       ELSE op = "images" /\ icd = <<>> /\ tbm = {} /\ tplModes = {} /\ items = <<>>
            /\ asked = -1 /\ limit = 0 /\ reply = NoReply
    /\ IF part = "map" THEN MapInit
       ELSE kind = "int32" /\ hash = [k \in Keys("int32") |-> 0]
            /\ buckets = [b \in 0..bucket_mask |-> <<>>] /\ opened = TRUE
            /\ owned = <<>> /\ freed = [d \in 1..MaxData |-> 0] /\ dropped = {}
    /\ ListInit

MCNext ==
    /\ UNCHANGED part
    /\ \/ part = "queries" /\ Next /\ UNCHANGED <<mapVars, listVars>>
       \/ part = "map" /\ MapNext /\ UNCHANGED <<vars, listVars>>
       \/ part = "list" /\ ListNext /\ UNCHANGED <<vars, mapVars>>

MCSpec == MCInit /\ [][MCNext]_<<part, vars, mapVars, listVars>>
=============================================================================
