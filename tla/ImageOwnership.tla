--------------------------- MODULE ImageOwnership ---------------------------
(***************************************************************************)
(* What a swapchain backend promises through the acquire_image and         *)
(* present_image entries of struct vk_swapchain (src/wsi/wsi.h): every     *)
(* presentable image has one owner at a time, the free images are handed   *)
(* out in the order in which they were recycled, and a backend that fails  *)
(* half-way through a call may lose the image it was handling but never    *)
(* gives it to two owners.  No thread, lock or platform queue appears here;*)
(* SwapchainTdm is checked to implement this module.                       *)
(***************************************************************************)
EXTENDS Integers, Sequences

CONSTANT Images

VARIABLES
    avail,    \* the free images, the next one to be acquired first
    owner     \* image -> "free", "app", "engine" or "lost"

vars == <<avail, owner>>

Owners == {"free", "app", "engine", "lost"}

Init ==
    /\ avail \in Seq(Images)
    /\ \A i, j \in DOMAIN avail : avail[i] = avail[j] => i = j
    /\ \A i \in Images : \E n \in DOMAIN avail : avail[n] = i
    /\ owner = [i \in Images |-> "free"]

Give(i, who) == owner' = [owner EXCEPT ![i] = who]

(* The application acquires the image that has been free the longest. *)
Acquire ==
    /\ avail # <<>>
    /\ Give(Head(avail), "app")
    /\ avail' = Tail(avail)

(* The application gives an image it owns to the presentation engine. *)
Present(i) ==
    /\ owner[i] = "app"
    /\ Give(i, "engine")
    /\ UNCHANGED avail

(* The engine is done with a presented image. *)
Recycle(i) ==
    /\ owner[i] = "engine"
    /\ Give(i, "free")
    /\ avail' = Append(avail, i)

(* A call that handles the image fails: nobody can use it any more. *)
Lose(i) ==
    /\ owner[i] \in {"app", "engine"}
    /\ Give(i, "lost")
    /\ UNCHANGED avail

Next == Acquire \/ \E i \in Images : Present(i) \/ Recycle(i) \/ Lose(i)

Spec == Init /\ [][Next]_vars

(* A presented image does not stay with the engine for ever. *)
FairSpec == Spec /\ \A i \in Images : WF_vars(Recycle(i))
-----------------------------------------------------------------------------
TypeOK ==
    /\ avail \in Seq(Images)
    /\ owner \in [Images -> Owners]

(* The queue of available images lists each free image once and no other:  *)
(* what tbm_surface_queue's free list must be for an acquire never to hand *)
(* out an image somebody else still uses.                                  *)
FreeListed ==
    /\ \A i, j \in DOMAIN avail : avail[i] = avail[j] => i = j
    /\ \A i \in Images : owner[i] = "free" <=> \E n \in DOMAIN avail : avail[n] = i
=============================================================================
