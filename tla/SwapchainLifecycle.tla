------------------------- MODULE SwapchainLifecycle -------------------------
(***************************************************************************)
(* Creation and destruction of swapchains: vk_CreateSwapchainKHR and       *)
(* vk_DestroySwapchainKHR of src/wsi/swapchain.c with the init,            *)
(* get_buffers and deinit functions of the TDM and the TPL backend.        *)
(*                                                                         *)
(* A create is a list of stages; each acquires one resource or makes one   *)
(* call that can fail, and a failure runs the clean-up of the place it     *)
(* happens at.  A call is one step: what is looked at is what a sequence   *)
(* of calls leaves behind, in memory, on the output shared by the          *)
(* swapchains, and in libtdm, which keeps the chain as the user data of    *)
(* its commit callbacks.                                                   *)
(***************************************************************************)
EXTENDS Integers, Sequences, SequencesExt

CONSTANTS
    Chains,         \* swapchain handles
    Faults,         \* the stages that may fail
    Nested,         \* the application destroys the youngest swapchain first
    MaxPending      \* bound on the callbacks of a chain that are under way

ASSUME BoundAssumption == MaxPending \in Nat

VARIABLES
    live,       \* the swapchains the application has, oldest first
    kind,       \* chain -> the backend it was created on
    held,       \* chain -> resources allocated for it and not released
    leaked,     \* what failing creates have left behind
    dpms,       \* power state of the output
    saved,      \* chain -> swapchain_tdm.tdm_dpms
    before,     \* the power state before the first swapchain (history)
    unread,     \* a create since then did not read the power state (history)
    pending     \* chain -> commits whose callback has not run

vars == <<live, kind, held, leaked, dpms, saved, before, unread, pending>>

Kinds == {"tdm", "tpl"}
Powers == {"on", "off", "standby"}

(* What a successful create goes through, in order. *)
Stages == [
    tdm |-> <<"chain", "format", "struct", "queue",
              "array", "fill", "set_dpms", "set_mode", "set_info", "buffers">>,
    tpl |-> <<"chain", "format", "struct", "tpl_display", "tpl_surface", "mode",
              "tpl_swapchain", "array", "buffers">>]

(* The stages that allocate. *)
Resources == {"chain", "struct", "queue", "array", "tpl_display", "tpl_surface",
              "tpl_swapchain", "buffers", "images"}

(* The first call of get_buffers, and the one that powers the output on. *)
GetBuffersAt == [tdm |-> 5, tpl |-> 8]
PowerOnAt == 7

Before(k, n) == {Stages[k][i] : i \in 1..n - 1} \cap Resources

Live == {live[i] : i \in DOMAIN live}

Init ==
    /\ live = <<>>
    /\ kind \in [Chains -> {"tdm"}]
    /\ held = [c \in Chains |-> {}]
    /\ leaked = {}
    /\ dpms \in Powers
    /\ saved = [c \in Chains |-> "off"]
    /\ before = dpms
    /\ unread = FALSE
    /\ pending = [c \in Chains |-> 0]
-----------------------------------------------------------------------------
(* get_buffers is the first call after init has set chain->deinit. *)
Initialised(k, n) == n >= GetBuffersAt[k]

(* A mutant: a failed create frees the chain and does not call deinit. *)
CleanedNoDeinit(k, n) == IF Stages[k][n] \in {"chain", "format"} THEN {} ELSE {"chain"}

(* What a create that fails at stage n gives back: nothing on the early    *)
(* return for the format; what the backend's own error label releases when *)
(* its init fails, chain->deinit not being set; everything after that.     *)
Cleaned(k, n) ==
    CASE Stages[k][n] \in {"chain", "format"} -> {}
      [] Initialised(k, n)                    -> Before(k, n)
      [] OTHER -> {"chain"} \cup IF k = "tpl" THEN {"tpl_display", "tpl_surface"} ELSE {}

(* tdm_output_get_dpms is not checked: when it fails tdm_dpms stays OFF. *)
PowerRead == {dpms} \cup (IF "get_dpms" \in Faults THEN {"off"} ELSE {})

(* What the first create finds and whether it, or one after it, has taken  *)
(* power p for the state of the output.                                    *)
Remember(p) ==
    /\ before' = IF live = <<>> THEN dpms ELSE before
    /\ unread' = ((live # <<>> /\ unread) \/ p # dpms)

Create(c, k) ==
    /\ c \notin Live
    /\ live' = Append(live, c)
    /\ kind' = [kind EXCEPT ![c] = k]
    /\ held' = [held EXCEPT ![c] = Before(k, Len(Stages[k]) + 1) \cup {"images"}]
    /\ IF k = "tdm"
       THEN /\ dpms' = "on"
            /\ \E p \in PowerRead : saved' = [saved EXCEPT ![c] = p] /\ Remember(p)
       ELSE UNCHANGED <<saved, dpms>> /\ Remember(dpms)
    /\ UNCHANGED <<leaked, pending>>

(* The deinit of a failed create writes back the power state it has read,  *)
(* or the OFF that init has stored when get_buffers failed before that.    *)
CreateFails(c, k, n) ==
    /\ c \notin Live
    /\ Stages[k][n] \in Faults
    /\ leaked' = leaked \cup (Before(k, n) \ Cleaned(k, n))
    /\ IF k = "tdm" /\ Initialised(k, n)
       THEN dpms' \in IF n >= PowerOnAt THEN PowerRead ELSE {"off"}
       ELSE UNCHANGED dpms
    /\ Remember(dpms')
    /\ UNCHANGED <<live, kind, held, saved, pending>>

(* A mutant: deinit leaves the output as it is. *)
DestroyLeavesOutput(c) ==
    /\ \E i \in DOMAIN live : live[i] = c /\ live' = RemoveAt(live, i)
    /\ held' = [held EXCEPT ![c] = {}]
    /\ UNCHANGED <<kind, leaked, dpms, saved, before, unread, pending>>

(* A mutant: deinit switches the output off. *)
DestroyPowersOff(c) ==
    /\ \E i \in DOMAIN live : live[i] = c /\ live' = RemoveAt(live, i)
    /\ held' = [held EXCEPT ![c] = {}]
    /\ dpms' = IF kind[c] = "tdm" THEN "off" ELSE dpms
    /\ UNCHANGED <<kind, leaked, saved, before, unread, pending>>

(* The images, the backend and the chain are released at once, whatever    *)
(* the display still shows or has yet to report.                           *)
Destroy(c) ==
    /\ \E i \in DOMAIN live :
          live[i] = c /\ (Nested => i = Len(live)) /\ live' = RemoveAt(live, i)
    /\ held' = [held EXCEPT ![c] = {}]
    /\ dpms' = IF kind[c] = "tdm" THEN saved[c] ELSE dpms
    /\ UNCHANGED <<kind, leaked, saved, before, unread, pending>>

(* tdm_output_commit with the chain as user data; the event may arrive     *)
(* after the present has returned.                                         *)
Commit(c) ==
    /\ c \in Live /\ kind[c] = "tdm"
    /\ pending[c] < MaxPending
    /\ pending' = [pending EXCEPT ![c] = @ + 1]
    /\ UNCHANGED <<live, kind, held, leaked, dpms, saved, before, unread>>

(* swapchain_tdm_output_commit_cb, from any tdm_display_handle_events.     *)
Callback(c) ==
    /\ pending[c] > 0
    /\ pending' = [pending EXCEPT ![c] = @ - 1]
    /\ UNCHANGED <<live, kind, held, leaked, dpms, saved, before, unread>>

Next ==
    \E c \in Chains :
        \/ \E k \in Kinds : \/ Create(c, k)
                            \/ \E n \in DOMAIN Stages[k] : CreateFails(c, k, n)
        \/ Destroy(c)
        \/ Commit(c)
        \/ Callback(c)

Spec == Init /\ [][Next]_vars
-----------------------------------------------------------------------------
(* Whatever stage a create fails at, and whatever swapchains come and go,  *)
(* no queue, surface, image or array is left behind; a create that fails   *)
(* before get_buffers may leave its chain or the structure of its backend. *)
NothingLeaked ==
    /\ leaked \subseteq {"chain", "struct"}
    /\ \A c \in Chains \ Live : held[c] = {}

(* While the application has a display swapchain, its output is powered,   *)
(* unless a create has written back a power state it had not read.         *)
OutputOn == (\E c \in Live : kind[c] = "tdm") /\ ~unread => dpms = "on"

(* When the last swapchain is gone the output is as it was found, unless a *)
(* create has written back a power state it had not read.                  *)
OutputRestored == live = <<>> /\ ~unread => dpms = before

(* A commit callback finds the chain it was registered with.               *)
CallbackFindsChain == \A c \in Chains : pending[c] > 0 => c \in Live
=============================================================================
