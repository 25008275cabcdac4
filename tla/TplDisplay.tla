----------------------------- MODULE TplDisplay -----------------------------
(***************************************************************************)
(* The TPL display of a native display, shared by reference counts:        *)
(* vk_get_tpl_display of src/wsi/wsi.h with the capability queries of      *)
(* src/wsi/surface.c and the init and deinit of src/wsi/swapchain_tpl.c.   *)
(*                                                                         *)
(* libtpl keeps one display object per native display.  A call gets a      *)
(* reference by creating the object or, in two more steps, by looking up   *)
(* and referencing the one that exists; the last unreference frees it.     *)
(* All surfaces here are surfaces of one native display.  An object is     *)
(* identified by its address, which can be used again once it is freed.    *)
(***************************************************************************)
EXTENDS Integers, FiniteSets

CONSTANTS
    Threads,    \* threads that make WSI calls
    Chains,     \* swapchain handles
    Objects,    \* addresses of TPL displays
    None,       \* NULL
    Faults,     \* the calls that may fail
    MaxRefs     \* bound on the references that failing queries leave behind

ASSUME NoneAssumption == None \notin Objects
ASSUME BoundAssumption == MaxRefs \in Nat

VARIABLES
    pc,         \* thread -> the next step of its call
    op,         \* thread -> the call
    display,    \* thread -> the TPL display the call works with
    handle,     \* thread -> the swapchain it creates or destroys
    refs,       \* object -> references, 0 when it is freed
    registered, \* the object libtpl finds for the native display
    chain,      \* swapchain -> swapchain_tpl.tpl_display of a live swapchain
    surf,       \* swapchain -> the display of its tpl_surface
    corrupt,    \* a freed display was referenced: undefined behaviour
    kept,       \* object -> references failing queries have kept (history)
    shelter,    \* thread -> the swapchains that were live when its create
                \* found the display taken, and still are (history)
    overlapped  \* two calls have been under way at once (history)

history == <<shelter, overlapped>>
vars == <<pc, op, display, handle, refs, registered, chain, surf, corrupt, kept, history>>

Ops == {"caps", "modes", "swapchain", "destroy"}

Init ==
    /\ pc = [t \in Threads |-> "idle"]
    /\ op = [t \in Threads |-> "caps"]
    /\ display = [t \in Threads |-> None]
    /\ handle = [t \in Threads |-> None]
    /\ chain = [c \in Chains |-> None]
    /\ surf = [c \in Chains |-> None]
    /\ registered = None
    /\ refs = [o \in Objects |-> 0]
    /\ kept = [o \in Objects |-> 0]
    /\ corrupt = FALSE
    /\ shelter = [t \in Threads |-> {}]
    /\ overlapped = FALSE
-----------------------------------------------------------------------------
Fails(call) == call \in Faults
Step(t, from, to) == pc[t] = from /\ pc' = [pc EXCEPT ![t] = to]

Live == {c \in Chains : chain[c] # None}

(* A call begins, whatever the other threads do: nothing serialises the    *)
(* calls on surfaces of one native display.                                *)
Begin(t, at) ==
    /\ Step(t, "idle", at)
    /\ overlapped' = (overlapped \/ \E u \in Threads : pc[u] # "idle")

(* A swapchain handle that no call is about to fill or empty. *)
Settled(c) == \A t \in Threads : pc[t] # "idle" => handle[t] # c

(* tpl_object_unreference: the last reference takes the object out of      *)
(* libtpl's list and frees it.                                             *)
Unreference(o) ==
    /\ refs' = [refs EXCEPT ![o] = @ - 1]
    /\ registered' = IF registered = o /\ refs[o] = 1 THEN None ELSE registered

(* vk_GetPhysicalDeviceSurfaceCapabilitiesKHR, ...PresentModesKHR or       *)
(* vk_CreateSwapchainKHR on a TBM queue or Wayland surface.                *)
Call(t, o, c) ==
    /\ Begin(t, "create")
    /\ IF o = "swapchain" THEN c \in Chains /\ chain[c] = None /\ Settled(c) ELSE c = None
    /\ op' = [op EXCEPT ![t] = o]
    /\ handle' = [handle EXCEPT ![t] = c]
    /\ UNCHANGED <<display, refs, registered, chain, surf, corrupt, kept, shelter>>

(* tpl_display_create makes the object unless the native display has one.  *)
CreateDisplay(t) ==
    /\ \/ /\ registered = None
          /\ Step(t, "create", "use")
          /\ \E o \in Objects : /\ refs[o] = 0
                                /\ refs' = [refs EXCEPT ![o] = 1]
                                /\ registered' = o
                                /\ display' = [display EXCEPT ![t] = o]
          /\ UNCHANGED shelter
       \/ /\ registered # None \/ Fails("create")
          /\ Step(t, "create", "get")
          /\ shelter' = [shelter EXCEPT ![t] = Live]
          /\ UNCHANGED <<display, refs, registered>>
    /\ UNCHANGED <<op, handle, chain, surf, corrupt, kept, overlapped>>

(* tpl_display_get takes no reference of its own. *)
GetDisplay(t) ==
    /\ Step(t, "get", "reference")
    /\ display' = [display EXCEPT ![t] = registered]
    /\ UNCHANGED <<op, handle, refs, registered, chain, surf, corrupt, kept, history>>

(* A mutant: the display that was found is used without a reference. *)
UseUnreferenced(t) ==
    /\ Step(t, "reference", IF display[t] = None THEN "idle" ELSE "use")
    /\ shelter' = [shelter EXCEPT ![t] = {}]
    /\ UNCHANGED <<op, display, handle, refs, registered, chain, surf, corrupt, kept, overlapped>>

(* tpl_object_reference fails for NULL, and the call returns an error.  A  *)
(* display freed since the look-up is referenced in freed memory.          *)
ReferenceDisplay(t) ==
    /\ \/ /\ display[t] = None
          /\ Step(t, "reference", "idle")
          /\ UNCHANGED <<refs, corrupt>>
       \/ /\ display[t] # None /\ refs[display[t]] > 0
          /\ Step(t, "reference", "use")
          /\ refs' = [refs EXCEPT ![display[t]] = @ + 1]
          /\ UNCHANGED corrupt
       \/ /\ display[t] # None /\ refs[display[t]] = 0
          /\ pc[t] = "reference" /\ corrupt' = TRUE
          /\ UNCHANGED <<pc, refs>>
    /\ shelter' = [shelter EXCEPT ![t] = {}]
    /\ UNCHANGED <<op, display, handle, registered, chain, surf, kept, overlapped>>

(* A mutant: a failing query of the present modes returns at once. *)
QueryLeaks(t) ==
    /\ pc[t] = "use" /\ op[t] \in {"caps", "modes"}
    /\ \/ Step(t, "use", "unref")
       \/ Fails("modes") /\ Step(t, "use", "idle")
    /\ UNCHANGED <<op, display, handle, refs, registered, chain, surf, corrupt, kept, history>>

(* The query through the display.  A failing query of the capabilities     *)
(* keeps the reference, one of the present modes does not.                 *)
Query(t) ==
    /\ op[t] \in {"caps", "modes"}
    /\ \/ Step(t, "use", "unref") /\ UNCHANGED kept
       \/ /\ op[t] = "caps" /\ Fails("caps")
          /\ Step(t, "use", "idle") /\ refs[display[t]] < MaxRefs
          /\ kept' = [kept EXCEPT ![display[t]] = @ + 1]
    /\ UNCHANGED <<op, display, handle, refs, registered, chain, surf, corrupt, history>>

(* tpl_object_unreference of the display at the end of a call. *)
UnrefDisplay(t) ==
    /\ Step(t, "unref", "idle")
    /\ Unreference(display[t])
    /\ UNCHANGED <<op, display, handle, chain, surf, corrupt, kept, history>>
-----------------------------------------------------------------------------
CreateSurface(t) ==
    /\ op[t] = "swapchain"
    /\ \/ /\ Step(t, "use", "swapchain")
          /\ surf' = [surf EXCEPT ![handle[t]] = display[t]]
       \/ Fails("surface") /\ Step(t, "use", "error") /\ UNCHANGED surf
    /\ UNCHANGED <<op, display, handle, refs, registered, chain, corrupt, kept, history>>

(* The present mode, tpl_surface_create_swapchain and get_buffers, whose   *)
(* failure runs the deinit.                                                *)
CreateSwapchain(t) ==
    /\ \/ /\ Step(t, "swapchain", "idle")
          /\ chain' = [chain EXCEPT ![handle[t]] = display[t]]
       \/ Fails("swapchain") /\ Step(t, "swapchain", "error") /\ UNCHANGED chain
       \/ Fails("buffers") /\ Step(t, "swapchain", "deinit") /\ UNCHANGED chain
    /\ UNCHANGED <<op, display, handle, refs, registered, surf, corrupt, kept, history>>

(* The error label unreferences the display and then the surface. *)
ErrorDisplay(t) ==
    /\ Step(t, "error", "error_surface")
    /\ Unreference(display[t])
    /\ UNCHANGED <<op, display, handle, chain, surf, corrupt, kept, history>>

ErrorSurface(t) ==
    /\ Step(t, "error_surface", "idle")
    /\ surf' = [surf EXCEPT ![handle[t]] = None]
    /\ UNCHANGED <<op, display, handle, refs, registered, chain, corrupt, kept, history>>

Destroy(t, c) ==
    /\ chain[c] # None
    /\ Begin(t, "deinit")
    /\ op' = [op EXCEPT ![t] = "destroy"]
    /\ handle' = [handle EXCEPT ![t] = c]
    /\ display' = [display EXCEPT ![t] = chain[c]]
    /\ chain' = [chain EXCEPT ![c] = None]
    /\ shelter' = [u \in Threads |-> shelter[u] \ {c}]
    /\ UNCHANGED <<refs, registered, surf, corrupt, kept>>

(* A mutant: the deinit unreferences in the order of the error label. *)
DeinitDisplayFirst(t) ==
    /\ Step(t, "deinit", "error_surface")
    /\ Unreference(display[t])
    /\ UNCHANGED <<op, display, handle, chain, surf, corrupt, kept, history>>

(* swapchain_tpl_deinit unreferences the surface and then the display. *)
DeinitSurface(t) ==
    /\ Step(t, "deinit", "unref")
    /\ surf' = [surf EXCEPT ![handle[t]] = None]
    /\ UNCHANGED <<op, display, handle, refs, registered, chain, corrupt, kept, history>>
-----------------------------------------------------------------------------
(* After undefined behaviour the model says nothing more. *)
Undefined == corrupt /\ UNCHANGED vars

Next ==
    \/ /\ ~corrupt
       /\ \E t \in Threads :
             \/ \E o \in {"caps", "modes"} : Call(t, o, None)
             \/ \E c \in Chains : Call(t, "swapchain", c) \/ Destroy(t, c)
             \/ CreateDisplay(t) \/ GetDisplay(t) \/ ReferenceDisplay(t)
             \/ Query(t) \/ UnrefDisplay(t)
             \/ CreateSurface(t) \/ CreateSwapchain(t)
             \/ ErrorDisplay(t) \/ ErrorSurface(t) \/ DeinitSurface(t)
    \/ Undefined

Spec == Init /\ [][Next]_vars
-----------------------------------------------------------------------------
(* The calls and the swapchains that own a reference to object o. *)
HoldingPcs == {"use", "unref", "swapchain", "error", "deinit"}
Calls(o)  == {t \in Threads : pc[t] \in HoldingPcs /\ display[t] = o}
Owning(o) == {c \in Chains : chain[c] = o}

(* Whoever uses a display has a reference to it and, but for what failing  *)
(* capability queries keep, nobody else counts: the object is freed when   *)
(* the last query and swapchain are done with it, not earlier or never.    *)
RefsBalanced ==
    \A o \in Objects :
        refs[o] = Cardinality(Calls(o)) + Cardinality(Owning(o)) + kept[o]

(* tpl_display_get takes no reference.  The display it looked up still     *)
(* exists when the call comes to reference it if a swapchain that was live *)
(* when tpl_display_create found the display taken has been kept, or if    *)
(* the application makes one call at a time.  In every other case the      *)
(* window is open: another call's unreference may free the display.        *)
ReferenceFindsDisplay ==
    \A t \in Threads : pc[t] = "reference" =>
        /\ shelter[t] # {} => display[t] # None
        /\ (shelter[t] # {} \/ ~overlapped) /\ display[t] # None => refs[display[t]] > 0

(* A failing vk_CreateSwapchainKHR has given back its display reference.   *)
InErrorLabel(c) ==
    \E t \in Threads : handle[t] = c /\ op[t] = "swapchain" /\ pc[t] = "error_surface"

(* A tpl_surface never outlives the display it was created on, except in   *)
(* the error label of an init, whose reference may have been the last.     *)
SurfaceHasDisplay ==
    \A c \in Chains : surf[c] # None /\ ~InErrorLabel(c) => refs[surf[c]] > 0

=============================================================================
