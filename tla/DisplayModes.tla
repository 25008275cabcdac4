---------------------------- MODULE DisplayModes ----------------------------
(***************************************************************************)
(* Displays, planes and display modes of a physical device: discovery and  *)
(* vk_CreateDisplayModeKHR of src/wsi/display.c.  Icd composes the actions *)
(* with the loading of the library and with the application.               *)
(*                                                                         *)
(* A VkDisplayModeKHR is the address of an element of the built-in array   *)
(* of its display, which stays, or of the custom array, which every new    *)
(* mode reallocates.  An address in a custom array is a block of the heap  *)
(* and an index; realloc may grow the block where it is or move it, and a  *)
(* block that was given back can be handed out again.                      *)
(***************************************************************************)
EXTENDS Integers, Sequences, FiniteSets

CONSTANTS
    NOutputs,   \* outputs of the TDM display
    Layers,     \* layers of an output
    Params,     \* visible region and refresh rate of a mode
    Blocks,     \* addresses the heap hands out for custom modes
    None,       \* NULL
    Faults,     \* the calls that may fail
    MaxCustom   \* bound on the custom modes of a display

ASSUME NoneAssumption == None \notin Blocks
ASSUME ParamsAssumption == IsFiniteSet(Params)
ASSUME BoundAssumption == NOutputs \in Nat /\ Layers \in Nat /\ MaxCustom \in Nat

VARIABLES
    available,  \* output -> the modes libtdm reports
    next,       \* the output vk_physical_device_init_display looks at
    down,       \* vk_physical_device_fini_display has run
    displays,   \* pdev->displays up to display_count: their outputs
    planes,     \* pdev->planes up to plane_count: the index of their display
    built,      \* outputs with an allocated built_in_modes array
    block,      \* display -> the address of custom_modes
    custom,     \* display -> the custom modes, each with its prop.displayMode
    given,      \* the handles the application was given, and for what
    broken,     \* outputs that could not describe themselves (history)
    moved       \* displays whose custom array has moved (history)

deviceVars == <<available, next, down, displays, planes, built, broken>>
displayVars == <<deviceVars, block, custom, given, moved>>

Outputs == 1..NOutputs

DisplayInit ==
    /\ available \in [Outputs -> SUBSET Params]
    /\ next = 1
    /\ down = FALSE
    /\ displays = <<>>
    /\ planes = <<>>
    /\ built = {}
    /\ block = [d \in Outputs |-> None]
    /\ custom = [d \in Outputs |-> <<>>]
    /\ given = {}
    /\ broken = {}
    /\ moved = {}
-----------------------------------------------------------------------------
Fails(call) == call \in Faults

Allocated(o) == IF available[o] = {} THEN {} ELSE {o}

(* A mutant: the layers are added before the output is known to be good. *)
AddBrokenOutputLayers ==
    /\ Fails("model_info")
    /\ built' = built \cup Allocated(next)
    /\ planes' = planes \o [i \in 1..Layers |-> Len(displays) + 1]
    /\ broken' = broken \cup {next}
    /\ UNCHANGED displays

(* add_tdm_output without the modes array, or after it with an output that *)
(* cannot describe itself: the display is not counted and its slot is the  *)
(* next output's.                                                          *)
AddBrokenOutput ==
    /\ \/ Fails("calloc") /\ available[next] # {} /\ UNCHANGED <<built, broken>>
       \/ /\ Fails("model_info")
          /\ built' = built \cup Allocated(next)
          /\ broken' = broken \cup {next}
    /\ UNCHANGED <<displays, planes>>

(* tdm_output_get_layer_count is not checked: when it fails the variable   *)
(* still holds the number of modes.                                        *)
LayerCounts == {Layers} \cup IF Fails("layer_count") THEN {Cardinality(available[next])} ELSE {}

AddGoodOutput ==
    /\ built' = built \cup Allocated(next)
    /\ \E n \in LayerCounts : planes' = planes \o [i \in 1..n |-> Len(displays) + 1]
    /\ displays' = Append(displays, next)
    /\ UNCHANGED broken

(* One turn of the loop of vk_physical_device_init_display. *)
AddOutput ==
    /\ next <= NOutputs /\ ~down
    /\ next' = next + 1
    /\ AddGoodOutput \/ AddBrokenOutput
    /\ UNCHANGED <<available, down, block, custom, given, moved>>

(* A mutant: the custom modes are not freed. *)
FiniBuiltIn ==
    /\ displays' = <<>> /\ planes' = <<>>
    /\ built' = built \ {displays[d] : d \in DOMAIN displays}
    /\ UNCHANGED <<block, custom>>

(* vk_physical_device_fini_display *)
FiniDisplay ==
    /\ displays' = <<>> /\ planes' = <<>>
    /\ built' = built \ {displays[d] : d \in DOMAIN displays}
    /\ block' = [d \in Outputs |-> IF d \in DOMAIN displays THEN None ELSE block[d]]
    /\ custom' = [d \in Outputs |-> <<>>]

(* libtdm fails to start, or to give an output. *)
InitFails ==
    /\ next <= NOutputs /\ ~down
    /\ Fails("get_output")
    /\ next' = NOutputs + 1
    /\ FiniDisplay
    /\ UNCHANGED <<available, down, given, broken, moved>>

(* The library is unloaded. *)
Fini ==
    /\ ~down /\ down' = TRUE
    /\ FiniDisplay
    /\ UNCHANGED <<available, next, given, broken, moved>>
-----------------------------------------------------------------------------
BuiltInHandle(d, p) == <<"built-in", d, p>>
CustomHandle(b, i)  == <<"custom", b, i>>

Give(d, p, h) == given' = given \cup {[display |-> d, params |-> p, handle |-> h]}

(* A custom mode that exists is returned with the handle it was made with. *)
FindCustom(d, p) ==
    \E i \in DOMAIN custom[d] :
        /\ custom[d][i].params = p
        /\ \A j \in 1..i - 1 : custom[d][j].params # p
        /\ Give(d, p, custom[d][i].handle)

Moves(d, b) == moved' = moved \cup IF block[d] \in {None, b} THEN {} ELSE {d}

(* A mutant: the handle points behind the new mode. *)
AddCustomBehind(d, p) ==
    \E b \in (Blocks \ {block[e] : e \in Outputs \ {d}}) :
        LET i == Len(custom[d]) + 1 IN
        /\ block' = [block EXCEPT ![d] = b]
        /\ Moves(d, b)
        /\ custom' = [custom EXCEPT ![d] =
                        Append(@, [params |-> p, handle |-> CustomHandle(b, i + 1)])]
        /\ Give(d, p, CustomHandle(b, i + 1))

(* A mutant: every new mode takes the first place of the array. *)
AddCustomFirst(d, p) ==
    \E b \in (Blocks \ {block[e] : e \in Outputs \ {d}}) :
        /\ block' = [block EXCEPT ![d] = b]
        /\ Moves(d, b)
        /\ custom' = [custom EXCEPT ![d] =
                        Append(@, [params |-> p, handle |-> CustomHandle(b, 1)])]
        /\ Give(d, p, CustomHandle(b, 1))

(* realloc by one element, in place or at a free address; the modes are    *)
(* copied with their prop.displayMode as it was.                           *)
AddCustom(d, p) ==
    \E b \in (Blocks \ {block[e] : e \in Outputs \ {d}}) :
        LET i == Len(custom[d]) + 1 IN
        /\ block' = [block EXCEPT ![d] = b]
        /\ Moves(d, b)
        /\ custom' = [custom EXCEPT ![d] =
                        Append(@, [params |-> p, handle |-> CustomHandle(b, i)])]
        /\ Give(d, p, CustomHandle(b, i))

(* A mutant: only the built-in modes are searched. *)
KnownNever(d, p) == FALSE

Known(d, p) == \E i \in DOMAIN custom[d] : custom[d][i].params = p

(* vk_CreateDisplayModeKHR on a discovered display. *)
CreateDisplayMode(d, p) ==
    /\ next > NOutputs /\ d \in DOMAIN displays
    /\ IF p \in available[displays[d]]
       THEN Give(d, p, BuiltInHandle(d, p)) /\ UNCHANGED <<block, custom, moved>>
       ELSE \/ FindCustom(d, p) /\ UNCHANGED <<block, custom, moved>>
            \/ ~Known(d, p) /\ Len(custom[d]) < MaxCustom /\ AddCustom(d, p)
    /\ UNCHANGED deviceVars
-----------------------------------------------------------------------------
(* Whatever outputs fail during discovery, a plane belongs to a display    *)
(* the application can see.                                                *)
PlanesOnDisplays == \A i \in DOMAIN planes : planes[i] \in DOMAIN displays

(* Unloading frees every array of modes but those of outputs that failed   *)
(* after theirs was made.                                                  *)
NothingLeaked == down => built \subseteq broken /\ \A d \in Outputs : block[d] = None

(* The handle is the mode: asking twice for a mode gives the same one, and *)
(* different modes of a display never share one, wherever realloc has put  *)
(* the array in the meantime.                                              *)
HandlesAreModes ==
    \A g, h \in given : g.display = h.display => (g.params = h.params <=> g.handle = h.handle)

(* A handle the application holds is the address of its mode, as long as   *)
(* no further mode has moved the array.                                    *)
Points(g) ==
    \/ g.handle = BuiltInHandle(g.display, g.params)
    \/ /\ g.handle[1] = "custom"
       /\ g.handle[2] = block[g.display]
       /\ g.handle[3] \in DOMAIN custom[g.display]
       /\ custom[g.display][g.handle[3]].params = g.params
HandlesLive == ~down => \A g \in given : Points(g) \/ g.display \in moved
=============================================================================
