------------------------------ MODULE TriClient ------------------------------
(***************************************************************************)
(* samples/tri.c, the client the repository ships: it creates every object *)
(* of a Vulkan program, draws frames, recreates the swapchain when it is   *)
(* out of date, and destroys everything.  It runs on the null driver or on *)
(* another one, whose swapchains can be out of date.                       *)
(*                                                                         *)
(* A function of the program is the sequence of its calls; "todo" is what  *)
(* is left to do, and a step performs its head.  The queue of the device,  *)
(* the presentation engine and the window system take their steps at any   *)
(* time.  The branches for _WIN32 are left out, and assert is compiled in. *)
(***************************************************************************)
EXTENDS NullDriver, Functions

CONSTANTS
    Drivers,        \* a subset of {"null", "other"}
    FrameCounts,    \* the values of --c
    Resizes,        \* bound on how often the window changes its size
    MaxImages       \* bound on the images of a swapchain

ASSUME TriAssumption ==
    /\ Drivers \subseteq {"null", "other"}
    /\ FrameCounts \subseteq Nat \ {0} /\ Resizes \in Nat /\ MaxImages \in Nat \ {0}

VARIABLES
    args,           \* the command line and the driver
    status,         \* "running", or how the program has ended
    todo,           \* the calls that remain
    live,           \* the objects the program has
    heap,           \* the blocks of the null driver
    enabled,        \* demo->device_validation_layers
    setup,          \* demo->setup_cmd: "null", "set", or "stale" once freed
    recorded,       \* the barriers in setup_cmd, <<image, old, new>>
    layout,         \* image -> its layout on the device
    declared,       \* what the descriptor set says, <<image, layout>>
    queue,          \* the submissions the device has not finished
    shown,          \* the images the presentation engine keeps
    keeps,          \* how many it may keep for good
    desired,        \* desiredNumberOfSwapchainImages
    current,        \* demo->current_buffer, 0 before the first acquire
    err,            \* the result of the last present, until the queue is idle
    prepared,       \* demo->prepared
    frame,          \* demo->curFrame
    window,         \* the size of the window, as a number
    width,          \* demo->width and demo->height, likewise
    extent,         \* what is created with a size -> that size
    chain           \* number of the youngest swapchain

client == <<args, enabled, setup, recorded, desired, current, err, prepared, frame, width, chain>>
device == <<layout, declared, queue>>
screen == <<shown, keeps, window, extent>>
objects == <<live, heap>>
vars == <<status, todo, objects, client, device, screen>>
-----------------------------------------------------------------------------
(* Objects.  What a swapchain or a command pool holds goes with it.        *)
Obj(kind, use)   == <<kind, use, 0>>
SetupCmd         == Obj("command_buffer", "setup")
DrawCmd          == Obj("command_buffer", "draw")
CmdPool          == Obj("command_pool", "")
DescPool         == Obj("desc_pool", "")
DescSet          == Obj("desc_set", "")
Surface          == Obj("surface", "")
Device           == Obj("device", "")
Instance         == Obj("instance", "")
Swapchain(c)     == <<"swapchain", "", c>>
ColorImage(c, i) == <<"image", "color", MaxImages * c + i>>
DepthImage(c)    == <<"image", "depth", c>>
ColorView(i)     == <<"view", "color", i>>
Framebuffer(i)   == <<"framebuffer", "", i>>
Semaphore(d)     == <<"semaphore", "presentComplete", d>>

ImagesOf(c) == {ColorImage(c, i) : i \in 1..MaxImages} \cap live
Images      == 1..Cardinality(ImagesOf(chain))

Inside(o) ==
    CASE o = CmdPool        -> {SetupCmd, DrawCmd}
      [] o = DescPool       -> {DescSet}
      [] o = Instance       -> {Obj("gpu", "")}
      [] o[1] = "swapchain" -> ImagesOf(o[3])
      [] OTHER              -> {}

(* What an object is made from or belongs to, and has to outlive it.       *)
Owners(o) ==
    CASE o[1] \in {"gpu", "surface", "debug_callback"} -> {Instance}
      [] o[1] = "device"         -> {Obj("gpu", "")}
      [] o[1] = "swapchain"      -> {Device, Surface}
      [] o[1] = "command_buffer" -> {Device, CmdPool}
      [] o[1] = "view"           ->
            {Device, CASE o[2] = "color" -> ColorImage(chain, o[3])
                        [] o[2] = "depth" -> DepthImage(chain)
                        [] OTHER          -> Obj("image", o[2])}
      [] o[1] = "framebuffer"    ->
            {Device, Obj("render_pass", ""), ColorView(o[3]), Obj("view", "depth")}
      [] o[1] = "pipeline"        -> {Device, Obj("render_pass", ""), Obj("pipeline_layout", "")}
      [] o[1] = "pipeline_layout" -> {Device, Obj("desc_layout", "")}
      [] o[1] = "desc_set"        -> {Device, DescPool}
      [] o[1] \in {"wayland", "malloc", "instance"} -> {}
      [] OTHER -> {Device}

create(o)  == <<"create", o>>
destroy(o) == <<"destroy", o>>
-----------------------------------------------------------------------------
(* Set-up commands.  A barrier allocates setup_cmd when it is null; the    *)
(* flush submits it, waits, and frees it.                                  *)
demo_set_image_layout(image, old, new) == <<<<"barrier", <<image, old, new>>>>>>

(* Mutants: the flush does not wait, does not free, or keeps the field. *)
FlushAtOnce     == <<<<"submit_setup">>, destroy(SetupCmd), <<"setup_null">>>>
FlushLeaks      == <<<<"submit_setup">>, <<"idle">>, <<"setup_null">>>>
FlushKeepsField == <<<<"submit_setup">>, <<"idle">>, destroy(SetupCmd)>>

FlushCalls == <<<<"submit_setup">>, <<"idle">>, destroy(SetupCmd), <<"setup_null">>>>
demo_flush_init_cmd == <<<<"flush">>>>
-----------------------------------------------------------------------------
(* demo_prepare and what it calls *)
WithMemory(o, properties) == <<create(o), <<"memory", Obj("memory", o[2]), properties>>>>

(* For the swapchain that demo_prepare_buffers creates before it.          *)
demo_prepare_depth ==
    WithMemory(DepthImage(chain + 1), {})
        \o demo_set_image_layout(DepthImage(chain + 1), "undefined", "depth_stencil")
        \o <<create(Obj("view", "depth"))>>

demo_prepare_texture_image(use, properties) ==
    WithMemory(Obj("image", use), properties)
        \o demo_set_image_layout(Obj("image", use), "preinitialized", "shader_read")

demo_destroy_texture_image(use) ==
    <<destroy(Obj("image", use)), destroy(Obj("memory", use))>>

(* A mutant: the texture stays in the layout it was copied to. *)
StagedTextureLeft ==
    demo_prepare_texture_image("staging", {"host_visible"})
        \o demo_prepare_texture_image("texture", {"device_local"})
        \o demo_set_image_layout(Obj("image", "staging"), "shader_read", "transfer_src")
        \o demo_set_image_layout(Obj("image", "texture"), "shader_read", "transfer_dst")
        \o <<<<"copy", <<Obj("image", "staging"), "transfer_src", "transfer_src">>>>,
             <<"copy", <<Obj("image", "texture"), "transfer_dst", "transfer_dst">>>>>>
        \o demo_flush_init_cmd \o demo_destroy_texture_image("staging")

(* The copy needs both images in the layouts the barriers bring about.     *)
StagedTexture ==
    demo_prepare_texture_image("staging", {"host_visible"})
        \o demo_prepare_texture_image("texture", {"device_local"})
        \o demo_set_image_layout(Obj("image", "staging"), "shader_read", "transfer_src")
        \o demo_set_image_layout(Obj("image", "texture"), "shader_read", "transfer_dst")
        \o <<<<"copy", <<Obj("image", "staging"), "transfer_src", "transfer_src">>>>,
             <<"copy", <<Obj("image", "texture"), "transfer_dst", "transfer_dst">>>>>>
        \o demo_set_image_layout(Obj("image", "texture"), "transfer_dst", "shader_read")
        \o demo_flush_init_cmd \o demo_destroy_texture_image("staging")

demo_prepare_textures ==
    <<<<"texture">>, create(Obj("sampler", "texture")), create(Obj("view", "texture"))>>

demo_prepare_vertices == WithMemory(Obj("buffer", "vertices"), {"host_visible"})

demo_prepare_descriptor_layout == <<create(Obj("desc_layout", "")), create(Obj("pipeline_layout", ""))>>
demo_prepare_render_pass       == <<create(Obj("render_pass", ""))>>
demo_prepare_vs                == <<create(Obj("shader_module", "vert"))>>
demo_prepare_fs                == <<create(Obj("shader_module", "frag"))>>

demo_prepare_pipeline ==
    demo_prepare_vs \o demo_prepare_fs
        \o <<create(Obj("pipeline_cache", "")), create(Obj("pipeline", "")),
             destroy(Obj("pipeline_cache", "")), destroy(Obj("shader_module", "frag")),
             destroy(Obj("shader_module", "vert"))>>

demo_prepare_descriptor_pool == <<create(DescPool)>>
demo_prepare_descriptor_set  ==
    <<create(DescSet), <<"update_descriptor_sets", {<<Obj("image", "texture"), "general">>}>>>>
demo_prepare_framebuffers    == <<create(Obj("malloc", "framebuffers")), <<"framebuffers">>>>

(* The array the images are fetched into stays allocated; the array of the *)
(* present modes is freed.                                                 *)
demo_prepare_buffers ==
    <<<<"capabilities">>, create(Obj("malloc", "presentModes")),
      <<"create_swapchain">>, <<"destroy_old_swapchain">>,
      create(Obj("malloc", "swapchainImages")), create(Obj("malloc", "buffers")),
      <<"color_views", 1>>, destroy(Obj("malloc", "presentModes"))>>

(* A mutant: the depth image is created with the size of before. *)
PrepareDepthFirst ==
    <<create(CmdPool), create(DrawCmd)>>
        \o demo_prepare_depth \o demo_prepare_buffers \o demo_prepare_textures
        \o demo_prepare_vertices \o demo_prepare_descriptor_layout \o demo_prepare_render_pass
        \o demo_prepare_pipeline \o demo_prepare_descriptor_pool \o demo_prepare_descriptor_set
        \o demo_prepare_framebuffers \o <<<<"prepared">>>>

demo_prepare ==
    <<create(CmdPool), create(DrawCmd)>>
        \o demo_prepare_buffers \o demo_prepare_depth \o demo_prepare_textures
        \o demo_prepare_vertices \o demo_prepare_descriptor_layout \o demo_prepare_render_pass
        \o demo_prepare_pipeline \o demo_prepare_descriptor_pool \o demo_prepare_descriptor_set
        \o demo_prepare_framebuffers \o <<<<"prepared">>>>
-----------------------------------------------------------------------------
(* demo_cleanup, demo_resize: both start with the same calls.              *)
DestroyViews(image) ==
    <<destroy(Obj("view", image[2])), destroy(image), destroy(Obj("memory", image[2]))>>

(* A mutant: the images go before what is made from them.                  *)
DestroyImagesFirst ==
    [i \in Images |-> destroy(Framebuffer(i))]
        \o <<destroy(Obj("malloc", "framebuffers")), destroy(DescPool), <<"free_setup">>,
             destroy(DrawCmd), destroy(CmdPool), destroy(Obj("pipeline", "")),
             destroy(Obj("pipeline_layout", "")), destroy(Obj("desc_layout", "")),
             destroy(Obj("render_pass", "")), destroy(Obj("buffer", "vertices")),
             destroy(Obj("memory", "vertices")), destroy(Obj("image", "texture")),
             destroy(Obj("view", "texture")), destroy(Obj("memory", "texture")),
             destroy(Obj("sampler", "texture"))>>
        \o [i \in Images |-> destroy(ColorView(i))] \o DestroyViews(DepthImage(chain))

DestroyFrameObjects ==
    [i \in Images |-> destroy(Framebuffer(i))]
        \o <<destroy(Obj("malloc", "framebuffers")), destroy(DescPool), <<"free_setup">>,
             destroy(DrawCmd), destroy(CmdPool), destroy(Obj("pipeline", "")),
             destroy(Obj("render_pass", "")), destroy(Obj("pipeline_layout", "")),
             destroy(Obj("desc_layout", "")), destroy(Obj("buffer", "vertices")),
             destroy(Obj("memory", "vertices"))>>
        \o DestroyViews(Obj("image", "texture")) \o <<destroy(Obj("sampler", "texture"))>>
        \o [i \in Images |-> destroy(ColorView(i))] \o DestroyViews(DepthImage(chain))

(* A mutant: the surface is forgotten. *)
CleanupKeepsSurface ==
    <<<<"unprepared">>>> \o DestroyFrameObjects
        \o <<destroy(Swapchain(chain)), destroy(Obj("malloc", "buffers")), destroy(Device),
             destroy(Obj("debug_callback", "")), destroy(Instance),
             destroy(Obj("malloc", "queue_props")), <<"return">>>>

demo_cleanup ==
    <<<<"unprepared">>>> \o DestroyFrameObjects
        \o <<destroy(Swapchain(chain)), destroy(Obj("malloc", "buffers")), destroy(Device)>>
        \o (IF args.validate THEN <<destroy(Obj("debug_callback", ""))>> ELSE <<>>)
        \o <<destroy(Surface), destroy(Instance), destroy(Obj("malloc", "queue_props")), <<"return">>>>

(* The field setup_cmd keeps the command buffer it frees. *)
demo_resize ==
    IF prepared
    THEN <<<<"unprepared">>>> \o DestroyFrameObjects
            \o <<destroy(Obj("malloc", "buffers"))>> \o demo_prepare
    ELSE <<>>
-----------------------------------------------------------------------------
(* demo_draw, with the depth of its recursion for the local semaphore *)
demo_draw(d) == <<create(Semaphore(d)), <<"acquire", d>>>>

DrawImage(image, d) ==
    demo_set_image_layout(image, "present_src", "color_attachment")
        \o demo_flush_init_cmd
        \o <<<<"draw">>, <<"present">>, <<"idle">>, destroy(Semaphore(d))>>

demo_run == <<<<"run">>>>

demo_init_vk ==
    <<<<"instance_layers">>, <<"instance_extensions">>, create(Instance), create(Obj("gpu", "")),
      <<"device_layers">>, <<"device_extensions">>, <<"debug_callback">>,
      create(Obj("malloc", "queue_props"))>>

demo_init_device == <<create(Device)>>

demo_init_vk_swapchain ==
    <<create(Surface), <<"choose_queue">>>> \o demo_init_device
        \o <<<<"surface_formats">>, create(Obj("malloc", "surfFormats"))>>

main ==
    <<<<"connect">>>> \o demo_init_vk \o <<<<"window">>>> \o demo_init_vk_swapchain
        \o demo_prepare \o demo_run

Init ==
    /\ args \in [validate : BOOLEAN, staging : BOOLEAN, frames : FrameCounts, driver : Drivers]
    /\ chain = 0 /\ status = "running" /\ todo = main
    /\ live = {} /\ heap = {} /\ enabled = {}
    /\ setup = "null" /\ recorded = <<>>
    /\ layout = <<>> /\ declared = {} /\ queue = <<>>
    /\ shown = {} /\ keeps = 0
    /\ desired = 0 /\ current = 0 /\ err = "success" /\ prepared = FALSE
    /\ frame = 0 /\ window = 0 /\ width = 0
    /\ extent = [o \in {"swapchain", "depth", "framebuffer"} |-> 0]
-----------------------------------------------------------------------------
At(call) == status = "running" /\ Head(todo)[1] = call
Continue(calls) == todo' = calls \o Tail(todo) /\ UNCHANGED status

(* exit, abort, and the three ways the program goes on with a pointer or a *)
(* handle it does not have; the step that uses it is the last one.         *)
End(how) == status' = how /\ todo' = <<>>

KeepsAll == UNCHANGED <<objects, client, device, screen>>

(* Creation on the driver, or on the WSI library and the layers, which may *)
(* fail on the null driver too.                                            *)
MayFail(o) ==
    IF args.driver = "null" THEN o[1] \in {"surface", "swapchain", "debug_callback"}
                            ELSE o[1] \notin {"malloc", "wayland"}

Outcomes(o, created) ==
    (IF args.driver = "null" THEN created ELSE nothing)
        \cup (IF MayFail(o) THEN {Outcome({}, FALSE)} ELSE {})

(* The layout an image has at first, and the size something has. *)
InitialLayout(o) == IF o[2] \in {"texture", "staging"} THEN "preinitialized" ELSE "undefined"
SizeOf(o) == IF o[1] = "image" THEN o[2] ELSE o[1]

Add(os) ==
    /\ live' = live \cup os
    /\ layout' = layout @@ [o \in {p \in os : p[1] = "image"} |-> InitialLayout(o)]
    /\ extent' = [x \in DOMAIN extent |->
                    IF \E o \in os : x = SizeOf(o) THEN width ELSE extent[x]]

CreateOr(o, r, ending) ==
    /\ heap' = heap \cup r.kept
    /\ IF r.ok THEN Add({o}) /\ Continue(<<>>)
               ELSE End(ending) /\ UNCHANGED <<live, layout, extent>>
    /\ UNCHANGED <<client, declared, queue, shown, keeps, window>>

(* The instance and the callback are looked at with an ERR_EXIT, the       *)
(* result of vkCreateWaylandSurfaceKHR not at all: the handle stays null.  *)
(* Every other failure ends in an assert.                                  *)
Create ==
    /\ At("create")
    /\ LET o == Head(todo)[2] IN
       \E r \in Outcomes(o, Created(o)) :
           IF o = Surface /\ ~r.ok THEN Continue(<<>>) /\ KeepsAll
           ELSE CreateOr(o, r, IF o \in {Instance, Obj("debug_callback", "")}
                               THEN "exited" ELSE "aborted")

(* The first query that reads through the surface; that of the queues,     *)
(* which comes before it, does not look at its surface.                    *)
SurfaceFormats ==
    /\ At("surface_formats")
    /\ IF Surface \in live THEN Continue(<<>>) ELSE End("null_surface")
    /\ KeepsAll

(* Any other call whose result is asserted: those of the library may fail  *)
(* on either driver.                                                       *)
Asserted ==
    {"capabilities", "acquire", "present"}
        \cup (IF Surface \in live THEN {"surface_formats"} ELSE {})
        \cup (IF args.driver = "null" THEN {} ELSE {"submit_setup", "draw", "idle"})

AssertFails ==
    /\ status = "running" /\ Head(todo)[1] \in Asserted
    /\ End("aborted") /\ KeepsAll

(* memory_type_from_properties: the first type with the properties.        *)
memory_type_from_properties(types, properties) ==
    \E i \in DOMAIN types : properties \subseteq types[i]

MemoryTypes == IF args.driver = "null" THEN memory_types ELSE <<{"device_local"}, {"host_visible"}>>

AllocateMemory ==
    /\ At("memory")
    /\ LET o == Head(todo)[2] IN
       IF memory_type_from_properties(MemoryTypes, Head(todo)[3])
       THEN \E r \in Outcomes(o, Created(o)) : CreateOr(o, r, "aborted")
       ELSE End("aborted") /\ UNCHANGED <<objects, client, device, screen>>

Drop(os) ==
    /\ live' = live \ os
    /\ layout' = Restrict(layout, DOMAIN layout \ os)
    /\ shown' = shown \ os

Destroy ==
    /\ At("destroy")
    /\ LET o == Head(todo)[2] IN
       /\ Drop({o} \cup Inside(o))
       /\ heap' = heap \ (IF args.driver = "null" THEN Freed(o) ELSE {})
    /\ Continue(<<>>)
    /\ UNCHANGED <<client, declared, queue, keeps, window, extent>>

(* "if (demo->setup_cmd)" of the clean-up: the field is not reset. *)
FreeSetup ==
    /\ At("free_setup")
    /\ Continue(IF setup = "null" THEN <<>> ELSE <<destroy(SetupCmd)>>)
    /\ recorded' = <<>>
    /\ UNCHANGED <<args, enabled, setup, desired, current, err, prepared, frame, width, chain>>
    /\ UNCHANGED <<objects, device, screen>>
-----------------------------------------------------------------------------
(* Start-up: what is found is the environment's choice. *)
ContinueIf(found) ==
    /\ IF found THEN Continue(<<>>) ELSE End("exited")
    /\ KeepsAll

(* demo_init_connection: one dispatch, whatever it announces.  The third   *)
(* global, wl_shm, is not used.                                            *)
demo_init_connection ==
    /\ At("connect")
    /\ \/ End("exited") /\ UNCHANGED live
       \/ \E globals \in SUBSET {"compositor", "shell"} :
              /\ live' = {Obj("wayland", g) : g \in globals \cup {"display", "registry"}}
              /\ Continue(<<>>)
    /\ UNCHANGED <<heap, client, device, screen>>

(* demo_create_window: the globals are taken to have been announced. *)
demo_create_window ==
    /\ At("window")
    /\ IF {Obj("wayland", "compositor"), Obj("wayland", "shell")} \subseteq live
       THEN Continue(<<create(Obj("wayland", "surface")), create(Obj("wayland", "shell_surface"))>>)
       ELSE End("no_global")
    /\ KeepsAll

Alternatives == <<{"standard_validation"}, {"threading", "unique_objects"}>>
demo_check_layers(names, layers) == names \subseteq layers

InstanceLayers ==
    /\ At("instance_layers")
    /\ \E layers \in SUBSET UNION Range(Alternatives) :
           LET found == {i \in DOMAIN Alternatives : demo_check_layers(Alternatives[i], layers)} IN
           IF ~args.validate THEN Continue(<<>>) /\ UNCHANGED enabled
           ELSE IF found = {} THEN End("exited") /\ UNCHANGED enabled
           ELSE Continue(<<>>) /\ enabled' = Alternatives[Min(found)]
    /\ UNCHANGED <<args, setup, recorded, desired, current, err, prepared, frame, width, chain>>
    /\ UNCHANGED <<objects, device, screen>>

InstanceExtensions ==
    /\ At("instance_extensions")
    /\ \E found \in SUBSET {"surface", "wayland_surface"} :
           ContinueIf({"surface", "wayland_surface"} \subseteq found)

DeviceLayers ==
    /\ At("device_layers")
    /\ \E layers \in SUBSET UNION Range(Alternatives) :
           ContinueIf(args.validate => demo_check_layers(enabled, layers) /\ layers # {})

DeviceExtensions ==
    /\ At("device_extensions")
    /\ \E found \in SUBSET device_extensions : ContinueIf("swapchain" \in found)

(* The entry points come from vkGetInstanceProcAddr, which may not know    *)
(* them; without VK_EXT_debug_report it does not know the first ones.      *)
DebugCallback ==
    /\ At("debug_callback")
    /\ \E known \in BOOLEAN :
           IF known
           THEN Continue(IF args.validate THEN <<create(Obj("debug_callback", ""))>> ELSE <<>>)
           ELSE End("exited")
    /\ KeepsAll

(* A family that does both if there is one; two families are not enough.   *)
First(families, uses) ==
    LET found == {i \in DOMAIN families : uses \subseteq families[i]} IN
    IF found = {} THEN 0 ELSE Min(found)

ChooseQueue ==
    /\ At("choose_queue")
    /\ \E families \in UNION {[1..n -> SUBSET {"graphics", "present"}] : n \in 1..2} :
           LET both     == First(families, {"graphics", "present"})
               graphics == IF both # 0 THEN both ELSE First(families, {"graphics"})
               present  == IF both # 0 THEN both ELSE First(families, {"present"})
           IN  ContinueIf(graphics # 0 /\ present # 0 /\ graphics = present)
-----------------------------------------------------------------------------
(* The swapchain.  Only the other driver gives the surface a size, which   *)
(* the program takes over; this library's TPL surfaces have none.          *)
DesiredImages(min, max) == IF max > 0 /\ min + 1 > max THEN max ELSE min + 1

Capabilities ==
    /\ At("capabilities")
    /\ width' = IF args.driver = "null" THEN width ELSE window
    /\ \E min \in 1..MaxImages - 1, max \in 0..MaxImages :
           /\ max = 0 \/ max >= min
           /\ desired' = DesiredImages(min, max)
           /\ keeps' = min - 1
    /\ Continue(<<>>)
    /\ UNCHANGED <<args, enabled, setup, recorded, current, err, prepared, frame, chain>>
    /\ UNCHANGED <<objects, device, shown, window, extent>>

CreateSwapchain ==
    /\ At("create_swapchain")
    /\ LET new    == Swapchain(chain + 1)
           images == [i \in 1..desired |-> ColorImage(chain + 1, i)]
       IN  \E r \in Outcomes(new, create_image_from_native_buffer_TIZEN(images)) :
               /\ heap' = heap \cup r.kept
               /\ IF r.ok
                  THEN Add({new} \cup Range(images)) /\ Continue(<<>>) /\ chain' = chain + 1
                  ELSE End("aborted") /\ UNCHANGED <<live, layout, extent, chain>>
    /\ UNCHANGED <<args, enabled, setup, recorded, desired, current, err, prepared, frame, width>>
    /\ UNCHANGED <<declared, queue, shown, keeps, window>>

DestroyOldSwapchain ==
    /\ At("destroy_old_swapchain")
    /\ Continue(IF chain > 1 THEN <<destroy(Swapchain(chain - 1))>> ELSE <<>>)
    /\ KeepsAll

(* A mutant: the images are left in the layout they have at first. *)
ColorViewsOnly ==
    /\ At("color_views")
    /\ LET i == Head(todo)[2] IN
       Continue(IF i \in Images THEN <<create(ColorView(i)), <<"color_views", i + 1>>>> ELSE <<>>)
    /\ KeepsAll

(* A turn of the loop over the images. *)
ColorViews ==
    /\ At("color_views")
    /\ LET i == Head(todo)[2] IN
       Continue(IF i \in Images
                THEN demo_set_image_layout(ColorImage(chain, i), "undefined", "present_src")
                        \o <<create(ColorView(i)), <<"color_views", i + 1>>>>
                ELSE <<>>)
    /\ KeepsAll

Framebuffers ==
    /\ At("framebuffers")
    /\ Continue([i \in Images |-> create(Framebuffer(i))])
    /\ KeepsAll

Texture ==
    /\ At("texture")
    /\ \E tilings \in IF args.driver = "null" THEN {sampled_tilings} ELSE SUBSET sampled_tilings :
           CASE "linear" \in tilings /\ ~args.staging ->
                    Continue(demo_prepare_texture_image("texture", {"host_visible"}))
             [] "optimal" \in tilings /\ (args.staging \/ "linear" \notin tilings) ->
                    Continue(StagedTexture)
             [] OTHER -> End("aborted")
    /\ KeepsAll

UpdateDescriptorSets ==
    /\ At("update_descriptor_sets")
    /\ declared' = Head(todo)[2]
    /\ Continue(<<>>)
    /\ UNCHANGED <<objects, client, layout, queue, screen>>

Prepared ==
    /\ At("prepared") \/ At("unprepared")
    /\ prepared' = (Head(todo)[1] = "prepared")
    /\ Continue(<<>>)
    /\ UNCHANGED <<args, enabled, setup, recorded, desired, current, err, frame, width, chain>>
    /\ UNCHANGED <<objects, device, screen>>
-----------------------------------------------------------------------------
(* Recording into setup_cmd, which a barrier allocates when it is null.    *)
Record ==
    /\ At("barrier") \/ At("copy")
    /\ CASE setup = "null" ->
                /\ \E r \in Outcomes(SetupCmd, cmd_create({SetupCmd})) :
                       /\ heap' = heap \cup r.kept
                       /\ IF r.ok
                          THEN /\ live' = live \cup {SetupCmd} /\ setup' = "set"
                               /\ recorded' = <<Head(todo)[2]>> /\ Continue(<<>>)
                          ELSE End("aborted") /\ UNCHANGED <<live, setup, recorded>>
         [] setup = "set" /\ SetupCmd \in live ->
                /\ recorded' = Append(recorded, Head(todo)[2])
                /\ Continue(<<>>) /\ UNCHANGED <<objects, setup>>
         [] setup = "set" /\ SetupCmd \notin live ->
                End("stale_command") /\ UNCHANGED <<objects, setup, recorded>>
    /\ UNCHANGED <<args, enabled, desired, current, err, prepared, frame, width, chain>>
    /\ UNCHANGED <<device, screen>>

Flush ==
    /\ At("flush")
    /\ Continue(IF setup = "null" THEN <<>> ELSE FlushCalls)
    /\ KeepsAll

Submission(uses, barriers, samples, shows) ==
    [uses |-> uses, barriers |-> barriers, samples |-> samples, shows |-> shows]

SubmitSetup ==
    /\ At("submit_setup")
    /\ queue' = Append(queue,
                  Submission({SetupCmd} \cup {b[1] : b \in Range(recorded)}, recorded, {}, {}))
    /\ recorded' = <<>>
    /\ Continue(<<>>)
    /\ UNCHANGED <<args, enabled, setup, desired, current, err, prepared, frame, width, chain>>
    /\ UNCHANGED <<objects, layout, declared, screen>>

SetupNull ==
    /\ At("setup_null")
    /\ setup' = "null"
    /\ Continue(<<>>)
    /\ UNCHANGED <<args, enabled, recorded, desired, current, err, prepared, frame, width, chain>>
    /\ UNCHANGED <<objects, device, screen>>
-----------------------------------------------------------------------------
(* A frame.  The objects a draw uses, the layouts of its attachments, and  *)
(* those in which it samples through the descriptor set.                   *)
demo_draw_build_cmd(i) ==
    LET image == ColorImage(chain, i)
        depth == DepthImage(chain)
    IN  Submission(
            {DrawCmd, DescSet, DescPool, CmdPool, Framebuffer(i), ColorView(i), image, Swapchain(chain)}
                \cup {o \in live : o[1] \in {"pipeline", "pipeline_layout", "render_pass", "buffer", "sampler"}
                                    \/ o[2] \in {"depth", "texture", "vertices"}},
            <<<<image, "color_attachment", "color_attachment">>,
              <<depth, "depth_stencil", "depth_stencil">>,
              <<image, "color_attachment", "present_src">>>>,
            declared, {})

Busy == shown \cup UNION {s.shows : s \in Range(queue)}

(* The window may have changed since the capabilities were asked for. *)
OutOfDate == args.driver = "other" /\ extent["swapchain"] # window

Acquire ==
    /\ At("acquire")
    /\ LET d == Head(todo)[2] IN
       \/ \E i \in Images :
              /\ ColorImage(chain, i) \notin Busy
              /\ current' = i
              /\ Continue(DrawImage(ColorImage(chain, i), d))
       \/ /\ OutOfDate
          /\ Continue(demo_resize \o demo_draw(d + 1) \o <<destroy(Semaphore(d))>>)
          /\ UNCHANGED current
    /\ UNCHANGED <<args, enabled, setup, recorded, desired, err, prepared, frame, width, chain>>
    /\ UNCHANGED <<objects, device, screen>>

Draw ==
    /\ At("draw")
    /\ queue' = Append(queue, demo_draw_build_cmd(current))
    /\ Continue(<<>>)
    /\ UNCHANGED <<objects, client, layout, declared, screen>>

(* Out of date: the resize comes before the queue is waited for. *)
Present ==
    /\ At("present")
    /\ \/ /\ LET image == ColorImage(chain, current) IN
             queue' = Append(queue, Submission({Swapchain(chain), image},
                                <<<<image, "present_src", "present_src">>>>, {}, {image}))
          /\ Continue(<<>>) /\ UNCHANGED err
       \/ /\ OutOfDate
          /\ err' = "out_of_date"
          /\ Continue(demo_resize) /\ UNCHANGED queue
    /\ UNCHANGED <<args, enabled, setup, recorded, desired, current, prepared, frame, width, chain>>
    /\ UNCHANGED <<objects, layout, declared, screen>>

Idle ==
    /\ At("idle")
    /\ queue = <<>>
    /\ err' = "success"
    /\ Continue(<<>>)
    /\ UNCHANGED <<args, enabled, setup, recorded, desired, current, prepared, frame, width, chain>>
    /\ UNCHANGED <<objects, device, screen>>

(* A mutant: the frames are not counted. *)
FramesUncounted ==
    /\ At("run")
    /\ Continue(IF frame = args.frames THEN demo_cleanup
                ELSE demo_draw(0) \o <<<<"idle">>, <<"run">>>>)
    /\ UNCHANGED <<objects, client, device, screen>>

(* The loop of demo_run, then demo_cleanup. *)
Run ==
    /\ At("run")
    /\ IF frame = args.frames
       THEN Continue(demo_cleanup) /\ UNCHANGED frame
       ELSE /\ Continue(demo_draw(0) \o <<<<"idle">>, <<"run">>>>)
            /\ frame' = frame + 1
    /\ UNCHANGED <<args, enabled, setup, recorded, desired, current, err, prepared, width, chain>>
    /\ UNCHANGED <<objects, device, screen>>

Return == At("return") /\ End("done") /\ KeepsAll
-----------------------------------------------------------------------------
(* The device, the presentation engine and the window system.              *)
Before(barriers, n, image) ==
    LET earlier == {i \in 1..n - 1 : barriers[i][1] = image} IN
    IF earlier = {} THEN layout[image] ELSE barriers[Max(earlier)][3]

Complete ==
    /\ status = "running" /\ queue # <<>>
    /\ LET s == Head(queue) IN
       /\ layout' = [o \in DOMAIN layout |-> Before(s.barriers, Len(s.barriers) + 1, o)]
       /\ shown' = shown \cup (s.shows \cap live)
    /\ queue' = Tail(queue)
    /\ UNCHANGED <<status, todo, objects, client, declared, keeps, window, extent>>

Release ==
    /\ status = "running" /\ Cardinality(shown) > keeps
    /\ \E image \in shown : shown' = shown \ {image}
    /\ UNCHANGED <<status, todo, objects, client, device, keeps, window, extent>>

WindowResized ==
    /\ status = "running" /\ args.driver = "other" /\ window < Resizes
    /\ window' = window + 1
    /\ UNCHANGED <<status, todo, objects, client, device, shown, keeps, extent>>

Program ==
    \/ demo_init_connection \/ demo_create_window \/ InstanceLayers \/ InstanceExtensions
    \/ DeviceLayers \/ DeviceExtensions \/ DebugCallback \/ ChooseQueue
    \/ Create \/ SurfaceFormats \/ AssertFails \/ AllocateMemory \/ Destroy \/ FreeSetup
    \/ Capabilities \/ CreateSwapchain \/ DestroyOldSwapchain \/ ColorViews \/ Framebuffers
    \/ Texture \/ UpdateDescriptorSets \/ Prepared \/ Record \/ Flush \/ SubmitSetup \/ SetupNull
    \/ Acquire \/ Draw \/ Present \/ Idle \/ Run \/ Return

Next == Program \/ Complete \/ Release \/ WindowResized

(* The thread is scheduled, the device finishes what it is given, and the  *)
(* engine gives back the images it need not keep.                          *)
Spec ==
    /\ Init /\ [][Next]_vars
    /\ WF_vars(Program) /\ WF_vars(Complete) /\ WF_vars(Release)
-----------------------------------------------------------------------------
(* Nothing is destroyed before what is made from it: neither the clean-up  *)
(* nor the resize, which keeps the swapchain until its successor exists,   *)
(* nor a frame between them.  No swapchain is made from a surface that     *)
(* could not be created: SurfaceFormats comes first, and ends the program. *)
OwnersLive == \A o \in live : Owners(o) \subseteq live

(* When the device comes to a submission every image is in the layout that *)
(* its barriers, copies and attachments name, and what a frame samples is  *)
(* in the one textures[i].imageLayout records, through the set-up commands,*)
(* the frames and the presents.  What the descriptor set says of it is     *)
(* SampledLayouts.  After a present out of date a texture may already be   *)
(* that of the next swapchain (PendingUntouched).                          *)
Sampled == IF err = "out_of_date" THEN {} ELSE Head(queue).samples

ExpectedLayouts ==
    queue # <<>> =>
        LET barriers == Head(queue).barriers IN
        /\ \A i \in DOMAIN barriers :
               barriers[i][1] \in DOMAIN layout =>
                   barriers[i][2] \in {"undefined", Before(barriers, i, barriers[i][1])}
        /\ \A p \in Sampled : p[1] \in DOMAIN layout /\ layout[p[1]] = "shader_read"

(* What a frame samples is in the layout that the descriptor set gives the *)
(* device for it.                                                          *)
SampledLayouts ==
    queue # <<>> =>
        \A p \in Sampled : p[1] \in DOMAIN layout /\ layout[p[1]] = p[2]

(* What a submission uses is not destroyed and not submitted again before  *)
(* the device has finished it, unless the present was out of date: there   *)
(* the program resizes before it waits.                                    *)
Pending == UNION {s.uses : s \in Range(queue)}
PendingUntouched ==
    [][/\ (live \ live') \cap Pending # {} => err = "out_of_date"
       /\ Len(queue') > Len(queue) =>
              {o \in Last(queue').uses \cap Pending : o[1] = "command_buffer"} = {}]_vars

(* What is rendered into together has one size, although the window        *)
(* changes between any two calls.                                          *)
SizesAgree ==
    (\E o \in live : o[1] = "framebuffer") =>
        extent["framebuffer"] = extent["depth"] /\ extent["depth"] = extent["swapchain"]

(* At the end nothing is left but two kinds of arrays and the connection.  *)
(* live is a set: the array of images that every demo_prepare_buffers      *)
(* leaves behind is one element, however often the program has resized.    *)
Forgotten ==
    {Obj("malloc", "swapchainImages"), Obj("malloc", "surfFormats")}
        \cup {o \in live : o[1] = "wayland"}
NothingLeft == status = "done" => live \subseteq Forgotten

(* Command buffers are the one thing the null driver gives back, and its   *)
(* pool frees none: the program frees each of them itself.                 *)
CommandBuffersFreed ==
    args.driver = "null" =>
        {b[1] : b \in {c \in heap : c[1][1] = "command_buffer"}}
            = {o \in live : o[1] = "command_buffer"}

(* A freed set-up command is used only when the swapchain was out of date  *)
(* before the first frame on it: any flush in between has reset the field. *)
StaleOnlyUnflushed ==
    [][status' = "stale_command" => chain > 1 /\ ~args.staging /\ err = "success"]_vars

(* The program ends, whatever the driver answers, when given a positive    *)
(* number of frames: without one, and with 0, demo_run does not stop.      *)
Terminates == <>(status # "running")
=============================================================================
