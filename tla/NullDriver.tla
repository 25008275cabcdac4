----------------------------- MODULE NullDriver -----------------------------
(***************************************************************************)
(* The null driver, src/null-driver/null-driver.c: an ICD whose objects    *)
(* are blocks of memory and whose commands do nothing.                     *)
(*                                                                         *)
(* An object is <<kind, use, number>>.  A function that creates one is the *)
(* set of its outcomes: the blocks that stay allocated, and whether the    *)
(* result is VK_SUCCESS.  Any malloc may fail.  Blocks are <<object,       *)
(* part>>.                                                                 *)
(***************************************************************************)
EXTENDS Integers, Sequences, FiniteSets, FiniteSetsExt, SequencesExt

Outcome(kept, ok) == [kept |-> kept, ok |-> ok]

malloc(o, part) == {Outcome({<<o, part>>}, TRUE), Outcome({}, FALSE)}

(* One after the other; what the first has allocated is not given back     *)
(* when the second one fails.                                              *)
Then(first, second) ==
    {r \in first : ~r.ok}
        \cup {Outcome(r.kept \cup s.kept, s.ok) : r \in {q \in first : q.ok}, s \in second}

(* The functions that return a constant handle, or leave the handle of the *)
(* caller as it is.                                                        *)
nothing == {Outcome({}, TRUE)}
-----------------------------------------------------------------------------
base_create(o)              == malloc(o, "base")
gpu_add(o)                  == malloc(o, "gpu")
queue_create(o)             == malloc(o, "queue")
desc_ooxx_create(o)         == malloc(o, "ooxx")
img_create(o)               == base_create(o)
sampler_create(o)           == base_create(o)
img_view_create(o)          == base_create(o)
buf_create(o)               == base_create(o)
desc_layout_create(o)       == base_create(o)
pipeline_layout_create(o)   == base_create(o)
graphics_pipeline_create(o) == base_create(o)
desc_pool_create(o)         == base_create(o)
desc_set_create(o)          == base_create(o)
fb_create(o)                == base_create(o)
render_pass_create(o)       == base_create(o)
create_pipeline_cache(o)    == base_create(o)
create_shader_module(o)     == base_create(o)
create_instance(o)          == base_create(o)
create_command_pool(o)      == nothing
create_semaphore(o)         == nothing

mem_alloc(o) == Then(base_create(o), malloc(o, "bo"))

(* The queue of the one family. *)
dev_create_queues(o) == queue_create(o)

device_extensions == {"swapchain"}

dev_create(o, extensions) ==
    Then(base_create(o),
         IF extensions \subseteq device_extensions
         THEN Then(desc_ooxx_create(o), dev_create_queues(o))
         ELSE {Outcome({}, FALSE)})

(* Command buffers are allocated together or not at all. *)
cmd_create(os) == {Outcome({<<o, "base">> : o \in os}, TRUE), Outcome({}, FALSE)}

(* One call for every image of a swapchain; the caller stops at the first  *)
(* failure and destroy_image gives nothing back.                           *)
create_image_from_native_buffer_TIZEN(os) ==
    {Outcome({<<os[i], "base">> : i \in 1..k}, k = Len(os)) : k \in 0..Len(os)}

(* A new handle on every call, the one that only counts included. *)
enumerate_physical_devices(o) == Then(gpu_add(<<"gpu", "counted", 0>>), gpu_add(o))
-----------------------------------------------------------------------------
(* The entry points that create, by the kind of the object. *)
device_funcs(o) == [
    instance        |-> create_instance(o),
    gpu             |-> enumerate_physical_devices(o),
    device          |-> dev_create(o, {"swapchain"}),
    memory          |-> mem_alloc(o),
    image           |-> img_create(o),
    view            |-> img_view_create(o),
    sampler         |-> sampler_create(o),
    buffer          |-> buf_create(o),
    semaphore       |-> create_semaphore(o),
    command_pool    |-> create_command_pool(o),
    command_buffer  |-> cmd_create({o}),
    shader_module   |-> create_shader_module(o),
    pipeline_cache  |-> create_pipeline_cache(o),
    pipeline        |-> graphics_pipeline_create(o),
    pipeline_layout |-> pipeline_layout_create(o),
    desc_layout     |-> desc_layout_create(o),
    desc_pool       |-> desc_pool_create(o),
    desc_set        |-> desc_set_create(o),
    render_pass     |-> render_pass_create(o),
    framebuffer     |-> fb_create(o)]

(* The kinds that are not the driver's: the ones of the WSI library, of    *)
(* wayland and of malloc.                                                  *)
Created(o) == IF o[1] \in DOMAIN device_funcs(o) THEN device_funcs(o)[o[1]] ELSE nothing

free_command_buffers(o) == {<<o, "base">>}

(* Every other destroy function is empty. *)
Freed(o) == IF o[1] = "command_buffer" THEN free_command_buffers(o) ELSE {}
-----------------------------------------------------------------------------
(* What the driver says of itself: one type of memory, which is not local  *)
(* to the device, one queue family, and both tilings can be sampled.       *)
memory_types    == <<{"host_visible"}>>
queue_families  == <<{"graphics"}>>
sampled_tilings == {"linear", "optimal"}
=============================================================================
