# vulkan-wsi-tizen in TLA+

A verification development for the Vulkan window-system integration layer of
Tizen (`src/` of this repository): TLA+ modules translated from the C source,
TLC configurations that model-check them, and theorems checked by TLAPS.
Paths below are relative to the repository (`src/wsi/...`, `samples/...`).

## 1. The system

The library sits between the Vulkan loader and a driver (the ICD). It answers
the WSI entry points itself and asks the ICD for the rest.

| Component | Source | State it keeps | Operations | What makes it correct |
|---|---|---|---|---|
| TDM backend | `src/wsi/swapchain_tdm.c` | TBM surface queue, front buffer, two mutexes and a condition variable, per-surface timeline and timestamp | acquire, present, commit callback, get_buffers, init, deinit | one owner per surface, no lost wake-up, one retirement per presentation, no rendering to a surface on the screen, every call returns |
| TPL backend | `src/wsi/swapchain_tpl.c` | TPL display and surface references | the same five, delegated to libtpl-egl | references balanced, every failure cleaned up |
| Swapchain front end | `src/wsi/swapchain.c` | the `vk_swapchain` with its images | create, destroy, get images, acquire, present | nothing leaked by a failing create, errors reported |
| Surfaces | `src/wsi/surface.c`, `wsi.h` | shared TPL display | capabilities, formats, present modes | references balanced, advertised formats can be created |
| Displays | `src/wsi/display.c` | displays, planes, built-in and custom modes per physical device | discovery, queries, create mode | handles stay valid, arrays stay in bounds |
| ICD, extensions, entry points | `src/wsi/icd.c`, `extensions.c`, `entry-points.c` | loaded driver, extension lists, entry table | load/unload, enumerate, lookup | a load that stops harms nobody who looks first, lookups agree, merged lists have no duplicate |
| Utilities | `src/utils/` | intrusive lists, hash maps, log fd | insert, remove, look up | list and map behave like a sequence and a map |
| Null driver | `src/null-driver/` | stub objects, one block of memory or two each | the driver entry points | command buffers are given back, a failing create is reported |
| Samples | `samples/` | `tri.c`: every object of a Vulkan program, a set-up command buffer, the result of the last call | start, prepare, draw loop, resize, clean-up | nothing destroyed before what depends on it or while the device uses it, layouts as declared, nothing left |

How they interact: `vk_AcquireNextImageKHR` and `vk_QueuePresentKHR` call the
backend through function pointers in `vk_swapchain`; the backend returns a
surface and a sync fd that the front end passes to the ICD
(`vkAcquireImageTIZEN`, `vkQueueSignalReleaseImageTIZEN`). libtdm calls the
commit callback from `tdm_display_handle_events`, in whichever thread runs it;
the `tdm_display` is shared by the swapchains of a physical device, and so is
the power state of the output. The TPL display is shared by swapchains and
capability queries through a reference count.

The hard parts are listed with their lines under `hazards` in `PROJECT.json`:
the race of callback and next present for the front buffer, surfaces released
while still scanned out, the condition variable with timeouts, error returns in
the middle of a present (two of them with a mutex locked), user data that is
lost, the order of overlapping swapchain lifetimes, a display object looked up
and referenced in two steps, mode handles that are addresses in an array that
may move, discovery that goes on after a failing output, a library that stays
half loaded without telling anybody, and a client that recreates its swapchain in
the middle of a frame, before the device is idle.

## 2. Modules

| Module | Models | Composed with |
|---|---|---|
| `ImageOwnership` | what a backend promises: every image has one owner, free images are handed out in the order they were recycled | - |
| `SwapchainTdm` | acquire, present, fence and callback of the TDM backend, step by step | implements `ImageOwnership` (instance `Ownership`) |
| `SwapchainTdmProofs` | theorems about its types, mutexes and retirement; one owner for each surface; the refinement of `ImageOwnership`, and its free list | extends `SwapchainTdm` |
| `WaitingProofs` | what its calls wait for: frames, wake-ups, mutexes; the acquire fences: not too late, not too early | extends `SwapchainTdmProofs` |
| `SwapchainLifecycle` | create and destroy on both backends, failing at any stage | - |
| `LifecycleProofs` | theorems about it | extends `SwapchainLifecycle` |
| `TplDisplay` | the TPL display of a native display: references of queries and swapchains, by several threads | - |
| `TplDisplayProofs` | theorems about it | extends `TplDisplay` |
| `DisplayModes` | discovery of displays, planes and modes; `vk_CreateDisplayModeKHR` | `Icd`, which uses its actions |
| `Icd` | loading and unloading of the library, lookups of entry points, the bound physical device | extends `DisplayModes` |
| `IcdProofs` | theorems about `Icd` and its displays | extends `Icd` |
| `Enumerate` | the two-call protocol of all list queries, the merge of the extensions, the format tables | - |
| `QueryProofs` | theorems about the replies, the merged extensions and the tables | extends `Enumerate` |
| `KeyMap` | what a map promises: a function from keys to data | - |
| `VkMap` | the hash map of `src/utils/map.c` | implements `KeyMap` (instance `Abstract`) |
| `VkList` | the linked lists of `src/utils/utils.h` with their safe loops | - |
| `LibraryProofs` | the hash map implements `KeyMap` and frees its data once; the rings carry what the lists should contain | extends `VkMap` and `VkList` |
| `NullDriver` | the creating and destroying functions of the null driver, as sets of outcomes | `TriClient` |
| `TriClient` | `samples/tri.c` on a driver, with the device, the presentation engine and the window | extends `NullDriver` |
| `TriProofs` | theorems about the order of its calls: command buffers, and what the device still uses | extends `TriClient` |
| `MC...` | instances for TLC; `MCLibrary` joins `Enumerate`, `VkMap` and `VkList`, which share no state, in one run: an initial state belongs to one of them | |

### SwapchainTdm

A thread is a program counter `pc[t]` and its variable `tbm_surface`
(`surface[t]`). One action is the code between two points that others can
observe: taking or giving back a mutex, sleeping, a libtbm or libtdm call. The
pc names are those of the calls (`enqueue`, `acquire`, `set_buffer`, `commit`,
`events`, `release`, ...); `Faults` is the set of pcs whose call may fail, and a
failing call takes the error return of the code, the locked mutexes included.

* `tbm_surface_queue` is `freeQueue` and `dirtyQueue` (FIFO); `app` is what the
  application holds; `lost` is what an error return left nowhere.
* A TBM timeline is the counter `timeline[b]`; a fence is the point `fence[b]`,
  signalled when the counter reaches it, 0 for "no fence" (-1 in the code).
  `key[b]` says whether the timeline user data was made (`ok`), failed (`-1`), or
  is still absent, `timestamp[b]` is the other user data.
* `StampKept = FALSE` is libtbm as the code uses it for the timeline key: a value
  set under a key that was never added is not stored. What the uninitialised
  `timestamp` then holds is any element of `LostStamps`.
* `layer`, `pending`, `screen` and `ready` are libtdm: the surface set on the
  layer, the frames committed, the one scanned out, the callbacks to dispatch.
  `WaitsForEvent` says whether `tdm_display_handle_events` returns only after an
  event; the safety runs also let it return at once.
* `Dispatchers` are threads presenting on other swapchains of the display: they
  run this swapchain's callbacks.
* `IcdAcquire` and `IcdRelease`: the ICD exports the two TIZEN functions. With
  them, rendering waits for the acquire fence and a present for the rendering,
  so `PresentFenceWait` is enabled once the fence has signalled.
* `shown` counts presentations and `missed` the increments of a timeline that failed
  (`timeline_inc` in `Faults`), which the code only logs before it clears or
  replaces the front buffer (`swapchain_tdm.c:61-65`); both are history variables.

`Faults` covers the calls of libtbm and libtdm but for the user data: once there, adding,
setting and reading them succeeds. `pthread_mutex_lock` and `pthread_cond_wait` do not
fail either (the code logs and goes on). Spurious wake-ups are a step of their own. `abs_time` is abstracted to "the
timeout may expire at any moment of the wait".

### SwapchainLifecycle

`Stages` lists, per backend, the resources and calls a create goes through.
`CreateFails(c, k, n)` fails at stage `n` and applies the clean-up of that place:
none after the early return for the format, the backend's own error label while
`chain->deinit` is not set, everything afterwards. `dpms` is the output's power
state, `saved[c]` the copy in `swapchain_tdm.tdm_dpms`, `pending[c]` the commits
that libtdm holds with the chain as user data. `leaked` collects what failing
creates leave behind; `before` and `unread` are history variables for the properties
on the power state.

### TplDisplay

A call is `create`, and if the native display has an object already `get` and
`reference` (`vk_get_tpl_display`, `wsi.h:197-200`); then it uses the display and
gives the reference back, or keeps it in a swapchain. `refs[o]` is libtpl's
reference count, an object with 0 is freed and its address may be used again;
`registered` is what `tpl_display_get` finds. `chain[c]` and `surf[c]` are the
`tpl_display` and the `tpl_surface` of a swapchain. A failing capability query
returns with its reference (`surface.c:62`), a failing init takes the error label,
whose order (display, surface) is not that of the deinit. Calls of any threads
overlap in any way: nothing in this code serialises them. So a display may be freed
between its lookup and its reference; referencing it then is undefined
behaviour, after which the model says nothing more (`corrupt`). A lookup inside libtpl is
one step, as it is under libtpl's own lock. Three history variables serve the
properties: `kept` counts what failing capability queries keep, `shelter[t]` are the
swapchains that were live when the call's `create` found the display taken and still
are, and `overlapped` says whether two calls have ever been under way at once.

### DisplayModes

`AddOutput` is one turn of the discovery loop: an output that cannot describe
itself is not counted, its slot is used again, and its modes array is the memory
nobody frees. `planes` holds, per plane, the index of the display it is on.
`CreateDisplayMode` looks in the built-in modes, then in the custom ones, then
reallocates the custom array. The handle of a mode is the address of its
element: `<<"built-in", d, p>>`, or `<<"custom", b, i>>` with the block `b` that
`realloc` returned, which may be the old one or any that is free. `broken` and `moved`
are history variables: outputs that could not describe themselves, displays whose
array has moved.

In `Icd` the same actions are steps of the constructor (`InitDisplay`), of the
application (`CreateMode`) and of the destructor (`Unload`).

### Icd

`LoadStages` are the stages of `module_init`, in their order; at the first that fails it
returns, with `have` as what it has got. The application is not told: what it can
see is `listed`, whether any instance extension is there. `driver` is the ICD: a
name it may lack (`Lacking`) and whether each enumeration makes new
physical devices (`fresh`), as the null driver does. A call through a pointer that is
NULL ends in `crashed`: a lookup handed to an ICD that was not found, an
extension query, a display query with a second physical device, the images of a
swapchain (`CreateSwapchain`). The lookups are operators over the tables of
`entry-points.c` and of the null driver; `Delegate` is a lookup that the ICD has to answer,
`through` being the pointers it looks up and calls on the way.

### Enumerate

A reply is the count a call stores, the elements it writes, and its result.
`Ask` is the first call and `Get(n)` the second with an array of `n`; after
`VK_INCOMPLETE` the client asks again, as `samples/vulkaninfo.c` does. `Fill` is
the form most queries share; the present modes of a display surface and the
device extensions differ from it and have definitions of their own.
`SupportedFormats` is the table of `surface.c` and `get_tbm_format` the one of
`swapchain.c`, in both directions whole. A format is written without the `_UNORM`
and `_PACK` parts of its name, which no two formats of the tables differ in.

### VkMap and VkList

A bucket is the sequence of its entries. A datum is a number, given once, so that
freeing it twice and forgetting it can be told apart; `owned`, `freed` and `dropped`
record what became of it. `hash` is any function from keys to buckets, chosen initially: no
property may rest on the arithmetic of the three hash functions, which are not
modelled. A key is a pair of words: the comparison of 64 bit keys keeps
the low one (`map.c:140`).

`ring` holds the links of `VkList`, node by node; `order` is the history of what the
lists should contain. A loop keeps its position and the saved successor between
turns, and its body may remove the element at hand, as the macros allow. Elements are
inserted while in no list, and no other operation runs inside a loop.

### NullDriver and TriClient

A function of the null driver is the set of its outcomes: the blocks it keeps and whether
it succeeds; every `malloc` may fail. A create that needs two blocks
keeps the first when the second fails, and only `vkFreeCommandBuffers` frees any.

In `TriClient` a function of the program is the sequence of its calls. `todo` is
what remains to be done and each step performs its head, so that an inner call,
like the resize in the middle of a draw, is put in front. `live` are the program's
objects, `heap` the null driver's blocks. The device takes submissions from `queue`,
carries out their barriers on `layout`; the presentation engine holds the images in
`shown`, at most `keeps` for good; `window` changes at any time, and an
acquire or present on a swapchain of another size may be out of date. `setup` is
the field `setup_cmd` of the program: null, set, or set and freed. A submission records
what it uses, the barriers it carries out, the images it shows, and with which layout
each texture is sampled; that layout is `declared`, what `vkUpdateDescriptorSets` last
wrote. Two drivers: "null", whose mallocs fail, and "other", on which any creation and any call
whose result is asserted may fail (`MayFail`, `Asserted`), with any set of sampled
tilings, and a window system that reports sizes; the calls of the library fail on both.
This library itself never answers `VK_ERROR_OUT_OF_DATE_KHR`, so the resize only runs with
the other one. That driver may list validation layers, and finds queue families of any
kind. The program's own `malloc` and the objects of Wayland are always there.

The program runs, or has ended: "done" (returned from `main`), "aborted" (a failed
assert), "exited" (`ERR_EXIT`), "no_global" (a Wayland global that had not come),
"stale_command" (a freed set-up command buffer is recorded into), "null_surface". The
last one is the creation of the surface, the one result the program does not look at
(`tri.c:2244`): it goes on, through `vkGetPhysicalDeviceSurfaceSupportKHR`, which does not
look at the surface (`surface.c:38-45`), and the creation of the device, to the query of the
surface formats, which reads through the null handle (`surface.c:294`).

## 3. Runs

| Run | Question | Result |
|---|---|---|
| `tdm_safety` | one presenter, two acquirers (one timed), a dispatcher, 2 surfaces, 2 presents, any call of libtbm and libtdm failing that leaves no mutex locked, but those on user data: mutexes, condition variable, retirement, reachability of fences, refinement of `ImageOwnership` | holds |
| `tdm_two_queues` | two presenters and a timed acquirer on 2 surfaces, 3 presents, and the two failures that keep a mutex locked: one owner for each surface, the queued frames; a sleeping acquirer is served, unless a mutex is kept | holds |
| `tdm_live` | one presenter, 3 surfaces, 5 presents, fewer images held than exist: a present returns, presented images are recycled; nothing rendered to is on the screen, provided the timestamp is kept | holds |
| `tdm_lost_stamp` | the last property of `tdm_live` with the timestamp key as the code uses it | **violated** |
| `lifecycle` | three nested swapchains on both backends, every create failing at every stage: nothing leaks; the output is on while a display swapchain lives and restored afterwards | holds, see below |
| `lifecycle_recreate` | the output is on, when a swapchain is re-created and the old one destroyed afterwards | **violated** |
| `lifecycle_callback` | a commit callback finds its chain | **violated** |
| `tpl_references` | 3 threads, 2 swapchains, all calls concurrent and failing: each reference has an owner, the display looked up is there to be referenced if a swapchain was kept or no calls overlapped, a surface does not outlive its display | holds, see below |
| `display_modes` | the library from loading to unloading: 2 outputs, any failure, 3 custom modes on each, moving arrays, a load that stops at any stage, an ICD without one of the functions called, two enumerations of the physical devices. Planes belong to displays, a handle is a mode, unloading frees the arrays; calls through NULL have one of three causes; all lookups agree | holds, see below |
| `enumerate` | every list query and array size: one round suffices, nothing is written behind the array, `VK_INCOMPLETE` means incomplete, no extension twice, every listed format can be created. The map, with every hash function into two buckets, implements `KeyMap` and frees each datum once; the lists match their sequences through insertions, removals, splices and loops | holds, see below |
| `tri` | two frames of `samples/tri.c` on both drivers, with and without staging and validation, any asserted call failing, the window changing twice: nothing is destroyed before what is made from it, the device finds every image in the layout the commands name and the texture in the one recorded for it, attachments have one size, nothing is left, no pending object is touched, the program ends | holds, see below |
| `tri_descriptor` | one frame on the null driver: the texture is in the layout that the descriptor set declares | **violated** |

Bounds. `MaxPresents` bounds the presents. Two surfaces are the minimum a
display surface advertises and three its maximum (`src/wsi/surface.c`), so the
runs use these. With two presents of two surfaces one surface can be presented
twice, which is what a stale front buffer or timeline needs; `tdm_safety` has this
bound because it has four threads and ten failing places, and
`tdm_two_queues` three. `tdm_live` and `tdm_lost_stamp` use five, so that a surface is
acquired a third time, the first acquire a lost timestamp can spoil. `MaxHeld` is
the number of images the application acquires at a time. Because `MaxPresents` is finite, and because an
application may stop, the TDM runs do not check deadlock; the liveness
properties say what must not get stuck. Surfaces are symmetric in the runs
without liveness.

`MaxRefs` caps the references that failing capability queries leave behind; at 5
it exceeds what the threads and swapchains of the runs hold together, so that a
left-behind reference meets every combination of them. Two addresses let a TPL
display be freed and made again elsewhere. Three blocks are more than the custom
arrays of the two displays occupy, so an array can move, and move back.
`MaxCustom` bounds the custom modes of a display, `MaxItems` the lists and
`MaxLimit` the arrays of the application; 6 is above every list of items
and extensions, so arrays are too small, fitting and too large. `TbmFormats` are
supported in any combination, each other format of the table alone, and all
together. `MaxGpus` is 2: one more handle than `dev.pdev` can hold. `Lacking` is every
function of the ICD that the library calls itself, one of them missing at a time. `BucketBits` is 1
and there are four keys, so keys collide in every way; `MaxData` bounds the
data given to the map. Two list heads and three elements allow a splice into the
middle of a list that is not empty.

In `tri`, `MaxImages` allows swapchains of two and three images, `Resizes` = 2 a
second recreation during the first frame and one between frames; two frames
(`FrameCounts`) use a command buffer again. `tri_descriptor` needs one frame and no
resize. The runs of `Icd`, `MCLibrary` and `TriClient` stop
when all is unloaded, asked or ended, so they do not check deadlock either.

Fairness (`Fairness` in `SwapchainTdm`): a thread that can run does (weak); a
thread waiting for a mutex gets it if it is free again and again (strong), as a
pthread mutex of a scheduler that starves nobody; the display keeps refreshing
(weak, `Vblank`). Nothing is assumed of the application: it may stop acquiring
or presenting, and of spurious wake-ups and timeouts. In `TriClient` the program's thread
is scheduled, the device finishes what it is given, and the presentation engine
gives back images beyond those it may keep (all weak); the window may stay as it is.

What the liveness runs leave out. With two presenting queues
`PresentReturns` does not hold: the thread that released its surface first may
be the last to set `front_buffer`, and if that surface has already been acquired
again, its present waits for a retirement that only a further present would
bring. With one queue and at least one image not held it holds.
`AcquirerServed` needs two queues, which together with the acquirer take all surfaces: it is
part of `tdm_two_queues`, and excepts a mutex that an error return has kept (`KeptLocked`).

Known weaknesses. The properties below hold with an exception, each of them a place
where the code does less than one might hope. The exception is part of the formula
or of the assumptions, so that nothing else can hide behind it.

* A display found with `tpl_display_get` may be freed before it is referenced
  (`wsi.h:198-200`). `ReferenceFindsDisplay` states when it is not: if a swapchain that
  was live when `tpl_display_create` found the display taken is kept until then
  (`shelter`), or if no two calls have overlapped. In every other case two threads are
  enough to lose it. The other properties of `TplDisplay` hold up to that moment.
* A timeline whose increment fails stays a point behind (`swapchain_tdm.c:61`):
  `RetiredOnce` counts the failures in `missed`. The liveness runs are without them.
* A failing capability query keeps a reference (`surface.c:62`); `RefsBalanced`
  counts it in `kept`.
* The error label of `swapchain_tpl_init` unreferences the display before its
  surface (`swapchain_tpl.c:189`); `SurfaceHasDisplay` excepts it for an init that
  was the display's only user.
* A mode handle dangles when a further custom mode moves the array
  (`display.c:327`); `HandlesLive` excepts displays in `moved`. A lookup returns the
  stale `prop.displayMode`, so `HandlesAreModes` holds all the same; it is about the
  handles of one display, as a block given back may become another display's array.
* An output that fails after its modes array was made leaks it (`display.c:101`);
  `NothingLeaked` excepts those in `broken`. The `displayName` strings are never freed
  at all and are not in the model.
* A failing layer count adds as many planes as the output has modes
  (`display.c:123`); they still belong to a display.
* The count stored for a display surface's present modes is the application's own
  (`surface.c:377`); asking for more than four is answered with that number.
* The early return for the format (`swapchain.c:130`) leaks the chain, a failing init
  the backend's structure; `NothingLeaked` of the lifecycle excepts these two.
* A display create that fails in `get_buffers` before it has read the power state,
  or cannot read it, has "off" written back (`swapchain_tdm.c:404`): `OutputOn` and
  `OutputRestored` except this (`unread`).
* After a load that stopped before the ICD was found, lookups and queries call
  through NULL; and `vk_get_physical_device` (`icd.c:43`) returns NULL for every handle
  but the first. Three functions of the ICD are called unchecked: `vkGetInstanceProcAddr`
  (`entry-points.c:111-113`), `vkGetDeviceProcAddr` (lines 134-137), and
  `create_presentable_image` (`icd.c:82`, called at `swapchain.c:162`).
  `NullCallsExplained` states that these are the only causes: an application that finds an
  instance extension first, enumerates its devices once, and runs on an ICD with
  these three, never meets one. (`vk_DestroySwapchainKHR` checks what it looks up,
  `swapchain.c:204-207`.)
* The instance extensions of the WSI layer are appended whatever the ICD lists
  (`icd.c:109`), so `VK_KHR_surface` is there twice with the null driver; `ExtensionsOnce`
  excepts a name of both lists. The ICD is taken to list as many extensions
  in both calls of `module_init`, which does not compare the counts.
* `RGBA8888` is listed as `B8G8R8A8` (`surface.c:168`, a workaround by its comment) while
  a swapchain takes `XRGB8888` or `ARGB8888`, and a premultiplied `A2R10G10B10` takes
  `ARGB2101010`, which no surface lists: `FormatsCreatable` states that a swapchain
  takes a format of the same name where there is one, not that the surface supports it.
* 64 bit keys of the map are one key if their low words and buckets agree (`map.c:140`);
  `ImplementsMap` counts them as one. A datum for which there is no memory is dropped
  without a word (`map.c:398`), and setting the very datum that is there again would free
  it: the model gives each datum once. `vk_map_init` leaves clearing the buckets to its caller.
* `tri.c` resizes before the queue is idle when a present is out of date (`tri.c:589`):
  `PendingUntouched` excepts this path. The resize frees `setup_cmd` and keeps the
  field (`tri.c:2500`), so that a swapchain out of date before its first frame, without
  staging, is prepared with a freed command buffer: `StaleOnlyUnflushed` states that
  nothing else leads there. It never waits for its acquire semaphore (`tri.c:565`): the layouts are those of
  the order of submission alone, and the null driver makes no handle for one.
* `tri.c` declares another layout for its texture than the one it is in (`tri.c:1549`):
  `ExpectedLayouts` compares the texture with what the program records in
  `textures[i].imageLayout`, and `SampledLayouts`, violated in `tri_descriptor`, with the
  descriptor set.
* `tri.c` leaves two kinds of arrays and its connection behind (`Forgotten`); each
  resize leaves one more `swapchainImages`, which counts once, as `live` is a set. It
  assumes the globals after a single dispatch (`tri.c:2381`, status "no_global"). Without
  `--c` the frame count is `INT32_MAX`, which `demo_run` takes for "never" (`tri.c:1745`), and
  `--c 0` never ends either, as the counter is compared after it is incremented:
  `Terminates` is about the positive counts given with `--c` (`FrameCounts`). On
  the null driver `--use_staging` ends in an assert for want of device local memory.

### Findings

* `tdm_lost_stamp`: `swapchain_tdm_timestamp_key` is set but never added
  (`swapchain_tdm.c:171`, compare line 188). From the third acquire of a surface on
  its fence is made at a point that has passed, and the application renders to a
  surface that is on the screen.
* `lifecycle_recreate`: `samples/tri.c:687` destroys the old swapchain after it
  has created the new one; the old deinit restores the power state from before
  it (`swapchain_tdm.c:266`): the output goes off.
* `lifecycle_callback`: the swapchain is freed at once (`swapchain.c:218`), while a
  commit callback with it as user data may be pending.
* `tri_descriptor`: the descriptor set declares `VK_IMAGE_LAYOUT_GENERAL` for a texture
  (`samples/tri.c:1549`) that the barrier of `tri.c:914-917` (991-995 with staging) has
  taken to `SHADER_READ_ONLY_OPTIMAL`, the layout the sample records for it.

## 4. Proofs

A theorem below holds for every value of the constants that satisfies the named
assumptions of its module (non-empty, disjoint sets, natural bounds) and the hypotheses
it states itself: any number of threads, surfaces, swapchains, displays, modes or keys.
Each rests on an inductive invariant that TLC has checked on an instance first.

**The TDM backend.** `SwapchainTdmProofs`:

* `TypeCorrect`: `Spec => []TypeOK`. The inductive invariant `TypeInv` adds that a
  call past its dequeue, and a present, carries a surface; without it the
  application could be given "no surface".
* `LocksCorrect`: `Spec => []LocksHeld`, inductive with `TypeInv`.
* `RetiredOnceCorrect`: `Spec => []RetiredOnce`. The invariant needs `LocksHeld` (a
  single thread is between the increment and the update of `front_buffer`), counts
  a failing increment in `missed`, and needs `UnmadeInv`: a surface without a timeline was never shown, so that making the
  timeline late does not lose a retirement.

Each step lemma has one step per group of actions that disturb the same
variables; `RetiredFrame` covers those that touch neither the front buffer nor a
timeline.

Also there: `OneOwnerCorrect`, and `ImplementsOwnershipCorrect`, that each step of
the backend is a step of `ImageOwnership` or moves no image. `OneOwner` counts owners,
which is not inductive: `OwnInv` says instead that the queues, the application, the
lost surfaces and those in the hands of calls partition the surfaces, that the queues
list nothing twice, and that two calls never hold one surface.

`PromiseListsFree` is about `ImageOwnership` alone: whatever keeps its promise has a list
of exactly the free images, each once. Its invariant `FreeListed` is inductive with the types, and
`FreeListedCorrect` carries it over to the free queue of the backend by the refinement,
without another look at the threads.

`WaitingProofs`, on top of `OwnInv` and of `BusyFinite` (finitely many threads are inside
the backend, so that they can be counted):

* `FrameQueuedCorrect`: a present that comes to `tbm_surface_queue_acquire` finds a
  frame. No hypothesis.
* `NoLostWakeupCorrect`, if `tbm_surface_queue_dequeue` does not fail: a call that fails there
  leaves the surface it was woken for, and the mutex locked (`swapchain_tdm.c:249`).
* `LocksReturnedCorrect`, if neither `dequeue` nor `release` fails: their error returns
  leave with the mutex, and are the only ones. `DequeueFinds` is the strengthening: a
  call that has seen a free surface under the mutex still finds it.

and on the fences:

* `FenceReachableCorrect`: `FenceInv` bounds timestamp and fence of a surface by its
  presentations, complete or promised by a call past its release, and leaves room for
  one more point while the surface is free. It is proved for kept timestamps
  (`StampKept`) and for the code as it is if the uninitialised value it then reads is 0; for a
  larger value it is false.
* `RenderReleasedCorrect`: nothing rendered to is on the screen. `StampInv`: the timestamp of
  a surface is the exact number of its releases; `ShowInv`: what screen, layer, pending
  commits and `front_buffer` are at each point of a present. The hypotheses are a single
  presenting queue whose presents wait for their event, an ICD that takes the fence, kept
  timestamps, and no failure of the calls that make the fence and wait for the event.
  Any other call may fail. Without any one of them TLC finds a counterexample (for the
  timestamps it is run `tdm_lost_stamp`): they say when the protocol works, not that the
  code always meets them.

**Lifecycle.** `LifecycleProofs`, for any swapchains on both backends and any failing stage:

* `NothingLeakedCorrect`: what a stage has allocated and the clean-up forgets is the chain
  or the backend structure.
* `OutputOnCorrect`, `OutputRestoredCorrect`, for nested lifetimes (run `lifecycle_recreate`
  shows why): `PowerChain` says what every display swapchain has saved. The oldest has
  saved the state before it, every other one "on".

**TPL display.** `TplDisplayProofs`: `RefsBalancedCorrect`, `ReferenceFindsDisplayCorrect`,
`SurfaceHasDisplayCorrect`. `HandleInv`: a call on a swapchain that is not live has it for
itself; `RegisteredInv`: the only object with references is the one libtpl finds;
`SurfaceInv`: whose a `tpl_surface` is. `ReferenceFindsDisplayCorrect` is conditional, as the
property is: a live swapchain in `shelter` holds a reference to the registered display, so
that the lookup finds that one and nobody frees it; without an overlap the only
call under way is the one that looks.

**Library loading and displays.** `IcdProofs`, for any driver, outputs, modes, heap blocks and
bounds; of the constants only that `Params` is finite, the bounds are numbers and NULL
is no block:

* `NullCallsCorrect`: `Spec => []NullCallsExplained`. `LoadInv` says what each stage of the
  load has found and that listed extensions mean a complete load, `BoundInv` that the
  bound device was enumerated and an ICD with one handle gives one.
* `PlanesCorrect`: `Spec => []PlanesOnDisplays`. `PlanesInv` types the planes by the
  number of displays, which only grows until both are emptied; an unchecked layer
  count is some number.
* `ArraysFreed`: `Spec => []NothingLeaked`. `ArraysInv` gives every array an owner, a display
  or an output in `broken`, during discovery as well.
* `HandlesCorrect`: `Spec => []HandlesAreModes`. `CustomInv`: the custom modes of a display
  differ, are not built in, and the handle of one ends in its index; `GivenInv`: a
  handle given out is that of a mode, until the library is unloaded.
* `HandlesLiveCorrect`: `Spec => []HandlesLive`. `LiveInv`: unless the array of a display has
  moved, the handle of a custom mode is the address of its place.
* `LookupsCorrect`: `Spec => []LookupsAgree`, by the order in which the lookups ask the WSI
  layer and the ICD.

**Hash map.** `LibraryProofs`, for any words, hash function and number of buckets:

* `ImplementsMapCorrect`: `MapSpec => ImplementsMap`. The code stops at the first entry that
  compares equal; `HomeInv` and `OneEntryInv` (an entry is in the bucket of its key, and no
  two entries of a bucket compare equal) make it the only one, so that deleting it
  leaves nothing behind it for the key to find.
* `DataFreedOnceCorrect`: `MapSpec => []DataFreedOnce`. `DataInv` gives each datum one place: an
  entry, the dropped data or those freed.

**Lists.** Also in `LibraryProofs`, for any heads and elements:

* `ListsMatchCorrect`: `ListSpec => []ListsMatch`. `LinksInv` says of each pair of neighbours in
  the order, the head on both sides included, that each links to the other. `ApartInv`: no
  element is in two lists or twice in one, so that an insertion or a removal changes no
  link but those at its place. `LoopInv`: what a loop has seen and what it will still see
  together are its list as it was, without what its body took out, and the
  saved successor is the element after the one at hand even when that one is removed.

**Queries.** `QueryProofs`, for any limits, lists of extensions and supported formats:

* `OneRoundCorrect`, `RepliesCorrect`: `QueryInv` says that the lists asked about stay as they
  are, that the first call of every query answers with the length of its list, and that the
  reply is what the query fills into an array of that limit. Both need that a list chosen
  from a table has as many elements as are chosen, each once (`Chosen`).
* `ExtensionsCorrect`: a name is twice in the merged list only if the ICD and the WSI layer
  both have it.
* `FormatsCorrect`: `TableProperties` goes through the two format tables, then it holds for any
  set of supported TBM formats.

**Client.** `TriProofs`, for any number of frames, images and resizes:

* `CommandBuffersFreedCorrect`: `Spec => []CommandBuffersFreed`.
* `PendingUntouchedCorrect`: `Spec => PendingUntouched`.

Both are facts about the order of calls, and the state of the program is mostly what it has
still to do. So the invariant is about `todo`: `Closed` says which call follows which (a
submission is waited for, a draw is presented and a present waited for, the
command buffers are freed before their pool, the field is cleared behind the freed set-up
buffer) and that the calls end in the loop of `demo_run` or in the return. Every function
of the program is shown to be such a sequence (`Plain`, `Good`), and putting one in
front of the rest keeps it (`ObeysConcat`), which is all a step does. `HeadInv`, `SetupInv` and
`QueueInv` tie the first call to the objects, the field and the queue; `BlocksInv` ties the
driver's blocks to the objects; `ErrInv` is why the exception for
an out-of-date present is no larger than that: from there to the end of the wait no frame is drawn.

Only model-checked:

* liveness (`PresentReturns` and the others, `ImplementsFairOwnership`, `Terminates`, with
  their fairness), which is out of the prover's reach;
* the invariants `OwnersLive`, `ExpectedLayouts`, `SizesAgree` and `NothingLeft` of `TriClient` and its
  `StaleOnlyUnflushed`: an inductive invariant for them has to say which objects, layouts and sizes
  there are before every single call of the program, that is, to repeat the program;
  TLC goes through them all.

## 5. Plan

Done: the TDM backend, the lifecycle of both backends, `TplDisplay`,
`DisplayModes` and `Icd`, `Enumerate`, the map and the lists, the null driver and `tri.c`.

Left: several swapchains in one `vk_QueuePresentKHR`, with `pResults` and the release fds,
as a client of `ImageOwnership`.

Proofs to come: the objects of `TriClient` at each of its calls, from which `OwnersLive` and
`NothingLeft` would follow.

### Not modelled

* Logging (`log.c`): formatted output to a file descriptor; the allocator
  (`allocator.c`): wrappers of callbacks. Neither has a state a property could be about.
* Acquire and present of the TPL backend: both calls are libtpl-egl's.
* Surface and plane capabilities, `vk_CreateDisplayPlaneSurfaceKHR`: values copied out.
* The commands, binds and property queries of the null driver: empty or constant. Its
  events and semaphores succeed without a handle and hold no state.
* `samples/vulkaninfo.c`, a printer, except for its enumeration loop; the `_WIN32`
  branches of `tri.c` and shader data.
* The vendored headers under `include/vulkan/`, which declare and do not act.
