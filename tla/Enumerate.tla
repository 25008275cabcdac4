------------------------------ MODULE Enumerate ------------------------------
(***************************************************************************)
(* The two-call protocol of the queries that return a list: a first call   *)
(* without an array asks for the count, a second one fills an array of the *)
(* size the application has chosen.  The functions are those of            *)
(* src/wsi/extensions.c, surface.c, swapchain.c and display.c.             *)
(*                                                                         *)
(* A reply is the count the call stores, the elements it writes and its    *)
(* result.                                                                 *)
(***************************************************************************)
EXTENDS Integers, Sequences, FiniteSets, SequencesExt

CONSTANTS
    IcdNames,   \* names of ICD extensions; "swapchain" and "surface" are also the WSI layer's
    TbmFormats, \* formats a layer or libtbm may support in any combination
    MaxItems,   \* bound on images, displays, planes and modes
    MaxLimit    \* bound on the size of the application's array

ASSUME QueriesAssumption == IsFiniteSet(IcdNames) /\ MaxItems \in Nat /\ MaxLimit \in Nat

VARIABLES
    icd,        \* the extensions of the ICD, of a device or an instance
    tbm,        \* the TBM formats that are supported
    tplModes,   \* the present modes of the native window
    items,      \* the images of a swapchain, or what a display query lists
    op,         \* the query
    asked,      \* the count of the first call, -1 before it
    limit,      \* the size of the array of the second call
    reply       \* its reply

vars == <<icd, tbm, tplModes, items, op, asked, limit, reply>>
environment == <<icd, tbm, tplModes, items>>

Least(a, b) == IF a < b THEN a ELSE b
Reply(count, written, result) == [count |-> count, written |-> written, result |-> result]
NoReply == Reply(0, <<>>, "none")

(* A mutant: a short array is not reported. *)
FillSilent(list, n) == Reply(Least(n, Len(list)), SubSeq(list, 1, Least(n, Len(list))), "success")

(* The common form: as many as fit, VK_INCOMPLETE if some do not. *)
Fill(list, n) ==
    LET k == Least(n, Len(list)) IN
    Reply(k, SubSeq(list, 1, k), IF k < Len(list) THEN "incomplete" ELSE "success")

(* The entries of a table at the places P: each is put behind those before *)
(* it.                                                                     *)
Chosen(table, P) ==
    [k \in 1..Cardinality(P) |->
        table[CHOOSE i \in P : Cardinality({j \in P : j < i}) = k - 1]]

SwapchainImages(n) == Fill(items, n)
DisplayQuery(n)    == Fill(items, n)
-----------------------------------------------------------------------------
(* supported_formats: several TBM formats are one Vulkan format. *)
SupportedFormats == <<
    <<"RGBA8888", "B8G8R8A8">>, <<"XRGB8888", "B8G8R8A8">>, <<"ARGB8888", "B8G8R8A8">>,
    <<"XBGR8888", "A8B8G8R8">>, <<"ABGR8888", "A8B8G8R8">>, <<"RGB888", "B8G8R8">>,
    <<"BGR888", "R8G8B8">>, <<"RGB565", "R5G6B5">>, <<"BGR565", "B5G6R5">>,
    <<"RGBX4444", "R4G4B4A4">>, <<"RGBA4444", "R4G4B4A4">>, <<"BGRX4444", "B4G4R4A4">>,
    <<"BGRA4444", "B4G4R4A4">>, <<"ARGB1555", "A1R5G5B5">>, <<"XRGB1555", "A1R5G5B5">>,
    <<"RGBX5551", "R5G5B5A1">>, <<"RGBA5551", "R5G5B5A1">>, <<"BGRX5551", "B5G5R5A1">>,
    <<"BGRA5551", "B5G5R5A1">>, <<"XRGB2101010", "A2R10G10B10">>,
    <<"XBGR2101010", "A2B10G10R10">>, <<"ABGR2101010", "A2B10G10R10">>>>

TableFormats == {f[1] : f \in Range(SupportedFormats)}

(* A mutant: the bytes are named in the order of the Vulkan format. *)
BytesAsNamed == [R8G8B8 |-> "RGB888", B8G8R8 |-> "BGR888"]

(* TBM names three bytes from the last one on. *)
ThreeBytes == [R8G8B8 |-> "BGR888", B8G8R8 |-> "RGB888"]

(* The TBM format of a swapchain, for an opaque and for a premultiplied    *)
(* composite alpha, the two that the capabilities offer.                   *)
get_tbm_format == [
    R4G4B4A4    |-> [opaque |-> "RGBX4444",    premultiplied |-> "RGBA4444"],
    B4G4R4A4    |-> [opaque |-> "BGRX4444",    premultiplied |-> "BGRA4444"],
    R5G6B5      |-> [opaque |-> "RGB565",      premultiplied |-> "RGB565"],
    B5G6R5      |-> [opaque |-> "BGR565",      premultiplied |-> "BGR565"],
    R5G5B5A1    |-> [opaque |-> "RGBX5551",    premultiplied |-> "RGBA5551"],
    B5G5R5A1    |-> [opaque |-> "BGRX5551",    premultiplied |-> "BGRA5551"],
    A1R5G5B5    |-> [opaque |-> "XRGB1555",    premultiplied |-> "ARGB1555"],
    R8G8B8      |-> [opaque |-> ThreeBytes.R8G8B8, premultiplied |-> ThreeBytes.R8G8B8],
    B8G8R8      |-> [opaque |-> ThreeBytes.B8G8R8, premultiplied |-> ThreeBytes.B8G8R8],
    B8G8R8A8    |-> [opaque |-> "XRGB8888",    premultiplied |-> "ARGB8888"],
    A8B8G8R8    |-> [opaque |-> "XBGR8888",    premultiplied |-> "ABGR8888"],
    A2R10G10B10 |-> [opaque |-> "XRGB2101010", premultiplied |-> "ARGB2101010"],
    A2B10G10R10 |-> [opaque |-> "XBGR2101010", premultiplied |-> "ABGR2101010"]]

CompositeAlphas == {"opaque", "premultiplied"}

Formats == Chosen(SupportedFormats, {i \in DOMAIN SupportedFormats : SupportedFormats[i][1] \in tbm})
SurfaceFormats(n) == Fill([i \in DOMAIN Formats |-> Formats[i][2]], n)

PresentModes == <<"FIFO", "MAILBOX", "IMMEDIATE", "FIFO_RELAXED">>

TplPresentModes(n) ==
    Fill(Chosen(PresentModes, {i \in DOMAIN PresentModes : PresentModes[i] \in tplModes}), n)

(* tdm_get_surface_present_modes leaves the count as the application gave  *)
(* it.                                                                     *)
TdmPresentModes(n) ==
    Reply(n, SubSeq(PresentModes, 1, Least(n, 4)), IF n < 4 THEN "incomplete" ELSE "success")
-----------------------------------------------------------------------------
(* wsi_instance_extensions; "surface" may be the ICD's too.  module_init   *)
(* asks the ICD for its count, adds the WSI layer's, and has the ICD fill  *)
(* an array of that size, behind which it appends.                         *)
WsiInstanceExtensions == <<"surface", "wayland_surface">>

InstanceExtensions ==
    Fill(icd, Len(icd) + Len(WsiInstanceExtensions)).written \o WsiInstanceExtensions

(* wsi_device_extensions *)
WsiExtensions == <<"swapchain">>

Missing(names) ==
    Chosen(WsiExtensions, {i \in DOMAIN WsiExtensions : WsiExtensions[i] \notin Range(names)})

(* A mutant: an extension of both lists is counted twice. *)
DeviceExtensionCountAll == Len(icd) + Len(WsiExtensions)

(* The first call leaves out the WSI extensions the ICD has. *)
DeviceExtensionCount == Len(icd) + Len(Missing(icd))

(* A mutant: the room left is that for the ICD extensions too. *)
DeviceExtensionsOverrun(n) ==
    LET copied == SubSeq(icd, 1, Least(n, Len(icd)))
        list   == copied \o Missing(copied)
    IN  Reply(Len(list), list, IF Len(list) < Len(icd) THEN "incomplete" ELSE "success")

(* A mutant: the WSI extensions are appended whatever the ICD has. *)
DeviceExtensionsTwice(n) == Fill(icd \o WsiExtensions, n)

(* The second call copies the ICD extensions, then the WSI extensions that *)
(* are not among the copied ones while there is room.                      *)
DeviceExtensions(n) ==
    LET total  == Len(icd) + Len(WsiExtensions)
        room   == Least(n, total)
        copied == SubSeq(icd, 1, Least(room, Len(icd)))
        added  == SubSeq(Missing(copied), 1, Least(room - Len(copied), Len(Missing(copied))))
        most   == total - (Len(WsiExtensions) - Len(Missing(copied)))
    IN  Reply(Len(copied) + Len(added), copied \o added,
              IF Len(copied) + Len(added) < most THEN "incomplete" ELSE "success")
-----------------------------------------------------------------------------
Queries == {"images", "displays", "formats", "tpl_modes", "tdm_modes", "extensions",
            "instance_extensions"}

Count == [
    images |-> Len(items), displays |-> Len(items), formats |-> Len(Formats),
    tpl_modes |-> Cardinality(tplModes), tdm_modes |-> 4,
    extensions |-> DeviceExtensionCount, instance_extensions |-> Len(InstanceExtensions)]

Filled(n) == [
    images |-> SwapchainImages(n), displays |-> DisplayQuery(n), formats |-> SurfaceFormats(n),
    tpl_modes |-> TplPresentModes(n), tdm_modes |-> TdmPresentModes(n),
    extensions |-> DeviceExtensions(n), instance_extensions |-> Fill(InstanceExtensions, n)]

Init ==
    /\ op \in Queries
    /\ icd \in IF op \in {"extensions", "instance_extensions"} THEN SetToAllKPermutations(IcdNames) ELSE {<<>>}
    /\ tbm \in IF op = "formats"
                THEN SUBSET TbmFormats \cup {{f} : f \in TableFormats} \cup {TableFormats} ELSE {{}}
    /\ tplModes \in IF op = "tpl_modes" THEN SUBSET Range(PresentModes) ELSE {{}}
    /\ items \in IF op \in {"images", "displays"}
                 THEN {[i \in 1..n |-> i] : n \in 0..MaxItems} ELSE {<<>>}
    /\ asked = -1 /\ limit = 0 /\ reply = NoReply

(* The first call, and after VK_INCOMPLETE the next turn of the loop of    *)
(* samples/vulkaninfo.c.                                                   *)
Ask ==
    /\ asked = -1 \/ reply.result = "incomplete"
    /\ asked' = Count[op]
    /\ limit' = 0 /\ reply' = NoReply
    /\ UNCHANGED <<environment, op>>

(* The second call, with an array of the count asked for or another size. *)
Get(n) ==
    /\ reply.result = "none"
    /\ limit' = n
    /\ reply' = Filled(n)[op]
    /\ UNCHANGED <<environment, op, asked>>

Next ==
    \/ Ask
    \/ \E n \in 0..MaxLimit : Get(n)

Spec == Init /\ [][Next]_vars
-----------------------------------------------------------------------------
(* One round of the protocol is enough: an array of the size asked for is  *)
(* filled to the last place and the result is VK_SUCCESS, on which every   *)
(* client in samples/ asserts.                                             *)
OneRoundIsEnough ==
    asked >= 0 /\ limit = asked /\ reply.result # "none" =>
        /\ reply.result = "success"
        /\ reply.count = asked /\ Len(reply.written) = asked

(* VK_INCOMPLETE means that something is missing, and only that; nothing   *)
(* is written behind the array of the application.                         *)
RepliesHonest ==
    reply.result # "none" =>
        /\ Len(reply.written) <= limit
        /\ reply.result = "incomplete" <=> Len(reply.written) < Count[op]

(* Every extension appears once, but an instance extension that the ICD    *)
(* lists too: a loader that removes duplicates does not change the count.  *)
ExtensionsOnce ==
    op \in {"extensions", "instance_extensions"} =>
        \/ IsInjective(reply.written)
        \/ op = "instance_extensions" /\ Range(icd) \cap Range(WsiInstanceExtensions) # {}

(* vk_CreateSwapchainKHR accepts every format a surface lists, with every  *)
(* composite alpha it offers, and takes a TBM format that is listed as the *)
(* same Vulkan format, if it is listed at all.  That the surface supports  *)
(* the one it takes is not sure: RGBA8888 lists B8G8R8A8, XRGB8888 or      *)
(* ARGB8888 is taken.                                                      *)
FormatsCreatable ==
    LET listed == Formats IN
    \A i \in DOMAIN listed : \A alpha \in CompositeAlphas :
        LET f == listed[i][2] IN
        /\ f \in DOMAIN get_tbm_format
        /\ \A j \in DOMAIN SupportedFormats :
               SupportedFormats[j][1] = get_tbm_format[f][alpha] => SupportedFormats[j][2] = f
=============================================================================
