------------------------------- MODULE Icd -------------------------------
(***************************************************************************)
(* The library from its loading to its unloading: src/wsi/icd.c, which     *)
(* loads the ICD and binds the physical device, the lookups of             *)
(* src/wsi/entry-points.c, and the displays of DisplayModes, which the     *)
(* constructor discovers last.                                             *)
(*                                                                         *)
(* A function is <<"wsi", name>> or <<"icd", name>>, without the prefix    *)
(* vk.  The ICD answers like the null driver: vk_icdGetInstanceProcAddr    *)
(* knows every name, whatever the instance.                                *)
(***************************************************************************)
EXTENDS DisplayModes

CONSTANTS
    Lacking,    \* the names an ICD may lack, one at a time
    MaxGpus     \* bound on the enumerations of physical devices

VARIABLES
    driver,     \* the ICD: what it lacks, and whether every enumeration of
                \* its physical devices makes a new handle
    stage,      \* the next of LoadStages, or Displays, Ready, Unloaded
    have,       \* the stages that have succeeded
    listed,     \* icd.instance_extension_count is not 0
    gpus,       \* the handles the application has been given
    bound,      \* dev.pdev, 0 for VK_NULL_HANDLE
    crashed     \* a call through NULL has ended the process

icdVars == <<driver, stage, have, listed, gpus, bound, crashed>>
vars == <<displayVars, icdVars>>

LoadStages == <<
    "env", "dlopen", "icdGetInstanceProcAddr", "EnumerateDeviceExtensionProperties",
    "EnumerateInstanceExtensionProperties", "count", "malloc", "fill">>

Displays == Len(LoadStages) + 1
Ready    == Len(LoadStages) + 2
Unloaded == Len(LoadStages) + 3

Init ==
    /\ DisplayInit
    /\ driver \in [lacks : {{}} \cup {{n} : n \in Lacking}, fresh : BOOLEAN]
    /\ stage = 1 /\ have = {} /\ listed = FALSE
    /\ gpus = 0 /\ bound = 0 /\ crashed = FALSE
-----------------------------------------------------------------------------
(* A mutant: the count is stored as soon as it is known. *)
LoadListsEarly ==
    /\ stage \in DOMAIN LoadStages
    /\ LET name == LoadStages[stage] IN
       \/ /\ name \notin driver.lacks
          /\ have' = have \cup {name}
          /\ listed' = (name = "count" \/ listed)
          /\ stage' = stage + 1
       \/ /\ stage' = Ready
          /\ UNCHANGED <<have, listed>>
    /\ UNCHANGED <<displayVars, driver, gpus, bound, crashed>>

(* module_init returns at the first stage that fails, with what the ones   *)
(* before it have left in icd.                                             *)
Load ==
    /\ stage \in DOMAIN LoadStages
    /\ LET name == LoadStages[stage] IN
       \/ /\ name \notin driver.lacks
          /\ have' = have \cup {name}
          /\ listed' = (stage = Len(LoadStages))
          /\ stage' = stage + 1
       \/ /\ stage' = Ready
          /\ UNCHANGED <<have, listed>>
    /\ UNCHANGED <<displayVars, driver, gpus, bound, crashed>>

(* vk_physical_device_init_display, whose result is not looked at. *)
InitDisplay ==
    /\ stage = Displays
    /\ IF next > NOutputs THEN stage' = Ready /\ UNCHANGED displayVars
                          ELSE (AddOutput \/ InitFails) /\ UNCHANGED stage
    /\ UNCHANGED <<driver, have, listed, gpus, bound, crashed>>

(* module_fini; icd.lib is closed if there is one. *)
Unload ==
    /\ stage = Ready /\ ~crashed
    /\ Fini
    /\ stage' = Unloaded /\ have' = {}
    /\ UNCHANGED <<driver, listed, gpus, bound, crashed>>
-----------------------------------------------------------------------------
GlobalNames == {"EnumerateInstanceExtensionProperties"}

InstanceNames == {
    "EnumerateDeviceExtensionProperties", "GetPhysicalDeviceSurfaceSupportKHR",
    "GetPhysicalDeviceSurfaceCapabilitiesKHR", "GetPhysicalDeviceSurfaceFormatsKHR",
    "GetPhysicalDeviceSurfacePresentModesKHR", "GetPhysicalDeviceDisplayPropertiesKHR",
    "GetPhysicalDeviceDisplayPlanePropertiesKHR", "GetDisplayPlaneSupportedDisplaysKHR",
    "GetDisplayModePropertiesKHR", "CreateDisplayModeKHR", "GetDisplayPlaneCapabilitiesKHR",
    "GetPhysicalDeviceWaylandPresentationSupportKHR", "GetInstanceProcAddr",
    "CreateTBMQueueSurfaceKHR"}

DeviceNames == {
    "CreateSwapchainKHR", "DestroySwapchainKHR", "GetSwapchainImagesKHR", "AcquireNextImageKHR",
    "QueuePresentKHR", "CreateSharedSwapchainsKHR", "GetDeviceProcAddr"}

entry_points == GlobalNames \cup InstanceNames \cup DeviceNames

(* The tables of the null driver, one name for all the entry points of a   *)
(* table that nothing here looks up.                                       *)
global_funcs   == {"EnumerateInstanceLayerProperties", "EnumerateInstanceExtensionProperties",
                   "CreateInstance"}
instance_funcs == {"GetInstanceProcAddr", "EnumeratePhysicalDevices", "CreateDevice"}
device_funcs   == {"GetDeviceProcAddr", "EnumerateDeviceExtensionProperties",
                   "CreateImageFromNativeBufferTIZEN", "QueueSubmit"}

Null   == <<"null", "">>
Fault  == <<"fault", "">>
Wsi(n) == <<"wsi", n>>

IcdIn(table, n) == IF n \in table \ driver.lacks THEN <<"icd", n>> ELSE Null
get_instance_proc_addr(instance, n) ==
    IcdIn(IF instance THEN instance_funcs \cup device_funcs ELSE global_funcs, n)
get_device_proc_addr(n) == IcdIn(device_funcs, n)
icdGetInstanceProcAddr(n) == IcdIn(global_funcs \cup instance_funcs \cup device_funcs, n)

(* No lookup asks whether icd->get_proc_addr is NULL, nor whether one of   *)
(* the functions is that it was given to call.                             *)
Delegate(through, answer) ==
    IF "icdGetInstanceProcAddr" \in have /\ Null \notin through THEN answer ELSE Fault

vk_GetInstanceProcAddr(instance, n) ==
    IF n \in entry_points
    THEN IF (instance <=> n \notin GlobalNames) \/ n \in {"GetInstanceProcAddr", "GetDeviceProcAddr"}
         THEN Wsi(n) ELSE Null
    ELSE Delegate({icdGetInstanceProcAddr("GetInstanceProcAddr")},
                  get_instance_proc_addr(instance, n))

(* A mutant: only the ICD is asked for functions of the device. *)
DeviceProcOfIcd(n) == Delegate({}, get_device_proc_addr(n))

(* For a device that is not NULL: the ICD's vkGetDeviceProcAddr is asked   *)
(* for that of the device.                                                 *)
vk_GetDeviceProcAddr(n) ==
    IF n \in entry_points
    THEN IF n \in DeviceNames THEN Wsi(n) ELSE Null
    ELSE Delegate({icdGetInstanceProcAddr("GetDeviceProcAddr"),
                   get_device_proc_addr("GetDeviceProcAddr")},
                  get_device_proc_addr(n))

vk_icdGetInstanceProcAddr(n) ==
    IF n \in entry_points THEN Wsi(n) ELSE Delegate({}, icdGetInstanceProcAddr(n))

Names == entry_points \cup global_funcs \cup instance_funcs \cup device_funcs \cup {"unknown"}

Lookups(n) ==
    {vk_GetInstanceProcAddr(i, n) : i \in BOOLEAN}
        \cup {vk_GetDeviceProcAddr(n), vk_icdGetInstanceProcAddr(n)}

(* Any lookup by an application. *)
GetProcAddr(n) ==
    /\ stage = Ready /\ ~crashed
    /\ Fault \in Lookups(n) /\ crashed' = TRUE
    /\ UNCHANGED <<displayVars, driver, stage, have, listed, gpus, bound>>
-----------------------------------------------------------------------------
(* vkEnumeratePhysicalDevices of the ICD: a new handle every time, or the  *)
(* same one.                                                               *)
EnumeratePhysicalDevices ==
    /\ stage = Ready /\ ~crashed
    /\ vk_icdGetInstanceProcAddr("EnumeratePhysicalDevices")[1] = "icd"
    /\ gpus < MaxGpus
    /\ gpus' = IF driver.fresh THEN gpus + 1 ELSE 1
    /\ UNCHANGED <<displayVars, driver, stage, have, listed, bound, crashed>>

(* The extension queries copy icd.instance_extensions if there are any,    *)
(* and call icd.enum_dev_exts for a device.                                *)
Needed ==
    (IF listed THEN {"malloc"} ELSE {})
        \cup (IF gpus > 0 THEN {"EnumerateDeviceExtensionProperties"} ELSE {})

EnumerateExtensions ==
    /\ stage = Ready /\ ~crashed
    /\ ~(Needed \subseteq have) /\ crashed' = TRUE
    /\ UNCHANGED <<displayVars, driver, stage, have, listed, gpus, bound>>

(* module_init stores what the ICD answers for it, NULL included. *)
create_presentable_image ==
    IF "EnumerateDeviceExtensionProperties" \in have
    THEN icdGetInstanceProcAddr("CreateImageFromNativeBufferTIZEN") ELSE Null

(* vk_CreateSwapchainKHR on a device, once the backend has its buffers. *)
CreateSwapchain ==
    /\ stage = Ready /\ ~crashed /\ gpus > 0
    /\ create_presentable_image = Null /\ crashed' = TRUE
    /\ UNCHANGED <<displayVars, driver, stage, have, listed, gpus, bound>>

vk_get_physical_device(pdev) == bound \in {0, pdev}

(* The display queries, which use what vk_get_physical_device returns.     *)
UsePhysicalDevice(pdev) ==
    /\ stage = Ready /\ ~crashed
    /\ IF vk_get_physical_device(pdev) THEN bound' = pdev /\ UNCHANGED crashed
                                       ELSE crashed' = TRUE /\ UNCHANGED bound
    /\ UNCHANGED <<displayVars, driver, stage, have, listed, gpus>>

(* A display handle comes from a display query. *)
CreateMode(d, p) ==
    /\ stage = Ready /\ ~crashed /\ bound # 0
    /\ CreateDisplayMode(d, p)
    /\ UNCHANGED icdVars

Next ==
    \/ Load \/ InitDisplay \/ Unload
    \/ \E n \in Names : GetProcAddr(n)
    \/ EnumeratePhysicalDevices \/ EnumerateExtensions \/ CreateSwapchain
    \/ \E g \in 1..gpus : UsePhysicalDevice(g)
    \/ \E d \in Outputs, p \in Params : CreateMode(d, p)

Spec == Init /\ [][Next]_vars
-----------------------------------------------------------------------------
(* The functions of the ICD that are called without a look at the answer. *)
Unchecked == {"GetInstanceProcAddr", "GetDeviceProcAddr", "CreateImageFromNativeBufferTIZEN"}

(* A call goes through NULL only if the loading of the library stopped     *)
(* early, and the application did not look for the surface extension       *)
(* first; if it enumerated its devices twice, and dev.pdev stays the first *)
(* handle; or if the ICD lacks one of the three functions that nothing     *)
(* checks.  The other functions of the ICD are checked wherever needed.    *)
NullCallsExplained ==
    crashed => \/ ~listed
               \/ driver.fresh /\ gpus > 1
               \/ driver.lacks \cap Unchecked # {}

(* All lookups that find a function find the same one, so that the WSI     *)
(* layer is never bypassed, and an instance finds what a device finds,     *)
(* unless the ICD lacks what the lookup itself calls (NullCallsExplained). *)
(* Nothing that follows the loading changes what a lookup reads.           *)
LookupsAgree ==
    gpus = 0 =>
        \A n \in Names :
            LET found == Lookups(n) \ {Null, Fault} IN
            /\ Cardinality(found) <= 1
            /\ vk_GetDeviceProcAddr(n) \in found => vk_GetInstanceProcAddr(TRUE, n) \in found \cup {Fault}
=============================================================================
