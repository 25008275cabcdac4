----------------------------- MODULE IcdProofs -----------------------------
(***************************************************************************)
(* Theorems about Icd, for any driver, displays and bounds.                *)
(***************************************************************************)
EXTENDS Icd, TLAPS, FiniteSetTheorems, SequenceTheorems

(* A stage of the load is reached with what the ones before it have found; *)
(* extensions are listed by a load that has found everything.  A crash is  *)
(* the last thing that happens.                                            *)
LoadInv ==
    /\ stage \in 1..11
    /\ stage <= 8 =>
           /\ ~listed
           /\ stage > 3 => "icdGetInstanceProcAddr" \in have
           /\ stage > 4 => "EnumerateDeviceExtensionProperties" \in have
           /\ stage > 7 => "malloc" \in have
    /\ listed /\ stage # 11 =>
           {"icdGetInstanceProcAddr", "EnumerateDeviceExtensionProperties", "malloc"} \subseteq have
    /\ crashed => stage = 10

(* The device that is bound was enumerated, and an ICD that has one handle *)
(* gives one.                                                              *)
BoundInv ==
    /\ driver.fresh \in BOOLEAN
    /\ gpus \in Nat /\ bound \in 0..gpus
    /\ ~driver.fresh => gpus <= 1

IInv == LoadInv /\ BoundInv /\ NullCallsExplained
-----------------------------------------------------------------------------
LEMMA StageFacts ==
    /\ Len(LoadStages) = 8 /\ DOMAIN LoadStages = 1..8
    /\ LoadStages[3] = "icdGetInstanceProcAddr"
    /\ LoadStages[4] = "EnumerateDeviceExtensionProperties"
    /\ LoadStages[7] = "malloc"
BY DEF LoadStages

LEMMA StageNumbers ==
    Displays = 9 /\ Ready = 10 /\ Unloaded = 11
BY StageFacts DEF Displays, Ready, Unloaded

(* A lookup that goes to the ICD faults only if there is none, or if it    *)
(* lacks the function that the lookup calls.                               *)
LEMMA FaultExplained ==
    ASSUME NEW n, Fault \in Lookups(n), driver.lacks \cap Unchecked = {}
    PROVE  "icdGetInstanceProcAddr" \notin have
<1> SUFFICES ASSUME "icdGetInstanceProcAddr" \in have PROVE FALSE
  OBVIOUS
<1>1. Wsi(n) # Fault /\ Null # Fault
  BY DEF Wsi, Null, Fault
<1>2. ASSUME NEW table PROVE IcdIn(table, n) # Fault
  BY <1>1 DEF IcdIn, Fault
<1>3. ASSUME NEW through, Null \notin through, NEW table
      PROVE  Delegate(through, IcdIn(table, n)) # Fault
  BY <1>2, <1>3 DEF Delegate
<1>4. ASSUME NEW table, NEW m \in Unchecked \cap table PROVE IcdIn(table, m) # Null
  BY DEF IcdIn, Null
<1>5. /\ icdGetInstanceProcAddr("GetInstanceProcAddr") # Null
      /\ icdGetInstanceProcAddr("GetDeviceProcAddr") # Null
      /\ get_device_proc_addr("GetDeviceProcAddr") # Null
  <2>1. /\ "GetInstanceProcAddr" \in instance_funcs /\ "GetDeviceProcAddr" \in device_funcs
        /\ {"GetInstanceProcAddr", "GetDeviceProcAddr"} \subseteq Unchecked
    BY DEF instance_funcs, device_funcs, Unchecked
  <2> QED BY <1>4, <2>1 DEF icdGetInstanceProcAddr, get_device_proc_addr
<1>6. ASSUME NEW i \in BOOLEAN PROVE vk_GetInstanceProcAddr(i, n) # Fault
  BY <1>1, <1>3, <1>5 DEF vk_GetInstanceProcAddr, get_instance_proc_addr
<1>7. vk_GetDeviceProcAddr(n) # Fault
  <2>1. Delegate({icdGetInstanceProcAddr("GetDeviceProcAddr"),
                  get_device_proc_addr("GetDeviceProcAddr")},
                 IcdIn(device_funcs, n)) # Fault
    BY <1>3, <1>5
  <2> QED BY <1>1, <2>1 DEF vk_GetDeviceProcAddr, get_device_proc_addr
<1>8. vk_icdGetInstanceProcAddr(n) # Fault
  <2>1. Delegate({}, IcdIn(global_funcs \cup instance_funcs \cup device_funcs, n)) # Fault
    BY <1>3
  <2> QED BY <1>1, <2>1 DEF vk_icdGetInstanceProcAddr, icdGetInstanceProcAddr
<1> QED BY <1>6, <1>7, <1>8 DEF Lookups

(* So does a creation of a swapchain. *)
LEMMA ImageFunctionLoaded ==
    ASSUME create_presentable_image = Null, driver.lacks \cap Unchecked = {}
    PROVE  "EnumerateDeviceExtensionProperties" \notin have
<1>1. "CreateImageFromNativeBufferTIZEN" \in device_funcs \ driver.lacks
  BY DEF device_funcs, Unchecked
<1> QED BY <1>1 DEF create_presentable_image, icdGetInstanceProcAddr, IcdIn, Null
-----------------------------------------------------------------------------
LEMMA InitInv == Init => IInv
<1> SUFFICES ASSUME Init PROVE IInv
  OBVIOUS
<1>1. LoadInv
  BY StageFacts, StageNumbers DEF Init, LoadInv
<1>2. BoundInv
  BY DEF Init, BoundInv
<1> QED BY <1>1, <1>2 DEF Init, IInv, NullCallsExplained

LEMMA LoadKeepsInv ==
    ASSUME IInv, Load
    PROVE  IInv'
<1> USE StageFacts, StageNumbers
<1>1. stage \in 1..8 /\ ~crashed /\ ~listed
  BY DEF IInv, LoadInv, Load
<1>2. /\ crashed' = crashed /\ driver' = driver /\ gpus' = gpus /\ bound' = bound
  BY DEF Load
<1>3. BoundInv' /\ NullCallsExplained'
  BY <1>1, <1>2 DEF IInv, BoundInv, NullCallsExplained
<1>4. CASE stage' = Ready /\ UNCHANGED <<have, listed>>
  <2>1. LoadInv'
    BY <1>1, <1>2, <1>4 DEF IInv, LoadInv
  <2> QED BY <1>3, <2>1 DEF IInv
<1>5. CASE /\ have' = have \cup {LoadStages[stage]}
           /\ listed' = (stage = Len(LoadStages))
           /\ stage' = stage + 1
  <2>1. /\ stage' > 3 => "icdGetInstanceProcAddr" \in have'
        /\ stage' > 4 => "EnumerateDeviceExtensionProperties" \in have'
        /\ stage' > 7 => "malloc" \in have'
    BY <1>1, <1>5 DEF IInv, LoadInv
  <2>2. listed' => stage' = 9
    <3>1. listed' => stage = Len(LoadStages)
      BY <1>5, Zenon
    <3> QED BY <1>1, <1>5, <3>1
  <2>3. stage' \in 1..9
    BY <1>1, <1>5
  <2>4. LoadInv'
    BY <1>1, <1>2, <2>1, <2>2, <2>3 DEF LoadInv
  <2> QED BY <1>3, <2>4 DEF IInv
<1> QED BY <1>4, <1>5 DEF Load

LEMMA CrashKeepsInv ==
    ASSUME IInv, stage = Ready,
           UNCHANGED <<stage, have, listed, driver, gpus, bound>>,
           crashed' = TRUE,
           ~listed \/ (driver.fresh /\ gpus > 1) \/ driver.lacks \cap Unchecked # {}
    PROVE  IInv'
<1>1. LoadInv'
  BY StageNumbers DEF IInv, LoadInv
<1>2. BoundInv'
  BY DEF IInv, BoundInv
<1>3. NullCallsExplained'
  BY DEF NullCallsExplained
<1> QED BY <1>1, <1>2, <1>3 DEF IInv

LEMMA NextKeepsInv ==
    ASSUME IInv, [Next]_vars
    PROVE  IInv'
<1> USE StageFacts, StageNumbers
<1>1. CASE Load
  BY <1>1, LoadKeepsInv
<1>2. CASE InitDisplay
  <2>1. /\ stage = Displays /\ stage' \in {Displays, Ready}
        /\ UNCHANGED <<driver, have, listed, gpus, bound, crashed>>
    BY <1>2 DEF InitDisplay
  <2>2. LoadInv'
    BY <2>1 DEF IInv, LoadInv
  <2> QED BY <2>1, <2>2 DEF IInv, BoundInv, NullCallsExplained
<1>3. CASE Unload
  <2>1. /\ stage' = Unloaded /\ ~crashed
        /\ UNCHANGED <<driver, listed, gpus, bound, crashed>>
    BY <1>3 DEF Unload
  <2>2. LoadInv'
    BY <2>1 DEF IInv, LoadInv
  <2> QED BY <2>1, <2>2 DEF IInv, BoundInv, NullCallsExplained
<1>4. CASE \E n \in Names : GetProcAddr(n)
  <2>1. PICK n \in Names : GetProcAddr(n)
    BY <1>4
  <2>2. driver.lacks \cap Unchecked # {} \/ "icdGetInstanceProcAddr" \notin have
    BY <2>1, FaultExplained DEF GetProcAddr
  <2>3. /\ stage = Ready /\ crashed' = TRUE
        /\ UNCHANGED <<stage, have, listed, driver, gpus, bound>>
    BY <2>1 DEF GetProcAddr
  <2>4. driver.lacks \cap Unchecked # {} \/ ~listed
    BY <2>2, <2>3 DEF IInv, LoadInv
  <2> QED BY <2>3, <2>4, CrashKeepsInv
<1>5. CASE EnumeratePhysicalDevices
  <2>1. /\ ~crashed /\ gpus' = IF driver.fresh THEN gpus + 1 ELSE 1
        /\ UNCHANGED <<driver, stage, have, listed, bound, crashed>>
    BY <1>5 DEF EnumeratePhysicalDevices
  <2>2. LoadInv'
    BY <2>1 DEF IInv, LoadInv
  <2>3. BoundInv'
    BY <2>1 DEF IInv, BoundInv
  <2> QED BY <2>1, <2>2, <2>3 DEF IInv, NullCallsExplained
<1>6. CASE EnumerateExtensions
  <2>1. /\ stage = Ready /\ crashed' = TRUE /\ ~(Needed \subseteq have)
        /\ UNCHANGED <<stage, have, listed, driver, gpus, bound>>
    BY <1>6 DEF EnumerateExtensions
  <2>2. Needed \subseteq {"malloc", "EnumerateDeviceExtensionProperties"}
    BY DEF Needed
  <2>3. ~listed
    BY <2>1, <2>2 DEF IInv, LoadInv
  <2> QED BY <2>1, <2>3, CrashKeepsInv
<1>7. CASE \E g \in 1..gpus : UsePhysicalDevice(g)
  <2>1. PICK g \in 1..gpus : UsePhysicalDevice(g)
    BY <1>7
  <2>2. /\ stage = Ready /\ ~crashed
        /\ UNCHANGED <<driver, stage, have, listed, gpus>>
    BY <2>1 DEF UsePhysicalDevice
  <2>3. CASE vk_get_physical_device(g)
    <3>1. bound' = g /\ crashed' = crashed
      BY <2>1, <2>3 DEF UsePhysicalDevice
    <3>2. LoadInv'
      BY <2>2, <3>1 DEF IInv, LoadInv
    <3>3. BoundInv'
      BY <2>2, <3>1 DEF IInv, BoundInv
    <3> QED BY <2>2, <3>1, <3>2, <3>3 DEF IInv, NullCallsExplained
  <2>4. CASE ~vk_get_physical_device(g)
    <3>1. crashed' = TRUE /\ bound' = bound
      BY <2>1, <2>4 DEF UsePhysicalDevice
    <3>2. bound # 0 /\ bound # g
      BY <2>4 DEF vk_get_physical_device
    <3>3. gpus \in Nat /\ bound \in 0..gpus
      BY DEF IInv, BoundInv
    <3>4. gpus > 1
      BY <3>2, <3>3
    <3>5. driver.fresh
      BY <3>3, <3>4 DEF IInv, BoundInv
    <3> QED BY <2>2, <3>1, <3>4, <3>5, CrashKeepsInv
  <2> QED BY <2>3, <2>4
<1>8. CASE \E d \in Outputs, p \in Params : CreateMode(d, p)
  <2>1. UNCHANGED icdVars
    BY <1>8 DEF CreateMode
  <2> QED BY <2>1 DEF icdVars, IInv, LoadInv, BoundInv, NullCallsExplained
<1>9. CASE UNCHANGED vars
  BY <1>9 DEF vars, icdVars, IInv, LoadInv, BoundInv, NullCallsExplained
<1>10. CASE CreateSwapchain
  <2>1. /\ stage = Ready /\ crashed' = TRUE /\ create_presentable_image = Null
        /\ UNCHANGED <<stage, have, listed, driver, gpus, bound>>
    BY <1>10 DEF CreateSwapchain
  <2>2. driver.lacks \cap Unchecked # {} \/ ~listed
    BY <2>1, ImageFunctionLoaded DEF IInv, LoadInv
  <2> QED BY <2>1, <2>2, CrashKeepsInv
<1> QED BY <1>1, <1>2, <1>3, <1>4, <1>5, <1>6, <1>7, <1>8, <1>9, <1>10 DEF Next

(* Wherever the loading stops and whatever the ICD lacks, a call through   *)
(* NULL has one of three causes: extensions that were not looked for, a    *)
(* second enumeration of the physical devices, or an ICD without one of    *)
(* the three functions whose pointers nothing checks.                      *)
THEOREM NullCallsCorrect == Spec => []NullCallsExplained
<1>1. Init => IInv
  BY InitInv
<1>2. IInv /\ [Next]_vars => IInv'
  BY NextKeepsInv
<1>3. IInv => NullCallsExplained
  BY DEF IInv
<1> QED BY <1>1, <1>2, <1>3, PTL DEF Spec
-----------------------------------------------------------------------------
(* The planes of every display, in the order of discovery.                 *)
PlanesInv ==
    /\ available \in [Outputs -> SUBSET Params]
    /\ next \in Nat \ {0}
    /\ displays \in Seq(Outputs)
    /\ planes \in Seq(1..Len(displays))

(* An unchecked layer count is a number all the same.                      *)
LEMMA LayerCountsAreNumbers ==
    ASSUME PlanesInv, next \in Outputs
    PROVE  LayerCounts \subseteq Nat
<1>1. available[next] \subseteq Params
  BY DEF PlanesInv
<1>2. IsFiniteSet(available[next])
  BY <1>1, ParamsAssumption, FS_Subset
<1>3. Cardinality(available[next]) \in Nat
  BY <1>2, FS_CardinalityType
<1> QED BY <1>3, BoundAssumption DEF LayerCounts

LEMMA AddGoodOutputPlanes ==
    ASSUME PlanesInv, next \in Outputs, AddGoodOutput
    PROVE  displays' \in Seq(Outputs) /\ planes' \in Seq(1..Len(displays'))
<1> DEFINE k == Len(displays)
<1>1. displays \in Seq(Outputs) /\ planes \in Seq(1..k) /\ k \in Nat
  BY DEF PlanesInv
<1>2. displays' = Append(displays, next)
  BY DEF AddGoodOutput
<1>3. displays' \in Seq(Outputs) /\ Len(displays') = k + 1
  BY <1>1, <1>2
<1>4. PICK n \in LayerCounts : planes' = planes \o [i \in 1..n |-> k + 1]
  BY DEF AddGoodOutput
<1>5. n \in Nat
  BY LayerCountsAreNumbers
<1>6. [i \in 1..n |-> k + 1] \in Seq(1..k + 1)
  <2>1. \A i \in 1..n : k + 1 \in 1..k + 1
    BY <1>1
  <2> QED BY <1>5, <2>1
<1>7. planes \in Seq(1..k + 1)
  <2>1. 1..k \subseteq 1..k + 1
    BY <1>1
  <2> QED BY <1>1, <2>1
<1>8. planes' \in Seq(1..k + 1)
  BY <1>4, <1>6, <1>7, ConcatProperties
<1> QED BY <1>3, <1>8

LEMMA PlanesKept ==
    ASSUME PlanesInv, [Next]_vars
    PROVE  PlanesInv'
<1>1. ASSUME UNCHANGED displayVars PROVE PlanesInv'
  BY <1>1 DEF PlanesInv, displayVars, deviceVars
<1>2. ASSUME FiniDisplay, UNCHANGED available, next' \in Nat \ {0} PROVE PlanesInv'
  BY <1>2 DEF PlanesInv, FiniDisplay
<1>3. CASE Load \/ EnumeratePhysicalDevices \/ EnumerateExtensions \/ CreateSwapchain
  BY <1>1, <1>3 DEF Load, EnumeratePhysicalDevices, EnumerateExtensions, CreateSwapchain
<1>4. CASE InitDisplay
  <2>1. CASE UNCHANGED displayVars
    BY <1>1, <2>1
  <2>2. CASE InitFails
    BY <1>2, <2>2, BoundAssumption DEF InitFails
  <2>3. CASE AddOutput
    <3>1. next \in Outputs /\ next' \in Nat \ {0} /\ available' = available
      BY <2>3, BoundAssumption DEF AddOutput, Outputs, PlanesInv
    <3>2. CASE AddGoodOutput
      BY <3>1, <3>2, AddGoodOutputPlanes DEF PlanesInv
    <3>3. CASE AddBrokenOutput
      BY <3>1, <3>3 DEF PlanesInv, AddBrokenOutput
    <3> QED BY <2>3, <3>2, <3>3 DEF AddOutput
  <2> QED BY <1>4, <2>1, <2>2, <2>3 DEF InitDisplay
<1>5. CASE Unload
  BY <1>2, <1>5 DEF Unload, Fini, PlanesInv
<1>6. CASE \E n \in Names : GetProcAddr(n)
  BY <1>1, <1>6 DEF GetProcAddr
<1>7. CASE \E g \in 1..gpus : UsePhysicalDevice(g)
  BY <1>1, <1>7 DEF UsePhysicalDevice
<1>8. CASE \E d \in Outputs, p \in Params : CreateMode(d, p)
  <2>1. UNCHANGED deviceVars
    BY <1>8 DEF CreateMode, CreateDisplayMode
  <2> QED BY <2>1 DEF deviceVars, PlanesInv
<1>9. CASE UNCHANGED vars
  BY <1>1, <1>9 DEF vars
<1> QED BY <1>3, <1>4, <1>5, <1>6, <1>7, <1>8, <1>9 DEF Next

(* However the discovery of outputs goes, and through unloading, a plane   *)
(* that vkGetPhysicalDeviceDisplayPlanePropertiesKHR lists belongs to a    *)
(* display of the device.                                                  *)
THEOREM PlanesCorrect == Spec => []PlanesOnDisplays
<1>1. Init => PlanesInv
  BY DEF Init, DisplayInit, PlanesInv
<1>2. PlanesInv /\ [Next]_vars => PlanesInv'
  BY PlanesKept
<1>3. PlanesInv => PlanesOnDisplays
  BY DEF PlanesInv, PlanesOnDisplays
<1> QED BY <1>1, <1>2, <1>3, PTL DEF Spec
-----------------------------------------------------------------------------
(* Every array has an owner: a display, or for those of built-in modes an  *)
(* output that could not describe itself.                                  *)
ArraysInv ==
    /\ built \subseteq broken \cup {displays[d] : d \in DOMAIN displays}
    /\ block \in [Outputs -> Blocks \cup {None}]
    /\ \A d \in Outputs : d \notin DOMAIN displays => block[d] = None
    /\ down => displays = <<>>

LEMMA AddOutputArrays ==
    ASSUME PlanesInv, ArraysInv, AddOutput
    PROVE  ArraysInv'
<1>1. ~down' /\ block' = block
  BY DEF AddOutput
<1>2. Allocated(next) \subseteq {next}
  BY DEF Allocated
<1>3. CASE AddBrokenOutput
  <2>1. displays' = displays
    BY <1>3 DEF AddBrokenOutput
  <2>2. built' \subseteq broken' \cup {displays[d] : d \in DOMAIN displays}
    BY <1>2, <1>3 DEF AddBrokenOutput, ArraysInv
  <2> QED BY <1>1, <2>1, <2>2 DEF ArraysInv
<1>4. CASE AddGoodOutput
  <2>1. displays \in Seq(Outputs)
    BY DEF PlanesInv
  <2>2. /\ displays' = Append(displays, next) /\ broken' = broken
        /\ built' = built \cup Allocated(next)
    BY <1>4 DEF AddGoodOutput
  <2>3. DOMAIN displays' = DOMAIN displays \cup {Len(displays) + 1}
    BY <2>1, <2>2
  <2>4. /\ displays'[Len(displays) + 1] = next
        /\ \A d \in DOMAIN displays : displays'[d] = displays[d]
    BY <2>1, <2>2
  <2>5. {displays[d] : d \in DOMAIN displays} \cup {next}
            \subseteq {displays'[d] : d \in DOMAIN displays'}
    BY <2>3, <2>4
  <2>6. built' \subseteq broken' \cup {displays'[d] : d \in DOMAIN displays'}
    BY <1>2, <2>2, <2>5 DEF ArraysInv
  <2> QED BY <1>1, <2>3, <2>6 DEF ArraysInv
<1> QED BY <1>3, <1>4 DEF AddOutput

LEMMA FiniArrays ==
    ASSUME ArraysInv, FiniDisplay, broken' = broken
    PROVE  ArraysInv'
<1>1. displays' = <<>> /\ DOMAIN displays' = {}
  BY DEF FiniDisplay
<1>2. built' \subseteq broken'
  BY DEF ArraysInv, FiniDisplay
<1>3. block' = [d \in Outputs |-> None]
  BY DEF ArraysInv, FiniDisplay
<1> QED BY <1>1, <1>2, <1>3 DEF ArraysInv

LEMMA CreateModeArrays ==
    ASSUME ArraysInv, NEW d \in Outputs, NEW p \in Params, CreateDisplayMode(d, p)
    PROVE  ArraysInv'
<1>1. d \in DOMAIN displays /\ UNCHANGED <<built, broken, displays, down>>
  BY DEF CreateDisplayMode, deviceVars
<1>2. CASE UNCHANGED block
  BY <1>1, <1>2 DEF ArraysInv
<1>3. CASE AddCustom(d, p)
  <2>1. PICK b \in Blocks : block' = [block EXCEPT ![d] = b]
    BY <1>3 DEF AddCustom
  <2> QED BY <1>1, <2>1 DEF ArraysInv
<1> QED BY <1>2, <1>3 DEF CreateDisplayMode

LEMMA ArraysKept ==
    ASSUME PlanesInv, ArraysInv, [Next]_vars
    PROVE  ArraysInv'
<1>1. ASSUME UNCHANGED displayVars PROVE ArraysInv'
  BY <1>1 DEF ArraysInv, displayVars, deviceVars
<1>2. CASE Load \/ EnumeratePhysicalDevices \/ EnumerateExtensions \/ CreateSwapchain
  BY <1>1, <1>2 DEF Load, EnumeratePhysicalDevices, EnumerateExtensions, CreateSwapchain
<1>3. CASE InitDisplay
  BY <1>1, <1>3, AddOutputArrays, FiniArrays DEF InitDisplay, InitFails
<1>4. CASE Unload
  BY <1>4, FiniArrays DEF Unload, Fini
<1>5. CASE \E n \in Names : GetProcAddr(n)
  BY <1>1, <1>5 DEF GetProcAddr
<1>6. CASE \E g \in 1..gpus : UsePhysicalDevice(g)
  BY <1>1, <1>6 DEF UsePhysicalDevice
<1>7. CASE \E d \in Outputs, p \in Params : CreateMode(d, p)
  BY <1>7, CreateModeArrays DEF CreateMode
<1>8. CASE UNCHANGED vars
  BY <1>1, <1>8 DEF vars
<1> QED BY <1>2, <1>3, <1>4, <1>5, <1>6, <1>7, <1>8 DEF Next

(* Unloading frees the arrays of all displays, whatever has failed during  *)
(* discovery and wherever realloc has put the custom modes; what is left   *)
(* are the arrays of outputs that failed after theirs was made.            *)
THEOREM ArraysFreed == Spec => []NothingLeaked
<1>1. Init => PlanesInv /\ ArraysInv
  BY DEF Init, DisplayInit, PlanesInv, ArraysInv
<1>2. PlanesInv /\ ArraysInv /\ [Next]_vars => (PlanesInv /\ ArraysInv)'
  BY PlanesKept, ArraysKept
<1>3. ArraysInv => NothingLeaked
  BY DEF ArraysInv, NothingLeaked
<1> QED BY <1>1, <1>2, <1>3, PTL DEF Spec
-----------------------------------------------------------------------------
ModeEntries == [params : Params, handle : {"custom"} \X Blocks \X Nat]

(* The custom modes of a display are not built in, and differ; the handle  *)
(* of one ends in its index, whatever block it was made in.                *)
CustomInv ==
    /\ custom \in [Outputs -> Seq(ModeEntries)]
    /\ \A d \in Outputs : \A i \in DOMAIN custom[d] :
           /\ custom[d][i].params \notin available[displays[d]]
           /\ custom[d][i].handle[3] = i
           /\ \A j \in DOMAIN custom[d] : custom[d][i].params = custom[d][j].params => i = j

BuiltIn(g) ==
    /\ g.params \in available[displays[g.display]]
    /\ g.handle = BuiltInHandle(g.display, g.params)

Custom(g) ==
    \E i \in DOMAIN custom[g.display] :
        custom[g.display][i].params = g.params /\ custom[g.display][i].handle = g.handle

(* Until the library is unloaded a handle that was given out is that of a  *)
(* mode the library has.  None is given out before it is loaded.           *)
GivenInv ==
    /\ stage < 10 => given = {} /\ \A d \in Outputs : custom[d] = <<>>
    /\ down => stage = 11
    /\ ~down => \A g \in given : g.display \in Outputs /\ (BuiltIn(g) \/ Custom(g))

ModesInv == LoadInv /\ CustomInv /\ GivenInv /\ HandlesAreModes

LEMMA EntryFields ==
    ASSUME NEW s \in Seq(ModeEntries), NEW i \in DOMAIN s
    PROVE  s[i].params \in Params /\ s[i].handle[1] = "custom"
<1>1. s[i] \in ModeEntries
  OBVIOUS
<1> QED BY <1>1 DEF ModeEntries

LEMMA ModesHaveOneHandle == CustomInv /\ GivenInv /\ ~down => HandlesAreModes
<1> SUFFICES ASSUME CustomInv, GivenInv, ~down,
                    NEW g \in given, NEW h \in given, g.display = h.display
             PROVE  g.params = h.params <=> g.handle = h.handle
  BY DEF HandlesAreModes
<1>1. g.display \in Outputs /\ (BuiltIn(g) \/ Custom(g)) /\ (BuiltIn(h) \/ Custom(h))
  BY DEF GivenInv
<1>2. ASSUME NEW i \in DOMAIN custom[g.display]
      PROVE  /\ custom[g.display][i].params \notin available[displays[g.display]]
             /\ custom[g.display][i].handle[1] = "custom"
             /\ custom[g.display][i].handle[3] = i
  <2>1. custom[g.display] \in Seq(ModeEntries)
    BY <1>1 DEF CustomInv
  <2>2. custom[g.display][i].handle[1] = "custom"
    BY <2>1, EntryFields
  <2> QED BY <1>1, <2>2 DEF CustomInv
<1>3. CASE BuiltIn(g) /\ BuiltIn(h)
  BY <1>3 DEF BuiltIn, BuiltInHandle
<1>4. CASE BuiltIn(g) /\ Custom(h)
  BY <1>2, <1>4 DEF BuiltIn, BuiltInHandle, Custom
<1>5. CASE Custom(g) /\ BuiltIn(h)
  BY <1>2, <1>5 DEF BuiltIn, BuiltInHandle, Custom
<1>6. CASE Custom(g) /\ Custom(h)
  <2>1. PICK i \in DOMAIN custom[g.display] :
            custom[g.display][i].params = g.params /\ custom[g.display][i].handle = g.handle
    BY <1>6 DEF Custom
  <2>2. PICK j \in DOMAIN custom[g.display] :
            custom[g.display][j].params = h.params /\ custom[g.display][j].handle = h.handle
    BY <1>6 DEF Custom
  <2>3. g.params = h.params => i = j
    BY <1>1, <2>1, <2>2 DEF CustomInv
  <2>4. g.handle = h.handle => i = j
    BY <1>2, <2>1, <2>2
  <2> QED BY <2>1, <2>2, <2>3, <2>4
<1> QED BY <1>1, <1>3, <1>4, <1>5, <1>6

LEMMA AddCustomModes ==
    ASSUME CustomInv, GivenInv, ~down, NEW d \in Outputs, NEW p \in Params,
           p \notin available[displays[d]], ~Known(d, p), AddCustom(d, p),
           available' = available, displays' = displays, down' = down, stage' = stage, stage = 10
    PROVE  CustomInv' /\ GivenInv'
<1> DEFINE k == Len(custom[d])
<1> DEFINE Mode(b) == [params |-> p, handle |-> CustomHandle(b, k + 1)]
<1>1. PICK b \in Blocks :
          /\ custom' = [custom EXCEPT ![d] = Append(custom[d], Mode(b))]
          /\ given' = given \cup {[display |-> d, params |-> p, handle |-> CustomHandle(b, k + 1)]}
  BY DEF AddCustom, Give
<1>2. custom[d] \in Seq(ModeEntries) /\ k \in Nat
  <2>1. custom[d] \in Seq(ModeEntries)
    BY DEF CustomInv
  <2> QED BY <2>1
<1>3. Mode(b) \in ModeEntries
  BY <1>2 DEF CustomHandle, ModeEntries
<1>4. custom' \in [Outputs -> Seq(ModeEntries)]
  <2>1. Append(custom[d], Mode(b)) \in Seq(ModeEntries)
    BY <1>2, <1>3
  <2> QED BY <1>1, <2>1 DEF CustomInv
<1>5. /\ DOMAIN custom'[d] = 1..k + 1 /\ DOMAIN custom[d] = 1..k
      /\ custom'[d][k + 1] = Mode(b)
      /\ \A i \in 1..k : custom'[d][i] = custom[d][i]
      /\ \A e \in Outputs \ {d} : custom'[e] = custom[e]
  BY <1>1, <1>2, <1>3 DEF CustomInv
<1>6. UNCHANGED <<available, displays, down, stage>>
  OBVIOUS
<1>7. CustomInv'
  <2>1. \A i \in 1..k : custom[d][i].params # p
    BY <1>5 DEF Known
  <2>2. ASSUME NEW i \in 1..k + 1
        PROVE  /\ custom'[d][i].params \notin available[displays[d]]
               /\ custom'[d][i].handle[3] = i
    <3>1. CASE i \in 1..k
      BY <1>5, <3>1 DEF CustomInv
    <3>2. CASE i = k + 1
      BY <1>5, <3>2 DEF CustomHandle
    <3> QED BY <1>2, <3>1, <3>2
  <2>3. ASSUME NEW i \in 1..k + 1, NEW j \in 1..k + 1,
               custom'[d][i].params = custom'[d][j].params
        PROVE  i = j
    <3>1. CASE i \in 1..k /\ j \in 1..k
      <4>1. custom[d][i].params = custom[d][j].params
        BY <1>5, <2>3, <3>1
      <4> QED BY <1>5, <3>1, <4>1 DEF CustomInv
    <3>2. CASE i = k + 1 /\ j \in 1..k
      <4>1. custom'[d][i].params = p /\ custom'[d][j].params # p
        BY <1>5, <2>1, <3>2
      <4> QED BY <2>3, <4>1
    <3>3. CASE i \in 1..k /\ j = k + 1
      <4>1. custom'[d][i].params # p /\ custom'[d][j].params = p
        BY <1>5, <2>1, <3>3
      <4> QED BY <2>3, <4>1
    <3>4. CASE i = k + 1 /\ j = k + 1
      BY <3>4
    <3> QED BY <1>2, <3>1, <3>2, <3>3, <3>4
  <2>4. \A i \in DOMAIN custom'[d] :
           /\ custom'[d][i].params \notin available'[displays'[d]]
           /\ custom'[d][i].handle[3] = i
           /\ \A j \in DOMAIN custom'[d] : custom'[d][i].params = custom'[d][j].params => i = j
    BY <1>5, <1>6, <2>2, <2>3
  <2>5. ASSUME NEW e \in Outputs \ {d}
        PROVE  \A i \in DOMAIN custom'[e] :
           /\ custom'[e][i].params \notin available'[displays'[e]]
           /\ custom'[e][i].handle[3] = i
           /\ \A j \in DOMAIN custom'[e] : custom'[e][i].params = custom'[e][j].params => i = j
    BY <1>5, <1>6 DEF CustomInv
  <2> QED BY <1>4, <2>4, <2>5 DEF CustomInv
<1>8. ASSUME NEW g \in given
      PROVE  g.display \in Outputs /\ (BuiltIn(g) \/ Custom(g))'
  <2>1. g.display \in Outputs /\ (BuiltIn(g) \/ Custom(g))
    BY DEF GivenInv
  <2>2. CASE BuiltIn(g)
    BY <1>6, <2>1, <2>2 DEF BuiltIn, BuiltInHandle
  <2>3. CASE Custom(g)
    <3>1. PICK i \in DOMAIN custom[g.display] :
              custom[g.display][i].params = g.params /\ custom[g.display][i].handle = g.handle
      BY <2>3 DEF Custom
    <3>2. i \in DOMAIN custom'[g.display] /\ custom'[g.display][i] = custom[g.display][i]
      <4>1. CASE g.display = d
        BY <1>2, <1>5, <4>1
      <4>2. CASE g.display # d
        BY <1>5, <2>1, <4>2
      <4> QED BY <4>1, <4>2
    <3>3. /\ i \in DOMAIN custom'[g.display]
          /\ custom'[g.display][i].params = g.params /\ custom'[g.display][i].handle = g.handle
      BY <3>1, <3>2
    <3>4. Custom(g)'
      BY <3>3, Zenon DEF Custom
    <3> QED BY <2>1, <3>4
  <2> QED BY <2>1, <2>2, <2>3
<1>9. ASSUME NEW g, g = [display |-> d, params |-> p, handle |-> CustomHandle(b, k + 1)]
      PROVE  g.display \in Outputs /\ Custom(g)'
  BY <1>2, <1>5, <1>9 DEF Custom
<1> QED BY <1>1, <1>6, <1>7, <1>8, <1>9 DEF GivenInv

LEMMA GiveModes ==
    ASSUME CustomInv, GivenInv, ~down, NEW d \in Outputs, NEW p \in Params, NEW h,
           given' = given \cup {[display |-> d, params |-> p, handle |-> h]},
           \/ p \in available[displays[d]] /\ h = BuiltInHandle(d, p)
           \/ \E i \in DOMAIN custom[d] : custom[d][i].params = p /\ custom[d][i].handle = h,
           available' = available, displays' = displays, down' = down, stage' = stage, stage = 10,
           custom' = custom
    PROVE  CustomInv' /\ GivenInv'
<1>1. CustomInv'
  BY DEF CustomInv
<1>2. ASSUME NEW g \in given PROVE g.display \in Outputs /\ (BuiltIn(g) \/ Custom(g))'
  BY DEF GivenInv, BuiltIn, BuiltInHandle, Custom
<1>3. ASSUME NEW g, g = [display |-> d, params |-> p, handle |-> h]
      PROVE  g.display \in Outputs /\ (BuiltIn(g) \/ Custom(g))'
  BY <1>3 DEF BuiltIn, BuiltInHandle, Custom
<1> QED BY <1>1, <1>2, <1>3 DEF GivenInv

LEMMA CreateModeModes ==
    ASSUME CustomInv, GivenInv, NEW d \in Outputs, NEW p \in Params, CreateMode(d, p)
    PROVE  CustomInv' /\ GivenInv' /\ HandlesAreModes'
<1>1. stage = 10 /\ stage' = stage /\ CreateDisplayMode(d, p)
  BY StageNumbers DEF CreateMode, icdVars
<1>2. /\ ~down
      /\ available' = available /\ displays' = displays /\ down' = down
  BY <1>1 DEF GivenInv, CreateDisplayMode, deviceVars
<1>3. CustomInv' /\ GivenInv'
  <2>1. CASE p \in available[displays[d]] /\ Give(d, p, BuiltInHandle(d, p)) /\ custom' = custom
    BY <1>1, <1>2, <2>1, GiveModes DEF Give
  <2>2. CASE FindCustom(d, p) /\ custom' = custom
    <3>1. PICK i \in DOMAIN custom[d] :
              custom[d][i].params = p /\ Give(d, p, custom[d][i].handle)
      BY <2>2 DEF FindCustom
    <3> QED BY <1>1, <1>2, <2>2, <3>1, GiveModes DEF Give
  <2>3. CASE p \notin available[displays[d]] /\ ~Known(d, p) /\ AddCustom(d, p)
    BY <1>1, <1>2, <2>3, AddCustomModes
  <2> QED BY <1>1, <2>1, <2>2, <2>3 DEF CreateDisplayMode
<1>4. (CustomInv /\ GivenInv /\ ~down => HandlesAreModes)'
  BY ModesHaveOneHandle, PTL
<1> QED BY <1>2, <1>3, <1>4

LEMMA ModesKept ==
    ASSUME PlanesInv, ModesInv, [Next]_vars
    PROVE  CustomInv' /\ GivenInv' /\ HandlesAreModes'
<1> USE StageNumbers
<1>1. ASSUME UNCHANGED <<displayVars, stage>> PROVE CustomInv' /\ GivenInv' /\ HandlesAreModes'
  <2>1. UNCHANGED <<available, displays, down, custom, given, stage>>
    BY <1>1 DEF displayVars, deviceVars
  <2> QED BY <2>1 DEF ModesInv, CustomInv, GivenInv, BuiltIn, Custom, HandlesAreModes
<1>2. CASE Load
  <2>1. stage < 10 /\ UNCHANGED <<available, displays, down, custom, given>>
    BY <1>2, StageFacts DEF Load, displayVars, deviceVars
  <2>2. given = {} /\ (\A d \in Outputs : custom[d] = <<>>) /\ ~down
    BY <2>1 DEF ModesInv, GivenInv
  <2> QED BY <2>1, <2>2 DEF ModesInv, CustomInv, GivenInv, HandlesAreModes
<1>3. CASE InitDisplay
  <2>1. stage = 9 /\ stage' \in {9, 10} /\ down' = down /\ given' = given
    BY <1>3 DEF InitDisplay, AddOutput, InitFails, displayVars, deviceVars
  <2>2. given = {} /\ (\A d \in Outputs : custom[d] = <<>>) /\ ~down
    BY <2>1 DEF ModesInv, GivenInv
  <2>3. custom' = custom \/ custom' = [d \in Outputs |-> <<>>]
    BY <1>3 DEF InitDisplay, AddOutput, InitFails, FiniDisplay, displayVars
  <2>4. custom \in [Outputs -> Seq(ModeEntries)]
    BY DEF ModesInv, CustomInv
  <2>5. /\ custom' \in [Outputs -> Seq(ModeEntries)]
        /\ \A d \in Outputs : custom'[d] = <<>>
    BY <2>2, <2>3, <2>4
  <2> QED BY <2>1, <2>2, <2>5 DEF CustomInv, GivenInv, HandlesAreModes
<1>4. CASE Unload
  <2>1. /\ custom' = [d \in Outputs |-> <<>>] /\ given' = given
        /\ down' = TRUE /\ stage' = 11
    BY <1>4 DEF Unload, Fini, FiniDisplay
  <2> QED BY <2>1 DEF ModesInv, CustomInv, GivenInv, HandlesAreModes
<1>5. CASE EnumeratePhysicalDevices \/ EnumerateExtensions \/ CreateSwapchain
  BY <1>1, <1>5 DEF EnumeratePhysicalDevices, EnumerateExtensions, CreateSwapchain
<1>6. CASE \E n \in Names : GetProcAddr(n)
  BY <1>1, <1>6 DEF GetProcAddr
<1>7. CASE \E g \in 1..gpus : UsePhysicalDevice(g)
  BY <1>1, <1>7 DEF UsePhysicalDevice
<1>8. CASE \E d \in Outputs, p \in Params : CreateMode(d, p)
  BY <1>8, CreateModeModes DEF ModesInv
<1>9. CASE UNCHANGED vars
  BY <1>1, <1>9 DEF vars, icdVars
<1> QED BY <1>2, <1>3, <1>4, <1>5, <1>6, <1>7, <1>8, <1>9 DEF Next

(* A VkDisplayModeKHR is a mode: for any modes of any displays, and any    *)
(* moves of the arrays, asking again for a mode gives the same handle, and *)
(* no other mode of the display has it.                                    *)
THEOREM HandlesCorrect == Spec => []HandlesAreModes
<1>1. Init => IInv /\ PlanesInv /\ CustomInv /\ GivenInv /\ HandlesAreModes
  <2>1. Init => CustomInv /\ GivenInv /\ HandlesAreModes
    BY DEF Init, DisplayInit, CustomInv, GivenInv, HandlesAreModes
  <2>2. Init => PlanesInv
    BY DEF Init, DisplayInit, PlanesInv
  <2> QED BY <2>1, <2>2, InitInv
<1>2. /\ IInv /\ PlanesInv /\ CustomInv /\ GivenInv /\ HandlesAreModes
      /\ [Next]_vars
      => (IInv /\ PlanesInv /\ CustomInv /\ GivenInv /\ HandlesAreModes)'
  BY NextKeepsInv, PlanesKept, ModesKept DEF IInv, ModesInv
<1> QED BY <1>1, <1>2, PTL DEF Spec
-----------------------------------------------------------------------------
(* Until its array has moved, the handles of a display's custom modes are  *)
(* the addresses of the array's elements; a display without an array has   *)
(* no custom modes.                                                        *)
LiveInv ==
    /\ \A d \in Outputs : custom[d] # <<>> => block[d] # None
    /\ \A d \in Outputs \ moved : \A i \in DOMAIN custom[d] :
           custom[d][i].handle = CustomHandle(block[d], i)

LEMMA AddCustomLive ==
    ASSUME ArraysInv, CustomInv, LiveInv, NEW d \in Outputs, NEW p \in Params, AddCustom(d, p)
    PROVE  LiveInv'
<1> DEFINE k == Len(custom[d])
<1> DEFINE Mode(b) == [params |-> p, handle |-> CustomHandle(b, k + 1)]
<1>1. PICK b \in Blocks :
          /\ custom' = [custom EXCEPT ![d] = Append(custom[d], Mode(b))]
          /\ block' = [block EXCEPT ![d] = b]
          /\ Moves(d, b)
  BY DEF AddCustom
<1>2. custom[d] \in Seq(ModeEntries) /\ k \in Nat
  <2>1. custom[d] \in Seq(ModeEntries)
    BY DEF CustomInv
  <2> QED BY <2>1
<1>3. /\ DOMAIN custom'[d] = 1..k + 1 /\ DOMAIN custom[d] = 1..k
      /\ custom'[d][k + 1] = Mode(b)
      /\ \A i \in 1..k : custom'[d][i] = custom[d][i]
      /\ \A e \in Outputs \ {d} : custom'[e] = custom[e]
  BY <1>1, <1>2 DEF CustomInv
<1>4. block'[d] = b /\ \A e \in Outputs \ {d} : block'[e] = block[e]
  BY <1>1 DEF ArraysInv
<1>5. moved \subseteq moved' /\ (d \notin moved' => d \notin moved /\ block[d] \in {None, b})
  BY <1>1 DEF Moves
<1>6. ASSUME d \notin moved', NEW i \in 1..k + 1
      PROVE  custom'[d][i].handle = CustomHandle(b, i)
  <2>1. CASE i = k + 1
    BY <1>3, <2>1
  <2>2. CASE i \in 1..k
    <3>1. custom[d] # <<>>
      BY <1>2, <2>2
    <3>2. d \notin moved /\ block[d] = b
      BY <1>5, <1>6, <3>1 DEF LiveInv
    <3>3. custom[d][i].handle = CustomHandle(b, i)
      BY <1>3, <2>2, <3>2 DEF LiveInv
    <3> QED BY <1>3, <2>2, <3>3
  <2> QED BY <1>2, <2>1, <2>2
<1>7. ASSUME NEW e \in Outputs PROVE custom'[e] # <<>> => block'[e] # None
  BY <1>3, <1>4, <1>7, NoneAssumption DEF LiveInv
<1>8. ASSUME NEW e \in Outputs \ moved', NEW i \in DOMAIN custom'[e]
      PROVE  custom'[e][i].handle = CustomHandle(block'[e], i)
  <2>1. CASE e = d
    BY <1>3, <1>4, <1>6, <1>8, <2>1
  <2>2. CASE e # d
    BY <1>3, <1>4, <1>5, <1>8, <2>2 DEF LiveInv
  <2> QED BY <2>1, <2>2
<1> QED BY <1>7, <1>8 DEF LiveInv

LEMMA LiveKept ==
    ASSUME ArraysInv, CustomInv, LiveInv, [Next]_vars
    PROVE  LiveInv'
<1>1. ASSUME UNCHANGED <<block, custom, moved>> PROVE LiveInv'
  BY <1>1 DEF LiveInv
<1>2. ASSUME FiniDisplay, UNCHANGED moved PROVE LiveInv'
  <2>1. \A d \in Outputs : custom'[d] = <<>> /\ DOMAIN custom'[d] = {}
    BY <1>2 DEF FiniDisplay
  <2> QED BY <2>1 DEF LiveInv
<1>3. CASE Load \/ EnumeratePhysicalDevices \/ EnumerateExtensions \/ CreateSwapchain
  BY <1>1, <1>3 DEF Load, EnumeratePhysicalDevices, EnumerateExtensions, CreateSwapchain, displayVars
<1>4. CASE InitDisplay
  BY <1>1, <1>2, <1>4 DEF InitDisplay, AddOutput, InitFails, displayVars
<1>5. CASE Unload
  BY <1>2, <1>5 DEF Unload, Fini
<1>6. CASE \E n \in Names : GetProcAddr(n)
  BY <1>1, <1>6 DEF GetProcAddr, displayVars
<1>7. CASE \E g \in 1..gpus : UsePhysicalDevice(g)
  BY <1>1, <1>7 DEF UsePhysicalDevice, displayVars
<1>8. CASE \E d \in Outputs, p \in Params : CreateMode(d, p)
  BY <1>1, <1>8, AddCustomLive DEF CreateMode, CreateDisplayMode
<1>9. CASE UNCHANGED vars
  BY <1>1, <1>9 DEF vars, displayVars
<1> QED BY <1>3, <1>4, <1>5, <1>6, <1>7, <1>8, <1>9 DEF Next

(* A VkDisplayModeKHR that the application holds is the address of its     *)
(* mode, for any number of custom modes, unless a later mode has made      *)
(* realloc move the array: only then does the library hand out addresses   *)
(* that it has freed.                                                      *)
THEOREM HandlesLiveCorrect == Spec => []HandlesLive
<1> DEFINE I == /\ IInv /\ PlanesInv /\ ArraysInv
                /\ CustomInv /\ GivenInv /\ HandlesAreModes /\ LiveInv
<1>1. Init => I
  <2>1. Init => CustomInv /\ GivenInv /\ HandlesAreModes
    BY DEF Init, DisplayInit, CustomInv, GivenInv, HandlesAreModes
  <2>2. Init => PlanesInv /\ ArraysInv
    BY DEF Init, DisplayInit, PlanesInv, ArraysInv
  <2>3. Init => LiveInv
    BY DEF Init, DisplayInit, LiveInv
  <2> QED BY <2>1, <2>2, <2>3, InitInv
<1>2. I /\ [Next]_vars => I'
  BY NextKeepsInv, PlanesKept, ArraysKept, ModesKept, LiveKept DEF IInv, ModesInv
<1>3. ASSUME CustomInv, GivenInv, LiveInv, ~down, NEW g \in given, g.display \notin moved
      PROVE  Points(g)
  <2>1. g.display \in Outputs /\ (BuiltIn(g) \/ Custom(g))
    BY <1>3 DEF GivenInv
  <2>2. CASE BuiltIn(g)
    BY <2>2 DEF BuiltIn, Points
  <2>3. CASE Custom(g)
    <3>1. PICK i \in DOMAIN custom[g.display] :
              custom[g.display][i].params = g.params /\ custom[g.display][i].handle = g.handle
      BY <2>3 DEF Custom
    <3>2. g.handle = <<"custom", block[g.display], i>>
      BY <1>3, <2>1, <3>1 DEF LiveInv, CustomHandle
    <3> QED BY <3>1, <3>2 DEF Points
  <2> QED BY <2>1, <2>2, <2>3
<1>4. I => HandlesLive
  BY <1>3 DEF HandlesLive
<1> QED BY <1>1, <1>2, <1>4, PTL DEF Spec
-----------------------------------------------------------------------------
(* All that the lookups of a name can find is one function: the WSI        *)
(* layer's for an entry point of the layer, else the ICD's.                *)
LEMMA OneFunction ==
    ASSUME NEW n
    PROVE  Lookups(n) \ {Null, Fault} \subseteq
               {IF n \in entry_points THEN Wsi(n) ELSE <<"icd", n>>}
<1>1. ASSUME NEW through, NEW table
      PROVE  Delegate(through, IcdIn(table, n)) \in {Null, Fault, <<"icd", n>>}
  BY DEF Delegate, IcdIn
<1>2. CASE n \in entry_points
  BY <1>2 DEF Lookups, vk_GetInstanceProcAddr, vk_GetDeviceProcAddr, vk_icdGetInstanceProcAddr
<1>3. CASE n \notin entry_points
  <2>1. \A i \in BOOLEAN : vk_GetInstanceProcAddr(i, n) \in {Null, Fault, <<"icd", n>>}
    BY <1>1, <1>3 DEF vk_GetInstanceProcAddr, get_instance_proc_addr
  <2>2. vk_GetDeviceProcAddr(n) \in {Null, Fault, <<"icd", n>>}
    BY <1>1, <1>3 DEF vk_GetDeviceProcAddr, get_device_proc_addr
  <2>3. vk_icdGetInstanceProcAddr(n) \in {Null, Fault, <<"icd", n>>}
    BY <1>1, <1>3 DEF vk_icdGetInstanceProcAddr, icdGetInstanceProcAddr
  <2> QED BY <1>3, <2>1, <2>2, <2>3 DEF Lookups
<1> QED BY <1>2, <1>3

(* A function of the device is one of its instance too. *)
LEMMA InstanceFindsDeviceFunctions ==
    ASSUME NEW n, vk_GetDeviceProcAddr(n) \notin {Null, Fault}
    PROVE  vk_GetInstanceProcAddr(TRUE, n) # Null
<1>1. CASE n \in entry_points
  <2>1. n \in DeviceNames
    BY <1>1 DEF vk_GetDeviceProcAddr
  <2>2. n \notin GlobalNames
    BY <2>1 DEF DeviceNames, GlobalNames
  <2>3. vk_GetInstanceProcAddr(TRUE, n) = Wsi(n)
    BY <1>1, <2>2 DEF vk_GetInstanceProcAddr
  <2>4. Wsi(n) # Null
    BY DEF Wsi, Null
  <2> QED BY <2>3, <2>4
<1>2. CASE n \notin entry_points
  <2>1. "icdGetInstanceProcAddr" \in have /\ n \in device_funcs \ driver.lacks
    BY <1>2 DEF vk_GetDeviceProcAddr, Delegate, get_device_proc_addr, IcdIn
  <2>2. vk_GetInstanceProcAddr(TRUE, n) \in {<<"icd", n>>, Fault}
    BY <1>2, <2>1 DEF vk_GetInstanceProcAddr, Delegate, get_instance_proc_addr, IcdIn
  <2>3. <<"icd", n>> # Null /\ Fault # Null
    BY DEF Null, Fault
  <2> QED BY <2>2, <2>3
<1> QED BY <1>1, <1>2

(* Whichever of the lookups the loader and the application use, they find  *)
(* the same function for a name: no call bypasses the WSI layer, and what  *)
(* vkGetDeviceProcAddr finds vkGetInstanceProcAddr finds, or crashes.      *)
THEOREM LookupsCorrect == Spec => []LookupsAgree
<1>1. LookupsAgree
  <2>1. ASSUME NEW n \in Names
        PROVE  LET found == Lookups(n) \ {Null, Fault} IN
               /\ Cardinality(found) <= 1
               /\ vk_GetDeviceProcAddr(n) \in found =>
                      vk_GetInstanceProcAddr(TRUE, n) \in found \cup {Fault}
    <3> DEFINE found == Lookups(n) \ {Null, Fault}
               f == IF n \in entry_points THEN Wsi(n) ELSE <<"icd", n>>
    <3>1. found \subseteq {f}
      BY OneFunction
    <3>2. found = {} \/ found = {f}
      BY <3>1
    <3>3. Cardinality(found) <= 1
      <4>1. Cardinality({}) = 0
        BY FS_EmptySet
      <4>2. Cardinality({f}) = 1
        BY FS_Singleton
      <4> HIDE DEF found, f
      <4> QED BY <3>2, <4>1, <4>2
    <3>4. vk_GetInstanceProcAddr(TRUE, n) \in Lookups(n)
      BY DEF Lookups
    <3> QED BY <3>3, <3>4, InstanceFindsDeviceFunctions
  <2> QED BY <2>1 DEF LookupsAgree
<1> QED BY <1>1, PTL
=============================================================================
