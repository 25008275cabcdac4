---------------------------- MODULE SwapchainTdm ----------------------------
(***************************************************************************)
(* The display (TDM) backend of a live swapchain: src/wsi/swapchain_tdm.c  *)
(* from the first acquire to the last present, driven through              *)
(* vk_AcquireNextImageKHR and vk_QueuePresentKHR of src/wsi/swapchain.c.   *)
(*                                                                         *)
(* A thread is a program counter and the local variable tbm_surface.  A    *)
(* step is the code between two points where another thread, the display   *)
(* or the application can be observed: a lock, a wait, a call into libtbm  *)
(* or libtdm.  The libraries are external: tbm_surface_queue is a pair of  *)
(* FIFO queues, a TBM sync timeline a counter that signals every fence at  *)
(* or below it, and a TDM output shows the committed frames in order, one  *)
(* per vblank, and then queues one callback per commit.                    *)
(***************************************************************************)
EXTENDS Integers, Sequences, FiniteSets, Functions

CONSTANTS
    Threads,          \* every thread that enters the backend
    Presenters,       \* those that present an image
    Acquirers,        \* those that acquire one
    TimedAcquirers,   \* acquirers that pass a timeout other than UINT64_MAX
    Dispatchers,      \* threads of other swapchains, dispatching this display's events
    Buffers,          \* the tbm surfaces of the queue
    NoThread, NoBuffer,
    IcdAcquire,       \* the ICD exports vkAcquireImageTIZEN
    IcdRelease,       \* the ICD exports vkQueueSignalReleaseImageTIZEN
    StampKept,        \* set_user_data keeps a value under a key never added
    LostStamps,       \* what the timestamp may read as when it does not
    WaitsForEvent,    \* tdm_display_handle_events returns after an event only
    Faults,           \* the calls that may fail, named by the pc that makes them
    MaxPresents,      \* bound on the presents
    MaxHeld           \* how many images the application acquires at a time

ASSUME ThreadAssumption ==
    /\ Presenters \cup Acquirers \cup Dispatchers \subseteq Threads
    /\ Dispatchers \cap (Presenters \cup Acquirers) = {}
    /\ TimedAcquirers \subseteq Acquirers
    /\ NoThread \notin Threads

ASSUME BufferAssumption ==
    /\ IsFiniteSet(Buffers)
    /\ NoBuffer \notin Buffers

ASSUME LibraryAssumption ==
    /\ LostStamps \subseteq Nat
    /\ {IcdAcquire, IcdRelease, StampKept, WaitsForEvent} \subseteq BOOLEAN

ASSUME BoundAssumption == MaxPresents \in Nat /\ MaxHeld \in Nat

VARIABLES
    pc,             \* thread -> where it is in the backend
    surface,        \* thread -> its tbm_surface variable
    app,            \* the images the application owns
    lost,           \* the surfaces an error return left in no queue
    freeQueue,      \* tbm_queue: surfaces ready to be dequeued
    dirtyQueue,     \* tbm_queue: surfaces enqueued and not yet acquired
    freeMutex,      \* holder of free_queue_mutex
    frontMutex,     \* holder of front_mutex
    frontBuffer,    \* front_buffer
    key,            \* surface -> its timeline user data: "absent", "ok" or "failed" (-1)
    timeline,       \* surface -> value of its sync timeline
    timestamp,      \* surface -> its timestamp user data
    fence,          \* surface -> point the owner's fence waits for, 0 for no fence
    shown,          \* surface -> presentations it became the front buffer of (history)
    missed,         \* surface -> retirements whose increment failed (history)
    layer,          \* the surface last set on the TDM layer
    pending,        \* frames committed and not on the screen yet
    screen,         \* the surface the output scans out
    ready,          \* commit callbacks waiting to be dispatched
    presents        \* presents so far

queueVars == <<app, lost, freeQueue, dirtyQueue>>
lockVars  == <<freeMutex, frontMutex>>
syncVars  == <<key, timeline, timestamp, fence>>
frontVars == <<frontBuffer, shown, missed>>
tdmVars   == <<layer, pending, screen, ready>>
vars == <<pc, surface, queueVars, lockVars, syncVars, frontVars, tdmVars, presents>>

notLocks  == <<syncVars, frontVars, tdmVars, presents>>
notQueues == <<lockVars, notLocks>>

AcquirePcs == {"acq_lock", "acq_check", "acq_wait", "acq_expired",
               "acq_dequeue", "acq_unlock", "acq_fence"}
EventPcs   == {"events", "dispatch", "cb_lock", "cb_inc", "cb_clear"}
PresentPcs == {"fence_wait", "enqueue", "acquire", "set_buffer", "commit",
               "rel_lock", "release", "rel_unlock", "signal",
               "front_lock", "front_inc", "front_set"} \cup EventPcs
Pcs == {"idle"} \cup AcquirePcs \cup PresentPcs

At(S)  == {t \in Threads : pc[t] \in S}

Goto(t, to)       == pc' = [pc EXCEPT ![t] = to]
Step(t, from, to) == pc[t] = from /\ Goto(t, to)
(* The call returns; its local variable is gone. *)
Return(t) == Goto(t, "idle") /\ surface' = [surface EXCEPT ![t] = NoBuffer]

Fails(call) == call \in Faults

(* Steps that move a thread and change nothing else, or one of the mutexes. *)
Move(t, from, to) == Step(t, from, to) /\ UNCHANGED <<surface, queueVars, notQueues>>
LockFree(t, from, to) ==
    /\ Step(t, from, to)
    /\ freeMutex = NoThread /\ freeMutex' = t
    /\ UNCHANGED <<surface, queueVars, frontMutex, notLocks>>
UnlockFree(t, from, to) ==
    /\ Step(t, from, to)
    /\ freeMutex' = NoThread
    /\ UNCHANGED <<surface, queueVars, frontMutex, notLocks>>
LockFront(t, from, to) ==
    /\ Step(t, from, to)
    /\ frontMutex = NoThread /\ frontMutex' = t
    /\ UNCHANGED <<surface, queueVars, freeMutex, notLocks>>

(* After get_buffers: every surface is free, the two mutexes are unlocked  *)
(* and the zeroed structure has no front buffer.                           *)
Init ==
    /\ pc = [t \in Threads |-> "idle"]
    /\ surface = [t \in Threads |-> NoBuffer]
    /\ app = {} /\ lost = {}
    /\ freeQueue \in Bijection(1..Cardinality(Buffers), Buffers)
    /\ dirtyQueue = <<>>
    /\ freeMutex = NoThread /\ frontMutex = NoThread
    /\ frontBuffer = NoBuffer
    /\ key = [b \in Buffers |-> "absent"]
    /\ timeline = [b \in Buffers |-> 0]
    /\ timestamp = [b \in Buffers |-> 0]
    /\ fence = [b \in Buffers |-> 0]
    /\ shown = [b \in Buffers |-> 0] /\ missed = [b \in Buffers |-> 0]
    /\ layer = NoBuffer /\ pending = <<>> /\ screen = NoBuffer
    /\ ready = 0
    /\ presents = 0
-----------------------------------------------------------------------------
(***************************************************************************)
(* vk_AcquireNextImageKHR, swapchain_tdm_acquire_next_image                *)
(***************************************************************************)

(* The application asks for an image while it holds fewer than MaxHeld. *)
AcquireCall(t) ==
    /\ t \in Acquirers
    /\ Cardinality(app) + Cardinality(At(AcquirePcs)) < MaxHeld
    /\ Move(t, "idle", "acq_lock")

(* The mutex is taken, on entry or by the return of a condition wait. *)
AcquireLock(t) == LockFree(t, "acq_lock", "acq_check")

(* tbm_surface_queue_can_dequeue under the mutex; waiting gives it back. *)
AcquireCheck(t) ==
    \/ freeQueue # <<>> /\ Move(t, "acq_check", "acq_dequeue")
    \/ freeQueue = <<>> /\ UnlockFree(t, "acq_check", "acq_wait")

(* A wait on a condition variable may return without a signal. *)
SpuriousWake(t) == Move(t, "acq_wait", "acq_lock")

AcquireTimeout(t) == t \in TimedAcquirers /\ Move(t, "acq_wait", "acq_expired")

(* A mutant: the timeout return forgets the mutex it has relocked. *)
AcquireExpiredLocked(t) == LockFree(t, "acq_expired", "idle")

(* pthread_cond_timedwait relocks the mutex before it returns ETIMEDOUT,   *)
(* the call unlocks it and returns VK_TIMEOUT without another look.        *)
AcquireExpired(t) == freeMutex = NoThread /\ Move(t, "acq_expired", "idle")

(* The error return keeps free_queue_mutex locked. *)
AcquireDequeue(t) ==
    /\ \/ /\ freeQueue # <<>>
          /\ Step(t, "acq_dequeue", "acq_unlock")
          /\ surface' = [surface EXCEPT ![t] = Head(freeQueue)]
          /\ freeQueue' = Tail(freeQueue)
       \/ /\ freeQueue = <<>> \/ Fails("acq_dequeue")
          /\ Step(t, "acq_dequeue", "idle")
          /\ UNCHANGED <<surface, freeQueue>>
    /\ UNCHANGED <<app, lost, dirtyQueue, notQueues>>

AcquireUnlock(t) == UnlockFree(t, "acq_unlock", "acq_fence")

(* The values the uninitialised local timestamp may hold after             *)
(* tbm_surface_internal_get_user_data.                                     *)
StampReads(b) == IF StampKept THEN {timestamp[b]} ELSE LostStamps

(* A mutant: the fence waits for one retirement too few. *)
EarlyFence(b) ==
    /\ key' = [key EXCEPT ![b] = "ok"]
    /\ timestamp' = [timestamp EXCEPT ![b] = IF key[b] = "absent" THEN @ ELSE @ + 1]
    /\ fence' = [fence EXCEPT ![b] = timestamp[b]]

(* A mutant: the first acquire of a surface makes a fence too. *)
FirstFence(b) ==
    /\ key' = [key EXCEPT ![b] = "ok"]
    /\ timestamp' = [timestamp EXCEPT ![b] = @ + 1]
    /\ fence' = [fence EXCEPT ![b] = timestamp[b] + 1]

(* swapchain_tdm_get_sync_fence: the first acquire of a surface makes its  *)
(* timeline and no fence, the later ones a fence one point further.        *)
GetSyncFence(b) ==
    \/ /\ key[b] = "absent"
       /\ \/ key' = [key EXCEPT ![b] = "ok"]
          \/ Fails("timeline_create") /\ key' = [key EXCEPT ![b] = "failed"]
       /\ fence' = [fence EXCEPT ![b] = 0]
       /\ UNCHANGED timestamp
    \/ /\ key[b] # "absent"
       /\ \E old \in StampReads(b) :
             /\ timestamp' = IF StampKept THEN [timestamp EXCEPT ![b] = old + 1]
                                          ELSE timestamp
             /\ \/ key[b] = "ok" /\ fence' = [fence EXCEPT ![b] = old + 1]
                \/ /\ key[b] = "failed" \/ Fails("fence_create")
                   /\ fence' = [fence EXCEPT ![b] = 0]
       /\ UNCHANGED key

(* The image goes to the application, with the fence if the ICD takes one. *)
AcquireReturn(t) ==
    /\ pc[t] = "acq_fence"
    /\ IF IcdAcquire THEN GetSyncFence(surface[t])
                     ELSE UNCHANGED <<key, timestamp, fence>>
    /\ app' = app \cup {surface[t]}
    /\ Return(t)
    /\ UNCHANGED <<lost, freeQueue, dirtyQueue, timeline, lockVars, frontVars, tdmVars, presents>>

AcquireStep(t) ==
    \/ AcquireLock(t) \/ AcquireCheck(t) \/ AcquireExpired(t)
    \/ AcquireDequeue(t) \/ AcquireUnlock(t) \/ AcquireReturn(t)
-----------------------------------------------------------------------------
(***************************************************************************)
(* vk_QueuePresentKHR, swapchain_tdm_queue_present_image                   *)
(***************************************************************************)

(* The application presents an image it owns.  The ICD has made sync_fd    *)
(* from the semaphores the rendering of the image signals.                 *)
PresentCall(t, b) ==
    /\ t \in Presenters
    /\ b \in app
    /\ presents < MaxPresents /\ presents' = presents + 1
    /\ Step(t, "idle", "fence_wait")
    /\ surface' = [surface EXCEPT ![t] = b]
    /\ app' = app \ {b}
    /\ UNCHANGED <<lost, freeQueue, dirtyQueue, lockVars, syncVars, frontVars, tdmVars>>

Signaled(b) == timeline[b] >= fence[b]

(* tbm_sync_fence_wait: the rendering starts once the acquire fence has    *)
(* signalled.  A failed wait is logged and the call goes on.               *)
PresentFenceWait(t) ==
    /\ Move(t, "fence_wait", "enqueue")
    /\ ~IcdRelease \/ Signaled(surface[t]) \/ Fails("fence_wait")

PresentEnqueue(t) ==
    /\ Step(t, "enqueue", "acquire")
    /\ dirtyQueue' = Append(dirtyQueue, surface[t])
    /\ UNCHANGED <<surface, app, lost, freeQueue, notQueues>>

(* A mutant: the frame at the front of the queue is consumed, but the      *)
(* surface the caller passed is the one that is shown and released.        *)
PresentAcquireOwn(t) ==
    /\ Step(t, "acquire", "set_buffer")
    /\ dirtyQueue # <<>>
    /\ dirtyQueue' = Tail(dirtyQueue)
    /\ UNCHANGED <<surface, app, lost, freeQueue, notQueues>>

(* A mutant: the frames behind the oldest one are dropped. *)
PresentAcquireDrain(t) ==
    /\ Step(t, "acquire", "set_buffer")
    /\ dirtyQueue # <<>>
    /\ surface' = [surface EXCEPT ![t] = Head(dirtyQueue)]
    /\ dirtyQueue' = <<>>
    /\ UNCHANGED <<app, lost, freeQueue, notQueues>>

(* The oldest frame replaces the tbm_surface argument; without one the     *)
(* call fails and its own frame stays in the queue.                        *)
PresentAcquire(t) ==
    /\ \/ /\ dirtyQueue # <<>>
          /\ Step(t, "acquire", "set_buffer")
          /\ surface' = [surface EXCEPT ![t] = Head(dirtyQueue)]
          /\ dirtyQueue' = Tail(dirtyQueue)
       \/ /\ dirtyQueue = <<>> \/ Fails("acquire")
          /\ pc[t] = "acquire" /\ Return(t)
          /\ UNCHANGED dirtyQueue
    /\ UNCHANGED <<app, lost, freeQueue, notQueues>>

PresentSetBuffer(t) ==
    /\ Step(t, "set_buffer", "commit")
    /\ layer' = surface[t]
    /\ UNCHANGED <<surface, queueVars, lockVars, syncVars, frontVars, pending, screen, ready, presents>>

PresentCommit(t) ==
    /\ Step(t, "commit", "events")
    /\ pending' = Append(pending, layer)
    /\ UNCHANGED <<surface, queueVars, lockVars, syncVars, frontVars, layer, screen, ready, presents>>

(* A mutant: the surface is handed to nobody. *)
PresentErrorForget(t) ==
    /\ t \in Presenters
    /\ pc[t] \in {"enqueue", "set_buffer", "commit", "events", "dispatch"} /\ Fails(pc[t])
    /\ Return(t)
    /\ UNCHANGED <<queueVars, notQueues>>

(* The error returns around the commit: the surface is in no queue. *)
PresentError(t) ==
    /\ t \in Presenters
    /\ pc[t] \in {"enqueue", "set_buffer", "commit", "events", "dispatch"} /\ Fails(pc[t])
    /\ lost' = lost \cup {surface[t]}
    /\ Return(t)
    /\ UNCHANGED <<app, freeQueue, dirtyQueue, notQueues>>

PresentReleaseLock(t) == LockFree(t, "rel_lock", "release")

(* The surface is free while it is on the screen.  The error return keeps  *)
(* free_queue_mutex locked.                                                *)
PresentRelease(t) ==
    /\ \/ /\ Step(t, "release", "rel_unlock")
          /\ freeQueue' = Append(freeQueue, surface[t])
          /\ UNCHANGED <<surface, lost>>
       \/ /\ Fails("release")
          /\ pc[t] = "release" /\ Return(t)
          /\ lost' = lost \cup {surface[t]}
          /\ UNCHANGED freeQueue
    /\ UNCHANGED <<app, dirtyQueue, notQueues>>

(* A mutant: the release keeps the mutex, as its error return does. *)
PresentReleaseKeep(t) == Move(t, "rel_unlock", "signal")

PresentReleaseUnlock(t) == UnlockFree(t, "rel_unlock", "signal")

(* A mutant: nobody is woken. *)
PresentNoSignal(t) == Move(t, "signal", "front_lock")

(* pthread_cond_signal wakes one waiter, if there is one. *)
PresentSignal(t) ==
    /\ pc[t] = "signal"
    /\ \/ \E w \in At({"acq_wait"}) : pc' = [pc EXCEPT ![t] = "front_lock", ![w] = "acq_lock"]
       \/ At({"acq_wait"}) = {} /\ Goto(t, "front_lock")
    /\ UNCHANGED <<surface, queueVars, notQueues>>

(* swapchain_tdm_increase_timestamp.  An increment that fails is logged,   *)
(* and the callers clear or replace front_buffer all the same.             *)
IncreaseTimestamp(b) ==
    \/ /\ b # NoBuffer /\ key[b] = "ok"
       /\ \/ timeline' = [timeline EXCEPT ![b] = @ + 1] /\ UNCHANGED missed
          \/ /\ Fails("timeline_inc")
             /\ missed' = [missed EXCEPT ![b] = @ + 1]
             /\ UNCHANGED timeline
    \/ ~(b # NoBuffer /\ key[b] = "ok") /\ UNCHANGED <<timeline, missed>>

PresentFrontLock(t) == LockFront(t, "front_lock", "front_inc")

PresentFrontIncrease(t) ==
    /\ Step(t, "front_inc", "front_set")
    /\ IncreaseTimestamp(frontBuffer)
    /\ UNCHANGED <<surface, queueVars, lockVars, key, timestamp, fence,
                   frontBuffer, shown, tdmVars, presents>>

PresentFrontSet(t) ==
    /\ pc[t] = "front_set" /\ Return(t)
    /\ frontBuffer' = surface[t]
    /\ shown' = [shown EXCEPT ![surface[t]] = @ + 1]
    /\ frontMutex' = NoThread
    /\ UNCHANGED <<queueVars, freeMutex, syncVars, missed, tdmVars, presents>>
-----------------------------------------------------------------------------
(***************************************************************************)
(* tdm_display_handle_events and swapchain_tdm_output_commit_cb            *)
(***************************************************************************)

(* A thread presenting on another swapchain of the same tdm_display. *)
DispatchCall(t) == t \in Dispatchers /\ Move(t, "idle", "events")

(* A mutant: the handler is called without an event. *)
HandleNoEvent(t) ==
    /\ Step(t, "events", "cb_lock")
    /\ ready' = ready - 1
    /\ UNCHANGED <<surface, queueVars, lockVars, syncVars, frontVars,
                   layer, pending, screen, presents>>

HandleEvents(t) ==
    \/ /\ pc[t] \in {"events", "dispatch"} /\ ready > 0
       /\ ready' = ready - 1
       /\ Goto(t, "cb_lock")
       /\ UNCHANGED <<surface, queueVars, lockVars, syncVars, frontVars,
                      layer, pending, screen, presents>>
    \/ /\ pc[t] = "dispatch" \/ (pc[t] = "events" /\ ~WaitsForEvent)
       /\ Goto(t, IF t \in Presenters THEN "rel_lock" ELSE "idle")
       /\ UNCHANGED <<surface, queueVars, notQueues>>

(* A mutant: the callback does not take the lock. *)
CallbackNoLock(t) == Move(t, "cb_lock", "cb_inc")

CallbackLock(t) == LockFront(t, "cb_lock", "cb_inc")

(* A mutant: the front buffer is dropped without moving its timeline. *)
CallbackForget(t) == Move(t, "cb_inc", "cb_clear")

CallbackIncrease(t) ==
    /\ Step(t, "cb_inc", "cb_clear")
    /\ IncreaseTimestamp(frontBuffer)
    /\ UNCHANGED <<surface, queueVars, lockVars, key, timestamp, fence,
                   frontBuffer, shown, tdmVars, presents>>

(* A mutant: the retired front buffer stays the front buffer. *)
CallbackKeep(t) ==
    /\ Step(t, "cb_clear", "dispatch")
    /\ frontMutex' = NoThread
    /\ UNCHANGED <<surface, queueVars, freeMutex, syncVars, frontVars, tdmVars, presents>>

CallbackClear(t) ==
    /\ Step(t, "cb_clear", "dispatch")
    /\ frontBuffer' = NoBuffer
    /\ frontMutex' = NoThread
    /\ UNCHANGED <<surface, queueVars, freeMutex, syncVars, shown, missed, tdmVars, presents>>

(* The display flips to the oldest committed frame and queues the event of *)
(* its commit.                                                             *)
Vblank ==
    /\ pending # <<>>
    /\ screen' = Head(pending)
    /\ pending' = Tail(pending)
    /\ ready' = ready + 1
    /\ UNCHANGED <<pc, surface, queueVars, lockVars, syncVars, frontVars, layer, presents>>
-----------------------------------------------------------------------------
CallbackStep(t) == CallbackLock(t) \/ CallbackIncrease(t) \/ CallbackClear(t)

PresentStep(t) ==
    \/ PresentFenceWait(t) \/ PresentEnqueue(t) \/ PresentAcquire(t)
    \/ PresentSetBuffer(t) \/ PresentCommit(t)
    \/ PresentReleaseLock(t) \/ PresentRelease(t) \/ PresentReleaseUnlock(t)
    \/ PresentSignal(t)
    \/ PresentFrontLock(t) \/ PresentFrontIncrease(t) \/ PresentFrontSet(t)

Next ==
    \/ \E t \in Threads :
          \/ AcquireCall(t) \/ AcquireStep(t) \/ SpuriousWake(t) \/ AcquireTimeout(t)
          \/ DispatchCall(t) \/ HandleEvents(t) \/ CallbackStep(t)
          \/ PresentStep(t) \/ PresentError(t)
          \/ \E b \in Buffers : PresentCall(t, b)
    \/ Vblank

Spec == Init /\ [][Next]_vars

LockStep(t) ==
    AcquireLock(t) \/ AcquireExpired(t) \/ PresentReleaseLock(t)
    \/ PresentFrontLock(t) \/ CallbackLock(t)

(* A runnable thread runs, a thread that waits for a mutex gets it if it is *)
(* free again and again, and the display keeps its refresh rate.            *)
Fairness ==
    /\ \A t \in Threads : /\ WF_vars(AcquireStep(t) \/ PresentStep(t))
                          /\ WF_vars(HandleEvents(t) \/ CallbackStep(t))
                          /\ SF_vars(LockStep(t))
    /\ WF_vars(Vblank)

FairSpec == Spec /\ Fairness
-----------------------------------------------------------------------------
(***************************************************************************)
(* Properties                                                              *)
(***************************************************************************)

TypeOK ==
    /\ pc \in [Threads -> Pcs]
    /\ surface \in [Threads -> Buffers \cup {NoBuffer}]
    /\ app \subseteq Buffers /\ lost \subseteq Buffers
    /\ freeQueue \in Seq(Buffers) /\ dirtyQueue \in Seq(Buffers)
    /\ freeMutex \in Threads \cup {NoThread}
    /\ frontMutex \in Threads \cup {NoThread}
    /\ frontBuffer \in Buffers \cup {NoBuffer}
    /\ key \in [Buffers -> {"absent", "ok", "failed"}]
    /\ timeline \in [Buffers -> Nat] /\ timestamp \in [Buffers -> Nat]
    /\ fence \in [Buffers -> Nat]
    /\ shown \in [Buffers -> Nat] /\ missed \in [Buffers -> Nat]
    /\ layer \in Buffers \cup {NoBuffer}
    /\ pending \in Seq(Buffers \cup {NoBuffer})
    /\ screen \in Buffers \cup {NoBuffer}
    /\ ready \in Nat /\ presents \in 0..MaxPresents

FreePcs  == {"acq_check", "acq_dequeue", "acq_unlock", "release", "rel_unlock"}
FrontPcs == {"front_inc", "front_set", "cb_inc", "cb_clear"}

(* The free queue is only touched by the holder of free_queue_mutex and    *)
(* front_buffer by the holder of front_mutex, on every path between the    *)
(* lock and the unlock.                                                    *)
LocksHeld ==
    \A t \in Threads : /\ pc[t] \in FreePcs => freeMutex = t
                       /\ pc[t] \in FrontPcs => frontMutex = t

(* A held mutex has a holder on its way to unlock it, the paths through a  *)
(* condition wait and a timeout included.  (The error returns of dequeue   *)
(* and release break it; no other does.)                                   *)
LocksReturned ==
    /\ freeMutex # NoThread => pc[freeMutex] \in FreePcs
    /\ frontMutex # NoThread => pc[frontMutex] \in FrontPcs

(* Where the surface of a call that is neither queued nor the             *)
(* application's is: in the tbm_surface variable of the call.             *)
HoldingPcs == {"acq_unlock", "acq_fence", "fence_wait", "enqueue", "set_buffer",
               "commit", "rel_lock", "release"} \cup EventPcs
InHand(b) == {t \in At(HoldingPcs) : surface[t] = b}

Owned == [free |-> Range(freeQueue), dirty |-> Range(dirtyQueue), app |-> app, lost |-> lost]

(* Every surface of the swapchain has exactly one owner: free, queued for  *)
(* display, in the hands of one call, the application's, or lost by an     *)
(* error return.  A surface with two owners is drawn over while it is      *)
(* shown; one with none is an image that can never be acquired again.      *)
OneOwner ==
    /\ IsInjective(freeQueue) /\ IsInjective(dirtyQueue)
    /\ \A b \in Buffers :
          Cardinality({o \in DOMAIN Owned : b \in Owned[o]}) + Cardinality(InHand(b)) = 1

(* A present that reaches tbm_surface_queue_acquire finds a frame, however *)
(* the presents of several queues interleave: nothing but a library error  *)
(* makes it leave its own frame behind in the queue.                       *)
FrameQueued == Cardinality(At({"acquire"})) <= Len(dirtyQueue)

(* The release side of the condition variable: while an acquirer waits,    *)
(* every free surface is matched by a present that has yet to signal or an *)
(* acquirer that is awake and will take it.  No image is left in the free  *)
(* queue beside a sleeping acquirer.                                       *)
NoLostWakeup ==
    At({"acq_wait"}) # {} =>
        Len(freeQueue) <= Cardinality(At({"rel_unlock", "signal"}))
                          + Cardinality(At({"acq_lock", "acq_check", "acq_dequeue"}))

(* Between the increment and the update of front_buffer, both under        *)
(* front_mutex, the front buffer is already retired.                       *)
Retiring == At({"front_set", "cb_clear"}) # {}

(* Each presentation of a surface increments its timeline exactly once, no *)
(* matter whether the commit callback or the next present retires it: the  *)
(* timeline is behind the presentations by the front buffer's own and by   *)
(* the increments that failed, which nothing ever makes up for.            *)
RetiredOnce ==
    \A b \in Buffers : key[b] = "ok" =>
        shown[b] = timeline[b] + missed[b] + IF frontBuffer = b /\ ~Retiring THEN 1 ELSE 0

(* An image whose acquire fence has signalled is the application's to      *)
(* render to, "fully released" by the engine (samples/tri.c:553): it is    *)
(* neither scanned out nor about to be.                                    *)
RenderReleased ==
    \A b \in app : Signaled(b) => screen # b /\ b \notin Range(pending)

(* The fence of an acquired image waits for no retirement that is not on   *)
(* its way: at most the presentation that is the last one to complete.     *)
(* (A retirement whose increment fails leaves the point out of reach until *)
(* a later one.)                                                           *)
FenceReachable ==
    \A b \in app : fence[b] <= shown[b] + Cardinality({t \in Threads :
        surface[t] = b /\ pc[t] \in {"rel_unlock", "signal", "front_lock", "front_inc", "front_set"}})

(* The images as the application sees them: in its own hands from the      *)
(* dequeue to the enqueue, with the engine until the release.              *)
EngineHand == {surface[t] : t \in At({"set_buffer", "commit", "rel_lock", "release"} \cup EventPcs)}
owner == [b \in Buffers |->
            CASE b \in Range(freeQueue)                -> "free"
              [] b \in lost                            -> "lost"
              [] b \in Range(dirtyQueue) \cup EngineHand -> "engine"
              [] OTHER                                 -> "app"]

Ownership == INSTANCE ImageOwnership WITH Images <- Buffers, avail <- freeQueue

(* The backend does what acquire_image and present_image promise: images   *)
(* are handed out one at a time in the order they were recycled, whatever  *)
(* the threads, errors and timeouts do.                                    *)
ImplementsOwnership == Ownership!Spec

(* When no call fails a presented image is recycled.                       *)
ImplementsFairOwnership == Ownership!FairSpec

(* A call has returned with free_queue_mutex locked.                       *)
KeptLocked == freeMutex # NoThread /\ pc[freeMutex] = "idle"

(* An image released while acquirers sleep reaches one of them, unless an  *)
(* error return keeps the mutex that all of them need.                     *)
AcquirerServed ==
    (freeQueue # <<>> /\ At({"acq_wait"}) # {})
        ~> (freeQueue = <<>> \/ At({"acq_wait"}) = {} \/ KeptLocked)

(* A present returns: its rendering is released by the acquire fence, the  *)
(* callback it waits for arrives and neither mutex is kept from it.        *)
PresentReturns ==
    \A t \in Presenters : pc[t] = "fence_wait" ~> pc[t] = "idle"
=============================================================================
