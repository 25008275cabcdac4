-------------------------- MODULE SwapchainTdmProofs --------------------------
(***************************************************************************)
(* Theorems about SwapchainTdm, for any threads, surfaces, failing calls   *)
(* and bounds: the types, the mutexes, the retirement of presentations,    *)
(* and who owns a surface: each has one owner, and the backend implements  *)
(* ImageOwnership.                                                         *)
(***************************************************************************)
EXTENDS SwapchainTdm, TLAPS, FiniteSetTheorems

(* The calls whose tbm_surface variable holds a surface: those past the    *)
(* dequeue and the presents; a dispatcher handles events without one.      *)
CarryingPcs == {"acq_unlock", "acq_fence"} \cup (PresentPcs \ EventPcs)
Carrying(t) == pc[t] \in CarryingPcs \/ (pc[t] \in EventPcs /\ t \in Presenters)

TypeInv ==
    /\ TypeOK
    /\ \A t \in Threads : Carrying(t) => surface[t] \in Buffers

(* The two parts of a queue that is not empty. *)
LEMMA HeadTail ==
    ASSUME NEW S, NEW s \in Seq(S), s # <<>>
    PROVE  Head(s) \in S /\ Tail(s) \in Seq(S)
OBVIOUS

LEMMA AppendType ==
    ASSUME NEW S, NEW s \in Seq(S), NEW e \in S
    PROVE  Append(s, e) \in Seq(S)
OBVIOUS

(* The user data and the fence that an acquire of surface b leaves. *)
LEMMA GetSyncFenceType ==
    ASSUME NEW b \in Buffers, TypeOK, GetSyncFence(b)
    PROVE  /\ key' \in [Buffers -> {"absent", "ok", "failed"}]
           /\ timestamp' \in [Buffers -> Nat]
           /\ fence' \in [Buffers -> Nat]
<1>0. /\ key \in [Buffers -> {"absent", "ok", "failed"}]
      /\ timestamp \in [Buffers -> Nat]
      /\ fence \in [Buffers -> Nat]
  BY DEF TypeOK
<1>1. CASE key[b] = "absent"
  BY <1>0, <1>1 DEF GetSyncFence
<1>2. CASE key[b] # "absent"
  <2>1. PICK old \in StampReads(b) :
          /\ timestamp' = IF StampKept THEN [timestamp EXCEPT ![b] = old + 1] ELSE timestamp
          /\ fence' = [fence EXCEPT ![b] = old + 1] \/ fence' = [fence EXCEPT ![b] = 0]
          /\ key' = key
    BY <1>2 DEF GetSyncFence
  <2>2. old \in Nat
    BY <1>0, LibraryAssumption DEF StampReads
  <2> QED BY <1>0, <2>1, <2>2
<1> QED BY <1>1, <1>2

LEMMA CountType ==
    ASSUME NEW f \in [Buffers -> Nat], NEW b \in Buffers
    PROVE  [f EXCEPT ![b] = @ + 1] \in [Buffers -> Nat]
OBVIOUS

LEMMA IncreaseType ==
    ASSUME TypeOK, NEW b \in Buffers \cup {NoBuffer}, IncreaseTimestamp(b)
    PROVE  timeline' \in [Buffers -> Nat] /\ missed' \in [Buffers -> Nat]
<1>1. timeline \in [Buffers -> Nat] /\ missed \in [Buffers -> Nat]
  BY DEF TypeOK
<1>2. CASE b \in Buffers
  BY <1>1, <1>2, CountType DEF IncreaseTimestamp
<1>3. CASE b = NoBuffer
  BY <1>1, <1>3 DEF IncreaseTimestamp
<1> QED BY <1>2, <1>3

(* Only the thread that moves can start to carry a surface. *)
LEMMA CarryingStep ==
    ASSUME TypeInv, NEW t \in Threads, NEW to, Goto(t, to),
           \A u \in Threads \ {t} : surface'[u] = surface[u],
           to \in CarryingPcs \/ (to \in EventPcs /\ t \in Presenters)
               => surface'[t] \in Buffers
    PROVE  \A u \in Threads : Carrying(u)' => surface'[u] \in Buffers
<1>1. pc \in [Threads -> Pcs]
  BY DEF TypeInv, TypeOK
<1>2. pc'[t] = to /\ \A u \in Threads \ {t} : pc'[u] = pc[u]
  BY <1>1 DEF Goto
<1> QED BY <1>2 DEF TypeInv, Carrying

LEMMA TypeInit == Init => TypeInv
<1> SUFFICES ASSUME Init PROVE TypeInv
    OBVIOUS
<1>1. freeQueue \in Seq(Buffers)
  <2>1. Cardinality(Buffers) \in Nat
    BY BufferAssumption, FS_CardinalityType
  <2>2. freeQueue \in [1..Cardinality(Buffers) -> Buffers]
    BY DEF Init, Bijection, Injection
  <2> QED BY <2>1, <2>2
<1>2. TypeOK
  BY <1>1, BoundAssumption DEF Init, TypeOK, Pcs
<1>3. \A t \in Threads : ~Carrying(t)
  BY DEF Init, Carrying, CarryingPcs, PresentPcs, EventPcs
<1> QED BY <1>2, <1>3 DEF TypeInv

LEMMA TypeNext == TypeInv /\ [Next]_vars => TypeInv'
<1> SUFFICES ASSUME TypeInv, [Next]_vars PROVE TypeInv'
    OBVIOUS
<1> USE DEF TypeInv, TypeOK, Carrying, CarryingPcs, Pcs, AcquirePcs, PresentPcs, EventPcs
<1> USE DEF queueVars, lockVars, syncVars, frontVars, tdmVars, notLocks, notQueues
<1> USE DEF Move, Step, Goto, Return, LockFree, UnlockFree, LockFront
<1>1. CASE UNCHANGED vars
  BY <1>1 DEF vars
<1>2. ASSUME NEW t \in Threads, AcquireCall(t) \/ SpuriousWake(t) \/ AcquireTimeout(t) PROVE TypeInv'
  <2>1. CASE AcquireCall(t)
    BY <2>1 DEF AcquireCall
  <2>2. CASE SpuriousWake(t)
    BY <2>2 DEF SpuriousWake
  <2>3. CASE AcquireTimeout(t)
    BY <2>3 DEF AcquireTimeout
  <2> QED BY <1>2, <2>1, <2>2, <2>3
<1>3. ASSUME NEW t \in Threads, AcquireStep(t) PROVE TypeInv'
  <2>1. CASE AcquireLock(t)
    BY <2>1 DEF AcquireLock
  <2>2. CASE AcquireCheck(t)
    <3>1. CASE Move(t, "acq_check", "acq_dequeue")
      BY <3>1
    <3>2. CASE UnlockFree(t, "acq_check", "acq_wait")
      BY <3>2
    <3> QED BY <2>2, <3>1, <3>2 DEF AcquireCheck
  <2>3. CASE AcquireExpired(t)
    BY <2>3 DEF AcquireExpired
  <2>4. CASE AcquireDequeue(t)
    <3>1. freeQueue # <<>> => Head(freeQueue) \in Buffers /\ Tail(freeQueue) \in Seq(Buffers)
      BY HeadTail
    <3>2. /\ surface' \in [Threads -> Buffers \cup {NoBuffer}]
          /\ freeQueue' \in Seq(Buffers)
      BY <2>4, <3>1 DEF AcquireDequeue
    <3>3. \A u \in Threads : Carrying(u)' => surface'[u] \in Buffers
      <4>1. CASE surface' = [surface EXCEPT ![t] = Head(freeQueue)] /\ Goto(t, "acq_unlock")
                 /\ freeQueue # <<>>
        BY <4>1, <3>1, CarryingStep
      <4>2. CASE surface' = surface /\ Goto(t, "idle")
        BY <4>2, CarryingStep
      <4> QED BY <2>4, <4>1, <4>2 DEF AcquireDequeue
    <3> QED BY <2>4, <3>2, <3>3 DEF AcquireDequeue
  <2>5. CASE AcquireUnlock(t)
    BY <2>5 DEF AcquireUnlock
  <2>6. CASE AcquireReturn(t)
    <3>1. surface[t] \in Buffers
      BY <2>6 DEF AcquireReturn
    <3>2. /\ key' \in [Buffers -> {"absent", "ok", "failed"}]
          /\ timestamp' \in [Buffers -> Nat]
          /\ fence' \in [Buffers -> Nat]
      <4>1. CASE UNCHANGED <<key, timestamp, fence>>
        BY <4>1
      <4>2. CASE GetSyncFence(surface[t])
        BY <4>2, <3>1, GetSyncFenceType
      <4> QED BY <2>6, <4>1, <4>2 DEF AcquireReturn
    <3> QED BY <2>6, <3>1, <3>2 DEF AcquireReturn
  <2> QED BY <1>3, <2>1, <2>2, <2>3, <2>4, <2>5, <2>6 DEF AcquireStep
<1>4. ASSUME NEW t \in Threads, NEW b \in Buffers, PresentCall(t, b) PROVE TypeInv'
  <2>1. presents' \in 0..MaxPresents
    BY <1>4, BoundAssumption DEF PresentCall
  <2>2. surface' \in [Threads -> Buffers \cup {NoBuffer}] /\ pc' \in [Threads -> Pcs]
    BY <1>4 DEF PresentCall
  <2>3. \A u \in Threads : Carrying(u)' => surface'[u] \in Buffers
    BY <1>4 DEF PresentCall
  <2> QED BY <1>4, <2>1, <2>2, <2>3 DEF PresentCall
<1>5. ASSUME NEW t \in Threads, PresentStep(t) PROVE TypeInv'
  <2>1. CASE PresentFenceWait(t)
    BY <2>1 DEF PresentFenceWait
  <2>2. CASE PresentEnqueue(t)
    <3>1. surface[t] \in Buffers
      BY <2>2 DEF PresentEnqueue
    <3>2. dirtyQueue' \in Seq(Buffers)
      BY <2>2, <3>1, AppendType DEF PresentEnqueue
    <3> QED BY <2>2, <3>1, <3>2 DEF PresentEnqueue
  <2>3. CASE PresentAcquire(t)
    <3>1. dirtyQueue # <<>> => Head(dirtyQueue) \in Buffers /\ Tail(dirtyQueue) \in Seq(Buffers)
      BY HeadTail
    <3>2. /\ surface' \in [Threads -> Buffers \cup {NoBuffer}]
          /\ dirtyQueue' \in Seq(Buffers)
      BY <2>3, <3>1 DEF PresentAcquire
    <3>3. \A u \in Threads : Carrying(u)' => surface'[u] \in Buffers
      <4>1. CASE surface' = [surface EXCEPT ![t] = Head(dirtyQueue)] /\ Goto(t, "set_buffer")
                 /\ dirtyQueue # <<>>
        BY <4>1, <3>1, CarryingStep
      <4>2. CASE Return(t)
        BY <4>2, CarryingStep
      <4> QED BY <2>3, <4>1, <4>2 DEF PresentAcquire
    <3> QED BY <2>3, <3>2, <3>3 DEF PresentAcquire
  <2>4. CASE PresentSetBuffer(t)
    BY <2>4 DEF PresentSetBuffer
  <2>5. CASE PresentCommit(t)
    <3>1. pending' \in Seq(Buffers \cup {NoBuffer})
      BY <2>5, AppendType DEF PresentCommit
    <3> QED BY <2>5, <3>1 DEF PresentCommit
  <2>6. CASE PresentReleaseLock(t)
    BY <2>6 DEF PresentReleaseLock
  <2>7. CASE PresentRelease(t)
    <3>1. surface[t] \in Buffers
      BY <2>7 DEF PresentRelease
    <3>2. freeQueue' \in Seq(Buffers)
      <4>1. Append(freeQueue, surface[t]) \in Seq(Buffers)
        BY <3>1, AppendType
      <4> QED BY <2>7, <4>1 DEF PresentRelease
    <3>4. /\ lost' \subseteq Buffers
          /\ surface' \in [Threads -> Buffers \cup {NoBuffer}]
          /\ pc' \in [Threads -> Pcs]
      BY <2>7, <3>1 DEF PresentRelease
    <3>3. \A u \in Threads : Carrying(u)' => surface'[u] \in Buffers
      <4>1. CASE surface' = surface /\ Goto(t, "rel_unlock")
        BY <4>1, <3>1, CarryingStep
      <4>2. CASE Return(t)
        BY <4>2, CarryingStep
      <4> QED BY <2>7, <4>1, <4>2 DEF PresentRelease
    <3> QED BY <2>7, <3>2, <3>3, <3>4 DEF PresentRelease
  <2>8. CASE PresentReleaseUnlock(t)
    BY <2>8 DEF PresentReleaseUnlock
  <2>9. CASE PresentSignal(t)
    <3>1. CASE \E w \in At({"acq_wait"}) : pc' = [pc EXCEPT ![t] = "front_lock", ![w] = "acq_lock"]
      <4>1. PICK w \in At({"acq_wait"}) : pc' = [pc EXCEPT ![t] = "front_lock", ![w] = "acq_lock"]
        BY <3>1
      <4>2. w \in Threads /\ w # t
        BY <2>9, <4>1 DEF PresentSignal, At
      <4>3. surface[t] \in Buffers
        BY <2>9 DEF PresentSignal
      <4> QED BY <2>9, <4>1, <4>2, <4>3 DEF PresentSignal
    <3>2. CASE Goto(t, "front_lock")
      BY <2>9, <3>2 DEF PresentSignal
    <3> QED BY <2>9, <3>1, <3>2 DEF PresentSignal
  <2>10. CASE PresentFrontLock(t)
    BY <2>10 DEF PresentFrontLock
  <2>11. CASE PresentFrontIncrease(t)
    <3>1. timeline' \in [Buffers -> Nat] /\ missed' \in [Buffers -> Nat]
      BY <2>11, IncreaseType DEF PresentFrontIncrease
    <3> QED BY <2>11, <3>1 DEF PresentFrontIncrease
  <2>12. CASE PresentFrontSet(t)
    <3>1. surface[t] \in Buffers
      BY <2>12 DEF PresentFrontSet
    <3>2. shown' \in [Buffers -> Nat]
      BY <2>12, <3>1, CountType DEF PresentFrontSet
    <3>3. \A u \in Threads : Carrying(u)' => surface'[u] \in Buffers
      BY <2>12 DEF PresentFrontSet
    <3> QED BY <2>12, <3>1, <3>2, <3>3 DEF PresentFrontSet
  <2> QED BY <1>5, <2>1, <2>2, <2>3, <2>4, <2>5, <2>6, <2>7, <2>8, <2>9, <2>10,
             <2>11, <2>12 DEF PresentStep
<1>6. ASSUME NEW t \in Threads, PresentError(t) PROVE TypeInv'
  <2>1. surface[t] \in Buffers
    BY <1>6 DEF PresentError
  <2> QED BY <1>6, <2>1 DEF PresentError
<1>7. ASSUME NEW t \in Threads, DispatchCall(t) PROVE TypeInv'
  BY <1>7, ThreadAssumption DEF DispatchCall
<1>8. ASSUME NEW t \in Threads, HandleEvents(t) PROVE TypeInv'
  <2> DEFINE after == IF t \in Presenters THEN "rel_lock" ELSE "idle"
  <2>1. CASE ready > 0 /\ ready' = ready - 1 /\ Goto(t, "cb_lock")
    <3>1. ready' \in Nat
      BY <2>1
    <3>2. pc[t] \in {"events", "dispatch"}
      BY <1>8, <2>1 DEF HandleEvents
    <3> QED BY <1>8, <2>1, <3>1, <3>2 DEF HandleEvents
  <2>2. CASE /\ pc[t] \in {"events", "dispatch"} /\ Goto(t, after)
             /\ UNCHANGED <<surface, queueVars, notQueues>>
    <3>1. \A u \in Threads : Carrying(u)' => surface'[u] \in Buffers
      BY <2>2, CarryingStep
    <3> QED BY <2>2, <3>1
  <2> QED BY <1>8, <2>1, <2>2 DEF HandleEvents
<1>9. ASSUME NEW t \in Threads, CallbackStep(t) PROVE TypeInv'
  <2>1. CASE CallbackLock(t)
    BY <2>1 DEF CallbackLock
  <2>2. CASE CallbackIncrease(t)
    <3>1. timeline' \in [Buffers -> Nat] /\ missed' \in [Buffers -> Nat]
      BY <2>2, IncreaseType DEF CallbackIncrease
    <3> QED BY <2>2, <3>1 DEF CallbackIncrease
  <2>3. CASE CallbackClear(t)
    BY <2>3 DEF CallbackClear
  <2> QED BY <1>9, <2>1, <2>2, <2>3 DEF CallbackStep
<1>10. CASE Vblank
  <2>1. pending # <<>> => /\ Head(pending) \in Buffers \cup {NoBuffer}
                          /\ Tail(pending) \in Seq(Buffers \cup {NoBuffer})
    BY HeadTail
  <2>2. /\ screen' \in Buffers \cup {NoBuffer}
        /\ pending' \in Seq(Buffers \cup {NoBuffer})
        /\ ready' \in Nat
    BY <1>10, <2>1 DEF Vblank
  <2> QED BY <1>10, <2>2 DEF Vblank
<1> QED
  BY <1>1, <1>2, <1>3, <1>4, <1>5, <1>6, <1>7, <1>8, <1>9, <1>10 DEF Next

(* TypeOK holds in every reachable state: the calls that use a tbm_surface *)
(* variable have set it.                                                   *)
THEOREM TypeCorrect == Spec => []TypeOK
<1>1. Init => TypeInv
  BY TypeInit
<1>2. TypeInv /\ [Next]_vars => TypeInv'
  BY TypeNext
<1>3. TypeInv => TypeOK
  BY DEF TypeInv
<1> QED BY <1>1, <1>2, <1>3, PTL DEF Spec
-----------------------------------------------------------------------------
LEMMA LocksNext == TypeInv /\ LocksHeld /\ [Next]_vars => LocksHeld'
<1> SUFFICES ASSUME TypeInv, LocksHeld, [Next]_vars PROVE LocksHeld'
    OBVIOUS
<1>0. /\ pc \in [Threads -> Pcs]
      /\ NoThread \notin Threads
  BY ThreadAssumption DEF TypeInv, TypeOK
<1> USE <1>0 DEF LocksHeld, FreePcs, FrontPcs
<1> USE DEF queueVars, lockVars, syncVars, frontVars, tdmVars, notLocks, notQueues
<1> USE DEF Move, Step, Goto, Return, LockFree, UnlockFree, LockFront
<1>1. CASE UNCHANGED vars
  BY <1>1 DEF vars
<1>2. ASSUME NEW t \in Threads, AcquireCall(t) \/ SpuriousWake(t) \/ AcquireTimeout(t) \/ DispatchCall(t)
      PROVE  LocksHeld'
  BY <1>2 DEF AcquireCall, SpuriousWake, AcquireTimeout, DispatchCall
<1>3. ASSUME NEW t \in Threads, AcquireStep(t) PROVE LocksHeld'
  BY <1>3 DEF AcquireStep, AcquireLock, AcquireCheck, AcquireExpired, AcquireDequeue,
              AcquireUnlock, AcquireReturn
<1>4. ASSUME NEW t \in Threads, NEW b \in Buffers, PresentCall(t, b) PROVE LocksHeld'
  BY <1>4 DEF PresentCall
<1>5. ASSUME NEW t \in Threads, PresentStep(t) PROVE LocksHeld'
  <2>1. CASE PresentFenceWait(t) \/ PresentEnqueue(t) \/ PresentAcquire(t) \/ PresentSetBuffer(t)
             \/ PresentCommit(t)
    BY <2>1 DEF PresentFenceWait, PresentEnqueue, PresentAcquire, PresentSetBuffer, PresentCommit
  <2>2. CASE PresentReleaseLock(t) \/ PresentRelease(t) \/ PresentReleaseUnlock(t)
    BY <2>2 DEF PresentReleaseLock, PresentRelease, PresentReleaseUnlock
  <2>3. CASE PresentSignal(t)
    BY <2>3 DEF PresentSignal, At
  <2>4. CASE PresentFrontLock(t) \/ PresentFrontIncrease(t) \/ PresentFrontSet(t)
    BY <2>4 DEF PresentFrontLock, PresentFrontIncrease, PresentFrontSet
  <2> QED BY <1>5, <2>1, <2>2, <2>3, <2>4 DEF PresentStep
<1>6. ASSUME NEW t \in Threads, PresentError(t) \/ HandleEvents(t) PROVE LocksHeld'
  BY <1>6 DEF PresentError, HandleEvents
<1>7. ASSUME NEW t \in Threads, CallbackStep(t) PROVE LocksHeld'
  BY <1>7 DEF CallbackStep, CallbackLock, CallbackIncrease, CallbackClear
<1>8. CASE Vblank
  BY <1>8 DEF Vblank
<1> QED BY <1>1, <1>2, <1>3, <1>4, <1>5, <1>6, <1>7, <1>8 DEF Next

(* Both mutexes exclude: whoever touches the free queue or the front       *)
(* buffer holds the lock, for any number of threads and whatever fails.    *)
THEOREM LocksCorrect == Spec => []LocksHeld
<1>1. Init => LocksHeld
  BY DEF Init, LocksHeld, FreePcs, FrontPcs
<1>2. TypeInv /\ LocksHeld /\ [Next]_vars => TypeInv' /\ LocksHeld'
  BY TypeNext, LocksNext
<1> QED BY TypeInit, <1>1, <1>2, PTL DEF Spec
-----------------------------------------------------------------------------
(* A surface has its timeline before anything can present or retire it: if *)
(* the ICD takes acquire fences, only a surface that is free, or in the    *)
(* hands of an acquire, may still be without one, and it was never shown.  *)
UnmadeInv ==
    IF IcdAcquire
    THEN /\ \A b \in app : key[b] # "absent"
         /\ \A i \in DOMAIN dirtyQueue : key[dirtyQueue[i]] # "absent"
         /\ \A t \in Threads : surface[t] \in Buffers /\ pc[t] \notin {"acq_unlock", "acq_fence"}
                               => key[surface[t]] # "absent"
         /\ \A b \in Buffers : key[b] = "absent" =>
                               /\ shown[b] = 0 /\ timeline[b] = 0 /\ missed[b] = 0
                               /\ frontBuffer # b
    ELSE \A b \in Buffers : key[b] = "absent"

LEMMA UnmadeInit == Init => UnmadeInv
BY BufferAssumption DEF Init, UnmadeInv

(* The elements of a queue after its head is taken or an element added.    *)
LEMMA QueueElements ==
    ASSUME NEW S, NEW s \in Seq(S), NEW P, \A i \in DOMAIN s : s[i] \in P
    PROVE  /\ s # <<>> => Head(s) \in P /\ \A i \in DOMAIN Tail(s) : Tail(s)[i] \in P
           /\ \A e \in P : \A i \in DOMAIN Append(s, e) : Append(s, e)[i] \in P
OBVIOUS

LEMMA UnmadeNext == TypeInv /\ UnmadeInv /\ [Next]_vars => UnmadeInv'
<1> SUFFICES ASSUME TypeInv, UnmadeInv, [Next]_vars PROVE UnmadeInv'
    OBVIOUS
<1>0. /\ pc \in [Threads -> Pcs]
      /\ surface \in [Threads -> Buffers \cup {NoBuffer}]
      /\ app \subseteq Buffers
      /\ dirtyQueue \in Seq(Buffers)
      /\ frontBuffer \in Buffers \cup {NoBuffer}
      /\ key \in [Buffers -> {"absent", "ok", "failed"}]
      /\ timeline \in [Buffers -> Nat]
      /\ shown \in [Buffers -> Nat] /\ missed \in [Buffers -> Nat]
      /\ NoBuffer \notin Buffers
  BY BufferAssumption DEF TypeInv, TypeOK
<1> USE <1>0 DEF UnmadeInv
<1> DEFINE Made == {b \in Buffers : key[b] # "absent"}
<1>dirty. IcdAcquire => \A i \in DOMAIN dirtyQueue : dirtyQueue[i] \in Made
  OBVIOUS
<1> USE DEF queueVars, lockVars, syncVars, frontVars, tdmVars, notLocks, notQueues
<1> USE DEF Move, Step, Goto, Return, LockFree, UnlockFree, LockFront
<1>1. CASE UNCHANGED vars
  BY <1>1 DEF vars
<1>2. ASSUME NEW t \in Threads, AcquireCall(t) \/ SpuriousWake(t) \/ AcquireTimeout(t) \/ DispatchCall(t)
      PROVE  UnmadeInv'
  BY <1>2 DEF AcquireCall, SpuriousWake, AcquireTimeout, DispatchCall
<1>3. ASSUME NEW t \in Threads, AcquireStep(t) PROVE UnmadeInv'
  <2>1. CASE AcquireLock(t) \/ AcquireCheck(t) \/ AcquireExpired(t) \/ AcquireUnlock(t)
    BY <2>1 DEF AcquireLock, AcquireCheck, AcquireExpired, AcquireUnlock
  <2>2. CASE AcquireDequeue(t)
    BY <2>2 DEF AcquireDequeue
  <2>3. CASE AcquireReturn(t)
    <3>1. surface[t] \in Buffers
      BY <2>3 DEF AcquireReturn, TypeInv, Carrying, CarryingPcs
    <3>2. CASE ~IcdAcquire
      BY <2>3, <3>2 DEF AcquireReturn
    <3>3. CASE IcdAcquire
      <4>1. /\ key'[surface[t]] # "absent"
            /\ \A b \in Buffers : key[b] # "absent" => key'[b] # "absent"
        BY <2>3, <3>1, <3>3 DEF AcquireReturn, GetSyncFence
      <4> QED BY <2>3, <3>1, <3>3, <4>1 DEF AcquireReturn
    <3> QED BY <3>2, <3>3
  <2> QED BY <1>3, <2>1, <2>2, <2>3 DEF AcquireStep
<1>4. ASSUME NEW t \in Threads, NEW b \in Buffers, PresentCall(t, b) PROVE UnmadeInv'
  BY <1>4 DEF PresentCall
<1>5. ASSUME NEW t \in Threads, PresentStep(t) PROVE UnmadeInv'
  <2>1. CASE PresentFenceWait(t) \/ PresentSetBuffer(t) \/ PresentCommit(t)
    BY <2>1 DEF PresentFenceWait, PresentSetBuffer, PresentCommit
  <2>2. CASE PresentEnqueue(t)
    <3>1. CASE IcdAcquire
      <4>1. surface[t] \in Made
        BY <2>2, <3>1 DEF PresentEnqueue, TypeInv, Carrying, CarryingPcs, PresentPcs, EventPcs
      <4>2. \A i \in DOMAIN dirtyQueue' : dirtyQueue'[i] \in Made
        BY <2>2, <3>1, <4>1, <1>dirty, QueueElements DEF PresentEnqueue
      <4> QED BY <2>2, <3>1, <4>2 DEF PresentEnqueue
    <3>2. CASE ~IcdAcquire
      BY <2>2, <3>2 DEF PresentEnqueue
    <3> QED BY <3>1, <3>2
  <2>3. CASE PresentAcquire(t)
    <3>1. CASE IcdAcquire
      <4>1. dirtyQueue # <<>> => /\ Head(dirtyQueue) \in Made
                                 /\ \A i \in DOMAIN Tail(dirtyQueue) : Tail(dirtyQueue)[i] \in Made
        BY <3>1, <1>dirty, QueueElements
      <4> QED BY <2>3, <3>1, <4>1, <1>dirty DEF PresentAcquire
    <3>2. CASE ~IcdAcquire
      BY <2>3, <3>2 DEF PresentAcquire
    <3> QED BY <3>1, <3>2
  <2>4. CASE PresentReleaseLock(t) \/ PresentRelease(t) \/ PresentReleaseUnlock(t)
    BY <2>4 DEF PresentReleaseLock, PresentRelease, PresentReleaseUnlock
  <2>5. CASE PresentSignal(t)
    BY <2>5 DEF PresentSignal, At
  <2>6. CASE PresentFrontLock(t)
    BY <2>6 DEF PresentFrontLock
  <2>7. CASE PresentFrontIncrease(t)
    BY <2>7 DEF PresentFrontIncrease, IncreaseTimestamp
  <2>8. CASE PresentFrontSet(t)
    <3>1. surface[t] \in Buffers
      BY <2>8 DEF PresentFrontSet, TypeInv, Carrying, CarryingPcs, PresentPcs, EventPcs
    <3> QED BY <2>8, <3>1 DEF PresentFrontSet
  <2> QED BY <1>5, <2>1, <2>2, <2>3, <2>4, <2>5, <2>6, <2>7, <2>8 DEF PresentStep
<1>6. ASSUME NEW t \in Threads, PresentError(t) PROVE UnmadeInv'
  BY <1>6 DEF PresentError
<1>7. ASSUME NEW t \in Threads, HandleEvents(t) PROVE UnmadeInv'
  BY <1>7 DEF HandleEvents
<1>8. ASSUME NEW t \in Threads, CallbackStep(t) PROVE UnmadeInv'
  <2>1. CASE CallbackLock(t)
    BY <2>1 DEF CallbackLock
  <2>2. CASE CallbackIncrease(t)
    BY <2>2 DEF CallbackIncrease, IncreaseTimestamp
  <2>3. CASE CallbackClear(t)
    BY <2>3 DEF CallbackClear
  <2> QED BY <1>8, <2>1, <2>2, <2>3 DEF CallbackStep
<1>9. CASE Vblank
  BY <1>9 DEF Vblank
<1> QED BY <1>1, <1>2, <1>3, <1>4, <1>5, <1>6, <1>7, <1>8, <1>9 DEF Next
(* Steps that touch neither the front buffer nor a timeline. *)
LEMMA RetiredFrame ==
    ASSUME RetiredOnce, UNCHANGED <<key, timeline, shown, missed, frontBuffer>>, Retiring' <=> Retiring
    PROVE  RetiredOnce'
BY DEF RetiredOnce

LEMMA RetiredNext ==
    TypeInv /\ LocksHeld /\ UnmadeInv /\ RetiredOnce /\ [Next]_vars => RetiredOnce'
<1> SUFFICES ASSUME TypeInv, LocksHeld, UnmadeInv, RetiredOnce, [Next]_vars PROVE RetiredOnce'
    OBVIOUS
<1>0. /\ pc \in [Threads -> Pcs]
      /\ frontBuffer \in Buffers \cup {NoBuffer}
      /\ key \in [Buffers -> {"absent", "ok", "failed"}]
      /\ timeline \in [Buffers -> Nat]
      /\ shown \in [Buffers -> Nat] /\ missed \in [Buffers -> Nat]
      /\ NoBuffer \notin Buffers
  BY BufferAssumption DEF TypeInv, TypeOK
<1> USE <1>0
<1> USE DEF queueVars, lockVars, syncVars, frontVars, tdmVars, notLocks, notQueues
<1> USE DEF Move, Step, Goto, Return, LockFree, UnlockFree, LockFront
<1>1. CASE UNCHANGED vars
  BY <1>1, RetiredFrame DEF vars, Retiring, At
<1>2. ASSUME NEW t \in Threads, AcquireCall(t) \/ SpuriousWake(t) \/ AcquireTimeout(t) \/ DispatchCall(t)
      PROVE  RetiredOnce'
  <2>1. Retiring' <=> Retiring
    BY <1>2 DEF AcquireCall, SpuriousWake, AcquireTimeout, DispatchCall, Retiring, At
  <2> QED BY <1>2, <2>1, RetiredFrame DEF AcquireCall, SpuriousWake, AcquireTimeout, DispatchCall
<1>3. ASSUME NEW t \in Threads, AcquireStep(t) PROVE RetiredOnce'
  <2>0. Retiring' <=> Retiring
    BY <1>3 DEF AcquireStep, AcquireLock, AcquireCheck, AcquireExpired, AcquireDequeue,
                AcquireUnlock, AcquireReturn, Retiring, At
  <2>1. CASE AcquireReturn(t)
    <3>1. surface[t] \in Buffers
      BY <2>1 DEF AcquireReturn, TypeInv, Carrying, CarryingPcs
    <3>2. \A b \in Buffers : key'[b] = "ok" => key[b] = "ok" \/ (key[b] = "absent" /\ IcdAcquire)
      BY <2>1, <3>1 DEF AcquireReturn, GetSyncFence
    <3>3. UNCHANGED <<timeline, shown, missed, frontBuffer>>
      BY <2>1 DEF AcquireReturn
    <3> QED BY <2>0, <3>2, <3>3 DEF RetiredOnce, UnmadeInv
  <2>2. CASE ~AcquireReturn(t)
    <3>1. UNCHANGED <<key, timeline, shown, missed, frontBuffer>>
      BY <1>3, <2>2 DEF AcquireStep, AcquireLock, AcquireCheck, AcquireExpired,
                        AcquireDequeue, AcquireUnlock
    <3> QED BY <2>0, <3>1, RetiredFrame
  <2> QED BY <2>1, <2>2
<1>4. ASSUME NEW t \in Threads, NEW b \in Buffers, PresentCall(t, b) PROVE RetiredOnce'
  BY <1>4, RetiredFrame DEF PresentCall, Retiring, At
<1>5. ASSUME NEW t \in Threads, PresentStep(t) PROVE RetiredOnce'
  <2>1. CASE PresentFrontIncrease(t)
    <3>1. ~Retiring /\ Retiring'
      BY <2>1 DEF PresentFrontIncrease, LocksHeld, FrontPcs, Retiring, At
    <3> QED BY <2>1, <3>1 DEF PresentFrontIncrease, IncreaseTimestamp, RetiredOnce
  <2>2. CASE PresentFrontSet(t)
    <3>1. Retiring /\ ~Retiring'
      BY <2>2 DEF PresentFrontSet, LocksHeld, FrontPcs, Retiring, At
    <3>2. surface[t] \in Buffers
      BY <2>2 DEF PresentFrontSet, TypeInv, Carrying, CarryingPcs, PresentPcs, EventPcs
    <3> QED BY <2>2, <3>1, <3>2 DEF PresentFrontSet, RetiredOnce
  <2>3. CASE ~PresentFrontIncrease(t) /\ ~PresentFrontSet(t)
    <3>1. Retiring' <=> Retiring
      BY <1>5, <2>3
      DEF PresentStep, PresentFenceWait, PresentEnqueue, PresentAcquire, PresentSetBuffer,
          PresentCommit, PresentReleaseLock, PresentRelease, PresentReleaseUnlock,
          PresentSignal, PresentFrontLock, Retiring, At
    <3>2. UNCHANGED <<key, timeline, shown, missed, frontBuffer>>
      BY <1>5, <2>3
      DEF PresentStep, PresentFenceWait, PresentEnqueue, PresentAcquire, PresentSetBuffer,
          PresentCommit, PresentReleaseLock, PresentRelease, PresentReleaseUnlock,
          PresentSignal, PresentFrontLock
    <3> QED BY <3>1, <3>2, RetiredFrame
  <2> QED BY <2>1, <2>2, <2>3
<1>6. ASSUME NEW t \in Threads, PresentError(t) PROVE RetiredOnce'
  BY <1>6, RetiredFrame DEF PresentError, Retiring, At
<1>7. ASSUME NEW t \in Threads, HandleEvents(t) PROVE RetiredOnce'
  BY <1>7, RetiredFrame DEF HandleEvents, Retiring, At
<1>8. ASSUME NEW t \in Threads, CallbackStep(t) PROVE RetiredOnce'
  <2>1. CASE CallbackLock(t)
    BY <2>1, RetiredFrame DEF CallbackLock, Retiring, At
  <2>2. CASE CallbackIncrease(t)
    <3>1. ~Retiring /\ Retiring'
      BY <2>2 DEF CallbackIncrease, LocksHeld, FrontPcs, Retiring, At
    <3> QED BY <2>2, <3>1 DEF CallbackIncrease, IncreaseTimestamp, RetiredOnce
  <2>3. CASE CallbackClear(t)
    <3>1. Retiring /\ ~Retiring'
      BY <2>3 DEF CallbackClear, LocksHeld, FrontPcs, Retiring, At
    <3> QED BY <2>3, <3>1 DEF CallbackClear, RetiredOnce
  <2> QED BY <1>8, <2>1, <2>2, <2>3 DEF CallbackStep
<1>9. CASE Vblank
  BY <1>9, RetiredFrame DEF Vblank, Retiring, At
<1> QED BY <1>1, <1>2, <1>3, <1>4, <1>5, <1>6, <1>7, <1>8, <1>9 DEF Next

(* Each presentation increments the timeline of its surface exactly once,  *)
(* whichever of the commit callback and the next present comes first, for  *)
(* any number of presenting and dispatching threads and whatever fails,    *)
(* increments included: those that failed are what is missing for ever.    *)
THEOREM RetiredOnceCorrect == Spec => []RetiredOnce
<1> DEFINE IInv == TypeInv /\ LocksHeld /\ UnmadeInv /\ RetiredOnce
<1>1. Init => IInv
  <2>1. Init => LocksHeld /\ RetiredOnce
    BY BufferAssumption DEF Init, LocksHeld, FreePcs, FrontPcs, RetiredOnce
  <2> QED BY TypeInit, UnmadeInit, <2>1
<1>2. IInv /\ [Next]_vars => IInv'
  BY TypeNext, LocksNext, UnmadeNext, RetiredNext
<1> QED BY <1>1, <1>2, PTL DEF Spec
-----------------------------------------------------------------------------
(* The surfaces in the hands of the calls at P, of any call, and of those   *)
(* that present.                                                           *)
HandAt(P) == {surface[t] : t \in At(P)} \cap Buffers
EnginePcs == {"set_buffer", "commit", "rel_lock", "release"} \cup EventPcs
Hand == HandAt(HoldingPcs)

(* Each surface is in exactly one of five sets. *)
Partition(F, D, A, L, H) ==
    \A b \in Buffers :
        /\ b \in F \cup D \cup A \cup L \cup H
        /\ b \in F => b \notin D \cup A \cup L \cup H
        /\ b \in D => b \notin A \cup L \cup H
        /\ b \in A => b \notin L \cup H
        /\ b \in L => b \notin H

(* No two calls hold the same surface, and a call that has none does not   *)
(* keep one from before.                                                   *)
OneHolder ==
    /\ \A t, u \in At(HoldingPcs) : surface[t] = surface[u] /\ surface[t] \in Buffers => t = u
    /\ \A t \in Threads : ~Carrying(t) => surface[t] = NoBuffer

(* Only a presenter is past the entry of a present; a dispatcher runs the   *)
(* event handler alone.                                                    *)
PresentersPresent ==
    \A t \in Threads : pc[t] \in PresentPcs \ EventPcs => t \in Presenters

OwnInv ==
    /\ IsInjective(freeQueue) /\ IsInjective(dirtyQueue)
    /\ Partition(Range(freeQueue), Range(dirtyQueue), app, lost, Hand)
    /\ OneHolder
-----------------------------------------------------------------------------
(* A queue that lists nothing twice, after its head is taken or an element *)
(* it does not list is added.                                              *)
LEMMA TakeHead ==
    ASSUME NEW S, NEW s \in Seq(S), s # <<>>, IsInjective(s)
    PROVE  /\ Head(s) \in S /\ Head(s) \in Range(s)
           /\ Range(Tail(s)) = Range(s) \ {Head(s)}
           /\ IsInjective(Tail(s))
<1>1. /\ Len(s) \in Nat \ {0} /\ DOMAIN s = 1..Len(s)
      /\ Head(s) = s[1]
      /\ DOMAIN Tail(s) = 1..(Len(s) - 1)
      /\ \A i \in 1..(Len(s) - 1) : Tail(s)[i] = s[i + 1]
  OBVIOUS
<1>2. \A i \in 2..Len(s) : i - 1 \in 1..(Len(s) - 1) /\ Tail(s)[i - 1] = s[i]
  BY <1>1
<1>3. \A i, j \in 1..Len(s) : s[i] = s[j] => i = j
  BY <1>1 DEF IsInjective
<1>4. ASSUME NEW x \in Range(Tail(s)) PROVE x \in Range(s) \ {Head(s)}
  <2>1. PICK i \in 1..(Len(s) - 1) : x = s[i + 1]
    BY <1>1 DEF Range
  <2>2. i + 1 \in 1..Len(s) /\ 1 \in 1..Len(s) /\ i + 1 # 1
    BY <1>1
  <2> QED BY <1>1, <1>3, <2>1, <2>2 DEF Range
<1>5. ASSUME NEW x \in Range(s) \ {Head(s)} PROVE x \in Range(Tail(s))
  <2>1. PICK i \in 1..Len(s) : x = s[i]
    BY <1>1 DEF Range
  <2>2. i \in 2..Len(s)
    BY <1>1, <1>5, <2>1
  <2> QED BY <1>1, <1>2, <2>1, <2>2 DEF Range
<1>6. IsInjective(Tail(s))
  <2> SUFFICES ASSUME NEW i \in 1..(Len(s) - 1), NEW j \in 1..(Len(s) - 1), s[i + 1] = s[j + 1]
               PROVE  i = j
    BY <1>1 DEF IsInjective
  <2>1. i + 1 \in 1..Len(s) /\ j + 1 \in 1..Len(s)
    BY <1>1
  <2>2. i + 1 = j + 1
    BY <1>3, <2>1
  <2> QED BY <2>2
<1>7. Head(s) \in S /\ Head(s) \in Range(s)
  BY <1>1 DEF Range
<1> QED BY <1>4, <1>5, <1>6, <1>7

LEMMA AddElement ==
    ASSUME NEW S, NEW s \in Seq(S), NEW e \in S
    PROVE  /\ Range(Append(s, e)) = Range(s) \cup {e}
           /\ IsInjective(s) /\ e \notin Range(s) => IsInjective(Append(s, e))
<1>1. /\ Len(s) \in Nat /\ DOMAIN s = 1..Len(s)
      /\ DOMAIN Append(s, e) = 1..(Len(s) + 1)
      /\ Append(s, e)[Len(s) + 1] = e
      /\ \A i \in 1..Len(s) : Append(s, e)[i] = s[i]
  OBVIOUS
<1> QED BY <1>1 DEF Range, IsInjective

LEMMA EngineHolds ==
    /\ HoldingPcs \in SUBSET HoldingPcs /\ EnginePcs \in SUBSET HoldingPcs
    /\ HandAt(EnginePcs) \subseteq Hand /\ HandAt(EnginePcs)' \subseteq Hand'
BY DEF HoldingPcs, EnginePcs, HandAt, Hand, At

(* Only call t moves, to another place; of the others nothing changes.     *)
LEMMA OthersStay ==
    ASSUME TypeInv, NEW t \in Threads, NEW to, Goto(t, to),
           \/ UNCHANGED surface
           \/ \E s : surface' = [surface EXCEPT ![t] = s]
    PROVE  /\ pc'[t] = to
           /\ \A u \in Threads \ {t} :
                 pc'[u] = pc[u] /\ surface'[u] = surface[u] /\ (Carrying(u)' <=> Carrying(u))
           /\ \A P : At(P)' = (At(P) \ {t}) \cup IF to \in P THEN {t} ELSE {}
<1>1. /\ pc'[t] = to /\ \A u \in Threads \ {t} : pc'[u] = pc[u]
      /\ \A u \in Threads \ {t} : surface'[u] = surface[u]
  BY DEF TypeInv, TypeOK, Goto
<1> QED BY <1>1 DEF Carrying, At

(* A call goes on with what it holds, or without anything. *)
LEMMA HandKept ==
    ASSUME TypeInv, OneHolder, NEW t \in Threads, NEW to, Goto(t, to), UNCHANGED surface,
           surface[t] = NoBuffer \/ (pc[t] \in HoldingPcs <=> to \in HoldingPcs),
           surface[t] = NoBuffer \/ (pc[t] \in EnginePcs <=> to \in EnginePcs),
           surface[t] = NoBuffer \/ Carrying(t)'
    PROVE  OneHolder' /\ Hand' = Hand /\ HandAt(EnginePcs)' = HandAt(EnginePcs)
<1>1. /\ \A Q : At(Q)' = (At(Q) \ {t}) \cup IF to \in Q THEN {t} ELSE {}
      /\ \A u \in Threads \ {t} : Carrying(u)' <=> Carrying(u)
  BY OthersStay
<1>2. NoBuffer \notin Buffers
  BY BufferAssumption
<1>3. ASSUME NEW P, surface[t] = NoBuffer \/ (pc[t] \in P <=> to \in P)
      PROVE  HandAt(P)' = HandAt(P)
  <2>1. At(P)' = At(P) \/ (surface[t] = NoBuffer /\ At(P)' \ {t} = At(P) \ {t})
    BY <1>1, <1>3 DEF At
  <2> QED BY <1>2, <2>1 DEF HandAt
<1>4. Hand' = Hand /\ HandAt(EnginePcs)' = HandAt(EnginePcs)
  BY <1>3 DEF Hand
<1>5. \/ At(HoldingPcs)' = At(HoldingPcs)
      \/ surface[t] = NoBuffer /\ At(HoldingPcs)' \ {t} = At(HoldingPcs) \ {t}
  BY <1>1 DEF At
<1>6. \A u, v \in At(HoldingPcs)' : surface[u] = surface[v] /\ surface[u] \in Buffers => u = v
  BY <1>2, <1>5 DEF OneHolder
<1> QED BY <1>1, <1>4, <1>6 DEF OneHolder

(* A call takes surface b. *)
LEMMA HandTakes ==
    ASSUME TypeInv, OneHolder, NEW t \in Threads, NEW to \in HoldingPcs, Goto(t, to),
           NEW b \in Buffers, b \notin Hand, pc[t] \notin HoldingPcs,
           surface' = [surface EXCEPT ![t] = b], Carrying(t)'
    PROVE  /\ OneHolder' /\ Hand' = Hand \cup {b}
           /\ to \in EnginePcs => HandAt(EnginePcs)' = HandAt(EnginePcs) \cup {b}
           /\ to \notin EnginePcs => HandAt(EnginePcs)' = HandAt(EnginePcs)
<1>1. /\ \A Q : At(Q)' = (At(Q) \ {t}) \cup IF to \in Q THEN {t} ELSE {}
      /\ \A u \in Threads \ {t} : (Carrying(u)' <=> Carrying(u)) /\ surface'[u] = surface[u]
  BY OthersStay
<1>2. surface'[t] = b
  BY DEF TypeInv, TypeOK
<1>3. ASSUME NEW P \in SUBSET HoldingPcs
      PROVE  /\ to \in P => HandAt(P)' = HandAt(P) \cup {b}
             /\ to \notin P => HandAt(P)' = HandAt(P)
  <2>1. t \notin At(P) /\ At(P)' = At(P) \cup IF to \in P THEN {t} ELSE {}
    BY <1>1 DEF At
  <2>2. \A u \in At(P) : u \in Threads /\ surface'[u] = surface[u]
    BY <1>1, <2>1 DEF At
  <2> QED BY <1>2, <2>1, <2>2 DEF HandAt
<1>4. Hand' = Hand \cup {b}
  BY <1>3 DEF Hand
<1>5. t \notin At(HoldingPcs) /\ At(HoldingPcs)' = At(HoldingPcs) \cup {t}
  BY <1>1 DEF At
<1>6. \A u \in At(HoldingPcs) : u \in Threads /\ surface'[u] = surface[u]
  BY <1>1, <1>5 DEF At
<1>7. /\ to \in EnginePcs => HandAt(EnginePcs)' = HandAt(EnginePcs) \cup {b}
      /\ to \notin EnginePcs => HandAt(EnginePcs)' = HandAt(EnginePcs)
  BY <1>3, EngineHolds
<1>8. \A u \in At(HoldingPcs) : surface[u] # b
  BY DEF Hand, HandAt
<1>9. \A u, v \in At(HoldingPcs)' : surface'[u] = surface'[v] /\ surface'[u] \in Buffers => u = v
  BY <1>2, <1>5, <1>6, <1>8 DEF OneHolder
<1> QED BY <1>1, <1>4, <1>7, <1>9 DEF OneHolder

(* A call gives up the surface it holds. *)
LEMMA HandGives ==
    ASSUME TypeInv, OneHolder, NEW t \in Threads, NEW to, to \notin HoldingPcs, Goto(t, to),
           pc[t] \in HoldingPcs, surface[t] \in Buffers,
           \/ UNCHANGED surface /\ Carrying(t)'
           \/ surface' = [surface EXCEPT ![t] = NoBuffer]
    PROVE  /\ OneHolder' /\ surface[t] \in Hand /\ Hand' = Hand \ {surface[t]}
           /\ pc[t] \in EnginePcs =>
                /\ surface[t] \in HandAt(EnginePcs)
                /\ HandAt(EnginePcs)' = HandAt(EnginePcs) \ {surface[t]}
           /\ pc[t] \notin EnginePcs => HandAt(EnginePcs)' = HandAt(EnginePcs)
<1>1. /\ \A Q : At(Q)' = (At(Q) \ {t}) \cup IF to \in Q THEN {t} ELSE {}
      /\ \A u \in Threads \ {t} : (Carrying(u)' <=> Carrying(u)) /\ surface'[u] = surface[u]
  BY OthersStay
<1>2. surface'[t] = NoBuffer \/ Carrying(t)'
  BY DEF TypeInv, TypeOK
<1>3. t \in At(HoldingPcs) /\ At(HoldingPcs)' = At(HoldingPcs) \ {t}
  BY <1>1 DEF At
<1>4. \A u \in At(HoldingPcs) \ {t} : surface'[u] = surface[u] /\ surface[u] # surface[t]
  BY <1>1, <1>3 DEF OneHolder, At
<1>5. ASSUME NEW P \in SUBSET HoldingPcs
      PROVE  /\ pc[t] \in P => /\ HandAt(P)' = HandAt(P) \ {surface[t]}
                               /\ surface[t] \in HandAt(P)
             /\ pc[t] \notin P => HandAt(P)' = HandAt(P)
  <2>1. At(P)' = At(P) \ {t} /\ At(P) \subseteq At(HoldingPcs) /\ (t \in At(P) <=> pc[t] \in P)
    BY <1>1 DEF At
  <2> QED BY <1>4, <2>1 DEF HandAt
<1>6. /\ pc[t] \in EnginePcs =>
           /\ surface[t] \in HandAt(EnginePcs)
           /\ HandAt(EnginePcs)' = HandAt(EnginePcs) \ {surface[t]}
      /\ pc[t] \notin EnginePcs => HandAt(EnginePcs)' = HandAt(EnginePcs)
  BY <1>5, EngineHolds
<1>7. surface[t] \in Hand /\ Hand' = Hand \ {surface[t]}
  BY <1>5 DEF Hand
<1>8. \A u, v \in At(HoldingPcs)' : surface'[u] = surface'[v] /\ surface'[u] \in Buffers => u = v
  BY <1>3, <1>4 DEF OneHolder
<1>9. \A u \in Threads : ~Carrying(u)' => surface'[u] = NoBuffer
  BY <1>1, <1>2 DEF OneHolder
<1> QED BY <1>6, <1>7, <1>8, <1>9 DEF OneHolder

(* A call that holds nothing returns. *)
LEMMA HandReturns ==
    ASSUME TypeInv, OneHolder, NEW t \in Threads, Return(t), pc[t] \notin HoldingPcs
    PROVE  OneHolder' /\ Hand' = Hand /\ HandAt(EnginePcs)' = HandAt(EnginePcs)
<1>1. "idle" \notin HoldingPcs
  BY DEF HoldingPcs, EventPcs
<1>2. /\ \A Q : At(Q)' = (At(Q) \ {t}) \cup IF "idle" \in Q THEN {t} ELSE {}
      /\ \A u \in Threads \ {t} : (Carrying(u)' <=> Carrying(u)) /\ surface'[u] = surface[u]
  BY OthersStay DEF Return
<1>3. surface'[t] = NoBuffer
  BY DEF TypeInv, TypeOK, Return
<1>4. At(HoldingPcs)' = At(HoldingPcs) /\ t \notin At(HoldingPcs)
  BY <1>1, <1>2 DEF At
<1>5. \A u \in At(HoldingPcs) : surface'[u] = surface[u]
  BY <1>2, <1>4 DEF At
<1>6. Hand' = Hand /\ HandAt(EnginePcs)' = HandAt(EnginePcs)
  <2>1. At(EnginePcs)' = At(EnginePcs) /\ At(EnginePcs) \subseteq At(HoldingPcs)
    BY <1>1, <1>2, EngineHolds DEF At
  <2> QED BY <1>4, <1>5, <2>1 DEF Hand, HandAt
<1> QED BY <1>2, <1>3, <1>4, <1>5, <1>6 DEF OneHolder
-----------------------------------------------------------------------------
(* The owner of a surface as ImageOwnership sees it, by the sets it is in. *)
OwnerIn(b, F, D, L, E) ==
    IF b \in F THEN "free" ELSE IF b \in L THEN "lost" ELSE IF b \in D \cup E THEN "engine" ELSE "app"

OwnerSets ==
    owner = [b \in Buffers |->
                OwnerIn(b, Range(freeQueue), Range(dirtyQueue), lost, HandAt(EnginePcs))]

LEMMA OwnerOf == (OwnInv => OwnerSets) /\ (OwnInv' => OwnerSets')
<1>1. ASSUME OwnInv PROVE OwnerSets
  <2>1. \A b \in Buffers : b \in EngineHand <=> b \in HandAt(EnginePcs)
    BY DEF EngineHand, HandAt, EnginePcs
  <2>2. ASSUME NEW b \in Buffers
        PROVE  owner[b] = OwnerIn(b, Range(freeQueue), Range(dirtyQueue), lost, HandAt(EnginePcs))
    <3>1. /\ b \in Range(freeQueue) => b \notin lost \cup Range(dirtyQueue) \cup HandAt(EnginePcs)
          /\ b \in lost => b \notin Range(dirtyQueue) \cup HandAt(EnginePcs)
      BY <1>1, EngineHolds DEF OwnInv, Partition
    <3> QED BY <2>1, <3>1 DEF owner, OwnerIn
  <2> QED BY <2>2 DEF owner, OwnerSets
<1>2. ASSUME OwnInv' PROVE OwnerSets'
  <2>1. \A b \in Buffers : b \in EngineHand' <=> b \in HandAt(EnginePcs)'
    BY DEF EngineHand, HandAt, EnginePcs
  <2>2. ASSUME NEW b \in Buffers
        PROVE  owner'[b] = OwnerIn(b, Range(freeQueue)', Range(dirtyQueue)', lost', HandAt(EnginePcs)')
    <3>1. /\ b \in Range(freeQueue)' => b \notin lost' \cup Range(dirtyQueue)' \cup HandAt(EnginePcs)'
          /\ b \in lost' => b \notin Range(dirtyQueue)' \cup HandAt(EnginePcs)'
      BY <1>2, EngineHolds DEF OwnInv, Partition
    <3> QED BY <2>1, <3>1 DEF owner, OwnerIn
  <2> QED BY <2>2 DEF owner, OwnerSets
<1> QED BY <1>1, <1>2

(* What every step keeps, and what it is to the promise of the backend.    *)
OwnStep == OwnInv' /\ [Ownership!Next]_(Ownership!vars)

(* No surface changes hands. *)
LEMMA StepStays ==
    ASSUME OwnInv, OneHolder', Hand' = Hand, HandAt(EnginePcs)' = HandAt(EnginePcs),
           UNCHANGED queueVars
    PROVE  OwnStep
<1>1. OwnInv'
  BY DEF OwnInv, queueVars
<1>2. owner' = owner
  BY <1>1, OwnerOf DEF OwnerSets, queueVars
<1> QED BY <1>1, <1>2 DEF OwnStep, Ownership!vars, queueVars

(* The same, for a step of one call. *)
LEMMA CallStays ==
    ASSUME TypeInv, OwnInv, NEW t \in Threads, NEW to, Goto(t, to), UNCHANGED surface,
           surface[t] = NoBuffer \/ (pc[t] \in HoldingPcs <=> to \in HoldingPcs),
           surface[t] = NoBuffer \/ (pc[t] \in EnginePcs <=> to \in EnginePcs),
           surface[t] = NoBuffer \/ Carrying(t)',
           UNCHANGED queueVars
    PROVE  OwnStep
<1>1. OneHolder
  BY DEF OwnInv
<1>2. OneHolder' /\ Hand' = Hand /\ HandAt(EnginePcs)' = HandAt(EnginePcs)
  BY <1>1, HandKept
<1> QED BY <1>2, StepStays

LEMMA CallReturns ==
    ASSUME TypeInv, OwnInv, NEW t \in Threads, Return(t), pc[t] \notin HoldingPcs,
           UNCHANGED queueVars
    PROVE  OwnStep
<1>1. OneHolder
  BY DEF OwnInv
<1>2. OneHolder' /\ Hand' = Hand /\ HandAt(EnginePcs)' = HandAt(EnginePcs)
  BY <1>1, HandReturns
<1> QED BY <1>2, StepStays

(* The oldest free surface goes to an acquire. *)
LEMMA DequeueOwns ==
    ASSUME TypeInv, OwnInv, NEW t \in Threads, AcquireDequeue(t)
    PROVE  OwnStep
<1>0. /\ OneHolder /\ IsInjective(freeQueue) /\ freeQueue \in Seq(Buffers)
  BY DEF OwnInv, TypeInv, TypeOK
<1>1. CASE Step(t, "acq_dequeue", "idle") /\ UNCHANGED <<surface, freeQueue>>
  <2>1. ~Carrying(t)
    BY <1>1 DEF Carrying, CarryingPcs, PresentPcs, EventPcs, Step
  <2>2. surface[t] = NoBuffer
    BY <1>0, <2>1 DEF OneHolder
  <2> QED BY <1>1, <2>2, CallStays DEF AcquireDequeue, Step, queueVars
<1>2. CASE /\ freeQueue # <<>>
           /\ Step(t, "acq_dequeue", "acq_unlock")
           /\ surface' = [surface EXCEPT ![t] = Head(freeQueue)]
           /\ freeQueue' = Tail(freeQueue)
  <2> DEFINE b == Head(freeQueue)
  <2>1. /\ b \in Buffers /\ b \in Range(freeQueue)
        /\ Range(freeQueue') = Range(freeQueue) \ {b}
        /\ IsInjective(freeQueue')
    BY <1>0, <1>2, TakeHead
  <2>2. b \notin Hand /\ b \notin lost /\ b \notin Range(dirtyQueue) /\ b \notin app
    BY <2>1 DEF OwnInv, Partition
  <2>3. Carrying(t)'
    BY <1>2, OthersStay DEF Step, Carrying, CarryingPcs
  <2>4. /\ pc[t] \notin HoldingPcs /\ "acq_unlock" \in HoldingPcs /\ "acq_unlock" \notin EnginePcs
        /\ Goto(t, "acq_unlock") /\ surface' = [surface EXCEPT ![t] = b]
        /\ OneHolder /\ b \in Buffers /\ b \notin Hand
    BY <1>0, <1>2, <2>1, <2>2 DEF Step, HoldingPcs, EnginePcs, EventPcs
  <2>5. OneHolder' /\ Hand' = Hand \cup {b}
    BY <2>3, <2>4, HandTakes
  <2>6. HandAt(EnginePcs)' = HandAt(EnginePcs)
    BY <2>3, <2>4, HandTakes
  <2>7. UNCHANGED <<app, lost, dirtyQueue>>
    BY <1>2 DEF AcquireDequeue
  <2>8. OwnInv'
    <3>1. Partition(Range(freeQueue'), Range(dirtyQueue'), app', lost', Hand')
      BY <2>1, <2>2, <2>5, <2>7 DEF OwnInv, Partition
    <3> QED BY <2>1, <2>5, <2>7, <3>1 DEF OwnInv
  <2>9. owner' = [owner EXCEPT ![b] = "app"]
    BY <2>1, <2>2, <2>6, <2>7, <2>8, OwnerOf, EngineHolds DEF OwnerSets, OwnerIn
  <2> QED BY <1>2, <2>8, <2>9
          DEF OwnStep, Ownership!Next, Ownership!Acquire, Ownership!Give
<1> QED BY <1>1, <1>2 DEF AcquireDequeue

(* The call hands its image to the application: nobody else sees that. *)
LEMMA ReturnOwns ==
    ASSUME TypeInv, OwnInv, NEW t \in Threads, AcquireReturn(t)
    PROVE  OwnStep
<1> DEFINE b == surface[t]
<1>1. /\ OneHolder /\ b \in Buffers
      /\ pc[t] \in HoldingPcs /\ pc[t] \notin EnginePcs /\ "idle" \notin HoldingPcs
      /\ Goto(t, "idle") /\ surface' = [surface EXCEPT ![t] = NoBuffer]
  BY DEF OwnInv, AcquireReturn, Return, TypeInv, Carrying, CarryingPcs, HoldingPcs, EnginePcs,
         EventPcs
<1>2. OneHolder' /\ b \in Hand /\ Hand' = Hand \ {b}
  BY <1>1, HandGives
<1>3. HandAt(EnginePcs)' = HandAt(EnginePcs)
  BY <1>1, HandGives
<1>4. app' = app \cup {b} /\ UNCHANGED <<lost, freeQueue, dirtyQueue>>
  BY DEF AcquireReturn
<1>5. OwnInv'
  <2>1. Partition(Range(freeQueue'), Range(dirtyQueue'), app', lost', Hand')
    BY <1>2, <1>4 DEF OwnInv, Partition
  <2> QED BY <1>2, <1>4, <2>1 DEF OwnInv
<1>6. owner' = owner
  BY <1>3, <1>4, <1>5, OwnerOf DEF OwnerSets
<1> QED BY <1>4, <1>5, <1>6 DEF OwnStep, Ownership!vars

(* The application's image goes to a present. *)
LEMMA PresentOwns ==
    ASSUME TypeInv, OwnInv, NEW t \in Threads, NEW b \in Buffers, PresentCall(t, b)
    PROVE  OwnStep
<1>1. b \in app /\ b \notin Hand /\ b \notin Range(freeQueue) \cup Range(dirtyQueue) \cup lost
  BY DEF PresentCall, OwnInv, Partition
<1>2. /\ OneHolder /\ pc[t] \notin HoldingPcs
      /\ "fence_wait" \in HoldingPcs /\ "fence_wait" \notin EnginePcs
      /\ Goto(t, "fence_wait") /\ surface' = [surface EXCEPT ![t] = b]
  BY DEF OwnInv, PresentCall, Step, HoldingPcs, EnginePcs, EventPcs
<1>3. Carrying(t)'
  BY <1>2, OthersStay DEF Carrying, CarryingPcs, PresentPcs, EventPcs
<1>4. OneHolder' /\ Hand' = Hand \cup {b}
  BY <1>1, <1>2, <1>3, HandTakes
<1>5. HandAt(EnginePcs)' = HandAt(EnginePcs)
  BY <1>1, <1>2, <1>3, HandTakes
<1>6. app' = app \ {b} /\ UNCHANGED <<lost, freeQueue, dirtyQueue>>
  BY DEF PresentCall
<1>7. OwnInv'
  <2>1. Partition(Range(freeQueue'), Range(dirtyQueue'), app', lost', Hand')
    BY <1>1, <1>4, <1>6 DEF OwnInv, Partition
  <2> QED BY <1>4, <1>6, <2>1 DEF OwnInv
<1>8. owner' = owner
  BY <1>5, <1>6, <1>7, OwnerOf DEF OwnerSets
<1> QED BY <1>6, <1>7, <1>8 DEF OwnStep, Ownership!vars

(* The image is queued for display. *)
LEMMA EnqueueOwns ==
    ASSUME TypeInv, OwnInv, NEW t \in Threads, PresentEnqueue(t)
    PROVE  OwnStep
<1> DEFINE b == surface[t]
<1>1. /\ OneHolder /\ b \in Buffers
      /\ pc[t] \in HoldingPcs /\ pc[t] \notin EnginePcs /\ "acquire" \notin HoldingPcs
      /\ Goto(t, "acquire") /\ UNCHANGED surface
  BY DEF OwnInv, PresentEnqueue, Step, TypeInv, Carrying, CarryingPcs, PresentPcs, HoldingPcs,
         EnginePcs, EventPcs
<1>2. Carrying(t)'
  BY <1>1, OthersStay DEF Carrying, CarryingPcs, PresentPcs, EventPcs
<1>3. OneHolder' /\ b \in Hand /\ Hand' = Hand \ {b}
  BY <1>1, <1>2, HandGives
<1>4. HandAt(EnginePcs)' = HandAt(EnginePcs) /\ b \notin HandAt(EnginePcs)
  <2>1. HandAt(EnginePcs)' = HandAt(EnginePcs)
    BY <1>1, <1>2, HandGives
  <2>2. HandAt(EnginePcs)' \subseteq Hand'
    BY EngineHolds
  <2> QED BY <1>3, <2>1, <2>2
<1>5. b \notin Range(freeQueue) \cup Range(dirtyQueue) \cup app \cup lost
  BY <1>1, <1>3 DEF OwnInv, Partition
<1>6. /\ Range(dirtyQueue') = Range(dirtyQueue) \cup {b} /\ IsInjective(dirtyQueue')
      /\ UNCHANGED <<app, lost, freeQueue>>
  <2>1. dirtyQueue \in Seq(Buffers) /\ IsInjective(dirtyQueue) /\ b \notin Range(dirtyQueue)
    BY <1>5 DEF OwnInv, TypeInv, TypeOK
  <2>2. /\ Range(Append(dirtyQueue, b)) = Range(dirtyQueue) \cup {b}
        /\ IsInjective(Append(dirtyQueue, b))
    BY <1>1, <2>1, AddElement
  <2> QED BY <2>2 DEF PresentEnqueue
<1>7. OwnInv'
  <2>1. Partition(Range(freeQueue'), Range(dirtyQueue'), app', lost', Hand')
    BY <1>1, <1>3, <1>5, <1>6 DEF OwnInv, Partition
  <2> QED BY <1>3, <1>6, <2>1 DEF OwnInv
<1>8. owner[b] = "app" /\ owner' = [owner EXCEPT ![b] = "engine"]
  BY <1>1, <1>4, <1>5, <1>6, <1>7, OwnerOf DEF OwnerSets, OwnerIn
<1> QED BY <1>1, <1>6, <1>7, <1>8
        DEF OwnStep, Ownership!Next, Ownership!Present, Ownership!Give

(* The oldest frame leaves the queue; a failing call leaves its own there. *)
LEMMA AcquireOwns ==
    ASSUME TypeInv, OwnInv, NEW t \in Threads, PresentAcquire(t)
    PROVE  OwnStep
<1>0. /\ OneHolder /\ IsInjective(dirtyQueue) /\ dirtyQueue \in Seq(Buffers)
      /\ pc[t] = "acquire" /\ "acquire" \notin HoldingPcs
  BY DEF OwnInv, TypeInv, TypeOK, PresentAcquire, Step, HoldingPcs, EventPcs
<1>1. CASE Return(t) /\ UNCHANGED dirtyQueue
  BY <1>0, <1>1, CallReturns DEF PresentAcquire, queueVars
<1>2. CASE /\ dirtyQueue # <<>>
           /\ Step(t, "acquire", "set_buffer")
           /\ surface' = [surface EXCEPT ![t] = Head(dirtyQueue)]
           /\ dirtyQueue' = Tail(dirtyQueue)
  <2> DEFINE b == Head(dirtyQueue)
  <2>1. /\ b \in Buffers /\ b \in Range(dirtyQueue)
        /\ Range(dirtyQueue') = Range(dirtyQueue) \ {b}
        /\ IsInjective(dirtyQueue')
    BY <1>0, <1>2, TakeHead
  <2>2. b \notin Hand /\ b \notin lost /\ b \notin Range(freeQueue) /\ b \notin app
    BY <2>1 DEF OwnInv, Partition
  <2>3. Carrying(t)'
    <3>1. pc'[t] = "set_buffer"
      BY <1>2 DEF Step, Goto, TypeInv, TypeOK
    <3> QED BY <3>1 DEF Carrying, CarryingPcs, PresentPcs, EventPcs
  <2>4. /\ "set_buffer" \in HoldingPcs /\ "set_buffer" \in EnginePcs
        /\ Goto(t, "set_buffer") /\ surface' = [surface EXCEPT ![t] = b]
        /\ OneHolder /\ b \in Buffers /\ b \notin Hand /\ pc[t] \notin HoldingPcs
    BY <1>0, <1>2, <2>1, <2>2 DEF Step, HoldingPcs, EnginePcs
  <2>5. OneHolder' /\ Hand' = Hand \cup {b}
    BY <2>3, <2>4, HandTakes
  <2>6. HandAt(EnginePcs)' = HandAt(EnginePcs) \cup {b}
    BY <2>3, <2>4, HandTakes
  <2>7. UNCHANGED <<app, lost, freeQueue>>
    BY <1>2 DEF PresentAcquire
  <2>8. OwnInv'
    <3>1. Partition(Range(freeQueue'), Range(dirtyQueue'), app', lost', Hand')
      BY <2>1, <2>2, <2>5, <2>7 DEF OwnInv, Partition
    <3> QED BY <2>1, <2>5, <2>7, <3>1 DEF OwnInv
  <2>9. owner' = owner
    <3>1. Range(dirtyQueue') \cup HandAt(EnginePcs)' = Range(dirtyQueue) \cup HandAt(EnginePcs)
      BY <2>1, <2>6
    <3> QED BY <2>7, <2>8, <3>1, OwnerOf DEF OwnerSets, OwnerIn
  <2> QED BY <2>7, <2>8, <2>9 DEF OwnStep, Ownership!vars
<1> QED BY <1>1, <1>2 DEF PresentAcquire

(* A call that fails returns; what it held is nobody's. *)
LEMMA LoseOwns ==
    ASSUME TypeInv, OwnInv, NEW t \in Threads, Return(t),
           pc[t] \in HoldingPcs, surface[t] \in Buffers,
           lost' = lost \cup {surface[t]}, UNCHANGED <<app, freeQueue, dirtyQueue>>
    PROVE  OwnStep
<1> DEFINE b == surface[t]
<1>1. OneHolder /\ "idle" \notin HoldingPcs /\ Goto(t, "idle")
      /\ surface' = [surface EXCEPT ![t] = NoBuffer]
  BY DEF OwnInv, Return, HoldingPcs, EventPcs
<1>2. OneHolder' /\ b \in Hand /\ Hand' = Hand \ {b}
  BY <1>1, HandGives
<1>3. HandAt(EnginePcs)' = HandAt(EnginePcs) \ {b}
  <2>1. CASE pc[t] \in EnginePcs
    BY <1>1, <2>1, HandGives
  <2>2. CASE pc[t] \notin EnginePcs
    <3>1. HandAt(EnginePcs)' = HandAt(EnginePcs)
      BY <1>1, <2>2, HandGives
    <3>2. HandAt(EnginePcs)' \subseteq Hand'
      BY EngineHolds
    <3> QED BY <1>2, <3>1, <3>2
  <2> QED BY <2>1, <2>2
<1>4. b \notin Range(freeQueue) \cup Range(dirtyQueue) \cup app \cup lost
  BY <1>2 DEF OwnInv, Partition
<1>5. OwnInv'
  <2>1. Partition(Range(freeQueue'), Range(dirtyQueue'), app', lost', Hand')
    BY <1>2, <1>4 DEF OwnInv, Partition
  <2> QED BY <1>2, <2>1 DEF OwnInv
<1>6. owner' = [owner EXCEPT ![b] = "lost"] /\ owner[b] \in {"app", "engine"}
  <2>1. owner' = [owner EXCEPT ![b] = "lost"]
    BY <1>3, <1>4, <1>5, OwnerOf DEF OwnerSets, OwnerIn
  <2>2. owner[b] \in {"app", "engine"}
    BY <1>4, OwnerOf DEF OwnerSets, OwnerIn
  <2> QED BY <2>1, <2>2
<1> QED BY <1>5, <1>6 DEF OwnStep, Ownership!Next, Ownership!Lose, Ownership!Give

(* The surface that was shown is free. *)
LEMMA ReleaseOwns ==
    ASSUME TypeInv, OwnInv, NEW t \in Threads, PresentRelease(t)
    PROVE  OwnStep
<1> DEFINE b == surface[t]
<1>1. pc[t] \in HoldingPcs /\ pc[t] \in EnginePcs /\ b \in Buffers
  BY DEF PresentRelease, Step, TypeInv, Carrying, CarryingPcs, PresentPcs, HoldingPcs, EnginePcs,
         EventPcs
<1>2. CASE Return(t) /\ lost' = lost \cup {b} /\ UNCHANGED freeQueue
  BY <1>1, <1>2, LoseOwns DEF PresentRelease
<1>3. CASE /\ Step(t, "release", "rel_unlock")
           /\ freeQueue' = Append(freeQueue, b)
           /\ UNCHANGED <<surface, lost>>
  <2>1. Goto(t, "rel_unlock") /\ "rel_unlock" \notin HoldingPcs /\ OneHolder
    BY <1>3 DEF Step, HoldingPcs, EventPcs, OwnInv
  <2>2. Carrying(t)'
    BY <1>3, <2>1, OthersStay DEF Carrying, CarryingPcs, PresentPcs, EventPcs
  <2>3. /\ OneHolder' /\ b \in Hand /\ Hand' = Hand \ {b}
        /\ b \in HandAt(EnginePcs) /\ HandAt(EnginePcs)' = HandAt(EnginePcs) \ {b}
    BY <1>1, <1>3, <2>1, <2>2, HandGives
  <2>4. b \notin Range(freeQueue) \cup Range(dirtyQueue) \cup app \cup lost
    BY <1>1, <2>3 DEF OwnInv, Partition
  <2>5. freeQueue \in Seq(Buffers) /\ IsInjective(freeQueue) /\ b \notin Range(freeQueue)
    BY <2>4 DEF OwnInv, TypeInv, TypeOK
  <2>6. Range(freeQueue') = Range(freeQueue) \cup {b} /\ IsInjective(freeQueue')
    BY <1>1, <1>3, <2>5, AddElement
  <2>7. UNCHANGED <<app, lost, dirtyQueue>>
    BY <1>3 DEF PresentRelease
  <2>8. OwnInv'
    <3>1. Partition(Range(freeQueue'), Range(dirtyQueue'), app', lost', Hand')
      BY <1>1, <2>3, <2>4, <2>6, <2>7 DEF OwnInv, Partition
    <3> QED BY <2>3, <2>6, <2>7, <3>1 DEF OwnInv
  <2>9. owner[b] = "engine" /\ owner' = [owner EXCEPT ![b] = "free"]
    <3>1. owner[b] = "engine"
      BY <1>1, <2>3, <2>4, OwnerOf DEF OwnerSets, OwnerIn
    <3>2. owner' = [owner EXCEPT ![b] = "free"]
      BY <2>3, <2>4, <2>6, <2>7, <2>8, OwnerOf DEF OwnerSets, OwnerIn
    <3> QED BY <3>1, <3>2
  <2> QED BY <1>1, <1>3, <2>8, <2>9
          DEF OwnStep, Ownership!Next, Ownership!Recycle, Ownership!Give
<1> QED BY <1>2, <1>3 DEF PresentRelease

(* Two calls move, neither with a surface in its hands. *)
LEMMA SignalOwns ==
    ASSUME TypeInv, OwnInv, NEW t \in Threads, PresentSignal(t)
    PROVE  OwnStep
<1>0. /\ OneHolder /\ UNCHANGED <<surface, queueVars>> /\ pc[t] = "signal"
      /\ pc \in [Threads -> Pcs]
  BY DEF OwnInv, PresentSignal, TypeInv, TypeOK
<1>1. CASE \E w \in At({"acq_wait"}) : pc' = [pc EXCEPT ![t] = "front_lock", ![w] = "acq_lock"]
  <2>1. \A P : {"signal", "front_lock", "acq_wait", "acq_lock"} \cap P = {} => At(P)' = At(P)
    BY <1>0, <1>1 DEF At
  <2>2. /\ {"signal", "front_lock", "acq_wait", "acq_lock"} \cap HoldingPcs = {}
        /\ {"signal", "front_lock", "acq_wait", "acq_lock"} \cap EnginePcs = {}
        /\ {"signal", "front_lock", "acq_wait", "acq_lock"} \cap EventPcs = {}
    BY DEF HoldingPcs, EnginePcs, EventPcs
  <2>3. At(HoldingPcs)' = At(HoldingPcs) /\ At(EnginePcs)' = At(EnginePcs)
    BY <2>1, <2>2
  <2>4. Hand' = Hand /\ HandAt(EnginePcs)' = HandAt(EnginePcs)
    BY <1>0, <2>3 DEF Hand, HandAt
  <2>5. \A u \in Threads : Carrying(u)' <=> Carrying(u)
    BY <1>0, <1>1 DEF Carrying, CarryingPcs, PresentPcs, EventPcs, At
  <2>6. OneHolder'
    BY <1>0, <2>3, <2>5 DEF OneHolder
  <2> QED BY <1>0, <2>4, <2>6, StepStays
<1>2. CASE Goto(t, "front_lock")
  <2>1. /\ "signal" \notin HoldingPcs /\ "front_lock" \notin HoldingPcs
        /\ "signal" \notin EnginePcs /\ "front_lock" \notin EnginePcs
    BY DEF HoldingPcs, EnginePcs, EventPcs
  <2>2. Carrying(t)'
    BY <1>0, <1>2, OthersStay DEF Carrying, CarryingPcs, PresentPcs, EventPcs
  <2> QED BY <1>0, <1>2, <2>1, <2>2, CallStays
<1> QED BY <1>1, <1>2 DEF PresentSignal

LEMMA PresentersNext == TypeInv /\ PresentersPresent /\ [Next]_vars => PresentersPresent'
<1> SUFFICES ASSUME TypeInv, PresentersPresent, [Next]_vars PROVE PresentersPresent'
    OBVIOUS
<1>0. pc \in [Threads -> Pcs]
  BY DEF TypeInv, TypeOK
<1> USE <1>0 DEF PresentersPresent, PresentPcs, EventPcs, Move, Step, Goto, Return,
                 LockFree, UnlockFree, LockFront
<1>1. CASE UNCHANGED vars
  BY <1>1 DEF vars
<1>2. ASSUME NEW t \in Threads, AcquireCall(t) \/ SpuriousWake(t) \/ AcquireTimeout(t) \/ DispatchCall(t)
      PROVE  PresentersPresent'
  BY <1>2 DEF AcquireCall, SpuriousWake, AcquireTimeout, DispatchCall
<1>3. ASSUME NEW t \in Threads, AcquireStep(t) PROVE PresentersPresent'
  BY <1>3 DEF AcquireStep, AcquireLock, AcquireCheck, AcquireExpired, AcquireDequeue,
              AcquireUnlock, AcquireReturn
<1>4. ASSUME NEW t \in Threads, NEW b \in Buffers, PresentCall(t, b) PROVE PresentersPresent'
  BY <1>4 DEF PresentCall
<1>5. ASSUME NEW t \in Threads, PresentStep(t) PROVE PresentersPresent'
  <2>1. CASE PresentFenceWait(t) \/ PresentEnqueue(t) \/ PresentAcquire(t) \/ PresentSetBuffer(t)
             \/ PresentCommit(t)
    BY <2>1 DEF PresentFenceWait, PresentEnqueue, PresentAcquire, PresentSetBuffer, PresentCommit
  <2>2. CASE PresentReleaseLock(t) \/ PresentRelease(t) \/ PresentReleaseUnlock(t)
    BY <2>2 DEF PresentReleaseLock, PresentRelease, PresentReleaseUnlock
  <2>3. CASE PresentSignal(t)
    BY <2>3 DEF PresentSignal, At
  <2>4. CASE PresentFrontLock(t) \/ PresentFrontIncrease(t) \/ PresentFrontSet(t)
    BY <2>4 DEF PresentFrontLock, PresentFrontIncrease, PresentFrontSet
  <2> QED BY <1>5, <2>1, <2>2, <2>3, <2>4 DEF PresentStep
<1>6. ASSUME NEW t \in Threads, PresentError(t) \/ HandleEvents(t) PROVE PresentersPresent'
  BY <1>6 DEF PresentError, HandleEvents
<1>7. ASSUME NEW t \in Threads, CallbackStep(t) PROVE PresentersPresent'
  BY <1>7 DEF CallbackStep, CallbackLock, CallbackIncrease, CallbackClear
<1>8. CASE Vblank
  BY <1>8 DEF Vblank
<1> QED BY <1>1, <1>2, <1>3, <1>4, <1>5, <1>6, <1>7, <1>8 DEF Next

LEMMA OwnNext == TypeInv /\ PresentersPresent /\ OwnInv /\ [Next]_vars => OwnStep
<1> SUFFICES ASSUME TypeInv, PresentersPresent, OwnInv, [Next]_vars PROVE OwnStep
    OBVIOUS
<1> USE DEF Move, Step, LockFree, UnlockFree, LockFront, notLocks, notQueues
<1>0. /\ OneHolder /\ pc \in [Threads -> Pcs]
      /\ \A t \in Threads : ~Carrying(t) => surface[t] = NoBuffer
  BY DEF OwnInv, OneHolder, TypeInv, TypeOK
<1>a. ASSUME NEW t \in Threads, NEW to, Goto(t, to), UNCHANGED <<surface, queueVars>>,
             ~Carrying(t)
      PROVE  OwnStep
  BY <1>0, <1>a, CallStays
<1>b. ASSUME NEW t \in Threads, NEW to, Goto(t, to), UNCHANGED <<surface, queueVars>>,
             pc[t] \in HoldingPcs <=> to \in HoldingPcs,
             pc[t] \in EnginePcs <=> to \in EnginePcs,
             to \in CarryingPcs \/ (to \in EventPcs /\ t \in Presenters)
      PROVE  OwnStep
  <2>1. Carrying(t)'
    BY <1>0, <1>b DEF Goto, Carrying
  <2> QED BY <1>b, <2>1, CallStays
<1>1. CASE UNCHANGED vars
  <2>1. UNCHANGED <<pc, surface, queueVars>>
    BY <1>1 DEF vars
  <2>2. /\ OneHolder' /\ Hand' = Hand /\ HandAt(EnginePcs)' = HandAt(EnginePcs)
    BY <1>0, <2>1 DEF OneHolder, Carrying, Hand, HandAt, At
  <2> QED BY <2>1, <2>2, StepStays
<1>2. ASSUME NEW t \in Threads, AcquireCall(t) \/ SpuriousWake(t) \/ AcquireTimeout(t) \/ DispatchCall(t)
      PROVE  OwnStep
  <2>1. /\ ~Carrying(t) /\ UNCHANGED <<surface, queueVars>>
        /\ \E to \in Pcs : Goto(t, to)
    BY <1>2 DEF AcquireCall, SpuriousWake, AcquireTimeout, DispatchCall, Carrying, CarryingPcs,
                PresentPcs, EventPcs, Pcs, AcquirePcs
  <2> QED BY <2>1, <1>a
<1>3. ASSUME NEW t \in Threads, AcquireStep(t) PROVE OwnStep
  <2>1. CASE AcquireLock(t) \/ AcquireCheck(t) \/ AcquireExpired(t)
    <3>1. /\ ~Carrying(t) /\ UNCHANGED <<surface, queueVars>>
          /\ \E to \in Pcs : Goto(t, to)
      BY <2>1 DEF AcquireLock, AcquireCheck, AcquireExpired, Carrying, CarryingPcs,
                  PresentPcs, EventPcs, Pcs, AcquirePcs
    <3> QED BY <3>1, <1>a
  <2>2. CASE AcquireDequeue(t)
    BY <2>2, DequeueOwns
  <2>3. CASE AcquireUnlock(t)
    <3>1. Goto(t, "acq_fence") /\ UNCHANGED <<surface, queueVars>> /\ pc[t] = "acq_unlock"
      BY <2>3 DEF AcquireUnlock
    <3> QED BY <3>1, <1>b DEF CarryingPcs, HoldingPcs, EnginePcs, EventPcs
  <2>4. CASE AcquireReturn(t)
    BY <2>4, ReturnOwns
  <2> QED BY <1>3, <2>1, <2>2, <2>3, <2>4 DEF AcquireStep
<1>4. ASSUME NEW t \in Threads, NEW b \in Buffers, PresentCall(t, b) PROVE OwnStep
  BY <1>4, PresentOwns
<1>5. ASSUME NEW t \in Threads, PresentStep(t) PROVE OwnStep
  <2> USE DEF CarryingPcs, PresentPcs, HoldingPcs, EnginePcs, EventPcs
  <2>1. CASE PresentFenceWait(t)
    <3>1. Goto(t, "enqueue") /\ UNCHANGED <<surface, queueVars>> /\ pc[t] = "fence_wait"
      BY <2>1 DEF PresentFenceWait
    <3> QED BY <3>1, <1>b
  <2>2. CASE PresentEnqueue(t)
    BY <2>2, EnqueueOwns
  <2>3. CASE PresentAcquire(t)
    BY <2>3, AcquireOwns
  <2>4. CASE PresentSetBuffer(t)
    <3>1. Goto(t, "commit") /\ UNCHANGED <<surface, queueVars>> /\ pc[t] = "set_buffer"
      BY <2>4 DEF PresentSetBuffer
    <3> QED BY <3>1, <1>b
  <2>5. CASE PresentCommit(t)
    <3>1. Goto(t, "events") /\ UNCHANGED <<surface, queueVars>> /\ pc[t] = "commit"
      BY <2>5 DEF PresentCommit
    <3>2. t \in Presenters
      BY <3>1 DEF PresentersPresent
    <3> QED BY <3>1, <3>2, <1>b
  <2>6. CASE PresentReleaseLock(t)
    <3>1. Goto(t, "release") /\ UNCHANGED <<surface, queueVars>> /\ pc[t] = "rel_lock"
      BY <2>6 DEF PresentReleaseLock
    <3> QED BY <3>1, <1>b
  <2>7. CASE PresentRelease(t)
    BY <2>7, ReleaseOwns
  <2>8. CASE PresentReleaseUnlock(t)
    <3>1. Goto(t, "signal") /\ UNCHANGED <<surface, queueVars>> /\ pc[t] = "rel_unlock"
      BY <2>8 DEF PresentReleaseUnlock
    <3> QED BY <3>1, <1>b
  <2>9. CASE PresentSignal(t)
    BY <2>9, SignalOwns
  <2>10. CASE PresentFrontLock(t)
    <3>1. Goto(t, "front_inc") /\ UNCHANGED <<surface, queueVars>> /\ pc[t] = "front_lock"
      BY <2>10 DEF PresentFrontLock
    <3> QED BY <3>1, <1>b
  <2>11. CASE PresentFrontIncrease(t)
    <3>1. Goto(t, "front_set") /\ UNCHANGED <<surface, queueVars>> /\ pc[t] = "front_inc"
      BY <2>11 DEF PresentFrontIncrease
    <3> QED BY <3>1, <1>b
  <2>12. CASE PresentFrontSet(t)
    <3>1. Return(t) /\ UNCHANGED queueVars /\ pc[t] \notin HoldingPcs
      BY <2>12 DEF PresentFrontSet
    <3> QED BY <3>1, CallReturns
  <2> QED BY <1>5, <2>1, <2>2, <2>3, <2>4, <2>5, <2>6, <2>7, <2>8, <2>9, <2>10,
             <2>11, <2>12 DEF PresentStep
<1>6. ASSUME NEW t \in Threads, PresentError(t) PROVE OwnStep
  <2>1. pc[t] \in HoldingPcs /\ surface[t] \in Buffers
    BY <1>6 DEF PresentError, TypeInv, Carrying, CarryingPcs, PresentPcs, HoldingPcs, EventPcs
  <2> QED BY <1>6, <2>1, LoseOwns DEF PresentError
<1>7. ASSUME NEW t \in Threads, HandleEvents(t) \/ CallbackStep(t) PROVE OwnStep
  <2>1. UNCHANGED <<surface, queueVars>> /\ pc[t] \in EventPcs
    BY <1>7 DEF HandleEvents, CallbackStep, CallbackLock, CallbackIncrease, CallbackClear, EventPcs,
                queueVars
  <2>2. \E to \in EventPcs \cup {"rel_lock", "idle"} :
            Goto(t, to) /\ (t \in Presenters => to # "idle")
    BY <1>7 DEF HandleEvents, CallbackStep, CallbackLock, CallbackIncrease, CallbackClear, EventPcs
  <2>3. PICK to \in EventPcs \cup {"rel_lock", "idle"} :
            Goto(t, to) /\ (t \in Presenters => to # "idle")
    BY <2>2
  <2>4. CASE t \in Presenters
    BY <2>1, <2>3, <2>4, <1>b DEF CarryingPcs, PresentPcs, HoldingPcs, EnginePcs, EventPcs
  <2>5. CASE t \notin Presenters
    <3>1. ~Carrying(t)
      BY <2>1, <2>5 DEF Carrying, CarryingPcs, PresentPcs, EventPcs
    <3> QED BY <2>1, <2>3, <3>1, <1>a
  <2> QED BY <2>4, <2>5
<1>8. CASE Vblank
  <2>1. UNCHANGED <<pc, surface, queueVars>>
    BY <1>8 DEF Vblank
  <2>2. /\ OneHolder' /\ Hand' = Hand /\ HandAt(EnginePcs)' = HandAt(EnginePcs)
    BY <1>0, <2>1 DEF OneHolder, Carrying, Hand, HandAt, At
  <2> QED BY <2>1, <2>2, StepStays
<1> QED BY <1>1, <1>2, <1>3, <1>4, <1>5, <1>6, <1>7, <1>8 DEF Next

LEMMA OwnInit == Init => PresentersPresent /\ OwnInv /\ Ownership!Init
<1> SUFFICES ASSUME Init PROVE PresentersPresent /\ OwnInv /\ Ownership!Init
    OBVIOUS
<1>1. TypeInv
  BY TypeInit
<1>2. /\ freeQueue \in Seq(Buffers) /\ IsInjective(freeQueue) /\ Range(freeQueue) = Buffers
      /\ dirtyQueue = <<>> /\ app = {} /\ lost = {}
  BY <1>1 DEF Init, TypeInv, TypeOK, Bijection, Injection, Surjection, IsInjective, Range
<1>3. \A t \in Threads : pc[t] = "idle" /\ surface[t] = NoBuffer
  BY DEF Init
<1>4. Hand = {} /\ HandAt(EnginePcs) = {} /\ At(HoldingPcs) = {}
  BY <1>3 DEF Hand, HandAt, At, HoldingPcs, EnginePcs, EventPcs
<1>5. PresentersPresent /\ OneHolder
  BY <1>3, <1>4 DEF PresentersPresent, OneHolder, PresentPcs, EventPcs
<1>6. Range(dirtyQueue) = {} /\ IsInjective(dirtyQueue)
  BY <1>2 DEF Range, IsInjective
<1>7. OwnInv
  BY <1>2, <1>4, <1>5, <1>6 DEF OwnInv, Partition
<1>8. owner = [b \in Buffers |-> "free"]
  BY <1>2, <1>7, OwnerOf DEF OwnerSets, OwnerIn
<1>9. /\ \A i, j \in DOMAIN freeQueue : freeQueue[i] = freeQueue[j] => i = j
      /\ \A b \in Buffers : \E n \in DOMAIN freeQueue : freeQueue[n] = b
  BY <1>2 DEF IsInjective, Range
<1> QED BY <1>2, <1>5, <1>7, <1>8, <1>9 DEF Ownership!Init

LEMMA Exclusive == OwnInv => OneOwner
<1> SUFFICES ASSUME OwnInv, NEW b \in Buffers
             PROVE  Cardinality({o \in DOMAIN Owned : b \in Owned[o]}) + Cardinality(InHand(b)) = 1
    BY DEF OwnInv, OneOwner
<1> DEFINE Os == {o \in {"free", "dirty", "app", "lost"} : b \in Owned[o]}
<1>1. DOMAIN Owned = {"free", "dirty", "app", "lost"}
  BY DEF Owned
<1>2. /\ Owned["free"] = Range(freeQueue) /\ Owned["dirty"] = Range(dirtyQueue)
      /\ Owned["app"] = app /\ Owned["lost"] = lost
  BY DEF Owned
<1>3. Partition(Range(freeQueue), Range(dirtyQueue), app, lost, Hand) /\ OneHolder
  BY DEF OwnInv
<1>4. CASE b \in Hand
  <2>1. PICK t \in At(HoldingPcs) : surface[t] = b
    BY <1>4 DEF Hand, HandAt
  <2>2. InHand(b) = {t}
    BY <1>3, <2>1 DEF OneHolder, InHand
  <2>3. Os = {}
    BY <1>2, <1>3, <1>4 DEF Partition
  <2>4. Cardinality(InHand(b)) = 1 /\ Cardinality(Os) = 0
    BY <2>2, <2>3, FS_Singleton, FS_EmptySet
  <2> QED BY <1>1, <2>4
<1>5. CASE b \notin Hand
  <2>1. InHand(b) = {}
    BY <1>5 DEF Hand, HandAt, InHand
  <2>2. Os = {"free"} \/ Os = {"dirty"} \/ Os = {"app"} \/ Os = {"lost"}
    BY <1>2, <1>3, <1>5 DEF Partition
  <2>3. Cardinality(Os) = 1 /\ Cardinality(InHand(b)) = 0
    BY <2>1, <2>2, FS_Singleton, FS_EmptySet
  <2> QED BY <1>1, <2>3
<1> QED BY <1>4, <1>5

(* No surface is in two places and none is nowhere: free, queued for       *)
(* display, with the application, in the tbm_surface of one call or lost   *)
(* by an error return (swapchain_tdm.c), however the calls interleave and  *)
(* whichever fail.                                                         *)
THEOREM OneOwnerCorrect == Spec => []OneOwner
<1> DEFINE IInv == TypeInv /\ PresentersPresent /\ OwnInv
<1>1. Init => IInv
  BY TypeInit, OwnInit
<1>2. IInv /\ [Next]_vars => IInv'
  BY TypeNext, PresentersNext, OwnNext DEF OwnStep
<1>3. IInv => OneOwner
  BY Exclusive
<1> QED BY <1>1, <1>2, <1>3, PTL DEF Spec

(* The backend keeps the promise of acquire_image and present_image: each  *)
(* of its steps is one of ImageOwnership, or moves no image.               *)
THEOREM ImplementsOwnershipCorrect == Spec => ImplementsOwnership
<1> DEFINE IInv == TypeInv /\ PresentersPresent /\ OwnInv
<1>1. Init => IInv /\ Ownership!Init
  BY TypeInit, OwnInit
<1>2. IInv /\ [Next]_vars => IInv' /\ [Ownership!Next]_(Ownership!vars)
  BY TypeNext, PresentersNext, OwnNext DEF OwnStep
<1> QED BY <1>1, <1>2, PTL DEF Spec, ImplementsOwnership, Ownership!Spec
-----------------------------------------------------------------------------
(* What the promise is worth to a client: the list of free images that its *)
(* steps leave.  Nothing of the backend is used.                           *)
LEMMA ListedInit == Ownership!Init => Ownership!TypeOK /\ Ownership!FreeListed
BY DEF Ownership!Init, Ownership!TypeOK, Ownership!Owners, Ownership!FreeListed

(* An acquire takes the head of the list, which is nowhere behind it.      *)
LEMMA ListedAcquire ==
    ASSUME Ownership!TypeOK, Ownership!FreeListed, Ownership!Acquire
    PROVE  Ownership!TypeOK' /\ Ownership!FreeListed'
<1> DEFINE n == Len(freeQueue)
           b == Head(freeQueue)
<1>1. /\ freeQueue \in Seq(Buffers) /\ owner \in [Buffers -> Ownership!Owners] /\ freeQueue # <<>>
      /\ freeQueue' = Tail(freeQueue) /\ owner' = [owner EXCEPT ![b] = "app"]
  BY DEF Ownership!TypeOK, Ownership!Acquire, Ownership!Give
<1>2. /\ n \in Nat /\ n >= 1 /\ b = freeQueue[1] /\ b \in Buffers /\ DOMAIN freeQueue = 1..n
      /\ freeQueue' \in Seq(Buffers) /\ DOMAIN freeQueue' = 1..n - 1
      /\ \A i \in 1..n - 1 : freeQueue'[i] = freeQueue[i + 1]
  BY ONLY <1>1
<1>3. /\ \A i, j \in 1..n : freeQueue[i] = freeQueue[j] => i = j
      /\ \A c \in Buffers : owner[c] = "free" <=> \E i \in 1..n : freeQueue[i] = c
  BY <1>2 DEF Ownership!FreeListed
<1> HIDE DEF n, b
<1>4. owner' \in [Buffers -> Ownership!Owners]
  BY <1>1 DEF Ownership!Owners
<1>5. /\ \A i \in 1..n - 1 : i + 1 \in 1..n /\ i + 1 # 1
      /\ \A i \in 1..n : i = 1 \/ (i - 1 \in 1..n - 1 /\ (i - 1) + 1 = i)
      /\ \A i, j \in 1..n - 1 : i + 1 = j + 1 => i = j
      /\ 1 \in 1..n
  BY ONLY <1>2
<1>6. \A i, j \in 1..n - 1 : freeQueue'[i] = freeQueue'[j] => i = j
  BY ONLY <1>2, <1>3, <1>5
<1>7. ASSUME NEW c \in Buffers
      PROVE  owner'[c] = "free" <=> \E i \in 1..n - 1 : freeQueue'[i] = c
  <2>1. CASE c = b
    <3>1. owner'[c] # "free"
      BY ONLY <1>1, <2>1, c \in Buffers
    <3>2. ~\E i \in 1..n - 1 : freeQueue'[i] = c
      BY ONLY <1>2, <1>3, <1>5, <2>1
    <3> QED BY <3>1, <3>2
  <2>2. CASE c # b
    <3>1. owner'[c] = owner[c]
      BY ONLY <1>1, <2>2, c \in Buffers
    <3>2. (\E i \in 1..n - 1 : freeQueue'[i] = c) <=> (\E i \in 1..n : freeQueue[i] = c)
      <4>1. ASSUME NEW i \in 1..n - 1, freeQueue'[i] = c PROVE \E k \in 1..n : freeQueue[k] = c
        BY ONLY <1>2, <1>5, <4>1
      <4>2. ASSUME NEW k \in 1..n, freeQueue[k] = c PROVE \E i \in 1..n - 1 : freeQueue'[i] = c
        <5>1. k - 1 \in 1..n - 1 /\ (k - 1) + 1 = k
          BY ONLY <1>2, <1>5, <2>2, <4>2
        <5>2. freeQueue'[k - 1] = c
          BY ONLY <1>2, <4>2, <5>1
        <5> QED BY ONLY <5>1, <5>2
      <4> QED BY ONLY <4>1, <4>2
    <3> QED BY <1>3, <3>1, <3>2
  <2> QED BY <2>1, <2>2
<1> QED BY <1>2, <1>4, <1>6, <1>7 DEF Ownership!TypeOK, Ownership!FreeListed

(* An image with the engine is not in the list, so it is recycled once.    *)
LEMMA ListedRecycle ==
    ASSUME Ownership!TypeOK, Ownership!FreeListed, NEW b \in Buffers, Ownership!Recycle(b)
    PROVE  Ownership!TypeOK' /\ Ownership!FreeListed'
<1> DEFINE n == Len(freeQueue)
<1>1. /\ freeQueue \in Seq(Buffers) /\ owner \in [Buffers -> Ownership!Owners] /\ owner[b] = "engine"
      /\ freeQueue' = Append(freeQueue, b) /\ owner' = [owner EXCEPT ![b] = "free"]
  BY DEF Ownership!TypeOK, Ownership!Recycle, Ownership!Give
<1>2. /\ n \in Nat /\ DOMAIN freeQueue = 1..n
      /\ freeQueue' \in Seq(Buffers) /\ DOMAIN freeQueue' = 1..n + 1
      /\ freeQueue'[n + 1] = b /\ \A i \in 1..n : freeQueue'[i] = freeQueue[i]
  BY ONLY <1>1, b \in Buffers
<1>3. /\ \A i, j \in 1..n : freeQueue[i] = freeQueue[j] => i = j
      /\ \A c \in Buffers : owner[c] = "free" <=> \E i \in 1..n : freeQueue[i] = c
  BY <1>2 DEF Ownership!FreeListed
<1> HIDE DEF n
<1>4. owner' \in [Buffers -> Ownership!Owners]
  BY <1>1 DEF Ownership!Owners
<1>5. /\ \A i \in 1..n + 1 : i \in 1..n \/ i = n + 1
      /\ \A i \in 1..n : i \in 1..n + 1
      /\ n + 1 \in 1..n + 1
  BY ONLY <1>2
<1>6. \A i \in 1..n : freeQueue[i] # b
  BY ONLY <1>1, <1>3, b \in Buffers
<1>7. \A i, j \in 1..n + 1 : freeQueue'[i] = freeQueue'[j] => i = j
  BY ONLY <1>2, <1>3, <1>5, <1>6
<1>8. ASSUME NEW c \in Buffers
      PROVE  owner'[c] = "free" <=> \E i \in 1..n + 1 : freeQueue'[i] = c
  <2>1. CASE c = b
    <3>1. owner'[c] = "free"
      BY ONLY <1>1, <2>1, c \in Buffers
    <3> QED BY ONLY <1>2, <1>5, <2>1, <3>1
  <2>2. CASE c # b
    <3>1. owner'[c] = owner[c]
      BY ONLY <1>1, <2>2, c \in Buffers
    <3>2. (\E i \in 1..n + 1 : freeQueue'[i] = c) <=> (\E i \in 1..n : freeQueue[i] = c)
      BY ONLY <1>2, <1>5, <2>2
    <3> QED BY <1>3, <3>1, <3>2
  <2> QED BY <2>1, <2>2
<1> QED BY <1>2, <1>4, <1>7, <1>8 DEF Ownership!TypeOK, Ownership!FreeListed

(* The other steps move an image between two owners that are not "free".   *)
LEMMA ListedMove ==
    ASSUME Ownership!TypeOK, Ownership!FreeListed, NEW b \in Buffers,
           Ownership!Present(b) \/ Ownership!Lose(b)
    PROVE  Ownership!TypeOK' /\ Ownership!FreeListed'
<1>1. /\ freeQueue \in Seq(Buffers) /\ owner \in [Buffers -> Ownership!Owners]
      /\ owner[b] \in {"app", "engine"} /\ freeQueue' = freeQueue
      /\ owner' = [owner EXCEPT ![b] = "engine"] \/ owner' = [owner EXCEPT ![b] = "lost"]
  BY DEF Ownership!TypeOK, Ownership!Present, Ownership!Lose, Ownership!Give
<1>2. owner' \in [Buffers -> Ownership!Owners]
  BY <1>1 DEF Ownership!Owners
<1>3. \A c \in Buffers : owner'[c] = "free" <=> owner[c] = "free"
  BY ONLY <1>1, b \in Buffers
<1> QED BY <1>1, <1>2, <1>3 DEF Ownership!TypeOK, Ownership!FreeListed

LEMMA ListedNext ==
    ASSUME Ownership!TypeOK, Ownership!FreeListed, [Ownership!Next]_(Ownership!vars)
    PROVE  Ownership!TypeOK' /\ Ownership!FreeListed'
<1>1. CASE UNCHANGED Ownership!vars
  BY <1>1 DEF Ownership!vars, Ownership!TypeOK, Ownership!FreeListed
<1>2. CASE Ownership!Next
  BY <1>2, ListedAcquire, ListedRecycle, ListedMove DEF Ownership!Next
<1> QED BY <1>1, <1>2

(* Whatever keeps the promise of ImageOwnership has a list of exactly the  *)
(* free images, each once: an acquire never hands out an image somebody    *)
(* still uses, and no free image is forgotten.                             *)
THEOREM PromiseListsFree == Ownership!Spec => [](Ownership!TypeOK /\ Ownership!FreeListed)
<1>1. Ownership!TypeOK /\ Ownership!FreeListed /\ [Ownership!Next]_(Ownership!vars)
        => (Ownership!TypeOK /\ Ownership!FreeListed)'
  BY ListedNext
<1> QED BY ListedInit, <1>1, PTL DEF Ownership!Spec

(* So it is with the free queue of the TDM backend, by the refinement      *)
(* alone (swapchain_tdm_acquire_image, swapchain_tdm_present_image).       *)
THEOREM FreeListedCorrect == Spec => []Ownership!FreeListed
BY ImplementsOwnershipCorrect, PromiseListsFree, PTL DEF ImplementsOwnership
=============================================================================
