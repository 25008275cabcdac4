---------------------------- MODULE WaitingProofs ----------------------------
(***************************************************************************)
(* What the calls of SwapchainTdm wait for is on its way: a mutex, a frame *)
(* in the queue, a free surface, the point of an acquire fence.  For any   *)
(* number of threads, of which finitely many are inside the backend.       *)
(*                                                                         *)
(* The fences are neither too late nor too early: none waits for a point   *)
(* that the presentations under way do not bring, and the surface whose    *)
(* fence has signalled is not on the screen.                               *)
(***************************************************************************)
EXTENDS SwapchainTdmProofs

(* The threads inside the backend: what makes the counts numbers. *)
BusyFinite == IsFiniteSet({t \in Threads : pc[t] # "idle"})

Consumers  == At({"acquire"})
Waiters    == At({"acq_wait"})
Signallers == At({"rel_unlock", "signal"})
Takers     == At({"acq_lock", "acq_check", "acq_dequeue"})

(* By how much a step to "to" changes the number of the calls at P.        *)
Change(t, to, P) == (IF to \in P THEN 1 ELSE 0) - (IF pc[t] \in P THEN 1 ELSE 0)
-----------------------------------------------------------------------------
LEMMA CountGoto ==
    ASSUME TypeInv, BusyFinite, NEW t \in Threads, NEW to, Goto(t, to)
    PROVE  /\ BusyFinite'
           /\ Cardinality(Consumers)' = Cardinality(Consumers) + Change(t, to, {"acquire"})
           /\ Cardinality(Signallers)' =
                 Cardinality(Signallers) + Change(t, to, {"rel_unlock", "signal"})
           /\ Cardinality(Takers)' =
                 Cardinality(Takers) + Change(t, to, {"acq_lock", "acq_check", "acq_dequeue"})
<1>1. pc' = [pc EXCEPT ![t] = to] /\ pc'[t] = to /\ \A u \in Threads \ {t} : pc'[u] = pc[u]
  BY DEF TypeInv, TypeOK, Goto
<1>2. ASSUME NEW P, "idle" \notin P
      PROVE  /\ IsFiniteSet(At(P)')
             /\ Cardinality(At(P)') = Cardinality(At(P)) + Change(t, to, P)
  <2>1. At(P) \subseteq {u \in Threads : pc[u] # "idle"}
    BY <1>2 DEF At
  <2>2. IsFiniteSet(At(P)) /\ Cardinality(At(P)) \in Nat
    BY <2>1, FS_Subset, FS_CardinalityType DEF BusyFinite
  <2>3. /\ t \in At(P) <=> pc[t] \in P
        /\ At(P)' = IF to \in P THEN At(P) \cup {t} ELSE At(P) \ {t}
    BY <1>1 DEF At
  <2>4. /\ IsFiniteSet(At(P) \cup {t}) /\ IsFiniteSet(At(P) \ {t})
        /\ Cardinality(At(P) \cup {t}) = IF t \in At(P) THEN Cardinality(At(P)) ELSE Cardinality(At(P)) + 1
        /\ Cardinality(At(P) \ {t}) = IF t \in At(P) THEN Cardinality(At(P)) - 1 ELSE Cardinality(At(P))
    BY <2>2, FS_AddElement, FS_RemoveElement
  <2> QED BY <2>2, <2>3, <2>4 DEF Change
<1>3. BusyFinite'
  <2>1. {u \in Threads : pc[u] # "idle"}' \subseteq {u \in Threads : pc[u] # "idle"} \cup {t}
    BY <1>1
  <2> QED BY <2>1, FS_AddElement, FS_Subset DEF BusyFinite
<1> QED BY <1>2, <1>3 DEF Consumers, Signallers, Takers

Counts ==
    /\ Cardinality(Consumers) \in Nat /\ Cardinality(Signallers) \in Nat
    /\ Cardinality(Takers) \in Nat

LEMMA CountNat == (BusyFinite => Counts) /\ (BusyFinite' => Counts')
<1>1. ASSUME BusyFinite PROVE Counts
  <2>1. Consumers \cup Signallers \cup Takers \subseteq {t \in Threads : pc[t] # "idle"}
    BY DEF Consumers, Signallers, Takers, At
  <2> QED BY <1>1, <2>1, FS_Subset, FS_CardinalityType DEF BusyFinite, Counts
<1>2. ASSUME BusyFinite' PROVE Counts'
  <2>1. Consumers' \cup Signallers' \cup Takers' \subseteq {t \in Threads : pc'[t] # "idle"}
    BY DEF Consumers, Signallers, Takers, At
  <2> QED BY <1>2, <2>1, FS_Subset, FS_CardinalityType DEF BusyFinite, Counts
<1> QED BY <1>1, <1>2

(* What every step does for the two queues; a failing dequeue leaves a     *)
(* surface that an acquirer was about to take.                             *)
WaitStep ==
    /\ BusyFinite'
    /\ FrameQueued => FrameQueued'
    /\ NoLostWakeup => NoLostWakeup' \/ Fails("acq_dequeue")

LEMMA CallWaits ==
    ASSUME TypeInv, TypeInv', BusyFinite, NEW t \in Threads, NEW to, Goto(t, to),
           \/ Len(dirtyQueue') = Len(dirtyQueue) + Change(t, to, {"acquire"})
           \/ UNCHANGED dirtyQueue /\ to # "acquire",
           \/ Len(freeQueue') <= Len(freeQueue) + Change(t, to, {"rel_unlock", "signal"})
                                 + Change(t, to, {"acq_lock", "acq_check", "acq_dequeue"})
           \/ freeQueue' = <<>>
           \/ Fails("acq_dequeue"),
           to = "acq_wait" => freeQueue' = <<>>
    PROVE  WaitStep
<1>1. /\ Len(dirtyQueue) \in Nat /\ Len(dirtyQueue') \in Nat
      /\ Len(freeQueue) \in Nat /\ Len(freeQueue') \in Nat
      /\ freeQueue' = <<>> => Len(freeQueue') = 0
  <2>1. /\ dirtyQueue \in Seq(Buffers) /\ dirtyQueue' \in Seq(Buffers)
        /\ freeQueue \in Seq(Buffers) /\ freeQueue' \in Seq(Buffers)
    BY DEF TypeInv, TypeOK
  <2> QED BY <2>1
<1>2. /\ BusyFinite'
      /\ Cardinality(Consumers)' = Cardinality(Consumers) + Change(t, to, {"acquire"})
      /\ Cardinality(Signallers)' =
            Cardinality(Signallers) + Change(t, to, {"rel_unlock", "signal"})
      /\ Cardinality(Takers)' =
            Cardinality(Takers) + Change(t, to, {"acq_lock", "acq_check", "acq_dequeue"})
  BY CountGoto
<1>3. /\ Cardinality(Consumers) \in Nat /\ Cardinality(Signallers) \in Nat
      /\ Cardinality(Takers) \in Nat
  BY CountNat DEF Counts
<1>4. /\ Cardinality(Signallers)' \in Nat /\ Cardinality(Takers)' \in Nat
  BY <1>2, CountNat DEF Counts
<1>5. FrameQueued => FrameQueued'
  <2>1. FrameQueued => Cardinality(Consumers) <= Len(dirtyQueue)
    BY DEF FrameQueued, Consumers
  <2>2. Cardinality(Consumers)' <= Len(dirtyQueue') => FrameQueued'
    BY DEF FrameQueued, Consumers
  <2>3. /\ Change(t, to, {"acquire"}) \in {-1, 0, 1}
        /\ \/ Len(dirtyQueue') = Len(dirtyQueue) + Change(t, to, {"acquire"})
           \/ dirtyQueue' = dirtyQueue /\ Change(t, to, {"acquire"}) \in {0, -1}
    BY DEF Change
  <2> HIDE DEF Change
  <2> QED BY ONLY <1>1, <1>2, <1>3, <2>1, <2>2, <2>3
<1>6. to # "acq_wait" => (Waiters' # {} => Waiters # {})
  BY DEF Waiters, At, Goto, TypeInv, TypeOK
<1>7. NoLostWakeup => NoLostWakeup' \/ Fails("acq_dequeue")
  <2> SUFFICES ASSUME NoLostWakeup, ~Fails("acq_dequeue"), Waiters' # {}
               PROVE  Len(freeQueue') <= Cardinality(Signallers)' + Cardinality(Takers)'
    BY DEF NoLostWakeup, Waiters, Signallers, Takers
  <2>1. CASE freeQueue' = <<>>
    BY <1>1, <1>4, <2>1
  <2>2. CASE freeQueue' # <<>>
    <3>1. Len(freeQueue) <= Cardinality(Signallers) + Cardinality(Takers)
      BY <1>6, <2>2 DEF NoLostWakeup, Waiters, Signallers, Takers
    <3>2. Len(freeQueue') <= Len(freeQueue) + Change(t, to, {"rel_unlock", "signal"})
                             + Change(t, to, {"acq_lock", "acq_check", "acq_dequeue"})
      BY <2>2
    <3>3. /\ Change(t, to, {"rel_unlock", "signal"}) \in Int
          /\ Change(t, to, {"acq_lock", "acq_check", "acq_dequeue"}) \in Int
      BY DEF Change
    <3> QED BY <1>1, <1>2, <1>3, <3>1, <3>2, <3>3
  <2> QED BY <2>1, <2>2
<1> QED BY <1>2, <1>5, <1>7 DEF WaitStep

(* A call that goes from one place to another of which none is counted.    *)
CountedPcs == {"acquire", "acq_wait", "rel_unlock", "signal",
               "acq_lock", "acq_check", "acq_dequeue"}

LEMMA QueueLengths ==
    TypeInv => /\ freeQueue \in Seq(Buffers) /\ dirtyQueue \in Seq(Buffers)
               /\ Len(freeQueue) \in Nat /\ Len(dirtyQueue) \in Nat
               /\ freeQueue # <<>> => Len(Tail(freeQueue)) = Len(freeQueue) - 1
               /\ dirtyQueue # <<>> => Len(Tail(dirtyQueue)) = Len(dirtyQueue) - 1
<1>1. TypeInv => freeQueue \in Seq(Buffers) /\ dirtyQueue \in Seq(Buffers)
  BY DEF TypeInv, TypeOK
<1> QED BY <1>1

LEMMA QuietWaits ==
    ASSUME TypeInv, TypeInv', BusyFinite, NEW t \in Threads, NEW to, Goto(t, to),
           pc[t] \notin CountedPcs, to \notin CountedPcs, UNCHANGED dirtyQueue,
           Len(freeQueue') <= Len(freeQueue)
    PROVE  WaitStep
<1>1. /\ Change(t, to, {"acquire"}) = 0 /\ Change(t, to, {"rel_unlock", "signal"}) = 0
      /\ Change(t, to, {"acq_lock", "acq_check", "acq_dequeue"}) = 0
      /\ to # "acq_wait"
  BY DEF CountedPcs, Change
<1>2. /\ Len(dirtyQueue') = Len(dirtyQueue) + 0
      /\ Len(freeQueue') <= Len(freeQueue) + 0 + 0
  BY QueueLengths
<1> QED BY <1>1, <1>2, CallWaits

LEMMA SignalWaits ==
    ASSUME TypeInv, BusyFinite, NEW t \in Threads, PresentSignal(t)
    PROVE  WaitStep
<1>0. /\ pc \in [Threads -> Pcs] /\ pc[t] = "signal"
      /\ UNCHANGED <<freeQueue, dirtyQueue>>
  BY DEF TypeInv, TypeOK, PresentSignal, queueVars
<1>1. Counts
  BY CountNat
<1>2. CASE \E w \in Waiters : pc' = [pc EXCEPT ![t] = "front_lock", ![w] = "acq_lock"]
  <2>1. PICK w \in Waiters : pc' = [pc EXCEPT ![t] = "front_lock", ![w] = "acq_lock"]
    BY <1>2
  <2>2. /\ w \in Threads /\ w # t /\ pc[w] = "acq_wait"
        /\ pc'[t] = "front_lock" /\ pc'[w] = "acq_lock"
        /\ \A u \in Threads \ {t, w} : pc'[u] = pc[u]
    BY <1>0, <2>1 DEF Waiters, At
  <2>3. /\ Consumers' = Consumers /\ Signallers' = Signallers \ {t} /\ t \in Signallers
        /\ Takers' = Takers \cup {w} /\ w \notin Takers /\ Waiters # {}
    BY <1>0, <2>2 DEF Consumers, Signallers, Takers, Waiters, At
  <2>4. {u \in Threads : pc[u] # "idle"}' = {u \in Threads : pc[u] # "idle"}
    BY <1>0, <2>2
  <2>5. IsFiniteSet(Signallers) /\ IsFiniteSet(Takers)
    <3>1. Signallers \cup Takers \subseteq {u \in Threads : pc[u] # "idle"}
      BY DEF Signallers, Takers, At
    <3> QED BY <3>1, FS_Subset DEF BusyFinite
  <2>6. /\ Cardinality(Signallers') = Cardinality(Signallers) - 1
        /\ Cardinality(Takers') = Cardinality(Takers) + 1
    BY <2>3, <2>5, FS_AddElement, FS_RemoveElement
  <2>7. BusyFinite' /\ (FrameQueued => FrameQueued')
    BY <1>0, <2>3, <2>4 DEF BusyFinite, FrameQueued, Consumers
  <2>8. NoLostWakeup => NoLostWakeup'
    <3> SUFFICES ASSUME Len(freeQueue) <= Cardinality(Signallers) + Cardinality(Takers)
                 PROVE  Len(freeQueue) <= Cardinality(Signallers') + Cardinality(Takers')
      BY <1>0, <2>3 DEF NoLostWakeup, Waiters, Signallers, Takers
    <3> QED BY <1>1, <2>6, QueueLengths DEF Counts
  <2> QED BY <2>7, <2>8 DEF WaitStep
<1>3. CASE Waiters = {} /\ Goto(t, "front_lock")
  <2>1. BusyFinite' /\ (FrameQueued => FrameQueued')
    <3>1. Consumers' = Consumers
      BY <1>0, <1>3 DEF Consumers, At, Goto
    <3> QED BY <1>0, <1>3, <3>1, CountGoto DEF FrameQueued, Consumers
  <2>2. Waiters' = {}
    BY <1>0, <1>3 DEF Waiters, At, Goto
  <2> QED BY <2>1, <2>2 DEF WaitStep, NoLostWakeup, Waiters
<1> QED BY <1>2, <1>3 DEF PresentSignal, Waiters

LEMMA WaitNext == TypeInv /\ TypeInv' /\ BusyFinite /\ [Next]_vars => WaitStep
<1> SUFFICES ASSUME TypeInv, TypeInv', BusyFinite, [Next]_vars PROVE WaitStep
    OBVIOUS
<1> USE DEF Move, Step, LockFree, UnlockFree, LockFront
<1> USE DEF queueVars, notQueues, notLocks
<1>0. /\ Len(freeQueue) \in Nat /\ Len(dirtyQueue) \in Nat
      /\ freeQueue # <<>> => Len(Tail(freeQueue)) = Len(freeQueue) - 1
      /\ dirtyQueue # <<>> => Len(Tail(dirtyQueue)) = Len(dirtyQueue) - 1
  BY QueueLengths
<1>q. ASSUME NEW t \in Threads, NEW to \in Pcs \ CountedPcs, Goto(t, to),
             pc[t] \notin CountedPcs, UNCHANGED <<freeQueue, dirtyQueue>>
      PROVE  WaitStep
  BY <1>0, <1>q, QuietWaits
<1>s. ASSUME UNCHANGED <<pc, freeQueue, dirtyQueue>> PROVE WaitStep
  <2>1. UNCHANGED <<Consumers, Signallers, Takers, Waiters>>
    BY <1>s DEF Consumers, Signallers, Takers, Waiters, At
  <2> QED BY <1>s, <2>1 DEF WaitStep, BusyFinite, FrameQueued, NoLostWakeup, Consumers,
                            Signallers, Takers, Waiters
<1>1. CASE UNCHANGED vars \/ Vblank
  BY <1>1, <1>s DEF vars, Vblank
<1>2. ASSUME NEW t \in Threads, AcquireCall(t) \/ SpuriousWake(t) \/ AcquireTimeout(t) \/ DispatchCall(t)
      PROVE  WaitStep
  <2>1. CASE AcquireCall(t) \/ SpuriousWake(t)
    <3>1. /\ Goto(t, "acq_lock") /\ UNCHANGED <<freeQueue, dirtyQueue>>
          /\ pc[t] \in {"idle", "acq_wait"}
      BY <2>1 DEF AcquireCall, SpuriousWake
    <3>2. /\ Change(t, "acq_lock", {"rel_unlock", "signal"}) = 0
          /\ Change(t, "acq_lock", {"acq_lock", "acq_check", "acq_dequeue"}) = 1
      BY <3>1 DEF Change
    <3> QED BY <1>0, <3>1, <3>2, CallWaits
  <2>2. CASE AcquireTimeout(t)
    <3>1. /\ Goto(t, "acq_expired") /\ UNCHANGED <<freeQueue, dirtyQueue>>
          /\ pc[t] = "acq_wait"
      BY <2>2 DEF AcquireTimeout
    <3>2. /\ Change(t, "acq_expired", {"rel_unlock", "signal"}) = 0
          /\ Change(t, "acq_expired", {"acq_lock", "acq_check", "acq_dequeue"}) = 0
      BY <3>1 DEF Change
    <3> QED BY <1>0, <3>1, <3>2, CallWaits
  <2>3. CASE DispatchCall(t)
    BY <2>3, <1>q DEF DispatchCall, CountedPcs, Pcs, PresentPcs, EventPcs
  <2> QED BY <1>2, <2>1, <2>2, <2>3
<1>3. ASSUME NEW t \in Threads, AcquireStep(t) PROVE WaitStep
  <2> USE DEF AcquirePcs
  <2>1. CASE AcquireLock(t) \/ (AcquireCheck(t) /\ freeQueue # <<>>)
    <3>1. \E to \in {"acq_check", "acq_dequeue"} :
             /\ Goto(t, to) /\ UNCHANGED <<freeQueue, dirtyQueue>>
             /\ pc[t] \in {"acq_lock", "acq_check"}
      BY <2>1 DEF AcquireLock, AcquireCheck
    <3>2. PICK to \in {"acq_check", "acq_dequeue"} :
             /\ Goto(t, to) /\ UNCHANGED <<freeQueue, dirtyQueue>>
             /\ pc[t] \in {"acq_lock", "acq_check"}
      BY <3>1
    <3>3. /\ Change(t, to, {"rel_unlock", "signal"}) = 0
          /\ Change(t, to, {"acq_lock", "acq_check", "acq_dequeue"}) = 0
      BY <3>2 DEF Change
    <3> QED BY <1>0, <3>2, <3>3, CallWaits
  <2>2. CASE AcquireCheck(t) /\ freeQueue = <<>>
    <3>1. Goto(t, "acq_wait") /\ UNCHANGED <<freeQueue, dirtyQueue>> /\ freeQueue' = <<>>
      BY <2>2 DEF AcquireCheck
    <3> QED BY <3>1, CallWaits
  <2>3. CASE AcquireExpired(t)
    BY <2>3, <1>q DEF AcquireExpired, CountedPcs, Pcs
  <2>4. CASE AcquireDequeue(t)
    <3>1. CASE Goto(t, "acq_unlock") /\ freeQueue # <<>> /\ freeQueue' = Tail(freeQueue)
      <4>1. UNCHANGED dirtyQueue /\ pc[t] = "acq_dequeue"
        BY <2>4 DEF AcquireDequeue
      <4>2. /\ Change(t, "acq_unlock", {"rel_unlock", "signal"}) = 0
            /\ Change(t, "acq_unlock", {"acq_lock", "acq_check", "acq_dequeue"}) = -1
        BY <4>1 DEF Change
      <4> QED BY <1>0, <3>1, <4>1, <4>2, CallWaits
    <3>2. CASE /\ Goto(t, "idle") /\ UNCHANGED freeQueue
               /\ freeQueue = <<>> \/ Fails("acq_dequeue")
      <4>1. UNCHANGED dirtyQueue
        BY <2>4 DEF AcquireDequeue
      <4> QED BY <3>2, <4>1, CallWaits
    <3> QED BY <2>4, <3>1, <3>2 DEF AcquireDequeue
  <2>5. CASE AcquireUnlock(t)
    BY <2>5, <1>q DEF AcquireUnlock, CountedPcs, Pcs
  <2>6. CASE AcquireReturn(t)
    BY <2>6, <1>q DEF AcquireReturn, Return, CountedPcs, Pcs
  <2> QED BY <1>3, <2>1, <2>2, <2>3, <2>4, <2>5, <2>6 DEF AcquireStep
<1>4. ASSUME NEW t \in Threads, NEW b \in Buffers, PresentCall(t, b) PROVE WaitStep
  BY <1>4, <1>q DEF PresentCall, CountedPcs, Pcs, PresentPcs
<1>5. ASSUME NEW t \in Threads, PresentStep(t) PROVE WaitStep
  <2> USE DEF PresentPcs
  <2>1. CASE PresentFenceWait(t)
    BY <2>1, <1>q DEF PresentFenceWait, CountedPcs, Pcs
  <2>2. CASE PresentEnqueue(t)
    <3>1. /\ Goto(t, "acquire") /\ pc[t] = "enqueue" /\ UNCHANGED freeQueue
          /\ dirtyQueue' = Append(dirtyQueue, surface[t])
      BY <2>2 DEF PresentEnqueue
    <3>2. surface[t] \in Buffers
      BY <3>1 DEF TypeInv, Carrying, CarryingPcs, EventPcs
    <3>3. Len(dirtyQueue') = Len(dirtyQueue) + 1
      BY <3>1, <3>2, QueueLengths
    <3>4. /\ Change(t, "acquire", {"acquire"}) = 1
          /\ Change(t, "acquire", {"rel_unlock", "signal"}) = 0
          /\ Change(t, "acquire", {"acq_lock", "acq_check", "acq_dequeue"}) = 0
      BY <3>1 DEF Change
    <3> QED BY <1>0, <3>1, <3>3, <3>4, CallWaits
  <2>3. CASE PresentAcquire(t)
    <3>1. UNCHANGED freeQueue /\ pc[t] = "acquire"
      BY <2>3 DEF PresentAcquire
    <3>2. PICK to \in {"set_buffer", "idle"} :
             /\ Goto(t, to)
             /\ \/ dirtyQueue # <<>> /\ dirtyQueue' = Tail(dirtyQueue)
                \/ UNCHANGED dirtyQueue
      BY <2>3 DEF PresentAcquire, Return
    <3>3. /\ Change(t, to, {"acquire"}) = -1
          /\ Change(t, to, {"rel_unlock", "signal"}) = 0
          /\ Change(t, to, {"acq_lock", "acq_check", "acq_dequeue"}) = 0
      BY <3>1, <3>2 DEF Change
    <3> QED BY <1>0, <3>1, <3>2, <3>3, CallWaits
  <2>4. CASE PresentSetBuffer(t)
    BY <2>4, <1>q DEF PresentSetBuffer, CountedPcs, Pcs
  <2>5. CASE PresentCommit(t)
    BY <2>5, <1>q DEF PresentCommit, CountedPcs, Pcs, EventPcs
  <2>6. CASE PresentReleaseLock(t)
    BY <2>6, <1>q DEF PresentReleaseLock, CountedPcs, Pcs
  <2>7. CASE PresentRelease(t)
    <3>1. UNCHANGED dirtyQueue /\ pc[t] = "release"
      BY <2>7 DEF PresentRelease
    <3>2. CASE Goto(t, "rel_unlock") /\ freeQueue' = Append(freeQueue, surface[t])
      <4>1. surface[t] \in Buffers
        BY <3>1 DEF TypeInv, Carrying, CarryingPcs, EventPcs
      <4>2. Len(freeQueue') = Len(freeQueue) + 1
        BY <3>2, <4>1, QueueLengths
      <4>3. /\ Change(t, "rel_unlock", {"rel_unlock", "signal"}) = 1
            /\ Change(t, "rel_unlock", {"acq_lock", "acq_check", "acq_dequeue"}) = 0
        BY <3>1 DEF Change
      <4> QED BY <1>0, <3>1, <3>2, <4>2, <4>3, CallWaits
    <3>3. CASE Return(t) /\ UNCHANGED freeQueue
      BY <3>1, <3>3, <1>q DEF Return, CountedPcs, Pcs
    <3> QED BY <2>7, <3>2, <3>3 DEF PresentRelease
  <2>8. CASE PresentReleaseUnlock(t)
    <3>1. Goto(t, "signal") /\ UNCHANGED <<freeQueue, dirtyQueue>> /\ pc[t] = "rel_unlock"
      BY <2>8 DEF PresentReleaseUnlock
    <3>2. /\ Change(t, "signal", {"rel_unlock", "signal"}) = 0
          /\ Change(t, "signal", {"acq_lock", "acq_check", "acq_dequeue"}) = 0
      BY <3>1 DEF Change
    <3> QED BY <1>0, <3>1, <3>2, CallWaits
  <2>9. CASE PresentSignal(t)
    BY <2>9, SignalWaits
  <2>10. CASE PresentFrontLock(t)
    BY <2>10, <1>q DEF PresentFrontLock, CountedPcs, Pcs
  <2>11. CASE PresentFrontIncrease(t)
    BY <2>11, <1>q DEF PresentFrontIncrease, CountedPcs, Pcs
  <2>12. CASE PresentFrontSet(t)
    BY <2>12, <1>q DEF PresentFrontSet, Return, CountedPcs, Pcs
  <2> QED BY <1>5, <2>1, <2>2, <2>3, <2>4, <2>5, <2>6, <2>7, <2>8, <2>9, <2>10,
             <2>11, <2>12 DEF PresentStep
<1>6. ASSUME NEW t \in Threads, PresentError(t) PROVE WaitStep
  BY <1>6, <1>q DEF PresentError, Return, CountedPcs, Pcs
<1>7. ASSUME NEW t \in Threads, HandleEvents(t) \/ CallbackStep(t) PROVE WaitStep
  <2>1. /\ UNCHANGED <<freeQueue, dirtyQueue>> /\ pc[t] \in EventPcs
        /\ \E to \in EventPcs \cup {"rel_lock", "idle"} : Goto(t, to)
    BY <1>7 DEF HandleEvents, CallbackStep, CallbackLock, CallbackIncrease, CallbackClear, EventPcs
  <2>2. /\ EventPcs \cup {"rel_lock", "idle"} \subseteq Pcs \ CountedPcs
        /\ EventPcs \cap CountedPcs = {}
    BY DEF EventPcs, CountedPcs, Pcs, PresentPcs
  <2> QED BY <2>1, <2>2, <1>q
<1> QED BY <1>1, <1>2, <1>3, <1>4, <1>5, <1>6, <1>7 DEF Next

LEMMA WaitInit == Init => BusyFinite /\ FrameQueued /\ NoLostWakeup
<1> SUFFICES ASSUME Init PROVE BusyFinite /\ FrameQueued /\ NoLostWakeup
    OBVIOUS
<1>1. \A t \in Threads : pc[t] = "idle"
  BY DEF Init
<1>2. {t \in Threads : pc[t] # "idle"} = {} /\ At({"acquire"}) = {} /\ At({"acq_wait"}) = {}
  BY <1>1 DEF At
<1>3. Cardinality(At({"acquire"})) = 0
  BY <1>2, FS_EmptySet
<1>4. Len(dirtyQueue) = 0
  BY DEF Init
<1>5. FrameQueued
  BY <1>3, <1>4 DEF FrameQueued
<1>6. BusyFinite
  BY <1>2, FS_EmptySet DEF BusyFinite
<1>7. NoLostWakeup
  BY <1>2 DEF NoLostWakeup
<1> QED BY <1>5, <1>6, <1>7

(* tbm_surface_queue_acquire of a present has a frame to take, whatever    *)
(* the number of presents between the enqueue and the acquire and          *)
(* whichever call fails: a present takes one frame at most.                *)
THEOREM FrameQueuedCorrect == Spec => []FrameQueued
<1> DEFINE IInv == TypeInv /\ BusyFinite /\ FrameQueued
<1>1. Init => IInv
  BY TypeInit, WaitInit
<1>2. IInv /\ [Next]_vars => IInv'
  BY TypeNext, WaitNext DEF WaitStep
<1> QED BY <1>1, <1>2, PTL DEF Spec

(* No acquirer sleeps beside a free surface nobody is about to hand to it, *)
(* as long as tbm_surface_queue_dequeue does not fail: a call that fails   *)
(* there leaves the surface it was woken for and wakes nobody in its place.*)
THEOREM NoLostWakeupCorrect ==
    ASSUME ~Fails("acq_dequeue")
    PROVE  Spec => []NoLostWakeup
<1> DEFINE IInv == TypeInv /\ BusyFinite /\ NoLostWakeup
<1>1. Init => IInv
  BY TypeInit, WaitInit
<1>2. IInv /\ [Next]_vars => IInv'
  BY TypeNext, WaitNext DEF WaitStep
<1> QED BY <1>1, <1>2, PTL DEF Spec
-----------------------------------------------------------------------------
(* The surface an acquirer has seen under the mutex is still there when it *)
(* takes it.                                                               *)
DequeueFinds == \A t \in Threads : pc[t] = "acq_dequeue" => freeQueue # <<>>

ReturnInv == LocksReturned /\ DequeueFinds

(* A step of thread t away from a place under a mutex gives the mutex back. *)
LEMMA ReturnNext ==
    ASSUME ~Fails("acq_dequeue"), ~Fails("release")
    PROVE  TypeInv /\ LocksHeld /\ ReturnInv /\ [Next]_vars => ReturnInv'
<1> SUFFICES ASSUME TypeInv, LocksHeld, ReturnInv, [Next]_vars PROVE ReturnInv'
    OBVIOUS
<1>0. /\ pc \in [Threads -> Pcs] /\ NoThread \notin Threads
      /\ freeMutex \in Threads \cup {NoThread} /\ frontMutex \in Threads \cup {NoThread}
  BY ThreadAssumption DEF TypeInv, TypeOK
<1> USE <1>0 DEF ReturnInv, LocksReturned, DequeueFinds, FreePcs, FrontPcs
<1> USE DEF Move, Step, Goto, Return, LockFree, UnlockFree, LockFront
<1> USE DEF queueVars, lockVars, syncVars, frontVars, tdmVars, notLocks, notQueues
<1>1. CASE UNCHANGED vars \/ Vblank
  BY <1>1 DEF vars, Vblank
<1>2. ASSUME NEW t \in Threads, AcquireCall(t) \/ SpuriousWake(t) \/ AcquireTimeout(t) \/ DispatchCall(t)
      PROVE  ReturnInv'
  BY <1>2 DEF AcquireCall, SpuriousWake, AcquireTimeout, DispatchCall
<1>3. ASSUME NEW t \in Threads, AcquireStep(t) PROVE ReturnInv'
  <2>1. CASE AcquireLock(t) \/ AcquireCheck(t) \/ AcquireExpired(t) \/ AcquireUnlock(t)
    BY <2>1 DEF AcquireLock, AcquireCheck, AcquireExpired, AcquireUnlock, LocksHeld
  <2>2. CASE AcquireDequeue(t)
    <3>1. Goto(t, "acq_unlock") /\ pc[t] = "acq_dequeue" /\ UNCHANGED <<freeMutex, frontMutex>>
      BY <2>2 DEF AcquireDequeue
    <3> QED BY <3>1 DEF LocksHeld
  <2>3. CASE AcquireReturn(t)
    BY <2>3 DEF AcquireReturn
  <2> QED BY <1>3, <2>1, <2>2, <2>3 DEF AcquireStep
<1>4. ASSUME NEW t \in Threads, NEW b \in Buffers, PresentCall(t, b) PROVE ReturnInv'
  BY <1>4 DEF PresentCall
<1>5. ASSUME NEW t \in Threads, PresentStep(t) PROVE ReturnInv'
  <2>1. CASE PresentFenceWait(t) \/ PresentEnqueue(t) \/ PresentAcquire(t) \/ PresentSetBuffer(t)
             \/ PresentCommit(t)
    BY <2>1 DEF PresentFenceWait, PresentEnqueue, PresentAcquire, PresentSetBuffer, PresentCommit
  <2>2. CASE PresentReleaseLock(t) \/ PresentReleaseUnlock(t)
    BY <2>2 DEF PresentReleaseLock, PresentReleaseUnlock, LocksHeld
  <2>3. CASE PresentRelease(t)
    <3>1. Goto(t, "rel_unlock") /\ pc[t] = "release" /\ UNCHANGED <<freeMutex, frontMutex>>
      BY <2>3 DEF PresentRelease
    <3> QED BY <3>1 DEF LocksHeld
  <2>4. CASE PresentSignal(t)
    BY <2>4 DEF PresentSignal, At
  <2>5. CASE PresentFrontLock(t) \/ PresentFrontIncrease(t) \/ PresentFrontSet(t)
    BY <2>5 DEF PresentFrontLock, PresentFrontIncrease, PresentFrontSet, LocksHeld
  <2> QED BY <1>5, <2>1, <2>2, <2>3, <2>4, <2>5 DEF PresentStep
<1>6. ASSUME NEW t \in Threads, PresentError(t) \/ HandleEvents(t) PROVE ReturnInv'
  BY <1>6 DEF PresentError, HandleEvents
<1>7. ASSUME NEW t \in Threads, CallbackStep(t) PROVE ReturnInv'
  BY <1>7 DEF CallbackStep, CallbackLock, CallbackIncrease, CallbackClear, LocksHeld
<1> QED BY <1>1, <1>2, <1>3, <1>4, <1>5, <1>6, <1>7 DEF Next

(* Neither mutex is kept by a call that has left: a held mutex has a       *)
(* holder on its way to unlock it, through the condition wait and the      *)
(* timeout as well.  The two error returns that keep free_queue_mutex are  *)
(* the only ones: no other failing call is excluded.                       *)
THEOREM LocksReturnedCorrect ==
    ASSUME ~Fails("acq_dequeue"), ~Fails("release")
    PROVE  Spec => []LocksReturned
<1> DEFINE IInv == TypeInv /\ LocksHeld /\ ReturnInv
<1>1. Init => IInv
  <2>1. Init => LocksHeld /\ ReturnInv
    BY DEF Init, LocksHeld, ReturnInv, LocksReturned, DequeueFinds, FreePcs, FrontPcs
  <2> QED BY <2>1, TypeInit
<1>2. IInv /\ [Next]_vars => IInv'
  BY TypeNext, LocksNext, ReturnNext
<1>3. IInv => LocksReturned
  BY DEF ReturnInv
<1> QED BY <1>1, <1>2, <1>3, PTL DEF Spec
-----------------------------------------------------------------------------
(* The calls that have released surface b and have yet to make it the      *)
(* front buffer, and the presentations of b they bring the count to.       *)
FencePcs == {"rel_unlock", "signal", "front_lock", "front_inc", "front_set"}
Retirees(b) == {t \in Threads : surface[t] = b /\ pc[t] \in FencePcs}
Promised(b) == shown[b] + Cardinality(Retirees(b))

(* Surface b is free or being acquired: its next fence is one point later. *)
Due(b) == b \in Range(freeQueue) \/ \E t \in At({"acq_unlock", "acq_fence"}) : surface[t] = b

(* The timestamp and the fence of a surface are not ahead of its           *)
(* presentations, and while it is due neither is the next fence.           *)
FenceOf(b) ==
    /\ key[b] = "absent" => timestamp[b] = 0 /\ fence[b] = 0
    /\ timestamp[b] <= Promised(b) /\ fence[b] <= Promised(b)
    /\ key[b] # "absent" /\ Due(b) => timestamp[b] + 1 <= Promised(b)
FenceInv == \A b \in Buffers : FenceOf(b)
-----------------------------------------------------------------------------
LEMMA RetireesFinite ==
    /\ BusyFinite => \A b : IsFiniteSet(Retirees(b)) /\ Cardinality(Retirees(b)) \in Nat
    /\ BusyFinite' => \A b : IsFiniteSet(Retirees(b)') /\ Cardinality(Retirees(b)') \in Nat
<1>1. ASSUME BusyFinite, NEW b
      PROVE  IsFiniteSet(Retirees(b)) /\ Cardinality(Retirees(b)) \in Nat
  <2>1. Retirees(b) \subseteq {t \in Threads : pc[t] # "idle"}
    BY DEF Retirees, FencePcs
  <2> QED BY <1>1, <2>1, FS_Subset, FS_CardinalityType DEF BusyFinite
<1>2. ASSUME BusyFinite', NEW b
      PROVE  IsFiniteSet(Retirees(b)') /\ Cardinality(Retirees(b)') \in Nat
  <2>1. Retirees(b)' \subseteq {t \in Threads : pc'[t] # "idle"}
    BY DEF Retirees, FencePcs
  <2> QED BY <1>2, <2>1, FS_Subset, FS_CardinalityType DEF BusyFinite
<1> QED BY <1>1, <1>2

(* What a step does to the counts: only the release of a surface makes it   *)
(* due, and adds one presentation.  DueKept: no surface is acquired.        *)
FenceFrame ==
    \A b \in Buffers :
        \/ Promised(b)' = Promised(b) /\ (Due(b)' => Due(b))
        \/ ~Due(b) /\ Due(b)' /\ Promised(b)' = Promised(b) + 1
DueKept == \A b \in Buffers : Due(b) => Due(b)'
Framed == FenceFrame /\ DueKept /\ UNCHANGED <<key, timestamp, fence>>

LEMMA PromisedNat ==
    /\ TypeInv /\ BusyFinite => \A b \in Buffers : Promised(b) \in Nat
    /\ TypeInv' /\ BusyFinite' => \A b \in Buffers : Promised(b)' \in Nat
<1>1. ASSUME TypeInv, BusyFinite, NEW b \in Buffers PROVE Promised(b) \in Nat
  <2>1. shown[b] \in Nat
    BY <1>1 DEF TypeInv, TypeOK
  <2> QED BY <1>1, <2>1, RetireesFinite DEF Promised
<1>2. ASSUME TypeInv', BusyFinite', NEW b \in Buffers PROVE Promised(b)' \in Nat
  <2>1. shown'[b] \in Nat
    BY <1>2 DEF TypeInv, TypeOK
  <2> QED BY <1>2, <2>1, RetireesFinite DEF Promised
<1> QED BY <1>1, <1>2

LEMMA FenceKept ==
    ASSUME TypeInv, BusyFinite, TypeInv', BusyFinite', FenceInv, FenceFrame,
           UNCHANGED <<key, timestamp, fence>>
    PROVE  FenceInv'
<1> SUFFICES ASSUME NEW b \in Buffers PROVE FenceOf(b)'
    BY DEF FenceInv
<1>1. /\ Promised(b) \in Nat /\ Promised(b)' \in Nat
      /\ timestamp[b] \in Nat /\ fence[b] \in Nat
  BY PromisedNat DEF TypeInv, TypeOK
<1>2. /\ \/ Promised(b)' = Promised(b) /\ (Due(b)' => Due(b))
         \/ ~Due(b) /\ Due(b)' /\ Promised(b)' = Promised(b) + 1
      /\ FenceOf(b)
  BY DEF FenceFrame, FenceInv
<1> QED BY <1>1, <1>2 DEF FenceOf

(* The calls that bring presentations change by call t alone. *)
LEMMA RetireesOf ==
    ASSUME TypeInv, NEW t \in Threads, NEW to, Goto(t, to),
           \/ UNCHANGED surface
           \/ \E s : surface' = [surface EXCEPT ![t] = s]
    PROVE  \A b : Retirees(b)' = (Retirees(b) \ {t}) \cup
                                 IF to \in FencePcs /\ surface'[t] = b THEN {t} ELSE {}
<1>1. /\ pc'[t] = to /\ \A u \in Threads \ {t} : pc'[u] = pc[u]
      /\ \A u \in Threads \ {t} : surface'[u] = surface[u]
  BY DEF TypeInv, TypeOK, Goto
<1> QED BY <1>1 DEF Retirees

(* Only call t can become one that acquires a surface, or cease to be one. *)
LEMMA DueOf ==
    ASSUME TypeInv, NEW t \in Threads, NEW to, Goto(t, to),
           \/ UNCHANGED surface
           \/ \E s : surface' = [surface EXCEPT ![t] = s],
           UNCHANGED freeQueue,
           to \notin {"acq_unlock", "acq_fence"}
             \/ (pc[t] = "acq_unlock" /\ UNCHANGED surface)
    PROVE  /\ \A b : Due(b)' => Due(b)
           /\ pc[t] # "acq_fence" /\ (pc[t] = "acq_unlock" => to = "acq_fence" /\ UNCHANGED surface)
                  => \A b : Due(b) => Due(b)'
<1>1. /\ pc'[t] = to /\ \A u \in Threads \ {t} : pc'[u] = pc[u]
      /\ \A u \in Threads \ {t} : surface'[u] = surface[u]
  BY DEF TypeInv, TypeOK, Goto
<1> QED BY <1>1 DEF Due, At

(* A step before the release or among the calls past it. *)
LEMMA QuietFences ==
    ASSUME TypeInv, BusyFinite, NEW t \in Threads, NEW to, Goto(t, to),
           \/ UNCHANGED surface
           \/ pc[t] \notin FencePcs /\ to \notin FencePcs
              /\ \E s : surface' = [surface EXCEPT ![t] = s],
           pc[t] \in FencePcs <=> to \in FencePcs,
           UNCHANGED <<freeQueue, shown>>,
           to \notin {"acq_unlock", "acq_fence"}
             \/ (pc[t] = "acq_unlock" /\ UNCHANGED surface)
    PROVE  /\ FenceFrame /\ \A b \in Buffers : Promised(b)' = Promised(b)
           /\ pc[t] # "acq_fence" /\ (pc[t] = "acq_unlock" => to = "acq_fence" /\ UNCHANGED surface)
                  => DueKept
<1>1. \A b : Retirees(b)' = Retirees(b)
  <2>1. \A b : t \in Retirees(b) <=> pc[t] \in FencePcs /\ surface[t] = b
    BY DEF Retirees
  <2> QED BY <2>1, RetireesOf
<1>2. \A b \in Buffers : Promised(b)' = Promised(b) /\ Promised(b) \in Nat
  BY <1>1, PromisedNat DEF Promised
<1> QED BY <1>2, DueOf DEF FenceFrame, DueKept

LEMMA DequeueFences ==
    ASSUME TypeInv, OwnInv, BusyFinite, NEW t \in Threads, AcquireDequeue(t)
    PROVE  FenceFrame /\ DueKept
<1>0. pc[t] = "acq_dequeue" /\ UNCHANGED shown /\ freeQueue \in Seq(Buffers)
  BY DEF AcquireDequeue, Step, notQueues, notLocks, frontVars, TypeInv, TypeOK
<1>1. CASE Goto(t, "idle") /\ UNCHANGED <<surface, freeQueue>>
  BY <1>0, <1>1, QuietFences DEF FencePcs
<1>2. CASE /\ Goto(t, "acq_unlock") /\ freeQueue # <<>> /\ freeQueue' = Tail(freeQueue)
           /\ surface' = [surface EXCEPT ![t] = Head(freeQueue)]
  <2>1. \A b : Retirees(b)' = Retirees(b)
    <3>1. \A b : t \notin Retirees(b)
      BY <1>0 DEF Retirees, FencePcs
    <3>2. "acq_unlock" \notin FencePcs
      BY DEF FencePcs
    <3>3. \A b : Retirees(b)' = (Retirees(b) \ {t}) \cup
                                 IF "acq_unlock" \in FencePcs /\ surface'[t] = b THEN {t} ELSE {}
      BY <1>2, RetireesOf
    <3> QED BY <3>1, <3>2, <3>3
  <2>2. \A b \in Buffers : Promised(b)' = Promised(b) /\ Promised(b) \in Nat
    BY <1>0, <2>1, PromisedNat DEF Promised
  <2>3. /\ Head(freeQueue) \in Range(freeQueue)
        /\ Range(freeQueue)' = Range(freeQueue) \ {Head(freeQueue)}
    BY <1>0, <1>2, TakeHead DEF OwnInv
  <2>4. /\ surface'[t] = Head(freeQueue) /\ pc'[t] = "acq_unlock" /\ pc[t] = "acq_dequeue"
        /\ \A u \in Threads \ {t} : pc'[u] = pc[u] /\ surface'[u] = surface[u]
    BY <1>0, <1>2 DEF TypeInv, TypeOK, Goto
  <2>5. \A b : Due(b)' <=> Due(b)
    BY <2>3, <2>4 DEF Due, At
  <2> QED BY <2>2, <2>5 DEF FenceFrame, DueKept
<1> QED BY <1>1, <1>2 DEF AcquireDequeue, Step

LEMMA ReleaseFences ==
    ASSUME TypeInv, OwnInv, BusyFinite, NEW t \in Threads, PresentRelease(t)
    PROVE  FenceFrame /\ DueKept
<1>0. /\ pc[t] = "release" /\ surface[t] \in Buffers /\ UNCHANGED shown
      /\ freeQueue \in Seq(Buffers)
  BY DEF PresentRelease, Step, notQueues, notLocks, frontVars, TypeInv, TypeOK, Carrying,
         CarryingPcs, PresentPcs, EventPcs
<1>1. CASE Return(t) /\ UNCHANGED freeQueue
  BY <1>0, <1>1, QuietFences DEF FencePcs, Return
<1>2. CASE Goto(t, "rel_unlock") /\ freeQueue' = Append(freeQueue, surface[t]) /\ UNCHANGED surface
  <2>0. PICK c \in Buffers : c = surface[t]
    BY <1>0
  <2>1. /\ \A b : t \notin Retirees(b)
        /\ \A b : Retirees(b)' = Retirees(b) \cup IF c = b THEN {t} ELSE {}
    <3>1. \A b : t \notin Retirees(b)
      BY <1>0 DEF Retirees, FencePcs
    <3>2. \A b : Retirees(b)' = (Retirees(b) \ {t}) \cup
                                 IF "rel_unlock" \in FencePcs /\ surface'[t] = b THEN {t} ELSE {}
      BY <1>2, RetireesOf
    <3> QED BY <1>2, <2>0, <3>1, <3>2 DEF FencePcs
  <2>2. Cardinality(Retirees(c)') = Cardinality(Retirees(c)) + 1
    BY <2>1, RetireesFinite, FS_AddElement
  <2>3. \A b \in Buffers \ {c} : Promised(b)' = Promised(b)
    BY <1>0, <2>1 DEF Promised
  <2>4. Promised(c)' = Promised(c) + 1
    <3>1. shown[c] \in Nat
      BY <1>0 DEF TypeInv, TypeOK
    <3> QED BY <1>0, <2>2, <3>1, RetireesFinite DEF Promised
  <2>5. Range(freeQueue)' = Range(freeQueue) \cup {c}
    BY <1>0, <1>2, <2>0, AddElement
  <2>6. At({"acq_unlock", "acq_fence"})' = At({"acq_unlock", "acq_fence"})
    BY <1>0, <1>2 DEF TypeInv, TypeOK, Goto, At
  <2>7. \A b \in Buffers \ {c} : Due(b)' <=> Due(b)
    BY <1>2, <2>5, <2>6 DEF Due
  <2>8. ~Due(c)
    <3>1. t \in At(HoldingPcs)
      BY <1>0 DEF At, HoldingPcs
    <3>2. c \notin Range(freeQueue)
      BY <2>0, <3>1 DEF OwnInv, Partition, Hand, HandAt
    <3>3. ASSUME NEW u \in At({"acq_unlock", "acq_fence"}), surface[u] = c PROVE FALSE
      <4>1. u \in At(HoldingPcs) /\ u # t
        BY <1>0 DEF At, HoldingPcs
      <4> QED BY <2>0, <3>1, <3>3, <4>1 DEF OwnInv, OneHolder
    <3> QED BY <3>2, <3>3 DEF Due
  <2>9. Due(c)'
    BY <2>5 DEF Due
  <2> QED BY <1>0, <2>3, <2>4, <2>7, <2>8, <2>9 DEF FenceFrame, DueKept
<1> QED BY <1>1, <1>2 DEF PresentRelease, Step

LEMMA FrontSetFences ==
    ASSUME TypeInv, BusyFinite, NEW t \in Threads, PresentFrontSet(t)
    PROVE  FenceFrame /\ DueKept
<1>c. PICK c \in Buffers : c = surface[t]
  BY DEF PresentFrontSet, TypeInv, Carrying, CarryingPcs, PresentPcs, EventPcs
<1>0. /\ pc[t] = "front_set" /\ Return(t)
      /\ shown' = [shown EXCEPT ![c] = @ + 1]
      /\ UNCHANGED freeQueue /\ shown \in [Buffers -> Nat] /\ NoBuffer \notin Buffers
  BY <1>c, BufferAssumption DEF PresentFrontSet, TypeInv, TypeOK, queueVars
<1>1. /\ t \in Retirees(c) /\ \A b : b # c => t \notin Retirees(b)
      /\ \A b : Retirees(b)' = Retirees(b) \ {t}
  <2>1. t \in Retirees(c) /\ \A b : b # c => t \notin Retirees(b)
    BY <1>0, <1>c DEF Retirees, FencePcs
  <2>2. \A b : Retirees(b)' = (Retirees(b) \ {t}) \cup
                               IF "idle" \in FencePcs /\ surface'[t] = b THEN {t} ELSE {}
    BY <1>0, RetireesOf DEF Return
  <2> QED BY <2>1, <2>2 DEF FencePcs
<1>2. Cardinality(Retirees(c)') = Cardinality(Retirees(c)) - 1
  BY <1>1, RetireesFinite, FS_RemoveElement
<1>3. \A b \in Buffers \ {c} : Promised(b)' = Promised(b)
  BY <1>0, <1>1 DEF Promised
<1>4. Promised(c)' = Promised(c)
  BY <1>0, <1>2, RetireesFinite DEF Promised
<1>5. \A b : Due(b)' <=> Due(b)
  BY <1>0, DueOf DEF Return
<1> QED BY <1>0, <1>3, <1>4, <1>5 DEF FenceFrame, DueKept

LEMMA SignalFences ==
    ASSUME TypeInv, BusyFinite, NEW t \in Threads, PresentSignal(t)
    PROVE  FenceFrame /\ DueKept
<1>0. /\ pc \in [Threads -> Pcs] /\ pc[t] = "signal"
      /\ UNCHANGED <<surface, freeQueue, shown>>
  BY DEF TypeInv, TypeOK, PresentSignal, queueVars, notQueues, notLocks, frontVars
<1>1. /\ \A b : Retirees(b)' = Retirees(b)
      /\ At({"acq_unlock", "acq_fence"})' = At({"acq_unlock", "acq_fence"})
  <2>1. CASE \E w \in At({"acq_wait"}) : pc' = [pc EXCEPT ![t] = "front_lock", ![w] = "acq_lock"]
    BY <1>0, <2>1 DEF Retirees, FencePcs, At
  <2>2. CASE Goto(t, "front_lock")
    BY <1>0, <2>2 DEF Retirees, FencePcs, At, Goto
  <2> QED BY <2>1, <2>2 DEF PresentSignal
<1>2. \A b \in Buffers : Promised(b)' = Promised(b) /\ Promised(b) \in Nat
  BY <1>0, <1>1, PromisedNat DEF Promised
<1> QED BY <1>0, <1>1, <1>2 DEF FenceFrame, DueKept, Due

(* A surface that the application acquires is no longer due. *)
LEMMA ReturnFrame ==
    ASSUME TypeInv, BusyFinite, OwnInv', NEW t \in Threads, AcquireReturn(t),
           NEW c \in Buffers, c = surface[t]
    PROVE  /\ FenceFrame /\ Due(c) /\ ~Due(c)'
           /\ \A b \in Buffers : Promised(b)' = Promised(b) /\ Promised(b) \in Nat
           /\ \A b \in Buffers \ {c} : Due(b)' <=> Due(b)
<1>0. /\ pc[t] = "acq_fence" /\ Return(t) /\ app' = app \cup {c}
      /\ UNCHANGED <<freeQueue, shown>>
  BY DEF AcquireReturn, frontVars
<1>1. FenceFrame /\ \A b \in Buffers : Promised(b)' = Promised(b) /\ Promised(b) \in Nat
  BY <1>0, QuietFences, PromisedNat DEF Return, FencePcs
<1>2. Due(c)
  BY <1>0 DEF Due, At
<1>3. ~Due(c)'
  <2>1. c \notin Range(freeQueue)' /\ c \notin Hand'
    BY <1>0 DEF OwnInv, Partition
  <2>2. \A u \in At({"acq_unlock", "acq_fence"})' : surface'[u] # c
    BY <2>1 DEF Hand, HandAt, At, HoldingPcs
  <2> QED BY <2>1, <2>2 DEF Due
<1>4. \A b \in Buffers \ {c} : Due(b)' <=> Due(b)
  <2>1. /\ pc'[t] = "idle" /\ \A u \in Threads \ {t} : pc'[u] = pc[u]
        /\ \A u \in Threads \ {t} : surface'[u] = surface[u]
    BY <1>0 DEF TypeInv, TypeOK, Goto, Return
  <2> QED BY <1>0, <2>1 DEF Due, At
<1> QED BY <1>1, <1>2, <1>3, <1>4

(* The acquire that makes a fence: its point is promised, as the surface   *)
(* was due and no longer is.                                               *)
LEMMA ReturnFences ==
    ASSUME StampKept \/ LostStamps \subseteq {0},
           TypeInv, BusyFinite, TypeInv', BusyFinite', OwnInv', FenceInv,
           NEW t \in Threads, AcquireReturn(t)
    PROVE  FenceInv'
<1>c. PICK c \in Buffers : c = surface[t]
  BY DEF AcquireReturn, TypeInv, Carrying, CarryingPcs
<1>0. /\ pc[t] = "acq_fence" /\ Return(t) /\ app' = app \cup {c}
      /\ UNCHANGED <<freeQueue, shown>>
      /\ IF IcdAcquire THEN GetSyncFence(c) ELSE UNCHANGED <<key, timestamp, fence>>
  BY <1>c DEF AcquireReturn, frontVars
<1>1. /\ FenceFrame /\ Due(c) /\ ~Due(c)'
      /\ \A b \in Buffers : Promised(b)' = Promised(b) /\ Promised(b) \in Nat
      /\ \A b \in Buffers \ {c} : Due(b)' <=> Due(b)
  BY <1>c, ReturnFrame
<1>2. CASE ~IcdAcquire
  BY <1>0, <1>1, <1>2, FenceKept
<1>3. CASE IcdAcquire
  <2>0. /\ key \in [Buffers -> {"absent", "ok", "failed"}]
        /\ timestamp \in [Buffers -> Nat] /\ fence \in [Buffers -> Nat]
    BY DEF TypeInv, TypeOK
  <2>3. ASSUME NEW b \in Buffers \ {c} PROVE FenceOf(b)'
    <3>1. key'[b] = key[b] /\ timestamp'[b] = timestamp[b] /\ fence'[b] = fence[b]
      BY <1>0, <1>3, <2>0 DEF GetSyncFence
    <3>3. FenceOf(b) /\ timestamp[b] \in Nat /\ fence[b] \in Nat
      BY <2>0 DEF FenceInv
    <3> QED BY <1>1, <3>1, <3>3 DEF FenceOf
  <2>4. FenceOf(c)'
    <3>1. FenceOf(c) /\ timestamp[c] \in Nat /\ fence[c] \in Nat
      BY <1>0, <2>0 DEF FenceInv
    <3>2. CASE key[c] = "absent"
      <4>1. key'[c] # "absent" /\ timestamp'[c] = 0 /\ fence'[c] = 0
        BY <1>0, <1>3, <2>0, <3>1, <3>2 DEF GetSyncFence, FenceOf
      <4> QED BY <1>0, <1>1, <4>1 DEF FenceOf
    <3>3. CASE key[c] # "absent"
      <4>1. PICK old \in StampReads(c) :
              /\ timestamp' = IF StampKept THEN [timestamp EXCEPT ![c] = old + 1] ELSE timestamp
              /\ fence' = [fence EXCEPT ![c] = old + 1] \/ fence' = [fence EXCEPT ![c] = 0]
              /\ key' = key
        BY <1>0, <1>3, <3>3 DEF GetSyncFence
      <4>2. old \in Nat /\ old <= timestamp[c] /\ (StampKept => old = timestamp[c])
        BY <3>1 DEF StampReads
      <4>3. timestamp[c] + 1 <= Promised(c)
        BY <1>1, <3>1, <3>3 DEF FenceOf
      <4>4. /\ timestamp'[c] = timestamp[c] \/ timestamp'[c] = timestamp[c] + 1
            /\ fence'[c] = old + 1 \/ fence'[c] = 0
        BY <1>0, <2>0, <4>1, <4>2
      <4>5. timestamp'[c] <= Promised(c)' /\ fence'[c] <= Promised(c)'
        BY <1>0, <1>1, <3>1, <4>2, <4>3, <4>4
      <4> QED BY <1>1, <3>3, <4>1, <4>5 DEF FenceOf
    <3> QED BY <3>2, <3>3
  <2> QED BY <2>3, <2>4 DEF FenceInv
<1> QED BY <1>2, <1>3

(* Every step but the end of an acquire leaves the fences alone. *)
LEMMA FramedNext ==
    TypeInv /\ BusyFinite /\ OwnInv /\ [Next]_vars =>
        Framed \/ \E t \in Threads : AcquireReturn(t)
<1> SUFFICES ASSUME TypeInv, BusyFinite, OwnInv, [Next]_vars,
                    ~\E t \in Threads : AcquireReturn(t)
             PROVE  Framed
    OBVIOUS
<1> USE DEF Move, Step, LockFree, UnlockFree, LockFront
<1> USE DEF queueVars, frontVars, syncVars, notQueues, notLocks
<1>q. ASSUME NEW t \in Threads, NEW to \in Pcs \ (FencePcs \cup {"acq_unlock", "acq_fence"}),
             Goto(t, to), pc[t] \notin FencePcs \cup {"acq_unlock", "acq_fence"},
             UNCHANGED <<freeQueue, shown, key, timestamp, fence>>,
             \/ UNCHANGED surface
             \/ \E s : surface' = [surface EXCEPT ![t] = s]
      PROVE  Framed
  <2>1. FenceFrame /\ DueKept
    BY <1>q, QuietFences
  <2> QED BY <1>q, <2>1 DEF Framed
<1>f. ASSUME NEW t \in Threads, NEW to \in FencePcs, Goto(t, to), pc[t] \in FencePcs,
             UNCHANGED <<surface, freeQueue, shown, key, timestamp, fence>>
      PROVE  Framed
  <2>1. to \notin {"acq_unlock", "acq_fence"} /\ pc[t] \notin {"acq_unlock", "acq_fence"}
    BY <1>f DEF FencePcs
  <2>2. FenceFrame /\ DueKept
    BY <1>f, <2>1, QuietFences
  <2> QED BY <1>f, <2>2 DEF Framed
<1>1. CASE UNCHANGED vars \/ Vblank
  <2>1. UNCHANGED <<pc, surface, freeQueue, shown, key, timestamp, fence>>
    BY <1>1 DEF vars, Vblank
  <2>2. /\ \A b : Retirees(b)' = Retirees(b)
        /\ \A b : Due(b)' <=> Due(b)
    BY <2>1 DEF Retirees, Due, At
  <2>3. FenceFrame /\ DueKept
    <3>1. \A b \in Buffers : Promised(b)' = Promised(b) /\ Promised(b) \in Nat
      BY <2>1, <2>2, PromisedNat DEF Promised
    <3> QED BY <2>2, <3>1 DEF FenceFrame, DueKept
  <2> QED BY <2>1, <2>3 DEF Framed
<1>2. ASSUME NEW t \in Threads, AcquireCall(t) \/ SpuriousWake(t) \/ AcquireTimeout(t) \/ DispatchCall(t)
      PROVE  Framed
  <2>1. /\ UNCHANGED <<surface, freeQueue, shown, key, timestamp, fence>>
        /\ pc[t] \notin FencePcs \cup {"acq_unlock", "acq_fence"}
        /\ \E to \in Pcs \ (FencePcs \cup {"acq_unlock", "acq_fence"}) : Goto(t, to)
    BY <1>2 DEF AcquireCall, SpuriousWake, AcquireTimeout, DispatchCall, FencePcs, Pcs,
                AcquirePcs, PresentPcs, EventPcs
  <2> QED BY <2>1, <1>q
<1>3. ASSUME NEW t \in Threads, AcquireStep(t) PROVE Framed
  <2>1. CASE AcquireLock(t) \/ AcquireCheck(t) \/ AcquireExpired(t)
    <3>1. /\ UNCHANGED <<surface, freeQueue, shown, key, timestamp, fence>>
          /\ pc[t] \notin FencePcs \cup {"acq_unlock", "acq_fence"}
          /\ \E to \in Pcs \ (FencePcs \cup {"acq_unlock", "acq_fence"}) : Goto(t, to)
      BY <2>1 DEF AcquireLock, AcquireCheck, AcquireExpired, FencePcs, Pcs, AcquirePcs
    <3> QED BY <3>1, <1>q
  <2>2. CASE AcquireDequeue(t)
    <3>1. UNCHANGED <<key, timestamp, fence>>
      BY <2>2 DEF AcquireDequeue
    <3> QED BY <2>2, <3>1, DequeueFences DEF Framed
  <2>3. CASE AcquireUnlock(t)
    <3>1. /\ UNCHANGED <<surface, freeQueue, shown, key, timestamp, fence>>
          /\ pc[t] = "acq_unlock" /\ Goto(t, "acq_fence")
      BY <2>3 DEF AcquireUnlock
    <3>2. FenceFrame /\ DueKept
      BY <3>1, QuietFences DEF FencePcs
    <3> QED BY <3>1, <3>2 DEF Framed
  <2> QED BY <1>3, <2>1, <2>2, <2>3 DEF AcquireStep
<1>4. ASSUME NEW t \in Threads, NEW b \in Buffers, PresentCall(t, b) PROVE Framed
  <2>1. /\ UNCHANGED <<freeQueue, shown, key, timestamp, fence>>
        /\ pc[t] \notin FencePcs \cup {"acq_unlock", "acq_fence"} /\ Goto(t, "fence_wait")
        /\ "fence_wait" \in Pcs \ (FencePcs \cup {"acq_unlock", "acq_fence"})
        /\ surface' = [surface EXCEPT ![t] = b]
    BY <1>4 DEF PresentCall, FencePcs, Pcs, PresentPcs
  <2> QED BY <2>1, <1>q
<1>5. ASSUME NEW t \in Threads, PresentStep(t) PROVE Framed
  <2>1. CASE PresentFenceWait(t) \/ PresentEnqueue(t) \/ PresentSetBuffer(t) \/ PresentCommit(t)
             \/ PresentReleaseLock(t)
    <3>1. /\ UNCHANGED <<surface, freeQueue, shown, key, timestamp, fence>>
          /\ pc[t] \notin FencePcs \cup {"acq_unlock", "acq_fence"}
          /\ \E to \in Pcs \ (FencePcs \cup {"acq_unlock", "acq_fence"}) : Goto(t, to)
      BY <2>1 DEF PresentFenceWait, PresentEnqueue, PresentSetBuffer, PresentCommit,
                  PresentReleaseLock, FencePcs, Pcs, PresentPcs, EventPcs
    <3> QED BY <3>1, <1>q
  <2>2. CASE PresentAcquire(t)
    <3>1. /\ UNCHANGED <<freeQueue, shown, key, timestamp, fence>>
          /\ pc[t] \notin FencePcs \cup {"acq_unlock", "acq_fence"}
          /\ \E s : surface' = [surface EXCEPT ![t] = s]
          /\ \E to \in Pcs \ (FencePcs \cup {"acq_unlock", "acq_fence"}) : Goto(t, to)
      BY <2>2 DEF PresentAcquire, Return, FencePcs, Pcs, PresentPcs
    <3> QED BY <3>1, <1>q
  <2>3. CASE PresentRelease(t)
    <3>1. UNCHANGED <<key, timestamp, fence>>
      BY <2>3 DEF PresentRelease
    <3> QED BY <2>3, <3>1, ReleaseFences DEF Framed
  <2>4. CASE PresentReleaseUnlock(t) \/ PresentFrontLock(t) \/ PresentFrontIncrease(t)
    <3>1. /\ UNCHANGED <<surface, freeQueue, shown, key, timestamp, fence>>
          /\ pc[t] \in FencePcs
          /\ \E to \in FencePcs : Goto(t, to)
      BY <2>4 DEF PresentReleaseUnlock, PresentFrontLock, PresentFrontIncrease, FencePcs
    <3> QED BY <3>1, <1>f
  <2>5. CASE PresentSignal(t)
    <3>1. UNCHANGED <<key, timestamp, fence>>
      BY <2>5 DEF PresentSignal
    <3> QED BY <2>5, <3>1, SignalFences DEF Framed
  <2>6. CASE PresentFrontSet(t)
    <3>1. UNCHANGED <<key, timestamp, fence>>
      BY <2>6 DEF PresentFrontSet
    <3> QED BY <2>6, <3>1, FrontSetFences DEF Framed
  <2> QED BY <1>5, <2>1, <2>2, <2>3, <2>4, <2>5, <2>6 DEF PresentStep
<1>6. ASSUME NEW t \in Threads, PresentError(t) PROVE Framed
  <2>1. /\ UNCHANGED <<freeQueue, shown, key, timestamp, fence>>
        /\ pc[t] \notin FencePcs \cup {"acq_unlock", "acq_fence"} /\ Goto(t, "idle")
        /\ "idle" \in Pcs \ (FencePcs \cup {"acq_unlock", "acq_fence"})
        /\ surface' = [surface EXCEPT ![t] = NoBuffer]
    BY <1>6 DEF PresentError, Return, FencePcs, Pcs
  <2> QED BY <2>1, <1>q
<1>7. ASSUME NEW t \in Threads, HandleEvents(t) \/ CallbackStep(t) PROVE Framed
  <2>1. /\ UNCHANGED <<surface, freeQueue, shown, key, timestamp, fence>>
        /\ pc[t] \in EventPcs
        /\ \E to \in EventPcs \cup {"rel_lock", "idle"} : Goto(t, to)
    BY <1>7 DEF HandleEvents, CallbackStep, CallbackLock, CallbackIncrease, CallbackClear, EventPcs
  <2>2. /\ EventPcs \cup {"rel_lock", "idle"} \subseteq Pcs \ (FencePcs \cup {"acq_unlock", "acq_fence"})
        /\ EventPcs \cap (FencePcs \cup {"acq_unlock", "acq_fence"}) = {}
    BY DEF EventPcs, FencePcs, Pcs, PresentPcs
  <2> QED BY <2>1, <2>2, <1>q
<1> QED BY <1>1, <1>2, <1>3, <1>4, <1>5, <1>6, <1>7 DEF Next

LEMMA FenceNext ==
    ASSUME StampKept \/ LostStamps \subseteq {0}
    PROVE  TypeInv /\ TypeInv' /\ BusyFinite /\ BusyFinite' /\ OwnInv /\ OwnInv' /\ FenceInv
             /\ [Next]_vars => FenceInv'
BY FramedNext, FenceKept, ReturnFences DEF Framed

LEMMA FenceInit == Init => BusyFinite /\ FenceInv
<1> SUFFICES ASSUME Init PROVE FenceInv
    BY WaitInit
<1> SUFFICES ASSUME NEW b \in Buffers PROVE FenceOf(b)
    BY DEF FenceInv
<1>1. TypeInv /\ BusyFinite
  BY TypeInit, WaitInit
<1>2. Promised(b) \in Nat /\ key[b] = "absent" /\ timestamp[b] = 0 /\ fence[b] = 0
  BY <1>1, PromisedNat DEF Init
<1> QED BY <1>2 DEF FenceOf

(* An acquire fence can signal: the presentations that are complete or     *)
(* past their release are enough for the point it waits for.  The          *)
(* timestamp is kept by tbm_surface_internal_set_user_data, or what the    *)
(* uninitialised local reads instead is 0: a larger value may be a point   *)
(* that no presentation under way brings.                                  *)
THEOREM FenceReachableCorrect ==
    ASSUME StampKept \/ LostStamps \subseteq {0}
    PROVE  Spec => []FenceReachable
<1> DEFINE IInv == TypeInv /\ PresentersPresent /\ OwnInv /\ BusyFinite /\ FenceInv
<1>1. Init => IInv
  BY TypeInit, OwnInit, FenceInit
<1>2. IInv /\ [Next]_vars => IInv'
  BY TypeNext, PresentersNext, OwnNext, WaitNext, FenceNext DEF OwnStep, WaitStep
<1>3. IInv => FenceReachable
  <2> SUFFICES ASSUME IInv, NEW b \in Buffers PROVE fence[b] <= Promised(b)
    BY DEF FenceReachable, Promised, Retirees, FencePcs, TypeInv, TypeOK
  <2> QED BY DEF FenceInv, FenceOf
<1> QED BY <1>1, <1>2, <1>3, PTL DEF Spec
-----------------------------------------------------------------------------
(* With kept timestamps and no failing call of libtbm, the timestamp of a  *)
(* surface counts its releases exactly, and its last fence waits for all   *)
(* of them to be retired.                                                  *)
StampOf(b) ==
    /\ key[b] # "failed"
    /\ key[b] = "absent" => Due(b) /\ timestamp[b] = 0 /\ Promised(b) = 0
    /\ key[b] = "ok" => /\ fence[b] = timestamp[b]
                        /\ Promised(b) <= timestamp[b] + IF Due(b) THEN 1 ELSE 0
StampInv == \A b \in Buffers : StampOf(b)

LEMMA StampsFramed ==
    ASSUME TypeInv, BusyFinite, StampInv, Framed
    PROVE  StampInv'
<1> SUFFICES ASSUME NEW b \in Buffers PROVE StampOf(b)'
    BY DEF StampInv
<1>1. /\ Promised(b) \in Nat /\ timestamp[b] \in Nat
      /\ UNCHANGED <<key, timestamp, fence>>
  BY PromisedNat DEF TypeInv, TypeOK, Framed
<1>2. StampOf(b) /\ (Due(b) => Due(b)')
  BY DEF StampInv, Framed, DueKept
<1>3. CASE Promised(b)' = Promised(b) /\ (Due(b)' => Due(b))
  BY <1>1, <1>2, <1>3 DEF StampOf
<1>4. CASE ~Due(b) /\ Due(b)' /\ Promised(b)' = Promised(b) + 1
  BY <1>1, <1>2, <1>4 DEF StampOf
<1> QED BY <1>3, <1>4 DEF Framed, FenceFrame

LEMMA ReturnStamps ==
    ASSUME IcdAcquire, StampKept, ~Fails("timeline_create"), ~Fails("fence_create"),
           TypeInv, BusyFinite, OwnInv', StampInv, NEW t \in Threads, AcquireReturn(t)
    PROVE  StampInv'
<1>c. PICK c \in Buffers : c = surface[t]
  BY DEF AcquireReturn, TypeInv, Carrying, CarryingPcs
<1>0. /\ GetSyncFence(c)
      /\ key \in [Buffers -> {"absent", "ok", "failed"}]
      /\ timestamp \in [Buffers -> Nat] /\ fence \in [Buffers -> Nat]
  BY <1>c DEF AcquireReturn, TypeInv, TypeOK
<1>1. /\ Due(c) /\ ~Due(c)'
      /\ \A b \in Buffers : Promised(b)' = Promised(b) /\ Promised(b) \in Nat
      /\ \A b \in Buffers \ {c} : Due(b)' <=> Due(b)
  BY <1>c, ReturnFrame
<1>2. ASSUME NEW b \in Buffers \ {c} PROVE StampOf(b)'
  <2>1. key'[b] = key[b] /\ timestamp'[b] = timestamp[b] /\ fence'[b] = fence[b]
    BY <1>0 DEF GetSyncFence
  <2> QED BY <1>1, <2>1 DEF StampInv, StampOf
<1>3. StampOf(c)'
  <2>1. StampOf(c) /\ key[c] \in {"absent", "ok"}
    BY <1>0 DEF StampInv, StampOf
  <2>2. CASE key[c] = "absent"
    <3>1. key'[c] = "ok" /\ timestamp'[c] = 0 /\ fence'[c] = 0
      BY <1>0, <2>1, <2>2 DEF GetSyncFence, StampOf
    <3> QED BY <1>1, <2>1, <2>2, <3>1 DEF StampOf
  <2>3. CASE key[c] = "ok"
    <3>1. key'[c] = "ok" /\ timestamp'[c] = timestamp[c] + 1 /\ fence'[c] = timestamp[c] + 1
      BY <1>0, <2>3 DEF GetSyncFence, StampReads
    <3> QED BY <1>0, <1>1, <2>1, <2>3, <3>1 DEF StampOf
  <2> QED BY <2>1, <2>2, <2>3
<1> QED BY <1>2, <1>3 DEF StampInv

LEMMA StampInit == Init => StampInv
<1> SUFFICES ASSUME Init, NEW b \in Buffers PROVE StampOf(b)
    BY DEF StampInv
<1>1. key[b] = "absent" /\ timestamp[b] = 0 /\ shown[b] = 0
  BY DEF Init
<1>2. Promised(b) = 0
  <2>1. Retirees(b) = {}
    BY DEF Init, Retirees, FencePcs
  <2>2. Cardinality(Retirees(b)) = 0
    BY <2>1, FS_EmptySet
  <2> QED BY <1>1, <2>2 DEF Promised
<1>3. Due(b)
  <2>1. b \in Range(freeQueue)
    BY DEF Init, Bijection, Surjection, Range
  <2> QED BY <2>1 DEF Due
<1> QED BY <1>1, <1>2, <1>3 DEF StampOf

(* What the display scans out while one thread p presents: the front       *)
(* buffer, or a surface an error return has lost, until the frame of p is  *)
(* flipped to; from then on the surface of p, until that is the front      *)
(* buffer.  The one event of the frame is on its way to p, or was taken    *)
(* by a dispatcher: then p waits for ever.                                 *)
CallbackPcs == {"cb_lock", "cb_inc", "cb_clear"}
ShownPcs == {"dispatch", "rel_lock", "release"} \cup FencePcs
Calm == ready = 0 /\ At(CallbackPcs) = {}
FrontShown == screen \in {frontBuffer} \cup lost

ShowInv(p) ==
    /\ pc[p] = "commit" => layer = surface[p]
    /\ pc[p] \notin {"events"} \cup CallbackPcs \cup ShownPcs => pending = <<>> /\ Calm /\ FrontShown
    /\ pc[p] = "events" =>
           \/ pending = <<surface[p]>> /\ Calm /\ FrontShown
           \/ /\ pending = <<>> /\ screen = surface[p]
              /\ \/ ready = 1 /\ At(CallbackPcs) = {}
                 \/ ready = 0 /\ \E d \in Threads : At(CallbackPcs) \subseteq {d}
    /\ pc[p] \in CallbackPcs => /\ pending = <<>> /\ screen = surface[p]
                                /\ ready = 0 /\ At(CallbackPcs) = {p}
    /\ pc[p] \in ShownPcs => pending = <<>> /\ screen = surface[p] /\ Calm

(* A step of another thread outside the callback. *)
LEMMA ShowOthers ==
    ASSUME TypeInv, NEW p \in Threads, ShowInv(p), NEW t \in Threads \ {p}, NEW to, Goto(t, to),
           pc[t] \notin CallbackPcs, to \notin CallbackPcs,
           \A u \in Threads \ {t} : surface'[u] = surface[u],
           UNCHANGED <<lost, frontBuffer, layer, pending, screen, ready>>
    PROVE  ShowInv(p)'
<1>1. /\ pc'[p] = pc[p] /\ surface'[p] = surface[p]
      /\ At(CallbackPcs)' = At(CallbackPcs)
  BY DEF TypeInv, TypeOK, Goto, At
<1> QED BY <1>1 DEF ShowInv, Calm, FrontShown

(* A step of the presenter before its commit, or a call it makes to        *)
(* acquire an image.                                                       *)
LEMMA ShowBefore ==
    ASSUME TypeInv, NEW p \in Threads, ShowInv(p), NEW to, Goto(p, to),
           {pc[p], to} \cap ({"events"} \cup CallbackPcs \cup ShownPcs) = {}, to # "commit",
           UNCHANGED <<frontBuffer, pending, screen, ready>>, lost \subseteq lost'
    PROVE  ShowInv(p)'
<1>1. pc'[p] = to /\ At(CallbackPcs)' = At(CallbackPcs)
  BY DEF TypeInv, TypeOK, Goto, At
<1> QED BY <1>1 DEF ShowInv, Calm, FrontShown

(* A step of the presenter after the flip. *)
LEMMA ShowAfter ==
    ASSUME TypeInv, NEW p \in Threads, ShowInv(p), NEW to \in ShownPcs, Goto(p, to),
           pc[p] \in ShownPcs, UNCHANGED <<surface, pending, screen, ready>>
    PROVE  ShowInv(p)'
<1>1. pc'[p] = to /\ At(CallbackPcs)' = At(CallbackPcs)
  BY DEF TypeInv, TypeOK, Goto, At, ShownPcs, FencePcs, CallbackPcs
<1> QED BY <1>1 DEF ShowInv, Calm, ShownPcs, FencePcs, CallbackPcs

(* The callback runs in one thread, the presenter or, while that waits,    *)
(* another.                                                                *)
LEMMA ShowCallback ==
    ASSUME WaitsForEvent, TypeInv, NEW p \in Threads, Presenters = {p}, ShowInv(p),
           NEW t \in Threads, HandleEvents(t) \/ CallbackStep(t)
    PROVE  ShowInv(p)'
<1> USE DEF Step, Move, LockFront, syncVars, queueVars, notQueues, notLocks, frontVars, tdmVars
<1>0. UNCHANGED <<surface, layer, pending, screen, lost>> /\ ready \in Nat
  BY DEF HandleEvents, CallbackStep, CallbackLock, CallbackIncrease, CallbackClear,
         TypeInv, TypeOK
<1>1. CASE /\ pc[t] \in {"events", "dispatch"} /\ ready > 0 /\ ready' = ready - 1
           /\ Goto(t, "cb_lock") /\ UNCHANGED frontBuffer
  <2>1. At(CallbackPcs)' = At(CallbackPcs) \cup {t} /\ pc'[t] = "cb_lock"
    BY <1>1 DEF TypeInv, TypeOK, Goto, At, CallbackPcs
  <2>2. /\ pc[p] = "events" /\ pending = <<>> /\ screen = surface[p]
        /\ ready = 1 /\ At(CallbackPcs) = {}
    BY <1>1 DEF ShowInv, Calm
  <2>3. pc'[p] = IF t = p THEN "cb_lock" ELSE "events"
    BY <1>1, <2>2 DEF TypeInv, TypeOK, Goto
  <2>4. ready' = 0 /\ At(CallbackPcs)' = {t}
    BY <1>1, <2>1, <2>2
  <2> QED BY <1>0, <2>2, <2>3, <2>4 DEF ShowInv, Calm, CallbackPcs, ShownPcs, FencePcs
<1>2. CASE /\ pc[t] = "dispatch" /\ \E to \in {"rel_lock", "idle"} : Goto(t, to)
           /\ t = p => Goto(t, "rel_lock")
           /\ UNCHANGED <<ready, frontBuffer>>
  <2>1. CASE t = p
    <3>1. Goto(p, "rel_lock") /\ pc[p] \in ShownPcs /\ "rel_lock" \in ShownPcs
      BY <1>2, <2>1 DEF ShownPcs
    <3> QED BY <1>0, <1>2, <3>1, ShowAfter
  <2>2. CASE t # p
    <3>1. PICK to \in {"rel_lock", "idle"} : Goto(t, to)
      BY <1>2
    <3>2. pc[t] \notin CallbackPcs /\ to \notin CallbackPcs
      BY <1>2 DEF CallbackPcs
    <3> QED BY <1>0, <1>2, <2>2, <3>1, <3>2, ShowOthers
  <2> QED BY <2>1, <2>2
<1>3. CASE /\ pc[t] \in CallbackPcs /\ \E to \in CallbackPcs \cup {"dispatch"} : Goto(t, to)
           /\ UNCHANGED ready
  <2>1. PICK to \in CallbackPcs \cup {"dispatch"} : Goto(t, to)
    BY <1>3
  <2>2. /\ pc'[t] = to /\ (t # p => pc'[p] = pc[p])
        /\ At(CallbackPcs)' = (At(CallbackPcs) \ {t}) \cup IF to \in CallbackPcs THEN {t} ELSE {}
        /\ t \in At(CallbackPcs)
    BY <1>3, <2>1 DEF TypeInv, TypeOK, Goto, At
  <2>3. CASE t = p
    <3>1. pending = <<>> /\ screen = surface[p] /\ ready = 0 /\ At(CallbackPcs) = {p}
      BY <1>3, <2>3 DEF ShowInv
    <3>2. CASE to \in CallbackPcs
      BY <1>0, <1>3, <2>2, <2>3, <3>1, <3>2 DEF ShowInv, Calm, CallbackPcs, ShownPcs, FencePcs
    <3>3. CASE to = "dispatch"
      <4>1. "dispatch" \notin CallbackPcs
        BY DEF CallbackPcs
      <4>2. At(CallbackPcs)' = {}
        BY <2>2, <2>3, <3>1, <3>3, <4>1
      <4> QED BY <1>0, <1>3, <2>2, <2>3, <3>1, <3>3, <4>2
              DEF ShowInv, Calm, CallbackPcs, ShownPcs, FencePcs
    <3> QED BY <2>1, <3>2, <3>3
  <2>4. CASE t # p
    <3>1. /\ pc[p] = "events" /\ pending = <<>> /\ screen = surface[p] /\ ready = 0
          /\ \E d \in Threads : At(CallbackPcs) \subseteq {d}
      BY <2>2, <2>4 DEF ShowInv, Calm
    <3>2. \E d \in Threads : At(CallbackPcs)' \subseteq {d}
      BY <2>2, <3>1
    <3>3. pc'[p] = "events" /\ surface'[p] = surface[p]
      BY <1>0, <2>2, <2>4, <3>1
    <3> QED BY <1>0, <1>3, <3>1, <3>2, <3>3 DEF ShowInv, Calm, CallbackPcs, ShownPcs, FencePcs
  <2> QED BY <2>3, <2>4
<1>4. ASSUME HandleEvents(t) PROVE ShowInv(p)'
  <2>1. \/ /\ pc[t] \in {"events", "dispatch"} /\ ready > 0 /\ ready' = ready - 1
           /\ Goto(t, "cb_lock") /\ UNCHANGED frontBuffer
        \/ /\ pc[t] = "dispatch"
           /\ Goto(t, IF t \in Presenters THEN "rel_lock" ELSE "idle")
           /\ UNCHANGED <<ready, frontBuffer>>
    BY <1>4 DEF HandleEvents
  <2> QED BY <2>1, <1>1, <1>2
<1>5. ASSUME CallbackStep(t) PROVE ShowInv(p)'
  BY <1>5, <1>3 DEF CallbackStep, CallbackLock, CallbackIncrease, CallbackClear, CallbackPcs
<1> QED BY <1>4, <1>5

LEMMA ShowNext ==
    ASSUME WaitsForEvent, ~Fails("events"), NEW p, Presenters = {p}
    PROVE  TypeInv /\ PresentersPresent /\ ShowInv(p) /\ [Next]_vars => ShowInv(p)'
<1> SUFFICES ASSUME TypeInv, PresentersPresent, ShowInv(p), [Next]_vars PROVE ShowInv(p)'
    OBVIOUS
<1> USE DEF Move, Step, LockFree, UnlockFree, LockFront
<1> USE DEF queueVars, frontVars, tdmVars, notQueues, notLocks
<1>0. p \in Threads /\ pc \in [Threads -> Pcs] /\ surface \in [Threads -> Buffers \cup {NoBuffer}]
  BY ThreadAssumption DEF TypeInv, TypeOK
(* A step before the commit of another thread, or of the presenter. *)
<1>q. ASSUME NEW t \in Threads, NEW to, Goto(t, to),
             {pc[t], to} \cap (CallbackPcs \cup ShownPcs) = {}, to # "commit",
             pc[t] # "events", t = p => to # "events",
             \A u \in Threads \ {t} : surface'[u] = surface[u],
             UNCHANGED <<lost, frontBuffer, layer, pending, screen, ready>>
      PROVE  ShowInv(p)'
  <2>1. CASE t = p
    BY <1>0, <1>q, <2>1, ShowBefore
  <2>2. CASE t # p
    BY <1>0, <1>q, <2>2, ShowOthers DEF CallbackPcs
  <2> QED BY <2>1, <2>2
<1>1. CASE UNCHANGED vars
  BY <1>1 DEF vars, ShowInv, Calm, FrontShown, At
<1>2. CASE Vblank
  <2>1. /\ pending # <<>> /\ screen' = Head(pending) /\ pending' = Tail(pending)
        /\ ready' = ready + 1
        /\ UNCHANGED <<pc, surface, layer>>
    BY <1>2 DEF Vblank
  <2>2. pc[p] = "events" /\ pending = <<surface[p]>> /\ Calm
    BY <2>1 DEF ShowInv, Calm
  <2>3. screen' = surface[p] /\ pending' = <<>> /\ ready' = 1 /\ At(CallbackPcs)' = {}
    BY <2>1, <2>2 DEF Calm, At
  <2> QED BY <2>1, <2>2, <2>3 DEF ShowInv, CallbackPcs, ShownPcs, FencePcs
<1>3. ASSUME NEW t \in Threads, AcquireCall(t) \/ SpuriousWake(t) \/ AcquireTimeout(t)
      PROVE  ShowInv(p)'
  <2>1. /\ UNCHANGED <<surface, lost, frontBuffer, layer, pending, screen, ready>>
        /\ pc[t] \in {"idle", "acq_wait"}
        /\ \E to \in {"acq_lock", "acq_expired"} : Goto(t, to)
    BY <1>3 DEF AcquireCall, SpuriousWake, AcquireTimeout
  <2> QED BY <2>1, <1>q DEF CallbackPcs, ShownPcs, FencePcs
<1>4. ASSUME NEW t \in Threads, DispatchCall(t) PROVE ShowInv(p)'
  <2>1. /\ UNCHANGED <<surface, lost, frontBuffer, layer, pending, screen, ready>>
        /\ pc[t] = "idle" /\ Goto(t, "events") /\ t # p
    BY <1>4, ThreadAssumption DEF DispatchCall
  <2> QED BY <2>1, <1>q DEF CallbackPcs, ShownPcs, FencePcs
<1>5. ASSUME NEW t \in Threads, AcquireStep(t) PROVE ShowInv(p)'
  <2>1. /\ UNCHANGED <<lost, frontBuffer, layer, pending, screen, ready>>
        /\ \A u \in Threads \ {t} : surface'[u] = surface[u]
        /\ pc[t] \in AcquirePcs
        /\ \E to \in AcquirePcs \cup {"idle"} : Goto(t, to)
    BY <1>0, <1>5 DEF AcquireStep, AcquireLock, AcquireCheck, AcquireExpired, AcquireDequeue,
                      AcquireUnlock, AcquireReturn, Return, AcquirePcs
  <2> QED BY <2>1, <1>q DEF AcquirePcs, CallbackPcs, ShownPcs, FencePcs
<1>6. ASSUME NEW t \in Threads, NEW b \in Buffers, PresentCall(t, b) PROVE ShowInv(p)'
  <2>1. /\ UNCHANGED <<lost, frontBuffer, layer, pending, screen, ready>>
        /\ \A u \in Threads \ {t} : surface'[u] = surface[u]
        /\ pc[t] = "idle" /\ Goto(t, "fence_wait")
    BY <1>0, <1>6 DEF PresentCall
  <2> QED BY <2>1, <1>q DEF CallbackPcs, ShownPcs, FencePcs
<1>7. ASSUME NEW t \in Threads, PresentStep(t) PROVE ShowInv(p)'
  <2>0. t = p
    <3>1. pc[t] \in PresentPcs \ EventPcs
      BY <1>7 DEF PresentStep, PresentFenceWait, PresentEnqueue, PresentAcquire, PresentSetBuffer,
                  PresentCommit, PresentReleaseLock, PresentRelease, PresentReleaseUnlock,
                  PresentSignal, PresentFrontLock, PresentFrontIncrease, PresentFrontSet,
                  PresentPcs, EventPcs
    <3> QED BY <3>1 DEF PresentersPresent
  <2>1. CASE PresentFenceWait(t) \/ PresentEnqueue(t) \/ PresentAcquire(t)
    <3>1. /\ UNCHANGED <<lost, frontBuffer, layer, pending, screen, ready>>
          /\ \A u \in Threads \ {t} : surface'[u] = surface[u]
          /\ pc[t] \in {"fence_wait", "enqueue", "acquire"}
          /\ \E to \in {"enqueue", "acquire", "set_buffer", "idle"} : Goto(t, to)
      BY <1>0, <2>1 DEF PresentFenceWait, PresentEnqueue, PresentAcquire, Return
    <3> QED BY <3>1, <1>q DEF CallbackPcs, ShownPcs, FencePcs
  <2>2. CASE PresentSetBuffer(t)
    <3>1. /\ UNCHANGED <<surface, lost, frontBuffer, pending, screen, ready>>
          /\ pc[p] = "set_buffer" /\ pc' = [pc EXCEPT ![p] = "commit"] /\ layer' = surface[p]
      BY <2>0, <2>2 DEF PresentSetBuffer, Goto
    <3>2. pc'[p] = "commit" /\ At(CallbackPcs)' = At(CallbackPcs)
      BY <1>0, <3>1 DEF At, CallbackPcs
    <3> QED BY <3>1, <3>2 DEF ShowInv, Calm, FrontShown, CallbackPcs, ShownPcs, FencePcs
  <2>3. CASE PresentCommit(t)
    <3>1. /\ UNCHANGED <<surface, lost, frontBuffer, layer, screen, ready>>
          /\ pc[p] = "commit" /\ pc' = [pc EXCEPT ![p] = "events"]
          /\ pending' = Append(pending, layer)
      BY <2>0, <2>3 DEF PresentCommit, Goto
    <3>2. layer = surface[p] /\ pending = <<>> /\ Calm /\ FrontShown
      BY <3>1 DEF ShowInv, CallbackPcs, ShownPcs, FencePcs
    <3>3. pc'[p] = "events" /\ At(CallbackPcs)' = At(CallbackPcs) /\ pending' = <<surface[p]>>
      BY <1>0, <3>1, <3>2 DEF At, CallbackPcs
    <3> QED BY <3>1, <3>2, <3>3 DEF ShowInv, Calm, FrontShown, CallbackPcs, ShownPcs, FencePcs
  <2>4. CASE PresentReleaseLock(t) \/ PresentReleaseUnlock(t) \/ PresentFrontLock(t)
             \/ PresentFrontIncrease(t)
    <3>1. /\ UNCHANGED <<surface, pending, screen, ready>>
          /\ pc[p] \in ShownPcs
          /\ \E to \in ShownPcs : Goto(p, to)
      BY <2>0, <2>4 DEF PresentReleaseLock, PresentReleaseUnlock, PresentFrontLock,
                        PresentFrontIncrease, ShownPcs, FencePcs
    <3> QED BY <1>0, <3>1, ShowAfter
  <2>5. CASE PresentRelease(t)
    <3>1. CASE Goto(p, "rel_unlock") /\ UNCHANGED surface
      <4>1. /\ UNCHANGED <<pending, screen, ready>>
            /\ pc[p] \in ShownPcs /\ "rel_unlock" \in ShownPcs
        BY <2>0, <2>5 DEF PresentRelease, ShownPcs, FencePcs
      <4> QED BY <1>0, <3>1, <4>1, ShowAfter
    <3>2. CASE Return(p) /\ lost' = lost \cup {surface[p]}
      <4>1. /\ UNCHANGED <<frontBuffer, pending, screen, ready>> /\ pc[p] = "release"
            /\ pc' = [pc EXCEPT ![p] = "idle"]
        BY <2>0, <2>5, <3>2 DEF PresentRelease, Return, Goto
      <4>2. pc'[p] = "idle" /\ At(CallbackPcs)' = At(CallbackPcs)
        BY <1>0, <4>1 DEF At, CallbackPcs
      <4>3. pending = <<>> /\ screen = surface[p] /\ Calm
        BY <4>1 DEF ShowInv, ShownPcs
      <4> QED BY <3>2, <4>1, <4>2, <4>3
              DEF ShowInv, Calm, FrontShown, CallbackPcs, ShownPcs, FencePcs
    <3> QED BY <2>0, <2>5, <3>1, <3>2 DEF PresentRelease
  <2>6. CASE PresentSignal(t)
    <3>1. /\ UNCHANGED <<surface, pending, screen, ready>> /\ pc[p] = "signal"
          /\ \/ \E w \in At({"acq_wait"}) :
                    pc' = [pc EXCEPT ![p] = "front_lock", ![w] = "acq_lock"]
             \/ pc' = [pc EXCEPT ![p] = "front_lock"]
      BY <2>0, <2>6 DEF PresentSignal, Goto
    <3>2. pc'[p] = "front_lock" /\ At(CallbackPcs)' = At(CallbackPcs)
      BY <1>0, <3>1 DEF At, CallbackPcs
    <3>3. pending = <<>> /\ screen = surface[p] /\ Calm
      BY <3>1 DEF ShowInv, ShownPcs, FencePcs
    <3> QED BY <3>1, <3>2, <3>3 DEF ShowInv, Calm, CallbackPcs, ShownPcs, FencePcs
  <2>7. CASE PresentFrontSet(t)
    <3>1. /\ UNCHANGED <<pending, screen, ready>> /\ pc[p] = "front_set"
          /\ pc' = [pc EXCEPT ![p] = "idle"] /\ frontBuffer' = surface[p]
      BY <2>0, <2>7 DEF PresentFrontSet, Return, Goto
    <3>2. pc'[p] = "idle" /\ At(CallbackPcs)' = At(CallbackPcs)
      BY <1>0, <3>1 DEF At, CallbackPcs
    <3>3. pending = <<>> /\ screen = surface[p] /\ Calm
      BY <3>1 DEF ShowInv, ShownPcs, FencePcs
    <3> QED BY <3>1, <3>2, <3>3 DEF ShowInv, Calm, FrontShown, CallbackPcs, ShownPcs, FencePcs
  <2> QED BY <1>7, <2>1, <2>2, <2>3, <2>4, <2>5, <2>6, <2>7 DEF PresentStep
<1>8. ASSUME NEW t \in Threads, PresentError(t) PROVE ShowInv(p)'
  <2>1. /\ t = p /\ pc[p] \in {"enqueue", "set_buffer", "commit", "dispatch"}
        /\ UNCHANGED <<frontBuffer, pending, screen, ready>>
        /\ lost' = lost \cup {surface[p]}
        /\ pc' = [pc EXCEPT ![p] = "idle"]
    BY <1>8 DEF PresentError, Return, Goto
  <2>2. pc'[p] = "idle" /\ At(CallbackPcs)' = At(CallbackPcs)
    BY <1>0, <2>1 DEF At, CallbackPcs
  <2>3. CASE pc[p] = "dispatch"
    <3>1. pending = <<>> /\ screen = surface[p] /\ Calm
      BY <2>3 DEF ShowInv, ShownPcs
    <3> QED BY <2>1, <2>2, <3>1 DEF ShowInv, Calm, FrontShown, CallbackPcs, ShownPcs, FencePcs
  <2>4. CASE pc[p] # "dispatch"
    <3>1. pending = <<>> /\ Calm /\ FrontShown
      BY <2>1, <2>4 DEF ShowInv, CallbackPcs, ShownPcs, FencePcs
    <3> QED BY <2>1, <2>2, <3>1 DEF ShowInv, Calm, FrontShown, CallbackPcs, ShownPcs, FencePcs
  <2> QED BY <2>3, <2>4
<1>9. ASSUME NEW t \in Threads, HandleEvents(t) \/ CallbackStep(t) PROVE ShowInv(p)'
  BY <1>0, <1>9, ShowCallback
<1> QED BY <1>1, <1>2, <1>3, <1>4, <1>5, <1>6, <1>7, <1>8, <1>9 DEF Next

(* An image whose acquire fence has signalled is neither on the screen nor *)
(* about to be, so that the application can render to it, for any number   *)
(* of surfaces, acquiring and dispatching threads.  One thread presents,   *)
(* each present waits for the event of its commit, the ICD takes the fence *)
(* and libtbm keeps the timestamps; the calls that make the fence and wait *)
(* for the event do not fail.  Any other call may, and none of these       *)
(* conditions can be left out.                                             *)
THEOREM RenderReleasedCorrect ==
    ASSUME NEW p, Presenters = {p}, WaitsForEvent, IcdAcquire, StampKept,
           ~Fails("events"), ~Fails("timeline_create"), ~Fails("fence_create")
    PROVE  Spec => []RenderReleased
<1> DEFINE IInv == /\ TypeInv /\ PresentersPresent /\ OwnInv /\ BusyFinite
                   /\ StampInv /\ ShowInv(p)
<1>1. Init => IInv
  <2>1. Init => ShowInv(p)
    BY ThreadAssumption DEF Init, ShowInv, Calm, FrontShown, At, CallbackPcs, ShownPcs, FencePcs
  <2> QED BY <2>1, TypeInit, OwnInit, FenceInit, StampInit
<1>2. IInv /\ [Next]_vars => IInv'
  <2> SUFFICES ASSUME IInv, [Next]_vars PROVE IInv'
    OBVIOUS
  <2>1. TypeInv' /\ PresentersPresent' /\ OwnInv' /\ BusyFinite'
    BY TypeNext, PresentersNext, OwnNext, WaitNext DEF OwnStep, WaitStep
  <2>2. StampInv'
    BY <2>1, FramedNext, StampsFramed, ReturnStamps
  <2>3. ShowInv(p)'
    BY ShowNext
  <2> QED BY <2>1, <2>2, <2>3
<1>3. IInv /\ RetiredOnce => RenderReleased
  <2> SUFFICES ASSUME IInv, RetiredOnce, NEW b \in app, Signaled(b)
               PROVE  screen # b /\ b \notin Range(pending)
    BY DEF RenderReleased
  <2>0. /\ b \in Buffers /\ p \in Threads /\ pc[p] \in Pcs
        /\ key[b] \in {"absent", "ok", "failed"}
        /\ timeline[b] \in Nat /\ fence[b] \in Nat
        /\ shown[b] \in Nat /\ missed[b] \in Nat
        /\ NoBuffer \notin Buffers
    BY ThreadAssumption, BufferAssumption DEF TypeInv, TypeOK
  <2>1. b \notin Range(freeQueue) /\ b \notin lost /\ b \notin Hand
    BY <2>0 DEF OwnInv, Partition
  <2>2. \A t \in At(HoldingPcs) : surface[t] # b
    BY <2>0, <2>1 DEF Hand, HandAt
  <2>3. ~Due(b)
    BY <2>1, <2>2 DEF Due, At, HoldingPcs
  <2>4. key[b] = "ok" /\ Promised(b) <= fence[b]
    <3>1. Promised(b) \in Nat /\ timestamp[b] \in Nat
      BY <2>0, PromisedNat DEF TypeInv, TypeOK
    <3> QED BY <2>0, <2>3, <3>1 DEF StampInv, StampOf
  <2>5. shown[b] + Cardinality(Retirees(b)) <= timeline[b]
    BY <2>0, <2>4, RetireesFinite DEF Signaled, Promised
  <2>6. Retirees(b) = {} /\ ~(frontBuffer = b /\ ~Retiring)
    <3>1. shown[b] = timeline[b] + missed[b] + IF frontBuffer = b /\ ~Retiring THEN 1 ELSE 0
      BY <2>0, <2>4 DEF RetiredOnce
    <3>2. Cardinality(Retirees(b)) = 0 /\ ~(frontBuffer = b /\ ~Retiring)
      BY <2>0, <2>5, <3>1, RetireesFinite
    <3> QED BY <3>2, RetireesFinite, FS_EmptySet
  <2>7. pc[p] \notin ShownPcs /\ Calm => ~Retiring
    <3> SUFFICES ASSUME pc[p] \notin ShownPcs, Calm, NEW t \in At({"front_set", "cb_clear"})
                 PROVE  FALSE
      BY DEF Retiring
    <3>1. t \in Threads /\ pc[t] = "front_set"
      BY DEF Calm, At, CallbackPcs
    <3>2. t = p
      BY <3>1 DEF PresentersPresent, PresentPcs, EventPcs
    <3> QED BY <3>1, <3>2 DEF ShownPcs, FencePcs
  <2>8. FrontShown /\ Calm /\ pc[p] \notin ShownPcs => screen # b
    BY <2>0, <2>1, <2>6, <2>7 DEF FrontShown
  <2>9. pc[p] \in {"events"} \cup CallbackPcs \cup ShownPcs => surface[p] # b
    <3>1. CASE pc[p] \in FencePcs
      BY <2>0, <2>6, <3>1 DEF Retirees
    <3>2. CASE pc[p] \in {"events", "dispatch", "rel_lock", "release"} \cup CallbackPcs
      BY <2>0, <2>2, <3>2 DEF At, HoldingPcs, EventPcs, CallbackPcs
    <3> QED BY <3>1, <3>2 DEF ShownPcs
  <2>10. CASE pending = <<surface[p]>>
    <3>1. pc[p] = "events" /\ Calm /\ FrontShown
      BY <2>10 DEF ShowInv
    <3>2. Range(pending) = {surface[p]}
      BY <2>10 DEF Range
    <3> QED BY <2>8, <2>9, <3>1, <3>2 DEF ShownPcs, FencePcs
  <2>11. CASE pending = <<>>
    <3>1. Range(pending) = {}
      BY <2>11 DEF Range
    <3>2. \/ FrontShown /\ Calm /\ pc[p] \notin ShownPcs
          \/ screen = surface[p] /\ pc[p] \in {"events"} \cup CallbackPcs \cup ShownPcs
      <4>1. pending # <<surface[p]>>
        BY <2>11
      <4>2. CASE pc[p] \notin {"events"} \cup CallbackPcs \cup ShownPcs
        BY <4>2 DEF ShowInv
      <4>3. CASE pc[p] \in {"events"} \cup CallbackPcs \cup ShownPcs
        BY <4>1, <4>3 DEF ShowInv
      <4> QED BY <4>2, <4>3
    <3> QED BY <2>8, <2>9, <3>1, <3>2
  <2> QED BY <2>10, <2>11 DEF ShowInv
<1> QED BY <1>1, <1>2, <1>3, RetiredOnceCorrect, PTL DEF Spec
=============================================================================
