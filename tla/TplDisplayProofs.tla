-------------------------- MODULE TplDisplayProofs --------------------------
(***************************************************************************)
(* The reference counts of TplDisplay, for any threads, swapchains,        *)
(* addresses and failing calls.                                            *)
(***************************************************************************)
EXTENDS TplDisplay, TLAPS, FiniteSetTheorems

Pcs == {"idle", "create", "get", "reference", "use", "unref", "swapchain", "error",
        "error_surface", "deinit"}
ChainPcs == {"swapchain", "error", "error_surface", "deinit"}
ChainOps == {"swapchain", "destroy"}

TypeInv ==
    /\ pc \in [Threads -> Pcs] /\ op \in [Threads -> Ops]
    /\ display \in [Threads -> Objects \cup {None}]
    /\ handle \in [Threads -> Chains \cup {None}]
    /\ refs \in [Objects -> Nat] /\ kept \in [Objects -> Nat]
    /\ registered \in Objects \cup {None}
    /\ chain \in [Chains -> Objects \cup {None}]
    /\ surf \in [Chains -> Objects \cup {None}]
    /\ {corrupt, overlapped} \subseteq BOOLEAN
    /\ shelter \in [Threads -> SUBSET Chains]
    /\ \A t \in Threads : pc[t] \in HoldingPcs => display[t] \in Objects

(* A call on a swapchain that is not live has its handle for itself.       *)
Uses(t, c) == pc[t] # "idle" /\ op[t] \in ChainOps /\ handle[t] = c
HandleInv ==
    /\ \A t \in Threads : pc[t] \in ChainPcs => op[t] \in ChainOps
    /\ \A t \in Threads : pc[t] \in {"swapchain", "error", "error_surface"} => op[t] = "swapchain"
    /\ \A t \in Threads : pc[t] # "idle" /\ op[t] \in ChainOps =>
                              handle[t] \in Chains /\ chain[handle[t]] = None
    /\ \A c \in Chains : \A t, u \in Threads : Uses(t, c) /\ Uses(u, c) => t = u

(* Finitely many threads are in a call and finitely many swapchains live.  *)
FiniteInv ==
    /\ IsFiniteSet({t \in Threads : pc[t] # "idle"})
    /\ IsFiniteSet({c \in Chains : chain[c] # None})

CountInv == FiniteInv /\ RefsBalanced

(* The only display object with references is the one libtpl finds for the *)
(* native display.  It stays the one that a call has looked up while a     *)
(* swapchain shelters the call, or while the call is alone.                *)
RegisteredInv ==
    /\ \A o \in Objects : refs[o] > 0 <=> registered = o
    /\ ~overlapped => \A t, u \in Threads : pc[t] # "idle" /\ pc[u] # "idle" => t = u
    /\ \A t \in Threads : shelter[t] \subseteq Live
    /\ \A t \in Threads : pc[t] = "reference" /\ (shelter[t] # {} \/ ~overlapped) =>
                              display[t] = registered

(* A tpl_surface is that of a live swapchain, or of one being made or      *)
(* destroyed, on the display of that swapchain or call.                    *)
SurfaceInv ==
    \A c \in Chains : surf[c] # None =>
        \/ chain[c] = surf[c]
        \/ \E t \in Threads : Uses(t, c) /\ pc[t] \in ChainPcs /\ display[t] = surf[c]
-----------------------------------------------------------------------------
LEMMA CountsNat ==
    ASSUME TypeInv, FiniteInv, NEW o \in Objects
    PROVE  /\ IsFiniteSet(Calls(o)) /\ Cardinality(Calls(o)) \in Nat
           /\ IsFiniteSet(Owning(o)) /\ Cardinality(Owning(o)) \in Nat
           /\ kept[o] \in Nat /\ refs[o] \in Nat
<1>1. /\ Calls(o) \subseteq {t \in Threads : pc[t] # "idle"}
      /\ Owning(o) \subseteq {c \in Chains : chain[c] # None}
  BY NoneAssumption DEF Calls, Owning, HoldingPcs
<1>2. /\ IsFiniteSet(Calls(o)) /\ Cardinality(Calls(o)) \in Nat
      /\ IsFiniteSet(Owning(o)) /\ Cardinality(Owning(o)) \in Nat
  BY <1>1, FS_Subset, FS_CardinalityType DEF FiniteInv
<1>3. kept[o] \in Nat /\ refs[o] \in Nat
  BY DEF TypeInv
<1> QED BY <1>2, <1>3

(* Whoever owns a reference finds the object alive; a call and a swapchain *)
(* with the same object count twice.                                       *)
LEMMA References ==
    ASSUME TypeInv, CountInv
    PROVE  /\ \A t \in Threads : pc[t] \in HoldingPcs =>
                  display[t] \in Objects /\ refs[display[t]] >= 1
           /\ \A c \in Chains : chain[c] # None => chain[c] \in Objects /\ refs[chain[c]] >= 1
           /\ \A t \in Threads, c \in Chains :
                  pc[t] \in HoldingPcs /\ chain[c] = display[t] => refs[display[t]] >= 2
<1>1. ASSUME NEW t \in Threads, pc[t] \in HoldingPcs
      PROVE  /\ display[t] \in Objects /\ Cardinality(Calls(display[t])) # 0
  <2>1. display[t] \in Objects /\ t \in Calls(display[t])
    BY <1>1 DEF TypeInv, Calls
  <2>2. IsFiniteSet(Calls(display[t])) /\ Calls(display[t]) # {}
    BY <2>1, CountsNat DEF CountInv
  <2> QED BY <2>1, <2>2, FS_EmptySet
<1>2. ASSUME NEW c \in Chains, chain[c] # None
      PROVE  chain[c] \in Objects /\ Cardinality(Owning(chain[c])) # 0
  <2>1. chain[c] \in Objects /\ c \in Owning(chain[c])
    BY <1>2 DEF TypeInv, Owning
  <2>2. IsFiniteSet(Owning(chain[c])) /\ Owning(chain[c]) # {}
    BY <2>1, CountsNat DEF CountInv
  <2> QED BY <2>1, <2>2, FS_EmptySet
<1>3. \A o \in Objects : /\ refs[o] = Cardinality(Calls(o)) + Cardinality(Owning(o)) + kept[o]
                         /\ Cardinality(Calls(o)) \in Nat /\ Cardinality(Owning(o)) \in Nat
                         /\ kept[o] \in Nat /\ refs[o] \in Nat
  BY CountsNat DEF CountInv, RefsBalanced
<1>4. ASSUME NEW t \in Threads, pc[t] \in HoldingPcs
      PROVE  display[t] \in Objects /\ refs[display[t]] >= 1
  BY <1>1, <1>3, <1>4
<1>5. ASSUME NEW c \in Chains, chain[c] # None
      PROVE  chain[c] \in Objects /\ refs[chain[c]] >= 1
  BY <1>2, <1>3, <1>5
<1>6. ASSUME NEW t \in Threads, NEW c \in Chains, pc[t] \in HoldingPcs, chain[c] = display[t]
      PROVE  refs[display[t]] >= 2
  <2>1. /\ display[t] \in Objects /\ Cardinality(Calls(display[t])) # 0
        /\ Cardinality(Owning(display[t])) # 0
    BY <1>1, <1>2, <1>6, NoneAssumption
  <2> QED BY <1>3, <2>1
<1> QED BY <1>4, <1>5, <1>6

(* All live swapchains are on the display libtpl finds. *)
LEMMA LiveRegistered ==
    ASSUME TypeInv, CountInv, RegisteredInv, NEW c \in Live
    PROVE  c \in Chains /\ chain[c] = registered /\ registered \in Objects
<1>1. c \in Chains /\ chain[c] \in Objects /\ refs[chain[c]] >= 1 /\ refs[chain[c]] \in Nat
  BY References, CountsNat DEF Live, CountInv
<1> QED BY <1>1 DEF RegisteredInv

(* An unreference that leaves the object registered, or frees it because   *)
(* no swapchain is live.                                                   *)
LEMMA Unreferenced ==
    ASSUME TypeInv, CountInv, RegisteredInv, NEW t \in Threads, pc[t] \in HoldingPcs,
           Unreference(display[t])
    PROVE  /\ display[t] = registered /\ registered \in Objects
           /\ refs[registered] - 1 \in Nat
           /\ refs' = [refs EXCEPT ![registered] = @ - 1]
           /\ registered' = registered \/ (registered' = None /\ Live = {})
           /\ registered' = registered <=> refs[registered] - 1 > 0
<1>1. /\ display[t] \in Objects /\ refs[display[t]] >= 1
      /\ refs[display[t]] \in Nat
  BY References, CountsNat DEF CountInv
<1>2. display[t] = registered
  BY <1>1 DEF RegisteredInv
<1>3. Live # {} => refs[registered] >= 2
  BY <1>2, LiveRegistered, References
<1> QED BY <1>1, <1>2, <1>3, NoneAssumption DEF Unreference

LEMMA TypeNext ==
    TypeInv /\ HandleInv /\ CountInv /\ RegisteredInv /\ [Next]_vars => TypeInv'
<1> SUFFICES ASSUME TypeInv, HandleInv, CountInv, RegisteredInv, [Next]_vars PROVE TypeInv'
    OBVIOUS
<1> USE DEF TypeInv, Pcs, Ops, HoldingPcs, Step, Live, history
<1>1. CASE UNCHANGED vars
  BY <1>1 DEF vars
<1>2. ASSUME NEW t \in Threads, NEW o \in {"caps", "modes"}, Call(t, o, None) PROVE TypeInv'
  BY <1>2 DEF Call, Begin
<1>3. ASSUME NEW t \in Threads, NEW c \in Chains, Call(t, "swapchain", c) PROVE TypeInv'
  BY <1>3 DEF Call, Begin
<1>4. ASSUME NEW t \in Threads, NEW c \in Chains, Destroy(t, c) PROVE TypeInv'
  BY <1>4 DEF Destroy, Begin
<1>5. ASSUME NEW t \in Threads, CreateDisplay(t) PROVE TypeInv'
  BY <1>5 DEF CreateDisplay
<1>6. ASSUME NEW t \in Threads, GetDisplay(t) PROVE TypeInv'
  BY <1>6 DEF GetDisplay
<1>7. ASSUME NEW t \in Threads, ReferenceDisplay(t) PROVE TypeInv'
  <2>1. /\ refs' \in [Objects -> Nat]
        /\ shelter' \in [Threads -> SUBSET Chains]
        /\ UNCHANGED <<op, display, handle, registered, chain, surf, kept, overlapped>>
    BY <1>7 DEF ReferenceDisplay
  <2>2. CASE display[t] # None /\ refs[display[t]] > 0
    BY <1>7, <2>1, <2>2 DEF ReferenceDisplay
  <2>3. CASE display[t] = None
    BY <1>7, <2>1, <2>3 DEF ReferenceDisplay
  <2>4. CASE display[t] # None /\ refs[display[t]] = 0
    BY <1>7, <2>1, <2>4 DEF ReferenceDisplay
  <2> QED BY <1>7, <2>2, <2>3, <2>4 DEF ReferenceDisplay
<1>8. ASSUME NEW t \in Threads, Query(t) PROVE TypeInv'
  BY <1>8 DEF Query
<1>9. ASSUME NEW t \in Threads, UnrefDisplay(t) \/ ErrorDisplay(t) PROVE TypeInv'
  <2>1. /\ refs' = [refs EXCEPT ![registered] = @ - 1] /\ refs[registered] - 1 \in Nat
        /\ registered' \in Objects \cup {None}
    BY <1>9, Unreferenced DEF UnrefDisplay, ErrorDisplay
  <2>2. refs' \in [Objects -> Nat]
    BY <2>1
  <2> QED BY <1>9, <2>1, <2>2 DEF UnrefDisplay, ErrorDisplay
<1>10. ASSUME NEW t \in Threads, CreateSurface(t) PROVE TypeInv'
  BY <1>10 DEF CreateSurface
<1>11. ASSUME NEW t \in Threads, CreateSwapchain(t) PROVE TypeInv'
  BY <1>11 DEF CreateSwapchain
<1>12. ASSUME NEW t \in Threads, ErrorSurface(t) \/ DeinitSurface(t) PROVE TypeInv'
  BY <1>12 DEF ErrorSurface, DeinitSurface
<1> QED BY <1>1, <1>2, <1>3, <1>4, <1>5, <1>6, <1>7, <1>8, <1>9, <1>10, <1>11, <1>12 DEF Next, Undefined

LEMMA HandleNext == TypeInv /\ HandleInv /\ [Next]_vars => HandleInv'
<1> SUFFICES ASSUME TypeInv, HandleInv, [Next]_vars PROVE HandleInv'
    OBVIOUS
<1>0. /\ pc \in [Threads -> Pcs] /\ op \in [Threads -> Ops]
      /\ handle \in [Threads -> Chains \cup {None}]
      /\ chain \in [Chains -> Objects \cup {None}]
  BY DEF TypeInv
<1> USE <1>0 DEF HandleInv, Uses, ChainPcs, ChainOps, Step
<1>1. CASE UNCHANGED vars
  BY <1>1 DEF vars
<1>2. ASSUME NEW t \in Threads, NEW o \in {"caps", "modes"}, Call(t, o, None) PROVE HandleInv'
  BY <1>2 DEF Call, Begin
<1>3. ASSUME NEW t \in Threads, NEW c \in Chains, Call(t, "swapchain", c) PROVE HandleInv'
  BY <1>3 DEF Call, Begin, Settled
<1>4. ASSUME NEW t \in Threads, NEW c \in Chains, Destroy(t, c) PROVE HandleInv'
  BY <1>4 DEF Destroy, Begin
<1>5. ASSUME NEW t \in Threads, CreateDisplay(t) \/ GetDisplay(t) \/ ReferenceDisplay(t) PROVE HandleInv'
  BY <1>5 DEF CreateDisplay, GetDisplay, ReferenceDisplay
<1>6. ASSUME NEW t \in Threads, Query(t) \/ UnrefDisplay(t) \/ ErrorDisplay(t) PROVE HandleInv'
  BY <1>6 DEF Query, UnrefDisplay, ErrorDisplay
<1>7. ASSUME NEW t \in Threads, CreateSurface(t) PROVE HandleInv'
  BY <1>7 DEF CreateSurface
<1>8. ASSUME NEW t \in Threads, CreateSwapchain(t) PROVE HandleInv'
  BY <1>8 DEF CreateSwapchain
<1>9. ASSUME NEW t \in Threads, ErrorSurface(t) \/ DeinitSurface(t) PROVE HandleInv'
  BY <1>9 DEF ErrorSurface, DeinitSurface
<1> QED BY <1>1, <1>2, <1>3, <1>4, <1>5, <1>6, <1>7, <1>8, <1>9 DEF Next, Undefined

LEMMA RegisteredNext ==
    TypeInv /\ HandleInv /\ CountInv /\ RegisteredInv /\ [Next]_vars => RegisteredInv'
<1> SUFFICES ASSUME TypeInv, HandleInv, CountInv, RegisteredInv, [Next]_vars
             PROVE  RegisteredInv'
    OBVIOUS
<1>0. /\ pc \in [Threads -> Pcs] /\ display \in [Threads -> Objects \cup {None}]
      /\ refs \in [Objects -> Nat] /\ registered \in Objects \cup {None}
      /\ shelter \in [Threads -> SUBSET Chains] /\ overlapped \in BOOLEAN
      /\ chain \in [Chains -> Objects \cup {None}] /\ None \notin Objects
  BY NoneAssumption DEF TypeInv
<1> USE <1>0 DEF RegisteredInv, Step, history
<1>1. CASE UNCHANGED vars
  BY <1>1 DEF vars, Live
<1>2. ASSUME NEW t \in Threads, NEW o, NEW c, Call(t, o, c) PROVE RegisteredInv'
  BY <1>2 DEF Call, Begin, Live
<1>3. ASSUME NEW t \in Threads, NEW c \in Chains, Destroy(t, c) PROVE RegisteredInv'
  <2>1. Live' = Live \ {c} /\ \A u \in Threads : shelter'[u] = shelter[u] \ {c}
    BY <1>3 DEF Destroy, Live
  <2>2. /\ UNCHANGED <<refs, registered>>
        /\ \A u \in Threads : pc'[u] = "reference" => pc[u] = "reference" /\ display'[u] = display[u]
    BY <1>3 DEF Destroy, Begin
  <2>3. overlapped => overlapped'
    BY <1>3 DEF Destroy, Begin
  <2>4. ~overlapped' => \A u, v \in Threads : pc'[u] # "idle" /\ pc'[v] # "idle" => u = v
    BY <1>3 DEF Destroy, Begin
  <2>5. /\ \A p \in Objects : refs'[p] > 0 <=> registered' = p
        /\ \A u \in Threads : shelter'[u] \subseteq Live'
    BY <2>1, <2>2
  <2>6. \A u \in Threads : pc'[u] = "reference" /\ (shelter'[u] # {} \/ ~overlapped') =>
                              display'[u] = registered'
    BY <2>1, <2>2, <2>3
  <2> QED BY <2>4, <2>5, <2>6
<1>4. ASSUME NEW t \in Threads, CreateDisplay(t) PROVE RegisteredInv'
  <2>1. CASE registered = None /\ Step(t, "create", "use")
    <3>1. PICK o \in Objects : /\ refs[o] = 0 /\ refs' = [refs EXCEPT ![o] = 1]
                               /\ registered' = o
                               /\ display' = [display EXCEPT ![t] = o]
      BY <1>4, <2>1 DEF CreateDisplay
    <3>2. Live = {}
      BY <2>1, LiveRegistered
    <3>3. \A p \in Objects : refs'[p] > 0 <=> registered' = p
      BY <2>1, <3>1
    <3>4. UNCHANGED <<shelter, chain, overlapped>>
      BY <1>4, <2>1 DEF CreateDisplay
    <3>5. \A u \in Threads : shelter'[u] = {} /\ (pc'[u] = "reference" => overlapped')
      BY <2>1, <3>2, <3>4
    <3> QED BY <2>1, <3>3, <3>4, <3>5
  <2>2. CASE /\ Step(t, "create", "get") /\ shelter' = [shelter EXCEPT ![t] = Live]
             /\ UNCHANGED <<display, refs, registered>>
    BY <1>4, <2>2 DEF CreateDisplay, Live
  <2> QED BY <1>4, <2>1, <2>2 DEF CreateDisplay
<1>5. ASSUME NEW t \in Threads, GetDisplay(t) PROVE RegisteredInv'
  BY <1>5 DEF GetDisplay, Live
<1>6. ASSUME NEW t \in Threads, ReferenceDisplay(t) PROVE RegisteredInv'
  BY <1>6 DEF ReferenceDisplay, Live
<1>7. ASSUME NEW t \in Threads, Query(t) \/ CreateSurface(t) PROVE RegisteredInv'
  BY <1>7 DEF Query, CreateSurface, Live
<1>8. ASSUME NEW t \in Threads, UnrefDisplay(t) \/ ErrorDisplay(t) PROVE RegisteredInv'
  <2>1. /\ pc[t] \in HoldingPcs /\ Unreference(display[t])
        /\ UNCHANGED <<display, chain, shelter, overlapped>>
        /\ \E to \in {"idle", "error_surface"} : pc' = [pc EXCEPT ![t] = to]
    BY <1>8 DEF UnrefDisplay, ErrorDisplay, HoldingPcs
  <2>2. /\ display[t] = registered /\ registered \in Objects
        /\ refs[registered] - 1 \in Nat
        /\ refs' = [refs EXCEPT ![registered] = @ - 1]
        /\ registered' = registered \/ (registered' = None /\ Live = {})
        /\ registered' = registered <=> refs[registered] - 1 > 0
    BY <2>1, Unreferenced
  <2>3. \A o \in Objects : refs'[o] > 0 <=> registered' = o
    BY <2>2
  <2>4. \A u \in Threads : pc'[u] # "idle" => pc[u] # "idle" /\ (u # t => pc'[u] = pc[u])
    BY <2>1 DEF HoldingPcs
  <2>5. ~overlapped' => \A u, v \in Threads : pc'[u] # "idle" /\ pc'[v] # "idle" => u = v
    BY <2>1, <2>4
  <2>6. ASSUME NEW u \in Threads, pc'[u] = "reference", shelter'[u] # {} \/ ~overlapped'
        PROVE  display'[u] = registered'
    <3>1. u # t /\ pc[u] = "reference" /\ pc[t] # "idle"
      BY <2>1, <2>6 DEF HoldingPcs
    <3>2. Live # {} /\ display[u] = registered
      BY <2>1, <2>6, <3>1
    <3> QED BY <2>1, <2>2, <3>2
  <2> QED BY <2>1, <2>3, <2>5, <2>6 DEF Live
<1>9. ASSUME NEW t \in Threads, ErrorSurface(t) \/ DeinitSurface(t) PROVE RegisteredInv'
  BY <1>9 DEF ErrorSurface, DeinitSurface, Live
<1>10. ASSUME NEW t \in Threads, CreateSwapchain(t) PROVE RegisteredInv'
  <2>1. /\ pc[t] = "swapchain" /\ display[t] \in Objects
        /\ UNCHANGED <<display, refs, registered, shelter, overlapped>>
        /\ \E to \in {"idle", "error", "deinit"} : pc' = [pc EXCEPT ![t] = to]
    BY <1>10 DEF CreateSwapchain, TypeInv, HoldingPcs
  <2>2. Live \subseteq Live'
    BY <1>10, <2>1 DEF CreateSwapchain, Live
  <2> QED BY <2>1, <2>2
<1> QED BY <1>1, <1>2, <1>3, <1>4, <1>5, <1>6, <1>7, <1>8, <1>9, <1>10 DEF Next, Undefined

(* How a step of thread t, and one that changes chain c, change the number *)
(* of the owners of an object.                                             *)
LEMMA CallCounts ==
    ASSUME TypeInv, FiniteInv, NEW t \in Threads, NEW to, pc' = [pc EXCEPT ![t] = to],
           \A u \in Threads \ {t} : display'[u] = display[u]
    PROVE  /\ IsFiniteSet({u \in Threads : pc[u] # "idle"}')
           /\ \A o \in Objects :
                 Cardinality(Calls(o)') =
                     Cardinality(Calls(o))
                     - (IF pc[t] \in HoldingPcs /\ display[t] = o THEN 1 ELSE 0)
                     + (IF to \in HoldingPcs /\ display'[t] = o THEN 1 ELSE 0)
<1>1. pc'[t] = to /\ \A u \in Threads \ {t} : pc'[u] = pc[u]
  BY DEF TypeInv
<1>2. IsFiniteSet({u \in Threads : pc[u] # "idle"}')
  <2>1. {u \in Threads : pc[u] # "idle"}' \subseteq {u \in Threads : pc[u] # "idle"} \cup {t}
    BY <1>1
  <2> QED BY <2>1, FS_AddElement, FS_Subset DEF FiniteInv
<1>3. ASSUME NEW o \in Objects
      PROVE  Cardinality(Calls(o)') =
                 Cardinality(Calls(o))
                 - (IF pc[t] \in HoldingPcs /\ display[t] = o THEN 1 ELSE 0)
                 + (IF to \in HoldingPcs /\ display'[t] = o THEN 1 ELSE 0)
  <2> DEFINE S == Calls(o)
             T == Calls(o) \ {t}
  <2>1. /\ t \in S <=> pc[t] \in HoldingPcs /\ display[t] = o
        /\ S' = T \cup IF to \in HoldingPcs /\ display'[t] = o THEN {t} ELSE {}
    BY <1>1 DEF Calls
  <2>2. IsFiniteSet(S) /\ Cardinality(S) \in Nat
    BY CountsNat
  <2>3. /\ IsFiniteSet(T)
        /\ Cardinality(T) = IF t \in S THEN Cardinality(S) - 1 ELSE Cardinality(S)
    BY <2>2, FS_RemoveElement
  <2>4. Cardinality(T \cup {t}) = Cardinality(T) + 1
    BY <2>3, FS_AddElement
  <2>5. CASE to \in HoldingPcs /\ display'[t] = o
    <3>1. S' = T \cup {t}
      BY <2>1, <2>5
    <3> QED BY <2>1, <2>2, <2>3, <2>4, <2>5, <3>1
  <2>6. CASE ~(to \in HoldingPcs /\ display'[t] = o)
    <3>1. S' = T
      BY <2>1, <2>6
    <3>2. (IF to \in HoldingPcs /\ display'[t] = o THEN 1 ELSE 0) = 0
      BY <2>6
    <3>3. (IF pc[t] \in HoldingPcs /\ display[t] = o THEN 1 ELSE 0) = IF t \in S THEN 1 ELSE 0
      BY <2>1
    <3> HIDE DEF S, T
    <3>4. Cardinality(T) = Cardinality(S) - (IF t \in S THEN 1 ELSE 0) + 0
      BY <2>2, <2>3
    <3> QED BY <3>1, <3>2, <3>3, <3>4 DEF S, T
  <2> QED BY <2>5, <2>6
<1> QED BY <1>2, <1>3

LEMMA OwningCounts ==
    ASSUME TypeInv, FiniteInv, NEW c \in Chains, NEW v \in Objects \cup {None},
           chain' = [chain EXCEPT ![c] = v]
    PROVE  /\ IsFiniteSet({d \in Chains : chain[d] # None}')
           /\ \A o \in Objects :
                 Cardinality(Owning(o)') =
                     Cardinality(Owning(o)) - (IF chain[c] = o THEN 1 ELSE 0)
                     + (IF v = o THEN 1 ELSE 0)
<1>1. chain'[c] = v /\ \A d \in Chains \ {c} : chain'[d] = chain[d]
  BY DEF TypeInv
<1>2. IsFiniteSet({d \in Chains : chain[d] # None}')
  <2>1. {d \in Chains : chain[d] # None}' \subseteq {d \in Chains : chain[d] # None} \cup {c}
    BY <1>1
  <2> QED BY <2>1, FS_AddElement, FS_Subset DEF FiniteInv
<1>3. ASSUME NEW o \in Objects
      PROVE  Cardinality(Owning(o)') =
                 Cardinality(Owning(o)) - (IF chain[c] = o THEN 1 ELSE 0)
                 + (IF v = o THEN 1 ELSE 0)
  <2> DEFINE S == Owning(o)
             T == Owning(o) \ {c}
  <2>1. /\ c \in S <=> chain[c] = o
        /\ S' = T \cup IF v = o THEN {c} ELSE {}
    BY <1>1 DEF Owning
  <2>2. IsFiniteSet(S) /\ Cardinality(S) \in Nat
    BY CountsNat
  <2>3. /\ IsFiniteSet(T)
        /\ Cardinality(T) = IF c \in S THEN Cardinality(S) - 1 ELSE Cardinality(S)
    BY <2>2, FS_RemoveElement
  <2>4. Cardinality(T \cup {c}) = Cardinality(T) + 1
    BY <2>3, FS_AddElement
  <2>5. CASE v = o
    <3>1. S' = T \cup {c}
      BY <2>1, <2>5
    <3> QED BY <2>1, <2>2, <2>3, <2>4, <2>5, <3>1
  <2>6. CASE v # o
    <3>1. S' = T
      BY <2>1, <2>6
    <3> QED BY <2>1, <2>2, <2>3, <2>6, <3>1
  <2> QED BY <2>5, <2>6
<1> QED BY <1>2, <1>3

(* A call that takes or gives back references as it comes to own them. *)
LEMMA CallBalanced ==
    ASSUME TypeInv, TypeInv', CountInv, NEW t \in Threads, NEW to,
           pc' = [pc EXCEPT ![t] = to],
           \A u \in Threads \ {t} : display'[u] = display[u],
           UNCHANGED chain,
           \A o \in Objects :
               refs'[o] - kept'[o] = refs[o] - kept[o]
                   - (IF pc[t] \in HoldingPcs /\ display[t] = o THEN 1 ELSE 0)
                   + (IF to \in HoldingPcs /\ display'[t] = o THEN 1 ELSE 0)
    PROVE  CountInv'
<1>1. FiniteInv'
  BY CallCounts DEF CountInv, FiniteInv
<1>2. ASSUME NEW o \in Objects
      PROVE  refs'[o] = Cardinality(Calls(o)') + Cardinality(Owning(o)') + kept'[o]
  <2>1. Cardinality(Calls(o)') =
            Cardinality(Calls(o))
            - (IF pc[t] \in HoldingPcs /\ display[t] = o THEN 1 ELSE 0)
            + (IF to \in HoldingPcs /\ display'[t] = o THEN 1 ELSE 0)
    BY CallCounts DEF CountInv
  <2>2. Owning(o)' = Owning(o)
    BY DEF Owning
  <2>3. /\ refs[o] = Cardinality(Calls(o)) + Cardinality(Owning(o)) + kept[o]
        /\ Cardinality(Calls(o)) \in Nat /\ Cardinality(Owning(o)) \in Nat
        /\ kept[o] \in Nat /\ refs[o] \in Nat
        /\ refs'[o] \in Nat /\ kept'[o] \in Nat
    BY CountsNat DEF CountInv, RefsBalanced, TypeInv
  <2>4. refs'[o] - kept'[o] = refs[o] - kept[o]
            - (IF pc[t] \in HoldingPcs /\ display[t] = o THEN 1 ELSE 0)
            + (IF to \in HoldingPcs /\ display'[t] = o THEN 1 ELSE 0)
    OBVIOUS
  <2> QED BY <2>1, <2>2, <2>3, <2>4
<1> QED BY <1>1, <1>2 DEF CountInv, RefsBalanced

(* A reference passes from a call to the swapchain it has made, or from a  *)
(* swapchain to the call that destroys it.                                 *)
LEMMA ChainBalanced ==
    ASSUME TypeInv, TypeInv', CountInv, NEW t \in Threads, NEW c \in Chains, NEW to,
           NEW v \in Objects \cup {None},
           pc' = [pc EXCEPT ![t] = to], chain' = [chain EXCEPT ![c] = v],
           \A u \in Threads \ {t} : display'[u] = display[u],
           UNCHANGED <<refs, registered, kept>>,
           \/ pc[t] \notin HoldingPcs /\ to \in HoldingPcs /\ display'[t] = chain[c] /\ v = None
           \/ pc[t] \in HoldingPcs /\ to \notin HoldingPcs /\ display[t] = v /\ chain[c] = None
    PROVE  CountInv'
<1>0. FiniteInv
  BY DEF CountInv
<1>o. /\ IsFiniteSet({d \in Chains : chain[d] # None}')
      /\ \A o \in Objects :
            Cardinality(Owning(o)') =
                Cardinality(Owning(o)) - (IF chain[c] = o THEN 1 ELSE 0)
                + (IF v = o THEN 1 ELSE 0)
  BY <1>0, OwningCounts
<1>1. FiniteInv'
  BY <1>0, <1>o, CallCounts DEF FiniteInv
<1>2. ASSUME NEW o \in Objects
      PROVE  refs'[o] = Cardinality(Calls(o)') + Cardinality(Owning(o)') + kept'[o]
  <2>1. Cardinality(Calls(o)') =
            Cardinality(Calls(o))
            - (IF pc[t] \in HoldingPcs /\ display[t] = o THEN 1 ELSE 0)
            + (IF to \in HoldingPcs /\ display'[t] = o THEN 1 ELSE 0)
    BY CallCounts DEF CountInv
  <2>2. Cardinality(Owning(o)') =
            Cardinality(Owning(o)) - (IF chain[c] = o THEN 1 ELSE 0)
            + (IF v = o THEN 1 ELSE 0)
    BY <1>o
  <2>3. /\ refs[o] = Cardinality(Calls(o)) + Cardinality(Owning(o)) + kept[o]
        /\ Cardinality(Calls(o)) \in Nat /\ Cardinality(Owning(o)) \in Nat
        /\ kept[o] \in Nat /\ refs[o] \in Nat
    BY CountsNat DEF CountInv, RefsBalanced
  <2>4. o # None
    BY NoneAssumption
  <2>5. CASE pc[t] \notin HoldingPcs /\ to \in HoldingPcs /\ display'[t] = chain[c] /\ v = None
    <3>1. /\ Cardinality(Calls(o)') = Cardinality(Calls(o)) + (IF chain[c] = o THEN 1 ELSE 0)
          /\ Cardinality(Owning(o)') = Cardinality(Owning(o)) - (IF chain[c] = o THEN 1 ELSE 0)
      BY <2>1, <2>2, <2>3, <2>4, <2>5
    <3> QED BY <2>3, <3>1
  <2>6. CASE pc[t] \in HoldingPcs /\ to \notin HoldingPcs /\ display[t] = v /\ chain[c] = None
    <3>1. /\ Cardinality(Calls(o)') = Cardinality(Calls(o)) - (IF v = o THEN 1 ELSE 0)
          /\ Cardinality(Owning(o)') = Cardinality(Owning(o)) + (IF v = o THEN 1 ELSE 0)
      BY <2>1, <2>2, <2>3, <2>4, <2>6
    <3> QED BY <2>3, <3>1
  <2> QED BY <2>5, <2>6
<1> QED BY <1>1, <1>2 DEF CountInv, RefsBalanced

LEMMA CountNext ==
    TypeInv /\ TypeInv' /\ HandleInv /\ CountInv /\ RegisteredInv /\ [Next]_vars => CountInv'
<1> SUFFICES ASSUME TypeInv, TypeInv', HandleInv, CountInv, RegisteredInv, [Next]_vars
             PROVE  CountInv'
    OBVIOUS
<1>0. /\ pc \in [Threads -> Pcs] /\ display \in [Threads -> Objects \cup {None}]
      /\ refs \in [Objects -> Nat] /\ kept \in [Objects -> Nat]
      /\ chain \in [Chains -> Objects \cup {None}] /\ None \notin Objects
      /\ \A t \in Threads : pc[t] \in HoldingPcs => display[t] \in Objects
  BY NoneAssumption DEF TypeInv
(* A step that neither takes nor gives back a reference. *)
<1>q. ASSUME NEW t \in Threads, NEW to, pc' = [pc EXCEPT ![t] = to],
             \A u \in Threads \ {t} : display'[u] = display[u],
             UNCHANGED <<refs, registered, kept, chain>>,
             \/ pc[t] \notin HoldingPcs /\ to \notin HoldingPcs
             \/ pc[t] \in HoldingPcs /\ to \in HoldingPcs /\ UNCHANGED display
      PROVE  CountInv'
  <2>1. \A o \in Objects :
            refs'[o] - kept'[o] = refs[o] - kept[o]
                - (IF pc[t] \in HoldingPcs /\ display[t] = o THEN 1 ELSE 0)
                + (IF to \in HoldingPcs /\ display'[t] = o THEN 1 ELSE 0)
    BY <1>0, <1>q
  <2> QED BY <1>q, <2>1, CallBalanced
<1> USE DEF HoldingPcs, Step
<1>1. CASE UNCHANGED vars
  <2>1. \A o \in Objects : Calls(o)' = Calls(o) /\ Owning(o)' = Owning(o)
    BY <1>1 DEF vars, Calls, Owning
  <2> QED BY <1>1, <2>1 DEF vars, CountInv, FiniteInv, RefsBalanced
<1>2. ASSUME NEW t \in Threads, NEW o, NEW c, Call(t, o, c) PROVE CountInv'
  BY <1>2, <1>q DEF Call, Begin
<1>3. ASSUME NEW t \in Threads, NEW c \in Chains, Destroy(t, c) PROVE CountInv'
  <2>1. /\ pc' = [pc EXCEPT ![t] = "deinit"] /\ pc[t] \notin HoldingPcs
        /\ chain' = [chain EXCEPT ![c] = None]
        /\ display' = [display EXCEPT ![t] = chain[c]]
        /\ UNCHANGED <<refs, registered, kept>>
    BY <1>3 DEF Destroy, Begin
  <2>2. display'[t] = chain[c] /\ \A u \in Threads \ {t} : display'[u] = display[u]
    BY <1>0, <2>1
  <2> QED BY <2>1, <2>2, ChainBalanced
<1>4. ASSUME NEW t \in Threads, CreateDisplay(t) PROVE CountInv'
  <2>1. CASE registered = None /\ Step(t, "create", "use")
    <3>1. PICK o \in Objects : /\ refs[o] = 0 /\ refs' = [refs EXCEPT ![o] = 1]
                               /\ registered' = o
                               /\ display' = [display EXCEPT ![t] = o]
      BY <1>0, <1>4, <2>1 DEF CreateDisplay
    <3>2. pc' = [pc EXCEPT ![t] = "use"] /\ pc[t] = "create" /\ UNCHANGED <<kept, chain>>
      <4>1. UNCHANGED <<kept, chain>>
        BY <1>4 DEF CreateDisplay
      <4> QED BY <2>1, <4>1
    <3>3. display'[t] = o /\ \A u \in Threads \ {t} : display'[u] = display[u]
      BY <1>0, <3>1
    <3>4. \A p \in Objects :
              refs'[p] - kept'[p] = refs[p] - kept[p]
                  - (IF pc[t] \in HoldingPcs /\ display[t] = p THEN 1 ELSE 0)
                  + (IF "use" \in HoldingPcs /\ display'[t] = p THEN 1 ELSE 0)
      BY <1>0, <3>1, <3>2, <3>3
    <3> QED BY <3>2, <3>3, <3>4, CallBalanced
  <2>2. CASE Step(t, "create", "get") /\ UNCHANGED <<display, refs, registered>>
    BY <1>4, <2>2, <1>q DEF CreateDisplay
  <2> QED BY <1>4, <2>1, <2>2 DEF CreateDisplay
<1>5. ASSUME NEW t \in Threads, GetDisplay(t) PROVE CountInv'
  <2>1. /\ pc' = [pc EXCEPT ![t] = "reference"] /\ pc[t] = "get"
        /\ display' = [display EXCEPT ![t] = registered]
        /\ UNCHANGED <<refs, registered, kept, chain>>
    BY <1>5 DEF GetDisplay
  <2>2. \A u \in Threads \ {t} : display'[u] = display[u]
    BY <1>0, <2>1
  <2> QED BY <2>1, <2>2, <1>q
<1>6. ASSUME NEW t \in Threads, ReferenceDisplay(t) PROVE CountInv'
  <2>1. CASE display[t] = None
    BY <1>6, <2>1, <1>q DEF ReferenceDisplay
  <2>2. CASE display[t] # None /\ refs[display[t]] > 0
    <3>1. /\ pc' = [pc EXCEPT ![t] = "use"] /\ pc[t] = "reference"
          /\ refs' = [refs EXCEPT ![display[t]] = @ + 1]
          /\ UNCHANGED <<display, registered, kept, chain>>
      BY <1>6, <2>2 DEF ReferenceDisplay
    <3>2. \A p \in Objects :
              refs'[p] - kept'[p] = refs[p] - kept[p]
                  - (IF pc[t] \in HoldingPcs /\ display[t] = p THEN 1 ELSE 0)
                  + (IF "use" \in HoldingPcs /\ display'[t] = p THEN 1 ELSE 0)
      BY <1>0, <2>2, <3>1
    <3>3. \A u \in Threads \ {t} : display'[u] = display[u]
      BY <3>1
    <3>4. UNCHANGED chain
      BY <3>1
    <3> QED BY <1>0, <3>1, <3>2, <3>3, <3>4, CallBalanced
  <2>3. CASE display[t] # None /\ refs[display[t]] = 0
    <3>1. UNCHANGED <<pc, display, refs, registered, kept, chain>>
      BY <1>6, <2>3 DEF ReferenceDisplay
    <3>2. pc' = [pc EXCEPT ![t] = "reference"] /\ pc[t] = "reference"
      BY <1>0, <1>6, <2>3, <3>1 DEF ReferenceDisplay
    <3> QED BY <3>1, <3>2, <1>q
  <2> QED BY <1>6, <2>1, <2>2, <2>3 DEF ReferenceDisplay
<1>7. ASSUME NEW t \in Threads, Query(t) PROVE CountInv'
  <2>1. CASE Step(t, "use", "unref") /\ UNCHANGED kept
    BY <1>7, <2>1, <1>q DEF Query
  <2>2. CASE Step(t, "use", "idle") /\ kept' = [kept EXCEPT ![display[t]] = @ + 1]
    <3>1. UNCHANGED <<display, refs, registered, chain>>
      BY <1>7 DEF Query
    <3>2. \A p \in Objects :
              refs'[p] - kept'[p] = refs[p] - kept[p]
                  - (IF pc[t] \in HoldingPcs /\ display[t] = p THEN 1 ELSE 0)
                  + (IF "idle" \in HoldingPcs /\ display'[t] = p THEN 1 ELSE 0)
      BY <1>0, <2>2, <3>1
    <3>3. pc' = [pc EXCEPT ![t] = "idle"]
      BY <2>2 DEF Step
    <3>4. \A u \in Threads \ {t} : display'[u] = display[u]
      BY <3>1
    <3>5. UNCHANGED chain
      BY <3>1
    <3> QED BY <1>0, <3>2, <3>3, <3>4, <3>5, CallBalanced
  <2> QED BY <1>7, <2>1, <2>2 DEF Query
<1>8. ASSUME NEW t \in Threads, UnrefDisplay(t) \/ ErrorDisplay(t) PROVE CountInv'
  <2>1. PICK to \in {"idle", "error_surface"} : pc' = [pc EXCEPT ![t] = to]
    BY <1>8 DEF UnrefDisplay, ErrorDisplay
  <2>2. /\ pc[t] \in HoldingPcs /\ Unreference(display[t])
        /\ UNCHANGED <<display, kept, chain>>
    BY <1>8 DEF UnrefDisplay, ErrorDisplay
  <2>3. /\ display[t] = registered /\ registered \in Objects
        /\ refs' = [refs EXCEPT ![registered] = @ - 1]
    BY <2>2, Unreferenced
  <2>4. \A p \in Objects :
            refs'[p] - kept'[p] = refs[p] - kept[p]
                - (IF pc[t] \in HoldingPcs /\ display[t] = p THEN 1 ELSE 0)
                + (IF to \in HoldingPcs /\ display'[t] = p THEN 1 ELSE 0)
    <3>1. to \notin HoldingPcs
      BY <2>1
    <3> QED BY <1>0, <2>2, <2>3, <3>1
  <2> QED BY <2>1, <2>2, <2>4, CallBalanced
<1>9. ASSUME NEW t \in Threads, CreateSurface(t) PROVE CountInv'
  BY <1>9, <1>q DEF CreateSurface
<1>10. ASSUME NEW t \in Threads, CreateSwapchain(t) PROVE CountInv'
  <2>1. CASE Step(t, "swapchain", "idle") /\ chain' = [chain EXCEPT ![handle[t]] = display[t]]
    <3>1. UNCHANGED <<display, refs, registered, kept>>
      BY <1>10 DEF CreateSwapchain
    <3>2. handle[t] \in Chains /\ chain[handle[t]] = None
      BY <2>1 DEF HandleInv, ChainPcs, ChainOps
    <3> QED BY <1>0, <2>1, <3>1, <3>2, ChainBalanced
  <2>2. CASE UNCHANGED chain /\ pc[t] = "swapchain"
             /\ \E to \in {"error", "deinit"} : pc' = [pc EXCEPT ![t] = to]
    BY <1>10, <2>2, <1>q DEF CreateSwapchain
  <2> QED BY <1>10, <2>1, <2>2 DEF CreateSwapchain
<1>11. ASSUME NEW t \in Threads, ErrorSurface(t) \/ DeinitSurface(t) PROVE CountInv'
  BY <1>11, <1>q DEF ErrorSurface, DeinitSurface
<1> QED BY <1>1, <1>2, <1>3, <1>4, <1>5, <1>6, <1>7, <1>8, <1>9, <1>10, <1>11 DEF Next, Undefined

(* A swapchain handle belongs to the call that works on it, so what the    *)
(* call does to its surface touches no other swapchain's.                  *)
LEMMA SurfaceNext ==
    TypeInv /\ HandleInv /\ SurfaceInv /\ [Next]_vars => SurfaceInv'
<1> SUFFICES ASSUME TypeInv, HandleInv, SurfaceInv, [Next]_vars,
                    NEW c \in Chains, surf'[c] # None
             PROVE  \/ chain'[c] = surf'[c]
                    \/ \E t \in Threads : /\ Uses(t, c)' /\ pc'[t] \in ChainPcs
                                          /\ display'[t] = surf'[c]
    BY DEF SurfaceInv
<1>0. /\ pc \in [Threads -> Pcs] /\ op \in [Threads -> Ops]
      /\ display \in [Threads -> Objects \cup {None}]
      /\ handle \in [Threads -> Chains \cup {None}]
      /\ chain \in [Chains -> Objects \cup {None}]
      /\ surf \in [Chains -> Objects \cup {None}]
  BY DEF TypeInv
<1>h. /\ \A t \in Threads : pc[t] \in ChainPcs => op[t] \in ChainOps
      /\ \A t \in Threads : pc[t] # "idle" /\ op[t] \in ChainOps =>
                                handle[t] \in Chains /\ chain[handle[t]] = None
      /\ \A t, u \in Threads : Uses(t, c) /\ Uses(u, c) => t = u
  BY DEF HandleInv
<1>s. surf[c] # None =>
        \/ chain[c] = surf[c]
        \/ \E t \in Threads : Uses(t, c) /\ pc[t] \in ChainPcs /\ display[t] = surf[c]
  BY DEF SurfaceInv
<1> USE <1>0, <1>h, <1>s DEF Uses, ChainPcs, ChainOps, Step
<1>1. CASE UNCHANGED vars
  BY <1>1 DEF vars
<1>2. ASSUME NEW t \in Threads, NEW o, NEW d, Call(t, o, d)
      PROVE  \/ chain'[c] = surf'[c]
             \/ \E u \in Threads : /\ Uses(u, c)' /\ pc'[u] \in ChainPcs
                                   /\ display'[u] = surf'[c]
  BY <1>2 DEF Call, Begin
<1>3. ASSUME NEW t \in Threads, NEW d \in Chains, Destroy(t, d)
      PROVE  \/ chain'[c] = surf'[c]
             \/ \E u \in Threads : /\ Uses(u, c)' /\ pc'[u] \in ChainPcs
                                   /\ display'[u] = surf'[c]
  BY <1>3 DEF Destroy, Begin
<1>4. ASSUME NEW t \in Threads,
             CreateDisplay(t) \/ GetDisplay(t) \/ ReferenceDisplay(t) \/ Query(t)
      PROVE  \/ chain'[c] = surf'[c]
             \/ \E u \in Threads : /\ Uses(u, c)' /\ pc'[u] \in ChainPcs
                                   /\ display'[u] = surf'[c]
  BY <1>4 DEF CreateDisplay, GetDisplay, ReferenceDisplay, Query
<1>5. ASSUME NEW t \in Threads, UnrefDisplay(t) \/ ErrorDisplay(t)
      PROVE  \/ chain'[c] = surf'[c]
             \/ \E u \in Threads : /\ Uses(u, c)' /\ pc'[u] \in ChainPcs
                                   /\ display'[u] = surf'[c]
  BY <1>5 DEF UnrefDisplay, ErrorDisplay
<1>6. ASSUME NEW t \in Threads, CreateSurface(t)
      PROVE  \/ chain'[c] = surf'[c]
             \/ \E u \in Threads : /\ Uses(u, c)' /\ pc'[u] \in ChainPcs
                                   /\ display'[u] = surf'[c]
  BY <1>6 DEF CreateSurface
<1>7. ASSUME NEW t \in Threads, CreateSwapchain(t)
      PROVE  \/ chain'[c] = surf'[c]
             \/ \E u \in Threads : /\ Uses(u, c)' /\ pc'[u] \in ChainPcs
                                   /\ display'[u] = surf'[c]
  BY <1>7 DEF CreateSwapchain
<1>8. ASSUME NEW t \in Threads, ErrorSurface(t) \/ DeinitSurface(t)
      PROVE  \/ chain'[c] = surf'[c]
             \/ \E u \in Threads : /\ Uses(u, c)' /\ pc'[u] \in ChainPcs
                                   /\ display'[u] = surf'[c]
  BY <1>8 DEF ErrorSurface, DeinitSurface
<1> QED BY <1>1, <1>2, <1>3, <1>4, <1>5, <1>6, <1>7, <1>8 DEF Next, Undefined
-----------------------------------------------------------------------------
IInv == TypeInv /\ HandleInv /\ CountInv /\ RegisteredInv /\ SurfaceInv

LEMMA InitInv == Init => IInv
<1> SUFFICES ASSUME Init PROVE IInv
    OBVIOUS
<1>1. /\ \A t \in Threads : pc[t] = "idle"
      /\ \A c \in Chains : chain[c] = None /\ surf[c] = None
      /\ \A t \in Threads : shelter[t] = {}
      /\ None \notin Objects /\ registered = None /\ ~corrupt /\ ~overlapped
      /\ \A o \in Objects : refs[o] = 0 /\ kept[o] = 0
  BY NoneAssumption DEF Init
<1>2. TypeInv
  <2>1. refs \in [Objects -> Nat] /\ kept \in [Objects -> Nat]
    BY DEF Init
  <2> QED BY <1>1, <2>1 DEF Init, TypeInv, Pcs, Ops, HoldingPcs
<1>3. HandleInv
  BY <1>1 DEF HandleInv, ChainPcs, Uses
<1>4. CountInv
  <2>1. /\ {t \in Threads : pc[t] # "idle"} = {}
        /\ {c \in Chains : chain[c] # None} = {}
    BY <1>1
  <2>2. FiniteInv
    BY <2>1, FS_EmptySet DEF FiniteInv
  <2>3. ASSUME NEW o \in Objects
        PROVE  refs[o] = Cardinality(Calls(o)) + Cardinality(Owning(o)) + kept[o]
    <3>1. Calls(o) = {} /\ Owning(o) = {}
      BY <1>1 DEF Calls, Owning, HoldingPcs
    <3>2. Cardinality(Calls(o)) = 0 /\ Cardinality(Owning(o)) = 0
      BY <3>1, FS_EmptySet
    <3> QED BY <1>1, <3>2
  <2> QED BY <2>2, <2>3 DEF CountInv, RefsBalanced
<1>5. RegisteredInv
  BY <1>1 DEF RegisteredInv
<1>6. SurfaceInv
  BY <1>1 DEF SurfaceInv
<1> QED BY <1>2, <1>3, <1>4, <1>5, <1>6 DEF IInv

LEMMA Inductive == Spec => []IInv
<1>1. IInv /\ [Next]_vars => IInv'
  BY TypeNext, HandleNext, CountNext, RegisteredNext, SurfaceNext DEF IInv
<1> QED BY <1>1, InitInv, PTL DEF Spec

(* Every display object has as many references as it has running calls and *)
(* live swapchains that own one, and failing capability queries that kept  *)
(* theirs: it is freed with its last user, neither earlier nor never.      *)
THEOREM RefsBalancedCorrect == Spec => []RefsBalanced
<1>1. IInv => RefsBalanced
  BY DEF IInv, CountInv
<1> QED BY <1>1, Inductive, PTL

(* tpl_display_get takes no reference, yet the display that a call has     *)
(* looked up is still there when tpl_object_reference comes to it, if a    *)
(* swapchain is kept from before the look-up, or no two calls overlap.     *)
THEOREM ReferenceFindsDisplayCorrect == Spec => []ReferenceFindsDisplay
<1>1. ASSUME IInv, NEW t \in Threads, pc[t] = "reference"
      PROVE  /\ shelter[t] # {} => display[t] # None
             /\ (shelter[t] # {} \/ ~overlapped) /\ display[t] # None => refs[display[t]] > 0
  <2>1. shelter[t] # {} \/ ~overlapped => display[t] = registered
    BY <1>1 DEF IInv, RegisteredInv
  <2>2. shelter[t] # {} => registered \in Objects
    BY <1>1, LiveRegistered DEF IInv, RegisteredInv
  <2>3. display[t] \in Objects \cup {None} /\ None \notin Objects
    BY <1>1, NoneAssumption DEF IInv, TypeInv
  <2> QED BY <1>1, <2>1, <2>2, <2>3 DEF IInv, RegisteredInv
<1>2. IInv => ReferenceFindsDisplay
  BY <1>1 DEF ReferenceFindsDisplay
<1> QED BY <1>2, Inductive, PTL

(* A tpl_surface is unreferenced before the display it was created on is   *)
(* freed, but for the error label of an init, which does so in the reverse  *)
(* order.                                                                  *)
THEOREM SurfaceHasDisplayCorrect == Spec => []SurfaceHasDisplay
<1>1. ASSUME IInv, NEW c \in Chains, surf[c] # None, ~InErrorLabel(c)
      PROVE  refs[surf[c]] > 0
  <2>1. surf[c] \in Objects /\ \A o \in Objects : refs[o] \in Nat
    BY <1>1 DEF IInv, TypeInv
  <2>2. CASE chain[c] = surf[c]
    BY <1>1, <2>1, <2>2, References DEF IInv
  <2>3. ASSUME NEW t \in Threads, Uses(t, c), pc[t] \in ChainPcs, display[t] = surf[c]
        PROVE  refs[surf[c]] > 0
    <3>1. CASE pc[t] \in HoldingPcs
      BY <1>1, <2>1, <2>3, <3>1, References DEF IInv
    <3>2. CASE pc[t] = "error_surface"
      <4>1. op[t] = "swapchain" /\ handle[t] = c
        BY <1>1, <2>3, <3>2 DEF IInv, HandleInv, Uses
      <4> QED BY <1>1, <3>2, <4>1 DEF InErrorLabel
    <3> QED BY <2>3, <3>1, <3>2 DEF ChainPcs, HoldingPcs
  <2> QED BY <1>1, <2>2, <2>3 DEF IInv, SurfaceInv
<1>2. IInv => SurfaceHasDisplay
  BY <1>1 DEF SurfaceHasDisplay
<1> QED BY <1>2, Inductive, PTL
=============================================================================
