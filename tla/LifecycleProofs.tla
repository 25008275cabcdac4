--------------------------- MODULE LifecycleProofs ---------------------------
(***************************************************************************)
(* What creating and destroying swapchains leaves behind, for any number   *)
(* of swapchains and any failing stages.                                   *)
(***************************************************************************)
EXTENDS SwapchainLifecycle, TLAPS, SequenceTheorems

TypeInv ==
    /\ live \in Seq(Chains)
    /\ kind \in [Chains -> Kinds]
    /\ held \in [Chains -> SUBSET Resources]
    /\ dpms \in Powers /\ before \in Powers
    /\ saved \in [Chains -> Powers]
    /\ unread \in BOOLEAN

LiveOnce == \A i, j \in DOMAIN live : live[i] = live[j] => i = j

Display(i) == kind[live[i]] = "tdm"

(* The display swapchains saved, youngest to oldest, an output switched on *)
(* by the one before and, at last, the state the first of all has found.   *)
PowerChain ==
    /\ \A i \in DOMAIN live :
          Display(i) => saved[live[i]] = IF \E j \in 1..i - 1 : Display(j) THEN "on" ELSE before
    /\ dpms = IF \E i \in DOMAIN live : Display(i) THEN "on" ELSE before

PowerInv == ~unread => PowerChain
-----------------------------------------------------------------------------
LEMMA RemoveElement ==
    ASSUME NEW S, NEW s \in Seq(S), NEW i \in 1..Len(s)
    PROVE  /\ RemoveAt(s, i) \in Seq(S) /\ Len(RemoveAt(s, i)) = Len(s) - 1
           /\ \A j \in 1..Len(s) - 1 : RemoveAt(s, i)[j] = IF j < i THEN s[j] ELSE s[j + 1]
<1> DEFINE p == SubSeq(s, 1, i - 1)
           q == SubSeq(s, i + 1, Len(s))
<1>1. /\ Len(s) \in Nat /\ i \in Nat
      /\ p \in Seq(S) /\ Len(p) = i - 1 /\ \A j \in 1..i - 1 : p[j] = s[j]
      /\ q \in Seq(S) /\ Len(q) = Len(s) - i /\ \A j \in 1..Len(s) - i : q[j] = s[j + i]
  OBVIOUS
<1>2. /\ p \o q \in Seq(S) /\ Len(p \o q) = Len(s) - 1
      /\ \A j \in 1..Len(s) - 1 : (p \o q)[j] = IF j <= i - 1 THEN p[j] ELSE q[j - (i - 1)]
  <2>1. /\ p \o q \in Seq(S) /\ Len(p \o q) = Len(p) + Len(q)
        /\ \A j \in 1..Len(p) + Len(q) :
              (p \o q)[j] = IF j <= Len(p) THEN p[j] ELSE q[j - Len(p)]
    BY <1>1, ConcatProperties
  <2> HIDE DEF p, q
  <2>2. Len(p) + Len(q) = Len(s) - 1
    BY <1>1
  <2> QED BY <1>1, <2>1, <2>2
<1>3. ASSUME NEW j \in 1..Len(s) - 1 PROVE (p \o q)[j] = IF j < i THEN s[j] ELSE s[j + 1]
  <2> HIDE DEF p, q
  <2>1. CASE j < i
    <3>1. j \in 1..i - 1 /\ j <= i - 1
      BY <1>1, <2>1
    <3> QED BY <1>1, <1>2, <2>1, <3>1
  <2>2. CASE ~(j < i)
    <3>1. ~(j <= i - 1) /\ j - (i - 1) \in 1..Len(s) - i /\ (j - (i - 1)) + i = j + 1
      BY <1>1, <2>2
    <3>2. (p \o q)[j] = q[j - (i - 1)]
      BY <1>2, <3>1
    <3> QED BY <1>1, <2>2, <3>1, <3>2
  <2> QED BY <2>1, <2>2
<1> QED BY <1>2, <1>3 DEF RemoveAt

LEMMA AppendElement ==
    ASSUME NEW S, NEW s \in Seq(S), NEW e \in S
    PROVE  /\ Append(s, e) \in Seq(S) /\ Len(Append(s, e)) = Len(s) + 1
           /\ Append(s, e)[Len(s) + 1] = e
           /\ \A j \in 1..Len(s) : Append(s, e)[j] = s[j]
OBVIOUS

(* What a failing create keeps is what its clean-up forgets. *)
LEMMA LeftBehind ==
    ASSUME NEW k \in Kinds, NEW n \in DOMAIN Stages[k]
    PROVE  /\ Before(k, n) \ Cleaned(k, n) \subseteq {"chain", "struct"}
           /\ Before(k, n) \subseteq Resources
<1>1. /\ Stages["tdm"] = <<"chain", "format", "struct", "queue", "array", "fill",
                           "set_dpms", "set_mode", "set_info", "buffers">>
      /\ Stages["tpl"] = <<"chain", "format", "struct", "tpl_display", "tpl_surface", "mode",
                           "tpl_swapchain", "array", "buffers">>
      /\ GetBuffersAt["tdm"] = 5 /\ GetBuffersAt["tpl"] = 8
  BY DEF Stages, GetBuffersAt
<1>2. CASE k = "tdm"
  <2>1. n \in 1..10
    BY <1>1, <1>2
  <2>2. CASE n \in 1..4
    <3>1. Before("tdm", n) \subseteq {"chain", "struct"}
      BY <1>1, <2>2 DEF Before, Resources
    <3> QED BY <1>2, <3>1 DEF Before
  <2>3. CASE n \in 5..10
    <3>1. Stages["tdm"][n] \notin {"chain", "format"} /\ Initialised("tdm", n)
      BY <1>1, <2>3 DEF Initialised
    <3> QED BY <1>2, <3>1 DEF Cleaned, Before
  <2> QED BY <2>1, <2>2, <2>3
<1>3. CASE k = "tpl"
  <2>1. n \in 1..9
    BY <1>1, <1>3
  <2>2. CASE n \in 1..3
    <3>1. Before("tpl", n) \subseteq {"chain"}
      BY <1>1, <2>2 DEF Before, Resources
    <3> QED BY <1>3, <3>1 DEF Before
  <2>3. CASE n \in 4..7
    <3>1. Before("tpl", n) \subseteq {"chain", "struct", "tpl_display", "tpl_surface"}
      BY <1>1, <2>3 DEF Before, Resources
    <3>2. Stages["tpl"][n] \notin {"chain", "format"} /\ ~Initialised("tpl", n)
      BY <1>1, <2>3 DEF Initialised
    <3>3. Cleaned("tpl", n) = {"chain", "tpl_display", "tpl_surface"}
      BY <3>2 DEF Cleaned
    <3> QED BY <1>3, <3>1, <3>3 DEF Before
  <2>4. CASE n \in 8..9
    <3>1. Stages["tpl"][n] \notin {"chain", "format"} /\ Initialised("tpl", n)
      BY <1>1, <2>4 DEF Initialised
    <3> QED BY <1>3, <3>1 DEF Cleaned, Before
  <2> QED BY <2>1, <2>2, <2>3, <2>4
<1> QED BY <1>2, <1>3 DEF Kinds
-----------------------------------------------------------------------------
(* What a call does to the list of swapchains. *)
LEMMA LiveAdded ==
    ASSUME TypeInv, LiveOnce, NEW c \in Chains \ Live, live' = Append(live, c)
    PROVE  /\ live' \in Seq(Chains) /\ LiveOnce' /\ Live' = Live \cup {c}
           /\ Len(live') = Len(live) + 1 /\ live'[Len(live) + 1] = c
           /\ \A j \in 1..Len(live) : live'[j] = live[j] /\ live'[j] # c
<1>1. /\ live \in Seq(Chains) /\ Len(live) \in Nat /\ DOMAIN live = 1..Len(live)
  <2>1. live \in Seq(Chains)
    BY DEF TypeInv
  <2> QED BY <2>1
<1>2. /\ live' \in Seq(Chains) /\ Len(live') = Len(live) + 1
      /\ live'[Len(live) + 1] = c /\ \A j \in 1..Len(live) : live'[j] = live[j]
  BY <1>1, AppendElement
<1>3. DOMAIN live' = 1..Len(live) + 1
  BY <1>1, <1>2
<1>4. \A j \in 1..Len(live) : live[j] # c
  BY <1>1 DEF Live
<1>5. LiveOnce'
  BY <1>1, <1>2, <1>3, <1>4 DEF LiveOnce
<1>6. Live' = Live \cup {c}
  BY <1>1, <1>2, <1>3 DEF Live
<1> QED BY <1>2, <1>4, <1>5, <1>6

LEMMA LiveRemoved ==
    ASSUME TypeInv, LiveOnce, NEW i \in DOMAIN live, live' = RemoveAt(live, i)
    PROVE  /\ live' \in Seq(Chains) /\ LiveOnce' /\ Live' = Live \ {live[i]}
           /\ Len(live') = Len(live) - 1
           /\ \A j \in 1..Len(live) - 1 : live'[j] = IF j < i THEN live[j] ELSE live[j + 1]
<1>1. /\ live \in Seq(Chains) /\ Len(live) \in Nat /\ DOMAIN live = 1..Len(live)
  <2>1. live \in Seq(Chains)
    BY DEF TypeInv
  <2> QED BY <2>1
<1>2. /\ live' \in Seq(Chains) /\ Len(live') = Len(live) - 1
      /\ \A j \in 1..Len(live) - 1 : live'[j] = IF j < i THEN live[j] ELSE live[j + 1]
  BY <1>1, RemoveElement
<1>3. DOMAIN live' = 1..Len(live) - 1
  BY <1>1, <1>2
<1>4. \A j, k \in 1..Len(live) : live[j] = live[k] => j = k
  BY <1>1 DEF LiveOnce
<1>5. LiveOnce'
  <2> SUFFICES ASSUME NEW j \in 1..Len(live) - 1, NEW k \in 1..Len(live) - 1, live'[j] = live'[k]
               PROVE  j = k
    BY <1>3 DEF LiveOnce
  <2>1. j \in 1..Len(live) /\ j + 1 \in 1..Len(live) /\ k \in 1..Len(live) /\ k + 1 \in 1..Len(live)
    BY <1>1
  <2> QED BY <1>1, <1>2, <1>4, <2>1
<1>6. Live' = Live \ {live[i]}
  <2>1. ASSUME NEW x \in Live' PROVE x \in Live \ {live[i]}
    <3>1. PICK j \in 1..Len(live) - 1 : x = live'[j]
      BY <1>3, <2>1 DEF Live
    <3>2. j \in 1..Len(live) /\ j + 1 \in 1..Len(live)
      BY <1>1
    <3>3. x = IF j < i THEN live[j] ELSE live[j + 1]
      BY <1>2, <3>1
    <3> QED BY <1>1, <1>4, <3>2, <3>3 DEF Live
  <2>2. ASSUME NEW x \in Live \ {live[i]} PROVE x \in Live'
    <3>1. PICK j \in 1..Len(live) : x = live[j]
      BY <1>1, <2>2 DEF Live
    <3>2. j # i
      BY <2>2, <3>1
    <3>3. CASE j < i
      <4>1. j \in 1..Len(live) - 1 /\ live'[j] = x
        BY <1>1, <1>2, <3>1, <3>3
      <4> QED BY <1>3, <4>1 DEF Live
    <3>4. CASE j > i
      <4>1. j - 1 \in 1..Len(live) - 1 /\ ~(j - 1 < i) /\ (j - 1) + 1 = j
        BY <1>1, <3>1, <3>4
      <4>2. live'[j - 1] = x
        BY <1>2, <3>1, <4>1
      <4> QED BY <1>3, <4>1, <4>2 DEF Live
    <3> QED BY <1>1, <3>2, <3>3, <3>4
  <2> QED BY <2>1, <2>2
<1> QED BY <1>2, <1>5, <1>6

LEMMA TypeNext == TypeInv /\ LiveOnce /\ [Next]_vars => TypeInv' /\ LiveOnce'
<1> SUFFICES ASSUME TypeInv, LiveOnce, [Next]_vars PROVE TypeInv' /\ LiveOnce'
    OBVIOUS
<1> USE DEF TypeInv
<1>0. PowerRead \subseteq Powers /\ "on" \in Powers /\ "off" \in Powers
  BY DEF PowerRead, Powers
<1>1. CASE UNCHANGED vars
  BY <1>1 DEF vars, LiveOnce
<1>2. ASSUME NEW c \in Chains, NEW k \in Kinds, Create(c, k) PROVE TypeInv' /\ LiveOnce'
  <2>1. live' \in Seq(Chains) /\ LiveOnce'
    BY <1>2, LiveAdded DEF Create
  <2>2. /\ kind' \in [Chains -> Kinds]
        /\ held' \in [Chains -> SUBSET Resources]
    BY <1>2 DEF Create, Before, Resources
  <2>3. dpms' \in Powers /\ before' \in Powers /\ unread' \in BOOLEAN /\ saved' \in [Chains -> Powers]
    BY <1>0, <1>2 DEF Create, Remember
  <2> QED BY <2>1, <2>2, <2>3
<1>3. ASSUME NEW c \in Chains, NEW k \in Kinds, NEW n \in DOMAIN Stages[k], CreateFails(c, k, n)
      PROVE  TypeInv' /\ LiveOnce'
  <2>1. UNCHANGED <<live, kind, held, saved>>
    BY <1>3 DEF CreateFails
  <2>2. dpms' \in Powers
    BY <1>0, <1>3 DEF CreateFails
  <2>3. before' \in Powers /\ unread' \in BOOLEAN
    BY <1>3 DEF CreateFails, Remember
  <2> QED BY <2>1, <2>2, <2>3 DEF LiveOnce
<1>4. ASSUME NEW c \in Chains, Destroy(c) PROVE TypeInv' /\ LiveOnce'
  <2>1. live' \in Seq(Chains) /\ LiveOnce'
    BY <1>4, LiveRemoved DEF Destroy
  <2> QED BY <1>4, <2>1 DEF Destroy
<1>5. ASSUME NEW c \in Chains, Commit(c) \/ Callback(c) PROVE TypeInv' /\ LiveOnce'
  BY <1>5 DEF Commit, Callback, LiveOnce
<1> QED BY <1>1, <1>2, <1>3, <1>4, <1>5 DEF Next

LEMMA TypeInit == Init => TypeInv /\ LiveOnce
<1> SUFFICES ASSUME Init PROVE TypeInv /\ LiveOnce
    OBVIOUS
<1>1. kind \in [Chains -> Kinds] /\ held \in [Chains -> SUBSET Resources]
  BY DEF Init, Kinds
<1>2. dpms \in Powers /\ before \in Powers /\ saved \in [Chains -> Powers] /\ unread \in BOOLEAN
  BY DEF Init, Powers
<1>3. live \in Seq(Chains) /\ DOMAIN live = {}
  BY DEF Init
<1> QED BY <1>1, <1>2, <1>3 DEF TypeInv, LiveOnce

LEMMA LeakNext == TypeInv /\ LiveOnce /\ NothingLeaked /\ [Next]_vars => NothingLeaked'
<1> SUFFICES ASSUME TypeInv, LiveOnce, NothingLeaked, [Next]_vars PROVE NothingLeaked'
    OBVIOUS
<1>0. held \in [Chains -> SUBSET Resources]
  BY DEF TypeInv
<1>1. CASE UNCHANGED vars
  BY <1>1 DEF vars, NothingLeaked, Live
<1>2. ASSUME NEW c \in Chains, NEW k \in Kinds, Create(c, k) PROVE NothingLeaked'
  <2>1. Live' = Live \cup {c}
    BY <1>2, LiveAdded DEF Create
  <2>2. \A d \in Chains \ {c} : held'[d] = held[d]
    BY <1>0, <1>2 DEF Create
  <2> QED BY <1>2, <2>1, <2>2 DEF Create, NothingLeaked
<1>3. ASSUME NEW c \in Chains, NEW k \in Kinds, NEW n \in DOMAIN Stages[k], CreateFails(c, k, n)
      PROVE  NothingLeaked'
  <2>1. Before(k, n) \ Cleaned(k, n) \subseteq {"chain", "struct"}
    BY LeftBehind
  <2>2. Live' = Live /\ held' = held
    BY <1>3 DEF CreateFails, Live
  <2> QED BY <1>3, <2>1, <2>2 DEF CreateFails, NothingLeaked
<1>4. ASSUME NEW c \in Chains, Destroy(c) PROVE NothingLeaked'
  <2>1. Live' = Live \ {c}
    BY <1>4, LiveRemoved DEF Destroy
  <2>2. leaked' = leaked /\ held' = [held EXCEPT ![c] = {}]
    BY <1>4 DEF Destroy
  <2> QED BY <1>0, <2>1, <2>2 DEF NothingLeaked
<1>5. ASSUME NEW c \in Chains, Commit(c) \/ Callback(c) PROVE NothingLeaked'
  BY <1>5 DEF Commit, Callback, NothingLeaked, Live
<1> QED BY <1>1, <1>2, <1>3, <1>4, <1>5 DEF Next

(* However many swapchains come and go, in any order and on both backends, *)
(* and whatever stage a create fails at, nothing but the chain or the      *)
(* backend structure of a failed create stays allocated, and a swapchain   *)
(* that is gone keeps nothing.                                             *)
THEOREM NothingLeakedCorrect == Spec => []NothingLeaked
<1> DEFINE IInv == TypeInv /\ LiveOnce /\ NothingLeaked
<1>1. Init => IInv
  <2>1. Init => NothingLeaked
    BY DEF Init, NothingLeaked
  <2> QED BY <2>1, TypeInit
<1>2. IInv /\ [Next]_vars => IInv'
  BY TypeNext, LeakNext
<1> QED BY <1>1, <1>2, PTL DEF Spec
-----------------------------------------------------------------------------
LEMMA PowerNext ==
    ASSUME Nested
    PROVE  TypeInv /\ LiveOnce /\ PowerInv /\ [Next]_vars => PowerInv'
<1> SUFFICES ASSUME TypeInv, LiveOnce, PowerInv, [Next]_vars, ~unread' PROVE PowerChain'
    BY DEF PowerInv
<1>n. PICK n \in Nat : n = Len(live)
  BY DEF TypeInv
<1>0. /\ live \in Seq(Chains) /\ Len(live) = n /\ DOMAIN live = 1..n
      /\ \A i \in 1..n : live[i] \in Chains
      /\ kind \in [Chains -> Kinds] /\ saved \in [Chains -> Powers]
  <2>1. live \in Seq(Chains) /\ kind \in [Chains -> Kinds] /\ saved \in [Chains -> Powers]
    BY DEF TypeInv
  <2> QED BY <2>1, <1>n
<1>s. ASSUME UNCHANGED <<live, kind, saved, dpms, before>>, ~unread PROVE PowerChain'
  BY <1>s DEF PowerInv, PowerChain, Display
<1>1. CASE UNCHANGED vars
  BY <1>1, <1>s DEF vars
<1>e. n = 0 <=> live = <<>>
  BY <1>0
<1>2. ASSUME NEW c \in Chains, NEW k \in Kinds, Create(c, k) PROVE PowerChain'
  <2>1. /\ Len(live') = n + 1 /\ live'[n + 1] = c
        /\ live' \in Seq(Chains)
        /\ \A j \in 1..n : live'[j] = live[j] /\ live'[j] # c
    BY <1>0, <1>2, LiveAdded DEF Create
  <2>2. DOMAIN live' = 1..n + 1
    BY <2>1
  <2>3. kind' = [kind EXCEPT ![c] = k]
    BY <1>2 DEF Create
  <2>4. /\ \A j \in 1..n : Display(j)' <=> Display(j)
        /\ Display(n + 1)' <=> k = "tdm"
    BY <1>0, <2>1, <2>3 DEF Display
  <2>5. \A j \in 1..n : saved'[live'[j]] = saved[live[j]]
    BY <1>0, <1>2, <2>1 DEF Create
  <2>6. /\ n > 0 => ~unread /\ before' = before
        /\ n = 0 => before' = dpms
    <3>1. PICK p : Remember(p)
      BY <1>2 DEF Create
    <3>2. /\ before' = IF live = <<>> THEN dpms ELSE before
          /\ live # <<>> => ~unread
      BY <3>1 DEF Remember
    <3> QED BY <1>0, <1>e, <3>2
  <2>7. /\ k = "tdm" => dpms' = "on" /\ saved'[c] = dpms
        /\ k # "tdm" => dpms' = dpms
    BY <1>0, <1>2 DEF Create, Remember
  <2>8. n > 0 => PowerChain
    BY <2>6 DEF PowerInv
  <2>9. dpms = IF \E i \in 1..n : Display(i) THEN "on" ELSE before'
    BY <1>0, <2>6, <2>8 DEF PowerChain
  <2>10. \A i \in 1..n : Display(i) =>
             saved[live[i]] = IF \E j \in 1..i - 1 : Display(j) THEN "on" ELSE before'
    BY <1>0, <2>6, <2>8 DEF PowerChain
  <2>11. ASSUME NEW i \in 1..n + 1, Display(i)'
         PROVE  saved'[live'[i]] = IF \E j \in 1..i - 1 : Display(j)' THEN "on" ELSE before'
    <3>1. CASE i \in 1..n
      <4>1. \A j \in 1..i - 1 : Display(j)' <=> Display(j)
        BY <1>0, <2>4, <3>1
      <4> QED BY <2>4, <2>5, <2>10, <2>11, <3>1, <4>1
    <3>2. CASE i = n + 1
      <4>1. k = "tdm" /\ i - 1 = n
        BY <1>0, <2>4, <2>11, <3>2
      <4> QED BY <2>1, <2>4, <2>7, <2>9, <3>2, <4>1
    <3> QED BY <1>0, <3>1, <3>2
  <2>12. dpms' = IF \E i \in 1..n + 1 : Display(i)' THEN "on" ELSE before'
    <3>1. CASE k = "tdm"
      BY <1>0, <2>4, <2>7, <3>1
    <3>2. CASE k # "tdm"
      <4>1. (\E i \in 1..n + 1 : Display(i)') <=> \E i \in 1..n : Display(i)
        BY <1>0, <2>4, <3>2
      <4> QED BY <2>7, <2>9, <3>2, <4>1
    <3> QED BY <3>1, <3>2
  <2> QED BY <2>2, <2>11, <2>12 DEF PowerChain
<1>3. ASSUME NEW c \in Chains, NEW k \in Kinds, NEW m \in DOMAIN Stages[k], CreateFails(c, k, m)
      PROVE  PowerChain'
  <2>1. UNCHANGED <<live, kind, saved>> /\ dpms' = dpms
    BY <1>3 DEF CreateFails, Remember
  <2>2. CASE live = <<>>
    <3>1. before' = dpms' /\ DOMAIN live' = {}
      BY <1>3, <2>1, <2>2 DEF CreateFails, Remember
    <3> QED BY <3>1 DEF PowerChain
  <2>3. CASE live # <<>>
    <3>1. before' = before /\ ~unread
      BY <1>3, <2>3 DEF CreateFails, Remember
    <3> QED BY <2>1, <3>1, <1>s
  <2> QED BY <2>2, <2>3
<1>4. ASSUME NEW c \in Chains, Destroy(c) PROVE PowerChain'
  <2>1. /\ n \in 1..n /\ live[n] = c /\ live' = RemoveAt(live, n)
        /\ UNCHANGED <<kind, saved, before, unread>>
        /\ dpms' = IF kind[c] = "tdm" THEN saved[c] ELSE dpms
    BY <1>0, <1>4 DEF Destroy
  <2>2. /\ live' \in Seq(Chains) /\ Len(live') = n - 1
        /\ \A j \in 1..n - 1 : live'[j] = live[j]
    BY <1>0, <2>1, LiveRemoved
  <2>3. DOMAIN live' = 1..n - 1
    BY <1>0, <2>2
  <2>4. \A j \in 1..n - 1 : Display(j)' <=> Display(j)
    BY <2>1, <2>2 DEF Display
  <2>5. PowerChain
    BY <2>1 DEF PowerInv
  <2>6. /\ \A i \in 1..n : Display(i) =>
              saved[live[i]] = IF \E j \in 1..i - 1 : Display(j) THEN "on" ELSE before
        /\ dpms = IF \E i \in 1..n : Display(i) THEN "on" ELSE before
    BY <1>0, <2>5 DEF PowerChain
  <2>7. dpms' = IF \E i \in 1..n - 1 : Display(i) THEN "on" ELSE before
    <3>1. CASE kind[c] = "tdm"
      BY <2>1, <2>6, <3>1 DEF Display
    <3>2. CASE kind[c] # "tdm"
      <4>1. ~Display(n)
        BY <2>1, <3>2 DEF Display
      <4>2. (\E i \in 1..n : Display(i)) <=> \E i \in 1..n - 1 : Display(i)
        BY <1>0, <4>1
      <4> QED BY <2>1, <2>6, <3>2, <4>2
    <3> QED BY <3>1, <3>2
  <2>8. ASSUME NEW i \in 1..n - 1, Display(i)'
        PROVE  saved'[live'[i]] = IF \E j \in 1..i - 1 : Display(j)' THEN "on" ELSE before'
    <3>1. /\ i \in 1..n /\ \A j \in 1..i - 1 : j \in 1..n - 1
      BY <1>0
    <3> QED BY <2>1, <2>2, <2>4, <2>6, <2>8, <3>1
  <2>9. dpms' = IF \E i \in 1..n - 1 : Display(i)' THEN "on" ELSE before'
    BY <2>1, <2>4, <2>7
  <2> QED BY <2>3, <2>8, <2>9 DEF PowerChain
<1>5. ASSUME NEW c \in Chains, Commit(c) \/ Callback(c) PROVE PowerChain'
  BY <1>5, <1>s DEF Commit, Callback
<1> QED BY <1>1, <1>2, <1>3, <1>4, <1>5 DEF Next

LEMMA PowerInit == Init => PowerInv
BY DEF Init, PowerInv, PowerChain

(* A display swapchain is on a powered output as long as swapchains are    *)
(* destroyed youngest first and every create, the failing ones included,   *)
(* has read the power state that its deinit writes back.                   *)
THEOREM OutputOnCorrect ==
    ASSUME Nested
    PROVE  Spec => []OutputOn
<1> DEFINE IInv == TypeInv /\ LiveOnce /\ PowerInv
<1>1. Init => IInv
  BY TypeInit, PowerInit
<1>2. IInv /\ [Next]_vars => IInv'
  BY TypeNext, PowerNext
<1>3. IInv => OutputOn
  BY DEF PowerInv, PowerChain, OutputOn, Live, Display
<1> QED BY <1>1, <1>2, <1>3, PTL DEF Spec

(* Under the same conditions the last swapchain leaves the output in the   *)
(* state the first one has found.                                          *)
THEOREM OutputRestoredCorrect ==
    ASSUME Nested
    PROVE  Spec => []OutputRestored
<1> DEFINE IInv == TypeInv /\ LiveOnce /\ PowerInv
<1>1. Init => IInv
  BY TypeInit, PowerInit
<1>2. IInv /\ [Next]_vars => IInv'
  BY TypeNext, PowerNext
<1>3. IInv => OutputRestored
  BY DEF PowerInv, PowerChain, OutputRestored
<1> QED BY <1>1, <1>2, <1>3, PTL DEF Spec
=============================================================================
