----------------------------- MODULE QueryProofs -----------------------------
(***************************************************************************)
(* The list queries answer for what they have counted: whatever the ICD's  *)
(* extensions, the supported formats and modes and the size of the array,  *)
(* a reply is right about the count of the first call.                     *)
(***************************************************************************)
EXTENDS Enumerate, TLAPS, SequenceTheorems, FiniteSetTheorems
-----------------------------------------------------------------------------
(* The k-th entry chosen is the one with k - 1 chosen ones before it: as   *)
(* the numbers of those before differ, each number occurs.                 *)
LEMMA ChosenProperties ==
    ASSUME NEW S, NEW table \in Seq(S), NEW P \in SUBSET (1..Len(table))
    PROVE  /\ IsFiniteSet(P) /\ Cardinality(P) \in Nat
           /\ Chosen(table, P) \in Seq(S) /\ Len(Chosen(table, P)) = Cardinality(P)
           /\ \A k \in 1..Cardinality(P) : \E i \in P : Chosen(table, P)[k] = table[i]
<1> DEFINE n == Cardinality(P)
           B(i) == {j \in P : j < i}
           f == [i \in P |-> Cardinality(B(i))]
<1>1. Len(table) \in Nat /\ \A i \in P : i \in 1..Len(table) /\ i \in Nat
  OBVIOUS
<1>2. IsFiniteSet(P) /\ n \in Nat
  <2>1. IsFiniteSet(1..Len(table))
    BY <1>1, FS_Interval
  <2>2. IsFiniteSet(P)
    BY <2>1, FS_Subset
  <2> QED BY <2>2, FS_CardinalityType
<1>3. \A i \in P : IsFiniteSet(B(i)) /\ Cardinality(B(i)) \in Nat /\ Cardinality(B(i)) < n
  <2> SUFFICES ASSUME NEW i \in P
               PROVE  IsFiniteSet(B(i)) /\ Cardinality(B(i)) \in Nat /\ Cardinality(B(i)) < n
    OBVIOUS
  <2>1. B(i) \in SUBSET P /\ i \notin B(i) /\ B(i) # P
    BY <1>1
  <2>2. /\ IsFiniteSet(B(i)) /\ Cardinality(B(i)) <= n
        /\ n = Cardinality(B(i)) => P = B(i)
    BY <1>2, <2>1, FS_Subset
  <2>3. Cardinality(B(i)) \in Nat
    BY <2>2, FS_CardinalityType
  <2> HIDE DEF B
  <2> QED BY <1>2, <2>1, <2>2, <2>3
<1>4. \A i, j \in P : i < j => Cardinality(B(i)) < Cardinality(B(j))
  <2> SUFFICES ASSUME NEW i \in P, NEW j \in P, i < j
               PROVE  Cardinality(B(i)) < Cardinality(B(j))
    OBVIOUS
  <2>1. B(i) \in SUBSET B(j) /\ i \in B(j) /\ i \notin B(i)
    <3>1. \A l \in P : l < i => l < j
      BY <1>1
    <3>2. i < j /\ ~(i < i)
      BY <1>1
    <3> QED BY <3>1, <3>2
  <2>2. /\ Cardinality(B(i)) <= Cardinality(B(j))
        /\ Cardinality(B(j)) = Cardinality(B(i)) => B(j) = B(i)
    BY <1>3, <2>1, FS_Subset
  <2> HIDE DEF B
  <2> QED BY <1>3, <2>1, <2>2
<1> HIDE DEF B
<1>5. f \in Injection(P, 0..n - 1)
  <2>1. f \in [P -> 0..n - 1]
    BY <1>2, <1>3
  <2>2. \A i, j \in P : f[i] = f[j] => i = j
    <3> SUFFICES ASSUME NEW i \in P, NEW j \in P, f[i] = f[j] PROVE i = j
      OBVIOUS
    <3>1. Cardinality(B(i)) = Cardinality(B(j)) /\ Cardinality(B(i)) \in Nat
      BY <1>3
    <3>2. ~(i < j) /\ ~(j < i)
      BY <1>3, <1>4, <3>1
    <3> QED BY <1>1, <3>2
  <2> QED BY <2>1, <2>2 DEF Injection, IsInjective
<1>6. f \in Surjection(P, 0..n - 1)
  <2>1. IsFiniteSet(0..n - 1) /\ Cardinality(0..n - 1) = n
    <3>1. n - 1 \in Int /\ 0 \in Int /\ (IF 0 > n - 1 THEN 0 ELSE (n - 1) - 0 + 1) = n
      BY <1>2
    <3> QED BY ONLY <3>1, FS_Interval
  <2> HIDE DEF f
  <2> QED BY <1>5, <2>1, FS_Injection
<1>7. ASSUME NEW k \in 1..n PROVE \E i \in P : Cardinality(B(i)) = k - 1
  <2>1. k - 1 \in 0..n - 1
    BY <1>2
  <2>2. PICK i \in P : f[i] = k - 1
    BY <1>6, <2>1 DEF Surjection
  <2> QED BY <2>2
<1> DEFINE c(k) == CHOOSE i \in P : Cardinality(B(i)) = k - 1
<1>8. \A k \in 1..n : c(k) \in P
  BY <1>7
<1>9. Chosen(table, P) = [k \in 1..n |-> table[c(k)]]
  BY DEF Chosen, B
<1> HIDE DEF c
<1>10. \A k \in 1..n : table[c(k)] \in S
  <2>1. \A i \in 1..Len(table) : table[i] \in S
    OBVIOUS
  <2> QED BY ONLY <1>1, <1>8, <2>1
<1>11. /\ Chosen(table, P) \in [1..n -> S]
       /\ \A k \in 1..n : Chosen(table, P)[k] = table[c(k)]
  BY ONLY <1>9, <1>10
<1>12. Chosen(table, P) \in Seq(S) /\ Len(Chosen(table, P)) = n
  BY ONLY <1>2, <1>11
<1> QED BY ONLY <1>2, <1>8, <1>11, <1>12

LEMMA InjectivePrefix ==
    ASSUME NEW S, NEW s \in Seq(S), IsInjective(s), NEW k \in 0..Len(s)
    PROVE  IsInjective(SubSeq(s, 1, k))
<1>1. SubSeq(s, 1, k) \in Seq(S) /\ Len(SubSeq(s, 1, k)) = k
      /\ \A i \in 1..k : SubSeq(s, 1, k)[i] = s[i] /\ i \in DOMAIN s
  OBVIOUS
<1> QED BY <1>1 DEF IsInjective

LEMMA InjectiveConcat ==
    ASSUME NEW S, NEW s \in Seq(S), NEW t \in Seq(S), IsInjective(s), IsInjective(t),
           \A i \in 1..Len(s), j \in 1..Len(t) : s[i] # t[j]
    PROVE  IsInjective(s \o t)
<1>1. /\ s \o t \in Seq(S) /\ Len(s \o t) = Len(s) + Len(t)
      /\ \A i \in 1..Len(s) + Len(t) :
            (s \o t)[i] = IF i <= Len(s) THEN s[i] ELSE t[i - Len(s)]
  BY ONLY ConcatProperties, s \in Seq(S), t \in Seq(S)
<1>2. /\ Len(s) \in Nat /\ Len(t) \in Nat /\ DOMAIN (s \o t) = 1..Len(s) + Len(t)
      /\ DOMAIN s = 1..Len(s) /\ DOMAIN t = 1..Len(t)
  BY <1>1
<1> DEFINE u == s \o t
<1> HIDE DEF u
<1> SUFFICES ASSUME NEW i \in 1..Len(s) + Len(t), NEW j \in 1..Len(s) + Len(t), u[i] = u[j]
             PROVE  i = j
  BY <1>2 DEF IsInjective, u
<1>3. \/ i \in 1..Len(s) /\ u[i] = s[i]
      \/ i - Len(s) \in 1..Len(t) /\ u[i] = t[i - Len(s)]
  BY <1>1, <1>2 DEF u
<1>4. \/ j \in 1..Len(s) /\ u[j] = s[j]
      \/ j - Len(s) \in 1..Len(t) /\ u[j] = t[j - Len(s)]
  BY <1>1, <1>2 DEF u
<1>5. /\ \A a, b \in 1..Len(s) : s[a] = s[b] => a = b
      /\ \A a, b \in 1..Len(t) : t[a] = t[b] => a = b
  BY <1>2 DEF IsInjective
<1>6. i - Len(s) = j - Len(s) => i = j
  BY <1>2
<1>7. CASE i \in 1..Len(s) /\ u[i] = s[i]
  BY <1>4, <1>5, <1>7
<1>8. CASE i - Len(s) \in 1..Len(t) /\ u[i] = t[i - Len(s)]
  BY <1>4, <1>5, <1>6, <1>8
<1> QED BY <1>3, <1>7, <1>8
-----------------------------------------------------------------------------
(* A reply that is right for a list of this length, in an array of n.      *)
Sound(r, length, n) ==
    /\ Len(r.written) <= n
    /\ r.result \in {"success", "incomplete"}
    /\ r.result = "incomplete" <=> Len(r.written) < length
    /\ n = length => r.count = n /\ Len(r.written) = n

LEMMA FillSound ==
    ASSUME NEW S, NEW list \in Seq(S), NEW n \in Nat
    PROVE  /\ Sound(Fill(list, n), Len(list), n)
           /\ \E k \in 0..Len(list) : /\ Fill(list, n).written = SubSeq(list, 1, k)
                                      /\ n >= Len(list) => k = Len(list)
<1> DEFINE k == Least(n, Len(list))
<1>1. /\ Len(list) \in Nat /\ k \in 0..Len(list) /\ k <= n /\ (n >= Len(list) => k = Len(list))
      /\ n < Len(list) => k < Len(list)
  BY DEF Least
<1> HIDE DEF k
<1>2. Len(SubSeq(list, 1, k)) = k
  BY <1>1
<1>3. Fill(list, n) = [count |-> k, written |-> SubSeq(list, 1, k),
                       result |-> IF k < Len(list) THEN "incomplete" ELSE "success"]
  BY DEF Fill, Reply, k
<1> QED BY <1>1, <1>2, <1>3 DEF Sound
-----------------------------------------------------------------------------
(* The WSI extensions, of which there is one, that are not among the names. *)
LEMMA MissingProperties ==
    ASSUME NEW names
    PROVE  /\ Missing(names) \in Seq({"swapchain"}) /\ Len(Missing(names)) \in 0..1
           /\ \A k \in 1..Len(Missing(names)) : Missing(names)[k] \notin Range(names)
<1> DEFINE P == {i \in DOMAIN WsiExtensions : WsiExtensions[i] \notin Range(names)}
<1>1. /\ WsiExtensions \in Seq({"swapchain"}) /\ Len(WsiExtensions) = 1
      /\ DOMAIN WsiExtensions = 1..1
  BY DEF WsiExtensions
<1>2. P \in SUBSET (1..Len(WsiExtensions)) /\ P \in SUBSET {1}
  BY <1>1
<1>3. Missing(names) = Chosen(WsiExtensions, P)
  BY DEF Missing
<1>4. \A i \in P : WsiExtensions[i] \notin Range(names)
  OBVIOUS
<1> HIDE DEF P
<1>5. /\ Missing(names) \in Seq({"swapchain"}) /\ Len(Missing(names)) = Cardinality(P)
      /\ Cardinality(P) \in Nat
      /\ \A k \in 1..Cardinality(P) : \E i \in P : Missing(names)[k] = WsiExtensions[i]
  BY ONLY <1>1, <1>2, <1>3, ChosenProperties
<1>6. Cardinality(P) <= 1
  <2>1. IsFiniteSet({1}) /\ Cardinality({1}) = 1
    BY FS_Singleton
  <2> QED BY ONLY <1>2, <2>1, FS_Subset
<1> QED BY <1>4, <1>5, <1>6

(* The reply about device extensions is right for the count of the first   *)
(* call, and names nothing twice.                                          *)
LEMMA DeviceExtensionsSound ==
    ASSUME NEW S, icd \in Seq(S), "swapchain" \in S, NEW n \in Nat
    PROVE  /\ Sound(DeviceExtensions(n), DeviceExtensionCount, n)
           /\ IsInjective(icd) => IsInjective(DeviceExtensions(n).written)
<1> DEFINE L == Len(icd)
           room == Least(n, L + 1)
           c == Least(room, L)
           copied == SubSeq(icd, 1, c)
           M == Missing(copied)
           m == Len(M)
           a == Least(room - c, m)
           added == SubSeq(M, 1, a)
           w == copied \o added
<1>1. L \in Nat /\ room \in Nat /\ c \in 0..L /\ c <= room /\ room <= n
      /\ (c < L => c = n /\ room = c) /\ (n >= L + 1 => room = L + 1) /\ (n <= L + 1 => room = n)
      /\ (c = L => room = L \/ room = L + 1)
  BY DEF Least
<1>2. /\ M \in Seq({"swapchain"}) /\ m \in 0..1
      /\ \A k \in 1..m : M[k] \notin Range(copied)
  BY MissingProperties
<1>3. /\ a \in 0..m /\ a <= room - c /\ (room = c => a = 0) /\ (m <= room - c => a = m)
  <2>1. m \in Nat /\ room - c \in Nat
    BY <1>1, <1>2
  <2> HIDE DEF m, room, c
  <2>2. a = Least(room - c, m)
    OBVIOUS
  <2>3. \A x, y \in Nat : /\ Least(x, y) \in 0..y /\ Least(x, y) <= x
                          /\ (x = 0 => Least(x, y) = 0) /\ (y <= x => Least(x, y) = y)
    BY DEF Least
  <2>4. room = c => room - c = 0
    BY <1>1
  <2> HIDE DEF a
  <2> QED BY ONLY <2>1, <2>2, <2>3, <2>4
<1>4. copied \in Seq(S) /\ Len(copied) = c /\ (c = L => copied = icd)
  <2>1. copied \in Seq(S) /\ Len(copied) = c
    BY <1>1
  <2>2. ASSUME c = L PROVE copied = icd
    <3>1. Len(copied) = Len(icd) /\ \A i \in 1..Len(copied) : copied[i] = icd[i]
      BY <1>1, <2>2
    <3> QED BY ONLY <2>1, <3>1, SeqEqual, icd \in Seq(S)
  <2> QED BY <2>1, <2>2
<1>5. added \in Seq(S) /\ Len(added) = a /\ \A k \in 1..a : added[k] = M[k]
  <2>1. M \in Seq(S)
    BY <1>2
  <2> HIDE DEF M
  <2> QED BY <1>2, <1>3, <2>1
<1> HIDE DEF copied, added
<1>6. w \in Seq(S) /\ Len(w) = c + a
  <2>1. copied \in Seq(S) /\ added \in Seq(S)
    BY <1>4, <1>5
  <2>2. copied \o added \in Seq(S) /\ Len(copied \o added) = Len(copied) + Len(added)
    BY ONLY <2>1, ConcatProperties
  <2> HIDE DEF c, a
  <2> QED BY <1>4, <1>5, <2>2
<1>7. DeviceExtensions(n) =
        [count |-> c + a, written |-> w,
         result |-> IF c + a < (L + 1) - (1 - m) THEN "incomplete" ELSE "success"]
  <2>1. Len(WsiExtensions) = 1
    BY DEF WsiExtensions
  <2> QED BY <1>4, <1>5, <2>1 DEF DeviceExtensions, Reply, copied, added
<1>8. Len(Missing(icd)) \in 0..1 /\ DeviceExtensionCount = L + Len(Missing(icd))
      /\ (c = L => Len(Missing(icd)) = m)
  BY <1>4, MissingProperties DEF DeviceExtensionCount
<1> HIDE DEF w, room, c, m, a, L
<1>9. /\ c + a <= n
      /\ c + a < (L + 1) - (1 - m) <=> c + a < DeviceExtensionCount
      /\ n = DeviceExtensionCount => c + a = n
  <2>1. CASE c = L
    BY <1>1, <1>2, <1>3, <1>8, <2>1
  <2>2. CASE c < L
    BY <1>1, <1>2, <1>3, <1>8, <2>2
  <2> QED BY <1>1, <2>1, <2>2
<1>10. Sound(DeviceExtensions(n), DeviceExtensionCount, n)
  BY <1>6, <1>7, <1>9 DEF Sound
<1>11. ASSUME IsInjective(icd) PROVE IsInjective(DeviceExtensions(n).written)
  <2>1. IsInjective(copied)
    BY ONLY <1>1, <1>11, InjectivePrefix, icd \in Seq(S) DEF copied, L
  <2>2. IsInjective(added)
    BY <1>2, <1>3, <1>5 DEF IsInjective
  <2>3. \A i \in 1..Len(copied), j \in 1..Len(added) : copied[i] # added[j]
    <3>1. \A i \in 1..Len(copied) : copied[i] \in Range(copied)
      BY <1>4 DEF Range
    <3>2. \A j \in 1..Len(added) : added[j] \notin Range(copied)
      BY <1>2, <1>3, <1>5
    <3> QED BY <3>1, <3>2
  <2>4. IsInjective(w)
    BY ONLY <1>4, <1>5, <2>1, <2>2, <2>3, InjectiveConcat DEF w
  <2> QED BY <1>7, <2>4
<1> QED BY <1>10, <1>11

(* Those about instance extensions, from a list of ICD and WSI ones. *)
LEMMA InstanceExtensionsList ==
    ASSUME NEW S, icd \in Seq(S), "surface" \in S, "wayland_surface" \in S
    PROVE  /\ InstanceExtensions \in Seq(S)
           /\ IsInjective(icd) /\ Range(icd) \cap Range(WsiInstanceExtensions) = {}
                => IsInjective(InstanceExtensions)
<1> DEFINE W == WsiInstanceExtensions
           n == Len(icd) + Len(W)
<1>1. /\ W \in Seq(S) /\ Len(W) = 2 /\ IsInjective(W) /\ n \in Nat /\ n >= Len(icd)
      /\ \A i \in 1..Len(W) : W[i] \in Range(W)
  BY DEF WsiInstanceExtensions, IsInjective, Range
<1> HIDE DEF W, n
<1>2. PICK k \in 0..Len(icd) : /\ Fill(icd, n).written = SubSeq(icd, 1, k)
                               /\ n >= Len(icd) => k = Len(icd)
  BY <1>1, FillSound
<1>3. Fill(icd, n).written = icd
  <2>1. SubSeq(icd, 1, Len(icd)) = icd
    BY ONLY SubSeqFull, icd \in Seq(S)
  <2> QED BY <1>1, <1>2, <2>1
<1>4. InstanceExtensions = icd \o W
  BY <1>3 DEF InstanceExtensions, W, n
<1>5. icd \o W \in Seq(S)
  BY <1>1, ConcatProperties
<1>6. ASSUME IsInjective(icd), Range(icd) \cap Range(W) = {} PROVE IsInjective(icd \o W)
  <2>1. \A i \in 1..Len(icd) : icd[i] \in Range(icd)
    BY DEF Range
  <2>2. \A i \in 1..Len(icd), j \in 1..Len(W) : icd[i] # W[j]
    BY <1>1, <1>6, <2>1
  <2> QED BY ONLY <1>1, <1>6, <2>2, InjectiveConcat, icd \in Seq(S)
<1> QED BY <1>4, <1>5, <1>6 DEF W
-----------------------------------------------------------------------------
(* The table of formats. *)
LEMMA TableProperties ==
    /\ SupportedFormats \in Seq(Range(SupportedFormats)) /\ Len(SupportedFormats) = 22
    /\ DOMAIN SupportedFormats = 1..22
    /\ \A i \in 1..22 : SupportedFormats[i] \in Range(SupportedFormats)
<1>1. /\ DOMAIN SupportedFormats = 1..22
      /\ SupportedFormats = [i \in 1..22 |-> SupportedFormats[i]]
  BY DEF SupportedFormats
<1>2. \A i \in 1..22 : SupportedFormats[i] \in Range(SupportedFormats)
  BY <1>1 DEF Range
<1>3. SupportedFormats \in [1..22 -> Range(SupportedFormats)]
  BY ONLY <1>1, <1>2
<1>4. SupportedFormats \in Seq(Range(SupportedFormats))
  BY ONLY <1>3, SeqDef
<1>5. Len(SupportedFormats) = 22
  BY ONLY <1>1, <1>4
<1> QED BY ONLY <1>1, <1>2, <1>4, <1>5

LEMMA FormatsProperties ==
    /\ Formats \in Seq(Range(SupportedFormats))
    /\ \A i \in DOMAIN Formats : \E j \in 1..22 : Formats[i] = SupportedFormats[j]
<1> DEFINE P == {i \in DOMAIN SupportedFormats : SupportedFormats[i][1] \in tbm}
<1>1. P \in SUBSET (1..Len(SupportedFormats)) /\ Formats = Chosen(SupportedFormats, P)
  BY TableProperties DEF Formats
<1> HIDE DEF P
<1>2. SupportedFormats \in Seq(Range(SupportedFormats))
  BY TableProperties
<1>3. /\ Chosen(SupportedFormats, P) \in Seq(Range(SupportedFormats))
      /\ Len(Chosen(SupportedFormats, P)) = Cardinality(P)
      /\ \A k \in 1..Cardinality(P) : \E i \in P : Chosen(SupportedFormats, P)[k] = SupportedFormats[i]
  BY ONLY <1>1, <1>2, ChosenProperties
<1>4. DOMAIN Formats = 1..Cardinality(P) /\ Formats \in Seq(Range(SupportedFormats))
  BY ONLY <1>1, <1>3
<1>5. \A i \in P : i \in 1..22
  BY <1>1, TableProperties
<1> QED BY ONLY <1>1, <1>3, <1>4, <1>5

(* What vk_CreateSwapchainKHR accepts is as listed: get_tbm_format against *)
(* supported_formats, row by row.                                          *)
LEMMA TablesAgree ==
    \A i \in 1..22 :
        LET f == SupportedFormats[i][2] IN
        /\ f \in DOMAIN get_tbm_format
        /\ \A j \in 1..22, alpha \in CompositeAlphas :
               SupportedFormats[j][1] = get_tbm_format[f][alpha] => SupportedFormats[j][2] = f
<1>1. \A i \in 1..22 : SupportedFormats[i][2] \in DOMAIN get_tbm_format
  BY DEF SupportedFormats, get_tbm_format
<1>2. \A j \in 1..22, f \in DOMAIN get_tbm_format :
         SupportedFormats[j][1] = get_tbm_format[f]["opaque"] => SupportedFormats[j][2] = f
  BY DEF SupportedFormats, get_tbm_format, ThreeBytes
<1>3. \A j \in 1..22, f \in DOMAIN get_tbm_format :
         SupportedFormats[j][1] = get_tbm_format[f]["premultiplied"] => SupportedFormats[j][2] = f
  BY DEF SupportedFormats, get_tbm_format, ThreeBytes
<1> QED BY <1>1, <1>2, <1>3 DEF CompositeAlphas

(* As no present mode is named twice, as many are chosen as the window has. *)
LEMMA ModesChosen ==
    ASSUME tplModes \subseteq Range(PresentModes)
    PROVE  LET modes == Chosen(PresentModes, {i \in DOMAIN PresentModes : PresentModes[i] \in tplModes})
           IN  modes \in Seq(Range(PresentModes)) /\ Len(modes) = Cardinality(tplModes)
<1> DEFINE P == {i \in DOMAIN PresentModes : PresentModes[i] \in tplModes}
           f == [i \in P |-> PresentModes[i]]
<1>1. PresentModes \in Seq({"FIFO", "MAILBOX", "IMMEDIATE", "FIFO_RELAXED"})
  BY DEF PresentModes
<1>2. DOMAIN PresentModes = 1..4 /\ Len(PresentModes) = 4 /\ IsInjective(PresentModes)
  BY DEF PresentModes, IsInjective
<1>3. PresentModes \in Seq(Range(PresentModes))
  <2>1. \A i \in 1..4 : PresentModes[i] \in Range(PresentModes)
    BY <1>2 DEF Range
  <2>2. PresentModes = [i \in 1..4 |-> PresentModes[i]]
    BY DEF PresentModes
  <2>3. PresentModes \in [1..4 -> Range(PresentModes)]
    BY ONLY <2>1, <2>2
  <2>4. /\ Len(PresentModes) \in Nat
        /\ PresentModes \in [1..Len(PresentModes) -> Range(PresentModes)]
    BY <1>2, <2>3
  <2> QED BY ONLY <2>4
<1>4. P \in SUBSET (1..Len(PresentModes))
  BY <1>2
<1>5. f \in Bijection(P, tplModes)
  <2>1. f \in [P -> tplModes] /\ IsInjective(f)
    BY <1>2 DEF IsInjective
  <2>2. \A m \in tplModes : \E i \in P : f[i] = m
    BY <1>2 DEF Range
  <2> HIDE DEF f, P
  <2> QED BY <2>1, <2>2 DEF Bijection, Injection, Surjection
<1> HIDE DEF P, f
<1>6. /\ IsFiniteSet(P)
      /\ Chosen(PresentModes, P) \in Seq(Range(PresentModes))
      /\ Len(Chosen(PresentModes, P)) = Cardinality(P)
  BY ONLY <1>3, <1>4, ChosenProperties
<1>7. ExistsBijection(P, tplModes)
  BY <1>5 DEF ExistsBijection
<1>8. Cardinality(tplModes) = Cardinality(P)
  BY ONLY <1>6, <1>7, FS_Bijection
<1> QED BY <1>6, <1>8 DEF P

(* What the queries rely on: the lists of the environment do not change    *)
(* between the calls, the count is that of the list, the reply that of the *)
(* last call.                                                              *)
Environment ==
    /\ op \in Queries
    /\ icd \in Seq(IcdNames) /\ IsInjective(icd)
    /\ tplModes \subseteq Range(PresentModes)
    /\ items \in Seq(Nat)
    /\ limit \in Nat

QueryInv ==
    /\ Environment
    /\ asked = -1 \/ asked = Count[op]
    /\ reply = NoReply \/ reply = Filled(limit)[op]

Extensions == IcdNames \cup {"surface", "wayland_surface", "swapchain"}

LEMMA IcdExtensions ==
    ASSUME Environment
    PROVE  /\ icd \in Seq(Extensions) /\ "swapchain" \in Extensions
           /\ "surface" \in Extensions /\ "wayland_surface" \in Extensions
           /\ IsInjective(icd)
<1>1. Len(icd) \in Nat /\ icd \in [1..Len(icd) -> IcdNames] /\ IsInjective(icd)
  BY DEF Environment
<1>2. icd \in [1..Len(icd) -> Extensions]
  BY <1>1 DEF Extensions
<1> QED BY <1>1, <1>2 DEF Extensions

LEMMA FilledSound ==
    ASSUME Environment, NEW n \in Nat
    PROVE  Sound(Filled(n)[op], Count[op], n) /\ Count[op] # -1
<1>1. op \in Queries
  BY DEF Environment
<1>2. CASE op \in {"images", "displays"}
  <2>1. items \in Seq(Nat)
    BY DEF Environment
  <2>2. Sound(Fill(items, n), Len(items), n)
    BY ONLY <2>1, n \in Nat, FillSound
  <2>3. Filled(n)[op] = Fill(items, n) /\ Count[op] = Len(items)
    BY <1>2 DEF Filled, Count, SwapchainImages, DisplayQuery
  <2> QED BY <2>1, <2>2, <2>3
<1>3. CASE op = "formats"
  <2> DEFINE listed == [i \in DOMAIN Formats |-> Formats[i][2]]
  <2>1. Len(Formats) \in Nat /\ DOMAIN Formats = 1..Len(Formats)
    BY FormatsProperties
  <2>2. listed \in [1..Len(Formats) -> Range(listed)]
    BY <2>1 DEF Range
  <2>3. listed \in Seq(Range(listed)) /\ Len(listed) = Len(Formats)
    BY ONLY <2>1, <2>2
  <2>4. Filled(n)[op] = Fill(listed, n) /\ Count[op] = Len(listed)
    BY <1>3, <2>3 DEF Filled, Count, SurfaceFormats
  <2> HIDE DEF listed
  <2>5. Sound(Fill(listed, n), Len(listed), n)
    BY ONLY <2>3, n \in Nat, FillSound
  <2> QED BY <2>1, <2>3, <2>4, <2>5
<1>4. CASE op = "tpl_modes"
  <2> DEFINE P == {i \in DOMAIN PresentModes : PresentModes[i] \in tplModes}
  <2>1. /\ Chosen(PresentModes, P) \in Seq(Range(PresentModes))
        /\ Len(Chosen(PresentModes, P)) = Cardinality(tplModes)
    BY ModesChosen DEF Environment
  <2>2. Filled(n)[op] = Fill(Chosen(PresentModes, P), n) /\ Count[op] = Cardinality(tplModes)
    BY <1>4 DEF Filled, Count, TplPresentModes
  <2> HIDE DEF P
  <2>3. Sound(Fill(Chosen(PresentModes, P), n), Len(Chosen(PresentModes, P)), n)
    BY ONLY <2>1, n \in Nat, FillSound
  <2>4. Len(Chosen(PresentModes, P)) \in Nat
    BY ONLY <2>1
  <2> QED BY <2>1, <2>2, <2>3, <2>4
<1>5. CASE op = "tdm_modes"
  <2> DEFINE k == Least(n, 4)
             w == SubSeq(PresentModes, 1, k)
  <2>1. k \in 0..4 /\ k <= n /\ (n < 4 => k = n) /\ (n >= 4 => k = 4)
    BY DEF Least
  <2> HIDE DEF k
  <2>2. PresentModes \in Seq({"FIFO", "MAILBOX", "IMMEDIATE", "FIFO_RELAXED"}) /\ Len(PresentModes) = 4
    BY DEF PresentModes
  <2>3. Len(w) = k
    BY <2>1, <2>2
  <2> HIDE DEF w
  <2>4. /\ Filled(n)[op] = [count |-> n, written |-> w,
                            result |-> IF n < 4 THEN "incomplete" ELSE "success"]
        /\ Count[op] = 4
    BY <1>5 DEF Filled, Count, TdmPresentModes, Reply, w, k
  <2> QED BY <2>1, <2>3, <2>4 DEF Sound
<1>6. CASE op = "extensions"
  <2>1. Sound(DeviceExtensions(n), DeviceExtensionCount, n)
    BY ONLY Environment, n \in Nat, IcdExtensions, DeviceExtensionsSound
  <2>2. DeviceExtensionCount \in Nat
    <3>1. Len(icd) \in Nat
      BY DEF Environment
    <3>2. Len(Missing(icd)) \in 0..1
      BY MissingProperties
    <3> QED BY <3>1, <3>2 DEF DeviceExtensionCount
  <2>3. Filled(n)[op] = DeviceExtensions(n) /\ Count[op] = DeviceExtensionCount
    BY <1>6 DEF Filled, Count
  <2> QED BY <2>1, <2>2, <2>3
<1>7. CASE op = "instance_extensions"
  <2>1. InstanceExtensions \in Seq(Extensions)
    BY ONLY Environment, IcdExtensions, InstanceExtensionsList
  <2>2. Sound(Fill(InstanceExtensions, n), Len(InstanceExtensions), n)
    BY ONLY <2>1, n \in Nat, FillSound
  <2>3. Filled(n)[op] = Fill(InstanceExtensions, n) /\ Count[op] = Len(InstanceExtensions)
    BY <1>7 DEF Filled, Count
  <2>4. Len(InstanceExtensions) \in Nat
    BY ONLY <2>1
  <2> QED BY <2>2, <2>3, <2>4
<1> QED BY <1>1, <1>2, <1>3, <1>4, <1>5, <1>6, <1>7 DEF Queries
-----------------------------------------------------------------------------
LEMMA InitQueries == Init => QueryInv
<1> SUFFICES ASSUME Init PROVE QueryInv
  OBVIOUS
<1>1. op \in Queries /\ asked = -1 /\ reply = NoReply /\ limit \in Nat
  BY DEF Init
<1>2. icd \in Seq(IcdNames) /\ IsInjective(icd)
  <2>1. CASE icd = <<>>
    BY <2>1 DEF IsInjective
  <2>2. CASE icd \in SetToAllKPermutations(IcdNames)
    <3>1. PICK s \in SUBSET IcdNames : icd \in SetToSeqs(s)
      BY <2>2 DEF SetToAllKPermutations
    <3>2. Cardinality(s) \in Nat
      BY QueriesAssumption, FS_Subset, FS_CardinalityType
    <3>3. icd \in [1..Cardinality(s) -> s] /\ \A i, j \in 1..Cardinality(s) : i # j => icd[i] # icd[j]
      BY <3>1 DEF SetToSeqs
    <3>4. icd \in [1..Cardinality(s) -> IcdNames] /\ DOMAIN icd = 1..Cardinality(s)
      BY <3>3
    <3> QED BY <3>2, <3>3, <3>4 DEF IsInjective
  <2> QED BY <2>1, <2>2 DEF Init
<1>3. tplModes \subseteq Range(PresentModes)
  BY DEF Init
<1>4. items \in Seq(Nat)
  <2>1. CASE items = <<>>
    BY <2>1
  <2>2. CASE \E n \in 0..MaxItems : items = [i \in 1..n |-> i]
    <3>1. PICK n \in 0..MaxItems : items = [i \in 1..n |-> i]
      BY <2>2
    <3>2. n \in Nat
      BY QueriesAssumption
    <3> QED BY <3>1, <3>2
  <2> QED BY <2>1, <2>2 DEF Init
<1> QED BY <1>1, <1>2, <1>3, <1>4 DEF QueryInv, Environment

LEMMA StepQueries == QueryInv /\ [Next]_vars => QueryInv'
<1> SUFFICES ASSUME QueryInv, [Next]_vars PROVE QueryInv'
  OBVIOUS
<1> USE DEF QueryInv
<1>1. ASSUME UNCHANGED <<environment, op>>
      PROVE  /\ Count' = Count /\ (limit' \in Nat => Environment')
             /\ \A n : Filled(n)' = Filled(n)
  BY <1>1 DEF environment, Environment, Count, Filled, SwapchainImages, DisplayQuery,
     SurfaceFormats, Formats, TplPresentModes, TdmPresentModes, DeviceExtensions,
     DeviceExtensionCount, InstanceExtensions
<1>2. CASE Ask
  BY <1>1, <1>2 DEF Ask
<1>3. ASSUME NEW n \in 0..MaxLimit, Get(n) PROVE QueryInv'
  <2>1. n \in Nat
    BY QueriesAssumption
  <2>2. /\ limit' = n /\ reply' = Filled(n)[op] /\ op' = op /\ asked' = asked
        /\ UNCHANGED <<environment, op>>
    BY <1>3 DEF Get
  <2>3. Filled(n)' = Filled(n) /\ Count' = Count /\ Environment'
    BY <1>1, <2>1, <2>2
  <2>4. reply' = (Filled(limit)[op])'
    BY <2>2, <2>3 DEF Filled
  <2> QED BY <2>2, <2>3, <2>4
<1>4. CASE UNCHANGED vars
  <2>1. UNCHANGED <<environment, op>> /\ limit' = limit /\ reply' = reply /\ asked' = asked
    BY <1>4 DEF vars, environment
  <2> QED BY <1>1, <1>4, <2>1 DEF vars, Filled, Environment
<1> QED BY <1>2, <1>3, <1>4 DEF Next

LEMMA QueriesInvariant == Spec => []QueryInv
BY InitQueries, StepQueries, PTL DEF Spec

(* After a call that has filled something, the reply is right. *)
LEMMA ReplySound ==
    ASSUME QueryInv, reply.result # "none"
    PROVE  reply = Filled(limit)[op] /\ Sound(reply, Count[op], limit)
<1>1. NoReply.result = "none"
  BY DEF NoReply, Reply
<1>2. reply = Filled(limit)[op] /\ Environment /\ limit \in Nat
  BY <1>1 DEF QueryInv, Environment
<1> QED BY <1>2, FilledSound
-----------------------------------------------------------------------------
(* One round is enough: an array of the size that vkEnumerate..., a        *)
(* vkGet...SurfaceFormatsKHR or another query of the library has counted   *)
(* is filled to the last place and reported complete.                      *)
THEOREM OneRoundCorrect == Spec => []OneRoundIsEnough
<1>1. QueryInv => OneRoundIsEnough
  <2> SUFFICES ASSUME QueryInv, asked >= 0, limit = asked, reply.result # "none"
               PROVE  /\ reply.result = "success"
                      /\ reply.count = asked /\ Len(reply.written) = asked
    BY DEF OneRoundIsEnough
  <2>1. asked = Count[op]
    <3>1. asked # -1
      OBVIOUS
    <3> QED BY <3>1 DEF QueryInv
  <2>2. Sound(reply, Count[op], limit)
    BY ReplySound
  <2>3. limit \in Nat
    BY DEF QueryInv, Environment
  <2> QED BY <2>1, <2>2, <2>3 DEF Sound
<1> QED BY <1>1, QueriesInvariant, PTL

(* No query of the library writes behind the array of the application, and *)
(* VK_INCOMPLETE is returned if and only if something has been left out.   *)
THEOREM RepliesCorrect == Spec => []RepliesHonest
<1>1. QueryInv => RepliesHonest
  BY ReplySound DEF RepliesHonest, Sound
<1> QED BY <1>1, QueriesInvariant, PTL

(* vkEnumerateDeviceExtensionProperties names no extension twice, also if  *)
(* the ICD has those of the WSI layer, nor does the list of the instance   *)
(* extensions unless the ICD has one of the layer's.                       *)
THEOREM ExtensionsCorrect == Spec => []ExtensionsOnce
<1>1. QueryInv => ExtensionsOnce
  <2> SUFFICES ASSUME QueryInv, op \in {"extensions", "instance_extensions"}
               PROVE  \/ IsInjective(reply.written)
                      \/ op = "instance_extensions" /\ Range(icd) \cap Range(WsiInstanceExtensions) # {}
    BY DEF ExtensionsOnce
  <2>1. Environment /\ limit \in Nat
    BY DEF QueryInv, Environment
  <2>2. CASE reply = NoReply
    BY <2>2 DEF NoReply, Reply, IsInjective
  <2>3. CASE reply = Filled(limit)[op] /\ op = "extensions"
    <3>1. reply = DeviceExtensions(limit)
      BY <2>3 DEF Filled
    <3>2. IsInjective(DeviceExtensions(limit).written)
      BY ONLY <2>1, IcdExtensions, DeviceExtensionsSound
    <3> QED BY <3>1, <3>2
  <2>4. CASE reply = Filled(limit)[op] /\ op = "instance_extensions"
            /\ Range(icd) \cap Range(WsiInstanceExtensions) = {}
    <3>1. reply = Fill(InstanceExtensions, limit)
      BY <2>4 DEF Filled
    <3>2. InstanceExtensions \in Seq(Extensions) /\ IsInjective(InstanceExtensions)
      BY ONLY <2>1, <2>4, IcdExtensions, InstanceExtensionsList
    <3>3. PICK k \in 0..Len(InstanceExtensions) :
                 Fill(InstanceExtensions, limit).written = SubSeq(InstanceExtensions, 1, k)
      BY ONLY <2>1, <3>2, FillSound
    <3>4. IsInjective(SubSeq(InstanceExtensions, 1, k))
      BY ONLY <3>2, k \in 0..Len(InstanceExtensions), InjectivePrefix
    <3> QED BY <3>1, <3>3, <3>4
  <2> QED BY <2>2, <2>3, <2>4 DEF QueryInv
<1> QED BY <1>1, QueriesInvariant, PTL

(* Whatever TBM formats a surface supports, vk_CreateSwapchainKHR accepts  *)
(* each Vulkan format it lists with each composite alpha, and takes for it *)
(* a TBM format that supported_formats does not list as another one.       *)
THEOREM FormatsCorrect == Spec => []FormatsCreatable
<1>1. FormatsCreatable
  <2> DEFINE listed == Formats
  <2>1. \A i \in DOMAIN listed : \E j \in 1..22 : listed[i] = SupportedFormats[j]
    BY FormatsProperties
  <2> HIDE DEF listed
  <2>2. DOMAIN SupportedFormats = 1..22
    BY TableProperties
  <2>3. FormatsCreatable <=>
          \A i \in DOMAIN listed : \A alpha \in CompositeAlphas :
             LET f == listed[i][2] IN
             /\ f \in DOMAIN get_tbm_format
             /\ \A j \in DOMAIN SupportedFormats :
                    SupportedFormats[j][1] = get_tbm_format[f][alpha] => SupportedFormats[j][2] = f
    BY DEF FormatsCreatable, listed
  <2> SUFFICES ASSUME NEW i \in DOMAIN listed, NEW alpha \in CompositeAlphas
               PROVE  LET f == listed[i][2] IN
                      /\ f \in DOMAIN get_tbm_format
                      /\ \A j \in DOMAIN SupportedFormats :
                           SupportedFormats[j][1] = get_tbm_format[f][alpha] => SupportedFormats[j][2] = f
    BY <2>3
  <2>4. PICK j \in 1..22 : listed[i] = SupportedFormats[j]
    BY <2>1
  <2>5. LET f == SupportedFormats[j][2] IN
        /\ f \in DOMAIN get_tbm_format
        /\ \A l \in 1..22 : SupportedFormats[l][1] = get_tbm_format[f][alpha] => SupportedFormats[l][2] = f
    BY ONLY j \in 1..22, alpha \in CompositeAlphas, TablesAgree
  <2> QED BY ONLY <2>2, <2>4, <2>5
<1> QED BY <1>1, PTL
=============================================================================
