---------------------------- MODULE LibraryProofs ----------------------------
(***************************************************************************)
(* The hash map is a map: whatever the hash function, the kind of the keys *)
(* and the history, an operation on a key changes what that key finds, and *)
(* nothing else; and it frees what it was given to free, once.  The ring   *)
(* of a list carries its elements in their order, through every operation  *)
(* and every loop, for any heads and elements.                             *)
(***************************************************************************)
EXTENDS VkMap, VkList, TLAPS, SequenceTheorems, FiniteSetTheorems

MapEntries == [key : Keys(kind), data : Nat, free_func : BOOLEAN]

MapTypeInv ==
    /\ kind \in {"int32", "int64", "string"}
    /\ hash \in [Keys(kind) -> 0..bucket_mask]
    /\ buckets \in [0..bucket_mask -> Seq(MapEntries)]
    /\ owned \in Seq(BOOLEAN)

(* An entry is in the bucket of its key, and no two entries of a bucket    *)
(* compare equal: the first match is the only one.                         *)
HomeInv == \A b \in 0..bucket_mask : \A i \in DOMAIN buckets[b] : hash[buckets[b][i].key] = b
OneEntryInv ==
    \A b \in 0..bucket_mask : \A i, j \in DOMAIN buckets[b] :
        key_compare_func(buckets[b][i].key, buckets[b][j].key) => i = j

MapInv == MapTypeInv /\ HomeInv /\ OneEntryInv

(* What Find returns: the place of an entry that matches, if there is one. *)
Match(k, i) == key_compare_func(get_bucket(k)[i].key, k)
FindsMatch ==
    \A k \in Keys(kind) :
        /\ get_bucket(k) \in Seq(MapEntries) /\ Len(get_bucket(k)) \in Nat
        /\ Find(k) # 0 => Find(k) \in 1..Len(get_bucket(k)) /\ Match(k, Find(k))
        /\ \A i \in 1..Len(get_bucket(k)) : Match(k, i) => Find(k) = i
-----------------------------------------------------------------------------
(* Comparing keys is an equivalence, whatever the kind. *)
LEMMA CompareEquivalence ==
    ASSUME MapTypeInv
    PROVE  /\ \A k : key_compare_func(k, k)
           /\ \A k, l : key_compare_func(k, l) => key_compare_func(l, k)
           /\ \A k, l, m : key_compare_func(k, l) /\ key_compare_func(l, m) => key_compare_func(k, m)
<1>1. kind \in {"int32", "int64", "string"}
  BY DEF MapTypeInv
<1> USE DEF key_compare_func, int32_key_compare, int64_key_compare, string_key_compare
<1>2. CASE kind = "int32"
  BY ONLY <1>2
<1>3. CASE kind = "int64"
  BY ONLY <1>3
<1>4. CASE kind = "string"
  BY ONLY <1>4
<1> QED BY ONLY <1>1, <1>2, <1>3, <1>4

LEMMA FindCorrect == MapInv => FindsMatch
<1> SUFFICES ASSUME MapInv, NEW k \in Keys(kind)
             PROVE  /\ get_bucket(k) \in Seq(MapEntries) /\ Len(get_bucket(k)) \in Nat
                    /\ Find(k) # 0 => Find(k) \in 1..Len(get_bucket(k)) /\ Match(k, Find(k))
                    /\ \A i \in 1..Len(get_bucket(k)) : Match(k, i) => Find(k) = i
  BY DEF FindsMatch
<1> DEFINE s == get_bucket(k)
           I == {i \in 1..Len(s) : key_compare_func(s[i].key, k)}
<1>1. hash[k] \in 0..bucket_mask /\ s = buckets[hash[k]] /\ s \in Seq(MapEntries)
  BY DEF MapInv, MapTypeInv, get_bucket
<1>2. Len(s) \in Nat /\ DOMAIN s = 1..Len(s)
  BY <1>1
<1>3. ASSUME NEW i \in I, NEW j \in I PROVE i = j
  <2>1. key_compare_func(s[i].key, s[j].key)
    BY CompareEquivalence DEF MapInv
  <2> QED BY <1>1, <1>2, <2>1 DEF MapInv, OneEntryInv
<1>4. Find(k) = IF I # {} THEN Min(I) ELSE 0
  BY DEF Find, SelectInSeq
<1>5. ASSUME NEW i \in I PROVE Find(k) = i
  <2>1. I = {i}
    BY <1>3
  <2>2. Min({i}) = i
    BY <1>2 DEF Min
  <2> QED BY <1>4, <2>1, <2>2
<1>6. \A i \in 1..Len(s) : Match(k, i) <=> i \in I
  BY DEF Match
<1> QED
  <2>1. CASE I = {}
    BY <1>1, <1>2, <1>4, <1>6, <2>1
  <2>2. CASE I # {}
    BY <1>1, <1>2, <1>5, <1>6, <2>2
  <2> QED BY <2>1, <2>2

(* What a key finds, in terms of its bucket alone. *)
Holds(k, d) == \E i \in 1..Len(get_bucket(k)) : Match(k, i) /\ get_bucket(k)[i].data = d
Absent(k) == \A i \in 1..Len(get_bucket(k)) : ~Match(k, i)

GetsHeld ==
    \A k \in Keys(kind) :
        /\ \A d : Holds(k, d) => vk_map_get(k) = d
        /\ Absent(k) => vk_map_get(k) = 0
        /\ Absent(k) \/ \E d : Holds(k, d)

LEMMA GetCorrect == MapInv => GetsHeld
<1> SUFFICES ASSUME MapInv, NEW k \in Keys(kind)
             PROVE  /\ \A d : Holds(k, d) => vk_map_get(k) = d
                    /\ Absent(k) => vk_map_get(k) = 0
                    /\ Absent(k) \/ \E d : Holds(k, d)
  BY DEF GetsHeld
<1>1. /\ Len(get_bucket(k)) \in Nat
      /\ Find(k) # 0 => Find(k) \in 1..Len(get_bucket(k)) /\ Match(k, Find(k))
      /\ \A i \in 1..Len(get_bucket(k)) : Match(k, i) => Find(k) = i
  BY FindCorrect DEF FindsMatch
<1>2. ASSUME NEW d, Holds(k, d) PROVE vk_map_get(k) = d
  <2>1. PICK i \in 1..Len(get_bucket(k)) : Match(k, i) /\ get_bucket(k)[i].data = d
    BY <1>2 DEF Holds
  <2>2. Find(k) = i /\ i # 0
    BY <1>1, <2>1
  <2> QED BY <2>1, <2>2 DEF vk_map_get
<1>3. Absent(k) => vk_map_get(k) = 0
  BY <1>1 DEF Absent, vk_map_get
<1>4. Absent(k) \/ \E d : Holds(k, d)
  BY DEF Absent, Holds
<1> QED BY <1>2, <1>3, <1>4

LEMMA GetCorrectNext == MapInv' => GetsHeld'
BY GetCorrect, PTL
-----------------------------------------------------------------------------
(* Changing one bucket leaves the others as they are. *)
LEMMA OtherBuckets ==
    ASSUME MapTypeInv, NEW k \in Keys(kind), NEW entries, Store(k, entries), UNCHANGED <<kind, hash>>
    PROVE  /\ \A l \in Keys(kind) :
                  get_bucket(l)' = IF hash[l] = hash[k] THEN entries ELSE get_bucket(l)
           /\ \A b \in 0..bucket_mask : buckets'[b] = IF b = hash[k] THEN entries ELSE buckets[b]
           /\ \A l, m : key_compare_func(l, m)' <=> key_compare_func(l, m)
<1>1. hash \in [Keys(kind) -> 0..bucket_mask] /\ buckets \in [0..bucket_mask -> Seq(MapEntries)]
  BY DEF MapTypeInv
<1>2. buckets' = [buckets EXCEPT ![hash[k]] = entries] /\ hash' = hash /\ kind' = kind
  BY DEF Store
<1>3. \A b \in 0..bucket_mask : buckets'[b] = IF b = hash[k] THEN entries ELSE buckets[b]
  BY <1>1, <1>2
<1>4. \A l \in Keys(kind) : get_bucket(l)' = IF hash[l] = hash[k] THEN entries ELSE get_bucket(l)
  BY <1>1, <1>2, <1>3 DEF get_bucket
<1>5. \A l, m : key_compare_func(l, m)' <=> key_compare_func(l, m)
  BY <1>2 DEF key_compare_func
<1> QED BY <1>3, <1>4, <1>5

(* A bucket keeps the invariant if the entries put into it are of its      *)
(* keys, and do not match each other.                                      *)
LEMMA StoreKeepsInv ==
    ASSUME MapInv, NEW k \in Keys(kind), NEW entries \in Seq(MapEntries), Store(k, entries),
           UNCHANGED <<kind, hash>>, owned' \in Seq(BOOLEAN),
           \A i \in 1..Len(entries) : hash[entries[i].key] = hash[k],
           \A i, j \in 1..Len(entries) : key_compare_func(entries[i].key, entries[j].key) => i = j
    PROVE  MapInv'
<1>1. hash[k] \in 0..bucket_mask /\ hash' = hash /\ kind' = kind /\ MapEntries' = MapEntries
      /\ Keys(kind)' = Keys(kind) /\ bucket_mask' = bucket_mask
  BY DEF MapInv, MapTypeInv, MapEntries
<1>2. /\ \A b \in 0..bucket_mask : buckets'[b] = IF b = hash[k] THEN entries ELSE buckets[b]
      /\ \A l, m : key_compare_func(l, m)' <=> key_compare_func(l, m)
  BY OtherBuckets DEF MapInv
<1>3. Len(entries) \in Nat /\ DOMAIN entries = 1..Len(entries)
  OBVIOUS
<1>4. MapTypeInv'
  BY <1>1 DEF MapInv, MapTypeInv, Store
<1>5. HomeInv'
  BY <1>1, <1>2, <1>3 DEF MapInv, HomeInv
<1>6. OneEntryInv'
  BY <1>1, <1>2, <1>3 DEF MapInv, OneEntryInv
<1> QED BY <1>4, <1>5, <1>6 DEF MapInv
-----------------------------------------------------------------------------
(* What a key finds after a step, from what the entries of its bucket are. *)
Stored(k, d) ==
    \A l \in Keys(kind) :
        vk_map_get(l)' = IF SameKey(k, l) THEN d ELSE vk_map_get(l)

(* The keys of other buckets find what they found; it is enough to look at *)
(* those of the changed one.                                               *)
LEMMA StoredInBucket ==
    ASSUME MapInv, MapInv', NEW k \in Keys(kind), NEW entries, Store(k, entries),
           UNCHANGED <<kind, hash>>, NEW d,
           \A l \in Keys(kind) : hash[l] = hash[k] =>
               /\ SameKey(k, l) => Holds(l, d)' \/ (Absent(l)' /\ d = 0)
               /\ ~SameKey(k, l) => /\ \A e : Holds(l, e) => Holds(l, e)'
                                    /\ Absent(l) => Absent(l)'
    PROVE  Stored(k, d)
<1> SUFFICES ASSUME NEW l \in Keys(kind)
             PROVE  vk_map_get(l)' = IF SameKey(k, l) THEN d ELSE vk_map_get(l)
  BY DEF Stored
<1>1. Keys(kind)' = Keys(kind) /\ l \in Keys(kind)'
  OBVIOUS
<1>2. /\ \A e : Holds(l, e) => vk_map_get(l) = e
      /\ Absent(l) => vk_map_get(l) = 0
      /\ Absent(l) \/ \E e : Holds(l, e)
  BY GetCorrect DEF GetsHeld
<1>3. /\ \A e : Holds(l, e)' => vk_map_get(l)' = e
      /\ Absent(l)' => vk_map_get(l)' = 0
  BY <1>1, GetCorrectNext DEF GetsHeld
<1>4. CASE hash[l] = hash[k]
  <2>1. CASE SameKey(k, l)
    BY <1>3, <1>4, <2>1
  <2>2. CASE ~SameKey(k, l)
    BY <1>2, <1>3, <1>4, <2>2
  <2> QED BY <2>1, <2>2
<1>5. CASE hash[l] # hash[k]
  <2>1. get_bucket(l)' = get_bucket(l) /\ \A m, n : key_compare_func(m, n)' <=> key_compare_func(m, n)
    BY <1>5, OtherBuckets DEF MapInv
  <2>2. (\A e : Holds(l, e) => Holds(l, e)') /\ (Absent(l) => Absent(l)')
    BY <2>1 DEF Holds, Absent, Match
  <2>3. ~SameKey(k, l)
    BY <1>5 DEF SameKey
  <2> QED BY <1>2, <1>3, <2>2, <2>3
<1> QED BY <1>4, <1>5
-----------------------------------------------------------------------------
LEMMA RemoveElement ==
    ASSUME NEW S, NEW s \in Seq(S), NEW i \in 1..Len(s)
    PROVE  /\ RemoveAt(s, i) \in Seq(S) /\ Len(RemoveAt(s, i)) = Len(s) - 1
           /\ \A j \in 1..Len(s) - 1 : RemoveAt(s, i)[j] = IF j < i THEN s[j] ELSE s[j + 1]
<1> DEFINE p == SubSeq(s, 1, i - 1)
           q == SubSeq(s, i + 1, Len(s))
<1>1. /\ Len(s) \in Nat /\ i \in Nat
      /\ p \in Seq(S) /\ Len(p) = i - 1 /\ \A j \in 1..i - 1 : p[j] = s[j]
      /\ q \in Seq(S) /\ Len(q) = Len(s) - i /\ \A j \in 1..Len(s) - i : q[j] = s[j + i]
  OBVIOUS
<1>2. /\ p \o q \in Seq(S) /\ Len(p \o q) = Len(s) - 1
      /\ \A j \in 1..Len(s) - 1 : (p \o q)[j] = IF j <= i - 1 THEN p[j] ELSE q[j - (i - 1)]
  <2>1. /\ p \o q \in Seq(S) /\ Len(p \o q) = Len(p) + Len(q)
        /\ \A j \in 1..Len(p) + Len(q) :
              (p \o q)[j] = IF j <= Len(p) THEN p[j] ELSE q[j - Len(p)]
    BY <1>1, ConcatProperties
  <2> HIDE DEF p, q
  <2>2. Len(p) + Len(q) = Len(s) - 1
    BY <1>1
  <2> QED BY <1>1, <2>1, <2>2
<1>3. ASSUME NEW j \in 1..Len(s) - 1 PROVE (p \o q)[j] = IF j < i THEN s[j] ELSE s[j + 1]
  <2> HIDE DEF p, q
  <2>1. CASE j < i
    <3>1. j \in 1..i - 1 /\ j <= i - 1
      BY <1>1, <2>1
    <3> QED BY <1>1, <1>2, <2>1, <3>1
  <2>2. CASE ~(j < i)
    <3>1. ~(j <= i - 1) /\ j - (i - 1) \in 1..Len(s) - i /\ (j - (i - 1)) + i = j + 1
      BY <1>1, <2>2
    <3>2. (p \o q)[j] = q[j - (i - 1)]
      BY <1>2, <3>1
    <3> QED BY <1>1, <2>2, <3>1, <3>2
  <2> QED BY <2>1, <2>2
<1> QED BY <1>2, <1>3 DEF RemoveAt

(* The entry that Find has found. *)
LEMMA FoundEntry ==
    ASSUME MapInv, NEW k \in Keys(kind), Find(k) # 0
    PROVE  /\ Find(k) \in 1..Len(get_bucket(k)) /\ get_bucket(k) \in Seq(MapEntries)
           /\ Len(get_bucket(k)) \in Nat
           /\ get_bucket(k)[Find(k)] \in MapEntries
           /\ \A l \in Keys(kind) : SameKey(k, l) => Match(l, Find(k))
           /\ \A l \in Keys(kind) : hash[l] = hash[k] /\ Match(l, Find(k)) => SameKey(k, l)
           /\ \A l \in Keys(kind), i \in 1..Len(get_bucket(k)) :
                  SameKey(k, l) /\ Match(l, i) => i = Find(k)
<1>1. /\ Find(k) \in 1..Len(get_bucket(k)) /\ get_bucket(k) \in Seq(MapEntries)
      /\ Len(get_bucket(k)) \in Nat /\ Match(k, Find(k))
      /\ \A i \in 1..Len(get_bucket(k)) : Match(k, i) => Find(k) = i
  BY FindCorrect DEF FindsMatch
<1>2. get_bucket(k)[Find(k)] \in MapEntries
  BY <1>1, ElementOfSeq
<1>3. \A l \in Keys(kind) : hash[l] = hash[k] => get_bucket(l) = get_bucket(k)
  BY DEF get_bucket
<1>4. \A l, m, n : key_compare_func(l, m) /\ key_compare_func(m, n) => key_compare_func(l, n)
  BY CompareEquivalence DEF MapInv
<1>5. \A l, m : key_compare_func(l, m) => key_compare_func(m, l)
  BY CompareEquivalence DEF MapInv
<1>6. \A l \in Keys(kind) : SameKey(k, l) => Match(l, Find(k))
  BY <1>1, <1>3, <1>4 DEF SameKey, Match
<1>7. \A l \in Keys(kind) : hash[l] = hash[k] /\ Match(l, Find(k)) => SameKey(k, l)
  BY <1>1, <1>3, <1>4, <1>5 DEF SameKey, Match
<1>8. \A l \in Keys(kind), i \in 1..Len(get_bucket(k)) :
          SameKey(k, l) /\ Match(l, i) => i = Find(k)
  BY <1>1, <1>3, <1>4, <1>5 DEF SameKey, Match
<1> QED BY <1>1, <1>2, <1>6, <1>7, <1>8

(* vk_map_set of a key that is there. *)
LEMMA ReplaceStores ==
    ASSUME MapInv, NEW k \in Keys(kind), NEW d, NEW f \in BOOLEAN, Replace(k, d, f)
    PROVE  MapInv' /\ Stored(k, d)
<1> DEFINE s == get_bucket(k)
           n == Find(k)
           t == ReplaceAt(s, n, Entry(s[n].key, d, f))
<1>0. /\ n # 0 /\ d = Len(owned) + 1 /\ owned' = Append(owned, f)
      /\ Store(k, t) /\ UNCHANGED <<kind, hash>>
  BY DEF Replace, Fresh
<1>1. /\ n \in 1..Len(s) /\ s \in Seq(MapEntries) /\ Len(s) \in Nat /\ s[n] \in MapEntries
      /\ \A l \in Keys(kind) : SameKey(k, l) => Match(l, n)
      /\ \A l \in Keys(kind) : hash[l] = hash[k] /\ Match(l, n) => SameKey(k, l)
  BY <1>0, FoundEntry
<1>2. d \in Nat /\ owned' \in Seq(BOOLEAN)
  BY <1>0 DEF MapInv, MapTypeInv
<1>3. Entry(s[n].key, d, f) \in MapEntries
  BY <1>1, <1>2 DEF Entry, MapEntries
<1>4. /\ t \in Seq(MapEntries) /\ Len(t) = Len(s)
      /\ \A i \in 1..Len(s) : t[i] = IF i = n THEN Entry(s[n].key, d, f) ELSE s[i]
  BY <1>1, <1>3 DEF ReplaceAt
<1>5. \A i \in 1..Len(s) : t[i].key = s[i].key
  BY <1>4 DEF Entry
<1>6. /\ hash[k] \in 0..bucket_mask /\ s = buckets[hash[k]] /\ DOMAIN s = 1..Len(s)
  BY <1>1 DEF MapInv, MapTypeInv, get_bucket
<1> HIDE DEF s, n, t
<1>7. /\ \A i \in 1..Len(t) : hash[t[i].key] = hash[k]
      /\ \A i, j \in 1..Len(t) : key_compare_func(t[i].key, t[j].key) => i = j
  BY <1>4, <1>5, <1>6 DEF MapInv, HomeInv, OneEntryInv
<1>8. MapInv'
  BY <1>0, <1>2, <1>4, <1>7, StoreKeepsInv
<1>9. ASSUME NEW l \in Keys(kind), hash[l] = hash[k]
      PROVE  /\ SameKey(k, l) => Holds(l, d)'
             /\ ~SameKey(k, l) => /\ \A e : Holds(l, e) => Holds(l, e)'
                                  /\ Absent(l) => Absent(l)'
  <2>1. /\ get_bucket(l) = s /\ get_bucket(l)' = t
        /\ \A m, o : key_compare_func(m, o)' <=> key_compare_func(m, o)
    BY <1>0, <1>9, OtherBuckets DEF MapInv, get_bucket, s
  <2>2. \A i \in 1..Len(s) : Match(l, i)' <=> Match(l, i)
    BY <1>5, <2>1 DEF Match
  <2>3. SameKey(k, l) => Holds(l, d)'
    BY <1>1, <1>4, <2>1, <2>2 DEF Holds, Entry
  <2>4. ASSUME ~SameKey(k, l), NEW e, Holds(l, e) PROVE Holds(l, e)'
    <3>1. PICK i \in 1..Len(s) : Match(l, i) /\ s[i].data = e
      BY <2>1, <2>4 DEF Holds
    <3>2. i # n
      BY <1>1, <1>9, <2>4, <3>1
    <3> QED BY <1>4, <2>1, <2>2, <3>1, <3>2 DEF Holds
  <2>5. Absent(l) => Absent(l)'
    BY <1>4, <2>1, <2>2 DEF Absent
  <2> QED BY <2>3, <2>4, <2>5
<1>10. Stored(k, d)
  BY <1>0, <1>8, <1>9, StoredInBucket
<1> QED BY <1>8, <1>10

(* vk_map_set with NULL: its only entry goes, the key finds nothing. *)
LEMMA DeleteStores ==
    ASSUME MapInv, NEW k \in Keys(kind), Delete(k)
    PROVE  MapInv' /\ Stored(k, 0)
<1> DEFINE s == get_bucket(k)
           n == Find(k)
           t == RemoveAt(s, n)
           old(i) == IF i < n THEN i ELSE i + 1
<1>0. n # 0 /\ Store(k, t) /\ UNCHANGED <<kind, hash, owned>>
  BY DEF Delete
<1>1. /\ n \in 1..Len(s) /\ s \in Seq(MapEntries) /\ Len(s) \in Nat
      /\ \A l \in Keys(kind) : hash[l] = hash[k] /\ Match(l, n) => SameKey(k, l)
      /\ \A l \in Keys(kind), i \in 1..Len(s) : SameKey(k, l) /\ Match(l, i) => i = n
  BY <1>0, FoundEntry
<1>2. /\ t \in Seq(MapEntries) /\ Len(t) = Len(s) - 1
      /\ \A i \in 1..Len(s) - 1 : t[i] = IF i < n THEN s[i] ELSE s[i + 1]
  BY <1>1, RemoveElement
<1>3. /\ hash[k] \in 0..bucket_mask /\ s = buckets[hash[k]] /\ DOMAIN s = 1..Len(s)
  BY <1>1 DEF MapInv, MapTypeInv, get_bucket
<1>4. owned' \in Seq(BOOLEAN)
  BY <1>0 DEF MapInv, MapTypeInv
<1> HIDE DEF s, n, t
<1>5. \A i \in 1..Len(t) : old(i) \in 1..Len(s) /\ old(i) # n /\ t[i] = s[old(i)]
  BY <1>1, <1>2
<1>6. \A i, j \in 1..Len(t) : old(i) = old(j) => i = j
  BY <1>1, <1>2
<1>7. ASSUME NEW i \in 1..Len(s), i # n PROVE \E j \in 1..Len(t) : old(j) = i
  <2>1. CASE i < n
    <3>1. i \in 1..Len(t) /\ old(i) = i
      BY <1>1, <1>2, <2>1
    <3> QED BY <3>1
  <2>2. CASE i > n
    <3>1. i - 1 \in 1..Len(t) /\ old(i - 1) = i
      BY <1>1, <1>2, <2>2
    <3> QED BY <3>1
  <2> QED BY <1>1, <1>7, <2>1, <2>2
<1> HIDE DEF old
<1>8. /\ \A i \in 1..Len(t) : hash[t[i].key] = hash[k]
      /\ \A i, j \in 1..Len(t) : key_compare_func(t[i].key, t[j].key) => i = j
  <2>1. \A i \in 1..Len(s) : hash[s[i].key] = hash[k]
    BY <1>3 DEF MapInv, HomeInv
  <2>2. \A i, j \in 1..Len(s) : key_compare_func(s[i].key, s[j].key) => i = j
    BY <1>3 DEF MapInv, OneEntryInv
  <2> QED BY <1>5, <1>6, <2>1, <2>2
<1>9. MapInv'
  BY <1>0, <1>2, <1>4, <1>8, StoreKeepsInv
<1>10. ASSUME NEW l \in Keys(kind), hash[l] = hash[k]
       PROVE  /\ SameKey(k, l) => Absent(l)'
              /\ ~SameKey(k, l) => /\ \A e : Holds(l, e) => Holds(l, e)'
                                   /\ Absent(l) => Absent(l)'
  <2>1. /\ get_bucket(l) = s /\ get_bucket(l)' = t
        /\ \A m, o : key_compare_func(m, o)' <=> key_compare_func(m, o)
    BY <1>0, <1>10, OtherBuckets DEF MapInv, get_bucket, s
  <2>2. \A i \in 1..Len(t) : Match(l, i)' <=> Match(l, old(i))
    BY <1>5, <2>1 DEF Match
  <2>3. SameKey(k, l) => Absent(l)'
    BY <1>1, <1>5, <2>1, <2>2 DEF Absent
  <2>4. ASSUME ~SameKey(k, l), NEW e, Holds(l, e) PROVE Holds(l, e)'
    <3>1. PICK i \in 1..Len(s) : Match(l, i) /\ s[i].data = e
      BY <2>1, <2>4 DEF Holds
    <3>2. PICK j \in 1..Len(t) : old(j) = i
      BY <1>1, <1>7, <1>10, <2>4, <3>1
    <3>3. Match(l, j)' /\ t[j].data = e
      BY <1>5, <2>2, <3>1, <3>2
    <3> QED BY <2>1, <3>3 DEF Holds
  <2>5. Absent(l) => Absent(l)'
    BY <1>5, <2>1, <2>2 DEF Absent
  <2> QED BY <2>3, <2>4, <2>5
<1>11. Stored(k, 0)
  BY <1>0, <1>9, <1>10, StoredInBucket
<1> QED BY <1>9, <1>11

(* vk_map_set of a new key, with memory for an entry. *)
LEMMA InsertStores ==
    ASSUME MapInv, NEW k \in Keys(kind), NEW d, NEW f \in BOOLEAN, Insert(k, d, f),
           Store(k, <<Entry(k, d, f)>> \o get_bucket(k))
    PROVE  MapInv' /\ Stored(k, d)
<1> DEFINE s == get_bucket(k)
           e == Entry(k, d, f)
           t == <<e>> \o s
<1>0. /\ Find(k) = 0 /\ d = Len(owned) + 1 /\ owned' = Append(owned, f)
      /\ Store(k, t) /\ UNCHANGED <<kind, hash>>
  BY DEF Insert, Fresh
<1>1. d \in Nat /\ owned' \in Seq(BOOLEAN)
  BY <1>0 DEF MapInv, MapTypeInv
<1>2. e \in MapEntries /\ e.key = k /\ e.data = d
  BY <1>1 DEF Entry, MapEntries
<1>3. /\ s \in Seq(MapEntries) /\ Len(s) \in Nat
      /\ \A i \in 1..Len(s) : ~Match(k, i)
  BY <1>0, FindCorrect DEF FindsMatch
<1>4. /\ hash[k] \in 0..bucket_mask /\ s = buckets[hash[k]] /\ DOMAIN s = 1..Len(s)
  BY <1>3 DEF MapInv, MapTypeInv, get_bucket
<1> HIDE DEF s, e
<1>5. /\ t \in Seq(MapEntries) /\ Len(t) = Len(s) + 1 /\ t[1] = e
      /\ \A i \in 1..Len(s) : t[i + 1] = s[i]
      /\ \A i \in 1..Len(t) : i # 1 => t[i] = s[i - 1] /\ i - 1 \in 1..Len(s)
  <2>1. /\ t \in Seq(MapEntries) /\ Len(t) = 1 + Len(s)
        /\ \A i \in 1..1 + Len(s) : t[i] = IF i <= 1 THEN <<e>>[i] ELSE s[i - 1]
    BY <1>2, <1>3, ConcatProperties
  <2> HIDE DEF t
  <2> QED BY <1>3, <2>1
<1> HIDE DEF t
<1>6. \A l, m : key_compare_func(l, m) => key_compare_func(m, l)
  BY CompareEquivalence DEF MapInv
<1>7. /\ \A i \in 1..Len(t) : hash[t[i].key] = hash[k]
      /\ \A i, j \in 1..Len(t) : key_compare_func(t[i].key, t[j].key) => i = j
  <2>1. \A i \in 1..Len(s) : hash[s[i].key] = hash[k]
    BY <1>4 DEF MapInv, HomeInv
  <2>2. \A i, j \in 1..Len(s) : key_compare_func(s[i].key, s[j].key) => i = j
    BY <1>4 DEF MapInv, OneEntryInv
  <2>3. \A i \in 1..Len(s) : ~key_compare_func(s[i].key, k) /\ ~key_compare_func(k, s[i].key)
    BY <1>3, <1>6 DEF Match, s
  <2>4. \A i \in 1..Len(t) : hash[t[i].key] = hash[k]
    BY <1>2, <1>5, <2>1
  <2>5. ASSUME NEW i \in 1..Len(t), NEW j \in 1..Len(t), key_compare_func(t[i].key, t[j].key)
        PROVE  i = j
    <3>1. CASE i = 1 /\ j # 1
      BY <1>2, <1>5, <2>3, <2>5, <3>1
    <3>2. CASE i # 1 /\ j = 1
      BY <1>2, <1>5, <2>3, <2>5, <3>2
    <3>3. CASE i # 1 /\ j # 1
      <4>1. i - 1 = j - 1
        BY <1>5, <2>2, <2>5, <3>3
      <4> QED BY <4>1
    <3> QED BY <3>1, <3>2, <3>3
  <2> QED BY <2>4, <2>5
<1>8. MapInv'
  BY <1>0, <1>1, <1>5, <1>7, StoreKeepsInv
<1>9. ASSUME NEW l \in Keys(kind), hash[l] = hash[k]
      PROVE  /\ SameKey(k, l) => Holds(l, d)'
             /\ ~SameKey(k, l) => /\ \A x : Holds(l, x) => Holds(l, x)'
                                  /\ Absent(l) => Absent(l)'
  <2>1. /\ get_bucket(l) = s /\ get_bucket(l)' = t
        /\ \A m, o : key_compare_func(m, o)' <=> key_compare_func(m, o)
    BY <1>0, <1>9, OtherBuckets DEF MapInv, get_bucket, s
  <2>2. /\ Match(l, 1)' <=> SameKey(k, l)
        /\ \A i \in 1..Len(s) : Match(l, i + 1)' <=> Match(l, i)
        /\ \A i \in 1..Len(t) : i # 1 => (Match(l, i)' <=> Match(l, i - 1))
    BY <1>2, <1>5, <1>9, <2>1 DEF Match, SameKey
  <2>3. Len(s) + 1 = Len(t) /\ 1 \in 1..Len(t) /\ \A i \in 1..Len(s) : i + 1 \in 1..Len(t)
    BY <1>3, <1>5
  <2>4. SameKey(k, l) => Holds(l, d)'
    BY <1>2, <1>5, <2>1, <2>2, <2>3 DEF Holds
  <2>5. ASSUME NEW x, Holds(l, x) PROVE Holds(l, x)'
    BY <1>5, <2>1, <2>2, <2>3, <2>5 DEF Holds
  <2>6. ~SameKey(k, l) /\ Absent(l) => Absent(l)'
    BY <1>5, <2>1, <2>2 DEF Absent
  <2> QED BY <2>4, <2>5, <2>6
<1>10. Stored(k, d)
  BY <1>0, <1>8, <1>9, StoredInBucket
<1> QED BY <1>8, <1>10
-----------------------------------------------------------------------------
(* Without memory for the entry nothing changes but the data given. *)
LEMMA NothingStored ==
    ASSUME MapInv, UNCHANGED <<kind, hash, buckets>>, owned' \in Seq(BOOLEAN)
    PROVE  MapInv' /\ \A l \in Keys(kind) : vk_map_get(l)' = vk_map_get(l)
<1>1. Keys(kind)' = Keys(kind) /\ bucket_mask' = bucket_mask
  OBVIOUS
<1>2. \A k, l : key_compare_func(k, l)' <=> key_compare_func(k, l)
  BY DEF key_compare_func
<1>3. MapInv'
  BY <1>1, <1>2 DEF MapInv, MapTypeInv, HomeInv, OneEntryInv, MapEntries
<1>4. \A l \in Keys(kind) : get_bucket(l)' = get_bucket(l)
  BY DEF get_bucket
<1>5. ASSUME NEW l \in Keys(kind)
      PROVE  /\ \A e : Holds(l, e)' <=> Holds(l, e)
             /\ Absent(l)' <=> Absent(l)
  BY <1>2, <1>4 DEF Holds, Absent, Match
<1>6. GetsHeld /\ GetsHeld'
  BY <1>3, GetCorrect, GetCorrectNext
<1> QED BY <1>1, <1>3, <1>5, <1>6 DEF GetsHeld

LEMMA ClearStores ==
    ASSUME MapInv, vk_map_clear
    PROVE  MapInv' /\ \A l \in Keys(kind) : vk_map_get(l)' = 0
<1>0. /\ UNCHANGED <<kind, hash, owned>>
      /\ buckets' = [b \in 0..bucket_mask |-> <<>>]
  BY DEF vk_map_clear
<1>1. MapInv'
  BY <1>0 DEF MapInv, MapTypeInv, HomeInv, OneEntryInv, MapEntries
<1>2. \A l \in Keys(kind) : get_bucket(l)' = <<>>
  BY <1>0 DEF MapInv, MapTypeInv, get_bucket
<1>3. \A l \in Keys(kind) : Absent(l)'
  BY <1>2 DEF Absent
<1>4. Keys(kind)' = Keys(kind)
  BY <1>0
<1> QED BY <1>1, <1>3, <1>4, GetCorrectNext DEF GetsHeld

(* The initial map. *)
KeysDiffer == kind # "int64" => \A k, l \in Keys(kind) : SameKey(k, l) <=> k = l

LEMMA MapStart == MapInit => MapInv /\ KeysDiffer /\ Abstract!Init
<1> SUFFICES ASSUME MapInit PROVE MapInv /\ KeysDiffer /\ Abstract!Init
  OBVIOUS
<1>1. MapInv
  BY MapKindsAssumption DEF MapInit, MapInv, MapTypeInv, HomeInv, OneEntryInv
<1>2. \A l \in Keys(kind) : Absent(l)
  BY <1>1 DEF MapInit, MapInv, MapTypeInv, Absent, get_bucket
<1>3. \A l \in Keys(kind) : vk_map_get(l) = 0
  BY <1>1, <1>2, GetCorrect DEF GetsHeld
<1>4. \A k : SameKey(k, k)
  BY <1>1, CompareEquivalence DEF SameKey, MapInv
<1>5. Len(owned) = 0
  BY DEF MapInit
<1>6. Abstract!Init
  BY <1>3, <1>4, <1>5 DEF Abstract!Init
<1>7. KeysDiffer
  <2> SUFFICES ASSUME kind # "int64", NEW k \in Keys(kind), NEW l \in Keys(kind), SameKey(k, l)
               PROVE  k = l
    BY <1>4 DEF KeysDiffer
  <2>1. CASE kind = "int32"
    BY <2>1 DEF Keys, SameKey, key_compare_func, int32_key_compare
  <2>2. CASE kind = "string"
    BY <2>2 DEF Keys, SameKey, key_compare_func, string_key_compare
  <2> QED BY <1>1, <2>1, <2>2 DEF MapInv, MapTypeInv
<1> QED BY <1>1, <1>6, <1>7
-----------------------------------------------------------------------------
(* Every operation is one of KeyMap. *)
MapStep == MapInv' /\ [Abstract!Next]_(Abstract!vars)

LEMMA ClassesKept ==
    ASSUME UNCHANGED <<kind, hash>>
    PROVE  [k \in Keys(kind) |-> {l \in Keys(kind) : SameKey(k, l)}]'
               = [k \in Keys(kind) |-> {l \in Keys(kind) : SameKey(k, l)}]
<1>1. Keys(kind)' = Keys(kind)
  OBVIOUS
<1>2. \A k, l : SameKey(k, l)' <=> SameKey(k, l)
  BY DEF SameKey, key_compare_func
<1> QED BY <1>1, <1>2

LEMMA StoreMaps ==
    ASSUME UNCHANGED <<kind, hash>>, NEW k \in Keys(kind), NEW d, Stored(k, d)
    PROVE  Abstract!Store(k, d)
<1>1. Keys(kind)' = Keys(kind)
  OBVIOUS
<1> QED BY <1>1 DEF Stored, Abstract!Store

LEMMA SetMaps ==
    ASSUME MapInv, NEW k \in Keys(kind), NEW d, NEW f \in BOOLEAN, vk_map_set(k, d, f)
    PROVE  MapStep
<1>1. /\ d = Len(owned) + 1 /\ owned' = Append(owned, f) /\ UNCHANGED <<kind, hash>>
  BY DEF vk_map_set, Replace, Insert, Fresh
<1>2. owned' \in Seq(BOOLEAN) /\ Len(owned') = Len(owned) + 1
  BY <1>1 DEF MapInv, MapTypeInv
<1>3. CASE MapInv' /\ Stored(k, d)
  BY <1>1, <1>2, <1>3, ClassesKept, StoreMaps DEF MapStep, Abstract!Next, Abstract!Set
<1>4. CASE UNCHANGED buckets
  <2>1. MapInv' /\ \A l \in Keys(kind) : vk_map_get(l)' = vk_map_get(l)
    BY <1>1, <1>2, <1>4, NothingStored
  <2>2. [l \in Keys(kind) |-> vk_map_get(l)]' = [l \in Keys(kind) |-> vk_map_get(l)]
    BY <1>1, <2>1
  <2> QED BY <1>1, <1>2, <2>1, <2>2, ClassesKept DEF MapStep, Abstract!Next, Abstract!Set
<1>5. (MapInv' /\ Stored(k, d)) \/ UNCHANGED buckets
  BY ReplaceStores, InsertStores DEF vk_map_set, Insert
<1> QED BY <1>3, <1>4, <1>5

LEMMA ClearMaps ==
    ASSUME MapInv, vk_map_clear
    PROVE  MapStep
<1>1. UNCHANGED <<kind, hash, owned>>
  BY DEF vk_map_clear
<1>2. MapInv' /\ \A l \in Keys(kind) : vk_map_get(l)' = 0
  BY ClearStores
<1>3. [l \in Keys(kind) |-> vk_map_get(l)]' = [l \in Keys(kind) |-> 0]
  BY <1>1, <1>2
<1> QED BY <1>1, <1>2, <1>3, ClassesKept DEF MapStep, Abstract!Next, Abstract!Clear

LEMMA MapNextMaps == MapInv /\ [MapNext]_mapVars => MapStep
<1> SUFFICES ASSUME MapInv, [MapNext]_mapVars PROVE MapStep
  OBVIOUS
<1>1. ASSUME NEW k \in Keys(kind), NEW d, NEW f \in BOOLEAN, vk_map_set(k, d, f) PROVE MapStep
  BY <1>1, SetMaps
<1>2. ASSUME NEW k \in Keys(kind), Delete(k) PROVE MapStep
  <2>1. UNCHANGED <<kind, hash, owned>>
    BY <1>2 DEF Delete
  <2>2. MapInv' /\ Stored(k, 0)
    BY <1>2, DeleteStores
  <2> QED BY <2>1, <2>2, ClassesKept, StoreMaps DEF MapStep, Abstract!Next, Abstract!Delete
<1>3. CASE vk_map_clear
  BY <1>3, ClearMaps
<1>4. CASE UNCHANGED mapVars
  <2>1. UNCHANGED <<kind, hash, buckets, owned>>
    BY <1>4 DEF mapVars
  <2>2. owned' \in Seq(BOOLEAN)
    BY <2>1 DEF MapInv, MapTypeInv
  <2>3. MapInv' /\ \A l \in Keys(kind) : vk_map_get(l)' = vk_map_get(l)
    BY <2>1, <2>2, NothingStored
  <2>4. [l \in Keys(kind) |-> vk_map_get(l)]' = [l \in Keys(kind) |-> vk_map_get(l)]
    BY <2>1, <2>3
  <2> QED BY <2>1, <2>3, <2>4, ClassesKept DEF MapStep, Abstract!vars
<1> QED BY <1>1, <1>2, <1>3, <1>4 DEF MapNext, vk_map_destroy

(* vk_map (utils/map.c) keeps the promise of KeyMap: an operation on a key *)
(* changes what that key finds and no other, for any hash function, words, *)
(* buckets and history, and a failing allocation loses only the new datum; *)
(* two different 32 bit integers or strings are never the same key.        *)
THEOREM ImplementsMapCorrect == MapSpec => ImplementsMap
<1>1. MapInit => MapInv /\ KeysDiffer /\ Abstract!Init
  BY MapStart
<1>2. MapInv /\ [MapNext]_mapVars => MapInv' /\ [Abstract!Next]_(Abstract!vars)
  BY MapNextMaps DEF MapStep
<1> QED BY <1>1, <1>2, PTL DEF MapSpec, ImplementsMap, Abstract!Spec, KeysDiffer
-----------------------------------------------------------------------------
(* Who has a datum: one entry, whose free function is that it came with;   *)
(* or nobody, and then it was dropped, or freed once if it was to be.      *)
Data == DOMAIN owned
Entered(d) == \E p \in Places : EntryAt(p).data = d

DataInv ==
    /\ freed \in [1..MaxData -> Nat] /\ Data \subseteq 1..MaxData /\ dropped \subseteq Data
    /\ \A p \in Places : EntryAt(p).data \in Data /\ EntryAt(p).free_func = owned[EntryAt(p).data]
    /\ \A p, q \in Places : EntryAt(p).data = EntryAt(q).data => p = q
    /\ \A d \in dropped : ~Entered(d)
    /\ \A d \in Data :
          freed[d] = IF owned[d] /\ ~Entered(d) /\ d \notin dropped THEN 1 ELSE 0
    /\ \A d \in 1..MaxData : d \notin Data => freed[d] = 0

(* The place of the entry that a key is found at. *)
FoundAt(k) == <<hash[k], Find(k)>>
-----------------------------------------------------------------------------
LEMMA HeldOnce ==
    ASSUME DataInv, NEW P \in SUBSET Places, NEW d
    PROVE  /\ \A p \in P : EntryAt(p).data = d => Holders(P, d) = {p}
           /\ (\A p \in P : EntryAt(p).data # d) => Holders(P, d) = {}
BY DEF DataInv, Holders

(* Freeing some entries frees the data that they own, once. *)
LEMMA FreeCounts ==
    ASSUME DataInv, NEW P \in SUBSET Places, Free(P)
    PROVE  /\ freed' \in [1..MaxData -> Nat]
           /\ \A d \in Data : freed'[d] =
                  IF owned[d] /\ \E p \in P : EntryAt(p).data = d THEN freed[d] + 1 ELSE freed[d]
           /\ \A d \in 1..MaxData : d \notin Data => freed'[d] = freed[d]
<1> DEFINE F(d) == {p \in Holders(P, d) : EntryAt(p).free_func}
<1>0. /\ freed \in [1..MaxData -> Nat] /\ Data \subseteq 1..MaxData
      /\ \A p \in P : EntryAt(p).data \in Data /\ EntryAt(p).free_func = owned[EntryAt(p).data]
  BY DEF DataInv
<1>1. freed' = [d \in 1..MaxData |-> freed[d] + Cardinality(F(d))]
  BY DEF Free
<1>2. ASSUME NEW d, NEW p \in P, EntryAt(p).data = d, owned[d] PROVE Cardinality(F(d)) = 1
  <2>1. F(d) = {p}
    BY <1>0, <1>2, HeldOnce
  <2> QED BY <2>1, FS_Singleton
<1>3. ASSUME NEW d, ~(owned[d] /\ \E p \in P : EntryAt(p).data = d) PROVE Cardinality(F(d)) = 0
  <2>1. F(d) = {}
    BY <1>0, <1>3 DEF Holders
  <2> QED BY <2>1, FS_EmptySet
<1>4. ASSUME NEW d, d \notin Data PROVE Cardinality(F(d)) = 0
  <2>1. F(d) = {}
    BY <1>0, <1>4 DEF Holders
  <2> QED BY <2>1, FS_EmptySet
<1> HIDE DEF F
<1>5. \A d \in Data : Cardinality(F(d)) =
          IF owned[d] /\ \E p \in P : EntryAt(p).data = d THEN 1 ELSE 0
  BY <1>2, <1>3
<1>6. \A d \in 1..MaxData : Cardinality(F(d)) \in Nat
  BY <1>4, <1>5
<1>7. freed' \in [1..MaxData -> Nat]
  BY <1>0, <1>1, <1>6
<1>8. \A d \in 1..MaxData : freed'[d] = freed[d] + Cardinality(F(d))
  BY <1>1
<1>9. \A d \in 1..MaxData : freed[d] \in Nat
  BY <1>0
<1> QED BY <1>0, <1>4, <1>5, <1>7, <1>8, <1>9

(* The data N are given, with the choice f to free them or not. *)
Given(N, f) ==
    \/ N = {} /\ owned' = owned
    \/ N = {Len(owned) + 1} /\ Len(owned) + 1 \in 1..MaxData /\ owned' = Append(owned, f)

(* The entries at P go, those of the data N come, and every other entry is *)
(* left, in whatever place.                                                *)
Moved(P, N, f) ==
    /\ \A p \in Places' :
          \/ EntryAt(p)'.data \in N /\ EntryAt(p)'.free_func = f
          \/ \E q \in Places \ P : EntryAt(p)' = EntryAt(q)
    /\ \A q \in Places \ P : \E p \in Places' : EntryAt(p)' = EntryAt(q)
    /\ \A d \in N : \E p \in Places' : EntryAt(p)'.data = d
    /\ \A p, q \in Places' : EntryAt(p)'.data = EntryAt(q)'.data => p = q

LEMMA DataMoves ==
    ASSUME DataInv, NEW P \in SUBSET Places, Free(P), dropped' = dropped,
           NEW N, NEW f \in BOOLEAN, Given(N, f), Moved(P, N, f), owned \in Seq(BOOLEAN)
    PROVE  DataInv'
<1>0. /\ \A p \in Places' :
            \/ EntryAt(p)'.data \in N /\ EntryAt(p)'.free_func = f
            \/ \E q \in Places \ P : EntryAt(p)' = EntryAt(q)
      /\ \A q \in Places \ P : \E p \in Places' : EntryAt(p)' = EntryAt(q)
      /\ \A d \in N : \E p \in Places' : EntryAt(p)'.data = d
      /\ \A p, q \in Places' : EntryAt(p)'.data = EntryAt(q)'.data => p = q
  BY DEF Moved
<1>1. /\ freed \in [1..MaxData -> Nat] /\ Data \subseteq 1..MaxData /\ dropped \subseteq Data
      /\ \A p \in Places : /\ EntryAt(p).data \in Data
                           /\ EntryAt(p).free_func = owned[EntryAt(p).data]
      /\ \A p, q \in Places : EntryAt(p).data = EntryAt(q).data => p = q
      /\ \A d \in dropped : ~Entered(d)
      /\ \A d \in Data :
            freed[d] = IF owned[d] /\ ~Entered(d) /\ d \notin dropped THEN 1 ELSE 0
      /\ \A d \in 1..MaxData : d \notin Data => freed[d] = 0
  BY DEF DataInv
<1>2. /\ freed' \in [1..MaxData -> Nat]
      /\ \A d \in Data : freed'[d] =
             IF owned[d] /\ \E p \in P : EntryAt(p).data = d THEN freed[d] + 1 ELSE freed[d]
      /\ \A d \in 1..MaxData : d \notin Data => freed'[d] = freed[d]
  BY FreeCounts
<1>3. /\ Data = 1..Len(owned) /\ Data' = Data \cup N /\ N \cap Data = {}
      /\ Data' \subseteq 1..MaxData
      /\ \A d \in Data : owned'[d] = owned[d]
      /\ \A d \in N : owned'[d] = f
  <2>0. Len(owned) \in Nat /\ Data = 1..Len(owned)
    BY DEF Data
  <2>1. CASE N = {} /\ owned' = owned
    BY <1>1, <2>0, <2>1 DEF Data
  <2>2. CASE /\ N = {Len(owned) + 1} /\ Len(owned) + 1 \in 1..MaxData
             /\ owned' = Append(owned, f)
    <3>1. /\ Len(owned') = Len(owned) + 1 /\ owned'[Len(owned) + 1] = f
          /\ \A d \in 1..Len(owned) : owned'[d] = owned[d]
          /\ DOMAIN owned' = 1..Len(owned) + 1
      BY <2>2
    <3>2. Data' = Data \cup N /\ N \cap Data = {}
      <4> DEFINE n == Len(owned)
      <4>1. 1..n + 1 = 1..n \cup {n + 1} /\ n + 1 \notin 1..n
        BY <2>0
      <4>2. Data' = 1..n + 1
        BY <3>1 DEF Data
      <4> QED BY <2>0, <2>2, <4>1, <4>2
    <3> QED BY <1>1, <2>0, <2>2, <3>1, <3>2
  <2> QED BY <2>1, <2>2 DEF Given
<1>4. \A d \in N : Entered(d)'
  BY <1>0 DEF Entered
<1>5. \A d \in Data : Entered(d)' <=> Entered(d) /\ ~\E p \in P : EntryAt(p).data = d
  <2>1. ASSUME NEW d \in Data, Entered(d)' PROVE Entered(d) /\ ~\E p \in P : EntryAt(p).data = d
    <3>1. PICK p \in Places' : EntryAt(p)'.data = d
      BY <2>1 DEF Entered
    <3>2. PICK q \in Places \ P : EntryAt(p)' = EntryAt(q)
      BY <1>0, <1>3, <3>1
    <3> QED BY <1>1, <3>1, <3>2 DEF Entered
  <2>2. ASSUME NEW d \in Data, Entered(d), ~\E p \in P : EntryAt(p).data = d PROVE Entered(d)'
    <3>1. PICK q \in Places \ P : EntryAt(q).data = d
      BY <2>2 DEF Entered
    <3>2. PICK p \in Places' : EntryAt(p)' = EntryAt(q)
      BY <1>0, <3>1
    <3> QED BY <3>1, <3>2 DEF Entered
  <2> QED BY <2>1, <2>2
<1>6. \A p \in Places' : /\ EntryAt(p)'.data \in Data'
                         /\ EntryAt(p)'.free_func = owned'[EntryAt(p)'.data]
  BY <1>0, <1>1, <1>3
<1>7. \A d \in dropped' : d \in Data' /\ ~Entered(d)'
  BY <1>1, <1>3, <1>5
<1>8. ASSUME NEW d \in Data'
      PROVE  freed'[d] = IF owned'[d] /\ ~Entered(d)' /\ d \notin dropped' THEN 1 ELSE 0
  <2>1. CASE d \in N
    BY <1>1, <1>2, <1>3, <1>4, <2>1
  <2>2. CASE d \in Data
    <3>1. owned[d] \in BOOLEAN /\ owned'[d] = owned[d] /\ dropped' = dropped
      BY <1>3, <2>2
    <3>2. CASE \E p \in P : EntryAt(p).data = d
      <4>1. Entered(d) /\ ~Entered(d)' /\ d \notin dropped
        BY <1>1, <1>5, <2>2, <3>2 DEF Entered
      <4>2. freed[d] = 0
        BY <1>1, <2>2, <4>1
      <4> QED BY <1>2, <2>2, <3>1, <3>2, <4>1, <4>2
    <3>3. CASE ~\E p \in P : EntryAt(p).data = d
      <4>1. (Entered(d)' <=> Entered(d)) /\ freed'[d] = freed[d]
        BY <1>2, <1>5, <2>2, <3>3
      <4> QED BY <1>1, <2>2, <3>1, <4>1
    <3> QED BY <3>2, <3>3
  <2> QED BY <1>3, <2>1, <2>2
<1>9. \A d \in 1..MaxData : d \notin Data' => freed'[d] = 0
  BY <1>1, <1>2, <1>3
<1> QED BY <1>0, <1>2, <1>3, <1>6, <1>7, <1>8, <1>9 DEF DataInv

(* Places are pairs of a bucket and a place in it. *)
PlacesAre ==
    /\ \A p \in Places : \E b \in 0..bucket_mask : \E i \in DOMAIN buckets[b] : p = <<b, i>>
    /\ \A b \in 0..bucket_mask : \A i \in DOMAIN buckets[b] :
           <<b, i>> \in Places /\ EntryAt(<<b, i>>) = buckets[b][i]

LEMMA PlacesCorrect == PlacesAre
BY DEF PlacesAre, Places, EntryAt

LEMMA PlacesCorrectNext == PlacesAre'
BY PlacesCorrect, PTL

(* The entries of the other buckets stay where they are. *)
LEMMA StorePlaces ==
    ASSUME MapInv, NEW k \in Keys(kind), NEW entries \in Seq(MapEntries), Store(k, entries),
           UNCHANGED <<kind, hash>>
    PROVE  /\ \A p \in Places' :
                  \/ p[1] # hash[k] /\ p \in Places /\ EntryAt(p)' = EntryAt(p)
                  \/ \E i \in 1..Len(entries) : p = <<hash[k], i>> /\ EntryAt(p)' = entries[i]
           /\ \A p \in Places :
                  \/ p[1] # hash[k] /\ p \in Places' /\ EntryAt(p)' = EntryAt(p)
                  \/ \E i \in 1..Len(get_bucket(k)) :
                         p = <<hash[k], i>> /\ EntryAt(p) = get_bucket(k)[i]
           /\ \A p : \A i \in 1..Len(entries) :
                  p = <<hash[k], i>> => p \in Places' /\ EntryAt(p)' = entries[i]
           /\ \A i \in 1..Len(get_bucket(k)) :
                  <<hash[k], i>> \in Places /\ EntryAt(<<hash[k], i>>) = get_bucket(k)[i]
<1> DEFINE h == hash[k]
           s == get_bucket(k)
<1>1. /\ h \in 0..bucket_mask /\ s = buckets[h] /\ s \in Seq(MapEntries)
      /\ DOMAIN s = 1..Len(s) /\ DOMAIN entries = 1..Len(entries)
  <2>1. h \in 0..bucket_mask /\ s = buckets[h] /\ s \in Seq(MapEntries)
    BY DEF MapInv, MapTypeInv, get_bucket
  <2> HIDE DEF s
  <2> QED BY <2>1
<1>2. \A b \in 0..bucket_mask : buckets'[b] = IF b = h THEN entries ELSE buckets[b]
  BY OtherBuckets DEF MapInv
<1>3. bucket_mask' = bucket_mask
  BY DEF bucket_mask
<1> HIDE DEF h, s
<1>4. /\ \A p \in Places : \E b \in 0..bucket_mask : \E i \in DOMAIN buckets[b] : p = <<b, i>>
      /\ \A b \in 0..bucket_mask : \A i \in DOMAIN buckets[b] :
             <<b, i>> \in Places /\ EntryAt(<<b, i>>) = buckets[b][i]
  BY PlacesCorrect DEF PlacesAre
<1>5. /\ \A p \in Places' : \E b \in 0..bucket_mask : \E i \in DOMAIN buckets'[b] : p = <<b, i>>
      /\ \A b \in 0..bucket_mask : \A i \in DOMAIN buckets'[b] :
             <<b, i>> \in Places' /\ EntryAt(<<b, i>>)' = buckets'[b][i]
  BY <1>3, PlacesCorrectNext DEF PlacesAre
<1>6. ASSUME NEW p \in Places'
      PROVE  \/ p[1] # h /\ p \in Places /\ EntryAt(p)' = EntryAt(p)
             \/ \E i \in 1..Len(entries) : p = <<h, i>> /\ EntryAt(p)' = entries[i]
  <2>0. PICK b \in 0..bucket_mask : \E i \in DOMAIN buckets'[b] : p = <<b, i>>
    BY <1>5
  <2>1. PICK i \in DOMAIN buckets'[b] : p = <<b, i>>
    BY <2>0
  <2>2. EntryAt(p)' = buckets'[b][i] /\ p[1] = b
    BY <1>5, <2>1
  <2>3. CASE b = h
    BY <1>1, <1>2, <2>1, <2>2, <2>3
  <2>4. CASE b # h
    BY <1>2, <1>4, <2>1, <2>2, <2>4
  <2> QED BY <2>3, <2>4
<1>7. ASSUME NEW p \in Places
      PROVE  \/ p[1] # h /\ p \in Places' /\ EntryAt(p)' = EntryAt(p)
             \/ \E i \in 1..Len(s) : p = <<h, i>> /\ EntryAt(p) = s[i]
  <2>0. PICK b \in 0..bucket_mask : \E i \in DOMAIN buckets[b] : p = <<b, i>>
    BY <1>4
  <2>1. PICK i \in DOMAIN buckets[b] : p = <<b, i>>
    BY <2>0
  <2>2. EntryAt(p) = buckets[b][i] /\ p[1] = b
    BY <1>4, <2>1
  <2>3. CASE b = h
    BY <1>1, <2>1, <2>2, <2>3
  <2>4. CASE b # h
    BY <1>2, <1>5, <2>1, <2>2, <2>4
  <2> QED BY <2>3, <2>4
<1>8. ASSUME NEW i \in 1..Len(entries), NEW p, p = <<h, i>>
      PROVE  p \in Places' /\ EntryAt(p)' = entries[i]
  <2>1. PICK b \in 0..bucket_mask : b = h
    BY <1>1
  <2>2. buckets'[b] = entries /\ i \in DOMAIN buckets'[b]
    BY <1>1, <1>2, <2>1
  <2>3. <<b, i>> \in Places' /\ EntryAt(<<b, i>>)' = entries[i]
    BY <1>5, <2>2
  <2> QED BY <1>8, <2>1, <2>3
<1>9. \A i \in 1..Len(s) : <<h, i>> \in Places /\ EntryAt(<<h, i>>) = s[i]
  BY <1>1, <1>4
<1> QED BY <1>6, <1>7, <1>8, <1>9 DEF h, s

(* The same of the bucket of a key; it is enough to look at that. *)
Rearranged(k, entries, P, N, f) ==
    /\ \A i \in 1..Len(entries) :
          \/ entries[i].data \in N /\ entries[i].free_func = f
          \/ \E j \in 1..Len(get_bucket(k)) :
                 <<hash[k], j>> \notin P /\ entries[i] = get_bucket(k)[j]
    /\ \A j \in 1..Len(get_bucket(k)) : <<hash[k], j>> \notin P =>
           \E i \in 1..Len(entries) : entries[i] = get_bucket(k)[j]
    /\ \A d \in N : \E i \in 1..Len(entries) : entries[i].data = d
    /\ \A i, j \in 1..Len(entries) : entries[i].data = entries[j].data => i = j

LEMMA StoreMoves ==
    ASSUME MapInv, DataInv, NEW k \in Keys(kind), NEW entries \in Seq(MapEntries),
           Store(k, entries), UNCHANGED <<kind, hash, dropped>>,
           NEW P \in SUBSET {<<hash[k], i>> : i \in 1..Len(get_bucket(k))}, Free(P),
           NEW N, NEW f \in BOOLEAN, Given(N, f), Rearranged(k, entries, P, N, f)
    PROVE  DataInv'
<1> DEFINE h == hash[k]
           s == get_bucket(k)
<1>0. /\ \A i \in 1..Len(entries) :
            \/ entries[i].data \in N /\ entries[i].free_func = f
            \/ \E j \in 1..Len(s) : <<h, j>> \notin P /\ entries[i] = s[j]
      /\ \A j \in 1..Len(s) : <<h, j>> \notin P => \E i \in 1..Len(entries) : entries[i] = s[j]
      /\ \A d \in N : \E i \in 1..Len(entries) : entries[i].data = d
      /\ \A i, j \in 1..Len(entries) : entries[i].data = entries[j].data => i = j
  BY DEF Rearranged
<1>1. /\ \A p \in Places' :
             \/ p[1] # h /\ p \in Places /\ EntryAt(p)' = EntryAt(p)
             \/ \E i \in 1..Len(entries) : p = <<h, i>> /\ EntryAt(p)' = entries[i]
      /\ \A p \in Places :
             \/ p[1] # h /\ p \in Places' /\ EntryAt(p)' = EntryAt(p)
             \/ \E i \in 1..Len(s) : p = <<h, i>> /\ EntryAt(p) = s[i]
      /\ \A p : \A i \in 1..Len(entries) :
             p = <<h, i>> => p \in Places' /\ EntryAt(p)' = entries[i]
      /\ \A i \in 1..Len(s) : <<h, i>> \in Places /\ EntryAt(<<h, i>>) = s[i]
  BY StorePlaces
<1>2. P \subseteq Places /\ \A p \in P : p[1] = h
  BY <1>1
<1>3. /\ owned \in Seq(BOOLEAN) /\ N \cap Data = {}
  <2>1. owned \in Seq(BOOLEAN)
    BY DEF MapInv, MapTypeInv
  <2>2. Data = 1..Len(owned) /\ Len(owned) \in Nat
    BY <2>1 DEF Data
  <2> QED BY <2>1, <2>2 DEF Given
<1>4. \A p \in Places : EntryAt(p).data \in Data
  BY DEF DataInv
<1>5. ASSUME NEW p \in Places'
      PROVE  \/ EntryAt(p)'.data \in N /\ EntryAt(p)'.free_func = f
             \/ \E q \in Places \ P : EntryAt(p)' = EntryAt(q)
  <2>1. CASE p[1] # h /\ p \in Places /\ EntryAt(p)' = EntryAt(p)
    BY <1>2, <2>1
  <2>2. ASSUME NEW i \in 1..Len(entries), EntryAt(p)' = entries[i]
        PROVE  \/ EntryAt(p)'.data \in N /\ EntryAt(p)'.free_func = f
               \/ \E q \in Places \ P : EntryAt(p)' = EntryAt(q)
    <3>1. CASE entries[i].data \in N /\ entries[i].free_func = f
      BY <2>2, <3>1
    <3>2. ASSUME NEW j \in 1..Len(s), <<h, j>> \notin P, entries[i] = s[j]
          PROVE  \E q \in Places \ P : EntryAt(p)' = EntryAt(q)
      BY <1>1, <2>2, <3>2
    <3> QED BY <1>0, <3>1, <3>2
  <2> QED BY <1>1, <2>1, <2>2
<1>6. ASSUME NEW q \in Places \ P PROVE \E p \in Places' : EntryAt(p)' = EntryAt(q)
  <2>1. CASE q[1] # h /\ q \in Places' /\ EntryAt(q)' = EntryAt(q)
    BY <2>1
  <2>2. ASSUME NEW j \in 1..Len(s), q = <<h, j>>, EntryAt(q) = s[j]
        PROVE  \E p \in Places' : EntryAt(p)' = EntryAt(q)
    <3>1. PICK i \in 1..Len(entries) : entries[i] = s[j]
      BY <1>0, <1>6, <2>2
    <3>2. PICK p : p = <<h, i>>
      OBVIOUS
    <3>3. p \in Places' /\ EntryAt(p)' = entries[i]
      BY <1>1, <3>2
    <3> QED BY <2>2, <3>1, <3>3
  <2> QED BY <1>1, <2>1, <2>2
<1>7. ASSUME NEW d \in N PROVE \E p \in Places' : EntryAt(p)'.data = d
  <2>1. PICK i \in 1..Len(entries) : entries[i].data = d
    BY <1>0
  <2>2. PICK p : p = <<h, i>>
    OBVIOUS
  <2>3. p \in Places' /\ EntryAt(p)' = entries[i]
    BY <1>1, <2>2
  <2> QED BY <2>1, <2>3
<1>8. ASSUME NEW p \in Places', NEW q \in Places', EntryAt(p)'.data = EntryAt(q)'.data
      PROVE  p = q
  <2> DEFINE Here(x) == \E i \in 1..Len(entries) : x = <<h, i>> /\ EntryAt(x)' = entries[i]
             There(x) == x[1] # h /\ x \in Places /\ EntryAt(x)' = EntryAt(x)
  <2>1. (Here(p) \/ There(p)) /\ (Here(q) \/ There(q))
    BY <1>1
  <2>2. CASE Here(p) /\ Here(q)
    BY <1>0, <1>8, <2>2
  <2>3. CASE There(p) /\ There(q)
    BY <1>8, <2>3 DEF DataInv
  <2>4. ASSUME NEW x \in Places', NEW y \in Places', Here(x), There(y)
        PROVE  EntryAt(x)'.data # EntryAt(y)'.data
    <3>1. PICK i \in 1..Len(entries) : x = <<h, i>> /\ EntryAt(x)' = entries[i]
      BY <2>4
    <3>2. EntryAt(y)'.data \in Data /\ y[1] # h /\ y \in Places /\ EntryAt(y)' = EntryAt(y)
      BY <1>4, <2>4
    <3>3. CASE entries[i].data \in N
      BY <1>3, <3>1, <3>2, <3>3
    <3>4. ASSUME NEW j \in 1..Len(s), entries[i] = s[j] PROVE EntryAt(x)'.data # EntryAt(y)'.data
      <4>1. <<h, j>> \in Places /\ EntryAt(<<h, j>>) = s[j] /\ y # <<h, j>>
        BY <1>1, <3>2
      <4> QED BY <3>1, <3>2, <3>4, <4>1 DEF DataInv
    <3> QED BY <1>0, <3>3, <3>4
  <2> HIDE DEF Here, There
  <2> QED BY <1>8, <2>1, <2>2, <2>3, <2>4
<1>9. P \in SUBSET Places /\ dropped' = dropped
  BY <1>2
<1>10. Moved(P, N, f)
  BY <1>5, <1>6, <1>7, <1>8 DEF Moved
<1> QED BY <1>3, <1>9, <1>10, DataMoves

LEMMA BucketData ==
    ASSUME MapInv, DataInv, NEW k \in Keys(kind)
    PROVE  /\ \A i \in 1..Len(get_bucket(k)) : get_bucket(k)[i].data \in 1..Len(owned)
           /\ \A i, j \in 1..Len(get_bucket(k)) :
                  get_bucket(k)[i].data = get_bucket(k)[j].data => i = j
<1> DEFINE h == hash[k]
           s == get_bucket(k)
<1>1. h \in 0..bucket_mask /\ s = buckets[h] /\ s \in Seq(MapEntries)
  BY DEF MapInv, MapTypeInv, get_bucket
<1>2. Data = 1..Len(owned)
  BY DEF MapInv, MapTypeInv, Data
<1> HIDE DEF h, s
<1>3. \A i \in 1..Len(s) : <<h, i>> \in Places /\ EntryAt(<<h, i>>) = s[i]
  BY <1>1, PlacesCorrect DEF PlacesAre
<1>4. \A i \in 1..Len(s) : s[i].data \in 1..Len(owned)
  BY <1>2, <1>3 DEF DataInv
<1>5. \A i, j \in 1..Len(s) : s[i].data = s[j].data => i = j
  <2>1. \A p, q \in Places : EntryAt(p).data = EntryAt(q).data => p = q
    BY DEF DataInv
  <2> SUFFICES ASSUME NEW i \in 1..Len(s), NEW j \in 1..Len(s), s[i].data = s[j].data
               PROVE  i = j
    OBVIOUS
  <2>2. <<h, i>> = <<h, j>>
    BY <1>3, <2>1
  <2> QED BY <2>2
<1> QED BY <1>4, <1>5 DEF s

LEMMA ReplaceData ==
    ASSUME MapInv, DataInv, NEW k \in Keys(kind), NEW d \in 1..MaxData, NEW f \in BOOLEAN,
           Replace(k, d, f)
    PROVE  DataInv'
<1> DEFINE s == get_bucket(k)
           n == Find(k)
           e == Entry(s[n].key, d, f)
           t == ReplaceAt(s, n, e)
           P == {FoundAt(k)}
<1>0. /\ n # 0 /\ d = Len(owned) + 1 /\ owned' = Append(owned, f)
      /\ Store(k, t) /\ Free(P) /\ UNCHANGED <<kind, hash, dropped>>
  BY DEF Replace, Fresh, FoundAt
<1>1. n \in 1..Len(s) /\ s \in Seq(MapEntries) /\ Len(s) \in Nat /\ s[n] \in MapEntries
  BY <1>0, FoundEntry
<1>2. e \in MapEntries /\ e.data = d /\ e.free_func = f
  BY <1>1 DEF Entry, MapEntries
<1>3. \A i \in 1..Len(s) : <<hash[k], i>> \notin P <=> i # n
  BY DEF FoundAt
<1>4. Given({d}, f) /\ Len(owned) \in Nat
  BY <1>0 DEF Given, MapInv, MapTypeInv
<1>5. /\ \A i \in 1..Len(s) : s[i].data \in 1..Len(owned)
      /\ \A i, j \in 1..Len(s) : s[i].data = s[j].data => i = j
  BY BucketData
<1>6. P \in SUBSET {<<hash[k], i>> : i \in 1..Len(s)}
  BY <1>1 DEF FoundAt
<1> HIDE DEF s, n, e, P
<1>7. /\ t \in Seq(MapEntries) /\ Len(t) = Len(s)
      /\ \A i \in 1..Len(s) : t[i] = IF i = n THEN e ELSE s[i]
  BY <1>1, <1>2 DEF ReplaceAt
<1> HIDE DEF t
<1>8. \A i \in 1..Len(t) : \/ t[i].data \in {d} /\ t[i].free_func = f
                           \/ \E j \in 1..Len(s) : <<hash[k], j>> \notin P /\ t[i] = s[j]
  BY <1>2, <1>3, <1>7
<1>9. \A j \in 1..Len(s) : <<hash[k], j>> \notin P => \E i \in 1..Len(t) : t[i] = s[j]
  BY <1>3, <1>7
<1>10. \A x \in {d} : \E i \in 1..Len(t) : t[i].data = x
  BY <1>1, <1>2, <1>7
<1>11. \A i \in 1..Len(s) : s[i].data # d
  BY <1>0, <1>4, <1>5
<1>12. \A i, j \in 1..Len(t) : t[i].data = t[j].data => i = j
  BY <1>2, <1>5, <1>7, <1>11
<1>13. Rearranged(k, t, P, {d}, f)
  BY <1>8, <1>9, <1>10, <1>12 DEF Rearranged, s
<1> QED BY <1>0, <1>4, <1>6, <1>7, <1>13, StoreMoves DEF s

LEMMA DeleteData ==
    ASSUME MapInv, DataInv, NEW k \in Keys(kind), Delete(k)
    PROVE  DataInv'
<1> DEFINE s == get_bucket(k)
           n == Find(k)
           t == RemoveAt(s, n)
           P == {FoundAt(k)}
           old(i) == IF i < n THEN i ELSE i + 1
<1>0. n # 0 /\ Store(k, t) /\ Free(P) /\ UNCHANGED <<kind, hash, owned, dropped>>
  BY DEF Delete, FoundAt
<1>1. n \in 1..Len(s) /\ s \in Seq(MapEntries) /\ Len(s) \in Nat
  BY <1>0, FoundEntry
<1>2. /\ t \in Seq(MapEntries) /\ Len(t) = Len(s) - 1
      /\ \A i \in 1..Len(s) - 1 : t[i] = IF i < n THEN s[i] ELSE s[i + 1]
  BY <1>1, RemoveElement
<1>3. \A i \in 1..Len(s) : <<hash[k], i>> \notin P <=> i # n
  BY DEF FoundAt
<1>4. Given({}, TRUE)
  BY <1>0 DEF Given
<1>5. \A i, j \in 1..Len(s) : s[i].data = s[j].data => i = j
  BY BucketData
<1>6. P \in SUBSET {<<hash[k], i>> : i \in 1..Len(s)}
  BY <1>1 DEF FoundAt
<1> HIDE DEF s, n, t, P
<1>7. \A i \in 1..Len(t) : old(i) \in 1..Len(s) /\ old(i) # n /\ t[i] = s[old(i)]
  BY <1>1, <1>2
<1>8. \A i, j \in 1..Len(t) : old(i) = old(j) => i = j
  BY <1>1, <1>2
<1>9. ASSUME NEW i \in 1..Len(s), i # n PROVE \E j \in 1..Len(t) : old(j) = i
  <2>1. CASE i < n
    <3>1. i \in 1..Len(t) /\ old(i) = i
      BY <1>1, <1>2, <2>1
    <3> QED BY <3>1
  <2>2. CASE i > n
    <3>1. i - 1 \in 1..Len(t) /\ old(i - 1) = i
      BY <1>1, <1>2, <2>2
    <3> QED BY <3>1
  <2> QED BY <1>1, <1>9, <2>1, <2>2
<1> HIDE DEF old
<1>10. \A i \in 1..Len(t) : \E j \in 1..Len(s) : <<hash[k], j>> \notin P /\ t[i] = s[j]
  BY <1>3, <1>7
<1>11. \A j \in 1..Len(s) : <<hash[k], j>> \notin P => \E i \in 1..Len(t) : t[i] = s[j]
  BY <1>3, <1>7, <1>9
<1>12. \A i, j \in 1..Len(t) : t[i].data = t[j].data => i = j
  BY <1>5, <1>7, <1>8
<1>13. Rearranged(k, t, P, {}, TRUE)
  BY <1>10, <1>11, <1>12 DEF Rearranged, s
<1> QED BY <1>0, <1>2, <1>4, <1>6, <1>13, StoreMoves DEF s

(* Freeing no entry frees nothing. *)
LEMMA FreeNothing ==
    ASSUME DataInv, freed' = freed
    PROVE  Free({})
<1>1. \A d : {p \in Holders({}, d) : EntryAt(p).free_func} = {}
  BY DEF Holders
<1>2. freed \in [1..MaxData -> Nat]
  BY DEF DataInv
<1>3. \A d \in 1..MaxData : freed[d] + 0 = freed[d]
  BY <1>2
<1>4. freed = [d \in 1..MaxData |-> freed[d] + 0]
  BY <1>2, <1>3
<1> QED BY <1>1, <1>4, FS_EmptySet DEF Free

LEMMA InsertData ==
    ASSUME MapInv, DataInv, NEW k \in Keys(kind), NEW d \in 1..MaxData, NEW f \in BOOLEAN,
           Insert(k, d, f), UNCHANGED dropped, Store(k, <<Entry(k, d, f)>> \o get_bucket(k))
    PROVE  DataInv'
<1> DEFINE s == get_bucket(k)
           e == Entry(k, d, f)
           t == <<e>> \o s
<1>0. /\ d = Len(owned) + 1 /\ owned' = Append(owned, f)
      /\ Store(k, t) /\ UNCHANGED <<kind, hash, freed, dropped>>
  BY DEF Insert, Fresh
<1>1. Given({d}, f) /\ Len(owned) \in Nat /\ Free({})
  BY <1>0, FreeNothing DEF Given, MapInv, MapTypeInv
<1>2. e \in MapEntries /\ e.data = d /\ e.free_func = f
  BY <1>0, <1>1 DEF Entry, MapEntries
<1>3. s \in Seq(MapEntries) /\ Len(s) \in Nat
  BY FindCorrect DEF FindsMatch
<1>4. /\ \A i \in 1..Len(s) : s[i].data \in 1..Len(owned)
      /\ \A i, j \in 1..Len(s) : s[i].data = s[j].data => i = j
  BY BucketData
<1> HIDE DEF s, e
<1>5. /\ t \in Seq(MapEntries) /\ Len(t) = Len(s) + 1 /\ t[1] = e
      /\ \A i \in 1..Len(s) : t[i + 1] = s[i] /\ i + 1 \in 1..Len(t)
      /\ \A i \in 1..Len(t) : i # 1 => t[i] = s[i - 1] /\ i - 1 \in 1..Len(s)
  <2>1. /\ t \in Seq(MapEntries) /\ Len(t) = 1 + Len(s)
        /\ \A i \in 1..1 + Len(s) : t[i] = IF i <= 1 THEN <<e>>[i] ELSE s[i - 1]
    BY <1>2, <1>3, ConcatProperties
  <2> HIDE DEF t
  <2> QED BY <1>3, <2>1
<1> HIDE DEF t
<1>6. 1 \in 1..Len(t)
  BY <1>3, <1>5
<1>7. \A i \in 1..Len(s) : s[i].data # d
  BY <1>0, <1>1, <1>4
<1>8. ASSUME NEW i \in 1..Len(t), NEW j \in 1..Len(t), t[i].data = t[j].data
      PROVE  i = j
  <2>1. CASE i = 1 \/ j = 1
    BY <1>2, <1>5, <1>7, <1>8, <2>1
  <2>2. CASE i # 1 /\ j # 1
    <3>1. /\ i - 1 \in 1..Len(s) /\ j - 1 \in 1..Len(s)
          /\ t[i] = s[i - 1] /\ t[j] = s[j - 1]
      BY ONLY <1>5, <2>2, i \in 1..Len(t), j \in 1..Len(t)
    <3>2. i - 1 = j - 1
      BY ONLY <1>4, <1>8, <3>1
    <3>3. Len(t) \in Nat
      BY ONLY <1>3, <1>5
    <3> QED BY ONLY <3>2, <3>3, i \in 1..Len(t), j \in 1..Len(t)
  <2> QED BY <2>1, <2>2
<1>9. \A i \in 1..Len(t) : \/ t[i].data \in {d} /\ t[i].free_func = f
                           \/ \E j \in 1..Len(s) : t[i] = s[j]
  BY <1>2, <1>5
<1>10. Rearranged(k, t, {}, {d}, f)
  BY <1>2, <1>5, <1>6, <1>8, <1>9 DEF Rearranged, s
<1> QED BY <1>0, <1>1, <1>5, <1>10, StoreMoves

(* A datum without memory for its entry is with nobody. *)
LEMMA DropData ==
    ASSUME MapInv, DataInv, NEW k, NEW d \in 1..MaxData, NEW f \in BOOLEAN,
           Insert(k, d, f), UNCHANGED buckets, dropped' = dropped \cup {d}
    PROVE  DataInv'
<1> DEFINE n == Len(owned)
<1>0. d = n + 1 /\ owned' = Append(owned, f) /\ freed' = freed
  BY DEF Insert, Fresh
<1>1. /\ n \in Nat /\ Data = 1..n /\ Data' = 1..n + 1 /\ d \notin Data /\ Data' = Data \cup {d}
      /\ \A x \in Data : owned'[x] = owned[x]
  <2>1. owned \in Seq(BOOLEAN) /\ n \in Nat /\ Data = 1..n
    BY DEF MapInv, MapTypeInv, Data
  <2>2. /\ Data' = 1..n + 1 /\ \A x \in 1..n : owned'[x] = owned[x]
    BY <1>0, <2>1 DEF Data
  <2>3. 1..n + 1 = 1..n \cup {n + 1} /\ n + 1 \notin 1..n
    BY <2>1
  <2> QED BY <1>0, <2>1, <2>2, <2>3
<1>2. Places' = Places /\ \A p : EntryAt(p)' = EntryAt(p)
  BY DEF Places, EntryAt, bucket_mask
<1>3. \A x : Entered(x)' <=> Entered(x)
  BY <1>2 DEF Entered
<1>4. /\ freed \in [1..MaxData -> Nat] /\ Data \subseteq 1..MaxData /\ dropped \subseteq Data
      /\ \A p \in Places : /\ EntryAt(p).data \in Data
                           /\ EntryAt(p).free_func = owned[EntryAt(p).data]
      /\ \A p, q \in Places : EntryAt(p).data = EntryAt(q).data => p = q
      /\ \A x \in dropped : ~Entered(x)
      /\ \A x \in Data :
            freed[x] = IF owned[x] /\ ~Entered(x) /\ x \notin dropped THEN 1 ELSE 0
      /\ \A x \in 1..MaxData : x \notin Data => freed[x] = 0
  BY DEF DataInv
<1>5. ~Entered(d)
  BY <1>1, <1>4 DEF Entered
<1> HIDE DEF n
<1>6. /\ freed' \in [1..MaxData -> Nat] /\ Data' \subseteq 1..MaxData /\ dropped' \subseteq Data'
      /\ \A x \in 1..MaxData : x \notin Data' => freed'[x] = 0
  BY <1>0, <1>1, <1>4
<1>7. \A p \in Places' : /\ EntryAt(p)'.data \in Data'
                         /\ EntryAt(p)'.free_func = owned'[EntryAt(p)'.data]
  BY <1>1, <1>2, <1>4
<1>8. \A p, q \in Places' : EntryAt(p)'.data = EntryAt(q)'.data => p = q
  BY <1>2, <1>4
<1>9. \A x \in dropped' : ~Entered(x)'
  BY <1>3, <1>4, <1>5
<1>10. ASSUME NEW x \in Data'
       PROVE  freed'[x] = IF owned'[x] /\ ~Entered(x)' /\ x \notin dropped' THEN 1 ELSE 0
  <2>1. CASE x = d
    BY <1>0, <1>1, <1>4, <2>1
  <2>2. CASE x \in Data
    BY <1>0, <1>1, <1>3, <1>4, <2>2
  <2> QED BY <1>1, <2>1, <2>2
<1> QED BY <1>6, <1>7, <1>8, <1>9, <1>10 DEF DataInv

LEMMA ClearData ==
    ASSUME MapInv, DataInv, vk_map_clear
    PROVE  DataInv'
<1>1. /\ Free(Places) /\ UNCHANGED <<owned, dropped>>
      /\ buckets' = [b \in 0..bucket_mask |-> <<>>]
  BY DEF vk_map_clear
<1>2. Places' = {}
  BY <1>1 DEF Places, bucket_mask
<1>3. Given({}, TRUE) /\ Moved(Places, {}, TRUE)
  BY <1>1, <1>2 DEF Given, Moved
<1>4. owned \in Seq(BOOLEAN) /\ Places \in SUBSET Places
  BY DEF MapInv, MapTypeInv
<1> QED BY <1>1, <1>3, <1>4, DataMoves

LEMMA DataInit == MapInit => DataInv
<1> SUFFICES ASSUME MapInit PROVE DataInv
  OBVIOUS
<1>1. Places = {}
  BY DEF MapInit, Places
<1> QED BY <1>1 DEF MapInit, DataInv, Data

LEMMA DataNext == MapInv /\ DataInv /\ [MapNext]_mapVars => DataInv'
<1> SUFFICES ASSUME MapInv, DataInv, [MapNext]_mapVars PROVE DataInv'
  OBVIOUS
<1>1. ASSUME NEW k \in Keys(kind), NEW d \in 1..MaxData, NEW f \in BOOLEAN, vk_map_set(k, d, f)
      PROVE  DataInv'
  <2>1. CASE Replace(k, d, f)
    BY <2>1, ReplaceData
  <2>2. CASE Insert(k, d, f)
    <3>1. CASE Store(k, <<Entry(k, d, f)>> \o get_bucket(k)) /\ UNCHANGED dropped
      BY <2>2, <3>1, InsertData
    <3>2. CASE dropped' = dropped \cup {d} /\ UNCHANGED buckets
      BY <2>2, <3>2, DropData
    <3> QED BY <2>2, <3>1, <3>2 DEF Insert
  <2> QED BY <1>1, <2>1, <2>2 DEF vk_map_set
<1>2. ASSUME NEW k \in Keys(kind), Delete(k) PROVE DataInv'
  BY <1>2, DeleteData
<1>3. CASE vk_map_clear
  BY <1>3, ClearData
<1>4. CASE UNCHANGED mapVars
  <2>1. Places' = Places /\ Data' = Data /\ \A p : EntryAt(p)' = EntryAt(p)
    BY <1>4 DEF mapVars, Places, Data, EntryAt, bucket_mask
  <2>2. \A d : Entered(d)' <=> Entered(d)
    BY <2>1 DEF Entered
  <2> QED BY <1>4, <2>1, <2>2 DEF mapVars, DataInv
<1> QED BY <1>1, <1>2, <1>3, <1>4 DEF MapNext, vk_map_destroy

(* Whatever is set, replaced, deleted and cleared, and for any hash        *)
(* function, vk_map (utils/map.c) calls the free function of a datum once, *)
(* when its entry goes, and never that of a datum given without; only a    *)
(* datum that found no memory for its entry is left to nobody.             *)
THEOREM DataFreedOnceCorrect == MapSpec => []DataFreedOnce
<1>1. MapInit => MapInv /\ DataInv
  BY MapStart, DataInit
<1>2. MapInv /\ DataInv /\ [MapNext]_mapVars => MapInv' /\ DataInv'
  BY MapNextMaps, DataNext DEF MapStep
<1>3. DataInv => DataFreedOnce
  <2> SUFFICES ASSUME DataInv, NEW d \in DOMAIN owned
               PROVE  /\ owned[d] => freed[d] + Cardinality(Holders(Places, d))
                                        + (IF d \in dropped THEN 1 ELSE 0) = 1
                      /\ ~owned[d] => freed[d] = 0
    BY DEF DataFreedOnce
  <2>1. /\ d \in dropped => ~Entered(d)
        /\ freed[d] = IF owned[d] /\ ~Entered(d) /\ d \notin dropped THEN 1 ELSE 0
    BY DEF DataInv, Data
  <2>2. Cardinality(Holders(Places, d)) = IF Entered(d) THEN 1 ELSE 0
    <3>1. CASE Entered(d)
      <4>1. PICK p \in Places : EntryAt(p).data = d
        BY <3>1 DEF Entered
      <4>2. Holders(Places, d) = {p}
        BY <4>1, HeldOnce
      <4> QED BY <3>1, <4>2, FS_Singleton
    <3>2. CASE ~Entered(d)
      <4>1. Holders(Places, d) = {}
        BY <3>2 DEF Entered, Holders
      <4> QED BY <3>2, <4>1, FS_EmptySet
    <3> QED BY <3>1, <3>2
  <2> QED BY <2>1, <2>2
<1> QED BY <1>1, <1>2, <1>3, PTL DEF MapSpec
-----------------------------------------------------------------------------
(* The i-th node of the ring of a head and its elements s; node 0 and the  *)
(* one behind the last element are the head.                               *)
Node(s, h, i) == IF i \in 1..Len(s) THEN s[i] ELSE h

Differ(s) == \A i, j \in 1..Len(s) : s[i] = s[j] => i = j
Avoids(s, n) == \A i \in 1..Len(s) : s[i] # n
Disjoint(s, t) == \A i \in 1..Len(s), j \in 1..Len(t) : s[i] # t[j]

(* The links of the ring, in both directions. *)
Joined(s, h, next, prev, i) == /\ next[Node(s, h, i)] = Node(s, h, i + 1)
                               /\ prev[Node(s, h, i + 1)] = Node(s, h, i)
Chain(s, h, next, prev) == \A i \in 0..Len(s) : Joined(s, h, next, prev, i)
-----------------------------------------------------------------------------
LEMMA InsertElements ==
    ASSUME NEW S, NEW s \in Seq(S), NEW t \in Seq(S), NEW i \in 0..Len(s)
    PROVE  /\ InsertSeq(s, i, t) \in Seq(S)
           /\ Len(InsertSeq(s, i, t)) = Len(s) + Len(t)
           /\ \A j \in 1..Len(s) + Len(t) :
                 InsertSeq(s, i, t)[j] = IF j <= i THEN s[j]
                                         ELSE IF j <= i + Len(t) THEN t[j - i]
                                         ELSE s[j - Len(t)]
<1> DEFINE p == SubSeq(s, 1, i)
           q == SubSeq(s, i + 1, Len(s))
<1>1. /\ Len(s) \in Nat /\ i \in Nat /\ i <= Len(s) /\ Len(t) \in Nat
      /\ p \in Seq(S) /\ Len(p) = i /\ \A j \in 1..i : p[j] = s[j]
      /\ q \in Seq(S) /\ Len(q) = Len(s) - i /\ \A j \in 1..Len(s) - i : q[j] = s[j + i]
  OBVIOUS
<1> HIDE DEF p, q
<1>2. /\ p \o t \in Seq(S) /\ Len(p \o t) = i + Len(t)
      /\ \A j \in 1..i + Len(t) : (p \o t)[j] = IF j <= i THEN p[j] ELSE t[j - i]
  <2>0. p \in Seq(S)
    BY <1>1
  <2>1. /\ p \o t \in Seq(S) /\ Len(p \o t) = Len(p) + Len(t)
        /\ \A j \in 1..Len(p) + Len(t) :
              (p \o t)[j] = IF j <= Len(p) THEN p[j] ELSE t[j - Len(p)]
    BY <2>0, ConcatProperties
  <2> QED BY <1>1, <2>1
<1>3. /\ (p \o t) \o q \in Seq(S) /\ Len((p \o t) \o q) = (i + Len(t)) + (Len(s) - i)
      /\ \A j \in 1..(i + Len(t)) + (Len(s) - i) :
            ((p \o t) \o q)[j] = IF j <= i + Len(t) THEN (p \o t)[j] ELSE q[j - (i + Len(t))]
  <2> DEFINE v == p \o t
  <2>0. v \in Seq(S) /\ q \in Seq(S)
    BY <1>1, <1>2
  <2>1. Len(v) = i + Len(t)
    BY <1>2
  <2> HIDE DEF v
  <2>2. /\ v \o q \in Seq(S) /\ Len(v \o q) = Len(v) + Len(q)
        /\ \A j \in 1..Len(v) + Len(q) :
              (v \o q)[j] = IF j <= Len(v) THEN v[j] ELSE q[j - Len(v)]
    BY <2>0, ConcatProperties
  <2> QED BY <1>1, <2>1, <2>2 DEF v
<1>4. (i + Len(t)) + (Len(s) - i) = Len(s) + Len(t)
  BY <1>1
<1>5. InsertSeq(s, i, t) = (p \o t) \o q
  BY DEF InsertSeq, p, q
<1>6. ASSUME NEW j \in 1..Len(s) + Len(t)
      PROVE  ((p \o t) \o q)[j] = IF j <= i THEN s[j]
                                  ELSE IF j <= i + Len(t) THEN t[j - i] ELSE s[j - Len(t)]
  <2>1. CASE j <= i + Len(t)
    <3>1. ((p \o t) \o q)[j] = (p \o t)[j] /\ j \in 1..i + Len(t)
      BY <1>1, <1>3, <1>4, <2>1
    <3> QED BY <1>1, <1>2, <2>1, <3>1
  <2>2. CASE ~(j <= i + Len(t))
    <3>0. /\ j \in 1..(i + Len(t)) + (Len(s) - i) /\ j - (i + Len(t)) \in 1..Len(s) - i
      BY ONLY <1>1, <1>4, <2>2, j \in 1..Len(s) + Len(t)
    <3>1. ((p \o t) \o q)[j] = q[j - (i + Len(t))] /\ j - (i + Len(t)) \in 1..Len(s) - i
      BY ONLY <1>3, <2>2, <3>0
    <3>2. (j - (i + Len(t))) + i = j - Len(t) /\ ~(j <= i)
      BY <1>1, <2>2
    <3> QED BY <1>1, <2>2, <3>1, <3>2
  <2> QED BY <2>1, <2>2
<1> QED BY <1>3, <1>4, <1>5, <1>6

(* Changes of the links elsewhere leave a ring alone.                      *)
LEMMA ChainFrame ==
    ASSUME NEW S, NEW s \in Seq(S), NEW h, NEW next, NEW prev, NEW next2, NEW prev2,
           Chain(s, h, next, prev),
           next2[h] = next[h], prev2[h] = prev[h],
           \A i \in 1..Len(s) : next2[s[i]] = next[s[i]] /\ prev2[s[i]] = prev[s[i]]
    PROVE  Chain(s, h, next2, prev2)
<1> SUFFICES ASSUME NEW i \in 0..Len(s) PROVE Joined(s, h, next2, prev2, i)
  BY DEF Chain
<1>1. Joined(s, h, next, prev, i)
  BY DEF Chain
<1>2. \A j : next2[Node(s, h, j)] = next[Node(s, h, j)] /\ prev2[Node(s, h, j)] = prev[Node(s, h, j)]
  BY DEF Node
<1> QED BY <1>1, <1>2 DEF Joined

(* t is put behind node i. *)
Spliced(s, t, i, h, next, prev, next2, prev2) ==
    /\ next2[Node(s, h, i)] = t[1] /\ prev2[t[1]] = Node(s, h, i)
    /\ \A j \in 1..Len(t) - 1 : next2[t[j]] = t[j + 1] /\ prev2[t[j + 1]] = t[j]
    /\ next2[t[Len(t)]] = Node(s, h, i + 1) /\ prev2[Node(s, h, i + 1)] = t[Len(t)]
    /\ \A j \in 0..Len(s) : j # i =>
           /\ next2[Node(s, h, j)] = next[Node(s, h, j)]
           /\ prev2[Node(s, h, j + 1)] = prev[Node(s, h, j + 1)]

LEMMA ChainInsert ==
    ASSUME NEW S, NEW s \in Seq(S), NEW t \in Seq(S), NEW i \in 0..Len(s), NEW h,
           NEW next, NEW prev, NEW next2, NEW prev2, Len(t) > 0,
           Chain(s, h, next, prev), Spliced(s, t, i, h, next, prev, next2, prev2)
    PROVE  Chain(InsertSeq(s, i, t), h, next2, prev2)
<1> DEFINE u == InsertSeq(s, i, t)
           m == Len(t)
<1>1. /\ m \in Nat /\ m > 0 /\ Len(s) \in Nat /\ i \in Nat /\ i <= Len(s)
      /\ u \in Seq(S) /\ Len(u) = Len(s) + m
      /\ \A j \in 1..Len(s) + m :
            u[j] = IF j <= i THEN s[j] ELSE IF j <= i + m THEN t[j - i] ELSE s[j - m]
  <2>1. Len(t) \in Nat /\ Len(s) \in Nat /\ i \in Nat /\ i <= Len(s)
    OBVIOUS
  <2>2. /\ u \in Seq(S) /\ Len(u) = Len(s) + Len(t)
        /\ \A j \in 1..Len(s) + Len(t) :
              u[j] = IF j <= i THEN s[j] ELSE IF j <= i + Len(t) THEN t[j - i] ELSE s[j - Len(t)]
    BY ONLY InsertElements, s \in Seq(S), t \in Seq(S), i \in 0..Len(s)
  <2> HIDE DEF u
  <2> QED BY <2>1, <2>2
<1> HIDE DEF u, m
<1>2. /\ \A j \in 0..i : Node(u, h, j) = Node(s, h, j)
      /\ \A j \in i + 1..i + m : Node(u, h, j) = t[j - i]
      /\ \A j \in i + m + 1..Len(s) + m + 1 : Node(u, h, j) = Node(s, h, j - m)
  BY <1>1 DEF Node
<1> SUFFICES ASSUME NEW j \in 0..Len(s) + m PROVE Joined(u, h, next2, prev2, j)
  BY <1>1 DEF Chain, u
<1>3. CASE j < i
  <2>1. j \in 0..Len(s) /\ j # i /\ j \in 0..i /\ j + 1 \in 0..i
    BY <1>1, <1>3
  <2>2. Joined(s, h, next, prev, j)
    BY <2>1 DEF Chain
  <2> QED BY <1>2, <2>1, <2>2 DEF Joined, Spliced
<1>4. CASE j = i
  <2>1. j \in 0..i /\ j + 1 \in i + 1..i + m /\ (j + 1) - i = 1
    BY <1>1, <1>4
  <2> QED BY <1>2, <1>4, <2>1 DEF Joined, Spliced
<1>5. CASE i < j /\ j < i + m
  <2>1. /\ j \in i + 1..i + m /\ j + 1 \in i + 1..i + m
        /\ (j + 1) - i = (j - i) + 1 /\ j - i \in 1..Len(t) - 1
    BY <1>1, <1>5 DEF m
  <2> QED BY <1>2, <2>1 DEF Joined, Spliced
<1>6. CASE j = i + m
  <2>1. /\ j \in i + 1..i + m /\ j + 1 \in i + m + 1..Len(s) + m + 1
        /\ j - i = Len(t) /\ (j + 1) - m = i + 1
    BY <1>1, <1>6 DEF m
  <2> QED BY <1>2, <2>1 DEF Joined, Spliced
<1>7. CASE i + m < j
  <2>1. /\ j \in i + m + 1..Len(s) + m + 1 /\ j + 1 \in i + m + 1..Len(s) + m + 1
        /\ j - m \in 0..Len(s) /\ j - m # i /\ (j + 1) - m = (j - m) + 1
    BY <1>1, <1>7, SMTT(30)
  <2>2. Joined(s, h, next, prev, j - m)
    BY <2>1 DEF Chain
  <2> QED BY <1>2, <2>1, <2>2 DEF Joined, Spliced
<1> QED BY <1>1, <1>3, <1>4, <1>5, <1>6, <1>7

(* Element i is taken out. *)
Closed(s, i, h, next, prev, next2, prev2) ==
    /\ next2[Node(s, h, i - 1)] = Node(s, h, i + 1)
    /\ prev2[Node(s, h, i + 1)] = Node(s, h, i - 1)
    /\ \A j \in 0..Len(s) : j # i - 1 /\ j # i =>
           /\ next2[Node(s, h, j)] = next[Node(s, h, j)]
           /\ prev2[Node(s, h, j + 1)] = prev[Node(s, h, j + 1)]

LEMMA ChainRemove ==
    ASSUME NEW S, NEW s \in Seq(S), NEW i \in 1..Len(s), NEW h,
           NEW next, NEW prev, NEW next2, NEW prev2,
           Chain(s, h, next, prev), Closed(s, i, h, next, prev, next2, prev2)
    PROVE  Chain(RemoveAt(s, i), h, next2, prev2)
<1> DEFINE u == RemoveAt(s, i)
<1>1. /\ Len(s) \in Nat /\ i \in Nat /\ i <= Len(s) /\ i > 0
      /\ u \in Seq(S) /\ Len(u) = Len(s) - 1
      /\ \A j \in 1..Len(s) - 1 : u[j] = IF j < i THEN s[j] ELSE s[j + 1]
  BY RemoveElement
<1> HIDE DEF u
<1>2. /\ \A j \in 0..i - 1 : Node(u, h, j) = Node(s, h, j)
      /\ \A j \in i..Len(s) : Node(u, h, j) = Node(s, h, j + 1)
  BY <1>1 DEF Node
<1> SUFFICES ASSUME NEW j \in 0..Len(s) - 1 PROVE Joined(u, h, next2, prev2, j)
  BY <1>1 DEF Chain, u
<1>3. CASE j < i - 1
  <2>1. j \in 0..Len(s) /\ j # i - 1 /\ j # i /\ j \in 0..i - 1 /\ j + 1 \in 0..i - 1
    BY <1>1, <1>3
  <2>2. Joined(s, h, next, prev, j)
    BY <2>1 DEF Chain
  <2> QED BY <1>2, <2>1, <2>2 DEF Joined, Closed
<1>4. CASE j = i - 1
  <2>1. j \in 0..i - 1 /\ j + 1 \in i..Len(s) /\ j + 1 = i
    BY <1>1, <1>4
  <2> QED BY <1>2, <1>4, <2>1 DEF Joined, Closed
<1>5. CASE j > i - 1
  <2>1. /\ j \in i..Len(s) /\ j + 1 \in i..Len(s) /\ j + 1 \in 0..Len(s)
        /\ j + 1 # i - 1 /\ j + 1 # i
    BY <1>1, <1>5
  <2>2. Joined(s, h, next, prev, j + 1)
    BY <2>1 DEF Chain
  <2> QED BY <1>2, <2>1, <2>2 DEF Joined, Closed
<1> QED BY <1>1, <1>3, <1>4, <1>5
-----------------------------------------------------------------------------
ListTypeInv ==
    /\ DOMAIN order = Heads /\ \A h \in Heads : order[h] \in Seq(Elements)
    /\ stale \in SUBSET Heads
    /\ \A way \in Directions : ring[way] \in [Nodes -> Nodes \cup {NoNode}]

(* No element is twice in a list, or in two lists.                         *)
ApartInv ==
    \A h, g \in Heads : Linked(h) /\ Linked(g) =>
        \A i \in 1..Len(order[h]), j \in 1..Len(order[g]) :
            order[h][i] = order[g][j] => h = g /\ i = j

LinksInv == \A h \in Heads : Linked(h) => Chain(order[h], h, ring["next"], ring["prev"])

RingInv == ListTypeInv /\ ApartInv /\ LinksInv

(* Of what a loop has started with it has seen a part; the rest is still   *)
(* in the list, linked in the loop's direction, and begins with pos, tmp.  *)
Loops == [list : Heads \cup {NoNode}, way : Directions, pos : Nodes \cup {NoNode},
          tmp : Nodes \cup {NoNode}, seen : Seq(Elements), all : Seq(Elements)]

Ahead(j) == /\ ring[loop.way][loop.all[j]] = Node(loop.all, loop.list, j + 1)
            /\ InList(loop.all[j], loop.list)

LoopInv ==
    /\ loop \in Loops
    /\ loop # NoLoop =>
        /\ loop.list \in Heads /\ Linked(loop.list) /\ Len(loop.seen) <= Len(loop.all)
        /\ Differ(loop.all)
        /\ \A j \in 1..Len(loop.seen) : loop.seen[j] = loop.all[j]
        /\ loop.pos = Node(loop.all, loop.list, Len(loop.seen) + 1)
        /\ Len(loop.seen) < Len(loop.all) =>
               loop.tmp = Node(loop.all, loop.list, Len(loop.seen) + 2)
        /\ \A j \in Len(loop.seen) + 1..Len(loop.all) : Ahead(j)

ListInv == RingInv /\ LoopInv
-----------------------------------------------------------------------------
(* A node of a ring is one place of one ring.                              *)
LEMMA NodesApart ==
    ASSUME RingInv, NEW h \in Heads, Linked(h), NEW g \in Heads, Linked(g)
    PROVE  /\ Len(order[h]) \in Nat /\ Len(order[g]) \in Nat
           /\ \A i : Node(order[h], h, i) \in Nodes
           /\ \A i \in 0..Len(order[h]), j \in 0..Len(order[g]) :
                 Node(order[h], h, i) = Node(order[g], g, j) => h = g /\ i = j
           /\ \A i \in 0..Len(order[h]), j \in 0..Len(order[g]) :
                 Node(order[h], h, i + 1) = Node(order[g], g, j + 1) => h = g /\ i = j
<1>1. order[h] \in Seq(Elements) /\ order[g] \in Seq(Elements)
  BY DEF RingInv, ListTypeInv
<1>2. /\ Len(order[h]) \in Nat /\ Len(order[g]) \in Nat
      /\ \A i \in 1..Len(order[h]) : order[h][i] \in Elements /\ order[h][i] \notin Heads
      /\ \A i \in 1..Len(order[g]) : order[g][i] \in Elements /\ order[g][i] \notin Heads
  BY <1>1, NodesAssumption
<1>3. \A i \in 1..Len(order[h]), j \in 1..Len(order[g]) : order[h][i] = order[g][j] => h = g /\ i = j
  BY DEF RingInv, ApartInv
<1>4. \A i : Node(order[h], h, i) \in Nodes
  BY <1>2 DEF Node, Nodes
<1>5. ASSUME NEW i \in 0..Len(order[h]), NEW j \in 0..Len(order[g]),
             Node(order[h], h, i) = Node(order[g], g, j)
      PROVE  h = g /\ i = j
  <2>1. (i = 0 \/ i \in 1..Len(order[h])) /\ (j = 0 \/ j \in 1..Len(order[g]))
    BY <1>2
  <2> QED BY <1>2, <1>3, <1>5, <2>1 DEF Node
<1>6. ASSUME NEW i \in 0..Len(order[h]), NEW j \in 0..Len(order[g]),
             Node(order[h], h, i + 1) = Node(order[g], g, j + 1)
      PROVE  h = g /\ i = j
  <2>1. /\ (i = Len(order[h]) /\ i + 1 \notin 1..Len(order[h])) \/ i + 1 \in 1..Len(order[h])
        /\ (j = Len(order[g]) /\ j + 1 \notin 1..Len(order[g])) \/ j + 1 \in 1..Len(order[g])
    BY <1>2
  <2>2. i + 1 = j + 1 => i = j
    BY <1>2
  <2> QED BY <1>2, <1>3, <1>6, <2>1, <2>2 DEF Node
<1> QED BY <1>2, <1>4, <1>5, <1>6

(* The place behind which something is put, and the place of an element.   *)
LEMMA PlaceFound ==
    ASSUME RingInv, NEW h \in Heads, NEW p, Place(p, h)
    PROVE  \E i \in 0..Len(order[h]) : /\ IndexOf(p, h) = i /\ p = Node(order[h], h, i)
                                       /\ p # h => i # 0
<1>1. Linked(h) /\ order[h] \in Seq(Elements) /\ h \notin Elements
  BY NodesAssumption DEF Place, RingInv, ListTypeInv
<1>2. CASE p = h
  <2>1. IndexOf(p, h) = 0 /\ p = Node(order[h], h, 0) /\ 0 \in 0..Len(order[h])
    BY <1>1, <1>2 DEF IndexOf, Node
  <2> QED BY <1>2, <2>1
<1>3. CASE p # h
  <2>1. PICK i \in 1..Len(order[h]) : p = order[h][i]
    BY <1>1, <1>3 DEF Place, InList, Range
  <2>2. {j \in 1..Len(order[h]) : order[h][j] = p} = {i}
    BY <1>1, <2>1 DEF RingInv, ApartInv
  <2>3. IndexOf(p, h) = Min({i})
    BY <1>3, <2>2 DEF IndexOf, SelectInSeq
  <2>4. Min({i}) = i /\ i \in 0..Len(order[h]) /\ i # 0
    BY <1>1 DEF Min
  <2> QED BY <2>1, <2>3, <2>4 DEF Node
<1> QED BY <1>2, <1>3

(* A list of elements that are in no other list is put behind node i.      *)
LEMMA SpliceKeeps ==
    ASSUME RingInv, NEW h \in Heads, Linked(h), NEW i \in 0..Len(order[h]),
           NEW t \in Seq(Elements), Len(t) > 0, Differ(t),
           order' = [order EXCEPT ![h] = InsertSeq(@, i, t)],
           stale' \in SUBSET Heads, stale \subseteq stale', h \notin stale',
           \A g \in Heads \ stale' : Disjoint(order[g], t),
           \A way \in Directions : ring'[way] \in [Nodes -> Nodes \cup {NoNode}],
           ring'["next"][Node(order[h], h, i)] = t[1],
           ring'["prev"][t[1]] = Node(order[h], h, i),
           \A j \in 1..Len(t) - 1 : ring'["next"][t[j]] = t[j + 1] /\ ring'["prev"][t[j + 1]] = t[j],
           ring'["next"][t[Len(t)]] = Node(order[h], h, i + 1),
           ring'["prev"][Node(order[h], h, i + 1)] = t[Len(t)],
           \A n \in Nodes : Avoids(t, n) =>
               /\ n # Node(order[h], h, i) => ring'["next"][n] = ring["next"][n]
               /\ n # Node(order[h], h, i + 1) => ring'["prev"][n] = ring["prev"][n]
    PROVE  RingInv'
<1> DEFINE s == order[h]
           u == InsertSeq(s, i, t)
<1>1. /\ \A g \in Heads : order[g] \in Seq(Elements) /\ Len(order[g]) \in Nat
      /\ Len(t) \in Nat /\ Len(s) \in Nat /\ i \in Nat /\ i <= Len(s)
  BY DEF RingInv, ListTypeInv
<1>2. /\ u \in Seq(Elements) /\ Len(u) = Len(s) + Len(t)
      /\ \A j \in 1..Len(s) + Len(t) :
            u[j] = IF j <= i THEN s[j] ELSE IF j <= i + Len(t) THEN t[j - i] ELSE s[j - Len(t)]
  <2>1. s \in Seq(Elements)
    BY <1>1
  <2> QED BY ONLY InsertElements, <2>1, t \in Seq(Elements), i \in 0..Len(s)
<1>3. /\ DOMAIN order' = Heads /\ order'[h] = u
      /\ \A g \in Heads \ {h} : order'[g] = order[g]
  BY DEF RingInv, ListTypeInv
<1> HIDE DEF u
<1>4. ListTypeInv'
  BY <1>1, <1>2, <1>3 DEF ListTypeInv, Nodes, Directions
<1>5. \A g \in Heads \ stale' : Linked(g)
  BY DEF Linked
<1>6. /\ \A j, k \in 1..Len(s) : s[j] = s[k] => j = k
      /\ \A j, k \in 1..Len(t) : t[j] = t[k] => j = k
      /\ \A j \in 1..Len(s), k \in 1..Len(t) : s[j] # t[k]
  <2>1. \A j, k \in 1..Len(s) : s[j] = s[k] => j = k
    BY DEF RingInv, ApartInv
  <2>2. \A j, k \in 1..Len(t) : t[j] = t[k] => j = k
    BY DEF Differ
  <2>3. Disjoint(s, t)
    OBVIOUS
  <2> HIDE DEF s
  <2> QED BY <2>1, <2>2, <2>3 DEF Disjoint
<1>7. \A j, k \in 1..Len(u) : u[j] = u[k] => j = k
  <2> SUFFICES ASSUME NEW j \in 1..Len(u), NEW k \in 1..Len(u), u[j] = u[k] PROVE j = k
    OBVIOUS
  <2> HIDE DEF s
  <2>1. \/ j <= i /\ j \in 1..Len(s) /\ u[j] = s[j]
        \/ i < j /\ j <= i + Len(t) /\ j - i \in 1..Len(t) /\ u[j] = t[j - i]
        \/ i + Len(t) < j /\ j - Len(t) \in 1..Len(s) /\ u[j] = s[j - Len(t)]
    BY <1>1, <1>2
  <2>2. \/ k <= i /\ k \in 1..Len(s) /\ u[k] = s[k]
        \/ i < k /\ k <= i + Len(t) /\ k - i \in 1..Len(t) /\ u[k] = t[k - i]
        \/ i + Len(t) < k /\ k - Len(t) \in 1..Len(s) /\ u[k] = s[k - Len(t)]
    BY <1>1, <1>2
  <2>3. j \in Nat /\ k \in Nat /\ i \in Nat /\ Len(t) \in Nat
    BY <1>1, <1>2
  <2>4. CASE j <= i
    BY ONLY <1>6, <2>1, <2>2, <2>3, <2>4, u[j] = u[k]
  <2>5. CASE i < j /\ j <= i + Len(t)
    <3>1. j - i \in 1..Len(t) /\ u[k] = t[j - i]
      BY ONLY <2>1, <2>3, <2>5, u[j] = u[k]
    <3>2. \A l \in 1..Len(s) : s[l] # u[k]
      BY ONLY <1>6, <3>1
    <3>3. k - i \in 1..Len(t) /\ u[k] = t[k - i]
      BY ONLY <2>2, <3>2
    <3>4. j - i = k - i
      BY ONLY <1>6, <3>1, <3>3
    <3> QED BY ONLY <2>3, <3>4
  <2>6. CASE i + Len(t) < j
    <3>1. j - Len(t) \in 1..Len(s) /\ u[k] = s[j - Len(t)]
      BY ONLY <2>1, <2>3, <2>6, u[j] = u[k]
    <3>2. \A l \in 1..Len(t) : t[l] # u[k]
      BY ONLY <1>6, <3>1
    <3>3. \/ k <= i /\ k \in 1..Len(s) /\ u[k] = s[k]
          \/ i + Len(t) < k /\ k - Len(t) \in 1..Len(s) /\ u[k] = s[k - Len(t)]
      BY ONLY <2>2, <3>2
    <3>4. j - Len(t) = k \/ j - Len(t) = k - Len(t)
      BY ONLY <1>6, <3>1, <3>3
    <3> QED BY ONLY <2>3, <2>6, <3>1, <3>3, <3>4, <1>6
  <2> QED BY <2>1, <2>4, <2>5, <2>6
<1>8. \A g \in Heads \ {h} : g \notin stale' => Disjoint(order[g], u)
  <2> SUFFICES ASSUME NEW g \in Heads \ {h}, g \notin stale',
                      NEW j \in 1..Len(order[g]), NEW k \in 1..Len(u)
               PROVE  order[g][j] # u[k]
    BY DEF Disjoint
  <2>1. Linked(g) /\ Disjoint(order[g], t) /\ Disjoint(order[g], s)
    BY <1>5 DEF RingInv, ApartInv, Disjoint
  <2>2. \/ k \in 1..Len(s) /\ u[k] = s[k]
        \/ k - i \in 1..Len(t) /\ u[k] = t[k - i]
        \/ k - Len(t) \in 1..Len(s) /\ u[k] = s[k - Len(t)]
    BY <1>1, <1>2
  <2>3. \A l \in 1..Len(t) : order[g][j] # t[l]
    BY ONLY <2>1, j \in 1..Len(order[g]) DEF Disjoint
  <2>4. \A l \in 1..Len(s) : order[g][j] # s[l]
    BY ONLY <2>1, j \in 1..Len(order[g]) DEF Disjoint
  <2> HIDE DEF s
  <2> QED BY ONLY <2>2, <2>3, <2>4
<1>9. ApartInv'
  <2> SUFFICES ASSUME NEW f \in Heads, NEW g \in Heads, f \notin stale', g \notin stale',
                      NEW j \in 1..Len(order'[f]), NEW k \in 1..Len(order'[g]),
                      order'[f][j] = order'[g][k]
               PROVE  f = g /\ j = k
    BY DEF ApartInv, Linked
  <2>1. CASE f = h /\ g = h
    BY <1>3, <1>7, <2>1
  <2>2. CASE f = h /\ g # h
    BY <1>3, <1>8, <2>2 DEF Disjoint
  <2>3. CASE f # h /\ g = h
    BY <1>3, <1>8, <2>3 DEF Disjoint
  <2>4. CASE f # h /\ g # h
    BY <1>3, <1>5, <2>4 DEF RingInv, ApartInv
  <2> QED BY <2>1, <2>2, <2>3, <2>4
<1>10. ASSUME NEW g \in Heads, g \notin stale', NEW n \in Nodes,
              n = g \/ \E j \in 1..Len(order[g]) : n = order[g][j]
       PROVE  Avoids(t, n)
  <2>1. \A j \in 1..Len(t) : t[j] \in Elements /\ t[j] \notin Heads
    BY NodesAssumption
  <2>2. Disjoint(order[g], t)
    BY <1>10
  <2> QED BY <1>10, <2>1, <2>2 DEF Disjoint, Avoids
<1>11. ASSUME NEW g \in Heads \ {h}, g \notin stale'
       PROVE  Chain(order[g], g, ring'["next"], ring'["prev"])
  <2>1. Linked(g) /\ Chain(order[g], g, ring["next"], ring["prev"])
    BY <1>5, <1>11 DEF RingInv, LinksInv
  <2>2. \A j \in 0..Len(order[g]) :
           /\ Node(order[g], g, j) \in Nodes /\ Avoids(t, Node(order[g], g, j))
           /\ Node(order[g], g, j) # Node(s, h, i) /\ Node(order[g], g, j) # Node(s, h, i + 1)
    <3> SUFFICES ASSUME NEW j \in 0..Len(order[g])
                 PROVE  /\ Node(order[g], g, j) \in Nodes /\ Avoids(t, Node(order[g], g, j))
                        /\ Node(order[g], g, j) # Node(s, h, i) /\ Node(order[g], g, j) # Node(s, h, i + 1)
      OBVIOUS
    <3>1. Node(order[g], g, j) \in Nodes /\ Node(order[g], g, j) # Node(s, h, i)
      BY <2>1, NodesApart
    <3>2. \E k \in 0..Len(s) : Node(s, h, i + 1) = Node(s, h, k)
      <4>1. CASE i = Len(s)
        <5>1. Node(s, h, i + 1) = Node(s, h, 0) /\ 0 \in 0..Len(s)
          BY <1>1, <4>1 DEF Node
        <5> QED BY <5>1
      <4>2. CASE i # Len(s)
        <5>1. i + 1 \in 0..Len(s)
          BY <1>1, <4>2
        <5> QED BY <5>1
      <4> QED BY <4>1, <4>2
    <3>3. Node(order[g], g, j) # Node(s, h, i + 1)
      BY <2>1, <3>2, NodesApart
    <3>4. Node(order[g], g, j) = g \/ \E k \in 1..Len(order[g]) : Node(order[g], g, j) = order[g][k]
      BY DEF Node
    <3> QED BY <1>10, <1>11, <3>1, <3>3, <3>4
  <2>3. \A j \in 0..Len(order[g]) :
           /\ ring'["next"][Node(order[g], g, j)] = ring["next"][Node(order[g], g, j)]
           /\ ring'["prev"][Node(order[g], g, j)] = ring["prev"][Node(order[g], g, j)]
    BY <2>2
  <2>4. /\ ring'["next"][g] = ring["next"][g] /\ ring'["prev"][g] = ring["prev"][g]
        /\ \A j \in 1..Len(order[g]) : /\ ring'["next"][order[g][j]] = ring["next"][order[g][j]]
                                       /\ ring'["prev"][order[g][j]] = ring["prev"][order[g][j]]
    <3>1. /\ 0 \in 0..Len(order[g]) /\ Node(order[g], g, 0) = g
          /\ \A j \in 1..Len(order[g]) : j \in 0..Len(order[g]) /\ Node(order[g], g, j) = order[g][j]
      BY <1>1 DEF Node
    <3> QED BY <2>3, <3>1
  <2>5. order[g] \in Seq(Elements)
    BY <1>1
  <2> QED BY ONLY <2>1, <2>4, <2>5, ChainFrame
<1>12. Chain(u, h, ring'["next"], ring'["prev"])
  <2>1. Chain(s, h, ring["next"], ring["prev"]) /\ s \in Seq(Elements)
    BY <1>1 DEF RingInv, LinksInv
  <2>2. \A j \in 0..Len(s) : j # i =>
               /\ ring'["next"][Node(s, h, j)] = ring["next"][Node(s, h, j)]
               /\ ring'["prev"][Node(s, h, j + 1)] = ring["prev"][Node(s, h, j + 1)]
    <3> SUFFICES ASSUME NEW j \in 0..Len(s), j # i
                 PROVE  /\ ring'["next"][Node(s, h, j)] = ring["next"][Node(s, h, j)]
                        /\ ring'["prev"][Node(s, h, j + 1)] = ring["prev"][Node(s, h, j + 1)]
      OBVIOUS
    <3>1. /\ Node(s, h, j) \in Nodes /\ Node(s, h, j + 1) \in Nodes
          /\ Node(s, h, j) # Node(s, h, i) /\ Node(s, h, j + 1) # Node(s, h, i + 1)
      BY ONLY NodesApart, j \in 0..Len(s), j # i, RingInv, Linked(h), h \in Heads, i \in 0..Len(s)
    <3>2. /\ Node(s, h, j) = h \/ \E k \in 1..Len(s) : Node(s, h, j) = s[k]
          /\ Node(s, h, j + 1) = h \/ \E k \in 1..Len(s) : Node(s, h, j + 1) = s[k]
      BY DEF Node
    <3>3. Avoids(t, Node(s, h, j)) /\ Avoids(t, Node(s, h, j + 1))
      BY <1>10, <3>1, <3>2
    <3> QED BY <3>1, <3>3
  <2> HIDE DEF s
  <2>3. Spliced(s, t, i, h, ring["next"], ring["prev"], ring'["next"], ring'["prev"])
    BY <2>2 DEF s, Spliced
  <2>4. Len(t) > 0 /\ t \in Seq(Elements) /\ i \in 0..Len(s)
    BY DEF s
  <2>5. \A n, p, n2, p2 : /\ Chain(s, h, n, p)
                          /\ Spliced(s, t, i, h, n, p, n2, p2)
                          => Chain(InsertSeq(s, i, t), h, n2, p2)
    BY ONLY <2>1, <2>4, ChainInsert
  <2> QED BY ONLY <2>1, <2>3, <2>5 DEF u
<1>13. LinksInv'
  <2> SUFFICES ASSUME NEW g \in Heads, g \notin stale'
               PROVE  Chain(order'[g], g, ring'["next"], ring'["prev"])
    BY DEF LinksInv, Linked, Chain, Joined, Node
  <2> QED BY <1>3, <1>11, <1>12
<1> QED BY <1>4, <1>9, <1>13 DEF RingInv

(* What vk_list_remove does to the links, for the i-th element of a list.  *)
LEMMA Unlinked ==
    ASSUME RingInv, NEW h \in Heads, Linked(h), NEW i \in 1..Len(order[h]),
           NEW e, e = order[h][i], NEW links, links = Unlink(e)
    PROVE  /\ e \in Elements
           /\ \A way \in Directions : links[way] \in [Nodes -> Nodes \cup {NoNode}]
           /\ ring["next"][Node(order[h], h, i - 1)] = e
           /\ ring["prev"][Node(order[h], h, i + 1)] = e
           /\ \A n \in Nodes :
                 /\ links["next"][n] = IF n = e THEN NoNode
                                       ELSE IF n = Node(order[h], h, i - 1)
                                            THEN Node(order[h], h, i + 1) ELSE ring["next"][n]
                 /\ links["prev"][n] = IF n = e THEN NoNode
                                       ELSE IF n = Node(order[h], h, i + 1)
                                            THEN Node(order[h], h, i - 1) ELSE ring["prev"][n]
<1> DEFINE s == order[h]
           before == Node(s, h, i - 1)
           after == Node(s, h, i + 1)
<1>1. /\ s \in Seq(Elements) /\ Len(s) \in Nat /\ i \in Nat /\ i - 1 \in 0..Len(s)
      /\ i \in 0..Len(s) /\ (i - 1) + 1 = i
  BY DEF RingInv, ListTypeInv
<1>2. e = Node(s, h, i) /\ e \in Elements
  BY <1>1 DEF Node
<1>3. Joined(s, h, ring["next"], ring["prev"], i - 1) /\ Joined(s, h, ring["next"], ring["prev"], i)
  BY <1>1 DEF RingInv, LinksInv, Chain
<1>4. /\ ring["prev"][e] = before /\ ring["next"][e] = after
      /\ ring["next"][before] = e /\ ring["prev"][after] = e
  BY <1>1, <1>2, <1>3 DEF Joined
<1>5. before \in Nodes /\ after \in Nodes /\ e \in Nodes
  BY <1>2, NodesApart DEF Nodes
<1> HIDE DEF s, before, after
<1>6. links = [next |-> [ring["next"] EXCEPT ![before] = after, ![e] = NoNode],
               prev |-> [ring["prev"] EXCEPT ![after] = before, ![e] = NoNode]]
  BY <1>4 DEF Unlink
<1>7. /\ ring["next"] \in [Nodes -> Nodes \cup {NoNode}]
      /\ ring["prev"] \in [Nodes -> Nodes \cup {NoNode}]
  BY DEF RingInv, ListTypeInv, Directions
<1>8. /\ links["next"] = [ring["next"] EXCEPT ![before] = after, ![e] = NoNode]
      /\ links["prev"] = [ring["prev"] EXCEPT ![after] = before, ![e] = NoNode]
  BY <1>6
<1>9. /\ links["next"] \in [Nodes -> Nodes \cup {NoNode}]
      /\ links["prev"] \in [Nodes -> Nodes \cup {NoNode}]
      /\ \A n \in Nodes :
            /\ links["next"][n] = IF n = e THEN NoNode ELSE IF n = before THEN after ELSE ring["next"][n]
            /\ links["prev"][n] = IF n = e THEN NoNode ELSE IF n = after THEN before ELSE ring["prev"][n]
  BY <1>5, <1>7, <1>8
<1> QED BY <1>2, <1>4, <1>9 DEF before, after, s, Directions

(* An element is taken out of its list. *)
LEMMA RemoveKeeps ==
    ASSUME RingInv, NEW h \in Heads, Linked(h), NEW i \in 1..Len(order[h]),
           ring' = Unlink(order[h][i]),
           order' = [order EXCEPT ![h] = RemoveAt(@, i)], stale' = stale
    PROVE  RingInv'
<1> DEFINE s == order[h]
           e == s[i]
           u == RemoveAt(s, i)
<1>1. /\ \A g \in Heads : order[g] \in Seq(Elements) /\ Len(order[g]) \in Nat
      /\ Len(s) \in Nat /\ i \in Nat /\ i <= Len(s) /\ i > 0
  BY DEF RingInv, ListTypeInv
<1>2. /\ u \in Seq(Elements) /\ Len(u) = Len(s) - 1
      /\ \A j \in 1..Len(s) - 1 : u[j] = IF j < i THEN s[j] ELSE s[j + 1]
  <2>1. s \in Seq(Elements) /\ i \in 1..Len(s)
    BY <1>1
  <2> QED BY ONLY <2>1, RemoveElement
<1>3. /\ DOMAIN order' = Heads /\ order'[h] = u
      /\ \A g \in Heads \ {h} : order'[g] = order[g]
  BY DEF RingInv, ListTypeInv
<1>4. /\ e \in Elements
      /\ \A way \in Directions : ring'[way] \in [Nodes -> Nodes \cup {NoNode}]
      /\ \A n \in Nodes :
            /\ ring'["next"][n] = IF n = e THEN NoNode
                                  ELSE IF n = Node(s, h, i - 1) THEN Node(s, h, i + 1)
                                       ELSE ring["next"][n]
            /\ ring'["prev"][n] = IF n = e THEN NoNode
                                  ELSE IF n = Node(s, h, i + 1) THEN Node(s, h, i - 1)
                                       ELSE ring["prev"][n]
  BY Unlinked
<1> HIDE DEF u
<1>5. ListTypeInv'
  BY <1>1, <1>2, <1>3, <1>4 DEF RingInv, ListTypeInv, Nodes, Directions
<1>6. \A j \in 1..Len(u) :
         \E k \in 1..Len(s) : u[j] = s[k] /\ (k = j \/ k = j + 1) /\ (k = j => j < i)
                              /\ (k = j + 1 => j >= i)
  <2> SUFFICES ASSUME NEW j \in 1..Len(u)
               PROVE  \E k \in 1..Len(s) : u[j] = s[k] /\ (k = j \/ k = j + 1) /\ (k = j => j < i)
                                           /\ (k = j + 1 => j >= i)
    OBVIOUS
  <2>1. CASE j < i
    <3>1. j \in 1..Len(s) /\ u[j] = s[j] /\ j # j + 1
      BY <1>1, <1>2, <2>1
    <3> QED BY <2>1, <3>1
  <2>2. CASE j >= i
    <3>1. j + 1 \in 1..Len(s) /\ u[j] = s[j + 1] /\ j + 1 # j
      BY <1>1, <1>2, <2>2
    <3> QED BY <2>2, <3>1
  <2> QED BY <1>1, <1>2, <2>1, <2>2
<1>7. ApartInv'
  <2> SUFFICES ASSUME NEW f \in Heads, NEW g \in Heads, Linked(f), Linked(g),
                      NEW j \in 1..Len(order'[f]), NEW k \in 1..Len(order'[g]),
                      order'[f][j] = order'[g][k]
               PROVE  f = g /\ j = k
    BY DEF ApartInv, Linked
  <2>1. CASE f = h /\ g = h
    <3>1. j \in 1..Len(u) /\ k \in 1..Len(u) /\ u[j] = u[k]
      BY <1>3, <2>1
    <3>2. PICK j2 \in 1..Len(s) : u[j] = s[j2] /\ (j2 = j \/ j2 = j + 1) /\ (j2 = j => j < i)
                                  /\ (j2 = j + 1 => j >= i)
      BY ONLY <1>6, <3>1
    <3>3. PICK k2 \in 1..Len(s) : u[k] = s[k2] /\ (k2 = k \/ k2 = k + 1) /\ (k2 = k => k < i)
                                  /\ (k2 = k + 1 => k >= i)
      BY ONLY <1>6, <3>1
    <3>4. j2 = k2
      <4>1. s[j2] = s[k2]
        BY ONLY <3>1, <3>2, <3>3
      <4> QED BY <4>1 DEF RingInv, ApartInv
    <3>5. j \in Nat /\ k \in Nat
      BY <1>1, <1>2, <3>1
    <3> QED BY ONLY <1>1, <2>1, <3>2, <3>3, <3>4, <3>5
  <2>2. CASE f = h /\ g # h
    BY <1>3, <1>6, <2>2 DEF RingInv, ApartInv
  <2>3. CASE f # h /\ g = h
    BY <1>3, <1>6, <2>3 DEF RingInv, ApartInv
  <2>4. CASE f # h /\ g # h
    BY <1>3, <2>4 DEF RingInv, ApartInv
  <2> QED BY <2>1, <2>2, <2>3, <2>4
<1>8. /\ e = Node(s, h, i) /\ i \in 0..Len(s) /\ i - 1 \in 0..Len(s) /\ (i - 1) + 1 = i
      /\ Node(s, h, i + 1) = Node(s, h, IF i = Len(s) THEN 0 ELSE i + 1)
      /\ (IF i = Len(s) THEN 0 ELSE i + 1) \in 0..Len(s)
  BY <1>1 DEF Node
<1>9. ASSUME NEW g \in Heads \ {h}, Linked(g)
      PROVE  Chain(order[g], g, ring'["next"], ring'["prev"])
  <2>1. Chain(order[g], g, ring["next"], ring["prev"]) /\ order[g] \in Seq(Elements)
    BY <1>1, <1>9 DEF RingInv, LinksInv
  <2>2. \A j \in 0..Len(order[g]) :
           /\ Node(order[g], g, j) \in Nodes
           /\ \A k \in 0..Len(s) : Node(order[g], g, j) # Node(s, h, k)
    BY <1>9, NodesApart
  <2>3. \A j \in 0..Len(order[g]) :
           /\ ring'["next"][Node(order[g], g, j)] = ring["next"][Node(order[g], g, j)]
           /\ ring'["prev"][Node(order[g], g, j)] = ring["prev"][Node(order[g], g, j)]
    BY ONLY <1>4, <1>8, <2>2
  <2>4. /\ ring'["next"][g] = ring["next"][g] /\ ring'["prev"][g] = ring["prev"][g]
        /\ \A j \in 1..Len(order[g]) : /\ ring'["next"][order[g][j]] = ring["next"][order[g][j]]
                                       /\ ring'["prev"][order[g][j]] = ring["prev"][order[g][j]]
    <3>1. /\ 0 \in 0..Len(order[g]) /\ Node(order[g], g, 0) = g
          /\ \A j \in 1..Len(order[g]) : j \in 0..Len(order[g]) /\ Node(order[g], g, j) = order[g][j]
      BY <1>1 DEF Node
    <3> QED BY <2>3, <3>1
  <2> QED BY ONLY <2>1, <2>4, ChainFrame
<1>10. Chain(u, h, ring'["next"], ring'["prev"])
  <2>1. Chain(s, h, ring["next"], ring["prev"]) /\ s \in Seq(Elements) /\ i \in 1..Len(s)
    BY <1>1 DEF RingInv, LinksInv
  <2>2. /\ \A j : Node(s, h, j) \in Nodes
        /\ \A j, k \in 0..Len(s) : Node(s, h, j) = Node(s, h, k) => j = k
        /\ \A j, k \in 0..Len(s) : Node(s, h, j + 1) = Node(s, h, k + 1) => j = k
    BY NodesApart
  <2>3. ASSUME NEW j \in 0..Len(s), j # i - 1, j # i
        PROVE  /\ ring'["next"][Node(s, h, j)] = ring["next"][Node(s, h, j)]
               /\ ring'["prev"][Node(s, h, j + 1)] = ring["prev"][Node(s, h, j + 1)]
    <3>1. Node(s, h, j) # e /\ Node(s, h, j) # Node(s, h, i - 1)
      BY ONLY <1>8, <2>2, <2>3, j \in 0..Len(s)
    <3>2. Node(s, h, j + 1) # Node(s, h, i + 1) /\ Node(s, h, j + 1) # Node(s, h, (i - 1) + 1)
      BY ONLY <1>8, <2>2, <2>3, j \in 0..Len(s)
    <3>3. Node(s, h, j + 1) # e
      BY ONLY <1>8, <3>2
    <3> QED BY ONLY <1>4, <2>2, <3>1, <3>2, <3>3
  <2>4. /\ ring'["next"][Node(s, h, i - 1)] = Node(s, h, i + 1)
        /\ ring'["prev"][Node(s, h, i + 1)] = Node(s, h, i - 1)
    <3>1. Node(s, h, i - 1) # e
      <4>1. i - 1 # i
        BY <1>1
      <4> QED BY ONLY <1>8, <2>2, <4>1
    <3>2. Node(s, h, i + 1) # Node(s, h, (i - 1) + 1)
      <4>1. i # i - 1
        BY <1>1
      <4> QED BY ONLY <1>8, <2>2, <4>1
    <3> QED BY ONLY <1>4, <1>8, <2>2, <3>1, <3>2
  <2>5. Closed(s, i, h, ring["next"], ring["prev"], ring'["next"], ring'["prev"])
    BY ONLY <2>3, <2>4 DEF Closed
  <2> HIDE DEF s
  <2>6. \A n, p, n2, p2 : Chain(s, h, n, p) /\ Closed(s, i, h, n, p, n2, p2)
                          => Chain(RemoveAt(s, i), h, n2, p2)
    BY ONLY <2>1, ChainRemove
  <2> QED BY ONLY <2>1, <2>5, <2>6 DEF u
<1>11. LinksInv'
  <2> SUFFICES ASSUME NEW g \in Heads, Linked(g)
               PROVE  Chain(order'[g], g, ring'["next"], ring'["prev"])
    BY DEF LinksInv, Linked, Chain, Joined, Node
  <2> QED BY <1>3, <1>9, <1>10
<1> QED BY <1>5, <1>7, <1>11 DEF RingInv
-----------------------------------------------------------------------------
LEMMA ListInitInv == ListInit => ListInv
<1> SUFFICES ASSUME ListInit PROVE ListInv
  OBVIOUS
<1>1. /\ DOMAIN order = Heads /\ \A h \in Heads : order[h] = <<>>
      /\ stale = {} /\ loop = NoLoop
  BY DEF ListInit
<1>2. /\ \A way \in Directions : ring[way] \in [Nodes -> Nodes \cup {NoNode}]
      /\ \A way \in Directions, h \in Heads : ring[way][h] = h
  BY DEF ListInit, Nodes
<1>3. <<>> \in Seq(Elements) /\ Len(<<>>) = 0
  OBVIOUS
<1>4. RingInv
  <2>1. ListTypeInv
    BY <1>1, <1>2, <1>3 DEF ListTypeInv
  <2>2. ApartInv
    BY <1>1 DEF ApartInv
  <2>3. LinksInv
    <3> SUFFICES ASSUME NEW h \in Heads, NEW i \in 0..Len(order[h])
                 PROVE  Joined(order[h], h, ring["next"], ring["prev"], i)
      BY DEF LinksInv, Chain
    <3>1. i = 0 /\ \A j : Node(order[h], h, j) = h
      BY <1>1, <1>3 DEF Node
    <3> QED BY <1>2, <3>1 DEF Joined, Directions
  <2> QED BY <2>1, <2>2, <2>3 DEF RingInv
<1>5. LoopInv
  BY <1>1 DEF LoopInv, NoLoop, Loops, Directions
<1> QED BY <1>4, <1>5 DEF ListInv

LEMMA RingUnchanged ==
    ASSUME RingInv, UNCHANGED <<ring, order, stale>> PROVE RingInv'
<1>1. ListTypeInv'
  BY DEF RingInv, ListTypeInv
<1>2. ApartInv'
  BY DEF RingInv, ApartInv, Linked
<1>3. LinksInv'
  BY DEF RingInv, LinksInv, Linked, Chain, Joined, Node
<1> QED BY <1>1, <1>2, <1>3 DEF RingInv

(* While no loop runs the part of the invariant about loops is idle.       *)
LEMMA NoLoopInv ==
    ASSUME LoopInv, loop = NoLoop, UNCHANGED loop PROVE LoopInv'
  BY DEF LoopInv, NoLoop, Loops, Directions

LEMMA InitKeeps ==
    ASSUME ListInv, NEW h \in Heads, vk_list_init(h) PROVE ListInv'
<1>1. /\ RingInv /\ ~Linked(h) /\ loop = NoLoop
      /\ ring' = [way \in Directions |-> [ring[way] EXCEPT ![h] = h]]
      /\ order' = [order EXCEPT ![h] = <<>>] /\ stale' = stale \ {h}
  BY DEF vk_list_init, ListInv
<1>2. /\ \A g \in Heads : order[g] \in Seq(Elements) /\ Len(order[g]) \in Nat
      /\ \A g \in Heads : order'[g] = IF g = h THEN <<>> ELSE order[g]
      /\ \A g \in Heads : g \notin stale' <=> g = h \/ Linked(g)
      /\ DOMAIN order' = Heads /\ <<>> \in Seq(Elements) /\ Len(<<>>) = 0 /\ h \in Nodes
  BY <1>1 DEF RingInv, ListTypeInv, Linked, Nodes
<1>3. \A way \in Directions : /\ ring'[way] \in [Nodes -> Nodes \cup {NoNode}]
                              /\ ring'[way][h] = h
                              /\ \A n \in Nodes \ {h} : ring'[way][n] = ring[way][n]
  <2>1. \A way \in Directions : ring[way] \in [Nodes -> Nodes \cup {NoNode}]
    BY <1>1 DEF RingInv, ListTypeInv
  <2> QED BY <1>1, <1>2, <2>1
<1>4. ListTypeInv'
  BY <1>1, <1>2, <1>3 DEF RingInv, ListTypeInv, Nodes, Directions
<1>5. ApartInv'
  BY <1>1, <1>2 DEF RingInv, ApartInv, Linked
<1>6. ASSUME NEW g \in Heads, g \notin stale'
      PROVE  Chain(order'[g], g, ring'["next"], ring'["prev"])
  <2>1. CASE g = h
    <3> SUFFICES ASSUME NEW i \in 0..Len(order'[g])
                 PROVE  Joined(order'[g], g, ring'["next"], ring'["prev"], i)
      BY DEF Chain
    <3>1. \A j : Node(order'[g], g, j) = h
      BY <1>2, <2>1 DEF Node
    <3> QED BY <1>3, <3>1 DEF Joined, Directions
  <2>2. CASE g # h
    <3>1. /\ Chain(order[g], g, ring["next"], ring["prev"]) /\ order[g] \in Seq(Elements)
          /\ g \in Nodes \ {h} /\ \A i \in 1..Len(order[g]) : order[g][i] \in Nodes \ {h}
      BY <1>1, <1>2, <1>6, <2>2, NodesAssumption DEF RingInv, LinksInv, Nodes
    <3>2. /\ ring'["next"][g] = ring["next"][g] /\ ring'["prev"][g] = ring["prev"][g]
          /\ \A i \in 1..Len(order[g]) : /\ ring'["next"][order[g][i]] = ring["next"][order[g][i]]
                                         /\ ring'["prev"][order[g][i]] = ring["prev"][order[g][i]]
      BY <1>3, <3>1 DEF Directions
    <3>3. Chain(order[g], g, ring'["next"], ring'["prev"])
      BY ONLY <3>1, <3>2, ChainFrame
    <3> QED BY <1>2, <2>2, <3>3
  <2> QED BY <2>1, <2>2
<1>7. LinksInv'
  <2> SUFFICES ASSUME NEW g \in Heads, g \notin stale'
               PROVE  Chain(order'[g], g, ring'["next"], ring'["prev"])
    BY DEF LinksInv, Linked, Chain, Joined, Node
  <2> QED BY <1>6
<1>8. LoopInv'
  BY NoLoopInv DEF ListInv, vk_list_init
<1> QED BY <1>4, <1>5, <1>7, <1>8 DEF ListInv, RingInv

LEMMA InsertKeeps ==
    ASSUME ListInv, NEW h \in Heads, NEW p \in Nodes, NEW e \in Elements, vk_list_insert(p, e, h)
    PROVE  ListInv'
<1> DEFINE after == ring["next"][p]
<1>1. /\ RingInv /\ Place(p, h) /\ Loose(e) /\ Linked(h)
      /\ ring' = [next |-> [ring["next"] EXCEPT ![p] = e, ![e] = after],
                  prev |-> [ring["prev"] EXCEPT ![e] = p, ![after] = e]]
      /\ order' = [order EXCEPT ![h] = InsertSeq(@, IndexOf(p, h), <<e>>)] /\ stale' = stale
  BY DEF vk_list_insert, ListInv, Place
<1>2. PICK i \in 0..Len(order[h]) : IndexOf(p, h) = i /\ p = Node(order[h], h, i)
  BY <1>1, PlaceFound
<1>3. after = Node(order[h], h, i + 1)
  BY <1>1, <1>2 DEF RingInv, LinksInv, Chain, Joined
<1>4. /\ \A g \in Heads : order[g] \in Seq(Elements)
      /\ ring["next"] \in [Nodes -> Nodes \cup {NoNode}]
      /\ ring["prev"] \in [Nodes -> Nodes \cup {NoNode}]
  BY <1>1 DEF RingInv, ListTypeInv, Directions
<1>5. \A g \in Heads \ stale : \A j \in 1..Len(order[g]) : order[g][j] # e
  BY <1>1, <1>4 DEF Loose, InList, Linked, Range
<1>6. e # p /\ e # after /\ e \in Nodes /\ after \in Nodes
  <2>1. e # h /\ h \notin stale
    BY <1>1, NodesAssumption DEF Linked
  <2>2. \A j : Node(order[h], h, j) # e
    BY <1>5, <2>1 DEF Node
  <2>3. after \in Nodes
    BY <1>1, <1>3, NodesApart
  <2> QED BY <1>2, <1>3, <2>2, <2>3 DEF Nodes
<1> HIDE DEF after
<1>7. /\ ring'["next"] = [ring["next"] EXCEPT ![p] = e, ![e] = after]
      /\ ring'["prev"] = [ring["prev"] EXCEPT ![e] = p, ![after] = e]
  BY <1>1
<1>8. /\ ring'["next"] \in [Nodes -> Nodes \cup {NoNode}]
      /\ ring'["prev"] \in [Nodes -> Nodes \cup {NoNode}]
      /\ ring'["next"][p] = e /\ ring'["next"][e] = after
      /\ ring'["prev"][e] = p /\ ring'["prev"][after] = e
      /\ \A n \in Nodes : n # e => /\ n # p => ring'["next"][n] = ring["next"][n]
                                   /\ n # after => ring'["prev"][n] = ring["prev"][n]
  BY <1>4, <1>6, <1>7
<1> DEFINE t == <<e>>
<1>9. /\ t \in Seq(Elements) /\ Len(t) = 1 /\ t[1] = e /\ Differ(t)
      /\ 1..Len(t) - 1 = {} /\ \A n : Avoids(t, n) => n # e
      /\ \A g \in Heads \ stale : Disjoint(order[g], t)
  BY <1>5 DEF Differ, Avoids, Disjoint
<1> HIDE DEF t
<1>10. order' = [order EXCEPT ![h] = InsertSeq(@, i, t)]
  BY <1>1, <1>2 DEF t
<1>11. RingInv'
  <2>1. /\ stale' \in SUBSET Heads /\ stale \subseteq stale' /\ h \notin stale' /\ Len(t) > 0
        /\ \A g \in Heads \ stale' : Disjoint(order[g], t)
    BY <1>1, <1>9 DEF RingInv, ListTypeInv, Linked
  <2>2. \A way \in Directions : ring'[way] \in [Nodes -> Nodes \cup {NoNode}]
    BY <1>8 DEF Directions
  <2>3. /\ ring'["next"][Node(order[h], h, i)] = t[1]
        /\ ring'["prev"][t[1]] = Node(order[h], h, i)
        /\ ring'["next"][t[Len(t)]] = Node(order[h], h, i + 1)
        /\ ring'["prev"][Node(order[h], h, i + 1)] = t[Len(t)]
    BY <1>2, <1>3, <1>8, <1>9
  <2>4. \A j \in 1..Len(t) - 1 : ring'["next"][t[j]] = t[j + 1] /\ ring'["prev"][t[j + 1]] = t[j]
    BY <1>9
  <2>5. \A n \in Nodes : Avoids(t, n) =>
               /\ n # Node(order[h], h, i) => ring'["next"][n] = ring["next"][n]
               /\ n # Node(order[h], h, i + 1) => ring'["prev"][n] = ring["prev"][n]
    BY <1>2, <1>3, <1>8, <1>9
  <2> QED BY ONLY <1>1, <1>9, <1>10, <2>1, <2>2, <2>3, <2>4, <2>5, SpliceKeeps,
                  h \in Heads, i \in 0..Len(order[h])
<1>12. LoopInv'
  BY NoLoopInv DEF ListInv, vk_list_insert
<1> QED BY <1>11, <1>12 DEF ListInv

LEMMA InsertListKeeps ==
    ASSUME ListInv, NEW h \in Heads, NEW p \in Nodes, NEW other \in Heads,
           vk_list_insert_list(p, other, h)
    PROVE  ListInv'
<1> DEFINE t == order[other]
           first == ring["next"][other]
           last == ring["prev"][other]
           after == ring["next"][p]
<1>1. /\ RingInv /\ Place(p, h) /\ Linked(h) /\ Linked(other) /\ other # h /\ first # other
      /\ ring' = [next |-> [ring["next"] EXCEPT ![last] = after, ![p] = first],
                  prev |-> [ring["prev"] EXCEPT ![first] = p, ![after] = last]]
      /\ order' = [order EXCEPT ![h] = InsertSeq(@, IndexOf(p, h), t)]
      /\ stale' = stale \cup {other}
  BY DEF vk_list_insert_list, vk_list_empty, ListInv, Place
<1>2. PICK i \in 0..Len(order[h]) : IndexOf(p, h) = i /\ p = Node(order[h], h, i)
  BY <1>1, PlaceFound
<1>3. after = Node(order[h], h, i + 1)
  BY <1>1, <1>2 DEF RingInv, LinksInv, Chain, Joined
<1>4. /\ t \in Seq(Elements) /\ Len(t) \in Nat /\ 0 \in 0..Len(t) /\ Len(t) \in 0..Len(t)
      /\ ring["next"] \in [Nodes -> Nodes \cup {NoNode}]
      /\ ring["prev"] \in [Nodes -> Nodes \cup {NoNode}]
  BY <1>1 DEF RingInv, ListTypeInv, Directions
<1>5. /\ Node(t, other, 0) = other /\ Node(t, other, Len(t) + 1) = other
      /\ \A j \in 1..Len(t) : Node(t, other, j) = t[j]
  BY <1>4 DEF Node
<1>6. \A j \in 0..Len(t) : /\ ring["next"][Node(t, other, j)] = Node(t, other, j + 1)
                           /\ ring["prev"][Node(t, other, j + 1)] = Node(t, other, j)
  BY <1>1 DEF RingInv, LinksInv, Chain, Joined
<1>7. Len(t) > 0
  <2>1. CASE Len(t) = 0
    <3>1. first = other
      BY <1>4, <1>5, <1>6, <2>1
    <3> QED BY <1>1, <3>1
  <2> QED BY <1>4, <2>1
<1>8. first = t[1] /\ last = t[Len(t)] /\ 1 \in 1..Len(t) /\ Len(t) \in 1..Len(t)
  <2>1. 1 \in 1..Len(t) /\ Len(t) \in 1..Len(t) /\ 0 + 1 = 1
    BY <1>4, <1>7
  <2> QED BY <1>4, <1>5, <1>6, <2>1
<1>9. /\ \A j \in 0..Len(order[h]), k \in 0..Len(t) :
            /\ Node(order[h], h, j) # Node(t, other, k)
            /\ Node(order[h], h, j + 1) # Node(t, other, k + 1)
      /\ \A j : Node(order[h], h, j) \in Nodes /\ Node(t, other, j) \in Nodes
  BY <1>1, NodesApart
<1>10. \A k \in 1..Len(t) : p # t[k] /\ after # t[k]
  <2> SUFFICES ASSUME NEW k \in 1..Len(t) PROVE p # t[k] /\ after # t[k]
    OBVIOUS
  <2>1. k \in 0..Len(t) /\ k - 1 \in 0..Len(t) /\ (k - 1) + 1 = k
    BY <1>4
  <2> QED BY <1>2, <1>3, <1>5, <1>9, <2>1
<1>11. first \in Nodes /\ last \in Nodes /\ after \in Nodes /\ p # last /\ first # after
  <2>1. first \in Nodes /\ last \in Nodes
    BY <1>5, <1>8, <1>9
  <2>2. after \in Nodes
    BY <1>3, <1>9
  <2> QED BY <1>8, <1>10, <2>1, <2>2
<1> HIDE DEF t, first, last, after
<1>12. /\ ring'["next"] = [ring["next"] EXCEPT ![last] = after, ![p] = first]
       /\ ring'["prev"] = [ring["prev"] EXCEPT ![first] = p, ![after] = last]
  BY <1>1
<1>13. /\ ring'["next"] \in [Nodes -> Nodes \cup {NoNode}]
       /\ ring'["prev"] \in [Nodes -> Nodes \cup {NoNode}]
       /\ ring'["next"][p] = first /\ ring'["next"][last] = after
       /\ ring'["prev"][first] = p /\ ring'["prev"][after] = last
       /\ \A n \in Nodes : /\ n # p /\ n # last => ring'["next"][n] = ring["next"][n]
                           /\ n # first /\ n # after => ring'["prev"][n] = ring["prev"][n]
  <2>1. ring["next"] \in [Nodes -> Nodes \cup {NoNode}] /\ ring["prev"] \in [Nodes -> Nodes \cup {NoNode}]
    BY <1>4
  <2>2. p \in Nodes
    BY <1>4
  <2>3. /\ ring'["next"] \in [Nodes -> Nodes \cup {NoNode}]
        /\ ring'["next"][p] = first /\ ring'["next"][last] = after
        /\ \A n \in Nodes : n # p /\ n # last => ring'["next"][n] = ring["next"][n]
    BY ONLY <1>11, <1>12, <2>1, <2>2
  <2>4. /\ ring'["prev"] \in [Nodes -> Nodes \cup {NoNode}]
        /\ ring'["prev"][first] = p /\ ring'["prev"][after] = last
        /\ \A n \in Nodes : n # first /\ n # after => ring'["prev"][n] = ring["prev"][n]
    BY ONLY <1>11, <1>12, <2>1, <2>2
  <2> QED BY ONLY <2>3, <2>4
<1>14. Differ(t) /\ \A g \in Heads \ (stale \cup {other}) : Disjoint(order[g], t)
  <2>1. \A j, k \in 1..Len(t) : t[j] = t[k] => j = k
    BY <1>1 DEF t, RingInv, ApartInv
  <2>2. \A g \in Heads \ (stale \cup {other}) : Linked(g) /\ g # other
    BY DEF Linked
  <2>3. \A g \in Heads \ (stale \cup {other}) : Disjoint(order[g], t)
    BY <1>1, <2>2 DEF t, RingInv, ApartInv, Disjoint
  <2> QED BY <2>1, <2>3 DEF Differ
<1>15. \A j \in 1..Len(t) - 1 : ring'["next"][t[j]] = t[j + 1] /\ ring'["prev"][t[j + 1]] = t[j]
  <2> SUFFICES ASSUME NEW j \in 1..Len(t) - 1
               PROVE  ring'["next"][t[j]] = t[j + 1] /\ ring'["prev"][t[j + 1]] = t[j]
    OBVIOUS
  <2>1. /\ j \in 0..Len(t) /\ j \in 1..Len(t) /\ j + 1 \in 1..Len(t)
        /\ j # Len(t) /\ j + 1 # 1
    BY <1>4
  <2>2. ring["next"][t[j]] = t[j + 1] /\ ring["prev"][t[j + 1]] = t[j]
    BY <1>5, <1>6, <2>1
  <2>3. t[j] # last /\ t[j + 1] # first
    BY <1>8, <1>14, <2>1 DEF Differ
  <2>4. t[j] \in Nodes /\ t[j + 1] \in Nodes
    BY <1>5, <1>9, <2>1
  <2>5. t[j] # p /\ t[j + 1] # after
    BY <1>10, <2>1
  <2> QED BY <1>13, <2>2, <2>3, <2>4, <2>5
<1>16. RingInv'
  <2>1. /\ stale' \in SUBSET Heads /\ stale \subseteq stale' /\ h \notin stale' /\ Len(t) > 0
        /\ \A g \in Heads \ stale' : Disjoint(order[g], t)
    BY <1>1, <1>7, <1>14 DEF RingInv, ListTypeInv, Linked
  <2>2. \A way \in Directions : ring'[way] \in [Nodes -> Nodes \cup {NoNode}]
    BY <1>13 DEF Directions
  <2>3. /\ ring'["next"][Node(order[h], h, i)] = t[1]
        /\ ring'["prev"][t[1]] = Node(order[h], h, i)
        /\ ring'["next"][t[Len(t)]] = Node(order[h], h, i + 1)
        /\ ring'["prev"][Node(order[h], h, i + 1)] = t[Len(t)]
    BY <1>2, <1>3, <1>8, <1>13
  <2>4. order' = [order EXCEPT ![h] = InsertSeq(@, i, t)]
    BY <1>1, <1>2 DEF t
  <2>5. \A n \in Nodes : Avoids(t, n) =>
               /\ n # Node(order[h], h, i) => ring'["next"][n] = ring["next"][n]
               /\ n # Node(order[h], h, i + 1) => ring'["prev"][n] = ring["prev"][n]
    <3>1. \A n : Avoids(t, n) => n # first /\ n # last
      BY <1>8 DEF Avoids
    <3> QED BY <1>2, <1>3, <1>13, <3>1
  <2> QED BY ONLY <1>1, <1>4, <1>14, <1>15, <2>1, <2>2, <2>3, <2>4, <2>5, SpliceKeeps,
                  h \in Heads, i \in 0..Len(order[h])
<1>17. LoopInv'
  BY NoLoopInv DEF ListInv, vk_list_insert_list
<1> QED BY <1>16, <1>17 DEF ListInv

LEMMA RemoveElementKeeps ==
    ASSUME ListInv, NEW h \in Heads, NEW e \in Elements, vk_list_remove(e, h)
    PROVE  ListInv'
<1>1. /\ RingInv /\ Place(e, h) /\ e # h /\ Linked(h)
  BY NodesAssumption DEF vk_list_remove, ListInv, Place, InList
<1>2. PICK i \in 0..Len(order[h]) : IndexOf(e, h) = i /\ e = Node(order[h], h, i) /\ i # 0
  BY <1>1, PlaceFound
<1>3. i \in 1..Len(order[h]) /\ e = order[h][i]
  <2>1. i \in 1..Len(order[h])
    BY <1>2
  <2> QED BY <1>2, <2>1 DEF Node
<1>4. /\ ring' = Unlink(order[h][i]) /\ order' = [order EXCEPT ![h] = RemoveAt(@, i)]
      /\ stale' = stale
  BY <1>2, <1>3 DEF vk_list_remove
<1>5. RingInv'
  BY ONLY <1>1, <1>3, <1>4, RemoveKeeps, h \in Heads
<1>6. LoopInv'
  BY NoLoopInv DEF ListInv, vk_list_remove
<1> QED BY <1>5, <1>6 DEF ListInv

(* A loop begins with the whole list before it. *)
LEMMA ForEachKeeps ==
    ASSUME ListInv, NEW h \in Heads, NEW way \in Directions, ForEach(h, way)
    PROVE  ListInv'
<1> DEFINE s == order[h]
           all == IF way = "next" THEN s ELSE Reverse(s)
           n == Len(s)
<1>1. /\ RingInv /\ Linked(h) /\ ring["next"][h] # h
      /\ loop' = [list |-> h, way |-> way, pos |-> ring[way][h], tmp |-> ring[way][ring[way][h]],
                  seen |-> <<>>, all |-> all]
      /\ UNCHANGED <<ring, order, stale>>
  BY DEF ForEach, vk_list_empty, ListInv
<1>2. /\ s \in Seq(Elements) /\ n \in Nat /\ h \in Nodes /\ h \notin Elements
      /\ \A i \in 1..n : s[i] \in Elements /\ s[i] \in Nodes
      /\ ring[way] \in [Nodes -> Nodes \cup {NoNode}]
  <2>1. s \in Seq(Elements) /\ ring[way] \in [Nodes -> Nodes \cup {NoNode}]
    BY <1>1 DEF RingInv, ListTypeInv
  <2> HIDE DEF s
  <2> QED BY <2>1, NodesAssumption DEF Nodes
<1>3. /\ all \in Seq(Elements) /\ Len(all) = n
      /\ \A i \in 1..n : all[i] = IF way = "next" THEN s[i] ELSE s[(n - i) + 1]
  BY <1>2 DEF Reverse
<1>4. \A i \in 0..n : /\ ring["next"][Node(s, h, i)] = Node(s, h, i + 1)
                      /\ ring["prev"][Node(s, h, i + 1)] = Node(s, h, i)
  BY <1>1 DEF RingInv, LinksInv, Chain, Joined
<1> HIDE DEF s, all
<1>5. \A i \in 0..n + 1 : Node(all, h, i) = IF way = "next" THEN Node(s, h, i)
                                            ELSE Node(s, h, (n - i) + 1)
  <2>1. CASE way = "next"
    BY <1>2, <1>3, <2>1 DEF Node
  <2>2. CASE way # "next"
    <3> SUFFICES ASSUME NEW i \in 0..n + 1 PROVE Node(all, h, i) = Node(s, h, (n - i) + 1)
      BY <2>2
    <3>1. CASE i \in 1..n
      <4>1. (n - i) + 1 \in 1..n
        BY <1>2, <3>1
      <4> QED BY <1>3, <2>2, <3>1, <4>1 DEF Node
    <3>2. CASE i \notin 1..n
      <4>1. (n - i) + 1 \notin 1..n
        BY <1>2, <3>2
      <4> QED BY <1>3, <3>2, <4>1 DEF Node
    <3> QED BY <3>1, <3>2
  <2> QED BY <2>1, <2>2
<1>6. \A i \in 0..n : ring[way][Node(all, h, i)] = Node(all, h, i + 1)
  <2> SUFFICES ASSUME NEW i \in 0..n PROVE ring[way][Node(all, h, i)] = Node(all, h, i + 1)
    OBVIOUS
  <2>1. /\ i \in 0..n + 1 /\ i + 1 \in 0..n + 1 /\ n - i \in 0..n
        /\ (n - (i + 1)) + 1 = n - i
    BY <1>2
  <2>2. CASE way = "next"
    BY <1>4, <1>5, <2>1, <2>2
  <2>3. CASE way = "prev"
    BY <1>4, <1>5, <2>1, <2>3
  <2> QED BY <2>2, <2>3 DEF Directions
<1>7. n > 0
  <2>1. CASE n = 0
    <3>1. Node(s, h, 0) = h /\ Node(s, h, 0 + 1) = h
      BY <2>1 DEF Node
    <3>2. ring["next"][h] = h
      BY <1>2, <1>4, <3>1
    <3> QED BY <1>1, <3>2
  <2> QED BY <1>2, <2>1
<1>8. /\ Node(all, h, 0) = h /\ 0 \in 0..n /\ 1 \in 0..n /\ 0 + 1 = 1 /\ 1 + 1 = 2
      /\ \A i : Node(all, h, i) \in Nodes
  BY <1>2, <1>3, <1>7 DEF Node, Nodes
<1>9. ring[way][h] = Node(all, h, 1) /\ ring[way][ring[way][h]] = Node(all, h, 2)
  BY <1>6, <1>8
<1>10. loop' \in Loops'
  BY <1>1, <1>3, <1>8, <1>9 DEF Loops, Nodes
<1>11. \A i \in 1..n : all[i] \in Range(s)
  <2> SUFFICES ASSUME NEW i \in 1..n PROVE all[i] \in Range(s)
    OBVIOUS
  <2>1. i \in 1..n /\ (n - i) + 1 \in 1..n /\ DOMAIN s = 1..n
    BY <1>2
  <2> QED BY <1>3, <2>1 DEF Range
<1>12. Differ(all)
  <2>1. \A i, j \in 1..n : s[i] = s[j] => i = j
    BY <1>1 DEF s, RingInv, ApartInv
  <2> SUFFICES ASSUME NEW i \in 1..n, NEW j \in 1..n, all[i] = all[j] PROVE i = j
    BY <1>3 DEF Differ
  <2>2. CASE way = "next"
    BY <1>3, <2>1, <2>2
  <2>3. CASE way # "next"
    <3>0. (n - i) + 1 \in 1..n /\ (n - j) + 1 \in 1..n
      BY <1>2
    <3>1. s[(n - i) + 1] = s[(n - j) + 1]
      BY <1>3, <2>3
    <3>2. (n - i) + 1 = (n - j) + 1
      BY <2>1, <3>0, <3>1
    <3> QED BY <1>2, <3>2
  <2> QED BY <2>2, <2>3
<1>13. /\ loop'.list = h /\ loop'.way = way /\ loop'.all = all /\ loop'.seen = <<>>
       /\ loop'.pos = Node(all, h, 1) /\ loop'.tmp = Node(all, h, 2)
       /\ Len(<<>>) = 0
  BY <1>1, <1>9
<1>14. \A j \in 1..n : /\ ring'[way][all[j]] = Node(all, h, j + 1)
                       /\ h \notin stale' /\ all[j] \in Range(order'[h])
  <2> SUFFICES ASSUME NEW j \in 1..n
               PROVE  /\ ring[way][all[j]] = Node(all, h, j + 1)
                      /\ h \notin stale /\ all[j] \in Range(order[h])
    BY <1>1
  <2>1. j \in 0..n /\ Node(all, h, j) = all[j]
    BY <1>3 DEF Node
  <2> QED BY <1>1, <1>6, <1>11, <2>1 DEF Linked, s
<1>15. LoopInv'
  <2>1. /\ loop'.list \in Heads /\ Linked(h)' /\ Len(loop'.seen) <= Len(loop'.all)
        /\ Differ(loop'.all)
        /\ \A j \in 1..Len(loop'.seen) : loop'.seen[j] = loop'.all[j]
    BY <1>1, <1>2, <1>3, <1>12, <1>13 DEF Linked
  <2>2. /\ loop'.pos = Node(loop'.all, loop'.list, Len(loop'.seen) + 1)
        /\ loop'.tmp = Node(loop'.all, loop'.list, Len(loop'.seen) + 2)
    BY <1>13
  <2>3. \A j \in Len(loop'.seen) + 1..Len(loop'.all) :
           /\ ring'[loop'.way][loop'.all[j]] = Node(loop'.all, loop'.list, j + 1)
           /\ loop'.list \notin stale' /\ loop'.all[j] \in Range(order'[loop'.list])
    BY <1>3, <1>13, <1>14
  <2> QED BY <1>10, <1>13, <2>1, <2>2, <2>3 DEF LoopInv, Ahead, InList, Linked
<1>16. RingInv'
  BY <1>1, RingUnchanged
<1> QED BY <1>15, <1>16 DEF ListInv

(* The body of a loop: what is left of the loop stays in the list, linked  *)
(* as before, whether or not the element at pos is taken out.              *)
LEMMA BodyKeeps == ListInv /\ Body => ListInv'
<1> SUFFICES ASSUME ListInv, Body PROVE ListInv'
  OBVIOUS
<1>1. PICK remove \in BOOLEAN :
         /\ ring' = IF remove THEN Unlink(loop.pos) ELSE ring
         /\ order' = IF remove
                     THEN [order EXCEPT ![loop.list] = RemoveAt(@, IndexOf(loop.pos, loop.list))]
                     ELSE order
  BY DEF Body
<1>2. PICK h, way, all, seen, e, tmp :
         /\ h = loop.list /\ way = loop.way /\ all = loop.all
         /\ seen = loop.seen /\ e = loop.pos /\ tmp = loop.tmp
  OBVIOUS
<1> DEFINE n == Len(all)
           k == Len(seen)
<1>3. /\ loop \in Loops /\ loop # NoLoop /\ e # h /\ UNCHANGED stale
      /\ loop' = [loop EXCEPT !.seen = Append(@, loop.pos), !.pos = loop.tmp,
                              !.tmp = ring'[loop.way][loop.tmp]]
  BY <1>2 DEF Body, ListInv, LoopInv
<1>4. /\ h \in Heads /\ Linked(h) /\ way \in Directions /\ all \in Seq(Elements)
      /\ seen \in Seq(Elements) /\ k <= n /\ Differ(all)
      /\ \A j \in 1..k : seen[j] = all[j]
      /\ e = Node(all, h, k + 1) /\ (k < n => tmp = Node(all, h, k + 2))
      /\ \A j \in k + 1..n : /\ ring[way][all[j]] = Node(all, h, j + 1)
                             /\ InList(all[j], h)
  BY <1>2, <1>3 DEF ListInv, LoopInv, Loops, Ahead
<1>5. /\ n \in Nat /\ k \in Nat /\ k < n /\ e = all[k + 1] /\ k + 1 \in 1..n /\ k + 1 \in k + 1..n
      /\ tmp = Node(all, h, k + 2)
  <2>1. n \in Nat /\ k \in Nat
    BY <1>4
  <2>2. k + 1 \in 1..n
    BY <1>3, <1>4 DEF Node
  <2> QED BY <1>4, <2>1, <2>2 DEF Node
<1>6. h \in Nodes /\ h \notin Elements /\ \A j \in 1..n : all[j] \in Elements /\ all[j] \in Nodes
  BY <1>4, NodesAssumption DEF Nodes
<1>7. RingInv /\ Place(e, h)
  BY <1>4, <1>5 DEF ListInv, Place
<1>8. PICK i \in 0..Len(order[h]) : IndexOf(e, h) = i /\ e = Node(order[h], h, i) /\ i # 0
  BY <1>3, <1>4, <1>7, PlaceFound
<1>9. i \in 1..Len(order[h]) /\ e = order[h][i]
  <2>1. i \in 1..Len(order[h])
    BY <1>8
  <2> QED BY <1>8, <2>1 DEF Node
<1> HIDE DEF n, k
<1>10. ASSUME remove = TRUE
       PROVE  /\ RingInv'
              /\ \A j \in k + 2..n : /\ ring'[way][all[j]] = Node(all, h, j + 1)
                                     /\ all[j] \in Range(order'[h])
  <2>1. ring' = Unlink(e) /\ order' = [order EXCEPT ![h] = RemoveAt(@, i)]
    BY <1>1, <1>2, <1>8, <1>10
  <2>2. RingInv'
    <3>1. ring' = Unlink(order[h][i]) /\ stale' = stale
      BY <1>3, <1>9, <2>1
    <3> QED BY ONLY <1>4, <1>7, <1>9, <2>1, <3>1, RemoveKeeps
  <2>3. /\ ring["next"][Node(order[h], h, i - 1)] = e
        /\ ring["prev"][Node(order[h], h, i + 1)] = e
        /\ \A m \in Nodes :
              /\ m # e /\ m # Node(order[h], h, i - 1) => ring'["next"][m] = ring["next"][m]
              /\ m # e /\ m # Node(order[h], h, i + 1) => ring'["prev"][m] = ring["prev"][m]
    BY ONLY <1>4, <1>7, <1>9, <2>1, Unlinked
  <2>4. \A m \in Nodes : m # e /\ ring[way][m] # e => ring'[way][m] = ring[way][m]
    BY ONLY <1>4, <2>3 DEF Directions
  <2>5. order[h] \in Seq(Elements) /\ order'[h] = RemoveAt(order[h], i)
    BY <1>4, <1>7, <2>1 DEF RingInv, ListTypeInv
  <2>6. /\ Len(order[h]) \in Nat /\ order'[h] \in Seq(Elements)
        /\ Len(order'[h]) = Len(order[h]) - 1
        /\ \A j \in 1..Len(order[h]) - 1 :
              order'[h][j] = IF j < i THEN order[h][j] ELSE order[h][j + 1]
    <3>1. /\ RemoveAt(order[h], i) \in Seq(Elements)
          /\ Len(RemoveAt(order[h], i)) = Len(order[h]) - 1
          /\ \A j \in 1..Len(order[h]) - 1 :
                RemoveAt(order[h], i)[j] = IF j < i THEN order[h][j] ELSE order[h][j + 1]
      BY ONLY <1>9, <2>5, RemoveElement
    <3>2. Len(order[h]) \in Nat
      BY <2>5
    <3> QED BY <2>5, <3>1, <3>2
  <2>7. ASSUME NEW j \in k + 2..n
        PROVE  /\ ring'[way][all[j]] = Node(all, h, j + 1)
               /\ all[j] \in Range(order'[h])
    <3>1. /\ j \in 1..n /\ j \in k + 1..n /\ j # k + 1 /\ j + 1 # k + 1 /\ j + 1 \in Nat
          /\ j + 1 \in 1..n \/ j + 1 \notin 1..n
      BY <1>5
    <3>2. all[j] # e /\ all[j] \in Nodes
      BY <1>4, <1>5, <1>6, <3>1 DEF Differ, n
    <3>3. Node(all, h, j + 1) # e
      BY <1>4, <1>5, <1>6, <3>1 DEF Differ, Node, n
    <3>4. ring[way][all[j]] = Node(all, h, j + 1) /\ InList(all[j], h)
      BY <1>4, <3>1
    <3>5. ring'[way][all[j]] = Node(all, h, j + 1)
      BY <2>4, <3>2, <3>3, <3>4
    <3>6. PICK q \in 1..Len(order[h]) : all[j] = order[h][q]
      BY <2>5, <3>4 DEF InList, Range
    <3>7. \E r \in 1..Len(order'[h]) : all[j] = order'[h][r]
      <4>1. CASE q < i
        <5>1. q \in 1..Len(order'[h]) /\ order'[h][q] = order[h][q]
          BY <1>9, <2>6, <4>1
        <5> QED BY <3>6, <5>1
      <4>2. CASE q > i
        <5>1. /\ q - 1 \in 1..Len(order'[h]) /\ ~(q - 1 < i) /\ (q - 1) + 1 = q
              /\ q - 1 \in 1..Len(order[h]) - 1
          BY <1>9, <2>6, <4>2
        <5>2. order'[h][q - 1] = order[h][q]
          BY <2>6, <5>1
        <5> QED BY <3>6, <5>1, <5>2
      <4>3. q # i
        BY <1>9, <3>2, <3>6
      <4> QED BY <1>9, <2>6, <4>1, <4>2, <4>3
    <3>8. all[j] \in Range(order'[h])
      BY <2>6, <3>7 DEF Range
    <3> QED BY <3>5, <3>8
  <2> QED BY <2>2, <2>7
<1>11. ASSUME remove = FALSE
       PROVE  /\ RingInv'
              /\ \A j \in k + 2..n : /\ ring'[way][all[j]] = Node(all, h, j + 1)
                                     /\ all[j] \in Range(order'[h])
  <2>1. ring' = ring /\ order' = order /\ stale' = stale
    BY <1>1, <1>3, <1>11
  <2>2. \A j \in k + 2..n : j \in k + 1..n
    BY <1>5
  <2>3. RingInv'
    BY <1>7, <2>1, RingUnchanged
  <2> QED BY <1>4, <2>1, <2>2, <2>3 DEF InList, k, n
<1>12. /\ RingInv'
       /\ \A j \in k + 2..n : /\ ring'[way][all[j]] = Node(all, h, j + 1)
                              /\ all[j] \in Range(order'[h])
  <2>1. remove = TRUE \/ remove = FALSE
    OBVIOUS
  <2> QED BY <1>10, <1>11, <2>1
<1>13. /\ loop'.list = h /\ loop'.way = way /\ loop'.all = all
       /\ loop'.seen = Append(seen, e) /\ loop'.pos = tmp /\ loop'.tmp = ring'[way][tmp]
       /\ loop' = [list |-> h, way |-> way, pos |-> tmp, tmp |-> ring'[way][tmp],
                   seen |-> Append(seen, e), all |-> all]
  BY <1>2, <1>3 DEF Loops
<1>14. /\ e \in Elements /\ Append(seen, e) \in Seq(Elements) /\ Len(Append(seen, e)) = k + 1
       /\ \A j \in 1..k + 1 : Append(seen, e)[j] = all[j]
  <2>1. e \in Elements
    BY <1>5, <1>6
  <2>2. ASSUME NEW j \in 1..k + 1 PROVE Append(seen, e)[j] = all[j]
    BY <1>4, <1>5, <2>1 DEF k
  <2> QED BY <1>4, <2>1, <2>2 DEF k
<1>15. tmp \in Nodes
  BY <1>5, <1>6 DEF Node, n
<1>16. k + 1 < n => ring'[way][tmp] = Node(all, h, k + 3)
  <2> SUFFICES ASSUME k + 1 < n PROVE ring'[way][tmp] = Node(all, h, k + 3)
    OBVIOUS
  <2>1. k + 2 \in k + 2..n /\ k + 2 \in 1..n /\ (k + 2) + 1 = k + 3
    BY <1>5
  <2>2. tmp = all[k + 2]
    BY <1>5, <2>1 DEF Node, n
  <2> QED BY <1>12, <2>1, <2>2
<1>17. ring'[way][tmp] \in Nodes \cup {NoNode}
  BY <1>4, <1>12, <1>15 DEF RingInv, ListTypeInv, Nodes
<1>18. loop' \in Loops'
  BY <1>4, <1>13, <1>14, <1>15, <1>17 DEF Loops, Nodes
<1>19. LoopInv'
  <2>1. /\ loop'.list \in Heads /\ loop'.list \notin stale' /\ Len(loop'.seen) <= Len(loop'.all)
        /\ Differ(loop'.all)
        /\ \A j \in 1..Len(loop'.seen) : loop'.seen[j] = loop'.all[j]
    BY <1>3, <1>4, <1>5, <1>13, <1>14 DEF Linked, n
  <2>2. loop'.pos = Node(loop'.all, loop'.list, Len(loop'.seen) + 1)
    <3>1. (k + 1) + 1 = k + 2
      BY <1>5
    <3> QED BY <1>5, <1>13, <1>14, <3>1
  <2>3. Len(loop'.seen) < Len(loop'.all) =>
           loop'.tmp = Node(loop'.all, loop'.list, Len(loop'.seen) + 2)
    <3>1. (k + 1) + 2 = k + 3
      BY <1>5
    <3> QED BY <1>13, <1>14, <1>16, <3>1 DEF n
  <2>4. \A j \in Len(loop'.seen) + 1..Len(loop'.all) :
           /\ ring'[loop'.way][loop'.all[j]] = Node(loop'.all, loop'.list, j + 1)
           /\ loop'.list \notin stale' /\ loop'.all[j] \in Range(order'[loop'.list])
    <3>1. (k + 1) + 1 = k + 2
      BY <1>5
    <3> QED BY <1>12, <1>13, <1>14, <2>1, <3>1 DEF n
  <2> QED BY <1>18, <2>1, <2>2, <2>3, <2>4 DEF LoopInv, Ahead, InList, Linked
<1> QED BY <1>12, <1>19 DEF ListInv
-----------------------------------------------------------------------------
LEMMA ListNextInv == ListInv /\ [ListNext]_listVars => ListInv'
<1> SUFFICES ASSUME ListInv, [ListNext]_listVars PROVE ListInv'
  OBVIOUS
<1>1. CASE \E h \in Heads : vk_list_init(h)
  BY <1>1, InitKeeps
<1>2. CASE \E h \in Heads, e \in Elements : vk_list_remove(e, h)
  BY <1>2, RemoveElementKeeps
<1>3. CASE \E h \in Heads, p \in Nodes, e \in Elements : vk_list_insert(p, e, h)
  BY <1>3, InsertKeeps
<1>4. CASE \E h \in Heads, p \in Nodes, other \in Heads : vk_list_insert_list(p, other, h)
  BY <1>4, InsertListKeeps
<1>5. CASE \E h \in Heads, way \in Directions : ForEach(h, way)
  BY <1>5, ForEachKeeps
<1>6. CASE Body
  BY <1>6, BodyKeeps
<1>7. CASE EndLoop
  <2>1. RingInv'
    BY <1>7, RingUnchanged DEF ListInv, EndLoop
  <2>2. LoopInv'
    BY <1>7 DEF EndLoop, LoopInv, NoLoop, Loops, Directions
  <2> QED BY <2>1, <2>2 DEF ListInv
<1>8. CASE UNCHANGED listVars
  <2>1. RingInv'
    BY <1>8, RingUnchanged DEF ListInv, listVars
  <2>2. LoopInv'
    BY <1>8 DEF listVars, ListInv, LoopInv, Ahead, InList, Linked, Loops
  <2> QED BY <2>1, <2>2 DEF ListInv
<1> QED BY <1>1, <1>2, <1>3, <1>4, <1>5, <1>6, <1>7, <1>8 DEF ListNext

LEMMA ListInvMatches == ListInv => ListsMatch
<1> SUFFICES ASSUME ListInv PROVE ListsMatch
  OBVIOUS
<1>1. ASSUME NEW h \in Heads, Linked(h)
      PROVE  Ring(order[h], h, "next") /\ Ring(Reverse(order[h]), h, "prev")
  <2> DEFINE s == order[h]
             r == Reverse(s)
             n == Len(s)
  <2>1. s \in Seq(Elements) /\ n \in Nat
    BY DEF ListInv, RingInv, ListTypeInv
  <2>2. \A i \in 0..n : /\ ring["next"][Node(s, h, i)] = Node(s, h, i + 1)
                        /\ ring["prev"][Node(s, h, i + 1)] = Node(s, h, i)
    BY <1>1 DEF ListInv, RingInv, LinksInv, Chain, Joined
  <2> HIDE DEF s
  <2>3. /\ \A i \in 0..n : Node(s, h, i) = IF i = 0 THEN h ELSE s[i]
        /\ \A i \in 0..n : Node(s, h, i + 1) = IF i = n THEN h ELSE s[i + 1]
    BY <2>1 DEF Node
  <2>4. Ring(s, h, "next")
    BY <2>2, <2>3 DEF Ring
  <2>5. Len(r) = n /\ \A i \in 1..n : r[i] = s[(n - i) + 1]
    BY <2>1 DEF Reverse
  <2> HIDE DEF r
  <2>6. ASSUME NEW i \in 0..n
        PROVE  ring["prev"][IF i = 0 THEN h ELSE r[i]] = IF i = n THEN h ELSE r[i + 1]
    <3>1. /\ n - i \in 0..n /\ (n - i = n <=> i = 0) /\ (n - i = 0 <=> i = n)
          /\ i # 0 => i \in 1..n
          /\ i # n => i + 1 \in 1..n /\ (n - (i + 1)) + 1 = n - i
      BY <2>1
    <3>2. (IF i = 0 THEN h ELSE r[i]) = Node(s, h, (n - i) + 1)
      BY <2>3, <2>5, <3>1
    <3>3. (IF i = n THEN h ELSE r[i + 1]) = Node(s, h, n - i)
      BY <2>3, <2>5, <3>1
    <3> QED BY <2>2, <3>1, <3>2, <3>3
  <2>7. Ring(r, h, "prev")
    BY <2>5, <2>6 DEF Ring
  <2> QED BY <2>4, <2>7 DEF r, s
<1>2. ASSUME loop # NoLoop
      PROVE  /\ IsPrefix(loop.seen, loop.all)
             /\ loop.pos = loop.list => loop.seen = loop.all
  <2>1. /\ loop.seen \in Seq(Elements) /\ loop.all \in Seq(Elements) /\ loop.list \notin Elements
        /\ Len(loop.seen) <= Len(loop.all)
        /\ \A j \in 1..Len(loop.seen) : loop.seen[j] = loop.all[j]
        /\ loop.pos = Node(loop.all, loop.list, Len(loop.seen) + 1)
    BY <1>2, NodesAssumption DEF ListInv, LoopInv, Loops
  <2>2. IsPrefix(loop.seen, loop.all)
    <3>1. /\ SubSeq(loop.seen, 1, Len(loop.seen)) \in Seq(Elements)
          /\ SubSeq(loop.all, 1, Len(loop.seen)) \in Seq(Elements)
          /\ Len(SubSeq(loop.seen, 1, Len(loop.seen))) = Len(SubSeq(loop.all, 1, Len(loop.seen)))
          /\ \A j \in 1..Len(SubSeq(loop.seen, 1, Len(loop.seen))) :
                SubSeq(loop.seen, 1, Len(loop.seen))[j] = SubSeq(loop.all, 1, Len(loop.seen))[j]
      BY <2>1
    <3>2. SubSeq(loop.seen, 1, Len(loop.seen)) = SubSeq(loop.all, 1, Len(loop.seen))
      BY ONLY <3>1, SeqEqual
    <3> QED BY <2>1, <3>2 DEF IsPrefix
  <2>3. ASSUME loop.pos = loop.list PROVE loop.seen = loop.all
    <3>1. Len(loop.seen) \in Nat /\ Len(loop.all) \in Nat
      BY <2>1
    <3>2. Len(loop.seen) + 1 \notin 1..Len(loop.all)
      BY <2>1, <2>3 DEF Node
    <3>3. Len(loop.seen) = Len(loop.all)
      BY <2>1, <3>1, <3>2
    <3> QED BY ONLY <2>1, <3>3, SeqEqual
  <2> QED BY <2>2, <2>3
<1> QED BY <1>1, <1>2 DEF ListsMatch

(* The links of every list carry its elements in their order, in both      *)
(* directions, and a loop meets what it has started with: vk_list_insert,  *)
(* vk_list_remove, vk_list_insert_list and the safe loops.                 *)
THEOREM ListsMatchCorrect == ListSpec => []ListsMatch
<1>1. ListSpec => []ListInv
  BY ListInitInv, ListNextInv, PTL DEF ListSpec
<1> QED BY <1>1, ListInvMatches, PTL
=============================================================================
