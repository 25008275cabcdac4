-------------------------------- MODULE VkMap --------------------------------
(***************************************************************************)
(* The hash map of src/utils/map.c: an array of buckets, each a list of    *)
(* entries that own a copy of their key, and their datum if it was given   *)
(* with a free function.                                                   *)
(*                                                                         *)
(* A key is a pair: the high and the low word of an integer, or the length *)
(* and the characters of a string.  A datum is a number, 0 is NULL; every  *)
(* datum is given to the map once.  The hash functions are only known to   *)
(* be functions of the key.                                                *)
(***************************************************************************)
EXTENDS Integers, Sequences, FiniteSets, SequencesExt

CONSTANTS
    MapKinds,   \* a subset of {"int32", "int64", "string"}
    Words,      \* the words, or the characters, that keys are made of
    BucketBits, \* bucket_bits of the map
    MaxData     \* bound on the data that are given to it

ASSUME MapKindsAssumption == MapKinds \subseteq {"int32", "int64", "string"}
ASSUME DataAssumption == MaxData \in Nat

VARIABLES
    kind,       \* how the map was created
    hash,       \* key -> the index of its bucket
    buckets,    \* map->buckets: the entries from the head on
    opened,     \* the map has not been destroyed
    owned,      \* the data given so far: with a free function?
    freed,      \* datum -> how often it was freed
    dropped     \* the data that found no memory for an entry

mapVars == <<kind, hash, buckets, opened, owned, freed, dropped>>

bucket_mask == 2 ^ BucketBits - 1

Keys(k) == IF k = "int32" THEN {0} \X Words ELSE Words \X Words

(* The difference of two keys is cut to an int: of 64 bits it keeps the    *)
(* low word.                                                               *)
int32_key_compare(k, l)  == k[2] = l[2]
int64_key_compare(k, l)  == k[2] = l[2]
string_key_compare(k, l) == k[1] = l[1] /\ k[2] = l[2]

key_compare_func(k, l) ==
    CASE kind = "int32"  -> int32_key_compare(k, l)
      [] kind = "int64"  -> int64_key_compare(k, l)
      [] kind = "string" -> string_key_compare(k, l)

(* vk_map_create *)
MapInit ==
    /\ kind \in MapKinds
    /\ hash \in [Keys(kind) -> 0..bucket_mask]
    /\ buckets = [b \in 0..bucket_mask |-> <<>>]
    /\ opened = TRUE
    /\ owned = <<>> /\ freed = [d \in 1..MaxData |-> 0] /\ dropped = {}
-----------------------------------------------------------------------------
get_bucket(k) == buckets[hash[k]]
Store(k, entries) == buckets' = [buckets EXCEPT ![hash[k]] = entries]

(* The place of the first entry of the bucket with an equal key, or 0. *)
Find(k) == SelectInSeq(get_bucket(k), LAMBDA e : key_compare_func(e.key, k))

vk_map_get(k) == IF Find(k) = 0 THEN 0 ELSE get_bucket(k)[Find(k)].data

Entry(k, d, free_func) == [key |-> k, data |-> d, free_func |-> free_func]

(* The entries, by their buckets and places, and what freeing some does.   *)
Places == UNION {{b} \X DOMAIN buckets[b] : b \in 0..bucket_mask}
EntryAt(p) == buckets[p[1]][p[2]]
Holders(P, d) == {p \in P : EntryAt(p).data = d}
Free(P) ==
    freed' = [d \in 1..MaxData |->
                 freed[d] + Cardinality({p \in Holders(P, d) : EntryAt(p).free_func})]

Fresh(d, free_func) == d = Len(owned) + 1 /\ d <= MaxData /\ owned' = Append(owned, free_func)

(* A mutant: the datum that is replaced is not freed. *)
ReplaceForgets(k, d, free_func) ==
    /\ Find(k) # 0
    /\ Fresh(d, free_func)
    /\ Store(k, ReplaceAt(get_bucket(k), Find(k),
                           Entry(get_bucket(k)[Find(k)].key, d, free_func)))
    /\ UNCHANGED <<kind, hash, opened, freed, dropped>>

(* vk_map_set of a key that is there; the entry keeps the key it has. *)
Replace(k, d, free_func) ==
    /\ Find(k) # 0
    /\ Fresh(d, free_func)
    /\ Free({<<hash[k], Find(k)>>})
    /\ Store(k, ReplaceAt(get_bucket(k), Find(k),
                           Entry(get_bucket(k)[Find(k)].key, d, free_func)))
    /\ UNCHANGED <<kind, hash, opened, dropped>>

(* A mutant: the entries before the one that was found are unlinked too. *)
DeleteFromHead(k) ==
    /\ Find(k) # 0
    /\ Free({<<hash[k], Find(k)>>})
    /\ Store(k, SubSeq(get_bucket(k), Find(k) + 1, Len(get_bucket(k))))
    /\ UNCHANGED <<kind, hash, opened, owned, dropped>>

(* vk_map_set with NULL of a key that is there; of another one it is       *)
(* nothing.                                                                *)
Delete(k) ==
    /\ Find(k) # 0
    /\ Free({<<hash[k], Find(k)>>})
    /\ Store(k, RemoveAt(get_bucket(k), Find(k)))
    /\ UNCHANGED <<kind, hash, opened, owned, dropped>>

(* vk_map_set of a new key: the head of its bucket.  Without memory for an *)
(* entry the datum stays with nobody, and the caller is not told.          *)
Insert(k, d, free_func) ==
    /\ Find(k) = 0
    /\ Fresh(d, free_func)
    /\ \/ Store(k, <<Entry(k, d, free_func)>> \o get_bucket(k)) /\ UNCHANGED dropped
       \/ dropped' = dropped \cup {d} /\ UNCHANGED buckets
    /\ UNCHANGED <<kind, hash, opened, freed>>

vk_map_set(k, d, free_func) ==
    \/ Replace(k, d, free_func)
    \/ Insert(k, d, free_func)

vk_map_clear ==
    /\ Free(Places)
    /\ buckets' = [b \in 0..bucket_mask |-> <<>>]
    /\ UNCHANGED <<kind, hash, owned, dropped>>

vk_map_destroy == vk_map_clear /\ opened' = FALSE

MapNext ==
    /\ opened
    /\ \/ \E k \in Keys(kind), d \in 1..MaxData, f \in BOOLEAN : vk_map_set(k, d, f)
       \/ \E k \in Keys(kind) : Delete(k)
       \/ vk_map_clear /\ UNCHANGED opened
       \/ vk_map_destroy

MapSpec == MapInit /\ [][MapNext]_mapVars
-----------------------------------------------------------------------------
(* A map of 32 bit integers or strings is a function, whatever the hash    *)
(* function: no operation on a key changes what another key finds.  Two    *)
(* 64 bit keys are one key if their low words and their buckets agree.     *)
SameKey(k, l) == hash[k] = hash[l] /\ key_compare_func(k, l)

Abstract == INSTANCE KeyMap WITH
    class    <- [k \in Keys(kind) |-> {l \in Keys(kind) : SameKey(k, l)}],
    contents <- [k \in Keys(kind) |-> vk_map_get(k)],
    given    <- Len(owned)

ImplementsMap ==
    /\ kind # "int64" => \A k, l \in Keys(kind) : SameKey(k, l) <=> k = l
    /\ Abstract!Spec

(* Every datum given with a free function is in one entry, was freed once, *)
(* or was dropped; one given without is never freed.                       *)
DataFreedOnce ==
    \A d \in DOMAIN owned :
        /\ owned[d] => freed[d] + Cardinality(Holders(Places, d))
                           + (IF d \in dropped THEN 1 ELSE 0) = 1
        /\ ~owned[d] => freed[d] = 0
=============================================================================
