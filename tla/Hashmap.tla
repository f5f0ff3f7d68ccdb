------------------------------ MODULE Hashmap ------------------------------
(***************************************************************************)
(* libbpf's hash table (hashmap.c), on which the deduplication of BTF, the *)
(* dumper of C code and the candidates of CO-RE rely.  A bucket is the     *)
(* sequence of its entries, the newest first; the table has 2^cap_bits     *)
(* buckets, or none at all before the first entry.  Memory may run out.    *)
(***************************************************************************)
EXTENDS Integers, FiniteSets, SequencesExt

CONSTANTS Keys, Values,
  HashOf,    \* HashOf[k]: the W bits of k's hash after they were shuffled
  W,
  MaxSize    \* bound on the entries of the table

Strategies == {"ADD", "SET", "UPDATE", "APPEND"}
HASHMAP_MIN_CAP_BITS == 2

\* 2 ^ n
Pow2[n \in 0 .. W] == IF n = 0 THEN 1 ELSE 2 * Pow2[n - 1]

\* a hash has enough bits to number the buckets of the largest table
ASSUME HashmapAssumption ==
  /\ W \in Nat /\ W >= HASHMAP_MIN_CAP_BITS /\ MaxSize \in Nat /\ (4 * MaxSize) \div 3 <= Pow2[W]
  /\ HashOf \in [Keys -> 0 .. Pow2[W] - 1]

Entry == [key : Keys, value : Values]

VARIABLES
  hmap,   \* struct hashmap: buckets, cap, cap_bits, sz
  ret     \* what the last call returned

hvars == <<hmap, ret>>

\* hashmap__init
EmptyMap == [buckets |-> <<>>, cap |-> 0, cap_bits |-> 0, sz |-> 0]

HInit == hmap = EmptyMap /\ ret = <<"none">>

HTypeOK ==
  /\ hmap = [buckets |-> hmap.buckets, cap |-> hmap.cap, cap_bits |-> hmap.cap_bits, sz |-> hmap.sz]
  /\ hmap.cap_bits \in {0} \cup HASHMAP_MIN_CAP_BITS .. W
  /\ hmap.cap = IF hmap.cap_bits = 0 THEN 0 ELSE Pow2[hmap.cap_bits]
  /\ hmap.buckets \in [0 .. hmap.cap - 1 -> Seq(Entry)]
  /\ hmap.sz \in 0 .. MaxSize

\* the upper bits of the hash
hash_bits(k, bits) == HashOf[k] \div Pow2[W - bits]

hashmap_needs_to_grow(m) == m.cap = 0 \/ ((m.sz + 1) * 4) \div 3 > m.cap

\* hashmap_add_entry: to the head of its chain
add_entry(buckets, b, e) == [buckets EXCEPT ![b] = <<e>> \o @]

\* the entries of a chain, one after the other
AddChain(buckets, chain, bits) ==
  LET added[n \in 0 .. Len(chain)] ==
        IF n = 0 THEN buckets ELSE add_entry(added[n - 1], hash_bits(chain[n].key, bits), chain[n])
  IN  added[Len(chain)]

\* the chains of all buckets go into new buckets
hashmap_grow(m) ==
  LET bits == IF m.cap_bits + 1 < HASHMAP_MIN_CAP_BITS THEN HASHMAP_MIN_CAP_BITS ELSE m.cap_bits + 1
      moved[i \in 0 .. m.cap] ==
        IF i = 0 THEN [b \in 0 .. Pow2[bits] - 1 |-> <<>>]
        ELSE AddChain(moved[i - 1], m.buckets[i - 1], bits)
  IN  [m EXCEPT !.buckets = moved[m.cap], !.cap = Pow2[bits], !.cap_bits = bits]

\* the places of k in its chain, for a table with buckets
KeyPlaces(m, k) ==
  IF m.cap = 0 THEN {}
  ELSE LET chain == m.buckets[hash_bits(k, m.cap_bits)]
       IN  {n \in DOMAIN chain : chain[n].key = k}

\* hashmap_find_entry: the first place
FindEntry(m, k) == CHOOSE n \in KeyPlaces(m, k) : \A o \in KeyPlaces(m, k) : n <= o

ValueAt(m, k, n) == m.buckets[hash_bits(k, m.cap_bits)][n].value

\* the bucket is the one from before the table grew
BucketBefore(m, grown, k) == hash_bits(k, m.cap_bits)

\* the bucket of the new entry, of the table as it is now
BucketOf(m, grown, k) == hash_bits(k, grown.cap_bits)

\* hashmap__insert when it finds the key
InsertFound(k, v, strategy) ==
  /\ strategy # "APPEND" /\ KeyPlaces(hmap, k) # {}
  /\ LET n == FindEntry(hmap, k)  old == ValueAt(hmap, k, n)
     IN  IF strategy \in {"SET", "UPDATE"}
         THEN /\ hmap' = [hmap EXCEPT !.buckets[hash_bits(k, hmap.cap_bits)][n].value = v]
              /\ ret' = <<"old", old>>
         ELSE ret' = <<"EEXIST", old>> /\ UNCHANGED hmap

InsertNone(k, strategy) ==
  /\ strategy = "UPDATE" /\ KeyPlaces(hmap, k) = {}
  /\ ret' = <<"ENOENT">>
  /\ UNCHANGED hmap

\* the table grows first; there may be no memory for that or for the entry
InsertNew(k, v, strategy) ==
  /\ \/ strategy = "APPEND"
     \/ strategy \in {"ADD", "SET"} /\ KeyPlaces(hmap, k) = {}
  /\ hmap.sz < MaxSize
  /\ LET grown == IF hashmap_needs_to_grow(hmap) THEN hashmap_grow(hmap) ELSE hmap
     IN  \/ /\ hmap' = [grown EXCEPT !.sz = @ + 1,
                          !.buckets = add_entry(@, BucketOf(hmap, grown, k), [key |-> k, value |-> v])]
            /\ ret' = <<"ok">>
         \/ hmap' \in {hmap, grown} /\ ret' = <<"ENOMEM">>

hashmap__insert(k, v, strategy) ==
  \/ InsertFound(k, v, strategy)
  \/ InsertNone(k, strategy)
  \/ InsertNew(k, v, strategy)

hashmap__find(k) ==
  /\ ret' = IF KeyPlaces(hmap, k) = {} THEN <<"none">>
            ELSE <<"found", ValueAt(hmap, k, FindEntry(hmap, k))>>
  /\ UNCHANGED hmap

hashmap__delete(k) ==
  \/ KeyPlaces(hmap, k) = {} /\ ret' = <<"none">> /\ UNCHANGED hmap
  \/ /\ KeyPlaces(hmap, k) # {}
     /\ LET n == FindEntry(hmap, k)
        IN  /\ hmap' = [hmap EXCEPT !.buckets[hash_bits(k, hmap.cap_bits)] = RemoveAt(@, n), !.sz = @ - 1]
            /\ ret' = <<"old", ValueAt(hmap, k, n)>>

Count(m, k, v) == Cardinality({n \in KeyPlaces(m, k) : ValueAt(m, k, n) = v})

\* hashmap__for_each_key_entry: how often it meets each value
for_each_key_entry(k) ==
  ret' = <<"entries", [v \in Values |-> Count(hmap, k, v)]>> /\ UNCHANGED hmap

\* hashmap__free, and hashmap__new for the next user
hashmap__free == hmap' = EmptyMap /\ ret' = <<"none">>

HNext ==
  \/ \E k \in Keys :
       \/ \E v \in Values, strategy \in Strategies : hashmap__insert(k, v, strategy)
       \/ hashmap__find(k) \/ hashmap__delete(k) \/ for_each_key_entry(k)
  \/ hashmap__free

HSpec == HInit /\ [][HNext]_hvars

-----------------------------------------------------------------------------
(* hashmap__for_each_entry: what a walk over all buckets meets             *)
EntryPlaces(buckets, es) ==
  {p \in UNION {{b} \X DOMAIN buckets[b] : b \in DOMAIN buckets} : buckets[p[1]][p[2]] \in es}

Contents ==
  [k \in Keys |-> [v \in Values |-> Cardinality(EntryPlaces(hmap.buckets, {[key |-> k, value |-> v]}))]]

Pairing == INSTANCE Multimap WITH pairs <- Contents, size <- hmap.sz

(* hashmap__insert, hashmap__find, hashmap__delete and the iterations:     *)
(* however the table grows, and wherever memory runs out, every call       *)
(* returns what a multimap does and no entry is lost or out of reach.      *)
HashmapIsMultimap == Pairing!Spec
=============================================================================
