------------------------------ MODULE LfuCache ------------------------------
(***************************************************************************)
(* The cache of shaped text, line state, quads and images                  *)
(* (lfucache/src/lib.rs).  An entry is linked into three structures at     *)
(* once: a bucket of the hash table, the frequency tree and the recency    *)
(* list, and every operation has to keep the three of them together.       *)
(*                                                                         *)
(* The cache is one record.  The tree is the sequence of its keys in order *)
(* (an insertion goes behind equal frequencies); the front of the recency  *)
(* list is the most recent.  HashOf is the hash of the keys, DecayTicks    *)
(* the ticks for one step of decay (10 in the code), Word the number of    *)
(* values of a frequency (2^16), Caps the capacities of the configurations *)
(* and MaxTick bounds the operations.                                      *)
(***************************************************************************)
EXTENDS Integers, Sequences, SequencesExt, FiniteSets

CONSTANTS Keys, HashOf, Caps, DecayTicks, Word, MaxTick

\* A capacity of 0 is left out: put would never return.
CapsAssumption == Caps \subseteq Nat \ {0}
TicksAssumption == DecayTicks \in Nat \ {0} /\ Word \in Nat \ {0}
HashAssumption == HashOf \in [Keys -> Nat]

VARIABLE cache

cacheVars == <<cache>>

------------------------------------------------------------------------------
Bucket(c, k) == (HashOf[k] % Len(c.buckets)) + 1

\* A link is taken out of a list or a tree, in which an entry is once.
Unlink(s, k) == RemoveAt(s, CHOOSE i \in DOMAIN s : s[i] = k)

\* The place of a key in the tree, by its frequency.
Insert(tree, freq, k) ==
    InsertAt(tree, Cardinality({i \in DOMAIN tree : freq[tree[i]] <= freq[k]}) + 1, k)

\* Mutant: the entries stay in the buckets of their old number.
MutGrown(c) == [c EXCEPT !.buckets = @ \o [i \in 1 .. Len(@) |-> << >>]]

\* The entries of an old bucket, from its front, each pushed to the front of
\* its new one.
Rehashed(buckets, keys) ==
    LET after[n \in 0 .. Len(keys)] ==
            IF n = 0 THEN buckets
            ELSE [after[n - 1] EXCEPT ![(HashOf[keys[n]] % Len(buckets)) + 1] = Cons(keys[n], @)]
    IN  after[Len(keys)]

\* grow_hash: twice the buckets, and every entry into one of them.
Grown(c) ==
    LET wider == [i \in 1 .. 2 * Len(c.buckets) |-> << >>]
        after[n \in 0 .. Len(c.buckets)] ==
            IF n = 0 THEN wider ELSE Rehashed(after[n - 1], c.buckets[n])
    IN  [c EXCEPT !.buckets = after[Len(c.buckets)]]

\* The steps of decay since an entry was used, as u16.
Delta(c, k) == ((c.tick - c.lastTick[k]) \div DecayTicks) % Word

\* Mutant: the frequency changes while the entry is linked into the tree.
MutDecayed(c) ==
    LET k == Last(c.recency)
    IN IF c.recency = << >> \/ c.freq[k] = 0 \/ Delta(c, k) <= 1 THEN c
       ELSE [c EXCEPT !.freq[k] = @ \div Delta(c, k), !.recency = Cons(k, Unlink(@, k))]

\* decay_least_recent: the entry at the back loses some of its frequency and
\* goes to the front.
Decayed(c) ==
    LET k    == Last(c.recency)
        freq == [c.freq EXCEPT ![k] = @ \div Delta(c, k)]
    IN IF c.recency = << >> \/ c.freq[k] = 0 \/ Delta(c, k) <= 1 THEN c
       ELSE [c EXCEPT !.freq = freq, !.recency = Cons(k, Unlink(@, k)),
                      !.frequency = Insert(Unlink(@, k), freq, k)]

\* Mutant: an evicted entry stays in the recency list.
MutUnlinked(c, k) ==
    [c EXCEPT !.buckets[Bucket(c, k)] = Unlink(@, k), !.frequency = Unlink(@, k),
              !.len = @ - 1]

Unlinked(c, k) ==
    [c EXCEPT !.buckets[Bucket(c, k)] = Unlink(@, k), !.frequency = Unlink(@, k),
              !.recency = Unlink(@, k), !.len = @ - 1]

\* evict_one: decay first, then out with the smallest frequency.
Evicted(c) ==
    LET d == Decayed(c)
    IN IF d.frequency = << >> THEN d ELSE Unlinked(d, Head(d.frequency))

\* One entry after the other, until no more than most are left.
EvictedTo(c, most) ==
    LET after[n \in 0 .. c.len] ==
            IF n = 0 THEN c
            ELSE IF after[n - 1].len <= most THEN after[n - 1]
            ELSE Evicted(after[n - 1])
    IN  after[c.len]

\* Mutant: room is made only for what is there already.
MutRoom(c) == EvictedTo(c, c.cap)

\* put makes room for the entry that it is about to link.
Room(c) == EvictedTo(c, c.cap - 1)

\* The bucket of the new entry is found before anything is evicted.
Linked(c, k, bucket) ==
    [c EXCEPT !.buckets[bucket] = Cons(k, @), !.recency = Cons(k, @), !.len = @ + 1,
              !.freq[k] = 0, !.lastTick[k] = c.tick,
              !.frequency = Insert(@, [c.freq EXCEPT ![k] = 0], k)]

Holds(c, k) == k \in Range(c.buckets[Bucket(c, k)])

------------------------------------------------------------------------------
\* next_power_of_two, where that of 0 is 1.
NextPowerOfTwo(n) ==
    LET power[i \in 0 .. n] ==
            IF i = 0 THEN 1
            ELSE IF power[i - 1] >= n THEN power[i - 1]
            ELSE 2 * power[i - 1]
    IN  power[n]

NumBuckets(cap) == NextPowerOfTwo(cap \div 10)

CacheInit ==
    \E cap \in Caps :
        cache = [cap |-> cap, buckets |-> [i \in 1 .. NumBuckets(cap) |-> << >>],
                 frequency |-> << >>, recency |-> << >>, len |-> 0, tick |-> 0,
                 freq |-> [k \in Keys |-> 0], lastTick |-> [k \in Keys |-> 0]]

Put(k) ==
    LET ticked == [cache EXCEPT !.tick = @ + 1]
        fresh == IF Holds(cache, k) THEN Unlinked(ticked, k) ELSE ticked
        stored == Linked(Room(fresh), k, Bucket(cache, k))
        n == Len(stored.buckets)
    IN /\ cache.tick < MaxTick
       /\ cache' = IF n < stored.cap /\ stored.len > n \div 2 THEN Grown(stored) ELSE stored

\* A hit; a miss changes nothing.
Get(k) ==
    /\ cache.tick < MaxTick
    /\ Holds(cache, k)
    /\ LET freq == [cache.freq EXCEPT ![k] = IF @ = Word - 1 THEN @ ELSE @ + 1]
       IN cache' = [cache EXCEPT !.recency = Cons(k, Unlink(@, k)), !.tick = @ + 1,
                                 !.lastTick[k] = cache.tick + 1, !.freq = freq,
                                 !.frequency = Insert(Unlink(@, k), freq, k)]

\* update_config does nothing unless the capacity is another one.
UpdateConfig(cap) ==
    /\ cap # cache.cap
    /\ cache' = EvictedTo([cache EXCEPT !.cap = cap], cap)

Clear ==
    /\ cache.len > 0
    /\ cache' = [cache EXCEPT !.frequency = << >>, !.recency = << >>, !.len = 0,
                              !.buckets = [i \in DOMAIN @ |-> << >>]]

CacheNext ==
    \/ \E k \in Keys : Put(k) \/ Get(k)
    \/ \E cap \in Caps : UpdateConfig(cap)
    \/ Clear

CacheSpec == CacheInit /\ [][CacheNext]_cacheVars

------------------------------------------------------------------------------
(* Properties.                                                              *)

TreeKeys == Range(cache.frequency)

\* The three structures hold the same entries, each once, and len counts them:
\* an entry left behind in one of them would be unlinked twice, or never.
EachLinkedOnce ==
    /\ \A s \in {cache.frequency, cache.recency} \cup Range(cache.buckets) : IsInjective(s)
    /\ Range(cache.recency) = TreeKeys
    /\ UNION {Range(b) : b \in Range(cache.buckets)} = TreeKeys
    /\ \A i, j \in DOMAIN cache.buckets :
          i # j => Range(cache.buckets[i]) \cap Range(cache.buckets[j]) = {}
    /\ Cardinality(TreeKeys) = cache.len

\* A lookup finds every entry there is: growing the table moves each entry to
\* the bucket its key is looked up in.
LookupFindsAll == \A k \in Range(cache.recency) : Holds(cache, k)

\* The tree is in the order of the frequencies whatever has decayed and been
\* hit, so that its first entry is the one to evict.
TreeIsOrdered ==
    \A i \in 1 .. Len(cache.frequency) - 1 :
        cache.freq[cache.frequency[i]] <= cache.freq[cache.frequency[i + 1]]

\* The cache never grows past its capacity, which a reload may lower.
WithinCapacity == cache.len <= cache.cap

\* Table, tree and list hold the same entries, no more than the capacity, each
\* of which is found by its key, and the entry to evict is the first of the tree.
StructuresAgree == EachLinkedOnce /\ LookupFindsAll /\ TreeIsOrdered /\ WithinCapacity

=============================================================================
