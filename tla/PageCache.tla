------------------------------- MODULE PageCache -------------------------------
(***************************************************************************)
(* The LRU cache of clean pages (squrust-core/src/page/cache.rs).  Every   *)
(* operation runs under the mutex of the cache, so each is one action on   *)
(* the map and the list of its pages, least recently used first.           *)
(*                                                                         *)
(* The module Storage keeps a cache that may lose any page at any time;    *)
(* this one shows which page it loses, and that it loses no other.         *)
(***************************************************************************)
EXTENDS Integers, Sequences, SequencesExt, FiniteSets, FiniteSetsExt, Functions

CONSTANTS
    CachePages, Contents,
    Capacity,      \* PageCache::new raises zero to one
    MaxUses        \* bounds insertions and hits

ASSUME CapacityAssumption == Capacity \in Nat \ {0}
\* Page numbers have 32 bits.
ASSUME CachePagesAssumption == IsFiniteSet(CachePages)

VARIABLES
    map, lru,      \* the fields of Inner
    used, now      \* history: when each page was used last, and the time

cacheVars == <<map, lru, used, now>>

TouchesOnce(list, id) == IF \E k \in 1..Len(list) : list[k] = id THEN list ELSE Append(list, id)
\* Inner::touch.
touch(list, id) == Append(RemoveFirst(list, id), id)

OneEarly(pages, list) == IF Cardinality(pages) < Capacity THEN 0 ELSE 1
\* Inner::evict_if_needed: how many pages at the front of the list have to go
\* before the map, with its pages, fits or the list is empty.
Evicted(pages, list) ==
    Min({k \in 0..Len(list) :
            \/ k = Len(list)
            \/ Cardinality(pages \ ToSet(SubSeq(list, 1, k))) <= Capacity})

Used(id) ==
    /\ now < MaxUses
    /\ now' = now + 1
    /\ used' = [used EXCEPT ![id] = now + 1]

CacheInit ==
    /\ map = [p \in {} |-> p] /\ lru = <<>>
    /\ used = [p \in CachePages |-> 0] /\ now = 0

Get(id) ==
    \/ /\ id \in DOMAIN map
       /\ lru' = touch(lru, id)
       /\ Used(id)
       /\ UNCHANGED map
    \/ id \notin DOMAIN map /\ UNCHANGED cacheVars

Insert(id, content) ==
    LET m == [p \in DOMAIN map \cup {id} |-> IF p = id THEN content ELSE map[p]]
        list == touch(lru, id)
        n == Evicted(DOMAIN m, list)
    IN  /\ map' = Restrict(m, DOMAIN m \ ToSet(SubSeq(list, 1, n)))
        /\ lru' = SubSeq(list, n + 1, Len(list))
        /\ Used(id)

Invalidate(id) ==
    /\ map' = Restrict(map, DOMAIN map \ {id})
    /\ lru' = RemoveFirst(lru, id)
    /\ UNCHANGED <<used, now>>

Clear ==
    /\ map' = [p \in {} |-> p] /\ lru' = <<>>
    /\ UNCHANGED <<used, now>>

CacheNext ==
    \/ \E id \in CachePages : Get(id) \/ Invalidate(id)
    \/ \E id \in CachePages, content \in Contents : Insert(id, content)
    \/ Clear

CacheSpec == CacheInit /\ [][CacheNext]_cacheVars

-----------------------------------------------------------------------------

\* The list has exactly the pages of the map, each once, the one used last at the
\* end, and at most Capacity of them: however gets, insertions, replacements
\* and invalidations follow one another (Inner), an eviction finds its victim
\* at the front and removes it from both.
LruConsistent ==
    /\ DOMAIN map \subseteq CachePages
    /\ map \in [DOMAIN map -> Contents]
    /\ lru \in Seq(CachePages) /\ ToSet(lru) = DOMAIN map
    /\ Cardinality(DOMAIN map) <= Capacity
    /\ now \in Nat /\ used \in [CachePages -> 0..now]
    /\ \A j, k \in 1..Len(lru) : j < k => used[lru[j]] < used[lru[k]]

Lru == INSTANCE LruCache WITH held <- map

\* The list does what times of use would: an insertion into the full cache loses the
\* one page whose last use is the longest ago, any other loses none, and no
\* operation changes the content of another page (PageCache).
ImplementsLru == Lru!Spec
=============================================================================
