------------------------------- MODULE LruCache -------------------------------
(***************************************************************************)
(* What a cache of the most recently used pages promises: it has the       *)
(* content put last, and forgets a page only when it is told to or, being  *)
(* full, to make room for another; then it is the one page whose last use  *)
(* is the longest ago.                                                     *)
(***************************************************************************)
EXTENDS Naturals, FiniteSets, Functions

CONSTANTS CachePages, Contents, Capacity

VARIABLES
    held,    \* the pages in the cache -> their content
    used,    \* page -> when it was used last; 0 for never
    now      \* how many uses there were

vars == <<held, used, now>>

Init ==
    /\ held = [p \in {} |-> p]
    /\ used = [p \in CachePages |-> 0]
    /\ now = 0

Use(id) ==
    /\ now' = now + 1
    /\ used' = [used EXCEPT ![id] = now + 1]

Hit(id) == id \in DOMAIN held /\ Use(id) /\ UNCHANGED held

HeldWith(id, content) ==
    [p \in DOMAIN held \cup {id} |-> IF p = id THEN content ELSE held[p]]

Put(id, content) ==
    /\ id \in DOMAIN held \/ Cardinality(DOMAIN held) < Capacity
    /\ Use(id)
    /\ held' = HeldWith(id, content)

Replace(id, content) ==
    /\ id \notin DOMAIN held /\ Cardinality(DOMAIN held) = Capacity
    /\ Use(id)
    /\ \E victim \in DOMAIN held :
          /\ \A p \in DOMAIN held \ {victim} : used[victim] < used[p]
          /\ held' = Restrict(HeldWith(id, content), (DOMAIN held \ {victim}) \cup {id})

Forget(S) ==
    /\ held' = Restrict(held, DOMAIN held \ S)
    /\ UNCHANGED <<used, now>>

Next ==
    \/ \E id \in CachePages : Hit(id) \/ Forget({id})
    \/ \E id \in CachePages, content \in Contents : Put(id, content) \/ Replace(id, content)
    \/ Forget(CachePages)

Spec == Init /\ [][Next]_vars
===============================================================================
