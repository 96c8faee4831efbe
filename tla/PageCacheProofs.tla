---------------------------- MODULE PageCacheProofs ----------------------------
(***************************************************************************)
(* Proofs about PageCache, for any capacity, any finite set of pages and   *)
(* any contents: first what the operations make of the list, then the      *)
(* invariant and the refinement of LruCache.                               *)
(***************************************************************************)
EXTENDS PageCache, Extrema, SequenceTheorems, FiniteSetTheorems

\* The list s is in the order of the times u, and so has no page twice.
Sorted(s, u) == \A j, k \in 1..Len(s) : j < k => u[s[j]] < u[s[k]]

\* The list without its first occurrence of e, by positions.
LEMMA WithoutFirst ==
    ASSUME NEW s \in Seq(CachePages), NEW e, NEW k \in 1..Len(s), s[k] = e,
           \A j \in 1..(k - 1) : s[j] # e, NEW r, r = RemoveFirst(s, e)
    PROVE  /\ r \in Seq(CachePages) /\ Len(r) = Len(s) - 1
           /\ \A i \in 1..Len(r) : r[i] = IF i < k THEN s[i] ELSE s[i + 1]
<1> DEFINE I == {i \in 1..Len(s) : s[i] = e}
<1>1. Len(s) \in Nat /\ \A i \in 1..Len(s) : s[i] \in CachePages
  BY LenProperties, ElementOfSeq
<1>2. k \in I /\ I \subseteq Nat
  BY <1>1
<1>3. Min(I) \in I /\ \A i \in I : Min(I) <= i
  <2> HIDE DEF I
  <2> QED  BY <1>2, MinIsLeast
<1>4. Min(I) = k
  <2>1. Min(I) <= k /\ Min(I) \in 1..Len(s) /\ s[Min(I)] = e
    BY <1>2, <1>3
  <2>2. ~(Min(I) \in 1..(k - 1))
    BY <2>1
  <2> QED  BY <1>1, <2>1, <2>2
<1>5. RemoveFirst(s, e) = RemoveAt(s, k)
  BY <1>2, <1>4 DEF RemoveFirst, SelectInSeq
<1> DEFINE a == SubSeq(s, 1, k - 1)
           b == SubSeq(s, k + 1, Len(s))
<1>6. a \in Seq(CachePages) /\ Len(a) = k - 1 /\ \A i \in 1..(k - 1) : a[i] = s[i]
  <2>1. \A i \in 1..(k - 1) : s[i] \in CachePages
    BY <1>1
  <2> QED  BY <1>1, <2>1, SubSeqProperties
<1>7. b \in Seq(CachePages) /\ Len(b) = Len(s) - k /\ \A i \in 1..(Len(s) - k) : b[i] = s[k + i]
  <2>1. \A i \in (k + 1)..Len(s) : s[i] \in CachePages
    BY <1>1
  <2>2. /\ b \in Seq(CachePages) /\ Len(b) = IF k + 1 <= Len(s) THEN Len(s) - (k + 1) + 1 ELSE 0
        /\ \A i \in 1..(Len(s) - (k + 1) + 1) : b[i] = s[(k + 1) + i - 1]
    BY <1>1, <2>1, SubSeqProperties
  <2> QED  BY <1>1, <2>2
<1> HIDE DEF a, b
<1>8. /\ a \o b \in Seq(CachePages) /\ Len(a \o b) = Len(a) + Len(b)
      /\ \A i \in 1..(Len(a) + Len(b)) : (a \o b)[i] = IF i <= Len(a) THEN a[i] ELSE b[i - Len(a)]
  BY <1>6, <1>7, ConcatProperties
<1>9. r = a \o b
  BY <1>5 DEF RemoveAt, a, b
<1>10. Len(a \o b) = Len(s) - 1
  BY <1>1, <1>6, <1>7, <1>8
<1>11. ASSUME NEW i \in 1..(Len(s) - 1) PROVE (a \o b)[i] = IF i < k THEN s[i] ELSE s[i + 1]
  <2>1. CASE i < k
    BY <1>1, <1>6, <1>7, <1>8, <2>1
  <2>2. CASE ~(i < k)
    <3>1. (a \o b)[i] = b[i - (k - 1)]
      BY <1>1, <1>6, <1>7, <1>8, <2>2
    <3>2. i - (k - 1) \in 1..(Len(s) - k)
      BY <1>1, <2>2
    <3>3. b[i - (k - 1)] = s[k + (i - (k - 1))]
      BY <1>7, <3>2
    <3>4. k + (i - (k - 1)) = i + 1
      BY <1>1
    <3> QED  BY <1>1, <2>2, <3>1, <3>3, <3>4
  <2> QED  BY <2>1, <2>2
<1> QED  BY <1>8, <1>9, <1>10, <1>11

\* The list without the only occurrence of e.
LEMMA WithoutOnce ==
    ASSUME NEW s \in Seq(CachePages), NEW e, NEW k \in 1..Len(s), s[k] = e,
           \A j \in 1..Len(s) : j # k => s[j] # e
    PROVE  LET r == RemoveFirst(s, e)
           IN  /\ r \in Seq(CachePages) /\ Len(r) = Len(s) - 1
               /\ \A i \in 1..Len(r) : r[i] = IF i < k THEN s[i] ELSE s[i + 1]
               /\ ToSet(r) = ToSet(s) \ {e}
<1> DEFINE r == RemoveFirst(s, e)
<1>1. Len(s) \in Nat /\ DOMAIN s = 1..Len(s) /\ \A i \in 1..Len(s) : s[i] \in CachePages
  BY LenProperties, ElementOfSeq
<1>2. \A j \in 1..Len(s) : j # k => s[j] # e
  OBVIOUS
<1>3. /\ r \in Seq(CachePages) /\ Len(r) = Len(s) - 1
      /\ \A i \in 1..Len(r) : r[i] = IF i < k THEN s[i] ELSE s[i + 1]
  <2>1. \A j \in 1..(k - 1) : s[j] # e
    BY <1>1, <1>2
  <2>2. r = RemoveFirst(s, e)
    OBVIOUS
  <2> HIDE DEF r
  <2> QED  BY <2>1, <2>2, WithoutFirst
<1>4. DOMAIN r = 1..Len(r)
  BY <1>3, LenProperties
<1> HIDE DEF r
<1>5. ToSet(r) \subseteq ToSet(s) \ {e}
  <2>1. ASSUME NEW i \in 1..Len(r) PROVE r[i] \in ToSet(s) \ {e}
    <3>1. CASE i < k
      <4>1. i \in 1..Len(s) /\ i # k /\ r[i] = s[i]
        BY <1>1, <1>3, <3>1
      <4> QED  BY <1>1, <1>2, <4>1 DEF ToSet
    <3>2. CASE ~(i < k)
      <4>1. i + 1 \in 1..Len(s) /\ i + 1 # k /\ r[i] = s[i + 1]
        BY <1>1, <1>3, <3>2
      <4> QED  BY <1>1, <1>2, <4>1 DEF ToSet
    <3> QED  BY <3>1, <3>2
  <2> QED  BY <1>4, <2>1 DEF ToSet
<1>6. ToSet(s) \ {e} \subseteq ToSet(r)
  <2>1. ASSUME NEW j \in 1..Len(s), s[j] # e PROVE \E i \in 1..Len(r) : r[i] = s[j]
    <3>1. CASE j < k
      <4>1. j \in 1..Len(r) /\ r[j] = s[j]
        BY <1>1, <1>3, <3>1
      <4> QED  BY <4>1
    <3>2. CASE j > k
      <4>1. j - 1 \in 1..Len(r) /\ ~(j - 1 < k) /\ (j - 1) + 1 = j
        BY <1>1, <1>3, <3>2
      <4>2. r[j - 1] = s[j]
        BY <1>3, <4>1
      <4> QED  BY <4>1, <4>2
    <3> QED  BY <1>1, <2>1, <3>1, <3>2
  <2> QED  BY <1>1, <1>4, <2>1 DEF ToSet
<1> QED  BY <1>3, <1>5, <1>6 DEF r

\* Order does not suffer when a position is left out, or when a page used later
\* than the others is put at the end.
LEMMA SortedWithout ==
    ASSUME NEW s, NEW r, NEW u, Sorted(s, u), Len(s) \in Nat, NEW k \in 1..Len(s),
           Len(r) = Len(s) - 1,
           \A i \in 1..Len(r) : r[i] = IF i < k THEN s[i] ELSE s[i + 1]
    PROVE  Sorted(r, u)
<1> SUFFICES ASSUME NEW i \in 1..Len(r), NEW j \in 1..Len(r), i < j
             PROVE  u[r[i]] < u[r[j]]
  BY DEF Sorted
<1>1. CASE j < k
  <2>1. i \in 1..Len(s) /\ j \in 1..Len(s) /\ r[i] = s[i] /\ r[j] = s[j]
    BY <1>1
  <2> QED  BY <2>1 DEF Sorted
<1>2. CASE i < k /\ ~(j < k)
  <2>1. i \in 1..Len(s) /\ j + 1 \in 1..Len(s) /\ i < j + 1 /\ r[i] = s[i] /\ r[j] = s[j + 1]
    BY <1>2
  <2> QED  BY <2>1 DEF Sorted
<1>3. CASE ~(i < k)
  <2>1. /\ i + 1 \in 1..Len(s) /\ j + 1 \in 1..Len(s) /\ i + 1 < j + 1
        /\ r[i] = s[i + 1] /\ r[j] = s[j + 1]
    BY <1>3
  <2> QED  BY <2>1 DEF Sorted
<1> QED  BY <1>1, <1>2, <1>3

LEMMA SortedWith ==
    ASSUME NEW r, NEW t, NEW u \in [CachePages -> Nat], Sorted(r, u), Len(r) \in Nat,
           NEW e \in CachePages, NEW n \in Nat, \A p \in CachePages : u[p] <= n,
           \A i \in 1..Len(r) : r[i] \in CachePages /\ r[i] # e /\ t[i] = r[i],
           Len(t) = Len(r) + 1, t[Len(r) + 1] = e
    PROVE  Sorted(t, [u EXCEPT ![e] = n + 1])
<1> SUFFICES ASSUME NEW i \in 1..Len(t), NEW j \in 1..Len(t), i < j
             PROVE  [u EXCEPT ![e] = n + 1][t[i]] < [u EXCEPT ![e] = n + 1][t[j]]
  BY DEF Sorted
<1>1. i \in 1..Len(r) /\ (j = Len(r) + 1 \/ j \in 1..Len(r))
  OBVIOUS
<1>2. CASE j = Len(r) + 1
  BY <1>1, <1>2
<1>3. CASE j \in 1..Len(r)
  BY <1>1, <1>3 DEF Sorted
<1> QED  BY <1>1, <1>2, <1>3

\* Removing a page from a sorted list leaves the others, in their order.
LEMMA Removed ==
    ASSUME NEW s \in Seq(CachePages), NEW u \in [CachePages -> Nat], Sorted(s, u), NEW e
    PROVE  LET r == RemoveFirst(s, e)
           IN  r \in Seq(CachePages) /\ ToSet(r) = ToSet(s) \ {e} /\ Sorted(r, u)
<1> DEFINE r == RemoveFirst(s, e)
<1>1. Len(s) \in Nat /\ DOMAIN s = 1..Len(s) /\ \A i \in 1..Len(s) : s[i] \in CachePages
  BY LenProperties, ElementOfSeq
<1>2. CASE \A i \in 1..Len(s) : s[i] # e
  <2>1. r = s
    BY <1>2 DEF RemoveFirst
  <2>2. e \notin ToSet(s)
    BY <1>1, <1>2 DEF ToSet
  <2> HIDE DEF r
  <2> QED  BY <2>1, <2>2 DEF r
<1>3. CASE \E i \in 1..Len(s) : s[i] = e
  <2>1. PICK k \in 1..Len(s) : s[k] = e
    BY <1>3
  <2>2. \A j \in 1..Len(s) : j # k => s[j] # e
    <3>1. ASSUME NEW j \in 1..Len(s), j # k, s[j] = e PROVE FALSE
      <4>1. j < k \/ k < j
        BY <1>1, <3>1
      <4>2. u[s[j]] < u[s[k]] \/ u[s[k]] < u[s[j]]
        BY <4>1 DEF Sorted
      <4>3. u[e] \in Nat
        BY <1>1, <2>1
      <4> QED  BY <2>1, <3>1, <4>2, <4>3
    <3> QED  BY <3>1
  <2>3. /\ r \in Seq(CachePages) /\ Len(r) = Len(s) - 1
        /\ \A i \in 1..Len(r) : r[i] = IF i < k THEN s[i] ELSE s[i + 1]
        /\ ToSet(r) = ToSet(s) \ {e}
    <3>1. r \in Seq(CachePages) /\ Len(r) = Len(s) - 1
      BY <2>1, <2>2, WithoutOnce
    <3>2. ASSUME NEW i \in 1..Len(r) PROVE r[i] = IF i < k THEN s[i] ELSE s[i + 1]
      BY <2>1, <2>2, WithoutOnce
    <3>3. ToSet(r) = ToSet(s) \ {e}
      BY <2>1, <2>2, WithoutOnce
    <3> QED  BY <3>1, <3>2, <3>3
  <2>4. Sorted(r, u)
    BY <1>1, <2>3, SortedWithout
  <2> QED  BY <2>3, <2>4
<1> QED  BY <1>2, <1>3

\* A page that is touched comes last, the others keep their order.
LEMMA Touched ==
    ASSUME NEW s \in Seq(CachePages), NEW u \in [CachePages -> Nat], Sorted(s, u),
           NEW e \in CachePages, NEW n \in Nat, \A p \in CachePages : u[p] <= n
    PROVE  LET t == touch(s, e)
           IN  /\ t \in Seq(CachePages) /\ Len(t) \in Nat /\ Len(t) >= 1
               /\ ToSet(t) = ToSet(s) \cup {e}
               /\ Sorted(t, [u EXCEPT ![e] = n + 1])
<1> DEFINE r == RemoveFirst(s, e)
           v == [u EXCEPT ![e] = n + 1]
<1>1. r \in Seq(CachePages) /\ ToSet(r) = ToSet(s) \ {e} /\ Sorted(r, u)
  BY Removed
<1> HIDE DEF r
<1>2. Len(r) \in Nat /\ DOMAIN r = 1..Len(r) /\ \A i \in 1..Len(r) : r[i] \in CachePages
  BY <1>1, LenProperties, ElementOfSeq
<1>3. touch(s, e) = Append(r, e)
  BY DEF touch, r
<1> DEFINE t == Append(r, e)
<1>4. /\ t \in Seq(CachePages) /\ Len(t) = Len(r) + 1 /\ t[Len(r) + 1] = e
      /\ \A i \in 1..Len(r) : t[i] = r[i]
  BY <1>1, <1>2, AppendProperties
<1>5. DOMAIN t = 1..Len(t)
  BY <1>4, LenProperties
<1> HIDE DEF t
<1>6. ToSet(t) = ToSet(r) \cup {e}
  <2>1. Len(t) = Len(r) + 1 /\ 1..Len(t) = 1..Len(r) \cup {Len(r) + 1}
    BY <1>2, <1>4
  <2>2. \A i \in DOMAIN t : t[i] \in ToSet(r) \cup {e}
    <3>1. ASSUME NEW i \in 1..Len(r) PROVE t[i] \in ToSet(r)
      <4>1. t[i] = r[i] /\ i \in DOMAIN r
        BY <1>2, <1>4, <3>1
      <4> QED  BY <4>1 DEF ToSet
    <3> QED  BY <1>4, <1>5, <2>1, <3>1
  <2>3. \A x \in ToSet(r) : \E i \in DOMAIN t : t[i] = x
    <3>1. ASSUME NEW i \in DOMAIN r PROVE i \in DOMAIN t /\ t[i] = r[i]
      BY <1>2, <1>4, <1>5, <2>1, <3>1
    <3> QED  BY <3>1 DEF ToSet
  <2>4. \E i \in DOMAIN t : t[i] = e
    BY <1>4, <1>5, <2>1
  <2>5. ToSet(t) = {t[i] : i \in DOMAIN t}
    BY DEF ToSet
  <2> QED  BY <2>2, <2>3, <2>4, <2>5
<1>7. Sorted(t, v)
  <2>1. \A i \in 1..Len(r) : r[i] # e
    BY <1>1, <1>2 DEF ToSet
  <2> QED  BY <1>1, <1>2, <1>4, <2>1, SortedWith
<1> QED  BY <1>1, <1>2, <1>3, <1>4, <1>6, <1>7 DEF t

LEMMA EmptyToSet == ToSet(<<>>) = {}
BY DEF ToSet

\* The list without its first page is the rest.
LEMMA TailWithoutFirst ==
    ASSUME NEW s \in Seq(CachePages), Len(s) >= 1,
           \A j, k \in 1..Len(s) : j # k => s[j] # s[k]
    PROVE  SubSeq(s, 2, Len(s)) = RemoveFirst(s, s[1])
<1>1. Len(s) \in Nat /\ DOMAIN s = 1..Len(s) /\ \A i \in 1..Len(s) : s[i] \in CachePages
  BY LenProperties, ElementOfSeq
<1> DEFINE q == SubSeq(s, 2, Len(s))
           r == RemoveFirst(s, s[1])
<1>2. q \in Seq(CachePages) /\ Len(q) = Len(s) - 1 /\ \A i \in 1..Len(q) : q[i] = s[i + 1]
  <2>1. \A i \in 2..Len(s) : s[i] \in CachePages
    BY <1>1
  <2>2. /\ q \in Seq(CachePages) /\ Len(q) = IF 2 <= Len(s) THEN Len(s) - 2 + 1 ELSE 0
        /\ \A i \in 1..(Len(s) - 2 + 1) : q[i] = s[2 + i - 1]
    BY <1>1, <2>1, SubSeqProperties
  <2> HIDE DEF q
  <2>3. Len(q) = Len(s) - 1
    <3>1. CASE 2 <= Len(s)
      BY <1>1, <2>2, <3>1
    <3>2. CASE Len(s) = 1
      BY <2>2, <3>2
    <3>3. 2 <= Len(s) \/ Len(s) = 1
      BY <1>1
    <3> QED  BY <3>1, <3>2, <3>3
  <2>4. ASSUME NEW i \in 1..Len(q) PROVE q[i] = s[i + 1]
    <3>1. i \in 1..(Len(s) - 2 + 1) /\ 2 + i - 1 = i + 1
      BY <1>1, <2>3
    <3> QED  BY <2>2, <3>1
  <2> QED  BY <2>2, <2>3, <2>4
<1>3. r \in Seq(CachePages) /\ Len(r) = Len(s) - 1 /\ \A i \in 1..Len(r) : r[i] = s[i + 1]
  <2>1. 1 \in 1..Len(s) /\ \A j \in 1..Len(s) : j # 1 => s[j] # s[1]
    BY <1>1
  <2>2. r \in Seq(CachePages) /\ Len(r) = Len(s) - 1
    BY <2>1, WithoutOnce
  <2>3. ASSUME NEW i \in 1..Len(r) PROVE r[i] = IF i < 1 THEN s[i] ELSE s[i + 1]
    BY <2>1, WithoutOnce
  <2> HIDE DEF r
  <2> QED  BY <1>1, <2>2, <2>3
<1> HIDE DEF q, r
<1>4. q = r
  BY <1>2, <1>3, SeqEqual
<1> QED  BY <1>4 DEF q, r

\* Nothing is evicted from a map that fits.
LEMMA EvictedNone ==
    ASSUME NEW D, NEW s \in Seq(CachePages), Cardinality(D) <= Capacity
    PROVE  /\ D \ ToSet(SubSeq(s, 1, Evicted(D, s))) = D
           /\ SubSeq(s, Evicted(D, s) + 1, Len(s)) = s
<1> DEFINE K == {k \in 0..Len(s) :
                    \/ k = Len(s)
                    \/ Cardinality(D \ ToSet(SubSeq(s, 1, k))) <= Capacity}
<1>1. SubSeq(s, 1, 0) = <<>> /\ Len(s) \in Nat
  BY SubSeqEmpty, LenProperties
<1>2. D \ ToSet(SubSeq(s, 1, 0)) = D
  BY <1>1 DEF ToSet
<1>3. 0 \in K /\ K \subseteq Nat
  <2>1. Cardinality(D \ ToSet(SubSeq(s, 1, 0))) = Cardinality(D)
    BY <1>2, Zenon
  <2>2. Cardinality(D \ ToSet(SubSeq(s, 1, 0))) <= Capacity
    BY <2>1
  <2>3. 0 \in 0..Len(s)
    BY <1>1
  <2> QED  BY <1>1, <2>2, <2>3
<1>4. Min(K) \in K /\ \A k \in K : Min(K) <= k
  <2> HIDE DEF K
  <2> QED  BY <1>3, MinIsLeast
<1>5. Min(K) = 0
  <2> HIDE DEF K
  <2>1. Min(K) \in Nat /\ Min(K) <= 0
    BY <1>3, <1>4
  <2> QED  BY <2>1
<1>6. Evicted(D, s) = 0
  BY <1>5 DEF Evicted
<1> QED  BY <1>2, <1>6, SubSeqFull

\* One page is evicted from a map that holds one too many: the first.
LEMMA EvictedOne ==
    ASSUME NEW D, NEW s \in Seq(CachePages), Len(s) >= 1, D = ToSet(s),
           \A j, k \in 1..Len(s) : j # k => s[j] # s[k],
           Cardinality(D) = Capacity + 1
    PROVE  /\ D \ ToSet(SubSeq(s, 1, Evicted(D, s))) = D \ {s[1]}
           /\ SubSeq(s, Evicted(D, s) + 1, Len(s)) = RemoveFirst(s, s[1])
           /\ s[1] \in ToSet(s)
           /\ Cardinality(D \ {s[1]}) = Capacity
<1> DEFINE K == {k \in 0..Len(s) :
                    \/ k = Len(s)
                    \/ Cardinality(D \ ToSet(SubSeq(s, 1, k))) <= Capacity}
<1>1. Len(s) \in Nat /\ DOMAIN s = 1..Len(s) /\ \A i \in 1..Len(s) : s[i] \in CachePages
  BY LenProperties, ElementOfSeq
<1>2. s[1] \in ToSet(s)
  BY <1>1 DEF ToSet
<1>3. D \ ToSet(SubSeq(s, 1, 0)) = D
  <2>1. SubSeq(s, 1, 0) = <<>>
    BY SubSeqEmpty
  <2> QED  BY <2>1, EmptyToSet
<1>4. ToSet(SubSeq(s, 1, 1)) = {s[1]}
  <2> DEFINE q == SubSeq(s, 1, 1)
  <2>1. q \in Seq(CachePages) /\ Len(q) = 1 /\ q[1] = s[1]
    <3>1. \A i \in 1..1 : s[i] \in CachePages
      BY <1>1
    <3>2. /\ q \in Seq(CachePages) /\ Len(q) = IF 1 <= 1 THEN 1 - 1 + 1 ELSE 0
          /\ \A i \in 1..(1 - 1 + 1) : q[i] = s[1 + i - 1]
      BY <3>1, SubSeqProperties
    <3> QED  BY <3>2
  <2>2. DOMAIN q = 1..Len(q)
    BY <2>1, LenProperties
  <2> HIDE DEF q
  <2>3. ToSet(q) = {s[1]}
    BY <2>1, <2>2 DEF ToSet
  <2> QED  BY <2>3 DEF q
<1>5. Cardinality(D \ {s[1]}) = Capacity
  <2>1. IsFiniteSet(D)
    <3>1. D \subseteq CachePages
      BY <1>1 DEF ToSet
    <3> QED  BY <3>1, CachePagesAssumption, FS_Subset
  <2>2. Cardinality(D \ {s[1]}) = Cardinality(D) - 1
    BY <1>2, <2>1, FS_RemoveElement
  <2> QED  BY <2>2, CapacityAssumption
<1>6. 1 \in K /\ 0 \notin K /\ K \subseteq Nat
  <2>1. 1 \in 0..Len(s) /\ 0 # Len(s)
    BY <1>1
  <2>2. Cardinality(D \ ToSet(SubSeq(s, 1, 1))) <= Capacity
    <3>1. Cardinality(D \ ToSet(SubSeq(s, 1, 1))) = Capacity
      BY <1>4, <1>5, Zenon
    <3> QED  BY <3>1, CapacityAssumption
  <2>3. ~(Cardinality(D \ ToSet(SubSeq(s, 1, 0))) <= Capacity)
    <3>1. Cardinality(D \ ToSet(SubSeq(s, 1, 0))) = Capacity + 1
      BY <1>3, Zenon
    <3> QED  BY <3>1, CapacityAssumption
  <2>4. 1 \in K
    BY <2>1, <2>2
  <2>5. 0 \notin K
    BY <2>1, <2>3
  <2> QED  BY <1>1, <2>4, <2>5
<1>7. Min(K) = 1
  <2> HIDE DEF K
  <2>1. Min(K) \in K /\ \A k \in K : Min(K) <= k
    BY <1>6, MinIsLeast
  <2>2. Min(K) \in Nat /\ Min(K) # 0 /\ Min(K) <= 1
    BY <1>6, <2>1
  <2> QED  BY <2>2
<1>8. Evicted(D, s) = 1
  BY <1>7 DEF Evicted
<1>9. SubSeq(s, 2, Len(s)) = RemoveFirst(s, s[1])
  BY TailWithoutFirst
<1> QED  BY <1>2, <1>4, <1>5, <1>8, <1>9

-----------------------------------------------------------------------------
(* The operations.                                                         *)

\* What the invariant says of the list and the times.
LEMMA Facts ==
    ASSUME LruConsistent
    PROVE  /\ used \in [CachePages -> Nat] /\ now \in Nat
           /\ \A p \in CachePages : used[p] \in Nat /\ used[p] <= now
           /\ lru \in Seq(CachePages) /\ Sorted(lru, used)
           /\ IsFiniteSet(DOMAIN map) /\ Cardinality(DOMAIN map) \in Nat
<1>1. IsFiniteSet(DOMAIN map) /\ Cardinality(DOMAIN map) \in Nat
  BY CachePagesAssumption, FS_Subset, FS_CardinalityType DEF LruConsistent
<1>2. /\ lru \in Seq(CachePages) /\ Sorted(lru, used)
  BY DEF LruConsistent, Sorted
<1>3. used \in [CachePages -> Nat] /\ now \in Nat /\ \A p \in CachePages : used[p] <= now
  BY DEF LruConsistent
<1> QED  BY <1>1, <1>2, <1>3

\* A page that is used is the one used last.
LEMMA UsedNow ==
    ASSUME LruConsistent, NEW id \in CachePages, Used(id)
    PROVE  /\ now' = now + 1 /\ now' \in Nat
           /\ used' = [used EXCEPT ![id] = now + 1]
           /\ used' \in [CachePages -> 0..now'] /\ used' \in [CachePages -> Nat]
           /\ used'[id] = now + 1 /\ \A p \in CachePages \ {id} : used'[p] = used[p]
<1>1. used \in [CachePages -> 0..now] /\ now \in Nat
  BY DEF LruConsistent
<1>2. used' = [used EXCEPT ![id] = now + 1] /\ now' = now + 1
  BY DEF Used
<1>3. used'[id] = now + 1 /\ \A p \in CachePages \ {id} : used'[p] = used[p]
  BY <1>1, <1>2
<1>4. \A p \in CachePages : used'[p] \in 0..now'
  BY <1>1, <1>2, <1>3
<1> QED  BY <1>1, <1>2, <1>3, <1>4

LEMMA InitConsistent == CacheInit => LruConsistent
<1> SUFFICES ASSUME CacheInit PROVE LruConsistent
  OBVIOUS
<1>1. DOMAIN map = {} /\ map \in [DOMAIN map -> Contents] /\ lru = <<>> /\ now = 0
      /\ used = [p \in CachePages |-> 0]
  BY DEF CacheInit
<1>2. lru \in Seq(CachePages) /\ Len(lru) = 0 /\ ToSet(lru) = {}
  BY <1>1, EmptySeq, EmptyToSet
<1>3. Cardinality(DOMAIN map) <= Capacity
  BY <1>1, FS_EmptySet, CapacityAssumption
<1>4. \A j, k \in 1..Len(lru) : j < k => used[lru[j]] < used[lru[k]]
  BY <1>2
<1> QED  BY <1>1, <1>2, <1>3, <1>4 DEF LruConsistent

LEMMA GetConsistent ==
    ASSUME LruConsistent, NEW id \in CachePages, Get(id)
    PROVE  LruConsistent' /\ (Lru!Hit(id) \/ UNCHANGED cacheVars)
<1>1. CASE id \in DOMAIN map /\ lru' = touch(lru, id) /\ Used(id) /\ UNCHANGED map
  <2>1. /\ lru' \in Seq(CachePages) /\ ToSet(lru') = ToSet(lru) \cup {id}
        /\ Sorted(lru', [used EXCEPT ![id] = now + 1])
    BY <1>1, Facts, Touched
  <2>2. ToSet(lru') = DOMAIN map
    BY <1>1, <2>1 DEF LruConsistent
  <2>3. Sorted(lru', used')
    BY <1>1, <2>1, UsedNow
  <2>4. LruConsistent'
    BY <1>1, <2>1, <2>2, <2>3, UsedNow DEF LruConsistent, Sorted
  <2>5. Lru!Hit(id)
    BY <1>1, UsedNow DEF Lru!Hit, Lru!Use
  <2> QED  BY <2>4, <2>5
<1>2. CASE id \notin DOMAIN map /\ UNCHANGED cacheVars
  BY <1>2 DEF LruConsistent, cacheVars
<1> QED  BY <1>1, <1>2 DEF Get

\* Forgetting a set of pages.
LEMMA ForgetConsistent ==
    ASSUME LruConsistent, NEW S, map' = Restrict(map, DOMAIN map \ S),
           lru' \in Seq(CachePages), ToSet(lru') = ToSet(lru) \ S, Sorted(lru', used),
           UNCHANGED <<used, now>>
    PROVE  LruConsistent' /\ Lru!Forget(S)
<1>1. DOMAIN map' = DOMAIN map \ S /\ map' \in [DOMAIN map' -> Contents]
  BY DEF LruConsistent, Restrict
<1>2. Cardinality(DOMAIN map') <= Capacity
  <2>1. Cardinality(DOMAIN map \ S) <= Cardinality(DOMAIN map) /\ Cardinality(DOMAIN map \ S) \in Nat
    BY Facts, FS_Subset, FS_CardinalityType
  <2>2. Cardinality(DOMAIN map) \in Nat /\ Cardinality(DOMAIN map) <= Capacity /\ Capacity \in Nat
    BY Facts, CapacityAssumption DEF LruConsistent
  <2> QED  BY <1>1, <2>1, <2>2
<1>3. LruConsistent'
  BY <1>1, <1>2 DEF LruConsistent, Sorted
<1>4. Lru!Forget(S)
  BY DEF Lru!Forget, Restrict, Lru!Restrict
<1> QED  BY <1>3, <1>4

LEMMA InvalidateConsistent ==
    ASSUME LruConsistent, NEW id \in CachePages, Invalidate(id)
    PROVE  LruConsistent' /\ Lru!Forget({id})
<1>1. /\ RemoveFirst(lru, id) \in Seq(CachePages)
      /\ ToSet(RemoveFirst(lru, id)) = ToSet(lru) \ {id}
      /\ Sorted(RemoveFirst(lru, id), used)
  BY Facts, Removed
<1>2. /\ map' = Restrict(map, DOMAIN map \ {id}) /\ lru' = RemoveFirst(lru, id)
      /\ UNCHANGED <<used, now>>
  BY DEF Invalidate
<1> QED  BY <1>1, <1>2, ForgetConsistent

LEMMA ClearConsistent ==
    ASSUME LruConsistent, Clear
    PROVE  LruConsistent' /\ Lru!Forget(CachePages)
<1>1. /\ map' = [p \in {} |-> p] /\ lru' = <<>> /\ UNCHANGED <<used, now>>
  BY DEF Clear
<1>2. DOMAIN map \ CachePages = {}
  BY DEF LruConsistent
<1>3. map' = Restrict(map, DOMAIN map \ CachePages)
  BY <1>1, <1>2 DEF Restrict
<1>4. lru' \in Seq(CachePages) /\ Len(lru') = 0 /\ ToSet(lru') = {}
  BY <1>1, EmptySeq, EmptyToSet
<1>5. ToSet(lru') = ToSet(lru) \ CachePages
  BY <1>2, <1>4 DEF LruConsistent
<1>6. Sorted(lru', used)
  BY <1>4 DEF Sorted
<1> QED  BY <1>1, <1>3, <1>4, <1>5, <1>6, ForgetConsistent

\* Both modules count alike.
LEMMA SameCardinality == \A S : Lru!Cardinality(S) = Cardinality(S)
BY DEF Cardinality, Lru!Cardinality

\* An insertion evicts nothing, or the one page whose use is the longest ago.
LEMMA InsertConsistent ==
    ASSUME LruConsistent, NEW id \in CachePages, NEW content \in Contents, Insert(id, content)
    PROVE  LruConsistent' /\ (Lru!Put(id, content) \/ Lru!Replace(id, content))
<1> DEFINE m == [p \in DOMAIN map \cup {id} |-> IF p = id THEN content ELSE map[p]]
           s == touch(lru, id)
           D == DOMAIN map \cup {id}
<1>1. /\ DOMAIN map \subseteq CachePages /\ map \in [DOMAIN map -> Contents]
      /\ ToSet(lru) = DOMAIN map /\ Cardinality(DOMAIN map) <= Capacity
  BY DEF LruConsistent
<1>2. /\ s \in Seq(CachePages) /\ Len(s) \in Nat /\ Len(s) >= 1
      /\ ToSet(s) = D /\ Sorted(s, used')
  <2>1. Sorted(s, [used EXCEPT ![id] = now + 1])
    BY Facts, Touched
  <2>2. ToSet(s) = ToSet(lru) \cup {id}
    BY Facts, Touched
  <2> QED  BY <1>1, <2>1, <2>2, Facts, Touched, UsedNow DEF Insert
<1>3. DOMAIN m = D /\ m \in [D -> Contents]
  BY <1>1
<1>4. /\ map' = Restrict(m, D \ ToSet(SubSeq(s, 1, Evicted(D, s))))
      /\ lru' = SubSeq(s, Evicted(D, s) + 1, Len(s))
      /\ Used(id)
  BY <1>3 DEF Insert
<1>5. IsFiniteSet(D) /\ Cardinality(D) \in Nat
      /\ Cardinality(D) = IF id \in DOMAIN map THEN Cardinality(DOMAIN map)
                          ELSE Cardinality(DOMAIN map) + 1
  BY Facts, FS_AddElement, FS_CardinalityType
<1>6. m = Lru!HeldWith(id, content)
  BY DEF Lru!HeldWith
<1>7. Lru!Use(id) /\ used' \in [CachePages -> 0..now'] /\ now' \in Nat
  BY <1>4, UsedNow DEF Lru!Use
<1> HIDE DEF m, s, D
<1>8. CASE Cardinality(D) <= Capacity
  <2>1. map' = Restrict(m, D) /\ lru' = s
    <3>1. /\ D \ ToSet(SubSeq(s, 1, Evicted(D, s))) = D
          /\ SubSeq(s, Evicted(D, s) + 1, Len(s)) = s
      BY <1>2, <1>8, EvictedNone
    <3> QED  BY <1>4, <3>1, Zenon
  <2>2. map' = m
    BY <1>3, <2>1 DEF Restrict
  <2>3. LruConsistent'
    BY <1>1, <1>2, <1>3, <1>7, <1>8, <2>1, <2>2 DEF LruConsistent, Sorted, D
  <2>4. id \in DOMAIN map \/ Cardinality(DOMAIN map) < Capacity
    BY <1>5, <1>8, Facts, CapacityAssumption
  <2>5. Lru!Put(id, content)
    BY <1>6, <1>7, <2>2, <2>4, SameCardinality DEF Lru!Put
  <2> QED  BY <2>3, <2>5
<1>9. CASE ~(Cardinality(D) <= Capacity)
  <2>1. id \notin DOMAIN map /\ Cardinality(DOMAIN map) = Capacity /\ Cardinality(D) = Capacity + 1
    BY <1>1, <1>5, <1>9, Facts, CapacityAssumption
  <2>2. \A j, k \in 1..Len(s) : j # k => s[j] # s[k]
    <3>1. ASSUME NEW j \in 1..Len(s), NEW k \in 1..Len(s), j # k, s[j] = s[k] PROVE FALSE
      <4>1. j < k \/ k < j
        BY <1>2, <3>1
      <4>2. used'[s[j]] < used'[s[k]] \/ used'[s[k]] < used'[s[j]]
        BY <1>2, <4>1 DEF Sorted
      <4>3. used'[s[j]] \in Nat
        <5>1. s[j] \in CachePages
          BY <1>2, ElementOfSeq
        <5> QED  BY <1>7, <5>1
      <4> QED  BY <3>1, <4>2, <4>3
    <3> QED  BY <3>1
  <2> DEFINE v == s[1]
  <2>3. /\ D \ ToSet(SubSeq(s, 1, Evicted(D, s))) = D \ {v}
        /\ SubSeq(s, Evicted(D, s) + 1, Len(s)) = RemoveFirst(s, v)
        /\ v \in ToSet(s)
        /\ Cardinality(D \ {v}) = Capacity
    BY <1>2, <2>1, <2>2, EvictedOne
  <2>4. map' = Restrict(m, D \ {v}) /\ lru' = RemoveFirst(s, v)
    BY <1>4, <2>3, Zenon
  <2>5. \A p \in D \ {v} : used'[v] < used'[p]
    <3>1. ASSUME NEW p \in D \ {v} PROVE used'[v] < used'[p]
      <4>1. PICK k \in 1..Len(s) : s[k] = p
        <5>1. DOMAIN s = 1..Len(s)
          BY <1>2, LenProperties
        <5>2. p \in ToSet(s)
          BY <1>2, <3>1
        <5> QED  BY <5>1, <5>2 DEF ToSet
      <4>2. 1 \in 1..Len(s) /\ 1 < k
        BY <1>2, <3>1, <4>1
      <4> QED  BY <1>2, <4>1, <4>2 DEF Sorted
    <3> QED  BY <3>1
  <2> HIDE DEF v
  <2>6. v # id
    <3>1. PICK p \in DOMAIN map : TRUE
      <4>1. DOMAIN map # {}
        BY <2>1, CapacityAssumption, FS_EmptySet
      <4> QED  BY <4>1
    <3>2. p # id /\ p \in D /\ p \in CachePages
      BY <1>1, <2>1, <3>1 DEF D
    <3>3. used'[p] = used[p] /\ used[p] <= now /\ used[p] \in Nat /\ used'[id] = now + 1 /\ now \in Nat
      BY <1>4, <3>2, Facts, UsedNow
    <3>4. ~(used'[id] < used'[p])
      BY <3>3
    <3> QED  BY <2>5, <3>2, <3>4
  <2>7. v \in DOMAIN map
    BY <1>2, <2>3, <2>6 DEF D
  <2>8. /\ lru' \in Seq(CachePages) /\ ToSet(lru') = D \ {v} /\ Sorted(lru', used')
    <3>1. used' \in [CachePages -> Nat]
      BY <1>4, UsedNow
    <3>2. /\ RemoveFirst(s, v) \in Seq(CachePages) /\ ToSet(RemoveFirst(s, v)) = ToSet(s) \ {v}
          /\ Sorted(RemoveFirst(s, v), used')
      BY <1>2, <3>1, Removed
    <3> QED  BY <1>2, <2>4, <3>2
  <2>9. DOMAIN map' = D \ {v} /\ map' \in [DOMAIN map' -> Contents]
    BY <1>3, <2>4 DEF Restrict
  <2>10. DOMAIN map' \subseteq CachePages /\ Cardinality(DOMAIN map') <= Capacity
    <3>1. Cardinality(DOMAIN map') = Capacity
      BY <2>3, <2>9, Zenon
    <3>2. DOMAIN map' \subseteq CachePages
      BY <1>1, <2>9 DEF D
    <3> QED  BY <3>1, <3>2, CapacityAssumption
  <2>11. LruConsistent'
    BY <1>7, <2>8, <2>9, <2>10 DEF LruConsistent, Sorted
  <2>12. \A p \in DOMAIN map \ {v} : used[v] < used[p]
    <3>1. ASSUME NEW p \in DOMAIN map \ {v} PROVE used[v] < used[p]
      <4>1. used'[v] < used'[p]
        BY <2>5, <3>1 DEF D
      <4>2. used'[v] = used[v] /\ used'[p] = used[p]
        BY <1>1, <1>4, <2>1, <2>6, <2>7, <3>1, UsedNow
      <4> QED  BY <4>1, <4>2
    <3> QED  BY <3>1
  <2>13. map' = Lru!Restrict(Lru!HeldWith(id, content), (DOMAIN map \ {v}) \cup {id})
    <3>1. D \ {v} = (DOMAIN map \ {v}) \cup {id}
      BY <2>6 DEF D
    <3>2. map' = [p \in D \ {v} |-> m[p]]
      BY <2>4 DEF Restrict
    <3> QED  BY <1>6, <3>1, <3>2 DEF Lru!Restrict
  <2>14. Lru!Replace(id, content)
    BY <1>7, <2>1, <2>7, <2>12, <2>13, SameCardinality DEF Lru!Replace
  <2> QED  BY <2>11, <2>14
<1> QED  BY <1>8, <1>9

LEMMA StepConsistent ==
    ASSUME LruConsistent, [CacheNext]_cacheVars
    PROVE  LruConsistent' /\ [Lru!Next]_(Lru!vars)
<1>1. ASSUME NEW id \in CachePages, Get(id) PROVE LruConsistent' /\ [Lru!Next]_(Lru!vars)
  BY <1>1, GetConsistent DEF Lru!Next, Lru!vars, cacheVars
<1>2. ASSUME NEW id \in CachePages, Invalidate(id) PROVE LruConsistent' /\ [Lru!Next]_(Lru!vars)
  BY <1>2, InvalidateConsistent DEF Lru!Next
<1>3. ASSUME NEW id \in CachePages, NEW content \in Contents, Insert(id, content)
      PROVE  LruConsistent' /\ [Lru!Next]_(Lru!vars)
  BY <1>3, InsertConsistent DEF Lru!Next
<1>4. CASE Clear
  BY <1>4, ClearConsistent DEF Lru!Next
<1>5. CASE UNCHANGED cacheVars
  BY <1>5 DEF LruConsistent, Lru!vars, cacheVars
<1> QED  BY <1>1, <1>2, <1>3, <1>4, <1>5 DEF CacheNext

\* The list and the map agree, in order of use and within the capacity, for any
\* capacity and pages (Inner).
THEOREM ListFollowsMap == CacheSpec => []LruConsistent
<1>1. CacheInit => LruConsistent
  BY InitConsistent
<1>2. LruConsistent /\ [CacheNext]_cacheVars => LruConsistent'
  BY StepConsistent
<1> QED  BY <1>1, <1>2, PTL DEF CacheSpec

\* The cache keeps what was used last: it implements LruCache (PageCache).
THEOREM CacheImplementsLru == CacheSpec => ImplementsLru
<1>1. CacheInit => Lru!Init
  BY DEF CacheInit, Lru!Init
<1>2. LruConsistent /\ [CacheNext]_cacheVars => [Lru!Next]_(Lru!vars)
  BY StepConsistent
<1> QED  BY <1>1, <1>2, ListFollowsMap, PTL DEF CacheSpec, ImplementsLru, Lru!Spec
===============================================================================
