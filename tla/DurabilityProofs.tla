--------------------------- MODULE DurabilityProofs ---------------------------
(***************************************************************************)
(* Proofs about Durability for every number of pages, transactions, frames *)
(* and crashes: first what replay makes of a log, then that each step      *)
(* keeps each part of Inductive; the theorems follow, and the refinement.  *)
(***************************************************************************)
EXTENDS DurabilityInvariant, DurabilityRefinement, Extrema, FiniteSetTheorems

USE DEF Slots, Bodies

\* Page 1 exists, and no transaction writes a torn page.
LEMMA Constants ==
    /\ NumPages \in Nat /\ MaxTx \in Nat /\ MaxSlots \in Nat
    /\ 1 \in Pages /\ Pages \subseteq Nat /\ IsFiniteSet(Pages)
    /\ Torn \notin Bodies /\ Torn # 0 /\ Bad \notin Frames /\ NoEntry \notin Entries
<1>1. 1 \in Pages /\ Pages \subseteq Nat /\ NumPages \in Nat /\ 0 \notin Pages
  BY PagesAssumption DEF Pages
<1>2. IsFiniteSet(Pages)
  BY PagesAssumption, FS_Interval DEF Pages
<1>3. MaxTx \in Nat /\ MaxSlots \in Nat
  BY BoundsAssumption
<1>4. Torn \notin Bodies /\ Torn # 0
  BY <1>3 DEF Torn
<1>5. \A f \in Frames : f.page \in Pages
  BY DEF Frames
<1>6. Bad \notin Frames
  <2>1. Bad.page = 0
    BY DEF Bad
  <2> QED  BY <1>1, <1>5, <2>1
<1>7. NoEntry \notin Entries
  <2>1. NoEntry.ver = 0 /\ \A e \in Entries : e.ver \in 1..MaxTx
    BY DEF NoEntry, Entries
  <2> QED  BY <1>3, <2>1
<1> QED  BY <1>1, <1>2, <1>3, <1>4, <1>6, <1>7

\* The numbers in a frame and in an index entry.
LEMMA FrameTypes ==
    /\ \A f \in Frames : /\ f.ver \in Nat /\ f.ver \in 1..MaxTx /\ f.page \in Pages
                        /\ f.page \in Nat /\ f.size \in Nat /\ f.size \in 0..NumPages
                        /\ f.img \in Images /\ f # Bad
    /\ \A e \in Entries : e.ver \in Nat /\ e.img \in Images
<1>1. \A f \in Frames : f.ver \in 1..MaxTx /\ f.page \in Pages /\ f.size \in 0..NumPages
                        /\ f.img \in Images
  BY DEF Frames
<1>2. \A e \in Entries : e.ver \in 1..MaxTx /\ e.img \in Images
  BY DEF Entries
<1>3. 1..MaxTx \subseteq Nat /\ 0..NumPages \subseteq Nat /\ Pages \subseteq Nat
  BY Constants
<1>4. \A f \in Frames : f # Bad
  BY Constants
<1> QED  BY <1>1, <1>2, <1>3, <1>4, Zenon

-----------------------------------------------------------------------------
(* Replay.                                                                 *)

\* Replay ends at the last commit frame that no undecodable slot precedes.
LEMMA LastCommittedIs ==
    ASSUME NEW w
    PROVE  /\ LastCommitted(w) \in 0..MaxSlots
           /\ LastCommitted(w) > 0 =>
                 /\ \A j \in 1..LastCommitted(w) : w[j] # Bad
                 /\ w[LastCommitted(w)].size # 0
           /\ \A i \in Slots : (\A j \in 1..i : w[j] # Bad) /\ w[i].size # 0
                 => i <= LastCommitted(w)
<1> DEFINE S == {0} \cup {i \in Slots : /\ \A j \in 1..i : w[j] # Bad
                                        /\ w[i].size # 0}
<1>1. S \subseteq Nat /\ S # {} /\ \A k \in S : k <= MaxSlots
  BY Constants
<1>2. Max(S) \in S /\ \A k \in S : Max(S) >= k
  <2> HIDE DEF S
  <2> QED  BY <1>1, Constants, MaxIsGreatest
<1>3. LastCommitted(w) = Max(S)
  BY DEF LastCommitted
<1>4. ASSUME NEW n \in S, \A k \in S : n >= k
      PROVE  /\ n \in 0..MaxSlots
             /\ n > 0 => (\A j \in 1..n : w[j] # Bad) /\ w[n].size # 0
             /\ \A i \in Slots : (\A j \in 1..i : w[j] # Bad) /\ w[i].size # 0 => i <= n
  BY <1>4, Constants
<1> HIDE DEF S
<1> QED  BY <1>2, <1>3, <1>4

\* The slots of a page that is logged have a last one.
LEMMA LastSlot ==
    ASSUME NEW w, NEW n \in Nat, NEW p, SlotsOf(w, n, p) # {}
    PROVE  /\ Max(SlotsOf(w, n, p)) \in 1..n
           /\ w[Max(SlotsOf(w, n, p))].page = p
           /\ \A k \in SlotsOf(w, n, p) : k <= Max(SlotsOf(w, n, p))
<1> DEFINE S == SlotsOf(w, n, p)
<1>1. S \subseteq Nat /\ \A k \in S : k <= n
  BY DEF SlotsOf
<1>2. Max(S) \in S /\ \A k \in S : Max(S) >= k
  <2> HIDE DEF S
  <2>1. S # {}
    BY DEF S
  <2> QED  BY <1>1, <2>1, MaxIsGreatest
<1>3. \A k \in S : k \in 1..n /\ w[k].page = p
  BY DEF SlotsOf
<1> HIDE DEF S
<1>4. /\ Max(S) \in 1..n /\ w[Max(S)].page = p
      /\ \A k \in S : k <= Max(S)
  BY <1>2, <1>3
<1> QED  BY <1>4 DEF S

\* Logs that agree on their first n slots have the same slots there.
LEMMA SameSlots ==
    ASSUME NEW v, NEW w, NEW n, NEW p, \A i \in 1..n : v[i] = w[i]
    PROVE  SlotsOf(v, n, p) = SlotsOf(w, n, p)
BY DEF SlotsOf

\* A log that holds a page among its first n slots holds it among more.
LEMMA MoreSlots ==
    ASSUME NEW w, NEW n \in Nat, NEW m \in Nat, n <= m, NEW p
    PROVE  SlotsOf(w, n, p) \subseteq SlotsOf(w, m, p)
BY DEF SlotsOf

\* A frame that replay reads belongs to a transaction that ends with a commit
\* frame.
LEMMA CommitFound ==
    ASSUME NEW w, NEW i \in 1..LastCommitted(w)
    PROVE  LET k == CommitOf(w, LastCommitted(w), i)
           IN  k \in i..LastCommitted(w) /\ w[k] # Bad /\ w[k].size # 0
<1> DEFINE n == LastCommitted(w)
           S == {j \in i..n : w[j] # Bad /\ w[j].size # 0}
<1>1. n \in Nat /\ n > 0 /\ w[n] # Bad /\ w[n].size # 0 /\ i \in Nat /\ 1 <= i /\ i <= n
  BY LastCommittedIs, Constants
<1>2. S \subseteq Nat /\ S # {}
  <2> HIDE DEF n
  <2>1. n \in S
    BY <1>1
  <2> QED  BY <1>1, <2>1
<1>3. Min(S) \in S
  <2> HIDE DEF S
  <2> QED  BY <1>2, MinIsLeast
<1>4. Min(S) = CommitOf(w, n, i)
  BY DEF CommitOf
<1>5. \A k \in S : k \in i..n /\ w[k] # Bad /\ w[k].size # 0
  OBVIOUS
<1> HIDE DEF n, S
<1>6. LET k == CommitOf(w, n, i) IN k \in i..n /\ w[k] # Bad /\ w[k].size # 0
  BY <1>3, <1>4, <1>5
<1> QED  BY <1>6 DEF n

-----------------------------------------------------------------------------
(* What a crash of the open engine leaves.                                 *)

\* Where the tail of the log is, in numbers.
LEMMA TailIs ==
    ASSUME TypeOK, Appending
    PROVE  /\ LogEnd \in Nat /\ writeOffset < LogEnd
           /\ mode = "append" =>
                 /\ CommitSlot \in Nat /\ writeOffset < CommitSlot
                 /\ CommitSlot <= MaxSlots
                 /\ LogEnd <= CommitSlot + 1
                 /\ LogEnd = CommitSlot + 1 <=> toWrite = {}
                 /\ NextSlot = LogEnd
                 /\ toWrite # {} => NextSlot \in Slots
<1>1. writeOffset \in 0..MaxSlots /\ tx.pages \in SUBSET Pages /\ toWrite \in SUBSET Pages
  BY DEF TypeOK, Transactions
<1>2. IsFiniteSet(tx.pages) /\ IsFiniteSet(toWrite)
  BY <1>1, Constants, FS_Subset
<1>3. CASE mode # "append"
  <2>1. LogEnd = writeOffset + 1
    BY <1>3 DEF LogEnd
  <2>2. writeOffset \in Nat
    BY <1>1, Constants
  <2>3. LogEnd \in Nat /\ writeOffset < LogEnd
    BY <2>1, <2>2
  <2> QED  BY <1>3, <2>3, Zenon
<1>4. CASE mode = "append"
  <2>1. /\ tx.pages # {} /\ toWrite \subseteq tx.pages
        /\ writeOffset + Cardinality(tx.pages) <= MaxSlots
    BY <1>4 DEF Appending
  <2>2. /\ Cardinality(tx.pages) \in Nat /\ Cardinality(toWrite) \in Nat
        /\ Cardinality(toWrite) <= Cardinality(tx.pages)
        /\ Cardinality(tx.pages) # 0
        /\ Cardinality(toWrite) = 0 <=> toWrite = {}
    BY <1>2, <2>1, FS_CardinalityType, FS_Subset, FS_EmptySet
  <2>3. LogEnd = writeOffset + Cardinality(tx.pages) - Cardinality(toWrite) + 1
    BY <1>4 DEF LogEnd, NextSlot
  <2>4. NextSlot = LogEnd
    BY <1>4 DEF LogEnd
  <2>5. CommitSlot = writeOffset + Cardinality(tx.pages)
    BY DEF CommitSlot
  <2>6. writeOffset \in Nat /\ MaxSlots \in Nat
    BY <1>1, Constants
  <2>7. /\ LogEnd \in Nat /\ writeOffset < LogEnd
        /\ CommitSlot \in Nat /\ writeOffset < CommitSlot
        /\ CommitSlot <= MaxSlots /\ LogEnd <= CommitSlot + 1
    BY <2>1, <2>2, <2>3, <2>5, <2>6
  <2>8. LogEnd = CommitSlot + 1 <=> toWrite = {}
    BY <2>2, <2>3, <2>5, <2>6
  <2>9. toWrite # {} => LogEnd \in Slots
    <3>1. toWrite # {} => LogEnd <= CommitSlot
      BY <2>7, <2>8
    <3> QED  BY <2>6, <2>7, <3>1
  <2> QED  BY <2>4, <2>7, <2>8, <2>9
<1> QED  BY <1>3, <1>4

\* A log that the engine in operation leaves holds what the engine has indexed.
LEMMA LiveSlots ==
    ASSUME Inductive, mode \in Live, NEW w \in LogsOf(walDisk)
    PROVE  /\ writeOffset \in Nat /\ writeOffset <= LastCommitted(w)
           /\ \A i \in 1..writeOffset : w[i] = wal[i] /\ w[i] # Bad
           /\ \A i \in Slots : w[i] \in walDisk[i]
           /\ \A p \in Pages : SlotsOf(w, writeOffset, p) = SlotsOf(wal, writeOffset, p)
           /\ \A p \in Indexed : Logged(w, p)
<1>1. writeOffset \in 0..MaxSlots
  BY DEF Inductive, TypeOK
<1>2. \A i \in Slots : w[i] \in walDisk[i]
  BY DEF LogsOf
<1>3. \A i \in 1..writeOffset : w[i] = wal[i] /\ w[i] # Bad
  BY <1>1, <1>2, Constants DEF Inductive, IndexMatches
<1>4. LastCommitted(w) \in Nat /\ writeOffset <= LastCommitted(w)
  <2>1. LastCommitted(w) \in Nat
    BY LastCommittedIs, Constants
  <2>2. ASSUME writeOffset > 0 PROVE writeOffset <= LastCommitted(w)
    <3>1. writeOffset \in Slots /\ w[writeOffset].size # 0
      BY <1>1, <1>3, <2>2, Constants DEF Inductive, IndexMatches
    <3> QED  BY <1>3, <3>1, LastCommittedIs
  <2> QED  BY <1>1, <2>1, <2>2, Constants
<1>5. \A p \in Pages : SlotsOf(w, writeOffset, p) = SlotsOf(wal, writeOffset, p)
  BY <1>3, SameSlots
<1>6. ASSUME NEW p \in Indexed PROVE Logged(w, p)
  <2>1. SlotsOf(wal, writeOffset, p) # {}
    BY DEF Inductive, IndexMatches, Indexed
  <2> QED  BY <1>1, <1>4, <1>5, <2>1, MoreSlots, Constants DEF Logged, Indexed
<1> QED  BY <1>1, <1>2, <1>3, <1>4, <1>5, <1>6, Constants

\* Of an unspoilt log replay reads what is indexed, or the whole transaction
\* in append_commit besides.
LEMMA LiveEnd ==
    ASSUME Inductive, mode \in Live, ~spoilt, NEW w \in LogsOf(walDisk),
           LastCommitted(w) # writeOffset
    PROVE  /\ mode = "append" /\ toWrite = {} /\ LastCommitted(w) = CommitSlot
           /\ \A i \in (writeOffset + 1)..CommitSlot :
                 i \in Slots /\ i < LogEnd /\ w[i] = wal[i]
<1> DEFINE m == LastCommitted(w)
<1>1. /\ writeOffset \in Nat /\ writeOffset < m /\ m \in Slots
      /\ w[m].size # 0 /\ \A i \in 1..m : w[i] # Bad
  BY LiveSlots, LastCommittedIs, Constants
<1>2. Unspoilt /\ Appending /\ TypeOK /\ FramesWritten
  BY DEF Inductive
<1>3. LogEnd \in Nat
  BY <1>2, TailIs
<1>4. \A i \in Slots : i <= m /\ writeOffset < i => i < LogEnd /\ w[i] = wal[i]
  <2> SUFFICES ASSUME NEW i \in Slots, i <= m, writeOffset < i
               PROVE  i < LogEnd /\ w[i] = wal[i]
    OBVIOUS
  <2>1. w[i] # Bad /\ w[i] \in walDisk[i]
    BY <1>1, LiveSlots, Constants
  <2>2. i < LogEnd
    BY <1>2, <1>3, <2>1, Constants DEF Unspoilt
  <2>3. walDisk[i] \subseteq {Bad, wal[i]}
    BY <1>2, <2>2 DEF Unspoilt
  <2> QED  BY <2>1, <2>2, <2>3
<1>5. m < LogEnd /\ w[m] = wal[m] /\ m \in Nat
  BY <1>1, <1>4, Constants
<1>6. mode = "append"
  BY <1>1, <1>5 DEF LogEnd
<1>7. wal[m] = [page |-> wal[m].page, ver |-> version + 1,
                size |-> IF m = CommitSlot THEN tx.size ELSE 0,
                img |-> ImageOf(wal[m].page)]
  BY <1>1, <1>2, <1>5, <1>6 DEF FramesWritten
<1>8. m = CommitSlot
  BY <1>1, <1>5, <1>7
<1>9. toWrite = {}
  BY <1>2, <1>3, <1>5, <1>6, <1>8, TailIs
<1> HIDE DEF m
<1>10. \A i \in (writeOffset + 1)..CommitSlot : i \in Slots /\ i <= m /\ writeOffset < i
  BY <1>1, <1>8, Constants
<1> QED  BY <1>4, <1>6, <1>8, <1>9, <1>10 DEF m

\* Whatever a power loss leaves of the log of the engine in operation
\* recovers, and holds the pages a checkpoint may be folding.
LEMMA LiveRecovers ==
    ASSUME Inductive, mode \in Live, NEW w \in LogsOf(walDisk)
    PROVE  Recovers(w) /\ \A p \in Indexed : Logged(w, p)
<1> DEFINE n == writeOffset
           m == LastCommitted(w)
<1>1. /\ n \in Nat /\ n <= m /\ m \in Nat /\ m <= MaxSlots
      /\ \A i \in 1..n : w[i] = wal[i] /\ w[i] # Bad
      /\ \A p \in Pages : SlotsOf(w, n, p) = SlotsOf(wal, n, p)
      /\ \A p \in Indexed : Logged(w, p)
  BY LiveSlots, LastCommittedIs, Constants
<1>2. \A p \in Pages : Logged(w, p) \/ Sound(p)
  BY <1>1 DEF Inductive, FileMatches, Indexed
<1>3. \A p \in Pages :
         View(p).body = IF SlotsOf(w, n, p) = {} THEN file[p].body
                        ELSE wal[Max(SlotsOf(w, n, p))].img.body
  BY <1>1 DEF Inductive, IndexMatches, View
<1>4. ASSUME ~spoilt, m = n
      PROVE  /\ \E c \in Outcomes : \A p \in Pages : Found(w, p) = c[p]
             /\ Ordered(w, m)
             /\ m = 0 => Settled
  <2>1. ASSUME NEW p \in Pages PROVE Found(w, p) = committed[p]
    <3>1. View(p).body = committed[p]
      BY <1>4 DEF Inductive, Unspoilt
    <3>2. CASE SlotsOf(w, n, p) = {}
      BY <1>3, <1>4, <3>1, <3>2 DEF Found, Logged
    <3>3. CASE SlotsOf(w, n, p) # {}
      <4>1. Max(SlotsOf(w, n, p)) \in 1..n
        BY <1>1, <3>3, LastSlot
      <4> QED  BY <1>1, <1>3, <1>4, <3>1, <3>3, <4>1 DEF Found, Logged
    <3> QED  BY <3>2, <3>3
  <2>2. Ordered(w, n)
    <3>1. Ordered(wal, n)
      BY <1>4 DEF Inductive, Unspoilt
    <3>2. n > 0 => n \in 1..n
      BY <1>1
    <3>3. CASE n = 0
      BY <3>3 DEF Ordered
    <3>4. CASE n > 0
      BY <1>1, <3>1, <3>2, <3>4 DEF Ordered
    <3> QED  BY <1>1, <3>3, <3>4
  <2>3. n = 0 => Settled
    BY <1>4 DEF Inductive, Unspoilt
  <2> QED  BY <1>4, <2>1, <2>2, <2>3 DEF Outcomes
<1>5. ASSUME ~spoilt, m # n
      PROVE  /\ \E c \in Outcomes : \A p \in Pages : Found(w, p) = c[p]
             /\ Ordered(w, m)
             /\ m # 0
  <2>1. /\ mode = "append" /\ toWrite = {} /\ m = CommitSlot
        /\ \A i \in (n + 1)..m : i \in Slots /\ i < LogEnd /\ w[i] = wal[i]
    BY <1>5, LiveEnd
  <2>2. /\ tx \in doubt /\ tx.pages \subseteq 1..tx.size /\ pageCount <= tx.size
        /\ tx.id = 0 => tx.pages = {1}
    BY <2>1 DEF Inductive, Appending
  <2>3. ASSUME NEW i \in (n + 1)..m
        PROVE  /\ w[i].page \in tx.pages /\ w[i].ver = version + 1
               /\ w[i].size = IF i = m THEN tx.size ELSE 0
               /\ w[i].img = ImageOf(w[i].page)
    <3>1. i \in Slots /\ n < i /\ i < LogEnd /\ w[i] = wal[i]
      BY <1>1, <2>1
    <3>2. /\ wal[i].page \in tx.pages
          /\ wal[i] = [page |-> wal[i].page, ver |-> version + 1,
                       size |-> IF i = m THEN tx.size ELSE 0,
                       img |-> ImageOf(wal[i].page)]
      BY <2>1, <3>1 DEF Inductive, FramesWritten
    <3> HIDE DEF n, m
    <3> QED  BY <3>1, <3>2
  <2>4. ASSUME NEW p \in tx.pages PROVE \E i \in (n + 1)..m : w[i].page = p
    <3>1. PICK i \in Slots : n < i /\ i < LogEnd /\ wal[i].page = p
      BY <2>1 DEF Inductive, FramesWritten
    <3>2. LogEnd = m + 1 /\ m \in Nat
      BY <2>1, TailIs DEF Inductive
    <3>3. i \in (n + 1)..m
      BY <1>1, <3>1, <3>2, Constants
    <3> QED  BY <2>1, <3>1, <3>3
  <2>5. ASSUME NEW p \in Pages PROVE Found(w, p) = With(tx)[p]
    <3>0. View(p).body = committed[p] /\ View(1).body = committed[1]
      BY <1>5, Constants DEF Inductive, Unspoilt
    <3>1. With(tx)[p] = IF p \in tx.pages /\ tx.id # 0 THEN tx.id ELSE committed[p]
      BY DEF With
    <3>2. CASE p \in tx.pages
      <4>1. PICK i \in (n + 1)..m : w[i].page = p
        BY <2>4, <3>2
      <4>2. i \in SlotsOf(w, m, p)
        BY <1>1, <4>1 DEF SlotsOf
      <4> DEFINE k == Max(SlotsOf(w, m, p))
      <4>3. k \in 1..m /\ w[k].page = p /\ i <= k
        BY <1>1, <4>2, LastSlot
      <4>4. k \in (n + 1)..m
        BY <1>1, <4>1, <4>3
      <4>5. w[k].img = ImageOf(p)
        BY <2>3, <4>3, <4>4
      <4>6. Found(w, p) = ImageOf(p).body
        BY <4>2, <4>5 DEF Found, Logged
      <4>7. ImageOf(p).body = IF tx.id = 0 THEN View(1).body ELSE tx.id
        <5>1. View(1) \in Images
          BY Constants DEF Inductive, TypeOK, View, Entries
        <5> QED  BY <5>1 DEF ImageOf, Images
      <4> QED  BY <2>2, <3>0, <3>1, <3>2, <4>6, <4>7
    <3>3. CASE p \notin tx.pages
      <4>1. SlotsOf(w, m, p) = SlotsOf(w, n, p)
        <5>1. \A i \in 1..m : w[i].page = p => i \in 1..n
          BY <1>1, <2>3, <3>3
        <5> QED  BY <1>1, <5>1 DEF SlotsOf
      <4>2. SlotsOf(w, n, p) # {} => Max(SlotsOf(w, n, p)) \in 1..n
        BY <1>1, LastSlot
      <4>3. Found(w, p) = View(p).body
        BY <1>1, <1>3, <4>1, <4>2 DEF Found, Logged
      <4> QED  BY <3>0, <3>1, <3>3, <4>3
    <3> QED  BY <3>2, <3>3
  <2>6. Ordered(w, m)
    <3>1. /\ Ordered(wal, n) /\ \A i \in 1..n : wal[i].ver <= version
          /\ n > 0 => wal[n].size <= pageCount
      BY <1>5 DEF Inductive, Unspoilt
    <3>2. /\ version \in Nat /\ pageCount \in Nat /\ tx.size \in Nat
          /\ \A i \in 1..n : wal[i] \in Frames
      <4>1. /\ version \in 0..MaxTx /\ pageCount \in 0..NumPages
            /\ tx.size \in 0..NumPages /\ \A i \in Slots : wal[i] \in Frames \cup {Bad}
        BY DEF Inductive, TypeOK, Transactions
      <4>2. \A i \in 1..n : i \in Slots /\ wal[i] # Bad
        BY <1>1, Constants
      <4> QED  BY <4>1, <4>2, Constants
    <3>3. \A f \in Frames : f.ver \in Nat /\ f.page \in Nat /\ f.size \in Nat
      BY FrameTypes
    <3>4. w[m].size = tx.size
      BY <1>1, <1>5, <2>3
    <3>5. \A i \in 1..m : i \in 1..n \/ i \in (n + 1)..m
      BY <1>1
    <3>6. \A i \in (n + 1)..m : w[i].ver = version + 1 /\ w[i].page <= tx.size
      BY <2>2, <2>3, <3>2
    <3>7. \A i \in 1..n : w[i].ver <= version /\ w[i].ver \in Nat
      BY <1>1, <3>1, <3>2, <3>3
    <3>8. ASSUME NEW i \in 1..n PROVE w[i].page <= tx.size
      <4>1. n > 0 /\ n \in 1..n
        BY <1>1
      <4>2. wal[i].page <= wal[n].size /\ wal[n].size <= pageCount
        BY <3>1, <4>1 DEF Ordered
      <4> QED  BY <1>1, <2>2, <3>2, <3>3, <4>1, <4>2
    <3>9. ASSUME NEW i \in 1..m, NEW j \in 1..m, i <= j PROVE w[i].ver <= w[j].ver
      <4>1. CASE i \in 1..n /\ j \in 1..n
        BY <1>1, <3>1, <3>9, <4>1 DEF Ordered
      <4>2. CASE j \in (n + 1)..m
        BY <3>2, <3>5, <3>6, <3>7, <4>2
      <4>3. CASE i \in (n + 1)..m
        BY <1>1, <3>5, <3>9, <4>2, <4>3
      <4> QED  BY <3>5, <4>1, <4>2, <4>3
    <3> HIDE DEF n, m
    <3> QED  BY <3>4, <3>5, <3>6, <3>8, <3>9 DEF Ordered
  <2>7. m # 0
    BY <1>1, <1>5
  <2> QED  BY <2>2, <2>5, <2>6, <2>7 DEF Outcomes
<1> QED  BY <1>1, <1>2, <1>4, <1>5 DEF Recovers

-----------------------------------------------------------------------------
(* What a step that leaves the file or the index alone keeps.              *)

LEMMA FileKept ==
    ASSUME UNCHANGED <<file, fileLen, fileDisk, lenDisk>>
    PROVE  /\ \A p \in Pages : Sound(p)' <=> Sound(p)
           /\ Covered' <=> Covered
           /\ Settled' <=> Settled
BY DEF Sound, Covered, Settled

\* A log that recovers still does after a step that leaves the file alone and
\* only adds outcomes, or ends the promise.
LEMMA RecoversKept ==
    ASSUME UNCHANGED <<file, fileLen, fileDisk, lenDisk, committed>>,
           doubt \subseteq doubt', spoilt' \in {spoilt, TRUE},
           NEW w, Recovers(w)
    PROVE  Recovers(w)'
<1>1. \A p \in Pages : Logged(w, p)' <=> Logged(w, p)
  BY DEF Logged
<1>2. \A p \in Pages : Found(w, p)' = Found(w, p)
  BY DEF Found, Logged
<1>3. Outcomes \subseteq Outcomes'
  BY DEF Outcomes, With
<1>4. /\ \A p \in Pages : Sound(p)' <=> Sound(p)
      /\ Settled' <=> Settled
  BY FileKept
<1> QED  BY <1>1, <1>2, <1>3, <1>4 DEF Recovers

LEMMA PastKept ==
    ASSUME PastRecovers, walPast' \subseteq walPast,
           UNCHANGED <<file, fileLen, fileDisk, lenDisk, committed, index>>,
           doubt \subseteq doubt', spoilt' \in {spoilt, TRUE},
           mode' \in Live => mode \in Live
    PROVE  PastRecovers'
<1> SUFFICES ASSUME NEW D \in walPast', NEW w \in LogsOf(D)
             PROVE  /\ Recovers(w)'
                    /\ mode' \in Live => \A p \in Indexed' : Logged(w, p)'
  BY DEF PastRecovers, LogsOf
<1>1. D \in walPast /\ Recovers(w) /\ (mode \in Live => \A p \in Indexed : Logged(w, p))
  BY DEF PastRecovers
<1>2. Recovers(w)'
  BY <1>1, RecoversKept
<1>3. Indexed' = Indexed /\ \A p \in Pages : Logged(w, p)' <=> Logged(w, p)
  BY DEF Indexed, Logged
<1> QED  BY <1>1, <1>2, <1>3 DEF Indexed

\* What an open database shows is typed and never torn.
LEMMA ViewSound ==
    ASSUME Inductive, mode \in Live, NEW p \in Pages
    PROVE  /\ View(p) \in Images /\ View(p).body # Torn
           /\ index[p] # NoEntry => index[p] \in Entries
<1>1. index[p] \in Entries \cup {NoEntry} /\ file[p] \in Images
  BY DEF Inductive, TypeOK
<1>2. CASE index[p] = NoEntry
  BY <1>1, <1>2 DEF Inductive, FileMatches, View, Sound
<1>3. CASE index[p] # NoEntry
  <2> DEFINE i == Max(SlotsOf(wal, writeOffset, p))
  <2>1. SlotsOf(wal, writeOffset, p) # {} /\ index[p].img = wal[i].img
    BY <1>3 DEF Inductive, IndexMatches
  <2>2. writeOffset \in 0..MaxSlots
    BY DEF Inductive, TypeOK
  <2>3. i \in 1..writeOffset /\ i \in Slots
    BY <2>1, <2>2, LastSlot, Constants
  <2>4. wal[i] # Bad /\ wal[i] \in walDisk[i]
    BY <2>3 DEF Inductive, IndexMatches, Counted
  <2>5. wal[i].img.body # Torn
    BY <2>3, <2>4 DEF Inductive, Counted, Sane
  <2> QED  BY <1>1, <1>3, <2>1, <2>5, FrameTypes DEF View
<1> QED  BY <1>2, <1>3

\* The image a transaction puts on a page.
LEMMA ImageTyped ==
    ASSUME Inductive, mode \in Live, NEW p
    PROVE  ImageOf(p) \in Images /\ ImageOf(p).body # Torn
<1>1. View(1) \in Images /\ View(1).body # Torn
  BY ViewSound, Constants
<1>2. tx.id \in Bodies /\ tx.user \in Users
  BY DEF Inductive, TypeOK, Transactions
<1>3. Zeroed \in Headers
  BY BoundsAssumption, Constants DEF Zeroed, Headers, Users
<1>4. CASE tx.id = 0
  <2>1. ImageOf(p) = [body |-> View(1).body, hdr |-> [View(1).hdr EXCEPT !.user = tx.user]]
    BY <1>1, <1>4 DEF ImageOf, Images
  <2>2. [View(1).hdr EXCEPT !.user = tx.user] \in Headers
    BY <1>1, <1>2 DEF Images, Headers
  <2> QED  BY <1>1, <2>1, <2>2 DEF Images
<1>5. CASE tx.id # 0
  BY <1>2, <1>3, <1>5, Constants DEF ImageOf, Images
<1> QED  BY <1>4, <1>5

-----------------------------------------------------------------------------
(* A commit.                                                               *)

\* A transaction starts to append its pages.
LEMMA BeginStep ==
    ASSUME Inductive, NEW T \in SUBSET Pages, NEW n \in 0..NumPages, pageCount <= n,
           NEW x \in Transactions, tx' = x, x.pages = T, x.size = n, x.id <= begun + 1,
           x.id = 0 => T = {1}, Begin(T, n),
           UNCHANGED <<disk, engine, crashes, promised>>
    PROVE  Inductive'
<1> USE DEF disk, engine, promised
<1>1. /\ mode = "idle" /\ mode' = "append" /\ mode \in Live /\ mode' \in Live
      /\ begun < MaxTx /\ begun' = begun + 1 /\ toWrite' = T /\ T # {} /\ T \subseteq 1..n
      /\ doubt' = doubt \cup {x} /\ writeOffset + Cardinality(T) <= MaxSlots
  BY DEF Begin, Live
<1>2. begun \in Nat /\ version \in Nat /\ version <= begun /\ writeOffset \in Nat
  BY Constants DEF Inductive, TypeOK, Counted
<1>3. TypeOK'
  <2>1. begun' \in 0..MaxTx /\ toWrite' \in SUBSET Pages /\ mode' \in Modes
    BY <1>1, <1>2, Constants DEF Modes
  <2> QED  BY <1>1, <2>1 DEF Inductive, TypeOK
<1>4. Counted'
  <2>1. ASSUME NEW D \in walPast \cup {walDisk}, NEW i \in Slots, NEW f \in D[i]
        PROVE  Sane(f)'
    <3>1. f \in Frames \cup {Bad} /\ Sane(f)
      BY DEF Inductive, TypeOK, SlotSets, Counted
    <3>2. f # Bad => f.ver \in Nat
      BY <3>1, FrameTypes
    <3> QED  BY <1>1, <1>2, <3>1, <3>2 DEF Sane
  <2> QED  BY <1>1, <1>2, <2>1 DEF Inductive, Counted
<1>5. LogEnd = writeOffset + 1 /\ LogEnd' = writeOffset + 1
  <2>1. IsFiniteSet(T)
    BY Constants, FS_Subset
  <2>2. Cardinality(T) \in Nat
    BY <2>1, FS_CardinalityType
  <2> QED  BY <1>1, <1>2, <2>2 DEF LogEnd, NextSlot
<1>6. Appending'
  BY <1>1, <1>2 DEF Appending
<1>7. FramesWritten'
  <2>1. ~\E i \in Slots : writeOffset < i /\ i < LogEnd'
    BY <1>2, <1>5, Constants
  <2> QED  BY <1>1, <2>1 DEF FramesWritten
<1>8. IndexMatches'
  BY <1>1 DEF Inductive, IndexMatches
<1>9. FileMatches'
  BY <1>1, FileKept DEF Inductive, FileMatches
<1>10. Unspoilt'
  <2>1. \A p \in Pages : View(p)' = View(p)
    BY DEF View
  <2> QED  BY <1>1, <1>5, <2>1, FileKept DEF Inductive, Unspoilt, Ordered
<1>11. PastRecovers'
  BY <1>1, PastKept DEF Inductive
<1>12. ClosedRecovers'
  BY <1>1 DEF ClosedRecovers
<1> QED
  BY <1>3, <1>4, <1>6, <1>7, <1>8, <1>9, <1>10, <1>11, <1>12 DEF Inductive

LEMMA BeginCommitStep == ASSUME Inductive, BeginCommit PROVE Inductive'
<1>1. PICK n \in pageCount..NumPages, T \in SUBSET Pages :
         /\ tx' = [id |-> begun + 1, pages |-> T, user |-> 0, size |-> n]
         /\ Begin(T, n)
  BY DEF BeginCommit
<1> DEFINE x == [id |-> begun + 1, pages |-> T, user |-> 0, size |-> n]
<1>2. pageCount \in Nat /\ begun \in Nat /\ begun < MaxTx
  BY <1>1, Constants DEF Inductive, TypeOK, Begin
<1>3. n \in 0..NumPages /\ pageCount <= n
  BY <1>2, Constants
<1>4. x \in Transactions
  BY <1>2, <1>3, BoundsAssumption DEF Transactions, Users
<1>5. x.id # 0 /\ x.id <= begun + 1
  BY <1>2
<1>6. UNCHANGED <<disk, engine, crashes, promised>>
  BY DEF BeginCommit
<1>7. tx' = x /\ x.pages = T /\ x.size = n
  BY <1>1
<1> HIDE DEF x
<1> QED  BY <1>1, <1>3, <1>4, <1>5, <1>6, <1>7, BeginStep

LEMMA SetUserVersionStep == ASSUME Inductive, SetUserVersion PROVE Inductive'
<1>1. PICK u \in Users : tx' = [id |-> 0, pages |-> {1}, user |-> u, size |-> pageCount]
  BY DEF SetUserVersion
<1> DEFINE x == [id |-> 0, pages |-> {1}, user |-> u, size |-> pageCount]
<1>2. pageCount \in 0..NumPages /\ pageCount <= pageCount /\ begun \in Nat
  BY Constants DEF Inductive, TypeOK
<1>3. x \in Transactions
  BY <1>2, Constants DEF Transactions
<1>4. x.id = 0 /\ x.id <= begun + 1
  BY <1>2
<1>5. UNCHANGED <<disk, engine, crashes, promised>> /\ Begin({1}, pageCount)
  BY DEF SetUserVersion
<1>6. tx' = x /\ x.pages = {1} /\ x.size = pageCount /\ {1} \in SUBSET Pages
  BY <1>1, Constants
<1> HIDE DEF x
<1> QED  BY <1>2, <1>3, <1>4, <1>5, <1>6, BeginStep

\* One frame is written.
LEMMA AppendFrameStep == ASSUME Inductive, AppendFrame PROVE Inductive'
<1> DEFINE s == NextSlot
<1>1. PICK p \in toWrite : /\ WriteSlot(s, FrameOf(p))
                           /\ toWrite' = toWrite \ {p}
  BY DEF AppendFrame
<1>2. /\ mode = "append" /\ mode' = "append" /\ mode \in Live /\ mode' \in Live
      /\ UNCHANGED <<file, fileLen, fileDisk, lenDisk, walPast, index, writeOffset,
                     version, dbSize, pageCount, tx, doubt, begun, crashes, committed,
                     spoilt>>
  BY DEF AppendFrame, Live, engine, promised
<1>3. TypeOK /\ Appending
  BY DEF Inductive
<1>4. /\ s \in Slots /\ s = LogEnd /\ LogEnd \in Nat /\ writeOffset < LogEnd
      /\ writeOffset \in Nat
  <2>1. writeOffset \in Nat
    BY <1>3, Constants DEF TypeOK
  <2>2. toWrite # {}
    BY <1>1
  <2>3. s \in Slots /\ s = LogEnd /\ LogEnd \in Nat /\ writeOffset < LogEnd
    BY <1>2, <1>3, <2>2, TailIs
  <2> QED  BY <2>1, <2>3
<1>5. p \in Pages /\ p \in tx.pages /\ IsFiniteSet(toWrite)
  BY <1>1, <1>2, <1>3, Constants, FS_Subset DEF TypeOK, Appending
<1>6. LogEnd' = LogEnd + 1 /\ (s = CommitSlot <=> toWrite = {p})
  <2>1. /\ Cardinality(toWrite) \in Nat /\ Cardinality(toWrite') = Cardinality(toWrite) - 1
        /\ Cardinality(toWrite') \in Nat /\ IsFiniteSet(toWrite')
    BY <1>1, <1>5, FS_RemoveElement, FS_CardinalityType
  <2>2. Cardinality(tx.pages) \in Nat
    <3>1. IsFiniteSet(tx.pages)
      BY <1>3, Constants, FS_Subset DEF TypeOK, Transactions
    <3> QED  BY <3>1, FS_CardinalityType
  <2>3. /\ LogEnd = writeOffset + Cardinality(tx.pages) - Cardinality(toWrite) + 1
        /\ LogEnd' = writeOffset + Cardinality(tx.pages) - Cardinality(toWrite') + 1
    BY <1>2 DEF LogEnd, NextSlot
  <2>4. Cardinality(toWrite') = 0 <=> toWrite = {p}
    BY <1>1, <2>1, FS_EmptySet
  <2>5. CommitSlot = writeOffset + Cardinality(tx.pages)
    BY DEF CommitSlot
  <2> QED  BY <1>4, <2>1, <2>2, <2>3, <2>4, <2>5
<1>7. /\ FrameOf(p) = [page |-> p, ver |-> version + 1,
                       size |-> IF s = CommitSlot THEN tx.size ELSE 0, img |-> ImageOf(p)]
      /\ FrameOf(p).page = p
  BY <1>6 DEF FrameOf
<1>8. FrameOf(p) \in Frames /\ Sane(FrameOf(p))
  <2>1. ImageOf(p) \in Images /\ ImageOf(p).body # Torn
    BY <1>2, ImageTyped
  <2>2. version + 1 \in 1..MaxTx /\ version + 1 <= begun
    BY <1>2, <1>3, Constants DEF TypeOK, Appending
  <2>3. tx.size \in 0..NumPages /\ 0 \in 0..NumPages
    BY <1>3, Constants DEF TypeOK, Transactions
  <2> QED  BY <1>5, <1>7, <2>1, <2>2, <2>3 DEF Frames, Sane
<1>9. /\ wal' = [wal EXCEPT ![s] = FrameOf(p)]
      /\ walDisk' = [walDisk EXCEPT ![s] = @ \cup {FrameOf(p), Bad}]
  BY <1>1 DEF WriteSlot
<1>10. /\ \A i \in Slots : i # s => wal'[i] = wal[i] /\ walDisk'[i] = walDisk[i]
       /\ wal'[s] = FrameOf(p) /\ walDisk'[s] = walDisk[s] \cup {FrameOf(p), Bad}
  BY <1>3, <1>4, <1>9 DEF TypeOK, SlotSets
<1> HIDE DEF s
<1>11. TypeOK'
  <2>1. wal' \in [Slots -> Frames \cup {Bad}] /\ walDisk' \in SlotSets
    BY <1>3, <1>8, <1>9 DEF TypeOK, SlotSets
  <2>2. toWrite' \in SUBSET Pages
    BY <1>1, <1>3 DEF TypeOK
  <2> QED  BY <1>2, <1>3, <2>1, <2>2 DEF TypeOK
<1>12. Counted'
  <2>1. Sane(Bad)
    BY DEF Sane
  <2>2. \A f : Sane(f)' <=> Sane(f)
    BY <1>2 DEF Sane
  <2>3. \A D \in walPast, i \in Slots : \A f \in D[i] : Sane(f)
    BY DEF Inductive, Counted
  <2>4. \A i \in Slots : \A f \in walDisk'[i] : Sane(f)
    BY <1>8, <1>10, <2>1 DEF Inductive, Counted
  <2>5. \A i \in Slots : wal'[i] \in walDisk'[i]
    BY <1>10 DEF Inductive, Counted
  <2> QED  BY <1>2, <2>2, <2>3, <2>4, <2>5 DEF Inductive, Counted
<1>13. Appending'
  BY <1>1, <1>2, <1>3 DEF Appending
<1>14. \A q : ImageOf(q)' = ImageOf(q) /\ View(q)' = View(q)
  BY <1>2 DEF ImageOf, View
<1>15. CommitSlot' = CommitSlot
  BY <1>2 DEF CommitSlot
<1>16. FramesWritten'
  <2>1. ASSUME NEW i \in Slots, writeOffset < i, i < LogEnd'
        PROVE  /\ wal'[i].page \in tx.pages
               /\ wal'[i] = [page |-> wal'[i].page, ver |-> version + 1,
                             size |-> IF i = CommitSlot THEN tx.size ELSE 0,
                             img |-> ImageOf(wal'[i].page)]
    <3>1. CASE i = s
      BY <1>5, <1>7, <1>10, <3>1
    <3>2. CASE i # s
      <4>1. i < LogEnd /\ wal'[i] = wal[i]
        BY <1>4, <1>6, <1>10, <2>1, <3>2, Constants
      <4> QED  BY <1>2, <2>1, <4>1 DEF Inductive, FramesWritten
    <3> QED  BY <3>1, <3>2
  <2>2. ASSUME NEW q \in tx.pages \ toWrite'
        PROVE  \E i \in Slots : writeOffset < i /\ i < LogEnd' /\ wal'[i].page = q
    <3>1. CASE q = p
      BY <1>4, <1>6, <1>7, <1>10, <3>1
    <3>2. CASE q # p
      <4>1. PICK i \in Slots : writeOffset < i /\ i < LogEnd /\ wal[i].page = q
        BY <1>1, <1>2, <2>2, <3>2 DEF Inductive, FramesWritten
      <4>2. i < LogEnd' /\ i # s
        BY <1>4, <1>6, <4>1, Constants
      <4> QED  BY <1>10, <4>1, <4>2
    <3> QED  BY <3>1, <3>2
  <2> QED  BY <1>2, <1>14, <1>15, <2>1, <2>2 DEF FramesWritten
<1>17. \A i \in 1..writeOffset : i \in Slots /\ wal'[i] = wal[i] /\ walDisk'[i] = walDisk[i]
  <2>1. \A i \in 1..writeOffset : i \in Slots /\ i # s
    BY <1>4, Constants
  <2> QED  BY <1>10, <2>1
<1>18. \A q \in Pages :
          /\ SlotsOf(wal', writeOffset, q) = SlotsOf(wal, writeOffset, q)
          /\ SlotsOf(wal, writeOffset, q) # {} =>
               Max(SlotsOf(wal, writeOffset, q)) \in 1..writeOffset
  BY <1>4, <1>17, SameSlots, LastSlot
<1>19. IndexMatches'
  <2>1. writeOffset > 0 => writeOffset \in 1..writeOffset
    BY <1>4
  <2> QED  BY <1>2, <1>17, <1>18, <2>1 DEF Inductive, IndexMatches
<1>20. FileMatches'
  <2>1. \A q \in Pages : Sound(q)' <=> Sound(q)
    BY <1>2, FileKept
  <2> QED  BY <1>2, <2>1 DEF Inductive, FileMatches
<1>21. Unspoilt'
  <2> SUFFICES ASSUME ~spoilt PROVE Unspoilt'
    BY <1>2 DEF Unspoilt
  <2>0. Unspoilt /\ mode \in Live /\ (Settled' <=> Settled)
    BY <1>2, FileKept DEF Inductive
  <2>1. walDisk[s] = {Bad}
    BY <1>4, <2>0 DEF Unspoilt
  <2>2. ASSUME NEW i \in Slots
        PROVE  /\ i >= LogEnd' => walDisk'[i] = {Bad}
               /\ writeOffset < i /\ i < LogEnd' => walDisk'[i] \subseteq {Bad, wal'[i]}
    <3>1. CASE i = s
      BY <1>4, <1>6, <1>10, <2>1, <3>1
    <3>2. CASE i # s
      BY <1>4, <1>6, <1>10, <2>0, <3>2, Constants DEF Unspoilt
    <3> QED  BY <3>1, <3>2
  <2>3. Ordered(wal', writeOffset)
    <3>1. Ordered(wal, writeOffset)
      BY <2>0 DEF Unspoilt
    <3>2. \A i \in 1..writeOffset : writeOffset \in 1..writeOffset
      BY <1>4
    <3> QED  BY <1>17, <3>1, <3>2 DEF Ordered
  <2>4. writeOffset > 0 => writeOffset \in 1..writeOffset
    BY <1>4
  <2>5. \A q \in Pages : View(q).body = committed[q]
    BY <2>0 DEF Unspoilt
  <2>6. \A i \in 1..writeOffset : wal'[i].ver <= version
    BY <1>17, <2>0 DEF Unspoilt
  <2>7. writeOffset > 0 => wal'[writeOffset].size <= pageCount
    BY <1>17, <2>0, <2>4 DEF Unspoilt
  <2> QED  BY <1>2, <1>14, <2>0, <2>2, <2>3, <2>5, <2>6, <2>7 DEF Unspoilt, Ordered
<1>22. PastRecovers'
  BY <1>2, PastKept DEF Inductive
<1>23. ClosedRecovers'
  BY <1>2 DEF ClosedRecovers
<1> QED
  BY <1>11, <1>12, <1>13, <1>16, <1>19, <1>20, <1>21, <1>22, <1>23 DEF Inductive

\* A write or the sync of append_commit fails.
LEMMA AppendFailStep == ASSUME Inductive, AppendFail PROVE Inductive'
<1>1. /\ mode = "append" /\ mode' = "idle" /\ mode \in Live /\ mode' \in Live
      /\ tx' = NoTx /\ spoilt' = TRUE /\ toWrite' = {}
      /\ UNCHANGED <<file, fileLen, fileDisk, lenDisk, walPast, index, writeOffset,
                     version, dbSize, pageCount, doubt, begun, crashes, committed>>
  BY DEF AppendFail, Live, engine
<1>2. TypeOK /\ Appending
  BY DEF Inductive
<1>3. writeOffset \in Nat
  BY <1>2, Constants DEF TypeOK
<1>4. \E s \in Slots :
         /\ writeOffset < s
         /\ \/ UNCHANGED <<wal, walDisk>>
            \/ /\ wal' = [wal EXCEPT ![s] = Bad]
               /\ walDisk' = [walDisk EXCEPT ![s] = @ \cup {Bad}]
  <2>1. CASE UNCHANGED <<wal, walDisk>>
    <3>1. writeOffset + 1 \in Slots
      <4>1. CommitSlot \in Nat /\ writeOffset < CommitSlot /\ CommitSlot <= MaxSlots
        BY <1>1, <1>2, TailIs
      <4> QED  BY <1>3, <4>1, Constants
    <3> QED  BY <1>3, <2>1, <3>1
  <2>2. CASE \E p \in toWrite : WriteSlot(NextSlot, Bad)
    <3>1. NextSlot \in Slots /\ writeOffset < NextSlot
      BY <1>1, <1>2, <2>2, TailIs
    <3>2. /\ wal' = [wal EXCEPT ![NextSlot] = Bad]
          /\ walDisk' = [walDisk EXCEPT ![NextSlot] = @ \cup {Bad}]
      BY <2>2 DEF WriteSlot
    <3> QED  BY <3>1, <3>2
  <2> QED  BY <2>1, <2>2 DEF AppendFail
<1>5. PICK s \in Slots :
         /\ writeOffset < s
         /\ wal' \in [Slots -> Frames \cup {Bad}] /\ walDisk' \in SlotSets
         /\ \A i \in Slots : i # s => wal'[i] = wal[i] /\ walDisk'[i] = walDisk[i]
         /\ wal'[s] \in {wal[s], Bad} /\ walDisk'[s] \subseteq walDisk[s] \cup {Bad}
         /\ wal'[s] \in walDisk'[s]
  <2>1. PICK s \in Slots :
         /\ writeOffset < s
         /\ \/ UNCHANGED <<wal, walDisk>>
            \/ /\ wal' = [wal EXCEPT ![s] = Bad]
               /\ walDisk' = [walDisk EXCEPT ![s] = @ \cup {Bad}]
    BY <1>4
  <2>2. /\ wal \in [Slots -> Frames \cup {Bad}] /\ walDisk \in SlotSets
        /\ \A i \in Slots : wal[i] \in walDisk[i]
    BY <1>2 DEF TypeOK, Inductive, Counted
  <2>3. /\ wal' \in [Slots -> Frames \cup {Bad}] /\ walDisk' \in SlotSets
        /\ \A i \in Slots : i # s => wal'[i] = wal[i] /\ walDisk'[i] = walDisk[i]
        /\ wal'[s] \in {wal[s], Bad} /\ walDisk'[s] \subseteq walDisk[s] \cup {Bad}
        /\ wal'[s] \in walDisk'[s]
    BY <2>1, <2>2 DEF SlotSets
  <2> QED  BY <2>1, <2>3
<1>6. TypeOK'
  <2>1. NoTx \in Transactions
    BY Constants, BoundsAssumption DEF NoTx, Transactions, Users
  <2> QED  BY <1>1, <1>2, <1>5, <2>1 DEF TypeOK, Modes, Live
<1>7. Counted'
  <2>1. \A f : Sane(f)' <=> Sane(f)
    BY <1>1 DEF Sane
  <2>2. Sane(Bad) /\ NoTx.id <= begun
    BY <1>2 DEF Sane, NoTx, TypeOK
  <2>3. \A D \in walPast, i \in Slots : \A f \in D[i] : Sane(f)
    BY DEF Inductive, Counted
  <2>4. \A i \in Slots : \A f \in walDisk'[i] : Sane(f)
    BY <1>5, <2>2 DEF Inductive, Counted
  <2>5. \A i \in Slots : wal'[i] \in walDisk'[i]
    BY <1>5 DEF Inductive, Counted
  <2> QED  BY <1>1, <2>1, <2>2, <2>3, <2>4, <2>5 DEF Inductive, Counted
<1>8. Appending' /\ FramesWritten'
  BY <1>1 DEF Appending, FramesWritten
<1>9. \A i \in 1..writeOffset : i \in Slots /\ wal'[i] = wal[i] /\ walDisk'[i] = walDisk[i]
  <2>1. \A i \in 1..writeOffset : i \in Slots /\ i # s
    BY <1>2, <1>3, <1>5, Constants DEF TypeOK
  <2> QED  BY <1>5, <2>1
<1>10. \A q \in Pages :
          /\ SlotsOf(wal', writeOffset, q) = SlotsOf(wal, writeOffset, q)
          /\ SlotsOf(wal, writeOffset, q) # {} =>
               Max(SlotsOf(wal, writeOffset, q)) \in 1..writeOffset
  BY <1>3, <1>9, SameSlots, LastSlot
<1>11. IndexMatches'
  <2>1. writeOffset > 0 => writeOffset \in 1..writeOffset
    BY <1>3
  <2> QED  BY <1>1, <1>9, <1>10, <2>1 DEF Inductive, IndexMatches
<1>12. FileMatches'
  <2>1. \A q \in Pages : Sound(q)' <=> Sound(q)
    BY <1>1, FileKept
  <2> QED  BY <1>1, <2>1 DEF Inductive, FileMatches
<1>13. Unspoilt' /\ ClosedRecovers'
  BY <1>1 DEF Unspoilt, ClosedRecovers
<1>14. PastRecovers'
  BY <1>1, PastKept DEF Inductive
<1> QED
  BY <1>6, <1>7, <1>8, <1>11, <1>12, <1>13, <1>14 DEF Inductive

\* The log is synced, the index and the counters take the transaction over.
LEMMA AppendSyncStep == ASSUME Inductive, AppendSync PROVE Inductive'
<1> DEFINE n == writeOffset
           m == CommitSlot
<1>1. /\ mode = "append" /\ mode' = "idle" /\ mode \in Live /\ mode' \in Live
      /\ toWrite = {} /\ toWrite' = {} /\ tx' = NoTx /\ doubt' = {}
      /\ walDisk' = [i \in Slots |-> {wal[i]}] /\ walPast' = {}
      /\ writeOffset' = m /\ version' = version + 1
      /\ index' = [p \in Pages |-> IF p \in tx.pages
                                   THEN [ver |-> version + 1, img |-> ImageOf(p)]
                                   ELSE index[p]]
      /\ dbSize' = tx.size /\ pageCount' = tx.size
      /\ committed' = With(tx)
      /\ UNCHANGED <<file, fileLen, fileDisk, lenDisk, wal, begun, crashes, spoilt>>
  BY DEF AppendSync, SyncWal, Live, With, CommitSlot
<1>2. TypeOK /\ Appending /\ Counted /\ FramesWritten
  BY DEF Inductive
<1>3. /\ n \in Nat /\ m \in Nat /\ n < m /\ m <= MaxSlots /\ LogEnd = m + 1
      /\ m \in Slots
  <2>1. n \in Nat /\ MaxSlots \in Nat
    BY <1>2, Constants DEF TypeOK
  <2>2. m \in Nat /\ n < m /\ m <= MaxSlots /\ LogEnd = m + 1
    BY <1>1, <1>2, TailIs
  <2> QED  BY <2>1, <2>2, Constants
<1>4. /\ tx.pages # {} /\ tx.pages \subseteq 1..tx.size /\ pageCount <= tx.size
      /\ (tx.id = 0 => tx.pages = {1}) /\ version < begun /\ tx.pages \subseteq Pages
      /\ tx.size \in 0..NumPages /\ tx.id \in Bodies
  BY <1>1, <1>2 DEF Appending, TypeOK, Transactions
<1>5. /\ version \in Nat /\ begun \in 0..MaxTx /\ pageCount \in Nat /\ 1 <= pageCount
      /\ tx.size \in Nat /\ tx.size # 0
  BY <1>1, <1>2, <1>4, Constants DEF TypeOK, Counted
<1> HIDE DEF n, m
<1>6. \A p \in Pages : ImageOf(p) \in Images /\ ImageOf(p).body # Torn
  BY <1>1, ImageTyped
<1>7. ASSUME NEW i \in Slots, n < i, i <= m
      PROVE  /\ wal[i].page \in tx.pages /\ wal[i].ver = version + 1
             /\ wal[i].size = IF i = m THEN tx.size ELSE 0
             /\ wal[i].img = ImageOf(wal[i].page)
             /\ wal[i] # Bad
  <2>1. n < i /\ i < LogEnd
    BY <1>3, <1>7, Constants
  <2>2. /\ wal[i].page \in tx.pages
        /\ wal[i] = [page |-> wal[i].page, ver |-> version + 1,
                     size |-> IF i = m THEN tx.size ELSE 0,
                     img |-> ImageOf(wal[i].page)]
    BY <1>1, <1>2, <2>1 DEF FramesWritten, n, m
  <2>3. wal[i].page # 0
    BY <1>4, <2>2, PagesAssumption DEF Pages
  <2>4. wal[i] # Bad
    BY <2>3 DEF Bad
  <2> QED  BY <2>2, <2>4
<1>8. ASSUME NEW p \in tx.pages PROVE \E i \in Slots : n < i /\ i <= m /\ wal[i].page = p
  <2>1. PICK i \in Slots : n < i /\ i < LogEnd /\ wal[i].page = p
    BY <1>1, <1>2 DEF FramesWritten, n
  <2> QED  BY <1>3, <2>1, Constants
<1>9. \A i \in 1..n : i \in Slots /\ i \in Nat /\ i <= m /\ wal[i] # Bad
  BY <1>1, <1>3, Constants DEF Inductive, IndexMatches, n
<1>10. \A i \in 1..m : i \in Slots /\ (i \in 1..n \/ n < i) /\ i <= m
  BY <1>3, Constants
<1>11. TypeOK'
  <2>1. NoTx \in Transactions
    BY Constants, BoundsAssumption DEF NoTx, Transactions, Users
  <2>2. walDisk' \in SlotSets
    BY <1>1, <1>2 DEF TypeOK, SlotSets
  <2>3. index' \in [Pages -> Entries \cup {NoEntry}]
    <3>1. version + 1 \in 1..MaxTx
      BY <1>4, <1>5, Constants
    <3>2. \A p \in Pages : [ver |-> version + 1, img |-> ImageOf(p)] \in Entries
      BY <1>6, <3>1 DEF Entries
    <3> QED  BY <1>1, <1>2, <3>2 DEF TypeOK
  <2>4. writeOffset' \in 0..MaxSlots /\ version' \in 0..MaxTx
    BY <1>1, <1>3, <1>4, <1>5, Constants
  <2>5. committed' \in [Pages -> Bodies]
    BY <1>1, <1>2, <1>4 DEF TypeOK, With
  <2> QED  BY <1>1, <1>2, <1>4, <2>1, <2>2, <2>3, <2>4, <2>5 DEF TypeOK, Modes, Live
<1>12. Counted'
  <2>1. \A i \in Slots : Sane(wal[i])' /\ wal[i] \in walDisk'[i]
    BY <1>1, <1>2 DEF Counted, Sane
  <2>2. \A i \in Slots : \A f \in walDisk'[i] : Sane(f)'
    BY <1>1, <2>1
  <2>3. NoTx.id <= begun
    BY <1>5 DEF NoTx
  <2> QED  BY <1>1, <1>2, <1>4, <1>5, <2>1, <2>2, <2>3 DEF Counted
<1>13. Appending' /\ FramesWritten' /\ ClosedRecovers' /\ PastRecovers'
  BY <1>1 DEF Appending, FramesWritten, ClosedRecovers, PastRecovers
<1>14. ASSUME NEW p \in Pages
       PROVE  /\ p \in tx.pages => /\ SlotsOf(wal, m, p) # {}
                                   /\ wal[Max(SlotsOf(wal, m, p))].img = ImageOf(p)
              /\ p \notin tx.pages => SlotsOf(wal, m, p) = SlotsOf(wal, n, p)
  <2>1. ASSUME p \in tx.pages
        PROVE  /\ SlotsOf(wal, m, p) # {}
               /\ wal[Max(SlotsOf(wal, m, p))].img = ImageOf(p)
    <3>1. PICK i \in Slots : n < i /\ i <= m /\ wal[i].page = p
      BY <1>8, <2>1
    <3>2. i \in SlotsOf(wal, m, p)
      BY <1>3, <3>1 DEF SlotsOf
    <3> DEFINE k == Max(SlotsOf(wal, m, p))
    <3>3. k \in 1..m /\ wal[k].page = p /\ i <= k
      BY <1>3, <3>2, LastSlot
    <3>4. k \in Slots /\ n < k /\ k <= m
      <4>1. i \in Nat /\ k \in Nat
        BY <3>1, <3>3, Constants
      <4> HIDE DEF k
      <4> QED  BY <1>3, <1>10, <3>1, <3>3, <4>1
    <3> QED  BY <1>7, <3>2, <3>3, <3>4
  <2>2. ASSUME p \notin tx.pages PROVE SlotsOf(wal, m, p) = SlotsOf(wal, n, p)
    <3>1. \A i \in 1..m : wal[i].page = p => i \in 1..n
      BY <1>7, <1>10, <2>2
    <3>2. \A i \in 1..n : i \in 1..m
      BY <1>3
    <3> QED  BY <3>1, <3>2 DEF SlotsOf
  <2> QED  BY <2>1, <2>2
<1>15. \A p \in Pages :
          /\ p \in tx.pages => /\ index'[p] # NoEntry /\ index'[p].img = ImageOf(p)
                               /\ index'[p].ver = version + 1
          /\ p \notin tx.pages => index'[p] = index[p]
  <2>1. \A p \in tx.pages : index'[p] = [ver |-> version + 1, img |-> ImageOf(p)]
    BY <1>1, <1>4
  <2>2. version + 1 # 0
    BY <1>5
  <2>3. ASSUME NEW p \in tx.pages
        PROVE  index'[p].ver = version + 1 /\ index'[p].img = ImageOf(p)
    <3>1. index'[p] = [ver |-> version + 1, img |-> ImageOf(p)]
      BY <2>1
    <3> HIDE DEF Bodies, Slots
    <3> QED  BY <3>1
  <2>4. \A p \in tx.pages : index'[p] # NoEntry
    BY <2>2, <2>3 DEF NoEntry
  <2> QED  BY <1>1, <2>3, <2>4
<1>16. IndexMatches'
  <2>1. \A i \in 1..m : walDisk'[i] = {wal[i]} /\ wal[i] # Bad
    BY <1>1, <1>7, <1>9, <1>10
  <2>2. wal[m].size # 0
    BY <1>3, <1>5, <1>7
  <2>3. ASSUME NEW p \in Pages
        PROVE  IF SlotsOf(wal, m, p) = {} THEN index'[p] = NoEntry
               ELSE /\ index'[p] # NoEntry
                    /\ index'[p].img = wal[Max(SlotsOf(wal, m, p))].img
    <3>1. CASE p \in tx.pages
      BY <1>14, <1>15, <3>1
    <3>2. CASE p \notin tx.pages
      BY <1>1, <1>14, <1>15, <3>2 DEF Inductive, IndexMatches, n
    <3> QED  BY <3>1, <3>2
  <2> QED  BY <1>1, <2>1, <2>2, <2>3 DEF IndexMatches
<1>17. FileMatches'
  <2>1. \A p \in Pages : Sound(p)' <=> Sound(p)
    BY <1>1, FileKept
  <2>2. \A p \in Pages : index'[p] = NoEntry => index[p] = NoEntry
    BY <1>15
  <2> QED  BY <1>1, <2>1, <2>2 DEF Inductive, FileMatches
<1>18. Unspoilt'
  <2> SUFFICES ASSUME ~spoilt PROVE Unspoilt'
    BY <1>1 DEF Unspoilt
  <2>0. Unspoilt /\ mode \in Live
    BY <1>1 DEF Inductive
  <2>1. LogEnd' = m + 1
    BY <1>1 DEF LogEnd
  <2>2. ASSUME NEW i \in Slots
        PROVE  /\ i >= LogEnd' => walDisk'[i] = {Bad}
               /\ writeOffset' < i /\ i < LogEnd' => walDisk'[i] \subseteq {Bad, wal'[i]}
    <3>1. i >= LogEnd => walDisk[i] = {Bad}
      BY <2>0 DEF Unspoilt
    <3>2. wal[i] \in walDisk[i]
      BY <1>2 DEF Counted
    <3> QED  BY <1>1, <1>3, <2>1, <3>1, <3>2
  <2>3. ASSUME NEW p \in Pages PROVE View(p)'.body = committed'[p]
    <3>1. View(p).body = committed[p] /\ View(1).body = committed[1]
      BY <2>0, Constants DEF Unspoilt
    <3>2. committed'[p] = IF p \in tx.pages /\ tx.id # 0 THEN tx.id ELSE committed[p]
      BY <1>1 DEF With
    <3>3. CASE p \in tx.pages
      <4>1. View(p)' = ImageOf(p)
        BY <1>15, <3>3 DEF View
      <4>2. ImageOf(p).body = IF tx.id = 0 THEN View(1).body ELSE tx.id
        <5>1. View(1) \in Images
          BY <1>1, Constants, ViewSound
        <5> QED  BY <5>1 DEF ImageOf, Images
      <4> QED  BY <1>4, <3>1, <3>2, <3>3, <4>1, <4>2
    <3>4. CASE p \notin tx.pages
      <4>1. View(p)' = View(p)
        BY <1>1, <1>15, <3>4 DEF View
      <4> QED  BY <3>1, <3>2, <3>4, <4>1
    <3> QED  BY <3>3, <3>4
  <2>4. /\ Ordered(wal, n) /\ \A i \in 1..n : wal[i].ver <= version
        /\ n > 0 => wal[n].size <= pageCount
    BY <2>0 DEF Unspoilt, n
  <2>5. \A i \in 1..m : wal[i].ver \in Nat /\ wal[i].page \in Nat /\ wal[i].size \in Nat
    <3>1. \A i \in 1..m : wal[i] \in Frames
      BY <1>2, <1>7, <1>9, <1>10 DEF TypeOK
    <3> QED  BY <3>1, FrameTypes
  <2>6. \A i \in 1..m : n < i => wal[i].ver = version + 1 /\ wal[i].page <= tx.size
    BY <1>4, <1>5, <1>7, <1>10
  <2>7. ASSUME NEW i \in 1..n PROVE wal[i].page <= tx.size
    <3>1. n > 0 /\ n \in 1..n /\ n \in 1..m /\ i \in 1..m
      BY <1>3
    <3>2. wal[i].page <= wal[n].size /\ wal[n].size <= pageCount
      BY <2>4, <3>1 DEF Ordered
    <3>3. wal[i].page \in Nat /\ wal[n].size \in Nat
      BY <2>5, <3>1
    <3> QED  BY <1>4, <1>5, <3>2, <3>3
  <2>8. ASSUME NEW i \in 1..m, NEW j \in 1..m, i <= j PROVE wal[i].ver <= wal[j].ver
    <3>1. CASE j \in 1..n
      <4>1. i \in 1..n
        BY <1>3, <2>8, <3>1
      <4> QED  BY <2>4, <2>8, <3>1, <4>1 DEF Ordered
    <3>2. CASE n < j
      <4>1. wal[i].ver <= version + 1
        BY <1>5, <1>10, <2>4, <2>5, <2>6
      <4> QED  BY <2>6, <3>2, <4>1
    <3> QED  BY <1>10, <3>1, <3>2
  <2>9. wal[m].size = tx.size
    BY <1>3, <1>7
  <2>10. Ordered(wal, m)
    BY <1>10, <2>6, <2>7, <2>8, <2>9 DEF Ordered
  <2>11. \A i \in 1..m : wal[i].ver <= version + 1
    BY <1>5, <1>10, <2>4, <2>5, <2>6
  <2>12. ASSUME NEW p \in Pages PROVE index'[p].ver <= version + 1
    <3>1. index[p].ver <= version /\ index[p].ver \in Nat
      <4>1. index[p] \in Entries \cup {NoEntry} /\ NoEntry.ver = 0
        BY <1>2 DEF TypeOK, NoEntry
      <4> QED  BY <2>0, <4>1, FrameTypes DEF Unspoilt
    <3> QED  BY <1>5, <1>15, <3>1
  <2>13. ASSUME NEW p \in Pages, committed'[p] # 0 PROVE p <= tx.size
    <3>1. CASE p \in tx.pages
      BY <1>4, <1>5, <3>1
    <3>2. CASE p \notin tx.pages
      <4>1. committed[p] # 0
        BY <1>1, <2>13, <3>2 DEF With
      <4>2. p <= pageCount /\ p \in Nat
        BY <2>0, <4>1, Constants DEF Unspoilt
      <4> QED  BY <1>4, <1>5, <4>2
    <3> QED  BY <3>1, <3>2
  <2>14. m # 0 /\ wal[m].size <= tx.size
    BY <1>3, <1>5, <2>9
  <2>15. Ordered(wal', m)
    BY <1>1, <2>10
  <2> QED
    BY <1>1, <2>2, <2>3, <2>11, <2>12, <2>13, <2>14, <2>15 DEF Unspoilt, Ordered
<1> QED
  BY <1>11, <1>12, <1>13, <1>16, <1>17, <1>18 DEF Inductive

-----------------------------------------------------------------------------
(* A checkpoint.                                                           *)

\* Nothing changes.
LEMMA StutterStep == ASSUME Inductive, UNCHANGED vars PROVE Inductive'
<1> USE DEF vars, disk, engine, promised
<1>1. TypeOK' /\ Counted'
  BY DEF Inductive, TypeOK, Counted, Sane
<1>2. /\ LogEnd' = LogEnd /\ CommitSlot' = CommitSlot
      /\ \A p : ImageOf(p)' = ImageOf(p) /\ View(p)' = View(p)
  BY DEF LogEnd, NextSlot, CommitSlot, ImageOf, View
<1>3. Appending' /\ FramesWritten' /\ IndexMatches'
  BY <1>2 DEF Inductive, Appending, FramesWritten, IndexMatches
<1>4. FileMatches'
  BY FileKept DEF Inductive, FileMatches, Indexed
<1>5. Unspoilt'
  BY <1>2, FileKept DEF Inductive, Unspoilt, Ordered
<1>6. PastRecovers'
  BY PastKept DEF Inductive
<1>7. ClosedRecovers'
  BY RecoversKept DEF Inductive, ClosedRecovers
<1> QED  BY <1>1, <1>3, <1>4, <1>5, <1>6, <1>7 DEF Inductive

\* While the process lives, a step that touches neither the log nor the index
\* nor the transaction, and leaves the file's pages as good as they were, keeps
\* what the engine knows of its log.
LEMMA LogKept ==
    ASSUME Inductive, mode \in Live, mode' \in Live, mode # "append", mode' # "append",
           UNCHANGED <<wal, walDisk, walPast, index, writeOffset, version, dbSize,
                       pageCount, tx, doubt, begun, crashes, committed, spoilt>>,
           mode' # "fold" => toWrite' = {}
    PROVE  Appending' /\ FramesWritten' /\ IndexMatches' /\ ClosedRecovers'
           /\ LogEnd' = LogEnd /\ Indexed' = Indexed
<1>1. Appending' /\ FramesWritten' /\ ClosedRecovers'
  BY DEF Inductive, Appending, FramesWritten, ClosedRecovers
<1>2. IndexMatches'
  BY DEF Inductive, IndexMatches
<1> QED  BY <1>1, <1>2 DEF LogEnd, Indexed

\* A checkpoint of an empty log would find a page all the same: a page indexed
\* is in every log that a crash may leave, and no such log is empty.
LEMMA NotEmpty ==
    ASSUME NEW w, NEW p, Logged(w, p)
    PROVE  LastCommitted(w) # 0
BY DEF Logged, SlotsOf

LEMMA BeginCheckpointStep == ASSUME Inductive, BeginCheckpoint PROVE Inductive'
<1>1. /\ mode = "idle" /\ mode' = "fold" /\ mode \in Live /\ mode' \in Live
      /\ Indexed # {} /\ toWrite' = Indexed
      /\ UNCHANGED <<file, fileLen, fileDisk, lenDisk, wal, walDisk, walPast, index,
                     writeOffset, version, dbSize, pageCount, tx, doubt, begun, crashes,
                     committed, spoilt>>
  BY DEF BeginCheckpoint, disk, engine, promised, Live
<1>2. TypeOK' /\ Counted'
  BY <1>1 DEF Inductive, TypeOK, Counted, Sane, Indexed, Modes, Live
<1>3. /\ Appending' /\ FramesWritten' /\ IndexMatches' /\ ClosedRecovers'
      /\ LogEnd' = LogEnd /\ Indexed' = Indexed
  BY <1>1, LogKept
<1>4. FileMatches'
  BY <1>1, <1>3, FileKept DEF Inductive, FileMatches
<1>5. Unspoilt'
  <2>1. \A p : View(p)' = View(p)
    BY <1>1 DEF View
  <2> QED  BY <1>1, <1>3, <2>1, FileKept DEF Inductive, Unspoilt, Ordered
<1>6. PastRecovers'
  BY <1>1, PastKept DEF Inductive
<1> QED  BY <1>2, <1>3, <1>4, <1>5, <1>6 DEF Inductive

LEMMA CheckpointFailStep == ASSUME Inductive, CheckpointFail PROVE Inductive'
<1>1. /\ mode \in {"fold", "sync", "truncate"} /\ mode' = "idle"
      /\ mode \in Live /\ mode' \in Live /\ toWrite' = {} /\ mode # "append"
      /\ UNCHANGED <<file, fileLen, fileDisk, lenDisk, wal, walDisk, walPast, index,
                     writeOffset, version, dbSize, pageCount, tx, doubt, begun, crashes,
                     committed, spoilt>>
  BY DEF CheckpointFail, disk, engine, promised, Live
<1>2. TypeOK' /\ Counted'
  BY <1>1 DEF Inductive, TypeOK, Counted, Sane, Modes, Live
<1>3. /\ Appending' /\ FramesWritten' /\ IndexMatches' /\ ClosedRecovers'
      /\ LogEnd' = LogEnd /\ Indexed' = Indexed
  BY <1>1, LogKept
<1>4. FileMatches'
  BY <1>1, <1>3, FileKept DEF Inductive, FileMatches
<1>5. Unspoilt'
  <2>1. \A p : View(p)' = View(p)
    BY <1>1 DEF View
  <2> QED  BY <1>1, <1>3, <2>1, FileKept DEF Inductive, Unspoilt, Ordered
<1>6. PastRecovers'
  BY <1>1, PastKept DEF Inductive
<1> QED  BY <1>2, <1>3, <1>4, <1>5, <1>6 DEF Inductive

\* What a write leaves on disk is an image, the new one among others, and not
\* torn where old and new agree on the body.
LEMMA LandedIs ==
    ASSUME NEW S \in SUBSET Images, NEW img \in Images
    PROVE  /\ Landed(S, img) \subseteq Images /\ img \in Landed(S, img)
           /\ (\A i \in S : i.body = img.body) => \A i \in Landed(S, img) : i.body = img.body
<1> DEFINE bodies == {i.body : i \in S} \cup {img.body}
           B == IF bodies = {img.body} THEN bodies ELSE bodies \cup {Torn}
           H == {i.hdr : i \in S} \cup {img.hdr}
<1>1. Landed(S, img) = [body : B, hdr : H]
  BY DEF Landed
<1>2. \A i \in Images : i.body \in Bodies \cup {Torn} /\ i.hdr \in Headers
                        /\ i = [body |-> i.body, hdr |-> i.hdr]
  BY DEF Images
<1>3. B \subseteq Bodies \cup {Torn} /\ H \subseteq Headers
  BY <1>2
<1>4. img.body \in B /\ img.hdr \in H
  OBVIOUS
<1>5. (\A i \in S : i.body = img.body) => B = {img.body}
  OBVIOUS
<1> HIDE DEF B, H
<1>6. Landed(S, img) \subseteq Images
  <2>1. \A i \in [body : B, hdr : H] :
           i.body \in B /\ i.hdr \in H /\ i = [body |-> i.body, hdr |-> i.hdr]
    OBVIOUS
  <2>2. \A b \in Bodies \cup {Torn}, h \in Headers : [body |-> b, hdr |-> h] \in Images
    BY DEF Images
  <2>3. \A i \in [body : B, hdr : H] : i \in Images
    <3> SUFFICES ASSUME NEW i \in [body : B, hdr : H] PROVE i \in Images
      OBVIOUS
    <3>1. i.body \in Bodies \cup {Torn} /\ i.hdr \in Headers
      BY <1>3, <2>1
    <3>2. [body |-> i.body, hdr |-> i.hdr] \in Images
      BY <2>2, <3>1
    <3> QED  BY <2>1, <3>2
  <2> QED  BY <1>1, <2>3, Zenon
<1>7. img \in Landed(S, img)
  BY <1>1, <1>2, <1>4
<1>8. (\A i \in S : i.body = img.body) => \A i \in Landed(S, img) : i.body = img.body
  BY <1>1, <1>5
<1> QED  BY <1>6, <1>7, <1>8

\* A checkpoint changes page q of the file, which the log holds, or keeps its
\* body; every other page stays.
LEMMA FileChanged ==
    ASSUME Inductive, mode \in Live, NEW q \in Pages,
           UNCHANGED <<index, committed, spoilt, doubt, walPast, lenDisk>>,
           mode' \in Live,
           \A p \in Pages : p # q => file'[p] = file[p] /\ fileDisk'[p] = fileDisk[p],
           Indexed # {},
           q \in Indexed \/ (file'[q].body = file[q].body
                               /\ (Sound(q) => \A i \in fileDisk'[q] : i.body = file[q].body))
    PROVE  /\ \A p \in Pages : index[p] = NoEntry => Sound(p)'
           /\ \A p \in Pages : View(p)'.body = View(p).body
           /\ PastRecovers'
           /\ writeOffset # 0
<1>1. \A p \in Pages : p \in Indexed <=> index[p] # NoEntry
  BY DEF Indexed
<1>2. ASSUME NEW p \in Pages, p \notin Indexed, Sound(p) PROVE Sound(p)'
  <2>1. CASE p = q
    BY <1>2, <2>1 DEF Sound
  <2>2. CASE p # q
    BY <1>2, <2>2 DEF Sound
  <2> QED  BY <2>1, <2>2
<1>3. \A p \in Pages : index[p] = NoEntry => Sound(p)'
  BY <1>1, <1>2 DEF Inductive, FileMatches
<1>4. ASSUME NEW p \in Pages PROVE View(p)'.body = View(p).body
  <2>1. CASE index[p] # NoEntry
    BY <2>1 DEF View
  <2>2. CASE index[p] = NoEntry
    <3>1. file'[p].body = file[p].body
      BY <1>1, <2>2
    <3> QED  BY <2>2, <3>1 DEF View
  <2> QED  BY <2>1, <2>2
<1>5. ASSUME NEW D \in walPast, NEW w \in LogsOf(D)
      PROVE  Recovers(w)' /\ \A p \in Indexed' : Logged(w, p)'
  <2>1. Recovers(w) /\ \A p \in Indexed : Logged(w, p)
    BY DEF Inductive, PastRecovers
  <2>2. Indexed' = Indexed /\ \A p \in Pages : Logged(w, p)' <=> Logged(w, p)
    BY DEF Indexed, Logged
  <2>3. LastCommitted(w) # 0
    BY <2>1, NotEmpty
  <2>4. \A p \in Pages : Logged(w, p) \/ Sound(p)'
    BY <1>2, <2>1 DEF Recovers
  <2>5. \A p \in Pages : Found(w, p)' = Found(w, p)
    <3> SUFFICES ASSUME NEW p \in Pages PROVE Found(w, p)' = Found(w, p)
      OBVIOUS
    <3>1. CASE Logged(w, p)
      BY <2>2, <3>1 DEF Found
    <3>2. CASE ~Logged(w, p)
      <4>1. file'[p].body = file[p].body
        BY <2>1, <3>2
      <4> QED  BY <2>2, <3>2, <4>1 DEF Found
    <3> QED  BY <3>1, <3>2
  <2>6. Outcomes' = Outcomes
    BY DEF Outcomes, With
  <2>7. Recovers(w)'
    BY <2>1, <2>2, <2>3, <2>4, <2>5, <2>6 DEF Recovers
  <2> QED  BY <2>1, <2>2, <2>7 DEF Indexed
<1>6. PastRecovers'
  <2>1. \A D : LogsOf(D)' = LogsOf(D)
    BY DEF LogsOf
  <2> QED  BY <1>5, <2>1 DEF PastRecovers
<1>7. writeOffset # 0
  <2>1. PICK p \in Pages : index[p] # NoEntry
    BY DEF Indexed
  <2>2. SlotsOf(wal, writeOffset, p) # {}
    BY <2>1 DEF Inductive, IndexMatches
  <2> QED  BY <2>2 DEF SlotsOf
<1> QED  BY <1>3, <1>4, <1>6, <1>7

\* The next page is folded into the file.
LEMMA FoldPageStep == ASSUME Inductive, FoldPage PROVE Inductive'
<1> DEFINE q == Min(toWrite)
<1>1. /\ mode = "fold" /\ mode' = "fold" /\ mode \in Live /\ mode' \in Live
      /\ toWrite # {} /\ toWrite' = toWrite \ {q}
      /\ file' = [file EXCEPT ![q] = index[q].img]
      /\ fileDisk' = [fileDisk EXCEPT ![q] = Landed(@, index[q].img)]
      /\ fileLen' = Max({fileLen, q})
      /\ UNCHANGED <<lenDisk, wal, walDisk, walPast, index,
                     writeOffset, version, dbSize, pageCount, tx, doubt, begun, crashes,
                     committed, spoilt>>
  BY DEF FoldPage, WriteFile, engine, promised, Live
<1>2. TypeOK /\ Counted /\ FileMatches
  BY DEF Inductive
<1>3. Indexed # {} /\ toWrite \subseteq Indexed /\ Indexed \subseteq Pages
  BY <1>1, <1>2 DEF FileMatches, Indexed
<1>4. q \in toWrite
  <2>1. toWrite \subseteq Nat
    BY <1>3, Constants
  <2> QED  BY <1>1, <2>1, MinIsLeast
<1>5. q \in Indexed /\ q \in Pages /\ index[q] # NoEntry
  BY <1>3, <1>4 DEF Indexed
<1> HIDE DEF q
<1>6. index[q].img \in Images
  BY <1>1, <1>5, ViewSound DEF View
<1>7. fileLen' \in Pages /\ fileLen <= fileLen' /\ q <= fileLen'
  <2>1. fileLen \in Pages /\ fileLen \in Nat /\ q \in Nat /\ NumPages \in Nat
    BY <1>2, <1>5, Constants DEF TypeOK
  <2>2. {fileLen, q} \subseteq Nat /\ {fileLen, q} # {} /\ \A k \in {fileLen, q} : k <= NumPages
    BY <1>5, <2>1 DEF Pages
  <2>3. /\ Max({fileLen, q}) \in {fileLen, q}
        /\ \A k \in {fileLen, q} : Max({fileLen, q}) >= k
    BY <2>1, <2>2, MaxIsGreatest
  <2> QED  BY <1>1, <1>5, <2>1, <2>3
<1>8. /\ Landed(fileDisk[q], index[q].img) \subseteq Images
      /\ index[q].img \in Landed(fileDisk[q], index[q].img)
  BY <1>2, <1>5, <1>6, LandedIs DEF TypeOK
<1>9. /\ \A p \in Pages : p # q => file'[p] = file[p] /\ fileDisk'[p] = fileDisk[p]
      /\ file'[q] = index[q].img /\ fileDisk'[q] = Landed(fileDisk[q], index[q].img)
  BY <1>1, <1>2, <1>5 DEF TypeOK
<1>10. TypeOK'
  <2>1. file' \in [Pages -> Images] /\ fileDisk' \in [Pages -> SUBSET Images]
    BY <1>1, <1>2, <1>6, <1>8 DEF TypeOK
  <2>2. toWrite' \in SUBSET Pages
    BY <1>1, <1>3
  <2> QED  BY <1>1, <1>2, <1>7, <2>1, <2>2 DEF TypeOK
<1>11. Counted'
  <2>1. \A p \in Pages : file'[p] \in fileDisk'[p]
    BY <1>2, <1>8, <1>9 DEF Counted
  <2>2. lenDisk <= fileLen'
    BY <1>2, <1>7, Constants DEF TypeOK, Counted
  <2> QED  BY <1>1, <1>2, <2>1, <2>2 DEF Counted, Sane
<1>12. /\ Appending' /\ FramesWritten' /\ IndexMatches' /\ ClosedRecovers'
       /\ LogEnd' = LogEnd /\ Indexed' = Indexed
  BY <1>1, LogKept
<1>13. /\ \A p \in Pages : index[p] = NoEntry => Sound(p)'
       /\ \A p \in Pages : View(p)'.body = View(p).body
       /\ PastRecovers' /\ writeOffset # 0
  BY <1>1, <1>3, <1>5, <1>9, FileChanged
<1>14. FileMatches'
  <2>1. ASSUME NEW p \in Indexed \ toWrite'
        PROVE  p <= fileLen' /\ file'[p].body = index[p].img.body
    <3>1. CASE p = q
      BY <1>7, <1>9, <3>1
    <3>2. CASE p # q
      <4>1. p <= fileLen /\ file[p].body = index[p].img.body
        BY <1>1, <1>2, <2>1, <3>2 DEF FileMatches
      <4>2. p \in Nat /\ fileLen \in Nat /\ fileLen' \in Nat
        BY <1>2, <1>3, <1>7, Constants DEF TypeOK
      <4> QED  BY <1>3, <1>7, <1>9, <3>2, <4>1, <4>2
    <3> QED  BY <3>1, <3>2
  <2>2. toWrite' \subseteq Indexed
    BY <1>1, <1>3
  <2> QED  BY <1>1, <1>3, <1>12, <1>13, <2>1, <2>2 DEF FileMatches
<1>15. Unspoilt'
  BY <1>1, <1>12, <1>13 DEF Inductive, Unspoilt, Ordered
<1> QED
  BY <1>10, <1>11, <1>12, <1>13, <1>14, <1>15 DEF Inductive

\* The header of page 1 is rewritten.
LEMMA WriteHeaderStep == ASSUME Inductive, WriteHeader PROVE Inductive'
<1> DEFINE img == [file[1] EXCEPT !.hdr = FileHeader]
<1>1. /\ mode = "fold" /\ mode' = "sync" /\ mode \in Live /\ mode' \in Live
      /\ toWrite = {} /\ toWrite' = {}
      /\ file' = [file EXCEPT ![1] = img]
      /\ fileDisk' = [fileDisk EXCEPT ![1] = Landed(@, img)]
      /\ fileLen' = Max({fileLen, 1})
      /\ UNCHANGED <<lenDisk, wal, walDisk, walPast, index,
                     writeOffset, version, dbSize, pageCount, tx, doubt, begun, crashes,
                     committed, spoilt>>
  BY DEF WriteHeader, WriteFile, engine, promised, Live
<1>2. TypeOK /\ Counted /\ FileMatches
  BY DEF Inductive
<1>3. Indexed # {}
  BY <1>1, <1>2 DEF FileMatches
<1>4. /\ fileLen \in Nat /\ 1 <= fileLen /\ fileLen <= NumPages /\ fileLen \in Pages
      /\ dbSize \in Nat /\ dbSize <= NumPages /\ NumPages \in Nat
  BY <1>2, PagesAssumption DEF TypeOK, Pages
<1>5. /\ Max({fileLen, 1}) = fileLen
      /\ fileLen <= Max({fileLen, dbSize}) /\ Max({fileLen, dbSize}) \in 0..NumPages
  <2>1. /\ {fileLen, 1} \subseteq Nat /\ {fileLen, 1} # {}
        /\ {fileLen, dbSize} \subseteq Nat /\ {fileLen, dbSize} # {}
        /\ \A k \in {fileLen, 1} : k <= NumPages
        /\ \A k \in {fileLen, dbSize} : k <= NumPages
    BY <1>4
  <2>2. /\ Max({fileLen, 1}) \in {fileLen, 1}
        /\ \A k \in {fileLen, 1} : Max({fileLen, 1}) >= k
    BY <1>4, <2>1, MaxIsGreatest
  <2>3. /\ Max({fileLen, dbSize}) \in {fileLen, dbSize}
        /\ \A k \in {fileLen, dbSize} : Max({fileLen, dbSize}) >= k
    BY <1>4, <2>1, MaxIsGreatest
  <2> QED  BY <1>4, <2>2, <2>3
<1>6. /\ FileHeader \in Headers /\ FileHeader.magic = TRUE
      /\ fileLen <= FileHeader.size
  <2>1. file[1].hdr.user \in Users
    BY <1>2, Constants DEF TypeOK, Images, Headers
  <2> QED  BY <1>5, <2>1 DEF FileHeader, Headers
<1>7. img \in Images /\ img.body = file[1].body /\ img.hdr = FileHeader
  <2>1. file[1] \in Images
    BY <1>2, Constants DEF TypeOK
  <2> QED  BY <1>6, <2>1 DEF Images
<1> HIDE DEF img
<1>8. /\ Landed(fileDisk[1], img) \subseteq Images /\ img \in Landed(fileDisk[1], img)
      /\ (\A i \in fileDisk[1] : i.body = img.body)
           => \A i \in Landed(fileDisk[1], img) : i.body = img.body
  <2>1. fileDisk[1] \in SUBSET Images
    BY <1>2, Constants DEF TypeOK
  <2> QED  BY <1>7, <2>1, LandedIs
<1>9. /\ \A p \in Pages : p # 1 => file'[p] = file[p] /\ fileDisk'[p] = fileDisk[p]
      /\ file'[1] = img /\ fileDisk'[1] = Landed(fileDisk[1], img)
  BY <1>1, <1>2, Constants DEF TypeOK
<1>10. TypeOK'
  <2>1. file' \in [Pages -> Images] /\ fileDisk' \in [Pages -> SUBSET Images]
    BY <1>1, <1>2, <1>7, <1>8 DEF TypeOK
  <2>2. fileLen' \in Pages /\ mode' \in Modes
    BY <1>1, <1>4, <1>5 DEF Modes
  <2> QED  BY <1>1, <1>2, <2>1, <2>2 DEF TypeOK
<1>11. Counted'
  <2>1. \A p \in Pages : file'[p] \in fileDisk'[p]
    BY <1>2, <1>8, <1>9 DEF Counted
  <2>2. lenDisk <= fileLen'
    BY <1>1, <1>2, <1>5 DEF Counted
  <2> QED  BY <1>1, <1>2, <2>1, <2>2 DEF Counted, Sane
<1>12. /\ Appending' /\ FramesWritten' /\ IndexMatches' /\ ClosedRecovers'
       /\ LogEnd' = LogEnd /\ Indexed' = Indexed
  BY <1>1, LogKept
<1>13. /\ \A p \in Pages : index[p] = NoEntry => Sound(p)'
       /\ \A p \in Pages : View(p)'.body = View(p).body
       /\ PastRecovers' /\ writeOffset # 0
  <2>1. /\ file'[1].body = file[1].body
        /\ Sound(1) => \A i \in fileDisk'[1] : i.body = file[1].body
    BY <1>7, <1>8, <1>9 DEF Sound
  <2> QED  BY <1>1, <1>3, <1>9, <2>1, Constants, FileChanged
<1>14. FileMatches'
  <2>1. \A p \in Indexed : p <= fileLen' /\ file'[p].body = index[p].img.body
    BY <1>1, <1>2, <1>5, <1>7, <1>9 DEF FileMatches, Indexed
  <2> QED  BY <1>1, <1>3, <1>12, <1>13, <2>1 DEF FileMatches
<1>15. Covered'
  BY <1>1, <1>5, <1>6, <1>7, <1>9 DEF Covered
<1>16. Unspoilt'
  BY <1>1, <1>12, <1>13, <1>15 DEF Inductive, Unspoilt, Ordered
<1> QED
  BY <1>10, <1>11, <1>12, <1>13, <1>14, <1>16 DEF Inductive

\* The file is synced.
LEMMA CheckpointSyncStep == ASSUME Inductive, CheckpointSync PROVE Inductive'
<1>1. /\ mode = "sync" /\ mode' = "truncate" /\ mode \in Live /\ mode' \in Live
      /\ fileDisk' = [p \in Pages |-> {file[p]}] /\ lenDisk' = fileLen
      /\ toWrite = {} /\ toWrite' = {}
      /\ UNCHANGED <<file, fileLen, wal, walDisk, walPast, index,
                     writeOffset, version, dbSize, pageCount, tx, doubt, begun, crashes,
                     committed, spoilt>>
  BY DEF CheckpointSync, SyncFile, engine, promised, Live, Inductive, Appending
<1>2. TypeOK /\ Counted /\ FileMatches
  BY DEF Inductive
<1>3. \A p \in Pages : fileDisk'[p] = {file[p]}
  BY <1>1
<1>4. TypeOK'
  BY <1>1, <1>2 DEF TypeOK, Modes, Live
<1>5. Counted'
  <2>1. lenDisk' <= fileLen'
    BY <1>1, <1>2, Constants DEF TypeOK
  <2> QED  BY <1>1, <1>2, <1>3, <2>1 DEF Counted, Sane
<1>6. /\ Appending' /\ FramesWritten' /\ IndexMatches' /\ ClosedRecovers'
      /\ LogEnd' = LogEnd /\ Indexed' = Indexed
  BY <1>1, LogKept
<1>7. ASSUME NEW p \in Pages, Sound(p) PROVE Sound(p)'
  <2>1. p > fileLen => p > lenDisk
    BY <1>2, Constants DEF TypeOK, Counted
  <2> QED  BY <1>1, <1>3, <1>7, <2>1 DEF Sound
<1>8. Settled => Settled'
  BY <1>1, <1>3 DEF Settled, Covered
<1>9. FileMatches'
  BY <1>1, <1>2, <1>3, <1>6, <1>7 DEF FileMatches
<1>10. Unspoilt'
  <2>1. \A p : View(p)' = View(p)
    BY <1>1 DEF View
  <2>2. Covered' <=> Covered
    BY <1>1 DEF Covered
  <2> QED  BY <1>1, <1>6, <1>8, <2>1, <2>2 DEF Inductive, Unspoilt, Ordered
<1>11. PastRecovers'
  <2> SUFFICES ASSUME NEW D \in walPast, NEW w \in LogsOf(D)
               PROVE  Recovers(w)' /\ \A p \in Indexed' : Logged(w, p)'
    BY <1>1 DEF PastRecovers, LogsOf
  <2>1. Recovers(w) /\ \A p \in Indexed : Logged(w, p)
    BY <1>1 DEF Inductive, PastRecovers
  <2>2. \A p \in Pages : (Logged(w, p)' <=> Logged(w, p)) /\ Found(w, p)' = Found(w, p)
    BY <1>1 DEF Logged, Found
  <2>3. Outcomes' = Outcomes
    BY <1>1 DEF Outcomes, With
  <2>4. Recovers(w)'
    BY <1>1, <1>7, <1>8, <2>1, <2>2, <2>3 DEF Recovers
  <2> QED  BY <1>6, <2>1, <2>2, <2>4 DEF Indexed
<1> QED
  BY <1>4, <1>5, <1>6, <1>9, <1>10, <1>11 DEF Inductive

\* The log is cut off and the index emptied.
LEMMA TruncateStep == ASSUME Inductive, Truncate PROVE Inductive'
<1>1. /\ mode = "truncate" /\ mode' = "idle" /\ mode \in Live /\ mode' \in Live
      /\ wal' = [i \in Slots |-> IF i <= 0 THEN wal[i] ELSE Bad]
      /\ walDisk' = [i \in Slots |-> IF i <= 0 THEN walDisk[i] ELSE {Bad}]
      /\ walPast' = walPast \cup {walDisk}
      /\ writeOffset' = 0 /\ index' = [p \in Pages |-> NoEntry]
      /\ toWrite = {} /\ toWrite' = {} /\ tx = NoTx
      /\ UNCHANGED <<file, fileLen, fileDisk, lenDisk, version, dbSize, pageCount, tx,
                     doubt, begun, crashes, committed, spoilt>>
  BY DEF Truncate, SetLen, promised, Live, Inductive, Appending
<1>2. TypeOK /\ Counted /\ FileMatches
  BY DEF Inductive
<1>3. \A i \in Slots : wal'[i] = Bad /\ walDisk'[i] = {Bad}
  BY <1>1, Constants
<1>4. Indexed' = {} /\ \A p \in Pages : index'[p] = NoEntry
  BY <1>1 DEF Indexed
<1>5. TypeOK'
  <2>1. wal' \in [Slots -> Frames \cup {Bad}] /\ walDisk' \in SlotSets
    BY <1>1, <1>2 DEF TypeOK, SlotSets
  <2>2. 0 \in 0..MaxSlots
    BY Constants
  <2> QED  BY <1>1, <1>2, <2>1, <2>2 DEF TypeOK, Modes, Live
<1>6. Counted'
  <2>1. \A f : Sane(f)' <=> Sane(f)
    BY <1>1 DEF Sane
  <2>2. Sane(Bad)
    BY DEF Sane
  <2> QED  BY <1>1, <1>2, <1>3, <2>1, <2>2 DEF Counted
<1>7. Appending' /\ FramesWritten' /\ ClosedRecovers'
  BY <1>1 DEF Appending, FramesWritten, ClosedRecovers
<1>8. IndexMatches'
  <2>1. \A p \in Pages : SlotsOf(wal', 0, p) = {}
    BY DEF SlotsOf
  <2> QED  BY <1>1, <1>4, <2>1 DEF IndexMatches
<1>9. \A p \in Pages : file[p].body = View(p).body
  <2>1. \A p \in Indexed : file[p].body = index[p].img.body
    BY <1>1, <1>2 DEF FileMatches
  <2> QED  BY <2>1 DEF View, Indexed
<1>10. ASSUME NEW p \in Pages PROVE Sound(p)'
  <2>1. Sound(p)
    <3>1. CASE p \notin Indexed
      BY <1>1, <1>2, <3>1 DEF FileMatches, Indexed
    <3>2. CASE p \in Indexed
      <4>1. fileDisk[p] = {file[p]} /\ lenDisk = fileLen /\ p <= fileLen
        BY <1>1, <1>2, <3>2 DEF FileMatches
      <4>2. file[p].body # Torn
        BY <1>1, <1>9, ViewSound
      <4>3. ~(p > lenDisk)
        BY <1>2, <4>1, Constants DEF TypeOK
      <4> QED  BY <4>1, <4>2, <4>3 DEF Sound
    <3> QED  BY <3>1, <3>2
  <2> QED  BY <1>1, <2>1, FileKept
<1>11. FileMatches'
  BY <1>1, <1>10 DEF FileMatches
<1>12. Unspoilt'
  <2> SUFFICES ASSUME ~spoilt PROVE Unspoilt'
    BY <1>1 DEF Unspoilt
  <2>0. Unspoilt /\ mode \in Live
    BY <1>1 DEF Inductive
  <2>1. LogEnd' = 1
    BY <1>1 DEF LogEnd
  <2>2. \A i \in Slots : ~(0 < i /\ i < 1)
    BY Constants
  <2>3. \A p \in Pages : View(p)'.body = committed[p]
    BY <1>1, <1>4, <1>9, <2>0 DEF View, Unspoilt
  <2>4. \A p \in Pages : index'[p].ver <= version
    <3>1. NoEntry.ver = 0 /\ version \in Nat
      BY <1>2, Constants DEF NoEntry, TypeOK
    <3> QED  BY <1>4, <3>1
  <2>5. Settled'
    <3>1. Settled
      BY <1>1, <1>2, <2>0 DEF Settled, FileMatches, Unspoilt
    <3> QED  BY <1>1, <3>1, FileKept
  <2>6. Ordered(wal', 0) /\ \A i \in 1..0 : wal'[i].ver <= version
    BY DEF Ordered
  <2>7. \A p \in Pages : committed[p] # 0 => p <= pageCount
    BY <2>0 DEF Unspoilt
  <2> QED
    BY <1>1, <1>3, <2>1, <2>2, <2>3, <2>4, <2>5, <2>6, <2>7 DEF Unspoilt, Ordered
<1>13. PastRecovers'
  <2> SUFFICES ASSUME NEW D \in walPast \cup {walDisk}, NEW w \in LogsOf(D)
               PROVE  Recovers(w)'
    BY <1>1, <1>4 DEF PastRecovers, LogsOf
  <2>1. Recovers(w)
    BY <1>1, LiveRecovers DEF Inductive, PastRecovers
  <2> QED  BY <1>1, <2>1, RecoversKept
<1> QED
  BY <1>5, <1>6, <1>7, <1>8, <1>11, <1>12, <1>13 DEF Inductive

-----------------------------------------------------------------------------
(* Crashes, and the next open.                                             *)

\* Every log a crash may leave recovers, whether a process was there or not.
LEMMA CrashRecovers ==
    ASSUME Inductive, NEW D \in walPast \cup {walDisk}, NEW w \in LogsOf(D)
    PROVE  Recovers(w)
<1>1. CASE D \in walPast
  BY <1>1 DEF Inductive, PastRecovers
<1>2. CASE D = walDisk /\ mode \in Live
  BY <1>2, LiveRecovers
<1>3. CASE D = walDisk /\ mode \notin Live
  <2>1. \A i \in Slots : walDisk[i] = {wal[i]}
    BY <1>3 DEF Inductive, ClosedRecovers
  <2>2. w = wal
    <3>1. wal \in [Slots -> Frames \cup {Bad}]
      BY DEF Inductive, TypeOK
    <3>2. \A i \in Slots : w[i] = wal[i]
      BY <1>3, <2>1 DEF LogsOf
    <3>3. w = [i \in Slots |-> w[i]] /\ wal = [i \in Slots |-> wal[i]]
      BY <3>1 DEF LogsOf
    <3> QED  BY <3>2, <3>3
  <2> QED  BY <1>3, <2>2 DEF Inductive, ClosedRecovers
<1> QED  BY <1>1, <1>2, <1>3

\* What the operating system returns of the log is among what it may leave.
LEMMA WalLeft == ASSUME Inductive PROVE wal \in LogsOf(walDisk)
<1>1. wal \in [Slots -> Frames \cup {Bad}] /\ \A i \in Slots : wal[i] \in walDisk[i]
  BY DEF Inductive, TypeOK, Counted
<1> QED  BY <1>1 DEF LogsOf

\* A process that is gone leaves nothing of the engine's state.
LEMMA Stopped ==
    ASSUME Inductive, Stop, crashes < MaxCrashes, crashes' = crashes + 1
    PROVE  /\ mode' = "closed" /\ mode' \notin Live /\ mode' \in Modes
           /\ UNCHANGED <<doubt, begun, committed, spoilt>>
           /\ index' \in [Pages -> Entries \cup {NoEntry}]
           /\ writeOffset' \in 0..MaxSlots /\ version' \in 0..MaxTx
           /\ dbSize' \in 0..NumPages /\ pageCount' \in 0..NumPages
           /\ tx' \in Transactions /\ toWrite' \in SUBSET Pages
           /\ crashes' \in 0..MaxCrashes
           /\ version' <= begun' /\ tx'.id <= begun'
           /\ Appending' /\ FramesWritten' /\ IndexMatches' /\ FileMatches' /\ Unspoilt'
<1> USE DEF Stop, promised
<1>1. /\ mode' = "closed" /\ mode' \notin Live /\ mode' \in Modes /\ tx' = NoTx
      /\ toWrite' = {} /\ index' = [p \in Pages |-> NoEntry] /\ writeOffset' = 0
      /\ version' = 0 /\ dbSize' = 0 /\ pageCount' = 0
      /\ UNCHANGED <<doubt, begun, committed, spoilt>>
  BY DEF Live, Modes
<1>2. NoTx \in Transactions /\ NoTx.id = 0
  BY Constants, BoundsAssumption DEF NoTx, Transactions, Users
<1>3. begun \in Nat /\ crashes' \in 0..MaxCrashes
  BY Constants, BoundsAssumption DEF Inductive, TypeOK
<1>4. Appending' /\ FramesWritten' /\ IndexMatches' /\ FileMatches' /\ Unspoilt'
  BY <1>1 DEF Appending, FramesWritten, IndexMatches, FileMatches, Unspoilt
<1>5. 0 \in 0..MaxSlots /\ 0 \in 0..MaxTx /\ 0 \in 0..NumPages /\ 0 <= begun
  BY <1>3, Constants
<1> QED  BY <1>1, <1>2, <1>3, <1>4, <1>5

\* The process ends.
LEMMA ExitStep == ASSUME ~LateFlush, Inductive, Exit PROVE Inductive'
<1>1. /\ Stop /\ crashes < MaxCrashes /\ crashes' = crashes + 1
      /\ walDisk' = [i \in Slots |-> {wal[i]}] /\ walPast' = {}
      /\ UNCHANGED <<file, fileLen, fileDisk, lenDisk, wal>>
  BY DEF Exit, SyncWal
<1>2. /\ mode' \notin Live /\ mode' \in Modes
      /\ UNCHANGED <<doubt, begun, committed, spoilt>>
      /\ index' \in [Pages -> Entries \cup {NoEntry}]
      /\ writeOffset' \in 0..MaxSlots /\ version' \in 0..MaxTx
      /\ dbSize' \in 0..NumPages /\ pageCount' \in 0..NumPages
      /\ tx' \in Transactions /\ toWrite' \in SUBSET Pages
      /\ crashes' \in 0..MaxCrashes
      /\ version' <= begun' /\ tx'.id <= begun'
      /\ Appending' /\ FramesWritten' /\ IndexMatches' /\ FileMatches' /\ Unspoilt'
  BY <1>1, Stopped
<1>3. TypeOK'
  <2>1. walDisk' \in SlotSets
    BY <1>1 DEF Inductive, TypeOK, SlotSets
  <2> QED  BY <1>1, <1>2, <2>1 DEF Inductive, TypeOK
<1>4. Counted'
  BY <1>1, <1>2 DEF Inductive, Counted, Sane
<1>5. PastRecovers'
  BY <1>1 DEF PastRecovers
<1>6. ClosedRecovers'
  <2>1. Recovers(wal)
    BY CrashRecovers, WalLeft
  <2>2. Recovers(wal)'
    BY <1>1, <1>2, <2>1, RecoversKept
  <2> QED  BY <1>1, <2>2 DEF ClosedRecovers
<1> QED  BY <1>2, <1>3, <1>4, <1>5, <1>6 DEF Inductive

\* The power fails.
LEMMA PowerLossStep == ASSUME Inductive, PowerLoss PROVE Inductive'
<1>1. /\ Stop /\ crashes < MaxCrashes /\ crashes' = crashes + 1
      /\ walPast' = {} /\ fileLen' \in lenDisk..fileLen /\ lenDisk' = fileLen'
      /\ walDisk' = [i \in Slots |-> {wal'[i]}]
      /\ fileDisk' = [p \in Pages |-> {file'[p]}]
  BY DEF PowerLoss
<1>2. PICK D \in walPast \cup {walDisk} :
         wal' \in {w \in [Slots -> UNION {D[i] : i \in Slots}] : \A i \in Slots : w[i] \in D[i]}
  BY DEF PowerLoss
<1>3. PICK v \in LogsOf(D) : wal' = v
  BY <1>2 DEF LogsOf
<1>4. /\ \A p \in Pages : file'[p] \in (IF p <= fileLen' THEN fileDisk[p] ELSE {Blank})
      /\ file' \in [Pages -> UNION {fileDisk[p] : p \in Pages} \cup {Blank}]
  BY DEF PowerLoss
<1>5. Recovers(v)
  BY CrashRecovers
<1>6. /\ mode' \notin Live /\ mode' \in Modes
      /\ UNCHANGED <<doubt, begun, committed, spoilt>>
      /\ index' \in [Pages -> Entries \cup {NoEntry}]
      /\ writeOffset' \in 0..MaxSlots /\ version' \in 0..MaxTx
      /\ dbSize' \in 0..NumPages /\ pageCount' \in 0..NumPages
      /\ tx' \in Transactions /\ toWrite' \in SUBSET Pages
      /\ crashes' \in 0..MaxCrashes
      /\ version' <= begun' /\ tx'.id <= begun'
      /\ Appending' /\ FramesWritten' /\ IndexMatches' /\ FileMatches' /\ Unspoilt'
  BY <1>1, Stopped
<1>7. TypeOK /\ Counted
  BY DEF Inductive
<1>8. /\ lenDisk \in Nat /\ fileLen \in Nat /\ fileLen' \in Nat
      /\ 1 <= lenDisk /\ lenDisk <= fileLen' /\ fileLen' <= fileLen /\ fileLen' \in Pages
      /\ fileLen <= NumPages
  BY <1>1, <1>7, PagesAssumption DEF TypeOK, Pages
<1>9. Blank \in Images /\ Blank.body = 0 /\ Torn # 0
  <2>1. Zeroed \in Headers
    BY BoundsAssumption, Constants DEF Zeroed, Headers, Users
  <2> QED  BY <2>1, Constants DEF Blank, Images
<1>10. \A i \in Slots : v[i] \in D[i] /\ v[i] \in Frames \cup {Bad}
  <2>1. \A i \in Slots : v[i] \in D[i]
    BY DEF LogsOf
  <2>2. D \in SlotSets
    BY <1>7 DEF TypeOK
  <2> QED  BY <2>1, <2>2 DEF SlotSets
<1>11. TypeOK'
  <2>1. wal' \in [Slots -> Frames \cup {Bad}] /\ walDisk' \in SlotSets
    <3>1. wal' \in [Slots -> Frames \cup {Bad}]
      BY <1>3, <1>10 DEF LogsOf
    <3> QED  BY <1>1, <3>1 DEF SlotSets
  <2>2. file' \in [Pages -> Images]
    <3>1. \A p \in Pages : file'[p] \in Images
      BY <1>4, <1>7, <1>9 DEF TypeOK
    <3> QED  BY <1>4, <3>1
  <2>3. fileDisk' \in [Pages -> SUBSET Images]
    BY <1>1, <2>2
  <2> QED  BY <1>1, <1>6, <1>7, <1>8, <2>1, <2>2, <2>3 DEF TypeOK
<1>12. Counted'
  <2>1. \A i \in Slots : Sane(v[i])'
    BY <1>6, <1>7, <1>10 DEF Counted, Sane
  <2>2. \A i \in Slots : \A f \in walDisk'[i] : Sane(f)'
    BY <1>1, <1>3, <2>1
  <2>3. \A i \in Slots : wal'[i] \in walDisk'[i]
    BY <1>1
  <2>4. \A p \in Pages : file'[p] \in fileDisk'[p]
    BY <1>1
  <2>5. lenDisk' <= fileLen'
    BY <1>1, <1>8
  <2> QED  BY <1>1, <1>6, <2>2, <2>3, <2>4, <2>5 DEF Counted
<1>13. ASSUME NEW p \in Pages, Sound(p)
       PROVE  file'[p].body = file[p].body /\ Sound(p)'
  <2>0. p \in Nat
    BY Constants
  <2>1. file'[p].body = file[p].body
    <3>1. CASE p <= fileLen'
      BY <1>4, <1>13, <3>1 DEF Sound
    <3>2. CASE ~(p <= fileLen')
      BY <1>4, <1>8, <1>9, <1>13, <2>0, <3>2 DEF Sound
    <3> QED  BY <3>1, <3>2
  <2>2. p > fileLen' => file'[p].body = 0
    BY <1>4, <1>8, <1>9, <2>0
  <2>3. file'[p].body # Torn /\ fileDisk'[p] = {file'[p]}
    BY <1>1, <1>13, <2>1 DEF Sound
  <2> QED  BY <1>1, <2>1, <2>2, <2>3 DEF Sound
<1>14. Settled => Settled'
  <2> SUFFICES ASSUME Settled PROVE Settled'
    OBVIOUS
  <2>1. file'[1] = file[1]
    BY <1>4, <1>8, Constants DEF Settled
  <2>2. file[1].hdr.size \in Nat
    <3>1. file[1].hdr.size \in 0..NumPages
      BY <1>7, Constants DEF TypeOK, Images, Headers
    <3> QED  BY <3>1, Constants
  <2> QED  BY <1>1, <1>8, <2>1, <2>2 DEF Settled, Covered
<1>15. Recovers(v)'
  <2>1. \A p \in Pages : Logged(v, p)' <=> Logged(v, p)
    BY DEF Logged
  <2>2. \A p \in Pages : Logged(v, p) \/ (Sound(p) /\ Sound(p)')
    BY <1>5, <1>13 DEF Recovers
  <2>3. \A p \in Pages : Found(v, p)' = Found(v, p)
    BY <1>13, <2>1, <2>2 DEF Found
  <2>4. Outcomes' = Outcomes
    BY <1>6 DEF Outcomes, With
  <2> QED  BY <1>5, <1>6, <1>14, <2>1, <2>2, <2>3, <2>4 DEF Recovers
<1>16. ClosedRecovers'
  <2>1. Recovers(wal)'
    BY <1>3, <1>15 DEF Recovers, Found, Logged
  <2>2. \A i \in Slots : walDisk'[i] = {wal'[i]}
    BY <1>1
  <2> QED  BY <1>1, <2>1, <2>2 DEF ClosedRecovers
<1>17. PastRecovers'
  BY <1>1 DEF PastRecovers
<1> QED  BY <1>6, <1>11, <1>12, <1>16, <1>17 DEF Inductive

\* DatabaseFile::open finds no header.
LEMMA OpenFailStep == ASSUME Inductive, OpenFail PROVE Inductive'
<1>1. /\ mode \in {"closed", "failed"} /\ mode' = "failed"
      /\ UNCHANGED <<file, fileLen, fileDisk, lenDisk, wal, walDisk, walPast, index,
                     writeOffset, version, dbSize, pageCount, tx, doubt, toWrite, begun,
                     crashes, committed, spoilt>>
  BY DEF OpenFail, disk, engine, promised
<1>2. mode \notin Live /\ mode' \notin Live /\ mode' \in Modes
  BY <1>1 DEF Live, Modes
<1>3. TypeOK' /\ Counted'
  BY <1>1, <1>2 DEF Inductive, TypeOK, Counted, Sane
<1>4. Appending' /\ FramesWritten' /\ IndexMatches' /\ FileMatches' /\ Unspoilt'
  BY <1>1, <1>2
     DEF Inductive, Appending, FramesWritten, IndexMatches, FileMatches, Unspoilt
<1>5. PastRecovers'
  BY <1>1, <1>2, PastKept DEF Inductive
<1>6. ClosedRecovers'
  <2>1. Recovers(wal)
    BY <1>2 DEF Inductive, ClosedRecovers
  <2>2. Recovers(wal)'
    BY <1>1, <2>1, RecoversKept
  <2> QED  BY <1>1, <1>2, <2>2 DEF Inductive, ClosedRecovers
<1> QED  BY <1>3, <1>4, <1>5, <1>6 DEF Inductive

\* The version counter after a replay is that of the newest commit read.
LEMMA ReplayedVersionIs ==
    ASSUME NEW w \in [Slots -> Frames \cup {Bad}], NEW n \in 0..MaxSlots, NEW b \in Nat,
           \A i \in Slots : w[i] # Bad => w[i].ver <= b
    PROVE  /\ ReplayedVersion(w, n) \in Nat /\ ReplayedVersion(w, n) <= b
           /\ \A k \in 1..n : w[k] # Bad /\ w[k].size # 0 => w[k].ver <= ReplayedVersion(w, n)
<1> DEFINE K == {k \in 1..n : w[k] # Bad /\ w[k].size # 0}
           S == {0} \cup {w[i].ver : i \in K}
<1>1. ReplayedVersion(w, n) = Max(S)
  BY DEF ReplayedVersion
<1>2. \A k \in K : w[k].ver \in Nat /\ w[k].ver <= b
  <2>1. \A k \in K : k \in Slots /\ w[k] # Bad
    BY Constants
  <2>2. \A k \in K : w[k] \in Frames
    BY <2>1
  <2> QED  BY <2>1, <2>2, FrameTypes
<1> HIDE DEF K
<1>3. S \subseteq Nat /\ S # {} /\ \A x \in S : x <= b
  BY <1>2
<1>4. Max(S) \in S /\ \A x \in S : Max(S) >= x
  <2> HIDE DEF S
  <2> QED  BY <1>3, MaxIsGreatest
<1>5. \A k \in K : w[k].ver \in S
  OBVIOUS
<1> HIDE DEF S
<1>6. /\ ReplayedVersion(w, n) \in Nat /\ ReplayedVersion(w, n) <= b
      /\ \A k \in K : w[k].ver <= ReplayedVersion(w, n)
  BY <1>1, <1>2, <1>3, <1>4, <1>5
<1> QED  BY <1>6 DEF K

\* The page count after an open covers the file and the last commit.
LEMMA OpenedPagesIs ==
    ASSUME TypeOK, NEW n \in 0..MaxSlots, n > 0 => wal[n] # Bad
    PROVE  /\ OpenedPages(n) \in 0..NumPages /\ 1 <= OpenedPages(n)
           /\ fileLen <= OpenedPages(n)
           /\ n > 0 => wal[n].size <= OpenedPages(n)
           /\ ReplayedSize(wal, n, file[1].hdr.size) \in 0..NumPages
<1> DEFINE h == file[1].hdr.size
           r == ReplayedSize(wal, n, h)
           S == {1, h, r, fileLen}
<1>1. h \in 0..NumPages /\ fileLen \in 0..NumPages /\ 1 \in 0..NumPages /\ NumPages \in Nat
  BY Constants, PagesAssumption DEF TypeOK, Images, Headers, Pages
<1>2. n > 0 => wal[n].size \in 0..NumPages
  <2>1. n > 0 => n \in Slots
    BY Constants
  <2>2. n > 0 => wal[n] \in Frames
    BY <2>1 DEF TypeOK
  <2> QED  BY <2>2, FrameTypes
<1>3. r \in 0..NumPages /\ (n > 0 => r = wal[n].size)
  BY <1>1, <1>2 DEF ReplayedSize
<1> HIDE DEF h, r
<1>4. S \subseteq Nat /\ S # {} /\ (\A k \in S : k <= NumPages) /\ S \subseteq 0..NumPages
  BY <1>1, <1>3
<1>5. Max(S) \in S /\ \A k \in S : Max(S) >= k
  <2> HIDE DEF S
  <2> QED  BY <1>1, <1>4, MaxIsGreatest
<1>6. OpenedPages(n) = Max(S)
  BY DEF OpenedPages, h, r
<1>7. 1 \in S /\ fileLen \in S /\ r \in S
  OBVIOUS
<1> HIDE DEF S
<1>8. /\ Max(S) \in 0..NumPages /\ 1 <= Max(S) /\ fileLen <= Max(S) /\ r <= Max(S)
  BY <1>1, <1>3, <1>4, <1>5, <1>7
<1> QED  BY <1>3, <1>6, <1>8 DEF h, r

\* What replay makes of a page.
LEMMA ReplayedIs ==
    ASSUME NEW w \in [Slots -> Frames \cup {Bad}], NEW p \in Pages
    PROVE  LET n == LastCommitted(w)
           IN  /\ SlotsOf(w, n, p) = {} => Replayed(w, n, p) = NoEntry
               /\ SlotsOf(w, n, p) # {} =>
                     /\ Replayed(w, n, p) \in Entries /\ Replayed(w, n, p) # NoEntry
                     /\ Replayed(w, n, p).img = w[Max(SlotsOf(w, n, p))].img
                     /\ \E k \in 1..n : /\ w[k] # Bad /\ w[k].size # 0
                                        /\ Replayed(w, n, p).ver = w[k].ver
<1> DEFINE n == LastCommitted(w)
           i == Max(SlotsOf(w, n, p))
           k == CommitOf(w, n, i)
<1>1. n \in 0..MaxSlots /\ n \in Nat /\ n <= MaxSlots
  BY LastCommittedIs, Constants
<1>2. SlotsOf(w, n, p) = {} => Replayed(w, n, p) = NoEntry
  BY DEF Replayed
<1>3. ASSUME SlotsOf(w, n, p) # {}
      PROVE  /\ Replayed(w, n, p) \in Entries /\ Replayed(w, n, p) # NoEntry
             /\ Replayed(w, n, p).img = w[i].img
             /\ \E j \in 1..n : /\ w[j] # Bad /\ w[j].size # 0
                                /\ Replayed(w, n, p).ver = w[j].ver
  <2>1. i \in 1..n
    BY <1>1, <1>3, LastSlot
  <2>2. k \in i..n /\ w[k] # Bad /\ w[k].size # 0
    BY <2>1, CommitFound
  <2>3. Replayed(w, n, p) = [ver |-> w[k].ver, img |-> w[i].img]
    BY <1>3 DEF Replayed
  <2>4. n > 0 /\ w[i] # Bad
    <3>1. n > 0
      BY <1>1, <2>1
    <3> QED  BY <2>1, <3>1, LastCommittedIs
  <2> HIDE DEF n, i, k
  <2>5. i \in Slots /\ k \in Slots /\ k \in 1..n
    BY <1>1, <2>1, <2>2, Constants
  <2>6. w[i] \in Frames /\ w[k] \in Frames
    BY <2>2, <2>4, <2>5
  <2>7. w[k].ver \in 1..MaxTx /\ w[i].img \in Images
    BY <2>6, FrameTypes
  <2>8. Replayed(w, n, p) \in Entries
    BY <2>3, <2>7 DEF Entries
  <2>9. Replayed(w, n, p).img = w[i].img /\ Replayed(w, n, p).ver = w[k].ver
    BY <2>3
  <2> QED  BY <2>2, <2>5, <2>8, <2>9, Constants
<1> QED  BY <1>2, <1>3

\* The database is opened: the log is replayed, its tail cut off.
LEMMA OpenStep == ASSUME Inductive, Open PROVE Inductive'
<1> DEFINE n == LastCommitted(wal)
           found == [p \in Pages |-> IF Replayed(wal, n, p) # NoEntry
                                     THEN Replayed(wal, n, p).img ELSE file[p]]
           survivors == {t \in doubt : /\ \A p \in Pages : found[p].body = With(t)[p]
                                       /\ t.id = 0 => found[1].hdr.user = t.user}
<1>1. /\ mode = "closed" /\ mode' = "idle" /\ mode' \in Live /\ mode \notin Live
      /\ wal' = [i \in Slots |-> IF i <= n THEN wal[i] ELSE Bad]
      /\ walDisk' = [i \in Slots |-> IF i <= n THEN walDisk[i] ELSE {Bad}]
      /\ walPast' = walPast \cup {walDisk}
      /\ index' = [p \in Pages |-> Replayed(wal, n, p)]
      /\ writeOffset' = n
      /\ version' = ReplayedVersion(wal, n)
      /\ dbSize' = ReplayedSize(wal, n, file[1].hdr.size)
      /\ pageCount' = OpenedPages(n)
      /\ doubt' = {}
      /\ UNCHANGED <<file, fileLen, fileDisk, lenDisk, tx, toWrite, begun, crashes, spoilt>>
  BY DEF Open, SetLen, Live, promised
<1>2. \/ survivors = {} /\ committed' = committed
      \/ \E t \in survivors : committed' = With(t)
  <2>1. IF survivors = {} THEN UNCHANGED promised
        ELSE committed' = With(CHOOSE t \in survivors : TRUE)
    BY DEF Open
  <2> HIDE DEF survivors
  <2>2. survivors # {} => (CHOOSE t \in survivors : TRUE) \in survivors
    OBVIOUS
  <2> QED  BY <2>1, <2>2 DEF promised
<1>3. TypeOK /\ Counted /\ Appending
  BY DEF Inductive
<1>4. /\ walPast = {} /\ \A i \in Slots : walDisk[i] = {wal[i]}
      /\ Recovers(wal)
  BY <1>1 DEF Inductive, ClosedRecovers
<1>5. /\ n \in 0..MaxSlots /\ n \in Nat
      /\ n > 0 => n \in Slots /\ wal[n].size # 0 /\ n \in 1..n
      /\ \A i \in 1..n : i \in Slots /\ i <= n /\ wal[i] # Bad
  BY LastCommittedIs, Constants
<1>6. wal \in [Slots -> Frames \cup {Bad}] /\ begun \in Nat
  BY <1>3, Constants DEF TypeOK
<1>7. \A i \in Slots : /\ i <= n => wal'[i] = wal[i]
                       /\ ~(i <= n) => wal'[i] = Bad
                       /\ walDisk'[i] = {wal'[i]}
  BY <1>1, <1>4
<1>8. \A p \in Pages :
         /\ SlotsOf(wal, n, p) = {} => Replayed(wal, n, p) = NoEntry
         /\ SlotsOf(wal, n, p) # {} =>
               /\ Replayed(wal, n, p) \in Entries /\ Replayed(wal, n, p) # NoEntry
               /\ Replayed(wal, n, p).img = wal[Max(SlotsOf(wal, n, p))].img
               /\ \E k \in 1..n : /\ wal[k] # Bad /\ wal[k].size # 0
                                  /\ Replayed(wal, n, p).ver = wal[k].ver
  BY <1>6, ReplayedIs
<1>9. \A p \in Pages : found[p].body = Found(wal, p)
  <2> SUFFICES ASSUME NEW p \in Pages PROVE found[p].body = Found(wal, p)
    OBVIOUS
  <2>1. found[p] = IF Replayed(wal, n, p) # NoEntry THEN Replayed(wal, n, p).img ELSE file[p]
    OBVIOUS
  <2> HIDE DEF found
  <2> QED  BY <1>8, <2>1 DEF Found, Logged
<1>10. \A p \in Pages : index'[p] = Replayed(wal, n, p)
  BY <1>1
<1>11. /\ version' \in Nat /\ version' <= begun /\ version' \in 0..MaxTx
       /\ \A k \in 1..n : wal[k] # Bad /\ wal[k].size # 0 => wal[k].ver <= version'
  <2>1. \A i \in Slots : wal[i] # Bad => wal[i].ver <= begun
    BY <1>3 DEF Counted, Sane
  <2>2. begun <= MaxTx
    BY <1>3, Constants DEF TypeOK
  <2>3. /\ ReplayedVersion(wal, n) \in Nat /\ ReplayedVersion(wal, n) <= begun
        /\ \A k \in 1..n : wal[k] # Bad /\ wal[k].size # 0
             => wal[k].ver <= ReplayedVersion(wal, n)
    BY <1>5, <1>6, <2>1, ReplayedVersionIs
  <2> QED  BY <1>1, <1>6, <2>2, <2>3, Constants
<1>12. /\ pageCount' \in 0..NumPages /\ 1 <= pageCount' /\ fileLen <= pageCount'
       /\ n > 0 => wal[n].size <= pageCount'
       /\ dbSize' \in 0..NumPages
  BY <1>1, <1>3, <1>5, OpenedPagesIs
<1>13. ~spoilt => \A p \in Pages : Found(wal, p) = committed'[p]
  <2> SUFFICES ASSUME ~spoilt PROVE \A p \in Pages : Found(wal, p) = committed'[p]
    OBVIOUS
  <2>1. PICK c \in Outcomes : \A p \in Pages : Found(wal, p) = c[p]
    BY <1>4 DEF Recovers
  <2>2. CASE \E t \in survivors : committed' = With(t)
    BY <1>9, <2>2
  <2>3. CASE survivors = {} /\ committed' = committed
    <3>1. CASE c = committed
      BY <2>1, <2>3, <3>1
    <3>2. CASE \E t \in doubt : c = With(t)
      <4>1. PICK t \in doubt : c = With(t)
        BY <3>2
      <4>2. CASE t.id = 0
        <5>1. \A p \in Pages : With(t)[p] = committed[p]
          BY <4>2 DEF With
        <5> QED  BY <2>1, <2>3, <4>1, <5>1
      <4>3. CASE t.id # 0
        <5>1. t \in survivors
          BY <1>9, <2>1, <4>1, <4>3
        <5> QED  BY <2>3, <5>1
      <4> QED  BY <4>2, <4>3
    <3> QED  BY <2>1, <3>1, <3>2 DEF Outcomes
  <2> QED  BY <1>2, <2>2, <2>3
<1>14. committed' \in [Pages -> Bodies]
  <2>1. ASSUME NEW t \in doubt PROVE With(t) \in [Pages -> Bodies]
    <3>1. t.id \in Bodies
      BY <1>3 DEF TypeOK, Transactions
    <3> QED  BY <1>3, <3>1 DEF TypeOK, With
  <2> QED  BY <1>2, <1>3, <2>1 DEF TypeOK
<1> HIDE DEF n, found, survivors
<1>15. TypeOK'
  <2>1. wal' \in [Slots -> Frames \cup {Bad}]
    BY <1>1, <1>6
  <2>2. walDisk' \in SlotSets
    BY <1>1, <1>3 DEF TypeOK, SlotSets
  <2>3. index' \in [Pages -> Entries \cup {NoEntry}]
    BY <1>1, <1>8
  <2>4. \A D \in walPast' : D \in SlotSets
    BY <1>1, <1>3 DEF TypeOK
  <2> QED
    BY <1>1, <1>3, <1>5, <1>11, <1>12, <1>14, <2>1, <2>2, <2>3, <2>4
       DEF TypeOK, Modes, Live
<1>16. Counted'
  <2>1. \A f : Sane(f)' <=> Sane(f)
    BY <1>1 DEF Sane
  <2>2. \A i \in Slots : Sane(wal'[i])
    <3>1. Sane(Bad)
      BY DEF Sane
    <3> QED  BY <1>3, <1>7, <3>1 DEF Counted
  <2>3. \A D \in walPast' \cup {walDisk'}, i \in Slots : \A f \in D[i] : Sane(f)
    <3>1. walPast' = {walDisk}
      BY <1>1, <1>4
    <3>2. \A i \in Slots : \A f \in walDisk[i] : Sane(f)
      BY <1>3 DEF Counted
    <3>3. \A i \in Slots : \A f \in walDisk'[i] : Sane(f)
      BY <1>7, <2>2
    <3> QED  BY <3>1, <3>2, <3>3
  <2>4. \A i \in Slots : wal'[i] \in walDisk'[i]
    BY <1>7
  <2> QED  BY <1>1, <1>3, <1>11, <1>12, <2>1, <2>3, <2>4 DEF Counted
<1>17. Appending' /\ FramesWritten' /\ ClosedRecovers'
  BY <1>1, <1>3 DEF Appending, FramesWritten, ClosedRecovers
<1>18. \A i \in 1..n : i \in Slots /\ wal'[i] = wal[i] /\ walDisk'[i] = {wal'[i]}
  BY <1>5, <1>7
<1>19. \A p \in Pages :
          /\ SlotsOf(wal', n, p) = SlotsOf(wal, n, p)
          /\ SlotsOf(wal, n, p) # {} => Max(SlotsOf(wal, n, p)) \in 1..n
          /\ SlotsOf(wal, n, p) # {} => wal[Max(SlotsOf(wal, n, p))].page = p
          /\ Logged(wal, p) <=> SlotsOf(wal, n, p) # {}
  BY <1>5, <1>18, SameSlots, LastSlot DEF Logged, n
<1>20. IndexMatches'
  <2>1. \A p \in Pages :
          IF SlotsOf(wal', n, p) = {} THEN index'[p] = NoEntry
          ELSE /\ index'[p] # NoEntry
               /\ index'[p].img = wal'[Max(SlotsOf(wal', n, p))].img
    BY <1>8, <1>10, <1>18, <1>19
  <2>2. n > 0 => wal'[n].size # 0
    BY <1>5, <1>18
  <2>3. \A i \in 1..n : walDisk'[i] = {wal'[i]} /\ wal'[i] # Bad
    BY <1>5, <1>18
  <2> QED  BY <1>1, <2>1, <2>2, <2>3 DEF IndexMatches
<1>21. \A p \in Pages : index'[p] = NoEntry => ~Logged(wal, p) /\ Sound(p)
  BY <1>4, <1>8, <1>10, <1>19 DEF Recovers
<1>22. FileMatches'
  BY <1>1, <1>21, FileKept DEF FileMatches
<1>23. \A p \in Pages : View(p)'.body = Found(wal, p)
  <2> SUFFICES ASSUME NEW p \in Pages PROVE View(p)'.body = Found(wal, p)
    OBVIOUS
  <2>1. View(p)' = IF index'[p] # NoEntry THEN index'[p].img ELSE file[p]
    BY <1>1 DEF View
  <2> QED  BY <1>8, <1>10, <1>19, <2>1 DEF Found, n
<1>24. Unspoilt'
  <2> SUFFICES ASSUME ~spoilt PROVE Unspoilt'
    BY <1>1 DEF Unspoilt
  <2>1. Ordered(wal, n) /\ (n = 0 => Settled)
    BY <1>4 DEF Recovers, n
  <2>2. LogEnd' = n + 1
    BY <1>1 DEF LogEnd
  <2>3. ASSUME NEW i \in Slots
        PROVE  /\ i >= n + 1 => walDisk'[i] = {Bad}
               /\ ~(n < i /\ i < n + 1)
    <3>1. i \in Nat
      BY Constants
    <3> QED  BY <1>5, <1>7, <3>1
  <2>4. \A p \in Pages : View(p)'.body = committed'[p]
    BY <1>13, <1>23
  <2>5. Ordered(wal', n)
    <3>1. \A i \in 1..n : n \in 1..n
      BY <1>5
    <3> QED  BY <1>18, <2>1, <3>1 DEF Ordered
  <2>6. \A i \in 1..n : wal[i] \in Frames /\ wal[i].ver \in Nat /\ wal[i].page \in Nat
                        /\ wal[i].size \in Nat
    BY <1>5, <1>6, FrameTypes
  <2>7. ASSUME NEW i \in 1..n PROVE wal'[i].ver <= version'
    <3>1. n > 0 /\ n \in 1..n /\ wal[n] # Bad /\ wal[n].size # 0 /\ i <= n
      BY <1>5
    <3>2. wal[i].ver <= wal[n].ver
      BY <2>1, <3>1 DEF Ordered
    <3>3. wal[n].ver <= version'
      BY <1>11, <3>1
    <3> QED  BY <1>11, <1>18, <2>6, <3>1, <3>2, <3>3
  <2>8. ASSUME NEW p \in Pages PROVE index'[p].ver <= version'
    <3>1. NoEntry.ver = 0
      BY DEF NoEntry
    <3>2. CASE SlotsOf(wal, n, p) = {}
      BY <1>8, <1>10, <1>11, <3>1, <3>2
    <3>3. CASE SlotsOf(wal, n, p) # {}
      BY <1>8, <1>10, <1>11, <3>3
    <3> QED  BY <3>2, <3>3
  <2>9. n > 0 => wal'[n].size <= pageCount'
    BY <1>5, <1>12, <1>18
  <2>10. ASSUME NEW p \in Pages, committed'[p] # 0 PROVE p <= pageCount'
    <3>0. /\ p \in Nat /\ pageCount' \in Nat /\ fileLen \in Nat /\ lenDisk \in Nat
          /\ lenDisk <= fileLen
      BY <1>3, <1>12, Constants DEF TypeOK, Counted
    <3>1. Found(wal, p) # 0
      BY <1>13, <2>10
    <3>2. CASE Logged(wal, p)
      <4> DEFINE k == Max(SlotsOf(wal, n, p))
      <4>1. k \in 1..n /\ wal[k].page = p
        BY <1>19, <3>2
      <4> HIDE DEF k
      <4>2. n > 0 /\ n \in 1..n
        BY <1>5, <4>1
      <4>3. p <= wal[n].size
        BY <2>1, <4>1 DEF Ordered
      <4>4. wal[n].size \in Nat /\ wal[n].size <= pageCount'
        BY <1>12, <2>6, <4>2
      <4> QED  BY <3>0, <4>3, <4>4
    <3>3. CASE ~Logged(wal, p)
      <4>1. Sound(p) /\ file[p].body # 0
        BY <1>4, <3>1, <3>3 DEF Recovers, Found
      <4>2. ~(p > lenDisk)
        BY <4>1 DEF Sound
      <4> QED  BY <1>12, <3>0, <4>2
    <3> QED  BY <3>2, <3>3
  <2>11. n = 0 => Settled'
    BY <1>1, <2>1, FileKept
  <2> QED
    BY <1>1, <2>2, <2>3, <2>4, <2>5, <2>7, <2>8, <2>9, <2>10, <2>11
       DEF Unspoilt, Ordered
<1>25. PastRecovers'
  <2>0. /\ walPast' = {walDisk}
        /\ \A D : LogsOf(D)' = LogsOf(D)
    BY <1>1, <1>4 DEF LogsOf
  <2>1. ASSUME NEW w \in LogsOf(walDisk)
        PROVE  Recovers(w)' /\ \A p \in Indexed' : Logged(w, p)'
    <3>1. w = wal
      <4>1. \A i \in Slots : w[i] = wal[i]
        BY <1>4 DEF LogsOf
      <4>2. w = [i \in Slots |-> w[i]] /\ wal = [i \in Slots |-> wal[i]]
        BY <1>6 DEF LogsOf
      <4> QED  BY <4>1, <4>2
    <3>2. \A p \in Pages : /\ Logged(w, p)' <=> Logged(w, p)
                           /\ Found(w, p)' = Found(w, p)
      BY <1>1 DEF Logged, Found
    <3>3. committed' \in Outcomes'
      BY DEF Outcomes
    <3>4. Recovers(w) /\ (~spoilt => \A p \in Pages : Found(w, p) = committed'[p])
      BY <1>4, <1>13, <3>1
    <3>5. /\ \A p \in Pages : Sound(p)' <=> Sound(p)
          /\ Settled' <=> Settled
      BY <1>1, FileKept
    <3>6. Recovers(w)'
      BY <1>1, <3>2, <3>3, <3>4, <3>5 DEF Recovers
    <3>7. ASSUME NEW p \in Indexed' PROVE Logged(w, p)'
      <4>1. p \in Pages /\ index'[p] # NoEntry
        BY DEF Indexed
      <4>2. Logged(wal, p)
        BY <1>8, <1>10, <1>19, <4>1
      <4> QED  BY <3>1, <3>2, <4>1, <4>2
    <3> QED  BY <3>6, <3>7
  <2> QED  BY <2>0, <2>1 DEF PastRecovers
<1> QED
  BY <1>15, <1>16, <1>17, <1>20, <1>22, <1>24, <1>25 DEF Inductive
-----------------------------------------------------------------------------
(* The theorems.                                                           *)

LEMMA InitInductive == Init => Inductive
<1> SUFFICES ASSUME Init PROVE Inductive
  OBVIOUS
<1>1. /\ mode = "idle" /\ mode \in Live /\ mode # "append" /\ mode # "fold"
      /\ fileLen = 1 /\ lenDisk = 1
      /\ \A p \in Pages : /\ fileDisk[p] = {file[p]} /\ file[p].body = 0
                          /\ index[p] = NoEntry /\ committed[p] = 0
                          /\ file[p] \in Images
      /\ file[1].hdr = [magic |-> TRUE, user |-> 0, size |-> 1]
      /\ \A i \in Slots : wal[i] = Bad /\ walDisk[i] = {Bad}
      /\ walPast = {} /\ writeOffset = 0 /\ version = 0 /\ dbSize = 1 /\ pageCount = 1
      /\ tx = NoTx /\ doubt = {} /\ toWrite = {} /\ begun = 0 /\ crashes = 0
      /\ spoilt = FALSE
  <2>1. /\ [body |-> 0, hdr |-> [magic |-> TRUE, user |-> 0, size |-> 1]] \in Images
        /\ Blank \in Images
    BY Constants, PagesAssumption, BoundsAssumption
       DEF Images, Headers, Users, Blank, Zeroed
  <2> QED  BY <2>1, Constants DEF Init, Live, Blank
<1>2. TypeOK
  <2>1. /\ file \in [Pages -> Images] /\ index \in [Pages -> Entries \cup {NoEntry}]
        /\ committed \in [Pages -> Bodies]
    BY <1>1, BoundsAssumption DEF Init
  <2>2. fileDisk \in [Pages -> SUBSET Images]
    BY <1>1 DEF Init
  <2>3. wal \in [Slots -> Frames \cup {Bad}] /\ walDisk \in SlotSets
    BY <1>1 DEF Init, SlotSets
  <2>4. tx \in Transactions
    <3>1. /\ 0 \in Bodies /\ 0 \in Users /\ 0 \in 0..NumPages /\ {} \in SUBSET Pages
      BY PagesAssumption, BoundsAssumption DEF Users
    <3>2. NoTx \in Transactions
      BY <3>1 DEF NoTx, Transactions
    <3> QED  BY <1>1, <3>2
  <2>5. /\ 0 \in 0..MaxSlots /\ 0 \in 0..MaxTx /\ 0 \in 0..MaxCrashes
        /\ 1 \in 0..NumPages /\ 1 \in Pages
    BY PagesAssumption, BoundsAssumption, Constants
  <2> QED  BY <1>1, <2>1, <2>2, <2>3, <2>4, <2>5 DEF TypeOK, Modes
<1>3. Settled
  <2>1. file[1].hdr.magic /\ file[1].hdr.size = 1
    BY <1>1
  <2>2. 1 <= 1
    OBVIOUS
  <2> QED  BY <1>1, <2>1, <2>2 DEF Settled, Covered
<1>4. Counted
  BY <1>1 DEF Counted, Sane, NoTx
<1>5. Appending /\ FramesWritten /\ LogEnd = 1
  BY <1>1 DEF Appending, FramesWritten, LogEnd
<1>6. \A p : SlotsOf(wal, writeOffset, p) = {}
  BY <1>1 DEF SlotsOf
<1>7. IndexMatches
  BY <1>1, <1>6 DEF IndexMatches
<1>8. FileMatches
  <2>1. \A p \in Pages : Sound(p)
    BY <1>1, Constants DEF Sound
  <2>2. mode \notin {"fold", "sync", "truncate"}
    BY <1>1
  <2> QED  BY <1>1, <2>1, <2>2 DEF FileMatches
<1>9. Unspoilt
  <2>1. \A p \in Pages : View(p).body = committed[p]
    BY <1>1 DEF View
  <2>2. NoEntry.ver = 0
    BY DEF NoEntry
  <2>3. Ordered(wal, writeOffset)
    BY <1>1 DEF Ordered
  <2> QED  BY <1>1, <1>3, <1>5, <2>1, <2>2, <2>3 DEF Unspoilt
<1>10. PastRecovers /\ ClosedRecovers
  BY <1>1 DEF PastRecovers, ClosedRecovers
<1> QED  BY <1>2, <1>4, <1>5, <1>7, <1>8, <1>9, <1>10 DEF Inductive

LEMMA NextInductive ==
    ASSUME ~LateFlush, Inductive, [Next]_vars
    PROVE  Inductive'
<1>1. CASE BeginCommit
  BY <1>1, BeginCommitStep
<1>2. CASE SetUserVersion
  BY <1>2, SetUserVersionStep
<1>3. CASE AppendFrame
  BY <1>3, AppendFrameStep
<1>4. CASE AppendSync
  BY <1>4, AppendSyncStep
<1>5. CASE AppendFail
  BY <1>5, AppendFailStep
<1>6. CASE CheckpointEmpty
  <2>1. UNCHANGED vars
    BY <1>6 DEF CheckpointEmpty
  <2> QED  BY <2>1, StutterStep
<1>7. CASE BeginCheckpoint
  BY <1>7, BeginCheckpointStep
<1>8. CASE FoldPage
  BY <1>8, FoldPageStep
<1>9. CASE WriteHeader
  BY <1>9, WriteHeaderStep
<1>10. CASE CheckpointSync
  BY <1>10, CheckpointSyncStep
<1>11. CASE Truncate
  BY <1>11, TruncateStep
<1>12. CASE CheckpointFail
  BY <1>12, CheckpointFailStep
<1>13. CASE Exit
  BY <1>13, ExitStep
<1>14. CASE PowerLoss
  BY <1>14, PowerLossStep
<1>15. CASE Open
  BY <1>15, OpenStep
<1>16. CASE OpenFail
  BY <1>16, OpenFailStep
<1>17. CASE UNCHANGED vars
  BY <1>17, StutterStep
<1> QED
  BY <1>1, <1>2, <1>3, <1>4, <1>5, <1>6, <1>7, <1>8, <1>9, <1>10, <1>11, <1>12,
     <1>13, <1>14, <1>15, <1>16, <1>17 DEF Next

\* As long as the operating system writes out the log of a process that dies:
\* after any commits, checkpoints, I/O errors, process ends and power losses,
\* every log that a power loss may leave (append_commit, checkpoint) replays to
\* the answered commits with at most one that was not answered.
THEOREM RecoveryInvariant ==
    ASSUME ~LateFlush
    PROVE  Spec => []Inductive
<1>1. Init => Inductive
  BY InitInductive
<1>2. Inductive /\ [Next]_vars => Inductive'
  BY NextInductive
<1> QED  BY <1>1, <1>2, PTL DEF Spec

\* Every variable of the two files, the open engine and the transaction in
\* append_commit keeps its type.
THEOREM DurabilityIsTyped ==
    ASSUME ~LateFlush
    PROVE  Spec => []TypeOK
<1>1. Inductive => TypeOK
  BY DEF Inductive
<1> QED  BY <1>1, RecoveryInvariant, PTL

\* Durability and atomicity of commits: an open database shows the answered
\* commits and nothing of any other, as long as no append has failed.
THEOREM CommitsSurvive ==
    ASSUME ~LateFlush
    PROVE  Spec => []RecoversCommitted
<1>1. Inductive => RecoversCommitted
  BY DEF Inductive, Unspoilt, RecoversCommitted
<1> QED  BY <1>1, RecoveryInvariant, PTL

\* No open database shows a page that is half one version and half another,
\* whatever failed: replay stops at a torn frame and a page torn by a fold is
\* still in the log.
THEOREM PagesAreWhole ==
    ASSUME ~LateFlush
    PROVE  Spec => []NoTornPage
<1>1. Inductive => NoTornPage
  BY ViewSound DEF NoTornPage
<1> QED  BY <1>1, RecoveryInvariant, PTL

\* append_commit syncs before it updates the index: a reader sees only frames
\* that are certain to be on disk.
THEOREM ReadersSeeDurable ==
    ASSUME ~LateFlush
    PROVE  Spec => []ObservedIsDurable
<1>1. Inductive => ObservedIsDurable
  BY DEF Inductive, IndexMatches, ObservedIsDurable
<1> QED  BY <1>1, RecoveryInvariant, PTL

\* What the search of read_page relies on: along the log versions ascend, and
\* none exceeds the counter, which open takes from the replayed log.
THEOREM VersionsAscend ==
    ASSUME ~LateFlush
    PROVE  Spec => []LogAscends
<1>1. Inductive => LogAscends
  BY DEF Inductive, Unspoilt, Ordered, LogAscends
<1> QED  BY <1>1, RecoveryInvariant, PTL

\* alloc_page never hands out a page that holds committed data: open counts
\* every page that a commit has written, as long as no append has failed.
THEOREM CommittedPagesCounted ==
    ASSUME ~LateFlush
    PROVE  Spec => []PagesCounted
<1>1. Inductive => PagesCounted
  BY DEF Inductive, Unspoilt, PagesCounted
<1> QED  BY <1>1, RecoveryInvariant, PTL

\* While the log holds nothing, the file that is certain to be on disk has
\* every committed page and a header that covers them: checkpoint empties the
\* log only behind a sync of the file and the header.
THEOREM FileIsComplete ==
    ASSUME ~LateFlush
    PROVE  Spec => []CheckpointedFileComplete
<1>1. Inductive => CheckpointedFileComplete
  <2> SUFFICES ASSUME Inductive, mode \in Live, ~spoilt, Indexed = {}
               PROVE  /\ \A p \in Pages : fileDisk[p] = {file[p]} /\ file[p].body = committed[p]
                      /\ file[1].hdr.magic
                      /\ \A p \in Pages : committed[p] # 0 => p <= file[1].hdr.size
    BY DEF CheckpointedFileComplete
  <2>1. \A p \in Pages : index[p] = NoEntry
    BY DEF Indexed
  <2>2. TypeOK /\ IndexMatches /\ FileMatches /\ Unspoilt /\ Counted
    BY DEF Inductive
  <2>3. writeOffset = 0
    <3> SUFFICES ASSUME writeOffset # 0 PROVE FALSE
      OBVIOUS
    <3>1. 1 \in 1..writeOffset /\ 1 \in Slots /\ writeOffset \in Nat
      BY <2>2, Constants DEF TypeOK
    <3>2. wal[1] # Bad /\ wal[1] \in Frames
      BY <2>2, <3>1 DEF TypeOK, IndexMatches
    <3>3. wal[1].page \in Pages /\ 1 \in SlotsOf(wal, writeOffset, wal[1].page)
      BY <3>1, <3>2, FrameTypes DEF SlotsOf
    <3> QED  BY <2>1, <2>2, <3>3 DEF IndexMatches
  <2>4. Settled
    BY <2>2, <2>3 DEF Unspoilt
  <2>5. \A p \in Pages : file[p].body = committed[p]
    BY <2>1, <2>2 DEF Unspoilt, View
  <2>6. ASSUME NEW p \in Pages, committed[p] # 0 PROVE p <= file[1].hdr.size
    <3>1. Sound(p) /\ file[p].body # 0
      BY <2>1, <2>2, <2>5, <2>6 DEF FileMatches
    <3>2. /\ p \in Nat /\ lenDisk \in Nat /\ fileLen \in Nat
          /\ lenDisk <= fileLen
      BY <2>2, Constants DEF TypeOK, Counted
    <3>3. p <= lenDisk
      BY <3>1, <3>2 DEF Sound
    <3>4. fileLen <= file[1].hdr.size /\ file[1].hdr.size \in Nat
      <4>1. file[1] \in Images
        BY <2>2, Constants DEF TypeOK
      <4> QED  BY <2>4, <4>1, Constants DEF Settled, Covered, Images, Headers
    <3> QED  BY <3>2, <3>3, <3>4
  <2> QED  BY <2>4, <2>5, <2>6 DEF Settled, Covered
<1> QED  BY <1>1, RecoveryInvariant, PTL
-----------------------------------------------------------------------------
(* The durable store.                                                      *)

\* The abstract commits.
Committing == IF mode = "append" THEN {Plain(tx)} ELSE {}
InDoubt == {Plain(t) : t \in doubt}

\* What a reader finds is always the work of transactions.
LEMMA ShownTyped == ASSUME Inductive PROVE Shown \in [Pages -> 0..MaxTx]
<1>1. committed \in [Pages -> Bodies]
  BY DEF Inductive, TypeOK
<1>2. ASSUME mode \in Live, NEW p \in Pages PROVE View(p).body \in Bodies
  <2>1. View(p).body \in Bodies \cup {Torn} /\ View(p).body # Torn
    BY <1>2, ViewSound DEF Images
  <2> QED  BY <2>1
<1> QED  BY <1>1, <1>2 DEF Shown

\* With an open database that no failed append has touched it is what was promised.
LEMMA ShownCommitted == ASSUME Inductive, ~spoilt PROVE Shown = committed
<1>1. committed = [p \in Pages |-> committed[p]]
  BY DEF Inductive, TypeOK
<1>2. mode \in Live => \A p \in Pages : View(p).body = committed[p]
  BY DEF Inductive, Unspoilt
<1> QED  BY <1>1, <1>2 DEF Shown

\* A step of the open database that shows every page as before.
LEMMA ShownKept ==
    ASSUME mode \in Live, mode' \in Live,
           \A p \in Pages : View(p)'.body = View(p).body
    PROVE  Shown' = Shown
BY DEF Shown

LEMMA BeginStore ==
    ASSUME Inductive, NEW T, NEW n, Begin(T, n), NEW x \in Transactions, tx' = x, x.id \in {0, begun + 1},
           UNCHANGED <<disk, engine, crashes, promised>>
    PROVE  Store!Begin
<1>1. /\ mode = "idle" /\ mode' = "append" /\ mode \in Live /\ mode' \in Live
      /\ UNCHANGED <<file, index, spoilt>> /\ begun' = begun + 1 /\ doubt' = doubt \cup {x}
  BY DEF Begin, Live, disk, engine, promised
<1>2. Shown' = Shown
  BY <1>1, ShownKept DEF View
<1>3. Plain(x) = [id |-> x.id, pages |-> x.pages] /\ x.pages \in SUBSET Pages
  BY DEF Plain, Transactions
<1>4. Committing = {} /\ Committing' = {Plain(x)}
  BY <1>1 DEF Committing, Plain
<1>5. InDoubt' = InDoubt \cup Committing'
  BY <1>1, <1>4 DEF InDoubt, Plain
<1>6. \E id \in {0, begun + 1}, U \in SUBSET Pages : Committing' = {[id |-> id, pages |-> U]}
  BY <1>3, <1>4
<1> QED
  BY <1>1, <1>2, <1>4, <1>5, <1>6 DEF Store!Begin, Committing, InDoubt

LEMMA AnswerStore == ASSUME Inductive, AppendSync PROVE Store!Answer
<1>1. /\ mode = "append" /\ mode' = "idle" /\ mode \in Live /\ mode' \in Live
      /\ index' = [p \in Pages |-> IF p \in tx.pages
                                   THEN [ver |-> version + 1, img |-> ImageOf(p)]
                                   ELSE index[p]]
      /\ doubt' = {} /\ UNCHANGED <<file, begun, spoilt>>
  BY DEF AppendSync, Live
<1>2. /\ tx.id = 0 => tx.pages = {1}
      /\ version \in Nat
  BY <1>1, Constants DEF Inductive, TypeOK, Appending
<1>3. ASSUME NEW p \in Pages
      PROVE  View(p)'.body = IF p \in tx.pages /\ tx.id # 0 THEN tx.id ELSE View(p).body
  <2>1. CASE p \in tx.pages
    <3>1. index'[p] = [ver |-> version + 1, img |-> ImageOf(p)] /\ index'[p] # NoEntry
      BY <1>1, <1>2, <2>1 DEF NoEntry
    <3>2. View(p)' = ImageOf(p)
      BY <3>1 DEF View
    <3>3. CASE tx.id = 0
      BY <1>2, <2>1, <3>2, <3>3 DEF ImageOf
    <3>4. CASE tx.id # 0
      BY <2>1, <3>2, <3>4 DEF ImageOf
    <3> QED  BY <3>3, <3>4
  <2>2. CASE p \notin tx.pages
    BY <1>1, <2>2 DEF View
  <2> QED  BY <2>1, <2>2
<1>4. Shown' = [p \in Pages |-> IF p \in Plain(tx).pages /\ Plain(tx).id # 0
                                THEN Plain(tx).id ELSE Shown[p]]
  BY <1>1, <1>3 DEF Shown, Plain
<1>5. Committing = {Plain(tx)} /\ Committing' = {} /\ InDoubt' = {}
  BY <1>1 DEF Committing, InDoubt
<1> QED
  BY <1>1, <1>4, <1>5 DEF Store!Answer, Store!Apply, Committing, InDoubt

\* No step of a checkpoint shows another page than before: a page that is folded is
\* still in the log, and what is in the log is in the file when it is emptied.
LEMMA CheckpointShown ==
    ASSUME Inductive, FoldPage \/ WriteHeader \/ CheckpointSync \/ Truncate
    PROVE  Shown' = Shown
<1>0. TypeOK /\ 1 \in Pages
  BY Constants DEF Inductive
<1>1. mode \in Live /\ mode' \in Live
  BY DEF FoldPage, WriteHeader, CheckpointSync, Truncate, Live
<1>2. ASSUME FoldPage, NEW p \in Pages PROVE View(p)'.body = View(p).body
  <2>1. /\ toWrite # {} /\ toWrite \subseteq Indexed /\ index' = index
        /\ file' = [file EXCEPT ![Min(toWrite)] = index[Min(toWrite)].img]
    BY <1>2 DEF FoldPage, WriteFile, engine, Inductive, FileMatches, Live
  <2>2. Min(toWrite) \in toWrite
    <3>1. toWrite \subseteq Nat
      BY <2>1, Constants DEF Indexed
    <3> QED  BY <2>1, <3>1, MinIsLeast
  <2>3. index[p] = NoEntry => p # Min(toWrite)
    BY <2>1, <2>2 DEF Indexed
  <2> QED  BY <1>0, <2>1, <2>3 DEF View, TypeOK
<1>3. ASSUME WriteHeader, NEW p \in Pages PROVE View(p)'.body = View(p).body
  <2>1. index' = index /\ file' = [file EXCEPT ![1] = [file[1] EXCEPT !.hdr = FileHeader]]
    BY <1>3 DEF WriteHeader, WriteFile, engine
  <2>2. file'[p].body = file[p].body
    <3>1. file \in [Pages -> Images]
      BY <1>0 DEF TypeOK
    <3>2. CASE p = 1
      BY <1>0, <2>1, <3>1, <3>2 DEF Images
    <3>3. CASE p # 1
      BY <2>1, <3>1, <3>3
    <3> QED  BY <3>2, <3>3
  <2> QED  BY <2>1, <2>2 DEF View
<1>4. ASSUME CheckpointSync, NEW p \in Pages PROVE View(p)'.body = View(p).body
  BY <1>4 DEF CheckpointSync, engine, View
<1>5. ASSUME Truncate, NEW p \in Pages PROVE View(p)'.body = View(p).body
  <2>1. /\ mode = "truncate" /\ file' = file /\ index'[p] = NoEntry /\ toWrite = {}
        /\ mode \in Live
    BY <1>5 DEF Truncate, Live, Inductive, Appending
  <2>2. index[p] # NoEntry => file[p].body = index[p].img.body
    BY <2>1 DEF Inductive, FileMatches, Indexed
  <2> QED  BY <2>1, <2>2 DEF View
<1> QED  BY <1>1, <1>2, <1>3, <1>4, <1>5, ShownKept

LEMMA CrashStore ==
    ASSUME Inductive, mode' \notin Live, UNCHANGED <<doubt, begun, committed, spoilt>>
    PROVE  Store!Crash \/ UNCHANGED Store!vars
<1>1. /\ Shown' = [p \in Pages |-> committed[p]] /\ InDoubt' = InDoubt
      /\ Committing' = {}
  BY DEF Shown, InDoubt, Committing, Live
<1>2. Shown' \in Store!Contents
  BY <1>1 DEF Store!Contents, Inductive, TypeOK
<1>3. CASE mode \in Live
  <2>1. Shown' = Shown \/ spoilt
    <3>1. ~spoilt => \A p \in Pages : Shown[p] = committed[p]
      BY ShownCommitted
    <3> QED  BY <1>1, <3>1 DEF Shown
  <2> QED
    BY <1>1, <1>2, <1>3, <2>1 DEF Store!Crash, Store!Lost, Committing, InDoubt
<1>4. CASE mode \notin Live
  <2>1. Shown' = Shown /\ Committing' = Committing
    BY <1>1, <1>4 DEF Shown, Committing, Live
  <2> QED  BY <1>1, <1>4, <2>1 DEF Store!vars, Committing, InDoubt
<1> QED  BY <1>3, <1>4

\* The two facts of what a reader finds, of the state after a step.
LEMMA ShownAfter ==
    /\ Inductive' => (Shown \in [Pages -> 0..MaxTx])'
    /\ Inductive' /\ ~spoilt' => (Shown = committed)'
<1>1. Inductive => Shown \in [Pages -> 0..MaxTx]
  BY ShownTyped
<1>2. Inductive /\ ~spoilt => Shown = committed
  BY ShownCommitted
<1> QED  BY <1>1, <1>2, PTL

LEMMA RecoverStore == ASSUME Inductive, Inductive', Open PROVE Store!Recover
<1>1. /\ mode = "closed" /\ mode' = "idle" /\ mode \notin Live /\ mode' \in Live
      /\ doubt' = {} /\ UNCHANGED <<begun, spoilt>>
      /\ committed' = committed \/ \E t \in doubt : committed' = With(t)
  BY DEF Open, Live, promised
<1>2. Committing = {} /\ Committing' = {} /\ InDoubt' = {}
  BY <1>1 DEF Committing, InDoubt
<1>3. Shown = committed
  BY <1>1 DEF Shown, Inductive, TypeOK
<1>4. CASE spoilt
  <2>1. Shown' \in Store!Contents
    <3>1. (Shown \in [Pages -> 0..MaxTx])'
      BY ShownAfter
    <3> QED  BY <3>1 DEF Store!Contents
  <2> QED
    BY <1>1, <1>2, <1>4, <2>1 DEF Store!Recover, Store!Lost, Committing, InDoubt
<1>5. CASE ~spoilt
  <2>1. Shown' = committed'
    <3>1. (Shown = committed)'
      BY <1>1, <1>5, ShownAfter
    <3> QED  BY <3>1
  <2>2. CASE committed' = committed
    BY <1>1, <1>2, <1>3, <2>1, <2>2 DEF Store!Recover, Committing, InDoubt
  <2>3. CASE \E t \in doubt : committed' = With(t)
    <3>1. PICK t \in doubt : committed' = With(t)
      BY <2>3
    <3>2. Shown' = [p \in Pages |-> IF p \in Plain(t).pages /\ Plain(t).id # 0
                                    THEN Plain(t).id ELSE Shown[p]]
      BY <1>3, <2>1, <3>1 DEF With, Plain
    <3>3. Plain(t) \in InDoubt
      BY DEF InDoubt
    <3> QED
      BY <1>1, <1>2, <3>2, <3>3 DEF Store!Recover, Store!Apply, Committing, InDoubt
  <2> QED  BY <1>1, <2>2, <2>3
<1> QED  BY <1>4, <1>5

LEMMA InitStore == Init => Store!Init
<1> SUFFICES ASSUME Init PROVE Store!Init
  OBVIOUS
<1>1. /\ mode \in Live /\ mode # "append" /\ doubt = {} /\ begun = 0 /\ spoilt = FALSE
      /\ \A p \in Pages : View(p).body = 0
  BY DEF Init, Live, View, Blank
<1>2. Shown = [p \in Pages |-> 0]
  BY <1>1 DEF Shown
<1> QED  BY <1>1, <1>2 DEF Store!Init

LEMMA StepStore ==
    ASSUME ~LateFlush, Inductive, [Next]_vars
    PROVE  Store!Next \/ UNCHANGED Store!vars
<1>0. Inductive'
  BY NextInductive
<1>1. CASE BeginCommit
  <2>1. PICK n \in pageCount..NumPages, T \in SUBSET Pages :
           /\ tx' = [id |-> begun + 1, pages |-> T, user |-> 0, size |-> n]
           /\ Begin(T, n)
    BY <1>1 DEF BeginCommit
  <2>2. UNCHANGED <<disk, engine, crashes, promised>>
    BY <1>1 DEF BeginCommit
  <2>3. tx' \in Transactions /\ tx'.id = begun + 1
    BY <1>0, <2>1 DEF Inductive, TypeOK
  <2>4. Store!Begin
    BY <2>1, <2>2, <2>3, BeginStore
  <2> QED  BY <2>4 DEF Store!Next
<1>2. CASE SetUserVersion
  <2>1. tx' \in Transactions /\ tx'.id = 0
    BY <1>0, <1>2 DEF Inductive, TypeOK, SetUserVersion
  <2>2. Begin({1}, pageCount) /\ UNCHANGED <<disk, engine, crashes, promised>>
    BY <1>2 DEF SetUserVersion
  <2>3. Store!Begin
    BY <2>1, <2>2, BeginStore
  <2> QED  BY <2>3 DEF Store!Next
<1>3. CASE AppendSync
  BY <1>3, AnswerStore DEF Store!Next
<1>4. CASE AppendFail
  <2>1. /\ mode = "append" /\ mode' = "idle" /\ mode \in Live /\ mode' \in Live
        /\ spoilt' = TRUE /\ UNCHANGED <<file, index, doubt, begun>>
    BY <1>4 DEF AppendFail, Live, engine
  <2>2. Shown' = Shown
    BY <2>1, ShownKept DEF View
  <2>3. Committing # {} /\ Committing' = {} /\ InDoubt' = InDoubt
    BY <2>1 DEF Committing, InDoubt
  <2>4. Store!Fail
    BY <2>1, <2>2, <2>3 DEF Store!Fail, Committing, InDoubt
  <2> QED  BY <2>4 DEF Store!Next
<1>5. CASE AppendFrame
  <2>1. /\ mode = "append" /\ mode' = "append" /\ mode \in Live
        /\ UNCHANGED <<file, index, tx, doubt, begun, spoilt>>
    BY <1>5 DEF AppendFrame, Live, engine, promised
  <2>2. Shown' = Shown
    BY <2>1, ShownKept DEF View
  <2> QED  BY <2>1, <2>2 DEF Store!vars, Plain
<1>6. CASE BeginCheckpoint \/ CheckpointFail \/ CheckpointEmpty
  <2>1. /\ mode # "append" /\ mode' # "append" /\ mode \in Live /\ mode' \in Live
        /\ UNCHANGED <<file, index, doubt, begun, spoilt>>
    BY <1>6 DEF BeginCheckpoint, CheckpointFail, CheckpointEmpty, vars, Live, disk, engine, promised
  <2>2. Shown' = Shown
    BY <2>1, ShownKept DEF View
  <2> QED  BY <2>1, <2>2 DEF Store!vars
<1>7. CASE FoldPage \/ WriteHeader \/ CheckpointSync \/ Truncate
  <2>1. /\ mode # "append" /\ mode' # "append" /\ mode \in Live /\ mode' \in Live
        /\ UNCHANGED <<doubt, begun, spoilt>>
    BY <1>7 DEF FoldPage, WriteHeader, CheckpointSync, Truncate, Live, promised
  <2>2. Shown' = Shown
    BY <1>7, CheckpointShown
  <2> QED  BY <2>1, <2>2 DEF Store!vars
<1>8. CASE Exit \/ PowerLoss \/ OpenFail
  <2>1. mode' \notin Live /\ UNCHANGED <<doubt, begun, committed, spoilt>>
    BY <1>8 DEF Exit, PowerLoss, OpenFail, Stop, Live, promised
  <2> QED  BY <2>1, CrashStore DEF Store!Next
<1>9. CASE Open
  BY <1>0, <1>9, RecoverStore DEF Store!Next
<1>10. CASE UNCHANGED vars
  <2>1. UNCHANGED <<mode, file, index, tx, doubt, begun, committed, spoilt>>
    BY <1>10 DEF vars, disk, engine, promised
  <2> QED  BY <2>1 DEF Store!vars, Shown, View, Plain
<1> QED
  BY <1>1, <1>2, <1>3, <1>4, <1>5, <1>6, <1>7, <1>8, <1>9, <1>10 DEF Next

\* The files implement the abstract store, through any crashes, checkpoints, torn
\* pages and frames: what readers find changes with the answer to a commit and at
\* open only, as a whole (append_commit, checkpoint, open_inner), and open finds the
\* answered commits with all or nothing of one without an answer, unless an
\* append has failed.
THEOREM FilesImplementStore ==
    ASSUME ~LateFlush
    PROVE  Spec => ImplementsDurableStore
<1>1. Inductive /\ [Next]_vars => [Store!Next]_(Store!vars)
  BY StepStore
<1> QED
  BY <1>1, InitStore, RecoveryInvariant, PTL DEF Spec, ImplementsDurableStore, Store!Spec
===============================================================================
