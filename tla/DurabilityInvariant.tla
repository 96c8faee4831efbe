------------------------- MODULE DurabilityInvariant -------------------------
(***************************************************************************)
(* The inductive invariant behind the properties of Durability, in parts:  *)
(* what the open engine knows about its log and its file, and what replay  *)
(* would make of every log that a power loss may leave.                    *)
(***************************************************************************)
EXTENDS Durability

\* The logs that a power loss may leave of one described by D.
LogsOf(D) ==
    {w \in [Slots -> UNION {D[i] : i \in Slots}] : \A i \in Slots : w[i] \in D[i]}

\* Replay of log w finds page p in it.
Logged(w, p) == SlotsOf(w, LastCommitted(w), p) # {}

\* The body that an open with log w shows on page p.
Found(w, p) ==
    IF Logged(w, p) THEN w[Max(SlotsOf(w, LastCommitted(w), p))].img.body
                    ELSE file[p].body

\* The bodies a reader may find after a crash: the answered commits, alone or
\* with one that got no answer.
Outcomes == {committed} \cup {With(t) : t \in doubt}

\* A power loss leaves the body of page p as it is.
Sound(p) ==
    /\ \A img \in fileDisk[p] : img.body = file[p].body
    /\ file[p].body # Torn
    /\ p > lenDisk => file[p].body = 0

\* The header covers the file.
Covered == file[1].hdr.magic /\ fileLen <= file[1].hdr.size

\* The file is on disk and complete.
Settled == Covered /\ \A p \in Pages : fileDisk[p] = {file[p]}

\* Along the first n frames of w versions ascend, and the last one's size
\* covers the page of each.
Ordered(w, n) ==
    /\ \A i, j \in 1..n : i <= j => w[i].ver <= w[j].ver
    /\ \A i \in 1..n : w[i].page <= w[n].size

\* Replay of w loses nothing and brings back nothing torn.
Recovers(w) ==
    /\ \A p \in Pages : Logged(w, p) \/ Sound(p)
    /\ ~spoilt => /\ \E c \in Outcomes : \A p \in Pages : Found(w, p) = c[p]
                  /\ Ordered(w, LastCommitted(w))
                  /\ LastCommitted(w) = 0 => Settled

\* A frame that the engine may have written so far.
Sane(f) == f # Bad => f.ver <= begun /\ f.img.body # Torn

\* Frames, the version and the transaction have been counted; what a read
\* returns is among what a power loss may leave.
Counted ==
    /\ version <= begun
    /\ tx.id <= begun
    /\ \A D \in walPast \cup {walDisk}, i \in Slots : \A f \in D[i] : Sane(f)
    /\ \A i \in Slots : wal[i] \in walDisk[i]
    /\ \A p \in Pages : file[p] \in fileDisk[p]
    /\ lenDisk <= fileLen
    /\ mode \in Live => 1 <= pageCount

\* The transaction in append_commit has room in the log.
Appending ==
    IF mode = "append"
      THEN /\ tx \in doubt
           /\ tx.pages # {} /\ tx.pages \subseteq 1..tx.size
           /\ tx.id = 0 => tx.pages = {1}
           /\ pageCount <= tx.size
           /\ toWrite \subseteq tx.pages
           /\ writeOffset + Cardinality(tx.pages) <= MaxSlots
           /\ version < begun
      ELSE tx = NoTx /\ (mode # "fold" => toWrite = {})

\* The first slot after the frames written.
LogEnd == IF mode = "append" THEN NextSlot ELSE writeOffset + 1

CommitSlot == writeOffset + Cardinality(tx.pages)

\* The frames of the transaction in append_commit are in the file.
FramesWritten == mode = "append" =>
    /\ \A i \in Slots : writeOffset < i /\ i < LogEnd =>
          /\ wal[i].page \in tx.pages
          /\ wal[i] = [page |-> wal[i].page, ver |-> version + 1,
                       size |-> IF i = CommitSlot THEN tx.size ELSE 0,
                       img |-> ImageOf(wal[i].page)]
    /\ \A p \in tx.pages \ toWrite :
          \E i \in Slots : writeOffset < i /\ i < LogEnd /\ wal[i].page = p

\* The index holds the last frame of each page, from the slots up to
\* writeOffset, which are on disk and end with a commit.
IndexMatches == mode \in Live =>
    /\ \A i \in 1..writeOffset : walDisk[i] = {wal[i]} /\ wal[i] # Bad
    /\ writeOffset > 0 => wal[writeOffset].size # 0
    /\ \A p \in Pages :
          IF SlotsOf(wal, writeOffset, p) = {} THEN index[p] = NoEntry
          ELSE /\ index[p] # NoEntry
               /\ index[p].img = wal[Max(SlotsOf(wal, writeOffset, p))].img

\* A page the index does not hold is sound in the file; a fold has a page to
\* fold, and what it has folded is in the file.
FileMatches == mode \in Live =>
    /\ \A p \in Pages : index[p] = NoEntry => Sound(p)
    /\ mode \in {"fold", "sync", "truncate"} =>
          /\ Indexed # {} /\ toWrite \subseteq Indexed
          /\ \A p \in Indexed \ toWrite :
                p <= fileLen /\ file[p].body = index[p].img.body
    /\ mode = "truncate" =>
          lenDisk = fileLen /\ \A p \in Pages : fileDisk[p] = {file[p]}

\* As long as no append has failed, the log holds what was answered and the
\* frames of the transaction in append_commit, nothing else.
Unspoilt == mode \in Live /\ ~spoilt =>
    /\ \A i \in Slots : i >= LogEnd => walDisk[i] = {Bad}
    /\ \A i \in Slots : writeOffset < i /\ i < LogEnd => walDisk[i] \subseteq {Bad, wal[i]}
    /\ \A p \in Pages : View(p).body = committed[p]
    /\ Ordered(wal, writeOffset)
    /\ \A i \in 1..writeOffset : wal[i].ver <= version
    /\ \A p \in Pages : index[p].ver <= version
    /\ writeOffset > 0 => wal[writeOffset].size <= pageCount
    /\ \A p \in Pages : committed[p] # 0 => p <= pageCount
    /\ writeOffset = 0 => Settled
    /\ mode \in {"sync", "truncate"} => Covered

\* Logs that truncation has not yet replaced on disk recover as well, and hold
\* what the open engine may be folding.
PastRecovers == \A D \in walPast : \A w \in LogsOf(D) :
    /\ Recovers(w)
    /\ mode \in Live => \A p \in Indexed : Logged(w, p)

\* Without a process the log is the one on disk and recovers.
ClosedRecovers == mode \notin Live =>
    /\ walPast = {}
    /\ \A i \in Slots : walDisk[i] = {wal[i]}
    /\ Recovers(wal)

\* The inductive invariant, with the types of all variables.
Inductive ==
    /\ TypeOK /\ Counted /\ Appending /\ FramesWritten
    /\ IndexMatches /\ FileMatches /\ Unspoilt
    /\ PastRecovers /\ ClosedRecovers
=============================================================================
