------------------------------- MODULE Storage -------------------------------
(***************************************************************************)
(* The storage engine of squrust-core in memory: MvccManager, the index of *)
(* WriteAheadLog, PageCache, DatabaseFile and the read, write and          *)
(* checkpoint operations that StorageEngine builds from them.              *)
(*                                                                         *)
(* Granularity.  An action is what one thread does between two points at   *)
(* which another thread can run: a critical section of one of the mutexes  *)
(* (active_readers, the WAL, the cache, the file) or one atomic load.  The *)
(* WAL mutex is held over several steps only by a checkpoint, so "the WAL  *)
(* is locked" is "a checkpoint is folding".                                *)
(*                                                                         *)
(* Data.  A page image is identified by the id of the write transaction    *)
(* that produced it (0: no transaction, as in a fresh file or a hole);     *)
(* None is "no image": a page past the end of the file, an empty cache     *)
(* slot, a page the transaction has not written.                           *)
(***************************************************************************)
EXTENDS Naturals, Sequences, FiniteSets

CONSTANTS
  Readers,          \* threads that run read transactions
  Writers,          \* threads that run write transactions
  MaxPages,         \* bound: page ids are 1..MaxPages
  MaxTx,            \* bound: write transactions begun
  CheckpointAlone,  \* callers keep checkpoint() apart from commits and from
                    \* a begin_read() in flight
  None              \* no page image

ASSUME ThreadsAssumption == Readers \cap Writers = {} /\ IsFiniteSet(Readers)
ASSUME BoundsAssumption == MaxPages \in Nat \ {0} /\ MaxTx \in Nat
ASSUME AloneAssumption == CheckpointAlone \in BOOLEAN
ASSUME NoneAssumption == None \notin Nat

Threads  == Readers \cup Writers
Pages    == 1..MaxPages
Versions == 0..MaxTx
Images   == 0..MaxTx
Entry    == [ver: Versions, data: Images]

VARIABLES
  committed,      \* MvccManager.committed
  activeReaders,  \* MvccManager.active_readers: version -> reference count
  txIds,          \* MvccManager.tx_ids
  index,          \* WalInner.index: page -> ascending list of entries
  cache,          \* PageCache.map
  file,           \* the main database file
  gate,           \* WriteGate.active
  pageCount,      \* StorageEngine.page_count
  freelist        \* StorageEngine.freelist

VARIABLES
  rpc,            \* where a thread is in begin_read or read_page_at
  snap,           \* Snapshot.version of its transaction
  rpage, rbuf     \* the page being read, the image read from the file

VARIABLES
  wpc,            \* where a writer is in its transaction
  txid, pending, localPageCount, localFreelist,   \* the fields of WriteTx
  cver, todo      \* commit: reserved version, pages still to invalidate

VARIABLES
  cpc,            \* where the checkpoint is
  oldest,         \* the oldest_required_version() it has read
  ctodo, cpage    \* pages still to fold, page written but still cached

VARIABLES         \* history, read by properties and by the guard of GetPage
  hist,           \* hist[v]: the database as of commit v
  floor,          \* versions below floor may have been folded away
  obs             \* obs[t]: the last page the transaction of t read

mvccVars == <<committed, activeReaders, txIds>>
engVars  == <<gate, pageCount, freelist>>
readVars == <<rpc, snap, rpage, rbuf>>
txVars   == <<txid, pending, localPageCount, localFreelist>>
comVars  == <<wpc, cver, todo>>
ckVars   == <<cpc, oldest, ctodo, cpage>>
vars == <<mvccVars, index, cache, file, engVars, readVars, txVars, comVars,
          ckVars, hist, floor, obs>>

NoPages == [p \in Pages |-> None]
InTx(w) == wpc[w] = "tx" /\ rpc[w] = "open"
InSeq(s) == {s[i] : i \in DOMAIN s}

(***************************************************************************)
(* StorageEngine::open_inner on a missing file: page 1 is initialised, the *)
(* WAL is empty, so versions and transaction ids start at 0.               *)
(***************************************************************************)
FreshFile == [p \in Pages |-> IF p = 1 THEN 0 ELSE None]

Init ==
  /\ committed = 0 /\ txIds = 0
  /\ activeReaders = [v \in Versions |-> 0]
  /\ index = [p \in Pages |-> <<>>]
  /\ cache = NoPages
  /\ file = FreshFile
  /\ gate = FALSE /\ pageCount = 1 /\ freelist = <<>>
  /\ rpc = [t \in Threads |-> "idle"]
  /\ snap = [t \in Threads |-> 0]
  /\ rpage = [t \in Threads |-> 1]
  /\ rbuf = [t \in Threads |-> 0]
  /\ wpc = [w \in Writers |-> "none"]
  /\ txid = [w \in Writers |-> 0]
  /\ pending = [w \in Writers |-> NoPages]
  /\ localPageCount = [w \in Writers |-> 1]
  /\ localFreelist = [w \in Writers |-> <<>>]
  /\ cver = [w \in Writers |-> 0]
  /\ todo = [w \in Writers |-> {}]
  /\ cpc = "idle" /\ oldest = 0 /\ ctodo = {} /\ cpage = None
  /\ hist = [v \in Versions |-> FreshFile]
  /\ floor = 0
  /\ obs = [t \in Threads |-> {}]

-----------------------------------------------------------------------------
(* Read transactions. *)

\* MvccManager::begin_read, first half: load the committed version.
BeginReadLoad(r) ==
  /\ rpc[r] = "idle"
  /\ rpc' = [rpc EXCEPT ![r] = "loaded"]
  /\ snap' = [snap EXCEPT ![r] = committed]
  /\ UNCHANGED <<mvccVars, index, cache, file, engVars, rpage, rbuf, txVars,
                 comVars, ckVars, hist, floor, obs>>

\* Second half: register that version in active_readers.
BeginReadRegister(r) ==
  /\ rpc[r] = "loaded"
  /\ rpc' = [rpc EXCEPT ![r] = "open"]
  /\ activeReaders' = [activeReaders EXCEPT ![snap[r]] = @ + 1]
  /\ UNCHANGED <<committed, txIds, index, cache, file, engVars, snap, rpage,
                 rbuf, txVars, comVars, ckVars, hist, floor, obs>>

\* Mutant of Release: the entry is removed whatever its count.
RemoveEntry(count) == 0

\* What end_read does to the reference count of its version; at 0 the entry
\* is removed.
Release(count) == IF count > 0 THEN count - 1 ELSE 0

\* ReadTx::drop: MvccManager::end_read.
EndRead(r) ==
  /\ rpc[r] = "open"
  /\ rpc' = [rpc EXCEPT ![r] = "idle"]
  /\ activeReaders' = [activeReaders EXCEPT ![snap[r]] = Release(@)]
  /\ obs' = [obs EXCEPT ![r] = {}]
  /\ snap' = [snap EXCEPT ![r] = 0]
  /\ UNCHANGED <<committed, txIds, index, cache, file, engVars, rpage, rbuf,
                 txVars, comVars, ckVars, hist, floor>>

-----------------------------------------------------------------------------
(* read_page_at: the WAL index, then the cache, then the file. *)

\* Mutant of VisibleEntry: the newest entry, whatever the snapshot.
NewestEntry(s, at, i) == i \in DOMAIN s /\ \A j \in DOMAIN s : j <= i

\* WriteAheadLog::read_page walks the list backwards to the first entry at or
\* below the snapshot.
VisibleEntry(s, at, i) ==
  /\ i \in DOMAIN s /\ s[i].ver <= at
  /\ \A j \in DOMAIN s : s[j].ver <= at => j <= i

NoneVisible(s, at) == \A i \in DOMAIN s : s[i].ver > at

Observe(t, p, d) == obs' = [obs EXCEPT ![t] = {<<p, d>>}]

\* read_page_at returns to its caller.
Return(t) ==
  /\ rpc' = [rpc EXCEPT ![t] = "open"]
  /\ rpage' = [rpage EXCEPT ![t] = 1]
  /\ rbuf' = [rbuf EXCEPT ![t] = 0]

\* get_page: a page that the transaction itself wrote comes from `pending';
\* any other one is looked up in the WAL.  A transaction only follows page
\* numbers stored in its snapshot, so the page exists there.
GetPage(t, p) ==
  /\ rpc[t] = "open"
  /\ t \in Writers => wpc[t] = "tx" /\ pending[t][p] = None
  /\ hist[snap[t]][p] # None
  /\ cpc # "folding"
  /\ \/ /\ \E i \in DOMAIN index[p] :
              /\ VisibleEntry(index[p], snap[t], i)
              /\ Observe(t, p, index[p][i].data)
        /\ UNCHANGED <<rpc, rpage>>
     \/ /\ NoneVisible(index[p], snap[t])
        /\ rpc' = [rpc EXCEPT ![t] = "cache"]
        /\ rpage' = [rpage EXCEPT ![t] = p]
        /\ UNCHANGED obs
  /\ UNCHANGED <<mvccVars, index, cache, file, engVars, snap, rbuf, txVars,
                 comVars, ckVars, hist, floor>>

\* PageCache::get, a hit: the page is returned.
CacheHit(t) ==
  /\ rpc[t] = "cache" /\ cache[rpage[t]] # None
  /\ Observe(t, rpage[t], cache[rpage[t]])
  /\ Return(t)
  /\ UNCHANGED <<mvccVars, index, cache, file, engVars, snap, txVars, comVars,
                 ckVars, hist, floor>>

\* PageCache::get, a miss.
CacheMiss(t) ==
  /\ rpc[t] = "cache" /\ cache[rpage[t]] = None
  /\ rpc' = [rpc EXCEPT ![t] = "file"]
  /\ UNCHANGED <<mvccVars, index, cache, file, engVars, snap, rpage, rbuf,
                 txVars, comVars, ckVars, hist, floor, obs>>

\* DatabaseFile::read_page within the file.
FileRead(t) ==
  /\ rpc[t] = "file" /\ file[rpage[t]] # None
  /\ rbuf' = [rbuf EXCEPT ![t] = file[rpage[t]]]
  /\ rpc' = [rpc EXCEPT ![t] = "fill"]
  /\ UNCHANGED <<mvccVars, index, cache, file, engVars, snap, rpage, txVars,
                 comVars, ckVars, hist, floor, obs>>

\* The read fails, or the page is past the end of the file: get_page returns
\* an error, recorded as having read None when the page should be there.
FileReadFail(t) ==
  /\ rpc[t] = "file"
  /\ \/ UNCHANGED obs
     \/ file[rpage[t]] = None /\ Observe(t, rpage[t], None)
  /\ Return(t)
  /\ UNCHANGED <<mvccVars, index, cache, file, engVars, snap, txVars, comVars,
                 ckVars, hist, floor>>

\* PageCache::insert, which may evict other pages, and the return of the page
\* to the caller.
CacheInsert(t) ==
  /\ rpc[t] = "fill"
  /\ \E evicted \in SUBSET (Pages \ {rpage[t]}) :
       cache' = [p \in Pages |-> IF p = rpage[t] THEN rbuf[t]
                                 ELSE IF p \in evicted THEN None
                                 ELSE cache[p]]
  /\ Observe(t, rpage[t], rbuf[t])
  /\ Return(t)
  /\ UNCHANGED <<mvccVars, index, file, engVars, snap, txVars, comVars, ckVars,
                 hist, floor>>

-----------------------------------------------------------------------------
(* Write transactions. *)

\* The condition WriteGate::acquire waits for.
GateFree == ~gate

\* WriteGate::acquire, then the fields of a new WriteTx.  Only the holder of
\* the gate changes what is copied here.
BeginWrite(w) ==
  /\ wpc[w] = "none" /\ txIds < MaxTx
  /\ GateFree
  /\ gate' = TRUE
  /\ txIds' = txIds + 1
  /\ txid' = [txid EXCEPT ![w] = txIds + 1]
  /\ snap' = [snap EXCEPT ![w] = committed]
  /\ localPageCount' = [localPageCount EXCEPT ![w] = pageCount]
  /\ localFreelist' = [localFreelist EXCEPT ![w] = freelist]
  /\ wpc' = [wpc EXCEPT ![w] = "tx"]
  /\ rpc' = [rpc EXCEPT ![w] = "open"]
  /\ UNCHANGED <<committed, activeReaders, index, cache, file, pageCount,
                 freelist, rpage, rbuf, pending, cver, todo, ckVars, hist,
                 floor, obs>>

\* WriteTx::write_page, on an allocated page that is not free.
WritePage(w, p) ==
  /\ InTx(w)
  /\ p <= localPageCount[w] /\ p \notin InSeq(localFreelist[w])
  /\ pending' = [pending EXCEPT ![w][p] = txid[w]]
  /\ UNCHANGED <<mvccVars, index, cache, file, engVars, readVars, txid,
                 localPageCount, localFreelist, comVars, ckVars, hist, floor,
                 obs>>

\* WriteTx::alloc_page: pop the free list, else grow the file.
AllocPage(w) ==
  /\ InTx(w)
  /\ \/ /\ localFreelist[w] # <<>>
        /\ localFreelist' = [localFreelist EXCEPT
                               ![w] = SubSeq(@, 1, Len(@) - 1)]
        /\ UNCHANGED localPageCount
     \/ /\ localFreelist[w] = <<>>
        /\ localPageCount[w] < MaxPages
        /\ localPageCount' = [localPageCount EXCEPT ![w] = @ + 1]
        /\ UNCHANGED localFreelist
  /\ UNCHANGED <<mvccVars, index, cache, file, engVars, readVars, txid,
                 pending, comVars, ckVars, hist, floor, obs>>

\* WriteTx::free_page, on a page in use; page 1 is never freed.
FreePage(w, p) ==
  /\ InTx(w)
  /\ p # 1 /\ p <= localPageCount[w] /\ p \notin InSeq(localFreelist[w])
  /\ pending' = [pending EXCEPT ![w][p] = None]
  /\ localFreelist' = [localFreelist EXCEPT ![w] = Append(@, p)]
  /\ UNCHANGED <<mvccVars, index, cache, file, engVars, readVars, txid,
                 localPageCount, comVars, ckVars, hist, floor, obs>>

\* WriteTx::finish and the drop of the WriteTx: the gate is released and the
\* transaction's fields are gone.
Finish(w) ==
  /\ gate' = FALSE
  /\ wpc' = [wpc EXCEPT ![w] = "none"]
  /\ rpc' = [rpc EXCEPT ![w] = "idle"]
  /\ snap' = [snap EXCEPT ![w] = 0]
  /\ txid' = [txid EXCEPT ![w] = 0]
  /\ pending' = [pending EXCEPT ![w] = NoPages]
  /\ localPageCount' = [localPageCount EXCEPT ![w] = 1]
  /\ localFreelist' = [localFreelist EXCEPT ![w] = <<>>]
  /\ cver' = [cver EXCEPT ![w] = 0]
  /\ todo' = [todo EXCEPT ![w] = {}]
  /\ obs' = [obs EXCEPT ![w] = {}]

\* WriteTx::rollback, and WriteTx::drop of an unfinished transaction.
Rollback(w) ==
  /\ InTx(w)
  /\ Finish(w)
  /\ UNCHANGED <<mvccVars, index, cache, file, pageCount, freelist, rpage,
                 rbuf, ckVars, hist, floor>>

-----------------------------------------------------------------------------
(* WriteTx::commit. *)

\* MvccManager::reserve_commit_version.
NextVersion(current) == current + 1

\* The version is reserved; the pages of `pending' become frames.
CommitReserve(w) ==
  /\ InTx(w)
  /\ CheckpointAlone => cpc = "idle"
  /\ wpc' = [wpc EXCEPT ![w] = "reserved"]
  /\ cver' = [cver EXCEPT ![w] = NextVersion(committed)]
  /\ todo' = [todo EXCEPT ![w] = {p \in Pages : pending[w][p] # None}]
  /\ UNCHANGED <<mvccVars, index, cache, file, engVars, readVars, txVars,
                 ckVars, hist, floor, obs>>

\* One turn of the loop over `pending', in the order of a HashMap: the page
\* leaves the cache.
CommitInvalidate(w, p) ==
  /\ wpc[w] = "reserved" /\ p \in todo[w]
  /\ cache' = [cache EXCEPT ![p] = None]
  /\ todo' = [todo EXCEPT ![w] = @ \ {p}]
  /\ UNCHANGED <<mvccVars, index, file, engVars, readVars, txVars, wpc, cver,
                 ckVars, hist, floor, obs>>

\* The database after the transaction of w, on top of the version below.
AfterCommit(w) ==
  [p \in Pages |-> IF pending[w][p] # None THEN pending[w][p]
                   ELSE hist[cver[w] - 1][p]]

\* WriteAheadLog::append_commit under the WAL mutex: frames written, synced,
\* then indexed.  Skipped when nothing is pending.
CommitAppend(w) ==
  /\ wpc[w] = "reserved" /\ todo[w] = {}
  /\ pending[w] # NoPages => cpc # "folding"
  /\ index' = [p \in Pages |->
                 IF pending[w][p] # None
                   THEN Append(index[p], [ver |-> cver[w],
                                          data |-> pending[w][p]])
                   ELSE index[p]]
  /\ hist' = [hist EXCEPT ![cver[w]] = AfterCommit(w)]
  /\ wpc' = [wpc EXCEPT ![w] = "appended"]
  /\ UNCHANGED <<mvccVars, cache, file, engVars, readVars, txVars, cver, todo,
                 ckVars, floor, obs>>

\* append_commit fails before anything is indexed; the `?' leaves commit and
\* the transaction is dropped.
CommitFail(w) ==
  /\ wpc[w] = "reserved" /\ todo[w] = {}
  /\ pending[w] # NoPages /\ cpc # "folding"
  /\ Finish(w)
  /\ UNCHANGED <<mvccVars, index, cache, file, pageCount, freelist, rpage,
                 rbuf, ckVars, hist, floor>>

\* Mutant of AtLeast: an increase instead of a maximum.
IncreasedBy(current, v) == current + v

\* VersionCounter::set_at_least.
AtLeast(current, v) == IF current < v THEN v ELSE current

\* MvccManager::publish_commit.
CommitPublish(w) ==
  /\ wpc[w] = "appended"
  /\ committed' = AtLeast(committed, cver[w])
  /\ txIds' = AtLeast(txIds, cver[w])
  /\ wpc' = [wpc EXCEPT ![w] = "published"]
  /\ UNCHANGED <<activeReaders, index, cache, file, engVars, readVars, txVars,
                 cver, todo, ckVars, hist, floor, obs>>

\* Mutant of CommittedCount: the engine keeps its own page count.
StaleCount(w) == pageCount

\* The page count a commit leaves to the engine.
CommittedCount(w) == localPageCount[w]

\* The engine takes over the page count and the free list; finish.
CommitFinish(w) ==
  /\ wpc[w] = "published"
  /\ pageCount' = CommittedCount(w)
  /\ freelist' = localFreelist[w]
  /\ Finish(w)
  /\ UNCHANGED <<mvccVars, index, cache, file, rpage, rbuf, ckVars, hist,
                 floor>>

-----------------------------------------------------------------------------
(* StorageEngine::checkpoint and WriteAheadLog::checkpoint, at most one at a *)
(* time up to its fold, which holds the WAL mutex.                           *)

\* Mutant of OldestRequired: readers do not count.
CurrentVersion(v) == v = committed

\* MvccManager::oldest_required_version.
OldestRequired(v) ==
  \/ /\ activeReaders[v] > 0
     /\ \A u \in Versions : activeReaders[u] > 0 => v <= u
  \/ v = committed /\ \A u \in Versions : activeReaders[u] = 0

\* The callers' discipline of CheckpointAlone: no begin_read is between its
\* two halves and no commit between reserve and publish.
Alone ==
  /\ \A r \in Readers : rpc[r] # "loaded"
  /\ \A w \in Writers : wpc[w] \notin {"reserved", "appended"}

CkOldest ==
  /\ cpc = "idle"
  /\ CheckpointAlone => Alone
  /\ \E v \in Versions : OldestRequired(v) /\ oldest' = v
  /\ cpc' = "checking"
  /\ UNCHANGED <<mvccVars, index, cache, file, engVars, readVars, txVars,
                 comVars, ctodo, cpage, hist, floor, obs>>

\* Mutant of CkReturn: the WAL mutex is not released.
CkReturnLocked ==
  /\ cpc' = cpc /\ oldest' = 0 /\ ctodo' = {} /\ cpage' = None

\* WriteAheadLog::checkpoint and checkpoint return, on whatever path.
CkReturn ==
  /\ cpc' = "idle" /\ oldest' = 0 /\ ctodo' = {} /\ cpage' = None

\* The comparison with current_version(): a lagging reader makes checkpoint a
\* no-op.
CkLagging ==
  /\ cpc = "checking" /\ oldest < committed
  /\ CkReturn
  /\ UNCHANGED <<mvccVars, index, cache, file, engVars, readVars, txVars,
                 comVars, hist, floor, obs>>

CkPass ==
  /\ cpc = "checking" /\ oldest >= committed
  /\ cpc' = "passed"
  /\ floor' = committed
  /\ UNCHANGED <<mvccVars, index, cache, file, engVars, readVars, txVars,
                 comVars, oldest, ctodo, cpage, hist, obs>>

Indexed == {p \in Pages : index[p] # <<>>}

\* WriteAheadLog::checkpoint takes the WAL mutex; an empty index ends it.
CkEmpty ==
  /\ cpc = "passed" /\ Indexed = {}
  /\ CkReturn
  /\ UNCHANGED <<mvccVars, index, cache, file, engVars, readVars, txVars,
                 comVars, hist, floor, obs>>

CkLock ==
  /\ cpc = "passed" /\ Indexed # {}
  /\ cpc' = "folding"
  /\ ctodo' = Indexed
  /\ UNCHANGED <<mvccVars, index, cache, file, engVars, readVars, txVars,
                 comVars, oldest, cpage, hist, floor, obs>>

\* Mutant of Folded: the first entry of the list.
FirstFolded(s) == s[1].data

\* Highest version of each page wins.
Folded(s) == s[Len(s)].data

\* The pages are folded in ascending order; p is the next one.
NextToFold(p) ==
  /\ cpc = "folding" /\ cpage = None
  /\ p \in ctodo /\ \A q \in ctodo : p <= q

\* DatabaseFile::write_page: image d at page p.  A write past the end leaves
\* a hole that reads as zeros.
Written(p, d) ==
  [q \in Pages |-> IF q = p THEN d
                   ELSE IF q < p /\ file[q] = None THEN 0
                   ELSE file[q]]

CkWritePage(p) ==
  /\ NextToFold(p)
  /\ file' = Written(p, Folded(index[p]))
  /\ cpage' = p
  /\ UNCHANGED <<mvccVars, index, cache, engVars, readVars, txVars, comVars,
                 cpc, oldest, ctodo, hist, floor, obs>>

\* The write of a page fails part way: any image may be left behind.
CkWriteFail(p) ==
  /\ NextToFold(p)
  /\ \E d \in Images : file' = Written(p, d)
  /\ CkReturn
  /\ UNCHANGED <<mvccVars, index, cache, engVars, readVars, txVars, comVars,
                 hist, floor, obs>>

\* Mutant of Dropped: the cached copy stays.
Kept(p) == cache

\* PageCache::invalidate.
Dropped(p) == [cache EXCEPT ![p] = None]

CkInvalidate ==
  /\ cpc = "folding" /\ cpage # None
  /\ cache' = Dropped(cpage)
  /\ ctodo' = ctodo \ {cpage}
  /\ cpage' = None
  /\ UNCHANGED <<mvccVars, index, file, engVars, readVars, txVars, comVars,
                 cpc, oldest, hist, floor, obs>>

FoldDone == cpc = "folding" /\ ctodo = {}

\* write_header or sync fails: the index and the log are left as they are.
CkFail ==
  /\ FoldDone
  /\ CkReturn
  /\ UNCHANGED <<mvccVars, index, cache, file, engVars, readVars, txVars,
                 comVars, hist, floor, obs>>

\* Header, sync, truncation of the log, index.clear().
CkFinish ==
  /\ FoldDone
  /\ index' = [p \in Pages |-> <<>>]
  /\ CkReturn
  /\ UNCHANGED <<mvccVars, cache, file, engVars, readVars, txVars, comVars,
                 hist, floor, obs>>

-----------------------------------------------------------------------------
ReadStep(t) ==
  CacheHit(t) \/ CacheMiss(t) \/ FileRead(t) \/ FileReadFail(t) \/ CacheInsert(t)

CommitStep(w) ==
  \/ \E p \in Pages : CommitInvalidate(w, p)
  \/ CommitAppend(w) \/ CommitFail(w) \/ CommitPublish(w) \/ CommitFinish(w)

CkStep ==
  \/ CkLagging \/ CkPass \/ CkEmpty \/ CkLock
  \/ \E p \in Pages : CkWritePage(p) \/ CkWriteFail(p)
  \/ CkInvalidate \/ CkFail \/ CkFinish

Next ==
  \/ \E r \in Readers : BeginReadLoad(r) \/ BeginReadRegister(r) \/ EndRead(r)
  \/ \E t \in Threads : ReadStep(t) \/ \E p \in Pages : GetPage(t, p)
  \/ \E w \in Writers :
       \/ BeginWrite(w) \/ AllocPage(w) \/ Rollback(w) \/ CommitReserve(w)
       \/ \E p \in Pages : WritePage(w, p) \/ FreePage(w, p)
       \/ CommitStep(w)
  \/ CkOldest \/ CkStep

Spec == Init /\ [][Next]_vars

\* Operations in progress go on. A commit needs the WAL mutex, which repeated
\* checkpoints may take again and again in front of it; the mutex
\* (parking_lot) is eventually fair, so a waiting commit gets its turn: strong
\* fairness. A read in progress and a checkpoint wait only for mutexes that
\* are held for one step. Callers need not end their transactions or ask for a
\* checkpoint.
FairSpec ==
  /\ Spec
  /\ \A t \in Threads : WF_vars(ReadStep(t))
  /\ \A w \in Writers : SF_vars(CommitStep(w))
  /\ WF_vars(CkStep)

-----------------------------------------------------------------------------
(* Properties. *)

ImageOrNone == Images \cup {None}

TypeMvcc ==
  /\ committed \in Versions /\ txIds \in Versions
  /\ activeReaders \in [Versions -> Nat]

TypePages ==
  /\ index \in [Pages -> Seq(Entry)]
  /\ cache \in [Pages -> ImageOrNone]
  /\ file \in [Pages -> ImageOrNone]
  /\ hist \in [Versions -> [Pages -> ImageOrNone]]

TypeEngine ==
  /\ gate \in BOOLEAN /\ pageCount \in Pages /\ freelist \in Seq(Pages)

TypeReads ==
  /\ rpc \in [Threads -> {"idle", "loaded", "open", "cache", "file", "fill"}]
  /\ snap \in [Threads -> Versions]
  /\ rpage \in [Threads -> Pages]
  /\ rbuf \in [Threads -> Images]
  /\ obs \in [Threads -> SUBSET (Pages \X ImageOrNone)]

TypeTx ==
  /\ txid \in [Writers -> Images]
  /\ pending \in [Writers -> [Pages -> ImageOrNone]]
  /\ localPageCount \in [Writers -> Pages]
  /\ localFreelist \in [Writers -> Seq(Pages)]

TypeCommit ==
  /\ wpc \in [Writers -> {"none", "tx", "reserved", "appended", "published"}]
  /\ cver \in [Writers -> Versions]
  /\ todo \in [Writers -> SUBSET Pages]

TypeCk ==
  /\ cpc \in {"idle", "checking", "passed", "folding"}
  /\ oldest \in Versions /\ ctodo \in SUBSET Pages
  /\ cpage \in Pages \cup {None}
  /\ floor \in Versions

\* Every variable has its type; in particular no version, transaction id or
\* page number leaves its bound, and only stored images reach the file.
TypeOK ==
  /\ TypeMvcc /\ TypePages /\ TypeEngine /\ TypeReads /\ TypeTx
  /\ TypeCommit /\ TypeCk

\* A version's reference count is the number of read transactions pinned to
\* it: begin_read and end_read of any threads pair up, none is lost.
RefcountExact ==
  \A v \in Versions :
    activeReaders[v] =
      Cardinality({r \in Readers : /\ rpc[r] \notin {"idle", "loaded"}
                                   /\ snap[r] = v})

\* The gate admits one write transaction, and no commit overtakes another:
\* until it is published, a transaction's snapshot is the newest commit and
\* its reserved version the next one.
SerialCommits ==
  /\ \A u, w \in Writers : wpc[u] # "none" /\ wpc[w] # "none" => u = w
  /\ gate = (\E w \in Writers : wpc[w] # "none")
  /\ \A w \in Writers :
       /\ wpc[w] \in {"tx", "reserved", "appended"} => snap[w] = committed
       /\ wpc[w] \in {"reserved", "appended"} => cver[w] = committed + 1

\* The newest version in the log.
Top == IF \E w \in Writers : wpc[w] = "appended" THEN committed + 1
                                                 ELSE committed

\* Whatever checkpoints and failures do, the newest image of every page is
\* where a reader looks first: at the end of its list in the WAL index, or in
\* the file if there is none.
NewestSurvives ==
  \A p \in Pages : hist[Top][p] # None =>
    hist[Top][p] = IF index[p] = <<>> THEN file[p]
                                      ELSE index[p][Len(index[p])].data

\* Between write transactions the page count covers every stored page and
\* the free list holds distinct pages below it, so that alloc_page hands out
\* no page twice.
AllocationSafe ==
  ~gate => /\ \A p \in Pages : hist[committed][p] # None => p <= pageCount
           /\ \A i \in DOMAIN freelist : freelist[i] \in 2..pageCount
           /\ \A i, j \in DOMAIN freelist : freelist[i] = freelist[j] => i = j

\* A transaction reads every page as of the commit it is pinned to, whatever
\* commits, folds and cache traffic go on meanwhile (wal/mod.rs: "a reader
\* pinned at version V only ever sees frames whose commit version is <= V").
SnapshotIsolation ==
  \A t \in Threads : \A o \in obs[t] : o[2] = hist[snap[t]][o[1]]

\* The cache holds clean pages: outside a checkpoint, a cached page that no
\* log entry hides is the one in the file.
CacheIsClean ==
  \A p \in Pages : cpc = "idle" /\ index[p] = <<>> /\ cache[p] # None =>
    cache[p] = file[p]

\* Commits happen one by one and no committed version is rewritten.
HistoryGrows ==
  [][/\ committed' \in {committed, committed + 1}
     /\ \A v \in 0..committed : hist'[v] = hist[v]]_vars

\* A page read, a commit and a checkpoint that have started come to an end:
\* none waits for the WAL mutex forever.
OperationsEnd ==
  /\ \A t \in Threads : rpc[t] \in {"cache", "file", "fill"}
                          ~> rpc[t] \notin {"cache", "file", "fill"}
  /\ \A w \in Writers : wpc[w] \notin {"none", "tx"} ~> wpc[w] = "none"
  /\ cpc # "idle" ~> cpc = "idle"

=============================================================================
