----------------------------- MODULE Durability -----------------------------
(***************************************************************************)
(* What squrust-core leaves on disk: the database file, the write-ahead    *)
(* log beside it, and what StorageEngine::open makes of the two after the  *)
(* process or the power went away at any moment of a commit or of a        *)
(* checkpoint.                                                             *)
(*                                                                         *)
(* Every file write goes to the operating system first and is certain to   *)
(* be on disk only after the next sync of that file.  `file' and `wal' are *)
(* what the operating system returns to a read; `fileDisk' and `walDisk'   *)
(* are, page by page and slot by slot, everything a power loss may leave   *)
(* there, torn pages and torn frames included.  Truncation of a file is    *)
(* ordered before later writes to it, as in every journalling file system: *)
(* either it is lost together with them (`walPast') or it is on disk.      *)
(*                                                                         *)
(* One client thread runs transactions and checkpoints one after another:  *)
(* what concurrent ones do to each other is the subject of Storage.  The   *)
(* index therefore keeps the last entry of each page only, the one that    *)
(* every read at the current version finds.  A page is its body, named by  *)
(* the transaction that wrote it, and, on page 1, its database header.     *)
(***************************************************************************)
EXTENDS Integers, FiniteSets, FiniteSetsExt

CONSTANTS
    NumPages,     \* pages the database may grow to
    MaxTx,        \* transactions begun in a behaviour
    MaxSlots,     \* frames the log file may hold
    MaxUser,      \* values of PRAGMA user_version
    MaxCrashes,   \* process deaths and power losses in a behaviour
    LateFlush     \* whether the power may fail before the operating system has
                  \* written out the log of a process that died

ASSUME PagesAssumption == NumPages \in Nat \ {0}
ASSUME BoundsAssumption == /\ MaxTx \in Nat
                           /\ MaxSlots \in Nat
                           /\ MaxUser \in Nat
                           /\ MaxCrashes \in Nat
ASSUME FlushAssumption == LateFlush \in BOOLEAN

VARIABLES
    mode,       \* what the process is doing, or that there is none
    file,       \* DatabaseFile: page -> image, as a read returns it
    fileLen,    \* its length in pages
    fileDisk,   \* page -> the images a power loss may leave
    lenDisk,    \* the length that is certain
    wal,        \* the log file: slot -> frame, or Bad
    walDisk,    \* slot -> what a power loss may leave
    walPast,    \* the same for the file before truncations not yet synced
    index,      \* WalInner.index: page -> its last entry, or NoEntry
    writeOffset,\* WalInner.write_offset, in frames
    version,    \* max_version, which is also the version counter
    dbSize,     \* WalInner.db_size
    pageCount,  \* StorageEngine.page_count
    tx,         \* the transaction in append_commit
    doubt,      \* those without an answer since the last answered one
    toWrite,    \* frames or folded pages still to be written
    spoilt,     \* whether an append has failed so far
    begun,      \* transactions begun so far
    crashes,    \* crashes so far
    committed   \* page -> body after the last answered commit

disk == <<file, fileLen, fileDisk, lenDisk, wal, walDisk, walPast>>
engine == <<index, writeOffset, version, dbSize, pageCount>>
promised == <<committed, spoilt>>
vars == <<mode, disk, engine, tx, doubt, toWrite, begun, crashes,
          promised>>

Pages == 1..NumPages
Slots == 1..MaxSlots
Bodies == 0..MaxTx
Torn == MaxTx + 1
Users == 0..MaxUser

Headers == [magic : BOOLEAN, user : Users, size : 0..NumPages]
Images == [body : Bodies \cup {Torn}, hdr : Headers]

\* RawPage::new: all bytes zero, on page 1 the header region too.
Zeroed == [magic |-> FALSE, user |-> 0, size |-> 0]
Blank == [body |-> 0, hdr |-> Zeroed]

Bad == [page |-> 0]  \* a slot past the end of the file, or one that decode rejects
NoEntry == [ver |-> 0]
Frames == [page : Pages, ver : 1..MaxTx, size : 0..NumPages, img : Images]
Entries == [ver : 1..MaxTx, img : Images]

NoTx == [id |-> 0, pages |-> {}, user |-> 0, size |-> 0]
Transactions == [id : Bodies, pages : SUBSET Pages, user : Users, size : 0..NumPages]

Live == {"idle", "append", "fold", "sync", "truncate"}
Modes == Live \cup {"closed", "failed"}
-----------------------------------------------------------------------------
(* Reads of the open database.                                             *)

\* read_page_at at the current version: the log's entry, or the file.
View(p) == IF index[p] # NoEntry THEN index[p].img ELSE file[p]
-----------------------------------------------------------------------------
(* The log.                                                                *)

\* A replay that goes on after a slot it cannot decode.
LastCommitFrame(w) ==
    Max({0} \cup {i \in Slots : w[i] # Bad /\ w[i].size # 0})

\* The last commit frame that no undecodable slot precedes: replay stops at the
\* first bad slot and drops the frames pending there.
LastCommitted(w) ==
    Max({0} \cup {i \in Slots : /\ \A j \in 1..i : w[j] # Bad
                                /\ w[i].size # 0})

\* The slots of page p among the first n.
SlotsOf(w, n, p) == {i \in 1..n : w[i].page = p}

\* The commit frame that ends the transaction of slot i.
CommitOf(w, n, i) == Min({j \in i..n : w[j] # Bad /\ w[j].size # 0})

Replayed(w, n, p) ==
    IF SlotsOf(w, n, p) = {} THEN NoEntry
    ELSE LET i == Max(SlotsOf(w, n, p))
         IN [ver |-> w[CommitOf(w, n, i)].ver, img |-> w[i].img]

\* A replay that leaves max_version at its initial value.
VersionForgotten(w, n) == 0

ReplayedVersion(w, n) ==
    Max({0} \cup {w[i].ver : i \in {k \in 1..n : w[k] # Bad /\ w[k].size # 0}})

ReplayedSize(w, n, initial) == IF n = 0 THEN initial ELSE w[n].size
-----------------------------------------------------------------------------
(* Writes and syncs of the two files.                                      *)

\* What a power loss may leave of a page that had the images in S and is
\* written with img: the first sector, with the header, may be old or new on
\* its own, and the rest may be a mixture unless all of them agree on it.
Landed(S, img) ==
    LET bodies == {i.body : i \in S} \cup {img.body}
    IN [body : IF bodies = {img.body} THEN bodies ELSE bodies \cup {Torn},
        hdr  : {i.hdr : i \in S} \cup {img.hdr}]

WriteFile(p, img) ==
    /\ file' = [file EXCEPT ![p] = img]
    /\ fileDisk' = [fileDisk EXCEPT ![p] = Landed(@, img)]
    /\ fileLen' = Max({fileLen, p})

SyncFile ==
    /\ fileDisk' = [p \in Pages |-> {file[p]}]
    /\ lenDisk' = fileLen

WriteSlot(i, f) ==
    /\ wal' = [wal EXCEPT ![i] = f]
    /\ walDisk' = [walDisk EXCEPT ![i] = @ \cup {f, Bad}]

\* A commit that answers before the log is on disk.
NoSync == UNCHANGED <<walDisk, walPast>>

SyncWal ==
    /\ walDisk' = [i \in Slots |-> {wal[i]}]
    /\ walPast' = {}

\* File::set_len of the log to its first n slots.
SetLen(n) ==
    /\ wal' = [i \in Slots |-> IF i <= n THEN wal[i] ELSE Bad]
    /\ walDisk' = [i \in Slots |-> IF i <= n THEN walDisk[i] ELSE {Bad}]
    /\ walPast' = walPast \cup {walDisk}
-----------------------------------------------------------------------------
(* A commit, frame by frame.                                               *)

\* WriteTx::commit up to the first frame.  A transaction has written a
\* non-empty set of pages, every page it allocated among them.
Begin(T, n) ==
    /\ mode = "idle"
    /\ begun < MaxTx
    /\ writeOffset + Cardinality(T) <= MaxSlots
    /\ T # {} /\ T \subseteq 1..n
    /\ (pageCount + 1)..n \subseteq T
    /\ mode' = "append"
    /\ begun' = begun + 1
    /\ toWrite' = T
    /\ doubt' = doubt \cup {tx'}

\* A b-tree transaction: write_node and write_overflow build each page from
\* RawPage::new.
BeginCommit ==
    /\ \E n \in pageCount..NumPages, T \in SUBSET Pages :
          /\ tx' = [id |-> begun + 1, pages |-> T, user |-> 0, size |-> n]
          /\ Begin(T, n)
    /\ UNCHANGED <<disk, engine, crashes, promised>>

\* set_user_version: page 1 with four header bytes patched; id 0 tells it
\* from a transaction that writes bodies.
SetUserVersion ==
    /\ \E u \in Users : tx' = [id |-> 0, pages |-> {1}, user |-> u, size |-> pageCount]
    /\ Begin({1}, pageCount)
    /\ UNCHANGED <<disk, engine, crashes, promised>>

\* The image that the transaction in tx puts on page p.
ImageOf(p) ==
    IF tx.id = 0 THEN [View(1) EXCEPT !.hdr.user = tx.user]
    ELSE [body |-> tx.id, hdr |-> Zeroed]

NextSlot == writeOffset + Cardinality(tx.pages) - Cardinality(toWrite) + 1

FrameOf(p) ==
    [page |-> p, ver |-> version + 1,
     size |-> IF toWrite = {p} THEN tx.size ELSE 0, img |-> ImageOf(p)]

\* One write_all_at of append_commit; pending is a HashMap, so any order.
AppendFrame ==
    /\ mode = "append"
    /\ \E p \in toWrite :
          /\ WriteSlot(NextSlot, FrameOf(p))
          /\ toWrite' = toWrite \ {p}
    /\ UNCHANGED <<mode, file, fileLen, fileDisk, lenDisk, walPast, engine, tx, doubt,
                   begun, crashes, promised>>

\* The sync, the index and the counters, the answer to the caller.
AppendSync ==
    /\ mode = "append"
    /\ toWrite = {}
    /\ SyncWal
    /\ writeOffset' = writeOffset + Cardinality(tx.pages)
    /\ version' = version + 1
    /\ index' = [p \in Pages |-> IF p \in tx.pages
                                 THEN [ver |-> version + 1, img |-> ImageOf(p)]
                                 ELSE index[p]]
    /\ dbSize' = tx.size
    /\ pageCount' = tx.size
    /\ committed' = [p \in Pages |-> IF p \in tx.pages /\ tx.id # 0
                                     THEN tx.id ELSE committed[p]]
    /\ spoilt' = spoilt
    /\ tx' = NoTx
    /\ doubt' = {}
    /\ mode' = "idle"
    /\ UNCHANGED <<file, fileLen, fileDisk, lenDisk, wal, toWrite, begun, crashes>>

\* A write or the sync fails: write_offset, index and versions stay, what was
\* written stays in the file.
AppendFail ==
    /\ mode = "append"
    /\ \/ UNCHANGED <<wal, walDisk>>
       \/ \E p \in toWrite : WriteSlot(NextSlot, Bad)
    /\ mode' = "idle"
    /\ tx' = NoTx
    /\ spoilt' = TRUE
    /\ toWrite' = {}
    /\ UNCHANGED <<file, fileLen, fileDisk, lenDisk, walPast, engine, doubt, begun,
                   crashes, committed>>
-----------------------------------------------------------------------------
(* A checkpoint, step by step.                                             *)

Indexed == {p \in Pages : index[p] # NoEntry}

\* checkpoint returns at once when the log holds nothing.
CheckpointEmpty ==
    /\ mode = "idle"
    /\ Indexed = {}
    /\ UNCHANGED vars

BeginCheckpoint ==
    /\ mode = "idle"
    /\ Indexed # {}
    /\ mode' = "fold"
    /\ toWrite' = Indexed
    /\ UNCHANGED <<disk, engine, tx, doubt, begun, crashes, promised>>

FoldPage ==
    /\ mode = "fold"
    /\ toWrite # {}
    /\ WriteFile(Min(toWrite), index[Min(toWrite)].img)
    /\ toWrite' = toWrite \ {Min(toWrite)}
    /\ UNCHANGED <<mode, lenDisk, wal, walDisk, walPast, engine, tx, doubt, begun,
                   crashes, promised>>

\* A header whose size adds up what it should take the maximum of.
SummedHeader ==
    [magic |-> TRUE, user |-> file[1].hdr.user, size |-> fileLen + dbSize]

\* write_header: page 1 is read back, its header region rewritten.
FileHeader ==
    [magic |-> TRUE, user |-> file[1].hdr.user, size |-> Max({fileLen, dbSize})]

WriteHeader ==
    /\ mode = "fold"
    /\ toWrite = {}
    /\ WriteFile(1, [file[1] EXCEPT !.hdr = FileHeader])
    /\ mode' = "sync"
    /\ UNCHANGED <<lenDisk, wal, walDisk, walPast, engine, tx, doubt, toWrite, begun,
                   crashes, promised>>

\* A checkpoint that truncates the log before the file is on disk.
SyncSkipped ==
    /\ mode = "sync"
    /\ mode' = "truncate"
    /\ UNCHANGED <<disk, engine, tx, doubt, toWrite, begun, crashes, promised>>

CheckpointSync ==
    /\ mode = "sync"
    /\ SyncFile
    /\ mode' = "truncate"
    /\ UNCHANGED <<file, fileLen, wal, walDisk, walPast, engine, tx, doubt, toWrite,
                   begun, crashes, promised>>

\* set_len(0) and the reset of the log; max_version and db_size stay.
Truncate ==
    /\ mode = "truncate"
    /\ SetLen(0)
    /\ writeOffset' = 0
    /\ index' = [p \in Pages |-> NoEntry]
    /\ mode' = "idle"
    /\ UNCHANGED <<file, fileLen, fileDisk, lenDisk, version, dbSize, pageCount,
                   tx, doubt, toWrite, begun, crashes, promised>>

\* An I/O error at any step: the log and the index stay as they are.
CheckpointFail ==
    /\ mode \in {"fold", "sync", "truncate"}
    /\ mode' = "idle"
    /\ toWrite' = {}
    /\ UNCHANGED <<disk, engine, tx, doubt, begun, crashes, promised>>
-----------------------------------------------------------------------------
(* The end of a process, a power loss, and the next open.                  *)

Stop ==
    /\ mode' = "closed"
    /\ index' = [p \in Pages |-> NoEntry]
    /\ writeOffset' = 0 /\ version' = 0 /\ dbSize' = 0 /\ pageCount' = 0
    /\ tx' = NoTx
    /\ toWrite' = {}
    /\ UNCHANGED <<doubt, begun, promised>>

\* The process ends, orderly or not: the engine flushes nothing when dropped.
Exit ==
    /\ mode \in Live
    /\ crashes < MaxCrashes
    /\ crashes' = crashes + 1
    /\ Stop
    /\ IF LateFlush THEN UNCHANGED <<walDisk, walPast>> ELSE SyncWal
    /\ UNCHANGED <<file, fileLen, fileDisk, lenDisk, wal>>

PowerLoss ==
    /\ crashes < MaxCrashes
    /\ crashes' = crashes + 1
    /\ Stop
    /\ \E D \in walPast \cup {walDisk} :
          wal' \in {w \in [Slots -> UNION {D[i] : i \in Slots}] : \A i \in Slots : w[i] \in D[i]}
    /\ walDisk' = [i \in Slots |-> {wal'[i]}]
    /\ walPast' = {}
    /\ fileLen' \in lenDisk..fileLen
    /\ \E f \in [Pages -> UNION {fileDisk[p] : p \in Pages} \cup {Blank}] :
          /\ \A p \in Pages : f[p] \in (IF p <= fileLen' THEN fileDisk[p] ELSE {Blank})
          /\ file' = f
    /\ fileDisk' = [p \in Pages |-> {file'[p]}]
    /\ lenDisk' = fileLen'

\* DbHeader::read_from.
HeaderReadable == file[1].hdr.magic

\* An open that trusts the header and the length of the file alone.
FilePages(n) == Max({1, file[1].hdr.size, fileLen})

\* The page count of the opened engine.
OpenedPages(n) ==
    Max({1, file[1].hdr.size, ReplayedSize(wal, n, file[1].hdr.size), fileLen})

\* The promised bodies once transaction t counts as committed.
With(t) == [p \in Pages |-> IF p \in t.pages /\ t.id # 0 THEN t.id ELSE committed[p]]

\* open_inner with the replay of the log.  Which of the transactions without an
\* answer has survived, if any, is only known here.
Open ==
    /\ mode = "closed"
    /\ HeaderReadable
    /\ LET n == LastCommitted(wal)
           found == [p \in Pages |-> IF Replayed(wal, n, p) # NoEntry
                                     THEN Replayed(wal, n, p).img ELSE file[p]]
           survivors == {t \in doubt : /\ \A p \in Pages : found[p].body = With(t)[p]
                                       /\ t.id = 0 => found[1].hdr.user = t.user}
       IN /\ SetLen(n)
          /\ index' = [p \in Pages |-> Replayed(wal, n, p)]
          /\ writeOffset' = n
          /\ version' = ReplayedVersion(wal, n)
          /\ dbSize' = ReplayedSize(wal, n, file[1].hdr.size)
          /\ pageCount' = OpenedPages(n)
          /\ IF survivors = {} THEN UNCHANGED promised
             ELSE LET t == CHOOSE t \in survivors : TRUE
                  IN committed' = With(t) /\ spoilt' = spoilt
    /\ doubt' = {}
    /\ mode' = "idle"
    /\ UNCHANGED <<file, fileLen, fileDisk, lenDisk, tx, toWrite, begun, crashes>>

\* DatabaseFile::open fails with BadMagic; the caller may try again, in vain.
OpenFail ==
    /\ mode \in {"closed", "failed"}
    /\ ~HeaderReadable
    /\ mode' = "failed"
    /\ UNCHANGED <<disk, engine, tx, doubt, toWrite, begun, crashes, promised>>
-----------------------------------------------------------------------------
\* DatabaseFile::init and an empty log, both synced.
Init ==
    /\ mode = "idle"
    /\ file = [p \in Pages |-> IF p = 1
                              THEN [body |-> 0, hdr |-> [magic |-> TRUE, user |-> 0, size |-> 1]]
                              ELSE Blank]
    /\ fileLen = 1
    /\ fileDisk = [p \in Pages |-> {file[p]}]
    /\ lenDisk = 1
    /\ wal = [i \in Slots |-> Bad]
    /\ walDisk = [i \in Slots |-> {Bad}]
    /\ walPast = {}
    /\ index = [p \in Pages |-> NoEntry]
    /\ writeOffset = 0 /\ version = 0 /\ dbSize = 1 /\ pageCount = 1
    /\ tx = NoTx /\ doubt = {} /\ toWrite = {} /\ begun = 0 /\ crashes = 0
    /\ committed = [p \in Pages |-> 0]
    /\ spoilt = FALSE

Next ==
    \/ BeginCommit
    \/ SetUserVersion
    \/ AppendFrame
    \/ AppendSync
    \/ AppendFail
    \/ CheckpointEmpty
    \/ BeginCheckpoint
    \/ FoldPage
    \/ WriteHeader
    \/ CheckpointSync
    \/ Truncate
    \/ CheckpointFail
    \/ Exit
    \/ PowerLoss
    \/ Open
    \/ OpenFail

Spec == Init /\ [][Next]_vars
-----------------------------------------------------------------------------
(* Properties.                                                             *)

SlotSets == [Slots -> SUBSET (Frames \cup {Bad})]

\* Every variable keeps its type.
TypeOK ==
    /\ mode \in Modes
    /\ file \in [Pages -> Images]
    /\ fileDisk \in [Pages -> SUBSET Images]
    /\ fileLen \in Pages /\ lenDisk \in Pages
    /\ wal \in [Slots -> Frames \cup {Bad}]
    /\ walDisk \in SlotSets
    /\ \A D \in walPast : D \in SlotSets
    /\ index \in [Pages -> Entries \cup {NoEntry}]
    /\ writeOffset \in 0..MaxSlots
    /\ version \in 0..MaxTx
    /\ dbSize \in 0..NumPages /\ pageCount \in 0..NumPages
    /\ tx \in Transactions /\ doubt \subseteq Transactions
    /\ toWrite \in SUBSET Pages
    /\ begun \in 0..MaxTx /\ crashes \in 0..MaxCrashes
    /\ committed \in [Pages -> Bodies] /\ spoilt \in BOOLEAN

\* Durability and atomicity of commits (append_commit, replay, checkpoint): an
\* open database shows exactly the answered commits, whatever crashed before,
\* plus all or nothing of the one transaction that got no answer; no page is
\* ever torn or older than its last commit.  This holds as long as no append
\* has failed.
RecoversCommitted ==
    mode \in Live /\ ~spoilt => \A p \in Pages : View(p).body = committed[p]

\* The same when appends may fail: replay reads committed transactions only, so
\* that of a commit that failed either everything or nothing is ever seen.
FailedCommitIsAtomic ==
    mode \in Live => \A p \in Pages : View(p).body = committed[p]

\* Checksums reject torn frames and the log outlives the fold: even when commits
\* fail on I/O errors and leave frames behind, no open database shows a page
\* that is half one version and half another.
NoTornPage == mode \in Live => \A p \in Pages : View(p).body # Torn

\* append_commit syncs before it updates the index so that no reader sees a
\* version that is not yet durable: every frame the index was built from is
\* certain to be on disk.
ObservedIsDurable ==
    mode \in Live => \A i \in 1..writeOffset : walDisk[i] = {wal[i]}

\* What read_page relies on when it searches the entries of a page from the
\* end: commit versions never decrease along the log, and none is above the
\* counter that new snapshots take, after any recovery from a crash.
LogAscends ==
    mode \in Live /\ ~spoilt =>
        /\ \A i, j \in 1..writeOffset : i <= j => wal[i].ver <= wal[j].ver
        /\ \A i \in 1..writeOffset : wal[i].ver <= version
        /\ \A p \in Pages : index[p].ver <= version

\* alloc_page must never hand out a page that holds committed data: after any
\* recovery the engine counts every page that a commit has written.  Frames of a
\* failed append, replayed behind a later commit, may bring back an older count.
PagesCounted ==
    mode \in Live /\ ~spoilt => \A p \in Pages : committed[p] # 0 => p <= pageCount

\* A checkpointed database is complete in its main file: as long as the log
\* holds nothing, the file that is certain to be on disk has a valid header,
\* every committed page, and a recorded size that covers them.
CheckpointedFileComplete ==
    mode \in Live /\ ~spoilt /\ Indexed = {} =>
        /\ \A p \in Pages : fileDisk[p] = {file[p]} /\ file[p].body = committed[p]
        /\ file[1].hdr.magic
        /\ \A p \in Pages : committed[p] # 0 => p <= file[1].hdr.size

\* The documentation's promise that open replays the log after a crash: open
\* never fails on a database that the engine itself has written.
OpenSucceeds == mode # "failed"
=============================================================================
