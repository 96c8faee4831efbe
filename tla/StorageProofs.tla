---------------------------- MODULE StorageProofs ----------------------------
(***************************************************************************)
(* Proofs for every number of threads, pages and transactions.  Inductive  *)
(* is shown to hold initially and to be preserved, part by part (one lemma *)
(* per part, one step per action that touches it); the theorems follow.    *)
(***************************************************************************)
EXTENDS StorageInvariant, TLAPS, FiniteSetTheorems

\* The values Init gives to versions, images and pages are in their sets.
LEMMA Origins == 0 \in Versions /\ 0 \in Images /\ 1 \in Pages
BY BoundsAssumption DEF Versions, Images, Pages

\* None is no image, page or version.
LEMMA NoneFresh == None \notin Images /\ None \notin Pages /\ None \notin Versions
BY NoneAssumption DEF Images, Pages, Versions

\* A step keeps the counters of MvccManager in range.
LEMMA TypeMvccStep == Inductive /\ Next => TypeMvcc'
<1> SUFFICES ASSUME Inductive, Next PROVE TypeMvcc'
  OBVIOUS
<1>0. TypeOK
  BY DEF Inductive
<1> USE Origins DEF TypeOK, ImageOrNone, Threads, mvccVars, engVars, readVars,
                   txVars, comVars, ckVars
<1>1. ASSUME NEW r \in Readers, BeginReadRegister(r) PROVE TypeMvcc'
  BY <1>0, <1>1 DEF TypeMvcc, TypeReads, BeginReadRegister
<1>2. ASSUME NEW r \in Readers, EndRead(r) PROVE TypeMvcc'
  BY <1>0, <1>2 DEF TypeMvcc, TypeReads, EndRead, Release
<1>3. ASSUME NEW w \in Writers, BeginWrite(w) PROVE TypeMvcc'
  BY <1>0, <1>3, BoundsAssumption DEF TypeMvcc, BeginWrite, Versions
<1>4. ASSUME NEW w \in Writers, CommitPublish(w) PROVE TypeMvcc'
  BY <1>0, <1>4 DEF TypeMvcc, TypeCommit, CommitPublish, AtLeast
<1>5. UNCHANGED <<committed, txIds, activeReaders>> => TypeMvcc'
  BY <1>0 DEF TypeMvcc
<1>6. QED
  BY <1>1, <1>2, <1>3, <1>4, <1>5
     DEF Next, ReadStep, CommitStep, CkStep, BeginReadLoad, GetPage, CacheHit,
         CacheMiss, FileRead, FileReadFail, CacheInsert, WritePage, AllocPage,
         FreePage, Rollback, CommitReserve, CommitInvalidate, CommitAppend,
         CommitFail, CommitFinish, CkOldest, CkLagging, CkPass, CkEmpty,
         CkLock, CkWritePage, CkWriteFail, CkInvalidate, CkFail, CkFinish,
         CkReturn, Finish, Return

\* A step keeps the WAL index, the cache, the file and the history well formed.
LEMMA TypePagesStep == Inductive /\ Next => TypePages'
<1> SUFFICES ASSUME Inductive, Next PROVE TypePages'
  OBVIOUS
<1>0. TypeOK
  BY DEF Inductive
<1> USE Origins DEF TypeOK, ImageOrNone, Threads, mvccVars, engVars, readVars,
                   txVars, comVars, ckVars
<1>1. ASSUME NEW t \in Threads, CacheInsert(t) PROVE TypePages'
  BY <1>0, <1>1 DEF TypePages, TypeReads, CacheInsert, Observe, Return
<1>2. ASSUME NEW w \in Writers, NEW p \in Pages, CommitInvalidate(w, p)
      PROVE  TypePages'
  BY <1>0, <1>2 DEF TypePages, CommitInvalidate
<1>3. ASSUME NEW w \in Writers, CommitAppend(w) PROVE TypePages'
  <2> USE DEF CommitAppend, TypeTx, TypeCommit, TypePages
  <2>1. index' \in [Pages -> Seq(Entry)]
    <3> SUFFICES ASSUME NEW p \in Pages, pending[w][p] # None
                 PROVE  Append(index[p], [ver |-> cver[w], data |-> pending[w][p]])
                          \in Seq(Entry)
      BY <1>0, <1>3
    <3>1. [ver |-> cver[w], data |-> pending[w][p]] \in Entry
      BY <1>0, <1>3 DEF Entry
    <3> QED
      BY <1>0, <3>1
  <2>2. AfterCommit(w) \in [Pages -> ImageOrNone]
    <3>1. cver[w] - 1 \in Versions
      BY <1>0, <1>3, BoundsAssumption
         DEF Inductive, SerialCommits, TypeMvcc, Versions
    <3>2. hist[cver[w] - 1] \in [Pages -> ImageOrNone]
      BY <1>0, <3>1 DEF TypePages
    <3> QED
      BY <1>0, <3>2 DEF AfterCommit
  <2> QED
    BY <1>0, <1>3, <2>1, <2>2
<1>4. ASSUME NEW p \in Pages, CkWritePage(p) PROVE TypePages'
  <2>1. index[p] \in Seq(Entry) /\ index[p] # <<>>
    BY <1>0, <1>4
       DEF CkWritePage, NextToFold, TypePages, Inductive, FoldProgress, Indexed
  <2>2. index[p][Len(index[p])] \in Entry
    BY <2>1
  <2>3. Folded(index[p]) \in Images
    BY <2>2 DEF Folded, Entry
  <2> QED
    BY <1>0, <1>4, <2>3 DEF CkWritePage, Written, TypePages
<1>5. ASSUME NEW p \in Pages, CkWriteFail(p) PROVE TypePages'
  BY <1>0, <1>5 DEF TypePages, CkWriteFail, Written, NextToFold, CkReturn
<1>6. ASSUME CkInvalidate PROVE TypePages'
  BY <1>0, <1>6 DEF TypePages, CkInvalidate, Dropped
<1>7. ASSUME CkFinish PROVE TypePages'
  BY <1>0, <1>7 DEF TypePages, CkFinish, FoldDone, CkReturn
<1>8. UNCHANGED <<index, cache, file, hist>> => TypePages'
  BY <1>0 DEF TypePages
<1>9. QED
  BY <1>1, <1>2, <1>3, <1>4, <1>5, <1>6, <1>7, <1>8
     DEF Next, ReadStep, CommitStep, CkStep, BeginReadLoad, BeginReadRegister,
         EndRead, GetPage, CacheHit, CacheMiss, FileRead, FileReadFail,
         BeginWrite, WritePage, AllocPage, FreePage, Rollback, CommitReserve,
         CommitFail, CommitPublish, CommitFinish, CkOldest, CkLagging, CkPass,
         CkEmpty, CkLock, CkFail, CkReturn, Finish, Return

\* A step keeps the fields of StorageEngine well formed.
LEMMA TypeEngineStep == Inductive /\ Next => TypeEngine'
<1> SUFFICES ASSUME Inductive, Next PROVE TypeEngine'
  OBVIOUS
<1>0. TypeOK
  BY DEF Inductive
<1> USE Origins DEF TypeOK, ImageOrNone, Threads, mvccVars, engVars, readVars,
                   txVars, comVars, ckVars
<1>1. ASSUME NEW w \in Writers, BeginWrite(w) PROVE TypeEngine'
  BY <1>0, <1>1 DEF TypeEngine, BeginWrite
<1>2. ASSUME NEW w \in Writers, Rollback(w) PROVE TypeEngine'
  BY <1>0, <1>2 DEF TypeEngine, Rollback, Finish, InTx, NoPages
<1>3. ASSUME NEW w \in Writers, CommitFail(w) PROVE TypeEngine'
  BY <1>0, <1>3 DEF TypeEngine, CommitFail, Finish, NoPages
<1>4. ASSUME NEW w \in Writers, CommitFinish(w) PROVE TypeEngine'
  BY <1>0, <1>4 DEF TypeEngine, TypeTx, CommitFinish, CommittedCount, Finish, NoPages
<1>5. UNCHANGED <<gate, pageCount, freelist>> => TypeEngine'
  BY <1>0 DEF TypeEngine
<1>6. QED
  BY <1>1, <1>2, <1>3, <1>4, <1>5
     DEF Next, ReadStep, CommitStep, CkStep, BeginReadLoad, BeginReadRegister,
         EndRead, GetPage, CacheHit, CacheMiss, FileRead, FileReadFail,
         CacheInsert, WritePage, AllocPage, FreePage, CommitReserve,
         CommitInvalidate, CommitAppend, CommitPublish, CkOldest, CkLagging,
         CkPass, CkEmpty, CkLock, CkWritePage, CkWriteFail, CkInvalidate,
         CkFail, CkFinish, CkReturn, Finish, Return

\* A step keeps the read side of every thread well formed.
LEMMA TypeReadsStep == Inductive /\ Next => TypeReads'
<1> SUFFICES ASSUME Inductive, Next PROVE TypeReads'
  OBVIOUS
<1>0. TypeOK
  BY DEF Inductive
<1> USE Origins DEF TypeOK, ImageOrNone, Threads, mvccVars, engVars, readVars,
                   txVars, comVars, ckVars
<1>1. ASSUME NEW r \in Readers, BeginReadLoad(r) PROVE TypeReads'
  BY <1>0, <1>1 DEF TypeReads, TypeMvcc, BeginReadLoad
<1>2. ASSUME NEW r \in Readers, BeginReadRegister(r) PROVE TypeReads'
  BY <1>0, <1>2 DEF TypeReads, BeginReadRegister
<1>3. ASSUME NEW r \in Readers, EndRead(r) PROVE TypeReads'
  BY <1>0, <1>3 DEF TypeReads, EndRead, Release
<1>4. ASSUME NEW t \in Threads, NEW p \in Pages, GetPage(t, p) PROVE TypeReads'
  <2> USE DEF TypeReads, GetPage
  <2>1. ASSUME NEW i \in DOMAIN index[p], Observe(t, p, index[p][i].data)
        PROVE  obs' \in [Threads -> SUBSET (Pages \X ImageOrNone)]
    <3>0. index[p] \in Seq(Entry)
      BY <1>0 DEF TypePages
    <3>9. index[p][i] \in Entry
      BY <3>0
    <3>1. index[p][i].data \in Images
      BY <3>9 DEF Entry
    <3> QED
      BY <1>0, <2>1, <3>1 DEF Observe
  <2> QED
    BY <1>0, <1>4, <2>1
<1>5. ASSUME NEW t \in Threads, CacheHit(t) PROVE TypeReads'
  BY <1>0, <1>5 DEF TypeReads, TypePages, CacheHit, Observe, Return
<1>6. ASSUME NEW t \in Threads, CacheMiss(t) PROVE TypeReads'
  BY <1>0, <1>6 DEF TypeReads, CacheMiss
<1>7. ASSUME NEW t \in Threads, FileRead(t) PROVE TypeReads'
  BY <1>0, <1>7 DEF TypeReads, TypePages, FileRead
<1>8. ASSUME NEW t \in Threads, FileReadFail(t) PROVE TypeReads'
  BY <1>0, <1>8 DEF TypeReads, FileReadFail, Observe, Return
<1>9. ASSUME NEW t \in Threads, CacheInsert(t) PROVE TypeReads'
  BY <1>0, <1>9 DEF TypeReads, CacheInsert, Observe, Return
<1>10. ASSUME NEW w \in Writers, BeginWrite(w) PROVE TypeReads'
  BY <1>0, <1>10 DEF TypeReads, TypeMvcc, BeginWrite
<1>11. ASSUME NEW w \in Writers, Rollback(w) PROVE TypeReads'
  BY <1>0, <1>11 DEF TypeReads, Rollback, Finish, InTx, NoPages
<1>12. ASSUME NEW w \in Writers, CommitFail(w) PROVE TypeReads'
  BY <1>0, <1>12 DEF TypeReads, CommitFail, Finish, NoPages
<1>13. ASSUME NEW w \in Writers, CommitFinish(w) PROVE TypeReads'
  BY <1>0, <1>13 DEF TypeReads, CommitFinish, Finish, NoPages
<1>14. UNCHANGED <<rpc, snap, rpage, rbuf, obs>> => TypeReads'
  BY <1>0 DEF TypeReads
<1>15. QED
  BY <1>1, <1>2, <1>3, <1>4, <1>5, <1>6, <1>7, <1>8, <1>9, <1>10, <1>11, <1>12,
     <1>13, <1>14
     DEF Next, ReadStep, CommitStep, CkStep, WritePage, AllocPage, FreePage,
         CommitReserve, CommitInvalidate, CommitAppend, CommitPublish,
         CkOldest, CkLagging, CkPass, CkEmpty, CkLock, CkWritePage,
         CkWriteFail, CkInvalidate, CkFail, CkFinish, CkReturn, Finish, Return

\* A step keeps the fields of WriteTx well formed.
LEMMA TypeTxStep == Inductive /\ Next => TypeTx'
<1> SUFFICES ASSUME Inductive, Next PROVE TypeTx'
  OBVIOUS
<1>0. TypeOK
  BY DEF Inductive
<1> USE Origins DEF TypeOK, ImageOrNone, Threads, mvccVars, engVars, readVars,
                   txVars, comVars, ckVars
<1>1. ASSUME NEW w \in Writers, BeginWrite(w) PROVE TypeTx'
  BY <1>0, <1>1, BoundsAssumption
     DEF TypeTx, TypeMvcc, TypeEngine, BeginWrite, Images, Versions
<1>2. ASSUME NEW w \in Writers, NEW p \in Pages, WritePage(w, p) PROVE TypeTx'
  BY <1>0, <1>2 DEF TypeTx, WritePage, InTx
<1>3. ASSUME NEW w \in Writers, AllocPage(w) PROVE TypeTx'
  <2> USE DEF AllocPage, TypeTx
  <2>1. localPageCount' \in [Writers -> Pages]
    <3>1. localPageCount[w] \in Pages
      BY <1>0
    <3>2. localPageCount[w] < MaxPages => localPageCount[w] + 1 \in Pages
      BY <3>1, BoundsAssumption DEF Pages
    <3> QED
      BY <1>0, <1>3, <3>2
  <2>2. localFreelist[w] # <<>> =>
          SubSeq(localFreelist[w], 1, Len(localFreelist[w]) - 1) \in Seq(Pages)
    BY <1>0
  <2> QED
    BY <1>0, <1>3, <2>1, <2>2
<1>4. ASSUME NEW w \in Writers, NEW p \in Pages, FreePage(w, p) PROVE TypeTx'
  <2>1. Append(localFreelist[w], p) \in Seq(Pages)
    BY <1>0 DEF TypeTx
  <2> QED
    BY <1>0, <1>4, <2>1 DEF TypeTx, FreePage
<1>5. ASSUME NEW w \in Writers, Rollback(w) PROVE TypeTx'
  BY <1>0, <1>5 DEF TypeTx, Rollback, Finish, InTx, NoPages
<1>6. ASSUME NEW w \in Writers, CommitFail(w) PROVE TypeTx'
  BY <1>0, <1>6 DEF TypeTx, CommitFail, Finish, NoPages
<1>7. ASSUME NEW w \in Writers, CommitFinish(w) PROVE TypeTx'
  BY <1>0, <1>7 DEF TypeTx, CommitFinish, Finish, NoPages
<1>8. UNCHANGED <<txid, pending, localPageCount, localFreelist>> => TypeTx'
  BY <1>0 DEF TypeTx
<1>9. QED
  BY <1>1, <1>2, <1>3, <1>4, <1>5, <1>6, <1>7, <1>8
     DEF Next, ReadStep, CommitStep, CkStep, BeginReadLoad, BeginReadRegister,
         EndRead, GetPage, CacheHit, CacheMiss, FileRead, FileReadFail,
         CacheInsert, CommitReserve, CommitInvalidate, CommitAppend,
         CommitPublish, CkOldest, CkLagging, CkPass, CkEmpty, CkLock,
         CkWritePage, CkWriteFail, CkInvalidate, CkFail, CkFinish, CkReturn,
         Finish, Return

\* A step keeps the commit state well formed; a reserved version is in range.
LEMMA TypeCommitStep == Inductive /\ Next => TypeCommit'
<1> SUFFICES ASSUME Inductive, Next PROVE TypeCommit'
  OBVIOUS
<1>0. TypeOK
  BY DEF Inductive
<1> USE Origins DEF TypeOK, ImageOrNone, Threads, mvccVars, engVars, readVars,
                   txVars, comVars, ckVars
<1>1. ASSUME NEW w \in Writers, BeginWrite(w) PROVE TypeCommit'
  BY <1>0, <1>1 DEF TypeCommit, BeginWrite
<1>2. ASSUME NEW w \in Writers, Rollback(w) PROVE TypeCommit'
  BY <1>0, <1>2 DEF TypeCommit, Rollback, Finish, InTx, NoPages
<1>3. ASSUME NEW w \in Writers, CommitReserve(w) PROVE TypeCommit'
  <2>1. committed + 1 \in Versions
    BY <1>0, <1>3, BoundsAssumption
       DEF CommitReserve, InTx, Inductive, IdsAhead, Unpublished, TypeMvcc,
           Versions
  <2> QED
    BY <1>0, <1>3, <2>1 DEF TypeCommit, CommitReserve, InTx, NextVersion
<1>4. ASSUME NEW w \in Writers, NEW p \in Pages, CommitInvalidate(w, p)
      PROVE  TypeCommit'
  BY <1>0, <1>4 DEF TypeCommit, CommitInvalidate
<1>5. ASSUME NEW w \in Writers, CommitAppend(w) PROVE TypeCommit'
  BY <1>0, <1>5 DEF TypeCommit, CommitAppend, AfterCommit
<1>6. ASSUME NEW w \in Writers, CommitFail(w) PROVE TypeCommit'
  BY <1>0, <1>6 DEF TypeCommit, CommitFail, Finish, NoPages
<1>7. ASSUME NEW w \in Writers, CommitPublish(w) PROVE TypeCommit'
  BY <1>0, <1>7 DEF TypeCommit, CommitPublish, AtLeast
<1>8. ASSUME NEW w \in Writers, CommitFinish(w) PROVE TypeCommit'
  BY <1>0, <1>8 DEF TypeCommit, CommitFinish, Finish, NoPages
<1>9. UNCHANGED <<wpc, cver, todo>> => TypeCommit'
  BY <1>0 DEF TypeCommit
<1>10. QED
  BY <1>1, <1>2, <1>3, <1>4, <1>5, <1>6, <1>7, <1>8, <1>9
     DEF Next, ReadStep, CommitStep, CkStep, BeginReadLoad, BeginReadRegister,
         EndRead, GetPage, CacheHit, CacheMiss, FileRead, FileReadFail,
         CacheInsert, WritePage, AllocPage, FreePage, CkOldest, CkLagging,
         CkPass, CkEmpty, CkLock, CkWritePage, CkWriteFail, CkInvalidate,
         CkFail, CkFinish, CkReturn, Finish, Return

\* A step keeps the checkpoint state well formed.
LEMMA TypeCkStep == Inductive /\ Next => TypeCk'
<1> SUFFICES ASSUME Inductive, Next PROVE TypeCk'
  OBVIOUS
<1>0. TypeOK
  BY DEF Inductive
<1> USE Origins DEF TypeOK, ImageOrNone, Threads, mvccVars, engVars, readVars,
                   txVars, comVars, ckVars
<1>1. ASSUME CkOldest PROVE TypeCk'
  BY <1>0, <1>1 DEF TypeCk, CkOldest
<1>2. ASSUME CkLagging PROVE TypeCk'
  BY <1>0, <1>2 DEF TypeCk, CkLagging, CkReturn
<1>3. ASSUME CkPass PROVE TypeCk'
  BY <1>0, <1>3 DEF TypeCk, TypeMvcc, CkPass
<1>4. ASSUME CkEmpty PROVE TypeCk'
  BY <1>0, <1>4 DEF TypeCk, CkEmpty, CkReturn
<1>5. ASSUME CkLock PROVE TypeCk'
  BY <1>0, <1>5 DEF TypeCk, CkLock, Indexed
<1>6. ASSUME NEW p \in Pages, CkWritePage(p) PROVE TypeCk'
  BY <1>0, <1>6 DEF TypeCk, CkWritePage, Written, Folded, NextToFold
<1>7. ASSUME NEW p \in Pages, CkWriteFail(p) PROVE TypeCk'
  BY <1>0, <1>7 DEF TypeCk, CkWriteFail, Written, NextToFold, CkReturn
<1>8. ASSUME CkInvalidate PROVE TypeCk'
  BY <1>0, <1>8 DEF TypeCk, CkInvalidate, Dropped
<1>9. ASSUME CkFail PROVE TypeCk'
  BY <1>0, <1>9 DEF TypeCk, CkFail, FoldDone, CkReturn
<1>10. ASSUME CkFinish PROVE TypeCk'
  BY <1>0, <1>10 DEF TypeCk, CkFinish, FoldDone, CkReturn
<1>11. UNCHANGED <<cpc, oldest, ctodo, cpage, floor>> => TypeCk'
  BY <1>0 DEF TypeCk
<1>12. QED
  BY <1>1, <1>2, <1>3, <1>4, <1>5, <1>6, <1>7, <1>8, <1>9, <1>10, <1>11
     DEF Next, ReadStep, CommitStep, CkStep, BeginReadLoad, BeginReadRegister,
         EndRead, GetPage, CacheHit, CacheMiss, FileRead, FileReadFail,
         CacheInsert, BeginWrite, WritePage, AllocPage, FreePage, Rollback,
         CommitReserve, CommitInvalidate, CommitAppend, CommitFail,
         CommitPublish, CommitFinish, CkReturn, Finish, Return

\* The gate keeps write transactions, and so commits, one after the other.
LEMMA SerialCommitsStep == Inductive /\ Next => SerialCommits'
<1> SUFFICES ASSUME Inductive, Next PROVE SerialCommits'
  OBVIOUS
<1>a. SerialCommits
  BY DEF Inductive
<1>b. /\ wpc \in [Writers -> {"none", "tx", "reserved", "appended", "published"}]
      /\ cver \in [Writers -> Versions] /\ snap \in [Threads -> Versions]
      /\ committed \in Nat
  BY DEF Inductive, TypeOK, TypeCommit, TypeReads, TypeMvcc, Versions
<1> USE DEF Threads, mvccVars, engVars, readVars, txVars, comVars, ckVars
<1>1. ASSUME NEW r \in Readers, BeginReadLoad(r) PROVE SerialCommits'
  BY <1>1, <1>a, <1>b, ThreadsAssumption DEF SerialCommits, BeginReadLoad
<1>2. ASSUME NEW r \in Readers, EndRead(r) PROVE SerialCommits'
  BY <1>2, <1>a, <1>b, ThreadsAssumption DEF SerialCommits, EndRead, Release
<1>3. ASSUME NEW w \in Writers, BeginWrite(w) PROVE SerialCommits'
  BY <1>3, <1>a, <1>b DEF SerialCommits, GateFree, BeginWrite
<1>4. ASSUME NEW w \in Writers, Rollback(w) PROVE SerialCommits'
  BY <1>4, <1>a, <1>b DEF SerialCommits, Rollback, Finish, InTx, NoPages
<1>5. ASSUME NEW w \in Writers, CommitReserve(w) PROVE SerialCommits'
  BY <1>5, <1>a, <1>b DEF SerialCommits, CommitReserve, InTx, NextVersion
<1>6. ASSUME NEW w \in Writers, CommitAppend(w) PROVE SerialCommits'
  BY <1>6, <1>a, <1>b DEF SerialCommits, CommitAppend, AfterCommit
<1>7. ASSUME NEW w \in Writers, CommitFail(w) PROVE SerialCommits'
  BY <1>7, <1>a, <1>b DEF SerialCommits, CommitFail, Finish, NoPages
<1>8. ASSUME NEW w \in Writers, CommitPublish(w) PROVE SerialCommits'
  BY <1>8, <1>a, <1>b DEF SerialCommits, CommitPublish, AtLeast
<1>9. ASSUME NEW w \in Writers, CommitFinish(w) PROVE SerialCommits'
  BY <1>9, <1>a, <1>b DEF SerialCommits, CommitFinish, Finish, NoPages
<1>10. UNCHANGED <<wpc, gate, snap, committed, cver>> => SerialCommits'
  BY <1>a DEF SerialCommits
<1>11. QED
  BY <1>1, <1>2, <1>3, <1>4, <1>5, <1>6, <1>7, <1>8, <1>9, <1>10
     DEF Next, ReadStep, CommitStep, CkStep, BeginReadRegister, GetPage,
         CacheHit, CacheMiss, FileRead, FileReadFail, CacheInsert, WritePage,
         AllocPage, FreePage, CommitInvalidate, CkOldest, CkLagging, CkPass,
         CkEmpty, CkLock, CkWritePage, CkWriteFail, CkInvalidate, CkFail,
         CkFinish, CkReturn, Finish, Return, FoldDone, NextToFold, mvccVars,
         engVars, readVars, txVars, comVars, ckVars

\* tx_ids stays ahead of the committed version.
LEMMA IdsAheadStep == Inductive /\ Next => IdsAhead'
<1> SUFFICES ASSUME Inductive, Next PROVE IdsAhead'
  OBVIOUS
<1>a. IdsAhead /\ SerialCommits
  BY DEF Inductive
<1>b. /\ wpc \in [Writers -> {"none", "tx", "reserved", "appended", "published"}]
      /\ cver \in [Writers -> Nat] /\ committed \in Nat /\ txIds \in Nat
  BY DEF Inductive, TypeOK, TypeCommit, TypeMvcc, Versions
<1> USE DEF mvccVars, engVars, readVars, txVars, comVars, ckVars
<1>1. ASSUME NEW w \in Writers, BeginWrite(w) PROVE IdsAhead'
  BY <1>1, <1>a, <1>b DEF IdsAhead, Unpublished, BeginWrite
<1>2. ASSUME NEW w \in Writers, Rollback(w) PROVE IdsAhead'
  BY <1>2, <1>a, <1>b
     DEF IdsAhead, Unpublished, Rollback, Finish, InTx, NoPages
<1>3. ASSUME NEW w \in Writers, CommitReserve(w) PROVE IdsAhead'
  BY <1>3, <1>a, <1>b DEF IdsAhead, Unpublished, CommitReserve, InTx
<1>4. ASSUME NEW w \in Writers, CommitAppend(w) PROVE IdsAhead'
  BY <1>4, <1>a, <1>b DEF IdsAhead, Unpublished, CommitAppend, AfterCommit
<1>5. ASSUME NEW w \in Writers, CommitFail(w) PROVE IdsAhead'
  BY <1>5, <1>a, <1>b DEF IdsAhead, Unpublished, CommitFail, Finish, NoPages
<1>6. ASSUME NEW w \in Writers, CommitPublish(w) PROVE IdsAhead'
  BY <1>6, <1>a, <1>b
     DEF IdsAhead, Unpublished, SerialCommits, CommitPublish, AtLeast
<1>7. ASSUME NEW w \in Writers, CommitFinish(w) PROVE IdsAhead'
  BY <1>7, <1>a, <1>b DEF IdsAhead, Unpublished, CommitFinish, Finish, NoPages
<1>8. UNCHANGED <<wpc, committed, txIds>> => IdsAhead'
  BY <1>a DEF IdsAhead, Unpublished
<1>9. QED
  BY <1>1, <1>2, <1>3, <1>4, <1>5, <1>6, <1>7, <1>8
     DEF Next, ReadStep, CommitStep, CkStep, BeginReadLoad, BeginReadRegister,
         EndRead, GetPage, CacheHit, CacheMiss, FileRead, FileReadFail,
         CacheInsert, WritePage, AllocPage, FreePage, CommitInvalidate,
         CkOldest, CkLagging, CkPass, CkEmpty, CkLock, CkWritePage,
         CkWriteFail, CkInvalidate, CkFail, CkFinish, CkReturn, Finish, Return,
         FoldDone, NextToFold, mvccVars, engVars, readVars, txVars, comVars,
         ckVars

\* The program counters of a writer stay in step; what a thread has read exists.
LEMMA CountersStep == Inductive /\ Next => Counters'
<1> SUFFICES ASSUME Inductive, Next PROVE Counters'
  OBVIOUS
<1>a. Counters /\ SerialCommits
  BY DEF Inductive
<1>b. /\ wpc \in [Writers -> {"none", "tx", "reserved", "appended", "published"}]
      /\ rpc \in [Threads -> {"idle", "loaded", "open", "cache", "file", "fill"}]
      /\ snap \in [Threads -> Versions] /\ rpage \in [Threads -> Pages]
      /\ obs \in [Threads -> SUBSET (Pages \X ImageOrNone)]
      /\ committed \in Versions /\ cver \in [Writers -> Versions]
      /\ hist \in [Versions -> [Pages -> ImageOrNone]]
  BY DEF Inductive, TypeOK, TypeCommit, TypeReads, TypeMvcc, TypePages
<1>c. Versions \subseteq Nat
  BY DEF Versions
<1> USE DEF Threads, mvccVars, engVars, readVars, txVars, comVars, ckVars
<1>1. ASSUME NEW r \in Readers, BeginReadLoad(r) PROVE Counters'
  BY <1>1, <1>a, <1>b, <1>c, ThreadsAssumption
     DEF Counters, Reading, BeginReadLoad
<1>2. ASSUME NEW r \in Readers, BeginReadRegister(r) PROVE Counters'
  BY <1>2, <1>a, <1>b, <1>c, ThreadsAssumption
     DEF Counters, Reading, BeginReadRegister
<1>3. ASSUME NEW r \in Readers, EndRead(r) PROVE Counters'
  BY <1>3, <1>a, <1>b, <1>c, ThreadsAssumption
     DEF Counters, Reading, EndRead, Release
<1>4. ASSUME NEW t \in Threads, NEW p \in Pages, GetPage(t, p) PROVE Counters'
  BY <1>4, <1>a, <1>b, <1>c DEF Counters, Reading, GetPage, Observe
<1>5. ASSUME NEW t \in Threads, CacheHit(t) PROVE Counters'
  BY <1>5, <1>a, <1>b, <1>c DEF Counters, Reading, CacheHit, Observe, Return
<1>6. ASSUME NEW t \in Threads, CacheMiss(t) PROVE Counters'
  BY <1>6, <1>a, <1>b, <1>c DEF Counters, Reading, CacheMiss
<1>7. ASSUME NEW t \in Threads, FileRead(t) PROVE Counters'
  BY <1>7, <1>a, <1>b, <1>c DEF Counters, Reading, FileRead
<1>8. ASSUME NEW t \in Threads, FileReadFail(t) PROVE Counters'
  BY <1>8, <1>a, <1>b, <1>c
     DEF Counters, Reading, FileReadFail, Observe, Return
<1>9. ASSUME NEW t \in Threads, CacheInsert(t) PROVE Counters'
  BY <1>9, <1>a, <1>b, <1>c DEF Counters, Reading, CacheInsert, Observe, Return
<1>10. ASSUME NEW w \in Writers, BeginWrite(w) PROVE Counters'
  BY <1>10, <1>a, <1>b, <1>c DEF Counters, Reading, BeginWrite
<1>11. ASSUME NEW w \in Writers, Rollback(w) PROVE Counters'
  BY <1>11, <1>a, <1>b, <1>c
     DEF Counters, Reading, Rollback, Finish, InTx, NoPages
<1>12. ASSUME NEW w \in Writers, CommitReserve(w) PROVE Counters'
  BY <1>12, <1>a, <1>b, <1>c DEF Counters, Reading, CommitReserve, InTx
<1>13. ASSUME NEW w \in Writers, CommitAppend(w) PROVE Counters'
  BY <1>13, <1>a, <1>b, <1>c
     DEF Counters, Reading, SerialCommits, CommitAppend, AfterCommit
<1>14. ASSUME NEW w \in Writers, CommitFail(w) PROVE Counters'
  BY <1>14, <1>a, <1>b, <1>c DEF Counters, Reading, CommitFail, Finish, NoPages
<1>15. ASSUME NEW w \in Writers, CommitPublish(w) PROVE Counters'
  <2>1. committed' = committed + 1
    BY <1>15, <1>a, <1>b, <1>c DEF CommitPublish, AtLeast, SerialCommits
  <2>2. \A t \in Threads : snap[t] <= committed'
    BY <2>1, <1>a, <1>b, BoundsAssumption DEF Counters, Versions
  <2> QED
    BY <1>15, <2>2, <1>a, <1>b DEF Counters, CommitPublish, Reading
<1>16. ASSUME NEW w \in Writers, CommitFinish(w) PROVE Counters'
  BY <1>16, <1>a, <1>b, <1>c
     DEF Counters, Reading, CommitFinish, Finish, NoPages
<1>17. UNCHANGED <<rpc, wpc, snap, committed, obs, rpage, hist>> => Counters'
  BY <1>a DEF Counters, Reading
<1>18. QED
  BY <1>1, <1>2, <1>3, <1>4, <1>5, <1>6, <1>7, <1>8, <1>9, <1>10, <1>11, <1>12,
     <1>13, <1>14, <1>15, <1>16, <1>17
     DEF Next, ReadStep, CommitStep, CkStep, WritePage, AllocPage, FreePage,
         CommitInvalidate, CkOldest, CkLagging, CkPass, CkEmpty, CkLock,
         CkWritePage, CkWriteFail, CkInvalidate, CkFail, CkFinish, CkReturn,
         Finish, Return, FoldDone, NextToFold, mvccVars, engVars, readVars,
         txVars, comVars, ckVars

\* A checkpoint's progress stays what the file and the index show.
LEMMA FoldProgressStep == Inductive /\ Next => FoldProgress'
<1> SUFFICES ASSUME Inductive, Next PROVE FoldProgress'
  OBVIOUS
<1>a. FoldProgress
  BY DEF Inductive
<1>b. /\ index \in [Pages -> Seq(Entry)] /\ ctodo \in SUBSET Pages
      /\ file \in [Pages -> ImageOrNone] /\ cpage \in Pages \cup {None}
      /\ pending \in [Writers -> [Pages -> ImageOrNone]]
  BY DEF Inductive, TypeOK, TypePages, TypeCk, TypeTx
<1> USE DEF mvccVars, engVars, readVars, txVars, comVars, ckVars
<1>1. ASSUME NEW w \in Writers, CommitAppend(w) PROVE FoldProgress'
  <2>1. CASE cpc = "folding"
    <3>1. index' = index
      BY <1>1, <2>1, <1>b DEF CommitAppend, NoPages
    <3> QED
      BY <1>1, <3>1, <1>a DEF CommitAppend, FoldProgress, Indexed
  <2>2. CASE cpc # "folding"
    BY <1>1, <2>2, <1>a DEF CommitAppend, FoldProgress
  <2> QED
    BY <2>1, <2>2
<1>2. ASSUME CkOldest PROVE FoldProgress'
  BY <1>2, <1>a, <1>b DEF FoldProgress, Indexed, CkOldest
<1>3. ASSUME CkLagging PROVE FoldProgress'
  BY <1>3, <1>a, <1>b DEF FoldProgress, Indexed, CkLagging, CkReturn
<1>4. ASSUME CkPass PROVE FoldProgress'
  BY <1>4, <1>a, <1>b DEF FoldProgress, Indexed, CkPass
<1>5. ASSUME CkEmpty PROVE FoldProgress'
  BY <1>5, <1>a, <1>b DEF FoldProgress, Indexed, CkEmpty, CkReturn
<1>6. ASSUME CkLock PROVE FoldProgress'
  BY <1>6, <1>a, <1>b, NoneFresh DEF FoldProgress, CkLock, Indexed
<1>7. ASSUME NEW p \in Pages, CkWritePage(p) PROVE FoldProgress'
  <2>1. /\ cpc' = "folding" /\ cpage' = p /\ p \in ctodo
        /\ ctodo' = ctodo /\ Indexed' = Indexed /\ index' = index
        /\ cpage = None
    BY <1>7, <1>a DEF CkWritePage, NextToFold, Indexed
  <2>2. file'[p] = index[p][Len(index[p])].data
    BY <1>7, <1>b DEF CkWritePage, Written, Folded
  <2>3. ASSUME NEW q \in Pages, index[q] # <<>>, q \notin ctodo
        PROVE  file'[q] = index[q][Len(index[q])].data
    <3>1. file[q] = index[q][Len(index[q])].data
      BY <1>7, <2>3, <1>a DEF FoldProgress, CkWritePage, NextToFold
    <3>2. index[q][Len(index[q])] \in Entry
      BY <1>b, <2>3
    <3>3. file[q] \in Images
      BY <3>1, <3>2 DEF Entry
    <3> QED
      BY <1>7, <2>1, <2>3, <3>1, <3>3, <1>b, NoneFresh DEF CkWritePage, Written
  <2> QED
    BY <2>1, <2>2, <2>3, <1>a DEF FoldProgress
<1>8. ASSUME NEW p \in Pages, CkWriteFail(p) PROVE FoldProgress'
  BY <1>8, <1>a, <1>b
     DEF FoldProgress, Indexed, CkWriteFail, Written, NextToFold, CkReturn
<1>9. ASSUME CkInvalidate PROVE FoldProgress'
  <2>1. /\ cpc' = "folding" /\ cpage' = None /\ ctodo' = ctodo \ {cpage}
        /\ Indexed' = Indexed /\ index' = index /\ file' = file
        /\ cpc = "folding"
    BY <1>9 DEF CkInvalidate, Indexed
  <2> QED
    BY <2>1, <1>a, NoneFresh DEF FoldProgress
<1>10. ASSUME CkFail PROVE FoldProgress'
  BY <1>10, <1>a, <1>b DEF FoldProgress, Indexed, CkFail, FoldDone, CkReturn
<1>11. ASSUME CkFinish PROVE FoldProgress'
  BY <1>11, <1>a, <1>b DEF FoldProgress, Indexed, CkFinish, FoldDone, CkReturn
<1>12. UNCHANGED <<index, file, cpc, ctodo, cpage>> => FoldProgress'
  BY <1>a DEF FoldProgress, Indexed
<1>13. QED
  BY <1>1, <1>2, <1>3, <1>4, <1>5, <1>6, <1>7, <1>8, <1>9, <1>10, <1>11, <1>12
     DEF Next, ReadStep, CommitStep, CkStep, BeginReadLoad, BeginReadRegister,
         EndRead, GetPage, CacheHit, CacheMiss, FileRead, FileReadFail,
         CacheInsert, BeginWrite, WritePage, AllocPage, FreePage, Rollback,
         CommitReserve, CommitInvalidate, CommitFail, CommitPublish,
         CommitFinish, CkReturn, Finish, Return, FoldDone, NextToFold,
         mvccVars, engVars, readVars, txVars, comVars, ckVars

\* What an entry of the WAL index holds.
LEMMA EntryTypes ==
  ASSUME TypeOK, NEW p \in Pages, NEW i \in DOMAIN index[p]
  PROVE  /\ index[p][i].ver \in Versions /\ index[p][i].ver \in Nat
         /\ index[p][i].data \in Images
<1>1. index[p] \in Seq(Entry)
  BY DEF TypeOK, TypePages
<1>2. index[p][i] \in Entry
  BY <1>1
<1> QED
  BY <1>2 DEF Entry, Versions

\* append_commit makes the reserved version the newest one in the log.
LEMMA TopAppend ==
  ASSUME Inductive, NEW w \in Writers, CommitAppend(w)
  PROVE  Top = committed /\ Top' = cver[w] /\ cver[w] = committed + 1
<1>1. SerialCommits /\ wpc \in [Writers -> {"none", "tx", "reserved", "appended", "published"}]
  BY DEF Inductive, TypeOK, TypeCommit
<1> QED
  BY <1>1 DEF SerialCommits, Top, CommitAppend, mvccVars

\* Nothing else changes the newest version in the log.
LEMMA TopSame ==
  ASSUME Inductive, Next, ~ \E w \in Writers : CommitAppend(w)
  PROVE  Top' = Top
<1>a. SerialCommits
  BY DEF Inductive
<1>b. /\ wpc \in [Writers -> {"none", "tx", "reserved", "appended", "published"}]
      /\ cver \in [Writers -> Versions] /\ committed \in Nat
  BY DEF Inductive, TypeOK, TypeCommit, TypeMvcc, Versions
<1> USE DEF Top, mvccVars
<1>1. ASSUME NEW w \in Writers, BeginWrite(w) PROVE Top' = Top
  BY <1>1, <1>a, <1>b DEF BeginWrite, SerialCommits
<1>2. ASSUME NEW w \in Writers, Rollback(w) PROVE Top' = Top
  BY <1>2, <1>a, <1>b DEF Rollback, Finish, InTx, NoPages, SerialCommits
<1>3. ASSUME NEW w \in Writers, CommitReserve(w) PROVE Top' = Top
  BY <1>3, <1>a, <1>b DEF CommitReserve, InTx, SerialCommits
<1>4. ASSUME NEW w \in Writers, CommitFail(w) PROVE Top' = Top
  BY <1>4, <1>a, <1>b DEF CommitFail, Finish, NoPages, SerialCommits
<1>5. ASSUME NEW w \in Writers, CommitPublish(w) PROVE Top' = Top
  BY <1>5, <1>a, <1>b DEF CommitPublish, AtLeast, SerialCommits
<1>6. ASSUME NEW w \in Writers, CommitFinish(w) PROVE Top' = Top
  BY <1>6, <1>a, <1>b DEF CommitFinish, Finish, NoPages, SerialCommits
<1>7. UNCHANGED <<wpc, committed>> => Top' = Top
  OBVIOUS
<1> QED
  BY <1>1, <1>2, <1>3, <1>4, <1>5, <1>6, <1>7
     DEF Next, ReadStep, CommitStep, CkStep, BeginReadLoad, BeginReadRegister,
         EndRead, GetPage, CacheHit, CacheMiss, FileRead, FileReadFail,
         CacheInsert, WritePage, AllocPage, FreePage, CommitInvalidate,
         CkOldest, CkLagging, CkPass, CkEmpty, CkLock, CkWritePage,
         CkWriteFail, CkInvalidate, CkFail, CkFinish, Return, CkReturn, comVars

\* The list of a page ascends, so a backwards search finds the newest entry.
LEMMA LogAscendsStep == Inductive /\ Next => LogAscends'
<1> SUFFICES ASSUME Inductive, Next PROVE LogAscends'
  OBVIOUS
<1>a. LogAscends
  BY DEF Inductive
<1>b. /\ index \in [Pages -> Seq(Entry)] /\ committed \in Nat
      /\ pending \in [Writers -> [Pages -> ImageOrNone]]
  BY DEF Inductive, TypeOK, TypePages, TypeMvcc, TypeTx, Versions
<1>1. ASSUME NEW w \in Writers, CommitAppend(w) PROVE LogAscends'
  <2> SUFFICES ASSUME NEW p \in Pages
               PROVE  /\ \A i \in DOMAIN index'[p] : index'[p][i].ver <= Top'
                      /\ \A i, j \in DOMAIN index'[p] :
                           i < j => index'[p][i].ver < index'[p][j].ver
    BY DEF LogAscends
  <2>1. Top = committed /\ Top' = cver[w] /\ cver[w] = committed + 1
    BY <1>1, TopAppend
  <2>2. index[p] \in Seq(Entry) /\ \A i \in DOMAIN index[p] : index[p][i].ver \in Nat
    BY <1>b, EntryTypes DEF Inductive
  <2>3. CASE pending[w][p] = None
    <3>1. index'[p] = index[p]
      BY <1>1, <2>3 DEF CommitAppend
    <3> QED
      BY <1>a, <1>b, <2>1, <2>2, <3>1 DEF LogAscends
  <2>4. CASE pending[w][p] # None
    <3>1. index'[p] = Append(index[p], [ver |-> cver[w], data |-> pending[w][p]])
      BY <1>1, <2>4 DEF CommitAppend
    <3>2. /\ DOMAIN index'[p] = 1..(Len(index[p]) + 1)
          /\ \A i \in DOMAIN index[p] : index'[p][i] = index[p][i]
          /\ index'[p][Len(index[p]) + 1].ver = cver[w]
          /\ DOMAIN index[p] = 1..Len(index[p]) /\ Len(index[p]) \in Nat
      BY <2>2, <3>1
    <3>3. \A i \in DOMAIN index'[p] : i \in DOMAIN index[p] \/ i = Len(index[p]) + 1
      BY <3>2
    <3>4. \A i \in DOMAIN index[p] : index[p][i].ver <= committed
      BY <1>a, <2>1 DEF LogAscends
    <3>5. \A i, j \in DOMAIN index[p] : i < j => index[p][i].ver < index[p][j].ver
      BY <1>a DEF LogAscends
    <3>6. \A i \in DOMAIN index'[p] : index'[p][i].ver <= Top'
      BY <1>b, <2>1, <2>2, <3>2, <3>3, <3>4
    <3>7. ASSUME NEW i \in DOMAIN index'[p], NEW j \in DOMAIN index'[p], i < j
          PROVE  index'[p][i].ver < index'[p][j].ver
      <4>1. i \in DOMAIN index[p]
        BY <3>2, <3>7
      <4>2. CASE j \in DOMAIN index[p]
        BY <3>2, <3>5, <3>7, <4>1, <4>2
      <4>3. CASE j = Len(index[p]) + 1
        BY <1>b, <2>1, <2>2, <3>2, <3>4, <4>1, <4>3
      <4> QED
        BY <3>3, <4>2, <4>3
    <3> QED
      BY <3>6, <3>7
  <2> QED
    BY <2>3, <2>4
<1>2. ASSUME CkFinish PROVE LogAscends'
  BY <1>2 DEF CkFinish, LogAscends
<1>3. UNCHANGED index /\ ~(\E w \in Writers : CommitAppend(w)) => LogAscends'
  BY <1>a, TopSame DEF LogAscends
<1> QED
  BY <1>1, <1>2, <1>3
     DEF Next, ReadStep, CommitStep, CkStep, BeginReadLoad, BeginReadRegister,
         EndRead, GetPage, CacheHit, CacheMiss, FileRead, FileReadFail,
         CacheInsert, BeginWrite, WritePage, AllocPage, FreePage, Rollback,
         CommitReserve, CommitInvalidate, CommitFail, CommitPublish,
         CommitFinish, CkOldest, CkLagging, CkPass, CkEmpty, CkLock,
         CkWritePage, CkWriteFail, CkInvalidate, CkFail

\* The last entry of a list is the one read_page finds at the newest version.
LEMMA LastVisible ==
  ASSUME Inductive, NEW p \in Pages, index[p] # <<>>
  PROVE  VisibleEntry(index[p], Top, Len(index[p]))
<1>1. index[p] \in Seq(Entry) /\ LogAscends
  BY DEF Inductive, TypeOK, TypePages
<1>2. Len(index[p]) \in DOMAIN index[p] /\ \A j \in DOMAIN index[p] : j <= Len(index[p])
  BY <1>1
<1> QED
  BY <1>1, <1>2 DEF VisibleEntry, LogAscends

\* While a checkpoint folds, only the newest version is still to be read.
LEMMA FoldReadsTop ==
  ASSUME Inductive, cpc = "folding", NEW v \in Versions, Readable(v)
  PROVE  v = Top
<1>1. CASE CheckpointAlone
  <2>1. floor = committed /\ Top = committed
    BY <1>1 DEF Inductive, FloorHolds, Top
  <2>2. committed \in Nat /\ v \in Nat
    BY DEF Inductive, TypeOK, TypeMvcc, Versions
  <2> QED
    BY <2>1, <2>2 DEF Readable
<1>2. CASE ~ CheckpointAlone
  BY <1>2 DEF Readable
<1> QED
  BY <1>1, <1>2

\* Writing a folded page to the file hides no version: the log still has it.
LEMMA FoundAfterWrite ==
  ASSUME Inductive, NEW p \in Pages, NextToFold(p), NEW d, file' = Written(p, d),
         UNCHANGED <<index, hist, floor>>, Top' = Top
  PROVE  VersionsFound'
<1>1. SUFFICES ASSUME NEW q \in Pages, NEW v \in Versions, Readable(v)'
               PROVE  Found(q, v)'
  BY DEF VersionsFound
<1>2. v = Top /\ Found(q, v) /\ cpc = "folding"
  <2>1. Readable(v)
    BY <1>1 DEF Readable
  <2> QED
    BY <2>1, FoldReadsTop DEF Inductive, VersionsFound, NextToFold
<1>3. CASE q = p
  <2>1. index[p] # <<>>
    BY DEF Inductive, FoldProgress, NextToFold, Indexed
  <2>2. ~ NoneVisible(index[p], v)
    <3>1. /\ VisibleEntry(index[p], v, Len(index[p]))
          /\ Len(index[p]) \in DOMAIN index[p]
          /\ index[p][Len(index[p])].ver \in Nat /\ v \in Nat
      BY <1>2, <2>1, LastVisible, EntryTypes
         DEF VisibleEntry, Inductive, Versions
    <3> QED
      BY <3>1 DEF VisibleEntry, NoneVisible
  <2> QED
    BY <1>2, <1>3, <2>2 DEF Found
<1>4. CASE q # p
  <2>1. file[q] # None => file'[q] = file[q]
    BY <1>4 DEF Written
  <2> QED
    BY <1>2, <2>1 DEF Found
<1> QED
  BY <1>3, <1>4

\* Every version that may still be read is found, in the log or in the file.
LEMMA VersionsFoundStep == Inductive /\ Next => VersionsFound'
<1> SUFFICES ASSUME Inductive, Next PROVE VersionsFound'
  OBVIOUS
<1>a. VersionsFound /\ LogAscends
  BY DEF Inductive
<1>b. /\ index \in [Pages -> Seq(Entry)] /\ committed \in Versions
      /\ hist \in [Versions -> [Pages -> ImageOrNone]]
      /\ cver \in [Writers -> Versions] /\ floor \in Versions
      /\ Versions \subseteq Nat
  BY DEF Inductive, TypeOK, TypePages, TypeMvcc, TypeCommit, TypeCk, Versions
<1>1. ASSUME NEW w \in Writers, CommitAppend(w) PROVE VersionsFound'
  <2>1. SUFFICES ASSUME NEW p \in Pages, NEW v \in Versions, Readable(v)'
                 PROVE  Found(p, v)'
    BY DEF VersionsFound
  <2>2. /\ Top = committed /\ Top' = cver[w] /\ cver[w] = committed + 1
        /\ committed \in Nat /\ v \in Nat /\ cver[w] \in Versions /\ committed \in Versions
    BY <1>1, <1>b, TopAppend
  <2>3. /\ file' = file /\ floor' = floor
        /\ hist' = [hist EXCEPT ![cver[w]] = AfterCommit(w)]
        /\ index'[p] = IF pending[w][p] # None
                         THEN Append(index[p], [ver |-> cver[w], data |-> pending[w][p]])
                         ELSE index[p]
    BY <1>1 DEF CommitAppend
  <2>4. /\ index[p] \in Seq(Entry)
        /\ \A i \in DOMAIN index[p] : index[p][i].ver \in Nat /\ index[p][i].ver <= committed
    BY <1>a, <1>b, <2>2, EntryTypes DEF Inductive, LogAscends
  <2>5. pending[w][p] # None =>
          /\ DOMAIN index'[p] = 1..(Len(index[p]) + 1)
          /\ DOMAIN index[p] = 1..Len(index[p]) /\ Len(index[p]) \in Nat
          /\ \A i \in DOMAIN index[p] : index'[p][i] = index[p][i]
          /\ index'[p][Len(index[p]) + 1] = [ver |-> cver[w], data |-> pending[w][p]]
    BY <2>3, <2>4
  <2>6. CASE v = cver[w]
    <3>1. hist'[v][p] = IF pending[w][p] # None THEN pending[w][p] ELSE hist[committed][p]
      <4>1. hist'[v] = AfterCommit(w)
        BY <2>2, <2>3, <2>6, <1>b
      <4>2. cver[w] - 1 = committed
        BY <2>2
      <4> QED
        BY <4>1, <4>2 DEF AfterCommit
    <3>2. CASE pending[w][p] # None
      <4>1. ASSUME NEW i \in DOMAIN index'[p], VisibleEntry(index'[p], v, i)
            PROVE  index'[p][i].data = pending[w][p]
        <5>1. Len(index[p]) + 1 <= i
          BY <2>2, <2>5, <2>6, <3>2, <4>1 DEF VisibleEntry
        <5>2. i = Len(index[p]) + 1
          BY <2>5, <3>2, <4>1, <5>1
        <5> QED
          BY <2>5, <3>2, <5>2
      <4>2. ~ NoneVisible(index'[p], v)
        BY <2>2, <2>5, <2>6, <3>2 DEF NoneVisible
      <4> QED
        BY <3>1, <3>2, <4>1, <4>2 DEF Found
    <3>3. CASE pending[w][p] = None
      <4>1. index'[p] = index[p] /\ hist'[v][p] = hist[committed][p]
        BY <2>3, <3>1, <3>3
      <4>2. Found(p, committed)
        BY <1>a, <2>2 DEF VersionsFound, Readable
      <4>3. \A i \in DOMAIN index[p] :
              VisibleEntry(index[p], v, i) => VisibleEntry(index[p], committed, i)
        BY <2>2, <2>4, <2>6 DEF VisibleEntry
      <4>4. NoneVisible(index[p], v) => NoneVisible(index[p], committed)
        BY <2>2, <2>4, <2>6 DEF NoneVisible
      <4> QED
        BY <2>3, <4>1, <4>2, <4>3, <4>4 DEF Found
    <3> QED
      BY <3>2, <3>3
  <2>7. CASE v # cver[w]
    <3>1. v <= committed /\ Readable(v)
      BY <2>1, <2>2, <2>3, <2>7 DEF Readable
    <3>2. Found(p, v) /\ hist'[v] = hist[v]
      BY <1>a, <1>b, <2>2, <2>3, <2>7, <3>1 DEF VersionsFound
    <3>3. CASE pending[w][p] # None
      <4>1. ASSUME NEW i \in DOMAIN index'[p], VisibleEntry(index'[p], v, i)
            PROVE  /\ i \in DOMAIN index[p] /\ index'[p][i] = index[p][i]
                   /\ VisibleEntry(index[p], v, i)
        <5>1. i # Len(index[p]) + 1
          BY <2>2, <2>5, <3>1, <3>3, <4>1 DEF VisibleEntry
        <5>2. i \in DOMAIN index[p]
          BY <2>5, <3>3, <5>1
        <5> QED
          BY <2>5, <3>3, <4>1, <5>2 DEF VisibleEntry
      <4>2. NoneVisible(index'[p], v) => NoneVisible(index[p], v)
        BY <2>5, <3>3 DEF NoneVisible
      <4> QED
        BY <2>3, <3>2, <4>1, <4>2 DEF Found
    <3>4. CASE pending[w][p] = None
      BY <2>3, <3>2, <3>4 DEF Found
    <3> QED
      BY <3>3, <3>4
  <2> QED
    BY <2>6, <2>7
<1>2. ASSUME CkPass PROVE VersionsFound'
  <2>1. Top' = Top
    BY <1>2 DEF CkPass, Top, mvccVars, comVars
  <2>2. ASSUME NEW v \in Versions, Readable(v)' PROVE Readable(v)
    <3>1. CheckpointAlone => (floor <= committed /\ committed <= v) \/ v = Top
      BY <1>2, <2>1, <2>2 DEF CkPass, Readable, Inductive, FloorHolds, mvccVars
    <3>2. v \in Nat /\ committed \in Nat /\ floor \in Nat
      BY <1>b DEF Versions
    <3> QED
      BY <2>1, <2>2, <3>1, <3>2, <1>2 DEF Readable, CkPass
  <2> QED
    BY <1>2, <1>a, <2>2 DEF CkPass, VersionsFound, Found
<1>3. ASSUME NEW p \in Pages, CkWritePage(p) \/ CkWriteFail(p)
      PROVE  VersionsFound'
  <2>1. Top' = Top
    BY <1>3 DEF CkWritePage, CkWriteFail, Top, mvccVars, comVars
  <2> QED
    BY <1>3, <2>1, FoundAfterWrite DEF CkWritePage, CkWriteFail
<1>4. ASSUME CkFinish PROVE VersionsFound'
  <2>1. /\ Top' = Top /\ hist' = hist /\ file' = file /\ floor' = floor
        /\ cpc = "folding" /\ ctodo = {} /\ index' = [p \in Pages |-> <<>>]
    BY <1>4 DEF CkFinish, FoldDone, Top, mvccVars, comVars
  <2>2. SUFFICES ASSUME NEW p \in Pages, NEW v \in Versions, Readable(v)', hist[v][p] # None
                 PROVE  file[p] = hist[v][p]
    BY <2>1 DEF VersionsFound, Found, VisibleEntry
  <2>3. v = Top /\ Found(p, v)
    <3>1. Readable(v)
      BY <2>1, <2>2 DEF Readable
    <3> QED
      BY <1>a, <2>1, <3>1, FoldReadsTop DEF VersionsFound
  <2>4. CASE index[p] = <<>>
    BY <2>2, <2>3, <2>4 DEF Found, NoneVisible
  <2>5. CASE index[p] # <<>>
    <3>1. file[p] = index[p][Len(index[p])].data
      BY <2>1, <2>5 DEF Inductive, FoldProgress
    <3>2. VisibleEntry(index[p], v, Len(index[p])) /\ Len(index[p]) \in DOMAIN index[p]
      BY <2>3, <2>5, LastVisible DEF VisibleEntry
    <3> QED
      BY <2>2, <2>3, <3>1, <3>2 DEF Found
  <2> QED
    BY <2>4, <2>5
<1>5. UNCHANGED <<index, hist, file, floor>> /\ ~(\E w \in Writers : CommitAppend(w))
        => VersionsFound'
  BY <1>a, TopSame DEF VersionsFound, Readable, Found
<1> QED
  BY <1>1, <1>2, <1>3, <1>4, <1>5
     DEF Next, ReadStep, CommitStep, CkStep, BeginReadLoad, BeginReadRegister,
         EndRead, GetPage, CacheHit, CacheMiss, FileRead, FileReadFail,
         CacheInsert, BeginWrite, WritePage, AllocPage, FreePage, Rollback,
         CommitReserve, CommitInvalidate, CommitFail, CommitPublish,
         CommitFinish, CkOldest, CkLagging, CkEmpty, CkLock, CkInvalidate,
         CkFail

\* Finitely many readers are pinned to a version.
LEMMA ReadersAtFinite ==
  \A v : IsFiniteSet({r \in Readers : Registered(r, v)})
BY ThreadsAssumption, FS_Subset

\* A registered reader counts in active_readers.
LEMMA RegisteredCounts ==
  ASSUME Inductive, NEW r \in Readers, rpc[r] \notin {"idle", "loaded"}
  PROVE  activeReaders[snap[r]] > 0
<1> DEFINE S == {q \in Readers : Registered(q, snap[r])}
<1>1. snap[r] \in Versions
  BY DEF Inductive, TypeOK, TypeReads, Threads
<1>2. activeReaders[snap[r]] = Cardinality(S)
  BY <1>1 DEF Inductive, RefcountExact, Registered
<1>3. r \in S
  BY DEF Registered
<1>4. IsFiniteSet(S) /\ Cardinality(S) \in Nat /\ Cardinality(S) # 0
  BY <1>3, ReadersAtFinite, FS_CardinalityType, FS_EmptySet
<1> QED
  BY <1>2, <1>4

\* begin_read and end_read keep the reference counts exact.
LEMMA RefcountExactStep == Inductive /\ Next => RefcountExact'
<1> SUFFICES ASSUME Inductive, Next PROVE RefcountExact'
  OBVIOUS
<1> DEFINE At(v) == {r \in Readers : Registered(r, v)}
<1>a. \A v \in Versions : /\ activeReaders[v] = Cardinality(At(v))
                          /\ IsFiniteSet(At(v)) /\ Cardinality(At(v)) \in Nat
  BY ReadersAtFinite, FS_CardinalityType
     DEF Inductive, RefcountExact, Registered
<1>b. /\ rpc \in [Threads -> {"idle", "loaded", "open", "cache", "file", "fill"}]
      /\ snap \in [Threads -> Versions] /\ activeReaders \in [Versions -> Nat]
      /\ Readers \subseteq Threads /\ \A w \in Writers : w \notin Readers
  BY ThreadsAssumption DEF Inductive, TypeOK, TypeReads, TypeMvcc, Threads
<1>c. SUFFICES ASSUME NEW v \in Versions
               PROVE  activeReaders'[v] = Cardinality(At(v)')
  BY DEF RefcountExact, Registered
<1>d. activeReaders' = activeReaders /\ (\A q \in Readers : Registered(q, v)' <=> Registered(q, v))
        => activeReaders'[v] = Cardinality(At(v)')
  <2>1. (\A q \in Readers : Registered(q, v)' <=> Registered(q, v)) => At(v)' = At(v)
    OBVIOUS
  <2> QED
    BY <2>1, <1>a
<1>1. ASSUME NEW r \in Readers, BeginReadRegister(r)
      PROVE  activeReaders'[v] = Cardinality(At(v)')
  <2>1. snap[r] \in Versions /\ activeReaders'[v] = IF v = snap[r] THEN activeReaders[v] + 1
                                                          ELSE activeReaders[v]
    BY <1>1, <1>b DEF BeginReadRegister
  <2>2. r \notin At(v)
    BY <1>1 DEF BeginReadRegister, Registered
  <2>3. At(v)' = IF v = snap[r] THEN At(v) \cup {r} ELSE At(v)
    BY <1>1, <1>b DEF BeginReadRegister, Registered
  <2>4. Cardinality(At(v) \cup {r}) = Cardinality(At(v)) + 1
    BY <1>a, <2>2, FS_AddElement
  <2> QED
    BY <1>a, <2>1, <2>3, <2>4
<1>2. ASSUME NEW r \in Readers, EndRead(r)
      PROVE  activeReaders'[v] = Cardinality(At(v)')
  <2>1. activeReaders'[v] = IF v = snap[r] THEN Release(activeReaders[v]) ELSE activeReaders[v]
    BY <1>2, <1>b DEF EndRead
  <2>2. snap[r] = v <=> r \in At(v)
    BY <1>2 DEF EndRead, Registered
  <2>3. At(v)' = At(v) \ {r}
    <3>1. \A q \in Readers : Registered(q, v)' <=> Registered(q, v) /\ q # r
      BY <1>2, <1>b DEF EndRead, Registered
    <3> QED
      BY <3>1
  <2>4. CASE v = snap[r]
    <3>1. activeReaders[v] > 0
      BY <1>2, <2>4, RegisteredCounts DEF EndRead
    <3> QED
      BY <1>a, <2>1, <2>2, <2>3, <2>4, <3>1, FS_RemoveElement DEF Release
  <2>5. CASE v # snap[r]
    <3>1. At(v)' = At(v)
      BY <2>2, <2>3, <2>5
    <3> QED
      BY <1>a, <2>1, <2>5, <3>1
  <2> QED
    BY <2>4, <2>5
<1>3. ASSUME NEW r \in Readers, BeginReadLoad(r)
      PROVE  activeReaders'[v] = Cardinality(At(v)')
  <2>1. \A q \in Readers : Registered(q, v)' <=> Registered(q, v)
    BY <1>3, <1>b DEF BeginReadLoad, Registered, readVars
  <2> QED
    BY <1>3, <1>d, <2>1 DEF BeginReadLoad, mvccVars
<1>4. ASSUME NEW t \in Threads, NEW p \in Pages, GetPage(t, p)
      PROVE  activeReaders'[v] = Cardinality(At(v)')
  <2>1. \A q \in Readers : Registered(q, v)' <=> Registered(q, v)
    BY <1>4, <1>b DEF GetPage, Observe, Registered, readVars
  <2> QED
    BY <1>4, <1>d, <2>1 DEF GetPage, mvccVars
<1>5. ASSUME NEW t \in Threads, CacheHit(t)
      PROVE  activeReaders'[v] = Cardinality(At(v)')
  <2>1. \A q \in Readers : Registered(q, v)' <=> Registered(q, v)
    BY <1>5, <1>b DEF CacheHit, Observe, Return, Registered, readVars
  <2> QED
    BY <1>5, <1>d, <2>1 DEF CacheHit, mvccVars
<1>6. ASSUME NEW t \in Threads, CacheMiss(t)
      PROVE  activeReaders'[v] = Cardinality(At(v)')
  <2>1. \A q \in Readers : Registered(q, v)' <=> Registered(q, v)
    BY <1>6, <1>b DEF CacheMiss, Registered, readVars
  <2> QED
    BY <1>6, <1>d, <2>1 DEF CacheMiss, mvccVars
<1>7. ASSUME NEW t \in Threads, FileRead(t)
      PROVE  activeReaders'[v] = Cardinality(At(v)')
  <2>1. \A q \in Readers : Registered(q, v)' <=> Registered(q, v)
    BY <1>7, <1>b DEF FileRead, Registered, readVars
  <2> QED
    BY <1>7, <1>d, <2>1 DEF FileRead, mvccVars
<1>8. ASSUME NEW t \in Threads, FileReadFail(t)
      PROVE  activeReaders'[v] = Cardinality(At(v)')
  <2>1. \A q \in Readers : Registered(q, v)' <=> Registered(q, v)
    BY <1>8, <1>b DEF FileReadFail, Observe, Return, Registered, readVars
  <2> QED
    BY <1>8, <1>d, <2>1 DEF FileReadFail, mvccVars
<1>9. ASSUME NEW t \in Threads, CacheInsert(t)
      PROVE  activeReaders'[v] = Cardinality(At(v)')
  <2>1. \A q \in Readers : Registered(q, v)' <=> Registered(q, v)
    BY <1>9, <1>b DEF CacheInsert, Observe, Return, Registered, readVars
  <2> QED
    BY <1>9, <1>d, <2>1 DEF CacheInsert, mvccVars
<1>10. ASSUME NEW w \in Writers, BeginWrite(w)
      PROVE  activeReaders'[v] = Cardinality(At(v)')
  <2>1. \A q \in Readers : Registered(q, v)' <=> Registered(q, v)
    BY <1>10, <1>b DEF BeginWrite, Registered, readVars
  <2> QED
    BY <1>10, <1>d, <2>1 DEF BeginWrite, mvccVars
<1>11. ASSUME NEW w \in Writers, Rollback(w)
      PROVE  activeReaders'[v] = Cardinality(At(v)')
  <2>1. \A q \in Readers : Registered(q, v)' <=> Registered(q, v)
    BY <1>11, <1>b DEF Rollback, Finish, InTx, NoPages, Registered, readVars
  <2> QED
    BY <1>11, <1>d, <2>1 DEF Rollback, mvccVars
<1>12. ASSUME NEW w \in Writers, CommitFail(w)
      PROVE  activeReaders'[v] = Cardinality(At(v)')
  <2>1. \A q \in Readers : Registered(q, v)' <=> Registered(q, v)
    BY <1>12, <1>b DEF CommitFail, Finish, NoPages, Registered, readVars
  <2> QED
    BY <1>12, <1>d, <2>1 DEF CommitFail, mvccVars
<1>13. ASSUME NEW w \in Writers, CommitFinish(w)
      PROVE  activeReaders'[v] = Cardinality(At(v)')
  <2>1. \A q \in Readers : Registered(q, v)' <=> Registered(q, v)
    BY <1>13, <1>b DEF CommitFinish, Finish, NoPages, Registered, readVars
  <2> QED
    BY <1>13, <1>d, <2>1 DEF CommitFinish, mvccVars
<1>14. UNCHANGED <<rpc, snap, activeReaders>> => activeReaders'[v] = Cardinality(At(v)')
  BY <1>d DEF Registered
<1> QED
  BY <1>1, <1>2, <1>3, <1>4, <1>5, <1>6, <1>7, <1>8, <1>9, <1>10, <1>11, <1>12,
     <1>13, <1>14
     DEF Next, ReadStep, CommitStep, CkStep, mvccVars, readVars, WritePage,
         AllocPage, FreePage, CommitReserve, CommitInvalidate, CommitAppend,
         CommitPublish, CkOldest, CkLagging, CkPass, CkEmpty, CkLock,
         CkWritePage, CkWriteFail, CkInvalidate, CkFail, CkFinish

\* The check of a checkpoint lets no pinned reader fall below the floor.
LEMMA FloorHoldsStep == Inductive /\ Next => FloorHolds'
<1> SUFFICES ASSUME Inductive, Next PROVE FloorHolds'
  OBVIOUS
<1>0. SUFFICES ASSUME CheckpointAlone PROVE FloorHolds'
  BY DEF FloorHolds
<1>a. FloorHolds /\ SerialCommits /\ Counters
  BY DEF Inductive
<1>b. /\ wpc \in [Writers -> {"none", "tx", "reserved", "appended", "published"}]
      /\ rpc \in [Threads -> {"idle", "loaded", "open", "cache", "file", "fill"}]
      /\ snap \in [Threads -> Nat] /\ committed \in Nat
      /\ cver \in [Writers -> Nat] /\ floor \in Nat /\ oldest \in Nat
  BY DEF Inductive, TypeOK, TypeCommit, TypeReads, TypeMvcc, TypeCk, Versions
<1> USE DEF Threads, mvccVars, engVars, readVars, txVars, comVars, ckVars
<1>1. ASSUME NEW r \in Readers, BeginReadLoad(r) PROVE FloorHolds'
  BY <1>1, <1>0, <1>a, <1>b DEF FloorHolds, CanRead, BeginReadLoad
<1>2. ASSUME NEW r \in Readers, BeginReadRegister(r) PROVE FloorHolds'
  BY <1>2, <1>0, <1>a, <1>b DEF FloorHolds, CanRead, BeginReadRegister
<1>3. ASSUME NEW r \in Readers, EndRead(r) PROVE FloorHolds'
  BY <1>3, <1>0, <1>a, <1>b DEF FloorHolds, CanRead, EndRead, Release
<1>4. ASSUME NEW t \in Threads, NEW p \in Pages, GetPage(t, p)
      PROVE  FloorHolds'
  BY <1>4, <1>0, <1>a, <1>b DEF FloorHolds, CanRead, GetPage, Observe
<1>5. ASSUME NEW t \in Threads, CacheHit(t) PROVE FloorHolds'
  BY <1>5, <1>0, <1>a, <1>b DEF FloorHolds, CanRead, CacheHit, Observe, Return
<1>6. ASSUME NEW t \in Threads, CacheMiss(t) PROVE FloorHolds'
  BY <1>6, <1>0, <1>a, <1>b DEF FloorHolds, CanRead, CacheMiss
<1>7. ASSUME NEW t \in Threads, FileRead(t) PROVE FloorHolds'
  BY <1>7, <1>0, <1>a, <1>b DEF FloorHolds, CanRead, FileRead
<1>8. ASSUME NEW t \in Threads, FileReadFail(t) PROVE FloorHolds'
  BY <1>8, <1>0, <1>a, <1>b
     DEF FloorHolds, CanRead, FileReadFail, Observe, Return
<1>9. ASSUME NEW t \in Threads, CacheInsert(t) PROVE FloorHolds'
  BY <1>9, <1>0, <1>a, <1>b
     DEF FloorHolds, CanRead, CacheInsert, Observe, Return
<1>10. ASSUME NEW w \in Writers, BeginWrite(w) PROVE FloorHolds'
  BY <1>10, <1>0, <1>a, <1>b DEF FloorHolds, CanRead, BeginWrite
<1>11. ASSUME NEW w \in Writers, Rollback(w) PROVE FloorHolds'
  BY <1>11, <1>0, <1>a, <1>b
     DEF FloorHolds, CanRead, Rollback, Finish, InTx, NoPages
<1>12. ASSUME NEW w \in Writers, CommitReserve(w) PROVE FloorHolds'
  BY <1>12, <1>0, <1>a, <1>b DEF FloorHolds, CanRead, CommitReserve, InTx
<1>13. ASSUME NEW w \in Writers, CommitAppend(w) PROVE FloorHolds'
  BY <1>13, <1>0, <1>a, <1>b DEF FloorHolds, CanRead, CommitAppend, AfterCommit
<1>14. ASSUME NEW w \in Writers, CommitFail(w) PROVE FloorHolds'
  BY <1>14, <1>0, <1>a, <1>b
     DEF FloorHolds, CanRead, CommitFail, Finish, NoPages
<1>15. ASSUME NEW w \in Writers, CommitPublish(w) PROVE FloorHolds'
  <2>1. cpc = "idle" /\ committed' = committed + 1 /\ cpc' = cpc /\ floor' = floor
    BY <1>15, <1>0, <1>a, <1>b
       DEF FloorHolds, SerialCommits, CommitPublish, AtLeast, ckVars
  <2>2. \A t \in Threads : CanRead(t)' => CanRead(t)
    BY <1>15, <1>b DEF CanRead, CommitPublish, readVars
  <2> QED
    BY <1>15, <2>1, <2>2, <1>0, <1>a, <1>b
       DEF FloorHolds, CommitPublish, readVars
<1>16. ASSUME NEW w \in Writers, CommitFinish(w) PROVE FloorHolds'
  BY <1>16, <1>0, <1>a, <1>b
     DEF FloorHolds, CanRead, CommitFinish, Finish, NoPages
<1>17. ASSUME CkOldest PROVE FloorHolds'
  <2>1. \E v \in Versions : OldestRequired(v) /\ oldest' = v
    BY <1>17 DEF CkOldest
  <2>2. ASSUME oldest' >= committed, NEW t \in Threads, CanRead(t)
        PROVE  committed <= snap[t]
    <3>1. CASE t \in Writers
      BY <2>2, <3>1, <1>a, <1>b DEF CanRead, SerialCommits, Counters
    <3>2. CASE t \in Readers
      <4>1. rpc[t] \notin {"idle", "loaded"} /\ snap[t] \in Versions
        BY <1>17, <1>0, <2>2, <3>2
           DEF CkOldest, Alone, CanRead, Inductive, TypeOK, TypeReads
      <4>2. activeReaders[snap[t]] > 0 /\ activeReaders[snap[t]] \in Nat
        BY <3>2, <4>1, RegisteredCounts DEF Inductive, TypeOK, TypeMvcc
      <4>3. oldest' <= snap[t]
        BY <2>1, <4>1, <4>2 DEF OldestRequired
      <4>4. oldest' \in Nat
        BY <2>1 DEF Versions
      <4> QED
        BY <2>2, <4>3, <4>4, <1>b
    <3> QED
      BY <3>1, <3>2 DEF Threads
  <2> QED
    BY <1>17, <2>2, <1>0, <1>a DEF FloorHolds, CkOldest, Alone, CanRead
<1>18. ASSUME CkLagging PROVE FloorHolds'
  BY <1>18, <1>0, <1>a, <1>b DEF FloorHolds, CanRead, CkLagging, CkReturn
<1>19. ASSUME CkPass PROVE FloorHolds'
  BY <1>19, <1>0, <1>a, <1>b DEF FloorHolds, CanRead, CkPass
<1>20. ASSUME CkEmpty PROVE FloorHolds'
  BY <1>20, <1>0, <1>a, <1>b DEF FloorHolds, CanRead, CkEmpty, CkReturn
<1>21. ASSUME CkLock PROVE FloorHolds'
  BY <1>21, <1>0, <1>a, <1>b DEF FloorHolds, CanRead, CkLock, Indexed
<1>22. ASSUME NEW p \in Pages, CkWriteFail(p) PROVE FloorHolds'
  BY <1>22, <1>0, <1>a, <1>b
     DEF FloorHolds, CanRead, CkWriteFail, Written, NextToFold, CkReturn
<1>23. ASSUME CkFail PROVE FloorHolds'
  BY <1>23, <1>0, <1>a, <1>b
     DEF FloorHolds, CanRead, CkFail, FoldDone, CkReturn
<1>24. ASSUME CkFinish PROVE FloorHolds'
  BY <1>24, <1>0, <1>a, <1>b
     DEF FloorHolds, CanRead, CkFinish, FoldDone, CkReturn
<1>25. UNCHANGED <<floor, committed, rpc, wpc, snap, cpc, oldest>> => FloorHolds'
  BY <1>a DEF FloorHolds, CanRead
<1>26. QED
  BY <1>1, <1>2, <1>3, <1>4, <1>5, <1>6, <1>7, <1>8, <1>9, <1>10, <1>11, <1>12,
     <1>13, <1>14, <1>15, <1>16, <1>17, <1>18, <1>19, <1>20, <1>21, <1>22,
     <1>23, <1>24, <1>25
     DEF Next, ReadStep, CommitStep, CkStep, WritePage, AllocPage, FreePage,
         CommitInvalidate, CkWritePage, CkInvalidate, CkReturn, Finish, Return,
         FoldDone, NextToFold, mvccVars, engVars, readVars, txVars, comVars,
         ckVars

\* A transaction that may still read is pinned to a readable version.
LEMMA PinnedReadable ==
  ASSUME Inductive, CheckpointAlone, NEW t \in Threads, CanRead(t)
  PROVE  /\ floor <= snap[t] /\ snap[t] \in Versions /\ floor \in Nat /\ snap[t] \in Nat
         /\ Readable(snap[t])
<1>1. /\ floor <= snap[t] /\ snap[t] <= committed
      /\ snap[t] \in Versions /\ committed \in Nat /\ floor \in Nat /\ snap[t] \in Nat
  BY DEF Inductive, FloorHolds, Counters, TypeOK, TypeReads, TypeMvcc, TypeCk,
         Versions
<1>2. committed <= Top /\ Top \in Nat
  BY <1>1 DEF Top
<1> QED
  BY <1>1, <1>2 DEF Readable

\* A read that missed the log finds its version in the file, and no entry of
\* the page is visible to all.
LEMMA ReadPastLog ==
  ASSUME Inductive, CheckpointAlone, NEW t \in Threads, Reading(t)
  PROVE  /\ file[rpage[t]] = hist[snap[t]][rpage[t]]
         /\ hist[snap[t]][rpage[t]] # None
         /\ ~ Covered(rpage[t])
<1>1. /\ CanRead(t) /\ NoneVisible(index[rpage[t]], snap[t])
      /\ hist[snap[t]][rpage[t]] # None /\ rpage[t] \in Pages
  BY DEF Inductive, ReadsHold, Counters, TypeOK, TypeReads
<1>2. Found(rpage[t], snap[t])
  BY <1>1, PinnedReadable DEF Inductive, VersionsFound
<1>3. ASSUME NEW i \in DOMAIN index[rpage[t]], index[rpage[t]][i].ver <= floor
      PROVE  FALSE
  <2>1. index[rpage[t]][i].ver \in Nat
    BY <1>1, EntryTypes DEF Inductive
  <2>2. floor <= snap[t] /\ floor \in Nat /\ snap[t] \in Nat
    BY <1>1, PinnedReadable
  <2> QED
    BY <1>1, <1>3, <2>1, <2>2 DEF NoneVisible
<1> QED
  BY <1>1, <1>2, <1>3 DEF Found, Covered

\* A page that is being folded has an entry visible to every reader.
LEMMA FoldCovered ==
  ASSUME Inductive, CheckpointAlone, NEW p \in Pages, NextToFold(p)
  PROVE  Covered(p)
<1>1. index[p] # <<>> /\ cpc = "folding"
  BY DEF Inductive, FoldProgress, NextToFold, Indexed
<1>2. Top = floor
  BY <1>1 DEF Inductive, FloorHolds, Top
<1> QED
  BY <1>1, <1>2, LastVisible DEF Covered, VisibleEntry

\* The cache stays clean wherever it can be hit.
LEMMA CacheHoldsStep == Inductive /\ Next => CacheHolds'
<1> SUFFICES ASSUME Inductive, Next PROVE CacheHolds'
  OBVIOUS
<1>0. SUFFICES ASSUME CheckpointAlone PROVE CacheHolds'
  BY DEF CacheHolds
<1>a. CacheHolds
  BY DEF Inductive
<1>b. /\ index \in [Pages -> Seq(Entry)] /\ ctodo \in SUBSET Pages
      /\ cache \in [Pages -> ImageOrNone] /\ file \in [Pages -> ImageOrNone]
      /\ rpage \in [Threads -> Pages]
  BY DEF Inductive, TypeOK, TypePages, TypeCk, TypeReads
<1> USE DEF mvccVars, engVars, readVars, txVars, comVars, ckVars
<1>1. ASSUME NEW t \in Threads, CacheInsert(t) PROVE CacheHolds'
  <2>1. rbuf[t] = file[rpage[t]] /\ rpage[t] \in Pages
    BY <1>1, <1>0, <1>b DEF CacheInsert, Reading, Inductive, ReadsHold
  <2>2. ASSUME NEW p \in Pages, cache'[p] # None
        PROVE  (p = rpage[t] /\ cache'[p] = file[p]) \/ cache'[p] = cache[p]
    BY <1>1, <2>1, <2>2 DEF CacheInsert
  <2> QED
    BY <1>1, <1>0, <1>a, <2>2 DEF CacheInsert, CacheHolds, Covered, ckVars
<1>2. ASSUME NEW w \in Writers, NEW p \in Pages, CommitInvalidate(w, p)
      PROVE  CacheHolds'
  BY <1>2, <1>0, <1>a, <1>b DEF CacheHolds, Covered, CommitInvalidate
<1>3. ASSUME NEW w \in Writers, CommitAppend(w) PROVE CacheHolds'
  <2>1. ASSUME NEW p \in Pages, Covered(p) PROVE Covered(p)'
    <3>1. PICK i \in DOMAIN index[p] : index[p][i].ver <= floor
      BY <2>1 DEF Covered
    <3>2. i \in DOMAIN index'[p] /\ index'[p][i] = index[p][i] /\ floor' = floor
      BY <1>3, <1>b DEF CommitAppend
    <3> QED
      BY <3>1, <3>2 DEF Covered
  <2> QED
    BY <1>3, <1>0, <1>a, <2>1 DEF CommitAppend, CacheHolds, ckVars
<1>4. ASSUME CkOldest PROVE CacheHolds'
  BY <1>4, <1>0, <1>a, <1>b DEF CacheHolds, Covered, CkOldest
<1>5. ASSUME CkLagging PROVE CacheHolds'
  BY <1>5, <1>0, <1>a, <1>b DEF CacheHolds, Covered, CkLagging, CkReturn
<1>6. ASSUME CkPass PROVE CacheHolds'
  <2>1. floor <= committed /\ floor \in Nat /\ committed \in Nat
    BY <1>0 DEF Inductive, FloorHolds, TypeOK, TypeMvcc, TypeCk, Versions
  <2>2. ASSUME NEW p \in Pages, Covered(p) PROVE Covered(p)'
    <3>1. PICK i \in DOMAIN index[p] : index[p][i].ver <= floor
      BY <2>2 DEF Covered
    <3>2. index[p][i].ver \in Nat
      BY EntryTypes DEF Inductive
    <3>3. index[p][i].ver <= committed
      BY <2>1, <3>1, <3>2
    <3> QED
      BY <1>6, <3>3 DEF Covered, CkPass
  <2> QED
    BY <1>6, <1>0, <1>a, <2>2 DEF CkPass, CacheHolds
<1>7. ASSUME CkEmpty PROVE CacheHolds'
  BY <1>7, <1>0, <1>a, <1>b DEF CacheHolds, Covered, CkEmpty, CkReturn
<1>8. ASSUME CkLock PROVE CacheHolds'
  <2>1. ASSUME NEW p \in Pages, p \notin Indexed PROVE ~ Covered(p)
    BY <2>1 DEF Indexed, Covered
  <2> QED
    BY <1>8, <1>0, <1>a, <2>1 DEF CkLock, CacheHolds, Covered
<1>9. ASSUME NEW p \in Pages, CkWritePage(p) PROVE CacheHolds'
  <2>1. Covered(p) /\ p \in ctodo
    BY <1>9, <1>0, FoldCovered DEF CkWritePage, NextToFold
  <2>2. ASSUME NEW q \in Pages, q # p, file[q] # None PROVE file'[q] = file[q]
    BY <1>9, <2>2, <1>b DEF CkWritePage, Written
  <2> QED
    BY <1>9, <1>0, <1>a, <2>1, <2>2
       DEF CkWritePage, CacheHolds, Covered, NextToFold
<1>10. ASSUME NEW p \in Pages, CkWriteFail(p) PROVE CacheHolds'
  <2>1. Covered(p) /\ p \in ctodo
    BY <1>10, <1>0, FoldCovered DEF CkWriteFail, NextToFold
  <2>2. ASSUME NEW q \in Pages, q # p, file[q] # None PROVE file'[q] = file[q]
    BY <1>10, <2>2, <1>b DEF CkWriteFail, Written
  <2> QED
    BY <1>10, <1>0, <1>a, <2>1, <2>2
       DEF CkWriteFail, CacheHolds, Covered, NextToFold, CkReturn
<1>11. ASSUME CkInvalidate PROVE CacheHolds'
  BY <1>11, <1>0, <1>a, <1>b DEF CacheHolds, Covered, CkInvalidate, Dropped
<1>12. ASSUME CkFail PROVE CacheHolds'
  BY <1>12, <1>0, <1>a, <1>b
     DEF CacheHolds, Covered, CkFail, FoldDone, CkReturn
<1>13. ASSUME CkFinish PROVE CacheHolds'
  BY <1>13, <1>0, <1>a DEF CkFinish, CkReturn, FoldDone, CacheHolds
<1>14. UNCHANGED <<cache, index, floor, file, cpc, ctodo>> => CacheHolds'
  BY <1>a DEF CacheHolds, Covered
<1>15. QED
  BY <1>1, <1>2, <1>3, <1>4, <1>5, <1>6, <1>7, <1>8, <1>9, <1>10, <1>11, <1>12,
     <1>13, <1>14
     DEF Next, ReadStep, CommitStep, CkStep, BeginReadLoad, BeginReadRegister,
         EndRead, GetPage, CacheHit, CacheMiss, FileRead, FileReadFail,
         BeginWrite, WritePage, AllocPage, FreePage, Rollback, CommitReserve,
         CommitFail, CommitPublish, CommitFinish, CkReturn, Finish, Return,
         FoldDone, NextToFold, mvccVars, engVars, readVars, txVars, comVars,
         ckVars

\* A read in flight between log, cache and file is not overtaken.
LEMMA ReadsHoldStep == Inductive /\ Next => ReadsHold'
<1> SUFFICES ASSUME Inductive, Next PROVE ReadsHold'
  OBVIOUS
<1>0. SUFFICES ASSUME CheckpointAlone PROVE ReadsHold'
  BY DEF ReadsHold
<1>a. ReadsHold /\ Counters
  BY DEF Inductive
<1>b. /\ wpc \in [Writers -> {"none", "tx", "reserved", "appended", "published"}]
      /\ rpc \in [Threads -> {"idle", "loaded", "open", "cache", "file", "fill"}]
      /\ snap \in [Threads -> Versions] /\ rpage \in [Threads -> Pages]
      /\ rbuf \in [Threads -> Images] /\ \A r \in Readers : r \notin Writers
  BY ThreadsAssumption DEF Inductive, TypeOK, TypeCommit, TypeReads
<1> USE DEF Threads, mvccVars, engVars, readVars, txVars, comVars, ckVars
<1>1. ASSUME NEW r \in Readers, BeginReadLoad(r) PROVE ReadsHold'
  BY <1>1, <1>0, <1>a, <1>b DEF ReadsHold, Reading, CanRead, BeginReadLoad
<1>2. ASSUME NEW r \in Readers, BeginReadRegister(r) PROVE ReadsHold'
  BY <1>2, <1>0, <1>a, <1>b DEF ReadsHold, Reading, CanRead, BeginReadRegister
<1>3. ASSUME NEW r \in Readers, EndRead(r) PROVE ReadsHold'
  BY <1>3, <1>0, <1>a, <1>b DEF ReadsHold, Reading, CanRead, EndRead, Release
<1>4. ASSUME NEW t \in Threads, NEW p \in Pages, GetPage(t, p) PROVE ReadsHold'
  BY <1>4, <1>0, <1>a, <1>b DEF ReadsHold, Reading, CanRead, GetPage, Observe
<1>5. ASSUME NEW t \in Threads, CacheHit(t) PROVE ReadsHold'
  BY <1>5, <1>0, <1>a, <1>b
     DEF ReadsHold, Reading, CanRead, CacheHit, Observe, Return
<1>6. ASSUME NEW t \in Threads, CacheMiss(t) PROVE ReadsHold'
  BY <1>6, <1>0, <1>a, <1>b DEF ReadsHold, Reading, CanRead, CacheMiss
<1>7. ASSUME NEW t \in Threads, FileRead(t) PROVE ReadsHold'
  BY <1>7, <1>0, <1>a, <1>b DEF ReadsHold, Reading, CanRead, FileRead
<1>8. ASSUME NEW t \in Threads, FileReadFail(t) PROVE ReadsHold'
  BY <1>8, <1>0, <1>a, <1>b
     DEF ReadsHold, Reading, CanRead, FileReadFail, Observe, Return
<1>9. ASSUME NEW t \in Threads, CacheInsert(t) PROVE ReadsHold'
  BY <1>9, <1>0, <1>a, <1>b
     DEF ReadsHold, Reading, CanRead, CacheInsert, Observe, Return
<1>10. ASSUME NEW w \in Writers, BeginWrite(w) PROVE ReadsHold'
  BY <1>10, <1>0, <1>a, <1>b DEF ReadsHold, Reading, CanRead, BeginWrite
<1>11. ASSUME NEW w \in Writers, Rollback(w) PROVE ReadsHold'
  BY <1>11, <1>0, <1>a, <1>b
     DEF ReadsHold, Reading, CanRead, Rollback, Finish, InTx, NoPages
<1>12. ASSUME NEW w \in Writers, CommitReserve(w) PROVE ReadsHold'
  BY <1>12, <1>0, <1>a, <1>b
     DEF ReadsHold, Reading, CanRead, CommitReserve, InTx
<1>13. ASSUME NEW w \in Writers, CommitAppend(w) PROVE ReadsHold'
  <2>1. SUFFICES ASSUME NEW t \in Threads, Reading(t)
                 PROVE  CanRead(t)' /\ NoneVisible(index'[rpage[t]], snap[t])
    BY <1>13, <1>0, <1>a DEF CommitAppend, ReadsHold, Reading
  <2>2. CanRead(t)'
    BY <1>13, <2>1, <1>0, <1>a, <1>b DEF CommitAppend, ReadsHold, CanRead
  <2> DEFINE q == rpage[t]
  <2>3. /\ q \in Pages /\ index[q] \in Seq(Entry) /\ NoneVisible(index[q], snap[t])
        /\ snap[t] <= committed /\ cver[w] = committed + 1
        /\ committed \in Nat /\ snap[t] \in Nat
    BY <1>13, <1>0, <1>a, <1>b, <2>1, TopAppend
       DEF ReadsHold, Counters, Inductive, TypeOK, TypePages, TypeMvcc,
           Versions
  <2>4. CASE pending[w][q] = None
    BY <1>13, <2>2, <2>3, <2>4 DEF CommitAppend
  <2>5. CASE pending[w][q] # None
    <3>1. index'[q] = Append(index[q], [ver |-> cver[w], data |-> pending[w][q]])
      BY <1>13, <2>3, <2>5 DEF CommitAppend
    <3>2. \A i \in DOMAIN index'[q] :
            (i \in DOMAIN index[q] /\ index'[q][i] = index[q][i])
            \/ index'[q][i].ver = cver[w]
      BY <2>3, <3>1
    <3> QED
      BY <2>2, <2>3, <3>2 DEF NoneVisible
  <2> QED
    BY <2>4, <2>5
<1>14. ASSUME NEW w \in Writers, CommitFail(w) PROVE ReadsHold'
  BY <1>14, <1>0, <1>a, <1>b
     DEF ReadsHold, Reading, CanRead, CommitFail, Finish, NoPages
<1>15. ASSUME NEW w \in Writers, CommitPublish(w) PROVE ReadsHold'
  BY <1>15, <1>0, <1>a, <1>b
     DEF ReadsHold, Reading, CanRead, Counters, CommitPublish, AtLeast
<1>16. ASSUME NEW w \in Writers, CommitFinish(w) PROVE ReadsHold'
  BY <1>16, <1>0, <1>a, <1>b
     DEF ReadsHold, Reading, CanRead, CommitFinish, Finish, NoPages
<1>17. ASSUME NEW p \in Pages, CkWritePage(p) PROVE ReadsHold'
  <2>1. SUFFICES ASSUME NEW t \in Threads, rpc[t] = "fill"
                 PROVE  rbuf[t] = file'[rpage[t]]
    BY <1>17, <1>0, <1>a DEF CkWritePage, ReadsHold, Reading, CanRead
  <2>2. rbuf[t] = file[rpage[t]] /\ rbuf[t] # None /\ rpage[t] \in Pages
    BY <1>0, <1>a, <1>b, <2>1, NoneFresh DEF ReadsHold, Reading
  <2>3. rpage[t] # p
    BY <1>17, <1>0, <2>1, FoldCovered, ReadPastLog DEF CkWritePage, Reading
  <2> QED
    BY <1>17, <2>2, <2>3 DEF CkWritePage, Written
<1>18. ASSUME NEW p \in Pages, CkWriteFail(p) PROVE ReadsHold'
  <2>1. SUFFICES ASSUME NEW t \in Threads, rpc[t] = "fill"
                 PROVE  rbuf[t] = file'[rpage[t]]
    BY <1>18, <1>0, <1>a DEF CkWriteFail, ReadsHold, Reading, CanRead
  <2>2. rbuf[t] = file[rpage[t]] /\ rbuf[t] # None /\ rpage[t] \in Pages
    BY <1>0, <1>a, <1>b, <2>1, NoneFresh DEF ReadsHold, Reading
  <2>3. rpage[t] # p
    BY <1>18, <1>0, <2>1, FoldCovered, ReadPastLog DEF CkWriteFail, Reading
  <2> QED
    BY <1>18, <2>2, <2>3 DEF CkWriteFail, Written
<1>19. ASSUME CkFinish PROVE ReadsHold'
  BY <1>19, <1>0, <1>a, <1>b
     DEF CkFinish, CkReturn, ReadsHold, Reading, CanRead, NoneVisible
<1>20. UNCHANGED <<rpc, wpc, rpage, snap, index, rbuf, file>> => ReadsHold'
  BY <1>a DEF ReadsHold, Reading, CanRead
<1>21. QED
  BY <1>1, <1>2, <1>3, <1>4, <1>5, <1>6, <1>7, <1>8, <1>9, <1>10, <1>11, <1>12,
     <1>13, <1>14, <1>15, <1>16, <1>17, <1>18, <1>19, <1>20
     DEF Next, ReadStep, CommitStep, CkStep, WritePage, AllocPage, FreePage,
         CommitInvalidate, CkOldest, CkLagging, CkPass, CkEmpty, CkLock,
         CkInvalidate, CkFail, CkReturn, Finish, Return, FoldDone, NextToFold,
         mvccVars, engVars, readVars, txVars, comVars, ckVars

\* No read returns anything but the reader's snapshot.
LEMMA IsolationStep == Inductive /\ Next => Isolation'
<1> SUFFICES ASSUME Inductive, Next PROVE Isolation'
  OBVIOUS
<1>0. SUFFICES ASSUME CheckpointAlone PROVE SnapshotIsolation'
  BY DEF Isolation
<1>a. SnapshotIsolation /\ Counters
  BY <1>0 DEF Inductive, Isolation
<1>b. /\ rpc \in [Threads -> {"idle", "loaded", "open", "cache", "file", "fill"}]
      /\ obs \in [Threads -> SUBSET (Pages \X ImageOrNone)]
      /\ snap \in [Threads -> Versions] /\ rpage \in [Threads -> Pages]
  BY DEF Inductive, TypeOK, TypeReads
<1> USE DEF Threads, mvccVars, engVars, readVars, txVars, comVars, ckVars
<1>1. ASSUME NEW r \in Readers, BeginReadLoad(r) PROVE SnapshotIsolation'
  BY <1>1, <1>0, <1>a, <1>b DEF SnapshotIsolation, Counters, BeginReadLoad
<1>2. ASSUME NEW r \in Readers, EndRead(r) PROVE SnapshotIsolation'
  BY <1>2, <1>0, <1>a, <1>b DEF SnapshotIsolation, EndRead, Release
<1>3. ASSUME NEW t \in Threads, NEW p \in Pages, GetPage(t, p)
      PROVE  SnapshotIsolation'
  <2>1. \A o \in obs'[t] : o[2] = hist[snap[t]][o[1]]
    <3>1. ASSUME NEW i \in DOMAIN index[p], VisibleEntry(index[p], snap[t], i)
          PROVE  index[p][i].data = hist[snap[t]][p]
      <4>1. CanRead(t)
        BY <1>3 DEF GetPage, CanRead
      <4>2. Found(p, snap[t])
        BY <1>0, <4>1, PinnedReadable DEF Inductive, VersionsFound
      <4> QED
        BY <1>3, <3>1, <4>2 DEF Found, GetPage
    <3>2. CASE UNCHANGED obs
      BY <1>a, <3>2 DEF SnapshotIsolation
    <3>3. ASSUME NEW i \in DOMAIN index[p], VisibleEntry(index[p], snap[t], i),
                 Observe(t, p, index[p][i].data)
          PROVE  \A o \in obs'[t] : o[2] = hist[snap[t]][o[1]]
      BY <1>b, <3>1, <3>3 DEF Observe
    <3> QED
      BY <1>3, <3>2, <3>3 DEF GetPage
  <2> QED
    BY <1>3, <1>a, <1>b, <2>1 DEF GetPage, SnapshotIsolation, Observe
<1>4. ASSUME NEW t \in Threads, CacheHit(t) PROVE SnapshotIsolation'
  <2>1. \A o \in obs'[t] : o[2] = hist[snap[t]][o[1]]
    <3>1. cache[rpage[t]] = file[rpage[t]]
      BY <1>4, <1>0, <1>b, ReadPastLog
         DEF CacheHit, Reading, Inductive, CacheHolds
    <3>2. file[rpage[t]] = hist[snap[t]][rpage[t]]
      BY <1>4, <1>0, ReadPastLog DEF CacheHit, Reading
    <3> QED
      BY <1>4, <1>b, <3>1, <3>2 DEF CacheHit, Observe
  <2> QED
    BY <1>4, <1>a, <1>b, <2>1 DEF CacheHit, SnapshotIsolation, Observe
<1>5. ASSUME NEW t \in Threads, FileReadFail(t) PROVE SnapshotIsolation'
  <2>1. \A o \in obs'[t] : o[2] = hist[snap[t]][o[1]]
    <3>1. file[rpage[t]] # None
      BY <1>5, <1>0, ReadPastLog DEF FileReadFail, Reading
    <3> QED
      BY <1>5, <1>a, <3>1 DEF FileReadFail, SnapshotIsolation
  <2> QED
    BY <1>5, <1>a, <1>b, <2>1 DEF FileReadFail, SnapshotIsolation, Observe
<1>6. ASSUME NEW t \in Threads, CacheInsert(t) PROVE SnapshotIsolation'
  <2>1. \A o \in obs'[t] : o[2] = hist[snap[t]][o[1]]
    <3>1. rbuf[t] = file[rpage[t]]
      BY <1>6, <1>0 DEF CacheInsert, Reading, Inductive, ReadsHold
    <3>2. file[rpage[t]] = hist[snap[t]][rpage[t]]
      BY <1>6, <1>0, ReadPastLog DEF CacheInsert, Reading
    <3> QED
      BY <1>6, <1>b, <3>1, <3>2 DEF CacheInsert, Observe
  <2> QED
    BY <1>6, <1>a, <1>b, <2>1 DEF CacheInsert, SnapshotIsolation, Observe
<1>7. ASSUME NEW w \in Writers, BeginWrite(w) PROVE SnapshotIsolation'
  BY <1>7, <1>0, <1>a, <1>b DEF SnapshotIsolation, Counters, BeginWrite
<1>8. ASSUME NEW w \in Writers, Rollback(w) PROVE SnapshotIsolation'
  BY <1>8, <1>0, <1>a, <1>b
     DEF SnapshotIsolation, Rollback, Finish, InTx, NoPages
<1>9. ASSUME NEW w \in Writers, CommitAppend(w) PROVE SnapshotIsolation'
  <2>1. cver[w] = committed + 1 /\ committed \in Nat
    BY <1>9, TopAppend DEF Inductive, TypeOK, TypeMvcc, Versions
  <2>2. ASSUME NEW t \in Threads PROVE hist'[snap[t]] = hist[snap[t]]
    <3>1. snap[t] \in Nat /\ snap[t] <= committed /\ snap[t] \in Versions
      BY <1>a, <1>b DEF Counters, Versions
    <3>2. snap[t] # cver[w]
      BY <2>1, <3>1
    <3>3. hist \in [Versions -> [Pages -> ImageOrNone]]
      BY DEF Inductive, TypeOK, TypePages
    <3> QED
      BY <1>9, <3>1, <3>2, <3>3 DEF CommitAppend
  <2> QED
    BY <1>9, <1>a, <2>2 DEF CommitAppend, SnapshotIsolation
<1>10. ASSUME NEW w \in Writers, CommitFail(w) PROVE SnapshotIsolation'
  BY <1>10, <1>0, <1>a, <1>b DEF SnapshotIsolation, CommitFail, Finish, NoPages
<1>11. ASSUME NEW w \in Writers, CommitFinish(w) PROVE SnapshotIsolation'
  BY <1>11, <1>0, <1>a, <1>b
     DEF SnapshotIsolation, CommitFinish, Finish, NoPages
<1>12. UNCHANGED <<obs, snap, hist>> => SnapshotIsolation'
  BY <1>a DEF SnapshotIsolation
<1>13. QED
  BY <1>1, <1>2, <1>3, <1>4, <1>5, <1>6, <1>7, <1>8, <1>9, <1>10, <1>11, <1>12
     DEF Next, ReadStep, CommitStep, CkStep, BeginReadRegister, CacheMiss,
         FileRead, WritePage, AllocPage, FreePage, CommitReserve,
         CommitInvalidate, CommitPublish, CkOldest, CkLagging, CkPass, CkEmpty,
         CkLock, CkWritePage, CkWriteFail, CkInvalidate, CkFail, CkFinish,
         CkReturn, Finish, Return, FoldDone, NextToFold, mvccVars, engVars,
         readVars, txVars, comVars, ckVars

\* A transaction's pages stay its own, and its commit what was appended.
LEMMA StampedStep == Inductive /\ Next => Stamped'
<1> SUFFICES ASSUME Inductive, Next PROVE Stamped'
  OBVIOUS
<1>a. Stamped /\ SerialCommits
  BY DEF Inductive
<1>b. /\ wpc \in [Writers -> {"none", "tx", "reserved", "appended", "published"}]
      /\ pending \in [Writers -> [Pages -> ImageOrNone]] /\ txid \in [Writers -> Images]
      /\ cver \in [Writers -> Versions]
  BY DEF Inductive, TypeOK, TypeCommit, TypeTx
<1> USE DEF mvccVars, engVars, readVars, txVars, comVars, ckVars
<1>1. ASSUME NEW w \in Writers, BeginWrite(w) PROVE Stamped'
  BY <1>1, <1>a, <1>b DEF Stamped, AfterCommit, NoPages, BeginWrite
<1>2. ASSUME NEW w \in Writers, NEW p \in Pages, WritePage(w, p) PROVE Stamped'
  <2>1. /\ wpc' = wpc /\ wpc[w] = "tx" /\ hist' = hist /\ cver' = cver /\ txid' = txid
        /\ \A u \in Writers : u # w => pending'[u] = pending[u]
    BY <1>2, <1>b DEF WritePage, InTx
  <2>2. \A q \in Pages : pending'[w][q] \in {None, txid[w]}
    BY <1>2, <1>a, <1>b DEF Stamped, WritePage
  <2>3. \A u \in Writers : wpc[u] = "appended" => AfterCommit(u)' = AfterCommit(u)
    BY <2>1 DEF AfterCommit
  <2>4. ASSUME NEW u \in Writers
        PROVE  /\ \A q \in Pages : pending'[u][q] \in {None, txid'[u]}
               /\ wpc'[u] = "none" => pending'[u] = NoPages
               /\ wpc'[u] = "appended" => hist'[cver'[u]] = AfterCommit(u)'
    <3>1. CASE u = w
      BY <2>1, <2>2, <3>1
    <3>2. CASE u # w
      BY <2>1, <2>3, <3>2, <1>a DEF Stamped
    <3> QED
      BY <3>1, <3>2
  <2> QED
    BY <2>4 DEF Stamped
<1>3. ASSUME NEW w \in Writers, NEW p \in Pages, FreePage(w, p) PROVE Stamped'
  <2>1. /\ wpc' = wpc /\ wpc[w] = "tx" /\ hist' = hist /\ cver' = cver /\ txid' = txid
        /\ \A u \in Writers : u # w => pending'[u] = pending[u]
    BY <1>3, <1>b DEF FreePage, InTx
  <2>2. \A q \in Pages : pending'[w][q] \in {None, txid[w]}
    BY <1>3, <1>a, <1>b DEF Stamped, FreePage
  <2>3. \A u \in Writers : wpc[u] = "appended" => AfterCommit(u)' = AfterCommit(u)
    BY <2>1 DEF AfterCommit
  <2>4. ASSUME NEW u \in Writers
        PROVE  /\ \A q \in Pages : pending'[u][q] \in {None, txid'[u]}
               /\ wpc'[u] = "none" => pending'[u] = NoPages
               /\ wpc'[u] = "appended" => hist'[cver'[u]] = AfterCommit(u)'
    <3>1. CASE u = w
      BY <2>1, <2>2, <3>1
    <3>2. CASE u # w
      BY <2>1, <2>3, <3>2, <1>a DEF Stamped
    <3> QED
      BY <3>1, <3>2
  <2> QED
    BY <2>4 DEF Stamped
<1>4. ASSUME NEW w \in Writers, Rollback(w) PROVE Stamped'
  BY <1>4, <1>a, <1>b DEF Stamped, AfterCommit, Rollback, Finish, InTx, NoPages
<1>5. ASSUME NEW w \in Writers, CommitReserve(w) PROVE Stamped'
  BY <1>5, <1>a, <1>b DEF Stamped, AfterCommit, CommitReserve, InTx
<1>6. ASSUME NEW w \in Writers, CommitAppend(w) PROVE Stamped'
  <2>1. cver[w] = committed + 1 /\ committed \in Nat /\ cver[w] \in Versions
    BY <1>6, <1>b, TopAppend DEF Inductive, TypeOK, TypeMvcc, Versions
  <2>2. hist'[cver[w]] = AfterCommit(w) /\ hist'[cver[w] - 1] = hist[cver[w] - 1]
    BY <1>6, <2>1 DEF CommitAppend, Inductive, TypeOK, TypePages
  <2>3. AfterCommit(w)' = AfterCommit(w)
    BY <1>6, <2>2 DEF CommitAppend, AfterCommit
  <2>4. \A u \in Writers : wpc'[u] = "appended" => u = w
    BY <1>6, <1>a, <1>b DEF CommitAppend, SerialCommits
  <2> QED
    BY <1>6, <1>a, <1>b, <2>2, <2>3, <2>4 DEF CommitAppend, Stamped
<1>7. ASSUME NEW w \in Writers, CommitFail(w) PROVE Stamped'
  BY <1>7, <1>a, <1>b DEF Stamped, AfterCommit, CommitFail, Finish, NoPages
<1>8. ASSUME NEW w \in Writers, CommitPublish(w) PROVE Stamped'
  BY <1>8, <1>a, <1>b DEF Stamped, AfterCommit, CommitPublish, AtLeast
<1>9. ASSUME NEW w \in Writers, CommitFinish(w) PROVE Stamped'
  BY <1>9, <1>a, <1>b DEF Stamped, AfterCommit, CommitFinish, Finish, NoPages
<1>10. UNCHANGED <<wpc, pending, txid, cver, hist>> => Stamped'
  BY <1>a DEF Stamped, AfterCommit
<1>11. QED
  BY <1>1, <1>2, <1>3, <1>4, <1>5, <1>6, <1>7, <1>8, <1>9, <1>10
     DEF Next, ReadStep, CommitStep, CkStep, BeginReadLoad, BeginReadRegister,
         EndRead, GetPage, CacheHit, CacheMiss, FileRead, FileReadFail,
         CacheInsert, AllocPage, CommitInvalidate, CkOldest, CkLagging, CkPass,
         CkEmpty, CkLock, CkWritePage, CkWriteFail, CkInvalidate, CkFail,
         CkFinish, CkReturn, Finish, Return, FoldDone, NextToFold, mvccVars,
         engVars, readVars, txVars, comVars, ckVars

-----------------------------------------------------------------------------
(* Allocation. *)

\* WriteTx::free_page appends a page that is in use: the list stays free of
\* duplicates.
LEMMA FreeAppend ==
  ASSUME NEW f \in Seq(Pages), NEW n \in Nat, NEW p \in Pages,
         Free(f, n), p # 1, p <= n, p \notin InSeq(f)
  PROVE  Free(Append(f, p), n)
<1> DEFINE g == Append(f, p)
<1>1. /\ DOMAIN f = 1..Len(f) /\ Len(f) \in Nat /\ DOMAIN g = 1..(Len(f) + 1)
      /\ g[Len(f) + 1] = p /\ \A i \in 1..Len(f) : g[i] = f[i]
  OBVIOUS
<1>2. \A i \in 1..Len(f) : f[i] # p
  BY <1>1 DEF InSeq
<1>3. p \in 2..n
  BY DEF Pages
<1> HIDE DEF g
<1>4. \A i \in DOMAIN g : i \in 1..Len(f) \/ i = Len(f) + 1
  BY <1>1
<1>5. Free(g, n)
  BY <1>1, <1>2, <1>3, <1>4 DEF Free
<1> QED
  BY <1>5 DEF g

\* WriteTx::alloc_page takes the last page off the list.
LEMMA FreeFront ==
  ASSUME NEW f \in Seq(Pages), NEW n \in Nat, Free(f, n), f # <<>>
  PROVE  Free(SubSeq(f, 1, Len(f) - 1), n)
<1> DEFINE g == SubSeq(f, 1, Len(f) - 1)
<1>1. /\ DOMAIN f = 1..Len(f) /\ Len(f) \in Nat /\ DOMAIN g = 1..(Len(f) - 1)
      /\ \A i \in 1..(Len(f) - 1) : g[i] = f[i]
  OBVIOUS
<1> HIDE DEF g
<1>2. \A i \in DOMAIN g : i \in DOMAIN f /\ g[i] = f[i]
  BY <1>1
<1>3. Free(g, n)
  BY <1>2 DEF Free
<1> QED
  BY <1>3 DEF g

\* alloc_page grows the file: what fitted still fits.
LEMMA FreeGrows ==
  ASSUME NEW f, NEW n \in Nat, Free(f, n) PROVE Free(f, n + 1)
BY DEF Free

\* A step keeps the counts and the free lists right.
LEMMA AllocationStep == Inductive /\ Next => Allocation'
<1> SUFFICES ASSUME Inductive, Next PROVE Allocation'
  OBVIOUS
<1>a. Allocation /\ SerialCommits /\ Stamped
  BY DEF Inductive
<1>b. /\ wpc \in [Writers -> {"none", "tx", "reserved", "appended", "published"}]
      /\ cver \in [Writers -> Versions] /\ committed \in Nat
      /\ pending \in [Writers -> [Pages -> ImageOrNone]]
      /\ localPageCount \in [Writers -> Pages] /\ pageCount \in Pages
      /\ localFreelist \in [Writers -> Seq(Pages)]
      /\ hist \in [Versions -> [Pages -> ImageOrNone]]
  BY DEF Inductive, TypeOK, TypeMvcc, TypePages, TypeTx, TypeCommit,
         TypeEngine, Versions
<1>c. \A p \in Pages : p \in Nat
  BY DEF Pages
<1>1. ASSUME NEW w \in Writers, BeginWrite(w) PROVE Allocation'
  <2>1. \A u \in Writers : wpc[u] = "none"
    BY <1>1, <1>a DEF BeginWrite, GateFree, SerialCommits
  <2>2. /\ \A u \in Writers : u # w => wpc'[u] = "none"
        /\ wpc'[w] = "tx" /\ localPageCount'[w] = pageCount
        /\ localFreelist'[w] = freelist
    BY <1>1, <1>b, <2>1 DEF BeginWrite
  <2>3. \A p \in Pages : pending'[w][p] = None
    BY <1>1, <1>a, <2>1 DEF BeginWrite, Stamped, NoPages
  <2>4. UNCHANGED <<committed, hist, pageCount, freelist>>
    BY <1>1 DEF BeginWrite
  <2>5. Free(freelist, pageCount) /\ Fits(committed, pageCount)
    BY <1>a, <2>1 DEF Allocation
  <2>6. Fits(committed, pageCount)'
    BY <2>4, <2>5 DEF Fits
  <2>7. Free(freelist, pageCount)'
    BY <2>4, <2>5 DEF Free
  <2>8. Free(localFreelist[w], localPageCount[w])'
    BY <2>2, <2>4, <2>5 DEF Free
  <2>9. pageCount' <= localPageCount'[w]
    BY <2>2, <2>4, <1>b, <1>c
  <2> QED
    BY <2>2, <2>3, <2>6, <2>7, <2>8, <2>9 DEF Allocation
<1>2. ASSUME NEW w \in Writers, NEW p \in Pages, WritePage(w, p) PROVE Allocation'
  <2>1. /\ UNCHANGED <<committed, hist, pageCount, freelist, wpc,
                       localPageCount, localFreelist>>
        /\ wpc[w] = "tx" /\ p <= localPageCount[w]
    BY <1>2 DEF WritePage, InTx, mvccVars, engVars, comVars
  <2>2. \A u \in Writers, q \in Pages :
          pending'[u][q] # None => pending[u][q] # None \/ (u = w /\ q = p)
    BY <1>2, <1>b DEF WritePage
  <2> QED
    BY <2>1, <2>2, <1>a DEF Allocation, Fits, Free
<1>3. ASSUME NEW w \in Writers, AllocPage(w) PROVE Allocation'
  <2>1. /\ UNCHANGED <<committed, hist, pageCount, freelist, wpc, pending>>
        /\ wpc[w] = "tx"
    BY <1>3 DEF AllocPage, InTx, mvccVars, engVars, comVars
  <2>2. \A u \in Writers : u # w =>
          /\ localPageCount'[u] = localPageCount[u]
          /\ localFreelist'[u] = localFreelist[u]
    BY <1>3, <1>b DEF AllocPage
  <2>3. /\ localPageCount[w] \in Nat /\ localFreelist[w] \in Seq(Pages)
        /\ pageCount \in Nat /\ pageCount <= localPageCount[w]
        /\ Free(localFreelist[w], localPageCount[w])
        /\ \A q \in Pages : pending[w][q] # None => q <= localPageCount[w]
    BY <1>a, <1>b, <1>c, <2>1 DEF Allocation
  <2>4. /\ localPageCount'[w] \in {localPageCount[w], localPageCount[w] + 1}
        /\ Free(localFreelist'[w], localPageCount'[w])
    <3>1. CASE localFreelist[w] # <<>>
      <4>1. /\ localPageCount'[w] = localPageCount[w]
            /\ localFreelist'[w]
                 = SubSeq(localFreelist[w], 1, Len(localFreelist[w]) - 1)
        BY <1>3, <1>b, <3>1 DEF AllocPage
      <4> QED
        BY <4>1, <2>3, <3>1, FreeFront
    <3>2. CASE localFreelist[w] = <<>>
      <4>1. /\ localPageCount'[w] = localPageCount[w] + 1
            /\ localFreelist'[w] = localFreelist[w]
        BY <1>3, <1>b, <3>2 DEF AllocPage
      <4> QED
        BY <4>1, <2>3, FreeGrows
    <3> QED
      BY <3>1, <3>2
  <2>5. /\ pageCount' <= localPageCount'[w]
        /\ \A q \in Pages : pending'[w][q] # None => q <= localPageCount'[w]
    BY <2>1, <2>3, <2>4, <1>c
  <2>6. /\ Free(freelist, pageCount)'
        /\ (\A u \in Writers : wpc'[u] # "published") => Fits(committed, pageCount)'
    BY <1>a, <2>1 DEF Allocation, Free, Fits
  <2>7. ASSUME NEW u \in Writers, u # w, wpc'[u] # "none"
        PROVE  /\ pageCount' <= localPageCount'[u]
               /\ Free(localFreelist[u], localPageCount[u])'
               /\ \A q \in Pages : pending'[u][q] # None => q <= localPageCount'[u]
               /\ wpc'[u] = "published" => Fits(committed, localPageCount[u])'
    BY <1>a, <2>1, <2>2, <2>7 DEF Allocation, Free, Fits
  <2> QED
    BY <2>1, <2>4, <2>5, <2>6, <2>7 DEF Allocation
<1>4. ASSUME NEW w \in Writers, NEW p \in Pages, FreePage(w, p) PROVE Allocation'
  <2>1. /\ UNCHANGED <<committed, hist, pageCount, freelist, wpc, localPageCount>>
        /\ wpc[w] = "tx" /\ p # 1 /\ p <= localPageCount[w]
        /\ p \notin InSeq(localFreelist[w])
    BY <1>4 DEF FreePage, InTx, mvccVars, engVars, comVars
  <2>2. \A u \in Writers, q \in Pages :
          pending'[u][q] # None => pending[u][q] # None
    BY <1>4, <1>b DEF FreePage
  <2>3. /\ \A u \in Writers : u # w => localFreelist'[u] = localFreelist[u]
        /\ localFreelist'[w] = Append(localFreelist[w], p)
    BY <1>4, <1>b DEF FreePage
  <2>4. Free(localFreelist'[w], localPageCount'[w])
    BY <2>1, <2>3, <1>a, <1>b, <1>c, FreeAppend DEF Allocation
  <2>5. \A u \in Writers : wpc[u] # "none" =>
          Free(localFreelist'[u], localPageCount'[u])
    BY <2>1, <2>3, <2>4, <1>a DEF Allocation
  <2> QED
    BY <2>1, <2>2, <2>5, <1>a DEF Allocation, Fits, Free
<1>5. ASSUME NEW w \in Writers, Rollback(w) \/ CommitFail(w) PROVE Allocation'
  <2>1. /\ UNCHANGED <<committed, hist, pageCount, freelist>>
        /\ wpc[w] \in {"tx", "reserved"}
    BY <1>5 DEF Rollback, CommitFail, InTx, mvccVars
  <2>2. \A u \in Writers : wpc[u] # "published" /\ wpc'[u] = "none"
    BY <1>5, <1>a, <1>b, <2>1 DEF Rollback, CommitFail, Finish, SerialCommits
  <2> QED
    BY <2>1, <2>2, <1>a DEF Allocation, Fits, Free
<1>6. ASSUME NEW w \in Writers, CommitReserve(w) PROVE Allocation'
  <2>1. /\ UNCHANGED <<committed, hist, pageCount, freelist, pending,
                       localPageCount, localFreelist>>
        /\ wpc[w] = "tx"
        /\ \A u \in Writers : wpc'[u] = IF u = w THEN "reserved" ELSE wpc[u]
    BY <1>6, <1>b DEF CommitReserve, InTx, mvccVars, engVars, txVars
  <2> QED
    BY <2>1, <1>a DEF Allocation, Fits, Free
<1>7. ASSUME NEW w \in Writers, CommitAppend(w) PROVE Allocation'
  <2>1. /\ UNCHANGED <<committed, pageCount, freelist, pending,
                       localPageCount, localFreelist>>
        /\ wpc[w] = "reserved"
        /\ \A u \in Writers : wpc'[u] = IF u = w THEN "appended" ELSE wpc[u]
    BY <1>7, <1>b DEF CommitAppend, mvccVars, engVars, txVars
  <2>2. hist'[committed] = hist[committed]
    BY <1>7, <1>a, <1>b, <2>1 DEF CommitAppend, SerialCommits
  <2> QED
    BY <2>1, <2>2, <1>a DEF Allocation, Fits, Free
<1>8. ASSUME NEW w \in Writers, CommitPublish(w) PROVE Allocation'
  <2>1. /\ UNCHANGED <<hist, pageCount, freelist, pending, localPageCount,
                       localFreelist>>
        /\ wpc[w] = "appended" /\ committed' = cver[w]
        /\ cver[w] = committed + 1
    BY <1>8, <1>a, <1>b DEF CommitPublish, AtLeast, SerialCommits, engVars, txVars
  <2>2. /\ \A u \in Writers : u # w => wpc'[u] = "none" /\ wpc[u] = "none"
        /\ wpc'[w] = "published"
    BY <1>8, <1>a, <1>b, <2>1 DEF CommitPublish, SerialCommits
  <2>3. hist[cver[w]] = AfterCommit(w) /\ cver[w] - 1 = committed
    BY <1>a, <1>b, <2>1 DEF Stamped
  <2>4. /\ Fits(committed, pageCount) /\ pageCount <= localPageCount[w]
        /\ \A p \in Pages : pending[w][p] # None => p <= localPageCount[w]
    BY <1>a, <2>1, <2>2 DEF Allocation
  <2>5. ASSUME NEW p \in Pages, hist[cver[w]][p] # None
        PROVE  p <= localPageCount[w]
    <3>1. hist[cver[w]][p] = IF pending[w][p] # None THEN pending[w][p]
                                                     ELSE hist[committed][p]
      BY <2>3 DEF AfterCommit
    <3>2. CASE pending[w][p] = None
      <4>1. p <= pageCount
        BY <2>4, <2>5, <3>1, <3>2 DEF Fits
      <4> QED
        BY <4>1, <2>4, <1>b, <1>c
    <3> QED
      BY <2>4, <3>2
  <2>6. Fits(committed, localPageCount[w])'
    BY <2>1, <2>5 DEF Fits
  <2>7. Free(freelist, pageCount)' /\ Free(localFreelist[w], localPageCount[w])'
    BY <1>a, <2>1 DEF Allocation, Free
  <2> QED
    BY <2>1, <2>2, <2>4, <2>6, <2>7 DEF Allocation
<1>9. ASSUME NEW w \in Writers, CommitFinish(w) PROVE Allocation'
  <2>1. /\ UNCHANGED <<committed, hist>> /\ wpc[w] = "published"
        /\ pageCount' = localPageCount[w] /\ freelist' = localFreelist[w]
    BY <1>9 DEF CommitFinish, CommittedCount, mvccVars
  <2>2. \A u \in Writers : wpc'[u] = "none"
    BY <1>9, <1>a, <1>b, <2>1 DEF CommitFinish, Finish, SerialCommits
  <2>3. Fits(committed, localPageCount[w]) /\ Free(localFreelist[w], localPageCount[w])
    BY <1>a, <2>1 DEF Allocation
  <2>4. Fits(committed, pageCount)' /\ Free(freelist, pageCount)'
    BY <2>1, <2>3 DEF Fits, Free
  <2> QED
    BY <2>2, <2>4 DEF Allocation
<1>10. UNCHANGED <<committed, hist, pageCount, freelist, wpc, pending,
                   localPageCount, localFreelist>> => Allocation'
  BY <1>a DEF Allocation, Fits, Free
<1>11. QED
  BY <1>1, <1>2, <1>3, <1>4, <1>5, <1>6, <1>7, <1>8, <1>9, <1>10
     DEF Next, ReadStep, CommitStep, CkStep, BeginReadLoad, BeginReadRegister,
         EndRead, GetPage, CacheHit, CacheMiss, FileRead, FileReadFail,
         CacheInsert, CommitInvalidate, CkOldest, CkLagging, CkPass,
         CkEmpty, CkLock, CkWritePage, CkWriteFail, CkInvalidate, CkFail,
         CkFinish, CkReturn, Return, FoldDone, NextToFold, mvccVars,
         engVars, readVars, txVars, comVars, ckVars

-----------------------------------------------------------------------------
(* The theorems. *)

\* A freshly opened engine satisfies the invariant.
LEMMA InitInductive == Init => Inductive
<1> SUFFICES ASSUME Init PROVE Inductive
  OBVIOUS
<1> USE Origins DEF Init
<1>1. TypeOK
  <2>1. \A S : <<>> \in Seq(S)
    OBVIOUS
  <2>2. FreshFile \in [Pages -> ImageOrNone] /\ NoPages \in [Pages -> ImageOrNone]
    BY DEF FreshFile, NoPages, ImageOrNone
  <2> QED
    BY <2>1, <2>2
       DEF TypeOK, TypeMvcc, TypePages, TypeEngine, TypeReads, TypeTx,
           TypeCommit, TypeCk, ImageOrNone
<1>2. Top = 0
  BY DEF Top
<1>3. SerialCommits /\ IdsAhead /\ Counters
  <2>1. gate = (\E w \in Writers : wpc[w] # "none")
    OBVIOUS
  <2>2. \A w \in Writers : wpc[w] = "none" /\ rpc[w] = "idle"
    BY DEF Threads
  <2>3. SerialCommits /\ IdsAhead
    BY <2>1, <2>2 DEF SerialCommits, IdsAhead, Unpublished
  <2> QED
    BY <2>2, <2>3 DEF Counters, Reading
<1>4. RefcountExact
  <2>1. \A v \in Versions :
          {r \in Readers : rpc[r] \notin {"idle", "loaded"} /\ snap[r] = v} = {}
    BY DEF Threads
  <2> QED
    BY <2>1, FS_EmptySet DEF RefcountExact
<1>5. FoldProgress /\ LogAscends
  BY DEF FoldProgress, LogAscends, Indexed
<1>6. VersionsFound
  <2>1. \A p \in Pages, v \in Versions : hist[v][p] = file[p] /\ index[p] = <<>>
    OBVIOUS
  <2> QED
    BY <2>1 DEF VersionsFound, Found
<1>7. FloorHolds /\ CacheHolds /\ ReadsHold /\ Isolation
  BY DEF FloorHolds, CacheHolds, ReadsHold, Isolation, SnapshotIsolation,
         CanRead, Reading, NoPages
<1>8. Stamped
  BY DEF Stamped, NoPages
<1>9. Allocation
  <2>1. Free(<<>>, 1)
    BY DEF Free
  <2>2. Fits(committed, pageCount)
    BY DEF Fits, FreshFile, Pages
  <2> QED
    BY <2>1, <2>2 DEF Allocation
<1> QED
  BY <1>1, <1>3, <1>4, <1>5, <1>6, <1>7, <1>8, <1>9 DEF Inductive

\* Every step preserves the invariant.
LEMMA NextInductive == Inductive /\ [Next]_vars => Inductive'
<1>1. Inductive /\ Next => Inductive'
  <2> SUFFICES ASSUME Inductive, Next PROVE Inductive'
    OBVIOUS
  <2>1. TypeOK'
    BY TypeMvccStep, TypePagesStep, TypeEngineStep, TypeReadsStep, TypeTxStep,
       TypeCommitStep, TypeCkStep
       DEF TypeOK
  <2> QED
    BY <2>1, SerialCommitsStep, IdsAheadStep, CountersStep, RefcountExactStep,
       FoldProgressStep, LogAscendsStep, VersionsFoundStep, FloorHoldsStep,
       CacheHoldsStep, ReadsHoldStep, IsolationStep, StampedStep,
       AllocationStep
       DEF Inductive
<1>2. Inductive /\ UNCHANGED vars => Inductive'
  <2> SUFFICES ASSUME Inductive, UNCHANGED vars PROVE Inductive'
    OBVIOUS
  <2> USE DEF Inductive, vars, mvccVars, engVars, readVars, txVars, comVars, ckVars
  <2>0. Top' = Top
    BY DEF Top
  <2>1. TypeOK'
    BY DEF TypeOK, TypeMvcc, TypePages, TypeEngine, TypeReads, TypeTx,
           TypeCommit, TypeCk
  <2>2. SerialCommits' /\ IdsAhead' /\ Counters' /\ RefcountExact'
    BY DEF SerialCommits, IdsAhead, Counters, RefcountExact, Unpublished,
           Reading
  <2>3. FoldProgress' /\ LogAscends' /\ VersionsFound'
    BY <2>0
       DEF FoldProgress, LogAscends, VersionsFound, Readable, Found, Indexed
  <2>4. FloorHolds' /\ CacheHolds' /\ ReadsHold' /\ Isolation'
    BY DEF FloorHolds, CacheHolds, ReadsHold, Isolation, SnapshotIsolation,
           CanRead, Reading, Covered
  <2>5. Stamped' /\ Allocation'
    BY DEF Stamped, AfterCommit, Allocation, Free, Fits
  <2> QED
    BY <2>1, <2>2, <2>3, <2>4, <2>5
<1> QED
  BY <1>1, <1>2

\* The invariant holds in every reachable state, whatever the threads of
\* StorageEngine do and in whatever order.
THEOREM AlwaysInductive == Spec => []Inductive
BY InitInductive, NextInductive, PTL DEF Spec

\* Every variable keeps its type: versions, transaction ids and page numbers
\* stay in range whatever StorageEngine's threads do.
THEOREM TypeCorrect == Spec => []TypeOK
<1>1. Inductive => TypeOK
  BY DEF Inductive
<1> QED
  BY <1>1, AlwaysInductive, PTL

\* MvccManager::active_readers counts exactly the open read transactions, for
\* any number of threads in begin_read and end_read.
THEOREM RefcountsExact == Spec => []RefcountExact
<1>1. Inductive => RefcountExact
  BY DEF Inductive
<1> QED
  BY <1>1, AlwaysInductive, PTL

\* WriteGate admits one write transaction at a time, whose reserved version is
\* the successor of the committed one until publish_commit.
THEOREM CommitsAreSerial == Spec => []SerialCommits
<1>1. Inductive => SerialCommits
  BY DEF Inductive
<1> QED
  BY <1>1, AlwaysInductive, PTL

\* Whatever transactions commit, roll back or fail, the page count and the
\* free list a new WriteTx copies cover the committed pages and name each free
\* page once: alloc_page hands out no page twice and none in use.
THEOREM PagesAllocatedOnce == Spec => []AllocationSafe
<1>1. Inductive => AllocationSafe
  <2> SUFFICES ASSUME Inductive, ~gate PROVE AllocationSafe
    BY DEF AllocationSafe
  <2>1. \A w \in Writers : wpc[w] # "published"
    BY DEF Inductive, SerialCommits
  <2>2. Fits(committed, pageCount) /\ Free(freelist, pageCount)
    BY <2>1 DEF Inductive, Allocation
  <2> QED
    BY <2>2 DEF AllocationSafe, Fits, Free
<1> QED
  BY <1>1, AlwaysInductive, PTL

\* No checkpoint, complete or failed, at any time, and no failed commit loses
\* the newest image of a page: it ends the page's list in the WAL index or is
\* in the file.
THEOREM NothingNewestLost == Spec => []NewestSurvives
<1>1. Inductive => NewestSurvives
  <2> SUFFICES ASSUME Inductive, NEW p \in Pages, hist[Top][p] # None
               PROVE  hist[Top][p] = IF index[p] = <<>> THEN file[p]
                                     ELSE index[p][Len(index[p])].data
    BY DEF NewestSurvives
  <2>1. Top \in Versions
    BY BoundsAssumption
       DEF Inductive, TypeOK, TypeMvcc, TypeCommit, SerialCommits, Top,
           Versions
  <2>2. Found(p, Top)
    BY <2>1 DEF Inductive, VersionsFound, Readable
  <2>3. CASE index[p] = <<>>
    BY <2>2, <2>3 DEF Found, NoneVisible
  <2>4. CASE index[p] # <<>>
    <3>1. VisibleEntry(index[p], Top, Len(index[p])) /\ Len(index[p]) \in DOMAIN index[p]
      BY <2>4, LastVisible DEF VisibleEntry
    <3> QED
      BY <2>2, <2>4, <3>1 DEF Found
  <2> QED
    BY <2>3, <2>4
<1> QED
  BY <1>1, AlwaysInductive, PTL

\* Under the callers' discipline read_page_at returns a page as of the
\* transaction's snapshot, for any number of readers, writers and pages.
THEOREM SnapshotsIsolated ==
  ASSUME CheckpointAlone PROVE Spec => []SnapshotIsolation
<1>1. Inductive => SnapshotIsolation
  BY DEF Inductive, Isolation
<1> QED
  BY <1>1, AlwaysInductive, PTL

\* Under the same discipline the page cache agrees with the file wherever the
\* log does not hide it: the fill of read_page_at is never stale.
THEOREM CacheClean ==
  ASSUME CheckpointAlone PROVE Spec => []CacheIsClean
<1>1. Inductive => CacheIsClean
  BY DEF Inductive, CacheHolds, CacheIsClean, Covered
<1> QED
  BY <1>1, AlwaysInductive, PTL

\* A step commits at most one version and rewrites none.
LEMMA HistoryStep ==
  Inductive /\ [Next]_vars =>
    [/\ committed' \in {committed, committed + 1}
     /\ \A v \in 0..committed : hist'[v] = hist[v]]_vars
<1> SUFFICES ASSUME Inductive, Next
             PROVE  /\ committed' \in {committed, committed + 1}
                    /\ \A v \in 0..committed : hist'[v] = hist[v]
  OBVIOUS
<1>a. /\ committed \in Nat /\ committed \in Versions
      /\ hist \in [Versions -> [Pages -> ImageOrNone]] /\ SerialCommits
  BY DEF Inductive, TypeOK, TypeMvcc, TypePages, Versions
<1>1. ASSUME NEW w \in Writers, CommitAppend(w)
      PROVE  committed' = committed /\ \A v \in 0..committed : hist'[v] = hist[v]
  <2>1. cver[w] = committed + 1
    BY <1>1, TopAppend
  <2> QED
    BY <1>1, <1>a, <2>1 DEF CommitAppend, mvccVars, Versions
<1>2. ASSUME NEW w \in Writers, CommitPublish(w)
      PROVE  committed' = committed + 1 /\ hist' = hist
  BY <1>2, <1>a DEF CommitPublish, SerialCommits, AtLeast
<1>3. UNCHANGED <<committed, hist>>
        => /\ committed' \in {committed, committed + 1}
           /\ \A v \in 0..committed : hist'[v] = hist[v]
  OBVIOUS
<1> QED
  BY <1>1, <1>2, <1>3
     DEF Next, ReadStep, CommitStep, CkStep, mvccVars, BeginReadLoad,
         BeginReadRegister, EndRead, GetPage, CacheHit, CacheMiss, FileRead,
         FileReadFail, CacheInsert, BeginWrite, WritePage, AllocPage, FreePage,
         Rollback, CommitReserve, CommitInvalidate, CommitFail, CommitFinish,
         CkOldest, CkLagging, CkPass, CkEmpty, CkLock, CkWritePage,
         CkWriteFail, CkInvalidate, CkFail, CkFinish

\* publish_commit adds versions one by one and nothing rewrites a committed
\* version.
THEOREM HistoryOnlyGrows == Spec => HistoryGrows
BY AlwaysInductive, HistoryStep, PTL DEF Spec, HistoryGrows

-----------------------------------------------------------------------------
(* Storage implements SnapshotStore. *)

\* A freshly opened engine is an empty snapshot store.
LEMMA StoreInit == Init => Store!Init
<1> SUFFICES ASSUME Init PROVE Store!Init
  OBVIOUS
<1>1. 0..committed = {0} /\ committed = 0
  BY DEF Init
<1>2. \A v \in {0} : hist[v] = FreshFile
  BY Origins DEF Init
<1>3. \A t \in Threads : PinOf(t) = None
  BY DEF Init, PinOf
<1> QED
  BY <1>1, <1>2, <1>3 DEF Init, Store!Init

\* The mapped variables of the store.
Pins == [t \in Threads |-> PinOf(t)]
Db == [v \in 0..committed |-> hist[v]]

\* A step that moves one thread's pin changes the mapped function at one point.
LEMMA PinChange ==
  ASSUME NEW t \in Threads, \A u \in Threads \ {t} : PinOf(u)' = PinOf(u)
  PROVE  Pins' = [Pins EXCEPT ![t] = PinOf(t)']
BY DEF Pins

\* The start of a transaction maps to Begin.
LEMMA StoreBegin ==
  ASSUME Inductive, NEW t \in Threads, rpc[t] = "idle", rpc' = [rpc EXCEPT ![t] = rpc'[t]],
         rpc'[t] # "idle", snap' = [snap EXCEPT ![t] = committed],
         UNCHANGED <<committed, hist, obs>>
  PROVE  Store!Next
<1>1. rpc \in [Threads -> {"idle", "loaded", "open", "cache", "file", "fill"}] /\ snap \in [Threads -> Versions]
  BY DEF Inductive, TypeOK, TypeReads
<1>2. PinOf(t) = None /\ PinOf(t)' = committed /\ \A u \in Threads \ {t} : PinOf(u)' = PinOf(u)
  BY <1>1 DEF PinOf
<1>3. Pins' = [Pins EXCEPT ![t] = committed] /\ Db' = Db /\ Pins[t] = None
  BY <1>2, PinChange DEF Pins, Db
<1>4. Store!Begin(t)
  BY <1>3 DEF Store!Begin, Pins, Db
<1> QED
  BY <1>4 DEF Store!Next

\* The end of a transaction maps to End.
LEMMA StoreEnd ==
  ASSUME Inductive, NEW t \in Threads, rpc[t] # "idle", rpc' = [rpc EXCEPT ![t] = "idle"],
         snap' = [snap EXCEPT ![t] = 0], obs' = [obs EXCEPT ![t] = {}],
         UNCHANGED <<committed, hist>>
  PROVE  Store!Next
<1>1. rpc \in [Threads -> {"idle", "loaded", "open", "cache", "file", "fill"}] /\ snap \in [Threads -> Versions]
  BY DEF Inductive, TypeOK, TypeReads
<1>2. PinOf(t) # None /\ PinOf(t)' = None /\ \A u \in Threads \ {t} : PinOf(u)' = PinOf(u)
  BY <1>1, NoneFresh DEF PinOf
<1>3. Pins' = [Pins EXCEPT ![t] = None] /\ Db' = Db /\ Pins[t] # None
  BY <1>2, PinChange DEF Pins, Db
<1>4. Store!End(t)
  BY <1>3 DEF Store!End, Pins, Db
<1> QED
  BY <1>4 DEF Store!Next

\* A completed page read maps to Read.
LEMMA StoreRead ==
  ASSUME Inductive, NEW t \in Threads, NEW p \in Pages, rpc[t] # "idle", rpc'[t] # "idle",
         rpc' = [rpc EXCEPT ![t] = rpc'[t]], hist[snap[t]][p] # None,
         obs' = [obs EXCEPT ![t] = {<<p, hist[snap[t]][p]>>}],
         UNCHANGED <<committed, hist, snap>>
  PROVE  Store!Next
<1>1. /\ rpc \in [Threads -> {"idle", "loaded", "open", "cache", "file", "fill"}] /\ snap \in [Threads -> Versions]
      /\ snap[t] <= committed
  BY DEF Inductive, TypeOK, TypeReads, Counters
<1>2. PinOf(t) = snap[t] /\ \A u \in Threads : PinOf(u)' = PinOf(u)
  BY <1>1 DEF PinOf
<1>3. Pins' = Pins /\ Db' = Db /\ Pins[t] = snap[t] /\ Pins[t] # None
  BY <1>1, <1>2, NoneFresh DEF Pins, Db
<1>4. Db[Pins[t]] = hist[snap[t]]
  BY <1>1, <1>3 DEF Db, Versions
<1>5. Store!Read(t, p)
  BY <1>3, <1>4 DEF Store!Read, Pins, Db
<1> QED
  BY <1>5 DEF Store!Next

\* A step that no client can see maps to a stutter.
LEMMA StoreStutter ==
  ASSUME \A t \in Threads : rpc'[t] = "idle" <=> rpc[t] = "idle",
         \A v \in 0..committed : hist'[v] = hist[v],
         UNCHANGED <<committed, snap, obs>>
  PROVE  UNCHANGED Store!vars
<1>1. Pins' = Pins /\ Db' = Db
  BY DEF Pins, Db, PinOf
<1> QED
  BY <1>1 DEF Store!vars, Pins, Db

\* publish_commit maps to Commit, on top of the version it is pinned to.
LEMMA StoreCommit ==
  ASSUME Inductive, NEW w \in Writers, CommitPublish(w)
  PROVE  Store!Next
<1>1. /\ wpc[w] = "appended" /\ rpc[w] = "open" /\ snap[w] = committed
      /\ cver[w] = committed + 1 /\ committed' = committed + 1
      /\ committed \in Nat /\ w \in Threads
  BY DEF Inductive, CommitPublish, SerialCommits, Counters, AtLeast, Threads,
         TypeOK, TypeMvcc, Versions
<1>2. /\ Pins' = Pins /\ Pins[w] = committed /\ hist' = hist /\ obs' = obs
  BY <1>1 DEF CommitPublish, readVars, Pins, PinOf
<1> DEFINE written == {p \in Pages : pending[w][p] # None}
<1>3. hist[committed + 1] = [p \in Pages |-> IF p \in written THEN txid[w] ELSE Db[committed][p]]
  <2>1. hist[committed + 1] = AfterCommit(w) /\ cver[w] - 1 = committed
    BY <1>1 DEF Inductive, Stamped
  <2>2. Db[committed] = hist[committed]
    BY <1>1 DEF Db
  <2>3. \A p \in written : pending[w][p] = txid[w]
    BY DEF Inductive, Stamped
  <2> QED
    BY <2>1, <2>2, <2>3 DEF AfterCommit
<1>4. Db' = [v \in 0..(committed + 1) |->
               IF v <= committed THEN Db[v]
               ELSE [p \in Pages |-> IF p \in written THEN txid[w] ELSE Db[committed][p]]]
  <2>1. Db' = [v \in 0..(committed + 1) |-> hist[v]]
    BY <1>1, <1>2 DEF Db
  <2>2. ASSUME NEW v \in 0..(committed + 1)
        PROVE  hist[v] = IF v <= committed THEN Db[v]
                         ELSE [p \in Pages |-> IF p \in written THEN txid[w] ELSE Db[committed][p]]
    <3>1. CASE v <= committed
      BY <1>1, <2>2, <3>1 DEF Db
    <3>2. CASE v = committed + 1
      BY <1>1, <1>3, <3>2
    <3> QED
      BY <1>1, <2>2, <3>1, <3>2
  <2> QED
    BY <2>1, <2>2
<1>5. txid[w] \in Images /\ written \in SUBSET Pages
  BY DEF Inductive, TypeOK, TypeTx
<1>6. Store!Commit(w)
  BY <1>1, <1>2, <1>4, <1>5 DEF Store!Commit, Pins, Db
<1> QED
  BY <1>1, <1>6 DEF Store!Next

\* Every step of the engine is a step of the store or a stutter.
LEMMA StoreStep ==
  ASSUME CheckpointAlone
  PROVE  Inductive /\ [Next]_vars => [Store!Next]_(Store!vars)
<1> SUFFICES ASSUME Inductive, [Next]_vars
             PROVE  Store!Next \/ UNCHANGED Store!vars
  OBVIOUS
<1>a. /\ rpc \in [Threads -> {"idle", "loaded", "open", "cache", "file", "fill"}]
      /\ rpage \in [Threads -> Pages]
  BY DEF Inductive, TypeOK, TypeReads
<1> USE DEF mvccVars, readVars, Threads
<1>1. ASSUME NEW r \in Readers, BeginReadLoad(r) PROVE Store!Next
  BY <1>1, <1>a, StoreBegin DEF BeginReadLoad
<1>2. ASSUME NEW r \in Readers, BeginReadRegister(r) PROVE UNCHANGED Store!vars
  BY <1>2, <1>a, StoreStutter DEF BeginReadRegister
<1>3. ASSUME NEW r \in Readers, EndRead(r) PROVE Store!Next
  BY <1>3, StoreEnd DEF EndRead
<1>4. ASSUME NEW t \in Threads, NEW p \in Pages, GetPage(t, p)
      PROVE  Store!Next \/ UNCHANGED Store!vars
  <2>1. CASE NoneVisible(index[p], snap[t]) /\ rpc' = [rpc EXCEPT ![t] = "cache"] /\ obs' = obs
    BY <1>4, <2>1, <1>a, StoreStutter DEF GetPage
  <2>2. ASSUME NEW i \in DOMAIN index[p], VisibleEntry(index[p], snap[t], i),
               Observe(t, p, index[p][i].data), rpc' = rpc
        PROVE  Store!Next
    <3>1. CanRead(t)
      BY <1>4 DEF GetPage, CanRead
    <3>2. Found(p, snap[t])
      BY <3>1, PinnedReadable DEF Inductive, VersionsFound
    <3>3. index[p][i].data = hist[snap[t]][p]
      BY <1>4, <2>2, <3>2 DEF Found, GetPage
    <3>4. rpc[t] = "open" /\ rpc' = [rpc EXCEPT ![t] = rpc'[t]]
      BY <1>4, <2>2, <1>a DEF GetPage
    <3> QED
      BY <1>4, <2>2, <3>3, <3>4, StoreRead DEF GetPage, Observe
  <2> QED
    BY <1>4, <2>1, <2>2 DEF GetPage
<1>5. ASSUME NEW t \in Threads, CacheHit(t) PROVE Store!Next
  <2>1. /\ Reading(t) /\ cache[rpage[t]] = file[rpage[t]] /\ rpage[t] \in Pages
        /\ file[rpage[t]] = hist[snap[t]][rpage[t]] /\ hist[snap[t]][rpage[t]] # None
    BY <1>5, <1>a, ReadPastLog DEF CacheHit, Reading, Inductive, CacheHolds
  <2> QED
    BY <1>5, <1>a, <2>1, StoreRead DEF CacheHit, Observe, Return
<1>6. ASSUME NEW t \in Threads, CacheMiss(t) \/ FileRead(t)
      PROVE  UNCHANGED Store!vars
  BY <1>6, <1>a, StoreStutter DEF CacheMiss, FileRead
<1>7. ASSUME NEW t \in Threads, FileReadFail(t) PROVE UNCHANGED Store!vars
  <2>1. obs' = obs
    BY <1>7, ReadPastLog DEF FileReadFail, Reading
  <2> QED
    BY <1>7, <2>1, <1>a, StoreStutter DEF FileReadFail, Return
<1>8. ASSUME NEW t \in Threads, CacheInsert(t) PROVE Store!Next
  <2>1. /\ Reading(t) /\ rbuf[t] = file[rpage[t]] /\ rpage[t] \in Pages
        /\ file[rpage[t]] = hist[snap[t]][rpage[t]] /\ hist[snap[t]][rpage[t]] # None
    BY <1>8, <1>a, ReadPastLog DEF CacheInsert, Reading, Inductive, ReadsHold
  <2> QED
    BY <1>8, <1>a, <2>1, StoreRead DEF CacheInsert, Observe, Return
<1>9. ASSUME NEW w \in Writers, BeginWrite(w) PROVE Store!Next
  <2>1. rpc[w] = "idle"
    BY <1>9 DEF BeginWrite, Inductive, Counters
  <2> QED
    BY <1>9, <1>a, <2>1, StoreBegin DEF BeginWrite
<1>10. ASSUME NEW w \in Writers, Rollback(w) \/ CommitFail(w) \/ CommitFinish(w)
       PROVE  Store!Next
  <2>1. rpc[w] = "open"
    BY <1>10 DEF Rollback, CommitFail, CommitFinish, InTx, Inductive, Counters
  <2> QED
    BY <1>10, <2>1, StoreEnd DEF Rollback, CommitFail, CommitFinish, Finish
<1>11. ASSUME NEW w \in Writers, CommitAppend(w) PROVE UNCHANGED Store!vars
  <2>1. \A v \in 0..committed : hist'[v] = hist[v]
    <3>1. /\ cver[w] = committed + 1 /\ committed \in Nat /\ committed \in Versions
          /\ hist \in [Versions -> [Pages -> ImageOrNone]]
      BY <1>11, TopAppend DEF Inductive, TypeOK, TypeMvcc, TypePages, Versions
    <3> QED
      BY <1>11, <3>1 DEF CommitAppend, Versions
  <2> QED
    BY <1>11, <2>1, StoreStutter DEF CommitAppend
<1>12. ASSUME NEW w \in Writers, CommitPublish(w) PROVE Store!Next
  BY <1>12, StoreCommit
<1>13. UNCHANGED <<rpc, hist, committed, snap, obs>> => UNCHANGED Store!vars
  BY StoreStutter
<1> QED
  BY <1>1, <1>2, <1>3, <1>4, <1>5, <1>6, <1>7, <1>8, <1>9, <1>10, <1>11, <1>12,
     <1>13
     DEF Next, vars, ReadStep, CommitStep, CkStep, WritePage, AllocPage,
         FreePage, CommitReserve, CommitInvalidate, CkOldest, CkLagging,
         CkPass, CkEmpty, CkLock, CkWritePage, CkWriteFail, CkInvalidate,
         CkFail, CkFinish

\* Under the callers' discipline StorageEngine implements the snapshot store:
\* what clients read and commit is a behaviour of SnapshotStore.
THEOREM StorageImplementsStore ==
  ASSUME CheckpointAlone PROVE Spec => ImplementsStore
BY StoreInit, StoreStep, AlwaysInductive, PTL
   DEF Spec, Store!Spec, ImplementsStore

=============================================================================
