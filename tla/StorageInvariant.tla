--------------------------- MODULE StorageInvariant ---------------------------
(***************************************************************************)
(* The inductive invariant behind the properties of Storage, in parts.     *)
(* The parts under CheckpointAlone are what the callers' discipline buys.  *)
(***************************************************************************)
EXTENDS StorageRefinement

Unpublished(w) == wpc[w] \in {"tx", "reserved", "appended"}
Reading(t) == rpc[t] \in {"cache", "file", "fill"}
Registered(r, v) == rpc[r] \notin {"idle", "loaded"} /\ snap[r] = v

\* t may still read pages.
CanRead(t) == rpc[t] # "idle" /\ (t \in Writers => wpc[t] # "published")

\* Versions never run ahead of the transaction ids.
IdsAhead ==
  /\ committed <= txIds
  /\ \A w \in Writers : Unpublished(w) => committed < txIds

\* The two program counters of a writer agree; an idle thread has read nothing.
Counters ==
  /\ \A w \in Writers :
       /\ rpc[w] # "loaded"
       /\ wpc[w] = "none" <=> rpc[w] = "idle"
       /\ wpc[w] \notin {"none", "tx"} => rpc[w] = "open"
  /\ \A t \in Threads :
       /\ snap[t] <= committed
       /\ rpc[t] \in {"idle", "loaded"} => obs[t] = {}
       /\ Reading(t) => hist[snap[t]][rpage[t]] # None
       /\ \A o \in obs[t] : hist[snap[t]][o[1]] # None

\* What a checkpoint still has to fold is in the index, what it has folded is
\* in the file.
FoldProgress ==
  /\ cpc # "folding" => ctodo = {} /\ cpage = None
  /\ cpage # None => cpage \in ctodo
  /\ ctodo \subseteq Indexed
  /\ cpc = "folding" =>
       \A p \in Pages : index[p] # <<>> /\ (p \notin ctodo \/ p = cpage) =>
         file[p] = index[p][Len(index[p])].data

\* The list of a page ascends, up to the newest version.
LogAscends ==
  \A p \in Pages :
    /\ \A i \in DOMAIN index[p] : index[p][i].ver <= Top
    /\ \A i, j \in DOMAIN index[p] : i < j => index[p][i].ver < index[p][j].ver

\* The newest version can be read, and under CheckpointAlone every version
\* from floor on.
Readable(v) == v = Top \/ (CheckpointAlone /\ floor <= v /\ v <= Top)

Found(p, v) ==
  hist[v][p] # None =>
    /\ \A i \in DOMAIN index[p] :
         VisibleEntry(index[p], v, i) => index[p][i].data = hist[v][p]
    /\ NoneVisible(index[p], v) => file[p] = hist[v][p]

VersionsFound == \A p \in Pages, v \in Versions : Readable(v) => Found(p, v)

\* No reader needs a version below floor, and a fold finds floor = committed.
FloorHolds == CheckpointAlone =>
  /\ floor <= committed
  /\ \A t \in Threads : CanRead(t) => floor <= snap[t]
  /\ cpc # "idle" => \A w \in Writers : wpc[w] \notin {"reserved", "appended"}
  /\ cpc = "checking" /\ oldest >= committed =>
       \A t \in Threads : CanRead(t) => committed <= snap[t]
  /\ cpc \in {"passed", "folding"} => floor = committed

Covered(p) == \E i \in DOMAIN index[p] : index[p][i].ver <= floor

\* A cached page is the one in the file unless the log hides it from all.
CacheHolds == CheckpointAlone =>
  \A p \in Pages : cache[p] # None =>
    /\ Covered(p) \/ cache[p] = file[p]
    /\ cpc = "folding" /\ p \notin ctodo => cache[p] = file[p]

\* A read past the log found nothing there, and still would.
ReadsHold == CheckpointAlone =>
  \A t \in Threads : Reading(t) =>
    /\ CanRead(t)
    /\ NoneVisible(index[rpage[t]], snap[t])
    /\ rpc[t] = "fill" => rbuf[t] = file[rpage[t]]

Isolation == CheckpointAlone => SnapshotIsolation

\* A transaction's pages carry its own image; what it appended is what its
\* commit will publish.
Stamped == \A w \in Writers :
  /\ \A p \in Pages : pending[w][p] \in {None, txid[w]}
  /\ wpc[w] = "none" => pending[w] = NoPages
  /\ wpc[w] = "appended" => hist[cver[w]] = AfterCommit(w)

\* f lists distinct pages of a file of n pages, none of them page 1.
Free(f, n) ==
  /\ \A i \in DOMAIN f : f[i] \in 2..n
  /\ \A i, j \in DOMAIN f : f[i] = f[j] => i = j

\* Version v fits in a file of n pages.
Fits(v, n) == \A p \in Pages : hist[v][p] # None => p <= n

\* The engine's page count covers the committed version, or what the
\* transaction that has just published it will hand back does; a transaction
\* allocates from its own counts, which start at the engine's.
Allocation ==
  /\ Free(freelist, pageCount)
  /\ (\A w \in Writers : wpc[w] # "published") => Fits(committed, pageCount)
  /\ \A w \in Writers : wpc[w] # "none" =>
       /\ pageCount <= localPageCount[w]
       /\ Free(localFreelist[w], localPageCount[w])
       /\ \A p \in Pages : pending[w][p] # None => p <= localPageCount[w]
       /\ wpc[w] = "published" => Fits(committed, localPageCount[w])

\* The inductive invariant: everything SnapshotIsolation, NewestSurvives,
\* CacheIsClean and AllocationSafe rest on, for the log, the cache, the file,
\* the threads and the counts.
Inductive ==
  /\ TypeOK /\ SerialCommits /\ IdsAhead /\ Counters /\ RefcountExact
  /\ FoldProgress /\ LogAscends /\ VersionsFound
  /\ FloorHolds /\ CacheHolds /\ ReadsHold /\ Isolation /\ Stamped
  /\ Allocation
=============================================================================
