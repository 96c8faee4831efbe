-------------------------------- MODULE AsyncApi --------------------------------
(***************************************************************************)
(* Tasks on the async interface of one database (squrust-async): a pool of *)
(* handles bounded by a semaphore, transactions that hold the write gate   *)
(* until they are committed or dropped, and migrations.  With one worker   *)
(* per task this is the blocking interface (squrust-sync), whose every     *)
(* call drives its future on the calling thread.                           *)
(*                                                                         *)
(* A task gives its worker up only where a future is pending: waiting for  *)
(* a handle, or for something of the application's in the middle of a      *)
(* transaction.  WriteGate::acquire is no such place: it blocks the thread. *)
(***************************************************************************)
EXTENDS Host

CONSTANTS
    Tasks,
    MaxWorkers,     \* threads of the runtime
    MaxSize,        \* handles of the pool
    MaxCalls,       \* calls that may wait, of all tasks together
    Versions,       \* of the migrations
    MaxEffects      \* times one migration takes effect, in a behaviour

ASSUME AsyncAssumption ==
    /\ MaxWorkers \in Nat \ {0} /\ MaxSize \in Nat \ {0}
    /\ MaxCalls \in Nat /\ MaxEffects \in Nat
    /\ Versions \subseteq Nat \ {0}

VARIABLES
    workers,    \* of the runtime: a current_thread one has one
    task,       \* task -> [at, tx, applied]
    calls,      \* made so far
    permits,    \* of the semaphore that nobody holds
    queue,      \* the tasks that wait for one, in turn
    closed,     \* pool.close() was called
    book,       \* [table, recorded, effects]: the bookkeeping of the migrations
    disturbed   \* ghost: a run of the migrations was cut short, or two overlapped

aVars == <<workers, task, calls, permits, queue, closed, book, disturbed>>

Idle == [at |-> "idle", tx |-> {}, applied |-> {}]
Is(t, place) == task[t].at = place
OnWorker == {t \in Tasks : task[t].at \notin {"idle", "get", "granted", "away"}}
WorkerFree == Cardinality(OnWorker) < workers
Go(t, place) == [task EXCEPT ![t].at = place]
Calls(t, place) == calls < MaxCalls /\ calls' = calls + 1 /\ task' = Go(t, place)
Migrating == {t \in Tasks : task[t].at \in {"migrate", "read"}}

AInit ==
    /\ workers \in 1..MaxWorkers
    /\ task = [t \in Tasks |-> Idle] /\ calls = 0
    /\ permits = MaxSize /\ queue = <<>> /\ closed = FALSE
    /\ book = [table |-> FALSE, recorded |-> {}, effects |-> [v \in Versions |-> 0]]
    /\ disturbed = FALSE

-----------------------------------------------------------------------------
(* The pool. *)

\* pool.get(): acquire_owned queues the task; a closed pool refuses it.
Get(t) ==
    /\ Is(t, "idle") /\ WorkerFree /\ ~closed
    /\ Calls(t, "get")
    /\ queue' = Append(queue, t)
    /\ UNCHANGED <<hostVars, permits, closed, book, disturbed>>

\* The semaphore is fair: a permit goes to the first in turn, who holds it
\* from then on, also before it runs again.
Grant ==
    /\ permits > 0 /\ queue # <<>> /\ ~closed
    /\ permits' = permits - 1
    /\ task' = Go(Head(queue), "granted")
    /\ queue' = Tail(queue)
    /\ UNCHANGED <<hostVars, calls, closed, book, disturbed>>

Resume(t) ==
    /\ Is(t, "granted") /\ WorkerFree
    /\ task' = Go(t, "have")
    /\ UNCHANGED <<hostVars, calls, permits, queue, closed, book, disturbed>>

\* The future of pool.get() is dropped: a timeout, or a select.
CancelGet(t) ==
    /\ WorkerFree
    /\ \/ /\ Is(t, "granted")
          /\ permits' = permits + 1 /\ UNCHANGED queue
       \/ \E i \in 1..Len(queue) :
             /\ queue[i] = t
             /\ queue' = RemoveAt(queue, i) /\ UNCHANGED permits
    /\ task' = Go(t, "idle")
    /\ UNCHANGED <<hostVars, calls, closed, book, disturbed>>

\* PooledConnection is dropped.
Release(t) ==
    /\ Is(t, "have")
    /\ permits' = permits + 1
    /\ task' = Go(t, "idle")
    /\ UNCHANGED <<hostVars, calls, queue, closed, book, disturbed>>

\* pool.close(): who waits gets PoolClosed, also who has a permit it has not
\* taken up; handles that are out stay good.
ClosePool ==
    LET refused == {t \in Tasks : task[t].at \in {"get", "granted"}} IN
    /\ ~closed /\ closed' = TRUE
    /\ task' = [t \in Tasks |-> IF t \in refused THEN [task[t] EXCEPT !.at = "idle"] ELSE task[t]]
    /\ queue' = <<>>
    /\ permits' = permits + Cardinality({t \in Tasks : Is(t, "granted")})
    /\ UNCHANGED <<hostVars, calls, book, disturbed>>

-----------------------------------------------------------------------------
(* Writes and transactions. *)

\* conn.begin(), conn.execute() and run_migrations(): they wait for the gate first.
Want(t, place) ==
    /\ Is(t, "have") /\ place \in {"begin", "write", "start"}
    /\ Calls(t, place)
    /\ UNCHANGED <<hostVars, permits, queue, closed, book, disturbed>>

\* execute: begin_write, the statement and commit without an await in between.
Write(t, key) ==
    /\ Is(t, "write") /\ gate = Free
    /\ db' = Autocommit("INSERT", <<key>>, db).content
    /\ task' = Go(t, "have")
    /\ UNCHANGED <<calls, gate, faults, permits, queue, closed, book, disturbed>>

Begin(t) ==
    /\ Is(t, "begin") /\ gate = Free
    /\ gate' = t
    /\ task' = [Go(t, "tx") EXCEPT ![t].tx = db]
    /\ UNCHANGED <<calls, db, faults, permits, queue, closed, book, disturbed>>

\* Transaction::execute of two rows; those before a conflict stay.
Execute(t, first, second) ==
    /\ Is(t, "tx")
    /\ task' = [task EXCEPT ![t].tx = ApplyDml("INSERT", <<first, second>>, @).content]
    /\ UNCHANGED <<hostVars, calls, permits, queue, closed, book, disturbed>>

\* The application awaits something in the middle of its transaction.
Suspend(t) ==
    /\ Is(t, "tx")
    /\ Calls(t, "away")
    /\ UNCHANGED <<hostVars, permits, queue, closed, book, disturbed>>
Wake(t) ==
    /\ Is(t, "away") /\ WorkerFree
    /\ task' = Go(t, "tx")
    /\ UNCHANGED <<hostVars, calls, permits, queue, closed, book, disturbed>>

Ended(t) == [Go(t, "have") EXCEPT ![t].tx = {}]
\* commit consumes the transaction; when it fails, the drop releases the gate.
Commit(t) ==
    /\ Is(t, "tx")
    /\ \/ db' = task[t].tx /\ UNCHANGED faults
       \/ faults < MaxFaults /\ faults' = faults + 1 /\ UNCHANGED db
    /\ gate' = Free
    /\ task' = Ended(t)
    /\ UNCHANGED <<calls, permits, queue, closed, book, disturbed>>

\* rollback(), or the drop of a transaction that is not done: both release the
\* gate; ForgetsGate is the drop that leaves it to a rollback() nobody called.
ForgetsGate(t) ==
    /\ Is(t, "tx")
    /\ task' = Ended(t)
    /\ UNCHANGED <<hostVars, calls, permits, queue, closed, book, disturbed>>
Rollback(t) ==
    /\ Is(t, "tx")
    /\ gate' = Free
    /\ task' = Ended(t)
    /\ UNCHANGED <<calls, db, faults, permits, queue, closed, book, disturbed>>

\* The future of a task that is away is dropped with all it holds: the
\* transaction rolls back and the handle returns to the pool.
Drop(t) ==
    /\ Is(t, "away") /\ WorkerFree
    /\ gate' = Free /\ permits' = permits + 1
    /\ task' = [Ended(t) EXCEPT ![t].at = "idle"]
    /\ UNCHANGED <<calls, db, faults, queue, closed, book, disturbed>>

-----------------------------------------------------------------------------
(* run_migrations. *)

\* CREATE TABLE IF NOT EXISTS of the bookkeeping.
StartMigrating(t) ==
    /\ Is(t, "start") /\ gate = Free
    /\ book' = [book EXCEPT !.table = TRUE]
    /\ disturbed' = (disturbed \/ Migrating # {})
    /\ task' = Go(t, "read")
    /\ UNCHANGED <<hostVars, calls, permits, queue, closed>>

ReadApplied(t) ==
    /\ Is(t, "read")
    /\ task' = [Go(t, "migrate") EXCEPT ![t].applied = book.recorded]
    /\ UNCHANGED <<hostVars, calls, permits, queue, closed, book, disturbed>>

\* The versions in order; those that were there when the list was read are
\* skipped.  applied also keeps the ones this run has done, a minus sign marks
\* the one it has run and not yet recorded.
Pending(t) == {v \in Versions : v \notin task[t].applied}
\* (LastVersion: the list as if sorted the other way.)
LastVersion(t) == CHOOSE v \in Pending(t) : \A u \in Pending(t) : v >= u
NextVersion(t) == CHOOSE v \in Pending(t) : \A u \in Pending(t) : v <= u
Halfway(t, v) == -v \in task[t].applied

\* m.sql fails or takes effect; the run ends with the first failure.
RunMigration(t) ==
    /\ Is(t, "migrate") /\ gate = Free /\ Pending(t) # {}
    /\ LET v == NextVersion(t) IN
       /\ ~Halfway(t, v)
       /\ \/ /\ book.effects[v] < MaxEffects
             /\ book' = [book EXCEPT !.effects[v] = @ + 1]
             /\ task' = [task EXCEPT ![t].applied = @ \cup {-v}]
             /\ UNCHANGED <<faults, disturbed>>
          \/ /\ faults < MaxFaults \/ book.effects[v] > 0
             /\ faults' = IF book.effects[v] > 0 THEN faults ELSE faults + 1
             /\ task' = [Go(t, "have") EXCEPT ![t].applied = {}]
             /\ UNCHANGED <<book, disturbed>>
    /\ UNCHANGED <<calls, db, gate, permits, queue, closed>>

\* INSERT of the version; its PRIMARY KEY refuses one that is there.
RecordMigration(t) ==
    /\ Is(t, "migrate") /\ gate = Free /\ Pending(t) # {}
    /\ LET v == NextVersion(t) IN
       /\ Halfway(t, v)
       /\ \/ /\ v \notin book.recorded
             /\ book' = [book EXCEPT !.recorded = @ \cup {v}]
             /\ task' = [task EXCEPT ![t].applied = (@ \ {-v}) \cup {v}]
             /\ UNCHANGED <<faults, disturbed>>
          \/ /\ faults < MaxFaults \/ v \in book.recorded
             /\ faults' = IF v \in book.recorded THEN faults ELSE faults + 1
             /\ task' = [Go(t, "have") EXCEPT ![t].applied = {}]
             /\ disturbed' = TRUE
             /\ UNCHANGED book
    /\ UNCHANGED <<calls, db, gate, permits, queue, closed>>

EndMigrating(t) ==
    /\ Is(t, "migrate") /\ Pending(t) = {}
    /\ task' = [Go(t, "have") EXCEPT ![t].applied = {}]
    /\ UNCHANGED <<hostVars, calls, permits, queue, closed, book, disturbed>>

-----------------------------------------------------------------------------
\* The process ends at any point; what is committed is there for the next one.
Restart ==
    /\ faults < MaxFaults /\ faults' = faults + 1
    /\ \E t \in Tasks : ~Is(t, "idle")
    /\ gate' = Free /\ permits' = MaxSize /\ queue' = <<>> /\ closed' = FALSE
    /\ task' = [t \in Tasks |-> [task[t] EXCEPT !.at = "idle", !.tx = {}, !.applied = {}]]
    /\ disturbed' = (disturbed \/ Migrating # {})
    /\ UNCHANGED <<calls, db, book>>

\* What a task does once it has a handle is the application's choice; that it
\* goes on until it has given the handle back is what fairness says of it.
Uses(t) ==
    \/ \E place \in {"begin", "write", "start"} : Want(t, place)
    \/ \E first, second \in Rows : Execute(t, first, second)
    \/ Suspend(t)
GetsOn(t) ==
    \/ Resume(t) \/ Release(t) \/ Begin(t) \/ (\E key \in Rows : Write(t, key))
    \/ Wake(t) \/ Commit(t) \/ Rollback(t)
    \/ StartMigrating(t) \/ ReadApplied(t) \/ RunMigration(t) \/ RecordMigration(t) \/ EndMigrating(t)

ANext ==
    /\ UNCHANGED workers
    /\ \/ Grant \/ ClosePool \/ Restart
       \/ \E t \in Tasks : Get(t) \/ CancelGet(t) \/ Drop(t) \/ Uses(t) \/ GetsOn(t)

-----------------------------------------------------------------------------
(* Properties. *)

\* A version is recorded only once its migration has taken effect, no migration
\* takes effect before all the smaller versions are recorded, and none twice
\* unless a run was cut short or two overlapped (migrate.rs run_migrations).
MigrationsInOrder ==
    \A v \in Versions :
        /\ v \in book.recorded => book.effects[v] > 0
        /\ book.effects[v] > 0 => \A u \in Versions : u < v => u \in book.recorded
        /\ ~disturbed => book.effects[v] <= 1

\* A call that has not returned yet, and why none of the tasks can make it return:
\* every worker blocks in WriteGate::acquire while the holder of the gate needs
\* one to run on.
Blocked(t) ==
    task[t].at \in {"begin", "write", "start"} \/ (Is(t, "migrate") /\ Pending(t) # {})
Waiting(t) == task[t].at \in {"get", "granted"} \/ Blocked(t)
Starved ==
    /\ ~WorkerFree /\ \A u \in OnWorker : Blocked(u)
    /\ \E t \in Tasks : gate = t /\ Is(t, "away")
=============================================================================
