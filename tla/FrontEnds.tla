-------------------------------- MODULE FrontEnds --------------------------------
(***************************************************************************)
(* A process drives the database through one of the two interfaces: the    *)
(* C one of squrust-ffi, or the async one of squrust-async (the sync one   *)
(* is the async one with a worker for every task).                         *)
(***************************************************************************)
EXTENDS CApi, AsyncApi

VARIABLE front      \* "c" or "async", the library the process was built on

vars == <<hostVars, cVars, aVars, front>>

Init == HostInit /\ CInit /\ AInit /\ front \in {"c", "async"}

Next ==
    \/ front = "c" /\ CNext /\ UNCHANGED <<aVars, front>>
    \/ front = "async" /\ ANext /\ UNCHANGED <<cVars, front>>

\* Tokio runs a task that is ready, hands permits out, and the application goes
\* on with what it has begun.  That the gate goes to a certain waiter is not
\* promised (a Condvar wakes any), nor needed while calls are bounded.
Fairness ==
    /\ WF_vars(Grant /\ UNCHANGED <<cVars, workers, front>>)
    /\ \A t \in Tasks :
          WF_vars(GetsOn(t) /\ UNCHANGED <<cVars, workers, front>>)

Spec == Init /\ [][Next]_vars /\ Fairness

\* Every call that waits, for a handle of the pool or for the write gate,
\* returns, unless all workers are blocked on a gate whose holder waits for a
\* worker (pool.rs get, transaction.rs new and drop, WriteGate::acquire).
WaitersAreServed == \A t \in Tasks : Waiting(t) ~> (~Waiting(t) \/ Starved)
=============================================================================
