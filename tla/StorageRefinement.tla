-------------------------- MODULE StorageRefinement --------------------------
(***************************************************************************)
(* Storage implements SnapshotStore: a commit takes effect when it is      *)
(* published, a read transaction begins when it loads the committed        *)
(* version, a write transaction when it holds the gate.                    *)
(***************************************************************************)
EXTENDS Storage

PinOf(t) == IF rpc[t] = "idle" THEN None ELSE snap[t]

Store == INSTANCE SnapshotStore WITH
  Initial <- FreshFile,
  top     <- committed,
  db      <- [v \in 0..committed |-> hist[v]],
  pin     <- [t \in Threads |-> PinOf(t)],
  seen    <- obs

\* Under the callers' discipline, everything a client can see of the engine
\* (what its reads return, what its commits build on) is a behaviour of the
\* snapshot store.
ImplementsStore == Store!Spec
=============================================================================
