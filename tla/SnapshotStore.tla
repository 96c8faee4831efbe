---------------------------- MODULE SnapshotStore ----------------------------
(***************************************************************************)
(* What the storage engine promises, with no log, cache or checkpoint: a   *)
(* growing history of database versions, transactions pinned to one, reads *)
(* that return exactly that version, and commits only on top of the version*)
(* the committing transaction is pinned to.                                *)
(***************************************************************************)
EXTENDS Naturals

CONSTANTS Threads, Pages, Images, None, Initial

VARIABLES
  db,    \* db[v]: the database as of commit v
  top,   \* the newest commit
  pin,   \* the version a thread's transaction is pinned to, or None
  seen   \* the last page it read, as a set of at most one <<page, image>>

vars == <<db, top, pin, seen>>

Init ==
  /\ top = 0
  /\ db = [v \in {0} |-> Initial]
  /\ pin = [t \in Threads |-> None]
  /\ seen = [t \in Threads |-> {}]

Begin(t) ==
  /\ pin[t] = None
  /\ pin' = [pin EXCEPT ![t] = top]
  /\ UNCHANGED <<db, top, seen>>

Read(t, p) ==
  /\ pin[t] # None
  /\ db[pin[t]][p] # None
  /\ seen' = [seen EXCEPT ![t] = {<<p, db[pin[t]][p]>>}]
  /\ UNCHANGED <<db, top, pin>>

\* No update is lost: nothing was committed since the transaction began.
Commit(t) ==
  /\ pin[t] = top
  /\ top' = top + 1
  /\ \E image \in Images : \E written \in SUBSET Pages :
       db' = [v \in 0..(top + 1) |->
                IF v <= top THEN db[v]
                ELSE [p \in Pages |-> IF p \in written THEN image
                                      ELSE db[top][p]]]
  /\ UNCHANGED <<pin, seen>>

End(t) ==
  /\ pin[t] # None
  /\ pin' = [pin EXCEPT ![t] = None]
  /\ seen' = [seen EXCEPT ![t] = {}]
  /\ UNCHANGED <<db, top>>

Next ==
  \E t \in Threads : \/ Begin(t) \/ Commit(t) \/ End(t)
                     \/ \E p \in Pages : Read(t, p)

Spec == Init /\ [][Next]_vars
=============================================================================
