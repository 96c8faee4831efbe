----------------------------- MODULE DurableStore -----------------------------
(***************************************************************************)
(* What a database on disk promises: one commit at a time takes effect as  *)
(* a whole when it is answered, nothing else changes what is read, and     *)
(* after a crash the database is the one that was answered last, with all  *)
(* or nothing of one commit that got no answer.  Once a commit has failed  *)
(* with an I/O error the promise about crashes is gone, but for one thing: *)
(* every page is whole, the one that some transaction wrote.               *)
(***************************************************************************)
EXTENDS Naturals

CONSTANTS Pages, MaxTx

VARIABLES
    contents,   \* page -> the transaction that wrote it
    up,         \* whether there is a process
    commit,     \* the transaction it is committing, if any
    pending,    \* those a crash may leave, or not
    begun,      \* transactions so far
    failed      \* whether a commit has failed

vars == <<contents, up, commit, pending, begun, failed>>

Contents == [Pages -> 0..MaxTx]

\* Transaction 0 writes no page: it patches a header.
Apply(c, t) == [p \in Pages |-> IF p \in t.pages /\ t.id # 0 THEN t.id ELSE c[p]]

Init ==
    /\ contents = [p \in Pages |-> 0]
    /\ up = TRUE
    /\ commit = {} /\ pending = {}
    /\ begun = 0
    /\ failed = FALSE

Begin ==
    /\ up /\ commit = {}
    /\ \E id \in {0, begun + 1}, T \in SUBSET Pages :
          /\ commit' = {[id |-> id, pages |-> T]}
          /\ pending' = pending \cup commit'
    /\ begun' = begun + 1
    /\ UNCHANGED <<contents, up, failed>>

Answer ==
    /\ up
    /\ \E t \in commit : contents' = Apply(contents, t)
    /\ commit' = {} /\ pending' = {}
    /\ UNCHANGED <<up, begun, failed>>

Fail ==
    /\ up /\ commit # {}
    /\ commit' = {}
    /\ failed' = TRUE
    /\ UNCHANGED <<contents, up, pending, begun>>

\* What a crash does after a commit has failed.
Lost == failed /\ contents' \in Contents

Crash ==
    /\ up
    /\ up' = FALSE
    /\ commit' = {}
    /\ UNCHANGED contents \/ Lost
    /\ UNCHANGED <<pending, begun, failed>>

Recover ==
    /\ ~up
    /\ up' = TRUE
    /\ \/ UNCHANGED contents
       \/ \E t \in pending : contents' = Apply(contents, t)
       \/ Lost
    /\ pending' = {}
    /\ UNCHANGED <<commit, begun, failed>>

Next == Begin \/ Answer \/ Fail \/ Crash \/ Recover

Spec == Init /\ [][Next]_vars
===============================================================================
