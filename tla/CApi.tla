---------------------------------- MODULE CApi ----------------------------------
(***************************************************************************)
(* The sqlite3 C interface over one connection (squrust-ffi): prepared     *)
(* statements that are stepped, reset and rebound in any order, BEGIN and  *)
(* COMMIT as statements, and sqlite3_exec.  The host calls from one thread; *)
(* a call that waits for a gate its own connection holds never returns.    *)
(*                                                                         *)
(* Statement texts are [kw, keys]; keys is <<>> where the key is a          *)
(* parameter.  rows, cursor and current count from zero as in StmtState.   *)
(***************************************************************************)
EXTENDS Host

CONSTANTS
    Handles,    \* sqlite3_stmt pointers
    Texts       \* statement texts the host prepares

ASSUME TextsAssumption == \A text \in Texts : text.keys \in Seq(Rows)

VARIABLES
    conn,       \* [open, tx]: tx is <<>> or <<content of the write transaction>>
    stmts,      \* handle -> StmtState, or NoStmt
    hung,       \* a call does not return
    told,       \* ghost: the rows the host believes in, from return codes alone
    saved,      \* ghost: those it believed in at BEGIN
    seen        \* ghost: handle -> [source, got], what a run may read and what it gave

cVars == <<conn, stmts, hung, told, saved, seen>>

NoStmt == [state |-> "none"]
NewStmt(text) ==
    [state |-> "live", text |-> text, params |-> <<>>, executed |-> FALSE,
     is_query |-> FALSE, rows |-> <<>>, cursor |-> 0, current |-> <<>>, busy |-> FALSE]
NotRun == [source |-> <<>>, got |-> <<>>]
Live(h) == stmts[h].state = "live"

CInit ==
    /\ conn = [open |-> FALSE, tx |-> <<>>]
    /\ stmts = [h \in Handles |-> NoStmt] /\ hung = FALSE
    /\ told = db /\ saved = {} /\ seen = [h \in Handles |-> NotRun]

-----------------------------------------------------------------------------
(* Handles. *)

\* sqlite3_open: a new engine loads what is committed.
Open ==
    /\ ~conn.open
    /\ conn' = [open |-> TRUE, tx |-> <<>>] /\ told' = db
    /\ UNCHANGED <<hostVars, stmts, hung, saved, seen>>

\* sqlite3_close: the host has finalized its statements; an open transaction is
\* dropped with the connection.
Close ==
    /\ conn.open /\ \A h \in Handles : ~Live(h)
    /\ conn' = [open |-> FALSE, tx |-> <<>>]
    /\ gate' = Free
    /\ UNCHANGED <<db, faults, stmts, hung, told, saved, seen>>

Prepare(h, text) ==
    /\ conn.open /\ ~Live(h)
    /\ stmts' = [stmts EXCEPT ![h] = NewStmt(text)]
    /\ seen' = [seen EXCEPT ![h] = NotRun]
    /\ UNCHANGED <<hostVars, conn, hung, told, saved>>

Finalize(h) ==
    /\ Live(h)
    /\ stmts' = [stmts EXCEPT ![h] = NoStmt]
    /\ seen' = [seen EXCEPT ![h] = NotRun]
    /\ UNCHANGED <<hostVars, conn, hung, told, saved>>

\* Bindings may change while the statement stands on a row.
Bind(h, key) ==
    /\ Live(h) /\ stmts[h].text.keys = <<>> /\ stmts[h].params # <<key>>
    /\ stmts' = [stmts EXCEPT ![h].params = <<key>>]
    /\ UNCHANGED <<hostVars, conn, hung, told, saved, seen>>

ClearBindings(h) ==
    /\ Live(h) /\ stmts[h].params # <<>>
    /\ stmts' = [stmts EXCEPT ![h].params = <<>>]
    /\ UNCHANGED <<hostVars, conn, hung, told, saved, seen>>

\* (A reset that does not rewind.)
KeepsCursor(s) == [s EXCEPT !.executed = FALSE, !.is_query = FALSE, !.busy = FALSE]
\* The bindings outlive a reset.
Rewound(s) == [s EXCEPT !.executed = FALSE, !.is_query = FALSE, !.rows = <<>>,
                        !.cursor = 0, !.current = <<>>, !.busy = FALSE]
Reset(h) ==
    /\ Live(h) /\ stmts[h].executed
    /\ stmts' = [stmts EXCEPT ![h] = Rewound(@)]
    /\ seen' = [seen EXCEPT ![h] = NotRun]
    /\ UNCHANGED <<hostVars, conn, hung, told, saved>>

-----------------------------------------------------------------------------
(* sqlite3_step. *)

\* The next row of a statement that has been run, or the end.
Advanced(s) ==
    IF s.is_query /\ s.cursor < Len(s.rows)
    THEN [s EXCEPT !.current = <<s.cursor>>, !.cursor = @ + 1, !.busy = TRUE]
    ELSE [s EXCEPT !.busy = FALSE]
value_at(s) == s.rows[s.current[1] + 1]
Given(s, got) == IF Advanced(s).busy THEN Append(got, value_at(Advanced(s))) ELSE got

\* Steps after the first do not run the statement.
StepOn(h) ==
    /\ Live(h) /\ stmts[h].executed
    /\ stmts' = [stmts EXCEPT ![h] = Advanced(@)]
    /\ seen' = [seen EXCEPT ![h].got = Given(stmts[h], @)]
    /\ UNCHANGED <<hostVars, conn, hung, told, saved>>

\* A first step runs the statement and leaves it executed, also when it fails.
Runs(h, kws) == Live(h) /\ ~stmts[h].executed /\ stmts[h].text.kw \in kws
Ran(h) == stmts' = [stmts EXCEPT ![h].executed = TRUE, ![h].is_query = FALSE]

RunBegin(h) ==
    /\ Runs(h, {"BEGIN"}) /\ Ran(h)
    /\ IF conn.tx # <<>> THEN UNCHANGED <<conn, gate, saved>>
       ELSE /\ gate = Free /\ gate' = "conn"
            /\ conn' = [conn EXCEPT !.tx = <<db>>]
            /\ saved' = told
    /\ UNCHANGED <<db, faults, hung, told, seen>>

\* (A commit that keeps the transaction on the connection when it fails.)
OverOnlyIfCommitted(h) ==
    /\ Runs(h, {"COMMIT"}) /\ Ran(h)
    /\ IF conn.tx = <<>> THEN UNCHANGED <<hostVars, conn, told>>
       ELSE \/ /\ db' = conn.tx[1] /\ gate' = Free /\ conn' = [conn EXCEPT !.tx = <<>>]
               /\ UNCHANGED <<faults, told>>
            \/ /\ faults < MaxFaults /\ faults' = faults + 1 /\ told' = saved
               /\ UNCHANGED <<db, gate, conn>>
    /\ UNCHANGED <<hung, saved, seen>>
\* The transaction is taken off the connection before it is committed: it is
\* over whether or not the commit fails.
RunCommit(h) ==
    /\ Runs(h, {"COMMIT"}) /\ Ran(h)
    /\ conn' = [conn EXCEPT !.tx = <<>>]
    /\ IF conn.tx = <<>> THEN UNCHANGED <<hostVars, told>>
       ELSE /\ gate' = Free
            /\ \/ db' = conn.tx[1] /\ UNCHANGED <<faults, told>>
               \/ faults < MaxFaults /\ faults' = faults + 1 /\ told' = saved /\ UNCHANGED db
    /\ UNCHANGED <<hung, saved, seen>>

RunRollback(h) ==
    /\ Runs(h, {"ROLLBACK"}) /\ Ran(h)
    /\ conn' = [conn EXCEPT !.tx = <<>>]
    /\ IF conn.tx = <<>> THEN UNCHANGED <<gate, told>> ELSE gate' = Free /\ told' = saved
    /\ UNCHANGED <<db, faults, hung, saved, seen>>

\* A query reads the open transaction, or what is committed; all of its rows
\* are fetched before the first is returned.
ReadSource == IF conn.tx = <<>> THEN db ELSE conn.tx[1]
RunQuery(h) ==
    /\ Runs(h, {"SELECT"})
    /\ LET s == [stmts[h] EXCEPT !.executed = TRUE, !.is_query = TRUE,
                                 !.rows = SelectAll(ReadSource)]
       IN  /\ stmts' = [stmts EXCEPT ![h] = Advanced(s)]
           /\ seen' = [seen EXCEPT ![h] = [source |-> <<told>>, got |-> Given(s, <<>>)]]
    /\ UNCHANGED <<hostVars, conn, hung, told, saved>>

\* Inside BEGIN, DML goes to its transaction: what a statement that fails has
\* done by then stays there, for the host to roll back or commit.  A parameter
\* that is not bound fails the statement.
Keys(s) == IF s.text.keys = <<>> THEN s.params ELSE s.text.keys
RunDml(h) ==
    /\ Runs(h, {"INSERT", "DELETE"}) /\ Ran(h)
    /\ LET kw == stmts[h].text.kw
           keys == Keys(stmts[h])
           r == ApplyDml(kw, keys, conn.tx[1])
           a == Autocommit(kw, keys, db)
       IN  IF keys = <<>> THEN UNCHANGED <<hostVars, conn, told>>
           ELSE IF conn.tx # <<>>
           THEN /\ conn' = [conn EXCEPT !.tx = <<r.content>>]
                /\ told' = ApplyDml(kw, keys, told).content
                /\ UNCHANGED hostVars
           ELSE /\ gate = Free
                /\ db' = a.content
                /\ told' = IF a.ok THEN ApplyDml(kw, keys, told).content ELSE told
                /\ UNCHANGED <<gate, faults, conn>>
    /\ UNCHANGED <<hung, saved, seen>>

\* Every other statement (REPLACE, CREATE, ALTER, DROP) opens a transaction of
\* its own, for which one that the connection has open is in the way for good.
RunOther(h) ==
    /\ Runs(h, {"REPLACE"}) /\ Keys(stmts[h]) # <<>>
    /\ IF conn.tx # <<>> THEN hung' = TRUE /\ UNCHANGED <<stmts, db, told>>
       ELSE /\ Ran(h) /\ gate = Free
            /\ db' = db \cup ToSet(Keys(stmts[h]))
            /\ told' = told \cup ToSet(Keys(stmts[h]))
            /\ UNCHANGED hung
    /\ UNCHANGED <<gate, faults, conn, saved, seen>>

Step(h) ==
    \/ StepOn(h) \/ RunBegin(h) \/ RunCommit(h) \/ RunRollback(h)
    \/ RunQuery(h) \/ RunDml(h) \/ RunOther(h)

\* sqlite3_exec of writes, one after the other up to the first that fails: none
\* of them goes to the transaction that is open, so that they wait for its gate.
\* BEGIN and COMMIT are refused here; its SELECTs read what is committed.
Exec(first, second) ==
    LET keys == <<first, second>>
        one == Autocommit("INSERT", <<first>>, db)
        two == Autocommit("INSERT", <<second>>, one.content)
    IN  /\ conn.open
        /\ IF conn.tx # <<>> THEN hung' = TRUE /\ UNCHANGED <<db, told>>
           ELSE /\ gate = Free
                /\ db' = IF one.ok THEN two.content ELSE db
                /\ told' = ApplyDml("INSERT", keys, told).content
                /\ UNCHANGED hung
        /\ UNCHANGED <<gate, faults, conn, stmts, saved, seen>>

CNext ==
    /\ ~hung
    /\ \/ Open \/ Close
       \/ \E first, second \in Rows : Exec(first, second)
       \/ \E h \in Handles :
             \/ \E text \in Texts : Prepare(h, text)
             \/ \E key \in Rows : Bind(h, key)
             \/ Finalize(h) \/ ClearBindings(h) \/ Reset(h) \/ Step(h)

-----------------------------------------------------------------------------
(* Properties. *)

\* The rows a statement yields are those of the one state it saw when it was
\* first stepped, in which the host's own writes are and nothing later is:
\* whatever is written, committed, rolled back or rebound between two steps,
\* and however often it is reset (state.rs run, step, reset).
CursorReadsOneState ==
    \A h \in Handles : (Live(h) /\ seen[h].source # <<>>) =>
        LET due == SelectAll(seen[h].source[1])
            got == seen[h].got
        IN  /\ Len(got) <= Len(due) /\ got = SubSeq(due, 1, Len(got))
            /\ ~stmts[h].busy => got = due

\* get_autocommit tells where the host's writes are: while it is 1 what the
\* return codes claim is committed, while it is 0 the database is as it was at
\* BEGIN, and a hung call is one that waits for the gate of its own connection
\* (state.rs run, exec.rs, meta.rs sqlite3_get_autocommit).
AutocommitIsTruthful ==
    conn.open =>
        /\ conn.tx = <<>> => told = db /\ gate = Free /\ ~hung
        /\ conn.tx # <<>> => told = conn.tx[1] /\ saved = db /\ gate = "conn"
=============================================================================
