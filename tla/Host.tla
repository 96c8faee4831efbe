---------------------------------- MODULE Host ----------------------------------
(***************************************************************************)
(* What every front end stands on: the committed rows of one table and the *)
(* gate that admits one write transaction at a time.  A statement is a     *)
(* function of the rows it is run on; how the engine runs it on a snapshot *)
(* is the subject of SqlEngine, what it makes of the rows that of Tables.  *)
(***************************************************************************)
EXTENDS Integers, Sequences, FiniteSets, SequencesExt

CONSTANTS
    Rows,       \* keys a row may have
    MaxFaults   \* commits that fail, in a behaviour

ASSUME HostAssumption == Rows \subseteq Nat /\ MaxFaults \in Nat

VARIABLES
    db,         \* the committed rows
    gate,       \* who holds the write gate, or Free
    faults      \* commits that have failed so far

hostVars == <<db, gate, faults>>

Free == "free"

\* INSERT of keys, in order: it fails at the first that is there, DELETE never.
\* What was inserted before a failure stays in the content that was given.
ApplyDml(kw, keys, content) ==
    LET bad == {i \in 1..Len(keys) :
                   keys[i] \in content \cup {keys[j] : j \in 1..(i - 1)}}
        upto == IF bad = {} THEN Len(keys) ELSE (CHOOSE i \in bad : \A j \in bad : i <= j) - 1
    IN  IF kw = "DELETE" THEN [content |-> content \ ToSet(keys), ok |-> TRUE]
        ELSE [content |-> content \cup {keys[i] : i \in 1..upto}, ok |-> bad = {}]

\* engine.execute: a write transaction of its own, dropped when the statement fails.
Autocommit(kw, keys, content) ==
    LET r == ApplyDml(kw, keys, content)
    IN  IF r.ok THEN r ELSE [r EXCEPT !.content = content]

\* A SELECT of the whole table, by key: row i has i - 1 keys below it.
SelectAll(content) ==
    [i \in 1..Cardinality(content) |->
        CHOOSE k \in content : Cardinality({j \in content : j < k}) = i - 1]

HostInit == db = {} /\ gate = Free /\ faults = 0
=============================================================================
