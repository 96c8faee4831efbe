------------------------ MODULE DurabilityRefinement -------------------------
(***************************************************************************)
(* Durability implements DurableStore: the contents are what a reader of   *)
(* the open database finds, page by page in the log or in the file; and,   *)
(* while there is no process, what was promised.                           *)
(***************************************************************************)
EXTENDS Durability

Shown == [p \in Pages |-> IF mode \in Live THEN View(p).body ELSE committed[p]]

\* A transaction without the parts that the header and the page count need.
Plain(t) == [id |-> t.id, pages |-> t.pages]

Store == INSTANCE DurableStore WITH
    contents <- Shown,
    up       <- mode \in Live,
    commit   <- IF mode = "append" THEN {Plain(tx)} ELSE {},
    pending  <- {Plain(t) : t \in doubt},
    failed   <- spoilt

\* Frames, syncs, folds, truncation and replay are invisible: what a reader finds
\* changes with the answer to a commit and at open, as a whole (append_commit,
\* checkpoint, replay), and open finds the answered commits, alone or with all of
\* one that got no answer, as long as none has failed.
ImplementsDurableStore == Store!Spec
===============================================================================
