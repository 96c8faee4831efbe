------------------------------ MODULE MCFrontEnds ------------------------------
(* Two handles, and a text of every kind; tasks and workers as the cfg says. *)
EXTENDS FrontEnds

Text(kw, keys) == [kw |-> kw, keys |-> keys]
SomeTexts ==
    {Text(kw, <<>>) : kw \in {"BEGIN", "COMMIT", "ROLLBACK", "SELECT"}}
    \cup {Text("INSERT", <<1, 2>>), Text("DELETE", <<1>>), Text("REPLACE", <<2>>)}
=============================================================================
