--------------------------- MODULE MC_CursorTurns ---------------------------
(***************************************************************************)
(* Instances of CursorTurns: what the model may ask for.                    *)
(***************************************************************************)
EXTENDS CursorTurns, TLC

CONSTANTS t1, t2, r1, r2, c1, c2, call

\* Two requests in two conversations.
One == r1 :> c1
Apart == r1 :> c1 @@ r2 :> c2

Tool(c, k) == [call |-> c, kind |-> k]

\* Hardly any tools.
OneRead == {<<>>, <<Tool(call, "read")>>}

\* No tool, a tool of each kind, or two; mostly for one call.
SomeRounds ==
    {<<>>, <<Tool(call, "shell")>>, <<Tool(call, "query")>>,
     <<Tool(call, "local"), Tool(call, "read")>>}

=============================================================================
