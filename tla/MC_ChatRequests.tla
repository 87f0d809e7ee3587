-------------------------- MODULE MC_ChatRequests --------------------------
(***************************************************************************)
(* Instances of ChatRequests: which targets serve which requests.           *)
(***************************************************************************)
EXTENDS ChatRequests, TLC

CONSTANTS r1, r2, near, far, gone, bad

\* Two requests for far, which the first tries only when everything before fails.
Pair == {r1, r2}
PairSlot == r1 :> <<gone, bad, near, far>> @@ r2 :> <<far>>

\* Both want near, and nothing else is configured.
PairSameSlot == [r \in Pair |-> <<near>>]

\* far may reject an optional parameter.
OneOptional == [k \in Targets |-> IF k = far THEN 1 ELSE 0]
NoOptional == [k \in Targets |-> 0]

=============================================================================
