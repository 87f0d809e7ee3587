-------------------------- MODULE MC_TransportActor --------------------------
(***************************************************************************)
(* Instances of TransportActor: what the appends carry, and their numbers.  *)
(***************************************************************************)
EXTENDS TransportActor, TLC

CONSTANTS a1, a2, a3

Two == {a1, a2}
Three == {a1, a2, a3}

\* Three requests: a generation can be superseded while it still waits.
RequestKinds == [a \in Three |-> {"RunRequest"}]

InOrder == a1 :> 0 @@ a2 :> 1 @@ a3 :> 2

\* A request or an early user message, and then anything.
TwoKinds == a1 :> {"RunRequest", "UserMessage"} @@ a2 :> Kinds

\* A request with a user message queued behind it.
QueuedKinds == a1 :> {"RunRequest"} @@ a2 :> {"UserMessage"}

TwoInOrder == a1 :> 0 @@ a2 :> 1

=============================================================================
