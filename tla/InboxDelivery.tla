---------------------------- MODULE InboxDelivery ----------------------------
(***************************************************************************)
(* OrderedInbox against a client whose append requests are separate HTTP    *)
(* calls: they overtake each other, and a call whose answer was lost is     *)
(* sent again with the same sequence number.  The value of a message is the *)
(* number of the call that carried it, so a retry is told from the original.*)
(***************************************************************************)
EXTENDS OrderedInbox

CONSTANTS Messages,     \* the client numbers its messages 0 .. Messages-1
          MaxRetries    \* bound: times the client sends a message again

ASSUME MessagesAssumption == Messages \in Nat /\ MaxRetries \in Nat

VARIABLES
    inbox,
    calls,      \* calls[s]: how often message s has been sent
    network,    \* calls in flight: <<sequence number, number of the call>>
    delivered,  \* what the inbox has released so far, in order
    arrived     \* the messages of which some copy has reached the actor

vars == <<inbox, calls, network, delivered, arrived>>

Seqnos == 0 .. Messages - 1

Values == Seqnos \X (1 .. MaxRetries + 1)

TypeOK ==
    /\ inbox.next \in 0 .. Messages
    /\ DOMAIN inbox.pending \in SUBSET Seqnos
    /\ \A s \in DOMAIN inbox.pending : inbox.pending[s] \in Values
    /\ calls \in [Seqnos -> 0 .. MaxRetries + 1]
    /\ network \in SUBSET Values
    /\ delivered \in Seq(Values)
    /\ arrived \in SUBSET Seqnos

Init ==
    /\ inbox = StartingAt(0)
    /\ calls = [s \in Seqnos |-> 0]
    /\ network = {}
    /\ delivered = <<>>
    /\ arrived = {}

\* The client sends a message, or sends it again.
Send(s) ==
    /\ calls[s] <= MaxRetries
    /\ calls' = [calls EXCEPT ![s] = @ + 1]
    /\ network' = network \cup {<<s, calls[s] + 1>>}
    /\ UNCHANGED <<inbox, delivered, arrived>>

\* A call is lost on the way.
Lose(c) ==
    /\ network' = network \ {c}
    /\ UNCHANGED <<inbox, calls, delivered, arrived>>

\* A call reaches the actor, which pushes it and handles what is released.
Receive(c) ==
    /\ network' = network \ {c}
    /\ LET pushed == Push(inbox, c[1], c)
       IN  /\ inbox' = pushed.inbox
           /\ delivered' = delivered \o pushed.ready
    /\ arrived' = arrived \cup {c[1]}
    /\ UNCHANGED calls

Next == \/ \E s \in Seqnos : Send(s)
        \/ \E c \in network : Lose(c) \/ Receive(c)

Spec == Init /\ [][Next]_vars

-----------------------------------------------------------------------------
(* Properties.                                                              *)

\* Every message is handled in the client's order, and at most once however
\* often and however late it arrives.
InOrderExactlyOnce ==
    /\ Len(delivered) = inbox.next
    /\ \A i \in 1 .. Len(delivered) : delivered[i][1] = i - 1

\* A message that arrived was handled unless one before it has not arrived:
\* then it is held, and nothing else is.
NothingLostOrStuck ==
    \A s \in arrived :
        IF \A k \in 0 .. s : k \in arrived THEN s < inbox.next
                                           ELSE s \in DOMAIN inbox.pending

=============================================================================
