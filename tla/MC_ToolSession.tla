---------------------------- MODULE MC_ToolSession ----------------------------
(* Instances of ToolSession.                                                   *)
EXTENDS ToolSession, TLC

CONSTANTS c1, c2, c3, c4, s1, s2, s3

ThreeSends == {s1, s2, s3}

\* Two messages, one of which the client sends again in an append of its own.
OneTwice == s1 :> s1 @@ s2 :> s2 @@ s3 :> s1

TwoSends == {s1, s2}

OneSend == {s1}

\* Two calls side by side, twice.
FreshIds == <<{c1, c2}, {c3, c4}>>

\* A provider that numbers its calls anew in every answer.
ReusedIds == <<{c1}, {c1}>>

SingleCalls == <<{c1}, {c2}>>

OneRound == <<{c1, c2}>>

OwnId == [s \in TwoSends |-> s]

=============================================================================
