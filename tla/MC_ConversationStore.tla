------------------------- MODULE MC_ConversationStore -------------------------
(* Instances of ConversationStore.                                             *)
EXTENDS ConversationStore, TLC

CONSTANTS c1, c2

Hello == [id |-> <<"hello">>, body |-> "first"]

\* The id of Hello with another content.
OtherHello == [id |-> <<"hello">>, body |-> "second"]

More == [id |-> <<"more">>, body |-> "first"]

OneText == {OtherHello}

\* One is the beginning of the other.
TwoHistories == {<<Hello>>, <<Hello, More>>}

TwoCalls == {c1, c2}

\* The model's calls are interchangeable.
CallsAlike == Permutations(TwoCalls)

=============================================================================
