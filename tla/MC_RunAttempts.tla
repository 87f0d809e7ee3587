---------------------------- MODULE MC_RunAttempts ----------------------------
(* Instances of RunAttempts: two messages per input, context and text; a wake.  *)
EXTENDS RunAttempts, TLC

CONSTANTS i1, i2

Context(i) == [id |-> <<"context", i>>, body |-> "text"]

User(i) == [id |-> <<"user", i>>, body |-> "text"]

Wake == [id |-> <<"wake">>, body |-> "text"]

OneWake == {Wake}

MCInputs == {i1, i2}

OneInput == {i1}

MCInitial == [i \in MCInputs |-> <<Context(i), User(i)>>]

MCTexts == {Context(i) : i \in MCInputs} \cup {User(i) : i \in MCInputs} \cup {Wake}

RunsAlike == Permutations(Runs)

=============================================================================
