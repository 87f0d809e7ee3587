------------------------------ MODULE RunAttempts ------------------------------
(***************************************************************************)
(* How one user message becomes a run, and what happens when the client     *)
(* sends it again under a new request id.  An attempt prepares (cursor/     *)
(* compile/run.rs: the input is anchored to a checkpoint and its messages   *)
(* are matched with checkpoints an earlier attempt left), takes the messages *)
(* that wait for the conversation, then its engine claims the conversation,  *)
(* appends what is missing, calls the model and appends the answer.  Nothing *)
(* is locked between these steps: attempts of one conversation overlap when  *)
(* they come over different transports, and the process can crash at any of  *)
(* them.                                                                    *)
(***************************************************************************)
EXTENDS ConversationStore, Functions

CONSTANTS Inputs,
          Initial,   \* the messages an input is compiled to
          Wakes      \* runtime messages that arrive while no run takes them

ASSUME InitialAssumption ==
    /\ Inputs # {}
    /\ \A i \in Inputs : Initial[i] \in Seq(Texts)
    /\ Wakes \subseteq Texts

VARIABLES
    anchors,  \* the input_anchors table, 0 for an input that was not seen
    phase,    \* where the attempt of a run is
    input,    \* the input an attempt is about
    plan,     \* base: prepared.base_checkpoint_id, then the engine's checkpoint;
              \* rest: the messages that are still to be appended
    pending,  \* the registry's PendingMessages of the conversation
    taken,    \* the waiting messages an attempt took
    alone     \* attempts during which no other was under way

attemptVars == <<anchors, phase, input, plan, pending, taken, alone>>

allVars == <<vars, attemptVars>>

Phases == {"idle", "anchored", "prepared", "collected", "ready", "claimed", "answering",
           "answered", "lost", "refused", "failed", "ended"}

UnderWay == Phases \ {"idle", "ended"}

\* Mutant of Anchor: the last proposal wins.
AnchorAgain(i, proposal) == proposal

\* anchor_input: the first proposal for an input stays.
Anchor(i, proposal) == IF anchors[i] = 0 THEN proposal ELSE anchors[i]

Children(c, digest) ==
    {d \in DOMAIN checkpoints : checkpoints[d].parent = c /\ checkpoints[d].digest = digest}

\* Mutant of MatchPrefix: work of earlier attempts is not looked for.
MatchNothing(c, additions) == [base |-> c, rest |-> additions]

\* match_checkpoint_prefix: from c down through checkpoints that each add the
\* next message; the messages that were not found are left.
MatchPrefix(c, additions) ==
    LET match[n \in 0 .. Len(additions)] ==
            IF n = 0 THEN [base |-> c, rest |-> additions]
            ELSE LET before == match[n - 1]
                     next == Children(before.base, Load(c) \o SubSeq(additions, 1, n))
                 IN  IF Len(before.rest) = Len(additions) - (n - 1) /\ next # {}
                     THEN [base |-> CHOOSE d \in next : TRUE, rest |-> Tail(before.rest)]
                     ELSE before
    IN  match[Len(additions)]

-----------------------------------------------------------------------------
\* compile::prepare up to the anchor.  The proposal is the checkpoint of the
\* history the client sent with the input, one of those it was given before.
AnchorInput(r, i, proposal) ==
    /\ phase[r] = "idle" /\ status[r] = "absent"
    /\ proposal \in DOMAIN checkpoints
    /\ anchors' = [anchors EXCEPT ![i] = Anchor(i, proposal)]
    /\ phase' = [phase EXCEPT ![r] = "anchored"]
    /\ input' = [input EXCEPT ![r] = i]
    /\ plan' = [plan EXCEPT ![r] = [base |-> Anchor(i, proposal), rest |-> Initial[i]]]
    /\ alone' = IF \E q \in Runs : phase[q] \in UnderWay
                  THEN {q \in alone : phase[q] = "ended"} ELSE alone \cup {r}
    /\ UNCHANGED <<vars, pending, taken>>

\* The rest of compile::prepare.
Prepare(r) ==
    /\ phase[r] = "anchored"
    /\ phase' = [phase EXCEPT ![r] = "prepared"]
    /\ plan' = [plan EXCEPT ![r] = MatchPrefix(plan[r].base, plan[r].rest)]
    /\ UNCHANGED <<vars, anchors, input, pending, taken, alone>>

\* deliver finds no run, or one that is closing: the message waits, once.
DeliverLater(m) ==
    /\ m \notin Range(pending)
    /\ pending' = Append(pending, m)
    /\ UNCHANGED <<vars, anchors, phase, input, plan, taken, alone>>

\* take_pending, under the registry's lock: what waited is the attempt's now.
TakePending(r) ==
    /\ phase[r] = "prepared"
    /\ phase' = [phase EXCEPT ![r] = IF pending = <<>> THEN "ready" ELSE "collected"]
    /\ taken' = [taken EXCEPT ![r] = pending]
    /\ pending' = <<>>
    /\ UNCHANGED <<vars, anchors, input, plan, alone>>

\* Mutant of WithPending: the messages of the input go instead of before.
InsteadOfPending(p, waiting, at) ==
    IF p.rest # <<>> THEN p ELSE [base |-> at, rest |-> waiting]

\* Waiting messages come first.
WithPending(p, waiting, at) == [base |-> at, rest |-> waiting \o p.rest]

\* The base becomes what ensure_conversation finds to be the current
\* checkpoint; if it fails, the base stays.
RebasePending(r) ==
    /\ phase[r] = "collected"
    /\ phase' = [phase EXCEPT ![r] = "ready"]
    /\ \E at \in {current, plan[r].base} :
          plan' = [plan EXCEPT ![r] = WithPending(plan[r], taken[r], at)]
    /\ UNCHANGED <<vars, anchors, input, pending, taken, alone>>

\* The engine claims the conversation at the prepared base.
Claim(r) ==
    /\ phase[r] = "ready"
    /\ ClaimRun(r, plan[r].base)
    /\ phase' = [phase EXCEPT ![r] = "claimed"]
    /\ UNCHANGED <<anchors, input, plan, pending, taken, alone>>

\* The attempt finds that it was superseded before it has a run.  What it took
\* is not put back.
Supersede(r) ==
    /\ phase[r] \in {"anchored", "prepared", "collected", "ready"}
    /\ phase' = [phase EXCEPT ![r] = "ended"]
    /\ UNCHANGED <<vars, anchors, input, plan, pending, taken, alone>>

\* Mutant of Appended: the engine keeps appending to the base.
NotAdvanced(r) == [plan[r] EXCEPT !.rest = Tail(@)]

\* append_message_once returns the new checkpoint.
Appended(r) == [base |-> NewCheckpoint, rest |-> Tail(plan[r].rest)]

\* run_claimed appends the next initial message.
AppendInitial(r) ==
    /\ phase[r] = "claimed" /\ plan[r].rest # <<>>
    /\ AppendMessageOnce(r, plan[r].base, Head(plan[r].rest))
    /\ plan' = [plan EXCEPT ![r] = Appended(r)]
    /\ UNCHANGED <<anchors, phase, input, pending, taken, alone>>

\* The message is in the history of the base already.
SkipInitial(r) ==
    /\ phase[r] = "claimed" /\ plan[r].rest # <<>>
    /\ AlreadyThere(plan[r].base, Head(plan[r].rest))
    /\ plan' = [plan EXCEPT ![r].rest = Tail(@)]
    /\ UNCHANGED <<vars, anchors, phase, input, pending, taken, alone>>

\* Another run owns the conversation: the append fails and so does the run.
LoseOwnership(r) ==
    /\ phase[r] \in {"claimed", "answering"}
    /\ ~ OwnsHead(r, plan[r].base)
    /\ phase' = [phase EXCEPT ![r] = "lost"]
    /\ UNCHANGED <<vars, anchors, input, plan, pending, taken, alone>>

\* "active append would reuse an existing checkpoint instead of creating a
\* child": the run owns the conversation and fails nevertheless.
RefuseInitial(r) ==
    /\ phase[r] = "claimed" /\ plan[r].rest # <<>>
    /\ ~ AlreadyThere(plan[r].base, Head(plan[r].rest))
    /\ OwnsHead(r, plan[r].base)
    /\ Exists(Load(plan[r].base) \o <<Head(plan[r].rest)>>)
    /\ phase' = [phase EXCEPT ![r] = "refused"]
    /\ UNCHANGED <<vars, anchors, input, plan, pending, taken, alone>>

\* The model loop begins.
CallModel(r) ==
    /\ phase[r] = "claimed" /\ plan[r].rest = <<>>
    /\ BeginProviderCall(r)
    /\ phase' = [phase EXCEPT ![r] = "answering"]
    /\ UNCHANGED <<anchors, input, plan, pending, taken, alone>>

\* begin_provider_call finds that the run was replaced.
CallRefused(r) ==
    /\ phase[r] = "claimed" /\ plan[r].rest = <<>>
    /\ status[r] # "running"
    /\ phase' = [phase EXCEPT ![r] = "lost"]
    /\ UNCHANGED <<vars, anchors, input, plan, pending, taken, alone>>

\* The model answers and the turn is over.
AnswerInput(r) ==
    /\ phase[r] = "answering"
    /\ AppendAnswer(r, plan[r].base)
    /\ phase' = [phase EXCEPT ![r] = "answered"]
    /\ plan' = [plan EXCEPT ![r].base = NewCheckpoint]
    /\ UNCHANGED <<anchors, input, pending, taken, alone>>

\* The provider fails, the client goes away, or the run is cancelled.
Fail(r) ==
    /\ phase[r] \in {"claimed", "answering"}
    /\ phase' = [phase EXCEPT ![r] = "failed"]
    /\ UNCHANGED <<vars, anchors, input, plan, pending, taken, alone>>

\* The engine stores the outcome.
Finish(r) ==
    /\ phase[r] \in {"answered", "lost", "refused", "failed"}
    /\ \E outcome \in IF phase[r] = "answered" THEN {"completed"} ELSE {"failed", "cancelled"} :
           FinishRun(r, outcome)
    /\ phase' = [phase EXCEPT ![r] = "ended"]
    /\ UNCHANGED <<anchors, input, plan, pending, taken, alone>>

\* The process ends; the database stays, the conversation with its owner too.
Crash ==
    /\ \E r \in Runs : phase[r] \in UnderWay
    /\ phase' = [r \in Runs |-> IF phase[r] \in UnderWay THEN "ended" ELSE phase[r]]
    /\ pending' = <<>>
    /\ UNCHANGED <<vars, anchors, input, plan, taken, alone>>

AttemptsInit ==
    /\ Init
    /\ anchors = [i \in Inputs |-> 0]
    /\ phase = [r \in Runs |-> "idle"]
    /\ input \in [Runs -> {CHOOSE i \in Inputs : TRUE}]
    /\ plan = [r \in Runs |-> [base |-> 0, rest |-> <<>>]]
    /\ pending = <<>>
    /\ taken = [r \in Runs |-> <<>>]
    /\ alone = {}

AttemptsNext ==
    \/ EnsureConversation /\ UNCHANGED attemptVars
    \/ Crash
    \/ \E m \in Wakes : DeliverLater(m)
    \/ \E r \in Runs :
          \/ \E i \in Inputs, c \in DOMAIN checkpoints : AnchorInput(r, i, c)
          \/ Prepare(r) \/ TakePending(r) \/ RebasePending(r) \/ Claim(r) \/ Supersede(r)
          \/ AppendInitial(r) \/ SkipInitial(r) \/ LoseOwnership(r) \/ RefuseInitial(r)
          \/ CallModel(r) \/ CallRefused(r) \/ AnswerInput(r)
          \/ Fail(r) \/ Finish(r)

AttemptsSpec == AttemptsInit /\ [][AttemptsNext]_allVars

-----------------------------------------------------------------------------
(* Properties.                                                              *)

AttemptsTypeOK ==
    /\ TypeOK
    /\ anchors \in [Inputs -> 0 .. Len(checkpoints)]
    /\ phase \in [Runs -> Phases]
    /\ input \in [Runs -> Inputs]
    /\ \A r \in Runs : plan[r].base \in 0 .. Len(checkpoints) /\ plan[r].rest \in Seq(Texts)
    /\ pending \in Seq(Wakes)
    /\ taken \in [Runs -> Seq(Wakes)]
    /\ alone \subseteq Runs

\* Every attempt at an input, if no other message waited, asks the same
\* question in the same context: the history at the anchor, then the messages
\* of the input, once and in order, however earlier attempts ended.
AttemptsAgree ==
    \A r \in Runs :
        phase[r] = "answering" /\ taken[r] = <<>> =>
            LET i == input[r]
            IN  checkpoints[plan[r].base].digest = checkpoints[anchors[i]].digest \o Initial[i]

\* A run that took waiting messages calls the model with all of them in its
\* history, none twice: also when another attempt moved the conversation, or
\* stored one of them, between the steps it takes to get there.
WaitingMessagesAreRead ==
    \A r \in Runs :
        phase[r] = "answering" =>
            \A m \in Range(taken[r]) :
                \E i \in DOMAIN checkpoints[plan[r].base].digest :
                    /\ checkpoints[plan[r].base].digest[i] = m
                    /\ \A j \in DOMAIN checkpoints[plan[r].base].digest :
                           checkpoints[plan[r].base].digest[j] = m => j = i

\* A message waits, or an attempt under way has taken it, or it is stored.
Kept(m) ==
    \/ m \in Range(pending)
    \/ \E r \in Runs : phase[r] \in UnderWay /\ m \in Range(taken[r])
    \/ \E c \in DOMAIN checkpoints : m \in Range(checkpoints[c].digest)

\* registry.rs says that a message that waits is taken in by the next turn.  It
\* does not hold, not even while the process lives: an attempt that took it may
\* be superseded, fail or lose the conversation before it stores it, and nobody
\* has it then.
TakenMessagesSurvive ==
    [][\A m \in Wakes : Kept(m) /\ ~ Crash => Kept(m)']_allVars

\* Sending a message again after an attempt is over succeeds, however it ended:
\* the run is not refused because the same messages are stored already.  Left
\* out are attempts that took waiting messages: such a message may have been
\* stored below the current checkpoint by an attempt that took it before.
RetryIsNotRefused ==
    \A r \in alone : phase[r] = "refused" => taken[r] # <<>>

\* tests/error_lifecycle.rs: a retry of the same message under another request
\* id "must be idempotent", also while the first attempt is under way.
OverlappingRetryIsNotRefused ==
    \A r \in Runs : phase[r] = "refused" => taken[r] # <<>>

\* The engine knows where it is: while a run owns the conversation, the
\* checkpoint its engine appends to is the current one.
EngineAtHead ==
    \A r \in Runs :
        phase[r] \in {"claimed", "answering", "answered"} /\ active = r =>
            plan[r].base = current

=============================================================================
