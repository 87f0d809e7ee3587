--------------------------- MODULE ConversationStore ---------------------------
(***************************************************************************)
(* cursor-core/src/store: one conversation in the database.  A conversation *)
(* is a tree of immutable checkpoints, one of them current, and at most one *)
(* run owns it.  Every write is one transaction under the write lock, so an *)
(* action is a whole call of a Store method; a call that fails rolls back   *)
(* and is no step.  Callers are unconstrained: engines of several runs hold *)
(* checkpoint ids that may be long out of date and write at any moment.     *)
(*                                                                          *)
(* A checkpoint is a row [parent, rows, digest]: rows are the ids in        *)
(* checkpoint_messages, digest stands for SHA-256 of the whole history and  *)
(* is that history.  The assistant message and the result that              *)
(* commit_tool_result appends together are one message here.                *)
(***************************************************************************)
EXTENDS Naturals, Sequences

CONSTANTS Runs, NoRun,
          Texts,           \* messages the engine is given: records [id, body]
          Histories,       \* histories that clients send for import
          Calls,           \* tool call ids of a model answer
          MaxCheckpoints,  \* bound: rows of conversation_checkpoints
          MaxAnswers,      \* bound: provider calls of a run
          RecordedRuns     \* bound: runs whose llm_calls rows are followed

ASSUME NoRunAssumption == NoRun \notin Runs

ASSUME BoundsAssumption == MaxCheckpoints \in Nat /\ MaxAnswers \in Nat

ASSUME HistoriesAssumption == \A h \in Histories : h \in Seq({h[i] : i \in DOMAIN h})

VARIABLES
    current,      \* conversations.current_checkpoint_id, 0: no such conversation
    active,       \* conversations.active_run_id
    checkpoints,  \* conversation_checkpoints in the order of their ids
    stored,       \* the messages table
    status,       \* runs.status, "absent" before the run is claimed
    base,         \* runs.base_checkpoint_id
    head,         \* runs.head_checkpoint_id
    answers,      \* runs.provider_call_index + 1
    rounds,       \* the tool rounds of a run, by provider call index + 1
    modelCall     \* the run's last llm_calls row; begun: runs.status at its insertion

vars == <<current, active, checkpoints, stored, status, base, head, answers,
          rounds, modelCall>>

Terminal == {"completed", "cancelled", "failed"}

CallStatuses == {"none", "running", "completed", "cancelled", "error"}

Answer(r, n) == [id |-> <<r, n>>, body |-> "answer"]

Result(r, n, c) == [id |-> <<r, n, c>>, body |-> "result"]

Ids(messages) == {messages[i].id : i \in DOMAIN messages}

NoRound == [status |-> "none", pending |-> {}, completed |-> <<>>]

Round == [status : {"none", "pending", "settled"}, pending : SUBSET Calls,
          completed : Seq(Calls)]

TypeOK ==
    /\ current \in 0 .. Len(checkpoints)
    /\ active \in Runs \cup {NoRun}
    /\ DOMAIN checkpoints = 1 .. Len(checkpoints)
    /\ status \in [Runs -> {"absent", "running"} \cup Terminal]
    /\ base \in [Runs -> 0 .. Len(checkpoints)]
    /\ head \in [Runs -> 0 .. Len(checkpoints)]
    /\ answers \in [Runs -> 0 .. MaxAnswers]
    /\ rounds \in [Runs -> [1 .. MaxAnswers -> Round]]
    /\ modelCall \in [Runs -> [status : CallStatuses,
                               begun : {"absent", "running"} \cup Terminal]]

-----------------------------------------------------------------------------
(* Reading.                                                                 *)

\* The stored payload of a message id.
Payload(id) == CHOOSE m \in stored : m.id = id

\* load_checkpoint_messages: the rows of the lineage, root first.
Load(c) ==
    LET load[k \in 0 .. Len(checkpoints)] ==
            IF k = 0 THEN <<>>
            ELSE load[checkpoints[k].parent]
                     \o [i \in DOMAIN checkpoints[k].rows |->
                            Payload(checkpoints[k].rows[i])]
    IN  load[c]

\* The checkpoint with a digest exists (UNIQUE (conversation_id, state_digest)).
Exists(digest) == \E c \in DOMAIN checkpoints : checkpoints[c].digest = digest

WithDigest(digest) ==
    CHOOSE c \in DOMAIN checkpoints : checkpoints[c].digest = digest

\* Mutant of OwnsHead: the run is not compared.
AnyoneOwnsHead(r, expected) == current = expected /\ active # NoRun

\* Mutant of OwnsHead: the checkpoint is not compared.
OwnsAnyHead(r, expected) == active = r /\ expected # 0

\* require_active_head_tx
OwnsHead(r, expected) == current = expected /\ active = r

-----------------------------------------------------------------------------
(* Writing checkpoints.                                                     *)

\* Mutant of Storable: a message whose id is stored is not compared with it.
StorableIfNew(messages) ==
    \A i, j \in DOMAIN messages : messages[i].id = messages[j].id => i = j

\* put_message_tx accepts a message that is new or equal to the stored one,
\* and UNIQUE (checkpoint_id, message_id) a list without repetitions.  Left out
\* is the id of the runtime event of a message, which is unique as well.
Storable(messages) ==
    /\ \A i \in DOMAIN messages : \A m \in stored :
           m.id = messages[i].id => m = messages[i]
    /\ \A i, j \in DOMAIN messages : messages[i].id = messages[j].id => i = j

\* The id that the next insertion returns.
NewCheckpoint == Len(checkpoints) + 1

\* insert_checkpoint_tx: the new row gets the next id.
InsertCheckpoint(parent, additions, digest) ==
    /\ Len(checkpoints) < MaxCheckpoints
    /\ Storable(additions)
    /\ ~ Exists(digest)
    /\ stored' = stored \cup
           {additions[i] : i \in {k \in DOMAIN additions :
                additions[k].id \notin {m.id : m \in stored}}}
    /\ checkpoints' = Append(checkpoints,
           [parent |-> parent, rows |-> [i \in DOMAIN additions |-> additions[i].id],
            digest |-> digest])

RootCheckpoint == [parent |-> 0, rows |-> <<>>, digest |-> <<>>]

\* ensure_conversation_tx: the first call makes the empty root current.
EnsureConversation ==
    /\ current = 0
    /\ checkpoints' = <<RootCheckpoint>>
    /\ current' = 1
    /\ UNCHANGED <<active, stored, status, base, head, answers, rounds, modelCall>>

\* Mutant of ImportParent: the history is always hung below the current one.
ImportBelowCurrent(messages) == current

StartsWith(messages, prefix) ==
    /\ Len(prefix) <= Len(messages)
    /\ SubSeq(messages, 1, Len(prefix)) = prefix

\* Where import_checkpoint hangs a history it does not have.
ImportParent(messages) ==
    IF StartsWith(messages, Load(current)) THEN current ELSE 1

\* import_checkpoint of the history a client sent; one that exists is only
\* looked up.  For a new conversation the call is EnsureConversation and this.
ImportCheckpoint(messages) ==
    /\ current # 0
    /\ LET parent == ImportParent(messages)
           known == IF parent = current THEN Len(Load(current)) ELSE 0
       IN  InsertCheckpoint(parent, SubSeq(messages, known + 1, Len(messages)), messages)
    /\ UNCHANGED <<current, active, status, base, head, answers, rounds, modelCall>>

\* append_checkpoint_with_digest_tx: a child of the current checkpoint, which
\* becomes current and the head of the run.
AppendAt(r, expected, additions) ==
    /\ OwnsHead(r, expected)
    /\ InsertCheckpoint(expected, additions, Load(expected) \o additions)
    /\ current' = NewCheckpoint
    /\ head' = [head EXCEPT ![r] = NewCheckpoint]

\* The run's last provider call has neither an answer nor a tool round yet:
\* the engine makes one of the two of each (engine.rs, the model loop).
Unanswered(r) ==
    /\ answers[r] > 0
    /\ rounds[r][answers[r]].status = "none"
    /\ Answer(r, answers[r]) \notin stored

\* append_checkpoint, as the engine calls it for the answer that ends a turn.
AppendAnswer(r, expected) ==
    /\ Unanswered(r)
    /\ expected \in DOMAIN checkpoints
    /\ AppendAt(r, expected, <<Answer(r, answers[r])>>)
    /\ UNCHANGED <<active, status, base, answers, rounds, modelCall>>

\* Mutant of AlreadyThere: only the last checkpoint of the lineage is searched.
InLastRows(expected, message) ==
    \E i \in DOMAIN checkpoints[expected].rows : checkpoints[expected].rows[i] = message.id

\* append_message_once finds the id in the history of the checkpoint.
AlreadyThere(expected, message) == message.id \in Ids(Load(expected))

\* append_message_once of a message its history does not have; a message that
\* is there already changes nothing, or fails if its content differs.
AppendMessageOnce(r, expected, message) ==
    /\ expected \in DOMAIN checkpoints
    /\ ~ AlreadyThere(expected, message)
    /\ AppendAt(r, expected, <<message>>)
    /\ UNCHANGED <<active, status, base, answers, rounds, modelCall>>

\* replace_checkpoint: compaction, which the engine does between tool rounds,
\* puts a new history below the root.
ReplaceCheckpoint(r, expected, messages) ==
    /\ \A n \in 1 .. MaxAnswers : rounds[r][n].status # "pending"
    /\ OwnsHead(r, expected)
    /\ InsertCheckpoint(1, messages, messages)
    /\ current' = NewCheckpoint
    /\ head' = [head EXCEPT ![r] = NewCheckpoint]
    /\ UNCHANGED <<active, status, base, answers, rounds, modelCall>>

-----------------------------------------------------------------------------
(* Runs.                                                                    *)

\* Mutant of StatusAfterClaim: the run that is replaced keeps its status.
OthersKeepStatus(r) == [status EXCEPT ![r] = "running"]

\* Mutant of StatusAfterClaim: the replaced run is cancelled whatever it was.
CancelAll(r) ==
    [q \in Runs |-> IF q = r THEN "running"
                    ELSE IF status[q] # "absent" THEN "cancelled" ELSE status[q]]

\* The new run is running, the one it replaces is cancelled if it was running.
StatusAfterClaim(r) ==
    [q \in Runs |-> IF q = r THEN "running"
                    ELSE IF q = active /\ status[q] = "running" THEN "cancelled"
                    ELSE status[q]]

\* Mutant of CallsAfterClaim: the model call of the replaced run goes on.
CallsGoOn(r) == modelCall

\* The model call of the replaced run is cancelled.
CallsAfterClaim(r) ==
    [q \in Runs |-> IF q = active /\ q # r /\ modelCall[q].status = "running"
                    THEN [modelCall[q] EXCEPT !.status = "cancelled"]
                    ELSE modelCall[q]]

\* claim_run: run r takes the conversation over at checkpoint b.
ClaimRun(r, b) ==
    /\ status[r] = "absent"
    /\ b \in DOMAIN checkpoints
    /\ status' = StatusAfterClaim(r)
    /\ modelCall' = CallsAfterClaim(r)
    /\ base' = [base EXCEPT ![r] = b]
    /\ head' = [head EXCEPT ![r] = b]
    /\ current' = b
    /\ active' = r
    /\ UNCHANGED <<checkpoints, stored, answers, rounds>>

\* begin_provider_call
BeginProviderCall(r) ==
    /\ status[r] = "running"
    /\ answers[r] < MaxAnswers
    /\ answers' = [answers EXCEPT ![r] = @ + 1]
    /\ UNCHANGED <<current, active, checkpoints, stored, status, base, head,
                   rounds, modelCall>>

\* start_llm_call does not look at the run.
StartModelCall(r) ==
    /\ r \in RecordedRuns
    /\ status[r] # "absent"
    /\ modelCall[r].status # "running"
    /\ modelCall' = [modelCall EXCEPT ![r] = [status |-> "running", begun |-> status[r]]]
    /\ UNCHANGED <<current, active, checkpoints, stored, status, base, head,
                   answers, rounds>>

\* finish_llm_call
FinishModelCall(r, s) ==
    /\ modelCall[r].status = "running"
    /\ modelCall' = [modelCall EXCEPT ![r].status = s]
    /\ UNCHANGED <<current, active, checkpoints, stored, status, base, head,
                   answers, rounds>>

\* Mutant of FinalStatus: the last outcome wins.
LastOutcome(r, s) == s

\* The outcome counts only while the run is running.
FinalStatus(r, s) == IF status[r] = "running" THEN s ELSE status[r]

\* Mutant of OwnerAfterFinish: the conversation is released by any run.
AlwaysReleased(r) == NoRun

\* UPDATE conversations SET active_run_id = NULL ... AND active_run_id = ?
OwnerAfterFinish(r) == IF active = r THEN NoRun ELSE active

\* finish_run.  The engine calls it, and the output session when it fails
\* first, so it may come twice and after the run was replaced.
FinishRun(r, s) ==
    /\ status[r] # "absent"
    /\ status' = [status EXCEPT ![r] = FinalStatus(r, s)]
    /\ modelCall' = [modelCall EXCEPT ![r].status =
           IF @ # "running" THEN @
           ELSE IF FinalStatus(r, s) = "cancelled" THEN "cancelled" ELSE "error"]
    /\ active' = OwnerAfterFinish(r)
    /\ UNCHANGED <<current, checkpoints, stored, base, head, answers, rounds>>

-----------------------------------------------------------------------------
(* Tool rounds.                                                             *)

\* create_tool_round, as the engine numbers rounds: by the provider call.
CreateToolRound(r, b, calls) ==
    /\ Unanswered(r)
    /\ status[r] = "running" /\ active = r
    /\ head[r] = b /\ current = b
    /\ calls # {}
    /\ rounds' = [rounds EXCEPT ![r][answers[r]] =
           [status |-> "pending", pending |-> calls, completed |-> <<>>]]
    /\ UNCHANGED <<current, active, checkpoints, stored, status, base, head,
                   answers, modelCall>>

\* Mutant of RoundAfter: settled when one call is left.
SettledEarly(round, c) ==
    LET left == round.pending \ {c}
    IN  [status |-> IF \A d, e \in left : d = e THEN "settled" ELSE "pending",
         pending |-> left, completed |-> Append(round.completed, c)]

\* The round with call c completed: settled when none is pending.
RoundAfter(round, c) ==
    LET left == round.pending \ {c}
    IN  [status |-> IF left = {} THEN "settled" ELSE "pending",
         pending |-> left, completed |-> Append(round.completed, c)]

\* commit_tool_result appends at the head of the run.
CommitToolResult(r, n, c) ==
    /\ rounds[r][n].status = "pending"
    /\ c \in rounds[r][n].pending
    /\ AppendAt(r, head[r], <<Result(r, n, c)>>)
    /\ rounds' = [rounds EXCEPT ![r][n] = RoundAfter(@, c)]
    /\ UNCHANGED <<active, status, base, answers, modelCall>>

-----------------------------------------------------------------------------
Init ==
    /\ current = 0
    /\ active = NoRun
    /\ checkpoints = <<>>
    /\ stored = {}
    /\ status = [r \in Runs |-> "absent"]
    /\ base = [r \in Runs |-> 0]
    /\ head = [r \in Runs |-> 0]
    /\ answers = [r \in Runs |-> 0]
    /\ rounds = [r \in Runs |-> [n \in 1 .. MaxAnswers |-> NoRound]]
    /\ modelCall = [r \in Runs |-> [status |-> "none", begun |-> "absent"]]

Next ==
    \/ EnsureConversation
    \/ \E messages \in Histories : ImportCheckpoint(messages)
    \/ \E r \in Runs, c \in DOMAIN checkpoints :
          \/ ClaimRun(r, c)
          \/ AppendAnswer(r, c)
          \/ \E t \in Texts : AppendMessageOnce(r, c, t) \/ ReplaceCheckpoint(r, c, <<t>>)
          \/ \E calls \in SUBSET Calls : CreateToolRound(r, c, calls)
    \/ \E r \in Runs :
          \/ BeginProviderCall(r)
          \/ StartModelCall(r)
          \/ \E s \in {"completed", "cancelled", "error"} : FinishModelCall(r, s)
          \/ \E s \in Terminal : FinishRun(r, s)
          \/ \E n \in 1 .. MaxAnswers, c \in Calls : CommitToolResult(r, n, c)

Spec == Init /\ [][Next]_vars

-----------------------------------------------------------------------------
(* Properties.                                                              *)

\* A run is running exactly while it owns the conversation: a run that was
\* replaced is never left running, and a finished one never left as the owner.
OneOwner == \A r \in Runs : status[r] = "running" <=> active = r

\* The head of the owner is what the conversation shows.
OwnerAtHead == active # NoRun => head[active] = current

\* A history read back through the lineage and the messages table is the
\* history whose digest was stored, and no two checkpoints hold the same one.
LineageIsDigest ==
    \A c, d \in DOMAIN checkpoints :
        /\ Load(c) = checkpoints[c].digest
        /\ c # d => checkpoints[c].digest # checkpoints[d].digest

\* However the tree branches, no history holds a message id twice.
NoMessageTwice ==
    \A c \in DOMAIN checkpoints :
        \A i, j \in DOMAIN checkpoints[c].digest :
            checkpoints[c].digest[i].id = checkpoints[c].digest[j].id => i = j

\* The results of a round that are in the history of its run are those of the
\* completed calls, in the order of completion; only compaction, when the round
\* is settled, takes them out, and then all of them.
RoundMatchesHistory ==
    \A r \in Runs : \A n \in 1 .. MaxAnswers :
        LET round == rounds[r][n]
            done == round.completed
            history == IF head[r] = 0 THEN <<>> ELSE checkpoints[head[r]].digest
            At(c) == {i \in DOMAIN history : history[i] = Result(r, n, c)}
        IN  /\ \/ \A c \in Calls : At(c) # {} <=> \E k \in DOMAIN done : done[k] = c
               \/ round.status = "settled" /\ \A c \in Calls : At(c) = {}
            /\ \A j, k \in DOMAIN done : j < k =>
                   \A x \in At(done[j]), y \in At(done[k]) : x < y
            /\ round.status = "settled" <=> round.pending = {} /\ done # <<>>

\* A run that lost the conversation, however long it goes on, changes no
\* checkpoint, head, round or call index.
StaleRunWritesNothing ==
    [][\A r \in Runs : status[r] # "absent" /\ active # r =>
          /\ head'[r] = head[r] /\ rounds'[r] = rounds[r] /\ answers'[r] = answers[r]
          /\ active # NoRun /\ current' # current /\ active' = active =>
                 head'[active] = current']_vars

\* The first outcome of a run stays: a replaced run cannot overwrite that it
\* was cancelled, and a run that failed cannot complete.
OutcomeIsFinal ==
    [][\A r \in Runs : status[r] \in Terminal => status'[r] = status[r]]_vars

\* No model call outlives the run it began in; one that a replaced run begins
\* late is ended by that run's own finish.
CallsEndWithTheirRun ==
    \A r \in Runs :
        modelCall[r].status = "running" /\ modelCall[r].begun = "running" =>
            status[r] = "running"

=============================================================================
