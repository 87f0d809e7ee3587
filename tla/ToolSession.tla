------------------------------ MODULE ToolSession ------------------------------
(***************************************************************************)
(* Tool rounds of one run: the engine (run/engine.rs, run/tool_round.rs),   *)
(* the output session that starts its tools and publishes what it commits   *)
(* (cursor/conversation/output.rs), the client that executes them, and the  *)
(* user messages that interrupt all of it (deliver, run/handle.rs).         *)
(*                                                                          *)
(* The engine sends events to the session and waits at barriers; the session *)
(* sends results to the engine; messages reach the engine over tasks of      *)
(* their own.  The session has to know from its own sets which calls an      *)
(* interruption took away, because a result nobody waits for ends the run    *)
(* and a call nobody starts holds it up for ever.                            *)
(***************************************************************************)
EXTENDS Integers, Sequences, FiniteSets, SequencesExt

CONSTANTS
    RoundCalls,  \* per tool round, the call ids the model chose
    Sends,       \* user messages the client sends while the run is active
    MessageId    \* MessageId[s]; a message sent again has the same id

ASSUME RoundCallsAssumption ==
    /\ RoundCalls \in Seq(SUBSET UNION Range(RoundCalls))
    /\ {} \notin Range(RoundCalls)
    /\ \A r \in DOMAIN RoundCalls : IsFiniteSet(RoundCalls[r])

NoRound == 0

Rounds == DOMAIN RoundCalls

Calls == UNION Range(RoundCalls)

CallsOf(r) == IF r = NoRound THEN {} ELSE RoundCalls[r]

Ids == {MessageId[s] : s \in Sends}

VARIABLES
    engine,     \* where run_claimed is; script: what it still commits and emits;
                \* batches: accepted messages whose senders have no answer yet
    settled,    \* rounds the store has as Settled
    inserted,   \* ids of the messages in the history of the run
    commands,   \* RunCommands the engine has not received
    events,     \* RunEvents the session has not received
    actions,    \* runtime_actions the session has not received
    results,    \* ToolCompletions the session has not received
    running,    \* tool executions whose answer the actor will take; a Task that was
                \* interrupted goes on at the client, but nobody listens to it
    answered,   \* executions whose answer the actor has taken and not passed on
    delivering, \* sends whose task has not submitted them yet
    queued,     \* ids in the registry's PendingMessages
    unsent,     \* sends the client has not sent
    cancelled,  \* the run's cancellation token
    session     \* the variables of run_inner

vars == <<engine, settled, inserted, commands, events, actions, results, running,
          answered, delivering, queued, unsent, cancelled, session>>

channels == <<commands, events, actions, results, answered>>

messages == <<delivering, queued, unsent>>

Started(r) == [type |-> "started", round |-> r]
Execute(r) == [type |-> "execute", round |-> r]
Result(c, interrupted, last) ==
    [type |-> "result", call |-> c, interrupted |-> interrupted, barrier |-> last]
Message(s) == [type |-> "message", id |-> MessageId[s]]
Final == [type |-> "final"]

\* CommitBarrier::BeforeContinue
HasBarrier(event) ==
    \/ event.type \in {"message", "final"}
    \/ event.type = "result" /\ event.barrier

\* RunPhase; the engine holds Finalizing while it appends what it drained.
RunPhase == CASE engine.pc \in {"closing", "final"} -> "Finalizing"
              [] engine.pc = "ended" -> "Ended"
              [] OTHER -> "Running"

Init ==
    /\ engine = [pc |-> "model", round |-> NoRound, awaited |-> {}, script |-> <<>>,
                 batches |-> {}, waiting |-> FALSE, outcome |-> "none"]
    /\ settled = {} /\ inserted = {}
    /\ commands = <<>> /\ events = <<>> /\ actions = <<>> /\ results = <<>>
    /\ running = {} /\ answered = {} /\ delivering = {} /\ queued = {} /\ unsent = Sends
    /\ cancelled = FALSE
    /\ session = [status |-> "open", error |-> "none", ready |-> <<>>,
                  completions |-> {}, completed |-> {}, completedRound |-> NoRound,
                  activeRound |-> NoRound, activeCalls |-> {},
                  interruptedRounds |-> {}, interruptedCalls |-> {},
                  pendingInjections |-> {}, seen |-> {}]

-----------------------------------------------------------------------------
(* The engine.                                                              *)

\* It has nothing to emit and waits at no barrier.
Listening == engine.script = <<>> /\ ~ engine.waiting

\* The model's stream ends with tool calls.  Commands are looked at first.
ModelCallsTools ==
    /\ engine.pc = "model" /\ Listening /\ commands = <<>>
    /\ engine.round < Len(RoundCalls)
    /\ LET r == engine.round + 1
       IN  engine' = [engine EXCEPT !.pc = "round", !.round = r,
                        !.awaited = RoundCalls[r], !.script = <<Started(r), Execute(r)>>]
    /\ UNCHANGED <<settled, inserted, channels, running, messages, cancelled, session>>

\* It ends without calls: begin_finalizing, then drain_accepted.
ModelEndsTurn ==
    /\ engine.pc = "model" /\ Listening /\ commands = <<>>
    /\ engine' = [engine EXCEPT !.pc = "ending"]
    /\ UNCHANGED <<settled, inserted, channels, running, messages, cancelled, session>>

\* Where in its channel the engine has messages, and whose they are.
BreakAt == {i \in DOMAIN commands : commands[i].type = "break"}

Accepted == {commands[i].send : i \in BreakAt}

\* The messages are taken out in the order they came; results are dropped.
DrainAccepted ==
    /\ engine.pc = "ending"
    /\ \E order \in [1..Cardinality(BreakAt) -> BreakAt] :
         /\ Range(order) = BreakAt
         /\ \A i, j \in DOMAIN order : i < j => order[i] < order[j]
         /\ engine' = [engine EXCEPT
                         !.pc = IF BreakAt = {} THEN "final" ELSE "closing",
                         !.batches = {MessageId[s] : s \in Accepted},
                         !.script = IF BreakAt = {} THEN <<Final>>
                                    ELSE [i \in DOMAIN order |-> Message(commands[order[i]].send)]]
    /\ commands' = <<>>
    /\ UNCHANGED <<settled, inserted, events, actions, results, answered, running,
                   messages, cancelled, session>>

\* Commits and emits the next event of the script.
EngineEmits ==
    /\ engine.script # <<>> /\ ~ engine.waiting
    /\ LET event == Head(engine.script)
       IN  /\ event.type = "message" => event.id \notin inserted
           /\ engine' = [engine EXCEPT !.script = Tail(@), !.waiting = HasBarrier(event)]
           /\ events' = Append(events, event)
           /\ inserted' = IF event.type = "message" THEN inserted \cup {event.id} ELSE inserted
           /\ settled' = IF event.type = "result" /\ event.barrier
                           THEN settled \cup {engine.round} ELSE settled
    /\ UNCHANGED <<commands, actions, results, answered, running, messages,
                   cancelled, session>>

\* append_one: the message is in the history already, nothing is emitted.
EngineSkipsMessage ==
    /\ engine.script # <<>> /\ ~ engine.waiting
    /\ Head(engine.script).type = "message" /\ Head(engine.script).id \in inserted
    /\ engine' = [engine EXCEPT !.script = Tail(@), !.batches = @ \ {Head(engine.script).id}]
    /\ UNCHANGED <<settled, inserted, channels, running, messages, cancelled, session>>

\* A tool round or a drain is over: the model is called again.
EngineContinues ==
    /\ Listening
    /\ \/ engine.pc = "closing"
       \/ engine.pc = "round" /\ engine.awaited = {}
    /\ engine' = [engine EXCEPT !.pc = "model"]
    /\ UNCHANGED <<settled, inserted, channels, running, messages, cancelled, session>>

Receives == Listening /\ commands # <<>> /\ (engine.pc = "model" \/ engine.awaited # {})

\* tool_round::execute commits a result it waits for and skips one it has.
TakeResult ==
    /\ Receives /\ engine.pc = "round" /\ Head(commands).type = "result"
    /\ LET c == Head(commands).call
           left == engine.awaited \ {c}
       IN  /\ c \in RoundCalls[engine.round]
           /\ engine' = IF c \notin engine.awaited THEN engine
                        ELSE [engine EXCEPT !.awaited = left,
                                !.script = <<Result(c, FALSE, left = {})>>]
    /\ commands' = Tail(commands)
    /\ UNCHANGED <<settled, inserted, events, actions, results, answered, running,
                   messages, cancelled, session>>

\* The results an interruption commits for the calls that are left.
Interruptions ==
    LET left == SetToSeq(engine.awaited)
    IN  [i \in DOMAIN left |-> Result(left[i], TRUE, i = Len(left))]

\* BreakMessages, in a round or while the model runs.
TakeBreak ==
    /\ Receives /\ Head(commands).type = "break"
    /\ engine' = [engine EXCEPT !.awaited = {},
                    !.batches = {MessageId[Head(commands).send]},
                    !.script = Interruptions \o <<Message(Head(commands).send)>>]
    /\ commands' = Tail(commands)
    /\ UNCHANGED <<settled, inserted, events, actions, results, answered, running,
                   messages, cancelled, session>>

\* The run is over.  The sender of a batch that was not answered finds the run
\* ended and leaves the message with the registry.
End(outcome) ==
    /\ engine' = [engine EXCEPT !.pc = "ended", !.awaited = {}, !.script = <<>>,
                    !.batches = {}, !.waiting = FALSE, !.outcome = outcome]
    /\ queued' = queued \cup engine.batches \cup {MessageId[s] : s \in Accepted}
    /\ commands' = <<>>
    /\ events' = Append(events, [type |-> "ended"])
    /\ UNCHANGED <<settled, inserted, actions, results, answered, running,
                   delivering, unsent, cancelled, session>>

EngineCompletes == engine.pc = "final" /\ Listening /\ End("completed")

EngineCancelled == engine.pc # "ended" /\ cancelled /\ End("cancelled")

\* A result that the engine cannot place ends the run.
EngineFails ==
    /\ Receives /\ Head(commands).type = "result"
    /\ engine.pc = "round" => Head(commands).call \notin RoundCalls[engine.round]
    /\ End("failed")

-----------------------------------------------------------------------------
(* The client, and the tasks that deliver messages.                         *)

\* The actor found the run Running and forwards the message to the session.
SendMessage(s) ==
    /\ s \in unsent /\ RunPhase = "Running" /\ session.status = "open"
    /\ unsent' = unsent \ {s}
    /\ actions' = Append(actions, s)
    /\ UNCHANGED <<engine, settled, inserted, commands, events, results, answered,
                   running, delivering, queued, cancelled, session>>

\* A tool execution ends with a result or an error: take_exec.
ToolAnswers(exec) ==
    /\ exec \in running
    /\ running' = running \ {exec}
    /\ answered' = answered \cup {exec}
    /\ UNCHANGED <<engine, settled, inserted, commands, events, actions, results,
                   messages, cancelled, session>>

\* generation.results.send
PassOnAnswer(exec) ==
    /\ exec \in answered
    /\ answered' = answered \ {exec}
    /\ results' = Append(results, exec.call)
    /\ UNCHANGED <<engine, settled, inserted, commands, events, actions, running,
                   messages, cancelled, session>>

\* Mutant of Refused: a message that was refused is forgotten.
RefusedForGood(id) == queued

\* RunClosing and RunEnded: the registry keeps the message, once.
Refused(id) == queued \cup {id}

\* registry.deliver and submit_messages, with BreakMessages.
Deliver(s) ==
    /\ s \in delivering
    /\ delivering' = delivering \ {s}
    /\ IF RunPhase = "Running"
         THEN commands' = Append(commands, [type |-> "break", send |-> s]) /\ UNCHANGED queued
         ELSE queued' = Refused(MessageId[s]) /\ UNCHANGED commands
    /\ UNCHANGED <<engine, settled, inserted, events, actions, results, answered,
                   running, unsent, cancelled, session>>

\* CancelAction: the run is cancelled and its executions are aborted.
Cancel ==
    /\ ~ cancelled /\ engine.pc # "ended"
    /\ cancelled' = TRUE /\ running' = {}
    /\ UNCHANGED <<engine, settled, inserted, channels, messages, session>>

-----------------------------------------------------------------------------
(* The session's loop: actions first, then the results it has itself, then  *)
(* events, then the results the actor passes on.                            *)

Open == session.status = "open"

\* run_inner returns an error; the run is cancelled, the executions aborted.
SessionFails(error) ==
    /\ session' = [session EXCEPT !.status = "failed", !.error = error]
    /\ cancelled' = TRUE /\ running' = {}

\* Mutant of InterruptedNow: the calls of the round are not noted.
NothingInterrupted == session.interruptedCalls

\* queue_injection: the calls without a result are out of this session's hands.
InterruptedNow == session.interruptedCalls \cup (session.activeCalls \ session.completions)

\* forward_user_message and forward_injection, into queue_injection.
HandleAction ==
    /\ Open /\ actions # <<>>
    /\ LET id == MessageId[Head(actions)]
       IN  session' = [session EXCEPT !.seen = @ \cup {id}, !.pendingInjections = @ \cup {id},
                         !.interruptedCalls = InterruptedNow,
                         !.interruptedRounds = @ \cup ({session.activeRound} \ {NoRound})]
    /\ delivering' = delivering \cup {Head(actions)}
    /\ running' = {}
    /\ actions' = Tail(actions)
    /\ UNCHANGED <<engine, settled, inserted, commands, events, results, answered,
                   queued, unsent, cancelled>>

MayHandle(type) ==
    /\ Open /\ actions = <<>> /\ session.ready = <<>>
    /\ events # <<>> /\ Head(events).type = type

HandleStarted ==
    /\ MayHandle("started")
    /\ session' = [session EXCEPT !.activeRound = Head(events).round]
    /\ events' = Tail(events)
    /\ UNCHANGED <<engine, settled, inserted, commands, actions, results, answered,
                   running, messages, cancelled>>

\* Mutant of Detached: only a round that was noted is left alone.
DetachedIfNoted(r) == r \in session.interruptedRounds

\* An injection came before the round did: its tools are not started.
Detached(r) == r \in session.interruptedRounds \/ session.pendingInjections # {}

\* start_batch skips what this round has committed already.
ToStart(r, completed) == [round : {r}, call : RoundCalls[r] \ completed]

\* Some calls have a result as soon as they are dispatched, a refused argument
\* for one; the others become executions at the client.
HandleExecute ==
    /\ MayHandle("execute")
    /\ LET r == Head(events).round
           completed == IF session.completedRound = r THEN session.completed ELSE {}
           entered == [session EXCEPT !.completed = completed, !.completedRound = r,
                         !.activeRound = r, !.activeCalls = RoundCalls[r]]
       IN  IF Detached(r)
             THEN /\ session' = [entered EXCEPT !.interruptedRounds = @ \cup {r},
                                   !.interruptedCalls = @ \cup RoundCalls[r]]
                  /\ UNCHANGED running
             ELSE \E local \in SUBSET ToStart(r, completed) :
                    /\ session' = [entered EXCEPT !.ready = SetToSeq({exec.call : exec \in local})]
                    /\ running' = running \cup (ToStart(r, completed) \ local)
    /\ events' = Tail(events)
    /\ UNCHANGED <<engine, settled, inserted, commands, actions, results, answered,
                   messages, cancelled>>

\* The round as the store has it when the event is handled, not when it was
\* sent: the engine may have committed more.
SettledByNow == session.activeRound \in settled

CommitError(event) ==
    CASE session.activeRound = NoRound -> "no active round"
      [] ~ event.interrupted /\ event.call \notin session.completions -> "no typed state"
      [] SettledByNow /\ ~ event.barrier -> "no completion barrier"
      [] OTHER -> "none"

\* The round is settled.  The calls that were interrupted stay interrupted: a
\* late answer to one of them must not reach the engine.
RoundOver(now) ==
    [now EXCEPT !.activeRound = NoRound, !.activeCalls = {},
                !.interruptedRounds = @ \ {session.activeRound}]

\* MessagesCommitted of a tool result.
HandleResultCommit ==
    /\ MayHandle("result")
    /\ LET event == Head(events)
           noted == [session EXCEPT !.completed = @ \cup {event.call},
                       !.completions = IF event.interrupted THEN @ ELSE @ \ {event.call}]
       IN  IF CommitError(event) # "none"
             THEN SessionFails(CommitError(event)) /\ UNCHANGED engine
             ELSE /\ session' = IF SettledByNow THEN RoundOver(noted) ELSE noted
                  /\ engine' = IF SettledByNow THEN [engine EXCEPT !.waiting = FALSE] ELSE engine
                  /\ UNCHANGED <<cancelled, running>>
    /\ events' = Tail(events)
    /\ UNCHANGED <<settled, inserted, commands, actions, results, answered, messages>>

\* Mutant of Undelivered: the id of the injection is not recognised.
StillUndelivered(id) == session.pendingInjections

\* pending_injections.remove
Undelivered(id) == session.pendingInjections \ {id}

\* MessagesCommitted of a runtime message.  Inside a round its barrier would be
\* dropped, and the engine would take that for the end of the session.
HandleMessageCommit ==
    /\ MayHandle("message")
    /\ session' = [session EXCEPT !.pendingInjections = Undelivered(Head(events).id)]
    /\ engine' = [engine EXCEPT !.waiting = FALSE, !.batches = @ \ {Head(events).id},
                    !.outcome = IF session.activeRound = NoRound THEN @ ELSE "failed"]
    /\ events' = Tail(events)
    /\ UNCHANGED <<settled, inserted, commands, actions, results, answered, running,
                   messages, cancelled>>

HandleFinal ==
    /\ MayHandle("final")
    /\ engine' = [engine EXCEPT !.waiting = FALSE]
    /\ events' = Tail(events)
    /\ UNCHANGED <<settled, inserted, commands, actions, results, answered, running,
                   messages, cancelled, session>>

HandleEnded ==
    /\ MayHandle("ended")
    /\ session' = [session EXCEPT !.status = "finished"]
    /\ running' = IF engine.outcome = "completed" THEN running ELSE {}
    /\ events' = Tail(events)
    /\ UNCHANGED <<engine, settled, inserted, commands, actions, results, answered,
                   messages, cancelled>>

\* Mutant of Dropped: every completion is forwarded.
NeverDropped(c) == FALSE

Dropped(c) == c \in session.interruptedCalls

\* forward_completion; now is the session without the completion in its queue.
Forward(c, now) ==
    \/ /\ Dropped(c)
       /\ session' = now
       /\ UNCHANGED <<commands, cancelled, running>>
    \/ /\ ~ Dropped(c) /\ c \in session.completions
       /\ SessionFails("duplicate")
       /\ UNCHANGED commands
    \/ /\ ~ Dropped(c) /\ c \notin session.completions
       /\ IF RunPhase = "Running"
            THEN /\ commands' = Append(commands, [type |-> "result", call |-> c])
                 /\ session' = [now EXCEPT !.completions = @ \cup {c}]
            ELSE session' = now /\ UNCHANGED commands
       /\ UNCHANGED <<cancelled, running>>

HandleCompletion ==
    /\ Open /\ actions = <<>>
    /\ \/ /\ session.ready # <<>>
          /\ Forward(Head(session.ready), [session EXCEPT !.ready = Tail(@)])
          /\ UNCHANGED results
       \/ /\ session.ready = <<>> /\ events = <<>> /\ results # <<>>
          /\ Forward(Head(results), session)
          /\ results' = Tail(results)
    /\ UNCHANGED <<engine, settled, inserted, events, actions, answered, messages>>

-----------------------------------------------------------------------------

EngineNext ==
    \/ ModelCallsTools \/ ModelEndsTurn \/ DrainAccepted
    \/ EngineEmits \/ EngineSkipsMessage \/ EngineContinues
    \/ TakeResult \/ TakeBreak
    \/ EngineCompletes \/ EngineCancelled \/ EngineFails

SessionNext ==
    \/ HandleAction \/ HandleStarted \/ HandleExecute \/ HandleResultCommit
    \/ HandleMessageCommit \/ HandleFinal \/ HandleEnded \/ HandleCompletion

Next ==
    \/ EngineNext \/ SessionNext
    \/ \E s \in Sends : SendMessage(s) \/ Deliver(s)
    \/ \E exec \in running : ToolAnswers(exec)
    \/ \E exec \in answered : PassOnAnswer(exec)
    \/ Cancel

Spec == Init /\ [][Next]_vars

-----------------------------------------------------------------------------
(* Properties.                                                              *)

Events ==
    [type : {"started", "execute"}, round : Rounds]
        \cup [type : {"result"}, call : Calls, interrupted : BOOLEAN, barrier : BOOLEAN]
        \cup [type : {"message"}, id : Ids]
        \cup [type : {"final", "ended"}]

TypeOK ==
    /\ engine.pc \in {"model", "round", "ending", "closing", "final", "ended"}
    /\ engine.round \in Rounds \cup {NoRound} /\ engine.awaited \subseteq CallsOf(engine.round)
    /\ engine.script \in Seq(Events) /\ engine.batches \subseteq Ids
    /\ settled \subseteq Rounds /\ inserted \subseteq Ids /\ queued \subseteq Ids
    /\ commands \in Seq([type : {"break"}, send : Sends] \cup [type : {"result"}, call : Calls])
    /\ events \in Seq(Events) /\ actions \in Seq(Sends) /\ results \in Seq(Calls)
    /\ running \subseteq [round : Rounds, call : Calls]
    /\ answered \subseteq [round : Rounds, call : Calls] /\ session.ready \in Seq(Calls)
    /\ delivering \subseteq Sends /\ unsent \subseteq Sends
    /\ session.activeRound \in Rounds \cup {NoRound}
    /\ session.activeCalls \subseteq CallsOf(session.activeRound)
    /\ session.completions \subseteq Calls /\ session.pendingInjections \subseteq Ids

\* Nothing is on its way between engine, session and client.
Quiet ==
    /\ session.status = "open" /\ ~ cancelled
    /\ Listening /\ commands = <<>> /\ events = <<>> /\ actions = <<>> /\ results = <<>>
    /\ running = {} /\ answered = {} /\ session.ready = <<>> /\ delivering = {}

\* The client has sent a message twice, which a session does not recognise.
SentAgain == \E s, t \in Sends \ unsent : s # t /\ MessageId[s] = MessageId[t]

\* A tool round is never left waiting for results that nobody will produce, as
\* long as every message was taken by the run and none was sent again
\* (output.rs: an id retained from an earlier round would make "tool_round wait
\* forever").
RoundsGetTheirResults == Quiet /\ queued = {} /\ ~ SentAgain => engine.awaited = {}

\* The same when a message was refused because the run was finalizing (output.rs:
\* the round is detached because "the accepted injection is still pending").
DetachedRoundsAreBroken == Quiet => engine.awaited = {}

\* Engine and session agree on the rounds.  The engine is never sent a result
\* it cannot place, which would end the run, unless a message was sent again;
\* and what it commits as a tool's result is what the session forwarded, once.
ResultsFindTheirRound ==
    /\ ~ SentAgain => engine.outcome # "failed"
    /\ session.error \notin {"no active round", "no typed state", "duplicate"}

\* Only the commit that settles a round is handled as the end of the round
\* ("settled tool round has no completion barrier", an assertion of the session).
SettlingCommitHasBarrier == session.error # "no completion barrier"

\* A tool runs at the client only while its round waits for its result, or
\* while the end of the run is on its way to the session, unless a message
\* was sent again.
RunningToolsAreAwaited ==
    \A exec \in running :
        \/ SentAgain
        \/ engine.round = exec.round /\ exec.call \in engine.awaited
        \/ engine.pc = "ended"
        \/ session.status # "open"

\* A message the session took is on its way, in the history, or waits for the
\* next run, whatever happens to the run.
MessagesAreKept ==
    \A id \in session.seen :
        \/ id \in inserted \cup queued \cup engine.batches
        \/ \E s \in delivering \cup Accepted : MessageId[s] = id

=============================================================================
