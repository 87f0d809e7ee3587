--------------------------- MODULE TransportActor ---------------------------
(***************************************************************************)
(* cursor-core/src/cursor/conversation/runtime.rs: the actor that owns one  *)
(* bidirectional Cursor request, composed with the append handlers          *)
(* (api/cursor/bidi.rs), the sequence-ordered inbox (transport/inbox.rs)    *)
(* and the task of each run generation it starts.                           *)
(*                                                                          *)
(* Append handlers put messages on the actor's channel in any order; the    *)
(* inbox releases them by sequence number.  A run request starts a new      *)
(* generation and supersedes the one before it, which is told to stop but   *)
(* goes on for a while.  Generations report their end on the same channel.  *)
(* After a completed turn the actor waits for another message for a moment  *)
(* (IdleTimeout), then closes the transport: it stops admitting, waits for  *)
(* the appends already admitted, takes what they queued, and only then ends *)
(* the client's stream.                                                     *)
(*                                                                          *)
(* What a run does is abstracted to its RunPhase and its outcome (RunEngine *)
(* models it); tool traffic does not reach the state below.                 *)
(***************************************************************************)
EXTENDS TransportLifecycle, OrderedInbox

CONSTANTS
    Kind,       \* Kind[a]: what append a may carry
    Seqno,      \* Seqno[a]: its sequence number; a retry repeats one
    ChannelCapacity \* of the actor's mpsc channel: 128 in the code

Kinds == {"RunRequest",         \* starts a generation
          "ConflictingRequest", \* a RunRequest for another conversation
          "UserMessage",        \* ConversationAction::UserMessageAction
          "CancelAction"}       \* ConversationAction::CancelAction

ASSUME KindAssumption == Kind \in [Appends -> SUBSET Kinds]
ASSUME SeqnoAssumption == Seqno \in [Appends -> Nat]
ASSUME CapacityAssumption == ChannelCapacity \in Nat \ {0}

\* Only a message starts a generation, so this many are enough.
Generations == 1 .. Cardinality(Appends)

NoGeneration == 0

RunFinishes == {"TurnCompleted", "Success", "Failed", "Cancelled"}

NoFinish == [generation |-> NoGeneration, finish |-> "none"]

VARIABLES
    append,             \* per append: where its handler stands
    channel,            \* TransportCommands the actor has not received
    inbox,              \* OrderedInbox of appends
    ready,              \* appends the last push released, not handled yet
    actor,              \* the actor's task: where it stands
    exit,               \* why it left its loop
    draining,
    waitingForAction,
    pendingFinish,
    current,            \* the RunGeneration in `current`, or NoGeneration
    nextGeneration,
    run,                \* per generation: its RunGeneration and its task
    output,             \* OutputHub: open, or the finish that closed it
    stream              \* the body stream of RunSSE: read, dropped, or the
                        \* task its drop spawned has told the actor

actorVars == <<inbox, ready, actor, exit, draining, waitingForAction,
               pendingFinish, current, nextGeneration>>

vars == <<lifecycleVars, actorVars, append, channel, run, output, stream>>

Commands ==
    [type : {"Append"}, append : Appends]
        \cup [type : {"RunFinished"}, generation : Generations, finish : RunFinishes]
        \cup {[type |-> "Disconnect"]}

\* spawn_run_request, from its start to its end.
TaskState == {"none",
              "waiting",      \* for the previous generation to finish
              "preparing",    \* compile::prepare, deliver, take_pending
              "prepared",     \* seen not superseded, the run not installed
              "installed",    \* generation.run is set, superseded not seen again
              "running",      \* engine and output are running
              "returned",     \* output.run returned
              "released",     \* the engine's task joined, the run released
              "reporting",    \* seen not superseded, RunFinished not sent
              "done"}

Runs == [task : TaskState,
         previous : Generations \cup {NoGeneration},
         superseded : BOOLEAN,
         handle : BOOLEAN,          \* generation.run is Some
         phase : {"none", "Running", "Finalizing", "Ended"},
         outcome : {"none", "Completed", "Cancelled", "Failed"},
         cancelled : BOOLEAN,       \* the run's cancellation token
         finish : RunFinishes \cup {"none"}]

NoRun == [task |-> "none", previous |-> NoGeneration, superseded |-> FALSE,
          handle |-> FALSE, phase |-> "none", outcome |-> "none",
          cancelled |-> FALSE, finish |-> "none"]

TypeOK ==
    /\ LifecycleTypeOK
    /\ append \in [Appends -> {"idle", "admitted", "sent", "returned"}]
    /\ channel \in Seq(Commands)
    /\ inbox.next \in Nat
    /\ \A s \in DOMAIN inbox.pending : inbox.pending[s] \in Appends
    /\ ready \in Seq(Appends)
    /\ actor \in {"looping", "replacing", "disconnecting", "exited", "ended"}
    /\ exit \in {"none", "drained", "disconnected", "conflict"}
    /\ {draining, waitingForAction} \subseteq BOOLEAN
    /\ pendingFinish \in {NoFinish} \cup
          [generation : Generations, finish : RunFinishes \ {"TurnCompleted"}]
    /\ current \in Generations \cup {NoGeneration}
    /\ nextGeneration \in 1 .. Cardinality(Appends) + 1
    /\ run \in [Generations -> Runs]
    /\ output \in {"open", "Success", "Failed", "Cancelled"}
    /\ stream \in {"read", "dropped", "told"}

Init ==
    /\ LifecycleInit
    /\ append = [a \in Appends |-> "idle"]
    /\ channel = <<>> /\ inbox = StartingAt(0) /\ ready = <<>>
    /\ actor = "looping" /\ exit = "none"
    /\ draining = FALSE /\ waitingForAction = FALSE
    /\ pendingFinish = NoFinish
    /\ current = NoGeneration /\ nextGeneration = 1
    /\ run = [g \in Generations |-> NoRun]
    /\ output = "open" /\ stream = "read"

-----------------------------------------------------------------------------
(* TransportHandle::command, from whichever task: it waits while the channel *)
(* is full.  The receiver lives until the actor's task has ended; from then  *)
(* on it fails at once.                                                      *)

HasRoom == actor = "ended" \/ Len(channel) < ChannelCapacity

Sent(command) ==
    IF actor = "ended" THEN channel ELSE Append(channel, command)

Send(command) == HasRoom /\ channel' = Sent(command)

-----------------------------------------------------------------------------
(* The append handlers: bidi::append.                                       *)

AdmitAppend(a) ==
    /\ append[a] = "idle"
    /\ Admit(a)
    /\ append' = [append EXCEPT ![a] = "admitted"]
    /\ UNCHANGED <<actorVars, channel, run, output, stream>>

RefuseAppend(a) ==
    /\ append[a] = "idle"
    /\ state # "Open"
    /\ append' = [append EXCEPT ![a] = "returned"]
    /\ UNCHANGED <<lifecycleVars, actorVars, channel, run, output, stream>>

SendAppend(a) ==
    /\ append[a] = "admitted"
    /\ Send([type |-> "Append", append |-> a])
    /\ append' = [append EXCEPT ![a] = "sent"]
    /\ UNCHANGED <<lifecycleVars, actorVars, run, output, stream>>

\* The handler returns and its admission is dropped, also when it fails
\* before it sends (conflicting ids, an output already closed, no actor) and
\* when its client goes away while it waits for room.
ReturnAppend(a) ==
    /\ append[a] \in {"admitted", "sent"}
    /\ DropAdmission(a)
    /\ append' = [append EXCEPT ![a] = "returned"]
    /\ UNCHANGED <<actorVars, channel, run, output, stream>>

\* The drop of the last admission notifies the actor's wait.
NotifyActor(a) ==
    /\ NotifyDrained(a)
    /\ UNCHANGED <<actorVars, append, channel, run, output, stream>>

\* LocalRunGuard: the body stream of RunSSE is dropped before its last frame.
DropStream ==
    /\ stream = "read"
    /\ stream' = "dropped"
    /\ UNCHANGED <<lifecycleVars, actorVars, append, channel, run, output>>

\* The task that the drop spawned.
SendDisconnect ==
    /\ stream = "dropped"
    /\ Send([type |-> "Disconnect"])
    /\ stream' = "told"
    /\ UNCHANGED <<lifecycleVars, actorVars, append, run, output>>

-----------------------------------------------------------------------------
(* The actor receives a command.                                            *)

InLoop == actor = "looping" /\ ready = <<>>

\* Mutant of MayReceive: the wait for admissions is not in a select with
\* recv(), the actor only waits.
MayReceiveOnceQuiet ==
    /\ InLoop /\ channel # <<>>
    /\ draining => admissions = 0 /\ waiter = "absent"

\* Which branch of the loop's head may take a command: receiver.recv() when
\* the actor is not draining, or in the select with the wait for admissions;
\* try_recv() once it has marked the transport Draining.
MayReceive ==
    /\ InLoop /\ channel # <<>>
    /\ draining => IF admissions # 0 THEN waiter \in {"absent", "asleep"}
                                     ELSE waiter = "asleep" \/ state = "Draining"

\* The command won the select, which drops the wait if it was begun.
LeaveLoopHead ==
    IF waiter = "absent" THEN UNCHANGED lifecycleVars ELSE LeaveWait

ReceiveAppend ==
    /\ MayReceive /\ Head(channel).type = "Append"
    /\ LET a == Head(channel).append
           pushed == Push(inbox, Seqno[a], a)
       IN  /\ inbox' = pushed.inbox
           /\ ready' = pushed.ready
    /\ channel' = Tail(channel)
    /\ LeaveLoopHead
    /\ UNCHANGED <<actor, exit, draining, waitingForAction, pendingFinish,
                   current, nextGeneration, append, run, output, stream>>

\* Mutant of IsCurrent: a report is taken whichever generation sends it.
AnyGeneration(g) == TRUE

\* current.is_none_or(|current| current.id != generation) skips the report.
IsCurrent(g) == current = g

ReceiveRunFinished ==
    /\ MayReceive /\ Head(channel).type = "RunFinished"
    /\ LET report == Head(channel)
       IN  \/ /\ ~ IsCurrent(report.generation)
              /\ LeaveLoopHead
              /\ UNCHANGED <<draining, waitingForAction, pendingFinish>>
           \/ /\ IsCurrent(report.generation)
              /\ report.finish = "TurnCompleted"
              /\ pendingFinish' = NoFinish
              /\ draining' = FALSE /\ waitingForAction' = TRUE
              /\ LeaveLoopHead
           \/ /\ IsCurrent(report.generation)
              /\ report.finish # "TurnCompleted"
              /\ pendingFinish' = [generation |-> report.generation,
                                   finish |-> report.finish]
              /\ draining' = TRUE /\ waitingForAction' = FALSE
              /\ IF state = "Open" THEN BeginClose ELSE LeaveLoopHead
    /\ channel' = Tail(channel)
    /\ UNCHANGED <<inbox, ready, actor, exit, current, nextGeneration, append,
                   run, output, stream>>

\* superseded.cancel() of the current generation, if there is one.
SupersedeCurrent ==
    run' = IF current = NoGeneration THEN run
                                     ELSE [run EXCEPT ![current].superseded = TRUE]

\* Mutant of CancelCurrent: the replaced run is only marked superseded.
CancelNobody == run

\* RunHandle::cancel of the current generation, if its run is installed.
CancelCurrent ==
    IF current # NoGeneration /\ run[current].handle
      THEN [run EXCEPT ![current].cancelled = TRUE]
      ELSE run

ReceiveDisconnect ==
    /\ MayReceive /\ Head(channel).type = "Disconnect"
    /\ SupersedeCurrent
    /\ actor' = "disconnecting"
    /\ channel' = Tail(channel)
    /\ LeaveLoopHead
    /\ UNCHANGED <<inbox, ready, exit, draining, waitingForAction, pendingFinish,
                   current, nextGeneration, append, output, stream>>

CloseOutput(finish) == output' = IF output = "open" THEN finish ELSE output

TurnIsCompleted ==
    \/ waitingForAction
    \/ /\ current # NoGeneration
       /\ run[current].handle => run[current].phase # "Running"

FinishDisconnect ==
    /\ actor = "disconnecting"
    /\ run' = CancelCurrent
    /\ CloseOutput(IF TurnIsCompleted THEN "Success" ELSE "Cancelled")
    /\ actor' = "exited" /\ exit' = "disconnected"
    /\ UNCHANGED <<lifecycleVars, inbox, ready, draining, waitingForAction,
                   pendingFinish, current, nextGeneration, append, channel, stream>>

-----------------------------------------------------------------------------
(* The actor waits, and closes.                                             *)

\* CONTINUATION_IDLE_TIMEOUT.  The flag is set by a report of the current
\* generation, so there always is one.
ContinuationIdleTimeout ==
    /\ InLoop /\ waitingForAction /\ ~ draining
    /\ IF state = "Open" THEN BeginClose ELSE UNCHANGED lifecycleVars
    /\ pendingFinish' = [generation |-> current, finish |-> "Success"]
    /\ draining' = TRUE /\ waitingForAction' = FALSE
    /\ UNCHANGED <<inbox, ready, actor, exit, current, nextGeneration, append,
                   channel, run, output, stream>>

WaitAdmissionsDrained ==
    /\ InLoop /\ draining
    /\ \/ admissions # 0 /\ StartWait
       \/ ReadCounter
       \/ Poll
       \/ WakeUp
    /\ UNCHANGED <<actorVars, append, channel, run, output, stream>>

DeclareDraining ==
    /\ InLoop /\ draining
    /\ MarkDraining
    /\ UNCHANGED <<actorVars, append, channel, run, output, stream>>

\* Mutant of LastLook: the transport is not marked Draining first.
LastLookEarly == channel = <<>>

\* admissions_drained(), mark_draining() and then an empty try_recv().
LastLook == admissions = 0 /\ state = "Draining" /\ channel = <<>>

\* finish_pending, then the loop is left.
DrainEnd ==
    /\ InLoop /\ draining /\ waiter = "absent"
    /\ LastLook
    /\ IF pendingFinish # NoFinish /\ pendingFinish.generation = current
         THEN CloseOutput(pendingFinish.finish)
         ELSE UNCHANGED output
    /\ pendingFinish' = NoFinish
    /\ actor' = "exited" /\ exit' = "drained"
    /\ UNCHANGED <<lifecycleVars, inbox, ready, draining, waitingForAction,
                   current, nextGeneration, append, channel, run, stream>>

\* The task ends: TransportActorGuard closes the transport, the receiver goes.
ActorEnds ==
    /\ actor = "exited"
    /\ Close
    /\ actor' = "ended" /\ channel' = <<>>
    /\ UNCHANGED <<inbox, ready, exit, draining, waitingForAction, pendingFinish,
                   current, nextGeneration, append, run, output, stream>>

-----------------------------------------------------------------------------
(* The actor handles a released message.                                    *)

\* Mutant of ReopenForRequest: a request found while draining does not stop
\* the drain.
KeepDraining == UNCHANGED <<lifecycleVars, draining, pendingFinish>>

\* A run request found while draining reopens the transport.
ReopenForRequest ==
    IF draining
      THEN Reopen /\ draining' = FALSE /\ pendingFinish' = NoFinish
      ELSE UNCHANGED <<lifecycleVars, draining, pendingFinish>>

\* start_generation, first half: the generation before this one is told.
HandleRunRequest ==
    /\ actor = "looping" /\ ready # <<>> /\ "RunRequest" \in Kind[Head(ready)]
    /\ waitingForAction' = FALSE
    /\ ReopenForRequest
    /\ SupersedeCurrent
    /\ actor' = "replacing"
    /\ ready' = Tail(ready)
    /\ UNCHANGED <<inbox, exit, current, nextGeneration, append, channel, output, stream>>

\* start_generation, second half.
StartGeneration ==
    /\ actor = "replacing"
    /\ run' = [CancelCurrent EXCEPT ![nextGeneration] =
                  [NoRun EXCEPT !.task = "waiting", !.previous = current]]
    /\ current' = nextGeneration
    /\ nextGeneration' = nextGeneration + 1
    /\ actor' = "looping"
    /\ UNCHANGED <<lifecycleVars, inbox, ready, exit, draining, waitingForAction,
                   pendingFinish, append, channel, output, stream>>

\* set_conversation_id fails: two requests for different conversations were
\* admitted side by side.
HandleConflictingRequest ==
    /\ actor = "looping" /\ ready # <<>> /\ "ConflictingRequest" \in Kind[Head(ready)]
    /\ waitingForAction' = FALSE
    /\ ReopenForRequest
    /\ CloseOutput("Failed")
    /\ actor' = "exited" /\ exit' = "conflict"
    /\ ready' = <<>>
    /\ UNCHANGED <<inbox, current, nextGeneration, append, channel, run, stream>>

\* The run takes a user message while it is Running and its output is there
\* to receive it.
TakesUserMessage(r) == r.handle /\ r.phase = "Running" /\ r.task = "running"

\* Delivered to the active run, or dropped when there never was one, or the
\* start of the next generation: without reopening a transport that drains.
HandleUserMessage ==
    /\ actor = "looping" /\ ready # <<>> /\ "UserMessage" \in Kind[Head(ready)]
    /\ ready' = Tail(ready)
    /\ IF current = NoGeneration \/ TakesUserMessage(run[current])
         THEN UNCHANGED <<waitingForAction, run, actor>>
         ELSE /\ waitingForAction' = FALSE
              /\ SupersedeCurrent
              /\ actor' = "replacing"
    /\ UNCHANGED <<lifecycleVars, inbox, exit, draining, pendingFinish, current,
                   nextGeneration, append, channel, output, stream>>

HandleCancelAction ==
    /\ actor = "looping" /\ ready # <<>> /\ "CancelAction" \in Kind[Head(ready)]
    /\ ready' = Tail(ready)
    /\ run' = CancelCurrent
    /\ UNCHANGED <<lifecycleVars, inbox, actor, exit, draining, waitingForAction,
                   pendingFinish, current, nextGeneration, append, channel, output,
                   stream>>

-----------------------------------------------------------------------------
(* The task of a generation: spawn_run_request.                             *)

GenerationStep(g, changed) ==
    /\ run' = [run EXCEPT ![g] = changed]
    /\ UNCHANGED <<lifecycleVars, actorVars, append, output, stream>>

PreviousFinished(g) ==
    run[g].previous # NoGeneration => run[run[g].previous].task = "done"

\* A superseded generation that has no run yet returns; FinishGeneration lets
\* the next one go ahead.
Abandon(g) ==
    /\ run[g].task \in {"waiting", "preparing"} /\ run[g].superseded
    /\ GenerationStep(g, [run[g] EXCEPT !.task = "done"])
    /\ UNCHANGED channel

BeginPreparing(g) ==
    /\ run[g].task = "waiting" /\ ~ run[g].superseded
    /\ PreviousFinished(g)
    /\ GenerationStep(g, [run[g] EXCEPT !.task = "preparing"])
    /\ UNCHANGED channel

\* The preparation fails, or another run of the conversation took its messages.
EndWithoutRun(g, finish) ==
    /\ run[g].task = "preparing" /\ ~ run[g].superseded
    /\ GenerationStep(g, [run[g] EXCEPT !.task = "reporting", !.finish = finish])
    /\ UNCHANGED channel

Prepare(g) ==
    /\ run[g].task = "preparing" /\ ~ run[g].superseded
    /\ GenerationStep(g, [run[g] EXCEPT !.task = "prepared"])
    /\ UNCHANGED channel

\* *generation.run.lock() = Some(run_handle)
InstallRun(g) ==
    /\ run[g].task = "prepared"
    /\ GenerationStep(g, [run[g] EXCEPT !.task = "installed", !.handle = TRUE,
                                        !.phase = "Running"])
    /\ UNCHANGED channel

\* Mutant of Launched: superseded is not looked at again.
LaunchedUnchecked(r) == [r EXCEPT !.task = "running"]

\* A generation superseded before its handle could be seen cancels itself.
Launched(r) ==
    IF r.superseded
      THEN [r EXCEPT !.task = "done", !.handle = FALSE, !.cancelled = TRUE,
                     !.phase = "Ended"]
      ELSE [r EXCEPT !.task = "running"]

Launch(g) ==
    /\ run[g].task = "installed"
    /\ GenerationStep(g, Launched(run[g]))
    /\ UNCHANGED channel

\* The engine between its last model call and the end of the turn.
EngineBeginsFinalizing(g) ==
    /\ run[g].task \in {"running", "returned"} /\ run[g].phase = "Running"
    /\ GenerationStep(g, [run[g] EXCEPT !.phase = "Finalizing"])
    /\ UNCHANGED channel

EngineResumes(g) ==
    /\ run[g].phase = "Finalizing"
    /\ GenerationStep(g, [run[g] EXCEPT !.phase = "Running"])
    /\ UNCHANGED channel

EngineEnds(g, outcome) ==
    /\ run[g].task \in {"running", "returned"}
    /\ run[g].phase \in {"Running", "Finalizing"}
    /\ outcome = "Completed" => run[g].phase = "Finalizing"
    /\ outcome = "Cancelled" => run[g].cancelled
    /\ GenerationStep(g, [run[g] EXCEPT !.phase = "Ended", !.outcome = outcome])
    /\ UNCHANGED channel

\* ConversationOutput::run returns: superseded, at the engine's end, or with
\* an error of its own, upon which it cancels the run unless it is superseded.
OutputStops(g) ==
    /\ run[g].task = "running" /\ run[g].superseded
    /\ GenerationStep(g, [run[g] EXCEPT !.task = "returned", !.finish = "Cancelled"])
    /\ UNCHANGED channel

OutputCompletes(g) ==
    /\ run[g].task = "running" /\ run[g].phase = "Ended" /\ ~ run[g].superseded
    /\ GenerationStep(g, [run[g] EXCEPT !.task = "returned", !.finish =
            IF run[g].outcome = "Completed" THEN "TurnCompleted" ELSE run[g].outcome])
    /\ UNCHANGED channel

OutputFails(g) ==
    /\ run[g].task = "running" /\ ~ run[g].superseded
    /\ GenerationStep(g, [run[g] EXCEPT !.task = "returned", !.finish = "Failed",
                                        !.cancelled = TRUE])
    /\ UNCHANGED channel

\* core_run.await, registry.release, generation.run = None
Release(g) ==
    /\ run[g].task = "returned" /\ run[g].phase = "Ended"
    /\ GenerationStep(g, [run[g] EXCEPT !.task = "released", !.handle = FALSE])
    /\ UNCHANGED channel

CheckSuperseded(g) ==
    /\ run[g].task = "released"
    /\ GenerationStep(g, [run[g] EXCEPT !.task =
            IF run[g].superseded THEN "done" ELSE "reporting"])
    /\ UNCHANGED channel

Report(g) ==
    /\ run[g].task = "reporting"
    /\ GenerationStep(g, [run[g] EXCEPT !.task = "done"])
    /\ Send([type |-> "RunFinished", generation |-> g, finish |-> run[g].finish])

-----------------------------------------------------------------------------

HandlerNext ==
    \E a \in Appends :
        \/ AdmitAppend(a) \/ RefuseAppend(a) \/ SendAppend(a)
        \/ ReturnAppend(a) \/ NotifyActor(a)

ActorNext ==
    \/ ReceiveAppend \/ ReceiveRunFinished \/ ReceiveDisconnect \/ FinishDisconnect
    \/ WaitAdmissionsDrained \/ DeclareDraining \/ DrainEnd \/ ActorEnds
    \/ HandleRunRequest \/ StartGeneration \/ HandleConflictingRequest
    \/ HandleUserMessage \/ HandleCancelAction

\* What the generation's task does without waiting for a model or a client.
TaskNext(g) ==
    \/ Abandon(g) \/ BeginPreparing(g) \/ InstallRun(g) \/ Launch(g)
    \/ OutputStops(g) \/ OutputCompletes(g)
    \/ Release(g) \/ CheckSuperseded(g) \/ Report(g)

EngineNext(g) ==
    \/ Prepare(g)
    \/ \E finish \in {"Failed", "Success"} : EndWithoutRun(g, finish)
    \/ EngineBeginsFinalizing(g) \/ EngineResumes(g)
    \/ \E outcome \in {"Completed", "Cancelled", "Failed"} : EngineEnds(g, outcome)
    \/ OutputFails(g)

Next ==
    \/ HandlerNext \/ DropStream \/ SendDisconnect \/ ActorNext \/ ContinuationIdleTimeout
    \/ \E g \in Generations : TaskNext(g) \/ EngineNext(g)

Spec == Init /\ [][Next]_vars

\* The runtime polls every task that can go on and fires the idle timer; an
\* append handler that has sent returns, but no client need give up one that
\* waits for room; those who wait for room get it in their turn (tokio's mpsc
\* is first come, first served: as each sends once, weak fairness says as much);
\* a cancelled engine ends, because it waits for nothing without also waiting
\* for its cancellation token.  Nothing obliges a model or a client to answer.
Fairness ==
    /\ \A a \in Appends : /\ WF_vars(SendAppend(a))
                           /\ WF_vars(append[a] = "sent" /\ ReturnAppend(a))
                           /\ WF_vars(NotifyActor(a))
    /\ WF_vars(SendDisconnect)
    /\ WF_vars(ActorNext)
    /\ WF_vars(ContinuationIdleTimeout)
    /\ \A g \in Generations :
         /\ WF_vars(TaskNext(g))
         /\ WF_vars(run[g].cancelled /\ EngineEnds(g, "Cancelled"))

FairSpec == Spec /\ Fairness

-----------------------------------------------------------------------------
(* Properties.                                                              *)

\* When the actor ends the stream after a drain, no append it acknowledged or
\* is about to acknowledge is left behind unhandled.
DrainLosesNothing ==
    exit = "drained" =>
        /\ holders = {}
        /\ \A i \in 1 .. Len(channel) : channel[i].type # "Append"

\* A drain ends the client's stream, and with what the generation that is
\* current reported; the actor never leaves it to nobody.
StreamEndsWithActor ==
    exit = "drained" =>
        output = IF run[current].finish = "TurnCompleted"
                   THEN "Success" ELSE run[current].finish

\* The stream is never ended under a turn that nobody superseded.
NoTurnCutOff ==
    exit = "drained" =>
        \A g \in Generations : run[g].superseded \/ run[g].task \in {"none", "done"}

\* A run whose generation was superseded has been told to stop, whichever of
\* the actor and the generation's task looked first: no replaced run keeps on
\* calling its model and running tools unnoticed.
SupersededRunsAreCancelled ==
    actor \notin {"replacing", "disconnecting"} =>
        \A g \in Generations :
            run[g].superseded /\ run[g].task = "running" => run[g].cancelled

\* Whoever waits for room on the actor's channel gets it, or learns that the
\* actor is gone: an append handler, which holds an admission the actor may be
\* waiting for; a generation that reports, for whose end the next one waits; and
\* the task that tells of a dropped stream.
SendersGoOn ==
    /\ \A a \in Appends : append[a] = "admitted" ~> append[a] = "returned"
    /\ \A g \in Generations : run[g].task = "reporting" ~> run[g].task = "done"
    /\ stream = "dropped" ~> stream = "told"

\* A drain comes to an end: the stream is ended or a request goes on with it.
DrainEnds == draining ~> (~ draining \/ exit # "none")

\* After a disconnect the actor ends and every run it started stops, unless
\* the actor is gone already, over a conflicting request or leaving the stream
\* to nobody (the violation of StreamEndsWithActor): nobody tells the run then.
DisconnectStopsEverything ==
    stream = "dropped" ~>
        /\ actor = "ended"
        /\ \/ exit = "conflict"
           \/ output = "open"
           \/ \A g \in Generations : run[g].task \in {"none", "done"}

=============================================================================
