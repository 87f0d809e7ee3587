# AnyBridge: verification of the Cursor core and the sidecar

AnyBridge lets editors and agents (Cursor, Codex, Claude Code, Antigravity ...) talk to model
providers of the user's choice. This directory holds TLA+ models of the part of it that is
concurrent and stateful, the TLC configurations that check them on small instances, and proofs
that TLAPS checks for every value of the constants. Every definition is translated from the source;
`PROJECT.json` gives, under `map`, the lines each one stands for, and under `hazards` the places
of the code that are hard to test, with the properties that watch them.

    tlc -workers 2 -config MC_ConversationStore.cfg MC_ConversationStore     # one of the runs
    tlapm TransportActor_proofs.tla                                          # one of the proofs

## 1. The system

### 1.1 The Cursor core (`cursor-core/`, Rust)

Cursor speaks a bidirectional protocol with its server over two kinds of HTTP/2 call: `RunSSE`, one
long response stream per request id, and `BidiAppend`, one short request per client message, each
with a sequence number. The core answers instead of the server.

| component | state it keeps | operations | what is hard |
|---|---|---|---|
| **Transport lifecycle** `cursor/transport/lifecycle.rs` | `Open / Closing / Draining / Closed`, the count of admitted appends, a `Notify` | `admit`, `drop` of an admission, `begin_close`, `wait_admissions_drained`, `mark_draining`, `reopen`, `close` | the actor sleeps on a notification that a handler sends while another admits; a lost wake-up, or an append admitted after the last look |
| **Inbox** `cursor/transport/inbox.rs` | next sequence number, a map of what came early | `push` | messages overtake each other, are sent twice, are lost |
| **Output hub** `cursor/transport/output.rs` | the frames so far, a channel per subscriber, closed or not | `emit`, `subscribe`, `close` | a subscriber that joins while frames are written |
| **Transport registry** `cursor/transport/registry.rs`, `handle.rs` | request id -> transport, request id -> mark of an upstream run, a `Notify` for those who wait for a route | `get_or_create_for_append`, the task that removes a transport, `mark_upstream`, `wait_route`, `finish_upstream` | two maps under two locks; a closing transport is replaced under the same id while handlers hold the old one |
| **Runtime actor** `cursor/conversation/runtime.rs` with `api/cursor/bidi.rs`, `run_sse.rs` | the current generation, the wait for the next action, the pending finish, draining or not | one `select!` loop over commands, disconnect, the idle timer; generations as tasks | reports and requests race; a superseded generation is cancelled by whoever comes second |
| **Output session** `cursor/conversation/output.rs` | the active round, active and interrupted calls, injections not yet delivered | events of the run, client actions, completions of tools | three channels without an order among them; ids reused by providers |
| **Conversation registry** `cursor/conversation/registry.rs`, `delivery.rs`, `subagents.rs` | active runs per conversation, pending messages, completions notified | `register`, `deliver`, `release` | a message sent while a run ends must be read by the next one |
| **Run engine** `run/engine.rs`, `tool_round.rs`, `handle.rs`, `model_cycle.rs`, `compaction.rs` | phase of the run, its checkpoint, the round's missing results | model loop, tool round, break by a message, closing drain, compaction | messages arrive at each of its steps |
| **Attempt** `cursor/compile/run.rs`, `conversation/pending.rs` | the plan: base checkpoint, additions | anchor, match a prefix, take pending messages | a retry finds what an earlier attempt left |
| **Store** `store/*.rs` | conversations, runs, checkpoints, messages, rounds, calls, anchors (SQLite) | one transaction per method, serialised by `writer.rs` | callers hold ids read in an earlier transaction; crashes between two |
| **Tools** `cursor/tools/` | edit queue per path, executions in flight | dispatch, schedule, translate results | edits of one file in order |
| **Checkpoint worker** `cursor/checkpoint/` | the client's copy of the history | build, publish, barrier | publication lags behind the commit |
| **Providers, search, plugins, services, control, local app** | connections, caches, worker processes, settings | HTTP streams, JSON-RPC, CRUD | restarts of plugin workers; the rest is I/O |

How they interact, in one run:

1. `RunSSE` finds or creates a transport and spawns its actor. `BidiAppend` asks the lifecycle for
   an admission, sends a command over the actor's channel, waits for the acknowledgement and drops
   the admission.
2. The actor puts the message through the inbox. A run request or a user message becomes a new
   *generation*: a task that waits for the previous one, prepares (compile, anchor, plan),
   launches an engine and an output session, waits for both and reports `RunFinished`.
3. The engine claims the conversation in the store, appends the initial messages, calls the
   model and commits answers and tool results; each commit is an event to the output session, which
   starts tools at the client, publishes frames into the output hub and gives results back to
   the engine over the run's command channel.
4. A user message during a run goes through the conversation registry: to the run's handle if it
   still takes messages (it then breaks the model's turn or its tool round), else to the list of the
   next run.
5. When nothing is left, the actor closes, waits for the admissions, declares Draining, looks
   once more at its channel, closes the output with the finish of the last generation and leaves.

What makes it correct:

- lifecycle and actor: an acknowledged append is never dropped, a drain ends, the client gets an end
  of stream, a completed turn is not cut off, a replaced run is told to stop;
- inbox: each message once and in order, none kept without a reason;
- store: one owner per conversation, which works on its current checkpoint; runs that lost
  it change nothing; outcomes are final; histories read back as written;
- attempts: asking again with the same input neither asks the model twice on different histories
  nor fails because of what the first attempt has stored;
- engine and session: a tool round gets exactly the results it waits for, no tool runs unheard, no
  message is lost, the session recognises all commits;
- registry and hub: whoever waits for a route is woken when there is one, a transport in use keeps its
  id, each reader is shown the whole output in order.

### 1.2 The sidecar (`sidecar/`, JavaScript)

A Node process that serves OpenAI-, Anthropic- and Gemini-style endpoints locally, and Cursor's own
protocol. One thread, so interleavings are at `await`s and callbacks.

| component | state it keeps | operations | what is hard |
|---|---|---|---|
| **Request flow** `handlers/chat.js`, `local-proxy.js`, `retry.js` | per request: the targets left, the attempt under way, its connection and timers | try a target, fail over, retry, stream, answer with an error, notice that the client has left | one connection ends in several events, some of them after the next one has begun; an `await` in the middle |
| **Gate and watchdog** `lib/upstream-watchdog.js` | per provider, host and model: places taken, who waits; per connection three timers | `acquire`, `release`, `markResponse`, `kill` | a place is passed on without ever being free; each is to be released once |
| **Cooldown** `lib/provider-cooldown.js`, `config-cache.js` | which targets have failed lately | `markFailure`, `markSuccess`, `filterTargets` | all are cleared when the configuration is read again |
| **Accounting** `request-tracker.js`, `stats.js`, `usage-ledger.js` | attempts and outcome of each request; counters, ledger | `beginAttempt`, `endAttempt`, `reject`, `abort`, `fail`, `finish` | success, failure and departure race; late events |
| **Cursor bridge** `cursor-proxy.js` | tables of waits (by call, exec id, number), sessions (by request, conversation, dropped request), histories | `RunSSE` (a turn with its tool loop), `BidiAppend` (messages, results) | ids of calls come again; results come late, twice or after a restart; a turn may be given another request's session |
| **Conversion, interception** `*-transform.js`, `hybrid-server.js`, `codex-desktop-cdp.js` | none, or other programs' | rewrite streams, patch | data and external behaviour |

A chat request: `handleGetChatMessage` resolves the targets of its model, leaves out those that are
cooling, and `attemptNext` starts one of the three stream functions. These acquire a place at the
gate, send the request, arm the watchdog and pass the response on; every way in which the connection
may end calls `freeOnce`, and failures call `onFailover`, which retries or goes to the next target.
The tracker is told of each attempt and settled once.

A Cursor turn: `RunSSE` waits for the session that `BidiAppend` brings, calls the model, executes
the tools it asks for by messages to the client, waits for each result under the id of its call,
and calls the model again, a bounded number of times.

What makes it correct: places are fair, never more than the limit and never lost; a request ends; what
the books say is what clients saw; a result reaches the wait it belongs to and no other; output is
shown once; no user's text is answered in another conversation; every turn ends.

### 1.3 The rest

`src-tauri/` (the desktop shell: process supervision and edits of other tools' configuration
files), `ui/` and `ui-src/` (static pages), `scripts/`, `docs/` (contracts per subsystem under
`docs/subsystems`, known traps in `docs/pitfalls.json`). File-system and operating-system I/O with no
protocol of its own.

`PROJECT.json` lists all of these as components, with the reason for each that is not modelled.

## 2. The modules

| module | models | state in the code |
|---|---|---|
| `TransportLifecycle` | `lifecycle.rs`, every method, the `Notify` permit by permit | `state`, `admissions` are the fields behind the mutex; `holders` the live `TransportAdmission`s; `waiter`/`notified` the future in `wait_admissions_drained` and whether its `Notified` has fired |
| `OrderedInbox` | `inbox.rs` as operators on a record (`next`, `pending`) | used by the next module and by the actor |
| `InboxDelivery` | the inbox between a client that numbers, repeats and loses messages and a handler | `calls`, `network` are HTTP requests on their way; `delivered`, `arrived` are history |
| `TransportActor` | the actor loop, append handlers, generations, output; EXTENDS the lifecycle, uses the inbox | `channel` the mpsc queue, `append` the handlers, `run[g]` the task of generation g and its handle, `actor`, `exit`, `draining`, `waitingForAction`, `pendingFinish`, `current` the loop's locals |
| `ConversationStore` | `store/checkpoints.rs`, `runs.rs`, `tool_rounds.rs`, `messages.rs`, `conversations.rs` for one conversation: one action per transaction | the columns; a digest is the list of messages it is computed from, so equal digests are equal histories |
| `RunAttempts` | EXTENDS the store: anchors, prepare, prefix matching, pending messages, claim, initial appends, the model's answer, finish, supersession, crash | `phase`, `input`, `plan` are the attempt's locals, `anchors` the table, `pending` the registry's list |
| `ToolSession` | engine, tool rounds, run handle, output session, client | `engine` and `session` their locals; `commands`, `events`, `actions`, `results` the four channels |
| `TransportRegistry` | `registry.rs` and `output.rs` with the handlers that use them (`handlers.rs`, `bidi.rs`, `run_sse.rs`), and of the actor what they see of it | `local`, `upstream` are the two maps, `hub[t]` the `OutputHub`, `append[a]` and `stream[s]` the handlers; `stream[s].notified` is the enabled `Notified` of `wait_route`, `stream[s].queue` the subscriber's channel; a mark's generation is the number the code gives it |
| `Broadcast` | abstract: channels that are written until they end and readers that are given all of it | |
| `ConcurrencyGate` | `createConcurrencyGate` and the once-only closures around its release, as operators | `active`, `wait` of a bucket; `open`, whose closure has not been called |
| `FairPlaces` | abstract: at most `Places` inside, in the order of arrival, nobody waiting beside a free place | |
| `RequestTracker` | `request-tracker.js` and the counters it writes, as operators | `status`, `attempts`, `finalized`; `books` the counters and the number of ledger lines |
| `ChatRequests` | streamed requests of `handlers/chat.js` with gate, watchdog, cooldown and tracker | `req[r]` the closure variables of `attemptNext` and of the stream function under way; `late` the connections that have ended but may still report; `turn` tells the calls of `acquire` of one request apart |
| `ToolWaits` | the tables by which `cursor-proxy.js` finds who waits for a result, as operators | `pending`, `queries`, `aliases`, `numbers`, `shells`, `next` are `pendingToolResults`, `pendingInteractionResponses`, `execIDAliases`, `seqAliases`, `shellAccums`, `execSeqCounter` |
| `CursorSessions` | its tables of sessions, as operators | `byRequest`, `byConversation`, `dropped`; a text is named by the request it was sent for |
| `CursorTurns` | `RunSSE`, `BidiAppend`, timers, restarts, over the two above | `turn[t]` the handler's locals, `history` the files of recorded conversations, `asked` what the client has been asked |
| `MC_*` | instances for TLC | |
| `*_proofs` | theorems | |

One action is one stretch of code that nothing can come between: a transaction of the store (its
writer serialises them), a section under a mutex, the code between two `await`s of a task, in the sidecar what runs from one event
or `await` to the next. What a
handler does in several such stretches is several actions, in the code's order; that is where the
interleavings come from. The drop of the last admission, for instance, is `DropAdmission` and then
`NotifyDrained`, because `lifecycle.rs` releases the mutex before it notifies, and
`wait_admissions_drained` is `StartWait`, `ReadCounter`, `Poll` and `WakeUp` (or `LeaveWait`, when a
command wins the `select!`), because it creates its `Notified` before it reads the counter: this
order is what keeps the wake-up from getting lost. Each module's head says where its steps are cut.

Operators named beside a mapped one and marked as its mutant (`NotifyNobody`, `AnyoneOwnsHead`,
`MayReceiveOnceQuiet` ...) are not part of the specification. Each is the slip of the code the
property beside it is there to find, and `PROJECT.json` pairs them.

### Modules built on modules

`TransportActor` does not re-model the lifecycle: its actions conjoin those of `TransportLifecycle`, or leave
its variables alone. That the actor's behaviours are behaviours of the lifecycle follows from how they
are written, so it is no result but a lemma (`ActorUsesLifecycle`), by which the lifecycle's invariants are used in
the actor's proofs. What the actor adds is when it calls what, and that is what its properties are about.
`RunAttempts` conjoins the store's actions in the same way: the store's own `Next` lets any caller call anything,
`RunAttempts` restricts that to what attempts do, in their order. There, `take_pending` (`TakePending`) and what is made of
its messages after `ensure_conversation` (`RebasePending`) are two steps, for another attempt, a supersession or a crash
may come between.

### Two abstract specifications

`FairPlaces` is a limit without counters, promises or closures: a set inside and a queue.
`ChatRequests` implements it (`PlacesAreFair`), with `open` as the set and `wait` as the queue. That is a
statement about `chat.js` as much as about the gate: a place released twice would let one too many in,
and it is the handlers that have several events per connection and retry before the last of them.

`Broadcast` has logs and readers and no history, subscribers or channels: a reader reads the log by
its position. `TransportRegistry` implements it (`StreamsReadAll`) although a subscriber is handed a copy of the
history and then frames one by one: whatever is emitted between, before or after, and whoever
closes, it has been given a prefix, and is done by itself only after an end frame. In the abstract
specification a channel ends only after an end frame, so `CloseOutput` has to show that its transport has
emitted one. `local_body_stream` also ends when its channel does (`run_sse.rs` 65). That exit is not modelled:
an output is closed only after its end frame, and the stream returns at the end frame, before it could find
the channel closed.

## 3. The runs

Bounds are the constants of each `.cfg`. Deadlock is off where every actor may have finished.

| run | instance | what it shows |
|---|---|---|
| `inbox` | 4 messages, one retry each | in order and once (`InOrderExactlyOnce`), nothing held without a gap before it (`NothingLostOrStuck`). Four is one more than needed for a gap, a message behind it and one beyond |
| `actor_requests` | three run requests | the stream ends when the actor does, with what the current generation reported; no completed turn is cut off; the lifecycle's own invariants inside the actor. Three is the least number with which a generation is superseded while it still waits for its predecessor |
| `actor_ends` | two appends: a request or message, then any kind, with fairness | replaced runs are told (`SupersededRunsAreCancelled`), an ended drain leaves no acknowledged append (`DrainLosesNothing`), drains end (`DrainEnds`), whoever waits for room on the channel gets it (`SendersGoOn`), a disconnect ends the actor, the stream and all runs (`DisconnectStopsEverything`) |
| `store` | two runs, 4 checkpoints, two histories to import (one the beginning of the other), a text whose id is stored with another body, a round of two calls | eight properties of every order of transactions, with stale ids and late calls: see below |
| `attempts` | two runs, two inputs of two messages, one message that wakes the conversation, crashes | `RetryIsNotRefused`, `AttemptsAgree`, `EngineAtHead`, `WaitingMessagesAreRead` |
| `tool_rounds` | two rounds of two calls with ids of their own; three user messages, of which the third has the id of the first; cancellation | rounds get exactly their results (`RoundsGetTheirResults`), engine and session agree on what is committed (`ResultsFindTheirRound`), no tool runs that nobody waits for (`RunningToolsAreAwaited`), messages are in the history or wait for the next run (`MessagesAreKept`, also when one was sent twice and rounds hang) |
| `routes` | one request id; three appends, each for a local run, an official run or a plain message; one stream; two transports; one frame besides the end frame | `SleepersAreTold`, `OpenTransportsAreMapped`, `StreamsReadAll`. Two transports are one that is replaced and its successor, three appends are what it takes to create, to be in the channel of the first while it closes, and to replace it; with a reopened transport beside its successor that is all there is to confuse |
| `chat` | two requests that meet at one target with one place: the first has three targets before it (gone, impossible to send to, one that may fail), the second has images to be described; one retry, one optional parameter the upstream may reject | `PlacesAreFair` (refinement), `PlacesMatchConnections`, `BooksAreTruthful`, and with fairness `RequestsEnd`, `PlacesComeBack`. With one place two requests are enough for somebody to wait, to be handed the place, and to have left meanwhile |
| `cursor_tools` | two turns of one request, one call id for all tools, a shell, a question, or a local tool and a read in each of two rounds, one restart | `WaitsCanBeAnswered`, `ResultsAreTheirOwn`, `OutputIsShownOnce`, and with fairness `TurnsEnd`. One call id makes every two waits collide that can |
| `cursor_messages` | two requests in two conversations, two `RunSSE`s, each for either, two expired sessions, one restart | `MessagesStayInTheirConversation` |
| `queued_message`, `chat_left` | one property each, which the code violates | section 5 |

The properties of `store`: one owner (`OneOwner`), whose head is the current checkpoint
(`OwnerAtHead`); a model call ends with its run (`CallsEndWithTheirRun`); the digest of a checkpoint is that
of the history one reads by following its parents (`LineageIsDigest`); no message is twice in a history
(`NoMessageTwice`); a tool round is settled exactly if the history has all its results
(`RoundMatchesHistory`); the outcome of a run does not change (`OutcomeIsFinal`); a run that lost the
conversation changes nothing that shows (`StaleRunWritesNothing`). Only `r1` keeps answers and rounds in this
run (`RecordedRuns`): the runs are alike except for ownership, so one that is recorded and one that
takes over are enough, and the state space stays at some 600 000 states. Four checkpoints are a
root, two appends of the owner and one more by the other, or an import.

The actor's channel has a capacity (`ChannelCapacity`). It is 128 in `actor_requests` and `queued_message`, as in
the code, where so few senders never fill it; in `actor_ends` it is 1, so that handlers, reporting
generations and the task that tells of a disconnect all have to wait for room. This is where everyone could wait
on everyone: the actor sleeps until the last admission is dropped, the admission's holder waits for room on the
channel, and only the actor makes room. It does not happen because the actor goes on receiving while it
drains; the mutant of `MayReceive`, an actor that first waits for the admissions, breaks `SendersGoOn` at
capacity 1 and not at 128.

The instance of `routes` takes its symmetry from appends and transports, which are alike; the two temporal
runs of the sidecar and the actor take none.

`attempts` has checkpoints to spare (`MaxCheckpoints = 10`): the bound is never reached, so nothing
is cut short there.

What the inputs are: the kinds of append (`Kind`) are what `bidi.rs` accepts; sequence numbers are the
client's; imported histories, message ids and call ids are values a client or a provider may
choose, one equal to an earlier one included.

### Fairness

Three specifications assume any, each for the liveness properties of its run.

`TransportActor!FairSpec`, weak fairness of

- `SendAppend`, `ReturnAppend` of a command that is on the channel, `SendDisconnect`, `NotifyActor`, `ActorNext` and
  `TaskNext(g)`: tokio polls a task that is ready, a section under a mutex ends, and who waits for room is served when there
  is some (tokio's permits are given in the order of arrival);
- `ContinuationIdleTimeout`: a timer fires;
- the end of an engine that has been cancelled: it selects on its cancellation token
  (`run/engine.rs`).

None of the model, the tools or the client: a run that nobody cancels may last for ever, and the
client need not send anything. `DrainEnds` is therefore "a drain ends, or is called off by a new
request", and not "every turn ends".

`ChatRequests!FairSpec`, weak fairness, for each request, of what the process does by itself: continue after a
granted place (`Issue`), the timers of the watchdog, of the error body and of the retry, and the
error event of a request that has been destroyed. None of upstreams, which may never answer, of
clients, or of the model that describes images. Under that `RequestsEnd` says that a request is
answered unless its client leaves, and names where it may stay: an error body that was cut off
(section 5), a target whose place was lost because the request could not be built, and the
description of images.

`CursorTurns!FairSpec`, weak fairness of the timer of the wait for a message, of the model's call, which has
timers of its own and so ends with an answer or an error, and of the timer of each tool. None of
the client. `TurnsEnd` rests on these and on the limit of rounds.

## 4. The proofs

TLC checks the instances above. The theorems hold for every set of appends, runs, messages, calls
and every bound that meets the modules' ASSUMEs: `Appends` finite, `Kind` and `Seqno` functions of the
right type, the channel's capacity positive, `Messages` and `MaxRetries` naturals, `NoRun` not a run, bounds natural, histories
sequences, at least one input, rounds of finitely many calls and at least one; for the sidecar,
routes without repeated targets, at least one place, rounds of tools, each request in one conversation; for
the registry, each handler of one request id, and names that are not confused (`NoTransport` is no
transport, the end frame no other frame).

Some theorems have a hypothesis besides, stated in the theorem. The instances of the runs that check the
same property meet it:

| hypothesis | of | why the code needs it |
|---|---|---|
| `FreshCalls`: no call id in two rounds | the three theorems on tool rounds | `output.rs` never forgets an interrupted call, so one that is used again hangs its round (`MC_ToolSession_reused.cfg`, section 5). Providers make ids unique; the code does not check it |
| `ClientsSendOnce`: no imported history has a message id twice, and none, nor a text, has the result of a call that a run has still to commit | `NoMessageTwiceTheorem`, `RoundsMatchHistories` | an import takes the client's history as it is; ids of results are made from the run's id, which the client learns from its own run only |
| `MessagesAreDistinct`: the messages of an input are its own, and an id belongs to one message | the three theorems on what attempts say | `compile/run.rs` makes ids of the event (`request-context:{event_id}`, `runtime:{event_id}`), an input's from its message (`cursor:user:{message_id}`), and answers have ids of their run |
| `NoUserMessages`: no append of the transport carries a user message | `StreamsEndWithTheirTurn`, `NoTurnIsCutOff` | such a message, handled while the transport drains, starts a turn without stopping the drain (`queued_message`, section 5). Requests, conflicting requests and cancellations may come in any number and order |

| module | theorem | says |
|---|---|---|
| `TransportActor_proofs` | `LifecycleTypeCorrect`, `DrainingIsQuiet`, `WakeupIsNeverLost` | the counter counts the guards and never goes below zero; Draining means that no admitted append is in flight; the sleeping actor has been notified or someone will do so |
| `InboxDelivery_proofs` | `InboxTypeCorrect`, `DeliveredInOrder`, `NothingIsLost` | in order, once each, nothing stuck |
| `ConversationStore_proofs` | `StoreTypeCorrect`, `RunningMeansOwning`, `OwnerShowsItsHead`, `OutcomesAreFinal`, `StaleRunsAreHarmless`, `CallsDoNotOutliveRuns` | ownership and what rests on it |
| | `LineagesAreTheirDigests`, `NoMessageTwiceTheorem`, `RoundsMatchHistories` | histories read back as they were written; no message twice; a round is settled exactly by the results its history holds |
| `RunAttempts_proofs` | `AttemptsTypeCorrect`, `AttemptsImplementStore`, `EnginesStayAtHead` | attempts are behaviours of the store, on checkpoints that exist, and an engine that owns the conversation is at its head |
| | `AttemptsAgreeTheorem`, `WaitingMessagesAreReadTheorem`, `RetriesAreNotRefused` | asking again asks the same and is not refused; who waited is read |
| `ToolSession_proofs` | `TypesTheorem`, `MessagesAreKeptTheorem` | types; no message is lost, whatever is interrupted |
| | `ResultsFindTheirRoundTheorem`, `RunningToolsAreAwaitedTheorem`, `RoundsGetTheirResultsTheorem` | engine and session agree on the rounds; no tool runs unheard; no round waits for what nobody will send |
| `TransportActor_proofs` | `ActorDrainsQuietly`, `DrainIsComplete`, `ReplacedRunsAreTold` | Draining means that nothing is in flight inside the actor as well; a drain that has ended left nothing; cancellation reaches every superseded run |
| | `StreamsEndWithTheirTurn`, `NoTurnIsCutOff` | a drain ends the stream with the report of the current turn, and no other turn is under way then |
| `TransportRegistry_proofs` | `ToldTheorem`, `MappedTheorem`, `HubBroadcasts` | nobody sleeps beside a route; a transport in use keeps its id; the hubs implement `Broadcast` |
| `ChatRequests_proofs` | `InvTheorem`, `PlacesAreFairTheorem`, `PlacesMatchConnectionsTheorem`, `BooksAreTruthfulTheorem` | the requests implement `FairPlaces`; places are those of connections; counters and ledger say what the clients saw |
| `CursorTurns_proofs` | `InvTheorem`, `WaitsCanBeAnsweredTheorem`, `ResultsAreTheirOwnTheorem`, `OutputIsShownOnceTheorem`, `MessagesStayTheorem` | results, output and messages reach whom they are for |

How they go:

- **Lifecycle** (`LInv`). The type says nothing of the counter, which is the length of a set: `LInv` adds
  `CounterCountsHolders`, without which "the counter is zero" would not mean "nobody holds", and that
  the waiter which has read a positive counter, or sleeps, is notified, or is about to be, or still has a holder to wait
  for. `DrainingHasNoAppend` follows because `MarkDraining` requires the counter to be zero under
  the lock that admissions take, and `Admit` requires `Open`.
- **Inbox** (`IInv`). Order is preserved by a release only if what is held is beyond `next`, is held
  under its own number and what has arrived is either released or held: these are the
  conjuncts. The lemmas on `NextGap` say that a release takes exactly the numbers up to the first gap.
- **Store** (`SInv`). `OneOwner` and `OwnerAtHead` together are inductive over the types; every
  writing method checks `OwnsHead` in its transaction and moves `current` and the head of the
  owner at once, and `ClaimRun` cancels the previous owner in the transaction that takes over.
  `CallsEndWithTheirRun` needs that `ClaimRun` and `FinishRun` close the calls as well.
- **Histories** (`LInv`, `NInv`, `RInv`). `Load` follows the parents of a checkpoint and is a recursive function.
  That the recursion has a value at every row takes no rule of induction: the checkpoints at which it would not be the
  digest have a least id if there are any (`LeastNatural`), the parent of that one is older (`Lineage`), so `Load` is
  right there, and one message more makes it right here. This needs of the table that a row's digest is
  its parent's and its own messages (`Lineage`), that an id has one stored body (`OneContent`) and that no digest
  has two rows (`OneOfADigest`). `NoMessageTwice` adds that what histories hold is stored and that the result of
  a call is stored only when the call is no longer pending, which is why a second commit of the same result
  is an id that is known. `RoundMatchesHistory` adds the shape of rounds and that, of each round, the
  results after its run's head are those of its completed calls in their order.
- **Attempts** (`AInv`, `AgreeInv`, `WaitInv`, `RetryInv`). `AInv` is the store's invariant with types, a base for
  every plan and `EngineAtHead`; with it every action of an attempt is one of the store's or leaves it alone
  (`AttemptsImplementStore`). `AgreeInv` says what is behind an attempt: the history of its anchor and then
  the first messages of the input, the rest being still to append (`OnTheWay`). It holds of what `MatchPrefix`
  finds, again by a least counterexample, because checkpoints grow by one message (`OneByOne`), and survives
  the skipping of a message that is there already because no message of an input is in the history of its
  anchor (`AnchorsComeFirst`). `WaitInv` follows the messages an attempt took into its plan and from there into the history,
  whichever checkpoint it was rebased to. `RetryInv` says that
  of an attempt which began alone the next append is in nobody's way: `MatchPrefix` stopped where nothing was there,
  and no other attempt is under way (`AloneIsAlone`) to put it there since.
- **Tool rounds** (`IInv`). `MessagesAreKept` needs `Kept` alone: a batch the engine accepted is inserted or still in what
  it is about to emit. The rest is the agreement of two programs over four queues with no order among them.
  `Ordered` says what the engine may still be about to emit and what may stand before what in its events, in each phase, and
  which round the session is at then; `Placed`, that a call is at one place of its way -- to execute, running, answered,
  ready, forwarded, committed -- and in a round that was started; `Travelling` says the same of user
  messages; and `Together` ties them: what the engine awaits is on its way, unless the round was given up, which the
  session has noted or will be told. The three theorems are read off it, `RoundsGetTheirResults` by looking
  where a result could be when nothing is on its way.
- **Actor**. The lifecycle's invariants hold inside the actor (lemma `ActorUsesLifecycle`: each action is one of the
  lifecycle's or a stutter).
  `DrainLosesNothing` needs the strengthening that a command on the channel, and a handler that has still to
  send one, holds its admission (so a Draining transport has an empty channel),
  which is `QuietOnceDrained` with `CounterCountsHolders` taken from the lifecycle.
  `SupersededRunsAreCancelled` is a race of two looks: the actor marks the generation superseded and
  then cancels the handle it finds; the generation installs its handle and then looks at the
  mark. `ToldOrBeingTold` says that at any point one of them still has its look ahead.
  The end of the stream (`TurnInv`): generations are numbered as they start, all but the current one have been
  superseded (`OthersSuperseded`), a report on the channel is the last thing its generation did
  (`ReportsAreTrue`), and the actor waits or drains only after the current turn, holding what that turn
  reported (`InStep`). A late report of a replaced generation is told from the current one's by its number alone.
  That the released messages are the appends that were pushed (`InboxTypes`) is needed to exclude user messages.
- **Registry** (`IInv`). `SleepersAreTold` needs that a stream which has looked at one map and not yet at
  the other, or has found nothing, is already registered for the notification (`Told`: the route it
  has missed makes it notified, or has its announcer still to come). `OpenTransportsAreMapped`
  needs that a transport nobody has announced yet is mapped and has exactly one handler that will
  announce it (`Bindings`), and that what a handler holds, though it may be replaced by now, is of
  its request id (`Placed`, `Unplaced`). `HubBroadcasts` rests on `Reading`: what a reader has been given
  followed by what is in its channel is the history -- of a hub it subscribes to, or that is closed --
  and on `EndsFirst`: a transport that is about to close its output has an end frame in its history.
- **Chat** (`Inv`). Every request is accounted for in every bucket (`Accounted`): under the name of its
  current turn it is inside, waits, or is neither, as its phase says; under the other name it is nowhere,
  or there are only events left that release nothing. That is what makes the late events harmless, and
  what distinguishes a place that a new turn took from the one the old turn gave back. `GateOK` says that the
  counter is the number inside, at most `Places`, and equal to it when somebody waits. `StepOf` reduces each
  of the seventeen events to "give back at most one place, then let one handler run", so that the
  lemmas about handlers are proved once.
- **Books** (`BInv`). Counters are numbers and what clients saw are sets of requests. A request and its
  tracker agree on whether it is settled (`Told`), a response that has ended is settled unless the process
  has crashed, and each event adds at most one request to one of the sets and as much to its counter (`Booked`).
- **Cursor** (`Inv`). `Consistent` says which rows of the tables an awaited exec has, that there is at most one
  per call, that numbers below `next` are used once since the last restart, and that output is either
  kept for a call or shown in one answer to it. `SessionsOK` says that a session with a text is of the
  conversation of that text: a message that starts a run brings both, for `parseBidiAppend`
  (`cursor-proxy.js:2565`) sets both keys wherever it finds a run, an absent one as `''`, and neither elsewhere (BugBot
  apart, which is not modelled).

Only model-checked:

- the liveness properties `DrainEnds`, `SendersGoOn`, `DisconnectStopsEverything`, `RequestsEnd`, `PlacesComeBack` and `TurnsEnd`: the
  prover has no fairness and no ENABLED;
- the type invariants of `ChatRequests` and the whole of the actor's, of which the proofs need parts
  only (`GenTypes` bounds no generation by the number of messages);
- what is beyond the hypotheses above: `StreamEndsWithActor` and `NoTurnCutOff` with user messages that are never handled
  during a drain, and the rounds of `tool_rounds` beside messages that were sent again.

Every invariant and every action property of the passing runs is stated by a theorem. No proof
uses induction over data as a rule of the prover, which takes an operator as parameter; where a recursive
function has to be right everywhere, the least place at which it would not be is contradicted.

## 5. What the code does differently from what it says

Two are runs that end in a counterexample; `PROJECT.json` quotes the lines.

- `queued_message`: a user message handled while the transport drains starts a generation, but unlike a run
  request does not reopen the transport. The actor leaves, nobody receives the new
  generation's report and the stream has no end.
- `chat_left`: a client leaves while its request waits for a place. The tracker is settled, but the
  three stream functions do not look at `clientClosed` after their `await`; the request is sent, and
  when its answer is complete `endAttempt` throws in an event handler, and the process ends.

Seven more have a configuration each, which TLC ends with a counterexample:

- `MC_RunAttempts_retry.cfg`, `OverlappingRetryIsNotRefused`: two attempts at one input that overlap. The second
  plans before the first appends (`match_checkpoint_prefix`), takes the conversation, and its own append is
  refused as a duplicate (`store/checkpoints.rs:294`). `tests/error_lifecycle.rs:797` asks that a kickoff
  be idempotent when it is retried under another request id, and retries after the first has ended.
- `MC_RunAttempts_lost.cfg`, `TakenMessagesSurvive`: an attempt takes the messages that wait for the conversation
  (`runtime.rs:757`) and is superseded before its run exists (`runtime.rs:773`); the list is empty, nothing is stored, and
  the message is lost, where `registry.rs:164` says that the next turn takes it in.
- `MC_ToolSession_settled.cfg`, `SettlingCommitHasBarrier`: a message interrupts a round with two calls left
  (`run/tool_round.rs:153`); if the engine commits both results before the session handles the first, the
  session fails the run with "settled tool round has no completion barrier" (`output.rs:650`).
- `MC_ToolSession_reused.cfg`, `RoundsGetTheirResults`: a call id that was interrupted once is dropped for ever
  (`interrupted_tool_calls`, `output.rs:798`, is never cleared); a later call with this id hangs its
  round, which `tests/tool_round.rs:1256` excludes for rounds that complete.
- `MC_ToolSession_refused.cfg`, `DetachedRoundsAreBroken`: a message refused by a run about to end stays noted as
  undelivered in the session; if the run goes on for another message, its next round is detached
  (`output.rs:447`) and nobody breaks it.
- `MC_ChatRequests_kept.cfg`, `NoPlaceIsLost`: building the request for a target throws after `acquire` and before
  `freeOnce` is attached to an event (`chat.js:1968`); the request goes on elsewhere and the place stays taken.
- `MC_ChatRequests_cut.cfg`, `AnswersCome`: an upstream answers with an error and closes the connection before
  the body has ended. The response reports `close` without `end`, which clears the five-second timer
  that was to keep the request from hanging (`chat.js:2036`); nothing answers the client.

The passing runs do not assume these behaviours away: they contain them, and their properties leave out
the case by name. `WaitingMessagesAreRead` is about attempts that reach the model, `PlacesMatchConnections` about targets
whose requests can be built. `RoundsGetTheirResults` in `tool_rounds` (call ids distinct) is about states in which no message has been
refused or sent again; `ResultsFindTheirRound` is about the session's other errors, and a session that has failed over the
missing barrier is part of that run; `RetryIsNotRefused` is about attempts that did not overlap and took no waiting message (one that did may be refused: such a
message may be stored below the current checkpoint by an attempt that took it before);
`RequestsEnd` names the error body that was cut off and the process that has ended;
`actor_requests` has requests only, `actor_ends` has queued messages too, and
`DisconnectStopsEverything` names the actor that left the stream to nobody.

One behaviour is in the models and in nobody's promise. A transport that was replaced while it closed may
reopen itself for a run request it still had in its channel: it then serves messages that no longer lead
to it, which `OpenTransportsAreMapped` excepts.

## 6. What is not modelled

- *Within the modelled parts.* The store: control tables (settings, providers, usage) and compaction's choice of when; several conversations (every row
  that matters here carries the conversation's id); the uniqueness of `runtime_event_id` (`messages.rs:58`,
  `checkpoints.rs:228`), a further reason to refuse a message that no property depends on. Inbox: saturation at `i64::MAX`. Actor: tool results, KV and request-context traffic, which pass
  through to the session and leave the actor's state alone; keep-alive frames. Attempts: histories a
  client invents (the one it sends is of a checkpoint it was given); tool rounds. Engine and session:
  compaction, provider retries, insertions that do not break a turn, edits queued per path, the
  checkpoint worker, whose barriers complete at once. Registry: `shutdown`, the parents of subagents, the traces, and
  the sequence numbers of appends (`InboxDelivery` has them). Chat: buffered requests and
  the requests of `local-proxy.js`, which have handlers of their own over the same gate and watchdog; the
  search loop, and with it the targets that are passed over before they take a place because they have no source for
  a search (`chat.js:1112`); the length of cooldowns; a gate that is switched off; token counts. Cursor bridge: background
  composers, BugBot, plans, todo lists and other tools that ask nobody, stored artifacts, the cut of long
  histories.
- *Time.* A timer that is armed may fire at any moment, and durations are not compared.
- *Data.* Prompts, protobuf, vendor formats, search and ranking.
- *I/O.* Providers, operating system, TLS interception, desktop shell (`src-tauri/`, of which the longest
  files are tables of translated texts), pages (`ui/`, event handlers over forms).
- *Not yet.* Section 7.

## 7. Plan

In order of importance.

1. **Conversation registry.** `register`, `deliver`, `release`, pending messages and subagent
   completions over several runs, composed with `RunAttempts`; abstract specification: every
   delivered message is read by exactly one run, or waits.
2. **Engine and session, completed.** `InsertMessages` and its acknowledgement, compaction as a step of
   the loop, provider retries, checkpoint barriers as events, the edit queue per path
   (`EditSchedule`) with its interruption.
3. **Plugin worker.** Requests over processes that die and are restarted; the reader of the old
   process fails what is pending, the requests of the new one included (`plugin/worker.rs:385`).
4. **Buffered chat requests.** They retry inside `gate.run`, so a retry may wait for the place its own
   first attempt holds (`chat.js:1319`); and `local-proxy.js`, which marks success before it has seen the status.
5. **Proofs.** `NoTurnIsCutOff` with user messages that come before the drain, which needs who delivered them;
   `RoundsGetTheirResults` across messages that were sent again; that the store implements an abstract
   register of one owner and one history (`OwnedHistory`).
