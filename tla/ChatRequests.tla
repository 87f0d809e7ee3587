---------------------------- MODULE ChatRequests ----------------------------
(***************************************************************************)
(* Streamed chat requests in the sidecar: handleGetChatMessage and the      *)
(* three stream functions of handlers/chat.js (streamAnthropic,             *)
(* streamOpenAI, streamOpenAIChatCompletions, whose control is the same),   *)
(* with the concurrency gate and the watchdog of lib/upstream-watchdog.js,  *)
(* the cooldowns of lib/provider-cooldown.js and the request trackers of    *)
(* request-tracker.js they share.                                           *)
(*                                                                          *)
(* An action is one event the process handles: an incoming request, an      *)
(* event of an upstream connection or of a client's, a timer.  What the     *)
(* code does after an await that resolves at once (a place granted by the   *)
(* gate) is the action Issue; it happens before the next event, because     *)
(* promise callbacks run first.                                             *)
(*                                                                          *)
(* Time is left out: an armed timer may fire at any moment.                 *)
(***************************************************************************)
EXTENDS Integers, FiniteSets, RequestTracker

CONSTANTS
    Requests,     \* client requests
    Targets,      \* upstream targets (provider and model)
    Slot,         \* request -> the targets configured for its model, in order
    Broken,       \* targets resolveTarget refuses (provider gone or disabled)
    Unsendable,   \* targets for which building the request throws
    WithImages,   \* requests whose images a third-party model describes first
    Places,       \* UPSTREAM_MAX_INFLIGHT
    RetryLimit,   \* retryMaxRetries
    Optional,     \* target -> how many optional parameters it may reject, one at a time
    NoTarget      \* currentAttemptKey before the first attempt

\* Calls of acquire by one request are told apart by turns: only the latest
\* and the one before it can still matter.
Callers == Requests \X {0, 1}

INSTANCE ConcurrencyGate WITH Keys <- Targets

ASSUME SlotAssumption ==
    /\ \A r \in Requests : Slot[r] \in Seq(Targets)
    /\ \A r \in Requests :
           /\ Slot[r] # <<>>
           /\ \A i, j \in 1 .. Len(Slot[r]) : Slot[r][i] = Slot[r][j] => i = j

ASSUME LimitsAssumption ==
    /\ Places \in Nat \ {0}
    /\ RetryLimit \in Nat
    /\ Optional \in [Targets -> Nat]
    /\ NoTarget \notin Targets

VARIABLES
    req,       \* request -> what its handler and its connections are at
    tracker,   \* request -> its RequestTracker
    books,     \* stats.js and usage-ledger.js
    gate,      \* providerInflightGate
    cooling,   \* targets whose cooldown record has not expired
    crashed    \* an exception left an event handler: the process is gone

vars == <<req, tracker, books, gate, cooling, crashed>>

\* A request before it arrives.  phase is where its handler is:
\*   vision     awaits the description of its images
\*   waiting    awaits a place in the gate
\*   sent       the upstream request is out, no response yet
\*   errbody    the body of an error response is arriving
\*   stream     a 200 response is arriving
\*   delay      the retry timer runs
\*   stranded   the connection is gone and no timer is left
\*   over       no handler will run for it but those of its client's socket
\* route is routingTargets, as the set of their positions in Slot, and idx the
\* position of the latest; key and failed are currentAttemptKey and
\* currentAttemptFailed, headers and ended res.headersSent and
\* res.writableEnded, dead says that apiReq has been destroyed, late is the
\* call whose connection is released but has still to report its close, and
\* seen is what reached the client.
NewRequest ==
    [phase |-> "new", route |-> {}, idx |-> 0, key |-> NoTarget, failed |-> FALSE,
     retries |-> 0, spare |-> 0, turn |-> 0, dead |-> FALSE, late |-> {},
     timers |-> {}, headers |-> FALSE, ended |-> FALSE,
     client |-> "there", seen |-> "nothing"]

Init ==
    /\ req = [r \in Requests |-> NewRequest]
    /\ tracker = [r \in Requests |-> NewTracker]
    /\ books = NewBooks
    /\ gate = NewGate
    /\ cooling = {}
    /\ crashed = FALSE

-----------------------------------------------------------------------------
(* Parts of handlers *)

Caller(r) == <<r, req[r].turn>>

Connected(r) == req[r].phase \in {"sent", "errbody", "stream"}

\* acquire has returned or is about to: its promise is resolved.
HasPlace(r) == req[r].phase = "waiting" /\ Caller(r) \in gate[req[r].key].open

\* Promise callbacks run before the next event.
NextEvent == ~crashed /\ \A r \in Requests : ~HasPlace(r)

\* No handler holds the state of the request any more.
Over(q) == [q EXCEPT !.phase = "over", !.route = {}, !.idx = 0, !.retries = 0,
                     !.spare = 0, !.turn = 0, !.dead = FALSE, !.timers = {}]

\* The handler of r leaves its request, tracker, the books and the gate so.
Leave(r, q, t, b, g) ==
    /\ req' = [req EXCEPT ![r] = q]
    /\ tracker' = [tracker EXCEPT ![r] = t]
    /\ books' = b
    /\ gate' = g

\* What the client has seen when its response ends with what.
SeenBy(q, what) == IF q.client = "there" THEN what ELSE q.seen

\* sendTerminalError, after the tracker was told; nothing more happens then.
SendTerminalError(r, q, t, b, g) ==
    IF q.ended
      THEN Leave(r, Over(q), t, b, g)
      ELSE Leave(r, [Over(q) EXCEPT !.headers = TRUE, !.ended = TRUE,
                                    !.seen = SeenBy(q, "error")],
                 Finish(t), BooksAfterFinish(b, t), g)

\* A stream function up to its await: another call, another place.
CallUpstream(r, q, t, b, g) ==
    Leave(r, [q EXCEPT !.phase = "waiting", !.turn = 1 - @, !.dead = FALSE],
          t, b, Acquired(g, q.key, <<r, 1 - q.turn>>))

\* clientClosed || res.writableEnded
NoLongerWanted(q) == q.client = "gone" \/ q.ended

\* startTargetRequest.  Left out is a target that is passed over, before it
\* takes a place, because the request wants a web search it has no source for.
StartTargetRequest(r, q, t, b, g) ==
    \/ /\ NoLongerWanted(q)
       /\ Leave(r, Over(q), t, b, g)
    \/ /\ ~NoLongerWanted(q)
       /\ r \in WithImages
       /\ Leave(r, [q EXCEPT !.phase = "vision", !.spare = Optional[q.key]], t, b, g)
    \/ /\ ~NoLongerWanted(q)
       /\ r \notin WithImages
       /\ CallUpstream(r, [q EXCEPT !.spare = Optional[q.key]], t, b, g)

\* The targets that are left, and those of them that can be resolved.
Remaining(q) == {i \in q.route : i > q.idx}
Resolvable(r, q) == {i \in Remaining(q) : Slot[r][i] \notin Broken}

\* q when attemptNext has passed over every target that was left.
PastTheLast(r, q) ==
    IF Remaining(q) = {}
      THEN {q}
      ELSE {[q EXCEPT !.key = Slot[r][i], !.failed = FALSE] :
               i \in {m \in q.route : \A j \in q.route : j <= m}}

\* attemptNext
AttemptNext(r, q, t, b, g) ==
    \/ /\ NoLongerWanted(q)
       /\ Leave(r, Over(q), t, b, g)
    \/ /\ ~NoLongerWanted(q)
       /\ Resolvable(r, q) = {}
       /\ \E p \in PastTheLast(r, q) : SendTerminalError(r, p, Fail(t), b, g)
    \/ /\ ~NoLongerWanted(q)
       /\ \E i \in Resolvable(r, q) :
              /\ \A j \in Resolvable(r, q) : i <= j
              /\ StartTargetRequest(r,
                     [q EXCEPT !.idx = i, !.key = Slot[r][i], !.failed = FALSE, !.retries = 0],
                     BeginAttempt(t), RecordRequest(b), g)

\* How an upstream refuses: an answer that is an error, or none.
Failures == {"auth", "transient", "limited", "request"}

\* isRetryableFailure (429 is retried, it only does not cool the target)
Retryable(failure) == failure \in {"transient", "limited"}

\* classifyFailure # 'skip'
Cools(failure) == failure \in {"auth", "transient"}

\* canRetry, as far as it does not depend on the time that has passed.
MayRetry(q, failure) ==
    ~q.headers /\ q.retries < RetryLimit /\ Retryable(failure)

\* markFailure, for a route of several targets.
MarkFailure(q, failure) ==
    IF Cardinality(q.route) > 1 /\ Cools(failure) THEN cooling \cup {q.key} ELSE cooling

\* onFailover: the same target once more after a delay, or the next one.
OnFailover(r, q, t, b, g, failure) ==
    \/ /\ NoLongerWanted(q)
       /\ Leave(r, Over(q), t, b, g)
       /\ UNCHANGED cooling
    \/ /\ ~NoLongerWanted(q)
       /\ MayRetry(q, failure)
       /\ Leave(r, [q EXCEPT !.phase = "delay", !.retries = @ + 1, !.timers = {"retry"}],
                t, b, g)
       /\ UNCHANGED cooling
    \/ /\ ~NoLongerWanted(q)
       /\ cooling' = MarkFailure(q, failure)
       /\ AttemptNext(r, [q EXCEPT !.failed = TRUE], EndAttempt(t, "failed"), b, g)

\* Mutant of GateWithout: a failed connection keeps its place.
GateWith(r) == gate

\* freeOnce, called by whichever event ends the connection of r first.
GateWithout(r) == Freed(gate, req[r].key, Caller(r))

\* r when its connection has ended: a response still reports its close.
Hung(r) ==
    [req[r] EXCEPT
        !.timers = {},
        !.late = IF req[r].phase = "sent" THEN {} ELSE {<<req[r].key, req[r].turn>>}]

-----------------------------------------------------------------------------
(* Requests *)

\* filterTargets, which does not filter a list of one.
FilterTargets(targets) ==
    IF Len(targets) < 2
      THEN DOMAIN targets
      ELSE {i \in DOMAIN targets : targets[i] \notin cooling}

\* routingTargets, with automatic routing and without it.
Routes(r) == {FilterTargets(Slot[r]), {1}}

\* handleGetChatMessage up to its first event.
Arrive(r) ==
    /\ NextEvent
    /\ req[r].phase = "new"
    /\ \E route \in Routes(r) :
           /\ route # {}
           /\ AttemptNext(r, [req[r] EXCEPT !.route = route], tracker[r], books, gate)
    /\ UNCHANGED <<cooling, crashed>>

\* A request that is refused: its model is not configured, its tools are
\* invalid, it exceeds the rate, or all of its targets are cooling.
Refuse(r) ==
    /\ NextEvent
    /\ req[r].phase = "new"
    /\ SendTerminalError(r, req[r], Reject(tracker[r]), books, gate)
    /\ UNCHANGED <<cooling, crashed>>

\* The images have been described, or could not be; nobody asks whether the
\* client is still there.
VisionEnds(r) ==
    /\ NextEvent
    /\ req[r].phase = "vision"
    /\ \/ CallUpstream(r, req[r], tracker[r], books, gate)
       \/ SendTerminalError(r, req[r], Fail(tracker[r]), books, gate)
    /\ UNCHANGED <<cooling, crashed>>

\* A stream function after its await: it builds the request and sends it,
\* watched; or building it throws, and the handler tries the next target.
Issue(r) ==
    /\ ~crashed
    /\ HasPlace(r)
    /\ \/ /\ req[r].key \notin Unsendable
          /\ Leave(r, [req[r] EXCEPT !.phase = "sent", !.timers = {"hard", "ttfb"}],
                   tracker[r], books, gate)
       \/ /\ req[r].key \in Unsendable
          /\ AttemptNext(r, [req[r] EXCEPT !.failed = TRUE], tracker[r], books, gate)
    /\ UNCHANGED <<cooling, crashed>>

-----------------------------------------------------------------------------
(* Upstream connections *)

Alive(r) == NextEvent /\ Connected(r) /\ ~req[r].dead

OnlyRequest(r, q) ==
    /\ req' = [req EXCEPT ![r] = q]
    /\ UNCHANGED <<tracker, books, gate, cooling, crashed>>

\* Mutant of Watched: once there is a response nobody watches it.
WatchedNoMore(timers) == timers \ {"hard", "ttfb"}

\* markResponse
Watched(timers) == (timers \ {"ttfb"}) \cup {"idle"}

\* A 200: from here on this target has to answer.
Respond200(r) ==
    /\ Alive(r)
    /\ req[r].phase = "sent"
    /\ OnlyRequest(r, [req[r] EXCEPT !.phase = "stream", !.headers = TRUE,
                                     !.timers = Watched(@)])

\* Another status: its body is awaited, five seconds at most.
RespondError(r) ==
    /\ Alive(r)
    /\ req[r].phase = "sent"
    /\ OnlyRequest(r, [req[r] EXCEPT !.phase = "errbody",
                                     !.timers = Watched(@) \cup {"body"}])

\* fail: an optional parameter was rejected and the call is made again
\* without it, or the target has failed.
Fails(r) ==
    \/ /\ req[r].spare > 0
       /\ CallUpstream(r, [Hung(r) EXCEPT !.spare = @ - 1], tracker[r], books, GateWithout(r))
       /\ UNCHANGED cooling
    \/ \E failure \in Failures :
           OnFailover(r, Hung(r), tracker[r], books, GateWithout(r), failure)

ErrorBodyEnds(r) ==
    /\ Alive(r)
    /\ req[r].phase = "errbody"
    /\ Fails(r)
    /\ UNCHANGED crashed

\* The five seconds have passed; the connection is destroyed.
ErrorBodyTimer(r) ==
    /\ Alive(r)
    /\ "body" \in req[r].timers
    /\ Fails(r)
    /\ UNCHANGED crashed

\* The connection closes before the body has ended: no 'end', no error of the
\* request, and the close clears the timer.
ErrorBodyCut(r) ==
    /\ Alive(r)
    /\ req[r].phase = "errbody"
    /\ Leave(r, [Hung(r) EXCEPT !.phase = "stranded"], tracker[r], books, GateWithout(r))
    /\ UNCHANGED <<cooling, crashed>>

\* The answer is complete (processor.isDone, or the stream ended): the
\* response ends and the attempt with it.  If the tracker is final, endAttempt
\* throws.
Complete(r, q, g) ==
    \/ /\ q.ended
       /\ Leave(r, q, tracker[r], books, g)
       /\ UNCHANGED crashed
    \/ /\ ~q.ended
       /\ ~EndAttemptThrows(tracker[r])
       /\ LET t == EndAttempt(tracker[r], "ok")
          IN  Leave(r, [q EXCEPT !.ended = TRUE, !.seen = SeenBy(q, "answer")],
                    Finish(t), BooksAfterFinish(books, t), g)
       /\ UNCHANGED crashed
    \/ /\ ~q.ended
       /\ EndAttemptThrows(tracker[r])
       /\ Leave(r, [q EXCEPT !.ended = TRUE], tracker[r], books, g)
       /\ crashed' = TRUE

StreamCompletes(r) ==
    /\ Alive(r)
    /\ req[r].phase = "stream"
    /\ ~req[r].ended
    /\ Complete(r, req[r], gate)
    /\ UNCHANGED cooling

StreamEnds(r) ==
    /\ Alive(r)
    /\ req[r].phase = "stream"
    /\ Complete(r, Over(Hung(r)), GateWithout(r))
    /\ UNCHANGED cooling

\* The 'error' of the request or of its response: before the headers have
\* gone out the next target is tried, afterwards the client is told.  Most
\* codes count as transient, some (a certificate is refused) do not.
ConnectionError(r) ==
    \/ /\ ~req[r].headers
       /\ \E failure \in {"transient", "request"} :
              OnFailover(r, Hung(r), tracker[r], books, GateWithout(r), failure)
    \/ /\ req[r].headers
       /\ SendTerminalError(r, Hung(r), Fail(tracker[r]), books, GateWithout(r))
       /\ UNCHANGED cooling

ConnectionFails(r) ==
    /\ Alive(r)
    /\ ConnectionError(r)
    /\ UNCHANGED crashed

\* kill: the first timer to fire clears the others and destroys the request;
\* the five-second timer is not one of them.
WatchdogKills(r) ==
    /\ Alive(r)
    /\ req[r].timers \cap {"hard", "ttfb", "idle"} # {}
    /\ OnlyRequest(r, [req[r] EXCEPT !.dead = TRUE,
                                     !.timers = @ \ {"hard", "ttfb", "idle"}])

\* A destroyed request reports its error.
DestroyedReports(r) ==
    /\ NextEvent
    /\ Connected(r)
    /\ req[r].dead
    /\ ConnectionError(r)
    /\ UNCHANGED crashed

\* The response of a connection that has been released reports its close.
LateClose(r) ==
    /\ NextEvent
    /\ \E call \in req[r].late : gate' = Freed(gate, call[1], <<r, call[2]>>)
    /\ req' = [req EXCEPT ![r].late = {}]
    /\ UNCHANGED <<tracker, books, cooling, crashed>>

RetryTimer(r) ==
    /\ NextEvent
    /\ "retry" \in req[r].timers
    /\ StartTargetRequest(r, [req[r] EXCEPT !.timers = {}], tracker[r], books, gate)
    /\ UNCHANGED <<cooling, crashed>>

-----------------------------------------------------------------------------
(* The client, and the passing of time *)

\* res 'close' before the response has ended: the request is settled as
\* aborted, the timer cleared, the connection, if there is one, destroyed.
ClientLeaves(r) ==
    /\ NextEvent
    /\ req[r].client = "there"
    /\ req[r].phase # "new"
    /\ ~req[r].ended
    /\ LET t == Abort(tracker[r])
           q == [req[r] EXCEPT !.client = "gone", !.timers = @ \ {"retry"},
                               !.dead = @ \/ Connected(r)]
       IN  Leave(r, IF q.phase \in {"delay", "stranded"} THEN Over(q) ELSE q,
                 Finish(t), BooksAfterFinish(books, t), gate)
    /\ UNCHANGED <<cooling, crashed>>

\* res 'close' after the response has ended; markSuccess.
ResponseCloses(r) ==
    /\ NextEvent
    /\ req[r].client = "there"
    /\ req[r].ended
    /\ req' = [req EXCEPT ![r].client = "closed"]
    /\ cooling' = IF req[r].failed THEN cooling ELSE cooling \ {req[r].key}
    /\ UNCHANGED <<tracker, books, gate, crashed>>

\* The cooldown of a target is over.
CooldownExpires(k) ==
    /\ NextEvent
    /\ k \in cooling
    /\ cooling' = cooling \ {k}
    /\ UNCHANGED <<req, tracker, books, gate, crashed>>

\* providers.json has been written, by the user or by the sidecar itself, and
\* is read again: loadEntry clears every cooldown.
ConfigIsReadAgain ==
    /\ NextEvent
    /\ cooling # {}
    /\ cooling' = {}
    /\ UNCHANGED <<req, tracker, books, gate, crashed>>

RequestStep(r) ==
    \/ Arrive(r) \/ Refuse(r) \/ VisionEnds(r) \/ Issue(r)
    \/ Respond200(r) \/ RespondError(r)
    \/ ErrorBodyEnds(r) \/ ErrorBodyTimer(r) \/ ErrorBodyCut(r)
    \/ StreamCompletes(r) \/ StreamEnds(r)
    \/ ConnectionFails(r) \/ WatchdogKills(r) \/ DestroyedReports(r)
    \/ LateClose(r) \/ RetryTimer(r)
    \/ ClientLeaves(r) \/ ResponseCloses(r)

Next ==
    \/ \E r \in Requests : RequestStep(r)
    \/ \E k \in Targets : CooldownExpires(k)
    \/ ConfigIsReadAgain

Spec == Init /\ [][Next]_vars

\* What the process does by itself: promise callbacks run, timers fire, and a
\* destroyed request reports it.
Forced(r) ==
    \/ Issue(r)
    \/ WatchdogKills(r) \/ DestroyedReports(r)
    \/ ErrorBodyTimer(r) \/ RetryTimer(r)

\* Nothing is assumed of upstreams, of clients or of the model that describes
\* images.
Fairness == \A r \in Requests : WF_vars(Forced(r))

FairSpec == Spec /\ Fairness

-----------------------------------------------------------------------------
(* Properties *)

Phases == {"new", "vision", "waiting", "sent", "errbody", "stream", "delay", "stranded", "over"}

RequestType ==
    [phase : Phases, route : SUBSET (Nat \ {0}), idx : Nat, key : Targets \cup {NoTarget},
     failed : BOOLEAN, retries : Nat, spare : Nat, turn : {0, 1}, dead : BOOLEAN,
     late : SUBSET (Targets \X {0, 1}),
     timers : SUBSET {"hard", "ttfb", "idle", "body", "retry"},
     headers : BOOLEAN, ended : BOOLEAN,
     client : {"there", "gone", "closed"}, seen : {"nothing", "answer", "error"}]

\* Every variable keeps its type, and no target is retried more than
\* RetryLimit times.
TypeOK ==
    /\ req \in [Requests -> RequestType]
    /\ \A r \in Requests :
           /\ req[r].retries <= RetryLimit
           /\ tracker[r].status \in {"none", "ok", "failed", "rejected", "aborted"}
    /\ cooling \subseteq Targets
    /\ crashed \in BOOLEAN

\* The gate as the limit it promises to be: who holds a release function is
\* inside, who waits is in the queue.
FairPlacesOfGate ==
    INSTANCE FairPlaces WITH
        Keys <- Targets,
        room <- [k \in Targets |-> [inside |-> gate[k].open, queue |-> gate[k].wait]]

\* Requests for one target are admitted in the order in which they came, at
\* most Places at a time, and none of them waits while a place is free --
\* however connections fail, retry, drop parameters, are killed or report
\* their close twice.  This is what the gate of upstream-watchdog.js is for.
PlacesAreFair == FairPlacesOfGate!Spec

\* The places taken from target k are those of the requests that have a
\* connection to it or are about to make one.
PlacesMatch(k) ==
    gate[k].open = {Caller(r) : r \in {w \in Requests :
                        req[w].key = k /\ (Connected(w) \/ HasPlace(w))}}

\* A place is held from the moment it is granted to the event that ends the
\* connection, and by no other request: no failure, retry, kill or departure
\* of a client leaves one behind (chat.js attaches freeOnce to every event).
\* A target for which building the request throws is the exception: nothing
\* is attached yet.
PlacesMatchConnections == \A k \in Targets \ Unsendable : PlacesMatch(k)

\* The same without the exception.  It does not hold: a target whose request
\* cannot be built keeps the place.
NoPlaceIsLost == \A k \in Targets : PlacesMatch(k)

\* What the client saw is what the books say: an error for each request that
\* ended with one, usage for each that was answered, neither for those whose
\* client left, one line in the ledger for each of the three, and at least
\* one request counted for each line, so that no error rate exceeds 1
\* (docs/subsystems/stats.md).
BooksAreTruthful ==
    LET Saw(what) == {r \in Requests : req[r].seen = what}
        Left == {r \in Requests : req[r].client = "gone"}
    IN  /\ books.errors = Cardinality(Saw("error"))
        /\ books.usages = Cardinality(Saw("answer"))
        /\ books.lines = Cardinality(Saw("error") \cup Saw("answer") \cup Left)
        /\ books.requests >= books.lines

\* Where a request can stay without an answer: its error body was cut off, it
\* waits for a target whose places were lost, or a model describes its images.
Stuck(r) ==
    \/ req[r].phase \in {"stranded", "vision"}
    \/ req[r].phase = "waiting" /\ req[r].key \in Unsendable

\* A request is answered in the end, with an error if need be, unless its
\* client leaves, whatever upstreams do or fail to do: the watchdog ends
\* every connection, and the gate admits whoever waits.
RequestsEnd ==
    \A r \in Requests :
        req[r].phase # "new" ~>
            \/ req[r].ended
            \/ req[r].client = "gone"
            \/ Stuck(r)
            \/ crashed

\* A place does not stay with a connection: sooner or later it is released,
\* also when the client has left or has its answer and the upstream goes on.
PlacesComeBack ==
    \A r \in Requests :
        Connected(r) ~> ~Connected(r) \/ crashed

\* request-tracker.js: "[tracker] endAttempt after finish".  No handler ends
\* an attempt of a request that has been settled.
NoAttemptEndsAfterFinish == ~crashed

\* chat.js gives an error response five seconds, "so that the request does
\* not hang": a request whose client stays is answered.
AnswersCome ==
    \A r \in Requests :
        req[r].phase # "new" ~> req[r].ended \/ req[r].client = "gone"

=============================================================================
