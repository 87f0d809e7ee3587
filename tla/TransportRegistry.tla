-------------------------- MODULE TransportRegistry --------------------------
(***************************************************************************)
(* cursor/transport/registry.rs and output.rs, with the handlers that use   *)
(* them: bidi_handler and bidi::append for BidiAppend, run_sse_handler with *)
(* wait_route for RunSSE.  A request id is served by a local transport, or  *)
(* marked as going to Cursor's own server; a RunSSE waits until it is       *)
(* either, and reads the transport's frames, from the first one on.         *)
(*                                                                          *)
(* The tasks run on several threads.  One action is what happens under one  *)
(* of the locks (the two maps, the hub of a transport, its lifecycle) or    *)
(* between two of them.  The actor of a transport is TransportActor's, with *)
(* what the registry and the readers see of it: that it closes, reopens for *)
(* a run request it finds in its channel, and ends.  The inbox is left out: *)
(* messages are taken in the order of the channel.                          *)
(***************************************************************************)
EXTENDS Naturals, Sequences, FiniteSets

CONSTANTS
    Requests, Appends, Streams, Transports,
    RequestOf,      \* the request id of each append and each stream
    Frames, EndFrame,
    Disconnect,     \* the command of a reader that has gone
    NoTransport,
    MaxFrames       \* bound: the frames of one transport

\* A run with a local model, a run with one of Cursor's, or a message.
Kinds == {"local", "official", "message"}

ASSUME HandlersAssumption == RequestOf \in [Appends \cup Streams -> Requests]
ASSUME NamesAssumption ==
    /\ NoTransport \notin Transports
    /\ Disconnect \notin Appends
    /\ EndFrame \notin Frames

VARIABLES
    local,      \* the transport of each request id
    upstream,   \* the generation of the mark of each request id, 0 for none
    transport,  \* lifecycle, channel and actor
    hub,        \* the output of each transport
    append,     \* the BidiAppend handlers
    stream      \* the RunSSE handlers

vars == <<local, upstream, transport, hub, append, stream>>

\* reopened is what happened to the transport, for the properties.
Unused ==
    [request |-> "none", state |-> "none", actor |-> "none", channel |-> <<>>,
     ran |-> FALSE, reopened |-> FALSE]

Created(r) == [Unused EXCEPT !.request = r, !.state = "open"]

NewStream ==
    [phase |-> "new", notified |-> FALSE, transport |-> NoTransport, generation |-> 0,
     queue |-> <<>>, got |-> <<>>]

Init ==
    /\ local = [r \in Requests |-> NoTransport]
    /\ upstream = [r \in Requests |-> 0]
    /\ transport = [t \in Transports |-> Unused]
    /\ hub = [t \in Transports |-> [history |-> <<>>, subscribers |-> {}, closed |-> FALSE]]
    /\ append = [a \in Appends |-> [phase |-> "new", kind |-> "message", transport |-> NoTransport]]
    /\ stream = [s \in Streams |-> NewStream]

-----------------------------------------------------------------------------
(* Finding and creating a transport: get_or_create_for_append, and what it  *)
(* does once it has given up the lock.                                      *)

\* A run request does not take one that is closing.
Usable(t, replace) ==
    /\ t # NoTransport
    /\ transport[t].state = "open" \/ ~replace

Create(t, r) ==
    /\ transport[t].state = "none"
    /\ transport' = [transport EXCEPT ![t] = Created(r)]
    /\ local' = [local EXCEPT ![r] = t]

\* Mutant of Hears: a Notified counts only once it is awaited.
HearsAsleep(s) == stream[s].phase = "sleep"

\* The Notified is enabled before the maps are looked at.
Hears(s) == stream[s].phase \in {"local?", "upstream?", "sleep"}

\* route_changed.notify_waiters
NotifyWaiters == [s \in Streams |-> [stream[s] EXCEPT !.notified = @ \/ Hears(s)]]

\* bind_transport spawns the actor.
Bound(t) == [transport EXCEPT ![t].actor = "runs"]

-----------------------------------------------------------------------------
(* BidiAppend                                                               *)

\* bidi_handler decides where the message goes; one without a model goes where
\* the run went.
AppendArrives(a) ==
    /\ append[a].phase = "new"
    /\ \E kind \in Kinds :
           append' = [append EXCEPT
               ![a].kind = kind,
               ![a].phase =
                   CASE kind = "local" -> "find"
                     [] kind = "official" -> "mark"
                     [] OTHER -> IF local[RequestOf[a]] # NoTransport THEN "find" ELSE "ask"]
    /\ UNCHANGED <<local, upstream, transport, hub, stream>>

\* Not here: it goes upstream if the request is marked, else it is refused.
AppendAsks(a) ==
    /\ append[a].phase = "ask"
    /\ append' = [append EXCEPT ![a].phase =
                     IF upstream[RequestOf[a]] # 0 THEN "forwarded" ELSE "refused"]
    /\ UNCHANGED <<local, upstream, transport, hub, stream>>

\* mark_upstream, under its lock.
MarkUpstream(a) ==
    /\ append[a].phase = "mark"
    /\ upstream' = [upstream EXCEPT ![RequestOf[a]] = @ + 1]
    /\ append' = [append EXCEPT ![a].phase = "announce"]
    /\ UNCHANGED <<local, transport, hub, stream>>

FindTransport(a) ==
    LET r == RequestOf[a]
        replace == append[a].kind = "local"
    IN  /\ append[a].phase = "find"
        /\ \/ /\ Usable(local[r], replace)
              /\ append' = [append EXCEPT ![a].phase = "admit", ![a].transport = local[r]]
              /\ UNCHANGED <<local, transport>>
           \/ /\ ~Usable(local[r], replace)
              /\ \E t \in Transports :
                     /\ Create(t, r)
                     /\ append' = [append EXCEPT ![a].phase = "announce", ![a].transport = t]
        /\ UNCHANGED <<upstream, hub, stream>>

AnnounceRoute(a) ==
    /\ append[a].phase = "announce"
    /\ stream' = NotifyWaiters
    /\ \/ /\ append[a].transport # NoTransport
          /\ transport' = Bound(append[a].transport)
          /\ append' = [append EXCEPT ![a].phase = "admit"]
       \/ /\ append[a].transport = NoTransport
          /\ append' = [append EXCEPT ![a].phase = "forwarded"]
          /\ UNCHANGED transport
    /\ UNCHANGED <<local, upstream, hub>>

Admit(a) ==
    /\ append[a].phase = "admit"
    /\ append' = [append EXCEPT ![a].phase =
                     IF transport[append[a].transport].state = "open" THEN "admitted" ELSE "refused"]
    /\ UNCHANGED <<local, upstream, transport, hub, stream>>

\* The command is sent, and the admission given up; it fails when the actor,
\* and with it the channel, is no more.
SendCommand(a) ==
    LET t == append[a].transport
    IN  /\ append[a].phase = "admitted"
        /\ \/ /\ transport[t].actor # "gone"
              /\ transport' = [transport EXCEPT ![t].channel = Append(@, a)]
              /\ append' = [append EXCEPT ![a].phase = "sent"]
           \/ /\ transport[t].actor = "gone"
              /\ append' = [append EXCEPT ![a].phase = "refused"]
              /\ UNCHANGED transport
        /\ UNCHANGED <<local, upstream, hub, stream>>

\* The client closes the connection while the handler waits for a lock or for
\* room in the channel.
AppendGivesUp(a) ==
    /\ append[a].phase \in {"mark", "ask", "find", "admitted"}
    /\ append' = [append EXCEPT ![a].phase = "refused"]
    /\ UNCHANGED <<local, upstream, transport, hub, stream>>

-----------------------------------------------------------------------------
(* The actor of a transport                                                 *)

Admitted(t) == {a \in Appends : append[a].phase = "admitted" /\ append[a].transport = t}

\* A command is taken.  A run request reopens a transport that drains, and one
\* for another conversation is an error that ends the actor.
TakeCommand(t) ==
    LET q == transport[t]
        rest == [q EXCEPT !.channel = Tail(@)]
        c == Head(q.channel)
    IN  /\ q.actor = "runs"
        /\ q.channel # <<>>
        /\ \/ c = Disconnect /\ transport' = [transport EXCEPT ![t] = [rest EXCEPT !.actor = "ends"]]
           \/ /\ c \in Appends /\ append[c].kind = "local"
              /\ \E actor \in {"runs", "ends"} :
                     transport' = [transport EXCEPT ![t] =
                         [rest EXCEPT !.actor = actor, !.ran = TRUE, !.state = "open",
                                      !.reopened = @ \/ q.state = "closing"]]
           \/ /\ c \in Appends /\ append[c].kind # "local"
              /\ transport' = [transport EXCEPT ![t] = rest]
        /\ UNCHANGED <<local, upstream, hub, append, stream>>

\* The run is over, or the client has not continued it in time.
BeginClose(t) ==
    /\ transport[t].actor = "runs"
    /\ transport[t].ran
    /\ transport[t].state = "open"
    /\ transport' = [transport EXCEPT ![t].state = "closing"]
    /\ UNCHANGED <<local, upstream, hub, append, stream>>

\* Nothing is left to take.  Where the report is not of the current run, the
\* actor leaves without closing the output.
Drained(t) ==
    /\ transport[t].actor = "runs"
    /\ transport[t].state = "closing"
    /\ transport[t].channel = <<>>
    /\ Admitted(t) = {}
    /\ \E actor \in {"ends", "leaves"} : transport' = [transport EXCEPT ![t].actor = actor]
    /\ UNCHANGED <<local, upstream, hub, append, stream>>

ActorLeaves(t) ==
    /\ transport[t].actor = "leaves"
    /\ transport' = [transport EXCEPT ![t].actor = "gone", ![t].state = "closed"]
    /\ UNCHANGED <<local, upstream, hub, append, stream>>

\* Mutant of RemoveTransport: the task removes whatever has the request id.
RemoveAny(t) ==
    /\ transport[t].actor = "gone"
    /\ local' = [local EXCEPT ![transport[t].request] = NoTransport]
    /\ UNCHANGED <<upstream, transport, hub, append, stream>>

\* The task that has waited for the end of the transport: it removes what it
\* was spawned for, and nothing that has come since.
RemoveTransport(t) ==
    /\ transport[t].actor = "gone"
    /\ local[transport[t].request] = t
    /\ local' = [local EXCEPT ![transport[t].request] = NoTransport]
    /\ UNCHANGED <<upstream, transport, hub, append, stream>>

-----------------------------------------------------------------------------
(* The output of a transport                                                *)

Sent(t, f) ==
    [s \in Streams |->
        IF s \in hub[t].subscribers
          THEN [stream[s] EXCEPT !.queue = Append(@, f)]
          ELSE stream[s]]

\* emit, of an output that is not closed; otherwise it does nothing.
Emitted(t, f) ==
    /\ hub' = [hub EXCEPT ![t].history = Append(@, f)]
    /\ stream' = Sent(t, f)

\* A task of the transport, or a handler, emits a frame.
Emit(t) ==
    /\ transport[t].state # "none"
    /\ ~hub[t].closed
    /\ Len(hub[t].history) < MaxFrames
    /\ \E f \in Frames : Emitted(t, f)
    /\ UNCHANGED <<local, upstream, transport, append>>

\* The end frame, and the end of the output: others may emit in between.
EmitEnd(t) ==
    /\ transport[t].actor = "ends"
    /\ Emitted(t, EndFrame)
    /\ transport' = [transport EXCEPT ![t].actor = "closes"]
    /\ UNCHANGED <<local, upstream, append>>

CloseOutput(t) ==
    /\ transport[t].actor = "closes"
    /\ hub' = [hub EXCEPT ![t].closed = TRUE, ![t].subscribers = {}]
    /\ transport' = [transport EXCEPT ![t].actor = "leaves"]
    /\ UNCHANGED <<local, upstream, append, stream>>

-----------------------------------------------------------------------------
(* RunSSE                                                                   *)

\* wait_route, which begins again when it is woken.
WaitRoute(s) ==
    /\ \/ stream[s].phase = "new"
       \/ stream[s].phase = "sleep" /\ stream[s].notified
    /\ stream' = [stream EXCEPT ![s].phase = "local?", ![s].notified = FALSE]
    /\ UNCHANGED <<local, upstream, transport, hub, append>>

LookLocal(s) ==
    /\ stream[s].phase = "local?"
    /\ stream' = [stream EXCEPT ![s].phase =
                     IF local[RequestOf[s]] # NoTransport THEN "find" ELSE "upstream?"]
    /\ UNCHANGED <<local, upstream, transport, hub, append>>

LookUpstream(s) ==
    LET generation == upstream[RequestOf[s]]
    IN  /\ stream[s].phase = "upstream?"
        /\ stream' = [stream EXCEPT ![s].phase = IF generation # 0 THEN "forward" ELSE "sleep",
                                    ![s].generation = generation]
        /\ UNCHANGED <<local, upstream, transport, hub, append>>

\* get_or_create: the transport it has seen may be gone by now.
StreamFinds(s) ==
    LET r == RequestOf[s]
    IN  /\ stream[s].phase = "find"
        /\ \/ /\ Usable(local[r], FALSE)
              /\ stream' = [stream EXCEPT ![s].phase = "subscribe", ![s].transport = local[r]]
              /\ UNCHANGED <<local, transport>>
           \/ /\ ~Usable(local[r], FALSE)
              /\ \E t \in Transports :
                     /\ Create(t, r)
                     /\ stream' = [stream EXCEPT ![s].phase = "announce", ![s].transport = t]
        /\ UNCHANGED <<upstream, hub, append>>

StreamAnnounces(s) ==
    /\ stream[s].phase = "announce"
    /\ stream' = [NotifyWaiters EXCEPT ![s].phase = "subscribe"]
    /\ transport' = Bound(stream[s].transport)
    /\ UNCHANGED <<local, upstream, hub, append>>

\* Mutant of Replay: what was emitted earlier is not repeated.
NoReplay(t) == <<>>

\* The frames so far are put into the new reader's channel.
Replay(t) == hub[t].history

Subscribe(s) ==
    LET t == stream[s].transport
    IN  /\ stream[s].phase = "subscribe"
        /\ stream' = [stream EXCEPT ![s].phase = "reading", ![s].queue = Replay(t)]
        /\ hub' = [hub EXCEPT ![t].subscribers = IF hub[t].closed THEN @ ELSE @ \cup {s}]
        /\ UNCHANGED <<local, upstream, transport, append>>

\* The stream that reads no more; its channel is dropped.
Unsubscribed(s) ==
    [hub EXCEPT ![stream[s].transport].subscribers = @ \ {s}]

\* A frame is passed on; the stream is complete with an end frame.  The loop of
\* local_body_stream would also end with its channel, but an output is closed,
\* and its senders dropped, only after an end frame.
PassFrame(s) ==
    LET f == Head(stream[s].queue)
        now == [stream[s] EXCEPT !.got = Append(@, f), !.queue = Tail(@)]
    IN  /\ stream[s].phase = "reading"
        /\ stream[s].queue # <<>>
        /\ \/ /\ f # EndFrame
              /\ stream' = [stream EXCEPT ![s] = now]
              /\ UNCHANGED hub
           \/ /\ f = EndFrame
              /\ stream' = [stream EXCEPT ![s] = [now EXCEPT !.phase = "complete", !.queue = <<>>]]
              /\ hub' = Unsubscribed(s)
        /\ UNCHANGED <<local, upstream, transport, append>>

\* The client closes the connection.  LocalRunGuard will disconnect the
\* transport; there is none before the body has been asked for a frame.
ClientLeaves(s) ==
    /\ stream[s].phase = "reading"
    /\ \E phase \in {"left", "over"} :
           /\ phase = "over" => stream[s].got = <<>>
           /\ stream' = [stream EXCEPT ![s].phase = phase, ![s].queue = <<>>]
    /\ hub' = Unsubscribed(s)
    /\ UNCHANGED <<local, upstream, transport, append>>

SendDisconnect(s) ==
    LET t == stream[s].transport
    IN  /\ stream[s].phase = "left"
        /\ stream' = [stream EXCEPT ![s].phase = "over"]
        /\ transport' = IF transport[t].actor = "gone" THEN transport
                        ELSE [transport EXCEPT ![t].channel = Append(@, Disconnect)]
        /\ UNCHANGED <<local, upstream, hub, append>>

\* The client closes the connection of a handler that waits.
ClientGivesUp(s) ==
    /\ stream[s].phase \in {"local?", "upstream?", "sleep", "find", "forward"}
    /\ stream' = [stream EXCEPT ![s].phase = "over"]
    /\ UNCHANGED <<local, upstream, transport, hub, append>>

\* The request is forwarded, or that fails, and the mark stays.
Forward(s) ==
    /\ stream[s].phase = "forward"
    /\ \E phase \in {"upstream", "over"} : stream' = [stream EXCEPT ![s].phase = phase]
    /\ UNCHANGED <<local, upstream, transport, hub, append>>

\* The response is over, and UpstreamRunGuard spawns its task.
UpstreamEnds(s) ==
    /\ stream[s].phase = "upstream"
    /\ stream' = [stream EXCEPT ![s].phase = "finish"]
    /\ UNCHANGED <<local, upstream, transport, hub, append>>

FinishUpstream(s) ==
    LET r == RequestOf[s]
    IN  /\ stream[s].phase = "finish"
        /\ upstream' = [upstream EXCEPT ![r] = IF @ = stream[s].generation THEN 0 ELSE @]
        /\ stream' = [stream EXCEPT ![s].phase = "over"]
        /\ UNCHANGED <<local, transport, hub, append>>

-----------------------------------------------------------------------------

AppendNext(a) ==
    \/ AppendArrives(a) \/ AppendAsks(a) \/ MarkUpstream(a) \/ FindTransport(a)
    \/ AnnounceRoute(a) \/ Admit(a) \/ SendCommand(a) \/ AppendGivesUp(a)

TransportNext(t) ==
    \/ TakeCommand(t) \/ BeginClose(t) \/ Drained(t) \/ ActorLeaves(t) \/ RemoveTransport(t)
    \/ Emit(t) \/ EmitEnd(t) \/ CloseOutput(t)

StreamNext(s) ==
    \/ WaitRoute(s) \/ LookLocal(s) \/ LookUpstream(s) \/ StreamFinds(s) \/ StreamAnnounces(s)
    \/ Subscribe(s) \/ PassFrame(s) \/ ClientLeaves(s) \/ SendDisconnect(s)
    \/ ClientGivesUp(s) \/ Forward(s) \/ UpstreamEnds(s) \/ FinishUpstream(s)

Next ==
    \/ \E a \in Appends : AppendNext(a)
    \/ \E t \in Transports : TransportNext(t)
    \/ \E s \in Streams : StreamNext(s)

Spec == Init /\ [][Next]_vars

-----------------------------------------------------------------------------
(* Properties                                                               *)

Announcing ==
    \/ \E a \in Appends : append[a].phase = "announce"
    \/ \E s \in Streams : stream[s].phase = "announce"

\* A RunSSE does not sleep beside a route: when its request has a transport or
\* a mark, it has been notified, or whoever made the route is still to notify
\* it -- however the looks at the two maps, the changes of both and the
\* notifications fall.
SleepersAreTold ==
    \A s \in Streams :
        stream[s].phase = "sleep" /\ ~stream[s].notified =>
            \/ local[RequestOf[s]] = NoTransport /\ upstream[RequestOf[s]] = 0
            \/ Announcing

\* A transport that takes messages is the one its request id leads to: it is
\* neither replaced nor removed by the task of an earlier one.  The exception
\* is one that was closing, was replaced, and then reopened itself for a run
\* request that it still had in its channel.
OpenTransportsAreMapped ==
    \A t \in Transports :
        transport[t].state = "open" =>
            local[transport[t].request] = t \/ transport[t].reopened

\* A stream as a reader of its transport.
ReaderOf(s) ==
    [status |-> CASE stream[s].phase = "reading" -> "reading"
                  [] stream[s].phase = "complete" -> "done"
                  [] OTHER -> "gone",
     channel |-> stream[s].transport,
     got |-> stream[s].got]

IsReader(s) ==
    \/ stream[s].phase \in {"reading", "complete", "left"}
    \/ stream[s].phase = "over" /\ stream[s].transport # NoTransport

Output == INSTANCE Broadcast WITH
    Channels <- Transports,
    Readers <- Streams,
    NoChannel <- NoTransport,
    log <- [t \in Transports |-> hub[t].history],
    ended <- [t \in Transports |-> hub[t].closed],
    reader <- [s \in Streams |->
                  IF IsReader(s) THEN ReaderOf(s)
                  ELSE [status |-> "idle", channel |-> NoTransport, got |-> <<>>]]

\* What the hub promises: each stream shows its transport's frames in order from the
\* first, whenever it joined and whoever emits beside it, and ends by itself only
\* after an end frame; and no output is closed before its end frame, so none of
\* them is left waiting for frames that never come.
StreamsReadAll == Output!Spec

=============================================================================
