---------------------- MODULE TransportRegistry_proofs ----------------------
(***************************************************************************)
(* Proofs about TransportRegistry, for every set of requests, handlers,     *)
(* readers, transports and frames: no RunSSE sleeps beside its route, open  *)
(* transports are found under their request id, and the hub implements      *)
(* Broadcast.                                                               *)
(***************************************************************************)
EXTENDS TransportRegistry, TLAPS, SequenceTheorems

-----------------------------------------------------------------------------
(* The shape of the state                                                   *)

AllFrames == Frames \cup {EndFrame}

TransportFields == {"request", "state", "actor", "channel", "ran", "reopened"}

StreamFields == {"phase", "notified", "transport", "generation", "queue", "got"}

RoutesOK ==
    /\ local \in [Requests -> Transports \cup {NoTransport}]
    /\ upstream \in [Requests -> Nat]

TransportsOK(v) ==
    /\ DOMAIN v = Transports
    /\ \A t \in Transports : DOMAIN v[t] = TransportFields

HubsOK(v) ==
    /\ DOMAIN v = Transports
    /\ \A t \in Transports :
           /\ DOMAIN v[t] = {"history", "subscribers", "closed"}
           /\ v[t].history \in Seq(AllFrames)
           /\ v[t].subscribers \subseteq Streams
           /\ v[t].closed \in BOOLEAN

AppendsOK(v) ==
    /\ DOMAIN v = Appends
    /\ \A a \in Appends :
           /\ DOMAIN v[a] = {"phase", "kind", "transport"}
           /\ v[a].transport \in Transports \cup {NoTransport}

StreamOK(q) ==
    /\ DOMAIN q = StreamFields
    /\ q.notified \in BOOLEAN
    /\ q.transport \in Transports \cup {NoTransport}
    /\ q.queue \in Seq(AllFrames)
    /\ q.got \in Seq(AllFrames)

StreamsOK(v) ==
    /\ DOMAIN v = Streams
    /\ \A s \in Streams : StreamOK(v[s])

Shape ==
    /\ RoutesOK
    /\ TransportsOK(transport)
    /\ HubsOK(hub)
    /\ AppendsOK(append)
    /\ StreamsOK(stream)

\* Handlers without a transport, and with one.
Outside ==
    {"new", "local?", "upstream?", "sleep", "find", "forward", "upstream", "finish"}

\* A stream has its transport before it reads, and has read nothing before.
Placed ==
    \A s \in Streams :
        /\ stream[s].phase \in Outside =>
               stream[s].transport = NoTransport /\ stream[s].got = <<>>
        /\ stream[s].phase \in {"announce", "subscribe"} =>
               stream[s].transport \in Transports /\ stream[s].got = <<>>
        /\ stream[s].phase \in {"reading", "complete", "left"} =>
               stream[s].transport \in Transports
        /\ stream[s].phase \in Outside \cup
               {"announce", "subscribe", "reading", "complete", "left", "over"}

\* Each handler belongs to a request.
LEMMA RequestsOf ==
    /\ \A a \in Appends : RequestOf[a] \in Requests
    /\ \A s \in Streams : RequestOf[s] \in Requests
BY HandlersAssumption

\* A notification changes nothing but what the handlers have heard.
LEMMA NotifyShape ==
    ASSUME Shape
    PROVE  /\ DOMAIN NotifyWaiters = Streams
           /\ \A s \in Streams :
                  /\ DOMAIN NotifyWaiters[s] = StreamFields
                  /\ NotifyWaiters[s].notified \in BOOLEAN
                  /\ NotifyWaiters[s].notified <=> (stream[s].notified \/ Hears(s))
                  /\ NotifyWaiters[s].phase = stream[s].phase
                  /\ NotifyWaiters[s].transport = stream[s].transport
                  /\ NotifyWaiters[s].queue = stream[s].queue
                  /\ NotifyWaiters[s].got = stream[s].got
BY DEF Shape, StreamsOK, StreamOK, NotifyWaiters, StreamFields

\* A frame that is sent changes nothing but what the subscribers have to read.
LEMMA SentShape ==
    ASSUME Shape, NEW t \in Transports, NEW f \in AllFrames
    PROVE  /\ DOMAIN Sent(t, f) = Streams
           /\ \A s \in Streams :
                  /\ DOMAIN Sent(t, f)[s] = StreamFields
                  /\ Sent(t, f)[s].notified = stream[s].notified
                  /\ Sent(t, f)[s].phase = stream[s].phase
                  /\ Sent(t, f)[s].transport = stream[s].transport
                  /\ Sent(t, f)[s].queue = IF s \in hub[t].subscribers
                                             THEN Append(stream[s].queue, f)
                                             ELSE stream[s].queue
                  /\ Sent(t, f)[s].queue \in Seq(AllFrames)
                  /\ Sent(t, f)[s].got = stream[s].got
BY DEF Shape, StreamsOK, StreamOK, HubsOK, Sent, StreamFields

\* The steps of an append handler keep the shape.
LEMMA AppendShape ==
    ASSUME Shape, NEW a \in Appends, AppendNext(a)
    PROVE  Shape'
<1> USE RequestsOf DEF Shape
<1>1. CASE AppendArrives(a)
  <2>1. AppendsOK(append')
    BY <1>1 DEF AppendArrives, AppendsOK
  <2>2. QED
    BY <1>1, <2>1 DEF AppendArrives, RoutesOK
<1>2. CASE AppendAsks(a)
  <2>1. AppendsOK(append')
    BY <1>2 DEF AppendAsks, AppendsOK
  <2>2. QED
    BY <1>2, <2>1 DEF AppendAsks, RoutesOK
<1>3. CASE MarkUpstream(a)
  <2>1. AppendsOK(append')
    BY <1>3 DEF MarkUpstream, AppendsOK
  <2>2. QED
    BY <1>3, <2>1 DEF MarkUpstream, RoutesOK
<1>4. CASE FindTransport(a)
  <2>1. CASE Usable(local[RequestOf[a]], append[a].kind = "local")
    <3>1. AppendsOK(append')
      BY <1>4, <2>1 DEF FindTransport, AppendsOK, RoutesOK
    <3>2. QED
      BY <1>4, <2>1, <3>1 DEF FindTransport, RoutesOK
  <2>2. CASE ~Usable(local[RequestOf[a]], append[a].kind = "local")
    <3>1. PICK t \in Transports :
             /\ Create(t, RequestOf[a])
             /\ append' = [append EXCEPT ![a].phase = "announce", ![a].transport = t]
      BY <1>4, <2>2 DEF FindTransport
    <3>2. TransportsOK(transport')
      BY <3>1 DEF TransportsOK, Create, Created, Unused, TransportFields
    <3>3. local' \in [Requests -> Transports \cup {NoTransport}]
      BY <3>1 DEF RoutesOK, Create
    <3>4. AppendsOK(append')
      BY <3>1 DEF AppendsOK
    <3>5. QED
      BY <1>4, <3>2, <3>3, <3>4 DEF FindTransport, RoutesOK
  <2>3. QED
    BY <2>1, <2>2
<1>5. CASE AnnounceRoute(a)
  <2>1. TransportsOK(transport')
    BY <1>5 DEF AnnounceRoute, Bound, TransportsOK
  <2>2. AppendsOK(append')
    BY <1>5 DEF AnnounceRoute, AppendsOK
  <2>3. StreamsOK(stream')
    BY <1>5, NotifyShape DEF AnnounceRoute, StreamsOK, StreamOK
  <2>4. QED
    BY <1>5, <2>1, <2>2, <2>3 DEF AnnounceRoute, RoutesOK
<1>6. CASE Admit(a)
  <2>1. AppendsOK(append')
    BY <1>6 DEF Admit, AppendsOK
  <2>2. QED
    BY <1>6, <2>1 DEF Admit, RoutesOK
<1>7. CASE SendCommand(a)
  <2>1. TransportsOK(transport')
    BY <1>7 DEF SendCommand, TransportsOK, TransportFields
  <2>2. AppendsOK(append')
    BY <1>7 DEF SendCommand, AppendsOK
  <2>3. QED
    BY <1>7, <2>1, <2>2 DEF SendCommand, RoutesOK
<1>8. CASE AppendGivesUp(a)
  <2>1. AppendsOK(append')
    BY <1>8 DEF AppendGivesUp, AppendsOK
  <2>2. QED
    BY <1>8, <2>1 DEF AppendGivesUp, RoutesOK
<1>9. QED
  BY <1>1, <1>2, <1>3, <1>4, <1>5, <1>6, <1>7, <1>8 DEF AppendNext

\* The steps of a transport keep the shape.
LEMMA TransportShape ==
    ASSUME Shape, NEW t \in Transports, TransportNext(t)
    PROVE  Shape'
<1> USE DEF Shape
<1>1. CASE TakeCommand(t)
  <2>1. TransportsOK(transport')
    BY <1>1 DEF TakeCommand, TransportsOK, TransportFields
  <2>2. QED
    BY <1>1, <2>1 DEF TakeCommand, RoutesOK
<1>2. CASE BeginClose(t)
  <2>1. TransportsOK(transport')
    BY <1>2 DEF BeginClose, TransportsOK, TransportFields
  <2>2. QED
    BY <1>2, <2>1 DEF BeginClose, RoutesOK
<1>3. CASE Drained(t)
  <2>1. TransportsOK(transport')
    BY <1>3 DEF Drained, TransportsOK, TransportFields
  <2>2. QED
    BY <1>3, <2>1 DEF Drained, RoutesOK
<1>4. CASE ActorLeaves(t)
  <2>1. TransportsOK(transport')
    BY <1>4 DEF ActorLeaves, TransportsOK, TransportFields
  <2>2. QED
    BY <1>4, <2>1 DEF ActorLeaves, RoutesOK
<1>5. CASE RemoveTransport(t)
  BY <1>5 DEF RemoveTransport, RoutesOK
<1>6. ASSUME NEW f \in AllFrames, Emitted(t, f)
      PROVE  HubsOK(hub') /\ StreamsOK(stream')
  <2>1. HubsOK(hub')
    BY <1>6 DEF Emitted, HubsOK
  <2>2. StreamsOK(stream')
    BY <1>6, SentShape DEF Emitted, StreamsOK, StreamOK
  <2>3. QED
    BY <2>1, <2>2
<1>7. CASE Emit(t)
  <2>1. PICK f \in AllFrames : Emitted(t, f)
    BY <1>7 DEF Emit, AllFrames
  <2>2. QED
    BY <1>6, <1>7, <2>1 DEF Emit, RoutesOK
<1>8. CASE EmitEnd(t)
  <2>1. EndFrame \in AllFrames
    BY DEF AllFrames
  <2>2. TransportsOK(transport')
    BY <1>8 DEF EmitEnd, TransportsOK
  <2>3. HubsOK(hub') /\ StreamsOK(stream')
    BY <1>6, <1>8, <2>1 DEF EmitEnd
  <2>4. QED
    BY <1>8, <2>2, <2>3 DEF EmitEnd, RoutesOK
<1>9. CASE CloseOutput(t)
  <2>1. TransportsOK(transport')
    BY <1>9 DEF CloseOutput, TransportsOK, TransportFields
  <2>2. HubsOK(hub')
    BY <1>9 DEF CloseOutput, HubsOK
  <2>3. QED
    BY <1>9, <2>1, <2>2 DEF CloseOutput, RoutesOK
<1>10. QED
  BY <1>1, <1>2, <1>3, <1>4, <1>5, <1>7, <1>8, <1>9 DEF TransportNext

\* The steps of a stream keep the shape.
LEMMA StreamShape ==
    ASSUME Shape, Placed, NEW s \in Streams, StreamNext(s)
    PROVE  Shape'
<1> USE RequestsOf DEF Shape
<1>1. CASE WaitRoute(s)
  <2>1. StreamsOK(stream')
    BY <1>1 DEF WaitRoute, StreamsOK, StreamOK, StreamFields
  <2>2. QED
    BY <1>1, <2>1 DEF WaitRoute, RoutesOK
<1>2. CASE LookLocal(s)
  <2>1. StreamsOK(stream')
    BY <1>2 DEF LookLocal, StreamsOK, StreamOK, StreamFields
  <2>2. QED
    BY <1>2, <2>1 DEF LookLocal, RoutesOK
<1>3. CASE LookUpstream(s)
  <2>1. StreamsOK(stream')
    BY <1>3 DEF LookUpstream, StreamsOK, StreamOK, StreamFields
  <2>2. QED
    BY <1>3, <2>1 DEF LookUpstream, RoutesOK
<1>4. CASE StreamFinds(s)
  <2>1. CASE Usable(local[RequestOf[s]], FALSE)
    <3>1. local[RequestOf[s]] \in Transports \cup {NoTransport}
      BY DEF RoutesOK
    <3>2. stream' = [stream EXCEPT ![s].phase = "subscribe", ![s].transport = local[RequestOf[s]]]
      BY <1>4, <2>1 DEF StreamFinds
    <3>3. StreamsOK(stream')
      BY <3>1, <3>2 DEF StreamsOK, StreamOK, StreamFields
    <3>4. QED
      BY <1>4, <2>1, <3>3 DEF StreamFinds, RoutesOK
  <2>2. CASE ~Usable(local[RequestOf[s]], FALSE)
    <3>1. PICK t \in Transports :
             /\ Create(t, RequestOf[s])
             /\ stream' = [stream EXCEPT ![s].phase = "announce", ![s].transport = t]
      BY <1>4, <2>2 DEF StreamFinds
    <3>2. TransportsOK(transport')
      BY <3>1 DEF TransportsOK, Create, Created, Unused, TransportFields
    <3>3. local' \in [Requests -> Transports \cup {NoTransport}]
      BY <3>1 DEF RoutesOK, Create
    <3>4. StreamsOK(stream')
      BY <3>1 DEF StreamsOK, StreamOK, StreamFields
    <3>5. QED
      BY <1>4, <3>2, <3>3, <3>4 DEF StreamFinds, RoutesOK
  <2>3. QED
    BY <2>1, <2>2
<1>5. CASE StreamAnnounces(s)
  <2>1. TransportsOK(transport')
    BY <1>5 DEF StreamAnnounces, Bound, TransportsOK
  <2>2. stream' = [NotifyWaiters EXCEPT ![s].phase = "subscribe"]
    BY <1>5 DEF StreamAnnounces
  <2>3. StreamsOK(NotifyWaiters)
    BY NotifyShape DEF StreamsOK, StreamOK
  <2>4. StreamsOK(stream')
    BY <2>2, <2>3 DEF StreamsOK, StreamOK, StreamFields
  <2>5. QED
    BY <1>5, <2>1, <2>4 DEF StreamAnnounces, RoutesOK
<1>6. CASE Subscribe(s)
  <2>1. HubsOK(hub')
    BY <1>6 DEF Subscribe, HubsOK
  <2>2. stream[s].transport \in Transports
    BY <1>6 DEF Subscribe, Placed
  <2>3. Replay(stream[s].transport) \in Seq(AllFrames)
    BY <2>2 DEF Replay, HubsOK
  <2>4. StreamsOK(stream')
    BY <1>6, <2>3 DEF Subscribe, StreamsOK, StreamOK, StreamFields
  <2>5. QED
    BY <1>6, <2>1, <2>4 DEF Subscribe, RoutesOK
<1>7. CASE PassFrame(s)
  <2>1. /\ Tail(stream[s].queue) \in Seq(AllFrames)
        /\ Append(stream[s].got, Head(stream[s].queue)) \in Seq(AllFrames)
    BY <1>7 DEF PassFrame, StreamsOK, StreamOK
  <2>2. HubsOK(hub')
    BY <1>7 DEF PassFrame, Unsubscribed, HubsOK
  <2>3. PICK q : stream' = [stream EXCEPT ![s] = q] /\ StreamOK(q)
    <3>1. StreamOK([stream[s] EXCEPT !.got = Append(@, Head(stream[s].queue)), !.queue = Tail(@)])
      BY <2>1 DEF StreamsOK, StreamOK, StreamFields
    <3>2. StreamOK([[stream[s] EXCEPT !.got = Append(@, Head(stream[s].queue)), !.queue = Tail(@)]
                        EXCEPT !.phase = "complete", !.queue = <<>>])
      BY <3>1 DEF StreamOK, StreamFields
    <3>3. QED
      BY <1>7, <3>1, <3>2 DEF PassFrame
  <2>4. StreamsOK(stream')
    BY <2>3 DEF StreamsOK
  <2>5. QED
    BY <1>7, <2>2, <2>4 DEF PassFrame, RoutesOK
<1>8. CASE ClientGivesUp(s)
  <2>1. StreamsOK(stream')
    BY <1>8 DEF ClientGivesUp, StreamsOK, StreamOK, StreamFields
  <2>2. QED
    BY <1>8, <2>1 DEF ClientGivesUp, RoutesOK
<1>9. CASE Forward(s)
  <2>1. StreamsOK(stream')
    BY <1>9 DEF Forward, StreamsOK, StreamOK, StreamFields
  <2>2. QED
    BY <1>9, <2>1 DEF Forward, RoutesOK
<1>10. CASE UpstreamEnds(s)
  <2>1. StreamsOK(stream')
    BY <1>10 DEF UpstreamEnds, StreamsOK, StreamOK, StreamFields
  <2>2. QED
    BY <1>10, <2>1 DEF UpstreamEnds, RoutesOK
<1>11. CASE ClientLeaves(s)
  <2>0. PICK phase \in {"left", "over"} :
           stream' = [stream EXCEPT ![s].phase = phase, ![s].queue = <<>>]
    BY <1>11 DEF ClientLeaves
  <2>1. StreamsOK(stream')
    BY <2>0 DEF StreamsOK, StreamOK, StreamFields
  <2>2. HubsOK(hub')
    BY <1>11 DEF ClientLeaves, Unsubscribed, HubsOK
  <2>3. QED
    BY <1>11, <2>1, <2>2 DEF ClientLeaves, RoutesOK
<1>12. CASE SendDisconnect(s)
  <2>1. StreamsOK(stream')
    BY <1>12 DEF SendDisconnect, StreamsOK, StreamOK, StreamFields
  <2>2. TransportsOK(transport')
    BY <1>12 DEF SendDisconnect, TransportsOK, TransportFields
  <2>3. QED
    BY <1>12, <2>1, <2>2 DEF SendDisconnect, RoutesOK
<1>13. CASE FinishUpstream(s)
  <2>1. StreamsOK(stream')
    BY <1>13 DEF FinishUpstream, StreamsOK, StreamOK, StreamFields
  <2>2. QED
    BY <1>13, <2>1 DEF FinishUpstream, RoutesOK
<1>14. QED
  BY <1>1, <1>2, <1>3, <1>4, <1>5, <1>6, <1>7, <1>8, <1>9, <1>10, <1>11, <1>12, <1>13
     DEF StreamNext

-----------------------------------------------------------------------------
(* Announcers, actors and the map                                           *)

BindsA(a, t) == append[a].phase = "announce" /\ append[a].transport = t

BindsS(s, t) == stream[s].phase = "announce" /\ stream[s].transport = t

\* A transport is announced once, by whoever created it, and its actor does
\* not run before.
Bindings ==
    \A t \in Transports :
        /\ transport[t].actor = "runs" => transport[t].state \in {"open", "closing"}
        /\ transport[t].actor = "gone" => transport[t].state = "closed"
        /\ transport[t].state = "none" => transport[t].actor = "none"
        /\ \A a \in Appends :
               BindsA(a, t) => transport[t].actor = "none" /\ transport[t].state = "open"
        /\ \A s \in Streams :
               BindsS(s, t) => transport[t].actor = "none" /\ transport[t].state = "open"
        /\ \A a, b \in Appends : BindsA(a, t) /\ BindsA(b, t) => a = b
        /\ \A s, u \in Streams : BindsS(s, t) /\ BindsS(u, t) => s = u
        /\ \A a \in Appends, s \in Streams : ~(BindsA(a, t) /\ BindsS(s, t))

\* What the map has under a request id was created for it.
Named ==
    /\ \A t \in Transports :
           transport[t].state # "none" => transport[t].request \in Requests
    /\ \A r \in Requests :
           local[r] # NoTransport =>
               transport[local[r]].state # "none" /\ transport[local[r]].request = r
    /\ OpenTransportsAreMapped

\* An append handler has no transport before it has looked for one, and then
\* it has.
Unplaced ==
    \A a \in Appends :
        /\ append[a].phase \in {"new", "find", "mark", "ask"} => append[a].transport = NoTransport
        /\ append[a].phase \in {"admit", "admitted"} => append[a].transport \in Transports

\* Nobody begins to announce.
NoNewBinds ==
    /\ \A a \in Appends :
           append'[a].phase = "announce" =>
               \/ append'[a].transport = NoTransport
               \/ append[a].phase = "announce" /\ append'[a].transport = append[a].transport
    /\ \A s \in Streams :
           stream'[s].phase = "announce" =>
               stream[s].phase = "announce" /\ stream'[s].transport = stream[s].transport

\* Steps that leave the transports and the map alone.
LEMMA BindingsStay ==
    ASSUME Shape, Bindings, Named, NoNewBinds, UNCHANGED <<local, transport>>
    PROVE  Bindings' /\ Named'
<1>1. /\ \A a \in Appends, t \in Transports : BindsA(a, t)' => BindsA(a, t)
      /\ \A s \in Streams, t \in Transports : BindsS(s, t)' => BindsS(s, t)
  BY NamesAssumption DEF NoNewBinds, BindsA, BindsS
<1>2. Bindings'
  BY <1>1 DEF Bindings
<1>3. Named'
  BY DEF Named, OpenTransportsAreMapped
<1>4. QED
  BY <1>2, <1>3

\* Steps of one transport that leave the map alone.
LEMMA BindingsUpdate ==
    ASSUME Shape, Bindings, Named, NoNewBinds, UNCHANGED local,
           NEW t \in Transports, NEW q, transport' = [transport EXCEPT ![t] = q],
           q.request = transport[t].request,
           q.actor = "runs" => q.state \in {"open", "closing"},
           q.actor = "gone" => q.state = "closed",
           q.state = "none" <=> transport[t].state = "none",
           \/ transport[t].actor # "none" /\ q.actor # "none" /\ q.state # "none"
           \/ q.actor = transport[t].actor /\ q.state = transport[t].state,
           transport[t].reopened => q.reopened,
           q.state = "open" => transport[t].state = "open" \/ q.reopened
    PROVE  Bindings' /\ Named'
<1> DEFINE old == transport[t]
<1>1. /\ \A a \in Appends, u \in Transports : BindsA(a, u)' => BindsA(a, u)
      /\ \A s \in Streams, u \in Transports : BindsS(s, u)' => BindsS(s, u)
  BY NamesAssumption DEF NoNewBinds, BindsA, BindsS
<1>2. transport'[t] = q /\ \A u \in Transports \ {t} : transport'[u] = transport[u]
  BY DEF Shape, TransportsOK
<1>3. Bindings'
  <2>1. SUFFICES ASSUME NEW u \in Transports
                 PROVE  /\ transport'[u].actor = "runs" => transport'[u].state \in {"open", "closing"}
                        /\ transport'[u].actor = "gone" => transport'[u].state = "closed"
                        /\ transport'[u].state = "none" => transport'[u].actor = "none"
                        /\ \A a \in Appends :
                               BindsA(a, u) => transport'[u].actor = "none" /\ transport'[u].state = "open"
                        /\ \A s \in Streams :
                               BindsS(s, u) => transport'[u].actor = "none" /\ transport'[u].state = "open"
    BY <1>1 DEF Bindings
  <2>2. CASE u # t
    BY <1>2, <2>2 DEF Bindings
  <2>3. CASE u = t
    BY <1>2, <2>3 DEF Bindings
  <2>4. QED
    BY <2>2, <2>3
<1>4. Named'
  <2>1. \A u \in Transports :
           /\ transport'[u].request = transport[u].request
           /\ transport'[u].state = "none" <=> transport[u].state = "none"
    BY <1>2
  <2>2. \A r \in Requests : local[r] # NoTransport => local[r] \in Transports
    BY DEF Shape, RoutesOK
  <2>3. \A u \in Transports : transport'[u].state = "open" =>
           local[transport'[u].request] = u \/ transport'[u].reopened
    BY <1>2, <2>1 DEF Named, OpenTransportsAreMapped
  <2>4. QED
    BY <2>1, <2>2, <2>3 DEF Named, OpenTransportsAreMapped
<1>5. QED
  BY <1>3, <1>4

\* A transport that is created, by the one handler that will announce it.
LEMMA BindingsCreate ==
    ASSUME Shape, Bindings, Named, NEW t \in Transports, NEW r \in Requests,
           local[r] = NoTransport \/ transport[local[r]].state # "open", Create(t, r),
           NEW x,
           \A a \in Appends, u \in Transports :
               BindsA(a, u)' => BindsA(a, u) \/ (a = x /\ u = t),
           \A s \in Streams, u \in Transports :
               BindsS(s, u)' => BindsS(s, u) \/ (s = x /\ u = t),
           \/ \A a \in Appends : ~BindsA(a, t)'
           \/ \A s \in Streams : ~BindsS(s, t)'
    PROVE  Bindings' /\ Named'
<1>1. /\ transport'[t].state = "open" /\ transport'[t].actor = "none" /\ transport'[t].request = r
      /\ transport[t].state = "none" /\ transport[t].actor = "none"
      /\ \A u \in Transports \ {t} : transport'[u] = transport[u]
  BY DEF Shape, TransportsOK, Create, Created, Unused, Bindings
<1>2. /\ \A a \in Appends : ~BindsA(a, t)
      /\ \A s \in Streams : ~BindsS(s, t)
  BY <1>1 DEF Bindings
<1>3. Bindings'
  <2>1. ASSUME NEW u \in Transports, u # t
        PROVE  /\ \A a \in Appends : BindsA(a, u)' => BindsA(a, u)
               /\ \A s \in Streams : BindsS(s, u)' => BindsS(s, u)
    BY <2>1
  <2>2. ASSUME NEW u \in Transports, u # t
        PROVE  /\ transport'[u].actor = "runs" => transport'[u].state \in {"open", "closing"}
               /\ transport'[u].actor = "gone" => transport'[u].state = "closed"
               /\ transport'[u].state = "none" => transport'[u].actor = "none"
               /\ \A a \in Appends :
                      BindsA(a, u)' => transport'[u].actor = "none" /\ transport'[u].state = "open"
               /\ \A s \in Streams :
                      BindsS(s, u)' => transport'[u].actor = "none" /\ transport'[u].state = "open"
               /\ \A a, b \in Appends : BindsA(a, u)' /\ BindsA(b, u)' => a = b
               /\ \A s, v \in Streams : BindsS(s, u)' /\ BindsS(v, u)' => s = v
               /\ \A a \in Appends, s \in Streams : ~(BindsA(a, u)' /\ BindsS(s, u)')
    BY <1>1, <2>1, <2>2 DEF Bindings
  <2>3. /\ \A a \in Appends : BindsA(a, t)' => a = x
        /\ \A s \in Streams : BindsS(s, t)' => s = x
    BY <1>2
  <2>4. QED
    BY <1>1, <2>2, <2>3 DEF Bindings
<1>4. Named'
  <2>1. local' = [local EXCEPT ![r] = t] /\ local \in [Requests -> Transports \cup {NoTransport}]
    BY DEF Create, Shape, RoutesOK
  <2>2. \A q \in Requests : local[q] # NoTransport => local[q] # t
    BY <1>1 DEF Named
  <2>3. \A u \in Transports \ {t} : transport[u].state = "open" =>
           local'[transport[u].request] = u \/ transport[u].reopened
    <3>1. SUFFICES ASSUME NEW u \in Transports \ {t}, transport[u].state = "open",
                          ~transport[u].reopened
                   PROVE  local'[transport[u].request] = u
      OBVIOUS
    <3>2. local[transport[u].request] = u /\ transport[u].request \in Requests
      BY <3>1 DEF Named, OpenTransportsAreMapped
    <3>3. transport[u].request # r
      BY <3>1, <3>2, NamesAssumption
    <3>4. QED
      BY <2>1, <3>2, <3>3
  <2>4. \A q \in Requests : local'[q] # NoTransport =>
           transport'[local'[q]].state # "none" /\ transport'[local'[q]].request = q
    <3>1. SUFFICES ASSUME NEW q \in Requests, local'[q] # NoTransport
                   PROVE  transport'[local'[q]].state # "none" /\ transport'[local'[q]].request = q
      OBVIOUS
    <3>2. CASE q = r
      BY <1>1, <2>1, <3>2
    <3>3. CASE q # r
      BY <1>1, <2>1, <2>2, <3>1, <3>3 DEF Named
    <3>4. QED
      BY <3>2, <3>3
  <2>5. OpenTransportsAreMapped'
    BY <1>1, <2>1, <2>3 DEF OpenTransportsAreMapped
  <2>6. \A u \in Transports : transport'[u].state # "none" => transport'[u].request \in Requests
    BY <1>1 DEF Named
  <2>7. QED
    BY <2>4, <2>5, <2>6 DEF Named
<1>5. QED
  BY <1>3, <1>4

\* The actor of a transport that is announced, by a handler of A or a stream of S.
LEMMA BindingsBind ==
    ASSUME Shape, Bindings, Named, NEW t \in Transports, UNCHANGED local, transport' = Bound(t),
           \/ \E a \in Appends : BindsA(a, t) /\ ~BindsA(a, t)'
           \/ \E s \in Streams : BindsS(s, t) /\ ~BindsS(s, t)',
           \A a \in Appends, u \in Transports : BindsA(a, u)' => BindsA(a, u),
           \A s \in Streams, u \in Transports : BindsS(s, u)' => BindsS(s, u)
    PROVE  Bindings' /\ Named'
<1>1. transport[t].state = "open" /\ transport[t].actor = "none"
  BY DEF Bindings
<1>2. /\ \A a \in Appends : ~BindsA(a, t)'
      /\ \A s \in Streams : ~BindsS(s, t)'
  BY DEF Bindings
<1>3. /\ transport'[t].state = "open" /\ transport'[t].actor = "runs"
      /\ transport'[t].request = transport[t].request
      /\ transport'[t].reopened = transport[t].reopened
      /\ \A u \in Transports \ {t} : transport'[u] = transport[u]
  BY <1>1 DEF Bound, Shape, TransportsOK, TransportFields
<1>4. Bindings'
  <2>1. ASSUME NEW u \in Transports
        PROVE  /\ transport'[u].actor = "runs" => transport'[u].state \in {"open", "closing"}
               /\ transport'[u].actor = "gone" => transport'[u].state = "closed"
               /\ transport'[u].state = "none" => transport'[u].actor = "none"
               /\ \A a \in Appends :
                      BindsA(a, u)' => transport'[u].actor = "none" /\ transport'[u].state = "open"
               /\ \A s \in Streams :
                      BindsS(s, u)' => transport'[u].actor = "none" /\ transport'[u].state = "open"
    <3>1. CASE u = t
      BY <1>2, <1>3, <3>1
    <3>2. CASE u # t
      BY <1>3, <3>2 DEF Bindings
    <3>3. QED
      BY <3>1, <3>2
  <2>2. QED
    BY <2>1 DEF Bindings
<1>5. Named'
  <2>1. \A u \in Transports :
           /\ transport'[u].request = transport[u].request
           /\ transport'[u].reopened = transport[u].reopened
           /\ transport'[u].state = transport[u].state
    BY <1>1, <1>3
  <2>2. \A r \in Requests : local[r] # NoTransport => local[r] \in Transports
    BY DEF Shape, RoutesOK
  <2>3. QED
    BY <2>1, <2>2 DEF Named, OpenTransportsAreMapped
<1>6. QED
  BY <1>4, <1>5

\* The steps of an append handler keep the announcements and the map.
LEMMA AppendBindings ==
    ASSUME Shape, Bindings, Named, Unplaced, NEW a \in Appends, AppendNext(a)
    PROVE  Bindings' /\ Named'
<1> USE RequestsOf
<1>0. /\ AppendsOK(append) /\ StreamsOK(stream) /\ TransportsOK(transport)
  BY DEF Shape
<1>1. CASE AppendArrives(a)
  <2>1. NoNewBinds
    BY <1>1, <1>0 DEF NoNewBinds, AppendArrives, AppendsOK
  <2>2. QED
    BY <1>1, <2>1, BindingsStay DEF AppendArrives, AppendsOK
<1>2. CASE AppendAsks(a)
  <2>1. NoNewBinds
    BY <1>2, <1>0 DEF NoNewBinds, AppendAsks, AppendsOK
  <2>2. QED
    BY <1>2, <2>1, BindingsStay DEF AppendAsks, AppendsOK
<1>6. CASE Admit(a)
  <2>1. NoNewBinds
    BY <1>6, <1>0 DEF NoNewBinds, Admit, AppendsOK
  <2>2. QED
    BY <1>6, <2>1, BindingsStay DEF Admit, AppendsOK
<1>3. CASE MarkUpstream(a)
  <2>1. NoNewBinds
    BY <1>3, <1>0 DEF NoNewBinds, MarkUpstream, Unplaced, AppendsOK
  <2>2. QED
    BY <1>3, <2>1, BindingsStay DEF MarkUpstream, Unplaced, AppendsOK
<1>4. CASE FindTransport(a)
  <2>1. CASE Usable(local[RequestOf[a]], append[a].kind = "local")
    <3>1. NoNewBinds
      BY <1>0, <1>4, <2>1 DEF NoNewBinds, FindTransport, AppendsOK
    <3>2. QED
      BY <1>4, <2>1, <3>1, BindingsStay DEF FindTransport
  <2>2. CASE ~Usable(local[RequestOf[a]], append[a].kind = "local")
    <3>1. PICK t \in Transports :
             /\ Create(t, RequestOf[a])
             /\ append' = [append EXCEPT ![a].phase = "announce", ![a].transport = t]
      BY <1>4, <2>2 DEF FindTransport
    <3>2. \A b \in Appends, u \in Transports :
             BindsA(b, u)' => BindsA(b, u) \/ (b = a /\ u = t)
      BY <1>0, <3>1 DEF BindsA, AppendsOK
    <3>3. \A s \in Streams, u \in Transports :
             BindsS(s, u)' => BindsS(s, u)
      BY <1>4 DEF BindsS, FindTransport
    <3>6. transport[t].state = "none"
      BY <3>1 DEF Create
    <3>7. \A s \in Streams : ~BindsS(s, t)'
      BY <3>3, <3>6 DEF Bindings
    <3>4. local[RequestOf[a]] = NoTransport \/ transport[local[RequestOf[a]]].state # "open"
      BY <2>2 DEF Usable
    <3>5. QED
      BY <3>1, <3>2, <3>3, <3>4, <3>7, BindingsCreate
  <2>3. QED
    BY <2>1, <2>2
<1>5. CASE AnnounceRoute(a)
  <2>1. /\ \A b \in Appends, u \in Transports : BindsA(b, u)' => BindsA(b, u)
        /\ \A u \in Transports : ~BindsA(a, u)'
    BY <1>0, <1>5 DEF BindsA, AnnounceRoute, AppendsOK
  <2>2. \A s \in Streams : stream'[s].phase = stream[s].phase
                           /\ stream'[s].transport = stream[s].transport
    BY <1>5, NotifyShape DEF AnnounceRoute
  <2>3. \A s \in Streams, u \in Transports : BindsS(s, u)' => BindsS(s, u)
    BY <2>2 DEF BindsS
  <2>4. CASE append[a].transport = NoTransport
    <3>1. NoNewBinds
      BY <1>0, <1>5, <2>2, <2>4 DEF NoNewBinds, AnnounceRoute, AppendsOK
    <3>2. QED
      BY <1>5, <2>4, <3>1, BindingsStay DEF AnnounceRoute
  <2>5. CASE append[a].transport # NoTransport
    <3>1. append[a].transport \in Transports /\ BindsA(a, append[a].transport)
      BY <1>0, <1>5, <2>5 DEF AppendsOK, BindsA, AnnounceRoute
    <3>2. transport' = Bound(append[a].transport) /\ UNCHANGED local
      BY <1>5, <2>5 DEF AnnounceRoute
    <3>3. QED
      BY <2>1, <2>3, <3>1, <3>2, BindingsBind
  <2>6. QED
    BY <2>4, <2>5
<1>7. CASE SendCommand(a)
  <2>1. NoNewBinds
    BY <1>0, <1>7 DEF NoNewBinds, SendCommand, AppendsOK
  <2>2. CASE UNCHANGED transport
    BY <1>7, <2>1, <2>2, BindingsStay DEF SendCommand
  <2>3. CASE append[a].transport \in Transports /\ ~UNCHANGED transport
    <3> DEFINE t == append[a].transport
               q == [transport[t] EXCEPT !.channel = Append(@, a)]
    <3>1. transport' = [transport EXCEPT ![t] = q]
      BY <1>7, <2>3 DEF SendCommand
    <3>2. q.request = transport[t].request /\ q.actor = transport[t].actor
          /\ q.state = transport[t].state /\ q.reopened = transport[t].reopened
      BY <1>0, <2>3 DEF TransportsOK, TransportFields
    <3>3. UNCHANGED local
      BY <1>7 DEF SendCommand
    <3>4. /\ q.actor = "runs" => q.state \in {"open", "closing"}
          /\ q.actor = "gone" => q.state = "closed"
      BY <2>3, <3>2 DEF Bindings
    <3> HIDE DEF q
    <3>5. QED
      BY <2>1, <2>3, <3>1, <3>2, <3>3, <3>4, BindingsUpdate
  <2>4. append[a].transport \in Transports
    BY <1>7 DEF SendCommand, Unplaced
  <2>5. QED
    BY <2>2, <2>3, <2>4
<1>8. CASE AppendGivesUp(a)
  <2>1. NoNewBinds
    BY <1>8, <1>0 DEF NoNewBinds, AppendGivesUp, AppendsOK
  <2>2. QED
    BY <1>8, <2>1, BindingsStay DEF AppendGivesUp
<1>9. QED
  BY <1>1, <1>2, <1>3, <1>4, <1>5, <1>6, <1>7, <1>8 DEF AppendNext

\* The steps of a transport keep the announcements and the map.
LEMMA TransportBindings ==
    ASSUME Shape, Bindings, Named, NEW t \in Transports, TransportNext(t)
    PROVE  Bindings' /\ Named'
<1>0. /\ AppendsOK(append) /\ StreamsOK(stream) /\ TransportsOK(transport)
  BY DEF Shape
<1>1. ASSUME NEW q, transport' = [transport EXCEPT ![t] = q], UNCHANGED <<local, append>>, NoNewBinds,
             transport[t].actor # "none", q.actor # "none", q.state # "none",
             q.request = transport[t].request, transport[t].reopened => q.reopened,
             q.actor = "runs" => q.state \in {"open", "closing"},
             q.actor = "gone" => q.state = "closed",
             q.state = "open" => transport[t].state = "open" \/ q.reopened
      PROVE  Bindings' /\ Named'
  <2>1. transport[t].state # "none"
    BY <1>1 DEF Bindings
  <2>2. QED
    BY <1>1, <2>1, BindingsUpdate
<1>2. CASE TakeCommand(t)
  <2>1. NoNewBinds
    BY <1>2 DEF NoNewBinds, TakeCommand
  <2>2. PICK q : /\ transport' = [transport EXCEPT ![t] = q]
                 /\ q.request = transport[t].request
                 /\ q.actor \in {"runs", "ends"}
                 /\ \/ q.state = transport[t].state /\ q.reopened = transport[t].reopened
                    \/ q.state = "open" /\ (q.reopened <=> transport[t].reopened \/ transport[t].state = "closing")
    <3> DEFINE rest == [transport[t] EXCEPT !.channel = Tail(@)]
    <3>1. /\ DOMAIN rest = TransportFields
          /\ rest.request = transport[t].request /\ rest.actor = transport[t].actor
          /\ rest.state = transport[t].state /\ rest.reopened = transport[t].reopened
      BY <1>0 DEF TransportsOK, TransportFields
    <3>2. \/ transport' = [transport EXCEPT ![t] = [rest EXCEPT !.actor = "ends"]]
          \/ \E actor \in {"runs", "ends"} :
                transport' = [transport EXCEPT ![t] =
                    [rest EXCEPT !.actor = actor, !.ran = TRUE, !.state = "open",
                                 !.reopened = @ \/ transport[t].state = "closing"]]
          \/ transport' = [transport EXCEPT ![t] = rest]
      BY <1>2 DEF TakeCommand
    <3>3. transport[t].actor = "runs"
      BY <1>2 DEF TakeCommand
    <3> HIDE DEF rest
    <3>4. CASE transport' = [transport EXCEPT ![t] = [rest EXCEPT !.actor = "ends"]]
      <4>1. WITNESS [rest EXCEPT !.actor = "ends"]
      <4>2. QED
        BY <3>1, <3>4 DEF TransportFields
    <3>5. CASE \E actor \in {"runs", "ends"} :
                 transport' = [transport EXCEPT ![t] =
                    [rest EXCEPT !.actor = actor, !.ran = TRUE, !.state = "open",
                                 !.reopened = @ \/ transport[t].state = "closing"]]
      <4>1. PICK actor \in {"runs", "ends"} :
                 transport' = [transport EXCEPT ![t] =
                    [rest EXCEPT !.actor = actor, !.ran = TRUE, !.state = "open",
                                 !.reopened = @ \/ transport[t].state = "closing"]]
        BY <3>5
      <4>2. WITNESS [rest EXCEPT !.actor = actor, !.ran = TRUE, !.state = "open",
                                 !.reopened = @ \/ transport[t].state = "closing"]
      <4>3. QED
        BY <3>1, <4>1 DEF TransportFields
    <3>6. CASE transport' = [transport EXCEPT ![t] = rest]
      <4>1. WITNESS rest
      <4>2. QED
        BY <3>1, <3>3, <3>6
    <3>7. QED
      BY <3>2, <3>4, <3>5, <3>6
  <2>3. transport[t].actor = "runs" /\ transport[t].state \in {"open", "closing"}
    BY <1>2 DEF TakeCommand, Bindings
  <2>4. QED
    BY <1>1, <1>2, <2>1, <2>2, <2>3 DEF TakeCommand
<1>3. CASE BeginClose(t)
  <2>1. NoNewBinds
    BY <1>3, <1>0 DEF NoNewBinds, BeginClose, StreamsOK
  <2> DEFINE q == [transport[t] EXCEPT !.state = "closing"]
  <2>2. transport' = [transport EXCEPT ![t] = q] /\ UNCHANGED <<local, append>>
    BY <1>3 DEF BeginClose
  <2>3. /\ q.request = transport[t].request /\ q.reopened = transport[t].reopened
        /\ q.state = "closing" /\ q.actor = transport[t].actor
    BY <1>0 DEF TransportsOK, TransportFields
  <2>4. transport[t].actor = "runs"
    BY <1>3 DEF BeginClose, Bindings
  <2> HIDE DEF q
  <2>5. QED
    BY <1>1, <2>1, <2>2, <2>3, <2>4
<1>4. CASE Drained(t)
  <2>1. NoNewBinds
    BY <1>4 DEF NoNewBinds, Drained
  <2>2. PICK actor \in {"ends", "leaves"} : transport' = [transport EXCEPT ![t].actor = actor]
    BY <1>4 DEF Drained
  <2> DEFINE q == [transport[t] EXCEPT !.actor = actor]
  <2>3. transport' = [transport EXCEPT ![t] = q] /\ UNCHANGED <<local, append>>
    BY <1>4, <2>2 DEF Drained
  <2>4. /\ q.request = transport[t].request /\ q.reopened = transport[t].reopened
        /\ q.actor = actor /\ q.state = transport[t].state
    BY <1>0 DEF TransportsOK, TransportFields
  <2>5. transport[t].actor = "runs" /\ transport[t].state = "closing"
    BY <1>4 DEF Drained
  <2> HIDE DEF q
  <2>6. QED
    BY <1>1, <2>1, <2>3, <2>4, <2>5
<1>5. CASE ActorLeaves(t)
  <2>1. NoNewBinds
    BY <1>5, <1>0 DEF NoNewBinds, ActorLeaves, StreamsOK
  <2> DEFINE q == [transport[t] EXCEPT !.actor = "gone", !.state = "closed"]
  <2>2. transport' = [transport EXCEPT ![t] = q] /\ UNCHANGED <<local, append>>
    BY <1>5 DEF ActorLeaves
  <2>3. /\ q.request = transport[t].request /\ q.reopened = transport[t].reopened
        /\ q.state = "closed" /\ q.actor = "gone"
    BY <1>0 DEF TransportsOK, TransportFields
  <2>4. transport[t].actor = "leaves"
    BY <1>5 DEF ActorLeaves, Bindings
  <2> HIDE DEF q
  <2>5. QED
    BY <1>1, <2>1, <2>2, <2>3, <2>4
<1>6. CASE RemoveTransport(t)
  <2>1. Bindings'
    BY <1>6 DEF RemoveTransport, Bindings, BindsA, BindsS
  <2>2. transport[t].state = "closed" /\ transport[t].request \in Requests
    BY <1>6 DEF RemoveTransport, Bindings, Named
  <2>3. local' = [local EXCEPT ![transport[t].request] = NoTransport]
        /\ local \in [Requests -> Transports \cup {NoTransport}]
    BY <1>6 DEF RemoveTransport, Shape, RoutesOK
  <2>4. Named'
    BY <1>6, <2>2, <2>3 DEF RemoveTransport, Named, OpenTransportsAreMapped
  <2>5. QED
    BY <2>1, <2>4
<1>7. CASE Emit(t)
  <2>1. PICK f \in AllFrames : stream' = Sent(t, f)
    BY <1>7 DEF Emit, Emitted, AllFrames
  <2>2. \A s \in Streams : stream'[s].phase = stream[s].phase
                           /\ stream'[s].transport = stream[s].transport
    BY <2>1, SentShape
  <2>3. NoNewBinds
    BY <1>7, <2>2 DEF NoNewBinds, Emit
  <2>4. QED
    BY <1>7, <2>3, BindingsStay DEF Emit
<1>8. CASE EmitEnd(t)
  <2>1. stream' = Sent(t, EndFrame) /\ EndFrame \in AllFrames
    BY <1>8 DEF EmitEnd, Emitted, AllFrames
  <2>2. \A s \in Streams : stream'[s].phase = stream[s].phase
                           /\ stream'[s].transport = stream[s].transport
    BY <2>1, SentShape
  <2>3. NoNewBinds
    BY <1>8, <2>2 DEF NoNewBinds, EmitEnd
  <2> DEFINE q == [transport[t] EXCEPT !.actor = "closes"]
  <2>4. transport' = [transport EXCEPT ![t] = q] /\ UNCHANGED <<local, append>>
    BY <1>8 DEF EmitEnd
  <2>5. /\ q.request = transport[t].request /\ q.reopened = transport[t].reopened
        /\ q.actor = "closes" /\ q.state = transport[t].state
    BY <1>0 DEF TransportsOK, TransportFields
  <2>6. transport[t].actor = "ends"
    BY <1>8 DEF EmitEnd
  <2>7. transport[t].state # "none"
    BY <2>6 DEF Bindings
  <2> HIDE DEF q
  <2>8. QED
    BY <1>1, <2>3, <2>4, <2>5, <2>6, <2>7
<1>9. CASE CloseOutput(t)
  <2>1. NoNewBinds
    BY <1>9 DEF NoNewBinds, CloseOutput
  <2> DEFINE q == [transport[t] EXCEPT !.actor = "leaves"]
  <2>2. transport' = [transport EXCEPT ![t] = q] /\ UNCHANGED <<local, append>>
    BY <1>9 DEF CloseOutput
  <2>3. /\ q.request = transport[t].request /\ q.reopened = transport[t].reopened
        /\ q.actor = "leaves" /\ q.state = transport[t].state
    BY <1>0 DEF TransportsOK, TransportFields
  <2>4. transport[t].actor = "closes"
    BY <1>9 DEF CloseOutput
  <2>5. transport[t].state # "none"
    BY <2>4 DEF Bindings
  <2> HIDE DEF q
  <2>6. QED
    BY <1>1, <2>1, <2>2, <2>3, <2>4, <2>5
<1>10. QED
  BY <1>2, <1>3, <1>4, <1>5, <1>6, <1>7, <1>8, <1>9 DEF TransportNext

\* The steps of a stream keep the announcements and the map.
LEMMA StreamBindings ==
    ASSUME Shape, Placed, Bindings, Named, NEW s \in Streams, StreamNext(s)
    PROVE  Bindings' /\ Named'
<1> USE RequestsOf
<1>0. /\ AppendsOK(append) /\ StreamsOK(stream) /\ TransportsOK(transport)
  BY DEF Shape
<1>1. CASE WaitRoute(s)
  <2>1. NoNewBinds
    BY <1>0, <1>1 DEF NoNewBinds, WaitRoute, StreamsOK, StreamOK, StreamFields
  <2>2. QED
    BY <1>1, <2>1, BindingsStay DEF WaitRoute
<1>2. CASE LookLocal(s)
  <2>1. NoNewBinds
    BY <1>0, <1>2 DEF NoNewBinds, LookLocal, StreamsOK, StreamOK, StreamFields
  <2>2. QED
    BY <1>2, <2>1, BindingsStay DEF LookLocal
<1>3. CASE LookUpstream(s)
  <2>1. NoNewBinds
    BY <1>0, <1>3 DEF NoNewBinds, LookUpstream, StreamsOK, StreamOK, StreamFields
  <2>2. QED
    BY <1>3, <2>1, BindingsStay DEF LookUpstream
<1>4. CASE Subscribe(s)
  <2>1. NoNewBinds
    BY <1>0, <1>4 DEF NoNewBinds, Subscribe, StreamsOK, StreamOK, StreamFields
  <2>2. QED
    BY <1>4, <2>1, BindingsStay DEF Subscribe
<1>5. CASE PassFrame(s)
  <2>1. NoNewBinds
    BY <1>0, <1>5 DEF NoNewBinds, PassFrame, StreamsOK, StreamOK, StreamFields
  <2>2. QED
    BY <1>5, <2>1, BindingsStay DEF PassFrame
<1>6. CASE ClientLeaves(s)
  <2>1. NoNewBinds
    BY <1>0, <1>6 DEF NoNewBinds, ClientLeaves, StreamsOK, StreamOK, StreamFields
  <2>2. QED
    BY <1>6, <2>1, BindingsStay DEF ClientLeaves
<1>7. CASE ClientGivesUp(s)
  <2>1. NoNewBinds
    BY <1>0, <1>7 DEF NoNewBinds, ClientGivesUp, StreamsOK, StreamOK, StreamFields
  <2>2. QED
    BY <1>7, <2>1, BindingsStay DEF ClientGivesUp
<1>8. CASE Forward(s)
  <2>1. NoNewBinds
    BY <1>0, <1>8 DEF NoNewBinds, Forward, StreamsOK, StreamOK, StreamFields
  <2>2. QED
    BY <1>8, <2>1, BindingsStay DEF Forward
<1>9. CASE UpstreamEnds(s)
  <2>1. NoNewBinds
    BY <1>0, <1>9 DEF NoNewBinds, UpstreamEnds, StreamsOK, StreamOK, StreamFields
  <2>2. QED
    BY <1>9, <2>1, BindingsStay DEF UpstreamEnds
<1>10. CASE FinishUpstream(s)
  <2>1. NoNewBinds
    BY <1>0, <1>10 DEF NoNewBinds, FinishUpstream, StreamsOK, StreamOK, StreamFields
  <2>2. QED
    BY <1>10, <2>1, BindingsStay DEF FinishUpstream
<1>11. CASE StreamFinds(s)
  <2>1. CASE Usable(local[RequestOf[s]], FALSE)
    <3>1. stream' = [stream EXCEPT ![s].phase = "subscribe", ![s].transport = local[RequestOf[s]]]
      BY <1>11, <2>1 DEF StreamFinds
    <3>2. NoNewBinds
      BY <1>0, <1>11, <3>1 DEF NoNewBinds, StreamFinds, StreamsOK, StreamOK, StreamFields
    <3>3. QED
      BY <1>11, <2>1, <3>2, BindingsStay DEF StreamFinds
  <2>2. CASE ~Usable(local[RequestOf[s]], FALSE)
    <3>1. PICK t \in Transports :
             /\ Create(t, RequestOf[s])
             /\ stream' = [stream EXCEPT ![s].phase = "announce", ![s].transport = t]
      BY <1>11, <2>2 DEF StreamFinds
    <3>2. \A u \in Streams, v \in Transports :
             BindsS(u, v)' => BindsS(u, v) \/ (u = s /\ v = t)
      BY <1>0, <3>1 DEF BindsS, StreamsOK, StreamOK, StreamFields
    <3>3. \A a \in Appends, v \in Transports :
             BindsA(a, v)' => BindsA(a, v)
      BY <1>11 DEF BindsA, StreamFinds
    <3>6. transport[t].state = "none"
      BY <3>1 DEF Create
    <3>7. \A a \in Appends : ~BindsA(a, t)'
      BY <3>3, <3>6 DEF Bindings
    <3>4. local[RequestOf[s]] = NoTransport \/ transport[local[RequestOf[s]]].state # "open"
      BY <2>2 DEF Usable
    <3>5. QED
      BY <3>1, <3>2, <3>3, <3>4, <3>7, BindingsCreate
  <2>3. QED
    BY <2>1, <2>2
<1>12. CASE StreamAnnounces(s)
  <2>1. stream' = [NotifyWaiters EXCEPT ![s].phase = "subscribe"]
    BY <1>12 DEF StreamAnnounces
  <2>2. /\ stream'[s].phase = "subscribe"
        /\ \A u \in Streams : u # s => stream'[u].phase = stream[u].phase
                                      /\ stream'[u].transport = stream[u].transport
    BY <1>0, <2>1, NotifyShape DEF StreamFields
  <2>3. /\ \A u \in Streams, t \in Transports : BindsS(u, t)' => BindsS(u, t)
        /\ \A t \in Transports : ~BindsS(s, t)'
    BY <2>2 DEF BindsS
  <2>4. \A a \in Appends, t \in Transports : BindsA(a, t)' => BindsA(a, t)
    BY <1>12 DEF BindsA, StreamAnnounces
  <2>5. stream[s].transport \in Transports /\ BindsS(s, stream[s].transport)
    BY <1>12 DEF BindsS, StreamAnnounces, Placed
  <2>6. transport' = Bound(stream[s].transport) /\ UNCHANGED local
    BY <1>12 DEF StreamAnnounces
  <2>7. QED
    BY <2>3, <2>4, <2>5, <2>6, BindingsBind
<1>13. CASE SendDisconnect(s)
  <2>1. NoNewBinds
    BY <1>0, <1>13 DEF NoNewBinds, SendDisconnect, StreamsOK, StreamOK, StreamFields
  <2>2. CASE UNCHANGED transport
    BY <1>13, <2>1, <2>2, BindingsStay DEF SendDisconnect
  <2>3. CASE ~UNCHANGED transport
    <3> DEFINE t == stream[s].transport
               q == [transport[t] EXCEPT !.channel = Append(@, Disconnect)]
    <3>1. t \in Transports
      BY <1>13 DEF SendDisconnect, Placed
    <3>2. transport' = [transport EXCEPT ![t] = q] /\ UNCHANGED local
      BY <1>13, <2>3 DEF SendDisconnect
    <3>3. q.request = transport[t].request /\ q.actor = transport[t].actor
          /\ q.state = transport[t].state /\ q.reopened = transport[t].reopened
      BY <1>0, <3>1 DEF TransportsOK, TransportFields
    <3>4. /\ q.actor = "runs" => q.state \in {"open", "closing"}
          /\ q.actor = "gone" => q.state = "closed"
      BY <3>1, <3>3 DEF Bindings
    <3> HIDE DEF q
    <3>5. QED
      BY <2>1, <3>1, <3>2, <3>3, <3>4, BindingsUpdate
  <2>4. QED
    BY <2>2, <2>3
<1>14. QED
  BY <1>1, <1>2, <1>3, <1>4, <1>5, <1>6, <1>7, <1>8, <1>9, <1>10, <1>11, <1>12, <1>13
     DEF StreamNext

\* The steps keep what an append handler has of a transport.
LEMMA UnplacedStep ==
    ASSUME Shape, Unplaced, Next
    PROVE  Unplaced'
<1> USE RequestsOf
<1>0. AppendsOK(append)
  BY DEF Shape
<1>1. CASE UNCHANGED append
  BY <1>1 DEF Unplaced
<1>2. ASSUME NEW a \in Appends, AppendNext(a)
      PROVE  Unplaced'
  <2>1. CASE AppendArrives(a)
    BY <1>0, <2>1 DEF AppendArrives, Unplaced, AppendsOK
  <2>2. CASE AppendAsks(a)
    BY <1>0, <2>2 DEF AppendAsks, Unplaced, AppendsOK
  <2>3. CASE MarkUpstream(a)
    BY <1>0, <2>3 DEF MarkUpstream, Unplaced, AppendsOK
  <2>4. CASE FindTransport(a)
    <3>1. CASE Usable(local[RequestOf[a]], append[a].kind = "local")
      <4>1. local[RequestOf[a]] \in Transports
        BY <3>1 DEF Usable, Shape, RoutesOK
      <4>2. QED
        BY <1>0, <2>4, <3>1, <4>1 DEF FindTransport, Unplaced, AppendsOK
    <3>2. CASE ~Usable(local[RequestOf[a]], append[a].kind = "local")
      BY <1>0, <2>4, <3>2 DEF FindTransport, Unplaced, AppendsOK
    <3>3. QED
      BY <3>1, <3>2
  <2>5. CASE AnnounceRoute(a)
    BY <1>0, <2>5 DEF AnnounceRoute, Unplaced, AppendsOK
  <2>6. CASE Admit(a)
    BY <1>0, <2>6 DEF Admit, Unplaced, AppendsOK
  <2>7. CASE SendCommand(a)
    BY <1>0, <2>7 DEF SendCommand, Unplaced, AppendsOK
  <2>8. CASE AppendGivesUp(a)
    BY <1>0, <2>8 DEF AppendGivesUp, Unplaced, AppendsOK
  <2>9. QED
    BY <1>2, <2>1, <2>2, <2>3, <2>4, <2>5, <2>6, <2>7, <2>8 DEF AppendNext
<1>3. ASSUME NEW t \in Transports, TransportNext(t)
      PROVE  UNCHANGED append
  BY <1>3 DEF TransportNext, TakeCommand, BeginClose, Drained, ActorLeaves, RemoveTransport,
              Emit, EmitEnd, CloseOutput
<1>4. ASSUME NEW s \in Streams, StreamNext(s)
      PROVE  UNCHANGED append
  BY <1>4 DEF StreamNext, WaitRoute, LookLocal, LookUpstream, StreamFinds, StreamAnnounces,
              Subscribe, PassFrame, ClientLeaves, SendDisconnect, ClientGivesUp,
              Forward, UpstreamEnds, FinishUpstream
<1>5. QED
  BY <1>1, <1>2, <1>3, <1>4 DEF Next

\* The places of the streams: that of one, for a step that leaves the others
\* where they are.
PlacedOK(q) ==
    /\ q.phase \in Outside => q.transport = NoTransport /\ q.got = <<>>
    /\ q.phase \in {"announce", "subscribe"} => q.transport \in Transports /\ q.got = <<>>
    /\ q.phase \in {"reading", "complete", "left"} => q.transport \in Transports
    /\ q.phase \in Outside \cup {"announce", "subscribe", "reading", "complete", "left", "over"}

\* The steps keep what a stream has of a transport.
LEMMA PlacedStep ==
    ASSUME Shape, Placed, Next
    PROVE  Placed'
<1> USE RequestsOf
<1>0. StreamsOK(stream)
  BY DEF Shape
<1>1. ASSUME \A s \in Streams : /\ stream'[s].phase = stream[s].phase
                                /\ stream'[s].transport = stream[s].transport
                                /\ stream'[s].got = stream[s].got
      PROVE  Placed'
  BY <1>1 DEF Placed
<1>2. ASSUME NEW s \in Streams, NEW q, stream' = [stream EXCEPT ![s] = q], PlacedOK(q)
      PROVE  Placed'
  BY <1>0, <1>2 DEF Placed, PlacedOK, StreamsOK
<1>3. ASSUME NEW a \in Appends, AppendNext(a)
      PROVE  Placed'
  <2>1. CASE AnnounceRoute(a)
    BY <1>1, <2>1, NotifyShape DEF AnnounceRoute
  <2>2. CASE ~AnnounceRoute(a)
    BY <1>1, <1>3, <2>2 DEF AppendNext, AppendArrives, AppendAsks, MarkUpstream, FindTransport,
                            Admit, SendCommand, AppendGivesUp
  <2>3. QED
    BY <2>1, <2>2
<1>4. ASSUME NEW t \in Transports, TransportNext(t)
      PROVE  Placed'
  <2>1. CASE Emit(t)
    BY <1>1, <2>1, SentShape DEF Emit, Emitted, AllFrames
  <2>2. CASE EmitEnd(t)
    BY <1>1, <2>2, SentShape DEF EmitEnd, Emitted, AllFrames
  <2>3. CASE ~Emit(t) /\ ~EmitEnd(t)
    BY <1>1, <1>4, <2>3 DEF TransportNext, TakeCommand, BeginClose, Drained, ActorLeaves,
                            RemoveTransport, CloseOutput
  <2>4. QED
    BY <2>1, <2>2, <2>3
<1>5. ASSUME NEW s \in Streams, StreamNext(s)
      PROVE  Placed'
  <2>0. StreamOK(stream[s])
    BY <1>0 DEF StreamsOK
  <2>1. CASE WaitRoute(s)
    <3> DEFINE q == [stream[s] EXCEPT !.phase = "local?", !.notified = FALSE]
    <3>1. PlacedOK(q)
      BY <2>0, <2>1 DEF WaitRoute, Placed, PlacedOK, Outside, StreamOK, StreamFields
    <3>2. stream' = [stream EXCEPT ![s] = q]
      BY <2>1 DEF WaitRoute
    <3> HIDE DEF q
    <3>3. QED
      BY <1>2, <3>1, <3>2
  <2>2. CASE LookLocal(s)
    <3> DEFINE q == [stream[s] EXCEPT !.phase =
                         IF local[RequestOf[s]] # NoTransport THEN "find" ELSE "upstream?"]
    <3>1. PlacedOK(q)
      BY <2>0, <2>2 DEF LookLocal, Placed, PlacedOK, Outside, StreamOK, StreamFields
    <3>2. stream' = [stream EXCEPT ![s] = q]
      BY <2>2 DEF LookLocal
    <3> HIDE DEF q
    <3>3. QED
      BY <1>2, <3>1, <3>2
  <2>3. CASE LookUpstream(s)
    <3> DEFINE g == upstream[RequestOf[s]]
               q == [stream[s] EXCEPT !.phase = IF g # 0 THEN "forward" ELSE "sleep",
                                      !.generation = g]
    <3>1. PlacedOK(q)
      BY <2>0, <2>3 DEF LookUpstream, Placed, PlacedOK, Outside, StreamOK, StreamFields
    <3>2. stream' = [stream EXCEPT ![s] = q]
      BY <2>3 DEF LookUpstream
    <3> HIDE DEF q
    <3>3. QED
      BY <1>2, <3>1, <3>2
  <2>4. CASE StreamFinds(s)
    <3>1. PICK t \in Transports, phase \in {"subscribe", "announce"} :
             stream' = [stream EXCEPT ![s].phase = phase, ![s].transport = t]
      BY <2>4 DEF StreamFinds, Usable, Shape, RoutesOK
    <3> DEFINE q == [stream[s] EXCEPT !.phase = phase, !.transport = t]
    <3>2. PlacedOK(q)
      BY <2>0, <2>4 DEF StreamFinds, Placed, PlacedOK, Outside, StreamOK, StreamFields
    <3>3. stream' = [stream EXCEPT ![s] = q]
      BY <3>1
    <3> HIDE DEF q
    <3>4. QED
      BY <1>2, <3>2, <3>3
  <2>5. CASE StreamAnnounces(s)
    <3>1. stream' = [NotifyWaiters EXCEPT ![s].phase = "subscribe"]
          /\ stream[s].phase = "announce"
      BY <2>5 DEF StreamAnnounces
    <3>2. \A u \in Streams :
             /\ stream'[u].phase = IF u = s THEN "subscribe" ELSE stream[u].phase
             /\ stream'[u].transport = stream[u].transport
             /\ stream'[u].got = stream[u].got
      BY <3>1, NotifyShape DEF StreamFields
    <3>3. QED
      BY <3>1, <3>2 DEF Placed, Outside
  <2>6. CASE Subscribe(s)
    <3> DEFINE q == [stream[s] EXCEPT !.phase = "reading", !.queue = Replay(stream[s].transport)]
    <3>1. PlacedOK(q)
      BY <2>0, <2>6 DEF Subscribe, Placed, PlacedOK, Outside, StreamOK, StreamFields
    <3>2. stream' = [stream EXCEPT ![s] = q]
      BY <2>6 DEF Subscribe
    <3> HIDE DEF q
    <3>3. QED
      BY <1>2, <3>1, <3>2
  <2>7. CASE PassFrame(s)
    <3> DEFINE now == [stream[s] EXCEPT !.got = Append(@, Head(stream[s].queue)), !.queue = Tail(@)]
               over == [now EXCEPT !.phase = "complete", !.queue = <<>>]
    <3>1. PlacedOK(now)
      BY <2>0, <2>7 DEF PassFrame, Placed, PlacedOK, Outside, StreamOK, StreamFields
    <3>2. PlacedOK(over)
      BY <2>0, <2>7 DEF PassFrame, Placed, PlacedOK, Outside, StreamOK, StreamFields
    <3>3. stream' = [stream EXCEPT ![s] = now] \/ stream' = [stream EXCEPT ![s] = over]
      BY <2>7 DEF PassFrame
    <3> HIDE DEF now, over
    <3>4. QED
      BY <1>2, <3>1, <3>2, <3>3
  <2>8. CASE ClientLeaves(s)
    <3>0. PICK phase \in {"left", "over"} :
             stream' = [stream EXCEPT ![s].phase = phase, ![s].queue = <<>>]
      BY <2>8 DEF ClientLeaves
    <3> DEFINE q == [stream[s] EXCEPT !.phase = phase, !.queue = <<>>]
    <3>1. PlacedOK(q)
      BY <2>0, <2>8 DEF ClientLeaves, Placed, PlacedOK, Outside, StreamOK, StreamFields
    <3>2. stream' = [stream EXCEPT ![s] = q]
      BY <3>0
    <3> HIDE DEF q
    <3>3. QED
      BY <1>2, <3>1, <3>2
  <2>9. CASE SendDisconnect(s) \/ ClientGivesUp(s) \/ FinishUpstream(s)
    <3> DEFINE q == [stream[s] EXCEPT !.phase = "over"]
    <3>1. PlacedOK(q)
      BY <2>0 DEF PlacedOK, Outside, StreamOK, StreamFields
    <3>2. stream' = [stream EXCEPT ![s] = q]
      BY <2>9 DEF SendDisconnect, ClientGivesUp, FinishUpstream
    <3> HIDE DEF q
    <3>3. QED
      BY <1>2, <3>1, <3>2
  <2>10. CASE Forward(s) \/ UpstreamEnds(s)
    <3>1. PICK phase \in {"upstream", "over", "finish"} :
             stream' = [stream EXCEPT ![s].phase = phase]
      BY <2>10 DEF Forward, UpstreamEnds
    <3> DEFINE q == [stream[s] EXCEPT !.phase = phase]
    <3>2. PlacedOK(q)
      BY <2>0, <2>10 DEF Forward, UpstreamEnds, Placed, PlacedOK, Outside, StreamOK, StreamFields
    <3>3. stream' = [stream EXCEPT ![s] = q]
      BY <3>1
    <3> HIDE DEF q
    <3>4. QED
      BY <1>2, <3>2, <3>3
  <2>11. QED
    BY <1>5, <2>1, <2>2, <2>3, <2>4, <2>5, <2>6, <2>7, <2>8, <2>9, <2>10 DEF StreamNext
<1>6. QED
  BY <1>3, <1>4, <1>5 DEF Next

-----------------------------------------------------------------------------
(* The streams that wait                                                    *)

\* Between its looks at the two maps, a stream has heard of the transport that
\* the first look missed.
Told ==
    /\ SleepersAreTold
    /\ \A s \in Streams :
           stream[s].phase = "upstream?" /\ ~stream[s].notified =>
               local[RequestOf[s]] = NoTransport \/ Announcing

\* No route is made, no announcement given up, and nobody begins to wait.
Quiet ==
    /\ Announcing => Announcing'
    /\ \A r \in Requests :
           local'[r] \in {local[r], NoTransport} /\ upstream'[r] \in {upstream[r], 0}
    /\ \A s \in Streams :
           stream'[s].phase \in {"upstream?", "sleep"} =>
               stream'[s].phase = stream[s].phase /\ stream'[s].notified = stream[s].notified

\* Such a step changes nothing for those who wait.
LEMMA QuietStep ==
    ASSUME Told, Quiet
    PROVE  Told'
<1> USE RequestsOf
<1>1. SleepersAreTold'
  BY DEF Told, SleepersAreTold, Quiet
<1>2. ASSUME NEW s \in Streams, stream'[s].phase = "upstream?", ~stream'[s].notified
      PROVE  local'[RequestOf[s]] = NoTransport \/ Announcing'
  BY <1>2 DEF Told, Quiet
<1>3. QED
  BY <1>1, <1>2 DEF Told

\* After a notification nobody waits unnotified.
LEMMA NotifiedStep ==
    ASSUME \A s \in Streams : stream'[s].phase \in {"upstream?", "sleep"} => stream'[s].notified
    PROVE  Told'
BY DEF Told, SleepersAreTold

\* While someone is to notify, nobody sleeps for ever.
LEMMA AnnouncedStep ==
    ASSUME Announcing'
    PROVE  Told'
BY DEF Told, SleepersAreTold

\* The steps keep what those who wait are told.
LEMMA ToldStep ==
    ASSUME Shape, Unplaced, Told, Next
    PROVE  Told'
<1> USE RequestsOf
<1>0. /\ AppendsOK(append) /\ StreamsOK(stream)
      /\ local \in [Requests -> Transports \cup {NoTransport}] /\ upstream \in [Requests -> Nat]
  BY DEF Shape, RoutesOK
<1>1. ASSUME NEW a \in Appends, AppendNext(a)
      PROVE  Told'
  <2>1. CASE AppendArrives(a) \/ AppendAsks(a) \/ Admit(a) \/ SendCommand(a) \/ AppendGivesUp(a)
    <3>1. append[a].phase # "announce" /\ \A b \in Appends \ {a} : append'[b] = append[b]
      BY <1>0, <2>1 DEF AppendArrives, AppendAsks, Admit, SendCommand, AppendGivesUp, AppendsOK
    <3>2. UNCHANGED <<local, upstream, stream>>
      BY <2>1 DEF AppendArrives, AppendAsks, Admit, SendCommand, AppendGivesUp
    <3>3. Quiet
      BY <3>1, <3>2 DEF Quiet, Announcing
    <3>4. QED
      BY <3>3, QuietStep
  <2>2. CASE MarkUpstream(a)
    <3>1. append'[a].phase = "announce"
      BY <1>0, <2>2 DEF MarkUpstream, AppendsOK
    <3>2. QED
      BY <3>1, AnnouncedStep DEF Announcing
  <2>3. CASE FindTransport(a)
    <3>1. CASE Usable(local[RequestOf[a]], append[a].kind = "local")
      <4>1. append[a].phase # "announce" /\ \A b \in Appends \ {a} : append'[b] = append[b]
        BY <1>0, <2>3, <3>1 DEF FindTransport, AppendsOK
      <4>2. UNCHANGED <<local, upstream, stream>>
        BY <2>3, <3>1 DEF FindTransport
      <4>3. Quiet
        BY <4>1, <4>2 DEF Quiet, Announcing
      <4>4. QED
        BY <4>3, QuietStep
    <3>2. CASE ~Usable(local[RequestOf[a]], append[a].kind = "local")
      <4>1. append'[a].phase = "announce"
        BY <1>0, <2>3, <3>2 DEF FindTransport, AppendsOK
      <4>2. QED
        BY <4>1, AnnouncedStep DEF Announcing
    <3>3. QED
      BY <3>1, <3>2
  <2>4. CASE AnnounceRoute(a)
    BY <2>4, NotifyShape, NotifiedStep DEF AnnounceRoute, Hears
  <2>5. QED
    BY <1>1, <2>1, <2>2, <2>3, <2>4 DEF AppendNext
<1>2. ASSUME NEW t \in Transports, TransportNext(t)
      PROVE  Told'
  <2>1. UNCHANGED <<append, upstream>>
    BY <1>2 DEF TransportNext, TakeCommand, BeginClose, Drained, ActorLeaves, RemoveTransport,
                Emit, EmitEnd, CloseOutput
  <2>2. \A r \in Requests : local'[r] \in {local[r], NoTransport}
    <3>1. UNCHANGED local \/ local' = [local EXCEPT ![transport[t].request] = NoTransport]
      BY <1>2 DEF TransportNext, TakeCommand, BeginClose, Drained, ActorLeaves, RemoveTransport,
                  Emit, EmitEnd, CloseOutput
    <3>2. QED
      BY <1>0, <3>1
  <2>3. \A s \in Streams : /\ stream'[s].phase = stream[s].phase
                           /\ stream'[s].notified = stream[s].notified
    <3>1. CASE UNCHANGED stream
      BY <3>1
    <3>2. CASE \E f \in AllFrames : stream' = Sent(t, f)
      BY <3>2, SentShape
    <3>3. UNCHANGED stream \/ \E f \in AllFrames : stream' = Sent(t, f)
      BY <1>2 DEF TransportNext, TakeCommand, BeginClose, Drained, ActorLeaves, RemoveTransport,
                  Emit, EmitEnd, CloseOutput, Emitted, AllFrames
    <3>4. QED
      BY <3>1, <3>2, <3>3
  <2>4. Quiet
    BY <2>1, <2>2, <2>3 DEF Quiet, Announcing
  <2>5. QED
    BY <2>4, QuietStep
<1>3. ASSUME NEW s \in Streams, StreamNext(s)
      PROVE  Told'
  <2>0. \A u \in Streams : DOMAIN stream[u] = StreamFields
    BY <1>0 DEF StreamsOK, StreamOK
  <2>1. ASSUME stream[s].phase # "announce", UNCHANGED <<append, local>>,
               \A r \in Requests : upstream'[r] \in {upstream[r], 0},
               \A u \in Streams \ {s} : stream'[u] = stream[u],
               stream'[s].phase \notin {"upstream?", "sleep"}
        PROVE  Told'
    <3>1. Announcing => Announcing'
      BY <2>1 DEF Announcing
    <3>2. Quiet
      BY <2>1, <3>1 DEF Quiet
    <3>3. QED
      BY <3>2, QuietStep
  <2>2. CASE WaitRoute(s)
    BY <1>0, <2>0, <2>1, <2>2 DEF WaitRoute, StreamsOK, StreamFields
  <2>3. CASE LookLocal(s)
    <3>1. CASE local[RequestOf[s]] # NoTransport
      <4>1. stream' = [stream EXCEPT ![s].phase = "find"]
        BY <2>3, <3>1 DEF LookLocal
      <4>2. QED
        BY <1>0, <2>0, <2>1, <2>3, <4>1 DEF LookLocal, StreamsOK, StreamFields
    <3>2. CASE local[RequestOf[s]] = NoTransport
      <4>1. stream' = [stream EXCEPT ![s].phase = "upstream?"]
        BY <2>3, <3>2 DEF LookLocal
      <4>2. /\ stream'[s].phase = "upstream?"
            /\ \A u \in Streams \ {s} : stream'[u] = stream[u]
        BY <1>0, <2>0, <4>1 DEF StreamsOK, StreamFields
      <4>3. Announcing => Announcing'
        BY <2>3, <4>2 DEF LookLocal, Announcing
      <4>4. UNCHANGED <<local, upstream>>
        BY <2>3 DEF LookLocal
      <4>5. SleepersAreTold'
        BY <4>2, <4>3, <4>4 DEF Told, SleepersAreTold
      <4>6. ASSUME NEW u \in Streams, stream'[u].phase = "upstream?", ~stream'[u].notified
            PROVE  local'[RequestOf[u]] = NoTransport \/ Announcing'
        BY <3>2, <4>2, <4>3, <4>4, <4>6 DEF Told
      <4>7. QED
        BY <4>5, <4>6 DEF Told
    <3>3. QED
      BY <3>1, <3>2
  <2>4. CASE LookUpstream(s)
    <3> DEFINE g == upstream[RequestOf[s]]
    <3>1. CASE g # 0
      <4>1. stream' = [stream EXCEPT ![s].phase = "forward", ![s].generation = g]
        BY <2>4, <3>1 DEF LookUpstream
      <4>2. QED
        BY <1>0, <2>0, <2>1, <2>4, <4>1 DEF LookUpstream, StreamsOK, StreamFields
    <3>2. CASE g = 0
      <4>1. stream' = [stream EXCEPT ![s].phase = "sleep", ![s].generation = g]
        BY <2>4, <3>2 DEF LookUpstream
      <4>2. /\ stream'[s].phase = "sleep" /\ stream'[s].notified = stream[s].notified
            /\ \A u \in Streams \ {s} : stream'[u] = stream[u]
        BY <1>0, <2>0, <4>1 DEF StreamsOK, StreamFields
      <4>3. stream[s].phase = "upstream?" /\ UNCHANGED <<local, upstream, append>>
        BY <2>4 DEF LookUpstream
      <4>4. Announcing => Announcing'
        BY <4>2, <4>3 DEF Announcing
      <4>5. ASSUME NEW u \in Streams, stream'[u].phase = "sleep", ~stream'[u].notified
            PROVE  \/ local'[RequestOf[u]] = NoTransport /\ upstream'[RequestOf[u]] = 0
                   \/ Announcing'
        <5>1. CASE u = s
          BY <3>2, <4>2, <4>3, <4>4, <4>5, <5>1 DEF Told
        <5>2. CASE u # s
          BY <4>2, <4>3, <4>4, <4>5, <5>2 DEF Told, SleepersAreTold
        <5>3. QED
          BY <5>1, <5>2
      <4>6. ASSUME NEW u \in Streams, stream'[u].phase = "upstream?", ~stream'[u].notified
            PROVE  local'[RequestOf[u]] = NoTransport \/ Announcing'
        BY <4>2, <4>3, <4>4, <4>6 DEF Told
      <4>7. QED
        BY <4>5, <4>6 DEF Told, SleepersAreTold
    <3>3. QED
      BY <3>1, <3>2
  <2>5. CASE StreamFinds(s)
    <3>1. CASE Usable(local[RequestOf[s]], FALSE)
      <4>1. stream' = [stream EXCEPT ![s].phase = "subscribe", ![s].transport = local[RequestOf[s]]]
            /\ stream[s].phase = "find" /\ UNCHANGED <<local, upstream, append>>
        BY <2>5, <3>1 DEF StreamFinds
      <4>2. QED
        BY <1>0, <2>0, <2>1, <4>1 DEF StreamsOK, StreamFields
    <3>2. CASE ~Usable(local[RequestOf[s]], FALSE)
      <4>1. stream'[s].phase = "announce"
        BY <1>0, <2>0, <2>5, <3>2 DEF StreamFinds, StreamsOK, StreamFields
      <4>2. QED
        BY <4>1, AnnouncedStep DEF Announcing
    <3>3. QED
      BY <3>1, <3>2
  <2>6. CASE StreamAnnounces(s)
    <3>1. stream' = [NotifyWaiters EXCEPT ![s].phase = "subscribe"]
      BY <2>6 DEF StreamAnnounces
    <3>2. \A u \in Streams : stream'[u].phase \in {"upstream?", "sleep"} => stream'[u].notified
      BY <3>1, NotifyShape DEF Hears, StreamFields
    <3>3. QED
      BY <3>2, NotifiedStep
  <2>7. CASE Subscribe(s)
    BY <1>0, <2>0, <2>1, <2>7 DEF Subscribe, StreamsOK, StreamFields
  <2>8. CASE PassFrame(s)
    <3> DEFINE now == [stream[s] EXCEPT !.got = Append(@, Head(stream[s].queue)), !.queue = Tail(@)]
               over == [now EXCEPT !.phase = "complete", !.queue = <<>>]
    <3>1. now.phase = "reading" /\ over.phase = "complete"
      BY <2>0, <2>8 DEF PassFrame, StreamFields
    <3>2. stream' = [stream EXCEPT ![s] = now] \/ stream' = [stream EXCEPT ![s] = over]
      BY <2>8 DEF PassFrame
    <3>3. UNCHANGED <<append, local, upstream>> /\ stream[s].phase = "reading"
      BY <2>8 DEF PassFrame
    <3> HIDE DEF now, over
    <3>4. QED
      BY <1>0, <2>1, <3>1, <3>2, <3>3 DEF StreamsOK
  <2>9. CASE ClientLeaves(s)
    BY <1>0, <2>0, <2>1, <2>9 DEF ClientLeaves, StreamsOK, StreamFields
  <2>10. CASE SendDisconnect(s)
    BY <1>0, <2>0, <2>1, <2>10 DEF SendDisconnect, StreamsOK, StreamFields
  <2>11. CASE ClientGivesUp(s)
    BY <1>0, <2>0, <2>1, <2>11 DEF ClientGivesUp, StreamsOK, StreamFields
  <2>12. CASE Forward(s)
    BY <1>0, <2>0, <2>1, <2>12 DEF Forward, StreamsOK, StreamFields
  <2>13. CASE UpstreamEnds(s)
    BY <1>0, <2>0, <2>1, <2>13 DEF UpstreamEnds, StreamsOK, StreamFields
  <2>14. CASE FinishUpstream(s)
    <3>1. \A r \in Requests : upstream'[r] \in {upstream[r], 0}
      BY <1>0, <2>14 DEF FinishUpstream
    <3>2. QED
      BY <1>0, <2>0, <2>1, <2>14, <3>1 DEF FinishUpstream, StreamsOK, StreamFields
  <2>15. QED
    BY <1>3, <2>2, <2>3, <2>4, <2>5, <2>6, <2>7, <2>8, <2>9, <2>10, <2>11, <2>12, <2>13,
       <2>14 DEF StreamNext
<1>4. QED
  BY <1>1, <1>2, <1>3 DEF Next

-----------------------------------------------------------------------------
(* Reading                                                                  *)

\* A stream that reads has been given, and has in its channel, the frames of
\* the hub, and gets those to come unless there will be none.
ReadsAll(s) ==
    LET h == hub[stream[s].transport]
    IN  /\ stream[s].got \o stream[s].queue = h.history
        /\ s \in h.subscribers \/ h.closed

Reading ==
    /\ \A t \in Transports : hub[t].closed => transport[t].actor \in {"leaves", "gone"}
    /\ \A t \in Transports : \A s \in hub[t].subscribers :
           stream[s].phase = "reading" /\ stream[s].transport = t
    /\ \A s \in Streams : stream[s].phase = "reading" => ReadsAll(s)

\* Frames that come, and frames that are passed on.
LEMMA Frames1 ==
    ASSUME NEW g \in Seq(AllFrames), NEW q \in Seq(AllFrames), NEW f \in AllFrames
    PROVE  g \o Append(q, f) = Append(g \o q, f)
OBVIOUS

\* The first frame of a channel, taken out of it.
LEMMA Frames2 ==
    ASSUME NEW g \in Seq(AllFrames), NEW q \in Seq(AllFrames), q # <<>>
    PROVE  /\ Append(g, Head(q)) \o Tail(q) = g \o q
           /\ Len(g) + 1 <= Len(g \o q)
           /\ (g \o q)[Len(g) + 1] = Head(q)
           /\ Head(q) \in AllFrames /\ Tail(q) \in Seq(AllFrames)
OBVIOUS

\* A frame that is passed on leaves what is read and what waits as it was.
LEMMA Frames3 ==
    ASSUME NEW g \in Seq(AllFrames)
    PROVE  g \o <<>> = g /\ <<>> \o g = g
OBVIOUS

\* A stream that does not read before or after, or has what it had.
Kept(u) ==
    \/ stream'[u].phase # "reading" /\ stream[u].phase # "reading"
    \/ /\ stream'[u].phase = stream[u].phase
       /\ stream'[u].transport = stream[u].transport
       /\ stream'[u].got = stream[u].got
       /\ stream'[u].queue = stream[u].queue

\* Steps that leave the hubs alone.
LEMMA ReadingKept ==
    ASSUME Shape, Reading, UNCHANGED hub, \A u \in Streams : Kept(u),
           \A t \in Transports : hub[t].closed => transport'[t].actor \in {"leaves", "gone"}
    PROVE  Reading'
<1>1. \A t \in Transports : hub[t].subscribers \subseteq Streams
  BY DEF Shape, HubsOK
<1>2. \A t \in Transports : \A s \in hub[t].subscribers :
          stream'[s].phase = "reading" /\ stream'[s].transport = t
  BY <1>1 DEF Reading, Kept
<1>3. ASSUME NEW s \in Streams, stream'[s].phase = "reading"
      PROVE  ReadsAll(s)'
  <2>1. /\ stream[s].phase = "reading" /\ stream'[s].transport = stream[s].transport
        /\ stream'[s].got = stream[s].got /\ stream'[s].queue = stream[s].queue
    BY <1>3 DEF Kept
  <2>2. QED
    BY <2>1 DEF Reading, ReadsAll
<1>4. QED
  BY <1>2, <1>3 DEF Reading

\* A frame that is emitted.
LEMMA ReadingEmitted ==
    ASSUME Shape, Placed, Reading, NEW t \in Transports, ~hub[t].closed, NEW f \in AllFrames,
           Emitted(t, f),
           \A u \in Transports : hub[u].closed => transport'[u].actor \in {"leaves", "gone"}
    PROVE  Reading'
<1>1. /\ hub'[t].history = Append(hub[t].history, f)
      /\ hub'[t].subscribers = hub[t].subscribers /\ hub'[t].closed = hub[t].closed
      /\ \A u \in Transports \ {t} : hub'[u] = hub[u]
      /\ \A u \in Transports : hub[u].subscribers \subseteq Streams
  BY DEF Emitted, Shape, HubsOK
<1>2. \A s \in Streams :
          /\ stream'[s].phase = stream[s].phase /\ stream'[s].transport = stream[s].transport
          /\ stream'[s].got = stream[s].got
          /\ stream'[s].queue = IF s \in hub[t].subscribers
                                  THEN Append(stream[s].queue, f) ELSE stream[s].queue
  BY SentShape DEF Emitted
<1>3. \A u \in Transports : hub'[u].subscribers = hub[u].subscribers /\ hub'[u].closed = hub[u].closed
  BY <1>1
<1>4. \A u \in Transports : \A s \in hub'[u].subscribers :
          stream'[s].phase = "reading" /\ stream'[s].transport = u
  BY <1>1, <1>2, <1>3 DEF Reading
<1>5. ASSUME NEW s \in Streams, stream'[s].phase = "reading"
      PROVE  ReadsAll(s)'
  <2> DEFINE u == stream[s].transport
  <2>1. /\ stream[s].phase = "reading" /\ u \in Transports /\ ReadsAll(s)
        /\ stream[s].got \in Seq(AllFrames) /\ stream[s].queue \in Seq(AllFrames)
    BY <1>2, <1>5 DEF Reading, Placed, Shape, StreamsOK, StreamOK
  <2>2. CASE u = t
    <3>1. s \in hub[t].subscribers
      BY <2>1, <2>2 DEF ReadsAll
    <3>2. stream'[s].queue = Append(stream[s].queue, f)
      BY <1>2, <3>1
    <3>5. stream[s].got \o Append(stream[s].queue, f) = Append(stream[s].got \o stream[s].queue, f)
      BY <2>1, Frames1
    <3>6. stream[s].got \o stream[s].queue = hub[t].history
      BY <2>1, <2>2 DEF ReadsAll
    <3>3. stream'[s].got \o stream'[s].queue = hub'[t].history
      BY <1>1, <1>2, <3>2, <3>5, <3>6
    <3>4. QED
      BY <1>1, <1>2, <2>2, <3>1, <3>3 DEF ReadsAll
  <2>3. CASE u # t
    <3>1. s \notin hub[t].subscribers
      BY <2>3 DEF Reading
    <3>2. QED
      BY <1>1, <1>2, <2>1, <2>3, <3>1 DEF ReadsAll
  <2>4. QED
    BY <2>2, <2>3
<1>6. \A u \in Transports : hub'[u].closed => transport'[u].actor \in {"leaves", "gone"}
  BY <1>3
<1>7. QED
  BY <1>4, <1>5, <1>6 DEF Reading

\* A stream that reads no more.
LEMMA ReadingLeft ==
    ASSUME Shape, Placed, Reading, NEW s \in Streams, stream[s].phase = "reading",
           NEW q, q.phase # "reading", stream' = [stream EXCEPT ![s] = q],
           hub' = Unsubscribed(s), UNCHANGED transport
    PROVE  Reading'
<1> DEFINE t == stream[s].transport
<1>1. t \in Transports
  BY DEF Placed
<1>2. /\ \A u \in Transports : hub'[u].closed = hub[u].closed /\ hub'[u].history = hub[u].history
      /\ \A u \in Transports \ {t} : hub'[u] = hub[u]
      /\ hub'[t].subscribers = hub[t].subscribers \ {s}
      /\ \A u \in Transports : hub[u].subscribers \subseteq Streams
  BY <1>1 DEF Unsubscribed, Shape, HubsOK
<1>3. stream'[s] = q /\ \A v \in Streams \ {s} : stream'[v] = stream[v]
  BY DEF Shape, StreamsOK
<1>4. \A u \in Transports : \A v \in hub'[u].subscribers : v # s /\ v \in hub[u].subscribers
  BY <1>2 DEF Reading
<1>5. \A u \in Transports : \A v \in hub'[u].subscribers :
          stream'[v].phase = "reading" /\ stream'[v].transport = u
  BY <1>2, <1>3, <1>4 DEF Reading
<1>6. ASSUME NEW v \in Streams, stream'[v].phase = "reading"
      PROVE  ReadsAll(v)'
  <2>1. v # s /\ stream'[v] = stream[v] /\ ReadsAll(v) /\ stream[v].transport \in Transports
    BY <1>3, <1>6 DEF Reading, Placed
  <2>2. \A u \in Transports : v \in hub[u].subscribers => v \in hub'[u].subscribers
    BY <1>2, <2>1
  <2>3. QED
    BY <1>2, <2>1, <2>2 DEF ReadsAll
<1>7. QED
  BY <1>2, <1>5, <1>6 DEF Reading

\* Only the end of the output closes a hub, and only readers have one.
LEMMA ReadingStep ==
    ASSUME Shape, Placed, Unplaced, Bindings, Reading, Next
    PROVE  Reading'
<1> USE RequestsOf
<1>0. /\ AppendsOK(append) /\ StreamsOK(stream) /\ HubsOK(hub) /\ TransportsOK(transport)
      /\ \A u \in Streams : DOMAIN stream[u] = StreamFields
      /\ \A t \in Transports : hub[t].closed => transport[t].actor \in {"leaves", "gone"}
  BY DEF Shape, StreamsOK, StreamOK, Reading
<1>1. ASSUME NEW t \in Transports, transport[t].actor \notin {"leaves", "gone"},
             \A u \in Transports \ {t} : transport'[u] = transport[u]
      PROVE  \A u \in Transports : hub[u].closed => transport'[u].actor \in {"leaves", "gone"}
  BY <1>0, <1>1
<1>2. ASSUME NEW a \in Appends, AppendNext(a)
      PROVE  Reading'
  <2>1. UNCHANGED hub
    BY <1>2 DEF AppendNext, AppendArrives, AppendAsks, MarkUpstream, FindTransport, AnnounceRoute,
                Admit, SendCommand, AppendGivesUp
  <2>2. \A u \in Streams : Kept(u)
    <3>1. CASE AnnounceRoute(a)
      BY <3>1, NotifyShape DEF AnnounceRoute, Kept
    <3>2. CASE ~AnnounceRoute(a)
      BY <1>2, <3>2 DEF AppendNext, AppendArrives, AppendAsks, MarkUpstream, FindTransport, Admit,
                        SendCommand, AppendGivesUp, Kept
    <3>3. QED
      BY <3>1, <3>2
  <2>3. \A u \in Transports : hub[u].closed => transport'[u].actor \in {"leaves", "gone"}
    <3>1. CASE UNCHANGED transport
      BY <1>0, <3>1
    <3>2. CASE FindTransport(a) /\ ~UNCHANGED transport
      <4>1. PICK t \in Transports : Create(t, RequestOf[a])
        BY <3>2 DEF FindTransport
      <4>2. transport[t].actor = "none"
        BY <4>1 DEF Create, Bindings
      <4>3. \A u \in Transports \ {t} : transport'[u] = transport[u]
        BY <1>0, <4>1 DEF Create, TransportsOK
      <4>4. QED
        BY <1>1, <4>2, <4>3
    <3>3. CASE AnnounceRoute(a) /\ ~UNCHANGED transport
      <4> DEFINE t == append[a].transport
      <4>1. t \in Transports /\ BindsA(a, t) /\ transport' = Bound(t)
        BY <1>0, <3>3 DEF AnnounceRoute, BindsA, AppendsOK
      <4>2. transport[t].actor = "none"
        BY <4>1 DEF Bindings
      <4>3. \A u \in Transports \ {t} : transport'[u] = transport[u]
        BY <1>0, <4>1 DEF Bound, TransportsOK
      <4> HIDE DEF t
      <4>4. QED
        BY <1>1, <4>1, <4>2, <4>3
    <3>4. CASE SendCommand(a) /\ ~UNCHANGED transport
      <4>1. append[a].transport \in Transports
        BY <3>4 DEF SendCommand, Unplaced
      <4>2. \A u \in Transports : transport'[u].actor = transport[u].actor
        BY <1>0, <3>4, <4>1 DEF SendCommand, TransportsOK, TransportFields
      <4>3. QED
        BY <1>0, <4>2
    <3>5. QED
      BY <1>2, <3>1, <3>2, <3>3, <3>4 DEF AppendNext, AppendArrives, AppendAsks, MarkUpstream, Admit, AppendGivesUp
  <2>4. QED
    BY <2>1, <2>2, <2>3, ReadingKept
<1>3. ASSUME NEW t \in Transports, TransportNext(t)
      PROVE  Reading'
  <2>1. CASE TakeCommand(t) \/ BeginClose(t) \/ Drained(t)
    <3>1. transport[t].actor = "runs"
      BY <2>1 DEF TakeCommand, BeginClose, Drained
    <3>2. \A u \in Transports \ {t} : transport'[u] = transport[u]
      BY <1>0, <2>1 DEF TakeCommand, BeginClose, Drained, TransportsOK
    <3>3. UNCHANGED <<hub, stream>>
      BY <2>1 DEF TakeCommand, BeginClose, Drained
    <3>4. QED
      BY <1>1, <3>1, <3>2, <3>3, ReadingKept DEF Kept
  <2>2. CASE ActorLeaves(t)
    <3>1. \A u \in Transports : hub[u].closed => transport'[u].actor \in {"leaves", "gone"}
      BY <1>0, <2>2 DEF ActorLeaves, TransportsOK, TransportFields
    <3>2. QED
      BY <2>2, <3>1, ReadingKept DEF ActorLeaves, Kept
  <2>3. CASE RemoveTransport(t)
    BY <1>0, <2>3, ReadingKept DEF RemoveTransport, Kept
  <2>4. CASE Emit(t)
    <3>1. PICK f \in AllFrames : Emitted(t, f)
      BY <2>4 DEF Emit, AllFrames
    <3>2. QED
      BY <1>0, <2>4, <3>1, ReadingEmitted DEF Emit
  <2>5. CASE EmitEnd(t)
    <3>1. transport[t].actor = "ends" /\ Emitted(t, EndFrame) /\ EndFrame \in AllFrames
      BY <2>5 DEF EmitEnd, AllFrames
    <3>2. ~hub[t].closed
      BY <1>0, <3>1
    <3>3. \A u \in Transports \ {t} : transport'[u] = transport[u]
      BY <1>0, <2>5 DEF EmitEnd, TransportsOK
    <3>4. \A u \in Transports : hub[u].closed => transport'[u].actor \in {"leaves", "gone"}
      BY <1>1, <3>1, <3>3
    <3>5. QED
      BY <3>1, <3>2, <3>4, ReadingEmitted
  <2>6. CASE CloseOutput(t)
    <3>1. /\ hub'[t].closed /\ hub'[t].subscribers = {} /\ hub'[t].history = hub[t].history
          /\ \A u \in Transports \ {t} : hub'[u] = hub[u]
      BY <1>0, <2>6 DEF CloseOutput, HubsOK
    <3>2. \A u \in Transports : hub'[u].closed => transport'[u].actor \in {"leaves", "gone"}
      BY <1>0, <2>6, <3>1 DEF CloseOutput, TransportsOK, TransportFields
    <3>3. UNCHANGED stream
      BY <2>6 DEF CloseOutput
    <3>4. \A u \in Transports : \A s \in hub'[u].subscribers :
              stream[s].phase = "reading" /\ stream[s].transport = u
      BY <3>1 DEF Reading
    <3>5. ASSUME NEW s \in Streams, stream[s].phase = "reading"
          PROVE  ReadsAll(s)'
      <4>1. stream[s].transport \in Transports /\ ReadsAll(s)
        BY <3>5 DEF Placed, Reading
      <4>2. QED
        BY <3>1, <3>3, <4>1 DEF ReadsAll
    <3>6. QED
      BY <3>2, <3>3, <3>4, <3>5 DEF Reading
  <2>7. QED
    BY <1>3, <2>1, <2>2, <2>3, <2>4, <2>5, <2>6 DEF TransportNext
<1>4. ASSUME NEW s \in Streams, StreamNext(s)
      PROVE  Reading'
  <2>0. ASSUME UNCHANGED <<hub, transport>>, \A u \in Streams \ {s} : stream'[u] = stream[u],
               stream[s].phase # "reading", stream'[s].phase # "reading"
        PROVE  Reading'
    BY <1>0, <2>0, ReadingKept DEF Kept
  <2>1. CASE WaitRoute(s) \/ ClientGivesUp(s) \/ UpstreamEnds(s) \/ LookLocal(s) \/ LookUpstream(s)
             \/ Forward(s) \/ FinishUpstream(s)
    <3>1. PICK q : stream' = [stream EXCEPT ![s] = q] /\ q.phase # "reading"
      <4>1. PICK phase \in {"local?", "over", "finish", "find", "upstream?", "forward", "sleep",
                            "upstream"} :
               \/ stream' = [stream EXCEPT ![s].phase = phase]
               \/ stream' = [stream EXCEPT ![s].phase = phase, ![s].notified = FALSE]
               \/ stream' = [stream EXCEPT ![s].phase = phase,
                                           ![s].generation = upstream[RequestOf[s]]]
        BY <2>1 DEF WaitRoute, ClientGivesUp, UpstreamEnds, LookLocal, LookUpstream, Forward,
                    FinishUpstream
      <4>2. CASE stream' = [stream EXCEPT ![s].phase = phase]
        <5>1. WITNESS [stream[s] EXCEPT !.phase = phase]
        <5>2. QED
          BY <1>0, <4>2 DEF StreamFields
      <4>3. CASE stream' = [stream EXCEPT ![s].phase = phase, ![s].notified = FALSE]
        <5>1. WITNESS [stream[s] EXCEPT !.phase = phase, !.notified = FALSE]
        <5>2. QED
          BY <1>0, <4>3 DEF StreamFields
      <4>4. CASE stream' = [stream EXCEPT ![s].phase = phase,
                                          ![s].generation = upstream[RequestOf[s]]]
        <5>1. WITNESS [stream[s] EXCEPT !.phase = phase, !.generation = upstream[RequestOf[s]]]
        <5>2. QED
          BY <1>0, <4>4 DEF StreamFields
      <4>5. QED
        BY <4>1, <4>2, <4>3, <4>4
    <3>2. stream[s].phase # "reading" /\ UNCHANGED <<hub, transport>>
      BY <2>1 DEF WaitRoute, ClientGivesUp, UpstreamEnds, LookLocal, LookUpstream, Forward,
                  FinishUpstream
    <3>3. QED
      BY <1>0, <2>0, <3>1, <3>2 DEF StreamsOK
  <2>2. CASE SendDisconnect(s)
    <3>1. stream[s].transport \in Transports
      BY <2>2 DEF SendDisconnect, Placed
    <3>2. \A u \in Transports : transport'[u].actor = transport[u].actor
      BY <1>0, <2>2, <3>1 DEF SendDisconnect, TransportsOK, TransportFields
    <3>3. \A u \in Streams : Kept(u)
      BY <1>0, <2>2 DEF SendDisconnect, Kept, StreamsOK, StreamFields
    <3>4. QED
      BY <1>0, <2>2, <3>2, <3>3, ReadingKept DEF SendDisconnect
  <2>3. CASE StreamFinds(s)
    <3>1. PICK t \in Transports, phase \in {"subscribe", "announce"} :
             stream' = [stream EXCEPT ![s].phase = phase, ![s].transport = t]
      BY <2>3 DEF StreamFinds, Usable, Shape, RoutesOK
    <3>2. \A u \in Streams : Kept(u)
      BY <1>0, <2>3, <3>1 DEF StreamFinds, Kept, StreamsOK, StreamFields
    <3>3. \A u \in Transports : hub[u].closed => transport'[u].actor \in {"leaves", "gone"}
      <4>1. CASE UNCHANGED transport
        BY <1>0, <4>1
      <4>2. CASE ~UNCHANGED transport
        <5>1. PICK v \in Transports : Create(v, RequestOf[s])
          BY <2>3, <4>2 DEF StreamFinds
        <5>2. transport[v].actor = "none"
          BY <5>1 DEF Create, Bindings
        <5>3. \A u \in Transports \ {v} : transport'[u] = transport[u]
          BY <1>0, <5>1 DEF Create, TransportsOK
        <5>4. QED
          BY <1>1, <5>2, <5>3
      <4>3. QED
        BY <4>1, <4>2
    <3>4. QED
      BY <2>3, <3>2, <3>3, ReadingKept DEF StreamFinds
  <2>4. CASE StreamAnnounces(s)
    <3> DEFINE t == stream[s].transport
    <3>1. t \in Transports /\ BindsS(s, t) /\ transport' = Bound(t) /\ UNCHANGED hub
      BY <2>4 DEF StreamAnnounces, BindsS, Placed
    <3>2. transport[t].actor = "none"
      BY <3>1 DEF Bindings
    <3>3. \A u \in Transports \ {t} : transport'[u] = transport[u]
      BY <1>0, <3>1 DEF Bound, TransportsOK
    <3>4. stream' = [NotifyWaiters EXCEPT ![s].phase = "subscribe"] /\ stream[s].phase = "announce"
      BY <2>4 DEF StreamAnnounces
    <3>5. \A u \in Streams : Kept(u)
      BY <3>4, NotifyShape DEF Kept, StreamFields
    <3> HIDE DEF t
    <3>6. QED
      BY <1>1, <3>1, <3>2, <3>3, <3>5, ReadingKept
  <2>5. CASE Subscribe(s)
    <3> DEFINE t == stream[s].transport
               h == hub[t].history
    <3>1. /\ t \in Transports /\ stream[s].got = <<>> /\ stream[s].phase = "subscribe"
          /\ h \in Seq(AllFrames)
      BY <1>0, <2>5 DEF Subscribe, Placed, HubsOK
    <3>2. /\ stream'[s].phase = "reading" /\ stream'[s].transport = t
          /\ stream'[s].got = <<>> /\ stream'[s].queue = h
          /\ \A u \in Streams \ {s} : stream'[u] = stream[u]
      BY <1>0, <2>5, <3>1 DEF Subscribe, Replay, StreamsOK, StreamFields
    <3>3. /\ hub'[t].history = h /\ hub'[t].closed = hub[t].closed
          /\ hub'[t].subscribers = IF hub[t].closed THEN hub[t].subscribers
                                   ELSE hub[t].subscribers \cup {s}
          /\ \A u \in Transports \ {t} : hub'[u] = hub[u]
      BY <1>0, <2>5, <3>1 DEF Subscribe, HubsOK
    <3>4. \A u \in Transports : \A v \in hub'[u].subscribers :
              v \in hub[u].subscribers \/ (u = t /\ v = s)
      BY <3>3
    <3>5. \A u \in Transports : \A v \in hub[u].subscribers : v # s /\ v \in Streams
      BY <1>0, <3>1 DEF Reading, HubsOK
    <3>6. \A u \in Transports : \A v \in hub'[u].subscribers :
              stream'[v].phase = "reading" /\ stream'[v].transport = u
      BY <3>2, <3>4, <3>5 DEF Reading
    <3>7. ReadsAll(s)'
      BY <3>1, <3>2, <3>3, Frames3 DEF ReadsAll
    <3>8. ASSUME NEW v \in Streams \ {s}, stream'[v].phase = "reading"
          PROVE  ReadsAll(v)'
      <4>1. /\ stream'[v] = stream[v] /\ ReadsAll(v) /\ stream[v].transport \in Transports
        BY <3>2, <3>8 DEF Reading, Placed
      <4>2. \A u \in Transports : /\ hub'[u].history = hub[u].history
                                  /\ hub'[u].closed = hub[u].closed
                                  /\ v \in hub[u].subscribers => v \in hub'[u].subscribers
        BY <3>3
      <4>3. QED
        BY <4>1, <4>2 DEF ReadsAll
    <3>9. \A u \in Transports : hub'[u].closed => transport'[u].actor \in {"leaves", "gone"}
      BY <1>0, <2>5, <3>3 DEF Subscribe
    <3>10. QED
      BY <3>6, <3>7, <3>8, <3>9 DEF Reading
  <2>6. CASE PassFrame(s)
    <3> DEFINE f == Head(stream[s].queue)
               now == [stream[s] EXCEPT !.got = Append(@, f), !.queue = Tail(@)]
               over == [now EXCEPT !.phase = "complete", !.queue = <<>>]
    <3>0. stream[s].phase = "reading" /\ stream[s].queue # <<>> /\ UNCHANGED transport
      BY <2>6 DEF PassFrame
    <3>1. /\ now.phase = "reading" /\ now.transport = stream[s].transport
          /\ now.got = Append(stream[s].got, f) /\ now.queue = Tail(stream[s].queue)
          /\ over.phase = "complete"
      BY <1>0, <3>0 DEF StreamFields
    <3>2. \/ stream' = [stream EXCEPT ![s] = now] /\ UNCHANGED hub
          \/ stream' = [stream EXCEPT ![s] = over] /\ hub' = Unsubscribed(s)
      BY <2>6 DEF PassFrame
    <3> HIDE DEF f, now, over
    <3>3. CASE stream' = [stream EXCEPT ![s] = over] /\ hub' = Unsubscribed(s)
      <4>1. over.phase # "reading"
        BY <3>1
      <4>2. QED
        BY <3>0, <3>3, <4>1, ReadingLeft
    <3>4. CASE stream' = [stream EXCEPT ![s] = now] /\ UNCHANGED hub
      <4>1. stream'[s] = now /\ \A u \in Streams \ {s} : stream'[u] = stream[u]
        BY <1>0, <3>4 DEF StreamsOK
      <4>2. /\ stream[s].got \in Seq(AllFrames) /\ stream[s].queue \in Seq(AllFrames) /\ ReadsAll(s)
        BY <1>0, <3>0 DEF StreamsOK, StreamOK, Reading
      <4>8. Append(stream[s].got, Head(stream[s].queue)) \o Tail(stream[s].queue)
               = stream[s].got \o stream[s].queue
        BY <3>0, <4>2, Frames2
      <4>3. now.got \o now.queue = stream[s].got \o stream[s].queue
        BY <3>1, <4>8 DEF f
      <4>4. ReadsAll(s)'
        BY <3>1, <3>4, <4>1, <4>2, <4>3 DEF ReadsAll
      <4>5. ASSUME NEW u \in Streams \ {s}, stream'[u].phase = "reading"
            PROVE  ReadsAll(u)'
        BY <3>4, <4>1, <4>5 DEF Reading, ReadsAll
      <4>6. \A t \in Transports : \A u \in hub[t].subscribers :
               stream'[u].phase = "reading" /\ stream'[u].transport = t
        BY <1>0, <3>0, <3>1, <4>1 DEF Reading, HubsOK
      <4>7. QED
        BY <1>0, <3>0, <3>4, <4>4, <4>5, <4>6 DEF Reading
    <3>5. QED
      BY <3>2, <3>3, <3>4
  <2>7. CASE ClientLeaves(s)
    <3>0. PICK phase \in {"left", "over"} :
             stream' = [stream EXCEPT ![s].phase = phase, ![s].queue = <<>>]
      BY <2>7 DEF ClientLeaves
    <3> DEFINE q == [stream[s] EXCEPT !.phase = phase, !.queue = <<>>]
    <3>1. q.phase # "reading" /\ stream' = [stream EXCEPT ![s] = q]
      BY <1>0, <3>0 DEF StreamFields
    <3>2. stream[s].phase = "reading" /\ hub' = Unsubscribed(s) /\ UNCHANGED transport
      BY <2>7 DEF ClientLeaves
    <3> HIDE DEF q
    <3>3. QED
      BY <3>1, <3>2, ReadingLeft
  <2>8. QED
    BY <1>4, <2>1, <2>2, <2>3, <2>4, <2>5, <2>6, <2>7 DEF StreamNext
<1>5. QED
  BY <1>2, <1>3, <1>4 DEF Next

-----------------------------------------------------------------------------
(* End frames                                                               *)

HasEnd(h) == \E i \in 1 .. Len(h) : h[i] = EndFrame

\* A transport that is about to close its output has emitted an end frame.
EndsFirst ==
    \A t \in Transports : transport[t].actor = "closes" => HasEnd(hub[t].history)

\* An end frame stays, and a new one counts.
LEMMA HasEndAppend ==
    ASSUME NEW h \in Seq(AllFrames), NEW f \in AllFrames, HasEnd(h) \/ f = EndFrame
    PROVE  HasEnd(Append(h, f))
<1>1. /\ Len(Append(h, f)) = Len(h) + 1 /\ Len(h) \in Nat
      /\ \A i \in 1 .. Len(h) : Append(h, f)[i] = h[i]
      /\ Append(h, f)[Len(h) + 1] = f
  OBVIOUS
<1>2. CASE f = EndFrame
  <2>1. Len(h) + 1 \in 1 .. Len(Append(h, f)) /\ Append(h, f)[Len(h) + 1] = EndFrame
    BY <1>1, <1>2
  <2>2. QED
    BY <2>1 DEF HasEnd
<1>3. CASE HasEnd(h)
  <2>1. PICK i \in 1 .. Len(h) : h[i] = EndFrame
    BY <1>3 DEF HasEnd
  <2>2. i \in 1 .. Len(Append(h, f)) /\ Append(h, f)[i] = EndFrame
    BY <1>1, <2>1
  <2>3. QED
    BY <2>2 DEF HasEnd
<1>4. QED
  BY <1>2, <1>3

\* A step by which nobody begins to close keeps this, whatever it adds to the
\* histories.
LEMMA EndsFirstKept ==
    ASSUME EndsFirst,
           \A t \in Transports : transport'[t].actor = "closes" => transport[t].actor = "closes",
           \A t \in Transports : HasEnd(hub[t].history) => HasEnd(hub'[t].history)
    PROVE  EndsFirst'
<1>1. \A t \in Transports : transport'[t].actor = "closes" => HasEnd(hub'[t].history)
  BY DEF EndsFirst
<1>2. QED
  BY <1>1 DEF EndsFirst, HasEnd

\* Nothing is taken from a history.
LEMMA HistoriesGrow ==
    ASSUME Shape, Placed, Next, NEW t \in Transports, HasEnd(hub[t].history)
    PROVE  HasEnd(hub'[t].history)
<1>0. HubsOK(hub) /\ hub[t].history \in Seq(AllFrames)
  BY DEF Shape, HubsOK
<1>1. CASE hub'[t].history = hub[t].history
  BY <1>1
<1>2. ASSUME NEW u \in Transports, NEW f \in AllFrames, Emitted(u, f)
      PROVE  HasEnd(hub'[t].history)
  <2>1. CASE u = t
    <3>1. hub'[t].history = Append(hub[t].history, f)
      BY <1>0, <1>2, <2>1 DEF Emitted, HubsOK
    <3>2. QED
      BY <1>0, <3>1, HasEndAppend
  <2>2. CASE u # t
    BY <1>0, <1>1, <1>2, <2>2 DEF Emitted, HubsOK
  <2>3. QED
    BY <2>1, <2>2
<1>3. ASSUME NEW a \in Appends, AppendNext(a)
      PROVE  hub' = hub
  BY <1>3 DEF AppendNext, AppendArrives, AppendAsks, MarkUpstream, FindTransport, AnnounceRoute,
              Admit, SendCommand, AppendGivesUp
<1>4. ASSUME NEW u \in Transports, TransportNext(u)
      PROVE  HasEnd(hub'[t].history)
  <2>1. CASE Emit(u)
    BY <1>2, <2>1 DEF Emit, AllFrames
  <2>2. CASE EmitEnd(u)
    BY <1>2, <2>2 DEF EmitEnd, AllFrames
  <2>3. CASE CloseOutput(u)
    BY <1>0, <1>1, <2>3 DEF CloseOutput, HubsOK
  <2>4. CASE ~Emit(u) /\ ~EmitEnd(u) /\ ~CloseOutput(u)
    BY <1>1, <1>4, <2>4 DEF TransportNext, TakeCommand, BeginClose, Drained, ActorLeaves,
                            RemoveTransport
  <2>5. QED
    BY <2>1, <2>2, <2>3, <2>4
<1>5. ASSUME NEW s \in Streams, StreamNext(s)
      PROVE  hub'[t].history = hub[t].history
  <2>1. CASE Subscribe(s)
    BY <1>0, <2>1 DEF Subscribe, HubsOK
  <2>2. CASE PassFrame(s) \/ ClientLeaves(s)
    BY <1>0, <2>2 DEF PassFrame, ClientLeaves, Unsubscribed, HubsOK
  <2>3. CASE ~Subscribe(s) /\ ~PassFrame(s) /\ ~ClientLeaves(s)
    BY <1>5, <2>3 DEF StreamNext, WaitRoute, LookLocal, LookUpstream, StreamFinds,
                      StreamAnnounces, SendDisconnect, ClientGivesUp, Forward, UpstreamEnds,
                      FinishUpstream
  <2>4. QED
    BY <2>1, <2>2, <2>3
<1>6. QED
  BY <1>1, <1>3, <1>4, <1>5 DEF Next

\* An actor closes its output only once it has emitted the end frame.
LEMMA EndsFirstStep ==
    ASSUME Shape, Placed, Unplaced, Bindings, EndsFirst, Next
    PROVE  EndsFirst'
<1> USE RequestsOf
<1>0. TransportsOK(transport) /\ HubsOK(hub) /\ AppendsOK(append)
  BY DEF Shape
<1>1. \A t \in Transports : HasEnd(hub[t].history) => HasEnd(hub'[t].history)
  BY HistoriesGrow
<1>2. ASSUME \A t \in Transports :
                 transport'[t].actor = "closes" => transport[t].actor = "closes"
      PROVE  EndsFirst'
  BY <1>1, <1>2, EndsFirstKept
<1>3. CASE UNCHANGED transport
  BY <1>2, <1>3
<1>4. ASSUME NEW t \in Transports, NEW r, Create(t, r)
      PROVE  EndsFirst'
  BY <1>0, <1>2, <1>4 DEF Create, Created, Unused, TransportsOK, TransportFields
<1>5. ASSUME NEW t \in Transports, transport' = Bound(t)
      PROVE  EndsFirst'
  BY <1>0, <1>2, <1>5 DEF Bound, TransportsOK, TransportFields
<1>6. ASSUME NEW a \in Appends, AppendNext(a)
      PROVE  EndsFirst'
  <2>1. CASE FindTransport(a)
    BY <1>3, <1>4, <2>1 DEF FindTransport
  <2>2. CASE AnnounceRoute(a)
    <3>1. UNCHANGED transport \/ (append[a].transport \in Transports
                                   /\ transport' = Bound(append[a].transport))
      BY <1>0, <2>2 DEF AnnounceRoute, AppendsOK
    <3>2. QED
      BY <1>3, <1>5, <3>1
  <2>3. CASE SendCommand(a)
    <3>1. append[a].transport \in Transports
      BY <2>3 DEF SendCommand, Unplaced
    <3>2. \A t \in Transports : transport'[t].actor = transport[t].actor
      BY <1>0, <2>3, <3>1 DEF SendCommand, TransportsOK, TransportFields
    <3>3. QED
      BY <1>2, <3>2
  <2>4. CASE ~FindTransport(a) /\ ~AnnounceRoute(a) /\ ~SendCommand(a)
    BY <1>3, <1>6, <2>4 DEF AppendNext, AppendArrives, AppendAsks, MarkUpstream, Admit,
                            AppendGivesUp
  <2>5. QED
    BY <2>1, <2>2, <2>3, <2>4
<1>7. ASSUME NEW t \in Transports, TransportNext(t)
      PROVE  EndsFirst'
  <2>1. CASE EmitEnd(t)
    <3>1. /\ hub'[t].history = Append(hub[t].history, EndFrame) /\ EndFrame \in AllFrames
          /\ hub[t].history \in Seq(AllFrames)
      BY <1>0, <2>1 DEF EmitEnd, Emitted, HubsOK, AllFrames
    <3>2. HasEnd(hub'[t].history)
      BY <3>1, HasEndAppend
    <3>3. \A u \in Transports \ {t} : transport'[u] = transport[u]
      BY <1>0, <2>1 DEF EmitEnd, TransportsOK
    <3>4. \A u \in Transports : transport'[u].actor = "closes" => HasEnd(hub'[u].history)
      BY <1>1, <3>2, <3>3 DEF EndsFirst
    <3>5. QED
      BY <3>4 DEF EndsFirst, HasEnd
  <2>2. CASE TakeCommand(t)
    BY <1>0, <1>2, <2>2 DEF TakeCommand, TransportsOK, TransportFields
  <2>3. CASE BeginClose(t) \/ Drained(t) \/ ActorLeaves(t) \/ CloseOutput(t)
    BY <1>0, <1>2, <2>3 DEF BeginClose, Drained, ActorLeaves, CloseOutput, TransportsOK,
                            TransportFields
  <2>4. CASE RemoveTransport(t) \/ Emit(t)
    BY <1>3, <2>4 DEF RemoveTransport, Emit
  <2>5. QED
    BY <1>7, <2>1, <2>2, <2>3, <2>4 DEF TransportNext
<1>8. ASSUME NEW s \in Streams, StreamNext(s)
      PROVE  EndsFirst'
  <2>1. CASE StreamFinds(s)
    BY <1>3, <1>4, <2>1 DEF StreamFinds
  <2>2. CASE StreamAnnounces(s)
    <3>1. stream[s].transport \in Transports /\ transport' = Bound(stream[s].transport)
      BY <2>2 DEF StreamAnnounces, Placed
    <3>2. QED
      BY <1>5, <3>1
  <2>3. CASE SendDisconnect(s)
    <3>1. stream[s].transport \in Transports
      BY <2>3 DEF SendDisconnect, Placed
    <3>2. \A t \in Transports : transport'[t].actor = transport[t].actor
      BY <1>0, <2>3, <3>1 DEF SendDisconnect, TransportsOK, TransportFields
    <3>3. QED
      BY <1>2, <3>2
  <2>4. CASE ~StreamFinds(s) /\ ~StreamAnnounces(s) /\ ~SendDisconnect(s)
    BY <1>3, <1>8, <2>4 DEF StreamNext, WaitRoute, LookLocal, LookUpstream, Subscribe, PassFrame,
                            ClientLeaves, ClientGivesUp, Forward, UpstreamEnds, FinishUpstream
  <2>5. QED
    BY <2>1, <2>2, <2>3, <2>4
<1>9. QED
  BY <1>6, <1>7, <1>8 DEF Next

-----------------------------------------------------------------------------
(* The invariants                                                           *)

IInv ==
    /\ Shape /\ Placed /\ Unplaced
    /\ Bindings /\ Named
    /\ Told
    /\ Reading /\ EndsFirst

\* The first state.
LEMMA IInvInit == Init => IInv
<1> SUFFICES ASSUME Init PROVE IInv
  OBVIOUS
<1> USE RequestsOf DEF Init
<1>1. Shape
  <2>1. RoutesOK
    BY DEF RoutesOK
  <2>2. TransportsOK(transport)
    BY DEF TransportsOK, Unused, TransportFields
  <2>0. <<>> \in Seq(AllFrames)
    OBVIOUS
  <2>3. HubsOK(hub)
    <3>1. \A t \in Transports : hub[t] = [history |-> <<>>, subscribers |-> {}, closed |-> FALSE]
      OBVIOUS
    <3>2. DOMAIN hub = Transports
      OBVIOUS
    <3> HIDE DEF Init
    <3>3. QED
      <4>1. SUFFICES ASSUME NEW t \in Transports
                     PROVE  /\ DOMAIN hub[t] = {"history", "subscribers", "closed"}
                            /\ hub[t].history \in Seq(AllFrames)
                            /\ hub[t].subscribers \subseteq Streams
                            /\ hub[t].closed \in BOOLEAN
        BY <3>2 DEF HubsOK
      <4>2. DOMAIN hub[t] = {"history", "subscribers", "closed"}
        BY <3>1
      <4>3. hub[t].history = <<>> /\ hub[t].subscribers = {} /\ hub[t].closed = FALSE
        BY <3>1
      <4>4. QED
        BY <2>0, <4>2, <4>3
  <2>4. AppendsOK(append)
    BY DEF AppendsOK
  <2>5. StreamsOK(stream)
    <3>1. StreamOK(NewStream)
      BY <2>0 DEF StreamOK, NewStream, StreamFields
    <3>2. QED
      BY <3>1 DEF StreamsOK
  <2>6. QED
    BY <2>1, <2>2, <2>3, <2>4, <2>5 DEF Shape
<1>2. Placed /\ Unplaced
  BY DEF Placed, Unplaced, Outside, NewStream
<1>3. Bindings
  BY DEF Bindings, BindsA, BindsS, Unused, NewStream
<1>4. Named
  BY DEF Named, OpenTransportsAreMapped, Unused
<1>5. Told
  BY DEF Told, SleepersAreTold, NewStream
<1>7. Reading
  BY DEF Reading, NewStream
<1>8. EndsFirst
  BY DEF EndsFirst, Unused
<1>6. QED
  BY <1>1, <1>2, <1>3, <1>4, <1>5, <1>7, <1>8 DEF IInv

\* Every step.
LEMMA IInvStep == IInv /\ [Next]_vars => IInv'
<1> SUFFICES ASSUME IInv, [Next]_vars PROVE IInv'
  OBVIOUS
<1>1. CASE UNCHANGED vars
  <2>1. UNCHANGED <<local, upstream, transport, hub, append, stream>>
    BY <1>1 DEF vars
  <2>2. Shape' /\ Placed' /\ Unplaced'
    BY <2>1 DEF IInv, Shape, RoutesOK, Placed, Unplaced
  <2>3. Bindings' /\ Named'
    BY <2>1 DEF IInv, Bindings, BindsA, BindsS, Named, OpenTransportsAreMapped
  <2>4. Told'
    BY <2>1 DEF IInv, Told, SleepersAreTold, Announcing
  <2>5. Reading' /\ EndsFirst'
    BY <2>1 DEF IInv, Reading, ReadsAll, EndsFirst, HasEnd
  <2>6. QED
    BY <2>2, <2>3, <2>4, <2>5 DEF IInv
<1>2. CASE Next
  <2>1. Shape /\ Placed /\ Unplaced /\ Bindings /\ Named /\ Told /\ Reading
        /\ EndsFirst
    BY DEF IInv
  <2>2. Shape' /\ Bindings' /\ Named'
    <3>1. ASSUME NEW a \in Appends, AppendNext(a)
          PROVE  Shape' /\ Bindings' /\ Named'
      BY <2>1, <3>1, AppendShape, AppendBindings
    <3>2. ASSUME NEW t \in Transports, TransportNext(t)
          PROVE  Shape' /\ Bindings' /\ Named'
      BY <2>1, <3>2, TransportShape, TransportBindings
    <3>3. ASSUME NEW s \in Streams, StreamNext(s)
          PROVE  Shape' /\ Bindings' /\ Named'
      BY <2>1, <3>3, StreamShape, StreamBindings
    <3>4. QED
      BY <1>2, <3>1, <3>2, <3>3 DEF Next
  <2>3. Placed' /\ Unplaced' /\ Told' /\ Reading' /\ EndsFirst'
    BY <1>2, <2>1, PlacedStep, UnplacedStep, ToldStep, ReadingStep, EndsFirstStep
  <2>4. QED
    BY <2>2, <2>3 DEF IInv
<1>3. QED
  BY <1>1, <1>2

\* A RunSSE never sleeps beside its route: whatever the interleaving of its two
\* looks with the handlers that create, mark and remove routes, it has been
\* notified or is about to be.
THEOREM ToldTheorem == Spec => []SleepersAreTold
<1>1. IInv => SleepersAreTold
  BY DEF IInv, Told
<1>2. QED
  BY <1>1, IInvInit, IInvStep, PTL DEF Spec

\* A transport that admits messages is found under its request id, unless it
\* was replaced while it closed and has reopened itself since.
THEOREM MappedTheorem == Spec => []OpenTransportsAreMapped
<1>1. IInv => OpenTransportsAreMapped
  BY DEF IInv, Named
<1>2. QED
  BY <1>1, IInvInit, IInvStep, PTL DEF Spec

-----------------------------------------------------------------------------
(* The output hub is a broadcast                                            *)

LogOf(v) == [t \in Transports |-> v[t].history]

EndedOf(v) == [t \in Transports |-> v[t].closed]

\* The reader that a stream is.
View(q) ==
    IF q.phase \in {"reading", "complete", "left"} \/ (q.phase = "over" /\ q.transport # NoTransport)
      THEN [status |-> CASE q.phase = "reading" -> "reading"
                         [] q.phase = "complete" -> "done"
                         [] OTHER -> "gone",
            channel |-> q.transport, got |-> q.got]
      ELSE [status |-> "idle", channel |-> NoTransport, got |-> <<>>]

ReadersOf(v) == [s \in Streams |-> View(v[s])]

\* The mapping of the refinement, in these words.
LEMMA MappingIs ==
    /\ [t \in Transports |-> hub[t].history] = LogOf(hub)
    /\ [t \in Transports |-> hub[t].closed] = EndedOf(hub)
    /\ [s \in Streams |-> IF IsReader(s) THEN ReaderOf(s)
                          ELSE [status |-> "idle", channel |-> NoTransport, got |-> <<>>]]
          = ReadersOf(stream)
BY DEF LogOf, EndedOf, ReadersOf, View, IsReader, ReaderOf

\* The same of the next state.
LEMMA MappingIsNext ==
    /\ [t \in Transports |-> hub[t].history]' = LogOf(hub')
    /\ [t \in Transports |-> hub[t].closed]' = EndedOf(hub')
    /\ [s \in Streams |-> IF IsReader(s) THEN ReaderOf(s)
                          ELSE [status |-> "idle", channel |-> NoTransport, got |-> <<>>]]'
          = ReadersOf(stream')
BY DEF LogOf, EndedOf, ReadersOf, View, IsReader, ReaderOf

\* A frame that is emitted is written.
LEMMA WriteStep ==
    ASSUME Shape, NEW t \in Transports, ~hub[t].closed, NEW f \in AllFrames, Emitted(t, f)
    PROVE  Output!Next
<1> DEFINE l == LogOf(hub)   m == LogOf(hub')
           e == EndedOf(hub) d == EndedOf(hub')
           v == ReadersOf(stream) w == ReadersOf(stream')
<1>1. hub' = [hub EXCEPT ![t].history = Append(@, f)] /\ HubsOK(hub)
  BY DEF Emitted, Shape
<1>2. m = [l EXCEPT ![t] = Append(@, f)] /\ d = e /\ ~e[t]
  BY <1>1 DEF LogOf, EndedOf, HubsOK
<1>3. \A s \in Streams : View(stream'[s]) = View(stream[s])
  BY SentShape DEF Emitted, View
<1>4. w = v
  BY <1>3 DEF ReadersOf
<1>5. f \in Frames \cup {EndFrame}
  BY DEF AllFrames
<1> HIDE DEF l, m, e, d, v, w
<1>6. Output!Write(t)
  BY <1>2, <1>4, <1>5, MappingIs, MappingIsNext DEF Output!Write, l, m, e, d, v, w
<1>7. QED
  BY <1>6 DEF Output!Next

\* A step that shows the readers nothing.
LEMMA StutterStep ==
    ASSUME UNCHANGED hub, \A s \in Streams : View(stream'[s]) = View(stream[s])
    PROVE  UNCHANGED Output!vars
<1>1. ReadersOf(stream') = ReadersOf(stream)
  BY DEF ReadersOf
<1>2. QED
  BY <1>1, MappingIs, MappingIsNext DEF Output!vars

\* A stream that moves, with the others where they were.
LEMMA ViewMoves ==
    ASSUME StreamsOK(stream), NEW s \in Streams, NEW q, stream' = [stream EXCEPT ![s] = q]
    PROVE  ReadersOf(stream') = [ReadersOf(stream) EXCEPT ![s] = View(q)]
BY DEF ReadersOf, StreamsOK

\* A stream that moves unseen.
LEMMA ViewStays ==
    ASSUME StreamsOK(stream), NEW s \in Streams, NEW q, stream' = [stream EXCEPT ![s] = q],
           View(q) = View(stream[s])
    PROVE  \A u \in Streams : View(stream'[u]) = View(stream[u])
BY DEF StreamsOK

\* The end of an output is the end of its channel.
LEMMA EndStep ==
    ASSUME Shape, Reading, EndsFirst, NEW t \in Transports, CloseOutput(t)
    PROVE  Output!Next
<1> DEFINE l == LogOf(hub)   m == LogOf(hub')
           e == EndedOf(hub) d == EndedOf(hub')
           v == ReadersOf(stream) w == ReadersOf(stream')
<1>1. HubsOK(hub) /\ transport[t].actor = "closes" /\ UNCHANGED stream
      /\ hub' = [hub EXCEPT ![t].closed = TRUE, ![t].subscribers = {}]
  BY DEF Shape, CloseOutput
<1>2. ~hub[t].closed
  BY <1>1 DEF Reading
<1>3. m = l
  BY <1>1 DEF LogOf, HubsOK
<1>4. d = [e EXCEPT ![t] = TRUE] /\ ~e[t]
  BY <1>1, <1>2 DEF EndedOf, HubsOK
<1>5. w = v
  BY <1>1 DEF ReadersOf
<1>8. \E i \in 1 .. Len(l[t]) : l[t][i] = EndFrame
  BY <1>1 DEF EndsFirst, HasEnd, LogOf
<1> HIDE DEF l, m, e, d, v, w
<1>6. Output!End(t)
  BY <1>3, <1>4, <1>5, <1>8, MappingIs, MappingIsNext DEF Output!End, l, m, e, d, v, w
<1>7. QED
  BY <1>6 DEF Output!Next

\* A subscription is a reader that joins.
LEMMA JoinStep ==
    ASSUME Shape, Placed, NEW s \in Streams, Subscribe(s)
    PROVE  Output!Next
<1> DEFINE l == LogOf(hub)   m == LogOf(hub')
           e == EndedOf(hub) d == EndedOf(hub')
           v == ReadersOf(stream) w == ReadersOf(stream')
           t == stream[s].transport
           q == [stream[s] EXCEPT !.phase = "reading", !.queue = Replay(t)]
<1>1. /\ HubsOK(hub) /\ StreamsOK(stream) /\ stream[s].phase = "subscribe"
      /\ t \in Transports /\ stream[s].got = <<>> /\ DOMAIN stream[s] = StreamFields
  BY DEF Shape, Subscribe, Placed, StreamsOK, StreamOK
<1>2. stream' = [stream EXCEPT ![s] = q]
  BY DEF Subscribe
<1>3. m = l /\ d = e
  BY <1>1 DEF Subscribe, LogOf, EndedOf, HubsOK
<1>4. View(q) = [status |-> "reading", channel |-> t, got |-> <<>>]
  BY <1>1 DEF View, StreamFields
<1>5. v[s] = [status |-> "idle", channel |-> NoTransport, got |-> <<>>]
  BY <1>1 DEF ReadersOf, View
<1> HIDE DEF q
<1>6. w = [v EXCEPT ![s] = View(q)]
  BY <1>1, <1>2, ViewMoves
<1> HIDE DEF l, m, e, d, v, w, t
<1>7. w = [v EXCEPT ![s] = [status |-> "reading", channel |-> t, got |-> <<>>]]
  BY <1>4, <1>6
<1>8. Output!Join(s, t)
  BY <1>3, <1>5, <1>7, MappingIs, MappingIsNext
     DEF Output!Join, Output!Idle, l, m, e, d, v, w
<1>9. QED
  BY <1>1, <1>8 DEF Output!Next

\* A frame that is passed on is read.
LEMMA ReadStep ==
    ASSUME Shape, Placed, Reading, NEW s \in Streams, PassFrame(s)
    PROVE  Output!Next
<1> DEFINE l == LogOf(hub)   m == LogOf(hub')
           e == EndedOf(hub) d == EndedOf(hub')
           v == ReadersOf(stream) w == ReadersOf(stream')
           t == stream[s].transport
           f == Head(stream[s].queue)
           g == Append(stream[s].got, f)
           now == [stream[s] EXCEPT !.got = Append(@, f), !.queue = Tail(@)]
           over == [now EXCEPT !.phase = "complete", !.queue = <<>>]
           n == Len(stream[s].got) + 1
<1>1. /\ HubsOK(hub) /\ StreamsOK(stream) /\ stream[s].phase = "reading"
      /\ t \in Transports /\ DOMAIN stream[s] = StreamFields /\ stream[s].queue # <<>>
      /\ stream[s].got \in Seq(AllFrames) /\ stream[s].queue \in Seq(AllFrames)
  BY DEF Shape, PassFrame, Placed, StreamsOK, StreamOK
<1>2. \/ f # EndFrame /\ stream' = [stream EXCEPT ![s] = now]
      \/ f = EndFrame /\ stream' = [stream EXCEPT ![s] = over]
  BY DEF PassFrame
<1>3. m = l /\ d = e
  <2>1. CASE UNCHANGED hub
    BY <2>1
  <2>2. CASE hub' = Unsubscribed(s)
    BY <1>1, <2>2 DEF Unsubscribed, LogOf, EndedOf, HubsOK
  <2>3. QED
    BY <2>1, <2>2 DEF PassFrame
<1>4. stream[s].got \o stream[s].queue = l[t]
  BY <1>1 DEF Reading, ReadsAll, LogOf
<1>5. n <= Len(stream[s].got \o stream[s].queue) /\ (stream[s].got \o stream[s].queue)[n] = f
  BY <1>1, Frames2
<1>6. n <= Len(l[t]) /\ l[t][n] = f
  BY <1>4, <1>5
<1>7. View(now) = [status |-> "reading", channel |-> t, got |-> g]
  BY <1>1 DEF View, StreamFields
<1>8. View(over) = [status |-> "done", channel |-> t, got |-> g]
  BY <1>1 DEF View, StreamFields
<1>9. v[s] = [status |-> "reading", channel |-> t, got |-> stream[s].got]
  BY <1>1 DEF ReadersOf, View
<1> HIDE DEF now, over
<1>10. \/ f # EndFrame /\ w = [v EXCEPT ![s] = View(now)]
       \/ f = EndFrame /\ w = [v EXCEPT ![s] = View(over)]
  BY <1>1, <1>2, ViewMoves
<1> HIDE DEF l, m, e, d, v, w, t, f
<1>11. w = [v EXCEPT ![s] = [status |-> IF f = EndFrame THEN "done" ELSE "reading",
                             channel |-> t, got |-> g]]
  BY <1>7, <1>8, <1>10
<1>12. /\ v[s].channel = t /\ v[s].status = "reading" /\ v[s].got = stream[s].got
  BY <1>9
<1>13. w = [v EXCEPT ![s] = [status |-> IF l[v[s].channel][Len(v[s].got) + 1] = EndFrame
                                          THEN "done" ELSE "reading",
                             channel |-> v[s].channel,
                             got |-> Append(v[s].got, l[v[s].channel][Len(v[s].got) + 1])]]
  BY <1>6, <1>11, <1>12
<1>14. Output!Read(s)
  BY <1>3, <1>6, <1>12, <1>13, MappingIs, MappingIsNext DEF Output!Read, l, m, e, d, v, w
<1>15. QED
  BY <1>14 DEF Output!Next

\* A client that goes away.
LEMMA LeaveStep ==
    ASSUME Shape, Placed, NEW s \in Streams, ClientLeaves(s)
    PROVE  Output!Next
<1> DEFINE l == LogOf(hub)   m == LogOf(hub')
           e == EndedOf(hub) d == EndedOf(hub')
           v == ReadersOf(stream) w == ReadersOf(stream')
           t == stream[s].transport
<1>0. PICK phase \in {"left", "over"} :
         stream' = [stream EXCEPT ![s].phase = phase, ![s].queue = <<>>]
  BY DEF ClientLeaves
<1> DEFINE q == [stream[s] EXCEPT !.phase = phase, !.queue = <<>>]
<1>1. /\ StreamsOK(stream) /\ HubsOK(hub) /\ stream[s].phase = "reading" /\ t \in Transports
      /\ DOMAIN stream[s] = StreamFields
  BY DEF Shape, ClientLeaves, Placed, StreamsOK, StreamOK
<1>2. stream' = [stream EXCEPT ![s] = q]
  BY <1>0
<1>3. m = l /\ d = e
  BY <1>1 DEF ClientLeaves, Unsubscribed, LogOf, EndedOf, HubsOK
<1>4. View(q) = [status |-> "gone", channel |-> t, got |-> stream[s].got]
  BY <1>1, NamesAssumption DEF View, StreamFields
<1>5. v[s] = [status |-> "reading", channel |-> t, got |-> stream[s].got]
  BY <1>1 DEF ReadersOf, View
<1> HIDE DEF q
<1>6. w = [v EXCEPT ![s] = View(q)]
  BY <1>1, <1>2, ViewMoves
<1> HIDE DEF l, m, e, d, v, w, t
<1>7. v[s].channel = t /\ v[s].status = "reading" /\ v[s].got = stream[s].got
  BY <1>5
<1>8. w = [v EXCEPT ![s] = [status |-> "gone", channel |-> v[s].channel, got |-> v[s].got]]
  BY <1>4, <1>6, <1>7
<1>9. Output!Leave(s)
  BY <1>3, <1>7, <1>8, MappingIs, MappingIsNext DEF Output!Leave, l, m, e, d, v, w
<1>10. QED
  BY <1>9 DEF Output!Next

\* Before it reads, a stream is no reader.
LEMMA OutsideViews ==
    ASSUME NEW q, q.transport = NoTransport \/ q.phase # "over",
           q.phase \notin {"reading", "complete", "left"}
    PROVE  View(q) = [status |-> "idle", channel |-> NoTransport, got |-> <<>>]
BY DEF View

\* Every step writes, ends, joins, reads or leaves, or is not seen.
LEMMA OutputStep ==
    ASSUME IInv, [Next]_vars
    PROVE  Output!Next \/ UNCHANGED Output!vars
<1>0. /\ Shape /\ Placed /\ Reading /\ EndsFirst
      /\ StreamsOK(stream) /\ \A u \in Streams : DOMAIN stream[u] = StreamFields
      /\ NoTransport \notin Transports
  BY NamesAssumption DEF IInv, Shape, StreamsOK, StreamOK
<1>1. CASE UNCHANGED vars
  <2>1. UNCHANGED <<hub, stream>>
    BY <1>1 DEF vars
  <2>2. QED
    BY <2>1, StutterStep
<1>2. ASSUME NEW a \in Appends, AppendNext(a)
      PROVE  UNCHANGED Output!vars
  <2>1. UNCHANGED hub
    BY <1>2 DEF AppendNext, AppendArrives, AppendAsks, MarkUpstream, FindTransport, AnnounceRoute,
                Admit, SendCommand, AppendGivesUp
  <2>2. CASE AnnounceRoute(a)
    <3>1. \A s \in Streams : View(stream'[s]) = View(stream[s])
      BY <1>0, <2>2, NotifyShape DEF AnnounceRoute, View
    <3>2. QED
      BY <2>1, <3>1, StutterStep
  <2>3. CASE ~AnnounceRoute(a)
    <3>1. UNCHANGED stream
      BY <1>2, <2>3 DEF AppendNext, AppendArrives, AppendAsks, MarkUpstream, FindTransport, Admit,
                        SendCommand, AppendGivesUp
    <3>2. QED
      BY <2>1, <3>1, StutterStep
  <2>4. QED
    BY <2>2, <2>3
<1>3. ASSUME NEW t \in Transports, TransportNext(t)
      PROVE  Output!Next \/ UNCHANGED Output!vars
  <2>1. CASE Emit(t)
    <3>1. PICK f \in AllFrames : Emitted(t, f)
      BY <2>1 DEF Emit, AllFrames
    <3>2. ~hub[t].closed
      BY <2>1 DEF Emit
    <3>3. QED
      BY <1>0, <3>1, <3>2, WriteStep
  <2>2. CASE EmitEnd(t)
    <3>1. transport[t].actor = "ends" /\ Emitted(t, EndFrame) /\ EndFrame \in AllFrames
      BY <2>2 DEF EmitEnd, AllFrames
    <3>2. ~hub[t].closed
      BY <1>0, <3>1 DEF Reading
    <3>3. QED
      BY <1>0, <3>1, <3>2, WriteStep
  <2>3. CASE CloseOutput(t)
    BY <1>0, <2>3, EndStep
  <2>4. CASE ~Emit(t) /\ ~EmitEnd(t) /\ ~CloseOutput(t)
    <3>1. UNCHANGED <<hub, stream>>
      BY <1>3, <2>4 DEF TransportNext, TakeCommand, BeginClose, Drained, ActorLeaves,
                        RemoveTransport
    <3>2. QED
      BY <3>1, StutterStep
  <2>5. QED
    BY <2>1, <2>2, <2>3, <2>4
<1>4. ASSUME NEW s \in Streams, StreamNext(s)
      PROVE  Output!Next \/ UNCHANGED Output!vars
  <2>1. CASE Subscribe(s)
    BY <1>0, <2>1, JoinStep
  <2>2. CASE PassFrame(s)
    BY <1>0, <2>2, ReadStep
  <2>3. CASE ClientLeaves(s)
    BY <1>0, <2>3, LeaveStep
  <2>4. CASE StreamAnnounces(s)
    <3>1. stream' = [NotifyWaiters EXCEPT ![s].phase = "subscribe"] /\ stream[s].phase = "announce"
          /\ UNCHANGED hub
      BY <2>4 DEF StreamAnnounces
    <3>2. View(stream'[s]) = View(stream[s])
      BY <1>0, <3>1, NotifyShape DEF View, StreamFields
    <3>3. \A u \in Streams \ {s} : View(stream'[u]) = View(stream[u])
      BY <1>0, <3>1, NotifyShape DEF View, StreamFields
    <3>4. QED
      BY <3>1, <3>2, <3>3, StutterStep
  <2>5. CASE SendDisconnect(s)
    <3> DEFINE q == [stream[s] EXCEPT !.phase = "over"]
    <3>1. stream[s].transport # NoTransport /\ stream[s].phase = "left"
      BY <1>0, <2>5 DEF SendDisconnect, Placed
    <3>2. View(q) = View(stream[s])
      BY <1>0, <3>1 DEF View, StreamFields
    <3>3. stream' = [stream EXCEPT ![s] = q] /\ UNCHANGED hub
      BY <2>5 DEF SendDisconnect
    <3> HIDE DEF q
    <3>4. QED
      BY <1>0, <3>2, <3>3, ViewStays, StutterStep
  <2>6. CASE StreamFinds(s)
    <3>1. PICK t \in Transports, phase \in {"subscribe", "announce"} :
             stream' = [stream EXCEPT ![s].phase = phase, ![s].transport = t]
      BY <1>0, <2>6, RequestsOf DEF StreamFinds, Usable, Shape, RoutesOK
    <3> DEFINE q == [stream[s] EXCEPT !.phase = phase, !.transport = t]
    <3>2. q.phase \in {"subscribe", "announce"} /\ stream[s].phase = "find" /\ UNCHANGED hub
      BY <1>0, <2>6 DEF StreamFinds, StreamFields
    <3>3. stream' = [stream EXCEPT ![s] = q]
      BY <3>1
    <3> HIDE DEF q
    <3>4. View(q) = View(stream[s])
      BY <3>2, OutsideViews
    <3>5. QED
      BY <1>0, <3>2, <3>3, <3>4, ViewStays, StutterStep
  <2>7. CASE WaitRoute(s) \/ ClientGivesUp(s) \/ UpstreamEnds(s) \/ LookLocal(s) \/ LookUpstream(s)
             \/ Forward(s) \/ FinishUpstream(s)
    <3>1. stream[s].phase \in Outside /\ UNCHANGED hub
      BY <2>7 DEF WaitRoute, ClientGivesUp, UpstreamEnds, LookLocal, LookUpstream, Forward,
                  FinishUpstream, Outside
    <3>2. stream[s].transport = NoTransport
      BY <1>0, <3>1 DEF Placed
    <3>3. PICK q : /\ stream' = [stream EXCEPT ![s] = q] /\ q.transport = NoTransport
                   /\ q.phase \notin {"reading", "complete", "left"}
      <4>1. PICK phase \in {"local?", "over", "finish", "find", "upstream?", "forward", "sleep",
                            "upstream"} :
               \/ stream' = [stream EXCEPT ![s].phase = phase]
               \/ stream' = [stream EXCEPT ![s].phase = phase, ![s].notified = FALSE]
               \/ stream' = [stream EXCEPT ![s].phase = phase,
                                           ![s].generation = upstream[RequestOf[s]]]
        BY <2>7 DEF WaitRoute, ClientGivesUp, UpstreamEnds, LookLocal, LookUpstream, Forward,
                    FinishUpstream
      <4>2. CASE stream' = [stream EXCEPT ![s].phase = phase]
        <5>1. WITNESS [stream[s] EXCEPT !.phase = phase]
        <5>2. QED
          BY <1>0, <3>2, <4>2 DEF StreamFields
      <4>3. CASE stream' = [stream EXCEPT ![s].phase = phase, ![s].notified = FALSE]
        <5>1. WITNESS [stream[s] EXCEPT !.phase = phase, !.notified = FALSE]
        <5>2. QED
          BY <1>0, <3>2, <4>3 DEF StreamFields
      <4>4. CASE stream' = [stream EXCEPT ![s].phase = phase,
                                          ![s].generation = upstream[RequestOf[s]]]
        <5>1. WITNESS [stream[s] EXCEPT !.phase = phase, !.generation = upstream[RequestOf[s]]]
        <5>2. QED
          BY <1>0, <3>2, <4>4 DEF StreamFields
      <4>5. QED
        BY <4>1, <4>2, <4>3, <4>4
    <3>4. stream[s].phase \notin {"reading", "complete", "left"}
      BY <3>1 DEF Outside
    <3>5. View(q) = View(stream[s])
      BY <3>2, <3>3, <3>4, OutsideViews
    <3>6. QED
      BY <1>0, <3>1, <3>3, <3>5, ViewStays, StutterStep
  <2>8. QED
    BY <1>4, <2>1, <2>2, <2>3, <2>4, <2>5, <2>6, <2>7 DEF StreamNext
<1>5. QED
  BY <1>1, <1>2, <1>3, <1>4 DEF Next

\* Nothing is written and nobody reads at first.
LEMMA OutputInit == Init => Output!Init
<1> SUFFICES ASSUME Init PROVE Output!Init
  OBVIOUS
<1>1. \A s \in Streams : ~IsReader(s)
  BY DEF Init, NewStream, IsReader
<1>2. QED
  BY <1>1 DEF Init, Output!Init, Output!Idle

\* The output hub is what Broadcast says: a stream shows the frames of its
\* transport in order from the first one, whenever it subscribed, and ends by
\* itself only after an end frame, which no output closes without.
THEOREM HubBroadcasts == Spec => StreamsReadAll
<1>1. Init => Output!Init
  BY OutputInit
<1>2. IInv /\ [Next]_vars => [Output!Next]_Output!vars
  BY OutputStep
<1>3. QED
  BY <1>1, <1>2, IInvInit, IInvStep, PTL DEF Spec, StreamsReadAll, Output!Spec

=============================================================================
