------------------------ MODULE ChatRequests_proofs ------------------------
(***************************************************************************)
(* Proofs about ChatRequests, for every set of requests and targets, every  *)
(* limit and every way in which targets fail: the gate is the fair limit    *)
(* FairPlaces specifies, and places are held by connections and by nothing  *)
(* else.                                                                    *)
(*                                                                          *)
(* The gate alone is not enough.  Its closures are called more than once    *)
(* and its callers come again, so what has to be shown is that a request    *)
(* never asks for a place under a name that still has one: this is what the *)
(* invariant says of each request (Accounted).                              *)
(***************************************************************************)
EXTENDS ChatRequests, TLAPS, FiniteSetTheorems, SequenceTheorems

-----------------------------------------------------------------------------
(* The gate                                                                 *)

\* Who is at a bucket, inside or waiting.
Inside(b, c) == c \in b.open
Waiting(b, c) == \E i \in 1 .. Len(b.wait) : b.wait[i] = c
At(b, c) == Inside(b, c) \/ Waiting(b, c)

BucketOK(b) ==
    /\ DOMAIN b = {"active", "wait", "open"}
    /\ b.wait \in Seq(Callers)
    /\ b.open \subseteq Callers
    /\ IsFiniteSet(b.open)
    /\ b.active = Cardinality(b.open)
    /\ b.active <= Places
    /\ b.wait # <<>> => b.active = Places
    /\ \A i \in 1 .. Len(b.wait) : ~ Inside(b, b.wait[i])
    /\ \A i, j \in 1 .. Len(b.wait) : b.wait[i] = b.wait[j] => i = j

GateOK(g) ==
    /\ g = [k \in Targets |-> g[k]]
    /\ \A k \in Targets : BucketOK(g[k])

\* What Acquired does to its bucket.
Enter(b, c) ==
    IF b.active >= Places
      THEN [b EXCEPT !.wait = Append(@, c)]
      ELSE [b EXCEPT !.active = @ + 1, !.open = @ \cup {c}]

\* The room of a bucket in the abstract specification.
Room(b) == [inside |-> b.open, queue |-> b.wait]

\* FairPlaces counts as this module does.
LEMMA SameCardinality == \A S : FairPlacesOfGate!Cardinality(S) = Cardinality(S)
BY DEF Cardinality, FairPlacesOfGate!Cardinality

\* A caller that is not there yet comes to a bucket.
LEMMA EnterBucket ==
    ASSUME NEW b, BucketOK(b), NEW c \in Callers, ~ At(b, c)
    PROVE  /\ BucketOK(Enter(b, c))
           /\ \A e \in Callers : At(Enter(b, c), e) => At(b, e) \/ e = c
           /\ At(Enter(b, c), c)
           /\ b.open \subseteq Enter(b, c).open
           /\ Room(Enter(b, c)) = FairPlacesOfGate!AfterComing(Room(b), c)
<1> DEFINE d == Enter(b, c)
<1>1. /\ DOMAIN b = {"active", "wait", "open"}
      /\ b.wait \in Seq(Callers) /\ b.open \subseteq Callers /\ IsFiniteSet(b.open)
      /\ b.active = Cardinality(b.open) /\ b.active \in Nat
      /\ Places \in Nat /\ b.active <= Places
  BY LimitsAssumption, FS_CardinalityType DEF BucketOK
<1>2. CASE b.active >= Places
  <2>1. /\ DOMAIN d = {"active", "wait", "open"}
        /\ d.active = b.active /\ d.open = b.open /\ d.wait = Append(b.wait, c)
    BY <1>1, <1>2 DEF Enter
  <2> HIDE DEF d
  <2>2. /\ Len(d.wait) = Len(b.wait) + 1
        /\ d.wait[Len(b.wait) + 1] = c
        /\ \A i \in 1 .. Len(b.wait) : d.wait[i] = b.wait[i]
        /\ d.wait \in Seq(Callers)
    BY <1>1, <2>1
  <2>3. Len(b.wait) \in Nat
    BY <1>1
  <2>4. BucketOK(d)
    BY <1>1, <1>2, <2>1, <2>2, <2>3 DEF BucketOK, At, Inside, Waiting
  <2>5. \A e \in Callers : At(d, e) => At(b, e) \/ e = c
    BY <2>1, <2>2, <2>3 DEF At, Inside, Waiting
  <2>6. At(d, c)
    BY <2>2, <2>3 DEF At, Waiting
  <2>7. Room(d) = FairPlacesOfGate!AfterComing(Room(b), c)
    BY <1>1, <1>2, <2>1, SameCardinality DEF FairPlacesOfGate!AfterComing, Room
  <2>8. QED
    BY <2>1, <2>4, <2>5, <2>6, <2>7 DEF d
<1>3. CASE b.active < Places
  <2>1. /\ DOMAIN d = {"active", "wait", "open"}
        /\ d.active = b.active + 1 /\ d.open = b.open \cup {c} /\ d.wait = b.wait
    BY <1>1, <1>3 DEF Enter
  <2> HIDE DEF d
  <2>2. b.wait = <<>>
    BY <1>1, <1>3 DEF BucketOK
  <2>3. IsFiniteSet(d.open) /\ Cardinality(d.open) = Cardinality(b.open) + 1
    BY <1>1, <2>1, FS_AddElement DEF At, Inside
  <2>4. Len(d.wait) = 0
    BY <2>1, <2>2
  <2>5. BucketOK(d)
    BY <1>1, <1>3, <2>1, <2>2, <2>3, <2>4 DEF BucketOK
  <2>6. Room(d) = FairPlacesOfGate!AfterComing(Room(b), c)
    BY <1>1, <1>3, <2>1, SameCardinality DEF FairPlacesOfGate!AfterComing, Room
  <2>7. \A e \in Callers : At(d, e) => At(b, e) \/ e = c
    BY <2>1 DEF At, Inside, Waiting
  <2>8. At(d, c) /\ b.open \subseteq d.open
    BY <2>1 DEF At, Inside
  <2>9. QED
    BY <2>5, <2>6, <2>7, <2>8 DEF d
<1>4. QED
  BY <1>1, <1>2, <1>3

\* What Freed does to its bucket when the caller is inside.
Exit(b, c) ==
    IF b.wait = <<>>
      THEN [active |-> OneLess(b.active), wait |-> <<>>, open |-> b.open \ {c}]
      ELSE [active |-> OneLess(b.active) + 1, wait |-> Tail(b.wait),
            open |-> (b.open \ {c}) \cup {Head(b.wait)}]

\* A caller inside a bucket goes.
LEMMA ExitBucket ==
    ASSUME NEW b, BucketOK(b), NEW c \in Callers, Inside(b, c)
    PROVE  /\ BucketOK(Exit(b, c))
           /\ \A e \in Callers : At(Exit(b, c), e) => At(b, e) /\ e # c
           /\ b.open \ {c} \subseteq Exit(b, c).open
           /\ Room(Exit(b, c)) = FairPlacesOfGate!AfterGoing(Room(b), c)
<1> DEFINE d == Exit(b, c)
<1>1. /\ b.wait \in Seq(Callers) /\ b.open \subseteq Callers /\ IsFiniteSet(b.open)
      /\ b.active = Cardinality(b.open) /\ b.active \in Nat
      /\ Places \in Nat /\ b.active <= Places
      /\ c \in b.open
  BY LimitsAssumption, FS_CardinalityType DEF BucketOK, Inside
<1>2. /\ IsFiniteSet(b.open \ {c})
      /\ Cardinality(b.open \ {c}) = b.active - 1
      /\ OneLess(b.active) = b.active - 1
      /\ b.active > 0
  BY <1>1, FS_RemoveElement, FS_EmptySet, FS_CardinalityType DEF OneLess
<1>3. CASE b.wait = <<>>
  <2>1. /\ DOMAIN d = {"active", "wait", "open"}
        /\ d.active = b.active - 1 /\ d.open = b.open \ {c} /\ d.wait = b.wait
    BY <1>2, <1>3 DEF Exit
  <2> HIDE DEF d
  <2>2. Len(d.wait) = 0 /\ Len(b.wait) = 0
    BY <1>3, <2>1
  <2>3. BucketOK(d)
    BY <1>1, <1>2, <1>3, <2>1, <2>2 DEF BucketOK
  <2>4. \A e \in Callers : At(d, e) => At(b, e) /\ e # c
    BY <2>1, <2>2 DEF At, Inside, Waiting
  <2>5. b.open \ {c} \subseteq d.open
    BY <2>1
  <2>6. Room(d) = FairPlacesOfGate!AfterGoing(Room(b), c)
    BY <1>3, <2>1 DEF FairPlacesOfGate!AfterGoing, Room
  <2>7. QED
    BY <2>3, <2>4, <2>5, <2>6 DEF d
<1>4. CASE b.wait # <<>>
  <2>1. /\ DOMAIN d = {"active", "wait", "open"}
        /\ d.active = b.active /\ d.wait = Tail(b.wait)
        /\ d.open = (b.open \ {c}) \cup {Head(b.wait)}
    BY <1>1, <1>2, <1>4 DEF Exit
  <2> HIDE DEF d
  <2>2. /\ Len(d.wait) = Len(b.wait) - 1 /\ Len(b.wait) \in Nat /\ Len(b.wait) > 0
        /\ \A i \in 1 .. Len(d.wait) : d.wait[i] = b.wait[i + 1]
        /\ d.wait \in Seq(Callers)
        /\ Head(b.wait) = b.wait[1] /\ Head(b.wait) \in Callers
    BY <1>1, <1>4, <2>1
  <2>3. /\ \A i \in 1 .. Len(b.wait) : b.wait[i] \notin b.open
        /\ \A i, j \in 1 .. Len(b.wait) : b.wait[i] = b.wait[j] => i = j
        /\ b.active = Places
    BY <1>4 DEF BucketOK, Inside
  <2>4. IsFiniteSet(d.open) /\ Cardinality(d.open) = b.active
    <3>1. Head(b.wait) \notin b.open
      BY <1>1, <2>2, <2>3
    <3>2. /\ IsFiniteSet((b.open \ {c}) \cup {Head(b.wait)})
          /\ Cardinality((b.open \ {c}) \cup {Head(b.wait)}) = Cardinality(b.open \ {c}) + 1
      BY <1>2, <3>1, FS_AddElement
    <3>3. QED
      BY <1>1, <1>2, <2>1, <3>2
  <2>5. /\ \A i \in 1 .. Len(d.wait) : d.wait[i] \notin d.open
        /\ \A i, j \in 1 .. Len(d.wait) : d.wait[i] = d.wait[j] => i = j
    BY <2>1, <2>2, <2>3
  <2>6. BucketOK(d)
    BY <1>1, <2>1, <2>2, <2>3, <2>4, <2>5 DEF BucketOK, Inside
  <2>7. \A e \in Callers : At(d, e) => At(b, e) /\ e # c
    BY <1>1, <2>1, <2>2, <2>3 DEF At, Inside, Waiting
  <2>8. b.open \ {c} \subseteq d.open
    BY <2>1
  <2>9. Room(d) = FairPlacesOfGate!AfterGoing(Room(b), c)
    BY <1>4, <2>1 DEF FairPlacesOfGate!AfterGoing, Room
  <2>10. QED
    BY <2>6, <2>7, <2>8, <2>9 DEF d
<1>5. QED
  BY <1>3, <1>4

\* A gate after a caller who was not there has come to one of its buckets.
LEMMA AcquiredGate ==
    ASSUME NEW g, GateOK(g), NEW k \in Targets, NEW c \in Callers, ~ At(g[k], c)
    PROVE  /\ Acquired(g, k, c) = [j \in Targets |-> IF j = k THEN Enter(g[k], c) ELSE g[j]]
           /\ GateOK(Acquired(g, k, c))
<1>1. /\ g = [j \in Targets |-> g[j]]
      /\ \A j \in Targets : BucketOK(g[j])
  BY DEF GateOK
<1>2. Acquired(g, k, c) = [j \in Targets |-> IF j = k THEN Enter(g[k], c) ELSE g[j]]
  <2>1. CASE g[k].active >= Places
    BY <1>1, <2>1 DEF Acquired, Enter
  <2>2. CASE ~ (g[k].active >= Places)
    BY <1>1, <2>2 DEF Acquired, Enter
  <2>3. QED
    BY <2>1, <2>2
<1>3. BucketOK(Enter(g[k], c))
  BY <1>1, EnterBucket
<1>4. QED
  BY <1>1, <1>2, <1>3 DEF GateOK

\* A gate after the closure of a caller has been called: as before if the
\* caller is not inside.
LEMMA FreedGate ==
    ASSUME NEW g, GateOK(g), NEW k \in Targets, NEW c \in Callers
    PROVE  /\ Inside(g[k], c) =>
                  Freed(g, k, c) = [j \in Targets |-> IF j = k THEN Exit(g[k], c) ELSE g[j]]
           /\ ~ Inside(g[k], c) => Freed(g, k, c) = g
           /\ GateOK(Freed(g, k, c))
<1>1. /\ g = [j \in Targets |-> g[j]]
      /\ \A j \in Targets : BucketOK(g[j])
      /\ DOMAIN g[k] = {"active", "wait", "open"}
  BY DEF GateOK, BucketOK
<1>2. ASSUME Inside(g[k], c)
      PROVE  Freed(g, k, c) = [j \in Targets |-> IF j = k THEN Exit(g[k], c) ELSE g[j]]
  <2> DEFINE h == [g EXCEPT ![k].open = @ \ {c}]
             u == Released(h, k)
  <2>1. Freed(g, k, c) = u
    BY <1>2 DEF Freed, Inside
  <2>2. /\ h = [j \in Targets |-> h[j]]
        /\ \A j \in Targets \ {k} : h[j] = g[j]
        /\ h[k] = [g[k] EXCEPT !.open = @ \ {c}]
    BY <1>1
  <2>3. /\ DOMAIN h[k] = {"active", "wait", "open"}
        /\ h[k].active = g[k].active /\ h[k].wait = g[k].wait /\ h[k].open = g[k].open \ {c}
    BY <1>1, <2>2
  <2> HIDE DEF h
  <2>4. /\ u = [j \in Targets |-> u[j]]
        /\ \A j \in Targets \ {k} : u[j] = g[j]
    BY <2>2 DEF Released
  <2>5. u[k] = Exit(g[k], c)
    BY <2>2, <2>3 DEF Released, Exit
  <2> HIDE DEF u
  <2>6. QED
    BY <2>1, <2>4, <2>5
<1>3. ASSUME ~ Inside(g[k], c)
      PROVE  Freed(g, k, c) = g
  BY <1>3 DEF Freed, Inside
<1>4. Inside(g[k], c) => BucketOK(Exit(g[k], c))
  BY <1>1, ExitBucket
<1>5. GateOK(Freed(g, k, c))
  BY <1>1, <1>2, <1>3, <1>4 DEF GateOK
<1>6. QED
  BY <1>2, <1>3, <1>5

-----------------------------------------------------------------------------
(* What holds of one request                                                *)

Fields == {"phase", "route", "idx", "key", "failed", "retries", "spare", "turn", "dead",
           "late", "timers", "headers", "ended", "client", "seen"}

Shape(r, q) ==
    /\ DOMAIN q = Fields
    /\ q.turn \in {0, 1}
    /\ q.route \subseteq 1 .. Len(Slot[r])
    /\ q.idx \in 0 .. Len(Slot[r])
    /\ q.late \subseteq Targets \X {0, 1}

\* k is one of the first i targets of r.
Tried(r, k, i) == \E j \in 1 .. i : Slot[r][j] = k

\* Places that r holds or waits for are lost ones, of targets it has passed.
OnlyLost(r, g, i) ==
    \A k \in Targets, n \in {0, 1} :
        At(g[k], <<r, n>>) => k \in Unsendable /\ Tried(r, k, i)

\* r has tried some targets and has yet to go on to the next one.
Between(r, q, g) ==
    /\ Shape(r, q)
    /\ OnlyLost(r, g, q.idx)
    /\ \A call \in q.late : Tried(r, call[1], q.idx)

AtTarget(r, q) == q.idx # 0 /\ q.key = Slot[r][q.idx]

\* r has a target and may call it: a call that has still to report its close
\* was the last one.
Ready(r, q, g) ==
    /\ Shape(r, q)
    /\ AtTarget(r, q)
    /\ OnlyLost(r, g, q.idx - 1)
    /\ \A call \in q.late : Tried(r, call[1], q.idx) /\ (call[1] = q.key => call[2] = q.turn)

\* r has called its target: a call that has still to report its close is not
\* this one.
Calling(r, q, g) ==
    /\ Shape(r, q)
    /\ AtTarget(r, q)
    /\ \A k \in Targets, n \in {0, 1} :
           At(g[k], <<r, n>>) =>
               \/ k = q.key /\ n = q.turn
               \/ k \in Unsendable /\ Tried(r, k, q.idx - 1)
    /\ \A call \in q.late : Tried(r, call[1], q.idx) /\ (call[1] = q.key => call[2] # q.turn)
    /\ q.phase \in {"sent", "errbody", "stream"} => Inside(g[q.key], <<r, q.turn>>)

\* r asks for no place any more.
Done(r, q, g) ==
    /\ Shape(r, q)
    /\ \A k \in Targets, n \in {0, 1} : At(g[k], <<r, n>>) => k \in Unsendable

NoRetryTimer(q) == "retry" \notin q.timers

\* The inductive invariant of a request.
Accounted(r, q, g) ==
    /\ q.phase \in Phases
    /\ q.phase # "delay" => NoRetryTimer(q)
    /\ q.phase = "new" => Between(r, q, g)
    /\ q.phase \in {"vision", "delay"} => Ready(r, q, g)
    /\ q.phase \in {"waiting", "sent", "errbody", "stream"} => Calling(r, q, g)
    /\ q.phase \in {"stranded", "over"} => Done(r, q, g)

\* Where the targets of a request are.
LEMMA SlotFacts ==
    ASSUME NEW r \in Requests
    PROVE  /\ Len(Slot[r]) \in Nat /\ Len(Slot[r]) > 0
           /\ \A i \in 1 .. Len(Slot[r]) : Slot[r][i] \in Targets
           /\ \A i, j \in 1 .. Len(Slot[r]) : Slot[r][i] = Slot[r][j] => i = j
BY SlotAssumption

\* Whoever is between targets or ready is done, once it stops.
LEMMA ThenDone ==
    ASSUME NEW r, NEW q, NEW g, Between(r, q, g) \/ Ready(r, q, g)
    PROVE  Done(r, q, g)
BY DEF Between, Ready, Done, OnlyLost

\* A request is as well accounted for in a gate where its places are the same.
LEMMA Frame ==
    ASSUME NEW r, NEW q, NEW g, NEW h, Accounted(r, q, g),
           Slot[r] \in Seq(Targets),
           \A k \in Targets, n \in {0, 1} :
               /\ At(h[k], <<r, n>>) => At(g[k], <<r, n>>)
               /\ Inside(g[k], <<r, n>>) => Inside(h[k], <<r, n>>)
    PROVE  Accounted(r, q, h)
<1>1. CASE q.phase = "new"
  BY <1>1 DEF Accounted, Between, OnlyLost
<1>2. CASE q.phase \in {"vision", "delay"}
  BY <1>2 DEF Accounted, Ready, OnlyLost
<1>3. CASE q.phase \in {"waiting", "sent", "errbody", "stream"}
  <2>1. Calling(r, q, g) /\ q.phase \in Phases /\ NoRetryTimer(q)
    BY <1>3 DEF Accounted
  <2>2. q.key \in Targets /\ q.turn \in {0, 1}
    BY <2>1 DEF Calling, AtTarget, Shape
  <2>3. Calling(r, q, h)
    BY <2>1, <2>2 DEF Calling
  <2>4. QED
    BY <1>3, <2>1, <2>3 DEF Accounted
<1>4. CASE q.phase \in {"stranded", "over"}
  BY <1>4 DEF Accounted, Done
<1>5. QED
  BY <1>1, <1>2, <1>3, <1>4 DEF Accounted, Phases

\* The fields the invariant speaks of.
SameCall(p, q) ==
    /\ DOMAIN p = DOMAIN q
    /\ p.phase = q.phase /\ p.route = q.route /\ p.idx = q.idx /\ p.key = q.key
    /\ p.turn = q.turn /\ p.late = q.late

\* The other fields do not matter to it, except the retry timer.
LEMMA SameAccount ==
    ASSUME NEW r, NEW p, NEW q, NEW g, Accounted(r, q, g), SameCall(p, q),
           q.phase # "delay" => NoRetryTimer(p)
    PROVE  Accounted(r, p, g)
<1>1. Shape(r, q) => Shape(r, p)
  BY DEF SameCall, Shape
<1>2. AtTarget(r, q) => AtTarget(r, p)
  BY DEF SameCall, AtTarget
<1>3. /\ Between(r, q, g) => Between(r, p, g)
      /\ Ready(r, q, g) => Ready(r, p, g)
      /\ Calling(r, q, g) => Calling(r, p, g)
      /\ Done(r, q, g) => Done(r, p, g)
  BY <1>1, <1>2 DEF SameCall, Between, Ready, Calling, Done
<1>4. QED
  BY <1>3 DEF Accounted, SameCall

-----------------------------------------------------------------------------
(* What handlers do                                                         *)

\* The gate is as before, or r has come to one of its buckets, under a name
\* that was not there.
MayEnter(r, g, h) ==
    \/ h = g
    \/ \E k \in Targets, n \in {0, 1} :
           ~ At(g[k], <<r, n>>) /\ h = Acquired(g, k, <<r, n>>)

\* A handler of r that begins with the gate g leaves r accounted for.
Handled(r, g) ==
    /\ \E q : req' = [req EXCEPT ![r] = q] /\ Accounted(r, q, gate')
    /\ MayEnter(r, g, gate')

\* A request that is finished and done stays accounted for.
LEMMA OverIsDone ==
    ASSUME NEW r, NEW q, NEW g, Done(r, q, g), SlotAssumption, r \in Requests
    PROVE  /\ Accounted(r, Over(q), g)
           /\ DOMAIN Over(q) = Fields
           /\ Over(q).phase = "over" /\ Over(q).timers = {}
<1>1. DOMAIN q = Fields /\ q.late \subseteq Targets \X {0, 1}
  BY DEF Done, Shape
<1>2. /\ DOMAIN Over(q) = Fields
      /\ Over(q).phase = "over" /\ Over(q).timers = {} /\ Over(q).idx = 0
      /\ Over(q).route = {} /\ Over(q).turn = 0 /\ Over(q).late = q.late
  BY <1>1 DEF Over, Fields
<1>3. Shape(r, Over(q))
  BY <1>1, <1>2, SlotFacts DEF Shape
<1>4. QED
  BY <1>2, <1>3 DEF Accounted, Done, Phases, NoRetryTimer

\* To leave a request that is done as over is a step of a handler.
LEMMA LeaveOver ==
    ASSUME NEW r \in Requests, NEW q, NEW t, NEW b, NEW g, Done(r, q, g),
           Leave(r, Over(q), t, b, g)
    PROVE  Handled(r, g)
BY SlotAssumption, OverIsDone DEF Leave, Handled, MayEnter

\* sendTerminalError answers or not, and the request is over.
LEMMA SendTerminalErrorHandled ==
    ASSUME NEW r \in Requests, NEW q, NEW t, NEW b, NEW g, Done(r, q, g),
           SendTerminalError(r, q, t, b, g)
    PROVE  Handled(r, g)
<1>1. CASE q.ended
  BY <1>1, LeaveOver DEF SendTerminalError
<1>2. CASE ~ q.ended
  <2> DEFINE o == Over(q)
             p == [o EXCEPT !.headers = TRUE, !.ended = TRUE, !.seen = SeenBy(q, "error")]
  <2>1. /\ Accounted(r, o, g) /\ DOMAIN o = Fields
        /\ o.phase = "over" /\ o.timers = {}
    BY SlotAssumption, OverIsDone
  <2>2. Leave(r, p, Finish(t), BooksAfterFinish(b, t), g)
    BY <1>2 DEF SendTerminalError
  <2> HIDE DEF o
  <2>3. SameCall(p, o) /\ p.timers = {}
    BY <2>1 DEF SameCall, Fields
  <2>4. Accounted(r, p, g)
    BY <2>1, <2>3, SameAccount DEF NoRetryTimer
  <2>5. QED
    BY <2>2, <2>4 DEF Leave, Handled, MayEnter
<1>3. QED
  BY <1>1, <1>2

\* A call of a stream function is always under a name of its own: the last
\* call had another turn, and lost places are those of other targets.
LEMMA CallUpstreamHandled ==
    ASSUME NEW r \in Requests, NEW q, NEW t, NEW b, NEW g, GateOK(g), Ready(r, q, g),
           NoRetryTimer(q), CallUpstream(r, q, t, b, g)
    PROVE  Handled(r, g)
<1> DEFINE p == [q EXCEPT !.phase = "waiting", !.turn = 1 - @, !.dead = FALSE]
           c == <<r, 1 - q.turn>>
           h == Acquired(g, q.key, c)
<1>1. Leave(r, p, t, b, h)
  BY DEF CallUpstream
<1>2. /\ Shape(r, q) /\ AtTarget(r, q) /\ OnlyLost(r, g, q.idx - 1)
      /\ \A call \in q.late : Tried(r, call[1], q.idx) /\ (call[1] = q.key => call[2] = q.turn)
  BY DEF Ready
<1>3. /\ DOMAIN q = Fields /\ q.turn \in {0, 1} /\ 1 - q.turn \in {0, 1}
      /\ q.idx \in 1 .. Len(Slot[r]) /\ q.idx \in Nat /\ q.key = Slot[r][q.idx]
      /\ q.key \in Targets /\ c \in Callers
      /\ 1 - q.turn # q.turn
  BY <1>2, SlotFacts DEF Shape, AtTarget, Callers
<1>4. /\ DOMAIN p = Fields
      /\ p.phase = "waiting" /\ p.turn = 1 - q.turn /\ p.idx = q.idx /\ p.key = q.key
      /\ p.route = q.route /\ p.late = q.late /\ p.timers = q.timers
  BY <1>3 DEF Fields
<1> HIDE DEF p
<1>5. ~ Tried(r, q.key, q.idx - 1)
  BY <1>3, SlotFacts DEF Tried
<1>6. ~ At(g[q.key], c)
  BY <1>2, <1>3, <1>5 DEF OnlyLost
<1>7. /\ h = [k \in Targets |-> IF k = q.key THEN Enter(g[q.key], c) ELSE g[k]]
      /\ \A e \in Callers : At(Enter(g[q.key], c), e) => At(g[q.key], e) \/ e = c
  BY <1>3, <1>6, AcquiredGate, EnterBucket, SMTT(40) DEF GateOK
<1>8. \A k \in Targets, n \in {0, 1} :
          At(h[k], <<r, n>>) => At(g[k], <<r, n>>) \/ (k = q.key /\ n = 1 - q.turn)
  BY <1>3, <1>7 DEF Callers
<1>9. MayEnter(r, g, h)
  BY <1>3, <1>6 DEF MayEnter
<1> HIDE DEF h
<1>10. Shape(r, p) /\ AtTarget(r, p)
  BY <1>2, <1>3, <1>4 DEF Shape, AtTarget
<1>11. \A call \in p.late : Tried(r, call[1], p.idx) /\ (call[1] = p.key => call[2] # p.turn)
  BY <1>2, <1>3, <1>4
<1>12. \A k \in Targets, n \in {0, 1} :
          At(h[k], <<r, n>>) =>
               \/ k = p.key /\ n = p.turn
               \/ k \in Unsendable /\ Tried(r, k, p.idx - 1)
  BY <1>2, <1>4, <1>8 DEF OnlyLost
<1>13. Calling(r, p, h)
  BY <1>4, <1>10, <1>11, <1>12 DEF Calling
<1>14. Accounted(r, p, h)
  BY <1>4, <1>13 DEF Accounted, Phases, NoRetryTimer
<1>15. QED
  BY <1>1, <1>9, <1>14 DEF Leave, Handled

\* Fields the readiness of a request does not depend on.
LEMMA SameReady ==
    ASSUME NEW r, NEW p, NEW q, NEW g, Ready(r, q, g), DOMAIN p = Fields,
           p.route = q.route, p.idx = q.idx, p.key = q.key, p.turn = q.turn, p.late = q.late
    PROVE  Ready(r, p, g)
BY DEF Ready, Shape, AtTarget

\* startTargetRequest asks for a place only where the request has none.
LEMMA StartTargetRequestHandled ==
    ASSUME NEW r \in Requests, NEW q, NEW t, NEW b, NEW g, GateOK(g), Ready(r, q, g),
           NoRetryTimer(q), StartTargetRequest(r, q, t, b, g)
    PROVE  Handled(r, g)
<1>1. DOMAIN q = Fields
  BY DEF Ready, Shape
<1>2. CASE Leave(r, Over(q), t, b, g)
  BY <1>2, ThenDone, LeaveOver
<1>3. ASSUME Leave(r, [q EXCEPT !.phase = "vision", !.spare = Optional[q.key]], t, b, g)
      PROVE  Handled(r, g)
  <2> DEFINE p == [q EXCEPT !.phase = "vision", !.spare = Optional[q.key]]
  <2>1. /\ DOMAIN p = Fields
        /\ p.phase = "vision" /\ p.timers = q.timers /\ p.route = q.route
        /\ p.idx = q.idx /\ p.key = q.key /\ p.turn = q.turn /\ p.late = q.late
    BY <1>1 DEF Fields
  <2>2. Leave(r, p, t, b, g)
    BY <1>3
  <2> HIDE DEF p
  <2>3. Ready(r, p, g)
    BY <2>1, SameReady
  <2>4. Accounted(r, p, g)
    BY <2>1, <2>3 DEF Accounted, Phases, NoRetryTimer
  <2>5. QED
    BY <2>2, <2>4 DEF Leave, Handled, MayEnter
<1>4. ASSUME CallUpstream(r, [q EXCEPT !.spare = Optional[q.key]], t, b, g)
      PROVE  Handled(r, g)
  <2> DEFINE p == [q EXCEPT !.spare = Optional[q.key]]
  <2>1. /\ DOMAIN p = Fields
        /\ p.timers = q.timers /\ p.route = q.route
        /\ p.idx = q.idx /\ p.key = q.key /\ p.turn = q.turn /\ p.late = q.late
    BY <1>1 DEF Fields
  <2>2. CallUpstream(r, p, t, b, g)
    BY <1>4
  <2> HIDE DEF p
  <2>3. Ready(r, p, g) /\ NoRetryTimer(p)
    BY <2>1, SameReady DEF NoRetryTimer
  <2>4. QED
    BY <2>2, <2>3, CallUpstreamHandled
<1>5. QED
  BY <1>2, <1>3, <1>4 DEF StartTargetRequest

\* The next target is one r has never called before.
LEMMA AttemptNextHandled ==
    ASSUME NEW r \in Requests, NEW q, NEW t, NEW b, NEW g, GateOK(g), Between(r, q, g),
           NoRetryTimer(q), AttemptNext(r, q, t, b, g)
    PROVE  Handled(r, g)
<1>1. /\ DOMAIN q = Fields /\ Shape(r, q) /\ OnlyLost(r, g, q.idx)
      /\ \A call \in q.late : Tried(r, call[1], q.idx)
      /\ q.route \subseteq 1 .. Len(Slot[r]) /\ q.idx \in 0 .. Len(Slot[r])
      /\ Done(r, q, g)
  BY ThenDone DEF Between, Shape
<1>2. CASE Leave(r, Over(q), t, b, g)
  BY <1>1, <1>2, LeaveOver
<1>3. ASSUME NEW p \in PastTheLast(r, q), SendTerminalError(r, p, Fail(t), b, g)
      PROVE  Handled(r, g)
  <2>1. /\ DOMAIN p = Fields
        /\ p.turn = q.turn /\ p.route = q.route /\ p.idx = q.idx /\ p.late = q.late
    BY <1>1 DEF PastTheLast, Fields
  <2>2. Done(r, p, g)
    BY <1>1, <2>1 DEF Done, Shape
  <2>3. QED
    BY <1>3, <2>2, SendTerminalErrorHandled
<1>4. ASSUME NEW i \in Resolvable(r, q),
             StartTargetRequest(r,
                 [q EXCEPT !.idx = i, !.key = Slot[r][i], !.failed = FALSE, !.retries = 0],
                 BeginAttempt(t), RecordRequest(b), g)
      PROVE  Handled(r, g)
  <2> DEFINE p == [q EXCEPT !.idx = i, !.key = Slot[r][i], !.failed = FALSE, !.retries = 0]
  <2>1. /\ DOMAIN p = Fields
        /\ p.timers = q.timers /\ p.route = q.route /\ p.turn = q.turn /\ p.late = q.late
        /\ p.idx = i /\ p.key = Slot[r][i]
    BY <1>1 DEF Fields
  <2>2. StartTargetRequest(r, p, BeginAttempt(t), RecordRequest(b), g)
    BY <1>4
  <2> HIDE DEF p
  <2>3. i \in 1 .. Len(Slot[r]) /\ i > q.idx /\ q.idx \in Nat
    BY <1>1, SlotFacts DEF Resolvable, Remaining
  <2>4. \A k : Tried(r, k, q.idx) => Tried(r, k, i) /\ Tried(r, k, i - 1) /\ k # Slot[r][i]
    BY <2>3, SlotFacts DEF Tried
  <2>5. Shape(r, p) /\ AtTarget(r, p)
    BY <1>1, <2>1, <2>3, SlotFacts DEF Shape, AtTarget
  <2>6. OnlyLost(r, g, p.idx - 1)
    BY <1>1, <2>1, <2>4 DEF OnlyLost
  <2>7. \A call \in p.late : Tried(r, call[1], p.idx) /\ (call[1] = p.key => call[2] = p.turn)
    BY <1>1, <2>1, <2>4
  <2>8. Ready(r, p, g) /\ NoRetryTimer(p)
    BY <2>1, <2>5, <2>6, <2>7 DEF Ready, NoRetryTimer
  <2>9. QED
    BY <2>2, <2>8, StartTargetRequestHandled
<1>5. QED
  BY <1>2, <1>3, <1>4 DEF AttemptNext

\* onFailover retries the same target under another turn, goes to the next
\* target, or answers with the error.
LEMMA OnFailoverHandled ==
    ASSUME NEW r \in Requests, NEW q, NEW t, NEW b, NEW g, NEW failure,
           GateOK(g), Ready(r, q, g), NoRetryTimer(q), OnFailover(r, q, t, b, g, failure)
    PROVE  Handled(r, g)
<1>1. DOMAIN q = Fields /\ q.idx \in 1 .. Len(Slot[r]) /\ q.idx \in Nat
  BY SlotFacts DEF Ready, Shape, AtTarget
<1>2. CASE Leave(r, Over(q), t, b, g)
  BY <1>2, ThenDone, LeaveOver
<1>3. ASSUME Leave(r, [q EXCEPT !.phase = "delay", !.retries = @ + 1, !.timers = {"retry"}],
                   t, b, g)
      PROVE  Handled(r, g)
  <2> DEFINE p == [q EXCEPT !.phase = "delay", !.retries = @ + 1, !.timers = {"retry"}]
  <2>1. /\ DOMAIN p = Fields
        /\ p.phase = "delay" /\ p.route = q.route
        /\ p.idx = q.idx /\ p.key = q.key /\ p.turn = q.turn /\ p.late = q.late
    BY <1>1 DEF Fields
  <2>2. Leave(r, p, t, b, g)
    BY <1>3
  <2> HIDE DEF p
  <2>3. Ready(r, p, g)
    BY <2>1, SameReady
  <2>4. Accounted(r, p, g)
    BY <2>1, <2>3 DEF Accounted, Phases
  <2>5. QED
    BY <2>2, <2>4 DEF Leave, Handled, MayEnter
<1>4. ASSUME AttemptNext(r, [q EXCEPT !.failed = TRUE], EndAttempt(t, "failed"), b, g)
      PROVE  Handled(r, g)
  <2> DEFINE p == [q EXCEPT !.failed = TRUE]
  <2>1. /\ DOMAIN p = Fields
        /\ p.timers = q.timers /\ p.route = q.route
        /\ p.idx = q.idx /\ p.key = q.key /\ p.turn = q.turn /\ p.late = q.late
    BY <1>1 DEF Fields
  <2>2. AttemptNext(r, p, EndAttempt(t, "failed"), b, g)
    BY <1>4
  <2> HIDE DEF p
  <2>3. \A k : Tried(r, k, q.idx - 1) => Tried(r, k, q.idx)
    BY <1>1 DEF Tried
  <2>4. Between(r, p, g) /\ NoRetryTimer(p)
    BY <2>1, <2>3 DEF Ready, Between, Shape, OnlyLost, NoRetryTimer
  <2>5. QED
    BY <2>2, <2>4, AttemptNextHandled
<1>5. QED
  BY <1>2, <1>3, <1>4 DEF OnFailover

-----------------------------------------------------------------------------
(* The inductive invariant                                                  *)

Inv ==
    /\ GateOK(gate)
    /\ req = [r \in Requests |-> req[r]]
    /\ \A r \in Requests : Accounted(r, req[r], gate)

\* A step of r: it may give a place back, and then a handler runs.
StepOf(r) ==
    \E g : /\ \/ g = gate
              \/ \E k \in Targets, n \in {0, 1} : g = Freed(gate, k, <<r, n>>)
           /\ Handled(r, g)

\* When one of its callers gives its place back, the places of the other
\* callers stay what they are or get better.
LEMMA FreedMembers ==
    ASSUME NEW g, GateOK(g), NEW k \in Targets, NEW c \in Callers
    PROVE  /\ GateOK(Freed(g, k, c))
           /\ \A j \in Targets, e \in Callers :
                  /\ At(Freed(g, k, c)[j], e) => At(g[j], e) /\ (Inside(g[k], c) => ~ (j = k /\ e = c))
                  /\ Inside(g[j], e) /\ ~ (j = k /\ e = c) => Inside(Freed(g, k, c)[j], e)
<1>1. GateOK(Freed(g, k, c)) /\ BucketOK(g[k])
  BY FreedGate DEF GateOK
<1>2. CASE ~ Inside(g[k], c)
  BY <1>1, <1>2, FreedGate
<1>3. CASE Inside(g[k], c)
  BY <1>1, <1>3, FreedGate, ExitBucket DEF Inside
<1>4. QED
  BY <1>2, <1>3

\* Asking for at most one place makes nobody but r come to a bucket, and
\* turns nobody out.
LEMMA EnteredMembers ==
    ASSUME NEW g, GateOK(g), NEW r \in Requests, NEW h, MayEnter(r, g, h)
    PROVE  /\ GateOK(h)
           /\ \A j \in Targets, e \in Callers :
                  /\ At(h[j], e) => At(g[j], e) \/ e[1] = r
                  /\ Inside(g[j], e) => Inside(h[j], e)
<1>1. CASE h = g
  BY <1>1
<1>2. ASSUME NEW k \in Targets, NEW n \in {0, 1},
             ~ At(g[k], <<r, n>>), h = Acquired(g, k, <<r, n>>)
      PROVE  /\ GateOK(h)
             /\ \A j \in Targets, e \in Callers :
                  /\ At(h[j], e) => At(g[j], e) \/ e[1] = r
                  /\ Inside(g[j], e) => Inside(h[j], e)
  <2>1. <<r, n>> \in Callers /\ BucketOK(g[k])
    BY DEF Callers, GateOK
  <2>2. /\ h = [j \in Targets |-> IF j = k THEN Enter(g[k], <<r, n>>) ELSE g[j]]
        /\ GateOK(h)
    BY <1>2, <2>1, AcquiredGate
  <2>3. /\ \A e \in Callers : At(h[k], e) => At(g[k], e) \/ e = <<r, n>>
        /\ g[k].open \subseteq h[k].open
    BY <1>2, <2>1, <2>2, EnterBucket
  <2>4. \A j \in Targets \ {k} : h[j] = g[j]
    BY <2>2
  <2>5. QED
    BY <2>2, <2>3, <2>4 DEF Inside
<1>3. QED
  BY <1>1, <1>2 DEF MayEnter

\* A step of a handler keeps the invariant.
LEMMA StepKeepsInv ==
    ASSUME Inv, NEW r \in Requests, StepOf(r)
    PROVE  Inv'
<1>1. PICK g : /\ \/ g = gate
                  \/ \E k \in Targets, n \in {0, 1} : g = Freed(gate, k, <<r, n>>)
               /\ Handled(r, g)
  BY DEF StepOf
<1>2. PICK q : req' = [req EXCEPT ![r] = q] /\ Accounted(r, q, gate')
  BY <1>1 DEF Handled
<1>3. MayEnter(r, g, gate')
  BY <1>1 DEF Handled
<1>4. /\ GateOK(g)
      /\ \A j \in Targets, e \in Callers :
             /\ At(g[j], e) => At(gate[j], e)
             /\ Inside(gate[j], e) /\ e[1] # r => Inside(g[j], e)
  <2>1. CASE g = gate
    BY <2>1 DEF Inv
  <2>2. ASSUME NEW k \in Targets, NEW n \in {0, 1}, g = Freed(gate, k, <<r, n>>)
        PROVE  <1>4!1 /\ <1>4!2
    <3>1. <<r, n>> \in Callers /\ <<r, n>>[1] = r
      BY DEF Callers
    <3>2. QED
      BY <2>2, <3>1, FreedMembers DEF Inv
  <2>3. QED
    BY <1>1, <2>1, <2>2
<1>5. /\ GateOK(gate')
      /\ \A j \in Targets, e \in Callers :
             e[1] # r => /\ At(gate'[j], e) => At(gate[j], e)
                         /\ Inside(gate[j], e) => Inside(gate'[j], e)
  BY <1>3, <1>4, EnteredMembers
<1>6. ASSUME NEW s \in Requests
      PROVE  Accounted(s, req'[s], gate')
  <2>1. CASE s = r
    BY <1>2, <2>1 DEF Inv
  <2>2. CASE s # r
    <3>1. req'[s] = req[s] /\ Accounted(s, req[s], gate)
      BY <1>2, <2>2 DEF Inv
    <3>2. \A n \in {0, 1} : <<s, n>> \in Callers /\ <<s, n>>[1] = s
      BY DEF Callers
    <3>3. \A k \in Targets, n \in {0, 1} :
              /\ At(gate'[k], <<s, n>>) => At(gate[k], <<s, n>>)
              /\ Inside(gate[k], <<s, n>>) => Inside(gate'[k], <<s, n>>)
      BY <1>5, <2>2, <3>2
    <3>4. QED
      BY <3>1, <3>3, SlotAssumption, Frame
  <2>3. QED
    BY <2>1, <2>2
<1>7. req' = [s \in Requests |-> req'[s]]
  BY <1>2 DEF Inv
<1>8. QED
  BY <1>5, <1>6, <1>7 DEF Inv

\* The connection of r has ended and its place is given back: r is ready to
\* call again.
LEMMA HungIsReady ==
    ASSUME Inv, NEW r \in Requests, Connected(r)
    PROVE  /\ Ready(r, Hung(r), GateWithout(r))
           /\ NoRetryTimer(Hung(r))
           /\ GateOK(GateWithout(r))
           /\ \E k \in Targets, n \in {0, 1} : GateWithout(r) = Freed(gate, k, <<r, n>>)
<1> DEFINE q == req[r]
           h == Freed(gate, q.key, <<r, q.turn>>)
<1>1. /\ Accounted(r, q, gate) /\ GateOK(gate) /\ Calling(r, q, gate)
      /\ Inside(gate[q.key], <<r, q.turn>>)
  BY DEF Inv, Connected, Accounted, Calling
<1>2. /\ DOMAIN q = Fields /\ Shape(r, q) /\ AtTarget(r, q)
      /\ q.turn \in {0, 1} /\ q.idx \in 1 .. Len(Slot[r]) /\ q.idx \in Nat
      /\ q.key = Slot[r][q.idx] /\ q.key \in Targets
      /\ <<r, q.turn>> \in Callers
  BY <1>1, SlotFacts DEF Calling, Shape, AtTarget, Callers
<1>3. GateWithout(r) = h
  BY DEF GateWithout, Caller
<1>4. /\ DOMAIN Hung(r) = Fields
      /\ Hung(r).timers = {} /\ Hung(r).route = q.route /\ Hung(r).idx = q.idx
      /\ Hung(r).key = q.key /\ Hung(r).turn = q.turn
      /\ Hung(r).late \subseteq {<<q.key, q.turn>>}
  BY <1>2 DEF Hung, Fields
<1> HIDE DEF q
<1>5. /\ GateOK(h)
      /\ \A k \in Targets, n \in {0, 1} :
             At(h[k], <<r, n>>) => At(gate[k], <<r, n>>) /\ ~ (k = q.key /\ n = q.turn)
  <2>1. \A n \in {0, 1} : <<r, n>> \in Callers
    BY DEF Callers
  <2>2. QED
    BY <1>1, <1>2, <2>1, FreedMembers, SMTT(40)
<1> HIDE DEF h
<1>6. OnlyLost(r, h, q.idx - 1)
  BY <1>1, <1>5 DEF Calling, OnlyLost
<1>7. Tried(r, q.key, q.idx)
  BY <1>2 DEF Tried
<1>8. Shape(r, Hung(r)) /\ AtTarget(r, Hung(r))
  BY <1>2, <1>4 DEF Shape, AtTarget
<1>9. \A call \in Hung(r).late :
          Tried(r, call[1], Hung(r).idx) /\ (call[1] = Hung(r).key => call[2] = Hung(r).turn)
  BY <1>4, <1>7
<1>10. Ready(r, Hung(r), h)
  BY <1>4, <1>6, <1>8, <1>9 DEF Ready
<1>11. QED
  BY <1>2, <1>3, <1>4, <1>5, <1>10 DEF NoRetryTimer, h

\* A request that is calling goes on to another phase and keeps its place.
LEMMA GoesOn ==
    ASSUME NEW r \in Requests, NEW p, NEW q, NEW g, Calling(r, q, g),
           Inside(g[q.key], <<r, q.turn>>), DOMAIN p = Fields,
           p.phase \in {"waiting", "sent", "errbody", "stream"}, NoRetryTimer(p),
           p.route = q.route, p.idx = q.idx, p.key = q.key, p.turn = q.turn, p.late = q.late
    PROVE  Accounted(r, p, g)
<1>1. Calling(r, p, g)
  BY DEF Calling, Shape, AtTarget
<1>2. QED
  BY <1>1 DEF Accounted, Phases

\* The request of r changes, its gate does not.
LEMMA RequestChanges ==
    ASSUME NEW r \in Requests, NEW p, req' = [req EXCEPT ![r] = p], gate' = gate,
           Accounted(r, p, gate)
    PROVE  StepOf(r)
BY DEF StepOf, Handled, MayEnter

\* A handler that keeps the places is a step of a handler.
LEMMA HandledIsStep ==
    ASSUME NEW r \in Requests, Handled(r, gate)
    PROVE  StepOf(r)
BY DEF StepOf

\* A handler that has given the place back first.
LEMMA HandledAfterRelease ==
    ASSUME Inv, NEW r \in Requests, Connected(r), Handled(r, GateWithout(r))
    PROVE  StepOf(r)
BY HungIsReady DEF StepOf

\* A request arrives and goes to its first target.
LEMMA ArriveSteps ==
    ASSUME Inv, NEW r \in Requests, Arrive(r)
    PROVE  StepOf(r)
<1>1. PICK route \in Routes(r) :
          AttemptNext(r, [req[r] EXCEPT !.route = route], tracker[r], books, gate)
  BY DEF Arrive
<1> DEFINE p == [req[r] EXCEPT !.route = route]
<1>2. Between(r, req[r], gate) /\ NoRetryTimer(req[r]) /\ GateOK(gate)
  BY DEF Arrive, Inv, Accounted
<1>3. route \subseteq 1 .. Len(Slot[r])
  BY SlotFacts, SlotAssumption DEF Routes, FilterTargets
<1>4. /\ DOMAIN p = Fields
      /\ p.route = route /\ p.idx = req[r].idx /\ p.turn = req[r].turn
      /\ p.late = req[r].late /\ p.timers = req[r].timers
  BY <1>2 DEF Between, Shape, Fields
<1>5. AttemptNext(r, p, tracker[r], books, gate)
  BY <1>1
<1> HIDE DEF p
<1>6. Between(r, p, gate) /\ NoRetryTimer(p)
  BY <1>2, <1>3, <1>4 DEF Between, Shape, NoRetryTimer
<1>7. QED
  BY <1>2, <1>5, <1>6, AttemptNextHandled, HandledIsStep

\* A request is refused before any target is called.
LEMMA RefuseSteps ==
    ASSUME Inv, NEW r \in Requests, Refuse(r)
    PROVE  StepOf(r)
<1>1. Done(r, req[r], gate)
  BY ThenDone DEF Refuse, Inv, Accounted
<1>2. QED
  BY <1>1, SendTerminalErrorHandled, HandledIsStep DEF Refuse

\* The description of the images has come and the target is called.
LEMMA VisionEndsSteps ==
    ASSUME Inv, NEW r \in Requests, VisionEnds(r)
    PROVE  StepOf(r)
<1>1. Ready(r, req[r], gate) /\ NoRetryTimer(req[r]) /\ GateOK(gate)
  BY DEF VisionEnds, Inv, Accounted
<1>2. Done(r, req[r], gate)
  BY <1>1, ThenDone
<1>3. QED
  BY <1>1, <1>2, CallUpstreamHandled, SendTerminalErrorHandled, HandledIsStep DEF VisionEnds

\* A request that has been let in is sent.
LEMMA IssueSteps ==
    ASSUME Inv, NEW r \in Requests, Issue(r)
    PROVE  StepOf(r)
<1> DEFINE q == req[r]
<1>1. /\ q.phase = "waiting" /\ Calling(r, q, gate) /\ GateOK(gate) /\ NoRetryTimer(q)
      /\ Inside(gate[q.key], <<r, q.turn>>)
  BY DEF Issue, HasPlace, Caller, Inv, Accounted, Inside
<1>2. DOMAIN q = Fields /\ q.idx \in 1 .. Len(Slot[r]) /\ q.idx \in Nat /\ q.key = Slot[r][q.idx]
  BY <1>1, SlotFacts DEF Calling, Shape, AtTarget
<1>3. ASSUME Leave(r, [q EXCEPT !.phase = "sent", !.timers = {"hard", "ttfb"}],
                   tracker[r], books, gate)
      PROVE  StepOf(r)
  <2> DEFINE p == [q EXCEPT !.phase = "sent", !.timers = {"hard", "ttfb"}]
  <2>1. /\ DOMAIN p = Fields
        /\ p.phase = "sent" /\ p.timers = {"hard", "ttfb"}
        /\ p.route = q.route /\ p.idx = q.idx /\ p.key = q.key /\ p.turn = q.turn
        /\ p.late = q.late
    BY <1>2 DEF Fields
  <2>2. req' = [req EXCEPT ![r] = p] /\ gate' = gate
    BY <1>3 DEF Leave
  <2> HIDE DEF p, q
  <2>3. Accounted(r, p, gate)
    BY <1>1, <2>1, GoesOn DEF NoRetryTimer
  <2>4. QED
    BY <2>2, <2>3, RequestChanges
<1>4. ASSUME q.key \in Unsendable,
             AttemptNext(r, [q EXCEPT !.failed = TRUE], tracker[r], books, gate)
      PROVE  StepOf(r)
  <2> DEFINE p == [q EXCEPT !.failed = TRUE]
  <2>1. /\ DOMAIN p = Fields
        /\ p.timers = q.timers /\ p.route = q.route
        /\ p.idx = q.idx /\ p.turn = q.turn /\ p.late = q.late
    BY <1>2 DEF Fields
  <2>2. AttemptNext(r, p, tracker[r], books, gate)
    BY <1>4
  <2> HIDE DEF p, q
  <2>3. /\ \A k : Tried(r, k, q.idx - 1) => Tried(r, k, q.idx)
        /\ Tried(r, q.key, q.idx)
    BY <1>2 DEF Tried
  <2>4. OnlyLost(r, gate, p.idx)
    BY <1>1, <1>4, <2>1, <2>3 DEF Calling, OnlyLost
  <2>5. Between(r, p, gate) /\ NoRetryTimer(p)
    BY <1>1, <2>1, <2>4 DEF Calling, Between, Shape, NoRetryTimer
  <2>6. QED
    BY <1>1, <2>2, <2>5, AttemptNextHandled, HandledIsStep
<1>5. QED
  BY <1>3, <1>4 DEF Issue

\* A response arrives: the call goes on.
LEMMA RespondSteps ==
    ASSUME Inv, NEW r \in Requests, Respond200(r) \/ RespondError(r)
    PROVE  StepOf(r)
<1> DEFINE q == req[r]
<1>1. /\ q.phase = "sent" /\ Calling(r, q, gate) /\ NoRetryTimer(q)
      /\ Inside(gate[q.key], <<r, q.turn>>)
  BY DEF Respond200, RespondError, Inv, Accounted, Calling
<1>2. DOMAIN q = Fields /\ "retry" \notin Watched(q.timers)
  BY <1>1 DEF Calling, Shape, Watched, NoRetryTimer
<1>3. ASSUME OnlyRequest(r, [q EXCEPT !.phase = "stream", !.headers = TRUE,
                                      !.timers = Watched(@)])
      PROVE  StepOf(r)
  <2> DEFINE p == [q EXCEPT !.phase = "stream", !.headers = TRUE, !.timers = Watched(@)]
  <2>1. /\ DOMAIN p = Fields
        /\ p.phase = "stream" /\ p.timers = Watched(q.timers)
        /\ p.route = q.route /\ p.idx = q.idx /\ p.key = q.key /\ p.turn = q.turn
        /\ p.late = q.late
    BY <1>2 DEF Fields
  <2>2. req' = [req EXCEPT ![r] = p] /\ gate' = gate
    BY <1>3 DEF OnlyRequest
  <2> HIDE DEF p, q
  <2>3. QED
    BY <1>1, <1>2, <2>1, <2>2, GoesOn, RequestChanges DEF NoRetryTimer
<1>4. ASSUME OnlyRequest(r, [q EXCEPT !.phase = "errbody",
                                      !.timers = Watched(@) \cup {"body"}])
      PROVE  StepOf(r)
  <2> DEFINE p == [q EXCEPT !.phase = "errbody", !.timers = Watched(@) \cup {"body"}]
  <2>1. /\ DOMAIN p = Fields
        /\ p.phase = "errbody" /\ p.timers = Watched(q.timers) \cup {"body"}
        /\ p.route = q.route /\ p.idx = q.idx /\ p.key = q.key /\ p.turn = q.turn
        /\ p.late = q.late
    BY <1>2 DEF Fields
  <2>2. req' = [req EXCEPT ![r] = p] /\ gate' = gate
    BY <1>4 DEF OnlyRequest
  <2> HIDE DEF p, q
  <2>3. QED
    BY <1>1, <1>2, <2>1, <2>2, GoesOn, RequestChanges DEF NoRetryTimer
<1>5. QED
  BY <1>3, <1>4 DEF Respond200, RespondError

\* A connection that is refused or dropped ends in a retry, in the next
\* target, or in an error for the client.
LEMMA FailureSteps ==
    ASSUME Inv, NEW r \in Requests, Connected(r), Fails(r) \/ ConnectionError(r)
    PROVE  StepOf(r)
<1> DEFINE q == Hung(r)
           h == GateWithout(r)
<1>1. Ready(r, q, h) /\ NoRetryTimer(q) /\ GateOK(h) /\ DOMAIN q = Fields
  BY HungIsReady DEF Ready, Shape
<1>2. ASSUME CallUpstream(r, [q EXCEPT !.spare = @ - 1], tracker[r], books, h)
      PROVE  Handled(r, h)
  <2> DEFINE p == [q EXCEPT !.spare = @ - 1]
  <2>1. /\ DOMAIN p = Fields
        /\ p.timers = q.timers /\ p.route = q.route
        /\ p.idx = q.idx /\ p.key = q.key /\ p.turn = q.turn /\ p.late = q.late
    BY <1>1 DEF Fields
  <2>2. CallUpstream(r, p, tracker[r], books, h)
    BY <1>2
  <2> HIDE DEF p, q, h
  <2>3. Ready(r, p, h) /\ NoRetryTimer(p)
    BY <1>1, <2>1, SameReady DEF NoRetryTimer
  <2>4. QED
    BY <1>1, <2>2, <2>3, CallUpstreamHandled
<1>3. ASSUME NEW failure, OnFailover(r, q, tracker[r], books, h, failure)
      PROVE  Handled(r, h)
  BY <1>1, <1>3, OnFailoverHandled
<1>4. ASSUME SendTerminalError(r, q, Fail(tracker[r]), books, h)
      PROVE  Handled(r, h)
  BY <1>1, <1>4, ThenDone, SendTerminalErrorHandled
<1>5. Handled(r, h)
  BY <1>2, <1>3, <1>4 DEF Fails, ConnectionError
<1>6. QED
  BY <1>5, HandledAfterRelease

\* The body of an error is cut off: the place goes back, and nothing else
\* happens.
LEMMA ErrorBodyCutSteps ==
    ASSUME Inv, NEW r \in Requests, ErrorBodyCut(r)
    PROVE  StepOf(r)
<1> DEFINE q == Hung(r)
           h == GateWithout(r)
           p == [q EXCEPT !.phase = "stranded"]
<1>1. Connected(r)
  BY DEF ErrorBodyCut, Alive
<1>2. Ready(r, q, h) /\ NoRetryTimer(q) /\ DOMAIN q = Fields /\ Done(r, q, h)
  BY <1>1, HungIsReady, ThenDone DEF Ready, Shape
<1>3. req' = [req EXCEPT ![r] = p] /\ gate' = h
  BY DEF ErrorBodyCut, Leave
<1>4. /\ DOMAIN p = Fields
      /\ p.phase = "stranded" /\ p.timers = q.timers /\ p.route = q.route
      /\ p.idx = q.idx /\ p.turn = q.turn /\ p.late = q.late
  BY <1>2 DEF Fields
<1> HIDE DEF p, q, h
<1>5. Accounted(r, p, h)
  BY <1>2, <1>4 DEF Done, Shape, Accounted, Phases, NoRetryTimer
<1>6. Handled(r, h)
  BY <1>3, <1>5 DEF Handled, MayEnter
<1>7. QED
  BY <1>1, <1>6, HandledAfterRelease DEF h

\* Whatever Complete does to a request, its call is the same.
LEMMA CompleteHandled ==
    ASSUME NEW r \in Requests, NEW q, NEW g, Accounted(r, q, g), DOMAIN q = Fields,
           Complete(r, q, g)
    PROVE  Handled(r, g)
<1> DEFINE p == [q EXCEPT !.ended = TRUE, !.seen = SeenBy(q, "answer")]
           u == [q EXCEPT !.ended = TRUE]
<1>1. /\ gate' = g
      /\ \/ req' = [req EXCEPT ![r] = q]
         \/ req' = [req EXCEPT ![r] = p]
         \/ req' = [req EXCEPT ![r] = u]
  BY DEF Complete, Leave
<1>2. SameCall(p, q) /\ p.timers = q.timers /\ SameCall(u, q) /\ u.timers = q.timers
  BY DEF SameCall, Fields
<1> HIDE DEF p, u
<1>3. q.phase # "delay" => NoRetryTimer(q)
  BY DEF Accounted
<1>4. Accounted(r, p, g) /\ Accounted(r, u, g)
  BY <1>2, <1>3, SameAccount DEF NoRetryTimer
<1>5. QED
  BY <1>1, <1>4 DEF Handled, MayEnter

\* A request whose state is accounted for has all its fields.
LEMMA HasFields ==
    ASSUME NEW r, NEW q, NEW g, Accounted(r, q, g)
    PROVE  DOMAIN q = Fields
BY DEF Accounted, Phases, Between, Ready, Calling, Done, Shape

\* The answer is complete, or its stream ends.
LEMMA StreamSteps ==
    ASSUME Inv, NEW r \in Requests, StreamCompletes(r) \/ StreamEnds(r)
    PROVE  StepOf(r)
<1>1. CASE StreamCompletes(r)
  <2>1. Accounted(r, req[r], gate) /\ Complete(r, req[r], gate)
    BY <1>1 DEF Inv, StreamCompletes
  <2>2. QED
    BY <2>1, HasFields, CompleteHandled, HandledIsStep
<1>2. CASE StreamEnds(r)
  <2>1. Connected(r) /\ Complete(r, Over(Hung(r)), GateWithout(r))
    BY <1>2 DEF StreamEnds, Alive
  <2>2. Done(r, Hung(r), GateWithout(r))
    BY <2>1, HungIsReady, ThenDone
  <2>3. /\ Accounted(r, Over(Hung(r)), GateWithout(r))
        /\ DOMAIN Over(Hung(r)) = Fields
    BY <2>2, OverIsDone, SlotAssumption
  <2>4. QED
    BY <2>1, <2>3, CompleteHandled, HandledAfterRelease
<1>3. QED
  BY <1>1, <1>2

LEMMA WatchdogKillsSteps ==
    ASSUME Inv, NEW r \in Requests, WatchdogKills(r)
    PROVE  StepOf(r)
<1> DEFINE q == req[r]
           p == [q EXCEPT !.dead = TRUE, !.timers = @ \ {"hard", "ttfb", "idle"}]
<1>1. Accounted(r, q, gate) /\ DOMAIN q = Fields
  BY HasFields DEF Inv
<1>2. req' = [req EXCEPT ![r] = p] /\ gate' = gate
  BY DEF WatchdogKills, OnlyRequest
<1>3. SameCall(p, q) /\ p.timers \subseteq q.timers
  BY <1>1 DEF SameCall, Fields
<1> HIDE DEF p, q
<1>4. Accounted(r, p, gate)
  BY <1>1, <1>3, SameAccount DEF Accounted, NoRetryTimer
<1>5. QED
  BY <1>2, <1>4, RequestChanges

\* A close that comes late is never that of the call being made.
LEMMA LateCloseSteps ==
    ASSUME Inv, NEW r \in Requests, LateClose(r)
    PROVE  StepOf(r)
<1> DEFINE q == req[r]
           p == [q EXCEPT !.late = {}]
<1>1. PICK call \in q.late : gate' = Freed(gate, call[1], <<r, call[2]>>)
  BY DEF LateClose
<1>2. Accounted(r, q, gate) /\ DOMAIN q = Fields /\ GateOK(gate)
  BY HasFields DEF Inv
<1>3. req' = [req EXCEPT ![r] = p]
  BY DEF LateClose
<1>4. /\ DOMAIN p = Fields
      /\ p.phase = q.phase /\ p.route = q.route /\ p.idx = q.idx /\ p.key = q.key
      /\ p.turn = q.turn /\ p.late = {} /\ p.timers = q.timers
  BY <1>2 DEF Fields
<1> HIDE DEF p, q
<1>5. q.late \subseteq Targets \X {0, 1} /\ q.turn \in {0, 1}
  BY <1>2 DEF Accounted, Phases, Between, Ready, Calling, Done, Shape
<1>6. call[1] \in Targets /\ call[2] \in {0, 1} /\ <<r, call[2]>> \in Callers
  BY <1>1, <1>5 DEF Callers
<1>7. /\ \A k \in Targets, n \in {0, 1} :
             /\ At(gate'[k], <<r, n>>) => At(gate[k], <<r, n>>)
             /\ Inside(gate[k], <<r, n>>) /\ ~ (k = call[1] /\ n = call[2])
                    => Inside(gate'[k], <<r, n>>)
      /\ GateOK(gate')
  <2>1. \A n \in {0, 1} : <<r, n>> \in Callers /\ <<r, n>>[2] = n
    BY DEF Callers
  <2>2. QED
    BY <1>1, <1>2, <1>6, <2>1, FreedMembers
<1>8. Shape(r, q) => Shape(r, p)
  BY <1>4 DEF Shape
<1>9. AtTarget(r, q) => AtTarget(r, p)
  BY <1>4 DEF AtTarget
<1>10. Between(r, q, gate) => Between(r, p, gate')
  BY <1>4, <1>7, <1>8 DEF Between, OnlyLost
<1>11. Ready(r, q, gate) => Ready(r, p, gate')
  BY <1>4, <1>7, <1>8, <1>9 DEF Ready, OnlyLost
<1>12. Done(r, q, gate) => Done(r, p, gate')
  BY <1>7, <1>8 DEF Done
<1>13. Calling(r, q, gate) => Calling(r, p, gate')
  <2> SUFFICES ASSUME Calling(r, q, gate)
               PROVE  Calling(r, p, gate')
    OBVIOUS
  <2>1. call[1] = q.key => call[2] # q.turn
    BY <1>1 DEF Calling
  <2>2. q.key \in Targets
    BY SlotFacts DEF Calling, Shape, AtTarget
  <2>3. q.phase \in {"sent", "errbody", "stream"} => Inside(gate'[q.key], <<r, q.turn>>)
    BY <1>5, <1>7, <2>1, <2>2 DEF Calling
  <2>4. \A k \in Targets, n \in {0, 1} :
           At(gate'[k], <<r, n>>) =>
               \/ k = q.key /\ n = q.turn
               \/ k \in Unsendable /\ Tried(r, k, q.idx - 1)
    BY <1>7 DEF Calling
  <2>5. QED
    BY <1>4, <1>8, <1>9, <2>3, <2>4 DEF Calling
<1>14. Accounted(r, p, gate')
  BY <1>2, <1>4, <1>10, <1>11, <1>12, <1>13 DEF Accounted, NoRetryTimer
<1>15. QED
  BY <1>1, <1>3, <1>6, <1>14 DEF StepOf, Handled, MayEnter

\* The retry timer fires when the request has no place.
LEMMA RetryTimerSteps ==
    ASSUME Inv, NEW r \in Requests, RetryTimer(r)
    PROVE  StepOf(r)
<1> DEFINE q == req[r]
           p == [q EXCEPT !.timers = {}]
<1>1. Accounted(r, q, gate) /\ "retry" \in q.timers /\ GateOK(gate)
  BY DEF Inv, RetryTimer
<1>2. Ready(r, q, gate) /\ DOMAIN q = Fields
  BY <1>1 DEF Accounted, NoRetryTimer, Ready, Shape
<1>3. StartTargetRequest(r, p, tracker[r], books, gate)
  BY DEF RetryTimer
<1>4. /\ DOMAIN p = Fields
      /\ p.timers = {} /\ p.route = q.route
      /\ p.idx = q.idx /\ p.key = q.key /\ p.turn = q.turn /\ p.late = q.late
  BY <1>2 DEF Fields
<1> HIDE DEF p, q
<1>5. Ready(r, p, gate) /\ NoRetryTimer(p)
  BY <1>2, <1>4, SameReady DEF NoRetryTimer
<1>6. QED
  BY <1>1, <1>3, <1>5, StartTargetRequestHandled, HandledIsStep

\* The client leaves, or its response is closed.
LEMMA ClientSteps ==
    ASSUME Inv, NEW r \in Requests, ClientLeaves(r) \/ ResponseCloses(r)
    PROVE  StepOf(r)
<1> DEFINE q == req[r]
<1>1. Accounted(r, q, gate) /\ DOMAIN q = Fields
  BY HasFields DEF Inv
<1>2. CASE ClientLeaves(r)
  <2> DEFINE p == [q EXCEPT !.client = "gone", !.timers = @ \ {"retry"},
                            !.dead = @ \/ Connected(r)]
  <2>1. /\ gate' = gate
        /\ req' = [req EXCEPT ![r] = IF p.phase \in {"delay", "stranded"} THEN Over(p) ELSE p]
    BY <1>2 DEF ClientLeaves, Leave
  <2>2. SameCall(p, q) /\ p.timers = q.timers \ {"retry"}
    BY <1>1 DEF SameCall, Fields
  <2> HIDE DEF p, q
  <2>3. Accounted(r, p, gate)
    BY <1>1, <2>2, SameAccount DEF NoRetryTimer
  <2>4. CASE p.phase \in {"delay", "stranded"}
    <3>1. Done(r, p, gate)
      BY <2>3, <2>4, ThenDone DEF Accounted
    <3>2. Accounted(r, Over(p), gate)
      BY <3>1, SlotAssumption, OverIsDone
    <3>3. QED
      BY <2>1, <2>4, <3>2, RequestChanges
  <2>5. CASE p.phase \notin {"delay", "stranded"}
    BY <2>1, <2>3, <2>5, RequestChanges
  <2>6. QED
    BY <2>4, <2>5
<1>3. CASE ResponseCloses(r)
  <2> DEFINE p == [q EXCEPT !.client = "closed"]
  <2>1. req' = [req EXCEPT ![r] = p] /\ gate' = gate
    BY <1>3 DEF ResponseCloses
  <2>2. SameCall(p, q) /\ p.timers = q.timers
    BY <1>1 DEF SameCall, Fields
  <2> HIDE DEF p, q
  <2>3. Accounted(r, p, gate)
    BY <1>1, <2>2, SameAccount DEF Accounted, NoRetryTimer
  <2>4. QED
    BY <2>1, <2>3, RequestChanges
<1>4. QED
  BY <1>2, <1>3

\* Every handler of a request is a step of a handler.
LEMMA RequestStepSteps ==
    ASSUME Inv, NEW r \in Requests, RequestStep(r)
    PROVE  StepOf(r)
<1>1. CASE Arrive(r) \/ Refuse(r) \/ VisionEnds(r) \/ Issue(r)
  BY <1>1, ArriveSteps, RefuseSteps, VisionEndsSteps, IssueSteps
<1>2. CASE Respond200(r) \/ RespondError(r) \/ ErrorBodyCut(r)
  BY <1>2, RespondSteps, ErrorBodyCutSteps
<1>3. CASE ErrorBodyEnds(r) \/ ErrorBodyTimer(r)
  BY <1>3, FailureSteps DEF ErrorBodyEnds, ErrorBodyTimer, Alive
<1>4. CASE ConnectionFails(r) \/ DestroyedReports(r)
  BY <1>4, FailureSteps DEF ConnectionFails, DestroyedReports, Alive
<1>5. CASE StreamCompletes(r) \/ StreamEnds(r) \/ WatchdogKills(r)
  BY <1>5, StreamSteps, WatchdogKillsSteps
<1>6. CASE LateClose(r) \/ RetryTimer(r) \/ ClientLeaves(r) \/ ResponseCloses(r)
  BY <1>6, LateCloseSteps, RetryTimerSteps, ClientSteps
<1>7. QED
  BY <1>1, <1>2, <1>3, <1>4, <1>5, <1>6 DEF RequestStep

\* Every step is a step of some request, or leaves requests and gate alone.
LEMMA NextSteps ==
    ASSUME Inv, [Next]_vars
    PROVE  (\E r \in Requests : StepOf(r)) \/ UNCHANGED <<req, gate>>
BY RequestStepSteps DEF Next, vars, CooldownExpires, ConfigIsReadAgain

\* No request has come and no place is taken.
LEMMA InitInv == Init => Inv
<1> SUFFICES ASSUME Init PROVE Inv
  OBVIOUS
<1>1. \A k \in Targets : BucketOK(gate[k])
  <2>1. BucketOK(NewBucket)
    BY FS_EmptySet, LimitsAssumption DEF NewBucket, BucketOK
  <2>2. QED
    BY <2>1 DEF Init, NewGate
<1>2. GateOK(gate)
  BY <1>1 DEF GateOK, Init, NewGate
<1>3. \A k \in Targets, c \in Callers : ~ At(gate[k], c)
  BY DEF Init, NewGate, NewBucket, At, Inside, Waiting
<1>4. /\ DOMAIN NewRequest = Fields
      /\ NewRequest.phase = "new" /\ NewRequest.route = {} /\ NewRequest.idx = 0
      /\ NewRequest.turn = 0 /\ NewRequest.late = {} /\ NewRequest.timers = {}
  BY DEF NewRequest, Fields
<1>5. ASSUME NEW r \in Requests
      PROVE  Accounted(r, NewRequest, gate)
  <2>1. OnlyLost(r, gate, 0)
    BY <1>3 DEF OnlyLost, Callers
  <2>2. Between(r, NewRequest, gate)
    BY <1>4, <2>1, SlotFacts DEF Between, Shape
  <2>3. QED
    BY <1>4, <2>2 DEF Accounted, Phases, NoRetryTimer
<1>6. QED
  BY <1>2, <1>5 DEF Inv, Init

\* The invariant speaks of the requests and the gate only.
LEMMA InvStep == Inv /\ [Next]_vars => Inv'
<1> SUFFICES ASSUME Inv, [Next]_vars PROVE Inv'
  OBVIOUS
<1>1. CASE \E r \in Requests : StepOf(r)
  BY <1>1, StepKeepsInv
<1>2. CASE UNCHANGED <<req, gate>>
  BY <1>2 DEF Inv
<1>3. QED
  BY <1>1, <1>2, NextSteps

\* Each request calls a target under a name that is its own at the time, and
\* the gate counts whom it has let in.
THEOREM InvTheorem == Spec => []Inv
BY InitInv, InvStep, PTL DEF Spec

-----------------------------------------------------------------------------
(* The gate implements FairPlaces                                           *)

Rooms(g) == [k \in Targets |-> Room(g[k])]

\* Giving back a place is going.
LEMMA GoingRooms ==
    ASSUME NEW g, GateOK(g), NEW k \in Targets, NEW c \in Callers, Inside(g[k], c)
    PROVE  /\ Rooms(Freed(g, k, c)) =
                  [Rooms(g) EXCEPT ![k] = FairPlacesOfGate!AfterGoing(@, c)]
           /\ c \in Rooms(g)[k].inside
<1>1. Freed(g, k, c) = [j \in Targets |-> IF j = k THEN Exit(g[k], c) ELSE g[j]]
  BY FreedGate
<1>2. Room(Exit(g[k], c)) = FairPlacesOfGate!AfterGoing(Room(g[k]), c)
  BY ExitBucket DEF GateOK
<1>3. QED
  BY <1>1, <1>2 DEF Rooms, Room, Inside

\* Asking for a place is coming.
LEMMA ComingRooms ==
    ASSUME NEW g, GateOK(g), NEW k \in Targets, NEW c \in Callers, ~ At(g[k], c)
    PROVE  FairPlacesOfGate!Coming(Rooms(g), Rooms(Acquired(g, k, c)), k, c)
<1>1. Acquired(g, k, c) = [j \in Targets |-> IF j = k THEN Enter(g[k], c) ELSE g[j]]
  BY AcquiredGate
<1>2. Room(Enter(g[k], c)) = FairPlacesOfGate!AfterComing(Room(g[k]), c)
  BY EnterBucket DEF GateOK
<1>3. Rooms(Acquired(g, k, c)) = [Rooms(g) EXCEPT ![k] = FairPlacesOfGate!AfterComing(@, c)]
  BY <1>1, <1>2 DEF Rooms
<1>4. FairPlacesOfGate!IsNew(Rooms(g)[k], c)
  BY DEF FairPlacesOfGate!IsNew, Rooms, Room, At, Inside, Waiting
<1>5. QED
  BY <1>3, <1>4 DEF FairPlacesOfGate!Coming

\* The empty gate is an empty room for every target.
LEMMA FairInit == Init => FairPlacesOfGate!Init
BY DEF Init, NewGate, NewBucket, FairPlacesOfGate!Init, FairPlacesOfGate!Empty

\* Every step is one caller who goes, one who comes, or both, or no change of
\* any room.
LEMMA FairStep ==
    ASSUME Inv, [Next]_vars
    PROVE  [FairPlacesOfGate!Next]_(Rooms(gate))
<1> SUFFICES ASSUME Rooms(gate') # Rooms(gate)
             PROVE  FairPlacesOfGate!Next
  BY DEF Rooms
<1>1. PICK r \in Requests : StepOf(r)
  BY NextSteps
<1>2. PICK g : /\ \/ g = gate
                  \/ \E k \in Targets, n \in {0, 1} : g = Freed(gate, k, <<r, n>>)
               /\ MayEnter(r, g, gate')
  BY <1>1 DEF StepOf, Handled
<1>3. GateOK(gate) /\ \A n \in {0, 1} : <<r, n>> \in Callers
  BY DEF Inv, Callers
<1>4. \/ g = gate
      \/ \E k \in Targets, c \in Callers : Inside(gate[k], c) /\ g = Freed(gate, k, c)
  BY <1>2, <1>3, FreedGate
<1>5. GateOK(g)
  BY <1>3, <1>4, FreedGate
<1>6. \/ gate' = g
      \/ \E k \in Targets, c \in Callers : ~ At(g[k], c) /\ gate' = Acquired(g, k, c)
  BY <1>2, <1>3 DEF MayEnter
<1>7. \/ Rooms(g) = Rooms(gate)
      \/ \E k \in Targets : \E c \in Rooms(gate)[k].inside :
             Rooms(g) = [Rooms(gate) EXCEPT ![k] = FairPlacesOfGate!AfterGoing(@, c)]
  BY <1>3, <1>4, GoingRooms
<1>8. \/ Rooms(gate') = Rooms(g)
      \/ \E k \in Targets, c \in Callers :
             FairPlacesOfGate!Coming(Rooms(g), Rooms(gate'), k, c)
  BY <1>5, <1>6, ComingRooms
<1> DEFINE R == Rooms(gate)
           S == Rooms(g)
           T == Rooms(gate')
<1>9. /\ [k \in Targets |-> [inside |-> gate[k].open, queue |-> gate[k].wait]] = R
      /\ [k \in Targets |-> [inside |-> gate[k].open, queue |-> gate[k].wait]]' = T
  BY DEF Rooms, Room
<1> HIDE DEF R, S, T
<1>10. CASE S = R
  <2>1. FairPlacesOfGate!Come
    BY <1>8, <1>9, <1>10 DEF FairPlacesOfGate!Come, R, S, T
  <2>2. QED
    BY <1>9, <2>1 DEF FairPlacesOfGate!Next, R, T
<1>11. ASSUME NEW k \in Targets, NEW c \in R[k].inside,
              S = [R EXCEPT ![k] = FairPlacesOfGate!AfterGoing(@, c)]
       PROVE  FairPlacesOfGate!Next
  <2>1. CASE T = S
    <3>1. T = [R EXCEPT ![k] = FairPlacesOfGate!AfterGoing(R[k], c)]
      BY <1>11, <2>1
    <3>2. FairPlacesOfGate!Go <=>
              \E i \in Targets : \E e \in R[i].inside :
                  T = [R EXCEPT ![i] = FairPlacesOfGate!AfterGoing(R[i], e)]
      BY <1>9 DEF FairPlacesOfGate!Go
    <3>3. FairPlacesOfGate!Go
      BY <3>1, <3>2
    <3>4. QED
      BY <1>9, <3>3 DEF FairPlacesOfGate!Next, R, T
  <2>2. ASSUME NEW j \in Targets, NEW d \in Callers, FairPlacesOfGate!Coming(S, T, j, d)
        PROVE  FairPlacesOfGate!Next
    <3>1. FairPlacesOfGate!GoAndCome
      BY <1>9, <1>11, <2>2 DEF FairPlacesOfGate!GoAndCome
    <3>2. QED
      BY <1>9, <3>1 DEF FairPlacesOfGate!Next, R, T
  <2>3. QED
    BY <1>8, <2>1, <2>2 DEF S, T
<1>12. QED
  BY <1>7, <1>10, <1>11 DEF R, S

\* The gate of upstream-watchdog.js, used as chat.js uses it, is a fair limit:
\* callers are admitted in the order in which they come, never more than
\* Places at a time, and none waits while a place is free.
THEOREM PlacesAreFairTheorem == Spec => PlacesAreFair
<1>1. Init => FairPlacesOfGate!Init
  BY FairInit
<1>2. Inv /\ [Next]_vars =>
          [FairPlacesOfGate!Next]_([k \in Targets |-> [inside |-> gate[k].open, queue |-> gate[k].wait]])
  BY FairStep DEF Rooms, Room
<1>3. QED
  BY <1>1, <1>2, InvTheorem, PTL DEF Spec, PlacesAreFair, FairPlacesOfGate!Spec

-----------------------------------------------------------------------------
(* Places and connections                                                   *)

\* The invariant counts the connections of a target where the gate counts its
\* open places.
LEMMA InvPlaces == Inv => PlacesMatchConnections
<1> SUFFICES ASSUME Inv, NEW k \in Targets \ Unsendable
             PROVE  gate[k].open = {Caller(r) : r \in {w \in Requests :
                                req[w].key = k /\ (Connected(w) \/ HasPlace(w))}}
  BY DEF PlacesMatchConnections, PlacesMatch
<1>1. ASSUME NEW w \in Requests, req[w].key = k, Connected(w) \/ HasPlace(w)
      PROVE  Caller(w) \in gate[k].open
  BY <1>1 DEF Inv, Accounted, Calling, Connected, HasPlace, Caller, Inside
<1>2. ASSUME NEW c \in gate[k].open
      PROVE  \E w \in Requests : /\ c = Caller(w) /\ req[w].key = k
                                 /\ Connected(w) \/ HasPlace(w)
  <2>1. c \in Callers
    BY <1>2 DEF Inv, GateOK, BucketOK
  <2>2. PICK w \in Requests, n \in {0, 1} : c = <<w, n>>
    BY <2>1 DEF Callers
  <2>3. At(gate[k], <<w, n>>) /\ Accounted(w, req[w], gate)
    BY <1>2, <2>2 DEF At, Inside, Inv
  <2>4. /\ req[w].phase \in {"waiting", "sent", "errbody", "stream"}
        /\ k = req[w].key /\ n = req[w].turn
    BY <2>3 DEF Accounted, Phases, Between, Ready, Calling, Done, OnlyLost
  <2>5. QED
    BY <1>2, <2>2, <2>4 DEF Caller, Connected, HasPlace
<1>3. QED
  BY <1>1, <1>2

\* No place is left behind, and no connection goes without one.
THEOREM PlacesMatchConnectionsTheorem == Spec => []PlacesMatchConnections
BY InvTheorem, InvPlaces, PTL

-----------------------------------------------------------------------------
(* The books                                                                *)

Trackers ==
    [status : {"none", "ok", "failed", "rejected", "aborted"},
     attempts : Seq({"pending", "ok", "failed", "skipped"}), final : BOOLEAN]

Ledgers == [requests : Nat, errors : Nat, usages : Nat, lines : Nat]

\* What the client saw of a request, or that it left, is the end of it.
Settled(q) == q.client = "gone" \/ q.seen # "nothing"

\* The request counts as one of requests.
Begun(t) == t.final \/ t.attempts # <<>>

\* A request and its tracker agree on whether it is settled.
Told(q, t) ==
    /\ DOMAIN q = Fields
    /\ q.client \in {"there", "gone", "closed"}
    /\ q.seen \in {"nothing", "answer", "error"}
    /\ q.ended \in BOOLEAN
    /\ t \in Trackers
    /\ t.final <=> Settled(q)
    /\ ~ t.final => t.status = "none"
    /\ q.seen # "nothing" => q.ended /\ q.client # "gone"
    /\ q.client = "closed" => q.ended

\* And the response has no end without it.
Sound(q, t) == Told(q, t) /\ (q.ended => t.final)

One(condition) == IF condition THEN 1 ELSE 0

\* The books c differ from b as the request p, u does from q, t.
Entered(q, t, b, p, u, c) ==
    /\ c \in Ledgers
    /\ q.seen # "nothing" => p.seen = q.seen
    /\ q.client = "gone" => p.client = "gone"
    /\ Begun(t) => Begun(u)
    /\ c.errors - b.errors = One(p.seen = "error") - One(q.seen = "error")
    /\ c.usages - b.usages = One(p.seen = "answer") - One(q.seen = "answer")
    /\ c.lines - b.lines = One(Settled(p)) - One(Settled(q))
    /\ c.requests - b.requests >= One(Begun(u)) - One(Begun(t))

\* A handler of r that begins with q, t and b leaves the books in order.
Booked(r, q, t, b) ==
    \E p, u :
        /\ req' = [req EXCEPT ![r] = p]
        /\ tracker' = [tracker EXCEPT ![r] = u]
        /\ Told(p, u) /\ (p.ended /\ ~ crashed' => u.final)
        /\ Entered(q, t, b, p, u, books')

BegunRequests == {r \in Requests : Begun(tracker[r])}
Saw(what) == {r \in Requests : req[r].seen = what}
SettledRequests == {r \in Requests : Settled(req[r])}

\* The inductive invariant of the books: they count what the requests and the
\* trackers say.
BInv ==
    /\ req = [r \in Requests |-> req[r]]
    /\ tracker \in [Requests -> Trackers]
    /\ \A r \in Requests :
           /\ Told(req[r], tracker[r])
           /\ req[r].ended /\ ~ crashed => tracker[r].final
    /\ books \in Ledgers
    /\ IsFiniteSet(BegunRequests)
    /\ books.errors = Cardinality(Saw("error"))
    /\ books.usages = Cardinality(Saw("answer"))
    /\ books.lines = Cardinality(SettledRequests)
    /\ books.requests >= Cardinality(BegunRequests)

\* What the handlers leave alone.
SameFace(p, q) ==
    DOMAIN p = Fields /\ p.client = q.client /\ p.seen = q.seen /\ p.ended = q.ended

LEMMA SameFaceIsSound ==
    ASSUME NEW p, NEW q, NEW t, Sound(q, t), SameFace(p, q)
    PROVE  Sound(p, t)
BY DEF Sound, Told, SameFace, Settled

\* A change made in two parts.
LEMMA EnteredTwice ==
    ASSUME NEW r, NEW q, NEW t, NEW b \in Ledgers, NEW p, NEW u, NEW c,
           Entered(q, t, b, p, u, c), Booked(r, p, u, c)
    PROVE  Booked(r, q, t, b)
<1>1. PICK o, v :
          /\ req' = [req EXCEPT ![r] = o]
          /\ tracker' = [tracker EXCEPT ![r] = v]
          /\ Told(o, v) /\ (o.ended /\ ~ crashed' => v.final)
          /\ Entered(p, u, c, o, v, books')
  BY DEF Booked
<1>2. Entered(q, t, b, o, v, books')
  <2>1. c \in Ledgers /\ books' \in Ledgers
    BY <1>1 DEF Entered
  <2>3. /\ q.seen # "nothing" => o.seen = q.seen
        /\ q.client = "gone" => o.client = "gone"
        /\ Begun(t) => Begun(v)
    BY <1>1 DEF Entered
  <2>4. /\ books'.errors - b.errors = One(o.seen = "error") - One(q.seen = "error")
        /\ books'.usages - b.usages = One(o.seen = "answer") - One(q.seen = "answer")
        /\ books'.lines - b.lines = One(Settled(o)) - One(Settled(q))
        /\ books'.requests - b.requests >= One(Begun(v)) - One(Begun(t))
    BY <1>1, <2>1 DEF Entered, Ledgers, One
  <2>5. QED
    BY <2>1, <2>3, <2>4 DEF Entered
<1>3. QED
  BY <1>1, <1>2 DEF Booked

\* Nothing the books are about.
LEMMA NothingEntered ==
    ASSUME NEW q, NEW t, NEW b \in Ledgers, NEW p, SameFace(p, q)
    PROVE  Entered(q, t, b, p, t, b)
BY DEF Entered, SameFace, Settled, Ledgers, One

LEMMA LeaveQuietly ==
    ASSUME NEW r, NEW q, NEW t, NEW b \in Ledgers, NEW p, NEW g,
           Sound(q, t), SameFace(p, q), Leave(r, p, t, b, g)
    PROVE  Booked(r, q, t, b)
<1>1. Entered(q, t, b, p, t, b) /\ Sound(p, t)
  BY NothingEntered, SameFaceIsSound
<1>2. QED
  BY <1>1 DEF Booked, Leave, Sound

LEMMA SameFaceBooked ==
    ASSUME NEW r, NEW q, NEW t, NEW b \in Ledgers, NEW p, SameFace(p, q), Booked(r, p, t, b)
    PROVE  Booked(r, q, t, b)
BY NothingEntered, EnteredTwice

\* Over touches nothing the client sees.
LEMMA OverFace ==
    ASSUME NEW q, DOMAIN q = Fields
    PROVE  SameFace(Over(q), q)
BY DEF SameFace, Over, Fields

\* The attempts of a tracker.
LEMMA EndAttemptFacts ==
    ASSUME NEW t \in Trackers, NEW word \in {"ok", "failed", "skipped"}
    PROVE  /\ EndAttempt(t, word) \in Trackers
           /\ EndAttempt(t, word).status = t.status
           /\ EndAttempt(t, word).final = t.final
           /\ EndAttempt(t, word).attempts = [t.attempts EXCEPT ![Len(t.attempts)] = word]
           /\ EndAttempt(t, word).attempts = <<>> <=> t.attempts = <<>>
<1> DEFINE words == {"pending", "ok", "failed", "skipped"}
           now == [t.attempts EXCEPT ![Len(t.attempts)] = word]
<1>1. t.attempts \in Seq(words)
  BY DEF Trackers
<1>2. now \in Seq(words) /\ Len(now) = Len(t.attempts)
  <2>1. CASE t.attempts = <<>>
    <3>1. DOMAIN t.attempts = {} /\ DOMAIN now = DOMAIN t.attempts
      BY <2>1
    <3>2. now = t.attempts
      BY <2>1, <3>1
    <3> HIDE DEF now
    <3>3. QED
      BY <1>1, <3>2
  <2>2. CASE t.attempts # <<>>
    BY <1>1, <2>2
  <2>3. QED
    BY <2>1, <2>2
<1>3. now = <<>> <=> t.attempts = <<>>
  BY <1>1, <1>2
<1> HIDE DEF now
<1>4. EndAttempt(t, word) = [t EXCEPT !.attempts = now]
  BY DEF EndAttempt, Trackers, now
<1>5. QED
  BY <1>2, <1>3, <1>4 DEF Trackers, now

LEMMA BeginAttemptFacts ==
    ASSUME NEW t \in Trackers
    PROVE  /\ BeginAttempt(t) \in Trackers
           /\ BeginAttempt(t).status = t.status
           /\ BeginAttempt(t).final = t.final
           /\ BeginAttempt(t).attempts # <<>>
<1> DEFINE closed == CloseOpenAttempt(t, "skipped")
           words == {"pending", "ok", "failed", "skipped"}
<1>1. closed \in {t, EndAttempt(t, "skipped")}
  BY DEF CloseOpenAttempt, EndAttempt
<1>2. closed \in Trackers /\ closed.status = t.status /\ closed.final = t.final
  BY <1>1, EndAttemptFacts
<1>3. BeginAttempt(t) = [closed EXCEPT !.attempts = Append(@, "pending")]
  BY DEF BeginAttempt
<1> HIDE DEF closed
<1>4. closed.attempts \in Seq(words)
  BY <1>2 DEF Trackers
<1>5. /\ Append(closed.attempts, "pending") \in Seq(words)
      /\ Append(closed.attempts, "pending") # <<>>
  BY <1>4
<1>6. QED
  BY <1>2, <1>3, <1>5 DEF Trackers

\* Whoever is still wanted is not settled.
LEMMA StillWanted ==
    ASSUME NEW q, NEW t, Sound(q, t), ~ q.ended, q.client # "gone"
    PROVE  /\ ~ t.final /\ t.status = "none" /\ ~ Settled(q)
           /\ q.client = "there" /\ q.seen = "nothing"
BY DEF Sound, Told, Settled

\* finish of a tracker with a word for it.
LEMMA FinishFacts ==
    ASSUME NEW t \in Trackers, ~ t.final, NEW b \in Ledgers
    PROVE  /\ Finish(t) \in Trackers /\ Finish(t).final
           /\ t.status # "none" => FinalStatus(t) = t.status
           /\ BooksAfterFinish(b, t) =
                 [requests |-> b.requests + One(t.attempts = <<>>),
                  errors |-> b.errors + One(FinalStatus(t) \in {"failed", "rejected"}),
                  usages |-> b.usages + One(FinalStatus(t) = "ok"),
                  lines |-> b.lines + 1]
           /\ BooksAfterFinish(b, t) \in Ledgers
<1>1. FinalStatus(t) \in {"none", "ok", "failed", "rejected", "aborted"}
  BY DEF FinalStatus, Trackers
<1>2. <<>> \in Seq({"pending", "ok", "failed", "skipped"})
  OBVIOUS
<1>3. Finish(t) = [status |-> FinalStatus(t), attempts |-> <<>>, final |-> TRUE]
  BY DEF Finish
<1>4. Finish(t) \in Trackers /\ Finish(t).final
  BY <1>1, <1>2, <1>3 DEF Trackers
<1>5. t.status # "none" => FinalStatus(t) = t.status
  BY DEF FinalStatus
<1>6. BooksAfterFinish(b, t) =
                 [requests |-> b.requests + One(t.attempts = <<>>),
                  errors |-> b.errors + One(FinalStatus(t) \in {"failed", "rejected"}),
                  usages |-> b.usages + One(FinalStatus(t) = "ok"),
                  lines |-> b.lines + 1]
  BY DEF BooksAfterFinish, One
<1>7. BooksAfterFinish(b, t) \in Ledgers
  BY <1>6 DEF Ledgers, One
<1>8. QED
  BY <1>4, <1>5, <1>6, <1>7

\* The first word settles a request: the client sees the end of it, or it has
\* left, and the books get one entry that says so.
LEMMA SettledByFinish ==
    ASSUME NEW r, NEW q, NEW t, NEW b \in Ledgers, NEW p, NEW u, NEW g,
           Sound(q, t), ~ q.ended, q.client # "gone", DOMAIN p = Fields,
           u \in Trackers, ~ u.final, Begun(u) <=> Begun(t),
           Leave(r, p, Finish(u), BooksAfterFinish(b, u), g),
           \/ /\ p.client = "there" /\ p.ended = TRUE /\ p.seen = "error"
              /\ FinalStatus(u) \in {"failed", "rejected"}
           \/ /\ p.client = "there" /\ p.ended = TRUE /\ p.seen = "answer"
              /\ FinalStatus(u) = "ok"
           \/ /\ p.client = "gone" /\ p.ended = FALSE /\ p.seen = "nothing"
              /\ FinalStatus(u) = "aborted"
    PROVE  Booked(r, q, t, b)
<1>1. ~ t.final /\ ~ Settled(q) /\ q.client = "there" /\ q.seen = "nothing"
  BY StillWanted
<1>2. /\ Finish(u) \in Trackers /\ Finish(u).final
      /\ BooksAfterFinish(b, u) \in Ledgers
      /\ BooksAfterFinish(b, u) =
                 [requests |-> b.requests + One(u.attempts = <<>>),
                  errors |-> b.errors + One(FinalStatus(u) \in {"failed", "rejected"}),
                  usages |-> b.usages + One(FinalStatus(u) = "ok"),
                  lines |-> b.lines + 1]
  BY FinishFacts
<1>3. Told(p, Finish(u))
  BY <1>2 DEF Told, Settled
<1> DEFINE c == BooksAfterFinish(b, u)
<1>4. /\ c.errors = b.errors + One(FinalStatus(u) \in {"failed", "rejected"})
      /\ c.usages = b.usages + One(FinalStatus(u) = "ok")
      /\ c.lines = b.lines + 1
      /\ c.requests = b.requests + One(u.attempts = <<>>)
      /\ c \in Ledgers
  BY <1>2
<1> HIDE DEF c
<1>5. Settled(p) /\ Begun(Finish(u))
  BY <1>2 DEF Settled, Begun
<1>6. c.requests - b.requests >= One(Begun(Finish(u))) - One(Begun(t))
  <2>1. Begun(t) <=> u.attempts # <<>>
    BY DEF Begun
  <2>2. One(Begun(Finish(u))) = 1
    BY <1>5 DEF One
  <2>3. One(Begun(t)) = 1 - One(u.attempts = <<>>)
    BY <2>1 DEF One
  <2>4. One(u.attempts = <<>>) \in {0, 1} /\ c.requests \in Nat /\ b.requests \in Nat
    BY <1>4 DEF One, Ledgers
  <2>5. QED
    BY <1>4, <2>2, <2>3, <2>4
<1>7. c.errors - b.errors = One(p.seen = "error") - One(q.seen = "error")
  BY <1>1, <1>4, SMTT(40) DEF Ledgers, One
<1>8. c.usages - b.usages = One(p.seen = "answer") - One(q.seen = "answer")
  BY <1>1, <1>4, SMTT(40) DEF Ledgers, One
<1>9. c.lines - b.lines = One(Settled(p)) - One(Settled(q))
  BY <1>1, <1>4, <1>5 DEF Ledgers, One
<1>10. Entered(q, t, b, p, Finish(u), c)
  BY <1>1, <1>4, <1>5, <1>6, <1>7, <1>8, <1>9 DEF Entered
<1>11. QED
  BY <1>2, <1>3, <1>10 DEF Booked, Leave, c

\* sendTerminalError, after the tracker was told.
LEMMA TerminalErrorBooked ==
    ASSUME NEW r, NEW q, NEW t, NEW b \in Ledgers, NEW u, NEW g, Sound(q, t),
           u \in {Fail(t), Reject(t)}, SendTerminalError(r, q, u, b, g)
    PROVE  Booked(r, q, t, b)
<1>1. DOMAIN q = Fields /\ DOMAIN Over(q) = Fields /\ SameFace(Over(q), q)
  BY OverFace DEF Sound, Told, SameFace
<1>2. t \in Trackers /\ (t.final <=> Settled(q)) /\ (~ t.final => t.status = "none")
  BY DEF Sound, Told
<1>3. u \in Trackers /\ u.final = t.final /\ u.attempts = t.attempts
  BY <1>2 DEF Trackers, Fail, SettleUnlessFinal, Reject
<1>4. SameFace(q, q)
  BY <1>1 DEF SameFace
<1>5. Entered(q, t, b, q, u, b)
  BY <1>3 DEF Entered, Ledgers, One, Begun
<1>6. CASE q.ended
  <2>1. Leave(r, Over(q), u, b, g) /\ t.final
    BY <1>6 DEF SendTerminalError, Sound
  <2>2. Sound(q, u)
    BY <1>2, <1>3, <2>1 DEF Sound, Told
  <2>3. Booked(r, q, u, b)
    BY <1>1, <2>1, <2>2, LeaveQuietly
  <2>4. QED
    BY <1>5, <2>3, EnteredTwice
<1>7. CASE ~ q.ended
  <2> DEFINE o == Over(q)
             p == [o EXCEPT !.headers = TRUE, !.ended = TRUE, !.seen = SeenBy(q, "error")]
  <2>1. Leave(r, p, Finish(u), BooksAfterFinish(b, u), g)
    BY <1>7 DEF SendTerminalError
  <2>2. o.client = q.client /\ DOMAIN o = Fields
    BY <1>1 DEF SameFace
  <2> HIDE DEF o
  <2>3. /\ DOMAIN p = Fields /\ p.client = q.client /\ p.ended = TRUE
        /\ p.seen = SeenBy(q, "error")
    BY <2>2 DEF Fields
  <2> HIDE DEF p
  <2>4. CASE t.final
    <3>1. q.client = "gone" /\ q.seen = "nothing" /\ p.seen = q.seen
      BY <1>2, <1>7, <2>3, <2>4 DEF Sound, Told, Settled, SeenBy
    <3>2. Finish(u) = u /\ BooksAfterFinish(b, u) = b
      BY <1>3, <2>4 DEF Finish, BooksAfterFinish
    <3>3. Told(p, u)
      BY <1>3, <2>3, <2>4, <3>1 DEF Told, Settled
    <3>4. Entered(q, t, b, p, u, b)
      BY <1>3, <2>3, <3>1 DEF Entered, Ledgers, One, Begun, Settled
    <3>5. QED
      BY <1>3, <2>1, <2>4, <3>2, <3>3, <3>4 DEF Booked, Leave
  <2>5. CASE ~ t.final
    <3>1. q.client = "there" /\ q.client # "gone"
      BY <1>2, <1>7, <2>5 DEF Sound, Told, Settled
    <3>2. u.status \in {"failed", "rejected"}
      BY <1>2, <2>5 DEF Fail, Reject, SettleUnlessFinal, Trackers
    <3>3. FinalStatus(u) \in {"failed", "rejected"}
      BY <3>2 DEF FinalStatus
    <3>4. Begun(u) <=> Begun(t)
      BY <1>3 DEF Begun
    <3>5. p.seen = "error"
      BY <2>3, <3>1 DEF SeenBy
    <3>6. QED
      BY <1>3, <1>7, <2>1, <2>3, <2>5, <3>1, <3>3, <3>4, <3>5, SettledByFinish
  <2>6. QED
    BY <2>4, <2>5
<1>8. QED
  BY <1>6, <1>7

\* A call, and the start of one.
LEMMA CallUpstreamBooked ==
    ASSUME NEW r, NEW q, NEW t, NEW b \in Ledgers, NEW g, Sound(q, t), CallUpstream(r, q, t, b, g)
    PROVE  Booked(r, q, t, b)
<1> DEFINE p == [q EXCEPT !.phase = "waiting", !.turn = 1 - @, !.dead = FALSE]
<1>1. SameFace(p, q)
  BY DEF SameFace, Sound, Told, Fields
<1>2. \E h : Leave(r, p, t, b, h)
  BY DEF CallUpstream
<1> HIDE DEF p
<1>3. QED
  BY <1>1, <1>2, LeaveQuietly

LEMMA StartTargetRequestBooked ==
    ASSUME NEW r, NEW q, NEW t, NEW b \in Ledgers, NEW g, Sound(q, t),
           StartTargetRequest(r, q, t, b, g)
    PROVE  Booked(r, q, t, b)
<1>0. DOMAIN q = Fields
  BY DEF Sound, Told
<1>1. CASE Leave(r, Over(q), t, b, g)
  BY <1>0, <1>1, OverFace, LeaveQuietly
<1>2. ASSUME Leave(r, [q EXCEPT !.phase = "vision", !.spare = Optional[q.key]], t, b, g)
      PROVE  Booked(r, q, t, b)
  <2> DEFINE p == [q EXCEPT !.phase = "vision", !.spare = Optional[q.key]]
  <2>1. SameFace(p, q) /\ Leave(r, p, t, b, g)
    BY <1>0, <1>2 DEF SameFace, Fields
  <2> HIDE DEF p
  <2>2. QED
    BY <2>1, LeaveQuietly
<1>3. ASSUME CallUpstream(r, [q EXCEPT !.spare = Optional[q.key]], t, b, g)
      PROVE  Booked(r, q, t, b)
  <2> DEFINE p == [q EXCEPT !.spare = Optional[q.key]]
  <2>1. SameFace(p, q) /\ CallUpstream(r, p, t, b, g)
    BY <1>0, <1>3 DEF SameFace, Fields
  <2> HIDE DEF p
  <2>2. Booked(r, p, t, b)
    BY <2>1, SameFaceIsSound, CallUpstreamBooked
  <2>3. QED
    BY <2>1, <2>2, SameFaceBooked
<1>4. QED
  BY <1>1, <1>2, <1>3 DEF StartTargetRequest

\* An attempt is begun for a request that is not settled, and counted.
LEMMA AttemptNextBooked ==
    ASSUME NEW r, NEW q, NEW t, NEW b \in Ledgers, NEW g, Sound(q, t), AttemptNext(r, q, t, b, g)
    PROVE  Booked(r, q, t, b)
<1>0. DOMAIN q = Fields /\ t \in Trackers
  BY DEF Sound, Told
<1>1. CASE Leave(r, Over(q), t, b, g)
  BY <1>0, <1>1, OverFace, LeaveQuietly
<1>2. ASSUME NEW p \in PastTheLast(r, q), SendTerminalError(r, p, Fail(t), b, g)
      PROVE  Booked(r, q, t, b)
  <2>1. SameFace(p, q)
    BY <1>0 DEF PastTheLast, SameFace, Fields
  <2>2. Booked(r, p, t, b)
    BY <1>2, <2>1, SameFaceIsSound, TerminalErrorBooked
  <2>3. QED
    BY <2>1, <2>2, SameFaceBooked
<1>3. ASSUME ~ NoLongerWanted(q), NEW i,
             StartTargetRequest(r,
                 [q EXCEPT !.idx = i, !.key = Slot[r][i], !.failed = FALSE, !.retries = 0],
                 BeginAttempt(t), RecordRequest(b), g)
      PROVE  Booked(r, q, t, b)
  <2> DEFINE p == [q EXCEPT !.idx = i, !.key = Slot[r][i], !.failed = FALSE, !.retries = 0]
             u == BeginAttempt(t)
             c == RecordRequest(b)
  <2>1. SameFace(p, q)
    BY <1>0 DEF SameFace, Fields
  <2>2. StartTargetRequest(r, p, u, c, g)
    BY <1>3
  <2>3. /\ u \in Trackers /\ u.status = t.status /\ u.final = t.final /\ Begun(u)
    BY <1>0, BeginAttemptFacts DEF Begun
  <2>4. /\ c.requests = b.requests + 1 /\ c.errors = b.errors /\ c.usages = b.usages
        /\ c.lines = b.lines /\ c \in Ledgers
    BY DEF RecordRequest, Ledgers
  <2> HIDE DEF p, u, c
  <2>5. Sound(p, u)
    BY <2>1, <2>3 DEF Sound, Told, SameFace, Settled
  <2>6. Entered(q, t, b, p, u, c)
    <3>1. c.requests - b.requests >= One(Begun(u)) - One(Begun(t))
      BY <2>4 DEF Ledgers, One
    <3>2. Settled(p) <=> Settled(q)
      BY <2>1 DEF SameFace, Settled
    <3>3. /\ p.seen = q.seen /\ p.client = q.client
          /\ One(Settled(p)) = One(Settled(q))
          /\ One(p.seen = "error") = One(q.seen = "error")
          /\ One(p.seen = "answer") = One(q.seen = "answer")
      BY <2>1, <3>2 DEF SameFace, One
    <3>4. /\ One(q.seen = "error") \in {0, 1} /\ One(q.seen = "answer") \in {0, 1}
          /\ One(Settled(q)) \in {0, 1}
      BY DEF One
    <3>5. /\ c.errors - b.errors = One(p.seen = "error") - One(q.seen = "error")
          /\ c.usages - b.usages = One(p.seen = "answer") - One(q.seen = "answer")
          /\ c.lines - b.lines = One(Settled(p)) - One(Settled(q))
      BY <2>4, <3>3, <3>4 DEF Ledgers
    <3>6. QED
      BY <2>3, <2>4, <3>1, <3>3, <3>5 DEF Entered
  <2>7. Booked(r, p, u, c)
    BY <2>2, <2>4, <2>5, StartTargetRequestBooked
  <2>8. QED
    BY <2>6, <2>7, EnteredTwice
<1>4. QED
  BY <1>1, <1>2, <1>3 DEF AttemptNext

LEMMA OnFailoverBooked ==
    ASSUME NEW r, NEW q, NEW t, NEW b \in Ledgers, NEW g, NEW failure, Sound(q, t),
           OnFailover(r, q, t, b, g, failure)
    PROVE  Booked(r, q, t, b)
<1>0. DOMAIN q = Fields /\ t \in Trackers
  BY DEF Sound, Told
<1>1. CASE Leave(r, Over(q), t, b, g)
  BY <1>0, <1>1, OverFace, LeaveQuietly
<1>2. ASSUME Leave(r, [q EXCEPT !.phase = "delay", !.retries = @ + 1, !.timers = {"retry"}],
                   t, b, g)
      PROVE  Booked(r, q, t, b)
  <2> DEFINE p == [q EXCEPT !.phase = "delay", !.retries = @ + 1, !.timers = {"retry"}]
  <2>1. SameFace(p, q) /\ Leave(r, p, t, b, g)
    BY <1>0, <1>2 DEF SameFace, Fields
  <2> HIDE DEF p
  <2>2. QED
    BY <2>1, LeaveQuietly
<1>3. ASSUME AttemptNext(r, [q EXCEPT !.failed = TRUE], EndAttempt(t, "failed"), b, g)
      PROVE  Booked(r, q, t, b)
  <2> DEFINE p == [q EXCEPT !.failed = TRUE]
             u == EndAttempt(t, "failed")
  <2>1. SameFace(p, q) /\ AttemptNext(r, p, u, b, g)
    BY <1>0, <1>3 DEF SameFace, Fields
  <2>2. /\ u \in Trackers /\ u.status = t.status /\ u.final = t.final /\ (Begun(u) <=> Begun(t))
    BY <1>0, EndAttemptFacts DEF Begun
  <2> HIDE DEF p, u
  <2>3. Sound(p, u)
    BY <2>1, <2>2 DEF Sound, Told, SameFace, Settled
  <2>4. Entered(q, t, b, p, u, b)
    BY <2>1, <2>2 DEF Entered, SameFace, Settled, Ledgers, One
  <2>5. Booked(r, p, u, b)
    BY <2>1, <2>3, AttemptNextBooked
  <2>6. QED
    BY <2>4, <2>5, EnteredTwice
<1>4. QED
  BY <1>1, <1>2, <1>3 DEF OnFailover

\* The answer is complete.  The tracker has an open attempt, or the process
\* ends here.
LEMMA CompleteBooked ==
    ASSUME NEW r, NEW q, NEW p, NEW g, Sound(q, tracker[r]), books \in Ledgers,
           SameFace(p, q), Complete(r, p, g)
    PROVE  Booked(r, q, tracker[r], books)
<1> DEFINE t == tracker[r]
           b == books
<1>0. t \in Trackers /\ DOMAIN p = Fields /\ Sound(p, t)
  BY SameFaceIsSound DEF Sound, Told, SameFace
<1>1. CASE Leave(r, p, t, b, g)
  BY <1>1, LeaveQuietly
<1>2. ASSUME ~ p.ended, ~ EndAttemptThrows(t),
             Leave(r, [p EXCEPT !.ended = TRUE, !.seen = SeenBy(p, "answer")],
                   Finish(EndAttempt(t, "ok")), BooksAfterFinish(b, EndAttempt(t, "ok")), g)
      PROVE  Booked(r, q, t, b)
  <2> DEFINE o == [p EXCEPT !.ended = TRUE, !.seen = SeenBy(p, "answer")]
             u == EndAttempt(t, "ok")
  <2>1. ~ t.final /\ t.attempts # <<>>
    BY <1>2 DEF EndAttemptThrows, HasOpenAttempt
  <2>2. /\ u \in Trackers /\ u.status = t.status /\ u.final = t.final
        /\ u.attempts = [t.attempts EXCEPT ![Len(t.attempts)] = "ok"]
        /\ Begun(u) <=> Begun(t)
    BY <1>0, EndAttemptFacts DEF Begun
  <2>3. t.status = "none" /\ p.client = "there" /\ p.seen = "nothing"
    BY <1>0, <1>2, <2>1 DEF Sound, Told, Settled
  <2>4. "ok" \in ToSet(u.attempts)
    <3>1. t.attempts \in Seq({"pending", "ok", "failed", "skipped"})
      BY <1>0 DEF Trackers
    <3>2. Len(t.attempts) \in DOMAIN t.attempts /\ Len(t.attempts) \in DOMAIN u.attempts
      BY <2>1, <2>2, <3>1
    <3>3. u.attempts[Len(t.attempts)] = "ok"
      BY <2>2, <3>2
    <3>4. QED
      BY <3>2, <3>3 DEF ToSet
  <2>5. FinalStatus(u) = "ok"
    BY <2>2, <2>3, <2>4 DEF FinalStatus
  <2>6. /\ DOMAIN o = Fields /\ o.client = "there" /\ o.ended = TRUE /\ o.seen = "answer"
    BY <1>0, <2>3 DEF Fields, SeenBy
  <2>7. Leave(r, o, Finish(u), BooksAfterFinish(b, u), g)
    BY <1>2
  <2> HIDE DEF o, u
  <2>8. Booked(r, p, t, b)
    BY <1>0, <1>2, <2>1, <2>2, <2>3, <2>5, <2>6, <2>7, SettledByFinish
  <2>9. QED
    BY <2>8, SameFaceBooked
<1>3. ASSUME Leave(r, [p EXCEPT !.ended = TRUE], t, b, g), crashed' = TRUE
      PROVE  Booked(r, q, t, b)
  <2> DEFINE o == [p EXCEPT !.ended = TRUE]
  <2>1. /\ DOMAIN o = Fields /\ o.ended = TRUE
        /\ o.client = p.client /\ o.seen = p.seen
    BY <1>0 DEF Fields
  <2>2. Leave(r, o, t, b, g)
    BY <1>3
  <2> HIDE DEF o
  <2>3. Told(o, t)
    BY <1>0, <2>1 DEF Sound, Told, Settled
  <2>4. Entered(q, t, b, o, t, b)
    BY <2>1 DEF Entered, SameFace, Settled, Ledgers, One
  <2>5. QED
    BY <1>3, <2>2, <2>3, <2>4 DEF Booked, Leave
<1>4. QED
  BY <1>1, <1>2, <1>3 DEF Complete

\* One more member, or none, and the set is counted.
LEMMA OneMore ==
    ASSUME NEW S, NEW T, NEW r, IsFiniteSet(S), S \subseteq T, T \subseteq S \cup {r}
    PROVE  /\ IsFiniteSet(T)
           /\ Cardinality(T) \in Nat /\ Cardinality(S) \in Nat
           /\ Cardinality(T) - Cardinality(S) = One(r \in T) - One(r \in S)
<1>1. CASE r \in S \/ r \notin T
  <2>1. T = S /\ (r \in T <=> r \in S)
    BY <1>1
  <2>2. QED
    BY <2>1, FS_CardinalityType DEF One
<1>2. CASE r \notin S /\ r \in T
  <2>1. T = S \cup {r}
    BY <1>2
  <2>2. IsFiniteSet(T) /\ Cardinality(T) = Cardinality(S) + 1
    BY <1>2, <2>1, FS_AddElement
  <2>3. QED
    BY <1>2, <2>2, FS_CardinalityType DEF One
<1>3. QED
  BY <1>1, <1>2

\* A handler that leaves the books in order keeps them so.
LEMMA BookedKeepsBooks ==
    ASSUME BInv, ~ crashed, NEW r \in Requests, Booked(r, req[r], tracker[r], books)
    PROVE  BInv'
<1> DEFINE q == req[r]
           t == tracker[r]
           b == books
<1>0. PICK p, u :
          /\ req' = [req EXCEPT ![r] = p]
          /\ tracker' = [tracker EXCEPT ![r] = u]
          /\ Told(p, u) /\ (p.ended /\ ~ crashed' => u.final)
          /\ Entered(q, t, b, p, u, books')
  BY DEF Booked
<1>1. /\ req' = [s \in Requests |-> req'[s]]
      /\ req'[r] = p /\ \A s \in Requests : s # r => req'[s] = req[s]
      /\ tracker' \in [Requests -> Trackers]
      /\ tracker'[r] = u /\ \A s \in Requests : s # r => tracker'[s] = tracker[s]
  BY <1>0 DEF BInv, Told
<1>2. \A s \in Requests :
          /\ Told(req'[s], tracker'[s])
          /\ req'[s].ended /\ ~ crashed' => tracker'[s].final
  BY <1>0, <1>1 DEF BInv
<1>3. /\ \A s \in Requests : Settled(req[s]) => Begun(tracker[s])
      /\ \A s \in Requests : req[s].seen # "nothing" => Settled(req[s])
      /\ q.seen # "nothing" => q.client # "gone"
      /\ DOMAIN q = Fields
  BY DEF BInv, Told, Settled, Begun
<1>4. /\ IsFiniteSet(BegunRequests) /\ IsFiniteSet(SettledRequests)
      /\ IsFiniteSet(Saw("error")) /\ IsFiniteSet(Saw("answer"))
  <2>1. SettledRequests \subseteq BegunRequests /\ Saw("error") \subseteq SettledRequests /\ Saw("answer") \subseteq SettledRequests
    BY <1>3 DEF BegunRequests, SettledRequests, Saw
  <2>2. QED
    BY <2>1, FS_Subset DEF BInv
<1>5. /\ BegunRequests \subseteq BegunRequests' /\ BegunRequests' \subseteq BegunRequests \cup {r}
      /\ r \in BegunRequests' <=> Begun(u)
      /\ r \in BegunRequests <=> Begun(t)
  BY <1>0, <1>1 DEF BegunRequests, Entered
<1>6. ASSUME NEW what \in {"error", "answer"}
      PROVE  /\ Saw(what) \subseteq Saw(what)' /\ Saw(what)' \subseteq Saw(what) \cup {r}
             /\ r \in Saw(what)' <=> p.seen = what
             /\ r \in Saw(what) <=> q.seen = what
  BY <1>0, <1>1 DEF Saw, Entered
<1>7. /\ SettledRequests \subseteq SettledRequests' /\ SettledRequests' \subseteq SettledRequests \cup {r}
      /\ r \in SettledRequests' <=> Settled(p)
      /\ r \in SettledRequests <=> Settled(q)
  <2>1. Settled(q) => Settled(p)
    BY <1>0 DEF Entered, Settled
  <2>2. QED
    BY <1>1, <2>1 DEF SettledRequests
<1>8. /\ IsFiniteSet(BegunRequests')
      /\ Cardinality(BegunRequests') \in Nat /\ Cardinality(BegunRequests) \in Nat
      /\ Cardinality(BegunRequests') - Cardinality(BegunRequests) = One(Begun(u)) - One(Begun(t))
  BY <1>4, <1>5, OneMore DEF One
<1>9. ASSUME NEW what \in {"error", "answer"}
      PROVE  /\ Cardinality(Saw(what)') \in Nat /\ Cardinality(Saw(what)) \in Nat
             /\ Cardinality(Saw(what)') - Cardinality(Saw(what)) = One(p.seen = what) - One(q.seen = what)
  BY <1>4, <1>6, OneMore DEF One
<1>10. /\ Cardinality(SettledRequests') \in Nat /\ Cardinality(SettledRequests) \in Nat
       /\ Cardinality(SettledRequests') - Cardinality(SettledRequests) = One(Settled(p)) - One(Settled(q))
  BY <1>4, <1>7, OneMore DEF One
<1>11. books' \in Ledgers /\ books \in Ledgers
  BY <1>0 DEF Entered, BInv
<1>12. /\ books'.errors - b.errors = One(p.seen = "error") - One(q.seen = "error")
       /\ books'.usages - b.usages = One(p.seen = "answer") - One(q.seen = "answer")
       /\ books'.lines - b.lines = One(Settled(p)) - One(Settled(q))
       /\ books'.requests - b.requests >= One(Begun(u)) - One(Begun(t))
  BY <1>0 DEF Entered
<1>13. /\ b.errors \in Nat /\ b.usages \in Nat /\ b.lines \in Nat /\ b.requests \in Nat
       /\ books'.errors \in Nat /\ books'.usages \in Nat /\ books'.lines \in Nat
       /\ books'.requests \in Nat
  BY <1>11 DEF Ledgers
<1>14. /\ b.errors = Cardinality(Saw("error")) /\ b.usages = Cardinality(Saw("answer"))
       /\ b.lines = Cardinality(SettledRequests) /\ b.requests >= Cardinality(BegunRequests)
  BY DEF BInv
<1>15. /\ books'.errors = Cardinality(Saw("error")')
       /\ books'.usages = Cardinality(Saw("answer")')
       /\ books'.lines = Cardinality(SettledRequests')
       /\ books'.requests >= Cardinality(BegunRequests')
  <2>1. \A P \in BOOLEAN : One(P) \in {0, 1}
    BY DEF One
  <2> HIDE DEF q, t, b
  <2>2. books'.errors = Cardinality(Saw("error")')
    BY <1>9, <1>12, <1>13, <1>14, <2>1
  <2>3. books'.usages = Cardinality(Saw("answer")')
    BY <1>9, <1>12, <1>13, <1>14, <2>1
  <2>4. /\ One(Begun(u)) \in {0, 1} /\ One(Begun(t)) \in {0, 1}
        /\ One(Settled(p)) \in {0, 1} /\ One(Settled(q)) \in {0, 1}
    BY DEF One
  <2>5. books'.lines = Cardinality(SettledRequests')
    <3> DEFINE now == One(Settled(p))
               then == One(Settled(q))
    <3>1. now \in Int /\ then \in Int
      BY <2>4
    <3>2. Cardinality(SettledRequests') - Cardinality(SettledRequests) = now - then /\ books'.lines - b.lines = now - then
      BY <1>10, <1>12
    <3> HIDE DEF now, then
    <3>3. QED
      BY <1>10, <1>13, <1>14, <3>1, <3>2
  <2>6. books'.requests >= Cardinality(BegunRequests')
    BY <1>8, <1>12, <1>13, <1>14, <2>4
  <2>7. QED
    BY <2>2, <2>3, <2>5, <2>6
<1>16. QED
  BY <1>1, <1>2, <1>8, <1>11, <1>15 DEF BInv

\* What holds of a request when one of its handlers begins.
LEMMA BookedBegins ==
    ASSUME BInv, ~ crashed, NEW r \in Requests
    PROVE  /\ Sound(req[r], tracker[r]) /\ DOMAIN req[r] = Fields /\ books \in Ledgers
           /\ tracker[r] \in Trackers
BY DEF BInv, Sound, Told

LEMMA HungFace ==
    ASSUME NEW r, DOMAIN req[r] = Fields
    PROVE  SameFace(Hung(r), req[r])
BY DEF SameFace, Hung, Fields

\* The handlers of the request itself.
LEMMA HandlersBooked ==
    ASSUME BInv, ~ crashed, NEW r \in Requests,
           Arrive(r) \/ Refuse(r) \/ VisionEnds(r) \/ Issue(r) \/ RetryTimer(r)
    PROVE  Booked(r, req[r], tracker[r], books)
<1> DEFINE q == req[r]
           t == tracker[r]
<1>0. Sound(q, t) /\ DOMAIN q = Fields /\ books \in Ledgers
  BY BookedBegins
<1>1. ASSUME NEW p, NEW g, SameFace(p, q),
             \/ AttemptNext(r, p, t, books, g) \/ StartTargetRequest(r, p, t, books, g)
             \/ CallUpstream(r, p, t, books, g) \/ Leave(r, p, t, books, g)
      PROVE  Booked(r, q, t, books)
  <2>1. Sound(p, t)
    BY <1>0, <1>1, SameFaceIsSound
  <2>2. CASE Leave(r, p, t, books, g)
    BY <1>0, <1>1, <2>2, LeaveQuietly
  <2>3. CASE ~ Leave(r, p, t, books, g)
    <3>1. Booked(r, p, t, books)
      BY <1>0, <1>1, <2>1, <2>3, AttemptNextBooked, StartTargetRequestBooked, CallUpstreamBooked
    <3>2. QED
      BY <1>0, <1>1, <3>1, SameFaceBooked
  <2>4. QED
    BY <2>2, <2>3
<1>2. CASE Arrive(r)
  <2>1. PICK route : AttemptNext(r, [q EXCEPT !.route = route], t, books, gate)
    BY <1>2 DEF Arrive
  <2>2. SameFace([q EXCEPT !.route = route], q)
    BY <1>0 DEF SameFace, Fields
  <2>3. QED
    BY <1>1, <2>1, <2>2
<1>3. CASE Refuse(r)
  BY <1>0, <1>3, TerminalErrorBooked DEF Refuse
<1>4. CASE VisionEnds(r)
  BY <1>0, <1>4, CallUpstreamBooked, TerminalErrorBooked DEF VisionEnds
<1>5. CASE Issue(r)
  <2>1. ASSUME Leave(r, [q EXCEPT !.phase = "sent", !.timers = {"hard", "ttfb"}], t, books, gate)
        PROVE  Booked(r, q, t, books)
    <3>1. SameFace([q EXCEPT !.phase = "sent", !.timers = {"hard", "ttfb"}], q)
      BY <1>0 DEF SameFace, Fields
    <3>2. QED
      BY <1>1, <2>1, <3>1
  <2>2. ASSUME AttemptNext(r, [q EXCEPT !.failed = TRUE], t, books, gate)
        PROVE  Booked(r, q, t, books)
    <3>1. SameFace([q EXCEPT !.failed = TRUE], q)
      BY <1>0 DEF SameFace, Fields
    <3>2. QED
      BY <1>1, <2>2, <3>1
  <2>3. QED
    BY <1>5, <2>1, <2>2 DEF Issue
<1>6. CASE RetryTimer(r)
  <2>1. SameFace([q EXCEPT !.timers = {}], q)
    BY <1>0 DEF SameFace, Fields
  <2>2. QED
    BY <1>1, <1>6, <2>1 DEF RetryTimer
<1>7. QED
  BY <1>2, <1>3, <1>4, <1>5, <1>6

\* Handlers that only note something about the connection.
LEMMA NotesBooked ==
    ASSUME BInv, ~ crashed, NEW r \in Requests,
           \/ Respond200(r) \/ RespondError(r) \/ ErrorBodyCut(r) \/ WatchdogKills(r) \/ LateClose(r)
    PROVE  Booked(r, req[r], tracker[r], books)
<1> DEFINE q == req[r]
           t == tracker[r]
<1>0. Sound(q, t) /\ DOMAIN q = Fields /\ books \in Ledgers
  BY BookedBegins
<1>1. ASSUME NEW p, SameFace(p, q), req' = [req EXCEPT ![r] = p], UNCHANGED <<tracker, books>>
      PROVE  Booked(r, q, t, books)
  <2>1. tracker' = [tracker EXCEPT ![r] = t]
    BY <1>1 DEF BInv
  <2>2. Leave(r, p, t, books, gate')
    BY <1>1, <2>1 DEF Leave
  <2>3. QED
    BY <1>0, <1>1, <2>2, LeaveQuietly
<1>2. CASE Respond200(r)
  <2> DEFINE p == [q EXCEPT !.phase = "stream", !.headers = TRUE, !.timers = Watched(@)]
  <2>1. SameFace(p, q)
    BY <1>0 DEF SameFace, Fields
  <2>2. req' = [req EXCEPT ![r] = p] /\ UNCHANGED <<tracker, books>>
    BY <1>2 DEF Respond200, OnlyRequest
  <2>3. QED
    BY <1>1, <2>1, <2>2
<1>3. CASE RespondError(r)
  <2> DEFINE p == [q EXCEPT !.phase = "errbody", !.timers = Watched(@) \cup {"body"}]
  <2>1. SameFace(p, q)
    BY <1>0 DEF SameFace, Fields
  <2>2. req' = [req EXCEPT ![r] = p] /\ UNCHANGED <<tracker, books>>
    BY <1>3 DEF RespondError, OnlyRequest
  <2>3. QED
    BY <1>1, <2>1, <2>2
<1>4. CASE ErrorBodyCut(r)
  <2> DEFINE p == [Hung(r) EXCEPT !.phase = "stranded"]
  <2>1. SameFace(p, q)
    BY <1>0, HungFace DEF SameFace, Fields
  <2>2. Leave(r, p, t, books, GateWithout(r))
    BY <1>4 DEF ErrorBodyCut
  <2>3. QED
    BY <1>0, <2>1, <2>2, LeaveQuietly
<1>5. CASE WatchdogKills(r)
  <2> DEFINE p == [q EXCEPT !.dead = TRUE, !.timers = @ \ {"hard", "ttfb", "idle"}]
  <2>1. SameFace(p, q)
    BY <1>0 DEF SameFace, Fields
  <2>2. req' = [req EXCEPT ![r] = p] /\ UNCHANGED <<tracker, books>>
    BY <1>5 DEF WatchdogKills, OnlyRequest
  <2>3. QED
    BY <1>1, <2>1, <2>2
<1>6. CASE LateClose(r)
  <2> DEFINE p == [q EXCEPT !.late = {}]
  <2>1. SameFace(p, q)
    BY <1>0 DEF SameFace, Fields
  <2>2. req' = [req EXCEPT ![r] = p] /\ UNCHANGED <<tracker, books>>
    BY <1>6 DEF LateClose
  <2>3. QED
    BY <1>1, <2>1, <2>2
<1>7. QED
  BY <1>2, <1>3, <1>4, <1>5, <1>6

\* A connection that fails.
LEMMA FailuresBooked ==
    ASSUME BInv, ~ crashed, NEW r \in Requests, Fails(r) \/ ConnectionError(r)
    PROVE  Booked(r, req[r], tracker[r], books)
<1> DEFINE q == req[r]
           t == tracker[r]
<1>0. Sound(q, t) /\ DOMAIN q = Fields /\ books \in Ledgers
  BY BookedBegins
<1>1. SameFace(Hung(r), q) /\ Sound(Hung(r), t)
  BY <1>0, HungFace, SameFaceIsSound
<1>2. ASSUME NEW failure, OnFailover(r, Hung(r), t, books, GateWithout(r), failure)
      PROVE  Booked(r, q, t, books)
  <2>1. Booked(r, Hung(r), t, books)
    BY <1>0, <1>1, <1>2, OnFailoverBooked
  <2>2. QED
    BY <1>0, <1>1, <2>1, SameFaceBooked
<1>3. ASSUME CallUpstream(r, [Hung(r) EXCEPT !.spare = @ - 1], t, books, GateWithout(r))
      PROVE  Booked(r, q, t, books)
  <2> DEFINE p == [Hung(r) EXCEPT !.spare = @ - 1]
  <2>1. SameFace(p, q)
    BY <1>1 DEF SameFace, Fields
  <2>2. Booked(r, p, t, books)
    <3>1. Sound(p, t)
      BY <1>0, <2>1, SameFaceIsSound
    <3> HIDE DEF p
    <3>2. QED
      BY <1>0, <1>3, <3>1, CallUpstreamBooked DEF p
  <2>3. QED
    BY <1>0, <2>1, <2>2, SameFaceBooked
<1>4. ASSUME SendTerminalError(r, Hung(r), Fail(t), books, GateWithout(r))
      PROVE  Booked(r, q, t, books)
  <2>1. Booked(r, Hung(r), t, books)
    BY <1>0, <1>1, <1>4, TerminalErrorBooked
  <2>2. QED
    BY <1>0, <1>1, <2>1, SameFaceBooked
<1>5. QED
  BY <1>2, <1>3, <1>4 DEF Fails, ConnectionError

\* An answer that is complete, and the client.
LEMMA AnswersBooked ==
    ASSUME BInv, ~ crashed, NEW r \in Requests, StreamCompletes(r) \/ StreamEnds(r)
    PROVE  Booked(r, req[r], tracker[r], books)
<1>0. Sound(req[r], tracker[r]) /\ DOMAIN req[r] = Fields /\ books \in Ledgers
  BY BookedBegins
<1>1. SameFace(req[r], req[r])
  BY <1>0 DEF SameFace
<1>2. SameFace(Over(Hung(r)), req[r])
  BY <1>0, HungFace, OverFace DEF SameFace
<1>3. QED
  BY <1>0, <1>1, <1>2, CompleteBooked DEF StreamCompletes, StreamEnds

LEMMA ClientBooked ==
    ASSUME BInv, ~ crashed, NEW r \in Requests, ClientLeaves(r) \/ ResponseCloses(r)
    PROVE  Booked(r, req[r], tracker[r], books)
<1> DEFINE q == req[r]
           t == tracker[r]
<1>0. Sound(q, t) /\ DOMAIN q = Fields /\ books \in Ledgers /\ t \in Trackers
  BY BookedBegins
<1>1. CASE ClientLeaves(r)
  <2> DEFINE p == [q EXCEPT !.client = "gone", !.timers = @ \ {"retry"},
                            !.dead = @ \/ Connected(r)]
             o == IF p.phase \in {"delay", "stranded"} THEN Over(p) ELSE p
             u == Abort(t)
  <2>1. ~ q.ended /\ q.client = "there" /\ Leave(r, o, Finish(u), BooksAfterFinish(books, u), gate)
    BY <1>1 DEF ClientLeaves
  <2>2. ~ t.final /\ t.status = "none" /\ q.ended = FALSE /\ q.seen = "nothing"
    BY <1>0, <2>1, StillWanted DEF Sound, Told
  <2>3. u \in Trackers /\ ~ u.final /\ u.status = "aborted" /\ u.attempts = t.attempts
    BY <1>0, <2>2 DEF Abort, SettleUnlessFinal, Trackers
  <2>4. FinalStatus(u) = "aborted"
    BY <2>3 DEF FinalStatus
  <2>5. /\ DOMAIN p = Fields /\ p.client = "gone" /\ p.ended = FALSE /\ p.seen = "nothing"
    BY <1>0, <2>2 DEF Fields
  <2> HIDE DEF p
  <2>6. /\ DOMAIN o = Fields /\ o.client = "gone" /\ o.ended = FALSE /\ o.seen = "nothing"
    BY <2>5, OverFace DEF SameFace
  <2> HIDE DEF o, u
  <2>7. Begun(u) <=> Begun(t)
    BY <2>2, <2>3 DEF Begun
  <2>8. QED
    BY <1>0, <2>1, <2>3, <2>4, <2>6, <2>7, SettledByFinish
<1>2. CASE ResponseCloses(r)
  <2> DEFINE p == [q EXCEPT !.client = "closed"]
  <2>1. /\ req' = [req EXCEPT ![r] = p] /\ UNCHANGED <<tracker, books>>
        /\ q.client = "there" /\ q.ended
    BY <1>2 DEF ResponseCloses
  <2>2. /\ DOMAIN p = Fields /\ p.client = "closed" /\ p.seen = q.seen /\ p.ended = q.ended
    BY <1>0 DEF Fields
  <2> HIDE DEF p
  <2>3. Told(p, t) /\ t.final
    BY <1>0, <2>1, <2>2 DEF Sound, Told, Settled
  <2>4. Entered(q, t, books, p, t, books)
    BY <1>0, <2>1, <2>2 DEF Entered, Settled, Ledgers, One
  <2>5. tracker' = [tracker EXCEPT ![r] = t]
    BY <2>1 DEF BInv
  <2>6. QED
    BY <2>1, <2>3, <2>4, <2>5 DEF Booked
<1>3. QED
  BY <1>1, <1>2

LEMMA BInvInit == Init => BInv
<1> SUFFICES ASSUME Init PROVE BInv
  OBVIOUS
<1>1. /\ DOMAIN NewRequest = Fields /\ NewRequest.client = "there"
      /\ NewRequest.seen = "nothing" /\ NewRequest.ended = FALSE
  BY DEF NewRequest, Fields
<1>2. NewTracker \in Trackers /\ ~ NewTracker.final /\ NewTracker.status = "none"
      /\ NewTracker.attempts = <<>>
  BY DEF NewTracker, Trackers
<1>3. Told(NewRequest, NewTracker)
  BY <1>1, <1>2 DEF Told, Settled
<1>4. BegunRequests = {} /\ Saw("error") = {} /\ Saw("answer") = {} /\ SettledRequests = {}
  BY <1>1, <1>2 DEF Init, BegunRequests, Saw, SettledRequests, Begun, Settled
<1>5. IsFiniteSet({}) /\ Cardinality({}) = 0
  BY FS_EmptySet
<1>6. books \in Ledgers /\ books.errors = 0 /\ books.usages = 0 /\ books.lines = 0
      /\ books.requests = 0
  BY DEF Init, NewBooks, Ledgers
<1>7. /\ req = [r \in Requests |-> req[r]] /\ tracker \in [Requests -> Trackers]
      /\ \A r \in Requests : req[r] = NewRequest /\ tracker[r] = NewTracker
  BY <1>2 DEF Init
<1>8. QED
  BY <1>1, <1>3, <1>4, <1>5, <1>6, <1>7 DEF BInv

LEMMA BInvStep == BInv /\ [Next]_vars => BInv'
<1> SUFFICES ASSUME BInv, [Next]_vars PROVE BInv'
  OBVIOUS
<1>1. CASE UNCHANGED <<req, tracker, books, crashed>>
  BY <1>1 DEF BInv, BegunRequests, Saw, SettledRequests
<1>2. ASSUME NEW r \in Requests, RequestStep(r)
      PROVE  BInv'
  <2>1. ~ crashed
    BY <1>2 DEF RequestStep, Arrive, Refuse, VisionEnds, Issue, Respond200, RespondError,
                ErrorBodyEnds, ErrorBodyTimer, ErrorBodyCut, StreamCompletes, StreamEnds,
                ConnectionFails, WatchdogKills, DestroyedReports, LateClose, RetryTimer,
                ClientLeaves, ResponseCloses, Alive, NextEvent
  <2>2. Booked(r, req[r], tracker[r], books)
    BY <1>2, <2>1, HandlersBooked, NotesBooked, FailuresBooked, AnswersBooked, ClientBooked
    DEF RequestStep, ErrorBodyEnds, ErrorBodyTimer, ConnectionFails, DestroyedReports
  <2>3. QED
    BY <2>1, <2>2, BookedKeepsBooks
<1>3. QED
  BY <1>1, <1>2 DEF Next, vars, CooldownExpires, ConfigIsReadAgain

\* The counters of stats.js and the lines of the ledger are those of what the
\* clients saw.
THEOREM BooksAreTruthfulTheorem == Spec => []BooksAreTruthful
<1>1. BInv => BooksAreTruthful
  <2> SUFFICES ASSUME BInv PROVE BooksAreTruthful
    OBVIOUS
  <2>1. SettledRequests = Saw("error") \cup Saw("answer") \cup {r \in Requests : req[r].client = "gone"}
    BY DEF BInv, Told, Settled, SettledRequests, Saw
  <2>2. SettledRequests \subseteq BegunRequests
    BY DEF BInv, Told, Begun, SettledRequests, BegunRequests
  <2>3. Cardinality(SettledRequests) <= Cardinality(BegunRequests) /\ Cardinality(BegunRequests) \in Nat /\ Cardinality(SettledRequests) \in Nat
    BY <2>2, FS_Subset, FS_CardinalityType DEF BInv
  <2>4. books.requests >= books.lines
    BY <2>3 DEF BInv, Ledgers
  <2>5. QED
    BY <2>1, <2>4 DEF BooksAreTruthful, BInv, Saw
<1>2. QED
  BY <1>1, BInvInit, BInvStep, PTL DEF Spec

=============================================================================
