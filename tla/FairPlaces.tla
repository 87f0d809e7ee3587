----------------------------- MODULE FairPlaces -----------------------------
(***************************************************************************)
(* What a concurrency limit promises ("Per-key concurrency gate. Serializes *)
(* excess callers with a FIFO wait queue", above createConcurrencyGate in   *)
(* sidecar/lib/upstream-watchdog.js).  Each key has Places places.  Callers *)
(* enter in the order in which they came, at most Places of them are inside *)
(* at a time, and nobody waits while a place is free.                       *)
(*                                                                          *)
(* There are no counters, closures or promises here; ConcurrencyGate has    *)
(* them, and the specification of the requests that use it implements this  *)
(* one.                                                                     *)
(***************************************************************************)
EXTENDS Naturals, Sequences, FiniteSets

CONSTANTS Keys,     \* what the limit is per
          Callers,  \* who may ask for a place
          Places    \* how many may be inside at a time, for one key

VARIABLE room       \* key -> who is inside (a set) and who waits (first come first)

Empty == [inside |-> {}, queue |-> <<>>]

Init == room = [k \in Keys |-> Empty]

\* A caller comes; it waits only if every place is taken.
AfterComing(place, c) ==
    IF Cardinality(place.inside) < Places
      THEN [inside |-> place.inside \cup {c}, queue |-> place.queue]
      ELSE [inside |-> place.inside, queue |-> Append(place.queue, c)]

\* A caller goes; whoever has waited longest takes its place.
AfterGoing(place, c) ==
    IF place.queue = <<>>
      THEN [inside |-> place.inside \ {c}, queue |-> place.queue]
      ELSE [inside |-> (place.inside \ {c}) \cup {Head(place.queue)},
            queue |-> Tail(place.queue)]

IsNew(place, c) ==
    /\ c \notin place.inside
    /\ \A i \in 1 .. Len(place.queue) : place.queue[i] # c

Coming(before, after, k, c) ==
    /\ IsNew(before[k], c)
    /\ after = [before EXCEPT ![k] = AfterComing(@, c)]

Come == \E k \in Keys, c \in Callers : Coming(room, room', k, c)

Go == \E k \in Keys : \E c \in room[k].inside :
          room' = [room EXCEPT ![k] = AfterGoing(@, c)]

\* A caller goes and another comes in its stead, to the same key or to
\* another one.
GoAndCome ==
    \E j \in Keys : \E c \in room[j].inside :
        \E k \in Keys, d \in Callers :
            Coming([room EXCEPT ![j] = AfterGoing(@, c)], room', k, d)

Next == room' # room /\ (Come \/ Go \/ GoAndCome)

Spec == Init /\ [][Next]_room

=============================================================================
