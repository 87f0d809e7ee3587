-------------------------- MODULE ConcurrencyGate --------------------------
(***************************************************************************)
(* createConcurrencyGate of sidecar/lib/upstream-watchdog.js, and the       *)
(* once-only closure the stream functions of handlers/chat.js wrap around   *)
(* the release function it returns.                                         *)
(*                                                                          *)
(* A gate maps each key to a bucket: the counter active, the callers who    *)
(* wait, and open, the callers whose release function has been handed out   *)
(* and not called yet (released is false in their closure).  A bucket that  *)
(* the code deletes is one whose counter is 0 and whose queue is empty.     *)
(***************************************************************************)
EXTENDS Naturals, Sequences, FiniteSets

CONSTANTS Keys,     \* provider, host and model (providerGateKey)
          Callers,  \* one for each call of acquire
          Places    \* maxInflight; 0, which turns the gate off, is not modelled

NewBucket == [active |-> 0, wait |-> <<>>, open |-> {}]

NewGate == [k \in Keys |-> NewBucket]

\* Mutant of Acquired: the bucket may go one above the limit.
AcquiredOneMore(gate, k, c) ==
    IF gate[k].active > Places
      THEN [gate EXCEPT ![k].wait = Append(@, c)]
      ELSE [gate EXCEPT ![k].active = @ + 1, ![k].open = @ \cup {c}]

\* acquire(key), up to its await: the caller has a place or waits in line.
Acquired(gate, k, c) ==
    IF gate[k].active >= Places
      THEN [gate EXCEPT ![k].wait = Append(@, c)]
      ELSE [gate EXCEPT ![k].active = @ + 1, ![k].open = @ \cup {c}]

\* Math.max(0, b.active - 1)
OneLess(active) == IF active > 0 THEN active - 1 ELSE 0

\* Mutant of Released: the place stays counted when nobody waits for it.
ReleasedToNobody(gate, k) ==
    IF gate[k].wait = <<>>
      THEN gate
      ELSE [gate EXCEPT ![k].wait = Tail(@),
                        ![k].open = @ \cup {Head(gate[k].wait)}]

\* release(key): the place goes to the caller who has waited longest.
Released(gate, k) ==
    LET b == gate[k]
    IN  [gate EXCEPT ![k] =
            IF b.wait = <<>>
              THEN [active |-> OneLess(b.active), wait |-> <<>>, open |-> b.open]
              ELSE [active |-> OneLess(b.active) + 1, wait |-> Tail(b.wait),
                    open |-> b.open \cup {Head(b.wait)}]]

\* Mutant of Freed: the closure releases each time it is called.
FreedAgain(gate, k, c) ==
    Released([gate EXCEPT ![k].open = @ \ {c}], k)

\* The closure that acquire returned to c is called: once it releases, after
\* that it does nothing.
Freed(gate, k, c) ==
    IF c \in gate[k].open
      THEN Released([gate EXCEPT ![k].open = @ \ {c}], k)
      ELSE gate

=============================================================================
