---------------------------- MODULE OrderedInbox ----------------------------
(***************************************************************************)
(* cursor-core/src/cursor/transport/inbox.rs: OrderedInbox, which turns     *)
(* append messages that arrive in any order, some of them more than once,   *)
(* into the sequence the client numbered.                                   *)
(*                                                                          *)
(* An inbox is a record: next is the sequence number to release next,       *)
(* pending maps the sequence numbers that wait for it to their values.      *)
(***************************************************************************)
EXTENDS Naturals, Sequences, FiniteSets

\* OrderedInbox::starting_at
StartingAt(first) == [next |-> first, pending |-> <<>>]

\* seqno < self.next || self.pending.contains_key(&seqno)
Ignored(inbox, seqno) ==
    seqno < inbox.next \/ seqno \in DOMAIN inbox.pending

\* self.pending.insert(seqno, value)
Insert(inbox, seqno, value) ==
    [inbox EXCEPT !.pending =
        [s \in DOMAIN inbox.pending \cup {seqno} |->
            IF s = seqno THEN value ELSE inbox.pending[s]]]

\* Mutant of NextGap: only one message is released.
AtMostOne(inbox) ==
    inbox.next + (IF inbox.next \in DOMAIN inbox.pending THEN 1 ELSE 0)

\* Where the release loop stops: the first number from next on that has not
\* arrived.  (saturating_add does not saturate below i64::MAX.)
NextGap(inbox) ==
    CHOOSE k \in inbox.next .. inbox.next + Cardinality(DOMAIN inbox.pending) :
        /\ k \notin DOMAIN inbox.pending
        /\ \A j \in inbox.next .. k - 1 : j \in DOMAIN inbox.pending

\* Mutant of AfterRelease: a release advances next one too far.
ReleaseSkips(inbox) ==
    [next |-> IF NextGap(inbox) = inbox.next THEN inbox.next ELSE NextGap(inbox) + 1,
     pending |-> [s \in DOMAIN inbox.pending \ (inbox.next .. NextGap(inbox) - 1) |->
                    inbox.pending[s]]]

\* What the loop leaves behind.
AfterRelease(inbox) ==
    [next |-> NextGap(inbox),
     pending |-> [s \in DOMAIN inbox.pending \ (inbox.next .. NextGap(inbox) - 1) |->
                    inbox.pending[s]]]

\* What the loop returns, in order.
ReadyValues(inbox) ==
    [i \in 1 .. NextGap(inbox) - inbox.next |-> inbox.pending[inbox.next + i - 1]]

\* OrderedInbox::push: the inbox afterwards and the values it released.
Push(inbox, seqno, value) ==
    IF Ignored(inbox, seqno)
      THEN [inbox |-> inbox, ready |-> <<>>]
      ELSE LET filled == Insert(inbox, seqno, value)
           IN  [inbox |-> AfterRelease(filled), ready |-> ReadyValues(filled)]

=============================================================================
