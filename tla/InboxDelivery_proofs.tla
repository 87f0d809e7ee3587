------------------------- MODULE InboxDelivery_proofs -------------------------
(***************************************************************************)
(* Proofs about InboxDelivery: for any number of messages and of retries,   *)
(* whatever the network loses or reorders, messages are released in order   *)
(* and once each, and only behind a gap is a message held.                  *)
(***************************************************************************)
EXTENDS InboxDelivery, FiniteSetTheorems, WellFoundedInduction, TLAPS

\* Held lists what the inbox keeps: messages beyond the gap at next, each
\* under its own number.
Held == /\ inbox.next \notin DOMAIN inbox.pending
        /\ \A s \in DOMAIN inbox.pending : s > inbox.next /\ inbox.pending[s][1] = s

\* Accounted says where the messages that arrived are.
Accounted == arrived = (0 .. inbox.next - 1) \cup DOMAIN inbox.pending

IInv == /\ TypeOK
        /\ inbox = [next |-> inbox.next, pending |-> inbox.pending]
        /\ InOrderExactlyOnce
        /\ Held
        /\ Accounted

-----------------------------------------------------------------------------

\* Every set of natural numbers that is not empty has a smallest element.
LEMMA LeastNatural ==
    ASSUME NEW T, T \subseteq Nat, T # {}
    PROVE  \E m \in T : \A k \in T : m <= k
<1>1. PICK m \in T : \A k \in T : ~ (<<k, m>> \in OpToRel(<, Nat))
  BY NatLessThanWellFounded, WFMin
<1>2. \A k \in T : m <= k
  <2> SUFFICES ASSUME NEW k \in T PROVE m <= k
    OBVIOUS
  <2>1. k \in Nat /\ m \in Nat
    OBVIOUS
  <2>2. <<k, m>> \in OpToRel(<, Nat) <=> k < m
    BY <2>1 DEF OpToRel
  <2>3. ~ (k < m)
    BY <1>1, <2>2
  <2>4. QED
    BY <2>1, <2>3
<1>3. QED
  BY <1>2

\* The numbers of finitely many messages are finitely many.
LEMMA BoundedIsFinite ==
    ASSUME NEW M \in Nat, NEW D, D \subseteq 0 .. M - 1
    PROVE  IsFiniteSet(D) /\ Cardinality(D) \in Nat
<1>1. IsFiniteSet(0 .. M - 1)
  <2>1. 0 \in Int /\ M - 1 \in Int
    OBVIOUS
  <2>2. QED
    BY <2>1, FS_Interval
<1>2. IsFiniteSet(D)
  BY <1>1, FS_Subset
<1>3. QED
  BY <1>2, FS_CardinalityType

\* The release loop stops: among the numbers from next on there is a first one
\* that has not arrived, at most as far away as messages are held.
LEMMA GapExists ==
    ASSUME NEW n \in Nat, NEW D, NEW M \in Nat, D \subseteq 0 .. M - 1, n <= M
    PROVE  \E k \in n .. n + Cardinality(D) :
              /\ k \notin D
              /\ \A j \in n .. k - 1 : j \in D
<1> DEFINE T == {k \in Nat : k >= n /\ k \notin D}
<1>1. M \in T
  OBVIOUS
<1>2. PICK k \in T : \A i \in T : k <= i
  BY <1>1, LeastNatural
<1>3. \A j \in n .. k - 1 : j \in D
  BY <1>2
<1>4. k <= n + Cardinality(D)
  <2>1. IsFiniteSet(D)
    BY BoundedIsFinite
  <2>2. n .. k - 1 \in SUBSET D
    BY <1>3
  <2>3. Cardinality(n .. k - 1) <= Cardinality(D)
    BY <2>1, <2>2, FS_Subset
  <2>4. Cardinality(D) \in Nat
    BY BoundedIsFinite
  <2>5. Cardinality(n .. k - 1) = IF n > k - 1 THEN 0 ELSE (k - 1) - n + 1
    <3>1. n \in Int /\ k - 1 \in Int
      OBVIOUS
    <3>2. QED
      BY <3>1, FS_Interval
  <2>6. QED
    BY <2>3, <2>4, <2>5
<1>5. Cardinality(D) \in Nat
  BY BoundedIsFinite
<1>6. QED
  BY <1>2, <1>3, <1>4, <1>5

\* What NextGap returns.
LEMMA NextGapIsFirst ==
    ASSUME NEW box, NEW M \in Nat, box.next \in 0 .. M,
           DOMAIN box.pending \subseteq 0 .. M - 1
    PROVE  /\ NextGap(box) \in box.next .. M
           /\ NextGap(box) \notin DOMAIN box.pending
           /\ \A j \in box.next .. NextGap(box) - 1 : j \in DOMAIN box.pending
<1>1. /\ NextGap(box) \in box.next .. box.next + Cardinality(DOMAIN box.pending)
      /\ NextGap(box) \notin DOMAIN box.pending
      /\ \A j \in box.next .. NextGap(box) - 1 : j \in DOMAIN box.pending
  <2> HIDE DEF NextGap
  <2>1. \E k \in box.next .. box.next + Cardinality(DOMAIN box.pending) :
           /\ k \notin DOMAIN box.pending
           /\ \A j \in box.next .. k - 1 : j \in DOMAIN box.pending
    BY GapExists
  <2>2. QED
    BY <2>1 DEF NextGap
<1>2. NextGap(box) <= M
  <2>2. Cardinality(DOMAIN box.pending) \in Nat
    BY BoundedIsFinite
  <2>3. CASE NextGap(box) > M
    <3>1. M \in box.next .. NextGap(box) - 1
      BY <1>1, <2>2, <2>3
    <3>2. QED
      BY <1>1, <3>1
  <2>4. QED
    BY <1>1, <2>2, <2>3
<1>3. Cardinality(DOMAIN box.pending) \in Nat
  BY BoundedIsFinite
<1>4. QED
  BY <1>1, <1>2, <1>3

\* A function from 1 .. n is a sequence of length n.
LEMMA SequenceOfLength ==
    ASSUME NEW S, NEW n \in Nat, NEW f \in [1 .. n -> S]
    PROVE  f \in Seq(S) /\ Len(f) = n
  OBVIOUS

\* What a concatenation has at each place.
LEMMA ConcatenationPoints ==
    ASSUME NEW S, NEW s \in Seq(S), NEW t \in Seq(S)
    PROVE  /\ s \o t \in Seq(S)
           /\ Len(s \o t) = Len(s) + Len(t)
           /\ \A i \in 1 .. Len(s) : (s \o t)[i] = s[i]
           /\ \A i \in Len(s) + 1 .. Len(s) + Len(t) : (s \o t)[i] = t[i - Len(s)]
  OBVIOUS

-----------------------------------------------------------------------------
(* The invariant.                                                           *)

LEMMA InitInv == Init => IInv
<1> SUFFICES ASSUME Init PROVE IInv
  OBVIOUS
<1>1. inbox = [next |-> 0, pending |-> <<>>] /\ DOMAIN inbox.pending = {}
  BY DEF Init, StartingAt
<1>2. TypeOK
  BY <1>1, MessagesAssumption DEF Init, TypeOK, Seqnos, Values
<1>3. InOrderExactlyOnce /\ Held /\ Accounted
  BY <1>1 DEF Init, InOrderExactlyOnce, Held, Accounted
<1>4. QED
  BY <1>1, <1>2, <1>3 DEF IInv

\* A message the inbox ignores has arrived before and changes nothing.
LEMMA IgnoredInv ==
    ASSUME IInv, NEW c \in network, Receive(c), Ignored(inbox, c[1])
    PROVE  IInv'
<1>1. /\ inbox' = inbox /\ delivered' = delivered \o <<>>
      /\ network' \subseteq network /\ calls' = calls
      /\ arrived' = arrived \cup {c[1]}
  BY DEF Receive, Push
<1>2. delivered' = delivered
  BY <1>1 DEF IInv, TypeOK
<1>3. c[1] \in Seqnos
  BY DEF IInv, TypeOK, Values
<1>4. c[1] \in arrived
  BY <1>3, MessagesAssumption DEF Ignored, IInv, Accounted, TypeOK, Seqnos
<1>5. arrived' = arrived
  BY <1>1, <1>4
<1>6. QED
  BY <1>1, <1>2, <1>5 DEF IInv, TypeOK, Held, Accounted, InOrderExactlyOnce

\* A new message is put in its place, and what it completes is released.
LEMMA AcceptedInv ==
    ASSUME IInv, NEW c \in network, Receive(c), ~ Ignored(inbox, c[1])
    PROVE  IInv'
<1> DEFINE filled == Insert(inbox, c[1], c)
           gap == NextGap(filled)
           rest == DOMAIN filled.pending \ (inbox.next .. gap - 1)
<1>1. c \in Values /\ c[1] \in Seqnos /\ c[1] >= inbox.next
  BY MessagesAssumption DEF IInv, TypeOK, Values, Seqnos, Ignored
<1>2. /\ filled.next = inbox.next
      /\ DOMAIN filled.pending = DOMAIN inbox.pending \cup {c[1]}
      /\ \A s \in DOMAIN filled.pending :
            filled.pending[s] \in Values /\ filled.pending[s][1] = s
      /\ \A s \in DOMAIN filled.pending : s >= inbox.next
  BY <1>1, MessagesAssumption DEF Insert, IInv, TypeOK, Held, Seqnos
<1>3. /\ gap \in inbox.next .. Messages
      /\ gap \notin DOMAIN filled.pending
      /\ \A j \in inbox.next .. gap - 1 : j \in DOMAIN filled.pending
  <2>1. DOMAIN filled.pending \subseteq 0 .. Messages - 1
    BY <1>1, <1>2 DEF IInv, TypeOK, Seqnos
  <2>2. filled.next \in 0 .. Messages
    BY <1>2 DEF IInv, TypeOK
  <2>3. QED
    BY <1>2, <2>1, <2>2, MessagesAssumption, NextGapIsFirst
<1>4. /\ inbox' = [next |-> gap, pending |-> [s \in rest |-> filled.pending[s]]]
      /\ delivered' = delivered \o [i \in 1 .. gap - inbox.next |->
                                        filled.pending[inbox.next + i - 1]]
      /\ arrived' = arrived \cup {c[1]}
      /\ network' = network \ {c} /\ calls' = calls
  BY <1>2 DEF Receive, Push, AfterRelease, ReadyValues
<1> HIDE DEF gap, filled
<1>5. inbox.next \in 0 .. Messages /\ Messages \in Nat
  BY MessagesAssumption DEF IInv, TypeOK
<1>6. /\ inbox'.next = gap
      /\ DOMAIN inbox'.pending = rest
      /\ \A s \in rest : inbox'.pending[s] = filled.pending[s]
  BY <1>4
<1>7. rest \subseteq Seqnos /\ \A s \in rest : s > gap
  BY <1>1, <1>2, <1>3, <1>5 DEF IInv, TypeOK, Seqnos
<1>8. /\ delivered' \in Seq(Values)
      /\ Len(delivered') = gap
      /\ \A i \in 1 .. Len(delivered') : delivered'[i][1] = i - 1
  <2> DEFINE released == [i \in 1 .. gap - inbox.next |->
                             filled.pending[inbox.next + i - 1]]
  <2>1. \A i \in 1 .. gap - inbox.next : inbox.next + i - 1 \in inbox.next .. gap - 1
    BY <1>3, <1>5
  <2>2. \A i \in 1 .. gap - inbox.next :
            released[i] \in Values /\ released[i][1] = inbox.next + i - 1
    BY <1>2, <1>3, <2>1
  <2>3. released \in Seq(Values) /\ Len(released) = gap - inbox.next
    <3>1. gap - inbox.next \in Nat
      BY <1>3, <1>5
    <3>2. released \in [1 .. gap - inbox.next -> Values]
      BY <2>2
    <3> HIDE DEF released
    <3>3. QED
      BY <3>1, <3>2, SequenceOfLength
  <2>4. /\ delivered \in Seq(Values) /\ Len(delivered) = inbox.next
        /\ \A i \in 1 .. inbox.next : delivered[i][1] = i - 1
    BY DEF IInv, TypeOK, InOrderExactlyOnce
  <2>5. delivered' = delivered \o released
    BY <1>4
  <2> HIDE DEF released
  <2>6. delivered' \in Seq(Values) /\ Len(delivered') = gap
    <3>1. delivered \o released \in Seq(Values)
      BY <2>3, <2>4, ConcatenationPoints
    <3>2. Len(delivered \o released) = Len(delivered) + Len(released)
      BY <2>3, <2>4, ConcatenationPoints
    <3>3. Len(delivered) + Len(released) = gap
      BY <1>3, <1>5, <2>3, <2>4
    <3>4. QED
      BY <2>5, <3>1, <3>2, <3>3
  <2>7. \A i \in 1 .. gap : delivered'[i][1] = i - 1
    <3> SUFFICES ASSUME NEW i \in 1 .. gap PROVE delivered'[i][1] = i - 1
      OBVIOUS
    <3>1. CASE i <= inbox.next
      <4>1. i \in 1 .. Len(delivered)
        BY <1>5, <2>4, <3>1
      <4>2. (delivered \o released)[i] = delivered[i]
        BY <2>3, <2>4, <4>1, ConcatenationPoints
      <4>3. QED
        BY <2>4, <2>5, <4>1, <4>2
    <3>2. CASE i > inbox.next
      <4>1. i - inbox.next \in 1 .. gap - inbox.next
        BY <1>3, <1>5, <3>2
      <4>2. delivered'[i] = released[i - inbox.next]
        <5>1. i \in Len(delivered) + 1 .. Len(delivered) + Len(released)
          BY <1>3, <1>5, <2>3, <2>4, <3>2
        <5>2. (delivered \o released)[i] = released[i - Len(delivered)]
          BY <2>3, <2>4, <5>1, ConcatenationPoints
        <5>3. QED
          BY <2>4, <2>5, <5>2
      <4>3. released[i - inbox.next][1] = inbox.next + (i - inbox.next) - 1
        BY <2>2, <4>1
      <4>4. QED
        BY <1>3, <1>5, <4>2, <4>3
    <3>3. QED
      BY <1>3, <1>5, <3>1, <3>2
  <2>8. QED
    BY <2>6, <2>7
<1>9. arrived' = (0 .. gap - 1) \cup rest
  <2>1. arrived = (0 .. inbox.next - 1) \cup DOMAIN inbox.pending
    BY DEF IInv, Accounted
  <2>2. arrived' = (0 .. inbox.next - 1) \cup DOMAIN filled.pending
    BY <1>2, <1>4, <2>1
  <2>3. DOMAIN filled.pending = (inbox.next .. gap - 1) \cup rest
    BY <1>3
  <2>4. (0 .. inbox.next - 1) \cup (inbox.next .. gap - 1) = 0 .. gap - 1
    BY <1>3, <1>5
  <2>5. QED
    BY <2>2, <2>3, <2>4
<1>10. TypeOK'
  <2>1. inbox'.next \in 0 .. Messages
    BY <1>3, <1>5, <1>6
  <2>2. \A s \in DOMAIN inbox'.pending : inbox'.pending[s] \in Values
    BY <1>2, <1>6
  <2>3. arrived' \in SUBSET Seqnos
    BY <1>1, <1>4 DEF IInv, TypeOK
  <2>4. QED
    BY <1>4, <1>6, <1>7, <1>8, <2>1, <2>2, <2>3 DEF IInv, TypeOK, Seqnos, Values
<1>11. Held' /\ InOrderExactlyOnce' /\ Accounted'
  BY <1>2, <1>3, <1>6, <1>7, <1>8, <1>9 DEF Held, InOrderExactlyOnce, Accounted
<1>12. (inbox = [next |-> inbox.next, pending |-> inbox.pending])'
  BY <1>4
<1>13. QED
  BY <1>10, <1>11, <1>12 DEF IInv

LEMMA StepInv == IInv /\ [Next]_vars => IInv'
<1> SUFFICES ASSUME IInv, [Next]_vars PROVE IInv'
  OBVIOUS
<1>1. ASSUME NEW s \in Seqnos, Send(s) PROVE IInv'
  <2>1. calls' \in [Seqnos -> 0 .. MaxRetries + 1]
    BY <1>1, MessagesAssumption DEF Send, IInv, TypeOK
  <2>2. <<s, calls[s] + 1>> \in Values
    BY <1>1, MessagesAssumption DEF Send, IInv, TypeOK, Values
  <2>3. QED
    BY <1>1, <2>1, <2>2 DEF Send, IInv, TypeOK, Held, Accounted, InOrderExactlyOnce
<1>2. ASSUME NEW c \in network, Lose(c) PROVE IInv'
  BY <1>2 DEF Lose, IInv, TypeOK, Held, Accounted, InOrderExactlyOnce
<1>3. ASSUME NEW c \in network, Receive(c) PROVE IInv'
  BY <1>3, IgnoredInv, AcceptedInv
<1>4. CASE UNCHANGED vars
  BY <1>4 DEF vars, IInv, TypeOK, Held, Accounted, InOrderExactlyOnce
<1>5. QED
  BY <1>1, <1>2, <1>3, <1>4 DEF Next

-----------------------------------------------------------------------------
(* The theorems.                                                            *)

\* The inbox, its history and the network keep their types; no message number
\* is ever released that the client did not use.
THEOREM InboxTypeCorrect == Spec => []TypeOK
<1>1. Init => IInv
  BY InitInv
<1>2. IInv /\ [Next]_vars => IInv'
  BY StepInv
<1>3. IInv => TypeOK
  BY DEF IInv
<1>4. QED
  BY <1>1, <1>2, <1>3, PTL DEF Spec

\* However the append calls overtake each other, get lost or are repeated, the
\* actor handles the messages in the client's order and each at most once.
THEOREM DeliveredInOrder == Spec => []InOrderExactlyOnce
<1>1. Init => IInv
  BY InitInv
<1>2. IInv /\ [Next]_vars => IInv'
  BY StepInv
<1>3. IInv => InOrderExactlyOnce
  BY DEF IInv
<1>4. QED
  BY <1>1, <1>2, <1>3, PTL DEF Spec

\* A message that reached the actor has been handled as soon as all before it
\* arrived, and is kept until then.
THEOREM NothingIsLost == Spec => []NothingLostOrStuck
<1>1. Init => IInv
  BY InitInv
<1>2. IInv /\ [Next]_vars => IInv'
  BY StepInv
<1>3. IInv => NothingLostOrStuck
  <2> SUFFICES ASSUME IInv, NEW s \in arrived
               PROVE  IF \A k \in 0 .. s : k \in arrived
                        THEN s < inbox.next ELSE s \in DOMAIN inbox.pending
    BY DEF NothingLostOrStuck
  <2>1. /\ inbox.next \in Nat /\ s \in Nat
        /\ arrived = (0 .. inbox.next - 1) \cup DOMAIN inbox.pending
        /\ inbox.next \notin DOMAIN inbox.pending
    BY MessagesAssumption DEF IInv, Accounted, Held, TypeOK, Seqnos
  <2>2. CASE \A k \in 0 .. s : k \in arrived
    <3>1. inbox.next \notin 0 .. s
      BY <2>1, <2>2
    <3>2. QED
      BY <2>1, <2>2, <3>1
  <2>3. CASE ~ \A k \in 0 .. s : k \in arrived
    BY <2>1, <2>3
  <2>4. QED
    BY <2>2, <2>3
<1>4. QED
  BY <1>1, <1>2, <1>3, PTL DEF Spec

=============================================================================
