-------------------------- MODULE RunAttempts_proofs --------------------------
(***************************************************************************)
(* Proofs about RunAttempts, for any inputs, messages, runs and bounds, for *)
(* any overlap of attempts and any crash.                                   *)
(*                                                                          *)
(* What holds of every attempt (AInv): it has a checkpoint to go on from,   *)
(* and an engine that owns the conversation is at its head.  This needs the *)
(* store's invariant, and gives the refinement: every step of an attempt is *)
(* a step of the store or leaves it alone.                                  *)
(*                                                                          *)
(* What attempts say (AgreeInv, WaitInv, RetryInv) rests on one condition,  *)
(* MessagesAreDistinct: the messages of an input are its own.  An attempt   *)
(* then has behind it the history of its anchor and the first n of its      *)
(* messages, in the order of the input (OnTheWay), whether it appended them *)
(* or MatchPrefix found them; a message that waited is read once because no *)
(* history holds a message of the inputs twice (SaidOnce); and the append of*)
(* an attempt that is alone is in nobody's way (NothingInTheWay).           *)
(***************************************************************************)
EXTENDS RunAttempts, ConversationStore_proofs

\* Before its end an attempt has a checkpoint to go on from.
Plans ==
    /\ plan \in [Runs -> [base : Nat, rest : Seq(Texts)]]
    /\ \A r \in Runs : phase[r] # "idle" => plan[r].base # 0

AInv == LInv /\ AttemptsTypeOK /\ Plans /\ EngineAtHead

\* What makes messages distinct in the code: the id of a message is made from
\* its event, an event from its input.
MessagesAreDistinct ==
    /\ \A m, n \in Texts : m.id = n.id => m = n
    /\ \A m \in Texts, r \in Runs, n \in 1 .. MaxAnswers : m.id # Answer(r, n).id
    /\ \A i \in Inputs : \A j, k \in DOMAIN Initial[i] : Initial[i][j] = Initial[i][k] => j = k
    /\ \A i, j \in Inputs : Range(Initial[i]) \cap Range(Initial[j]) # {} => i = j
    /\ \A i \in Inputs : Range(Initial[i]) \cap Wakes = {}

Answers == {Answer(r, n) : r \in Runs, n \in 1 .. MaxAnswers}

History(c) == checkpoints[c].digest

\* Every checkpoint below the root adds one message to its parent's history.
OneByOne ==
    \A k \in DOMAIN checkpoints :
        \/ History(k) = <<>>
        \/ /\ checkpoints[k].parent \in DOMAIN checkpoints
           /\ \E m \in Texts \cup Answers : History(k) = History(checkpoints[k].parent) \o <<m>>

Spoken == \A k \in DOMAIN checkpoints : History(k) \in Seq(Texts \cup Answers)

\* No message of an input is in the history of a checkpoint.
Untouched(i, k) ==
    \A j \in DOMAIN History(k) : History(k)[j] \notin Range(Initial[i])

\* Nothing is said about an input before it is anchored.
AnchorsComeFirst ==
    \A i \in Inputs :
        IF anchors[i] = 0 THEN \A k \in DOMAIN checkpoints : Untouched(i, k)
                          ELSE Untouched(i, anchors[i])

Working == {"anchored", "prepared", "collected", "ready", "claimed", "answering"}

\* What an attempt has appended, or found, when n messages are in the history.
OnTheWay(r, n) ==
    LET initial == Initial[input[r]]
    IN  /\ plan[r].rest = SubSeq(initial, n + 1, Len(initial))
        /\ History(plan[r].base) = History(anchors[input[r]]) \o SubSeq(initial, 1, n)

\* An attempt is about an anchored input.  It appends messages of that input,
\* and messages that waited if it took some; one that took none has the anchor's
\* history behind it, continued by the messages that it has yet not to append.
Attempt(r) ==
    /\ phase[r] \in {"idle", "anchored", "prepared"} => taken[r] = <<>>
    /\ phase[r] = "collected" => taken[r] # <<>>
    /\ phase[r] = "anchored" =>
         plan[r] = [base |-> anchors[input[r]], rest |-> Initial[input[r]]]
    /\ phase[r] = "answering" => plan[r].rest = <<>>
    /\ phase[r] \in Working =>
         /\ anchors[input[r]] # 0
         /\ Range(plan[r].rest) \subseteq Range(Initial[input[r]]) \cup Wakes
         /\ taken[r] = <<>> => \E n \in 0 .. Len(Initial[input[r]]) : OnTheWay(r, n)

Attempting == \A r \in Runs : Attempt(r)

\* While an attempt that began alone is under way, no other is.
AloneIsAlone ==
    \A r \in alone : phase[r] \in UnderWay =>
        \A q \in Runs : q # r => phase[q] \notin UnderWay

\* The next message of attempt r is in nobody's way: no checkpoint holds what
\* the append would make.
WayIsFree(r) ==
    phase[r] \in {"prepared", "ready", "claimed"} /\ taken[r] = <<>> /\ plan[r].rest # <<>> =>
        ~ Exists(History(plan[r].base) \o <<Head(plan[r].rest)>>)

NothingInTheWay == \A r \in alone : WayIsFree(r)

AgreeInv == AInv /\ Spoken /\ OneByOne /\ AnchorsComeFirst /\ Attempting

RetryInv == AgreeInv /\ AloneIsAlone /\ NothingInTheWay /\ RetryIsNotRefused

-----------------------------------------------------------------------------
(* What an attempt finds of earlier ones.                                   *)

\* The attempt has n messages of additions behind it when it is at x.
Reaches(x, c, additions, n) ==
    /\ x \in [base : DOMAIN checkpoints, rest : Seq(Texts)]
    /\ x.rest = SubSeq(additions, n + 1, Len(additions))
    /\ History(x.base) = History(c) \o SubSeq(additions, 1, n)

\* The search went through k messages and stopped before, if nothing was there.
Searched(x, c, additions, k) ==
    \E n \in 0 .. k :
        /\ Reaches(x, c, additions, n)
        /\ n < k => Children(x.base, History(c) \o SubSeq(additions, 1, n + 1)) = {}

\* Parts of a sequence.
LEMMA Parts ==
    ASSUME NEW S, NEW s \in Seq(S), NEW n \in 0 .. Len(s)
    PROVE  /\ Len(s) \in Nat
           /\ SubSeq(s, 1, n) \in Seq(S) /\ Len(SubSeq(s, 1, n)) = n
           /\ SubSeq(s, n + 1, Len(s)) \in Seq(S)
           /\ Len(SubSeq(s, n + 1, Len(s))) = Len(s) - n
           /\ SubSeq(s, 1, 0) = <<>> /\ SubSeq(s, 1, Len(s)) = s
           /\ n < Len(s) =>
                /\ SubSeq(s, n + 1, Len(s)) # <<>>
                /\ Head(SubSeq(s, n + 1, Len(s))) = s[n + 1]
                /\ Tail(SubSeq(s, n + 1, Len(s))) = SubSeq(s, n + 2, Len(s))
                /\ SubSeq(s, 1, n + 1) = SubSeq(s, 1, n) \o <<s[n + 1]>>
<1>1. /\ Len(s) \in Nat
      /\ SubSeq(s, 1, n) \in Seq(S) /\ Len(SubSeq(s, 1, n)) = n
      /\ SubSeq(s, n + 1, Len(s)) \in Seq(S)
      /\ Len(SubSeq(s, n + 1, Len(s))) = Len(s) - n
  OBVIOUS
<1>2. SubSeq(s, 1, 0) = <<>> /\ SubSeq(s, 1, Len(s)) = s
  OBVIOUS
<1>3. ASSUME n < Len(s)
      PROVE  /\ SubSeq(s, n + 1, Len(s)) # <<>>
             /\ Head(SubSeq(s, n + 1, Len(s))) = s[n + 1]
  <2> DEFINE t == SubSeq(s, n + 1, Len(s))
  <2>1. t \in Seq(S) /\ Len(t) > 0 /\ t[1] = s[n + 1]
    BY <1>1, <1>3
  <2> HIDE DEF t
  <2>2. t # <<>> /\ Head(t) = s[n + 1]
    BY <2>1
  <2>3. QED
    BY <2>2 DEF t
<1>4. ASSUME n < Len(s)
      PROVE  Tail(SubSeq(s, n + 1, Len(s))) = SubSeq(s, n + 2, Len(s))
  BY <1>1, <1>4
<1>5. ASSUME n < Len(s)
      PROVE  SubSeq(s, 1, n + 1) = SubSeq(s, 1, n) \o <<s[n + 1]>>
  BY <1>1, <1>5
<1>6. QED
  BY <1>1, <1>2, <1>3, <1>4, <1>5

LEMMA MatchPrefixDef ==
    ASSUME NEW c, NEW additions
    PROVE  MatchPrefix(c, additions) = (CHOOSE match : match = [n \in 0 .. Len(additions) |->
            IF n = 0 THEN [base |-> c, rest |-> additions]
            ELSE LET before == match[n - 1]
                     next == Children(before.base, Load(c) \o SubSeq(additions, 1, n))
                 IN  IF Len(before.rest) = Len(additions) - (n - 1) /\ next # {}
                     THEN [base |-> CHOOSE d \in next : TRUE, rest |-> Tail(before.rest)]
                     ELSE before])[Len(additions)]
BY DEF MatchPrefix

\* One round of the search goes one message further, or stays.
LEMMA SearchStep ==
    ASSUME LInv, NEW c \in DOMAIN checkpoints, NEW additions \in Seq(Texts),
           NEW k \in 1 .. Len(additions), NEW x, Searched(x, c, additions, k - 1)
    PROVE  LET next == Children(x.base, Load(c) \o SubSeq(additions, 1, k))
               y == IF Len(x.rest) = Len(additions) - (k - 1) /\ next # {}
                      THEN [base |-> CHOOSE d \in next : TRUE, rest |-> Tail(x.rest)]
                      ELSE x
           IN  Searched(y, c, additions, k)
<1> DEFINE next == Children(x.base, Load(c) \o SubSeq(additions, 1, k))
           y == IF Len(x.rest) = Len(additions) - (k - 1) /\ next # {}
                  THEN [base |-> CHOOSE d \in next : TRUE, rest |-> Tail(x.rest)]
                  ELSE x
<1>1. PICK n \in 0 .. k - 1 :
          /\ Reaches(x, c, additions, n)
          /\ n < k - 1 => Children(x.base, History(c) \o SubSeq(additions, 1, n + 1)) = {}
  BY DEF Searched
<1>2. Load(c) = History(c)
  BY LoadIsDigest DEF History
<1>3. Len(additions) \in Nat /\ n \in Nat /\ k \in Nat /\ n \in 0 .. Len(additions) /\ n < k
  OBVIOUS
<1>4. x.rest = SubSeq(additions, n + 1, Len(additions)) /\ Len(x.rest) = Len(additions) - n
  BY <1>1, <1>3, Parts DEF Reaches
<1>5. CASE n = k - 1 /\ next # {}
  <2>1. PICK d : d = (CHOOSE e \in next : TRUE) /\ d \in next
    BY <1>5
  <2>2. d \in DOMAIN checkpoints /\ History(d) = History(c) \o SubSeq(additions, 1, k)
    BY <1>2, <2>1 DEF Children, History
  <2>3. Tail(x.rest) = SubSeq(additions, k + 1, Len(additions)) /\ Tail(x.rest) \in Seq(Texts)
    <3>1. Tail(SubSeq(additions, n + 1, Len(additions))) = SubSeq(additions, n + 2, Len(additions))
      BY <1>3, <1>5, Parts
    <3>2. SubSeq(additions, k + 1, Len(additions)) \in Seq(Texts)
      BY Parts
    <3>3. n + 2 = k + 1
      BY <1>3, <1>5
    <3>4. QED
      BY <1>4, <3>1, <3>2, <3>3
  <2>4. y = [base |-> d, rest |-> Tail(x.rest)]
    BY <1>3, <1>4, <1>5, <2>1
  <2> HIDE DEF y
  <2>5. Reaches(y, c, additions, k)
    BY <2>2, <2>3, <2>4 DEF Reaches
  <2>6. k \in 0 .. k
    BY <1>3
  <2>7. Searched(y, c, additions, k)
    BY <1>3, <2>5, <2>6 DEF Searched
  <2>8. QED
    BY <2>7 DEF y
<1>6. CASE n = k - 1 /\ next = {}
  <2>1. y = x
    BY <1>6
  <2>2. n + 1 = k
    BY <1>3, <1>6
  <2>3. Children(x.base, History(c) \o SubSeq(additions, 1, n + 1)) = {}
    BY <1>2, <1>6, <2>2
  <2>4. n \in 0 .. k
    BY <1>3
  <2> HIDE DEF y
  <2>5. Searched(y, c, additions, k)
    BY <1>1, <2>1, <2>3, <2>4 DEF Searched
  <2>6. QED
    BY <2>5 DEF y
<1>7. CASE n # k - 1
  <2>1. n < k - 1
    BY <1>3, <1>7, <1>1
  <2>2. y = x
    BY <1>3, <1>4, <2>1
  <2>3. n \in 0 .. k
    BY <1>3
  <2>4. QED
    BY <1>1, <2>1, <2>2, <2>3 DEF Searched
<1>8. QED
  BY <1>5, <1>6, <1>7

\* MatchPrefix goes down from the checkpoint as far as the messages were added
\* one by one before, and no further.
LEMMA MatchedPrefix ==
    ASSUME LInv, NEW c \in DOMAIN checkpoints, NEW additions \in Seq(Texts)
    PROVE  Searched(MatchPrefix(c, additions), c, additions, Len(additions))
<1> DEFINE N == Len(additions)
           first == [base |-> c, rest |-> additions]
           Body(x, k) ==
               LET next == Children(x.base, Load(c) \o SubSeq(additions, 1, k))
               IN  IF Len(x.rest) = Len(additions) - (k - 1) /\ next # {}
                   THEN [base |-> CHOOSE d \in next : TRUE, rest |-> Tail(x.rest)]
                   ELSE x
           Step(f) == [n \in 0 .. N |-> IF n = 0 THEN first ELSE Body(f[n - 1], n)]
           Good(x, k) == Searched(x, c, additions, k)
           Upto(f, m) == /\ f[0] = first
                         /\ \A k \in 1 .. m : f[k] = Body(f[k - 1], k)
           match == CHOOSE f : f = Step(f)
<1>0. N \in Nat
  OBVIOUS
<1>1. MatchPrefix(c, additions) = match[N]
  BY MatchPrefixDef
<1>2. Good(first, 0)
  <2>1. SubSeq(additions, 1, N) = additions /\ SubSeq(additions, 1, 0) = <<>>
    BY <1>0, Parts
  <2>2. History(c) \o <<>> = History(c)
    BY DEF History, LInv, Row
  <2>3. first \in [base : DOMAIN checkpoints, rest : Seq(Texts)]
        /\ first.base = c /\ first.rest = additions
    OBVIOUS
  <2> HIDE DEF first
  <2>4. Reaches(first, c, additions, 0)
    <3>1. 0 + 1 = 1
      OBVIOUS
    <3>2. SubSeq(additions, 0 + 1, Len(additions)) = additions
      BY <2>1, <3>1
    <3>3. QED
      BY <2>1, <2>2, <2>3, <3>2, Zenon DEF Reaches
  <2>5. QED
    BY <2>4 DEF Searched
<1>3. ASSUME NEW k \in 1 .. N, NEW x, Good(x, k - 1)
      PROVE  Good(Body(x, k), k)
  BY <1>3, SearchStep
<1> HIDE DEF Body, Good, first
<1>4. ASSUME NEW m \in 0 .. N
      PROVE  \E f : Upto(f, m)
  <2> DEFINE Wrong == {n \in 0 .. N : ~ \E f : Upto(f, n)}
  <2> SUFFICES ASSUME Wrong # {} PROVE FALSE
    OBVIOUS
  <2>1. PICK n \in Wrong : \A j \in Wrong : n <= j
    <3>1. Wrong \in SUBSET Nat
      BY <1>0
    <3> HIDE DEF Wrong
    <3>2. QED
      BY <3>1, LeastMember
  <2>2. n \in 0 .. N /\ ~ \E f : Upto(f, n)
    BY <2>1
  <2>3. CASE n = 0
    <3> DEFINE g == [k \in 0 .. 0 |-> first]
    <3>1. g[0] = first
      OBVIOUS
    <3>2. Upto(g, 0)
      BY <3>1
    <3>3. QED
      BY <2>2, <2>3, <3>2
  <2>4. CASE n # 0
    <3>1. n \in 1 .. N /\ n - 1 \in 0 .. N /\ n - 1 < n
      BY <1>0, <2>2, <2>4
    <3>2. n - 1 \notin Wrong
      <4> HIDE DEF Wrong
      <4>1. QED
        BY <1>0, <2>1, <3>1
    <3>3. PICK f : Upto(f, n - 1)
      BY <3>1, <3>2
    <3> DEFINE g == [k \in 0 .. n |-> IF k = n THEN Body(f[n - 1], n) ELSE f[k]]
    <3>4. g[n] = Body(f[n - 1], n) /\ \A k \in 0 .. n - 1 : g[k] = f[k]
      BY <1>0, <3>1
    <3> HIDE DEF g
    <3>5. g[0] = first
      BY <1>0, <3>1, <3>3, <3>4
    <3>6. \A k \in 1 .. n : g[k] = Body(g[k - 1], k)
      BY <1>0, <3>1, <3>3, <3>4
    <3>7. QED
      BY <2>2, <3>5, <3>6
  <2>5. QED
    BY <2>3, <2>4
<1>5. PICK f : Upto(f, N)
  BY <1>0, <1>4
<1> DEFINE g == [n \in 0 .. N |-> f[n]]
<1>6. g = Step(g)
  <2>1. \A n \in 0 .. N : g[n] = f[n]
    OBVIOUS
  <2>2. \A n \in 0 .. N : Step(g)[n] = g[n]
    <3> SUFFICES ASSUME NEW n \in 0 .. N PROVE Step(g)[n] = g[n]
      OBVIOUS
    <3> HIDE DEF g
    <3>1. CASE n = 0
      BY <1>5, <2>1, <3>1
    <3>2. CASE n # 0
      <4>1. n \in 1 .. N /\ n - 1 \in 0 .. N
        BY <1>0, <3>2
      <4>2. Step(g)[n] = Body(g[n - 1], n)
        BY <3>2
      <4>3. QED
        BY <1>5, <2>1, <4>1, <4>2
    <3>3. QED
      BY <3>1, <3>2
  <2>3. QED
    BY <2>2
<1>7. match = Step(match)
  <2> HIDE DEF g, Step
  <2>1. QED
    BY <1>6
<1> HIDE DEF match
<1>8. match[0] = first /\ \A k \in 1 .. N : match[k] = Body(match[k - 1], k)
  <2>1. \A n \in 0 .. N : match[n] = Step(match)[n]
    BY <1>7
  <2>2. \A k \in 1 .. N : k \in 0 .. N /\ k # 0
    BY <1>0
  <2>3. 0 \in 0 .. N
    BY <1>0
  <2>4. QED
    BY <2>1, <2>2, <2>3
<1>9. \A m \in 0 .. N : Good(match[m], m)
  <2> DEFINE Wrong == {n \in 0 .. N : ~ Good(match[n], n)}
  <2> SUFFICES ASSUME Wrong # {} PROVE FALSE
    OBVIOUS
  <2>1. PICK n \in Wrong : \A j \in Wrong : n <= j
    <3>1. Wrong \in SUBSET Nat
      BY <1>0
    <3> HIDE DEF Wrong
    <3>2. QED
      BY <3>1, LeastMember
  <2>2. n \in 0 .. N /\ ~ Good(match[n], n)
    BY <2>1
  <2>3. n \in 1 .. N /\ n - 1 \in 0 .. N /\ n - 1 < n
    BY <1>0, <1>2, <1>8, <2>2
  <2>4. Good(match[n - 1], n - 1)
    BY <1>0, <2>1, <2>3
  <2>5. QED
    BY <1>3, <1>8, <2>2, <2>3, <2>4
<1>10. QED
  BY <1>0, <1>1, <1>9 DEF Good

-----------------------------------------------------------------------------
(* Attempts use the store.                                                  *)

\* Whatever an attempt does, its effect on the database is an operation of the
\* store, or none.
LEMMA StoreStep == AttemptsTypeOK /\ [AttemptsNext]_allVars => [Next]_vars
<1> SUFFICES ASSUME AttemptsTypeOK, [AttemptsNext]_allVars
             PROVE  Next \/ UNCHANGED vars
  OBVIOUS
<1>1. CASE UNCHANGED allVars
  BY <1>1 DEF allVars
<1>2. CASE EnsureConversation \/ Crash \/ \E m \in Wakes : DeliverLater(m)
  BY <1>2 DEF Next, Crash, DeliverLater
<1>3. ASSUME NEW r \in Runs,
             \/ \E i \in Inputs, c \in DOMAIN checkpoints : AnchorInput(r, i, c)
             \/ Prepare(r) \/ TakePending(r) \/ RebasePending(r)
             \/ Supersede(r) \/ SkipInitial(r)
             \/ LoseOwnership(r) \/ RefuseInitial(r) \/ CallRefused(r) \/ Fail(r)
      PROVE  UNCHANGED vars
  BY <1>3 DEF AnchorInput, Prepare, TakePending, RebasePending, Supersede, SkipInitial,
     LoseOwnership, RefuseInitial, CallRefused, Fail
<1>4. ASSUME NEW r \in Runs, Claim(r) \/ CallModel(r) \/ AnswerInput(r)
      PROVE  Next
  BY <1>4 DEF Claim, ClaimRun, CallModel, AnswerInput, AppendAnswer, Next
<1>5. ASSUME NEW r \in Runs, AppendInitial(r)
      PROVE  Next
  <2>1. plan[r].rest \in Seq(Texts) /\ plan[r].rest # <<>>
    BY <1>5 DEF AppendInitial, AttemptsTypeOK
  <2>2. Head(plan[r].rest) \in Texts
    BY <2>1
  <2>3. AppendMessageOnce(r, plan[r].base, Head(plan[r].rest))
    BY <1>5 DEF AppendInitial
  <2>4. plan[r].base \in DOMAIN checkpoints
    BY <2>3 DEF AppendMessageOnce
  <2>5. QED
    BY <2>2, <2>3, <2>4 DEF Next
<1>6. ASSUME NEW r \in Runs, Finish(r)
      PROVE  Next
  <2>1. \E s \in Terminal : FinishRun(r, s)
    BY <1>6 DEF Finish, Terminal
  <2>2. QED
    BY <2>1 DEF Next
<1>7. QED
  BY <1>1, <1>2, <1>3, <1>4, <1>5, <1>6 DEF AttemptsNext

LEMMA AInitInv == AttemptsInit => AInv
<1> SUFFICES ASSUME AttemptsInit PROVE AInv
  OBVIOUS
<1>1. Init
  BY DEF AttemptsInit
<1>2. LInv /\ TypeOK /\ Len(checkpoints) = 0
  BY <1>1, LInitInv DEF LInv, SInv, Init
<1>3. (CHOOSE i \in Inputs : TRUE) \in Inputs
  BY InitialAssumption
<1>4. <<>> \in Seq(Wakes) /\ <<>> \in Seq(Texts)
  OBVIOUS
<1>5. plan \in [Runs -> [base : Nat, rest : Seq(Texts)]]
  BY <1>4 DEF AttemptsInit
<1>6. \A r \in Runs : plan[r].base = 0 /\ plan[r].rest = <<>> /\ phase[r] = "idle"
  BY DEF AttemptsInit
<1>7. AttemptsTypeOK
  <2>1. input \in [Runs -> Inputs] /\ anchors \in [Inputs -> 0 .. 0]
    BY <1>3 DEF AttemptsInit
  <2>2. phase \in [Runs -> Phases] /\ pending \in Seq(Wakes) /\ alone \subseteq Runs
        /\ taken \in [Runs -> Seq(Wakes)]
    BY <1>4 DEF AttemptsInit, Phases
  <2>3. \A r \in Runs : plan[r].base \in 0 .. Len(checkpoints) /\ plan[r].rest \in Seq(Texts)
    <3>1. 0 \in 0 .. Len(checkpoints)
      BY <1>2
    <3>2. QED
      BY <1>4, <1>6, <3>1
  <2>4. QED
    BY <1>2, <2>1, <2>2, <2>3 DEF AttemptsTypeOK
<1>8. Plans /\ EngineAtHead
  BY <1>5, <1>6 DEF Plans, EngineAtHead
<1>9. QED
  BY <1>2, <1>7, <1>8 DEF AInv

\* No step of an attempt takes a checkpoint away or changes it.
LEMMA TableStays ==
    ASSUME LInv, [AttemptsNext]_allVars
    PROVE  /\ Len(checkpoints) \in Nat /\ Len(checkpoints') \in Nat
           /\ Len(checkpoints) <= Len(checkpoints')
           /\ DOMAIN checkpoints = 1 .. Len(checkpoints)
           /\ \A k \in DOMAIN checkpoints : checkpoints'[k] = checkpoints[k]
<1>1. /\ checkpoints \in Seq(Row) /\ Len(checkpoints) \in Nat
      /\ DOMAIN checkpoints = 1 .. Len(checkpoints)
  BY DEF LInv
<1>2. ASSUME UNCHANGED checkpoints
      PROVE  /\ Len(checkpoints') \in Nat /\ Len(checkpoints) <= Len(checkpoints')
             /\ \A k \in DOMAIN checkpoints : checkpoints'[k] = checkpoints[k]
  BY <1>1, <1>2
<1>3. ASSUME NEW r \in Runs, NEW expected, NEW additions, AppendAt(r, expected, additions)
      PROVE  /\ Len(checkpoints') \in Nat /\ Len(checkpoints) <= Len(checkpoints')
             /\ \A k \in DOMAIN checkpoints : checkpoints'[k] = checkpoints[k]
  <2>1. PICK row : checkpoints' = Append(checkpoints, row)
    BY <1>3 DEF AppendAt, InsertCheckpoint
  <2>2. QED
    BY <1>1, <2>1
<1>4. CASE EnsureConversation
  <2>1. Len(checkpoints) = 0
    BY <1>4 DEF EnsureConversation, LInv, SInv, EmptyUntilCreated
  <2>2. checkpoints' = <<RootCheckpoint>>
    BY <1>4 DEF EnsureConversation
  <2>3. QED
    BY <1>1, <2>1, <2>2
<1>5. CASE \E r \in Runs : AppendInitial(r) \/ AnswerInput(r)
  BY <1>1, <1>3, <1>5 DEF AppendInitial, AppendMessageOnce, AnswerInput, AppendAnswer
<1>6. CASE Crash \/ UNCHANGED allVars \/ \E m \in Wakes : DeliverLater(m)
  BY <1>1, <1>2, <1>6 DEF Crash, allVars, vars, DeliverLater
<1>7. ASSUME NEW r \in Runs,
             \/ \E i \in Inputs, c \in DOMAIN checkpoints : AnchorInput(r, i, c)
             \/ Prepare(r) \/ TakePending(r) \/ RebasePending(r)
             \/ Supersede(r) \/ SkipInitial(r)
             \/ LoseOwnership(r) \/ RefuseInitial(r) \/ CallRefused(r) \/ Fail(r)
      PROVE  UNCHANGED checkpoints
  BY <1>7 DEF AnchorInput, Prepare, TakePending, RebasePending, Supersede, SkipInitial,
     LoseOwnership, RefuseInitial, CallRefused, Fail, vars
<1>8. ASSUME NEW r \in Runs, Claim(r) \/ CallModel(r) \/ Finish(r)
      PROVE  UNCHANGED checkpoints
  BY <1>8 DEF Claim, ClaimRun, CallModel, BeginProviderCall, Finish, FinishRun
<1>9. QED
  BY <1>1, <1>2, <1>4, <1>5, <1>6, <1>7, <1>8 DEF AttemptsNext

\* The current checkpoint is a row as soon as any checkpoint is.
LEMMA CurrentExists ==
    ASSUME LInv, NEW c \in DOMAIN checkpoints
    PROVE  current \in DOMAIN checkpoints /\ current # 0 /\ c # 0
BY DEF LInv, SInv, TypeOK, EmptyUntilCreated

\* An attempt that goes on under another phase, with the plan it had or another.
LEMMA PlansKept ==
    ASSUME AInv, LInv', Len(checkpoints) \in Nat, Len(checkpoints') \in Nat,
           Len(checkpoints) <= Len(checkpoints'),
           NEW r \in Runs, NEW p \in Phases,
           NEW b \in 1 .. Len(checkpoints'), NEW rest \in Seq(Texts),
           phase' = [phase EXCEPT ![r] = p],
           plan' = [plan EXCEPT ![r] = [base |-> b, rest |-> rest]]
    PROVE  /\ Plans'
           /\ phase' \in [Runs -> Phases]
           /\ \A q \in Runs : plan'[q].base \in 0 .. Len(checkpoints') /\ plan'[q].rest \in Seq(Texts)
<1>1. plan' \in [Runs -> [base : Nat, rest : Seq(Texts)]] /\ phase' \in [Runs -> Phases]
  BY DEF AInv, Plans, AttemptsTypeOK
<1>2. /\ plan'[r].base = b /\ plan'[r].rest = rest
      /\ \A q \in Runs : q # r => plan'[q] = plan[q] /\ phase'[q] = phase[q]
  BY DEF AInv, Plans, AttemptsTypeOK
<1>3. \A q \in Runs : plan[q].base \in 0 .. Len(checkpoints) /\ plan[q].rest \in Seq(Texts)
  BY DEF AInv, AttemptsTypeOK
<1>4. \A q \in Runs : plan'[q].base \in 0 .. Len(checkpoints') /\ plan'[q].rest \in Seq(Texts)
  BY <1>2, <1>3
<1>5. \A q \in Runs : phase'[q] # "idle" => plan'[q].base # 0
  BY <1>2 DEF AInv, Plans
<1>6. QED
  BY <1>1, <1>4, <1>5 DEF Plans

\* A plan with other messages to append.
LEMMA OtherRest ==
    ASSUME NEW p \in [base : Nat, rest : Seq(Texts)], NEW rest
    PROVE  [p EXCEPT !.rest = rest] = [base |-> p.base, rest |-> rest]
OBVIOUS

LEMMA AStepInv == AInv /\ [AttemptsNext]_allVars => AInv'
<1> SUFFICES ASSUME AInv, [AttemptsNext]_allVars PROVE AInv'
  OBVIOUS
<1>1. LInv /\ AttemptsTypeOK /\ Plans /\ EngineAtHead
  BY DEF AInv
<1>2. LInv' /\ TypeOK'
  BY <1>1, StoreStep, LStepInv DEF LInv, SInv
<1>3. /\ Len(checkpoints) \in Nat /\ Len(checkpoints') \in Nat
      /\ Len(checkpoints) <= Len(checkpoints')
      /\ DOMAIN checkpoints = 1 .. Len(checkpoints)
      /\ DOMAIN checkpoints' = 1 .. Len(checkpoints')
  BY <1>1, <1>2, TableStays DEF LInv
<1>4. \A i \in Inputs : anchors[i] \in 0 .. Len(checkpoints')
  BY <1>1, <1>3 DEF AttemptsTypeOK
<1>5. anchors \in [Inputs -> 0 .. Len(checkpoints')]
  BY <1>1, <1>4 DEF AttemptsTypeOK
<1>6. ASSUME UNCHANGED <<anchors, input, pending, taken, alone>>,
             NEW r \in Runs, NEW p \in Phases,
             NEW b \in 1 .. Len(checkpoints'), NEW rest \in Seq(Texts),
             phase' = [phase EXCEPT ![r] = p],
             plan' = [plan EXCEPT ![r] = [base |-> b, rest |-> rest]]
      PROVE  AttemptsTypeOK' /\ Plans'
  <2>1. /\ Plans' /\ phase' \in [Runs -> Phases]
        /\ \A q \in Runs : plan'[q].base \in 0 .. Len(checkpoints') /\ plan'[q].rest \in Seq(Texts)
    BY <1>2, <1>3, <1>6, PlansKept
  <2>2. QED
    BY <1>1, <1>2, <1>5, <1>6, <2>1 DEF AttemptsTypeOK
<1>7. ASSUME NEW r \in Runs, NEW p \in Phases, phase[r] # "idle",
             UNCHANGED <<anchors, input, pending, taken, alone, plan>>,
             phase' = [phase EXCEPT ![r] = p]
      PROVE  AttemptsTypeOK' /\ Plans'
  <2>1. /\ plan[r].base \in 1 .. Len(checkpoints') /\ plan[r].rest \in Seq(Texts)
        /\ plan[r] = [base |-> plan[r].base, rest |-> plan[r].rest]
    BY <1>1, <1>3, <1>7 DEF AttemptsTypeOK, Plans
  <2>2. plan' = [plan EXCEPT ![r] = [base |-> plan[r].base, rest |-> plan[r].rest]]
    BY <1>1, <1>7, <2>1 DEF Plans
  <2>3. QED
    BY <1>6, <1>7, <2>1, <2>2
<1>8. ASSUME UNCHANGED <<current, active>>, NEW r \in Runs,
             \A q \in Runs : q # r => phase'[q] = phase[q] /\ plan'[q] = plan[q],
             phase'[r] \in {"claimed", "answering", "answered"} =>
                 phase[r] \in {"claimed", "answering", "answered"} /\ plan'[r].base = plan[r].base
      PROVE  EngineAtHead'
  BY <1>1, <1>8 DEF EngineAtHead
<1>9. CASE UNCHANGED allVars
  BY <1>1, <1>2, <1>9 DEF AInv, allVars, attemptVars, vars, AttemptsTypeOK, Plans, EngineAtHead
<1>10. CASE EnsureConversation /\ UNCHANGED attemptVars
  <2>1. active' = NoRun
    BY <1>1, <1>10 DEF EnsureConversation, LInv, SInv, EmptyUntilCreated
  <2>2. EngineAtHead'
    BY <2>1, NoRunAssumption DEF EngineAtHead
  <2>3. \A r \in Runs : plan[r].base \in 0 .. Len(checkpoints') /\ plan[r].rest \in Seq(Texts)
    BY <1>1, <1>3 DEF AttemptsTypeOK
  <2>4. AttemptsTypeOK' /\ Plans'
    BY <1>1, <1>2, <1>5, <1>10, <2>3 DEF AttemptsTypeOK, Plans, attemptVars
  <2>5. QED
    BY <1>2, <2>2, <2>4 DEF AInv
<1>11. CASE Crash
  <2>1. phase' \in [Runs -> Phases]
    BY <1>1, <1>11 DEF Crash, AttemptsTypeOK, Phases
  <2>2. \A r \in Runs : phase'[r] # "idle" => phase[r] # "idle"
    BY <1>11 DEF Crash, UnderWay
  <2>3. \A r \in Runs : phase'[r] \notin {"claimed", "answering", "answered"}
    BY <1>1, <1>11 DEF Crash, UnderWay, AttemptsTypeOK, Phases
  <2>4. <<>> \in Seq(Wakes)
    OBVIOUS
  <2>5. AttemptsTypeOK' /\ Plans' /\ EngineAtHead'
    BY <1>1, <1>2, <1>11, <2>1, <2>2, <2>3, <2>4
       DEF Crash, vars, AttemptsTypeOK, Plans, EngineAtHead
  <2>6. QED
    BY <1>2, <2>5 DEF AInv
<1>12. ASSUME NEW m \in Wakes, DeliverLater(m) PROVE AInv'
  <2>1. pending' \in Seq(Wakes)
    BY <1>1, <1>12 DEF DeliverLater, AttemptsTypeOK
  <2>2. AttemptsTypeOK' /\ Plans' /\ EngineAtHead'
    BY <1>1, <1>2, <1>12, <2>1 DEF DeliverLater, vars, AttemptsTypeOK, Plans, EngineAtHead
  <2>3. QED
    BY <1>2, <2>2 DEF AInv
<1>13. ASSUME NEW r \in Runs, NEW i \in Inputs, NEW c \in DOMAIN checkpoints, AnchorInput(r, i, c)
       PROVE  AInv'
  <2>1. Anchor(i, c) \in 1 .. Len(checkpoints')
    BY <1>1, <1>3 DEF Anchor, AttemptsTypeOK
  <2>2. Initial[i] \in Seq(Texts)
    BY InitialAssumption
  <2>3. /\ Plans' /\ phase' \in [Runs -> Phases]
        /\ \A q \in Runs : plan'[q].base \in 0 .. Len(checkpoints') /\ plan'[q].rest \in Seq(Texts)
    <3>1. "anchored" \in Phases
      BY DEF Phases
    <3>2. /\ phase' = [phase EXCEPT ![r] = "anchored"]
          /\ plan' = [plan EXCEPT ![r] = [base |-> Anchor(i, c), rest |-> Initial[i]]]
      BY <1>13 DEF AnchorInput
    <3>3. QED
      BY <1>2, <1>3, <2>1, <2>2, <3>1, <3>2, PlansKept
  <2>4. /\ anchors' \in [Inputs -> 0 .. Len(checkpoints')] /\ input' \in [Runs -> Inputs]
        /\ alone' \subseteq Runs /\ UNCHANGED <<pending, taken>>
    <3>1. anchors' = [anchors EXCEPT ![i] = Anchor(i, c)]
      BY <1>13 DEF AnchorInput
    <3>2. anchors' \in [Inputs -> 0 .. Len(checkpoints')]
      BY <1>5, <2>1, <3>1
    <3>3. QED
      BY <1>1, <1>13, <3>2 DEF AnchorInput, AttemptsTypeOK
  <2>5. AttemptsTypeOK'
    BY <1>1, <1>2, <2>3, <2>4 DEF AttemptsTypeOK
  <2>6. EngineAtHead'
    BY <1>1, <1>8, <1>13 DEF AnchorInput, AttemptsTypeOK, Plans, vars
  <2>7. QED
    BY <1>2, <2>3, <2>5, <2>6 DEF AInv
<1>14. ASSUME NEW r \in Runs, Prepare(r) PROVE AInv'
  <2>1. /\ phase[r] = "anchored" /\ phase' = [phase EXCEPT ![r] = "prepared"]
        /\ plan' = [plan EXCEPT ![r] = MatchPrefix(plan[r].base, plan[r].rest)]
        /\ UNCHANGED <<vars, anchors, input, pending, taken, alone>>
    BY <1>14 DEF Prepare
  <2>2. plan[r].base \in DOMAIN checkpoints /\ plan[r].rest \in Seq(Texts)
    BY <1>1, <1>3, <2>1 DEF AttemptsTypeOK, Plans
  <2>3. MatchPrefix(plan[r].base, plan[r].rest) \in [base : DOMAIN checkpoints, rest : Seq(Texts)]
    BY <1>1, <2>2, MatchedPrefix DEF Searched, Reaches
  <2>4. PICK b \in 1 .. Len(checkpoints'), rest \in Seq(Texts) :
            MatchPrefix(plan[r].base, plan[r].rest) = [base |-> b, rest |-> rest]
    BY <1>3, <2>3
  <2>5. AttemptsTypeOK' /\ Plans'
    BY <1>6, <2>1, <2>4 DEF Phases
  <2>6. EngineAtHead'
    BY <1>1, <1>8, <2>1 DEF AttemptsTypeOK, Plans, vars
  <2>7. QED
    BY <1>2, <2>5, <2>6 DEF AInv
<1>15. ASSUME NEW r \in Runs, TakePending(r) \/ RebasePending(r) PROVE AInv'
  <2>1. plan[r].base \in DOMAIN checkpoints /\ plan[r].rest \in Seq(Texts)
        /\ plan[r] = [base |-> plan[r].base, rest |-> plan[r].rest]
    BY <1>1, <1>3, <1>15 DEF TakePending, RebasePending, AttemptsTypeOK, Plans
  <2>2. plan[r].base \in 1 .. Len(checkpoints') /\ current \in 1 .. Len(checkpoints')
    BY <1>1, <1>3, <2>1, CurrentExists
  <2>3. CASE TakePending(r)
    <3>1. PICK p \in {"ready", "collected"} :
              /\ phase[r] = "prepared" /\ phase' = [phase EXCEPT ![r] = p]
              /\ taken' = [taken EXCEPT ![r] = pending] /\ pending' = <<>>
              /\ UNCHANGED <<vars, anchors, input, plan, alone>>
      BY <2>3 DEF TakePending
    <3>2. plan' = [plan EXCEPT ![r] = [base |-> plan[r].base, rest |-> plan[r].rest]]
      BY <1>1, <2>1, <3>1 DEF Plans
    <3>3. /\ Plans' /\ phase' \in [Runs -> Phases]
          /\ \A q \in Runs : plan'[q].base \in 0 .. Len(checkpoints') /\ plan'[q].rest \in Seq(Texts)
      BY <1>2, <1>3, <2>1, <2>2, <3>1, <3>2, PlansKept DEF Phases
    <3>4. taken' \in [Runs -> Seq(Wakes)] /\ pending' \in Seq(Wakes)
      BY <1>1, <3>1 DEF AttemptsTypeOK
    <3>5. AttemptsTypeOK'
      BY <1>1, <1>2, <1>5, <3>1, <3>3, <3>4 DEF AttemptsTypeOK
    <3>6. EngineAtHead'
      BY <1>1, <1>8, <3>1 DEF AttemptsTypeOK, Plans, vars
    <3>7. QED
      BY <1>2, <3>3, <3>5, <3>6 DEF AInv
  <2>4. CASE RebasePending(r)
    <3>1. PICK at \in {current, plan[r].base} :
              plan' = [plan EXCEPT ![r] = [base |-> at, rest |-> taken[r] \o plan[r].rest]]
      BY <2>4 DEF RebasePending, WithPending
    <3>2. /\ phase' = [phase EXCEPT ![r] = "ready"]
          /\ UNCHANGED <<vars, anchors, input, pending, taken, alone>>
      BY <2>4 DEF RebasePending
    <3>3. at \in 1 .. Len(checkpoints')
      BY <2>2, <3>1
    <3>4. taken[r] \o plan[r].rest \in Seq(Texts)
      <4>1. taken[r] \in Seq(Texts)
        BY <1>1, InitialAssumption DEF AttemptsTypeOK
      <4>2. QED
        BY <2>1, <4>1
    <3>5. AttemptsTypeOK' /\ Plans'
      BY <1>6, <3>1, <3>2, <3>3, <3>4 DEF Phases
    <3>6. EngineAtHead'
      BY <1>1, <1>8, <3>1, <3>2 DEF AttemptsTypeOK, Plans, vars
    <3>7. QED
      BY <1>2, <3>5, <3>6 DEF AInv
  <2>5. QED
    BY <1>15, <2>3, <2>4
<1>16. ASSUME NEW r \in Runs,
              Supersede(r) \/ LoseOwnership(r) \/ RefuseInitial(r) \/ CallRefused(r) \/ Fail(r)
       PROVE  AInv'
  <2>1. PICK p \in {"ended", "lost", "refused", "failed"} :
            /\ phase[r] # "idle" /\ phase' = [phase EXCEPT ![r] = p]
            /\ UNCHANGED <<vars, anchors, input, plan, pending, taken, alone>>
    BY <1>16 DEF Supersede, LoseOwnership, RefuseInitial, CallRefused, Fail
  <2>2. AttemptsTypeOK' /\ Plans'
    BY <1>7, <2>1 DEF Phases
  <2>3. EngineAtHead'
    BY <1>1, <1>8, <2>1 DEF AttemptsTypeOK, vars
  <2>4. QED
    BY <1>2, <2>2, <2>3 DEF AInv
<1>17. ASSUME NEW r \in Runs, Claim(r) PROVE AInv'
  <2>1. /\ phase[r] = "ready" /\ phase' = [phase EXCEPT ![r] = "claimed"]
        /\ current' = plan[r].base /\ active' = r
        /\ UNCHANGED <<anchors, input, plan, pending, taken, alone>>
    BY <1>17 DEF Claim, ClaimRun
  <2>2. AttemptsTypeOK' /\ Plans'
    BY <1>7, <2>1 DEF Phases
  <2>3. EngineAtHead'
    BY <2>1 DEF EngineAtHead
  <2>4. QED
    BY <1>2, <2>2, <2>3 DEF AInv
<1>18. ASSUME NEW r \in Runs, AppendInitial(r) PROVE AInv'
  <2>1. /\ phase[r] = "claimed" /\ plan[r].rest # <<>> /\ active = r /\ active' = active
        /\ current' = NewCheckpoint
        /\ plan' = [plan EXCEPT ![r] = [base |-> NewCheckpoint, rest |-> Tail(plan[r].rest)]]
        /\ UNCHANGED <<anchors, phase, input, pending, taken, alone>>
    BY <1>18 DEF AppendInitial, AppendMessageOnce, AppendAt, OwnsHead, Appended
  <2>2. NewCheckpoint \in 1 .. Len(checkpoints')
    BY <1>1, <1>2, <1>3, <2>1 DEF LInv, SInv, TypeOK, NewCheckpoint
  <2>3. plan[r].rest \in Seq(Texts)
    BY <1>1 DEF AttemptsTypeOK
  <2>4. Tail(plan[r].rest) \in Seq(Texts)
    BY <2>1, <2>3
  <2>5. phase' = [phase EXCEPT ![r] = "claimed"]
    BY <1>1, <2>1 DEF AttemptsTypeOK
  <2>6. AttemptsTypeOK' /\ Plans'
    BY <1>6, <2>1, <2>2, <2>4, <2>5 DEF Phases
  <2>7. EngineAtHead'
    BY <1>1, <2>1 DEF EngineAtHead, Plans
  <2>8. QED
    BY <1>2, <2>6, <2>7 DEF AInv
<1>19. ASSUME NEW r \in Runs, SkipInitial(r) PROVE AInv'
  <2>1. /\ phase[r] = "claimed" /\ plan[r].rest # <<>>
        /\ plan' = [plan EXCEPT ![r].rest = Tail(plan[r].rest)]
        /\ UNCHANGED <<vars, anchors, phase, input, pending, taken, alone>>
    BY <1>19 DEF SkipInitial
  <2>2. plan[r].rest \in Seq(Texts) /\ plan[r].base \in 1 .. Len(checkpoints')
    BY <1>1, <1>3, <2>1 DEF AttemptsTypeOK, Plans
  <2>3. Tail(plan[r].rest) \in Seq(Texts)
    BY <2>1, <2>2
  <2>4. /\ phase' = [phase EXCEPT ![r] = "claimed"]
        /\ plan' = [plan EXCEPT ![r] = [base |-> plan[r].base, rest |-> Tail(plan[r].rest)]]
    <3>1. plan[r] \in [base : Nat, rest : Seq(Texts)] /\ phase \in [Runs -> Phases]
      BY <1>1 DEF AttemptsTypeOK, Plans
    <3>2. [plan[r] EXCEPT !.rest = Tail(plan[r].rest)]
             = [base |-> plan[r].base, rest |-> Tail(plan[r].rest)]
      BY <3>1, OtherRest
    <3>3. QED
      BY <2>1, <3>1, <3>2
  <2>5. AttemptsTypeOK' /\ Plans'
    BY <1>6, <2>1, <2>2, <2>3, <2>4 DEF Phases
  <2>6. EngineAtHead'
    BY <1>1, <1>8, <2>1, <2>4 DEF AttemptsTypeOK, Plans, vars
  <2>7. QED
    BY <1>2, <2>5, <2>6 DEF AInv
<1>20. ASSUME NEW r \in Runs, CallModel(r) PROVE AInv'
  <2>1. /\ phase[r] = "claimed" /\ phase' = [phase EXCEPT ![r] = "answering"]
        /\ UNCHANGED <<current, active, anchors, input, plan, pending, taken, alone>>
    BY <1>20 DEF CallModel, BeginProviderCall
  <2>2. AttemptsTypeOK' /\ Plans'
    BY <1>7, <2>1 DEF Phases
  <2>3. EngineAtHead'
    BY <1>1, <1>8, <2>1 DEF AttemptsTypeOK
  <2>4. QED
    BY <1>2, <2>2, <2>3 DEF AInv
<1>21. ASSUME NEW r \in Runs, AnswerInput(r) PROVE AInv'
  <2>1. /\ phase[r] = "answering" /\ phase' = [phase EXCEPT ![r] = "answered"]
        /\ active = r /\ active' = active /\ current' = NewCheckpoint
        /\ plan' = [plan EXCEPT ![r].base = NewCheckpoint]
        /\ UNCHANGED <<anchors, input, pending, taken, alone>>
    BY <1>21 DEF AnswerInput, AppendAnswer, AppendAt, OwnsHead
  <2>2. NewCheckpoint \in 1 .. Len(checkpoints')
    BY <1>1, <1>2, <1>3, <2>1 DEF LInv, SInv, TypeOK, NewCheckpoint
  <2>3. plan[r].rest \in Seq(Texts)
    BY <1>1 DEF AttemptsTypeOK
  <2>4. plan' = [plan EXCEPT ![r] = [base |-> NewCheckpoint, rest |-> plan[r].rest]]
    <3>1. plan[r] \in [base : Nat, rest : Seq(Texts)]
      BY <1>1 DEF Plans
    <3>2. [plan[r] EXCEPT !.base = NewCheckpoint] = [base |-> NewCheckpoint, rest |-> plan[r].rest]
      BY <3>1
    <3>3. QED
      BY <2>1, <3>2
  <2>5. AttemptsTypeOK' /\ Plans'
    BY <1>6, <2>1, <2>2, <2>3, <2>4 DEF Phases
  <2>6. EngineAtHead'
    BY <1>1, <2>1 DEF EngineAtHead, Plans
  <2>7. QED
    BY <1>2, <2>5, <2>6 DEF AInv
<1>22. ASSUME NEW r \in Runs, Finish(r) PROVE AInv'
  <2>1. /\ phase[r] # "idle" /\ phase' = [phase EXCEPT ![r] = "ended"]
        /\ active' \in {active, NoRun}
        /\ UNCHANGED <<current, anchors, input, plan, pending, taken, alone>>
    BY <1>22 DEF Finish, FinishRun, OwnerAfterFinish
  <2>2. AttemptsTypeOK' /\ Plans'
    BY <1>7, <2>1 DEF Phases
  <2>3. EngineAtHead'
    BY <1>1, <2>1, NoRunAssumption DEF AttemptsTypeOK, EngineAtHead
  <2>4. QED
    BY <1>2, <2>2, <2>3 DEF AInv
<1>23. QED
  BY <1>9, <1>10, <1>11, <1>12, <1>13, <1>14, <1>15, <1>16, <1>17, <1>18, <1>19, <1>20, <1>21,
     <1>22 DEF AttemptsNext

-----------------------------------------------------------------------------
(* What histories are made of.                                              *)

\* What an append adds to the table.
LEMMA AppendedRow ==
    ASSUME LInv, NEW r, NEW c \in DOMAIN checkpoints, NEW m, AppendAt(r, c, <<m>>)
    PROVE  /\ DOMAIN checkpoints' = DOMAIN checkpoints \cup {NewCheckpoint}
           /\ NewCheckpoint \notin DOMAIN checkpoints
           /\ \A k \in DOMAIN checkpoints : checkpoints'[k] = checkpoints[k] /\ k < NewCheckpoint
           /\ checkpoints'[NewCheckpoint].parent = c
           /\ checkpoints'[NewCheckpoint].digest = History(c) \o <<m>>
<1>1. /\ checkpoints \in Seq(Row) /\ Len(checkpoints) \in Nat
      /\ DOMAIN checkpoints = 1 .. Len(checkpoints)
  BY DEF LInv
<1> DEFINE row == [parent |-> c, rows |-> [i \in DOMAIN <<m>> |-> <<m>>[i].id],
                   digest |-> History(c) \o <<m>>]
<1>2. Load(c) = History(c)
  BY LoadIsDigest DEF History
<1>3. checkpoints' = Append(checkpoints, row)
  BY <1>2 DEF AppendAt, InsertCheckpoint
<1>4. row.parent = c /\ row.digest = History(c) \o <<m>>
  OBVIOUS
<1> HIDE DEF row
<1>5. /\ DOMAIN checkpoints' = 1 .. (Len(checkpoints) + 1)
      /\ \A k \in DOMAIN checkpoints : checkpoints'[k] = checkpoints[k]
      /\ checkpoints'[Len(checkpoints) + 1] = row
  BY <1>1, <1>3
<1>6. QED
  BY <1>1, <1>4, <1>5 DEF NewCheckpoint

\* Attempt r appends m.
Says(r, m) ==
    /\ plan[r].base \in DOMAIN checkpoints
    /\ AppendAt(r, plan[r].base, <<m>>)
    /\ \/ AppendInitial(r) /\ plan[r].rest # <<>> /\ m = Head(plan[r].rest)
       \/ AnswerInput(r) /\ m \in Answers

\* Every step leaves the table as it is, makes the root, or appends one message.
LEMMA TableSteps ==
    ASSUME AInv, [AttemptsNext]_allVars
    PROVE  \/ UNCHANGED checkpoints
           \/ /\ DOMAIN checkpoints = {} /\ DOMAIN checkpoints' = {1}
              /\ checkpoints'[1].digest = <<>>
              /\ UNCHANGED attemptVars
           \/ \E r \in Runs, m \in Texts \cup Answers : Says(r, m)
<1>1. CASE Crash \/ UNCHANGED allVars \/ \E m \in Wakes : DeliverLater(m)
  BY <1>1 DEF Crash, allVars, vars, DeliverLater
<1>2. CASE EnsureConversation /\ UNCHANGED attemptVars
  <2>1. Len(checkpoints) = 0 /\ DOMAIN checkpoints = 1 .. Len(checkpoints)
    BY <1>2 DEF EnsureConversation, AInv, LInv, SInv, TypeOK, EmptyUntilCreated
  <2>2. checkpoints' = <<RootCheckpoint>>
    BY <1>2 DEF EnsureConversation
  <2>3. DOMAIN checkpoints' = {1} /\ checkpoints'[1].digest = <<>>
    BY <2>2 DEF RootCheckpoint
  <2>4. QED
    BY <1>2, <2>1, <2>3
<1>3. ASSUME NEW r \in Runs, AppendInitial(r)
      PROVE  \E m \in Texts : Says(r, m)
  <2>1. plan[r].rest \in Seq(Texts) /\ plan[r].rest # <<>>
    BY <1>3 DEF AppendInitial, AInv, AttemptsTypeOK
  <2>2. Head(plan[r].rest) \in Texts
    BY <2>1
  <2>3. QED
    BY <1>3, <2>1, <2>2 DEF AppendInitial, AppendMessageOnce, Says
<1>4. ASSUME NEW r \in Runs, AnswerInput(r)
      PROVE  \E m \in Answers : Says(r, m)
  <2>1. answers[r] \in 1 .. MaxAnswers
    BY <1>4, BoundsAssumption
       DEF AnswerInput, AppendAnswer, Unanswered, AInv, LInv, SInv, TypeOK
  <2>2. Answer(r, answers[r]) \in Answers
    BY <2>1 DEF Answers
  <2>3. QED
    BY <1>4, <2>2 DEF AnswerInput, AppendAnswer, Says
<1>5. ASSUME NEW r \in Runs,
             \/ \E i \in Inputs, c \in DOMAIN checkpoints : AnchorInput(r, i, c)
             \/ Prepare(r) \/ TakePending(r) \/ RebasePending(r)
             \/ Supersede(r) \/ SkipInitial(r)
             \/ LoseOwnership(r) \/ RefuseInitial(r) \/ CallRefused(r) \/ Fail(r)
      PROVE  UNCHANGED checkpoints
  BY <1>5 DEF AnchorInput, Prepare, TakePending, RebasePending, Supersede, SkipInitial,
     LoseOwnership, RefuseInitial, CallRefused, Fail, vars
<1>6. ASSUME NEW r \in Runs, Claim(r) \/ CallModel(r) \/ Finish(r)
      PROVE  UNCHANGED checkpoints
  BY <1>6 DEF Claim, ClaimRun, CallModel, BeginProviderCall, Finish, FinishRun
<1>7. QED
  BY <1>1, <1>2, <1>3, <1>4, <1>5, <1>6 DEF AttemptsNext

\* Histories consist of texts and answers, each added by a checkpoint of its own.
LEMMA SpokenStep ==
    ASSUME AInv, Spoken, OneByOne, [AttemptsNext]_allVars
    PROVE  Spoken' /\ OneByOne'
<1>1. CASE UNCHANGED checkpoints
  BY <1>1 DEF Spoken, OneByOne, History
<1>2. CASE DOMAIN checkpoints' = {1} /\ checkpoints'[1].digest = <<>>
  <2>1. <<>> \in Seq(Texts \cup Answers)
    OBVIOUS
  <2>2. QED
    BY <1>2, <2>1, Zenon DEF Spoken, OneByOne, History
<1>3. ASSUME NEW r \in Runs, NEW m \in Texts \cup Answers, Says(r, m)
      PROVE  Spoken' /\ OneByOne'
  <2> DEFINE c == plan[r].base
             new == NewCheckpoint
  <2>1. /\ c \in DOMAIN checkpoints /\ DOMAIN checkpoints' = DOMAIN checkpoints \cup {new}
        /\ \A k \in DOMAIN checkpoints : checkpoints'[k] = checkpoints[k]
        /\ checkpoints'[new].parent = c
        /\ checkpoints'[new].digest = checkpoints[c].digest \o <<m>>
    BY <1>3, AppendedRow DEF Says, AInv, History
  <2> HIDE DEF c, new
  <2>2. checkpoints[c].digest \o <<m>> \in Seq(Texts \cup Answers)
    <3>1. checkpoints[c].digest \in Seq(Texts \cup Answers)
      BY <2>1 DEF Spoken, History
    <3>2. QED
      BY <3>1
  <2>3. \A k \in DOMAIN checkpoints' : checkpoints'[k].digest \in Seq(Texts \cup Answers)
    BY <2>1, <2>2 DEF Spoken, History
  <2>4. ASSUME NEW k \in DOMAIN checkpoints'
        PROVE  \/ checkpoints'[k].digest = <<>>
               \/ /\ checkpoints'[k].parent \in DOMAIN checkpoints'
                  /\ \E x \in Texts \cup Answers :
                        checkpoints'[k].digest = checkpoints'[checkpoints'[k].parent].digest \o <<x>>
    <3>1. CASE k = new
      BY <2>1, <3>1
    <3>2. CASE k # new
      <4>1. k \in DOMAIN checkpoints /\ checkpoints'[k] = checkpoints[k]
        BY <2>1, <3>2
      <4>2. \/ checkpoints[k].digest = <<>>
            \/ /\ checkpoints[k].parent \in DOMAIN checkpoints
               /\ \E x \in Texts \cup Answers :
                     checkpoints[k].digest = checkpoints[checkpoints[k].parent].digest \o <<x>>
        BY <4>1 DEF OneByOne, History
      <4>3. QED
        BY <2>1, <4>1, <4>2
    <3>3. QED
      BY <3>1, <3>2
  <2>5. Spoken'
    BY <2>3 DEF Spoken, History
  <2>6. OneByOne'
    BY <2>4, Zenon DEF OneByOne, History
  <2>7. QED
    BY <2>5, <2>6
<1>4. QED
  BY <1>1, <1>2, <1>3, TableSteps

-----------------------------------------------------------------------------
(* Attempts at one input.                                                   *)

\* The messages of an input are nobody else's.
LEMMA OwnTexts ==
    ASSUME MessagesAreDistinct, NEW i \in Inputs
    PROVE  /\ Initial[i] \in Seq(Texts) /\ Range(Initial[i]) \subseteq Texts
           /\ Range(Initial[i]) \cap Wakes = {} /\ Range(Initial[i]) \cap Answers = {}
           /\ \A j \in Inputs : j # i => Range(Initial[i]) \cap Range(Initial[j]) = {}
<1>1. Initial[i] \in Seq(Texts)
  BY InitialAssumption
<1>2. Range(Initial[i]) \subseteq Texts
  BY <1>1 DEF Range
<1>3. Texts \cap Answers = {}
  BY DEF MessagesAreDistinct, Answers
<1>4. QED
  BY <1>1, <1>2, <1>3 DEF MessagesAreDistinct

\* An anchor that was set stays.
LEMMA AnchorsStay ==
    ASSUME AInv, [AttemptsNext]_allVars
    PROVE  /\ \A i \in Inputs : anchors[i] # 0 => anchors'[i] = anchors[i]
           /\ \/ UNCHANGED anchors
              \/ \E r \in Runs, i \in Inputs, c \in DOMAIN checkpoints : AnchorInput(r, i, c)
<1>1. ASSUME NEW r \in Runs,
             \/ Prepare(r) \/ TakePending(r) \/ RebasePending(r) \/ Claim(r) \/ Supersede(r)
             \/ AppendInitial(r) \/ SkipInitial(r) \/ LoseOwnership(r) \/ RefuseInitial(r)
             \/ CallModel(r) \/ CallRefused(r) \/ AnswerInput(r) \/ Fail(r) \/ Finish(r)
      PROVE  UNCHANGED anchors
  BY <1>1 DEF Prepare, TakePending, RebasePending, Claim, Supersede, AppendInitial,
     SkipInitial, LoseOwnership, RefuseInitial, CallModel, CallRefused, AnswerInput, Fail,
     Finish
<1>2. CASE \/ UNCHANGED allVars \/ Crash \/ \E m \in Wakes : DeliverLater(m)
           \/ EnsureConversation /\ UNCHANGED attemptVars
  BY <1>2 DEF allVars, attemptVars, Crash, DeliverLater
<1>3. ASSUME NEW r \in Runs, NEW i \in Inputs, NEW c \in DOMAIN checkpoints, AnchorInput(r, i, c)
      PROVE  \A j \in Inputs : anchors[j] # 0 => anchors'[j] = anchors[j]
  BY <1>3 DEF AnchorInput, Anchor, AInv, AttemptsTypeOK
<1>4. QED
  BY <1>1, <1>2, <1>3 DEF AttemptsNext

LEMMA AnchorsStep ==
    ASSUME MessagesAreDistinct, AInv, AnchorsComeFirst, Attempting, [AttemptsNext]_allVars
    PROVE  AnchorsComeFirst'
<1>1. /\ anchors \in [Inputs -> 0 .. Len(checkpoints)] /\ input \in [Runs -> Inputs]
      /\ DOMAIN checkpoints = 1 .. Len(checkpoints) /\ Len(checkpoints) \in Nat
  BY DEF AInv, AttemptsTypeOK, LInv
<1>2. CASE UNCHANGED <<checkpoints, anchors>>
  BY <1>2 DEF AnchorsComeFirst, Untouched, History
<1>3. ASSUME NEW r \in Runs, NEW i \in Inputs, NEW c \in DOMAIN checkpoints, AnchorInput(r, i, c)
      PROVE  AnchorsComeFirst'
  <2>1. /\ UNCHANGED checkpoints /\ anchors' = [anchors EXCEPT ![i] = Anchor(i, c)] /\ c # 0
    BY <1>1, <1>3 DEF AnchorInput, vars
  <2>2. ASSUME NEW j \in Inputs
        PROVE  IF anchors'[j] = 0 THEN \A k \in DOMAIN checkpoints : Untouched(j, k)
                                  ELSE Untouched(j, anchors'[j])
    <3>1. CASE j = i /\ anchors[i] = 0
      BY <1>1, <2>1, <3>1 DEF AnchorsComeFirst, Anchor
    <3>2. CASE j # i \/ anchors[i] # 0
      BY <1>1, <2>1, <3>2 DEF AnchorsComeFirst, Anchor
    <3>3. QED
      BY <3>1, <3>2
  <2>3. QED
    BY <2>1, <2>2 DEF AnchorsComeFirst, Untouched, History
<1>4. CASE /\ DOMAIN checkpoints = {} /\ DOMAIN checkpoints' = {1}
           /\ checkpoints'[1].digest = <<>> /\ UNCHANGED attemptVars
  <2>1. \A i \in Inputs : anchors[i] = 0
    BY <1>1, <1>4
  <2>2. UNCHANGED anchors /\ DOMAIN <<>> = {}
    BY <1>4 DEF attemptVars
  <2>3. QED
    BY <1>4, <2>1, <2>2 DEF AnchorsComeFirst, Untouched, History
<1>5. ASSUME NEW r \in Runs, NEW m \in Texts \cup Answers, Says(r, m)
      PROVE  AnchorsComeFirst'
  <2> DEFINE c == plan[r].base
             new == NewCheckpoint
  <2>1. /\ c \in DOMAIN checkpoints /\ DOMAIN checkpoints' = DOMAIN checkpoints \cup {new}
        /\ \A k \in DOMAIN checkpoints : checkpoints'[k] = checkpoints[k]
        /\ checkpoints'[new].digest = checkpoints[c].digest \o <<m>>
        /\ checkpoints[c].digest \in Seq(Messages)
    <3>1. LInv /\ c \in DOMAIN checkpoints /\ AppendAt(r, c, <<m>>)
      BY <1>5 DEF Says, AInv
    <3> HIDE DEF c
    <3>2. QED
      BY <3>1, AppendedRow, RowTypes DEF History
  <2>2. UNCHANGED anchors
    BY <1>5 DEF Says, AppendInitial, AnswerInput
  <2> HIDE DEF c, new
  <2>3. ASSUME NEW i \in Inputs, anchors[i] = 0 PROVE m \notin Range(Initial[i])
    <3>1. CASE AppendInitial(r) /\ plan[r].rest # <<>> /\ m = Head(plan[r].rest)
      <4>1. plan[r].rest \in Seq(Texts)
        BY DEF AInv, AttemptsTypeOK
      <4>2. m \in Range(plan[r].rest)
        BY <3>1, <4>1 DEF Range
      <4>3. phase[r] \in Working
        BY <3>1 DEF AppendInitial, Working
      <4>4. anchors[input[r]] # 0 /\ m \in Range(Initial[input[r]]) \cup Wakes
        BY <4>2, <4>3 DEF Attempting, Attempt
      <4>5. input[r] \in Inputs /\ input[r] # i
        BY <1>1, <2>3, <4>4
      <4>6. QED
        BY <4>4, <4>5, OwnTexts
    <3>2. CASE m \in Answers
      BY <3>2, OwnTexts
    <3>3. QED
      BY <1>5, <3>1, <3>2 DEF Says
  <2>4. ASSUME NEW i \in Inputs, anchors[i] = 0
        PROVE  \A j \in DOMAIN checkpoints'[new].digest :
                   checkpoints'[new].digest[j] \notin Range(Initial[i])
    <3>1. \A j \in DOMAIN checkpoints[c].digest : checkpoints[c].digest[j] \notin Range(Initial[i])
      BY <2>1, <2>4 DEF AnchorsComeFirst, Untouched, History
    <3>2. m \notin Range(Initial[i])
      BY <2>3, <2>4
    <3>3. \A j \in DOMAIN (checkpoints[c].digest \o <<m>>) :
              \/ (checkpoints[c].digest \o <<m>>)[j] = m
              \/ j \in DOMAIN checkpoints[c].digest
                   /\ (checkpoints[c].digest \o <<m>>)[j] = checkpoints[c].digest[j]
      BY <2>1
    <3>4. QED
      BY <2>1, <3>1, <3>2, <3>3
  <2>5. ASSUME NEW i \in Inputs
        PROVE  IF anchors[i] = 0
                 THEN \A k \in DOMAIN checkpoints' : \A j \in DOMAIN checkpoints'[k].digest :
                          checkpoints'[k].digest[j] \notin Range(Initial[i])
                 ELSE \A j \in DOMAIN checkpoints'[anchors[i]].digest :
                          checkpoints'[anchors[i]].digest[j] \notin Range(Initial[i])
    <3>1. CASE anchors[i] = 0
      BY <2>1, <2>4, <3>1 DEF AnchorsComeFirst, Untouched, History
    <3>2. CASE anchors[i] # 0
      <4>1. anchors[i] \in DOMAIN checkpoints
        BY <1>1, <3>2
      <4>2. QED
        BY <2>1, <3>2, <4>1 DEF AnchorsComeFirst, Untouched, History
    <3>3. QED
      BY <3>1, <3>2
  <2>6. QED
    BY <2>2, <2>5 DEF AnchorsComeFirst, Untouched, History
<1>6. QED
  BY <1>2, <1>3, <1>4, <1>5, TableSteps, AnchorsStay DEF AnchorInput, vars

\* The checkpoint an attempt works on, and the anchor of its input, are rows.
LEMMA WorkingRows ==
    ASSUME AInv, Attempting, NEW r \in Runs, phase[r] \in Working
    PROVE  /\ plan[r].base \in DOMAIN checkpoints /\ plan[r].rest \in Seq(Texts)
           /\ anchors[input[r]] \in DOMAIN checkpoints /\ input[r] \in Inputs
<1>1. phase[r] # "idle" /\ anchors[input[r]] # 0
  BY DEF Working, Attempting, Attempt
<1>2. /\ DOMAIN checkpoints = 1 .. Len(checkpoints) /\ Len(checkpoints) \in Nat
      /\ plan[r].base \in 0 .. Len(checkpoints) /\ plan[r].rest \in Seq(Texts)
      /\ input[r] \in Inputs /\ anchors \in [Inputs -> 0 .. Len(checkpoints)]
  BY DEF AInv, LInv, AttemptsTypeOK
<1>3. plan[r].base # 0
  BY <1>1 DEF AInv, Plans
<1>4. QED
  BY <1>1, <1>2, <1>3

\* A step of someone else, or one that only moves the attempt on.
LEMMA AttemptKept ==
    ASSUME AInv, Attempting, [AttemptsNext]_allVars, NEW q \in Runs,
           phase'[q] \in {"idle", "anchored", "prepared"} =>
               phase[q] \in {"idle", "anchored", "prepared"} /\ taken'[q] = taken[q],
           phase'[q] = "anchored" => phase[q] = "anchored",
           phase'[q] = "collected" => phase[q] = "collected",
           phase'[q] = "answering" => plan[q].rest = <<>>,
           phase'[q] \in Working =>
               /\ phase[q] \in Working /\ input'[q] = input[q]
               /\ plan'[q] = plan[q] /\ taken'[q] = taken[q]
    PROVE  Attempt(q)'
<1>1. Attempt(q)
  BY DEF Attempting
<1>2. CASE phase'[q] \notin Working
  BY <1>1, <1>2 DEF Attempt, Working
<1>3. CASE phase'[q] \in Working
  <2>1. /\ phase[q] \in Working /\ input'[q] = input[q]
        /\ plan'[q] = plan[q] /\ taken'[q] = taken[q]
    BY <1>3
  <2>2. /\ plan[q].base \in DOMAIN checkpoints /\ input[q] \in Inputs
        /\ anchors[input[q]] \in DOMAIN checkpoints /\ anchors[input[q]] # 0
    BY <1>1, <2>1, WorkingRows DEF Attempt
  <2>3. /\ checkpoints'[plan[q].base] = checkpoints[plan[q].base]
        /\ checkpoints'[anchors[input[q]]] = checkpoints[anchors[input[q]]]
        /\ anchors'[input[q]] = anchors[input[q]]
    BY <2>2, TableStays, AnchorsStay DEF AInv
  <2>4. \A n \in 0 .. Len(Initial[input[q]]) : OnTheWay(q, n) => OnTheWay(q, n)'
    BY <2>1, <2>3 DEF OnTheWay, History
  <2>5. QED
    BY <1>1, <2>1, <2>3, <2>4 DEF Attempt
<1>4. QED
  BY <1>2, <1>3

\* An attempt that took no waiting message finds none of its own in the
\* history behind it.
LEMMA NothingToSkip ==
    ASSUME MessagesAreDistinct, AInv, Spoken, AnchorsComeFirst, Attempting, NEW r \in Runs,
           phase[r] \in Working, taken[r] = <<>>, plan[r].rest # <<>>
    PROVE  ~ AlreadyThere(plan[r].base, Head(plan[r].rest))
<1> DEFINE i == input[r]
           initial == Initial[i]
           before == History(anchors[i])
<1>1. /\ plan[r].base \in DOMAIN checkpoints /\ i \in Inputs
      /\ anchors[i] \in DOMAIN checkpoints /\ anchors[i] # 0
  BY WorkingRows DEF Attempting, Attempt
<1>2. PICK n \in 0 .. Len(initial) : OnTheWay(r, n)
  BY DEF Attempting, Attempt
<1>3. initial \in Seq(Texts) /\ Range(initial) \subseteq Texts /\ Len(initial) \in Nat
      /\ before \in Seq(Texts \cup Answers)
  BY <1>1, OwnTexts DEF Spoken
<1>4. \A j \in DOMAIN before : before[j] \notin Range(initial)
  BY <1>1 DEF AnchorsComeFirst, Untouched
<1>5. /\ plan[r].rest = SubSeq(initial, n + 1, Len(initial))
      /\ History(plan[r].base) = before \o SubSeq(initial, 1, n)
  BY <1>2 DEF OnTheWay
<1>6. Load(plan[r].base) = before \o SubSeq(initial, 1, n)
  BY <1>1, <1>5, LoadIsDigest DEF AInv, History
<1>7. \A j, k \in DOMAIN initial : initial[j] = initial[k] => j = k
  BY <1>1 DEF MessagesAreDistinct
<1> HIDE DEF i, initial, before
<1>8. n < Len(initial) /\ Head(plan[r].rest) = initial[n + 1]
  <2>1. Len(SubSeq(initial, n + 1, Len(initial))) = Len(initial) - n
    BY <1>3, Parts
  <2>2. n # Len(initial)
    BY <1>3, <1>5, <2>1
  <2>3. QED
    BY <1>3, <1>5, <2>2, Parts
<1>9. SUFFICES ASSUME NEW j \in DOMAIN (before \o SubSeq(initial, 1, n)),
                      (before \o SubSeq(initial, 1, n))[j].id = initial[n + 1].id
               PROVE  FALSE
  BY <1>6, <1>8 DEF AlreadyThere, Ids
<1>10. /\ SubSeq(initial, 1, n) \in Seq(Texts) /\ Len(SubSeq(initial, 1, n)) = n
       /\ \A k \in 1 .. n : SubSeq(initial, 1, n)[k] = initial[k]
       /\ n + 1 \in DOMAIN initial /\ initial[n + 1] \in Texts
       /\ initial[n + 1] \in Range(initial)
  BY <1>3, <1>8 DEF Range
<1>11. \/ j \in DOMAIN before /\ (before \o SubSeq(initial, 1, n))[j] = before[j]
       \/ \E k \in 1 .. n : (before \o SubSeq(initial, 1, n))[j] = initial[k]
  BY <1>3, <1>10
<1>12. \A m \in Texts \cup Answers : m.id = initial[n + 1].id => m = initial[n + 1]
  BY <1>10 DEF MessagesAreDistinct, Answers
<1>13. CASE j \in DOMAIN before /\ (before \o SubSeq(initial, 1, n))[j] = before[j]
  <2>1. before[j] \in Texts \cup Answers
    BY <1>3, <1>13
  <2>2. QED
    BY <1>4, <1>9, <1>10, <1>12, <1>13, <2>1
<1>14. ASSUME NEW k \in 1 .. n, (before \o SubSeq(initial, 1, n))[j] = initial[k] PROVE FALSE
  <2>1. k \in DOMAIN initial /\ initial[k] \in Texts /\ k # n + 1
    BY <1>3, <1>8
  <2>2. QED
    BY <1>7, <1>9, <1>10, <1>12, <1>14, <2>1
<1>15. QED
  BY <1>11, <1>13, <1>14

\* A step of one attempt leaves the others where they are.
LEMMA OthersKept ==
    ASSUME AInv, NEW r \in Runs, NEW q \in Runs, q # r,
           \/ \E i \in Inputs, c \in DOMAIN checkpoints : AnchorInput(r, i, c)
           \/ Prepare(r) \/ TakePending(r) \/ RebasePending(r) \/ Claim(r) \/ Supersede(r)
           \/ AppendInitial(r) \/ SkipInitial(r) \/ LoseOwnership(r) \/ RefuseInitial(r)
           \/ CallModel(r) \/ CallRefused(r) \/ AnswerInput(r) \/ Fail(r) \/ Finish(r)
    PROVE  /\ phase'[q] = phase[q] /\ input'[q] = input[q]
           /\ plan'[q] = plan[q] /\ taken'[q] = taken[q]
<1>1. /\ phase \in [Runs -> Phases] /\ input \in [Runs -> Inputs]
      /\ plan \in [Runs -> [base : Nat, rest : Seq(Texts)]] /\ taken \in [Runs -> Seq(Wakes)]
  BY DEF AInv, AttemptsTypeOK, Plans
<1>2. CASE \/ \E i \in Inputs, c \in DOMAIN checkpoints : AnchorInput(r, i, c)
           \/ Prepare(r) \/ TakePending(r) \/ RebasePending(r) \/ Claim(r) \/ Supersede(r)
  BY <1>1, <1>2 DEF AnchorInput, Prepare, TakePending, RebasePending, Claim, Supersede
<1>3. CASE AppendInitial(r) \/ SkipInitial(r) \/ LoseOwnership(r) \/ RefuseInitial(r)
  BY <1>1, <1>3 DEF AppendInitial, SkipInitial, LoseOwnership, RefuseInitial
<1>4. CASE CallModel(r) \/ CallRefused(r) \/ AnswerInput(r) \/ Fail(r) \/ Finish(r)
  BY <1>1, <1>4 DEF CallModel, CallRefused, AnswerInput, Fail, Finish
<1>5. QED
  BY <1>2, <1>3, <1>4

\* The attempt begins with the messages of its input before it.
LEMMA AttemptAnchored ==
    ASSUME MessagesAreDistinct, AInv, Attempting,
           NEW r \in Runs, NEW i \in Inputs, NEW c \in DOMAIN checkpoints, AnchorInput(r, i, c)
    PROVE  Attempt(r)'
<1> DEFINE a == Anchor(i, c)
           initial == Initial[i]
<1>1. /\ phase[r] = "idle" /\ phase' = [phase EXCEPT ![r] = "anchored"]
      /\ anchors' = [anchors EXCEPT ![i] = a] /\ input' = [input EXCEPT ![r] = i]
      /\ plan' = [plan EXCEPT ![r] = [base |-> a, rest |-> initial]]
      /\ UNCHANGED <<checkpoints, taken>>
  BY DEF AnchorInput, vars
<1>2. a \in DOMAIN checkpoints /\ a # 0
  <2>1. /\ DOMAIN checkpoints = 1 .. Len(checkpoints) /\ Len(checkpoints) \in Nat
        /\ anchors \in [Inputs -> 0 .. Len(checkpoints)]
    BY DEF AInv, AttemptsTypeOK, LInv
  <2>2. QED
    BY <2>1 DEF Anchor
<1>3. /\ phase'[r] = "anchored" /\ input'[r] = i /\ anchors'[i] = a
      /\ plan'[r] = [base |-> a, rest |-> initial] /\ taken'[r] = <<>>
  <2>1. /\ phase \in [Runs -> Phases] /\ input \in [Runs -> Inputs]
        /\ anchors \in [Inputs -> 0 .. Len(checkpoints)]
        /\ plan \in [Runs -> [base : Nat, rest : Seq(Texts)]]
    BY DEF AInv, AttemptsTypeOK, Plans
  <2>2. taken[r] = <<>>
    BY <1>1 DEF Attempting, Attempt
  <2>3. QED
    BY <1>1, <2>1, <2>2
<1>4. initial \in Seq(Texts) /\ Len(initial) \in Nat
  BY OwnTexts
<1>5. History(a) \in Seq(Messages)
  BY <1>2, RowTypes DEF AInv, History
<1>6. OnTheWay(r, 0)'
  <2>1. 0 \in 0 .. Len(initial) /\ 0 + 1 = 1
    BY <1>4
  <2>2. SubSeq(initial, 1, 0) = <<>> /\ SubSeq(initial, 0 + 1, Len(initial)) = initial
    BY <1>4, <2>1, Parts
  <2>3. History(a) \o <<>> = History(a)
    BY <1>5
  <2>4. checkpoints'[a].digest = History(a)
    BY <1>1 DEF History
  <2>5. /\ plan'[r].rest = SubSeq(initial, 0 + 1, Len(initial))
        /\ checkpoints'[plan'[r].base].digest
             = checkpoints'[anchors'[i]].digest \o SubSeq(initial, 1, 0)
    <3>1. plan'[r].rest = initial /\ plan'[r].base = a /\ anchors'[i] = a
      BY <1>3
    <3> HIDE DEF a, initial
    <3>2. QED
      BY <2>2, <2>3, <2>4, <3>1
  <2> HIDE DEF a
  <2>6. QED
    BY <1>3, <2>5 DEF OnTheWay, History
<1>7. 0 \in 0 .. Len(initial)
  BY <1>4
<1>8. (\E n \in 0 .. Len(Initial[input[r]]) : OnTheWay(r, n))'
  BY <1>3, <1>6, <1>7
<1> HIDE DEF a
<1>9. QED
  BY <1>2, <1>3, <1>8 DEF Attempt

\* It goes on behind what earlier attempts left.
LEMMA AttemptPrepared ==
    ASSUME MessagesAreDistinct, AInv, Attempting, NEW r \in Runs, Prepare(r)
    PROVE  Attempt(r)'
<1> DEFINE c == anchors[input[r]]
           initial == Initial[input[r]]
           found == MatchPrefix(c, initial)
<1>1. /\ phase[r] = "anchored" /\ phase' = [phase EXCEPT ![r] = "prepared"]
      /\ plan' = [plan EXCEPT ![r] = MatchPrefix(plan[r].base, plan[r].rest)]
      /\ UNCHANGED <<checkpoints, anchors, input, taken>>
  BY DEF Prepare, vars
<1>2. /\ plan[r] = [base |-> c, rest |-> initial] /\ taken[r] = <<>> /\ c # 0
  BY <1>1 DEF Attempting, Attempt, Working
<1>3. c \in DOMAIN checkpoints /\ input[r] \in Inputs
  BY <1>1, WorkingRows DEF Working
<1>4. initial \in Seq(Texts) /\ Len(initial) \in Nat
  BY <1>3, OwnTexts
<1>5. PICK n \in 0 .. Len(initial) : Reaches(found, c, initial, n)
  BY <1>3, <1>4, MatchedPrefix DEF AInv, Searched
<1>6. /\ phase'[r] = "prepared" /\ plan'[r] = found /\ taken'[r] = <<>>
      /\ input'[r] = input[r] /\ anchors' = anchors
  <2>1. /\ phase \in [Runs -> Phases] /\ plan \in [Runs -> [base : Nat, rest : Seq(Texts)]]
    BY DEF AInv, AttemptsTypeOK, Plans
  <2>2. plan[r].base = c /\ plan[r].rest = initial
    BY <1>2
  <2>3. QED
    BY <1>1, <1>2, <2>1, <2>2
<1> HIDE DEF found
<1>7. OnTheWay(r, n)'
  BY <1>1, <1>5, <1>6 DEF OnTheWay, Reaches, History
<1>8. (\E k \in 0 .. Len(Initial[input[r]]) : OnTheWay(r, k))'
  BY <1>5, <1>6, <1>7
<1>9. Range(found.rest) \subseteq Range(initial)
  <2>1. found.rest = SubSeq(initial, n + 1, Len(initial))
    BY <1>5 DEF Reaches
  <2>2. \A k \in DOMAIN SubSeq(initial, n + 1, Len(initial)) :
            /\ n + k \in DOMAIN initial
            /\ SubSeq(initial, n + 1, Len(initial))[k] = initial[n + k]
    BY <1>4
  <2>3. QED
    BY <2>1, <2>2 DEF Range
<1>10. QED
  BY <1>2, <1>6, <1>8, <1>9 DEF Attempt

\* Two lists of messages are made of the messages of both.
LEMMA BothAreIn ==
    ASSUME NEW S, NEW s \in Seq(S), NEW t \in Seq(S)
    PROVE  Range(s \o t) = Range(s) \cup Range(t)
<1> DEFINE u == s \o t
           at(k) == k + Len(s)
           back(k) == k - Len(s)
<1>1. \A k \in DOMAIN u : (k \in DOMAIN s /\ u[k] = s[k]) \/ (back(k) \in DOMAIN t /\ u[k] = t[back(k)])
  OBVIOUS
<1>2. \A k \in DOMAIN s : k \in DOMAIN u /\ u[k] = s[k]
  OBVIOUS
<1>3. \A k \in DOMAIN t : at(k) \in DOMAIN u /\ u[at(k)] = t[k]
  OBVIOUS
<1> HIDE DEF u, at, back
<1>4. Range(u) = Range(s) \cup Range(t)
  BY <1>1, <1>2, <1>3 DEF Range
<1>5. QED
  BY <1>4 DEF u

\* It takes the waiting messages, if there are any.
LEMMA AttemptCollected ==
    ASSUME AInv, Attempting, NEW r \in Runs, TakePending(r)
    PROVE  Attempt(r)'
<1>1. /\ phase[r] = "prepared"
      /\ phase' = [phase EXCEPT ![r] = IF pending = <<>> THEN "ready" ELSE "collected"]
      /\ taken' = [taken EXCEPT ![r] = pending]
      /\ UNCHANGED <<checkpoints, anchors, input, plan>>
  BY DEF TakePending, vars
<1>2. /\ phase'[r] = (IF pending = <<>> THEN "ready" ELSE "collected") /\ taken'[r] = pending
  BY <1>1 DEF AInv, AttemptsTypeOK
<1>3. /\ anchors[input[r]] # 0 /\ taken[r] = <<>>
      /\ Range(plan[r].rest) \subseteq Range(Initial[input[r]]) \cup Wakes
      /\ \E n \in 0 .. Len(Initial[input[r]]) : OnTheWay(r, n)
  BY <1>1 DEF Attempting, Attempt, Working
<1>4. \A n \in 0 .. Len(Initial[input[r]]) : OnTheWay(r, n) => OnTheWay(r, n)'
  BY <1>1 DEF OnTheWay, History
<1>5. (\E n \in 0 .. Len(Initial[input[r]]) : OnTheWay(r, n))'
  BY <1>1, <1>3, <1>4
<1>6. QED
  BY <1>1, <1>2, <1>3, <1>5 DEF Attempt

\* It puts what it took before its own messages, wherever it goes on from.
LEMMA AttemptRebased ==
    ASSUME AInv, Attempting, NEW r \in Runs, RebasePending(r)
    PROVE  Attempt(r)'
<1>1. /\ phase[r] = "collected" /\ phase' = [phase EXCEPT ![r] = "ready"]
      /\ \E at \in {current, plan[r].base} :
            plan' = [plan EXCEPT ![r] = WithPending(plan[r], taken[r], at)]
      /\ UNCHANGED <<anchors, input, taken>>
  BY DEF RebasePending
<1>2. phase'[r] = "ready" /\ plan'[r].rest = taken[r] \o plan[r].rest
  <2>1. PICK at : plan' = [plan EXCEPT ![r] = [base |-> at, rest |-> taken[r] \o plan[r].rest]]
    BY <1>1 DEF WithPending
  <2>2. /\ phase \in [Runs -> Phases]
        /\ plan \in [Runs -> [base : Nat, rest : Seq(Texts)]]
    BY DEF AInv, AttemptsTypeOK, Plans
  <2>3. QED
    BY <1>1, <2>1, <2>2
<1>3. /\ anchors[input[r]] # 0 /\ taken[r] # <<>>
      /\ Range(plan[r].rest) \subseteq Range(Initial[input[r]]) \cup Wakes
  BY <1>1 DEF Attempting, Attempt, Working
<1>4. taken[r] \in Seq(Wakes) /\ taken[r] \in Seq(Texts) /\ plan[r].rest \in Seq(Texts)
  BY InitialAssumption DEF AInv, AttemptsTypeOK
<1>5. Range(taken[r] \o plan[r].rest) = Range(taken[r]) \cup Range(plan[r].rest)
  BY <1>4, BothAreIn
<1>6. Range(taken[r]) \subseteq Wakes
  BY <1>4 DEF Range
<1>7. QED
  BY <1>1, <1>2, <1>3, <1>5, <1>6 DEF Attempt

\* The first of some messages, and the others, are among them.
LEMMA FirstAndRest ==
    ASSUME NEW S, NEW s \in Seq(S), s # <<>>
    PROVE  /\ Head(s) \in Range(s) /\ Tail(s) \in Seq(S)
           /\ Range(Tail(s)) \subseteq Range(s)
<1>1. /\ 1 \in DOMAIN s /\ Head(s) = s[1] /\ Tail(s) \in Seq(S)
      /\ \A k \in DOMAIN Tail(s) : k + 1 \in DOMAIN s /\ Tail(s)[k] = s[k + 1]
  OBVIOUS
<1>2. QED
  BY <1>1 DEF Range

LEMMA InThreeParts ==
    ASSUME NEW S, NEW s \in Seq(S), NEW t \in Seq(S), NEW u \in Seq(S)
    PROVE  (s \o t) \o u = s \o (t \o u)
<1> DEFINE v == (s \o t) \o u
           w == s \o (t \o u)
<1>1. v \in Seq(S) /\ w \in Seq(S) /\ Len(v) = Len(w)
  OBVIOUS
<1>2. Len(v) = Len(s) + Len(t) + Len(u)
  OBVIOUS
<1>3. ASSUME NEW i \in 1 .. Len(v)
      PROVE  v[i] = w[i]
  <2>1. CASE i <= Len(s)
    BY <1>2, <2>1
  <2>2. CASE i > Len(s) /\ i <= Len(s) + Len(t)
    BY <1>2, <2>2
  <2>3. CASE i > Len(s) + Len(t)
    BY <1>2, <2>3
  <2>4. QED
    BY <2>1, <2>2, <2>3
<1> HIDE DEF v, w
<1>4. v = w
  BY <1>1, <1>3, SameSequence
<1>5. QED
  BY <1>4 DEF v, w

\* It appends the next message.
LEMMA AttemptAppended ==
    ASSUME MessagesAreDistinct, AInv, Attempting, NEW r \in Runs, AppendInitial(r)
    PROVE  Attempt(r)'
<1> DEFINE initial == Initial[input[r]]
           m == Head(plan[r].rest)
           c == plan[r].base
           new == NewCheckpoint
<1>1. /\ phase[r] = "claimed" /\ plan[r].rest # <<>>
      /\ plan' = [plan EXCEPT ![r] = [base |-> new, rest |-> Tail(plan[r].rest)]]
      /\ AppendAt(r, c, <<m>>)
      /\ UNCHANGED <<anchors, phase, input, taken>>
  BY DEF AppendInitial, AppendMessageOnce, Appended
<1>2. /\ c \in DOMAIN checkpoints /\ plan[r].rest \in Seq(Texts)
      /\ anchors[input[r]] \in DOMAIN checkpoints /\ input[r] \in Inputs
  BY <1>1, WorkingRows DEF Working
<1>3. /\ \A k \in DOMAIN checkpoints : checkpoints'[k] = checkpoints[k]
      /\ checkpoints'[new].digest = History(c) \o <<m>>
  BY <1>1, <1>2, AppendedRow DEF AInv
<1>4. plan'[r].base = new /\ plan'[r].rest = Tail(plan[r].rest)
  BY <1>1 DEF AInv, Plans
<1>5. /\ anchors[input[r]] # 0
      /\ Range(plan[r].rest) \subseteq Range(initial) \cup Wakes
      /\ taken[r] = <<>> => \E n \in 0 .. Len(initial) : OnTheWay(r, n)
  BY <1>1 DEF Attempting, Attempt, Working
<1>6. Range(Tail(plan[r].rest)) \subseteq Range(initial) \cup Wakes
  BY <1>1, <1>2, <1>5, FirstAndRest
<1>7. initial \in Seq(Texts) /\ Len(initial) \in Nat
  BY <1>2, OwnTexts
<1>8. ASSUME NEW n \in 0 .. Len(initial), OnTheWay(r, n)
      PROVE  n + 1 \in 0 .. Len(initial) /\ OnTheWay(r, n + 1)'
  <2> DEFINE before == History(anchors[input[r]])
  <2>1. /\ plan[r].rest = SubSeq(initial, n + 1, Len(initial))
        /\ History(c) = before \o SubSeq(initial, 1, n)
    BY <1>8 DEF OnTheWay
  <2>2. n < Len(initial)
    <3>1. Len(SubSeq(initial, n + 1, Len(initial))) = Len(initial) - n
      BY <1>7, Parts
    <3>2. n # Len(initial)
      BY <1>1, <1>2, <1>7, <2>1, <3>1
    <3>3. QED
      BY <1>7, <3>2
  <2>3. /\ m = initial[n + 1]
        /\ Tail(plan[r].rest) = SubSeq(initial, n + 2, Len(initial))
        /\ SubSeq(initial, 1, n + 1) = SubSeq(initial, 1, n) \o <<initial[n + 1]>>
    <3>1. /\ Head(SubSeq(initial, n + 1, Len(initial))) = initial[n + 1]
          /\ Tail(SubSeq(initial, n + 1, Len(initial))) = SubSeq(initial, n + 2, Len(initial))
          /\ SubSeq(initial, 1, n + 1) = SubSeq(initial, 1, n) \o <<initial[n + 1]>>
      BY <1>7, <2>2, Parts
    <3>2. QED
      BY <2>1, <3>1
  <2>4. n + 1 \in 0 .. Len(initial) /\ (n + 1) + 1 = n + 2
    BY <1>7, <2>2
  <2>5. before \in Seq(Messages) /\ SubSeq(initial, 1, n) \in Seq(Texts) /\ m \in Texts
    <3>1. before \in Seq(Messages)
      BY <1>2, RowTypes DEF AInv, History
    <3>2. SubSeq(initial, 1, n) \in Seq(Texts)
      BY <1>7, Parts
    <3>3. n + 1 \in DOMAIN initial
      BY <1>7, <2>2
    <3>4. QED
      BY <1>7, <2>3, <3>1, <3>2, <3>3
  <2> HIDE DEF m, before
  <2>6. (before \o SubSeq(initial, 1, n)) \o <<m>> = before \o SubSeq(initial, 1, n + 1)
    <3>1. before \in Seq(Messages) /\ SubSeq(initial, 1, n) \in Seq(Messages) /\ <<m>> \in Seq(Messages)
      BY <2>5 DEF Messages
    <3>2. (before \o SubSeq(initial, 1, n)) \o <<m>> = before \o (SubSeq(initial, 1, n) \o <<m>>)
      <4> DEFINE t == SubSeq(initial, 1, n)
                 u == <<m>>
      <4>1. t \in Seq(Messages) /\ u \in Seq(Messages) /\ before \in Seq(Messages)
        BY <3>1
      <4> HIDE DEF t, u
      <4>2. (before \o t) \o u = before \o (t \o u)
        BY <4>1, InThreeParts
      <4>3. QED
        BY <4>2 DEF t, u
    <3>3. QED
      BY <2>3, <3>2
  <2>7. /\ checkpoints'[new].digest = before \o SubSeq(initial, 1, n + 1)
        /\ checkpoints'[anchors[input[r]]].digest = before
    BY <1>2, <1>3, <2>1, <2>6 DEF before, History
  <2> HIDE DEF new, c
  <2>8. OnTheWay(r, n + 1)'
    BY <1>1, <1>4, <2>3, <2>4, <2>7 DEF OnTheWay, History
  <2>9. QED
    BY <2>4, <2>8
<1>9. taken[r] = <<>> => (\E n \in 0 .. Len(Initial[input[r]]) : OnTheWay(r, n))'
  BY <1>1, <1>5, <1>8
<1> HIDE DEF new, c, m
<1>10. QED
  BY <1>1, <1>4, <1>5, <1>6, <1>9 DEF Attempt

\* A message is skipped only by an attempt that took waiting ones.
LEMMA AttemptSkipped ==
    ASSUME MessagesAreDistinct, AInv, Spoken, AnchorsComeFirst, Attempting,
           NEW r \in Runs, SkipInitial(r)
    PROVE  Attempt(r)'
<1>1. /\ phase[r] = "claimed" /\ plan[r].rest # <<>>
      /\ AlreadyThere(plan[r].base, Head(plan[r].rest))
      /\ plan' = [plan EXCEPT ![r].rest = Tail(plan[r].rest)]
      /\ UNCHANGED <<checkpoints, anchors, phase, input, taken>>
  BY DEF SkipInitial, vars
<1>2. taken[r] # <<>>
  BY <1>1, NothingToSkip DEF Working
<1>3. plan'[r].rest = Tail(plan[r].rest) /\ plan[r].rest \in Seq(Texts)
  BY <1>1 DEF AInv, Plans, AttemptsTypeOK
<1>4. /\ anchors[input[r]] # 0
      /\ Range(plan[r].rest) \subseteq Range(Initial[input[r]]) \cup Wakes
  BY <1>1 DEF Attempting, Attempt, Working
<1>5. Range(Tail(plan[r].rest)) \subseteq Range(Initial[input[r]]) \cup Wakes
  BY <1>1, <1>3, <1>4, FirstAndRest
<1>6. QED
  BY <1>1, <1>2, <1>3, <1>4, <1>5 DEF Attempt

LEMMA AttemptingStep ==
    ASSUME MessagesAreDistinct, AInv, Spoken, AnchorsComeFirst, Attempting,
           [AttemptsNext]_allVars
    PROVE  Attempting'
<1>1. CASE UNCHANGED allVars \/ (EnsureConversation /\ UNCHANGED attemptVars)
             \/ \E m \in Wakes : DeliverLater(m)
  <2>1. UNCHANGED <<phase, input, plan, taken>>
    BY <1>1 DEF allVars, attemptVars, DeliverLater
  <2>2. ASSUME NEW q \in Runs PROVE Attempt(q)'
    <3>1. phase[q] = "answering" => plan[q].rest = <<>>
      BY DEF Attempting, Attempt
    <3>2. QED
      BY <2>1, <3>1, AttemptKept
  <2>3. QED
    BY <2>2 DEF Attempting
<1>2. CASE Crash
  <2>1. phase' = [r \in Runs |-> IF phase[r] \in UnderWay THEN "ended" ELSE phase[r]]
        /\ UNCHANGED <<input, plan, taken>>
    BY <1>2 DEF Crash
  <2>2. ASSUME NEW q \in Runs PROVE Attempt(q)'
    <3>1. phase[q] \in Phases
      BY DEF AInv, AttemptsTypeOK
    <3>2. phase'[q] \in {"idle", "ended"} /\ (phase'[q] = "idle" => phase[q] = "idle")
      BY <2>1, <3>1 DEF UnderWay
    <3>3. QED
      BY <2>1, <3>2, AttemptKept DEF Working
  <2>3. QED
    BY <2>2 DEF Attempting
<1>3. ASSUME NEW r \in Runs,
             \/ \E i \in Inputs, c \in DOMAIN checkpoints : AnchorInput(r, i, c)
             \/ Prepare(r) \/ TakePending(r) \/ RebasePending(r) \/ Claim(r) \/ Supersede(r)
             \/ AppendInitial(r) \/ SkipInitial(r) \/ LoseOwnership(r) \/ RefuseInitial(r)
             \/ CallModel(r) \/ CallRefused(r) \/ AnswerInput(r) \/ Fail(r) \/ Finish(r),
             NEW q \in Runs, q # r
      PROVE  Attempt(q)'
  <2>1. /\ phase'[q] = phase[q] /\ input'[q] = input[q]
        /\ plan'[q] = plan[q] /\ taken'[q] = taken[q]
    BY <1>3, OthersKept
  <2>2. phase[q] = "answering" => plan[q].rest = <<>>
    BY DEF Attempting, Attempt
  <2>3. QED
    BY <2>1, <2>2, AttemptKept
<1>4. ASSUME NEW r \in Runs, Claim(r) \/ CallModel(r) PROVE Attempt(r)'
  <2>1. \/ phase[r] = "ready" /\ phase' = [phase EXCEPT ![r] = "claimed"]
        \/ /\ phase[r] = "claimed" /\ phase' = [phase EXCEPT ![r] = "answering"]
           /\ plan[r].rest = <<>>
    BY <1>4 DEF Claim, CallModel
  <2>2. UNCHANGED <<input, plan, taken>>
    BY <1>4 DEF Claim, CallModel
  <2>3. phase \in [Runs -> Phases]
    BY DEF AInv, AttemptsTypeOK
  <2>4. \/ phase[r] = "ready" /\ phase'[r] = "claimed"
        \/ phase[r] = "claimed" /\ phase'[r] = "answering" /\ plan[r].rest = <<>>
    BY <2>1, <2>3
  <2>5. /\ phase[r] \in Working /\ phase'[r] \notin {"idle", "anchored", "prepared", "collected"}
        /\ phase'[r] = "answering" => plan[r].rest = <<>>
    BY <2>4 DEF Working
  <2>6. QED
    BY <2>2, <2>5, AttemptKept
<1>5. ASSUME NEW r \in Runs,
             \/ Supersede(r) \/ LoseOwnership(r) \/ RefuseInitial(r) \/ CallRefused(r)
             \/ AnswerInput(r) \/ Fail(r) \/ Finish(r)
      PROVE  Attempt(r)'
  <2>1. PICK p \in {"ended", "lost", "refused", "failed", "answered"} :
            phase' = [phase EXCEPT ![r] = p]
    BY <1>5 DEF Supersede, LoseOwnership, RefuseInitial, CallRefused, AnswerInput, Fail, Finish
  <2>2. phase'[r] = p
    BY <2>1 DEF AInv, AttemptsTypeOK
  <2>3. phase'[r] \notin Working \cup {"idle"}
    BY <2>2 DEF Working
  <2>4. QED
    BY <2>3 DEF Attempt, Working
<1>6. ASSUME NEW r \in Runs, NEW q \in Runs,
             \/ \E i \in Inputs, c \in DOMAIN checkpoints : AnchorInput(r, i, c)
             \/ Prepare(r) \/ TakePending(r) \/ RebasePending(r) \/ Claim(r) \/ Supersede(r)
             \/ AppendInitial(r) \/ SkipInitial(r) \/ LoseOwnership(r) \/ RefuseInitial(r)
             \/ CallModel(r) \/ CallRefused(r) \/ AnswerInput(r) \/ Fail(r) \/ Finish(r)
      PROVE  Attempt(q)'
  BY <1>3, <1>4, <1>5, <1>6, AttemptAnchored, AttemptPrepared, AttemptCollected,
     AttemptRebased, AttemptAppended, AttemptSkipped
<1>7. CASE \E r \in Runs :
             \/ \E i \in Inputs, c \in DOMAIN checkpoints : AnchorInput(r, i, c)
             \/ Prepare(r) \/ TakePending(r) \/ RebasePending(r) \/ Claim(r) \/ Supersede(r)
             \/ AppendInitial(r) \/ SkipInitial(r) \/ LoseOwnership(r) \/ RefuseInitial(r)
             \/ CallModel(r) \/ CallRefused(r) \/ AnswerInput(r) \/ Fail(r) \/ Finish(r)
  BY <1>6, <1>7 DEF Attempting
<1>8. QED
  BY <1>1, <1>2, <1>7 DEF AttemptsNext

-----------------------------------------------------------------------------
(* The invariant of the attempts.                                           *)

LEMMA AgreeInitInv == AttemptsInit => AgreeInv
<1> SUFFICES ASSUME AttemptsInit PROVE AgreeInv
  OBVIOUS
<1>1. /\ AInv /\ checkpoints = <<>> /\ DOMAIN checkpoints = {}
      /\ \A i \in Inputs : anchors[i] = 0
      /\ \A r \in Runs : phase[r] = "idle" /\ taken[r] = <<>>
  BY AInitInv DEF AttemptsInit, Init
<1>2. Spoken /\ OneByOne /\ AnchorsComeFirst
  BY <1>1 DEF Spoken, OneByOne, AnchorsComeFirst
<1>3. Attempting
  BY <1>1 DEF Attempting, Attempt, Working
<1>4. QED
  BY <1>1, <1>2, <1>3 DEF AgreeInv

LEMMA AgreeStepInv == MessagesAreDistinct /\ AgreeInv /\ [AttemptsNext]_allVars => AgreeInv'
BY AStepInv, SpokenStep, AnchorsStep, AttemptingStep DEF AgreeInv

LEMMA AInvariant == AttemptsSpec => []AInv
<1>1. AttemptsInit => AInv
  BY AInitInv
<1>2. AInv /\ [AttemptsNext]_allVars => AInv'
  BY AStepInv
<1>3. QED
  BY <1>1, <1>2, PTL DEF AttemptsSpec

\* Attempts keep their types: every checkpoint that an input or an attempt
\* remembers is a row of the table.
THEOREM AttemptsTypeCorrect == AttemptsSpec => []AttemptsTypeOK
<1>1. AInv => AttemptsTypeOK
  BY DEF AInv
<1>2. QED
  BY <1>1, AInvariant, PTL

\* While a run owns the conversation the checkpoint its engine goes on from is
\* the current one: run_claimed and the model loop never append elsewhere.
THEOREM EnginesStayAtHead == AttemptsSpec => []EngineAtHead
<1>1. AInv => EngineAtHead
  BY DEF AInv
<1>2. QED
  BY <1>1, AInvariant, PTL

\* Attempts implement the store: what engines do to the database is a behaviour
\* of ConversationStore, so whatever holds of the store holds with attempts too.
THEOREM AttemptsImplementStore == AttemptsSpec => Spec
<1>1. AttemptsInit => Init
  BY DEF AttemptsInit
<1>2. AInv /\ [AttemptsNext]_allVars => [Next]_vars
  BY StoreStep DEF AInv
<1>3. QED
  BY <1>1, <1>2, AInvariant, PTL DEF AttemptsSpec, Spec

\* Attempts at one input agree, however earlier ones ended: the anchor is set
\* once, match_checkpoint_prefix finds the messages that are there, and nothing
\* in the history of an anchor keeps run_claimed from appending the others.
THEOREM AttemptsAgreeTheorem ==
    ASSUME MessagesAreDistinct
    PROVE  AttemptsSpec => []AttemptsAgree
<1>1. AttemptsInit => AgreeInv
  BY AgreeInitInv
<1>2. AgreeInv /\ [AttemptsNext]_allVars => AgreeInv'
  BY AgreeStepInv
<1>3. AgreeInv => AttemptsAgree
  <2> SUFFICES ASSUME AgreeInv, NEW r \in Runs, phase[r] = "answering", taken[r] = <<>>
               PROVE  checkpoints[plan[r].base].digest
                        = checkpoints[anchors[input[r]]].digest \o Initial[input[r]]
    BY DEF AttemptsAgree
  <2> DEFINE initial == Initial[input[r]]
  <2>1. PICK n \in 0 .. Len(initial) : OnTheWay(r, n)
    BY DEF AgreeInv, Attempting, Attempt, Working
  <2>2. plan[r].rest = <<>>
    BY DEF AgreeInv, Attempting, Attempt
  <2>3. initial \in Seq(Texts) /\ Len(initial) \in Nat
    <3>1. input[r] \in Inputs
      BY DEF AgreeInv, AInv, AttemptsTypeOK
    <3>2. QED
      BY <3>1, OwnTexts
  <2>4. n = Len(initial)
    <3>1. Len(SubSeq(initial, n + 1, Len(initial))) = Len(initial) - n
      BY <2>3, Parts
    <3>2. SubSeq(initial, n + 1, Len(initial)) = <<>>
      BY <2>1, <2>2 DEF OnTheWay
    <3>3. Len(initial) - n = 0
      BY <3>1, <3>2
    <3> HIDE DEF initial
    <3>4. QED
      BY <2>3, <3>3
  <2>5. SubSeq(initial, 1, n) = initial
    BY <2>3, <2>4, Parts
  <2>6. QED
    BY <2>1, <2>5 DEF OnTheWay, History
<1>4. QED
  BY <1>1, <1>2, <1>3, PTL DEF AttemptsSpec

-----------------------------------------------------------------------------
(* Waiting messages.                                                        *)

\* append_message_once looks for the id before it appends.
SaidOnce ==
    \A k \in DOMAIN checkpoints : \A i, j \in DOMAIN History(k) :
        History(k)[i] \in Texts /\ History(k)[i] = History(k)[j] => i = j

\* A text whose id a history has is in the history.
LEMMA SameId ==
    ASSUME MessagesAreDistinct, AInv, Spoken, NEW c \in DOMAIN checkpoints, NEW m \in Texts
    PROVE  AlreadyThere(c, m) <=> m \in Range(History(c))
<1>1. Load(c) = History(c) /\ History(c) \in Seq(Texts \cup Answers)
  BY LoadIsDigest DEF AInv, History, Spoken
<1>2. \A n \in Texts \cup Answers : n.id = m.id => n = m
  BY DEF MessagesAreDistinct, Answers
<1> DEFINE h == History(c)
<1>3. \A i \in DOMAIN h : h[i] \in Texts \cup Answers
  BY <1>1
<1> HIDE DEF h
<1>4. m.id \in Ids(h) <=> m \in Range(h)
  BY <1>2, <1>3 DEF Ids, Range
<1>5. QED
  BY <1>1, <1>4 DEF AlreadyThere, h

LEMMA SaidOnceStep ==
    ASSUME MessagesAreDistinct, AInv, Spoken, SaidOnce, [AttemptsNext]_allVars
    PROVE  SaidOnce'
<1>1. CASE UNCHANGED checkpoints
  BY <1>1 DEF SaidOnce, History
<1>2. CASE DOMAIN checkpoints' = {1} /\ checkpoints'[1].digest = <<>>
  <2>1. DOMAIN <<>> = {}
    OBVIOUS
  <2>2. QED
    BY <1>2, <2>1 DEF SaidOnce, History
<1>3. ASSUME NEW r \in Runs, NEW m \in Texts \cup Answers, Says(r, m)
      PROVE  SaidOnce'
  <2> DEFINE c == plan[r].base
             new == NewCheckpoint
             h == History(c)
  <2>1. /\ c \in DOMAIN checkpoints /\ DOMAIN checkpoints' = DOMAIN checkpoints \cup {new}
        /\ \A k \in DOMAIN checkpoints : checkpoints'[k] = checkpoints[k]
        /\ checkpoints'[new].digest = h \o <<m>>
    BY <1>3, AppendedRow DEF Says, AInv
  <2>2. h \in Seq(Texts \cup Answers)
    BY <2>1 DEF Spoken
  <2>3. m \in Texts => m \notin Range(h)
    <3>1. CASE AppendInitial(r) /\ m = Head(plan[r].rest)
      <4>1. ~ AlreadyThere(c, m)
        BY <3>1 DEF AppendInitial, AppendMessageOnce
      <4>2. QED
        BY <2>1, <4>1, SameId
    <3>2. CASE m \in Answers
      BY <3>2 DEF MessagesAreDistinct, Answers
    <3>3. QED
      BY <1>3, <3>1, <3>2 DEF Says
  <2>4. \A i, j \in DOMAIN h : h[i] \in Texts /\ h[i] = h[j] => i = j
    BY <2>1 DEF SaidOnce
  <2> HIDE DEF c, new, h
  <2>5. \A i, j \in DOMAIN (h \o <<m>>) :
            (h \o <<m>>)[i] \in Texts /\ (h \o <<m>>)[i] = (h \o <<m>>)[j] => i = j
    <3> DEFINE longer == h \o <<m>>
    <3>1. /\ Len(h) \in Nat /\ DOMAIN h = 1 .. Len(h) /\ DOMAIN longer = 1 .. (Len(h) + 1)
          /\ \A i \in DOMAIN h : longer[i] = h[i]
          /\ longer[Len(h) + 1] = m
      BY <2>2
    <3>2. \A i \in DOMAIN h : m \in Texts => h[i] # m
      BY <2>3 DEF Range
    <3> HIDE DEF longer
    <3>3. \A i, j \in DOMAIN longer : longer[i] \in Texts /\ longer[i] = longer[j] => i = j
      BY <2>4, <3>1, <3>2
    <3>4. QED
      BY <3>3 DEF longer
  <2>6. \A k \in DOMAIN checkpoints' : \A i, j \in DOMAIN checkpoints'[k].digest :
            checkpoints'[k].digest[i] \in Texts
              /\ checkpoints'[k].digest[i] = checkpoints'[k].digest[j] => i = j
    BY <2>1, <2>5 DEF SaidOnce, History
  <2>7. QED
    BY <2>6 DEF SaidOnce, History
<1>4. QED
  BY <1>1, <1>2, <1>3, TableSteps

\* What attempt r took is still to be appended, or in the history behind it.
CarriedBy(r) ==
    phase[r] \in {"ready", "claimed", "answering"} =>
        Range(taken[r]) \subseteq Range(plan[r].rest) \cup Range(History(plan[r].base))

Carried == \A r \in Runs : CarriedBy(r)

WaitInv == AgreeInv /\ SaidOnce /\ Carried

\* A step of someone else, or one that only moves the attempt on.
LEMMA CarriedKept ==
    ASSUME AInv, [AttemptsNext]_allVars, NEW q \in Runs, CarriedBy(q),
           phase'[q] \in {"ready", "claimed", "answering"} =>
               /\ phase[q] \in {"ready", "claimed", "answering"}
               /\ plan'[q] = plan[q] /\ taken'[q] = taken[q]
    PROVE  CarriedBy(q)'
<1> SUFFICES ASSUME phase'[q] \in {"ready", "claimed", "answering"}
             PROVE  Range(taken'[q]) \subseteq
                       Range(plan'[q].rest) \cup Range(checkpoints'[plan'[q].base].digest)
  BY DEF CarriedBy, History
<1>1. plan[q].base \in DOMAIN checkpoints
  BY DEF AInv, LInv, AttemptsTypeOK, Plans
<1>2. checkpoints'[plan[q].base] = checkpoints[plan[q].base]
  BY <1>1, TableStays DEF AInv
<1>3. QED
  BY <1>2 DEF CarriedBy, History

LEMMA CarriedReady ==
    ASSUME AInv, NEW r \in Runs, TakePending(r) \/ RebasePending(r)
    PROVE  CarriedBy(r)'
<1>1. CASE TakePending(r)
  <2>1. /\ phase'[r] = (IF pending = <<>> THEN "ready" ELSE "collected") /\ taken'[r] = pending
    BY <1>1 DEF TakePending, AInv, AttemptsTypeOK
  <2>2. pending = <<>> => Range(pending) = {}
    BY DEF Range
  <2>3. QED
    BY <2>1, <2>2 DEF CarriedBy
<1>2. CASE RebasePending(r)
  <2>1. plan'[r].rest = taken[r] \o plan[r].rest /\ taken' = taken
    <3>1. PICK at : plan' = [plan EXCEPT ![r] = [base |-> at, rest |-> taken[r] \o plan[r].rest]]
      BY <1>2 DEF RebasePending, WithPending
    <3>2. taken' = taken /\ plan \in [Runs -> [base : Nat, rest : Seq(Texts)]]
      BY <1>2 DEF RebasePending, AInv, Plans
    <3>3. QED
      BY <3>1, <3>2
  <2>2. taken[r] \in Seq(Texts) /\ plan[r].rest \in Seq(Texts)
    BY InitialAssumption DEF AInv, AttemptsTypeOK
  <2>3. Range(taken[r] \o plan[r].rest) = Range(taken[r]) \cup Range(plan[r].rest)
    BY <2>2, BothAreIn
  <2>4. QED
    BY <2>1, <2>3 DEF CarriedBy
<1>3. QED
  BY <1>1, <1>2

\* Some messages are the first and the others.
LEMMA FirstOrRest ==
    ASSUME NEW S, NEW s \in Seq(S), s # <<>>
    PROVE  Range(s) = {Head(s)} \cup Range(Tail(s))
<1>1. /\ \A k \in DOMAIN s : s[k] = Head(s) \/ (k - 1 \in DOMAIN Tail(s) /\ s[k] = Tail(s)[k - 1])
      /\ 1 \in DOMAIN s /\ Head(s) = s[1]
      /\ \A k \in DOMAIN Tail(s) : k + 1 \in DOMAIN s /\ Tail(s)[k] = s[k + 1]
  OBVIOUS
<1>2. QED
  BY <1>1 DEF Range

LEMMA CarriedForward ==
    ASSUME MessagesAreDistinct, AInv, Spoken, NEW r \in Runs, CarriedBy(r),
           AppendInitial(r) \/ SkipInitial(r)
    PROVE  CarriedBy(r)'
<1> DEFINE m == Head(plan[r].rest)
           c == plan[r].base
<1>1. phase[r] = "claimed" /\ plan[r].rest # <<>> /\ UNCHANGED <<phase, taken>>
  BY DEF AppendInitial, SkipInitial
<1>2. c \in DOMAIN checkpoints /\ plan[r].rest \in Seq(Texts)
  BY <1>1 DEF AInv, LInv, AttemptsTypeOK, Plans
<1>3. m \in Texts /\ Range(plan[r].rest) = {m} \cup Range(Tail(plan[r].rest))
  BY <1>1, <1>2, FirstOrRest
<1>4. Range(taken[r]) \subseteq {m} \cup Range(Tail(plan[r].rest)) \cup Range(History(c))
  BY <1>1, <1>3 DEF CarriedBy
<1>5. CASE AppendInitial(r)
  <2>1. /\ AppendAt(r, c, <<m>>)
        /\ plan' = [plan EXCEPT ![r] = [base |-> NewCheckpoint, rest |-> Tail(plan[r].rest)]]
    BY <1>5 DEF AppendInitial, AppendMessageOnce, Appended
  <2>2. plan'[r].base = NewCheckpoint /\ plan'[r].rest = Tail(plan[r].rest)
    BY <2>1 DEF AInv, Plans
  <2>3. checkpoints'[NewCheckpoint].digest = History(c) \o <<m>>
    BY <1>2, <2>1, AppendedRow DEF AInv
  <2>4. History(c) \in Seq(Texts \cup Answers)
    BY <1>2 DEF Spoken
  <2> HIDE DEF m, c
  <2>5. Range(History(c) \o <<m>>) = Range(History(c)) \cup {m}
    <3> DEFINE h == History(c)
               longer == h \o <<m>>
    <3>1. /\ Len(h) \in Nat /\ DOMAIN h = 1 .. Len(h) /\ DOMAIN longer = 1 .. (Len(h) + 1)
          /\ \A i \in DOMAIN h : longer[i] = h[i]
          /\ longer[Len(h) + 1] = m
      BY <2>4
    <3> HIDE DEF longer, h
    <3>2. Range(longer) = Range(h) \cup {m}
      BY <3>1 DEF Range
    <3>3. QED
      BY <3>2 DEF longer, h
  <2>6. QED
    BY <1>1, <1>4, <2>2, <2>3, <2>5 DEF CarriedBy, History
<1>6. CASE SkipInitial(r)
  <2>1. /\ AlreadyThere(c, m) /\ UNCHANGED checkpoints
        /\ plan' = [plan EXCEPT ![r].rest = Tail(plan[r].rest)]
    BY <1>6 DEF SkipInitial, vars
  <2>2. plan'[r].rest = Tail(plan[r].rest) /\ plan'[r].base = c
    BY <2>1 DEF AInv, Plans
  <2>3. m \in Range(History(c))
    BY <1>2, <1>3, <2>1, SameId
  <2> HIDE DEF m, c
  <2>4. QED
    BY <1>1, <1>4, <2>1, <2>2, <2>3 DEF CarriedBy, History
<1>7. QED
  BY <1>5, <1>6

LEMMA CarriedStep ==
    ASSUME MessagesAreDistinct, AInv, Spoken, Carried, [AttemptsNext]_allVars
    PROVE  Carried'
<1>1. CASE \/ UNCHANGED allVars \/ (EnsureConversation /\ UNCHANGED attemptVars)
           \/ \E m \in Wakes : DeliverLater(m)
  <2>1. UNCHANGED <<phase, plan, taken>>
    BY <1>1 DEF allVars, attemptVars, DeliverLater
  <2>2. QED
    BY <2>1, CarriedKept DEF Carried
<1>2. CASE Crash
  <2>1. \A q \in Runs : phase'[q] \notin {"ready", "claimed", "answering"}
    BY <1>2 DEF Crash, UnderWay, Phases, AInv, AttemptsTypeOK
  <2>2. QED
    BY <2>1 DEF Carried, CarriedBy
<1>3. ASSUME NEW r \in Runs,
             \/ \E i \in Inputs, c \in DOMAIN checkpoints : AnchorInput(r, i, c)
             \/ Prepare(r) \/ TakePending(r) \/ RebasePending(r) \/ Claim(r) \/ Supersede(r)
             \/ AppendInitial(r) \/ SkipInitial(r) \/ LoseOwnership(r) \/ RefuseInitial(r)
             \/ CallModel(r) \/ CallRefused(r) \/ AnswerInput(r) \/ Fail(r) \/ Finish(r),
             NEW q \in Runs, q # r
      PROVE  CarriedBy(q)'
  BY <1>3, OthersKept, CarriedKept DEF Carried
<1>4. ASSUME NEW r \in Runs, Claim(r) \/ CallModel(r) PROVE CarriedBy(r)'
  <2>1. phase[r] \in {"ready", "claimed"} /\ UNCHANGED <<plan, taken>>
    BY <1>4 DEF Claim, CallModel
  <2>2. QED
    BY <2>1, CarriedKept DEF Carried
<1>5. ASSUME NEW r \in Runs,
             \/ \E i \in Inputs, c \in DOMAIN checkpoints : AnchorInput(r, i, c)
             \/ Prepare(r) \/ Supersede(r) \/ LoseOwnership(r) \/ RefuseInitial(r)
             \/ CallRefused(r) \/ AnswerInput(r) \/ Fail(r) \/ Finish(r)
      PROVE  CarriedBy(r)'
  <2>1. PICK p \in {"anchored", "prepared", "ended", "lost", "refused", "failed", "answered"} :
            phase' = [phase EXCEPT ![r] = p]
    BY <1>5 DEF AnchorInput, Prepare, Supersede, LoseOwnership, RefuseInitial, CallRefused,
       AnswerInput, Fail, Finish
  <2>2. phase'[r] = p
    BY <2>1 DEF AInv, AttemptsTypeOK
  <2>3. QED
    BY <2>2 DEF CarriedBy
<1>6. ASSUME NEW r \in Runs,
             \/ \E i \in Inputs, c \in DOMAIN checkpoints : AnchorInput(r, i, c)
             \/ Prepare(r) \/ TakePending(r) \/ RebasePending(r) \/ Claim(r) \/ Supersede(r)
             \/ AppendInitial(r) \/ SkipInitial(r) \/ LoseOwnership(r) \/ RefuseInitial(r)
             \/ CallModel(r) \/ CallRefused(r) \/ AnswerInput(r) \/ Fail(r) \/ Finish(r)
      PROVE  Carried'
  <2>1. CarriedBy(r)'
    BY <1>4, <1>5, <1>6, CarriedReady, CarriedForward DEF Carried
  <2>2. QED
    BY <1>3, <1>6, <2>1 DEF Carried
<1>7. QED
  BY <1>1, <1>2, <1>6 DEF AttemptsNext

\* A run calls the model with every waiting message it took, once: WithPending
\* puts them before its own, and run_claimed passes over one only because the
\* history has it.
THEOREM WaitingMessagesAreReadTheorem ==
    ASSUME MessagesAreDistinct
    PROVE  AttemptsSpec => []WaitingMessagesAreRead
<1>1. AttemptsInit => WaitInv
  <2> SUFFICES ASSUME AttemptsInit PROVE WaitInv
    OBVIOUS
  <2>1. DOMAIN checkpoints = {} /\ \A r \in Runs : phase[r] = "idle"
    BY DEF AttemptsInit, Init
  <2>2. QED
    BY <2>1, AgreeInitInv DEF WaitInv, SaidOnce, Carried, CarriedBy
<1>2. WaitInv /\ [AttemptsNext]_allVars => WaitInv'
  <2> SUFFICES ASSUME WaitInv, [AttemptsNext]_allVars PROVE WaitInv'
    OBVIOUS
  <2>1. AgreeInv /\ AInv /\ Spoken /\ SaidOnce /\ Carried
    BY DEF WaitInv, AgreeInv
  <2>2. QED
    BY <2>1, AgreeStepInv, SaidOnceStep, CarriedStep DEF WaitInv
<1>3. WaitInv => WaitingMessagesAreRead
  <2> SUFFICES ASSUME WaitInv, NEW r \in Runs, phase[r] = "answering", NEW m \in Range(taken[r])
               PROVE  \E i \in DOMAIN checkpoints[plan[r].base].digest :
                         /\ checkpoints[plan[r].base].digest[i] = m
                         /\ \A j \in DOMAIN checkpoints[plan[r].base].digest :
                                checkpoints[plan[r].base].digest[j] = m => j = i
    BY DEF WaitingMessagesAreRead
  <2>1. plan[r].rest = <<>> /\ plan[r].base \in DOMAIN checkpoints
    BY DEF WaitInv, AgreeInv, Attempting, Attempt, AInv, LInv, AttemptsTypeOK, Plans
  <2>2. Range(plan[r].rest) = {}
    BY <2>1 DEF Range
  <2>3. m \in Range(History(plan[r].base))
    BY <2>2 DEF WaitInv, Carried, CarriedBy
  <2>4. m \in Texts
    <3>1. taken[r] \in Seq(Texts)
      BY InitialAssumption DEF WaitInv, AgreeInv, AInv, AttemptsTypeOK
    <3>2. QED
      BY <3>1 DEF Range
  <2>5. PICK i \in DOMAIN History(plan[r].base) : History(plan[r].base)[i] = m
    BY <2>3 DEF Range
  <2>6. \A j \in DOMAIN History(plan[r].base) : History(plan[r].base)[j] = m => j = i
    BY <2>1, <2>4, <2>5 DEF WaitInv, SaidOnce
  <2>7. QED
    BY <2>5, <2>6 DEF History
<1>4. QED
  BY <1>1, <1>2, <1>3, PTL DEF AttemptsSpec

-----------------------------------------------------------------------------
(* Attempts that are alone.                                                 *)

\* Only an attempt that is under way goes on, and only a first step makes one.
LEMMA WhoIsUnderWay ==
    ASSUME AInv, [AttemptsNext]_allVars
    PROVE  \/ \E r \in Runs, i \in Inputs, c \in DOMAIN checkpoints : AnchorInput(r, i, c)
           \/ /\ alone' = alone
              /\ \A q \in Runs : phase'[q] \in UnderWay => phase[q] \in UnderWay
<1>1. phase \in [Runs -> Phases]
  BY DEF AInv, AttemptsTypeOK
<1>2. CASE \/ UNCHANGED allVars \/ (EnsureConversation /\ UNCHANGED attemptVars)
           \/ \E m \in Wakes : DeliverLater(m)
  BY <1>2 DEF allVars, attemptVars, DeliverLater
<1>3. CASE Crash
  BY <1>1, <1>3 DEF Crash, UnderWay
<1>4. ASSUME NEW r \in Runs,
             \/ Prepare(r) \/ TakePending(r) \/ RebasePending(r) \/ Claim(r) \/ Supersede(r)
             \/ AppendInitial(r) \/ SkipInitial(r) \/ LoseOwnership(r) \/ RefuseInitial(r)
             \/ CallModel(r) \/ CallRefused(r) \/ AnswerInput(r) \/ Fail(r) \/ Finish(r)
      PROVE  alone' = alone /\ \A q \in Runs : phase'[q] \in UnderWay => phase[q] \in UnderWay
  <2>1. phase[r] \in UnderWay /\ alone' = alone
    BY <1>4 DEF UnderWay, Phases, Prepare, TakePending, RebasePending, Claim, Supersede,
       AppendInitial, SkipInitial, LoseOwnership, RefuseInitial, CallModel, CallRefused,
       AnswerInput, Fail, Finish
  <2>2. \A q \in Runs : q # r => phase'[q] = phase[q]
    BY <1>4, OthersKept
  <2>3. QED
    BY <2>1, <2>2
<1>5. QED
  BY <1>2, <1>3, <1>4 DEF AttemptsNext

LEMMA AloneStep ==
    ASSUME AInv, AloneIsAlone, [AttemptsNext]_allVars
    PROVE  AloneIsAlone'
<1>1. phase \in [Runs -> Phases]
  BY DEF AInv, AttemptsTypeOK
<1>2. ASSUME NEW r \in Runs, NEW i \in Inputs, NEW c \in DOMAIN checkpoints, AnchorInput(r, i, c)
      PROVE  AloneIsAlone'
  <2>1. /\ phase[r] = "idle" /\ phase' = [phase EXCEPT ![r] = "anchored"]
        /\ alone' = IF \E q \in Runs : phase[q] \in UnderWay
                      THEN {q \in alone : phase[q] = "ended"} ELSE alone \cup {r}
    BY <1>2 DEF AnchorInput
  <2>2. \A q \in Runs : q # r => phase'[q] = phase[q]
    BY <1>1, <2>1
  <2>3. CASE \E q \in Runs : phase[q] \in UnderWay
    <3>1. \A q \in alone' : q \in Runs /\ q # r /\ phase[q] = "ended"
      BY <2>1, <2>3 DEF AInv, AttemptsTypeOK
    <3>2. QED
      BY <2>2, <3>1 DEF AloneIsAlone, UnderWay
  <2>4. CASE ~ \E q \in Runs : phase[q] \in UnderWay
    <3>1. \A q \in Runs : phase'[q] \in UnderWay => q = r
      BY <2>2, <2>4
    <3>2. alone' \subseteq Runs
      BY <2>1, <2>4 DEF AInv, AttemptsTypeOK
    <3>3. QED
      BY <3>1, <3>2 DEF AloneIsAlone
  <2>5. QED
    BY <2>3, <2>4
<1>3. CASE alone' = alone /\ \A q \in Runs : phase'[q] \in UnderWay => phase[q] \in UnderWay
  <2>1. alone \subseteq Runs
    BY DEF AInv, AttemptsTypeOK
  <2>2. QED
    BY <1>3, <2>1 DEF AloneIsAlone
<1>4. QED
  BY <1>2, <1>3, WhoIsUnderWay

\* A history that continues another by one message was made below it.
LEMMA MadeBelow ==
    ASSUME AInv, Spoken, OneByOne, NEW h \in Seq(Texts \cup Answers),
           NEW m \in Texts \cup Answers, NEW k \in DOMAIN checkpoints,
           History(k) = h \o <<m>>
    PROVE  checkpoints[k].parent \in DOMAIN checkpoints /\ History(checkpoints[k].parent) = h
<1> DEFINE p == checkpoints[k].parent
           longer == h \o <<m>>
<1>1. longer # <<>>
  <2>1. Len(longer) = Len(h) + 1 /\ Len(h) \in Nat
    OBVIOUS
  <2> HIDE DEF longer
  <2>2. Len(<<>>) = 0
    OBVIOUS
  <2>3. QED
    BY <2>1, <2>2
<1>2. PICK x \in Texts \cup Answers : p \in DOMAIN checkpoints /\ longer = History(p) \o <<x>>
  BY <1>1 DEF OneByOne
<1>3. History(p) \in Seq(Texts \cup Answers)
  BY <1>2 DEF Spoken
<1> DEFINE g == History(p)
<1> HIDE DEF p
<1>4. g = h
  <2> HIDE DEF g
  <2>1. g \in Seq(Texts \cup Answers) /\ h \o <<m>> = g \o <<x>>
    BY <1>2, <1>3 DEF g
  <2>2. /\ Len(h \o <<m>>) = Len(h) + 1 /\ Len(g \o <<x>>) = Len(g) + 1
        /\ Len(h) \in Nat /\ Len(g) \in Nat
        /\ \A i \in 1 .. Len(h) : (h \o <<m>>)[i] = h[i]
        /\ \A i \in 1 .. Len(g) : (g \o <<x>>)[i] = g[i]
    BY <2>1
  <2>3. Len(h) = Len(g) /\ \A i \in 1 .. Len(h) : h[i] = g[i]
    BY <2>1, <2>2
  <2>4. QED
    BY <2>1, <2>3, SameSequence
<1>5. QED
  BY <1>2, <1>4 DEF p, g

\* The search stops before the first message that nobody appended.
LEMMA FreeWhenPrepared ==
    ASSUME MessagesAreDistinct, AgreeInv, NEW r \in Runs, Prepare(r)
    PROVE  WayIsFree(r)'
<1> DEFINE c == anchors[input[r]]
           initial == Initial[input[r]]
           found == MatchPrefix(c, initial)
<1>1. /\ phase[r] = "anchored"
      /\ plan' = [plan EXCEPT ![r] = MatchPrefix(plan[r].base, plan[r].rest)]
      /\ UNCHANGED checkpoints
  BY DEF Prepare, vars
<1>2. AInv /\ Spoken /\ OneByOne /\ Attempting
  BY DEF AgreeInv
<1>3. plan[r].base = c /\ plan[r].rest = initial
  <2>1. plan[r] = [base |-> anchors[input[r]], rest |-> Initial[input[r]]]
    BY <1>1, <1>2 DEF Attempting, Attempt
  <2> HIDE DEF found
  <2>2. QED
    BY <2>1
<1>4. c \in DOMAIN checkpoints /\ input[r] \in Inputs
  BY <1>1, <1>2, WorkingRows DEF Working
<1>5. initial \in Seq(Texts) /\ Len(initial) \in Nat
  BY <1>4, OwnTexts
<1>6. plan'[r] = found
  BY <1>1, <1>2, <1>3 DEF AInv, Plans
<1>7. PICK n \in 0 .. Len(initial) :
          /\ Reaches(found, c, initial, n)
          /\ n < Len(initial) => Children(found.base, History(c) \o SubSeq(initial, 1, n + 1)) = {}
  BY <1>2, <1>4, <1>5, MatchedPrefix DEF AInv, Searched
<1> DEFINE h == History(found.base)
           m == Head(found.rest)
<1>8. SUFFICES ASSUME found.rest # <<>>, NEW k \in DOMAIN checkpoints, History(k) = h \o <<m>>
               PROVE  FALSE
  <2>1. found.rest # <<>> => ~ Exists(h \o <<m>>)
    BY <1>8 DEF Exists, History
  <2> HIDE DEF found
  <2>2. QED
    BY <1>1, <1>6, <2>1 DEF WayIsFree, Exists, History
<1> HIDE DEF found
<1>9. /\ found.base \in DOMAIN checkpoints
      /\ found.rest = SubSeq(initial, n + 1, Len(initial))
      /\ h = History(c) \o SubSeq(initial, 1, n)
  BY <1>7 DEF Reaches
<1>10. n < Len(initial)
  <2>1. Len(SubSeq(initial, n + 1, Len(initial))) = Len(initial) - n
    BY <1>5, Parts
  <2>2. SubSeq(initial, n + 1, Len(initial)) \in Seq(Texts)
    BY <1>5, Parts
  <2>3. n # Len(initial)
    BY <1>5, <1>8, <1>9, <2>1, <2>2
  <2>4. QED
    BY <1>5, <2>3
<1>11. m = initial[n + 1] /\ m \in Texts
       /\ SubSeq(initial, 1, n + 1) = SubSeq(initial, 1, n) \o <<m>>
  <2>1. /\ Head(SubSeq(initial, n + 1, Len(initial))) = initial[n + 1]
        /\ SubSeq(initial, 1, n + 1) = SubSeq(initial, 1, n) \o <<initial[n + 1]>>
    BY <1>5, <1>10, Parts
  <2>2. n + 1 \in DOMAIN initial
    BY <1>5, <1>10
  <2>3. QED
    BY <1>5, <1>9, <2>1, <2>2
<1> HIDE DEF m, h
<1>12. h \in Seq(Texts \cup Answers)
  BY <1>2, <1>9 DEF Spoken, h
<1>13. checkpoints[k].parent \in DOMAIN checkpoints /\ History(checkpoints[k].parent) = h
  BY <1>2, <1>8, <1>11, <1>12, MadeBelow
<1>14. checkpoints[k].parent = found.base
  BY <1>2, <1>9, <1>13 DEF AInv, LInv, OneOfADigest, History, h
<1>15. History(k) = History(c) \o SubSeq(initial, 1, n + 1)
  <2> DEFINE S == Texts \cup Answers
             before == History(c)
             t == SubSeq(initial, 1, n)
             u == <<m>>
  <2>1. before \in Seq(S) /\ t \in Seq(S) /\ u \in Seq(S)
    <3>1. t \in Seq(Texts)
      BY <1>5, Parts
    <3> HIDE DEF t
    <3>2. t \in Seq(S) /\ u \in Seq(S)
      BY <1>11, <3>1
    <3>3. QED
      BY <1>2, <1>4, <3>2 DEF Spoken
  <2>2. h = before \o t
    BY <1>9
  <2>3. SubSeq(initial, 1, n + 1) = t \o u /\ History(k) = h \o u
    BY <1>8, <1>11
  <2> HIDE DEF S, before, t, u
  <2>4. (before \o t) \o u = before \o (t \o u)
    BY <2>1, InThreeParts
  <2>5. History(k) = before \o SubSeq(initial, 1, n + 1)
    BY <2>2, <2>3, <2>4
  <2>6. QED
    BY <2>5 DEF before
<1>16. k \in Children(found.base, History(c) \o SubSeq(initial, 1, n + 1))
  BY <1>8, <1>14, <1>15 DEF Children, History
<1>17. QED
  BY <1>7, <1>10, <1>16

\* What was just appended has no children.
LEMMA FreeWhenAppended ==
    ASSUME AgreeInv, NEW r \in Runs, AppendInitial(r)
    PROVE  WayIsFree(r)'
<1> DEFINE m == Head(plan[r].rest)
           c == plan[r].base
           new == NewCheckpoint
           rest == Tail(plan[r].rest)
           h == History(c)
<1>1. /\ phase[r] = "claimed" /\ plan[r].rest # <<>>
      /\ plan' = [plan EXCEPT ![r] = [base |-> new, rest |-> rest]]
      /\ AppendAt(r, c, <<m>>) /\ c \in DOMAIN checkpoints
  BY DEF AppendInitial, AppendMessageOnce, Appended
<1>2. AInv /\ Spoken /\ OneByOne
  BY DEF AgreeInv
<1>3. /\ plan[r].rest \in Seq(Texts) /\ plan'[r].base = new /\ plan'[r].rest = rest
  BY <1>1, <1>2 DEF AInv, AttemptsTypeOK, Plans
<1>4. /\ DOMAIN checkpoints' = DOMAIN checkpoints \cup {new}
      /\ \A k \in DOMAIN checkpoints : checkpoints'[k] = checkpoints[k]
      /\ checkpoints'[new].digest = h \o <<m>>
  BY <1>1, <1>2, AppendedRow DEF AInv
<1>5. ~ Exists(h \o <<m>>)
  BY <1>1, <1>2, LoadIsDigest DEF AInv, AppendAt, InsertCheckpoint, History
<1>6. h \in Seq(Texts \cup Answers) /\ m \in Texts /\ rest \in Seq(Texts)
  BY <1>1, <1>2, <1>3, FirstAndRest DEF Spoken
<1> HIDE DEF h, m, new, c
<1>7. ASSUME rest # <<>>, NEW k \in DOMAIN checkpoints',
             checkpoints'[k].digest = (h \o <<m>>) \o <<Head(rest)>>
      PROVE  FALSE
  <2> HIDE DEF rest
  <2>1. Head(rest) \in Texts
    BY <1>6, <1>7
  <2> DEFINE x == Head(rest)
             longer == h \o <<m>>
  <2> HIDE DEF x
  <2>2. /\ longer \in Seq(Texts \cup Answers) /\ Len(longer) \in Nat
        /\ Len(longer \o <<x>>) = Len(longer) + 1
    BY <1>6
  <2>3. CASE k = new
    BY <1>4, <1>7, <2>2, <2>3 DEF x
  <2>4. CASE k # new
    <3>1. k \in DOMAIN checkpoints /\ History(k) = longer \o <<x>>
      BY <1>4, <1>7, <2>4 DEF x, History
    <3> HIDE DEF longer
    <3>2. /\ checkpoints[k].parent \in DOMAIN checkpoints
          /\ History(checkpoints[k].parent) = longer
      BY <1>2, <2>1, <2>2, <3>1, MadeBelow DEF x
    <3>3. QED
      BY <1>5, <3>2 DEF Exists, History, longer
  <2>5. QED
    BY <2>3, <2>4
<1>8. WayIsFree(r)' = (phase'[r] \in {"prepared", "ready", "claimed"} /\ taken'[r] = <<>>
                          /\ rest # <<>> =>
         ~ \E k \in DOMAIN checkpoints' :
               checkpoints'[k].digest = checkpoints'[new].digest \o <<Head(rest)>>)
  <2> HIDE DEF rest
  <2>1. QED
    BY <1>3 DEF WayIsFree, Exists, History
<1>9. QED
  BY <1>4, <1>7, <1>8

\* A step of someone else, or one that only moves the attempt on.
LEMMA FreeKept ==
    ASSUME NEW q \in Runs, WayIsFree(q), UNCHANGED checkpoints,
           phase'[q] \in {"prepared", "ready", "claimed"} =>
               /\ phase[q] \in {"prepared", "ready", "claimed"}
               /\ plan'[q] = plan[q] /\ taken'[q] = taken[q]
    PROVE  WayIsFree(q)'
BY DEF WayIsFree, Exists, History

LEMMA FreeStep ==
    ASSUME MessagesAreDistinct, AgreeInv, AloneIsAlone, NothingInTheWay,
           [AttemptsNext]_allVars
    PROVE  NothingInTheWay'
<1>1. /\ AInv /\ Spoken /\ AnchorsComeFirst /\ Attempting
      /\ phase \in [Runs -> Phases] /\ alone \subseteq Runs
  BY DEF AgreeInv, AInv, AttemptsTypeOK
<1>2. CASE UNCHANGED allVars \/ \E m \in Wakes : DeliverLater(m)
  BY <1>2 DEF allVars, attemptVars, vars, DeliverLater, NothingInTheWay, WayIsFree,
     Exists, History
<1>3. CASE EnsureConversation /\ UNCHANGED attemptVars
  <2>1. DOMAIN checkpoints = {}
    BY <1>1, <1>3 DEF EnsureConversation, AInv, LInv, SInv, TypeOK, EmptyUntilCreated
  <2>2. \A q \in Runs : phase[q] \notin {"prepared", "ready", "claimed"}
    BY <1>1, <2>1, WorkingRows DEF Working
  <2>3. QED
    BY <1>1, <1>3, <2>2 DEF attemptVars, NothingInTheWay, WayIsFree
<1>4. CASE Crash
  <2>1. \A q \in Runs : phase'[q] \notin {"prepared", "ready", "claimed"}
    BY <1>1, <1>4 DEF Crash, UnderWay, Phases
  <2>2. alone' \subseteq Runs
    BY <1>1, <1>4 DEF Crash
  <2>3. QED
    BY <2>1, <2>2 DEF NothingInTheWay, WayIsFree
<1>5. ASSUME NEW r \in Runs, NEW i \in Inputs, NEW c \in DOMAIN checkpoints, AnchorInput(r, i, c)
      PROVE  NothingInTheWay'
  <2>1. /\ phase[r] = "idle" /\ phase' = [phase EXCEPT ![r] = "anchored"]
        /\ alone' = IF \E q \in Runs : phase[q] \in UnderWay
                      THEN {q \in alone : phase[q] = "ended"} ELSE alone \cup {r}
    BY <1>5 DEF AnchorInput
  <2>2. phase'[r] = "anchored" /\ \A q \in Runs : q # r => phase'[q] = phase[q]
    BY <1>1, <2>1
  <2>3. ASSUME NEW q \in alone' PROVE phase'[q] \notin {"prepared", "ready", "claimed"}
    BY <1>1, <2>1, <2>2, <2>3 DEF UnderWay, Phases
  <2>4. QED
    BY <2>3 DEF NothingInTheWay, WayIsFree
<1>6. ASSUME NEW r \in Runs,
             \/ Prepare(r) \/ TakePending(r) \/ RebasePending(r) \/ Claim(r) \/ Supersede(r)
             \/ AppendInitial(r) \/ SkipInitial(r) \/ LoseOwnership(r) \/ RefuseInitial(r)
             \/ CallModel(r) \/ CallRefused(r) \/ AnswerInput(r) \/ Fail(r) \/ Finish(r)
      PROVE  /\ phase[r] \in UnderWay /\ alone' = alone
             /\ \A q \in Runs : q # r => phase'[q] = phase[q]
  <2>1. phase[r] \in UnderWay /\ alone' = alone
    BY <1>6 DEF UnderWay, Phases, Prepare, TakePending, RebasePending, Claim, Supersede,
       AppendInitial, SkipInitial, LoseOwnership, RefuseInitial, CallModel, CallRefused,
       AnswerInput, Fail, Finish
  <2>2. \A q \in Runs : q # r => phase'[q] = phase[q]
    BY <1>1, <1>6, OthersKept
  <2>3. QED
    BY <2>1, <2>2
<1>7. ASSUME NEW r \in alone, TakePending(r) \/ RebasePending(r) PROVE WayIsFree(r)'
  <2>1. WayIsFree(r) /\ r \in Runs
    BY <1>1 DEF NothingInTheWay
  <2>2. CASE TakePending(r)
    <3>1. /\ phase[r] = "prepared" /\ UNCHANGED <<checkpoints, plan>>
          /\ taken'[r] = pending /\ taken[r] = <<>>
          /\ phase'[r] = (IF pending = <<>> THEN "ready" ELSE "collected")
      BY <1>1, <2>1, <2>2 DEF TakePending, vars, AInv, AttemptsTypeOK, Attempting, Attempt
    <3>2. CASE pending = <<>>
      BY <2>1, <3>1, <3>2, FreeKept
    <3>3. CASE pending # <<>>
      BY <3>1, <3>3 DEF WayIsFree
    <3>4. QED
      BY <3>2, <3>3
  <2>3. CASE RebasePending(r)
    <3>1. taken'[r] = taken[r] /\ taken[r] # <<>>
      BY <1>1, <2>1, <2>3 DEF RebasePending, Attempting, Attempt
    <3>2. QED
      BY <3>1 DEF WayIsFree
  <2>4. QED
    BY <1>7, <2>2, <2>3
<1>8. ASSUME NEW r \in alone, Claim(r) PROVE WayIsFree(r)'
  <2>1. phase[r] = "ready" /\ UNCHANGED <<checkpoints, plan, taken>>
    BY <1>8 DEF Claim, ClaimRun
  <2>2. WayIsFree(r) /\ r \in Runs
    BY <1>1 DEF NothingInTheWay
  <2>3. QED
    BY <2>1, <2>2, FreeKept
<1>9. ASSUME NEW r \in alone, SkipInitial(r) PROVE WayIsFree(r)'
  <2>1. /\ phase[r] = "claimed" /\ plan[r].rest # <<>> /\ UNCHANGED taken
        /\ AlreadyThere(plan[r].base, Head(plan[r].rest))
    BY <1>9 DEF SkipInitial
  <2>2. taken[r] # <<>>
    BY <1>1, <2>1, NothingToSkip DEF Working
  <2>3. QED
    BY <2>1, <2>2 DEF WayIsFree
<1>10. ASSUME NEW r \in alone,
              \/ Supersede(r) \/ LoseOwnership(r) \/ RefuseInitial(r) \/ CallModel(r)
              \/ CallRefused(r) \/ AnswerInput(r) \/ Fail(r) \/ Finish(r)
       PROVE  WayIsFree(r)'
  <2>1. PICK p \in {"ended", "lost", "refused", "answering", "answered", "failed"} :
            phase' = [phase EXCEPT ![r] = p]
    BY <1>10 DEF Supersede, LoseOwnership, RefuseInitial, CallModel, CallRefused, AnswerInput,
       Fail, Finish
  <2>2. phase'[r] = p
    BY <1>1, <2>1
  <2>3. QED
    BY <2>2 DEF WayIsFree
<1>11. ASSUME NEW r \in Runs,
             \/ Prepare(r) \/ TakePending(r) \/ RebasePending(r) \/ Claim(r) \/ Supersede(r)
             \/ AppendInitial(r) \/ SkipInitial(r) \/ LoseOwnership(r) \/ RefuseInitial(r)
             \/ CallModel(r) \/ CallRefused(r) \/ AnswerInput(r) \/ Fail(r) \/ Finish(r)
       PROVE  NothingInTheWay'
  <2>1. ASSUME NEW q \in alone, q # r PROVE WayIsFree(q)'
    <3>1. phase'[q] = phase[q] /\ phase[r] \in UnderWay
      BY <1>1, <1>6, <1>11, <2>1
    <3>2. phase[q] \notin UnderWay
      BY <1>1, <2>1, <3>1 DEF AloneIsAlone
    <3>3. QED
      BY <3>1, <3>2 DEF WayIsFree, UnderWay, Phases
  <2>2. r \in alone => WayIsFree(r)'
    BY <1>7, <1>8, <1>9, <1>10, <1>11, FreeWhenPrepared, FreeWhenAppended
  <2>3. alone' = alone
    BY <1>6, <1>11
  <2>4. QED
    BY <2>1, <2>2, <2>3 DEF NothingInTheWay
<1>12. QED
  BY <1>2, <1>3, <1>4, <1>5, <1>11 DEF AttemptsNext

\* Nothing refuses an attempt whose way is free.
LEMMA RefusedStep ==
    ASSUME AgreeInv, NothingInTheWay, RetryIsNotRefused, [AttemptsNext]_allVars
    PROVE  RetryIsNotRefused'
<1>1. /\ AInv /\ phase \in [Runs -> Phases] /\ alone \subseteq Runs
  BY DEF AgreeInv, AInv, AttemptsTypeOK
<1>2. CASE \/ UNCHANGED allVars \/ (EnsureConversation /\ UNCHANGED attemptVars)
           \/ \E m \in Wakes : DeliverLater(m)
  BY <1>2 DEF allVars, attemptVars, DeliverLater, RetryIsNotRefused
<1>3. CASE Crash
  <2>1. \A q \in Runs : phase'[q] # "refused"
    BY <1>1, <1>3 DEF Crash, UnderWay, Phases
  <2>2. alone' \subseteq Runs
    BY <1>1, <1>3 DEF Crash
  <2>3. QED
    BY <2>1, <2>2 DEF RetryIsNotRefused
<1>4. ASSUME NEW r \in Runs,
             \/ \E i \in Inputs, c \in DOMAIN checkpoints : AnchorInput(r, i, c)
             \/ Prepare(r) \/ TakePending(r) \/ RebasePending(r) \/ Claim(r) \/ Supersede(r)
             \/ AppendInitial(r) \/ SkipInitial(r) \/ LoseOwnership(r)
             \/ CallModel(r) \/ CallRefused(r) \/ AnswerInput(r) \/ Fail(r) \/ Finish(r)
      PROVE  RetryIsNotRefused'
  <2>1. phase'[r] # "refused"
    <3>1. CASE AppendInitial(r) \/ SkipInitial(r)
      BY <3>1 DEF AppendInitial, SkipInitial
    <3>2. CASE ~ (AppendInitial(r) \/ SkipInitial(r))
      <4>1. PICK p \in {"anchored", "prepared", "collected", "ready", "claimed", "ended", "lost",
                        "answering", "answered", "failed"} : phase' = [phase EXCEPT ![r] = p]
        BY <1>4, <3>2 DEF AnchorInput, Prepare, TakePending, RebasePending, Claim,
           Supersede, LoseOwnership, CallModel, CallRefused, AnswerInput, Fail, Finish
      <4>2. QED
        BY <1>1, <4>1
    <3>3. QED
      BY <3>1, <3>2
  <2>2. \A q \in Runs : q # r => phase'[q] = phase[q] /\ taken'[q] = taken[q]
    BY <1>1, <1>4, OthersKept
  <2>3. alone' \subseteq alone \cup {r}
    BY <1>4 DEF AnchorInput, Prepare, TakePending, RebasePending, Claim, Supersede,
       AppendInitial, SkipInitial, LoseOwnership, CallModel, CallRefused, AnswerInput,
       Fail, Finish
  <2>4. QED
    BY <1>1, <2>1, <2>2, <2>3 DEF RetryIsNotRefused
<1>5. ASSUME NEW r \in Runs, RefuseInitial(r)
      PROVE  RetryIsNotRefused'
  <2>1. /\ phase[r] = "claimed" /\ plan[r].rest # <<>>
        /\ Exists(Load(plan[r].base) \o <<Head(plan[r].rest)>>)
        /\ phase' = [phase EXCEPT ![r] = "refused"]
        /\ UNCHANGED <<taken, alone>>
    BY <1>5 DEF RefuseInitial
  <2>2. plan[r].base \in DOMAIN checkpoints
    BY <1>1, <2>1 DEF AInv, LInv, AttemptsTypeOK, Plans
  <2>3. Exists(History(plan[r].base) \o <<Head(plan[r].rest)>>)
    BY <1>1, <2>1, <2>2, LoadIsDigest DEF AInv, History
  <2>4. r \in alone => taken[r] # <<>>
    BY <2>1, <2>3 DEF NothingInTheWay, WayIsFree
  <2>5. \A q \in Runs : q # r => phase'[q] = phase[q]
    BY <1>1, <2>1
  <2>6. QED
    BY <1>1, <2>1, <2>4, <2>5 DEF RetryIsNotRefused
<1>6. QED
  BY <1>2, <1>3, <1>4, <1>5 DEF AttemptsNext

\* Sending a message again after an attempt succeeds: match_checkpoint_prefix
\* goes as far as the messages are there, and while no other attempt is under
\* way nobody puts a checkpoint where the next append makes its own.
THEOREM RetriesAreNotRefused ==
    ASSUME MessagesAreDistinct
    PROVE  AttemptsSpec => []RetryIsNotRefused
<1>1. AttemptsInit => RetryInv
  <2> SUFFICES ASSUME AttemptsInit PROVE RetryInv
    OBVIOUS
  <2>1. AgreeInv /\ alone = {}
    BY AgreeInitInv DEF AttemptsInit
  <2>2. QED
    BY <2>1 DEF RetryInv, AloneIsAlone, NothingInTheWay, RetryIsNotRefused
<1>2. RetryInv /\ [AttemptsNext]_allVars => RetryInv'
  <2> SUFFICES ASSUME RetryInv, [AttemptsNext]_allVars PROVE RetryInv'
    OBVIOUS
  <2>1. AgreeInv /\ AInv /\ AloneIsAlone /\ NothingInTheWay /\ RetryIsNotRefused
    BY DEF RetryInv, AgreeInv
  <2>2. AgreeInv'
    BY <2>1, AgreeStepInv
  <2>3. AloneIsAlone' /\ NothingInTheWay' /\ RetryIsNotRefused'
    BY <2>1, AloneStep, FreeStep, RefusedStep
  <2>4. QED
    BY <2>2, <2>3 DEF RetryInv
<1>3. RetryInv => RetryIsNotRefused
  BY DEF RetryInv
<1>4. QED
  BY <1>1, <1>2, <1>3, PTL DEF AttemptsSpec

=============================================================================
