-------------------------- MODULE ToolSession_proofs --------------------------
(***************************************************************************)
(* Proofs about ToolSession, for every number of rounds, every finite set   *)
(* of calls in a round and every set of user messages.  What a session took *)
(* is never lost; and if no two rounds have a call id in common, engine and *)
(* session agree on the rounds: results find the round that waits for them, *)
(* every awaited result is on its way, and no tool runs unheard.            *)
(***************************************************************************)
EXTENDS ToolSession, SequenceTheorems, FiniteSetTheorems, TLAPS

\* No call id is used in two rounds.  Without it the theorems about rounds
\* are false: output.rs never forgets a call that was interrupted.
FreshCalls ==
    \A p, q \in Rounds : p # q => RoundCalls[p] \cap RoundCalls[q] = {}

-----------------------------------------------------------------------------
(* Types.                                                                   *)

Commands == [type : {"break"}, send : Sends] \cup [type : {"result"}, call : Calls]

\* The tool executions of the rounds.
Executions == {exec \in [round : Rounds, call : Calls] : exec.call \in RoundCalls[exec.round]}

EngineState ==
    [pc : {"model", "round", "ending", "closing", "final", "ended"},
     round : Rounds \cup {NoRound}, awaited : SUBSET Calls, script : Seq(Events),
     batches : SUBSET Ids, waiting : BOOLEAN,
     outcome : {"none", "completed", "cancelled", "failed"}]

SessionState ==
    [status : {"open", "failed", "finished"},
     error : {"none", "no active round", "no typed state", "no completion barrier", "duplicate"},
     ready : Seq(Calls), completions : SUBSET Calls, completed : SUBSET Calls,
     completedRound : Rounds \cup {NoRound}, activeRound : Rounds \cup {NoRound},
     activeCalls : SUBSET Calls, interruptedRounds : SUBSET Rounds,
     interruptedCalls : SUBSET Calls, pendingInjections : SUBSET Ids, seen : SUBSET Ids]

Types ==
    /\ engine \in EngineState /\ engine.awaited \subseteq CallsOf(engine.round)
    /\ settled \subseteq Rounds \cup {NoRound} /\ inserted \subseteq Ids
    /\ commands \in Seq(Commands) /\ events \in Seq(Events)
    /\ actions \in Seq(Sends) /\ results \in Seq(Calls)
    /\ running \subseteq Executions /\ answered \subseteq Executions
    /\ delivering \subseteq Sends /\ unsent \subseteq Sends /\ queued \subseteq Ids
    /\ cancelled \in BOOLEAN
    /\ session \in SessionState

-----------------------------------------------------------------------------
(* Messages.                                                                *)

\* The ids of the messages in a sequence of events.
MessageIds(seq) == {seq[i].id : i \in {j \in DOMAIN seq : seq[j].type = "message"}}

\* A message the engine has accepted is in the history or still in the script,
\* and one that was announced to the session is in the history.
Kept ==
    /\ MessagesAreKept
    /\ engine.batches \subseteq inserted \cup MessageIds(engine.script)
    /\ MessageIds(events) \subseteq inserted
    /\ engine.pc = "ending" => engine.script = <<>>
    /\ engine.pc # "round" => engine.awaited = {}

-----------------------------------------------------------------------------
(* The order of what the engine emits.                                      *)

IsBarrierResult(event) == event.type = "result" /\ event.barrier

\* The round is settled, or there was none.
Over == engine.round = NoRound \/ engine.round \in settled

BarrierAhead == \E i \in DOMAIN events : IsBarrierResult(events[i])

ExecuteSent == \E i \in DOMAIN events : events[i].type = "execute"

\* The tools of the round have still to be started.
ToExecute ==
    ExecuteSent \/ \E i \in DOMAIN engine.script : engine.script[i].type = "execute"

\* What the engine is about to emit.
ScriptAt(i) ==
    LET event == engine.script[i] IN
    /\ event.type \in {"started", "execute"} =>
         /\ engine.pc = "round" /\ ~ Over /\ engine.awaited = RoundCalls[engine.round]
         /\ \/ engine.script = <<Started(engine.round), Execute(engine.round)>> /\ events = <<>>
            \/ /\ engine.script = <<Execute(engine.round)>>
               /\ events \in {<<>>, <<Started(engine.round)>>}
    /\ event.type = "result" =>
         /\ engine.pc = "round" /\ ~ Over
         /\ \A j \in DOMAIN engine.script :
              j < i => engine.script[j].type = "result" /\ ~ engine.script[j].barrier
    /\ IsBarrierResult(event) =>
         /\ engine.awaited = {}
         /\ \A j \in DOMAIN engine.script : j > i => engine.script[j].type = "message"
    /\ event.type = "message" =>
         Over \/ \E j \in DOMAIN engine.script : j < i /\ IsBarrierResult(engine.script[j])
    /\ event.type = "final" => engine.pc = "final" /\ engine.script = <<Final>>
    /\ event.type # "ended"

ScriptOrder == \A i \in DOMAIN engine.script : ScriptAt(i)

\* Where the engine is.
Phases ==
    /\ engine.pc = "ended" => engine.script = <<>> /\ engine.awaited = {}
    /\ engine.pc \in {"model", "ending", "closing", "final"} => Over /\ engine.awaited = {}
    /\ engine.pc = "ending" => Listening
    /\ engine.pc = "round" => engine.round # NoRound
    /\ engine.pc = "round" /\ Over => engine.awaited = {}
    /\ engine.pc = "round" /\ ~ Over /\ engine.awaited = {} =>
         \E i \in DOMAIN engine.script : IsBarrierResult(engine.script[i])
    /\ engine.pc # "ended" /\ ~ engine.waiting =>
         \A i \in DOMAIN events : ~ HasBarrier(events[i])
    /\ NoRound \notin settled /\ \A r \in settled : r <= engine.round

\* What the session has still to handle.
EventAt(i) ==
    LET event == events[i] IN
    /\ event.type = "started" => i = 1 /\ event.round = engine.round
    /\ event.type = "execute" =>
         (i = 1 \/ (i = 2 /\ events[1].type = "started")) /\ event.round = engine.round
    /\ event.type \in {"message", "final"} =>
         i = 1 /\ Over /\ \A j \in DOMAIN events : j > 1 => events[j].type = "ended"
    /\ IsBarrierResult(event) =>
         Over /\ \A j \in DOMAIN events : j > i => events[j].type = "ended"
    /\ event.type = "ended" => i = Len(events) /\ engine.pc = "ended"
    /\ event.type \in {"started", "execute", "result"} =>
         engine.round # NoRound /\ (Over => BarrierAhead)

EventOrder == \A i \in DOMAIN events : EventAt(i)

\* The session works at the engine's round, from the start of it to the commit
\* that settles it.
RoundsAgree ==
    LET active == session.activeRound IN
    /\ active = NoRound => session.activeCalls = {}
    /\ session.activeCalls \subseteq CallsOf(active)
    /\ session.status = "open" =>
         /\ active # NoRound => active = engine.round /\ (Over => BarrierAhead)
         /\ (\E i \in DOMAIN events : events[i].type = "result") =>
              active = engine.round \/ ExecuteSent
         /\ engine.pc = "round" /\ ~ Over => active = engine.round \/ ToExecute
         /\ \A i \in DOMAIN events : events[i].type = "started" => active = NoRound
         /\ \A i \in DOMAIN engine.script : engine.script[i].type = "started" => active = NoRound

Ordered == ScriptOrder /\ Phases /\ EventOrder /\ RoundsAgree

-----------------------------------------------------------------------------
(* Where the result of a call is.                                           *)

Asked == {exec.call : exec \in running \cup answered}

\* On its way to the session.
Flight == Asked \cup Range(results) \cup Range(session.ready)

\* Forwarded to the engine.
Forwarded == {commands[i].call : i \in {j \in DOMAIN commands : commands[j].type = "result"}}

\* Committed by the engine as a tool's result.
ResultAt(seq) == {i \in DOMAIN seq : seq[i].type = "result" /\ ~ seq[i].interrupted}

Committed(seq) == {seq[i].call : i \in ResultAt(seq)}

\* The rounds whose tools were started.
StartedRounds ==
    {r \in Rounds : r <= engine.round /\ (ToExecute => r < engine.round)}

KnownCalls == UNION {RoundCalls[r] : r \in StartedRounds}

\* On its way a result is at one place only.
OnePlace ==
    /\ running \cap answered = {}
    /\ Asked \cap Range(results) = {} /\ Asked \cap Range(session.ready) = {}
    /\ Range(results) \cap Range(session.ready) = {}
    /\ IsInjective(results) /\ IsInjective(session.ready)

\* A sequence of events commits no result twice.
Once(seq) == \A i, j \in ResultAt(seq) : seq[i].call = seq[j].call => i = j

ForwardedOnce ==
    \A i, j \in DOMAIN commands :
        commands[i].type = "result" /\ commands[j].type = "result"
          /\ commands[i].call = commands[j].call => i = j

\* Results that are past the session are at one place only, too.
Apart ==
    /\ Forwarded \cap Committed(events) = {} /\ Forwarded \cap Committed(engine.script) = {}
    /\ Committed(events) \cap Committed(engine.script) = {}
    /\ ForwardedOnce /\ Once(events) /\ Once(engine.script)

\* The session knows which they are.
OneCommit ==
    /\ Flight \cap session.completions = {}
    /\ Forwarded \cup Committed(events) \cup Committed(engine.script) \subseteq session.completions
    /\ Apart

\* Nothing is known of calls that were not started yet.
NothingEarly ==
    /\ Flight \cup session.completions \subseteq KnownCalls
    /\ session.activeCalls \cup session.interruptedCalls \subseteq KnownCalls
    /\ session.completedRound <= engine.round
    /\ ToExecute => session.completedRound < engine.round
    /\ \A r \in session.interruptedRounds : r <= engine.round

Placed == OnePlace /\ OneCommit /\ NothingEarly

-----------------------------------------------------------------------------
(* Where a message is.                                                      *)

\* A message is at one place at a time, and only what was sent is inserted.
BreaksOnce == \A i, j \in BreakAt : commands[i].send = commands[j].send => i = j

Sent == Sends \ unsent

Trips ==
    /\ IsInjective(actions) /\ BreaksOnce
    /\ Range(actions) \cap (unsent \cup delivering \cup Accepted) = {}
    /\ delivering \cap (unsent \cup Accepted) = {}
    /\ unsent \cap Accepted = {}
    /\ inserted \cup MessageIds(engine.script) \subseteq {MessageId[s] : s \in Sent}

\* As long as none is sent twice, a message that is on its way to the engine is
\* new, and one that the engine is about to insert is about to be inserted once.
MessagesOnce ==
    \A i, j \in DOMAIN engine.script :
        engine.script[i].type = "message" /\ engine.script[j].type = "message"
          /\ engine.script[i].id = engine.script[j].id => i = j

New ==
    /\ \A s \in Range(actions) \cup delivering \cup Accepted :
         MessageId[s] \notin inserted \cup MessageIds(engine.script)
    /\ MessageIds(engine.script) \cap inserted = {}
    /\ MessagesOnce

Travelling == Trips /\ (~ SentAgain => New)

-----------------------------------------------------------------------------
(* Engine and session.                                                      *)

\* The engine waits for each result that was forwarded to it, and has no
\* message to read before.
ForwardedAreAwaited ==
    \A i \in DOMAIN commands : commands[i].type = "result" =>
        /\ commands[i].call \in engine.awaited
        /\ \A j \in DOMAIN commands : j < i => commands[j].type # "break"

\* The session notes an injection from the moment it delivers it until it
\* handles its commit, or the message was refused.
InjectionsAreNoted ==
    /\ \A s \in delivering \cup Accepted : MessageId[s] \in session.pendingInjections
    /\ \A id \in session.pendingInjections :
         \/ queued # {}
         \/ \E s \in delivering \cup Accepted : MessageId[s] = id
         \/ id \in MessageIds(engine.script) \cup MessageIds(events)

\* A result on its way is awaited or dropped, and dropped once an injection is noted.
FlightIsAwaited ==
    /\ Flight \subseteq session.interruptedCalls \cup (engine.awaited \cap session.activeCalls)
    /\ session.pendingInjections # {} => Flight \subseteq session.interruptedCalls
    /\ \A exec \in running : exec.call \notin session.interruptedCalls

\* A round the engine has given up is not started.
GivenUp ==
    ToExecute /\ (engine.awaited # RoundCalls[engine.round]
                    \/ engine.round \in session.interruptedRounds) =>
        session.pendingInjections # {}

\* Every result the engine waits for is on its way, or something is that frees
\* the engine from waiting.
AwaitedAreOnTheWay ==
    \A c \in engine.awaited :
        \/ c \in Flight \ session.interruptedCalls
        \/ c \in Forwarded
        \/ ToExecute \/ cancelled
        \/ delivering # {} \/ Accepted # {} \/ queued # {}

Agree == InjectionsAreNoted /\ FlightIsAwaited /\ GivenUp /\ AwaitedAreOnTheWay

Together ==
    ~ SentAgain /\ engine.pc # "ended" => ForwardedAreAwaited /\ (Open => Agree)

IInv ==
    /\ Types /\ Kept /\ Ordered /\ Placed /\ Travelling /\ Together
    /\ ResultsFindTheirRound

-----------------------------------------------------------------------------
(* Lemmas about sequences.                                                  *)

\* Head and tail, in the form the proofs need.
LEMMA HeadTail ==
    ASSUME NEW T, NEW seq \in Seq(T), seq # <<>>
    PROVE  /\ Head(seq) \in T /\ Tail(seq) \in Seq(T)
           /\ Len(seq) \in Nat \ {0} /\ Len(Tail(seq)) = Len(seq) - 1
           /\ Head(seq) = seq[1] /\ 1 \in DOMAIN seq
           /\ \A i \in DOMAIN Tail(seq) :
                i \in Nat \ {0} /\ i + 1 \in DOMAIN seq /\ Tail(seq)[i] = seq[i + 1]
           /\ \A i \in DOMAIN seq : i \in Nat \ {0}
           /\ \A i \in DOMAIN seq : i # 1 => i - 1 \in DOMAIN Tail(seq) /\ Tail(seq)[i - 1] = seq[i]
OBVIOUS

LEMMA Appended ==
    ASSUME NEW T, NEW seq \in Seq(T), NEW e \in T
    PROVE  /\ Append(seq, e) \in Seq(T)
           /\ Len(seq) \in Nat /\ Len(Append(seq, e)) = Len(seq) + 1
           /\ Append(seq, e)[Len(seq) + 1] = e
           /\ Len(seq) + 1 \in DOMAIN Append(seq, e)
           /\ \A i \in DOMAIN seq :
                i \in Nat \ {0} /\ i <= Len(seq)
                  /\ i \in DOMAIN Append(seq, e) /\ Append(seq, e)[i] = seq[i]
           /\ \A i \in DOMAIN Append(seq, e) : i \in DOMAIN seq \/ i = Len(seq) + 1
OBVIOUS

\* A finite set as a sequence: every element, once.
LEMMA SetAsSequence ==
    ASSUME NEW T, NEW S \in SUBSET T, IsFiniteSet(S)
    PROVE  /\ SetToSeq(S) \in Seq(T) /\ IsInjective(SetToSeq(S))
           /\ Range(SetToSeq(S)) = S /\ Len(SetToSeq(S)) = Cardinality(S)
           /\ Cardinality(S) \in Nat
<1> DEFINE n == Cardinality(S)
           f == SetToSeq(S)
<1>1. n \in Nat /\ ExistsBijection(1..n, S)
  BY FS_CardinalityType
<1>2. \E g \in [1..n -> S] : IsInjective(g)
  BY <1>1 DEF ExistsBijection, Bijection, Injection, IsInjective
<1>3. f \in [1..n -> S] /\ IsInjective(f)
  BY <1>2 DEF SetToSeq
<1>4. f \in Injection(1..n, S)
  BY <1>3 DEF Injection, IsInjective
<1>5. IsFiniteSet(1..n) /\ Cardinality(1..n) = n
  BY <1>1, FS_Interval
<1>6. f \in Surjection(1..n, S)
  BY <1>4, <1>5, FS_Injection
<1>7. Range(f) = S
  BY <1>3, <1>6 DEF Surjection, Range
<1>8. f \in Seq(T) /\ Len(f) = n
  BY <1>1, <1>3
<1>9. QED
  BY <1>1, <1>3, <1>7, <1>8

-----------------------------------------------------------------------------
(* Types.                                                                   *)

LEMMA RoundFacts ==
    /\ Rounds = 1..Len(RoundCalls) /\ Len(RoundCalls) \in Nat /\ NoRound \notin Rounds
    /\ \A r \in Rounds :
         /\ RoundCalls[r] \subseteq Calls /\ RoundCalls[r] # {} /\ IsFiniteSet(RoundCalls[r])
         /\ CallsOf(r) = RoundCalls[r]
    /\ CallsOf(NoRound) = {}
BY RoundCallsAssumption DEF Rounds, Calls, CallsOf, NoRound, Range

LEMMA EventTypes ==
    /\ \A r \in Rounds : Started(r) \in Events /\ Execute(r) \in Events
    /\ \A c \in Calls : \A i, b \in BOOLEAN : Result(c, i, b) \in Events
    /\ \A s \in Sends : Message(s) \in Events
    /\ Final \in Events /\ [type |-> "ended"] \in Events
BY DEF Events, Started, Execute, Result, Message, Final, Ids

LEMMA EventFields ==
    ASSUME NEW event \in Events
    PROVE  /\ event.type \in {"started", "execute", "result", "message", "final", "ended"}
           /\ event.type \in {"started", "execute"} => event.round \in Rounds
           /\ event.type = "result" =>
                event.call \in Calls /\ event.interrupted \in BOOLEAN /\ event.barrier \in BOOLEAN
           /\ event.type = "message" => event.id \in Ids
BY DEF Events

LEMMA CommandTypes ==
    /\ \A s \in Sends : [type |-> "break", send |-> s] \in Commands
    /\ \A c \in Calls : [type |-> "result", call |-> c] \in Commands
    /\ \A command \in Commands :
         /\ command.type \in {"break", "result"}
         /\ command.type = "break" => command.send \in Sends
         /\ command.type = "result" => command.call \in Calls
BY DEF Commands

\* The messages in the engine's channel are sends, at places that can be counted.
LEMMA BreaksFacts ==
    ASSUME Types
    PROVE  /\ Accepted \subseteq Sends /\ {MessageId[s] : s \in Accepted} \subseteq Ids
           /\ BreakAt \subseteq 1..Len(commands) /\ Len(commands) \in Nat
           /\ IsFiniteSet(BreakAt) /\ Cardinality(BreakAt) \in Nat
<1>1. commands \in Seq(Commands)
  BY DEF Types
<1>2. BreakAt \subseteq 1..Len(commands) /\ Len(commands) \in Nat
  BY <1>1 DEF BreakAt
<1>3. \A i \in DOMAIN commands : commands[i] \in Commands
  BY <1>1
<1>4. Accepted \subseteq Sends
  BY <1>2, <1>3, CommandTypes DEF Accepted, BreakAt
<1>5. IsFiniteSet(1..Len(commands))
  BY <1>2, FS_Interval
<1>6. QED
  BY <1>2, <1>4, <1>5, FS_Subset, FS_CardinalityType DEF Ids

\* What an interruption writes into the script: a result for each call that is
\* left, the last of them with the barrier.
LEMMA InterruptionsFacts ==
    ASSUME Types
    PROVE  /\ Interruptions \in Seq(Events)
           /\ Interruptions = <<>> <=> engine.awaited = {}
           /\ \A i \in DOMAIN Interruptions :
                /\ i \in Nat \ {0}
                /\ Interruptions[i].type = "result" /\ Interruptions[i].interrupted
                /\ Interruptions[i].call \in engine.awaited
                /\ Interruptions[i].barrier = (i = Len(Interruptions))
<1> DEFINE left == SetToSeq(engine.awaited)
<1>1. engine.awaited \in SUBSET Calls /\ IsFiniteSet(engine.awaited)
  <2>1. engine.round \in Rounds \cup {NoRound} /\ engine.awaited \subseteq CallsOf(engine.round)
    BY DEF Types, EngineState
  <2>2. CASE engine.round = NoRound
    BY <2>1, <2>2, RoundFacts, FS_EmptySet
  <2>3. CASE engine.round \in Rounds
    BY <2>1, <2>3, RoundFacts, FS_Subset
  <2>4. QED
    BY <2>1, <2>2, <2>3
<1>2. left \in Seq(Calls) /\ Range(left) = engine.awaited
  BY <1>1, SetAsSequence
<1>3. Interruptions = [i \in DOMAIN left |-> Result(left[i], TRUE, i = Len(left))]
  BY DEF Interruptions
<1> HIDE DEF left
<1>4. /\ Len(left) \in Nat /\ DOMAIN left = 1..Len(left)
      /\ \A i \in DOMAIN left : left[i] \in Calls /\ left[i] \in engine.awaited
  BY <1>2 DEF Range
<1>5. \A i \in DOMAIN left : Result(left[i], TRUE, i = Len(left)) \in Events
  BY <1>4, EventTypes
<1>6. Interruptions \in Seq(Events) /\ Len(Interruptions) = Len(left)
  <2>1. Interruptions \in [1..Len(left) -> Events]
    BY <1>3, <1>4, <1>5
  <2>2. QED
    BY <2>1, <1>4
<1>7. Interruptions = <<>> <=> engine.awaited = {}
  <2>1. Interruptions = <<>> <=> Len(left) = 0
    BY <1>6
  <2>2. Len(left) = 0 => Range(left) = {}
    BY <1>4 DEF Range
  <2>3. Len(left) # 0 => 1 \in DOMAIN left
    BY <1>4
  <2>4. 1 \in DOMAIN left => left[1] \in Range(left)
    BY DEF Range
  <2>5. QED
    BY <2>1, <2>2, <2>3, <2>4, <1>2
<1>8. \A i \in DOMAIN Interruptions :
        /\ i \in Nat \ {0}
        /\ Interruptions[i].type = "result" /\ Interruptions[i].interrupted
        /\ Interruptions[i].call \in engine.awaited
        /\ Interruptions[i].barrier = (i = Len(Interruptions))
  BY <1>3, <1>4, <1>6 DEF Result
<1>9. QED
  BY <1>6, <1>7, <1>8

LEMMA TypesInit == Init => Types
<1> SUFFICES ASSUME Init PROVE Types
  OBVIOUS
<1>1. engine \in EngineState /\ engine.awaited = {} /\ session \in SessionState
  BY DEF Init, EngineState, SessionState
<1>2. cancelled \in BOOLEAN
  BY DEF Init
<1>3. QED
  BY <1>1, <1>2 DEF Init, Types

\* What TypesStep has to show of the variables other than the records.
ChannelTypes ==
    /\ settled \subseteq Rounds \cup {NoRound} /\ inserted \subseteq Ids
    /\ commands \in Seq(Commands) /\ events \in Seq(Events)
    /\ actions \in Seq(Sends) /\ results \in Seq(Calls)
    /\ running \subseteq Executions /\ answered \subseteq Executions
    /\ delivering \subseteq Sends /\ unsent \subseteq Sends /\ queued \subseteq Ids
    /\ cancelled \in BOOLEAN

EngineTypes == engine \in EngineState /\ engine.awaited \subseteq CallsOf(engine.round)

LEMMA TypesEngine ==
    ASSUME Types, EngineNext
    PROVE  Types'
<1>0. /\ EngineTypes /\ ChannelTypes /\ session \in SessionState
      /\ engine.round \in Rounds \cup {NoRound} /\ engine.awaited \subseteq Calls
      /\ engine.script \in Seq(Events) /\ engine.batches \subseteq Ids
  BY DEF Types, EngineTypes, ChannelTypes, EngineState
<1> SUFFICES EngineTypes' /\ ChannelTypes' /\ session' \in SessionState
  BY DEF Types, EngineTypes, ChannelTypes
<1>1. CASE ModelCallsTools
  <2> DEFINE r == engine.round + 1
  <2>1. r \in Rounds /\ RoundCalls[r] \subseteq Calls /\ CallsOf(r) = RoundCalls[r]
    BY <1>0, <1>1, RoundFacts DEF ModelCallsTools, NoRound
  <2>2. <<Started(r), Execute(r)>> \in Seq(Events)
    BY <2>1, EventTypes
  <2>3. engine' = [engine EXCEPT !.pc = "round", !.round = r,
                        !.awaited = RoundCalls[r], !.script = <<Started(r), Execute(r)>>]
    BY <1>1 DEF ModelCallsTools
  <2> HIDE DEF r
  <2>4. EngineTypes'
    BY <1>0, <2>1, <2>2, <2>3 DEF EngineTypes, EngineState
  <2>5. QED
    BY <1>0, <1>1, <2>4 DEF ModelCallsTools, channels, messages, ChannelTypes
<1>2. CASE ModelEndsTurn
  BY <1>0, <1>2 DEF ModelEndsTurn, channels, messages, EngineTypes, EngineState, ChannelTypes
<1>3. CASE DrainAccepted
  <2>0. commands \in Seq(Commands) /\ (\A i \in BreakAt : commands[i].send \in Sends)
    BY <1>0, CommandTypes DEF ChannelTypes, BreakAt
  <2>1. PICK order \in [1..Cardinality(BreakAt) -> BreakAt] :
          engine' = [engine EXCEPT
                         !.pc = IF BreakAt = {} THEN "final" ELSE "closing",
                         !.batches = {MessageId[s] : s \in Accepted},
                         !.script = IF BreakAt = {} THEN <<Final>>
                                    ELSE [i \in DOMAIN order |-> Message(commands[order[i]].send)]]
    BY <1>3 DEF DrainAccepted
  <2> DEFINE drained == [i \in DOMAIN order |-> Message(commands[order[i]].send)]
  <2>2. drained \in [1..Cardinality(BreakAt) -> Events]
    BY <2>0, EventTypes
  <2>3. drained \in Seq(Events) /\ <<Final>> \in Seq(Events)
    BY <2>2, EventTypes, BreaksFacts
  <2> HIDE DEF drained
  <2>4. EngineTypes'
    BY <1>0, <2>1, <2>3, BreaksFacts DEF EngineTypes, EngineState, drained
  <2>5. QED
    BY <1>0, <1>3, <2>4 DEF DrainAccepted, messages, ChannelTypes
<1>4. CASE EngineEmits
  <2>1. /\ Head(engine.script) \in Events /\ Tail(engine.script) \in Seq(Events)
        /\ HasBarrier(Head(engine.script)) \in BOOLEAN
    BY <1>0, <1>4, HeadTail, EventFields DEF EngineEmits, HasBarrier
  <2>2. EngineTypes'
    BY <1>0, <1>4, <2>1 DEF EngineEmits, EngineTypes, EngineState
  <2>3. events' \in Seq(Events)
    BY <1>0, <1>4, <2>1 DEF EngineEmits, ChannelTypes
  <2>4. inserted' \subseteq Ids
    BY <1>0, <1>4, <2>1, EventFields DEF EngineEmits, ChannelTypes
  <2>5. settled' \subseteq Rounds \cup {NoRound}
    BY <1>0, <1>4 DEF EngineEmits, ChannelTypes
  <2>6. QED
    BY <1>0, <1>4, <2>2, <2>3, <2>4, <2>5 DEF EngineEmits, messages, ChannelTypes
<1>5. CASE EngineSkipsMessage
  <2>1. Tail(engine.script) \in Seq(Events)
    BY <1>0, <1>5, HeadTail DEF EngineSkipsMessage
  <2>2. QED
    BY <1>0, <1>5, <2>1
       DEF EngineSkipsMessage, channels, messages, EngineTypes, EngineState, ChannelTypes
<1>6. CASE EngineContinues
  BY <1>0, <1>6 DEF EngineContinues, channels, messages, EngineTypes, EngineState, ChannelTypes
<1>7. CASE TakeResult
  <2>1. Head(commands) \in Commands /\ Tail(commands) \in Seq(Commands)
    BY <1>0, <1>7, HeadTail DEF TakeResult, Receives, ChannelTypes
  <2> DEFINE c == Head(commands).call
  <2>2. c \in Calls
    BY <1>7, <2>1, CommandTypes DEF TakeResult
  <2>3. <<Result(c, FALSE, engine.awaited \ {c} = {})>> \in Seq(Events)
    <3>1. \A b \in BOOLEAN : Result(c, FALSE, b) \in Events
      BY <2>2, EventTypes
    <3>2. (engine.awaited \ {c} = {}) \in BOOLEAN
      OBVIOUS
    <3>3. Result(c, FALSE, engine.awaited \ {c} = {}) \in Events
      BY ONLY <3>1, <3>2
    <3>4. \A event \in Events : <<event>> \in Seq(Events)
      OBVIOUS
    <3>5. QED
      BY ONLY <3>3, <3>4
  <2>4. engine' = engine \/ engine' = [engine EXCEPT !.awaited = engine.awaited \ {c},
                                !.script = <<Result(c, FALSE, engine.awaited \ {c} = {})>>]
    BY <1>7 DEF TakeResult
  <2> HIDE DEF c
  <2>5. EngineTypes'
    BY <1>0, <2>3, <2>4, ZenonT(60) DEF EngineTypes, EngineState
  <2>6. QED
    BY <1>0, <1>7, <2>1, <2>5 DEF TakeResult, messages, ChannelTypes
<1>8. CASE TakeBreak
  <2>1. Head(commands) \in Commands /\ Tail(commands) \in Seq(Commands)
    BY <1>0, <1>8, HeadTail DEF TakeBreak, Receives, ChannelTypes
  <2> DEFINE s == Head(commands).send
             script == Interruptions \o <<Message(s)>>
  <2>2. s \in Sends /\ MessageId[s] \in Ids
    BY <1>8, <2>1, CommandTypes DEF TakeBreak, Ids
  <2>3. script \in Seq(Events)
    BY <2>2, EventTypes, InterruptionsFacts
  <2>4. engine' = [engine EXCEPT !.awaited = {}, !.batches = {MessageId[s]}, !.script = script]
    BY <1>8 DEF TakeBreak
  <2> HIDE DEF s, script
  <2>5. EngineTypes'
    BY <1>0, <2>2, <2>3, <2>4 DEF EngineTypes, EngineState
  <2>6. QED
    BY <1>0, <1>8, <2>1, <2>5 DEF TakeBreak, messages, ChannelTypes
<1>9. ASSUME NEW outcome \in {"completed", "cancelled", "failed"}, End(outcome)
      PROVE  EngineTypes' /\ ChannelTypes' /\ session' \in SessionState
  <2>0. <<>> \in Seq(Events) /\ outcome \in {"none", "completed", "cancelled", "failed"}
    OBVIOUS
  <2>1. EngineTypes'
    BY <1>0, <1>9, <2>0 DEF End, EngineTypes, EngineState
  <2>2. commands' \in Seq(Commands) /\ events' \in Seq(Events)
    BY <1>0, <1>9, EventTypes DEF End, ChannelTypes
  <2>3. queued' \subseteq Ids
    BY <1>0, <1>9, BreaksFacts DEF End, ChannelTypes
  <2>4. QED
    BY <1>0, <1>9, <2>1, <2>2, <2>3 DEF End, ChannelTypes
<1>10. QED
  BY <1>1, <1>2, <1>3, <1>4, <1>5, <1>6, <1>7, <1>8, <1>9
     DEF EngineNext, EngineCompletes, EngineCancelled, EngineFails

LEMMA TypesSession ==
    ASSUME Types, SessionNext
    PROVE  Types'
<1>0. /\ EngineTypes /\ ChannelTypes /\ session \in SessionState
      /\ engine.batches \subseteq Ids /\ events \in Seq(Events) /\ actions \in Seq(Sends)
      /\ session.ready \in Seq(Calls)
  BY DEF Types, EngineTypes, ChannelTypes, EngineState, SessionState
<1> SUFFICES EngineTypes' /\ ChannelTypes' /\ session' \in SessionState
  BY DEF Types, EngineTypes, ChannelTypes
<1>a. ASSUME NEW type, MayHandle(type)
      PROVE  Head(events) \in Events /\ Tail(events) \in Seq(Events) /\ Head(events).type = type
  BY <1>0, <1>a, HeadTail DEF MayHandle
<1>1. CASE HandleAction
  <2>1. Head(actions) \in Sends /\ Tail(actions) \in Seq(Sends)
    BY <1>0, <1>1, HeadTail DEF HandleAction
  <2>2. MessageId[Head(actions)] \in Ids
    BY <2>1 DEF Ids
  <2>3. InterruptedNow \subseteq Calls /\ {session.activeRound} \ {NoRound} \subseteq Rounds
    BY <1>0 DEF InterruptedNow, SessionState
  <2>4. session' \in SessionState
    BY <1>0, <1>1, <2>2, <2>3 DEF HandleAction, SessionState
  <2>5. QED
    BY <1>0, <1>1, <2>1, <2>4 DEF HandleAction, ChannelTypes, EngineTypes
<1>2. CASE HandleStarted
  <2>1. Head(events).round \in Rounds /\ Tail(events) \in Seq(Events)
    BY <1>a, <1>2, EventFields DEF HandleStarted
  <2>2. session' \in SessionState
    BY <1>0, <1>2, <2>1 DEF HandleStarted, SessionState
  <2>3. QED
    BY <1>0, <1>2, <2>1, <2>2 DEF HandleStarted, messages, ChannelTypes, EngineTypes
<1>3. CASE HandleExecute
  <2> DEFINE r == Head(events).round
             completed == IF session.completedRound = r THEN session.completed ELSE {}
             entered == [session EXCEPT !.completed = completed, !.completedRound = r,
                           !.activeRound = r, !.activeCalls = RoundCalls[r]]
  <2>1. r \in Rounds /\ Tail(events) \in Seq(Events)
    BY <1>a, <1>3, EventFields DEF HandleExecute
  <2>2. RoundCalls[r] \subseteq Calls /\ IsFiniteSet(RoundCalls[r])
    BY <2>1, RoundFacts
  <2>3. completed \subseteq Calls
    BY <1>0 DEF SessionState
  <2> HIDE DEF completed
  <2>4. entered \in SessionState
    BY <1>0, <2>1, <2>2, <2>3 DEF SessionState
  <2>5. ToStart(r, completed) \subseteq Executions
    BY <2>1, <2>2 DEF ToStart, Executions
  <2>6. CASE Detached(r)
    <3>1. session' = [entered EXCEPT !.interruptedRounds = @ \cup {r},
                                     !.interruptedCalls = @ \cup RoundCalls[r]]
      BY <1>3, <2>6 DEF HandleExecute, completed
    <3> HIDE DEF r, entered
    <3>2. session' \in SessionState
      BY <3>1, <2>1, <2>2, <2>4 DEF SessionState
    <3>3. QED
      BY <1>0, <1>3, <2>1, <2>6, <3>2 DEF HandleExecute, messages, ChannelTypes, EngineTypes, r
  <2>7. CASE ~ Detached(r)
    <3>1. PICK local \in SUBSET ToStart(r, completed) :
             /\ session' = [entered EXCEPT !.ready = SetToSeq({exec.call : exec \in local})]
             /\ running' = running \cup (ToStart(r, completed) \ local)
      BY <1>3, <2>7 DEF HandleExecute, completed
    <3>2. {exec.call : exec \in local} \in SUBSET RoundCalls[r]
      BY DEF ToStart
    <3>3. SetToSeq({exec.call : exec \in local}) \in Seq(Calls)
      BY <3>2, <2>2, FS_Subset, SetAsSequence
    <3>4. UNCHANGED <<engine, settled, inserted, commands, actions, results, answered,
                      messages, cancelled>> /\ events' = Tail(events)
      BY <1>3 DEF HandleExecute
    <3> HIDE DEF r, entered
    <3>5. session' \in SessionState
      BY <3>1, <3>3, <2>4 DEF SessionState
    <3>6. running' \subseteq Executions
      BY <1>0, <3>1, <2>5 DEF ChannelTypes
    <3>7. QED
      BY <1>0, <2>1, <3>4, <3>5, <3>6 DEF messages, ChannelTypes, EngineTypes
  <2>8. QED
    BY <2>6, <2>7
<1>4. CASE HandleResultCommit
  <2> DEFINE event == Head(events)
             noted == [session EXCEPT !.completed = @ \cup {event.call},
                         !.completions = IF event.interrupted THEN @ ELSE @ \ {event.call}]
  <2>1. event.call \in Calls /\ Tail(events) \in Seq(Events)
    BY <1>a, <1>4, EventFields DEF HandleResultCommit
  <2>2. noted \in SessionState
    BY <1>0, <2>1 DEF SessionState
  <2>3. CASE CommitError(event) # "none"
    <3>1. CommitError(event) \in {"no active round", "no typed state", "no completion barrier"}
      BY <2>3 DEF CommitError
    <3>2. session' \in SessionState
      <4>1. session' = [session EXCEPT !.status = "failed", !.error = CommitError(event)]
        BY <1>4, <2>3 DEF HandleResultCommit, SessionFails
      <4>2. QED
        BY ONLY <1>0, <3>1, <4>1 DEF SessionState
    <3>3. QED
      BY <1>0, <1>4, <2>1, <2>3, <3>2
         DEF HandleResultCommit, SessionFails, messages, ChannelTypes, EngineTypes
  <2>4. CASE CommitError(event) = "none"
    <3>0. /\ session' = IF SettledByNow THEN RoundOver(noted) ELSE noted
          /\ engine' = IF SettledByNow THEN [engine EXCEPT !.waiting = FALSE] ELSE engine
      BY <1>4, <2>4 DEF HandleResultCommit
    <3> HIDE DEF noted
    <3>1. session' \in SessionState
      <4>1. RoundOver(noted) \in SessionState
        BY ONLY <2>2, ZenonT(60) DEF RoundOver, SessionState
      <4>2. QED
        BY ONLY <2>2, <3>0, <4>1
    <3>2. EngineTypes'
      BY <1>0, <3>0 DEF EngineTypes, EngineState
    <3>3. QED
      BY <1>0, <1>4, <2>1, <2>4, <3>1, <3>2
         DEF HandleResultCommit, messages, ChannelTypes
  <2>5. QED
    BY <2>3, <2>4
<1>5. CASE HandleMessageCommit
  <2>1. Tail(events) \in Seq(Events)
    BY <1>a, <1>5 DEF HandleMessageCommit
  <2>2. session' \in SessionState
    BY <1>0, <1>5 DEF HandleMessageCommit, Undelivered, SessionState
  <2>3. EngineTypes'
    BY <1>0, <1>5 DEF HandleMessageCommit, EngineTypes, EngineState
  <2>4. QED
    BY <1>0, <1>5, <2>1, <2>2, <2>3 DEF HandleMessageCommit, messages, ChannelTypes
<1>6. CASE HandleFinal
  <2>1. Tail(events) \in Seq(Events)
    BY <1>a, <1>6 DEF HandleFinal
  <2>2. EngineTypes'
    BY <1>0, <1>6 DEF HandleFinal, EngineTypes, EngineState
  <2>3. QED
    BY <1>0, <1>6, <2>1, <2>2 DEF HandleFinal, messages, ChannelTypes
<1>7. CASE HandleEnded
  <2>1. Tail(events) \in Seq(Events)
    BY <1>a, <1>7 DEF HandleEnded
  <2>2. session' \in SessionState
    BY <1>0, <1>7 DEF HandleEnded, SessionState
  <2>3. QED
    BY <1>0, <1>7, <2>1, <2>2 DEF HandleEnded, messages, ChannelTypes, EngineTypes
<1>8. CASE HandleCompletion
  <2>1. ASSUME NEW c \in Calls, NEW now \in SessionState, Forward(c, now)
        PROVE  /\ session' \in SessionState /\ commands' \in Seq(Commands)
               /\ cancelled' \in BOOLEAN /\ running' \subseteq Executions
    <3>0. [type |-> "result", call |-> c] \in Commands /\ commands \in Seq(Commands)
      BY <1>0, CommandTypes DEF ChannelTypes
    <3>1. session' \in SessionState
      <4>1. CASE Dropped(c)
        BY <2>1, <4>1 DEF Forward
      <4>2. CASE ~ Dropped(c) /\ c \in session.completions
        <5>1. session' = [session EXCEPT !.status = "failed", !.error = "duplicate"]
          BY <2>1, <4>2 DEF Forward, SessionFails
        <5>2. QED
          BY <1>0, <5>1 DEF SessionState
      <4>3. CASE ~ Dropped(c) /\ c \notin session.completions
        <5>1. session' = now \/ session' = [now EXCEPT !.completions = @ \cup {c}]
          BY <2>1, <4>3 DEF Forward
        <5>2. now.completions \cup {c} \in SUBSET Calls
          BY <2>1 DEF SessionState
        <5>3. QED
          BY <2>1, <5>1, <5>2 DEF SessionState
      <4>4. QED
        BY <4>1, <4>2, <4>3
    <3>2. commands' \in Seq(Commands)
      <4>1. commands' = commands \/ commands' = Append(commands, [type |-> "result", call |-> c])
        BY <2>1 DEF Forward
      <4>2. QED
        BY <3>0, <4>1, Appended
    <3>3. cancelled' \in BOOLEAN /\ running' \subseteq Executions
      BY <1>0, <2>1 DEF Forward, SessionFails, ChannelTypes
    <3>4. QED
      BY <3>1, <3>2, <3>3
  <2>2. CASE session.ready # <<>>
    <3>1. Head(session.ready) \in Calls /\ Tail(session.ready) \in Seq(Calls)
      BY <1>0, <2>2, HeadTail
    <3>2. [session EXCEPT !.ready = Tail(@)] \in SessionState
      BY <1>0, <3>1 DEF SessionState
    <3>3. /\ Forward(Head(session.ready), [session EXCEPT !.ready = Tail(@)])
          /\ UNCHANGED <<results, engine, settled, inserted, events, actions, answered, messages>>
      BY <1>8, <2>2 DEF HandleCompletion
    <3>4. QED
      BY <1>0, <2>1, <3>1, <3>2, <3>3 DEF messages, ChannelTypes, EngineTypes
  <2>3. CASE session.ready = <<>>
    <3>0. results \in Seq(Calls) /\ results # <<>>
      BY <1>0, <1>8, <2>3 DEF ChannelTypes, HandleCompletion
    <3>1. Head(results) \in Calls /\ Tail(results) \in Seq(Calls)
      BY <3>0, HeadTail
    <3>2. /\ Forward(Head(results), session) /\ results' = Tail(results)
          /\ UNCHANGED <<engine, settled, inserted, events, actions, answered, messages>>
      BY <1>8, <2>3 DEF HandleCompletion
    <3>3. QED
      BY <1>0, <2>1, <3>1, <3>2 DEF messages, ChannelTypes, EngineTypes
  <2>4. QED
    BY <2>2, <2>3
<1>9. QED
  BY <1>1, <1>2, <1>3, <1>4, <1>5, <1>6, <1>7, <1>8 DEF SessionNext

LEMMA TypesStep ==
    ASSUME Types, [Next]_vars
    PROVE  Types'
<1>0. /\ EngineTypes /\ ChannelTypes /\ session \in SessionState
      /\ actions \in Seq(Sends) /\ commands \in Seq(Commands) /\ results \in Seq(Calls)
  BY DEF Types, EngineTypes, ChannelTypes
<1>1. ASSUME NEW s \in Sends, SendMessage(s)
      PROVE  Types'
  BY <1>0, <1>1 DEF SendMessage, Types, EngineTypes, ChannelTypes
<1>2. ASSUME NEW s \in Sends, Deliver(s)
      PROVE  Types'
  <2>0. commands' = commands \/ commands' = Append(commands, [type |-> "break", send |-> s])
    BY <1>2 DEF Deliver
  <2>1. commands' \in Seq(Commands)
    BY <1>0, <2>0, CommandTypes, Appended
  <2>2. queued' \subseteq Ids
    BY <1>0, <1>2 DEF Deliver, Refused, Ids, ChannelTypes
  <2>3. QED
    BY <1>0, <1>2, <2>1, <2>2 DEF Deliver, Types, EngineTypes, ChannelTypes
<1>3. ASSUME NEW exec \in running, ToolAnswers(exec)
      PROVE  Types'
  BY <1>0, <1>3 DEF ToolAnswers, messages, Types, EngineTypes, ChannelTypes
<1>4. ASSUME NEW exec \in answered, PassOnAnswer(exec)
      PROVE  Types'
  <2>1. exec.call \in Calls
    BY <1>0 DEF ChannelTypes, Executions
  <2>2. results' \in Seq(Calls)
    BY <1>0, <1>4, <2>1 DEF PassOnAnswer
  <2>3. QED
    BY <1>0, <1>4, <2>2 DEF PassOnAnswer, messages, Types, EngineTypes, ChannelTypes
<1>5. CASE Cancel
  BY <1>0, <1>5 DEF Cancel, channels, messages, Types, EngineTypes, ChannelTypes
<1>6. CASE UNCHANGED vars
  BY <1>0, <1>6 DEF vars, Types, EngineTypes, ChannelTypes
<1>7. QED
  BY <1>1, <1>2, <1>3, <1>4, <1>5, <1>6, TypesEngine, TypesSession DEF Next

-----------------------------------------------------------------------------
(* What a step does to the sets that are read off the sequences.            *)

LEMMA EventHandled ==
    ASSUME NEW seq \in Seq(Events), seq # <<>>
    PROVE  /\ MessageIds(seq) = MessageIds(Tail(seq))
                \cup (IF Head(seq).type = "message" THEN {Head(seq).id} ELSE {})
           /\ Committed(seq) = Committed(Tail(seq))
                \cup (IF Head(seq).type = "result" /\ ~ Head(seq).interrupted
                        THEN {Head(seq).call} ELSE {})
<1> DEFINE rest == Tail(seq)
           first == Head(seq)
<1>0. \A i \in DOMAIN seq : i # 1 => i - 1 \in DOMAIN rest /\ rest[i - 1] = seq[i]
  BY HeadTail
<1>2. \A j \in DOMAIN rest : \E i \in DOMAIN seq : rest[j] = seq[i]
  BY HeadTail
<1>3. first = seq[1] /\ 1 \in DOMAIN seq
  BY HeadTail
<1> HIDE DEF rest, first
<1>1. \A i \in DOMAIN seq : i = 1 \/ \E j \in DOMAIN rest : rest[j] = seq[i]
  BY <1>0
<1>4. MessageIds(seq) = MessageIds(rest) \cup (IF first.type = "message" THEN {first.id} ELSE {})
  BY <1>1, <1>2, <1>3 DEF MessageIds
<1>5. Committed(seq) = Committed(rest)
                \cup (IF first.type = "result" /\ ~ first.interrupted THEN {first.call} ELSE {})
  BY <1>1, <1>2, <1>3 DEF Committed, ResultAt
<1>6. QED
  BY <1>4, <1>5 DEF rest, first

LEMMA EventEmitted ==
    ASSUME NEW seq \in Seq(Events), NEW event \in Events
    PROVE  /\ MessageIds(Append(seq, event)) = MessageIds(seq)
                \cup (IF event.type = "message" THEN {event.id} ELSE {})
           /\ Committed(Append(seq, event)) = Committed(seq)
                \cup (IF event.type = "result" /\ ~ event.interrupted THEN {event.call} ELSE {})
<1> DEFINE longer == Append(seq, event)
<1>1. \A i \in DOMAIN seq : i \in DOMAIN longer /\ longer[i] = seq[i]
  BY Appended
<1>2. \A i \in DOMAIN longer : i \in DOMAIN seq \/ i = Len(seq) + 1
  BY Appended
<1>3. Len(seq) + 1 \in DOMAIN longer /\ longer[Len(seq) + 1] = event
  BY Appended
<1> HIDE DEF longer
<1>4. MessageIds(longer) = MessageIds(seq)
                \cup (IF event.type = "message" THEN {event.id} ELSE {})
  BY <1>1, <1>2, <1>3 DEF MessageIds
<1>5. Committed(longer) = Committed(seq)
                \cup (IF event.type = "result" /\ ~ event.interrupted THEN {event.call} ELSE {})
  BY <1>1, <1>2, <1>3 DEF Committed, ResultAt
<1>6. QED
  BY <1>4, <1>5 DEF longer

LEMMA CommandTaken ==
    ASSUME Types, commands # <<>>, commands' = Tail(commands)
    PROVE  /\ Accepted = Accepted'
                \cup (IF Head(commands).type = "break" THEN {Head(commands).send} ELSE {})
           /\ Forwarded = Forwarded'
                \cup (IF Head(commands).type = "result" THEN {Head(commands).call} ELSE {})
<1> DEFINE first == Head(commands)
<1>0. commands \in Seq(Commands)
  BY DEF Types
<1>1. \A i \in DOMAIN commands : i = 1 \/ \E j \in DOMAIN commands' : commands'[j] = commands[i]
  BY <1>0, HeadTail, ZenonT(60)
<1>2. \A j \in DOMAIN commands' : \E i \in DOMAIN commands : commands'[j] = commands[i]
  BY <1>0, HeadTail
<1>3. first = commands[1] /\ 1 \in DOMAIN commands
  BY <1>0, HeadTail
<1> HIDE DEF first
<1>4. Accepted = Accepted' \cup (IF first.type = "break" THEN {first.send} ELSE {})
  BY <1>1, <1>2, <1>3 DEF Accepted, BreakAt
<1>5. Forwarded = Forwarded' \cup (IF first.type = "result" THEN {first.call} ELSE {})
  BY <1>1, <1>2, <1>3 DEF Forwarded
<1>6. QED
  BY <1>4, <1>5 DEF first

LEMMA CommandSent ==
    ASSUME Types, NEW command \in Commands, commands' = Append(commands, command)
    PROVE  /\ Accepted' = Accepted
                \cup (IF command.type = "break" THEN {command.send} ELSE {})
           /\ Forwarded' = Forwarded
                \cup (IF command.type = "result" THEN {command.call} ELSE {})
<1>0. commands \in Seq(Commands)
  BY DEF Types
<1>1. \A i \in DOMAIN commands : i \in DOMAIN commands' /\ commands'[i] = commands[i]
  BY <1>0, Appended
<1>2. \A i \in DOMAIN commands' : i \in DOMAIN commands \/ i = Len(commands) + 1
  BY <1>0, Appended
<1>3. Len(commands) + 1 \in DOMAIN commands' /\ commands'[Len(commands) + 1] = command
  BY <1>0, Appended
<1>4. Accepted' = Accepted \cup (IF command.type = "break" THEN {command.send} ELSE {})
  BY <1>1, <1>2, <1>3 DEF Accepted, BreakAt
<1>5. Forwarded' = Forwarded \cup (IF command.type = "result" THEN {command.call} ELSE {})
  BY <1>1, <1>2, <1>3 DEF Forwarded
<1>6. QED
  BY <1>4, <1>5

LEMMA NothingInEmpty ==
    /\ MessageIds(<<>>) = {} /\ Committed(<<>>) = {}
    /\ commands = <<>> => BreakAt = {} /\ Accepted = {} /\ Forwarded = {}
BY DEF MessageIds, Committed, ResultAt, BreakAt, Accepted, Forwarded

\* The script of an interruption announces its message and no tool's own result.
LEMMA InterruptionScript ==
    ASSUME Types, NEW s \in Sends, NEW script, script = Interruptions \o <<Message(s)>>
    PROVE  /\ script \in Seq(Events)
           /\ MessageIds(script) = {MessageId[s]} /\ Committed(script) = {}
           /\ Len(script) \in Nat \ {0} /\ DOMAIN script = 1..Len(script)
           /\ script[Len(script)] = Message(s)
           /\ \A i \in DOMAIN script : i < Len(script) =>
                /\ script[i].type = "result" /\ script[i].interrupted
                /\ script[i].call \in engine.awaited
                /\ script[i].barrier <=> i = Len(script) - 1
           /\ engine.awaited = {} <=> Len(script) = 1
<1> DEFINE n == Len(Interruptions)
<1>1. Interruptions \in Seq(Events) /\ Message(s) \in Events
  BY InterruptionsFacts, EventTypes
<1>2. n \in Nat /\ DOMAIN Interruptions = 1..n
  BY <1>1
<1>3. /\ script \in Seq(Events) /\ Len(script) = n + 1 /\ DOMAIN script = 1..(n + 1)
      /\ \A i \in 1..n : script[i] = Interruptions[i]
      /\ script[n + 1] = Message(s)
  BY <1>1, <1>2
<1>4. \A i \in 1..n :
        /\ script[i].type = "result" /\ script[i].interrupted
        /\ script[i].call \in engine.awaited
        /\ script[i].barrier <=> i = n
  BY <1>2, <1>3, InterruptionsFacts
<1>5. Message(s).type = "message" /\ Message(s).id = MessageId[s]
  BY DEF Message
<1>6. engine.awaited = {} <=> n = 0
  BY <1>1, InterruptionsFacts
<1> HIDE DEF n
<1>a. /\ \A i \in DOMAIN script : i \in 1..n \/ i = n + 1
      /\ n + 1 \in DOMAIN script /\ Len(script) \in Nat \ {0}
  BY <1>2, <1>3
<1>7. MessageIds(script) = {MessageId[s]}
  <2>1. \A i \in DOMAIN script : script[i].type = "message" <=> i = n + 1
    BY <1>2, <1>3, <1>4, <1>5, <1>a
  <2>2. script[n + 1].id = MessageId[s]
    BY <1>3, <1>5
  <2>3. QED
    BY <1>a, <2>1, <2>2 DEF MessageIds
<1>8. Committed(script) = {}
  BY <1>2, <1>3, <1>4, <1>5 DEF Committed, ResultAt
<1>9. \A i \in DOMAIN script : i < Len(script) => i \in 1..n /\ (i = Len(script) - 1 <=> i = n)
  BY <1>2, <1>3
<1>10. \A i \in DOMAIN script : i < Len(script) =>
         /\ script[i].type = "result" /\ script[i].interrupted
         /\ script[i].call \in engine.awaited
         /\ script[i].barrier <=> i = Len(script) - 1
  BY <1>4, <1>9
<1>11. engine.awaited = {} <=> Len(script) = 1
  BY <1>2, <1>3, <1>6
<1>12. script[Len(script)] = Message(s)
  BY <1>3
<1>13. QED
  BY <1>3, <1>a, <1>7, <1>8, <1>10, <1>11, <1>12

\* The script of a drain announces the messages that were accepted.
LEMMA DrainScript ==
    ASSUME Types, NEW order \in [1..Cardinality(BreakAt) -> BreakAt], Range(order) = BreakAt,
           \A i, j \in DOMAIN order : i < j => order[i] < order[j],
           NEW script, script = [i \in DOMAIN order |-> Message(commands[order[i]].send)]
    PROVE  /\ script \in Seq(Events) /\ DOMAIN script = DOMAIN order
           /\ \A i \in DOMAIN script :
                /\ i \in Nat /\ order[i] \in BreakAt
                /\ script[i].type = "message" /\ script[i].id = MessageId[commands[order[i]].send]
           /\ \A i, j \in DOMAIN script : order[i] = order[j] => i = j
           /\ MessageIds(script) = {MessageId[s] : s \in Accepted} /\ Committed(script) = {}
<1> DEFINE n == Cardinality(BreakAt)
<1>1. n \in Nat /\ BreakAt \subseteq Nat
  BY BreaksFacts
<1>2. \A i \in BreakAt : commands[i].send \in Accepted /\ Accepted \subseteq Sends
  BY BreaksFacts DEF Accepted
<1>3. \A i \in 1..n : order[i] \in BreakAt /\ Message(commands[order[i]].send) \in Events
  BY <1>2, EventTypes
<1> HIDE DEF n
<1>4. script \in [1..n -> Events] /\ DOMAIN script = DOMAIN order /\ DOMAIN order = 1..n
  BY <1>3 DEF n
<1>5. script \in Seq(Events)
  BY <1>1, <1>4
<1>6. \A i \in DOMAIN script :
        /\ i \in Nat /\ order[i] \in BreakAt
        /\ script[i].type = "message" /\ script[i].id = MessageId[commands[order[i]].send]
  BY <1>1, <1>3, <1>4 DEF Message
<1>7. \A i, j \in DOMAIN script : order[i] = order[j] => i = j
  <2> SUFFICES ASSUME NEW i \in DOMAIN script, NEW j \in DOMAIN script, i < j
               PROVE  order[i] # order[j]
    BY <1>6
  <2>1. order[i] < order[j] /\ order[i] \in Nat /\ order[j] \in Nat
    BY <1>1, <1>4, <1>6
  <2>2. QED
    BY <2>1
<1>8. MessageIds(script) = {MessageId[s] : s \in Accepted}
  <2>1. \A i \in DOMAIN script : commands[order[i]].send \in Accepted
    BY <1>2, <1>6
  <2>2. \A k \in BreakAt : \E i \in DOMAIN script : order[i] = k
    BY <1>4 DEF Range
  <2>3. \A s \in Accepted : \E i \in DOMAIN script : commands[order[i]].send = s
    BY <2>2 DEF Accepted
  <2>4. QED
    BY <1>6, <2>1, <2>3 DEF MessageIds
<1>9. Committed(script) = {}
  BY <1>6 DEF Committed, ResultAt
<1>10. QED
  BY <1>4, <1>5, <1>6, <1>7, <1>8, <1>9

-----------------------------------------------------------------------------
(* Messages are kept.                                                       *)

\* What a message the session took is worth: it is in one of these places.
Safe(id) ==
    \/ id \in inserted \cup queued \cup engine.batches
    \/ \E s \in delivering \cup Accepted : MessageId[s] = id

LEMMA KeptInit == Init => Kept
BY NothingInEmpty DEF Init, Kept, MessagesAreKept

LEMMA KeptEngine ==
    ASSUME Types, Kept, EngineNext
    PROVE  Kept'
<1>0. /\ engine \in EngineState /\ engine.script \in Seq(Events) /\ commands \in Seq(Commands)
      /\ events \in Seq(Events) /\ engine.batches \subseteq inserted \cup MessageIds(engine.script)
      /\ \A id \in session.seen : Safe(id)
      /\ MessageIds(events) \subseteq inserted /\ (engine.pc = "ending" => engine.script = <<>>)
      /\ engine.pc # "round" => engine.awaited = {}
  BY DEF Types, Kept, EngineState, MessagesAreKept, Safe
<1> SUFFICES /\ \A id \in session'.seen : Safe(id)'
             /\ engine'.batches \subseteq inserted' \cup MessageIds(engine'.script)
             /\ MessageIds(events') \subseteq inserted'
             /\ engine'.pc = "ending" => engine'.script = <<>>
             /\ engine'.pc # "round" => engine'.awaited = {}
  BY DEF Kept, MessagesAreKept, Safe
<1>e. ASSUME engine.script = <<>> PROVE engine.batches \subseteq inserted
  BY <1>0, <1>e, NothingInEmpty
<1>c. ASSUME UNCHANGED commands PROVE Accepted' = Accepted
  BY <1>c DEF Accepted, BreakAt
<1>1. CASE ModelCallsTools \/ ModelEndsTurn \/ EngineContinues
  <2>1. /\ engine.script = <<>> /\ engine'.batches = engine.batches
        /\ engine'.pc = "ending" => engine'.script = engine.script
        /\ engine'.pc # "round" => engine'.awaited = {}
        /\ UNCHANGED <<inserted, queued, delivering, commands, events, session>>
    BY <1>0, <1>1 DEF ModelCallsTools, ModelEndsTurn, EngineContinues, Listening, channels,
       messages, EngineState
  <2>2. QED
    BY <1>0, <1>e, <1>c, <2>1 DEF Safe
<1>2. CASE DrainAccepted
  <2>1. PICK order \in [1..Cardinality(BreakAt) -> BreakAt] :
         /\ Range(order) = BreakAt
         /\ \A i, j \in DOMAIN order : i < j => order[i] < order[j]
         /\ engine' = [engine EXCEPT
                         !.pc = IF BreakAt = {} THEN "final" ELSE "closing",
                         !.batches = {MessageId[s] : s \in Accepted},
                         !.script = IF BreakAt = {} THEN <<Final>>
                                    ELSE [i \in DOMAIN order |-> Message(commands[order[i]].send)]]
    BY <1>2 DEF DrainAccepted
  <2> DEFINE drained == [i \in DOMAIN order |-> Message(commands[order[i]].send)]
  <2>2. MessageIds(drained) = {MessageId[s] : s \in Accepted}
    BY <2>1, DrainScript
  <2> HIDE DEF drained
  <2>3. /\ engine'.batches = {MessageId[s] : s \in Accepted} /\ engine'.pc # "ending"
        /\ engine'.awaited = {}
        /\ engine'.script = IF BreakAt = {} THEN <<Final>> ELSE drained
    BY <1>0, <1>2, <2>1 DEF EngineState, DrainAccepted, drained
  <2>4. BreakAt = {} => Accepted = {}
    BY DEF Accepted
  <2>5. engine.batches \subseteq inserted
    BY <1>0, <1>2, <1>e DEF DrainAccepted
  <2>6. UNCHANGED <<inserted, queued, delivering, events, session>>
    BY <1>2 DEF DrainAccepted, messages
  <2>7. QED
    BY <1>0, <2>2, <2>3, <2>4, <2>5, <2>6 DEF Safe
<1>3. CASE EngineEmits
  <2> DEFINE event == Head(engine.script)
  <2>1. /\ engine.script # <<>> /\ event \in Events
    BY <1>0, <1>3, HeadTail DEF EngineEmits
  <2>2. /\ engine'.script = Tail(engine.script) /\ UNCHANGED <<queued, delivering, commands, session>>
        /\ engine'.batches = engine.batches /\ engine'.pc = engine.pc
        /\ engine.pc # "round" => engine'.awaited = {}
        /\ events' = Append(events, event)
        /\ inserted' = IF event.type = "message" THEN inserted \cup {event.id} ELSE inserted
    BY <1>0, <1>3 DEF EngineEmits, messages, EngineState
  <2>3. MessageIds(engine.script) = MessageIds(engine'.script)
                \cup (IF event.type = "message" THEN {event.id} ELSE {})
    BY <1>0, <2>1, <2>2, EventHandled
  <2>4. MessageIds(events') = MessageIds(events)
                \cup (IF event.type = "message" THEN {event.id} ELSE {})
    BY <1>0, <2>1, <2>2, EventEmitted
  <2>5. engine.pc # "ending"
    BY <1>0, <2>1
  <2> HIDE DEF event
  <2>6. QED
    BY <1>0, <1>c, <2>2, <2>3, <2>4, <2>5 DEF Safe
<1>4. CASE EngineSkipsMessage
  <2> DEFINE event == Head(engine.script)
  <2>1. engine.script # <<>> /\ event.type = "message" /\ event.id \in inserted
    BY <1>4 DEF EngineSkipsMessage
  <2>2. /\ engine'.script = Tail(engine.script)
        /\ UNCHANGED <<inserted, queued, delivering, commands, events, session>>
        /\ engine'.batches = engine.batches \ {event.id} /\ engine'.pc = engine.pc
        /\ engine.pc # "round" => engine'.awaited = {}
    BY <1>0, <1>4 DEF EngineSkipsMessage, messages, channels, EngineState
  <2>3. MessageIds(engine.script) = MessageIds(engine'.script) \cup {event.id}
    BY <1>0, <2>1, <2>2, EventHandled
  <2> HIDE DEF event
  <2>4. QED
    BY <1>0, <1>c, <2>1, <2>2, <2>3 DEF Safe
<1>5. CASE TakeResult
  <2>1. /\ engine.script = <<>> /\ commands # <<>> /\ Head(commands).type = "result"
        /\ commands' = Tail(commands) /\ engine.pc = "round"
        /\ UNCHANGED <<inserted, queued, delivering, events, session>>
        /\ engine'.batches = engine.batches /\ engine'.pc = engine.pc
        /\ engine.pc # "round" => engine'.awaited = {}
    BY <1>0, <1>5 DEF TakeResult, Receives, Listening, messages, EngineState
  <2>2. Accepted' = Accepted
    BY <2>1, CommandTaken
  <2>3. QED
    BY <1>0, <1>e, <2>1, <2>2 DEF Safe
<1>6. CASE TakeBreak
  <2> DEFINE s == Head(commands).send
             script == Interruptions \o <<Message(s)>>
  <2>1. /\ engine.script = <<>> /\ commands # <<>> /\ Head(commands).type = "break"
        /\ commands' = Tail(commands)
        /\ UNCHANGED <<inserted, queued, delivering, events, session>>
        /\ engine'.batches = {MessageId[s]} /\ engine'.pc = engine.pc
        /\ engine.pc # "round" => engine'.awaited = {}
        /\ engine'.script = script
    BY <1>0, <1>6 DEF TakeBreak, Receives, Listening, messages, EngineState
  <2>2. Accepted = Accepted' \cup {s} /\ s \in Sends
    BY <2>1, CommandTaken, BreaksFacts
  <2>3. MessageIds(script) = {MessageId[s]}
    BY <2>2, InterruptionScript
  <2>4. engine.pc # "ending"
    BY <1>0, <1>6 DEF TakeBreak, Receives
  <2> HIDE DEF s, script
  <2>5. QED
    BY <1>0, <1>e, <2>1, <2>2, <2>3, <2>4 DEF Safe
<1>7. ASSUME NEW outcome, End(outcome)
      PROVE  /\ \A id \in session'.seen : Safe(id)'
             /\ engine'.batches \subseteq inserted' \cup MessageIds(engine'.script)
             /\ MessageIds(events') \subseteq inserted'
             /\ engine'.pc = "ending" => engine'.script = <<>>
             /\ engine'.pc # "round" => engine'.awaited = {}
  <2>1. /\ engine'.batches = {} /\ engine'.pc = "ended" /\ engine'.awaited = {}
        /\ queued' = queued \cup engine.batches \cup {MessageId[s] : s \in Accepted}
        /\ events' = Append(events, [type |-> "ended"])
        /\ UNCHANGED <<inserted, delivering, session>>
    BY <1>0, <1>7 DEF End, EngineState
  <2>2. MessageIds(events') = MessageIds(events)
    <3> DEFINE ended == [type |-> "ended"]
    <3>1. ended \in Events /\ ended.type = "ended"
      BY EventTypes
    <3> HIDE DEF ended
    <3>2. MessageIds(Append(events, ended)) = MessageIds(events)
      BY <1>0, <3>1, EventEmitted
    <3>3. QED
      BY <2>1, <3>2 DEF ended
  <2>3. QED
    BY <1>0, <2>1, <2>2 DEF Safe
<1>8. QED
  BY <1>1, <1>2, <1>3, <1>4, <1>5, <1>6, <1>7
     DEF EngineNext, EngineCompletes, EngineCancelled, EngineFails

LEMMA KeptStep ==
    ASSUME Types, Kept, [Next]_vars
    PROVE  Kept'
<1>0. /\ engine \in EngineState /\ commands \in Seq(Commands) /\ events \in Seq(Events)
      /\ engine.batches \subseteq inserted \cup MessageIds(engine.script)
      /\ \A id \in session.seen : Safe(id)
      /\ MessageIds(events) \subseteq inserted /\ (engine.pc = "ending" => engine.script = <<>>)
      /\ engine.pc # "round" => engine.awaited = {}
      /\ session \in SessionState
  BY DEF Types, Kept, MessagesAreKept, Safe
<1> DEFINE Goal ==
             /\ \A id \in session'.seen : Safe(id)'
             /\ engine'.batches \subseteq inserted' \cup MessageIds(engine'.script)
             /\ MessageIds(events') \subseteq inserted'
             /\ engine'.pc = "ending" => engine'.script = <<>>
             /\ engine'.pc # "round" => engine'.awaited = {}
<1>g. Goal => Kept'
  BY DEF Kept, MessagesAreKept, Safe
<1>c. ASSUME UNCHANGED commands PROVE Accepted' = Accepted
  BY <1>c DEF Accepted, BreakAt
\* Steps that leave the messages where they are.
<1>k. ASSUME UNCHANGED <<engine, inserted, delivering, queued, commands, events>>,
             session'.seen = session.seen
      PROVE  Goal
  BY <1>0, <1>c, <1>k DEF Safe
\* Steps in which the session takes an event.
<1>h. ASSUME NEW type, MayHandle(type), events' = Tail(events),
             UNCHANGED <<inserted, delivering, queued, commands>>,
             session'.seen = session.seen,
             /\ engine'.pc = engine.pc /\ engine'.script = engine.script
             /\ engine'.awaited = engine.awaited,
             \/ engine'.batches = engine.batches
             \/ type = "message" /\ engine'.batches = engine.batches \ {Head(events).id}
      PROVE  Goal
  <2>1. events # <<>> /\ Head(events).type = type
    BY <1>h DEF MayHandle
  <2>2. MessageIds(events) = MessageIds(events')
                \cup (IF Head(events).type = "message" THEN {Head(events).id} ELSE {})
    BY <1>0, <1>h, <2>1, EventHandled
  <2>3. type = "message" => Head(events).id \in inserted
    BY <1>0, <2>1, <2>2
  <2>4. QED
    BY <1>0, <1>c, <1>h, <2>2, <2>3 DEF Safe
<1> HIDE DEF Goal
<1>1. CASE EngineNext
  BY <1>1, KeptEngine
<1>2. CASE HandleAction
  <2> DEFINE s == Head(actions)
  <2>1. /\ session'.seen = session.seen \cup {MessageId[s]} /\ delivering' = delivering \cup {s}
        /\ UNCHANGED <<engine, inserted, queued, commands, events>>
    BY <1>0, <1>2 DEF HandleAction, SessionState
  <2> HIDE DEF s
  <2>2. QED
    BY <1>0, <1>c, <1>g, <2>1 DEF Goal, Safe
<1>3. CASE HandleStarted
  <2>1. session'.seen = session.seen
    BY <1>0, <1>3 DEF HandleStarted, SessionState
  <2>2. QED
    BY <1>3, <1>g, <1>h, <2>1 DEF HandleStarted, messages
<1>4. CASE HandleExecute
  <2>1. session'.seen = session.seen
    BY <1>0, <1>4, ZenonT(60) DEF HandleExecute, SessionState
  <2>2. QED
    BY <1>4, <1>g, <1>h, <2>1 DEF HandleExecute, messages
<1>5. CASE HandleResultCommit
  <2>1. session'.seen = session.seen
    BY <1>0, <1>5 DEF HandleResultCommit, SessionFails, RoundOver, SessionState
  <2>2. /\ engine'.pc = engine.pc /\ engine'.script = engine.script
        /\ engine'.awaited = engine.awaited /\ engine'.batches = engine.batches
    BY <1>0, <1>5 DEF HandleResultCommit, EngineState
  <2>3. QED
    BY <1>5, <1>g, <1>h, <2>1, <2>2 DEF HandleResultCommit, messages
<1>6. CASE HandleMessageCommit
  <2>1. session'.seen = session.seen
    BY <1>0, <1>6 DEF HandleMessageCommit, SessionState
  <2>2. /\ engine'.pc = engine.pc /\ engine'.script = engine.script
        /\ engine'.awaited = engine.awaited
        /\ engine'.batches = engine.batches \ {Head(events).id}
    BY <1>0, <1>6 DEF HandleMessageCommit, EngineState
  <2>3. QED
    BY <1>6, <1>g, <1>h, <2>1, <2>2 DEF HandleMessageCommit, messages
<1>7. CASE HandleFinal
  <2>1. /\ engine'.pc = engine.pc /\ engine'.script = engine.script
        /\ engine'.awaited = engine.awaited /\ engine'.batches = engine.batches
    BY <1>0, <1>7 DEF HandleFinal, EngineState
  <2>2. QED
    BY <1>7, <1>g, <1>h, <2>1 DEF HandleFinal, messages
<1>8. CASE HandleEnded
  <2>1. session'.seen = session.seen
    BY <1>0, <1>8 DEF HandleEnded, SessionState
  <2>2. QED
    BY <1>8, <1>g, <1>h, <2>1 DEF HandleEnded, messages
<1>9. CASE HandleCompletion
  <2>1. UNCHANGED <<engine, inserted, delivering, queued, events>>
    BY <1>9 DEF HandleCompletion, messages
  <2>2. PICK c \in Calls, now \in SessionState : Forward(c, now) /\ now.seen = session.seen
    <3>1. CASE session.ready # <<>>
      <4>1. Head(session.ready) \in Calls /\ Tail(session.ready) \in Seq(Calls)
        BY <1>0, <3>1, HeadTail DEF SessionState
      <4>2. /\ [session EXCEPT !.ready = Tail(@)] \in SessionState
            /\ [session EXCEPT !.ready = Tail(@)].seen = session.seen
        BY <1>0, <4>1 DEF SessionState
      <4>3. Forward(Head(session.ready), [session EXCEPT !.ready = Tail(@)])
        BY <1>9, <3>1 DEF HandleCompletion
      <4>4. QED
        BY <4>1, <4>2, <4>3
    <3>2. CASE session.ready = <<>>
      <4>1. results \in Seq(Calls) /\ results # <<>> /\ Forward(Head(results), session)
        BY <1>9, <3>2 DEF HandleCompletion, Types
      <4>2. Head(results) \in Calls
        BY <4>1, HeadTail
      <4>3. QED
        BY <1>0, <4>1, <4>2
    <3>3. QED
      BY <3>1, <3>2
  <2>3. session'.seen = session.seen
    BY <1>0, <2>2 DEF Forward, SessionFails, SessionState
  <2>4. Accepted' = Accepted
    <3> DEFINE command == [type |-> "result", call |-> c]
    <3>1. command \in Commands /\ command.type = "result"
      BY CommandTypes
    <3>2. commands' = commands \/ commands' = Append(commands, command)
      BY <2>2 DEF Forward
    <3> HIDE DEF command
    <3>3. QED
      BY <1>c, <3>1, <3>2, CommandSent
  <2>5. QED
    BY <1>0, <1>g, <2>1, <2>3, <2>4 DEF Goal, Safe
<1>10. ASSUME NEW s \in Sends, SendMessage(s)
       PROVE  Kept'
  BY <1>10, <1>g, <1>k DEF SendMessage
<1>11. ASSUME NEW s \in Sends, Deliver(s)
       PROVE  Kept'
  <2>1. /\ delivering' = delivering \ {s}
        /\ UNCHANGED <<engine, inserted, events, session>>
    BY <1>11 DEF Deliver
  <2>2. \/ queued' = queued \cup {MessageId[s]} /\ UNCHANGED commands
        \/ commands' = Append(commands, [type |-> "break", send |-> s]) /\ UNCHANGED queued
    BY <1>11 DEF Deliver, Refused
  <2>3. \/ queued' = queued \cup {MessageId[s]} /\ Accepted' = Accepted
        \/ Accepted' = Accepted \cup {s} /\ UNCHANGED queued
    <3> DEFINE command == [type |-> "break", send |-> s]
    <3>1. command \in Commands /\ command.type = "break" /\ command.send = s
      BY CommandTypes
    <3> HIDE DEF command
    <3>2. commands' = Append(commands, command) => Accepted' = Accepted \cup {s}
      BY <3>1, CommandSent
    <3>3. QED
      BY <1>c, <2>2, <3>2 DEF command
  <2>4. QED
    BY <1>0, <1>g, <2>1, <2>3 DEF Goal, Safe
<1>12. ASSUME NEW exec \in running, ToolAnswers(exec)
       PROVE  Kept'
  BY <1>12, <1>g, <1>k DEF ToolAnswers, messages
<1>13. ASSUME NEW exec \in answered, PassOnAnswer(exec)
       PROVE  Kept'
  BY <1>13, <1>g, <1>k DEF PassOnAnswer, messages
<1>14. CASE Cancel
  BY <1>14, <1>g, <1>k DEF Cancel, channels, messages
<1>15. CASE UNCHANGED vars
  BY <1>15, <1>g, <1>k DEF vars
<1>16. QED
  BY <1>1, <1>2, <1>3, <1>4, <1>5, <1>6, <1>7, <1>8, <1>9, <1>10, <1>11, <1>12, <1>13,
     <1>14, <1>15 DEF Next, SessionNext

\* The states of engine, session and channels are of their types.
THEOREM TypesTheorem == Spec => []Types
<1>1. Init => Types
  BY TypesInit
<1>2. Types /\ [Next]_vars => Types'
  BY TypesStep
<1>3. QED
  BY <1>1, <1>2, PTL DEF Spec

\* A message the session took is on its way, in the history or left to the next
\* run, however the run ends and whatever interrupts it (MessagesAreKept).
THEOREM MessagesAreKeptTheorem == Spec => []MessagesAreKept
<1>1. Init => Types /\ Kept
  BY TypesInit, KeptInit
<1>2. Types /\ Kept /\ [Next]_vars => Types' /\ Kept'
  BY TypesStep, KeptStep
<1>3. Kept => MessagesAreKept
  BY DEF Kept
<1>4. QED
  BY <1>1, <1>2, <1>3, PTL DEF Spec

-----------------------------------------------------------------------------
(* The order of what the engine emits.                                      *)

\* Between rounds, when the engine waits at no barrier, nothing is on its way to
\* the session and the session works at no round.
LEMMA Idle ==
    ASSUME Types, Ordered, engine.pc # "ended", ~ engine.waiting, Over
    PROVE  events = <<>> /\ (session.status = "open" => session.activeRound = NoRound)
<1>0. events \in Seq(Events)
  BY DEF Types
<1>1. \A i \in DOMAIN events : ~ HasBarrier(events[i]) /\ EventAt(i) /\ events[i] \in Events
  BY <1>0 DEF Ordered, Phases, EventOrder
<1>2. ~ BarrierAhead
  BY <1>1 DEF BarrierAhead, HasBarrier, IsBarrierResult
<1>3. \A i \in DOMAIN events : FALSE
  BY <1>1, <1>2, EventFields DEF EventAt, HasBarrier
<1>4. events = <<>>
  BY <1>0, <1>3
<1>5. QED
  BY <1>2, <1>4 DEF Ordered, RoundsAgree

\* When the engine is about to insert a message, it inserts messages only.
LEMMA MessagesLeft ==
    ASSUME Types, Ordered, engine.script # <<>>, Head(engine.script).type = "message"
    PROVE  Over /\ \A i \in DOMAIN engine.script : engine.script[i].type = "message"
<1>0. engine.script \in Seq(Events)
  BY DEF Types, EngineState
<1>1. /\ 1 \in DOMAIN engine.script /\ engine.script[1].type = "message"
      /\ \A i \in DOMAIN engine.script : i \in Nat \ {0} /\ engine.script[i] \in Events
  BY <1>0, HeadTail
<1>2. \A i \in DOMAIN engine.script : ScriptAt(i)
  BY DEF Ordered, ScriptOrder
<1>3. Over
  BY <1>1, <1>2 DEF ScriptAt
<1>4. engine.script # <<Final>>
  BY <1>1 DEF Final
<1>5. \A i \in DOMAIN engine.script : engine.script[i].type = "message"
  BY <1>1, <1>2, <1>3, <1>4, EventFields DEF ScriptAt
<1>6. QED
  BY <1>3, <1>5

LEMMA OrderedInit == Init => Ordered
<1> SUFFICES ASSUME Init PROVE Ordered
  OBVIOUS
<1>1. /\ engine.script = <<>> /\ events = <<>> /\ settled = {} /\ engine.round = NoRound
      /\ engine.pc = "model" /\ engine.awaited = {} /\ session.activeRound = NoRound
      /\ session.activeCalls = {}
  BY DEF Init
<1>2. QED
  BY <1>1 DEF Ordered, ScriptOrder, Phases, EventOrder, RoundsAgree, Over

\* The engine emits the next event of its script.
LEMMA OrderedEmits ==
    ASSUME Types, Ordered, EngineEmits
    PROVE  Ordered'
<1> DEFINE event == Head(engine.script)
           r == engine.round
<1>0. /\ engine \in EngineState /\ engine.script \in Seq(Events) /\ events \in Seq(Events)
      /\ engine.script # <<>> /\ ~ engine.waiting /\ engine.round \in Rounds \cup {NoRound}
  BY DEF Types, EngineState, EngineEmits
<1>1. /\ event \in Events /\ event = engine.script[1] /\ 1 \in DOMAIN engine.script
      /\ \A i \in DOMAIN Tail(engine.script) :
           /\ i \in Nat \ {0} /\ i + 1 \in DOMAIN engine.script
           /\ Tail(engine.script)[i] = engine.script[i + 1]
  BY <1>0, HeadTail
<1>2. /\ engine'.script = Tail(engine.script) /\ events' = Append(events, event)
      /\ engine'.pc = engine.pc /\ engine'.round = r /\ engine'.awaited = engine.awaited
      /\ engine'.waiting = HasBarrier(event)
      /\ settled' = IF event.type = "result" /\ event.barrier THEN settled \cup {r} ELSE settled
      /\ UNCHANGED session
  BY <1>0 DEF EngineEmits, EngineState
<1>3. /\ \A i \in DOMAIN events :
           /\ i \in Nat \ {0} /\ i <= Len(events)
           /\ i \in DOMAIN events' /\ events'[i] = events[i]
      /\ \A i \in DOMAIN events' : i \in DOMAIN events \/ i = Len(events) + 1
      /\ Len(events) + 1 \in DOMAIN events' /\ events'[Len(events) + 1] = event
      /\ Len(events') = Len(events) + 1 /\ Len(events) \in Nat
  BY <1>0, <1>1, <1>2, Appended
<1>4. ScriptAt(1) /\ \A i \in DOMAIN engine.script : ScriptAt(i)
  BY <1>1 DEF Ordered, ScriptOrder
<1>5. engine.pc # "ended"
  BY <1>0 DEF Ordered, Phases
<1>6. Phases /\ RoundsAgree /\ EventOrder
  BY DEF Ordered
<1>7. CASE event.type \in {"started", "execute"}
  <2>1. /\ engine.pc = "round" /\ ~ Over /\ engine.awaited = RoundCalls[r]
        /\ \/ engine.script = <<Started(r), Execute(r)>> /\ events = <<>>
           \/ engine.script = <<Execute(r)>> /\ events \in {<<>>, <<Started(r)>>}
    BY <1>1, <1>4, <1>7 DEF ScriptAt
  <2>2. ~ Over' /\ UNCHANGED settled /\ r # NoRound /\ r \in Rounds
    BY <1>0, <1>2, <1>7, <2>1 DEF Over
  <2>3. \/ /\ engine.script = <<Started(r), Execute(r)>> /\ events = <<>>
           /\ engine'.script = <<Execute(r)>> /\ events' = <<Started(r)>>
        \/ /\ engine.script = <<Execute(r)>> /\ events = <<>>
           /\ engine'.script = <<>> /\ events' = <<Execute(r)>>
        \/ /\ engine.script = <<Execute(r)>> /\ events = <<Started(r)>>
           /\ engine'.script = <<>> /\ events' = <<Started(r), Execute(r)>>
    <3> DEFINE a == Started(r)
               b == Execute(r)
    <3>1. a \in Events /\ b \in Events
      BY <2>2, EventTypes
    <3> HIDE DEF a, b
    <3>2. /\ Head(<<a, b>>) = a /\ Tail(<<a, b>>) = <<b>> /\ Append(<<>>, a) = <<a>>
          /\ Head(<<b>>) = b /\ Tail(<<b>>) = <<>> /\ Append(<<>>, b) = <<b>>
          /\ Append(<<a>>, b) = <<a, b>>
      <4>1. Head(<<a, b>>) = a /\ Head(<<b>>) = b
        OBVIOUS
      <4>2. Tail(<<a, b>>) = <<b>>
        OBVIOUS
      <4>3. Tail(<<b>>) = <<>>
        OBVIOUS
      <4>4. Append(<<>>, a) = <<a>> /\ Append(<<>>, b) = <<b>>
        OBVIOUS
      <4>5. Append(<<a>>, b) = <<a, b>>
        <5>1. Append(<<a>>, b) \in Seq(Events) /\ <<a, b>> \in Seq(Events)
          BY <3>1
        <5>2. Len(Append(<<a>>, b)) = Len(<<a, b>>)
          BY <3>1
        <5>3. \A i \in 1..Len(Append(<<a>>, b)) : Append(<<a>>, b)[i] = <<a, b>>[i]
          BY <3>1
        <5>4. QED
          BY <5>1, <5>2, <5>3, SeqEqual
      <4>6. QED
        BY <4>1, <4>2, <4>3, <4>4, <4>5
    <3>3. engine'.script = Tail(engine.script) /\ events' = Append(events, Head(engine.script))
      BY <1>2
    <3>4. CASE engine.script = <<a, b>> /\ events = <<>>
      BY ONLY <3>2, <3>3, <3>4 DEF a, b
    <3>5. CASE engine.script = <<b>> /\ events \in {<<>>, <<a>>}
      BY ONLY <3>2, <3>3, <3>5 DEF a, b
    <3>6. QED
      BY <2>1, <3>4, <3>5 DEF a, b
  <2>4. /\ Started(r).type = "started" /\ Started(r).round = r
        /\ Execute(r).type = "execute" /\ Execute(r).round = r
    BY DEF Started, Execute
  <2>5. ScriptOrder'
    BY <1>2, <2>1, <2>2, <2>3, <2>4 DEF ScriptOrder, ScriptAt, IsBarrierResult
  <2>6. EventOrder'
    BY <1>2, <2>2, <2>3, <2>4 DEF EventOrder, EventAt, IsBarrierResult
  <2>7. Phases'
    <3>1. RoundCalls[r] # {}
      BY <2>2, RoundFacts
    <3>2. \A i \in DOMAIN events' : ~ HasBarrier(events'[i])
      BY <2>3, <2>4 DEF HasBarrier
    <3>3. QED
      BY <1>2, <1>6, <2>1, <2>2, <3>1, <3>2 DEF Phases
  <2>8. RoundsAgree'
    BY <1>2, <1>6, <2>2, <2>3, <2>4 DEF RoundsAgree, ToExecute, ExecuteSent
  <2>9. QED
    BY <2>5, <2>6, <2>7, <2>8 DEF Ordered
<1>8. CASE event.type = "result" /\ ~ event.barrier
  <2>1. engine.pc = "round" /\ ~ Over /\ r # NoRound
    BY <1>1, <1>4, <1>8 DEF ScriptAt, Over
  <2>2. ~ Over' /\ UNCHANGED settled
    BY <1>2, <1>8, <2>1 DEF Over
  <2>3. \A i \in DOMAIN engine.script : engine.script[i].type \notin {"started", "execute"}
    BY <1>1, <1>4, <1>8 DEF ScriptAt, Started, Execute
  <2>4. ScriptOrder'
    <3> SUFFICES ASSUME NEW i \in DOMAIN engine'.script PROVE ScriptAt(i)'
      BY DEF ScriptOrder
    <3>1. ScriptAt(i + 1) /\ engine'.script[i] = engine.script[i + 1] /\ i \in Nat \ {0}
      BY <1>1, <1>2, <1>4
    <3>2. engine.script[i + 1].type \notin {"started", "execute", "final", "ended"}
      BY <1>1, <1>2, <1>8, <2>1, <2>3, <3>1 DEF ScriptAt
    <3>3. engine'.script[i].type = "message" =>
            \E j \in DOMAIN engine'.script : j < i /\ IsBarrierResult(engine'.script[j])
      <4> SUFFICES ASSUME engine.script[i + 1].type = "message"
                   PROVE  \E j \in DOMAIN engine'.script : j < i /\ IsBarrierResult(engine'.script[j])
        BY <3>1
      <4>1. PICK j \in DOMAIN engine.script : j < i + 1 /\ IsBarrierResult(engine.script[j])
        BY <2>1, <3>1 DEF ScriptAt
      <4>2. j # 1
        BY <1>1, <1>8, <4>1 DEF IsBarrierResult
      <4>3. j - 1 \in DOMAIN engine'.script /\ engine'.script[j - 1] = engine.script[j]
        BY <1>0, <1>2, <4>2, HeadTail
      <4>4. j \in Nat
        BY <1>0
      <4>5. QED
        BY <3>1, <4>1, <4>3, <4>4
    <3>4. QED
      BY <1>1, <1>2, <2>1, <2>2, <3>1, <3>2, <3>3 DEF ScriptAt
  <2>5. EventOrder'
    <3> SUFFICES ASSUME NEW i \in DOMAIN events' PROVE EventAt(i)'
      BY DEF EventOrder
    <3>1. CASE i \in DOMAIN events
      <4>1. EventAt(i) /\ events'[i] = events[i] /\ i \in Nat \ {0} /\ i <= Len(events)
        BY <1>3, <1>6, <3>1 DEF EventOrder
      <4>2. events[i].type # "execute" \/ events'[1] = events[1]
        BY <1>3, <3>1, <4>1
      <4>3. QED
        BY <1>2, <1>3, <1>5, <2>1, <2>2, <3>1, <4>1, <4>2 DEF EventAt
    <3>2. CASE i = Len(events) + 1
      BY <1>2, <1>3, <1>8, <2>1, <2>2, <3>2 DEF EventAt, IsBarrierResult
    <3>3. QED
      BY <1>3, <3>1, <3>2
  <2>6. Phases'
    <3>1. \A i \in DOMAIN events' : ~ HasBarrier(events'[i])
      BY <1>0, <1>3, <1>5, <1>6, <1>8 DEF Phases, HasBarrier
    <3>2. engine.awaited = {} =>
            \E i \in DOMAIN engine'.script : IsBarrierResult(engine'.script[i])
      <4> SUFFICES ASSUME engine.awaited = {}
                   PROVE  \E i \in DOMAIN engine'.script : IsBarrierResult(engine'.script[i])
        OBVIOUS
      <4>1. PICK j \in DOMAIN engine.script : IsBarrierResult(engine.script[j])
        BY <1>6, <2>1 DEF Phases
      <4>2. j # 1
        BY <1>1, <1>8, <4>1 DEF IsBarrierResult
      <4>3. j - 1 \in DOMAIN engine'.script /\ engine'.script[j - 1] = engine.script[j]
        BY <1>0, <1>2, <4>2, HeadTail, SMTT(40)
      <4>4. QED
        BY <4>1, <4>3
    <3>3. QED
      BY <1>2, <1>6, <2>1, <2>2, <3>1, <3>2 DEF Phases
  <2>7. RoundsAgree'
    <3>1. session.status = "open" => session.activeRound = r \/ ExecuteSent
      BY <1>6, <2>1, <2>3 DEF RoundsAgree, ToExecute
    <3>2. ExecuteSent => ExecuteSent'
      BY <1>3 DEF ExecuteSent
    <3>3. \A i \in DOMAIN engine'.script : engine'.script[i].type # "started"
      BY <1>1, <1>2, <2>3
    <3>4. \A i \in DOMAIN events' : events'[i].type = "started" => i \in DOMAIN events
      BY <1>3, <1>8
    <3>5. QED
      BY <1>2, <1>3, <1>6, <2>2, <3>1, <3>2, <3>3, <3>4 DEF RoundsAgree, ToExecute
  <2>8. QED
    BY <2>4, <2>5, <2>6, <2>7 DEF Ordered
<1>9. CASE IsBarrierResult(event)
  <2>1. /\ engine.pc = "round" /\ ~ Over /\ r # NoRound /\ engine.awaited = {}
        /\ \A j \in DOMAIN engine.script : j > 1 => engine.script[j].type = "message"
    BY <1>1, <1>4, <1>9 DEF ScriptAt, Over, IsBarrierResult
  <2>2. settled' = settled \cup {r} /\ Over'
    BY <1>2, <1>9 DEF IsBarrierResult, Over
  <2>3. \A i \in DOMAIN engine'.script : engine'.script[i].type = "message"
    BY <1>1, <1>2, <2>1
  <2>4. BarrierAhead'
    BY <1>3, <1>9 DEF BarrierAhead
  <2>5. ScriptOrder'
    BY <2>2, <2>3 DEF ScriptOrder, ScriptAt, IsBarrierResult
  <2>6. EventOrder'
    <3> SUFFICES ASSUME NEW i \in DOMAIN events' PROVE EventAt(i)'
      BY DEF EventOrder
    <3>1. CASE i \in DOMAIN events
      <4>1. EventAt(i) /\ events'[i] = events[i] /\ i \in Nat \ {0} /\ i <= Len(events)
        BY <1>3, <1>6, <3>1 DEF EventOrder
      <4>2. events[i].type # "execute" \/ events'[1] = events[1]
        BY <1>3, <3>1, <4>1
      <4>3. QED
        BY <1>2, <1>3, <1>5, <2>1, <2>2, <2>4, <3>1, <4>1, <4>2 DEF EventAt
    <3>2. CASE i = Len(events) + 1
      BY <1>2, <1>3, <1>9, <2>1, <2>2, <2>4, <3>2 DEF EventAt, IsBarrierResult
    <3>3. QED
      BY <1>3, <3>1, <3>2
  <2>7. Phases'
    <3>1. engine'.waiting
      BY <1>2, <1>9 DEF HasBarrier, IsBarrierResult
    <3>2. r \in Nat
      BY <1>0, RoundFacts DEF NoRound
    <3>3. QED
      BY <1>2, <1>6, <2>1, <2>2, <3>1, <3>2 DEF Phases
  <2>8. RoundsAgree'
    <3>1. \A i \in DOMAIN engine.script : engine.script[i].type # "execute"
      BY <1>1, <1>4, <1>9 DEF ScriptAt, Started, Execute, IsBarrierResult
    <3>2. session.status = "open" => session.activeRound = r \/ ExecuteSent
      BY <1>6, <2>1, <3>1 DEF RoundsAgree, ToExecute
    <3>3. ExecuteSent => ExecuteSent'
      BY <1>3 DEF ExecuteSent
    <3>4. \A i \in DOMAIN events' : events'[i].type = "started" => i \in DOMAIN events
      BY <1>3, <1>9 DEF IsBarrierResult
    <3>5. QED
      BY <1>2, <1>3, <1>6, <2>2, <2>3, <2>4, <3>2, <3>3, <3>4 DEF RoundsAgree
  <2>9. QED
    BY <2>5, <2>6, <2>7, <2>8 DEF Ordered
<1>10. CASE event.type \in {"message", "final"}
  <2>1. Over /\ \A i \in DOMAIN engine'.script : engine'.script[i].type = "message"
    <3>1. CASE event.type = "message"
      BY <1>0, <1>1, <1>2, <3>1, MessagesLeft
    <3>2. CASE event.type = "final"
      <4>1. engine.script = <<Final>> /\ engine.pc = "final"
        BY <1>1, <1>4, <3>2 DEF ScriptAt
      <4>2. engine'.script = <<>>
        BY <1>2, <4>1
      <4>3. QED
        BY <1>6, <4>1, <4>2 DEF Phases
    <3>3. QED
      BY <1>10, <3>1, <3>2
  <2>2. events = <<>> /\ (session.status = "open" => session.activeRound = NoRound)
    BY <1>0, <1>5, <2>1, Idle
  <2>3. UNCHANGED settled /\ Over' /\ DOMAIN events' = {1} /\ events'[1] = event
    BY <1>2, <1>3, <1>10, <2>1, <2>2 DEF Over
  <2>4. ScriptOrder'
    BY <2>1, <2>3 DEF ScriptOrder, ScriptAt, IsBarrierResult
  <2>5. EventOrder'
    BY <1>10, <2>3 DEF EventOrder, EventAt, IsBarrierResult
  <2>6. engine'.waiting
    BY <1>2, <1>10 DEF HasBarrier
  <2>7. Phases'
    BY <1>2, <1>6, <2>1, <2>3, <2>6, <1>0 DEF Phases, Listening
  <2>8. RoundsAgree'
    BY <1>2, <1>6, <1>10, <2>1, <2>2, <2>3 DEF RoundsAgree
  <2>9. QED
    BY <2>4, <2>5, <2>7, <2>8 DEF Ordered
<1>11. event.type # "ended"
  BY <1>1, <1>4 DEF ScriptAt
<1>12. QED
  BY <1>1, <1>7, <1>8, <1>9, <1>10, <1>11, EventFields DEF IsBarrierResult

\* The other steps of the engine.
LEMMA OrderedEngine ==
    ASSUME Types, Ordered, EngineNext
    PROVE  Ordered'
<1> DEFINE r == engine.round
<1>0. /\ engine \in EngineState /\ engine.script \in Seq(Events) /\ events \in Seq(Events)
      /\ commands \in Seq(Commands) /\ engine.round \in Rounds \cup {NoRound}
      /\ engine.awaited \subseteq CallsOf(r) /\ settled \subseteq Nat
  BY RoundFacts DEF Types, EngineState, NoRound
<1>a. ScriptOrder /\ Phases /\ EventOrder /\ RoundsAgree
  BY DEF Ordered
\* The round, its state and what is on its way to the session stay.
<1>k. ASSUME UNCHANGED <<settled, events, session>>, engine'.round = engine.round
      PROVE  /\ Over' = Over /\ BarrierAhead' = BarrierAhead /\ ExecuteSent' = ExecuteSent
             /\ engine.pc # "ended" => EventOrder'
  <2>1. Over' = Over /\ BarrierAhead' = BarrierAhead /\ ExecuteSent' = ExecuteSent
    BY <1>k DEF Over, BarrierAhead, ExecuteSent
  <2>2. ASSUME engine.pc # "ended" PROVE EventOrder'
    BY <1>a, <1>k, <2>1, <2>2 DEF EventOrder, EventAt
  <2>3. QED
    BY <2>1, <2>2
<1>1. CASE ModelCallsTools
  <2>1. /\ engine.pc = "model" /\ engine.script = <<>> /\ ~ engine.waiting
        /\ Over /\ r + 1 \in Rounds /\ r \in Nat
    BY <1>0, <1>1, <1>a, RoundFacts DEF ModelCallsTools, Listening, Phases, NoRound
  <2>2. /\ engine'.pc = "round" /\ engine'.round = r + 1 /\ engine'.awaited = RoundCalls[r + 1]
        /\ engine'.script = <<Started(r + 1), Execute(r + 1)>> /\ engine'.waiting = FALSE
        /\ UNCHANGED <<settled, events, session>>
    BY <1>0, <1>1, <2>1 DEF ModelCallsTools, channels, EngineState
  <2>3. events = <<>> /\ (session.status = "open" => session.activeRound = NoRound)
    BY <2>1, Idle
  <2>4. r + 1 # NoRound /\ ~ Over'
    BY <1>a, <2>1, <2>2 DEF Phases, Over, NoRound
  <2>5. RoundCalls[r + 1] # {}
    BY <2>1, RoundFacts
  <2>6. ScriptOrder'
    BY <2>2, <2>3, <2>4 DEF ScriptOrder, ScriptAt, IsBarrierResult, Started, Execute
  <2>7. Phases'
    <3>1. NoRound \notin settled' /\ \A q \in settled' : q <= engine'.round
      BY <1>0, <1>a, <2>1, <2>2 DEF Phases
    <3>2. events' = <<>>
      BY <2>2, <2>3
    <3>3. QED
      BY <2>2, <2>4, <2>5, <3>1, <3>2 DEF Phases
  <2>8. EventOrder'
    BY <2>2, <2>3 DEF EventOrder
  <2>9. ToExecute'
    BY <2>2 DEF ToExecute, Execute
  <2>10. RoundsAgree'
    BY <1>a, <2>2, <2>3, <2>4, <2>9, RoundFacts DEF RoundsAgree, CallsOf
  <2>11. QED
    BY <2>6, <2>7, <2>8, <2>10 DEF Ordered
<1>2. CASE ModelEndsTurn \/ EngineContinues
  <2>1. /\ engine.script = <<>> /\ ~ engine.waiting /\ engine.pc \in {"model", "closing", "round"}
        /\ engine.awaited = {}
        /\ engine'.script = <<>> /\ engine'.waiting = FALSE /\ engine'.round = r
        /\ engine'.awaited = {} /\ engine'.pc \in {"model", "ending"}
        /\ UNCHANGED <<settled, events, session>>
    BY <1>0, <1>2, <1>a DEF ModelEndsTurn, EngineContinues, Listening, channels, EngineState, Phases
  <2>2. Over
    BY <1>a, <2>1 DEF Phases
  <2>3. Over' /\ EventOrder'
    BY <1>k, <2>1, <2>2
  <2>4. ScriptOrder' /\ Phases'
    BY <1>a, <2>1, <2>3 DEF ScriptOrder, Phases, Listening
  <2>5. RoundsAgree'
    BY <1>a, <1>k, <2>1, <2>3 DEF RoundsAgree
  <2>6. QED
    BY <2>3, <2>4, <2>5 DEF Ordered
<1>3. CASE DrainAccepted
  <2>1. /\ engine.pc = "ending" /\ Over /\ engine.awaited = {} /\ ~ engine.waiting
        /\ UNCHANGED <<settled, events, session>>
    BY <1>3, <1>a DEF DrainAccepted, Phases, Listening
  <2>2. PICK order \in [1..Cardinality(BreakAt) -> BreakAt] :
         /\ Range(order) = BreakAt
         /\ \A i, j \in DOMAIN order : i < j => order[i] < order[j]
         /\ engine' = [engine EXCEPT
                         !.pc = IF BreakAt = {} THEN "final" ELSE "closing",
                         !.batches = {MessageId[s] : s \in Accepted},
                         !.script = IF BreakAt = {} THEN <<Final>>
                                    ELSE [i \in DOMAIN order |-> Message(commands[order[i]].send)]]
    BY <1>3 DEF DrainAccepted
  <2> DEFINE drained == [i \in DOMAIN order |-> Message(commands[order[i]].send)]
  <2>3. \A i \in DOMAIN drained : drained[i].type = "message"
    <3>1. \A i \in DOMAIN drained : drained[i] = Message(commands[order[i]].send)
      OBVIOUS
    <3>2. QED
      BY <3>1 DEF Message
  <2> HIDE DEF drained
  <2>4. /\ engine'.round = r /\ engine'.awaited = {} /\ engine'.waiting = FALSE
        /\ \/ engine'.pc = "final" /\ engine'.script = <<Final>>
           \/ engine'.pc = "closing" /\ engine'.script = drained
    BY <1>0, <2>1, <2>2 DEF EngineState, drained
  <2>5. Over' /\ EventOrder'
    BY <1>k, <2>1, <2>4
  <2>6. ScriptOrder'
    BY <2>3, <2>4, <2>5 DEF ScriptOrder, ScriptAt, Final, IsBarrierResult
  <2>7. Phases'
    BY <1>a, <2>1, <2>4, <2>5 DEF Phases
  <2>8. \A i \in DOMAIN engine'.script : engine'.script[i].type # "started"
    BY <2>3, <2>4 DEF Final
  <2>9. RoundsAgree'
    BY <1>a, <1>k, <2>1, <2>4, <2>5, <2>8 DEF RoundsAgree
  <2>10. QED
    BY <2>5, <2>6, <2>7, <2>9 DEF Ordered
<1>4. CASE EngineSkipsMessage
  <2>1. /\ engine.script # <<>> /\ Head(engine.script).type = "message"
        /\ engine'.script = Tail(engine.script) /\ engine'.pc = engine.pc
        /\ engine'.round = r /\ engine'.awaited = engine.awaited /\ engine'.waiting = engine.waiting
        /\ ~ engine.waiting /\ UNCHANGED <<settled, events, session>>
    BY <1>0, <1>4 DEF EngineSkipsMessage, channels, EngineState
  <2>2. Over /\ engine.pc # "ended" /\ engine.pc # "ending"
    BY <1>a, <2>1, MessagesLeft DEF Phases, Listening
  <2>3. \A i \in DOMAIN engine'.script : engine'.script[i].type = "message"
    BY <1>0, <2>1, MessagesLeft, HeadTail
  <2>4. Over' /\ EventOrder'
    BY <1>k, <2>1, <2>2
  <2>5. ScriptOrder'
    BY <2>3, <2>4 DEF ScriptOrder, ScriptAt, IsBarrierResult
  <2>6. Phases'
    BY <1>a, <2>1, <2>2, <2>4 DEF Phases
  <2>7. RoundsAgree'
    BY <1>a, <1>k, <2>1, <2>3, <2>4 DEF RoundsAgree
  <2>8. QED
    BY <2>4, <2>5, <2>6, <2>7 DEF Ordered
<1>5. CASE TakeResult \/ TakeBreak
  <2>1. /\ engine.script = <<>> /\ ~ engine.waiting /\ engine.pc \in {"model", "round"}
        /\ UNCHANGED <<settled, events, session>>
        /\ engine'.pc = engine.pc /\ engine'.round = r /\ engine'.waiting = FALSE
        /\ commands # <<>>
    BY <1>0, <1>5, <1>a DEF TakeResult, TakeBreak, Receives, Listening, EngineState, Phases
  <2>2. ASSUME engine.pc = "round" PROVE ~ Over
    BY <1>5, <1>a, <2>2 DEF TakeResult, TakeBreak, Receives, Phases
  <2>3. Over' = Over /\ EventOrder' /\ ExecuteSent' = ExecuteSent /\ BarrierAhead' = BarrierAhead
    BY <1>k, <2>1
  <2>4. CASE TakeResult /\ engine' # engine
    <3> DEFINE c == Head(commands).call
               result == Result(c, FALSE, engine.awaited \ {c} = {})
    <3>1. /\ engine.pc = "round" /\ engine'.script = <<result>>
          /\ engine'.awaited = engine.awaited \ {c}
      BY <1>0, <2>4 DEF TakeResult, EngineState
    <3>2. result.type = "result" /\ (result.barrier <=> engine.awaited \ {c} = {})
      BY DEF Result
    <3> HIDE DEF c, result
    <3>a. DOMAIN engine'.script = {1} /\ engine'.script[1] = result
      BY <3>1
    <3>3. ScriptOrder'
      BY <2>1, <2>2, <2>3, <3>1, <3>2, <3>a DEF ScriptOrder, ScriptAt, IsBarrierResult
    <3>4. Phases'
      BY <1>a, <2>1, <2>2, <2>3, <3>1, <3>2, <3>a DEF Phases, IsBarrierResult
    <3>5. \A i \in DOMAIN engine'.script : engine'.script[i].type # "started"
      BY <3>1, <3>2
    <3>6. ToExecute => ToExecute'
      BY <2>1, <2>3 DEF ToExecute
    <3>7. RoundsAgree'
      BY <1>a, <2>1, <2>3, <3>5, <3>6 DEF RoundsAgree
    <3>8. QED
      BY <2>3, <3>3, <3>4, <3>7 DEF Ordered
  <2>5. CASE engine' = engine
    <3>1. ToExecute' = ToExecute /\ ScriptOrder' /\ Phases' /\ RoundsAgree'
      BY <1>a, <2>1, <2>3, <2>5 DEF ToExecute, ScriptOrder, ScriptAt, Phases, RoundsAgree, Listening
    <3>2. QED
      BY <2>3, <3>1 DEF Ordered
  <2>6. CASE TakeBreak
    <3> DEFINE s == Head(commands).send
               script == Interruptions \o <<Message(s)>>
    <3>0. s \in Sends
      BY <1>0, <2>1, <2>6, HeadTail, CommandTypes DEF TakeBreak
    <3>1. engine'.script = script /\ engine'.awaited = {}
      BY <1>0, <2>6 DEF TakeBreak, EngineState
    <3>2. /\ Len(script) \in Nat \ {0} /\ DOMAIN script = 1..Len(script)
          /\ script[Len(script)] = Message(s)
          /\ \A i \in DOMAIN script : i < Len(script) =>
                /\ script[i].type = "result"
                /\ script[i].barrier <=> i = Len(script) - 1
          /\ engine.awaited = {} <=> Len(script) = 1
      BY <3>0, InterruptionScript
    <3>a. Message(s).type = "message"
      BY DEF Message
    <3> HIDE DEF s, script
    <3>3. engine.pc = "model" => Len(script) = 1 /\ Over
      BY <1>a, <3>2 DEF Phases
    <3>4. engine.pc = "round" => Len(script) > 1
      BY <2>6, <3>2 DEF TakeBreak, Receives
    <3>5. engine.pc = "round" => Len(script) - 1 \in DOMAIN script /\ IsBarrierResult(script[Len(script) - 1])
      BY <3>2, <3>4 DEF IsBarrierResult
    <3>6. ScriptOrder'
      <4> SUFFICES ASSUME NEW i \in DOMAIN engine'.script PROVE ScriptAt(i)'
        BY DEF ScriptOrder
      <4>1. CASE i = Len(script)
        BY <2>1, <2>3, <3>1, <3>2, <3>a, <3>3, <3>5, <4>1 DEF ScriptAt, IsBarrierResult
      <4>2. CASE i # Len(script)
        <5>1. i < Len(script) /\ i \in Nat /\ engine.pc = "round"
          BY <2>1, <3>1, <3>2, <3>3, <4>2
        <5>2. QED
          BY <2>1, <2>2, <2>3, <3>1, <3>2, <3>a, <5>1 DEF ScriptAt, IsBarrierResult
      <4>3. QED
        BY <4>1, <4>2
    <3>7. Phases'
      BY <1>a, <2>1, <2>3, <3>1, <3>3, <3>5 DEF Phases
    <3>8. \A i \in DOMAIN engine'.script : engine'.script[i].type # "started"
      BY <3>1, <3>2, <3>a
    <3>9. ToExecute => ToExecute'
      BY <2>1, <2>3 DEF ToExecute
    <3>10. RoundsAgree'
      BY <1>a, <2>1, <2>3, <3>8, <3>9 DEF RoundsAgree
    <3>11. QED
      BY <2>3, <3>6, <3>7, <3>10 DEF Ordered
  <2>7. QED
    BY <1>5, <2>4, <2>5, <2>6
<1>6. ASSUME NEW outcome, End(outcome), engine.pc # "ended"
      PROVE  Ordered'
  <2> DEFINE ended == [type |-> "ended"]
  <2>1. /\ engine'.pc = "ended" /\ engine'.awaited = {} /\ engine'.script = <<>>
        /\ engine'.round = r /\ UNCHANGED <<settled, session>>
        /\ events' = Append(events, ended)
    BY <1>0, <1>6 DEF End, EngineState
  <2>2. ended \in Events /\ ended.type = "ended"
    BY EventTypes
  <2> HIDE DEF ended
  <2>3. /\ \A i \in DOMAIN events :
           /\ i \in Nat \ {0} /\ i <= Len(events)
           /\ i \in DOMAIN events' /\ events'[i] = events[i]
        /\ \A i \in DOMAIN events' : i \in DOMAIN events \/ i = Len(events) + 1
        /\ Len(events) + 1 \in DOMAIN events' /\ events'[Len(events) + 1] = ended
        /\ Len(events') = Len(events) + 1 /\ Len(events) \in Nat
    BY <1>0, <2>1, <2>2, Appended
  <2>4. Over' = Over /\ BarrierAhead' = BarrierAhead /\ ExecuteSent' = ExecuteSent
    BY <2>1, <2>2, <2>3 DEF Over, BarrierAhead, IsBarrierResult, ExecuteSent
  <2>5. ScriptOrder' /\ Phases'
    BY <1>a, <2>1 DEF ScriptOrder, Phases
  <2>6. EventOrder'
    <3> SUFFICES ASSUME NEW i \in DOMAIN events' PROVE EventAt(i)'
      BY DEF EventOrder
    <3>1. CASE i \in DOMAIN events
      <4>1. EventAt(i) /\ events'[i] = events[i] /\ i \in Nat \ {0} /\ i <= Len(events)
        BY <1>a, <2>3, <3>1 DEF EventOrder
      <4>2. events[i].type # "execute" \/ events'[1] = events[1]
        BY <2>3, <3>1, <4>1
      <4>3. QED
        BY <1>6, <2>1, <2>2, <2>3, <2>4, <3>1, <4>1, <4>2 DEF EventAt
    <3>2. CASE i = Len(events) + 1
      BY <2>1, <2>2, <2>3, <3>2 DEF EventAt, IsBarrierResult
    <3>3. QED
      BY <2>3, <3>1, <3>2
  <2>7. RoundsAgree'
    BY <1>a, <2>1, <2>2, <2>3, <2>4 DEF RoundsAgree
  <2>8. QED
    BY <2>5, <2>6, <2>7 DEF Ordered
<1>7. CASE EngineCompletes \/ EngineCancelled \/ EngineFails
  <2>1. engine.pc # "ended"
    BY <1>7, <1>a DEF EngineCompletes, EngineCancelled, EngineFails, Receives, Phases
  <2>2. QED
    BY <1>6, <1>7, <2>1 DEF EngineCompletes, EngineCancelled, EngineFails
<1>8. QED
  BY <1>1, <1>2, <1>3, <1>4, <1>5, <1>7, OrderedEmits DEF EngineNext

\* The session takes an event: what follows keeps its order.
LEMMA EventTaken ==
    ASSUME Types, Ordered, events # <<>>, events' = Tail(events),
           engine'.pc = engine.pc, engine'.round = engine.round,
           engine'.awaited = engine.awaited, engine'.script = engine.script,
           UNCHANGED settled
    PROVE  /\ ScriptOrder' /\ EventOrder' /\ Over' = Over
           /\ \A i \in DOMAIN events' : events'[i].type # "started"
           /\ events[1].type # "started" => ~ ExecuteSent'
           /\ ExecuteSent' => ExecuteSent
           /\ BarrierAhead' => BarrierAhead
           /\ BarrierAhead /\ ~ IsBarrierResult(events[1]) => BarrierAhead'
           /\ events[1].type = "result" => ~ ExecuteSent
           /\ events[1].type \in {"message", "final", "ended"} \/ IsBarrierResult(events[1]) =>
                \A i \in DOMAIN events' : events'[i].type = "ended"
<1>0. events \in Seq(Events)
  BY DEF Types
<1>1. /\ 1 \in DOMAIN events
      /\ \A i \in DOMAIN events' :
           i \in Nat \ {0} /\ i + 1 \in DOMAIN events /\ events'[i] = events[i + 1]
      /\ \A i \in DOMAIN events : i \in Nat \ {0}
      /\ \A i \in DOMAIN events : i # 1 => i - 1 \in DOMAIN events' /\ events'[i - 1] = events[i]
      /\ Len(events) \in Nat \ {0} /\ Len(events') = Len(events) - 1
      /\ DOMAIN events = 1..Len(events)
  BY <1>0, HeadTail
<1>2. ScriptOrder /\ \A i \in DOMAIN events : EventAt(i)
  BY DEF Ordered, EventOrder
<1>3. Over' = Over
  BY DEF Over
<1>4. ScriptOrder'
  <2>1. ASSUME NEW i \in DOMAIN engine.script,
               engine.script[i].type \in {"started", "execute"}
        PROVE  engine.script = <<Execute(engine.round)>> /\ events' = <<>>
    <3>1. /\ engine.script = <<Execute(engine.round)>> /\ events = <<Started(engine.round)>>
      BY <1>2, <2>1 DEF ScriptOrder, ScriptAt
    <3>2. QED
      BY <3>1
  <2>2. QED
    BY <1>2, <1>3, <2>1 DEF ScriptOrder, ScriptAt
<1>5. \A i \in DOMAIN events' : events'[i].type # "started"
  BY <1>1, <1>2 DEF EventAt
<1>6. events[1].type # "started" => ~ ExecuteSent'
  BY <1>1, <1>2 DEF ExecuteSent, EventAt
<1>7. ExecuteSent' => ExecuteSent
  BY <1>1 DEF ExecuteSent
<1>8. BarrierAhead' => BarrierAhead
  BY <1>1 DEF BarrierAhead
<1>9. BarrierAhead /\ ~ IsBarrierResult(events[1]) => BarrierAhead'
  BY <1>1 DEF BarrierAhead
<1>10. events[1].type = "result" => ~ ExecuteSent
  BY <1>1, <1>2 DEF ExecuteSent, EventAt
<1>11. events[1].type \in {"message", "final", "ended"} \/ IsBarrierResult(events[1]) =>
         \A i \in DOMAIN events' : events'[i].type = "ended"
  BY <1>1, <1>2 DEF EventAt
<1>12. EventOrder'
  <2> SUFFICES ASSUME NEW i \in DOMAIN events' PROVE EventAt(i)'
    BY DEF EventOrder
  <2>1. /\ EventAt(i + 1) /\ events'[i] = events[i + 1] /\ i \in Nat \ {0}
        /\ EventAt(1)
    BY <1>1, <1>2
  <2>2. events[i + 1].type \in {"started", "execute", "result"} => (Over => BarrierAhead')
    BY <1>9, <1>11, <2>1 DEF EventAt
  <2>3. QED
    BY <1>1, <1>3, <2>1, <2>2 DEF EventAt
<1>13. QED
  BY <1>3, <1>4, <1>5, <1>6, <1>7, <1>8, <1>9, <1>10, <1>11, <1>12

\* The commit of a tool's result finds its round (ResultsFindTheirRound: "no
\* active round"), and the commit of a message finds none.
LEMMA CommitsFindTheirRound ==
    ASSUME Types, Ordered, events # <<>>, session.status = "open"
    PROVE  /\ Head(events).type = "result" =>
                session.activeRound = engine.round /\ engine.round # NoRound
           /\ Head(events).type \in {"message", "final"} => session.activeRound = NoRound /\ Over
<1>0. events \in Seq(Events)
  BY DEF Types
<1>1. Head(events) = events[1] /\ 1 \in DOMAIN events /\ \A i \in DOMAIN events : i \in Nat \ {0}
  BY <1>0, HeadTail
<1>2. \A i \in DOMAIN events : EventAt(i)
  BY DEF Ordered, EventOrder
<1>3. RoundsAgree
  BY DEF Ordered
<1>4. ASSUME events[1].type = "result"
      PROVE  session.activeRound = engine.round /\ engine.round # NoRound
  <2>1. ~ ExecuteSent
    BY <1>1, <1>2, <1>4 DEF ExecuteSent, EventAt
  <2>2. QED
    BY <1>1, <1>2, <1>3, <1>4, <2>1 DEF RoundsAgree, EventAt
<1>5. ASSUME events[1].type \in {"message", "final"}
      PROVE  session.activeRound = NoRound /\ Over
  <2>1. Over /\ ~ BarrierAhead
    BY <1>1, <1>2, <1>5 DEF EventAt, BarrierAhead, IsBarrierResult
  <2>2. QED
    BY <1>3, <2>1 DEF RoundsAgree
<1>6. QED
  BY <1>1, <1>4, <1>5

LEMMA OrderedSession ==
    ASSUME Types, Ordered, SessionNext
    PROVE  Ordered'
<1> DEFINE r == engine.round
<1>0. /\ engine \in EngineState /\ session \in SessionState /\ events \in Seq(Events)
      /\ engine.round \in Rounds \cup {NoRound}
  BY DEF Types, EngineState
<1>a. ScriptOrder /\ Phases /\ EventOrder /\ RoundsAgree
  BY DEF Ordered
<1>b. ASSUME events # <<>>
      PROVE  /\ Head(events) = events[1] /\ 1 \in DOMAIN events /\ Head(events) \in Events
             /\ EventAt(1)
             /\ \A i \in DOMAIN events' : events' = Tail(events) =>
                  i + 1 \in DOMAIN events /\ events'[i] = events[i + 1]
  BY <1>0, <1>a, <1>b, HeadTail DEF EventOrder
\* The session's rounds, the engine and the events stay.
<1>k. ASSUME UNCHANGED <<engine, settled, events>>, session'.activeRound = session.activeRound,
             session'.activeCalls = session.activeCalls, session.status = "open"
      PROVE  Ordered'
  <2>1. /\ Over' = Over /\ BarrierAhead' = BarrierAhead /\ ExecuteSent' = ExecuteSent
        /\ ToExecute' = ToExecute
    BY <1>k DEF Over, BarrierAhead, ExecuteSent, ToExecute
  <2>2. ScriptOrder' /\ EventOrder'
    BY <1>a, <1>k, <2>1 DEF ScriptOrder, ScriptAt, EventOrder, EventAt
  <2>3. Phases' /\ RoundsAgree'
    BY <1>a, <1>k, <2>1 DEF Phases, RoundsAgree, Listening
  <2>4. QED
    BY <2>2, <2>3 DEF Ordered
\* A step that takes an event keeps the phases, if it releases the engine from
\* waiting only when no other barrier is on its way.
<1>p. ASSUME events # <<>>, events' = Tail(events), UNCHANGED settled,
             engine'.pc = engine.pc, engine'.round = engine.round,
             engine'.awaited = engine.awaited, engine'.script = engine.script,
             \/ engine'.waiting = engine.waiting
             \/ engine'.waiting = FALSE /\ \A i \in DOMAIN events' : events'[i].type = "ended"
      PROVE  Phases'
  <2>1. Over' = Over
    BY <1>p DEF Over
  <2>2. engine.pc # "ended" /\ ~ engine'.waiting => \A i \in DOMAIN events' : ~ HasBarrier(events'[i])
    BY <1>a, <1>b, <1>p DEF Phases, HasBarrier
  <2>3. engine.pc = "ending" => ~ engine'.waiting
    BY <1>a, <1>p DEF Phases, Listening
  <2>4. QED
    BY <1>a, <1>p, <2>1, <2>2, <2>3 DEF Phases, Listening
<1>1. CASE HandleAction
  <2>1. session'.activeRound = session.activeRound /\ session'.activeCalls = session.activeCalls
    BY <1>0, <1>1 DEF HandleAction, SessionState
  <2>2. QED
    BY <1>1, <1>k, <2>1 DEF HandleAction, Open
<1>2. CASE HandleStarted
  <2>1. /\ events # <<>> /\ Head(events).type = "started" /\ events' = Tail(events)
        /\ UNCHANGED <<engine, settled>>
        /\ session'.activeRound = Head(events).round /\ session'.activeCalls = session.activeCalls
        /\ session.status = "open"
    BY <1>0, <1>2 DEF HandleStarted, MayHandle, SessionState, Open
  <2>2. /\ ScriptOrder' /\ EventOrder' /\ Over' = Over
        /\ \A i \in DOMAIN events' : events'[i].type # "started"
        /\ BarrierAhead => BarrierAhead'
    BY <1>b, <2>1, EventTaken DEF IsBarrierResult
  <2>3. /\ Head(events).round = r /\ r # NoRound /\ (Over => BarrierAhead)
        /\ session.activeRound = NoRound /\ session.activeCalls = {}
    BY <1>a, <1>b, <2>1 DEF EventAt, RoundsAgree
  <2>4. \A i \in DOMAIN engine.script : engine.script[i].type # "started"
    BY <1>a, <2>1 DEF ScriptOrder, ScriptAt, Started, Execute
  <2>5. RoundsAgree'
    BY <2>1, <2>2, <2>3, <2>4 DEF RoundsAgree
  <2>6. QED
    BY <1>p, <2>1, <2>2, <2>5 DEF Ordered
<1>3. CASE HandleExecute
  <2>1. /\ events # <<>> /\ Head(events).type = "execute" /\ events' = Tail(events)
        /\ UNCHANGED <<engine, settled>> /\ session.status = "open"
    BY <1>3 DEF HandleExecute, MayHandle, Open
  <2>2. /\ session'.activeRound = Head(events).round
        /\ session'.activeCalls = RoundCalls[Head(events).round]
    BY <1>0, <1>3 DEF HandleExecute, SessionState
  <2>3. /\ ScriptOrder' /\ EventOrder' /\ Over' = Over
        /\ \A i \in DOMAIN events' : events'[i].type # "started"
        /\ BarrierAhead => BarrierAhead'
    BY <1>b, <2>1, EventTaken DEF IsBarrierResult
  <2>4. Head(events).round = r /\ r # NoRound /\ (Over => BarrierAhead)
    BY <1>a, <1>b, <2>1 DEF EventAt
  <2>5. \A i \in DOMAIN engine.script : engine.script[i].type # "started"
    <3> SUFFICES ASSUME NEW i \in DOMAIN engine.script, engine.script[i].type = "started"
                 PROVE  FALSE
      OBVIOUS
    <3>1. events = <<>> \/ (engine.script = <<Execute(r)>> /\ i \in DOMAIN <<Execute(r)>>)
      BY <1>a DEF ScriptOrder, ScriptAt
    <3>2. QED
      BY <2>1, <3>1 DEF Execute
  <2>6. RoundCalls[r] \subseteq CallsOf(r)
    BY <2>4 DEF CallsOf
  <2>7. RoundsAgree'
    BY <2>1, <2>2, <2>3, <2>4, <2>5, <2>6 DEF RoundsAgree
  <2>8. QED
    BY <1>p, <2>1, <2>3, <2>7 DEF Ordered
<1>4. CASE HandleResultCommit
  <2> DEFINE event == Head(events)
  <2>1. /\ events # <<>> /\ event.type = "result" /\ events' = Tail(events)
        /\ UNCHANGED settled /\ session.status = "open"
    BY <1>4 DEF HandleResultCommit, MayHandle, Open
  <2>2. session.activeRound = r /\ r # NoRound
    BY <2>1, CommitsFindTheirRound
  <2>3. SettledByNow <=> Over
    BY <2>2 DEF SettledByNow, Over
  <2>4. /\ engine'.pc = engine.pc /\ engine'.round = r /\ engine'.awaited = engine.awaited
        /\ engine'.script = engine.script
    BY <1>0, <1>4 DEF HandleResultCommit, EngineState
  <2>5. /\ ScriptOrder' /\ EventOrder' /\ Over' = Over /\ ~ ExecuteSent'
        /\ \A i \in DOMAIN events' : events'[i].type # "started"
        /\ BarrierAhead /\ ~ IsBarrierResult(event) => BarrierAhead'
        /\ IsBarrierResult(event) => \A i \in DOMAIN events' : events'[i].type = "ended"
    BY <1>b, <2>1, <2>4, EventTaken
  <2>6. Over => BarrierAhead
    BY <1>b, <2>1 DEF EventAt
  <2>7. \A i \in DOMAIN engine.script : engine.script[i].type # "started"
    BY <1>a, <2>1, <2>2 DEF RoundsAgree
  <2>8. CASE CommitError(event) # "none"
    <3>1. /\ session'.activeRound = r /\ session'.activeCalls = session.activeCalls
          /\ engine'.waiting = engine.waiting /\ session'.status = "failed"
      BY <1>0, <1>4, <2>2, <2>8 DEF HandleResultCommit, SessionFails, SessionState
    <3>2. RoundsAgree'
      BY <1>a, <2>2, <3>1 DEF RoundsAgree
    <3>3. QED
      BY <1>p, <2>1, <2>4, <2>5, <3>1, <3>2 DEF Ordered
  <2>9. CASE CommitError(event) = "none" /\ Over
    <3>1. IsBarrierResult(event)
      BY <2>1, <2>3, <2>9 DEF CommitError, IsBarrierResult
    <3>2. session'.activeRound = NoRound /\ session'.activeCalls = {} /\ engine'.waiting = FALSE
      BY <1>0, <1>4, <2>3, <2>9 DEF HandleResultCommit, RoundOver, SessionState, EngineState
    <3>3. RoundsAgree'
      BY <1>a, <2>4, <2>5, <2>7, <2>9, <3>1, <3>2, RoundFacts DEF RoundsAgree
    <3>4. QED
      BY <1>p, <2>1, <2>4, <2>5, <3>1, <3>2, <3>3 DEF Ordered
  <2>10. CASE CommitError(event) = "none" /\ ~ Over
    <3>1. session'.activeRound = r /\ session'.activeCalls = session.activeCalls /\ engine' = engine
      BY <1>0, <1>4, <2>2, <2>3, <2>10 DEF HandleResultCommit, SessionState
    <3>2. RoundsAgree'
      BY <1>a, <2>2, <2>4, <2>5, <2>7, <2>10, <3>1 DEF RoundsAgree
    <3>3. QED
      BY <1>p, <2>1, <2>4, <2>5, <3>1, <3>2 DEF Ordered
  <2>11. QED
    BY <2>8, <2>9, <2>10
<1>5. CASE HandleMessageCommit \/ HandleFinal \/ HandleEnded
  <2>1. /\ events # <<>> /\ events[1].type \in {"message", "final", "ended"}
        /\ events' = Tail(events) /\ UNCHANGED settled /\ session.status = "open"
    BY <1>5, <1>b DEF HandleMessageCommit, HandleFinal, HandleEnded, MayHandle, Open
  <2>2. /\ engine'.pc = engine.pc /\ engine'.round = r /\ engine'.awaited = engine.awaited
        /\ engine'.script = engine.script /\ engine'.waiting \in {engine.waiting, FALSE}
        /\ session'.activeRound = session.activeRound
        /\ session'.activeCalls = session.activeCalls
    BY <1>0, <1>5, ZenonT(60) DEF HandleMessageCommit, HandleFinal, HandleEnded, EngineState, SessionState
  <2>3. /\ ScriptOrder' /\ EventOrder' /\ Over' = Over /\ ~ ExecuteSent'
        /\ \A i \in DOMAIN events' : events'[i].type = "ended"
    BY <1>b, <2>1, <2>2, EventTaken
  <2>4. CASE HandleEnded
    <3>1. events[1].type = "ended" /\ session'.status = "finished"
      BY <1>0, <1>b, <2>1, <2>4 DEF HandleEnded, MayHandle, SessionState
    <3>2. RoundsAgree'
      BY <1>a, <2>2, <3>1 DEF RoundsAgree
    <3>3. QED
      BY <1>p, <2>1, <2>2, <2>3, <3>2 DEF Ordered
  <2>5. CASE HandleMessageCommit \/ HandleFinal
    <3>1. session.activeRound = NoRound /\ Over
      BY <1>b, <2>1, <2>5, CommitsFindTheirRound DEF HandleMessageCommit, HandleFinal, MayHandle
    <3>2. RoundsAgree'
      BY <1>a, <2>2, <2>3, <3>1 DEF RoundsAgree
    <3>3. QED
      BY <1>p, <2>1, <2>2, <2>3, <3>2 DEF Ordered
  <2>6. QED
    BY <1>5, <2>4, <2>5
<1>6. CASE HandleCompletion
  <2>1. ASSUME NEW c, NEW now \in SessionState, Forward(c, now),
               now.activeRound = session.activeRound, now.activeCalls = session.activeCalls,
               now.status = session.status
        PROVE  /\ session'.activeRound = session.activeRound
               /\ session'.activeCalls = session.activeCalls
    BY <1>0, <2>1 DEF Forward, SessionFails, SessionState
  <2>2. session'.activeRound = session.activeRound /\ session'.activeCalls = session.activeCalls
    <3>1. CASE session.ready # <<>>
      <4> DEFINE now == [session EXCEPT !.ready = Tail(@)]
      <4>1. /\ now \in SessionState /\ now.activeRound = session.activeRound
            /\ now.activeCalls = session.activeCalls /\ now.status = session.status
        BY <1>0, <3>1, HeadTail DEF SessionState
      <4>2. Forward(Head(session.ready), now)
        BY <1>6, <3>1 DEF HandleCompletion
      <4> HIDE DEF now
      <4>3. QED
        BY <2>1, <4>1, <4>2
    <3>2. CASE session.ready = <<>>
      BY <1>0, <1>6, <2>1, <3>2 DEF HandleCompletion
    <3>3. QED
      BY <3>1, <3>2
  <2>3. UNCHANGED <<engine, settled, events>> /\ session.status = "open"
    BY <1>6 DEF HandleCompletion, Open
  <2>4. QED
    BY <1>k, <2>2, <2>3
<1>7. QED
  BY <1>1, <1>2, <1>3, <1>4, <1>5, <1>6 DEF SessionNext

LEMMA OrderedStep ==
    ASSUME Types, Ordered, [Next]_vars
    PROVE  Ordered'
<1>1. CASE EngineNext
  BY <1>1, OrderedEngine
<1>2. CASE SessionNext
  BY <1>2, OrderedSession
<1>3. ASSUME UNCHANGED <<engine, settled, events, session>> PROVE Ordered'
  <2>1. /\ Over' = Over /\ BarrierAhead' = BarrierAhead /\ ExecuteSent' = ExecuteSent
        /\ ToExecute' = ToExecute
    BY <1>3 DEF Over, BarrierAhead, ExecuteSent, ToExecute
  <2>2. ScriptOrder' /\ EventOrder'
    BY <1>3, <2>1 DEF Ordered, ScriptOrder, ScriptAt, EventOrder, EventAt
  <2>3. Phases' /\ RoundsAgree'
    BY <1>3, <2>1 DEF Ordered, Phases, RoundsAgree, Listening
  <2>4. QED
    BY <2>2, <2>3 DEF Ordered
<1>4. ASSUME NEW s \in Sends, SendMessage(s) \/ Deliver(s)
      PROVE  Ordered'
  BY <1>3, <1>4 DEF SendMessage, Deliver
<1>5. ASSUME NEW exec, ToolAnswers(exec) \/ PassOnAnswer(exec)
      PROVE  Ordered'
  BY <1>3, <1>5 DEF ToolAnswers, PassOnAnswer
<1>6. CASE Cancel
  BY <1>3, <1>6 DEF Cancel, channels
<1>7. CASE UNCHANGED vars
  BY <1>3, <1>7 DEF vars
<1>8. QED
  BY <1>1, <1>2, <1>4, <1>5, <1>6, <1>7 DEF Next

-----------------------------------------------------------------------------
(* A result is at one place.                                                *)

LEMMA Shorter ==
    ASSUME NEW T, NEW seq \in Seq(T), seq # <<>>
    PROVE  /\ Range(seq) = Range(Tail(seq)) \cup {Head(seq)}
           /\ IsInjective(seq) => IsInjective(Tail(seq)) /\ Head(seq) \notin Range(Tail(seq))
<1> DEFINE rest == Tail(seq)
           first == Head(seq)
<1>1. /\ first = seq[1] /\ 1 \in DOMAIN seq
      /\ \A i \in DOMAIN rest : i \in Nat \ {0} /\ i + 1 \in DOMAIN seq /\ rest[i] = seq[i + 1]
      /\ \A i \in DOMAIN seq : i # 1 => i - 1 \in DOMAIN rest /\ rest[i - 1] = seq[i]
  BY HeadTail
<1> HIDE DEF rest, first
<1>2. \A i \in DOMAIN rest : i + 1 # 1 /\ \A j \in DOMAIN rest : i + 1 = j + 1 => i = j
  BY <1>1
<1>3. Range(seq) = Range(rest) \cup {first}
  BY <1>1 DEF Range
<1>4. ASSUME IsInjective(seq) PROVE IsInjective(rest) /\ first \notin Range(rest)
  BY <1>1, <1>2, <1>4 DEF IsInjective, Range
<1>5. QED
  BY <1>3, <1>4 DEF rest, first

LEMMA Longer ==
    ASSUME NEW T, NEW seq \in Seq(T), NEW e \in T
    PROVE  /\ Range(Append(seq, e)) = Range(seq) \cup {e}
           /\ IsInjective(seq) /\ e \notin Range(seq) => IsInjective(Append(seq, e))
<1> DEFINE longer == Append(seq, e)
           n == Len(seq) + 1
<1>1. /\ \A i \in DOMAIN seq : i \in DOMAIN longer /\ longer[i] = seq[i]
      /\ \A i \in DOMAIN longer : i \in DOMAIN seq \/ i = n
      /\ n \in DOMAIN longer /\ longer[n] = e
  BY Appended
<1> HIDE DEF longer, n
<1>2. QED
  BY <1>1 DEF IsInjective, Range, longer

\* Taking an event, and emitting one.
LEMMA OnceHandled ==
    ASSUME NEW seq \in Seq(Events), seq # <<>>, Once(seq)
    PROVE  /\ Once(Tail(seq))
           /\ Head(seq).type = "result" /\ ~ Head(seq).interrupted =>
                Head(seq).call \notin Committed(Tail(seq))
<1> DEFINE rest == Tail(seq)
           first == Head(seq)
<1>1. /\ first = seq[1] /\ 1 \in DOMAIN seq
      /\ \A i \in DOMAIN rest : i \in Nat \ {0} /\ i + 1 \in DOMAIN seq /\ rest[i] = seq[i + 1]
  BY HeadTail
<1> HIDE DEF rest, first
<1>2. \A i \in DOMAIN rest : i + 1 # 1 /\ \A j \in DOMAIN rest : i + 1 = j + 1 => i = j
  BY <1>1
<1>3. \A i \in ResultAt(rest) : i \in DOMAIN rest /\ i + 1 \in ResultAt(seq)
  BY <1>1 DEF ResultAt
<1>4. Once(rest)
  BY <1>1, <1>2, <1>3 DEF Once
<1>5. ASSUME first.type = "result", ~ first.interrupted
      PROVE  first.call \notin Committed(rest)
  <2>1. 1 \in ResultAt(seq)
    BY <1>1, <1>5 DEF ResultAt
  <2>2. QED
    BY <1>1, <1>2, <1>3, <2>1 DEF Once, Committed
<1>6. QED
  BY <1>4, <1>5 DEF rest, first

LEMMA OnceEmitted ==
    ASSUME NEW seq \in Seq(Events), NEW event \in Events, Once(seq),
           event.type = "result" /\ ~ event.interrupted => event.call \notin Committed(seq)
    PROVE  Once(Append(seq, event))
<1> DEFINE longer == Append(seq, event)
           n == Len(seq) + 1
<1>1. /\ \A i \in DOMAIN seq : longer[i] = seq[i]
      /\ \A i \in DOMAIN longer : i \in DOMAIN seq \/ i = n
      /\ n \in DOMAIN longer /\ longer[n] = event
  BY Appended
<1> HIDE DEF longer, n
<1>2. QED
  BY <1>1 DEF Once, ResultAt, Committed, longer

LEMMA ForwardedTaken ==
    ASSUME Types, commands # <<>>, commands' = Tail(commands), ForwardedOnce
    PROVE  /\ ForwardedOnce'
           /\ Head(commands).type = "result" => Head(commands).call \notin Forwarded'
<1> DEFINE first == Head(commands)
<1>1. /\ first = commands[1] /\ 1 \in DOMAIN commands
      /\ \A i \in DOMAIN commands' :
           i \in Nat \ {0} /\ i + 1 \in DOMAIN commands /\ commands'[i] = commands[i + 1]
  BY HeadTail DEF Types
<1> HIDE DEF first
<1>2. \A i \in DOMAIN commands' : i + 1 # 1 /\ \A j \in DOMAIN commands' : i + 1 = j + 1 => i = j
  BY <1>1
<1>3. QED
  BY <1>1, <1>2 DEF ForwardedOnce, Forwarded, first

LEMMA ForwardedSent ==
    ASSUME Types, NEW command \in Commands, commands' = Append(commands, command),
           ForwardedOnce, command.type = "result" => command.call \notin Forwarded
    PROVE  ForwardedOnce'
<1>1. /\ \A i \in DOMAIN commands : commands'[i] = commands[i]
      /\ \A i \in DOMAIN commands' : i \in DOMAIN commands \/ i = Len(commands) + 1
      /\ commands'[Len(commands) + 1] = command
  BY Appended DEF Types
<1>2. QED
  BY <1>1 DEF ForwardedOnce, Forwarded

\* Sequences that commit no tool's own result.
LEMMA NothingCommitted ==
    ASSUME NEW seq, \A i \in DOMAIN seq : seq[i].type = "result" => seq[i].interrupted
    PROVE  Committed(seq) = {} /\ Once(seq)
BY DEF Committed, ResultAt, Once

\* What was started stays started.
LEMMA StartedStays ==
    ASSUME Types, Types',
           \/ engine'.round = engine.round /\ (ToExecute' => ToExecute)
           \/ engine'.round > engine.round
    PROVE  StartedRounds \subseteq StartedRounds' /\ KnownCalls \subseteq KnownCalls'
<1>1. engine.round \in Nat /\ engine'.round \in Nat /\ Rounds \subseteq Nat
  BY RoundFacts, SMTT(40) DEF Types, EngineState, NoRound
<1>2. StartedRounds \subseteq StartedRounds'
  <2>1. CASE engine'.round = engine.round /\ (ToExecute' => ToExecute)
    BY <2>1 DEF StartedRounds
  <2>2. CASE engine'.round > engine.round
    <3>1. \A q \in Nat : q <= engine.round => q < engine'.round /\ q <= engine'.round
      BY <1>1, <2>2
    <3>2. QED
      BY <1>1, <3>1 DEF StartedRounds
  <2>3. QED
    BY <2>1, <2>2
<1>3. QED
  BY <1>2 DEF KnownCalls

LEMMA PlacedInit == Init => Placed
<1> SUFFICES ASSUME Init PROVE Placed
  OBVIOUS
<1>1. Flight = {} /\ Forwarded = {} /\ Committed(events) = {} /\ Committed(engine.script) = {}
  BY NothingInEmpty DEF Init, Flight, Asked, Range
<1>2. OnePlace
  BY DEF Init, OnePlace, Asked, Range, IsInjective
<1>3. Apart
  BY <1>1 DEF Init, Apart, ForwardedOnce, Once, ResultAt
<1>4. ~ ToExecute
  BY DEF Init, ToExecute, ExecuteSent
<1>5. QED
  BY <1>1, <1>2, <1>3, <1>4 DEF Init, Placed, OneCommit, NothingEarly, NoRound

LEMMA PlacedEngine ==
    ASSUME Types, Types', Ordered, Ordered', Placed, EngineNext
    PROVE  Placed'
<1>r. Rounds \cup {NoRound} \subseteq Nat
  BY RoundFacts DEF NoRound
<1>0. /\ engine \in EngineState /\ engine.script \in Seq(Events) /\ events \in Seq(Events)
      /\ engine.round \in Nat /\ commands \in Seq(Commands)
      /\ session.completedRound \in Nat
      /\ session.interruptedRounds \subseteq Nat
  BY <1>r DEF Types, EngineState, SessionState
<1>k. ASSUME UNCHANGED <<running, answered, results, session>>, Apart',
             \/ engine'.round = engine.round /\ (ToExecute' => ToExecute)
             \/ engine'.round = engine.round + 1,
             (Forwarded \cup Committed(events) \cup Committed(engine.script))'
                \subseteq Forwarded \cup Committed(events) \cup Committed(engine.script)
      PROVE  Placed'
  <2>1. Flight' = Flight /\ OnePlace'
    BY <1>k DEF Placed, OnePlace, Flight, Asked
  <2>2. OneCommit'
    BY <1>k, <2>1 DEF Placed, OneCommit
  <2>3. KnownCalls \subseteq KnownCalls'
    BY <1>0, <1>k, StartedStays
  <2>4. NothingEarly'
    BY <1>0, <1>k, <2>1, <2>3 DEF Placed, NothingEarly
  <2>5. QED
    BY <2>1, <2>2, <2>4 DEF Placed
<1>a. Apart
  BY DEF Placed, OneCommit
<1>b. ASSUME UNCHANGED commands PROVE Forwarded' = Forwarded /\ (ForwardedOnce' <=> ForwardedOnce)
  BY <1>b DEF Forwarded, ForwardedOnce
<1>e. commands' = <<>> => Forwarded' = {} /\ ForwardedOnce'
  BY DEF Forwarded, ForwardedOnce
<1>s. Committed(<<>>) = {} /\ Once(<<>>)
  BY NothingCommitted
<1>x. UNCHANGED <<running, answered, results, session>>
  BY DEF EngineNext, ModelCallsTools, ModelEndsTurn, DrainAccepted, EngineEmits, EngineSkipsMessage,
     EngineContinues, TakeResult, TakeBreak, EngineCompletes, EngineCancelled, EngineFails, End,
     channels
<1>1. CASE ModelCallsTools
  <2> DEFINE r == engine.round + 1
             script == <<Started(r), Execute(r)>>
  <2>1. /\ engine'.round = r /\ engine'.script = script /\ UNCHANGED <<commands, events>>
    BY <1>0, <1>1 DEF ModelCallsTools, EngineState, channels
  <2>2. Committed(script) = {} /\ Once(script)
    <3>1. \A i \in DOMAIN script : script[i].type # "result"
      BY DEF Started, Execute
    <3> HIDE DEF script
    <3>2. QED
      BY <3>1, NothingCommitted
  <2> HIDE DEF script
  <2>3. QED
    BY <1>k, <1>a, <1>b, <1>x, <2>1, <2>2 DEF Apart
<1>2. CASE ModelEndsTurn \/ EngineContinues
  <2>1. /\ engine'.round = engine.round /\ engine'.script = engine.script
        /\ UNCHANGED <<commands, events>>
    BY <1>0, <1>2 DEF ModelEndsTurn, EngineContinues, EngineState, channels
  <2>2. ToExecute' = ToExecute
    BY <2>1 DEF ToExecute, ExecuteSent
  <2>3. QED
    BY <1>k, <1>a, <1>b, <1>x, <2>1, <2>2 DEF Apart
<1>3. CASE DrainAccepted
  <2>1. PICK order \in [1..Cardinality(BreakAt) -> BreakAt] :
         engine' = [engine EXCEPT
                         !.pc = IF BreakAt = {} THEN "final" ELSE "closing",
                         !.batches = {MessageId[s] : s \in Accepted},
                         !.script = IF BreakAt = {} THEN <<Final>>
                                    ELSE [i \in DOMAIN order |-> Message(commands[order[i]].send)]]
    BY <1>3 DEF DrainAccepted
  <2> DEFINE drained == [i \in DOMAIN order |-> Message(commands[order[i]].send)]
  <2>2. /\ engine'.round = engine.round /\ engine'.script = IF BreakAt = {} THEN <<Final>> ELSE drained
        /\ commands' = <<>> /\ events' = events
    BY <1>0, <1>3, <2>1 DEF DrainAccepted, EngineState
  <2>3. \A i \in DOMAIN drained : drained[i].type = "message"
    BY DEF Message
  <2> HIDE DEF drained
  <2>4. \A i \in DOMAIN engine'.script : engine'.script[i].type \in {"message", "final"}
    BY <2>2, <2>3 DEF Final
  <2>5. Committed(engine'.script) = {} /\ Once(engine'.script)
    BY <2>4, NothingCommitted
  <2>6. ToExecute' => ToExecute
    BY <2>2, <2>4 DEF ToExecute, ExecuteSent
  <2>7. QED
    BY <1>k, <1>a, <1>e, <1>x, <2>2, <2>5, <2>6 DEF Apart
<1>4. CASE EngineEmits
  <2> DEFINE event == Head(engine.script)
             own == IF event.type = "result" /\ ~ event.interrupted THEN {event.call} ELSE {}
  <2>1. /\ engine.script # <<>> /\ event \in Events
        /\ engine'.script = Tail(engine.script) /\ events' = Append(events, event)
        /\ engine'.round = engine.round /\ commands' = commands
    BY <1>0, <1>4, HeadTail DEF EngineEmits, EngineState
  <2>2. Committed(engine.script) = Committed(engine'.script) \cup own
    BY <1>0, <2>1, EventHandled
  <2>3. Committed(events') = Committed(events) \cup own
    BY <1>0, <2>1, EventEmitted
  <2>4. Once(engine'.script) /\ own \cap Committed(engine'.script) = {}
    BY <1>0, <1>a, <2>1, OnceHandled DEF Apart
  <2>5. own \cap Committed(events) = {}
    BY <1>a, <2>2 DEF Apart
  <2>6. Once(events')
    BY <1>0, <1>a, <2>1, <2>5, OnceEmitted DEF Apart
  <2>7. ToExecute' => ToExecute
    <3> HIDE DEF event
    <3>1. \A i \in DOMAIN events' : events'[i] = event \/ (i \in DOMAIN events /\ events'[i] = events[i])
      BY <1>0, <2>1, Appended
    <3>2. /\ event = engine.script[1] /\ 1 \in DOMAIN engine.script
          /\ \A i \in DOMAIN engine'.script :
                i + 1 \in DOMAIN engine.script /\ engine'.script[i] = engine.script[i + 1]
      BY <1>0, <2>1, HeadTail DEF event
    <3>3. QED
      BY <3>1, <3>2 DEF ToExecute, ExecuteSent
  <2> HIDE DEF event, own
  <2>8. Apart'
    BY <1>a, <1>b, <2>1, <2>2, <2>3, <2>4, <2>5, <2>6 DEF Apart
  <2>9. QED
    BY <1>k, <1>b, <1>x, <2>1, <2>2, <2>3, <2>7, <2>8
<1>5. CASE EngineSkipsMessage
  <2>1. /\ engine.script # <<>> /\ Head(engine.script).type = "message"
        /\ engine'.script = Tail(engine.script)
        /\ engine'.round = engine.round /\ UNCHANGED <<commands, events>>
    BY <1>0, <1>5 DEF EngineSkipsMessage, EngineState, channels
  <2>2. Committed(engine'.script) = Committed(engine.script)
    BY <1>0, <2>1, EventHandled
  <2>5. Once(engine'.script)
    BY <1>0, <1>a, <2>1, OnceHandled DEF Apart
  <2>3. ToExecute' => ToExecute
    BY <1>0, <2>1, HeadTail DEF ToExecute, ExecuteSent
  <2>4. QED
    BY <1>k, <1>a, <1>b, <1>x, <2>1, <2>2, <2>3, <2>5 DEF Apart
<1>6. CASE TakeResult
  <2> DEFINE c == Head(commands).call
  <2>1. /\ engine.script = <<>> /\ commands # <<>> /\ Head(commands).type = "result"
        /\ commands' = Tail(commands) /\ events' = events
        /\ engine'.round = engine.round
    BY <1>0, <1>6 DEF TakeResult, Receives, Listening, EngineState
  <2>2. /\ Forwarded = Forwarded' \cup {c} /\ c \notin Forwarded' /\ ForwardedOnce'
    BY <1>a, <2>1, CommandTaken, ForwardedTaken DEF Apart
  <2>3. CASE engine' = engine
    <3>1. ToExecute' = ToExecute
      BY <2>1, <2>3 DEF ToExecute, ExecuteSent
    <3>2. QED
      BY <1>k, <1>a, <1>s, <1>x, <2>1, <2>2, <2>3, <3>1 DEF Apart
  <2>4. CASE engine' # engine
    <3> DEFINE result == Result(c, FALSE, engine.awaited \ {c} = {})
    <3>1. engine'.script = <<result>>
      BY <1>0, <1>6, <2>4 DEF TakeResult, EngineState
    <3>2. result.type = "result" /\ ~ result.interrupted /\ result.call = c
      BY DEF Result
    <3> HIDE DEF result
    <3>3. DOMAIN engine'.script = {1} /\ engine'.script[1] = result
      BY <3>1
    <3>4. Committed(engine'.script) = {c} /\ Once(engine'.script)
      BY <3>2, <3>3 DEF Committed, ResultAt, Once
    <3>5. ToExecute' => ToExecute
      BY <2>1, <3>2, <3>3 DEF ToExecute, ExecuteSent
    <3> HIDE DEF c
    <3>6. Apart'
      BY <1>a, <2>1, <2>2, <3>4 DEF Apart
    <3>7. QED
      BY <1>k, <1>x, <2>1, <2>2, <3>4, <3>5, <3>6
  <2>5. QED
    BY <2>3, <2>4
<1>7. CASE TakeBreak
  <2> DEFINE s == Head(commands).send
             script == Interruptions \o <<Message(s)>>
  <2>1. /\ engine.script = <<>> /\ commands # <<>> /\ Head(commands).type = "break"
        /\ commands' = Tail(commands) /\ events' = events
        /\ engine'.round = engine.round /\ engine'.script = script
    BY <1>0, <1>7 DEF TakeBreak, Receives, Listening, EngineState
  <2>2. s \in Sends
    BY <1>0, <2>1, HeadTail, CommandTypes
  <2>8. script = Interruptions \o <<Message(s)>>
    OBVIOUS
  <2> HIDE DEF script, s
  <2>3. \A i \in DOMAIN script : \/ script[i].type = "result" /\ script[i].interrupted
                                 \/ script[i].type = "message"
    <3>1. /\ Len(script) \in Nat \ {0} /\ DOMAIN script = 1..Len(script)
          /\ script[Len(script)] = Message(s)
          /\ \A i \in DOMAIN script : i < Len(script) =>
                script[i].type = "result" /\ script[i].interrupted
      BY <2>2, <2>8, InterruptionScript
    <3>2. QED
      BY <3>1 DEF Message
  <2>4. Committed(engine'.script) = {} /\ Once(engine'.script)
    BY <2>1, <2>3, NothingCommitted
  <2>5. ToExecute' => ToExecute
    BY <2>1, <2>3 DEF ToExecute, ExecuteSent
  <2>6. Forwarded' = Forwarded /\ ForwardedOnce'
    BY <1>a, <2>1, CommandTaken, ForwardedTaken DEF Apart
  <2>7. QED
    BY <1>k, <1>a, <1>x, <2>1, <2>4, <2>5, <2>6 DEF Apart
<1>8. ASSUME NEW outcome, End(outcome)
      PROVE  Placed'
  <2> DEFINE ended == [type |-> "ended"]
  <2>1. /\ engine'.script = <<>> /\ commands' = <<>> /\ events' = Append(events, ended)
        /\ engine'.round = engine.round
    BY <1>0, <1>8 DEF End, EngineState
  <2>2. ended \in Events /\ ended.type = "ended"
    BY EventTypes
  <2> HIDE DEF ended
  <2>3. Committed(events') = Committed(events) /\ Once(events')
    BY <1>0, <1>a, <2>1, <2>2, EventEmitted, OnceEmitted DEF Apart
  <2>4. ToExecute' => ToExecute
    BY <1>0, <2>1, <2>2, Appended DEF ToExecute, ExecuteSent
  <2>5. QED
    BY <1>k, <1>a, <1>e, <1>s, <1>x, <2>1, <2>3, <2>4 DEF Apart
<1>9. QED
  BY <1>1, <1>2, <1>3, <1>4, <1>5, <1>6, <1>7, <1>8
     DEF EngineNext, EngineCompletes, EngineCancelled, EngineFails

\* Under FreshCalls an execution is known by its call.
LEMMA ByCall ==
    ASSUME FreshCalls, NEW e \in Executions, NEW f \in Executions, e.call = f.call
    PROVE  e = f
<1>1. /\ e \in [round : Rounds, call : Calls] /\ e.call \in RoundCalls[e.round]
      /\ f \in [round : Rounds, call : Calls] /\ f.call \in RoundCalls[f.round]
  BY DEF Executions
<1>2. e.round = f.round
  BY <1>1 DEF FreshCalls
<1>3. QED
  BY <1>1, <1>2

\* The tools of the round that is to be executed are not known yet.
LEMMA UnknownYet ==
    ASSUME FreshCalls, Types, Ordered, ToExecute
    PROVE  engine.round \in Rounds /\ RoundCalls[engine.round] \cap KnownCalls = {}
<1>1. engine.round # NoRound
  <2>1. ASSUME NEW i \in DOMAIN events, events[i].type = "execute" PROVE engine.round # NoRound
    BY <2>1 DEF Ordered, EventOrder, EventAt
  <2>2. ASSUME NEW i \in DOMAIN engine.script, engine.script[i].type = "execute"
        PROVE  engine.round # NoRound
    BY <2>2 DEF Ordered, ScriptOrder, ScriptAt, Over
  <2>3. QED
    BY <2>1, <2>2 DEF ToExecute, ExecuteSent
<1>2. engine.round \in Rounds /\ engine.round \in Nat /\ Rounds \subseteq Nat
  BY <1>1, RoundFacts DEF Types, EngineState
<1>3. \A q \in StartedRounds : q \in Rounds /\ q # engine.round
  BY <1>2 DEF StartedRounds
<1>4. QED
  BY <1>2, <1>3 DEF FreshCalls, KnownCalls

\* The session takes the command to start the tools of the round.
LEMMA ExecuteTaken ==
    ASSUME Types, Types', Ordered, HandleExecute
    PROVE  /\ Head(events).round = engine.round /\ engine.round # NoRound
           /\ ToExecute /\ ~ ToExecute'
<1>0. events \in Seq(Events) /\ engine \in EngineState
  BY DEF Types
<1>1. /\ events # <<>> /\ Head(events).type = "execute" /\ events' = Tail(events)
      /\ UNCHANGED <<engine, settled>>
  BY DEF HandleExecute, MayHandle
<1>2. 1 \in DOMAIN events /\ Head(events) = events[1] /\ EventAt(1)
  BY <1>0, <1>1, HeadTail DEF Ordered, EventOrder
<1>3. ~ ExecuteSent'
  BY <1>1, <1>2, EventTaken
<1>4. \A i \in DOMAIN engine.script : engine.script[i].type # "execute"
  <2> SUFFICES ASSUME NEW i \in DOMAIN engine.script, engine.script[i].type = "execute"
               PROVE  FALSE
    OBVIOUS
  <2>1. events \in {<<>>, <<Started(engine.round)>>}
    BY DEF Ordered, ScriptOrder, ScriptAt
  <2>2. QED
    BY <1>1, <2>1 DEF Started
<1>5. QED
  BY <1>1, <1>2, <1>3, <1>4 DEF ToExecute, ExecuteSent, EventAt

\* No command to start tools appears when the session takes an event.
LEMMA NoNewExecute ==
    ASSUME Types, engine'.script = engine.script, events # <<>>, events' = Tail(events), ToExecute'
    PROVE  ToExecute
<1>1. events \in Seq(Events)
  BY DEF Types
<1>2. \A i \in DOMAIN events' : i + 1 \in DOMAIN events /\ events'[i] = events[i + 1]
  BY <1>1, HeadTail
<1>3. QED
  BY <1>2 DEF ToExecute, ExecuteSent

LEMMA PlacedCarries ==
    ASSUME Types, Types', Placed, OnePlace', OneCommit',
           engine'.round = engine.round, ToExecute' => ToExecute,
           Flight' \cup session'.completions \subseteq KnownCalls,
           session'.activeCalls \cup session'.interruptedCalls \subseteq KnownCalls,
           session'.completedRound = session.completedRound,
           \A q \in session'.interruptedRounds : q <= engine.round
    PROVE  Placed'
<1>1. KnownCalls \subseteq KnownCalls'
  BY StartedStays
<1>2. NothingEarly'
  BY <1>1 DEF Placed, NothingEarly
<1>3. QED
  BY <1>2 DEF Placed

LEMMA PlacedExecute ==
    ASSUME FreshCalls, Types, Types', Ordered, Placed, HandleExecute
    PROVE  Placed'
<1> DEFINE r == engine.round
           completed == IF session.completedRound = r THEN session.completed ELSE {}
           asked == ToStart(r, completed)
<1>1. Head(events).round = r /\ r # NoRound /\ ToExecute /\ ~ ToExecute'
  BY ExecuteTaken
<1>2. r \in Rounds /\ RoundCalls[r] \cap KnownCalls = {}
  BY <1>1, UnknownYet
<1>3. /\ UNCHANGED <<engine, results, commands, answered>> /\ session.ready = <<>>
      /\ events # <<>> /\ events' = Tail(events) /\ Head(events).type = "execute"
      /\ session \in SessionState /\ running \subseteq Executions /\ answered \subseteq Executions
      /\ events \in Seq(Events)
  BY DEF HandleExecute, MayHandle, Types
<1>4. /\ \A exec \in asked : exec.call \in RoundCalls[r]
      /\ \A e, f \in asked : e.call = f.call => e = f
  BY DEF ToStart
<1>5. PICK local \in SUBSET asked :
        /\ \/ session'.ready = <<>> /\ running' = running
           \/ /\ session'.ready = SetToSeq({exec.call : exec \in local})
              /\ running' = running \cup (asked \ local)
        /\ session'.completions = session.completions /\ session'.completedRound = r
        /\ session'.activeCalls = RoundCalls[r]
        /\ session'.interruptedCalls \subseteq session.interruptedCalls \cup RoundCalls[r]
        /\ session'.interruptedRounds \subseteq session.interruptedRounds \cup {r}
  <2>1. CASE Detached(r)
    <3> DEFINE entered == [session EXCEPT !.completed = completed, !.completedRound = r,
                         !.activeRound = r, !.activeCalls = RoundCalls[r]]
    <3>0. /\ session' = [entered EXCEPT !.interruptedRounds = @ \cup {r},
                                   !.interruptedCalls = @ \cup RoundCalls[r]]
          /\ running' = running
      BY <1>1, <2>1 DEF HandleExecute
    <3> HIDE DEF asked, completed, r
    <3>1. /\ running' = running
          /\ session'.ready = <<>> /\ session'.completions = session.completions
          /\ session'.completedRound = r /\ session'.activeCalls = RoundCalls[r]
          /\ session'.interruptedCalls = session.interruptedCalls \cup RoundCalls[r]
          /\ session'.interruptedRounds = session.interruptedRounds \cup {r}
      BY <1>3, <3>0 DEF SessionState
    <3>2. QED
      BY <3>1
  <2>2. CASE ~ Detached(r)
    <3> DEFINE entered == [session EXCEPT !.completed = completed, !.completedRound = r,
                         !.activeRound = r, !.activeCalls = RoundCalls[r]]
    <3>1. PICK local \in SUBSET asked :
            /\ session' = [entered EXCEPT !.ready = SetToSeq({exec.call : exec \in local})]
            /\ running' = running \cup (asked \ local)
      BY <1>1, <2>2 DEF HandleExecute
    <3>2. /\ session'.ready = SetToSeq({exec.call : exec \in local})
          /\ session'.completions = session.completions
          /\ session'.completedRound = r /\ session'.activeCalls = RoundCalls[r]
          /\ session'.interruptedCalls = session.interruptedCalls
          /\ session'.interruptedRounds = session.interruptedRounds
      BY <1>3, <3>1 DEF SessionState
    <3> HIDE DEF asked
    <3>3. QED
      BY <3>1, <3>2
  <2>3. QED
    BY <2>1, <2>2
<1> DEFINE here == {exec.call : exec \in local}
           there == {exec.call : exec \in asked \ local}
<1>6. here \subseteq RoundCalls[r] /\ there \subseteq RoundCalls[r] /\ here \cap there = {}
  BY <1>4
<1>7. SetToSeq(here) \in Seq(Calls) /\ IsInjective(SetToSeq(here)) /\ Range(SetToSeq(here)) = here
  <2>1. IsFiniteSet(here) /\ here \in SUBSET Calls
    BY <1>2, <1>6, RoundFacts, FS_Subset
  <2> HIDE DEF here
  <2>2. QED
    BY <2>1, SetAsSequence
<1>8. Range(<<>>) = {} /\ IsInjective(<<>>)
  BY DEF Range, IsInjective
<1>9. Flight \cup session.completions \subseteq KnownCalls
  BY DEF Placed, NothingEarly
<1>10. KnownCalls \cup RoundCalls[r] \subseteq KnownCalls'
  <2>1. r \in Nat /\ Rounds \subseteq Nat
    BY <1>2, RoundFacts
  <2>2. r \in StartedRounds'
    BY <1>1, <1>2, <1>3, <2>1 DEF StartedRounds
  <2>3. RoundCalls[r] \subseteq KnownCalls'
    BY <2>2 DEF KnownCalls
  <2>4. KnownCalls \subseteq KnownCalls'
    BY <1>1, <1>3, StartedStays
  <2>5. QED
    BY <2>3, <2>4
<1>11. /\ \/ Range(session'.ready) = {} /\ Asked' = Asked /\ running' = running
          \/ /\ Range(session'.ready) = here /\ Asked' = Asked \cup there
             /\ running' = running \cup (asked \ local)
       /\ IsInjective(session'.ready)
  <2>1. CASE session'.ready = <<>> /\ running' = running
    BY <1>3, <1>8, <2>1 DEF Asked
  <2>2. CASE session'.ready = SetToSeq(here) /\ running' = running \cup (asked \ local)
    <3> HIDE DEF asked
    <3>1. Asked' = Asked \cup there
      BY <1>3, <2>2 DEF Asked
    <3>2. QED
      BY <1>7, <2>2, <3>1
  <2>3. QED
    BY <1>5, <2>1, <2>2
<1>12. \A exec \in answered : exec \notin asked
  BY <1>2, <1>4, <1>9 DEF Flight, Asked
<1> HIDE DEF here, there, asked, completed, r
<1>13. Flight' \subseteq Flight \cup here \cup there
  BY <1>3, <1>8, <1>11 DEF Flight
<1>14. Asked \subseteq KnownCalls /\ Range(results) \subseteq KnownCalls
  BY <1>9 DEF Flight
<1>15. OnePlace'
  <2>1. running' \cap answered' = {}
    BY <1>3, <1>11, <1>12 DEF Placed, OnePlace
  <2>2. Asked' \cap Range(results)' = {} /\ IsInjective(results)'
    BY <1>2, <1>3, <1>6, <1>11, <1>14 DEF Placed, OnePlace
  <2>3. Asked' \cap Range(session.ready)' = {} /\ Range(results)' \cap Range(session.ready)' = {}
    BY <1>2, <1>3, <1>6, <1>11, <1>14
  <2>4. QED
    BY <1>11, <2>1, <2>2, <2>3 DEF OnePlace
<1>16. OneCommit'
  <2>1. Flight' \cap session'.completions = {}
    BY <1>2, <1>5, <1>6, <1>9, <1>13 DEF Placed, OneCommit
  <2>2. Committed(events') = Committed(events) /\ Once(events')
    BY <1>3, EventHandled, OnceHandled, ZenonT(60) DEF Placed, OneCommit, Apart
  <2>3. QED
    BY <1>3, <1>5, <2>1, <2>2 DEF Placed, OneCommit, Apart, Forwarded, ForwardedOnce
<1>17. NothingEarly'
  <2>0. Rounds \subseteq Nat
    BY RoundFacts
  <2>1. r \in Nat /\ session.interruptedRounds \subseteq Nat
    BY <1>2, <1>3, <2>0 DEF SessionState
  <2>2. Flight' \cup session'.completions \subseteq KnownCalls'
    BY <1>5, <1>6, <1>9, <1>10, <1>13
  <2>3. session'.activeCalls \cup session'.interruptedCalls \subseteq KnownCalls'
    BY <1>5, <1>10 DEF Placed, NothingEarly
  <2>4. session'.completedRound <= engine'.round
    BY <1>3, <1>5, <2>1 DEF r
  <2>5. \A q \in session'.interruptedRounds : q <= engine'.round
    BY <1>3, <1>5, <2>1 DEF r, Placed, NothingEarly
  <2>6. QED
    BY <1>1, <2>2, <2>3, <2>4, <2>5 DEF NothingEarly
<1>18. QED
  BY <1>15, <1>16, <1>17 DEF Placed

LEMMA PlacedCommit ==
    ASSUME Types, Types', Ordered, Placed, HandleResultCommit
    PROVE  Placed'
<1> DEFINE event == Head(events)
           own == IF event.interrupted THEN {} ELSE {event.call}
<1>1. /\ UNCHANGED <<settled, results, commands, answered>> /\ session.ready = <<>>
      /\ events # <<>> /\ events' = Tail(events) /\ event.type = "result"
      /\ session \in SessionState /\ engine \in EngineState /\ events \in Seq(Events)
  BY DEF HandleResultCommit, MayHandle, Types
<1>2. /\ Committed(events) = Committed(events') \cup own /\ own \cap Committed(events') = {}
      /\ Once(events')
  BY <1>1, EventHandled, OnceHandled DEF Placed, OneCommit, Apart
<1>3. /\ engine'.script = engine.script /\ engine'.round = engine.round
      /\ running' \subseteq running
      /\ session'.completions \in {session.completions, session.completions \ own}
      /\ session'.ready = session.ready /\ session'.completedRound = session.completedRound
      /\ session'.interruptedCalls = session.interruptedCalls
      /\ session'.interruptedRounds \subseteq session.interruptedRounds
      /\ session'.activeCalls \subseteq session.activeCalls
  <2> DEFINE noted == [session EXCEPT !.completed = @ \cup {event.call},
                         !.completions = IF event.interrupted THEN @ ELSE @ \ {event.call}]
  <2>1. CASE CommitError(event) # "none"
    BY <1>1, <2>1 DEF HandleResultCommit, SessionFails, SessionState
  <2>2. CASE CommitError(event) = "none"
    <3>1. /\ session' = IF SettledByNow THEN RoundOver(noted) ELSE noted
          /\ engine' = IF SettledByNow THEN [engine EXCEPT !.waiting = FALSE] ELSE engine
          /\ running' = running
      BY <2>2 DEF HandleResultCommit
    <3>2. /\ noted.completions \in {session.completions, session.completions \ own}
          /\ noted.ready = session.ready /\ noted.completedRound = session.completedRound
          /\ noted.interruptedCalls = session.interruptedCalls
          /\ noted.interruptedRounds = session.interruptedRounds
          /\ noted.activeCalls = session.activeCalls
          /\ RoundOver(noted).completions = noted.completions
          /\ RoundOver(noted).ready = noted.ready
          /\ RoundOver(noted).completedRound = noted.completedRound
          /\ RoundOver(noted).interruptedCalls = noted.interruptedCalls
          /\ RoundOver(noted).interruptedRounds \subseteq noted.interruptedRounds
          /\ RoundOver(noted).activeCalls = {}
      BY <1>1 DEF SessionState, RoundOver
    <3>3. engine'.script = engine.script /\ engine'.round = engine.round
      BY <1>1, <3>1 DEF EngineState
    <3> HIDE DEF noted, own
    <3>4. CASE SettledByNow
      BY <3>1, <3>2, <3>3, <3>4
    <3>5. CASE ~ SettledByNow
      BY <3>1, <3>2, <3>3, <3>5
    <3>6. QED
      BY <3>4, <3>5
  <2>3. QED
    BY <2>1, <2>2
<1> HIDE DEF event, own
<1>4. ToExecute' => ToExecute
  BY <1>1, <1>3, NoNewExecute
<1>5. Asked' \subseteq Asked
  BY <1>1, <1>3 DEF Asked
<1>6. Flight' \subseteq Flight /\ OnePlace'
  BY <1>1, <1>3, <1>5 DEF Flight, Placed, OnePlace
<1>7. Forwarded' = Forwarded /\ ForwardedOnce' = ForwardedOnce
  BY <1>1 DEF Forwarded, ForwardedOnce
<1>8. OneCommit'
  BY <1>2, <1>3, <1>6, <1>7 DEF Placed, OneCommit, Apart
<1>9. \A q \in session'.interruptedRounds : q <= engine.round
  BY <1>3 DEF Placed, NothingEarly
<1>10. Flight' \cup session'.completions \subseteq KnownCalls
  BY <1>3, <1>6 DEF Placed, NothingEarly
<1>11. session'.activeCalls \cup session'.interruptedCalls \subseteq KnownCalls
  BY <1>3 DEF Placed, NothingEarly
<1>12. QED
  BY <1>3, <1>4, <1>6, <1>8, <1>9, <1>10, <1>11, PlacedCarries

\* What forward_completion does to a completion that was at one place.
LEMMA PlacedForward ==
    ASSUME Types, Types', Ordered, Placed, HandleCompletion
    PROVE  Placed'
<1>0. /\ session \in SessionState /\ session.ready \in Seq(Calls) /\ results \in Seq(Calls)
      /\ UNCHANGED <<engine, events, answered>>
  BY DEF Types, SessionState, HandleCompletion
<1>1. PICK c \in Calls, now \in SessionState :
        /\ Forward(c, now) /\ now = [session EXCEPT !.ready = now.ready]
        /\ \/ /\ session.ready # <<>> /\ c = Head(session.ready) /\ now.ready = Tail(session.ready)
              /\ UNCHANGED results
           \/ /\ results # <<>> /\ c = Head(results) /\ results' = Tail(results)
              /\ now.ready = session.ready
  <2>1. CASE session.ready # <<>>
    <3> DEFINE now == [session EXCEPT !.ready = Tail(@)]
    <3>1. Head(session.ready) \in Calls /\ Tail(session.ready) \in Seq(Calls)
      BY <1>0, <2>1, HeadTail
    <3>2. now \in SessionState /\ now.ready = Tail(session.ready)
      BY <1>0, <3>1 DEF SessionState
    <3>3. now = [session EXCEPT !.ready = now.ready]
      BY <1>0, <3>2
    <3>4. Forward(Head(session.ready), now) /\ UNCHANGED results
      BY <2>1 DEF HandleCompletion
    <3> HIDE DEF now
    <3>5. QED
      BY <2>1, <3>1, <3>2, <3>3, <3>4
  <2>2. CASE session.ready = <<>>
    <3>1. results # <<>> /\ Forward(Head(results), session) /\ results' = Tail(results)
      BY <2>2 DEF HandleCompletion
    <3>2. Head(results) \in Calls
      BY <1>0, <3>1, HeadTail
    <3>3. session = [session EXCEPT !.ready = session.ready]
      BY <1>0 DEF SessionState
    <3>4. QED
      BY <1>0, <3>1, <3>2, <3>3
  <2>3. QED
    BY <2>1, <2>2
<1>2. /\ now.completions = session.completions /\ now.completedRound = session.completedRound
      /\ now.interruptedCalls = session.interruptedCalls /\ now.activeCalls = session.activeCalls
      /\ now.interruptedRounds = session.interruptedRounds
  BY <1>0, <1>1 DEF SessionState
<1>3. /\ c \in Range(results) \cup Range(session.ready)
      /\ Range(results') \cup Range(now.ready) \subseteq (Range(results) \cup Range(session.ready)) \ {c}
      /\ Range(results') \cap Range(now.ready) = {}
      /\ IsInjective(results') /\ IsInjective(now.ready)
  <2>1. /\ Range(results) \cap Range(session.ready) = {}
        /\ IsInjective(results) /\ IsInjective(session.ready)
    BY DEF Placed, OnePlace
  <2>2. CASE /\ session.ready # <<>> /\ c = Head(session.ready) /\ now.ready = Tail(session.ready)
             /\ UNCHANGED results
    <3>1. /\ Range(session.ready) = Range(now.ready) \cup {c} /\ c \notin Range(now.ready)
          /\ IsInjective(now.ready)
      BY <1>0, <2>1, <2>2, Shorter
    <3>2. QED
      BY <2>1, <2>2, <3>1
  <2>3. CASE /\ results # <<>> /\ c = Head(results) /\ results' = Tail(results)
             /\ now.ready = session.ready
    <3>1. /\ Range(results) = Range(results') \cup {c} /\ c \notin Range(results')
          /\ IsInjective(results')
      BY <1>0, <2>1, <2>3, Shorter
    <3>2. QED
      BY <2>1, <2>3, <3>1
  <2>4. QED
    BY <1>1, <2>2, <2>3
<1>4. /\ c \in Flight /\ c \notin session.completions /\ c \notin Asked
      /\ c \notin Forwarded \cup Committed(events) \cup Committed(engine.script)
  BY <1>3 DEF Placed, OnePlace, OneCommit, Flight
<1>5. /\ session'.completedRound = session.completedRound
      /\ session'.interruptedCalls = session.interruptedCalls
      /\ session'.activeCalls = session.activeCalls
      /\ session'.interruptedRounds = session.interruptedRounds
      /\ session'.ready = now.ready
      /\ running' = running
      /\ \/ session'.completions = session.completions /\ commands' = commands
         \/ /\ session'.completions = session.completions \cup {c}
            /\ commands' = Append(commands, [type |-> "result", call |-> c])
  <2>1. CASE session' = now /\ running' = running /\ commands' = commands
    BY <1>2, <2>1
  <2>2. CASE /\ session' = [now EXCEPT !.completions = @ \cup {c}] /\ running' = running
             /\ commands' = Append(commands, [type |-> "result", call |-> c])
    BY <1>1, <1>2, <2>2 DEF SessionState
  <2>3. QED
    BY <1>1, <1>4, <2>1, <2>2 DEF Forward
<1>6. Asked' = Asked
  BY <1>0, <1>5 DEF Asked
<1>7. Flight' \subseteq Flight \ {c} /\ OnePlace'
  BY <1>0, <1>3, <1>4, <1>5, <1>6 DEF Flight, Placed, OnePlace
<1>8. ToExecute' => ToExecute
  BY <1>0 DEF ToExecute, ExecuteSent
<1>9. OneCommit'
  <2>1. CASE session'.completions = session.completions /\ commands' = commands
    BY <1>0, <1>7, <2>1 DEF Placed, OneCommit, Apart, Forwarded, ForwardedOnce
  <2>2. CASE /\ session'.completions = session.completions \cup {c}
             /\ commands' = Append(commands, [type |-> "result", call |-> c])
    <3> DEFINE command == [type |-> "result", call |-> c]
    <3>1. command \in Commands /\ command.type = "result" /\ command.call = c
      BY CommandTypes
    <3> HIDE DEF command
    <3>2. Forwarded' = Forwarded \cup {c} /\ ForwardedOnce'
      BY <1>4, <2>2, <3>1, CommandSent, ForwardedSent DEF command, Placed, OneCommit, Apart
    <3>3. Committed(events)' = Committed(events) /\ Committed(engine.script)' = Committed(engine.script)
          /\ Once(events)' = Once(events) /\ Once(engine.script)' = Once(engine.script)
      BY ONLY <1>0
    <3>4. OneCommit
      BY DEF Placed
    <3>5. Apart'
      BY ONLY <1>4, <3>2, <3>3, <3>4 DEF OneCommit, Apart
    <3>6. Flight' \cap session'.completions = {}
      BY ONLY <1>7, <2>2, <3>4 DEF OneCommit
    <3>7. Forwarded' \cup Committed(events)' \cup Committed(engine.script)' \subseteq session'.completions
      BY ONLY <2>2, <3>2, <3>3, <3>4 DEF OneCommit
    <3>8. QED
      BY ONLY <3>5, <3>6, <3>7 DEF OneCommit
  <2>3. QED
    BY <1>5, <2>1, <2>2
<1>10. Flight' \cup session'.completions \subseteq KnownCalls
  BY <1>4, <1>5, <1>7 DEF Placed, NothingEarly
<1>11. /\ session'.activeCalls \cup session'.interruptedCalls \subseteq KnownCalls
       /\ \A q \in session'.interruptedRounds : q <= engine.round
  BY <1>5 DEF Placed, NothingEarly
<1>12. QED
  BY <1>0, <1>5, <1>7, <1>8, <1>9, <1>10, <1>11, PlacedCarries

LEMMA PlacedSession ==
    ASSUME FreshCalls, Types, Types', Ordered, Placed, SessionNext
    PROVE  Placed'
<1>0. /\ session \in SessionState /\ engine \in EngineState /\ events \in Seq(Events)
      /\ engine.round \in Rounds \cup {NoRound}
  BY DEF Types, EngineState
<1>k. ASSUME UNCHANGED <<results, answered, commands>>, running' \subseteq running,
             engine'.script = engine.script, engine'.round = engine.round,
             events' = events \/ (events # <<>> /\ events' = Tail(events)
                                    /\ Head(events).type # "result"),
             session'.ready = session.ready, session'.completions = session.completions,
             session'.completedRound = session.completedRound,
             session'.activeCalls \cup session'.interruptedCalls \subseteq KnownCalls,
             \A q \in session'.interruptedRounds : q <= engine.round
      PROVE  Placed'
  <2>1. Asked' \subseteq Asked
    BY <1>k DEF Asked
  <2>2. Flight' \subseteq Flight /\ OnePlace'
    BY <1>k, <2>1 DEF Flight, Placed, OnePlace
  <2>3. Committed(events') = Committed(events) /\ Once(events')
    <3>1. CASE events' = events
      BY <3>1 DEF Placed, OneCommit, Apart
    <3>2. CASE events # <<>> /\ events' = Tail(events) /\ Head(events).type # "result"
      <4>1. Once(events)
        BY DEF Placed, OneCommit, Apart
      <4>2. Types
        OBVIOUS
      <4>3. Committed(events') = Committed(events)
        BY ONLY <1>0, <3>2, <4>2, EventHandled
      <4>4. Once(events')
        BY ONLY <1>0, <3>2, <4>1, <4>2, OnceHandled
      <4>5. QED
        BY ONLY <4>3, <4>4
    <3>3. QED
      BY <1>k, <3>1, <3>2
  <2>4. Forwarded' = Forwarded /\ ForwardedOnce' = ForwardedOnce
    BY <1>k DEF Forwarded, ForwardedOnce
  <2>5. OneCommit'
    BY <1>k, <2>2, <2>3, <2>4 DEF Placed, OneCommit, Apart
  <2>6. ToExecute' => ToExecute
    <3>1. CASE events' = events
      BY <1>k, <3>1 DEF ToExecute, ExecuteSent
    <3>2. CASE events # <<>> /\ events' = Tail(events)
      BY <1>k, <3>2, NoNewExecute
    <3>3. QED
      BY <1>k, <3>1, <3>2
  <2>7. Flight' \cup session'.completions \subseteq KnownCalls
    BY <1>k, <2>2 DEF Placed, NothingEarly
  <2>8. QED
    BY <1>k, <2>2, <2>5, <2>6, <2>7, PlacedCarries
<1>a. /\ session.activeCalls \cup session.interruptedCalls \subseteq KnownCalls
      /\ \A q \in session.interruptedRounds : q <= engine.round
  BY DEF Placed, NothingEarly
<1>1. CASE HandleAction
  <2>1. /\ session'.ready = session.ready /\ session'.completions = session.completions
        /\ session'.completedRound = session.completedRound
        /\ session'.activeCalls = session.activeCalls /\ session'.interruptedCalls = InterruptedNow
        /\ session'.interruptedRounds =
             session.interruptedRounds \cup ({session.activeRound} \ {NoRound})
        /\ UNCHANGED <<results, answered, commands, engine, events>> /\ running' = {}
        /\ session.status = "open"
    BY <1>0, <1>1 DEF HandleAction, SessionState, Open
  <2>2. session.activeRound # NoRound => session.activeRound = engine.round
    BY <2>1 DEF Ordered, RoundsAgree
  <2>3. engine.round \in Nat
    BY <1>0, RoundFacts DEF NoRound
  <2>4. QED
    BY <1>k, <1>a, <2>1, <2>2, <2>3 DEF InterruptedNow
<1>2. CASE HandleStarted
  <2>1. /\ session'.ready = session.ready /\ session'.completions = session.completions
        /\ session'.completedRound = session.completedRound
        /\ session'.activeCalls = session.activeCalls
        /\ session'.interruptedCalls = session.interruptedCalls
        /\ session'.interruptedRounds = session.interruptedRounds
    BY <1>0, <1>2 DEF HandleStarted, SessionState
  <2>2. QED
    BY <1>2, <1>k, <1>a, <2>1 DEF HandleStarted, MayHandle
<1>3. CASE HandleMessageCommit
  <2>1. /\ session'.ready = session.ready /\ session'.completions = session.completions
        /\ session'.completedRound = session.completedRound
        /\ session'.activeCalls = session.activeCalls
        /\ session'.interruptedCalls = session.interruptedCalls
        /\ session'.interruptedRounds = session.interruptedRounds
        /\ engine'.script = engine.script /\ engine'.round = engine.round
    BY <1>0, <1>3 DEF HandleMessageCommit, SessionState, EngineState
  <2>2. QED
    BY <1>3, <1>k, <1>a, <2>1 DEF HandleMessageCommit, MayHandle
<1>4. CASE HandleFinal
  <2>1. engine'.script = engine.script /\ engine'.round = engine.round
    BY <1>0, <1>4 DEF HandleFinal, EngineState
  <2>2. QED
    BY <1>4, <1>k, <1>a, <2>1 DEF HandleFinal, MayHandle
<1>5. CASE HandleEnded
  <2>1. /\ session'.ready = session.ready /\ session'.completions = session.completions
        /\ session'.completedRound = session.completedRound
        /\ session'.activeCalls = session.activeCalls
        /\ session'.interruptedCalls = session.interruptedCalls
        /\ session'.interruptedRounds = session.interruptedRounds
        /\ running' \subseteq running
    BY <1>0, <1>5 DEF HandleEnded, SessionState
  <2>2. QED
    BY <1>5, <1>k, <1>a, <2>1 DEF HandleEnded, MayHandle
<1>6. QED
  BY <1>1, <1>2, <1>3, <1>4, <1>5, PlacedExecute, PlacedCommit, PlacedForward DEF SessionNext

LEMMA PlacedStep ==
    ASSUME FreshCalls, Types, Types', Ordered, Ordered', Placed, [Next]_vars
    PROVE  Placed'
<1>0. /\ running \subseteq Executions /\ answered \subseteq Executions
      /\ results \in Seq(Calls)
  BY DEF Types
<1>a. OnePlace /\ OneCommit /\ NothingEarly
  BY DEF Placed
<1>k. ASSUME UNCHANGED <<engine, events, session>>, OnePlace', Flight' \subseteq Flight,
             Forwarded' = Forwarded, ForwardedOnce'
      PROVE  Placed'
  <2>1. ToExecute' = ToExecute
    BY <1>k DEF ToExecute, ExecuteSent
  <2>2. OneCommit'
    BY <1>a, <1>k DEF OneCommit, Apart
  <2>3. QED
    BY <1>a, <1>k, <2>1, <2>2, PlacedCarries DEF NothingEarly
<1>f. ASSUME UNCHANGED commands PROVE Forwarded' = Forwarded /\ ForwardedOnce'
  BY <1>a, <1>f DEF Forwarded, ForwardedOnce, OneCommit, Apart
<1>1. CASE EngineNext
  BY <1>1, PlacedEngine
<1>2. CASE SessionNext
  BY <1>2, PlacedSession
<1>3. ASSUME NEW s \in Sends, SendMessage(s)
      PROVE  Placed'
  <2>1. UNCHANGED <<engine, events, session, running, answered, results, commands>>
    BY <1>3 DEF SendMessage
  <2>2. Flight' = Flight /\ OnePlace'
    BY <1>a, <2>1 DEF Flight, OnePlace, Asked
  <2>3. QED
    BY <1>k, <1>f, <2>1, <2>2
<1>4. ASSUME NEW s \in Sends, Deliver(s)
      PROVE  Placed'
  <2> DEFINE command == [type |-> "break", send |-> s]
  <2>1. /\ UNCHANGED <<engine, events, session, running, answered, results>>
        /\ commands' = commands \/ commands' = Append(commands, command)
    BY <1>4 DEF Deliver
  <2>2. Flight' = Flight /\ OnePlace'
    BY <1>a, <2>1 DEF Flight, OnePlace, Asked
  <2>3. command \in Commands /\ command.type = "break"
    BY CommandTypes
  <2> HIDE DEF command
  <2>4. ASSUME commands' = Append(commands, command)
        PROVE  Forwarded' = Forwarded /\ ForwardedOnce'
    BY <1>a, <2>3, <2>4, CommandSent, ForwardedSent DEF OneCommit, Apart
  <2>5. QED
    BY <1>k, <1>f, <2>1, <2>2, <2>4
<1>5. ASSUME NEW exec \in running, ToolAnswers(exec)
      PROVE  Placed'
  <2>1. /\ running' = running \ {exec} /\ answered' = answered \cup {exec}
        /\ UNCHANGED <<engine, events, session, results, commands>>
    BY <1>5 DEF ToolAnswers
  <2>2. Asked' = Asked
    BY <2>1 DEF Asked
  <2>3. Flight' = Flight /\ OnePlace'
    BY <1>a, <2>1, <2>2 DEF Flight, OnePlace
  <2>4. QED
    BY <1>k, <1>f, <2>1, <2>3
<1>6. ASSUME NEW exec \in answered, PassOnAnswer(exec)
      PROVE  Placed'
  <2> DEFINE c == exec.call
  <2>1. /\ running' = running /\ answered' = answered \ {exec} /\ results' = Append(results, c)
        /\ UNCHANGED <<engine, events, session, commands>>
    BY <1>6 DEF PassOnAnswer
  <2>2. exec \in Executions /\ c \in Calls /\ c \in Asked
    BY <1>0 DEF Executions, Asked
  <2>3. \A other \in running \cup (answered \ {exec}) : other.call # c
    <3> SUFFICES ASSUME NEW other \in running \cup (answered \ {exec}), other.call = c
                 PROVE  FALSE
      OBVIOUS
    <3>1. other \in Executions /\ other # exec
      BY <1>0, <1>a DEF OnePlace
    <3>2. QED
      BY <2>2, <3>1, ByCall
  <2>4. Asked' \subseteq Asked \ {c}
    BY <2>1, <2>3 DEF Asked
  <2>5. Range(results') = Range(results) \cup {c} /\ IsInjective(results')
    BY <1>0, <1>a, <2>1, <2>2, Longer DEF OnePlace
  <2> HIDE DEF c
  <2>6. Flight' \subseteq Flight
    BY <2>1, <2>2, <2>4, <2>5 DEF Flight
  <2>7. OnePlace'
    BY <1>a, <2>1, <2>2, <2>4, <2>5 DEF OnePlace
  <2>8. QED
    BY <1>k, <1>f, <2>1, <2>6, <2>7
<1>7. CASE Cancel
  <2>1. running' = {} /\ UNCHANGED <<engine, events, session, answered, results, commands>>
    BY <1>7 DEF Cancel, channels
  <2>2. Asked' \subseteq Asked
    BY <2>1 DEF Asked
  <2>3. Flight' \subseteq Flight /\ OnePlace'
    BY <1>a, <2>1, <2>2 DEF Flight, OnePlace
  <2>4. QED
    BY <1>k, <1>f, <2>1, <2>3
<1>8. CASE UNCHANGED vars
  <2>1. UNCHANGED <<engine, events, session, running, answered, results, commands>>
    BY <1>8 DEF vars
  <2>2. Flight' = Flight /\ OnePlace'
    BY <1>a, <2>1 DEF Flight, OnePlace, Asked
  <2>3. QED
    BY <1>k, <1>f, <2>1, <2>2
<1>9. QED
  BY <1>1, <1>2, <1>3, <1>4, <1>5, <1>6, <1>7, <1>8 DEF Next

\* The session never meets a commit or a completion it cannot place.
PlacingErrors == {"no active round", "no typed state", "duplicate"}

LEMMA NoPlacingError ==
    ASSUME Types, Ordered, Placed, [Next]_vars, session.error \notin PlacingErrors
    PROVE  session'.error \notin PlacingErrors
<1>0. session \in SessionState /\ events \in Seq(Events)
  BY DEF Types
<1>1. CASE HandleResultCommit
  <2> DEFINE event == Head(events)
  <2>1. /\ events # <<>> /\ event.type = "result" /\ session.status = "open"
    BY <1>1 DEF HandleResultCommit, MayHandle, Open
  <2>2. session.activeRound # NoRound
    BY <2>1, CommitsFindTheirRound
  <2>3. ~ event.interrupted => event.call \in session.completions
    BY <1>0, <2>1, EventHandled DEF Placed, OneCommit
  <2>4. CommitError(event) \in {"none", "no completion barrier"}
    BY <2>2, <2>3 DEF CommitError
  <2>5. session'.error \in {session.error, CommitError(event)}
    BY <1>0, <1>1 DEF HandleResultCommit, SessionFails, RoundOver, SessionState
  <2>6. CommitError(event) = "none" => session'.error = session.error
    BY <1>0, <1>1 DEF HandleResultCommit, RoundOver, SessionState
  <2>7. QED
    BY <2>4, <2>5, <2>6 DEF PlacingErrors
<1>2. CASE HandleCompletion
  <2>1. \A c \in Range(results) \cup Range(session.ready) : c \notin session.completions
    BY DEF Placed, OneCommit, Flight
  <2>2. session.ready \in Seq(Calls) /\ results \in Seq(Calls)
    BY <1>0 DEF Types, SessionState
  <2>3. ASSUME NEW c, c \notin session.completions, NEW now \in SessionState,
               now.error = session.error, Forward(c, now)
        PROVE  session'.error = session.error
    BY <2>3 DEF Forward, SessionState
  <2>4. CASE session.ready # <<>>
    <3> DEFINE now == [session EXCEPT !.ready = Tail(@)]
    <3>1. now \in SessionState /\ now.error = session.error
      BY <1>0, <2>2, <2>4, HeadTail DEF SessionState
    <3>2. Forward(Head(session.ready), now)
      BY <1>2, <2>4 DEF HandleCompletion
    <3>3. Head(session.ready) \in Range(session.ready)
      BY <2>2, <2>4, Shorter
    <3> HIDE DEF now
    <3>4. QED
      BY <2>1, <2>3, <3>1, <3>2, <3>3
  <2>5. CASE session.ready = <<>>
    <3>1. results # <<>> /\ Forward(Head(results), session)
      BY <1>2, <2>5 DEF HandleCompletion
    <3>2. Head(results) \in Range(results)
      BY <2>2, <3>1, Shorter
    <3>3. QED
      BY <1>0, <2>1, <2>3, <3>1, <3>2
  <2>6. QED
    BY <2>4, <2>5
<1>3. CASE HandleAction \/ HandleStarted \/ HandleExecute \/ HandleMessageCommit \/ HandleFinal
             \/ HandleEnded
  BY <1>0, <1>3 DEF HandleAction, HandleStarted, HandleExecute, HandleMessageCommit, HandleFinal,
     HandleEnded, SessionState
<1>4. ASSUME UNCHANGED session PROVE session'.error = session.error
  BY <1>4
<1>5. CASE EngineNext \/ UNCHANGED vars \/ Cancel
  BY <1>4, <1>5 DEF EngineNext, ModelCallsTools, ModelEndsTurn, DrainAccepted, EngineEmits,
     EngineSkipsMessage, EngineContinues, TakeResult, TakeBreak, EngineCompletes, EngineCancelled,
     EngineFails, End, Cancel, vars
<1>6. ASSUME NEW s, SendMessage(s) \/ Deliver(s) PROVE session'.error = session.error
  BY <1>4, <1>6 DEF SendMessage, Deliver
<1>7. ASSUME NEW exec, ToolAnswers(exec) \/ PassOnAnswer(exec) PROVE session'.error = session.error
  BY <1>4, <1>7 DEF ToolAnswers, PassOnAnswer
<1>8. QED
  BY <1>1, <1>2, <1>3, <1>4, <1>5, <1>6, <1>7 DEF Next, SessionNext

-----------------------------------------------------------------------------
(* A message is at one place.                                               *)

LEMMA BreakTaken ==
    ASSUME Types, commands # <<>>, commands' = Tail(commands), BreaksOnce
    PROVE  /\ BreaksOnce'
           /\ Head(commands).type = "break" => Head(commands).send \notin Accepted'
<1> DEFINE first == Head(commands)
<1>1. /\ first = commands[1] /\ 1 \in DOMAIN commands
      /\ \A i \in DOMAIN commands' :
           i \in Nat \ {0} /\ i + 1 \in DOMAIN commands /\ commands'[i] = commands[i + 1]
  BY HeadTail DEF Types
<1> HIDE DEF first
<1>2. \A i \in DOMAIN commands' : i + 1 # 1 /\ \A j \in DOMAIN commands' : i + 1 = j + 1 => i = j
  BY <1>1
<1>3. QED
  BY <1>1, <1>2 DEF BreaksOnce, BreakAt, Accepted, first

LEMMA BreakSent ==
    ASSUME Types, NEW command \in Commands, commands' = Append(commands, command),
           BreaksOnce, command.type = "break" => command.send \notin Accepted
    PROVE  BreaksOnce'
<1>1. /\ \A i \in DOMAIN commands : commands'[i] = commands[i]
      /\ \A i \in DOMAIN commands' : i \in DOMAIN commands \/ i = Len(commands) + 1
      /\ commands'[Len(commands) + 1] = command
  BY Appended DEF Types
<1>2. QED
  BY <1>1 DEF BreaksOnce, BreakAt, Accepted

\* The next event of the script is taken.
LEMMA MessagesOnceTaken ==
    ASSUME engine.script \in Seq(Events), engine.script # <<>>, engine'.script = Tail(engine.script),
           MessagesOnce
    PROVE  /\ MessagesOnce'
           /\ Head(engine.script).type = "message" =>
                Head(engine.script).id \notin MessageIds(engine'.script)
<1> DEFINE first == Head(engine.script)
           script == engine.script
           rest == engine'.script
<1>1. /\ first = script[1] /\ 1 \in DOMAIN script
      /\ \A i \in DOMAIN rest : i \in Nat \ {0} /\ i + 1 \in DOMAIN script /\ rest[i] = script[i + 1]
  BY HeadTail
<1>0. /\ MessagesOnce <=>
           \A i, j \in DOMAIN script :
              script[i].type = "message" /\ script[j].type = "message" /\ script[i].id = script[j].id
                => i = j
      /\ MessagesOnce' <=>
           \A i, j \in DOMAIN rest :
              rest[i].type = "message" /\ rest[j].type = "message" /\ rest[i].id = rest[j].id
                => i = j
  BY DEF MessagesOnce
<1> HIDE DEF first, script, rest
<1>2. \A i \in DOMAIN rest : i + 1 # 1 /\ \A j \in DOMAIN rest : i + 1 = j + 1 => i = j
  BY <1>1
<1>3. MessagesOnce'
  BY <1>0, <1>1, <1>2
<1>4. first.type = "message" => first.id \notin MessageIds(rest)
  BY <1>0, <1>1, <1>2 DEF MessageIds
<1>5. QED
  BY <1>3, <1>4 DEF first, rest

\* Messages that were sent are told apart by their ids, as long as none is sent again.
LEMMA ToldApart ==
    ASSUME ~ SentAgain, NEW s \in Sent, NEW t \in Sent, s # t
    PROVE  MessageId[s] # MessageId[t]
BY DEF SentAgain, Sent

LEMMA SentAgainStays ==
    ASSUME unsent' \subseteq unsent, SentAgain
    PROVE  SentAgain'
BY DEF SentAgain

LEMMA TravellingInit == Init => Travelling
<1> SUFFICES ASSUME Init PROVE Travelling
  OBVIOUS
<1>1. Accepted = {} /\ BreakAt = {} /\ MessageIds(engine.script) = {} /\ Range(actions) = {}
  BY NothingInEmpty DEF Init, Range
<1>2. QED
  BY <1>1 DEF Init, Travelling, Trips, New, BreaksOnce, MessagesOnce, IsInjective

LEMMA TravellingEngine ==
    ASSUME Types, Types', Kept, Travelling, EngineNext
    PROVE  Travelling'
<1>0. /\ engine \in EngineState /\ engine.script \in Seq(Events) /\ commands \in Seq(Commands)
      /\ delivering \subseteq Sends /\ actions \in Seq(Sends) /\ unsent \subseteq Sends
      /\ Accepted \subseteq Sends /\ (engine.pc = "ending" => engine.script = <<>>)
  BY BreaksFacts DEF Types, EngineState, Kept
<1>a. Trips /\ (~ SentAgain => New)
  BY DEF Travelling
<1>x. UNCHANGED <<actions, delivering, unsent>>
  BY DEF EngineNext, ModelCallsTools, ModelEndsTurn, DrainAccepted, EngineEmits, EngineSkipsMessage,
     EngineContinues, TakeResult, TakeBreak, EngineCompletes, EngineCancelled, EngineFails, End,
     channels, messages
<1>y. SentAgain' = SentAgain /\ Sent' = Sent
  BY <1>x DEF SentAgain, Sent
<1>r. Range(actions) \subseteq Sent /\ delivering \subseteq Sent /\ Accepted \subseteq Sent
  <2>1. Range(actions) \subseteq Sends
    BY <1>0 DEF Range
  <2>2. QED
    BY <1>0, <1>a, <2>1 DEF Trips, Sent
<1>c. ASSUME UNCHANGED commands PROVE Accepted' = Accepted /\ BreaksOnce'
  BY <1>a, <1>c DEF Accepted, BreakAt, Trips, BreaksOnce
<1>k. ASSUME Accepted' \subseteq Accepted, BreaksOnce',
             inserted' \cup MessageIds(engine'.script)
                \subseteq inserted \cup MessageIds(engine.script) \cup {MessageId[s] : s \in Accepted}
      PROVE  Trips'
  <2>1. {MessageId[s] : s \in Accepted} \subseteq {MessageId[s] : s \in Sent}
    BY <1>r
  <2>2. inserted' \cup MessageIds(engine'.script) \subseteq {MessageId[s] : s \in Sent}
    BY <1>a, <1>k, <2>1 DEF Trips
  <2>3. QED
    BY <1>a, <1>k, <1>x, <1>y, <2>2 DEF Trips
<1>e. MessageIds(<<>>) = {}
  BY NothingInEmpty
<1>1. CASE ModelCallsTools \/ ModelEndsTurn \/ EngineContinues
  <2>1. /\ engine.script = <<>> /\ UNCHANGED <<commands, inserted>>
        /\ engine'.script = <<>> \/ engine'.script = <<Started(engine.round + 1), Execute(engine.round + 1)>>
    BY <1>0, <1>1 DEF ModelCallsTools, ModelEndsTurn, EngineContinues, Listening, channels, EngineState
  <2>2. \A i \in DOMAIN engine'.script : engine'.script[i].type # "message"
    <3>1. CASE engine'.script = <<>>
      BY <3>1
    <3>2. CASE engine'.script = <<Started(engine.round + 1), Execute(engine.round + 1)>>
      BY <3>2 DEF Started, Execute
    <3>3. QED
      BY <2>1, <3>1, <3>2
  <2>3. MessageIds(engine'.script) = {} /\ MessagesOnce'
    BY <2>2 DEF MessageIds, MessagesOnce
  <2>4. QED
    BY <1>a, <1>c, <1>e, <1>k, <1>x, <1>y, <2>1, <2>3 DEF Travelling, New
<1>2. CASE DrainAccepted
  <2>1. PICK order \in [1..Cardinality(BreakAt) -> BreakAt] :
         /\ Range(order) = BreakAt
         /\ \A i, j \in DOMAIN order : i < j => order[i] < order[j]
         /\ engine' = [engine EXCEPT
                         !.pc = IF BreakAt = {} THEN "final" ELSE "closing",
                         !.batches = {MessageId[s] : s \in Accepted},
                         !.script = IF BreakAt = {} THEN <<Final>>
                                    ELSE [i \in DOMAIN order |-> Message(commands[order[i]].send)]]
    BY <1>2 DEF DrainAccepted
  <2> DEFINE drained == [i \in DOMAIN order |-> Message(commands[order[i]].send)]
  <2>2. /\ MessageIds(drained) = {MessageId[s] : s \in Accepted}
        /\ \A i \in DOMAIN drained :
             /\ order[i] \in BreakAt
             /\ drained[i].type = "message" /\ drained[i].id = MessageId[commands[order[i]].send]
        /\ \A i, j \in DOMAIN drained : order[i] = order[j] => i = j
    <3>1. /\ order \in [1..Cardinality(BreakAt) -> BreakAt] /\ Range(order) = BreakAt
          /\ \A i, j \in DOMAIN order : i < j => order[i] < order[j]
      BY <2>1
    <3>2. MessageIds(drained) = {MessageId[s] : s \in Accepted}
      BY <3>1, DrainScript
    <3>3. \A i \in DOMAIN drained : order[i] \in BreakAt
      BY <3>1
    <3>4. \A i \in DOMAIN drained :
               drained[i].type = "message" /\ drained[i].id = MessageId[commands[order[i]].send]
      BY <3>1 DEF Message
    <3>5. DOMAIN drained = DOMAIN order /\ DOMAIN order \subseteq Nat
      BY <3>1
    <3>6. \A i \in DOMAIN order : order[i] \in Nat
      BY <3>1, BreaksFacts
    <3>7. \A i, j \in DOMAIN drained : order[i] = order[j] => i = j
      BY <3>1, <3>5, <3>6
    <3>8. QED
      BY <3>2, <3>3, <3>4, <3>7
  <2> HIDE DEF drained
  <2>3. /\ engine'.script = IF BreakAt = {} THEN <<Final>> ELSE drained
        /\ commands' = <<>> /\ inserted' = inserted /\ engine.script = <<>>
    BY <1>0, <1>2, <2>1 DEF DrainAccepted, EngineState, drained
  <2>4. CASE BreakAt = {}
    <3>1. DOMAIN engine'.script = {1} /\ engine'.script[1].type = "final"
      BY <2>3, <2>4 DEF Final
    <3>2. MessageIds(engine'.script) = {} /\ MessagesOnce'
      BY <3>1 DEF MessageIds, MessagesOnce
    <3>3. Accepted' = {} /\ BreaksOnce'
      BY <2>3, NothingInEmpty DEF BreaksOnce, Accepted, BreakAt
    <3>4. QED
      BY <1>a, <1>e, <1>k, <1>x, <1>y, <2>3, <3>2, <3>3 DEF Travelling, New
  <2>5. CASE BreakAt # {}
    <3>1. engine'.script = drained /\ Accepted' = {} /\ BreaksOnce'
      BY <2>3, <2>5, NothingInEmpty DEF BreaksOnce, Accepted, BreakAt
    <3>2. Trips'
      BY <1>k, <2>2, <2>3, <3>1
    <3>3. ASSUME ~ SentAgain PROVE New'
      <4>1. New
        BY <1>a, <3>3
      <4>2. MessagesOnce'
        <5> SUFFICES ASSUME NEW i \in DOMAIN drained, NEW j \in DOMAIN drained,
                            drained[i].id = drained[j].id
                     PROVE  i = j
          BY <3>1 DEF MessagesOnce
        <5> DEFINE s == commands[order[i]].send
                   t == commands[order[j]].send
        <5>1. s \in Accepted /\ t \in Accepted /\ MessageId[s] = MessageId[t]
          BY <2>2 DEF Accepted
        <5>2. s = t
          BY <1>r, <3>3, <5>1, ToldApart
        <5>3. order[i] = order[j]
          BY <1>a, <2>2, <5>2 DEF Trips, BreaksOnce
        <5>4. QED
          BY <2>2, <5>3
      <4>3. MessageIds(engine'.script) \cap inserted = {}
        BY <2>2, <3>1, <4>1 DEF New
      <4>4. \A s \in Range(actions) \cup delivering, t \in Accepted : MessageId[s] # MessageId[t]
        BY <1>a, <1>r, <3>3, ToldApart DEF Trips
      <4>5. QED
        BY <1>x, <2>2, <2>3, <3>1, <4>1, <4>2, <4>3, <4>4 DEF New
    <3>4. QED
      BY <1>y, <3>2, <3>3 DEF Travelling
  <2>6. QED
    BY <2>4, <2>5
<1>3. CASE EngineEmits \/ EngineSkipsMessage
  <2> DEFINE event == Head(engine.script)
             announced == IF event.type = "message" THEN {event.id} ELSE {}
  <2>1. /\ engine.script # <<>> /\ engine'.script = Tail(engine.script) /\ commands' = commands
        /\ EngineEmits => inserted' = inserted \cup announced
        /\ EngineSkipsMessage => inserted' = inserted /\ announced \subseteq inserted
    BY <1>0, <1>3 DEF EngineEmits, EngineSkipsMessage, EngineState, channels
  <2>2. MessageIds(engine.script) = MessageIds(engine'.script) \cup announced
    BY <1>0, <2>1, EventHandled
  <2> HIDE DEF announced
  <2>3. Trips'
    BY <1>3, <1>c, <1>k, <2>1, <2>2
  <2>4. ASSUME ~ SentAgain PROVE New'
    <3>1. New
      BY <1>a, <2>4
    <3>2. MessagesOnce' /\ announced \cap MessageIds(engine'.script) = {}
      BY <1>0, <2>1, <3>1, MessagesOnceTaken DEF New, announced
    <3>3. QED
      BY <1>3, <1>c, <1>x, <2>1, <2>2, <3>1, <3>2 DEF New
  <2>5. QED
    BY <1>y, <2>3, <2>4 DEF Travelling
<1>4. CASE TakeResult
  <2>1. /\ engine.script = <<>> /\ commands # <<>> /\ commands' = Tail(commands)
        /\ Head(commands).type = "result" /\ inserted' = inserted
        /\ engine'.script = <<>> \/ \E b \in BOOLEAN :
              engine'.script = <<Result(Head(commands).call, FALSE, b)>>
    BY <1>0, <1>4 DEF TakeResult, Receives, Listening, EngineState
  <2>2. \A i \in DOMAIN engine'.script : engine'.script[i].type # "message"
    <3>1. CASE engine'.script = <<>>
      BY <3>1
    <3>2. ASSUME NEW b \in BOOLEAN, engine'.script = <<Result(Head(commands).call, FALSE, b)>>
          PROVE  \A i \in DOMAIN engine'.script : engine'.script[i].type # "message"
      BY <3>2 DEF Result
    <3>3. QED
      BY <2>1, <3>1, <3>2
  <2>3. MessageIds(engine'.script) = {} /\ MessagesOnce'
    BY <2>2 DEF MessageIds, MessagesOnce
  <2>4. Accepted' = Accepted /\ BreaksOnce'
    BY <1>a, <2>1, CommandTaken, BreakTaken DEF Trips
  <2>5. QED
    BY <1>a, <1>e, <1>k, <1>x, <1>y, <2>1, <2>3, <2>4 DEF Travelling, New
<1>5. CASE TakeBreak
  <2> DEFINE s == Head(commands).send
             script == Interruptions \o <<Message(s)>>
  <2>1. /\ engine.script = <<>> /\ commands # <<>> /\ Head(commands).type = "break"
        /\ commands' = Tail(commands) /\ inserted' = inserted
        /\ engine'.script = script
    BY <1>0, <1>5 DEF TakeBreak, Receives, Listening, EngineState
  <2>2. /\ Accepted = Accepted' \cup {s} /\ s \notin Accepted' /\ BreaksOnce'
    BY <1>a, <2>1, CommandTaken, BreakTaken DEF Trips
  <2>3. s \in Sends /\ s \in Accepted
    BY <1>0, <2>2
  <2>4. script = Interruptions \o <<Message(s)>>
    OBVIOUS
  <2> HIDE DEF script, s
  <2>5. /\ MessageIds(script) = {MessageId[s]}
        /\ Len(script) \in Nat \ {0} /\ DOMAIN script = 1..Len(script)
        /\ \A i \in DOMAIN script : i < Len(script) => script[i].type = "result"
    BY <2>3, <2>4, InterruptionScript
  <2>6. MessagesOnce'
    <3>1. \A i \in DOMAIN script : script[i].type = "message" => i = Len(script)
      BY <2>5
    <3>2. QED
      BY <2>1, <3>1 DEF MessagesOnce
  <2>7. Trips'
    BY <1>k, <2>1, <2>2, <2>3, <2>5
  <2>8. ASSUME ~ SentAgain PROVE New'
    <3>1. New
      BY <1>a, <2>8
    <3>2. \A t \in Range(actions) \cup delivering \cup Accepted' : MessageId[t] # MessageId[s]
      BY <1>a, <1>r, <2>2, <2>3, <2>8, ToldApart DEF Trips
    <3>3. QED
      BY <1>x, <2>1, <2>2, <2>3, <2>5, <2>6, <3>1, <3>2 DEF New
  <2>9. QED
    BY <1>y, <2>7, <2>8 DEF Travelling
<1>6. ASSUME NEW outcome, End(outcome)
      PROVE  Travelling'
  <2>1. engine'.script = <<>> /\ commands' = <<>> /\ inserted' = inserted
    BY <1>0, <1>6 DEF End, EngineState
  <2>2. /\ Accepted' = {} /\ BreaksOnce' /\ MessagesOnce' /\ MessageIds(engine'.script) = {}
    BY <2>1, <1>e, NothingInEmpty DEF BreaksOnce, Accepted, BreakAt, MessagesOnce
  <2>3. QED
    BY <1>a, <1>k, <1>x, <1>y, <2>1, <2>2 DEF Travelling, New
<1>7. QED
  BY <1>1, <1>2, <1>3, <1>4, <1>5, <1>6 DEF EngineNext, EngineCompletes, EngineCancelled, EngineFails

LEMMA TravellingStep ==
    ASSUME Types, Types', Kept, Travelling, [Next]_vars
    PROVE  Travelling'
<1>0. /\ session \in SessionState /\ engine \in EngineState /\ actions \in Seq(Sends)
      /\ delivering \subseteq Sends /\ unsent \subseteq Sends /\ Accepted \subseteq Sends
  BY BreaksFacts DEF Types
<1>a. Trips /\ (~ SentAgain => New)
  BY DEF Travelling
<1>c. ASSUME UNCHANGED commands PROVE Accepted' = Accepted /\ BreaksOnce'
  BY <1>a, <1>c DEF Accepted, BreakAt, Trips, BreaksOnce
<1>k. ASSUME engine'.script = engine.script, UNCHANGED <<inserted, actions, delivering, unsent>>,
             Accepted' = Accepted, BreaksOnce'
      PROVE  Travelling'
  BY <1>a, <1>k DEF Travelling, Trips, Sent, New, MessagesOnce, SentAgain
<1>1. CASE EngineNext
  BY <1>1, TravellingEngine
<1>2. CASE HandleAction
  <2> DEFINE s == Head(actions)
  <2>1. /\ actions # <<>> /\ actions' = Tail(actions) /\ delivering' = delivering \cup {s}
        /\ UNCHANGED <<engine, inserted, unsent, commands>>
    BY <1>2 DEF HandleAction
  <2>2. /\ Range(actions) = Range(actions') \cup {s} /\ s \notin Range(actions')
        /\ IsInjective(actions')
    BY <1>0, <1>a, <2>1, Shorter DEF Trips
  <2> HIDE DEF s
  <2>3. Trips'
    BY <1>a, <1>c, <2>1, <2>2 DEF Trips, Sent
  <2>4. ~ SentAgain' => New'
    BY <1>a, <1>c, <2>1, <2>2 DEF New, MessagesOnce, SentAgain
  <2>5. QED
    BY <2>3, <2>4 DEF Travelling
<1>3. CASE HandleStarted \/ HandleExecute \/ HandleResultCommit \/ HandleMessageCommit
             \/ HandleFinal \/ HandleEnded
  <2>1. /\ engine'.script = engine.script
        /\ UNCHANGED <<inserted, actions, delivering, unsent, commands>>
    BY <1>0, <1>3 DEF HandleStarted, HandleExecute, HandleResultCommit, HandleMessageCommit,
       HandleFinal, HandleEnded, messages, EngineState
  <2>2. QED
    BY <1>c, <1>k, <2>1
<1>4. CASE HandleCompletion
  <2>1. UNCHANGED <<engine, inserted, actions, delivering, unsent>>
    BY <1>4 DEF HandleCompletion, messages
  <2>2. PICK c \in Calls : commands' = commands \/ commands' = Append(commands, [type |-> "result", call |-> c])
    <3>1. \A c, now : Forward(c, now) =>
             commands' = commands \/ commands' = Append(commands, [type |-> "result", call |-> c])
      BY DEF Forward
    <3>2. session.ready # <<>> => Head(session.ready) \in Calls
      BY <1>0, HeadTail DEF SessionState
    <3>3. results # <<>> => Head(results) \in Calls
      BY HeadTail DEF Types
    <3>4. QED
      BY <1>4, <3>1, <3>2, <3>3 DEF HandleCompletion
  <2> DEFINE command == [type |-> "result", call |-> c]
  <2>3. command \in Commands /\ command.type = "result"
    BY CommandTypes
  <2> HIDE DEF command
  <2>4. commands' = Append(commands, command) => Accepted' = Accepted /\ BreaksOnce'
    BY <1>a, <2>3, CommandSent, BreakSent DEF Trips
  <2>5. QED
    BY <1>c, <1>k, <2>1, <2>2, <2>4 DEF command
<1>5. ASSUME NEW s \in Sends, SendMessage(s)
      PROVE  Travelling'
  <2>1. /\ s \in unsent /\ unsent' = unsent \ {s} /\ actions' = Append(actions, s)
        /\ UNCHANGED <<engine, inserted, delivering, commands>>
    BY <1>5 DEF SendMessage
  <2>2. Range(actions') = Range(actions) \cup {s} /\ IsInjective(actions')
    BY <1>0, <1>a, <2>1, Longer DEF Trips
  <2>3. Sent' = Sent \cup {s} /\ s \notin Sent
    BY <1>5, <2>1 DEF Sent
  <2>4. Trips'
    BY <1>a, <1>c, <2>1, <2>2, <2>3 DEF Trips
  <2>5. ASSUME ~ SentAgain' PROVE New'
    <3>1. New
      BY <1>a, <2>1, <2>5, SentAgainStays
    <3>2. \A t \in Sent : MessageId[t] # MessageId[s]
      BY <2>3, <2>5 DEF SentAgain, Sent
    <3>3. MessageId[s] \notin inserted \cup MessageIds(engine.script)
      BY <1>a, <3>2 DEF Trips
    <3>4. QED
      BY <1>c, <2>1, <2>2, <3>1, <3>3 DEF New, MessagesOnce
  <2>6. QED
    BY <2>4, <2>5 DEF Travelling
<1>6. ASSUME NEW s \in Sends, Deliver(s)
      PROVE  Travelling'
  <2> DEFINE command == [type |-> "break", send |-> s]
  <2>1. /\ s \in delivering /\ delivering' = delivering \ {s}
        /\ UNCHANGED <<engine, inserted, actions, unsent>>
        /\ commands' = commands \/ commands' = Append(commands, command)
    BY <1>6 DEF Deliver
  <2>2. command \in Commands /\ command.type = "break" /\ command.send = s
    BY CommandTypes
  <2>3. s \notin Accepted
    BY <1>a, <2>1 DEF Trips
  <2> HIDE DEF command
  <2>4. BreaksOnce' /\ Accepted' \in {Accepted, Accepted \cup {s}}
    BY <1>a, <1>c, <2>1, <2>2, <2>3, CommandSent, BreakSent DEF Trips
  <2>5. Trips'
    BY <1>a, <2>1, <2>4 DEF Trips, Sent
  <2>6. ~ SentAgain' => New'
    BY <1>a, <2>1, <2>4 DEF New, MessagesOnce, SentAgain
  <2>7. QED
    BY <2>5, <2>6 DEF Travelling
<1>7. ASSUME NEW exec, ToolAnswers(exec) \/ PassOnAnswer(exec) PROVE Travelling'
  BY <1>c, <1>k, <1>7 DEF ToolAnswers, PassOnAnswer, messages
<1>8. CASE Cancel \/ UNCHANGED vars
  BY <1>c, <1>k, <1>8 DEF Cancel, vars, channels, messages
<1>9. QED
  BY <1>1, <1>2, <1>3, <1>4, <1>5, <1>6, <1>7, <1>8 DEF Next, SessionNext

-----------------------------------------------------------------------------
(* Engine and session agree.                                                *)

LEMMA NothingAwaited ==
    ASSUME Ordered, Types, engine.pc # "ended", Over
    PROVE  engine.awaited = {} /\ ~ \E i \in DOMAIN engine.script : engine.script[i].type = "execute"
<1>1. engine.awaited = {}
  BY DEF Types, EngineState, Ordered, Phases
<1>2. ~ \E i \in DOMAIN engine.script : engine.script[i].type = "execute"
  BY DEF Ordered, ScriptOrder, ScriptAt
<1>3. QED
  BY <1>1, <1>2

\* The engine inserts no message before the results it waits for.
LEMMA MessagesWait ==
    ASSUME Ordered, Types, engine.pc # "ended", MessageIds(engine.script) # {}
    PROVE  engine.awaited = {}
<1>1. PICK i \in DOMAIN engine.script : engine.script[i].type = "message"
  BY DEF MessageIds
<1>2. Over \/ \E j \in DOMAIN engine.script : IsBarrierResult(engine.script[j])
  BY <1>1 DEF Ordered, ScriptOrder, ScriptAt
<1>3. CASE Over
  BY <1>3, NothingAwaited
<1>4. CASE \E j \in DOMAIN engine.script : IsBarrierResult(engine.script[j])
  BY <1>4 DEF Ordered, ScriptOrder, ScriptAt
<1>5. QED
  BY <1>2, <1>3, <1>4

\* A result that was forwarded is of a round whose tools were started.
LEMMA ForwardedIsStarted ==
    ASSUME FreshCalls, Types, Ordered, Placed, NEW c \in Forwarded, c \in engine.awaited
    PROVE  ~ ToExecute
<1>1. c \in KnownCalls
  BY DEF Placed, OneCommit, NothingEarly
<1>2. engine.round \in Rounds => c \in RoundCalls[engine.round]
  BY RoundFacts DEF Types
<1>3. QED
  BY <1>1, <1>2, UnknownYet

\* An event that is neither a message nor the command to start tools is taken.
LEMMA EventPassed ==
    ASSUME Types, events # <<>>, events' = Tail(events), engine'.script = engine.script,
           Head(events).type \notin {"message", "execute"}
    PROVE  /\ MessageIds(events') = MessageIds(events)
           /\ ToExecute' <=> ToExecute
<1>1. events \in Seq(Events)
  BY DEF Types
<1>2. MessageIds(events') = MessageIds(events)
  BY <1>1, EventHandled
<1>3. /\ events[1].type # "execute"
      /\ \A i \in DOMAIN events' : i + 1 \in DOMAIN events /\ events'[i] = events[i + 1]
      /\ \A i \in DOMAIN events : i # 1 => i - 1 \in DOMAIN events' /\ events'[i - 1] = events[i]
  BY <1>1, HeadTail
<1>4. ExecuteSent' <=> ExecuteSent
  BY <1>3 DEF ExecuteSent
<1>5. QED
  BY <1>2, <1>4 DEF ToExecute

LEMMA AgreeCarries ==
    ASSUME Agree, engine'.awaited = engine.awaited, engine'.round = engine.round,
           ToExecute' <=> ToExecute,
           (MessageIds(engine.script) \cup MessageIds(events))'
              = MessageIds(engine.script) \cup MessageIds(events),
           Accepted' = Accepted, UNCHANGED <<delivering, queued, cancelled>>,
           Forwarded' = Forwarded, Flight' = Flight, running' \subseteq running,
           session'.pendingInjections = session.pendingInjections,
           session'.interruptedCalls = session.interruptedCalls,
           session.activeCalls \cap engine.awaited \subseteq session'.activeCalls,
           session'.interruptedRounds \subseteq session.interruptedRounds
    PROVE  Agree'
<1>1. InjectionsAreNoted'
  BY DEF Agree, InjectionsAreNoted
<1>2. FlightIsAwaited'
  BY DEF Agree, FlightIsAwaited
<1>3. GivenUp'
  BY DEF Agree, GivenUp
<1>4. AwaitedAreOnTheWay'
  BY DEF Agree, AwaitedAreOnTheWay
<1>5. QED
  BY <1>1, <1>2, <1>3, <1>4 DEF Agree

LEMMA TogetherEngine ==
    ASSUME FreshCalls, Types, Types', Kept, Ordered, Placed, Travelling, EngineNext,
           ~ SentAgain, engine.pc # "ended", engine'.pc # "ended",
           ForwardedAreAwaited, Open => Agree
    PROVE  ForwardedAreAwaited' /\ (Open' => Agree')
<1>0. /\ engine \in EngineState /\ engine.script \in Seq(Events) /\ commands \in Seq(Commands)
      /\ events \in Seq(Events) /\ engine.round \in Nat /\ NoRound = 0
  BY RoundFacts DEF Types, EngineState, NoRound
<1>x. UNCHANGED <<running, answered, results, delivering, session, cancelled>>
  BY DEF EngineNext, ModelCallsTools, ModelEndsTurn, DrainAccepted, EngineEmits, EngineSkipsMessage,
     EngineContinues, TakeResult, TakeBreak, EngineCompletes, EngineCancelled, EngineFails, End,
     channels, messages
<1>y. Flight' = Flight /\ Open' = Open
  BY <1>x DEF Flight, Asked, Open
<1>f. ASSUME UNCHANGED commands
      PROVE  /\ Accepted' = Accepted /\ Forwarded' = Forwarded
             /\ engine'.awaited = engine.awaited => ForwardedAreAwaited'
  BY <1>f DEF Accepted, BreakAt, Forwarded, ForwardedAreAwaited
<1>1. CASE ModelCallsTools
  <2> DEFINE r == engine.round + 1
             script == <<Started(r), Execute(r)>>
  <2>1. /\ engine.script = <<>> /\ commands = <<>> /\ engine.awaited = {}
        /\ engine'.round = r /\ engine'.script = script /\ engine'.awaited = RoundCalls[r]
        /\ UNCHANGED <<commands, events, queued>>
    BY <1>0, <1>1 DEF ModelCallsTools, Listening, EngineState, channels, messages, Kept
  <2>2. MessageIds(engine'.script) = {} /\ ToExecute'
    <3>1. /\ \A i \in DOMAIN script : script[i].type # "message"
          /\ 2 \in DOMAIN script /\ script[2].type = "execute"
      BY DEF Started, Execute
    <3> HIDE DEF script
    <3>2. QED
      BY <2>1, <3>1 DEF MessageIds, ToExecute
  <2>3. ForwardedAreAwaited'
    BY <2>1 DEF ForwardedAreAwaited
  <2> HIDE DEF script
  <2>4. ASSUME Agree PROVE Agree'
    <3>1. InjectionsAreNoted'
      BY <1>f, <1>x, <2>1, <2>2, <2>4, NothingInEmpty DEF Agree, InjectionsAreNoted
    <3>2. FlightIsAwaited'
      BY <1>x, <1>y, <2>1, <2>4 DEF Agree, FlightIsAwaited
    <3>3. GivenUp'
      <4>1. r \notin session.interruptedRounds
        BY <1>0 DEF Placed, NothingEarly
      <4>2. QED
        BY <1>x, <2>1, <4>1 DEF GivenUp
    <3>4. QED
      BY <2>2, <3>1, <3>2, <3>3 DEF Agree, AwaitedAreOnTheWay
  <2>5. QED
    BY <1>y, <2>3, <2>4
<1>2. CASE ModelEndsTurn \/ EngineContinues
  <2>1. /\ engine'.round = engine.round /\ engine'.script = engine.script
        /\ engine'.awaited = engine.awaited
        /\ UNCHANGED <<commands, events, queued>>
    BY <1>0, <1>2 DEF ModelEndsTurn, EngineContinues, EngineState, channels, messages
  <2>2. ToExecute' = ToExecute
    BY <2>1 DEF ToExecute, ExecuteSent
  <2>3. Agree => Agree'
    BY <1>f, <1>x, <1>y, <2>1, <2>2, AgreeCarries
  <2>4. QED
    BY <1>f, <1>y, <2>1, <2>3
<1>3. CASE DrainAccepted
  <2>1. PICK order \in [1..Cardinality(BreakAt) -> BreakAt] :
         /\ Range(order) = BreakAt
         /\ \A i, j \in DOMAIN order : i < j => order[i] < order[j]
         /\ engine' = [engine EXCEPT
                         !.pc = IF BreakAt = {} THEN "final" ELSE "closing",
                         !.batches = {MessageId[s] : s \in Accepted},
                         !.script = IF BreakAt = {} THEN <<Final>>
                                    ELSE [i \in DOMAIN order |-> Message(commands[order[i]].send)]]
    BY <1>3 DEF DrainAccepted
  <2> DEFINE drained == [i \in DOMAIN order |-> Message(commands[order[i]].send)]
  <2>2. MessageIds(drained) = {MessageId[s] : s \in Accepted}
    <3>1. /\ order \in [1..Cardinality(BreakAt) -> BreakAt] /\ Range(order) = BreakAt
          /\ \A i, j \in DOMAIN order : i < j => order[i] < order[j]
      BY <2>1
    <3>2. QED
      BY <3>1, DrainScript
  <2>3. \A i \in DOMAIN drained : drained[i].type = "message"
    BY DEF Message
  <2> HIDE DEF drained
  <2>4. /\ engine.script = <<>> /\ engine.awaited = {} /\ engine'.awaited = {}
        /\ engine'.round = engine.round
        /\ engine'.script = IF BreakAt = {} THEN <<Final>> ELSE drained
        /\ commands' = <<>> /\ UNCHANGED <<events, queued>>
    BY <1>0, <1>3, <2>1 DEF DrainAccepted, Kept, EngineState, messages, drained
  <2>5. {MessageId[s] : s \in Accepted} \subseteq MessageIds(engine'.script)
    BY <2>2, <2>4 DEF Accepted
  <2>6. ToExecute' => ToExecute
    BY <2>3, <2>4 DEF ToExecute, ExecuteSent, Final
  <2>7. Accepted' = {} /\ ForwardedAreAwaited'
    BY <2>4, NothingInEmpty DEF Accepted, BreakAt, ForwardedAreAwaited
  <2>8. ASSUME Agree PROVE Agree'
    <3>1. InjectionsAreNoted'
      BY <1>x, <2>4, <2>5, <2>7, <2>8, NothingInEmpty DEF Agree, InjectionsAreNoted
    <3>2. FlightIsAwaited'
      BY <1>x, <1>y, <2>4, <2>8 DEF Agree, FlightIsAwaited
    <3>3. GivenUp'
      BY <1>x, <2>4, <2>6, <2>8 DEF Agree, GivenUp
    <3>4. QED
      BY <2>4, <3>1, <3>2, <3>3 DEF Agree, AwaitedAreOnTheWay
  <2>9. QED
    BY <1>y, <2>7, <2>8
<1>4. CASE EngineEmits
  <2> DEFINE event == Head(engine.script)
  <2>1. /\ engine.script # <<>> /\ event \in Events
        /\ engine'.script = Tail(engine.script) /\ events' = Append(events, event)
        /\ engine'.round = engine.round /\ engine'.awaited = engine.awaited
        /\ UNCHANGED <<commands, queued>>
    BY <1>0, <1>4, HeadTail DEF EngineEmits, EngineState, messages
  <2>2. (MessageIds(engine.script) \cup MessageIds(events))'
              = MessageIds(engine.script) \cup MessageIds(events)
    <3>1. MessageIds(engine.script) = MessageIds(engine'.script)
                \cup (IF event.type = "message" THEN {event.id} ELSE {})
      BY <1>0, <2>1, EventHandled
    <3>2. MessageIds(events') = MessageIds(events)
                \cup (IF event.type = "message" THEN {event.id} ELSE {})
      BY <1>0, <2>1, EventEmitted
    <3> HIDE DEF event
    <3>3. QED
      BY <3>1, <3>2
  <2> HIDE DEF event
  <2>3. ToExecute' <=> ToExecute
    <3>1. /\ \A i \in DOMAIN events : i \in DOMAIN events' /\ events'[i] = events[i]
          /\ \A i \in DOMAIN events' : i \in DOMAIN events \/ i = Len(events) + 1
          /\ Len(events) + 1 \in DOMAIN events' /\ events'[Len(events) + 1] = event
      BY <1>0, <2>1, Appended
    <3>2. /\ event = engine.script[1] /\ 1 \in DOMAIN engine.script
          /\ \A i \in DOMAIN engine'.script :
                i + 1 \in DOMAIN engine.script /\ engine'.script[i] = engine.script[i + 1]
          /\ \A i \in DOMAIN engine.script : i # 1 =>
                i - 1 \in DOMAIN engine'.script /\ engine'.script[i - 1] = engine.script[i]
      BY <1>0, <2>1, HeadTail DEF event
    <3>3. ExecuteSent' <=> ExecuteSent \/ event.type = "execute"
      BY <3>1 DEF ExecuteSent
    <3>4. (\E i \in DOMAIN engine.script : engine.script[i].type = "execute") <=>
            \/ event.type = "execute"
            \/ \E i \in DOMAIN engine'.script : engine'.script[i].type = "execute"
      BY <3>2
    <3>5. QED
      BY <3>3, <3>4 DEF ToExecute
  <2>4. Agree => Agree'
    BY <1>f, <1>x, <1>y, <2>1, <2>2, <2>3, AgreeCarries
  <2>5. QED
    BY <1>f, <1>y, <2>1, <2>4
<1>5. ~ EngineSkipsMessage
  <2> SUFFICES ASSUME EngineSkipsMessage PROVE FALSE
    OBVIOUS
  <2>1. /\ engine.script # <<>> /\ Head(engine.script).type = "message"
        /\ Head(engine.script).id \in inserted
    BY DEF EngineSkipsMessage
  <2>2. Head(engine.script).id \in MessageIds(engine.script)
    BY <1>0, <2>1, EventHandled
  <2>3. QED
    BY <2>1, <2>2 DEF Travelling, New
<1>6. CASE TakeResult
  <2> DEFINE c == Head(commands).call
  <2>1. /\ engine.script = <<>> /\ commands # <<>> /\ Head(commands).type = "result"
        /\ commands' = Tail(commands) /\ UNCHANGED <<events, queued>>
        /\ engine'.round = engine.round
    BY <1>0, <1>6 DEF TakeResult, Receives, Listening, EngineState, messages
  <2>2. /\ c = commands[1].call /\ 1 \in DOMAIN commands /\ commands[1].type = "result"
        /\ \A i \in DOMAIN commands' :
             i \in Nat \ {0} /\ i + 1 \in DOMAIN commands /\ commands'[i] = commands[i + 1]
    BY <1>0, <2>1, HeadTail
  <2> HIDE DEF c
  <2>3. c \in engine.awaited
    BY <2>2 DEF ForwardedAreAwaited
  <2>4. /\ Forwarded = Forwarded' \cup {c} /\ c \notin Forwarded' /\ Accepted' = Accepted
    BY <2>1, CommandTaken, ForwardedTaken DEF Placed, OneCommit, Apart, c
  <2>5. /\ engine'.awaited = engine.awaited \ {c}
        /\ \E b \in BOOLEAN : engine'.script = <<Result(c, FALSE, b)>>
    BY <1>0, <1>6, <2>3 DEF TakeResult, EngineState, c
  <2>6. \A i \in DOMAIN engine'.script : engine'.script[i].type = "result"
    BY <2>5 DEF Result
  <2>7. MessageIds(engine'.script) = {}
    BY <2>6 DEF MessageIds
  <2>8. ~ ToExecute'
    BY <2>1, <2>3, <2>4, <2>6, ForwardedIsStarted DEF ToExecute, ExecuteSent
  <2>9. ForwardedAreAwaited'
    <3> SUFFICES ASSUME NEW i \in DOMAIN commands', commands'[i].type = "result"
                 PROVE  /\ commands'[i].call \in engine'.awaited
                        /\ \A j \in DOMAIN commands' : j < i => commands'[j].type # "break"
      BY DEF ForwardedAreAwaited
    <3>1. /\ commands[i + 1].call \in engine.awaited
          /\ \A j \in DOMAIN commands : j < i + 1 => commands[j].type # "break"
      BY <2>2 DEF ForwardedAreAwaited
    <3>2. commands'[i].call # c
      BY <2>4 DEF Forwarded
    <3>3. ASSUME NEW j \in DOMAIN commands', j < i PROVE commands'[j].type # "break"
      <4>1. j + 1 \in DOMAIN commands /\ j + 1 < i + 1 /\ commands'[j] = commands[j + 1]
        BY <2>2, <3>3
      <4>2. QED
        BY <3>1, <4>1
    <3>4. QED
      BY <2>2, <2>5, <3>1, <3>2, <3>3
  <2>10. c \notin Flight
    BY <2>4 DEF Placed, OneCommit
  <2>11. ASSUME Agree PROVE Agree'
    <3>1. InjectionsAreNoted'
      BY <1>x, <2>1, <2>4, <2>7, <2>11, NothingInEmpty DEF Agree, InjectionsAreNoted
    <3>2. FlightIsAwaited'
      BY <1>x, <1>y, <2>5, <2>10, <2>11 DEF Agree, FlightIsAwaited
    <3>3. AwaitedAreOnTheWay'
      <4>1. ~ ToExecute
        BY <2>3, <2>4, ForwardedIsStarted
      <4>2. QED
        BY <1>x, <1>y, <2>1, <2>4, <2>5, <2>11, <4>1 DEF Agree, AwaitedAreOnTheWay
    <3>4. QED
      BY <2>8, <3>1, <3>2, <3>3 DEF Agree, GivenUp
  <2>12. QED
    BY <1>y, <2>9, <2>11
<1>7. CASE TakeBreak
  <2> DEFINE s == Head(commands).send
             script == Interruptions \o <<Message(s)>>
  <2>1. /\ engine.script = <<>> /\ commands # <<>> /\ Head(commands).type = "break"
        /\ commands' = Tail(commands) /\ UNCHANGED <<events, queued>>
        /\ engine'.awaited = {} /\ engine'.script = script
    BY <1>0, <1>7 DEF TakeBreak, Receives, Listening, EngineState, messages
  <2>2. Accepted = Accepted' \cup {s}
    BY <2>1, CommandTaken
  <2>3. s \in Sends /\ s \in Accepted
    BY <2>2, BreaksFacts
  <2>4. /\ 1 \in DOMAIN commands /\ commands[1].type = "break"
        /\ \A i \in DOMAIN commands' :
             i \in Nat \ {0} /\ i + 1 \in DOMAIN commands /\ commands'[i] = commands[i + 1]
    BY <1>0, <2>1, HeadTail
  <2>5. script = Interruptions \o <<Message(s)>>
    OBVIOUS
  <2> HIDE DEF script, s
  <2>6. MessageIds(script) = {MessageId[s]}
    BY <2>3, <2>5, InterruptionScript
  <2>7. ForwardedAreAwaited'
    <3>1. ASSUME NEW i \in DOMAIN commands', commands'[i].type = "result" PROVE FALSE
      <4>1. i + 1 \in DOMAIN commands /\ 1 < i + 1 /\ commands[i + 1].type = "result"
        BY <2>4, <3>1
      <4>2. QED
        BY <2>4, <4>1 DEF ForwardedAreAwaited
    <3>2. QED
      BY <3>1 DEF ForwardedAreAwaited
  <2>8. ASSUME Agree PROVE Agree'
    <3>1. MessageId[s] \in session.pendingInjections
      BY <2>3, <2>8 DEF Agree, InjectionsAreNoted
    <3>2. InjectionsAreNoted'
      BY <1>x, <2>1, <2>2, <2>6, <2>8, NothingInEmpty DEF Agree, InjectionsAreNoted
    <3>3. FlightIsAwaited'
      BY <1>x, <1>y, <2>8, <3>1 DEF Agree, FlightIsAwaited
    <3>4. GivenUp' /\ AwaitedAreOnTheWay'
      BY <1>x, <2>1, <3>1 DEF GivenUp, AwaitedAreOnTheWay
    <3>5. QED
      BY <3>2, <3>3, <3>4 DEF Agree
  <2>9. QED
    BY <1>y, <2>7, <2>8
<1>8. ASSUME NEW outcome, End(outcome) PROVE FALSE
  BY <1>0, <1>8 DEF End, EngineState
<1>9. QED
  BY <1>1, <1>2, <1>3, <1>4, <1>5, <1>6, <1>7, <1>8
     DEF EngineNext, EngineCompletes, EngineCancelled, EngineFails

LEMMA TogetherExecute ==
    ASSUME FreshCalls, Types, Types', Ordered, Placed, Agree, HandleExecute, engine.pc # "ended"
    PROVE  Agree'
<1> DEFINE r == engine.round
           completed == IF session.completedRound = r THEN session.completed ELSE {}
           asked == ToStart(r, completed)
           entered == [session EXCEPT !.completed = completed, !.completedRound = r,
                         !.activeRound = r, !.activeCalls = RoundCalls[r]]
<1>1. Head(events).round = r /\ r # NoRound /\ ToExecute /\ ~ ToExecute'
  BY ExecuteTaken
<1>2. r \in Rounds /\ RoundCalls[r] \cap KnownCalls = {} /\ r \in Nat
  BY <1>1, UnknownYet, RoundFacts
<1>3. /\ UNCHANGED <<engine, results, commands, answered, delivering, queued, cancelled>>
      /\ session.ready = <<>>
      /\ events # <<>> /\ events' = Tail(events) /\ Head(events).type = "execute"
      /\ session \in SessionState /\ events \in Seq(Events)
  BY DEF HandleExecute, MayHandle, Types, messages
<1>4. MessageIds(events') = MessageIds(events) /\ MessageIds(engine.script)' = MessageIds(engine.script)
  BY <1>3, EventHandled
<1>5. Accepted' = Accepted /\ Forwarded' = Forwarded
  BY <1>3 DEF Accepted, BreakAt, Forwarded
<1>6. GivenUp'
  BY <1>1 DEF GivenUp
<1>a. InjectionsAreNoted /\ FlightIsAwaited /\ GivenUp /\ AwaitedAreOnTheWay
  BY DEF Agree
<1>7. engine.awaited \subseteq RoundCalls[r]
  BY <1>2, RoundFacts DEF Types
<1>8. CASE Detached(r)
  <2>1. /\ session' = [entered EXCEPT !.interruptedRounds = @ \cup {r},
                                   !.interruptedCalls = @ \cup RoundCalls[r]]
        /\ running' = running
    BY <1>1, <1>8 DEF HandleExecute
  <2> HIDE DEF completed, r
  <2>2. /\ session'.pendingInjections = session.pendingInjections
        /\ session'.interruptedCalls = session.interruptedCalls \cup RoundCalls[r]
        /\ session'.ready = session.ready
    BY <1>3, <2>1 DEF SessionState
  <2>3. session.pendingInjections # {}
    BY <1>1, <1>8, <1>a DEF Detached, GivenUp, r
  <2>4. Flight' = Flight /\ running' = running
    BY <1>3, <2>1, <2>2 DEF Flight, Asked
  <2>5. InjectionsAreNoted'
    BY <1>3, <1>4, <1>5, <1>a, <2>2 DEF InjectionsAreNoted
  <2>6. FlightIsAwaited'
    <3>1. Flight \subseteq session.interruptedCalls
      BY <1>a, <2>3 DEF FlightIsAwaited
    <3>2. running = {}
      BY <1>a, <3>1 DEF FlightIsAwaited, Flight, Asked
    <3>3. QED
      BY <2>2, <2>4, <3>1, <3>2 DEF FlightIsAwaited
  <2>7. AwaitedAreOnTheWay'
    <3>1. PICK id \in session.pendingInjections : TRUE
      BY <2>3
    <3>2. \/ queued # {} \/ delivering \cup Accepted # {}
          \/ MessageIds(engine.script) # {} \/ MessageIds(events) # {}
      BY <1>a, <3>1 DEF InjectionsAreNoted
    <3>3. CASE MessageIds(engine.script) # {}
      <4>1. engine.awaited = {}
        BY <3>3, MessagesWait
      <4>2. QED
        BY <1>3, <4>1 DEF AwaitedAreOnTheWay
    <3>4. CASE MessageIds(events) # {}
      <4>1. PICK i \in DOMAIN events : events[i].type = "message"
        BY <3>4 DEF MessageIds
      <4>2. i = 1 /\ events[1].type = "execute"
        BY <1>3, <4>1, HeadTail DEF Ordered, EventOrder, EventAt
      <4>3. QED
        BY <4>1, <4>2
    <3>5. CASE queued # {} \/ delivering \cup Accepted # {}
      BY <1>3, <1>5, <3>5 DEF AwaitedAreOnTheWay
    <3>6. QED
      BY <3>2, <3>3, <3>4, <3>5
  <2>8. QED
    BY <1>6, <2>5, <2>6, <2>7 DEF Agree
<1>9. CASE ~ Detached(r)
  <2>1. PICK local \in SUBSET asked :
          /\ session' = [entered EXCEPT !.ready = SetToSeq({exec.call : exec \in local})]
          /\ running' = running \cup (asked \ local)
    BY <1>1, <1>9 DEF HandleExecute
  <2> DEFINE here == {exec.call : exec \in local}
             there == {exec.call : exec \in asked \ local}
  <2>2. completed = {}
    <3>1. session.completedRound < r
      BY <1>1 DEF Placed, NothingEarly
    <3>2. session.completedRound # r
      BY <1>2, <3>1
    <3>3. QED
      BY <3>2
  <2>3. here \cup there = RoundCalls[r]
    <3>1. asked = ToStart(r, {})
      BY <2>2
    <3>2. \A c \in RoundCalls[r] : [round |-> r, call |-> c] \in ToStart(r, {})
      BY DEF ToStart
    <3>4. \A exec \in ToStart(r, {}) : exec.call \in RoundCalls[r]
      BY DEF ToStart
    <3> HIDE DEF asked, completed
    <3>5. \A exec \in asked : exec.call \in RoundCalls[r]
      BY <3>1, <3>4
    <3>3. \A c \in RoundCalls[r] : \E exec \in asked : exec.call = c
      <4> SUFFICES ASSUME NEW c \in RoundCalls[r] PROVE \E exec \in asked : exec.call = c
        OBVIOUS
      <4>1. [round |-> r, call |-> c] \in asked
        BY <3>1, <3>2
      <4>2. QED
        BY <4>1
    <3>6. QED
      BY <3>3, <3>5
  <2>4. Range(SetToSeq(here)) = here
    <3>1. IsFiniteSet(here) /\ here \in SUBSET Calls
      BY <1>2, <2>3, RoundFacts, FS_Subset
    <3> HIDE DEF here
    <3>2. QED
      BY <3>1, SetAsSequence
  <2>5. /\ session'.pendingInjections = session.pendingInjections
        /\ session'.interruptedCalls = session.interruptedCalls
        /\ session'.ready = SetToSeq(here) /\ session'.activeCalls = RoundCalls[r]
    BY <1>3, <2>1 DEF SessionState
  <2>6. session.pendingInjections = {} /\ engine.awaited = RoundCalls[r]
    BY <1>1, <1>9, <1>a DEF Detached, GivenUp
  <2>7. Asked' = Asked \cup there
    <3> HIDE DEF asked
    <3>1. QED
      BY <1>3, <2>1 DEF Asked
  <2>8. Range(session.ready) = {}
    BY <1>3 DEF Range
  <2>a. \A exec \in running' : exec \in running \/ exec.call \in there
    <3> HIDE DEF asked
    <3>1. QED
      BY <2>1
  <2> HIDE DEF here, there, asked, completed, entered, r
  <2>9. Flight' = Flight \cup RoundCalls[r]
    BY <1>3, <2>3, <2>4, <2>5, <2>7, <2>8 DEF Flight
  <2>10. RoundCalls[r] \cap session.interruptedCalls = {}
    BY <1>2 DEF Placed, NothingEarly
  <2>11. InjectionsAreNoted'
    BY <1>3, <1>4, <1>5, <1>a, <2>5 DEF InjectionsAreNoted
  <2>12. FlightIsAwaited'
    <3>1. Flight' \subseteq session'.interruptedCalls \cup (engine'.awaited \cap session'.activeCalls)
      BY <1>3, <1>a, <2>5, <2>6, <2>9 DEF FlightIsAwaited
    <3>2. \A exec \in running' : exec.call \notin session'.interruptedCalls
      BY <1>a, <2>3, <2>5, <2>10, <2>a DEF FlightIsAwaited
    <3>3. QED
      BY <2>5, <2>6, <3>1, <3>2 DEF FlightIsAwaited
  <2>13. AwaitedAreOnTheWay'
    BY <1>3, <2>5, <2>6, <2>9, <2>10 DEF AwaitedAreOnTheWay
  <2>14. QED
    BY <1>6, <2>11, <2>12, <2>13 DEF Agree
<1>10. QED
  BY <1>8, <1>9

\* What forward_completion takes and where it puts it.
LEMMA CompletionTaken ==
    ASSUME Types, Placed, HandleCompletion
    PROVE  \E c \in Calls :
             /\ c \in Flight /\ c \notin session.completions
             /\ Flight' \subseteq Flight /\ Flight \subseteq Flight' \cup {c}
             /\ session'.interruptedCalls = session.interruptedCalls
             /\ session'.interruptedRounds = session.interruptedRounds
             /\ session'.pendingInjections = session.pendingInjections
             /\ session'.activeCalls = session.activeCalls
             /\ UNCHANGED <<running, cancelled>>
             /\ IF ~ Dropped(c) /\ RunPhase = "Running"
                  THEN commands' = Append(commands, [type |-> "result", call |-> c])
                  ELSE commands' = commands
<1>0. /\ session \in SessionState /\ session.ready \in Seq(Calls) /\ results \in Seq(Calls)
      /\ answered' = answered
  BY DEF Types, SessionState, HandleCompletion
<1>1. PICK c \in Calls, ready \in Seq(Calls) :
        /\ Forward(c, [session EXCEPT !.ready = ready])
        /\ Range(results) \cup Range(session.ready) = Range(results') \cup Range(ready) \cup {c}
  <2>1. CASE session.ready # <<>>
    <3>1. Head(session.ready) \in Calls /\ Tail(session.ready) \in Seq(Calls)
      BY <1>0, <2>1, HeadTail
    <3>2. Forward(Head(session.ready), [session EXCEPT !.ready = Tail(session.ready)])
          /\ UNCHANGED results
      BY <2>1 DEF HandleCompletion
    <3>3. Range(session.ready) = Range(Tail(session.ready)) \cup {Head(session.ready)}
      BY <1>0, <2>1, Shorter
    <3>4. QED
      BY <3>1, <3>2, <3>3
  <2>2. CASE session.ready = <<>>
    <3>1. results # <<>> /\ Forward(Head(results), session) /\ results' = Tail(results)
      BY <2>2 DEF HandleCompletion
    <3>2. Head(results) \in Calls
      BY <1>0, <3>1, HeadTail
    <3>3. session = [session EXCEPT !.ready = session.ready]
      BY <1>0 DEF SessionState
    <3>4. Range(results) = Range(results') \cup {Head(results)}
      BY <1>0, <3>1, Shorter
    <3>5. Forward(Head(results), [session EXCEPT !.ready = session.ready])
      BY <3>1, <3>3
    <3>6. QED
      BY <1>0, <3>2, <3>4, <3>5
  <2>3. QED
    BY <2>1, <2>2
<1> DEFINE now == [session EXCEPT !.ready = ready]
<1>2. /\ now.ready = ready /\ now.pendingInjections = session.pendingInjections
      /\ now.interruptedCalls = session.interruptedCalls /\ now.activeCalls = session.activeCalls
      /\ now.interruptedRounds = session.interruptedRounds /\ now \in SessionState
  BY <1>0, <1>1 DEF SessionState
<1>3. Forward(c, now)
  BY <1>1
<1> HIDE DEF now
<1>4. c \in Flight /\ c \notin session.completions
  BY <1>1 DEF Flight, Placed, OneCommit
<1>5. /\ UNCHANGED <<running, cancelled>>
      /\ session' = now \/ session' = [now EXCEPT !.completions = @ \cup {c}]
      /\ IF ~ Dropped(c) /\ RunPhase = "Running"
           THEN commands' = Append(commands, [type |-> "result", call |-> c])
           ELSE commands' = commands
  BY <1>3, <1>4 DEF Forward
<1>6. /\ session'.ready = ready /\ session'.pendingInjections = session.pendingInjections
      /\ session'.interruptedCalls = session.interruptedCalls
      /\ session'.activeCalls = session.activeCalls
      /\ session'.interruptedRounds = session.interruptedRounds
  BY <1>2, <1>5 DEF SessionState
<1>7. Flight' \subseteq Flight /\ Flight \subseteq Flight' \cup {c}
  BY <1>0, <1>1, <1>5, <1>6 DEF Flight, Asked
<1>8. QED
  BY <1>1, <1>4, <1>5, <1>6, <1>7

LEMMA TogetherForward ==
    ASSUME Types, Types', Kept, Ordered, Placed, HandleCompletion, engine.pc # "ended",
           ForwardedAreAwaited, Agree
    PROVE  ForwardedAreAwaited' /\ Agree'
<1>0. /\ UNCHANGED <<engine, events, delivering, queued>>
      /\ commands \in Seq(Commands)
  BY DEF HandleCompletion, messages, Types
<1>1. PICK c \in Calls :
             /\ c \in Flight /\ c \notin session.completions
             /\ Flight' \subseteq Flight /\ Flight \subseteq Flight' \cup {c}
             /\ session'.interruptedCalls = session.interruptedCalls
             /\ session'.interruptedRounds = session.interruptedRounds
             /\ session'.pendingInjections = session.pendingInjections
             /\ session'.activeCalls = session.activeCalls
             /\ UNCHANGED <<running, cancelled>>
             /\ IF ~ Dropped(c) /\ RunPhase = "Running"
                  THEN commands' = Append(commands, [type |-> "result", call |-> c])
                  ELSE commands' = commands
  BY CompletionTaken
<1>2. ToExecute' = ToExecute
  BY <1>0 DEF ToExecute, ExecuteSent
<1>a. InjectionsAreNoted /\ FlightIsAwaited /\ GivenUp /\ AwaitedAreOnTheWay
  BY DEF Agree
<1>3. FlightIsAwaited'
  BY <1>0, <1>1, <1>a DEF FlightIsAwaited
<1>4. GivenUp'
  BY <1>0, <1>1, <1>2, <1>a DEF GivenUp
<1>5. ~ Dropped(c) => c \in engine.awaited
  BY <1>1, <1>a DEF Dropped, FlightIsAwaited
<1>6. ~ Dropped(c) => RunPhase = "Running"
  <2>1. engine.awaited # {} => engine.pc = "round"
    BY DEF Kept
  <2>2. engine.pc = "round" => RunPhase = "Running"
    BY DEF RunPhase
  <2>3. QED
    BY <1>5, <2>1, <2>2
<1>7. CASE Dropped(c)
  <2>1. commands' = commands
    BY <1>1, <1>7
  <2>2. Accepted' = Accepted /\ Forwarded' = Forwarded /\ ForwardedAreAwaited'
    BY <1>0, <2>1 DEF Accepted, BreakAt, Forwarded, ForwardedAreAwaited
  <2>3. InjectionsAreNoted'
    BY <1>0, <1>1, <1>a, <2>2 DEF InjectionsAreNoted
  <2>4. AwaitedAreOnTheWay'
    BY <1>0, <1>1, <1>2, <1>7, <1>a, <2>2 DEF AwaitedAreOnTheWay, Dropped
  <2>5. QED
    BY <1>3, <1>4, <2>2, <2>3, <2>4 DEF Agree
<1>8. CASE ~ Dropped(c)
  <2> DEFINE command == [type |-> "result", call |-> c]
  <2>1. commands' = Append(commands, command)
    BY <1>1, <1>6, <1>8
  <2>2. command \in Commands /\ command.type = "result" /\ command.call = c
    BY CommandTypes
  <2> HIDE DEF command
  <2>3. Forwarded' = Forwarded \cup {c} /\ Accepted' = Accepted
    BY <2>1, <2>2, CommandSent
  <2>4. \A j \in DOMAIN commands : commands[j].type # "break"
    <3>1. session.pendingInjections = {}
      BY <1>1, <1>8, <1>a DEF Dropped, FlightIsAwaited
    <3>2. Accepted = {}
      BY <1>a, <3>1 DEF InjectionsAreNoted
    <3>3. QED
      BY <3>2 DEF Accepted, BreakAt
  <2>5. ForwardedAreAwaited'
    <3>1. /\ \A i \in DOMAIN commands : commands'[i] = commands[i]
          /\ \A i \in DOMAIN commands' : i \in DOMAIN commands \/ i = Len(commands) + 1
          /\ commands'[Len(commands) + 1] = command
      BY <1>0, <2>1, <2>2, Appended
    <3>2. \A j \in DOMAIN commands' : commands'[j].type # "break"
      BY <2>2, <2>4, <3>1
    <3>3. \A i \in DOMAIN commands' : commands'[i].type = "result" => commands'[i].call \in engine.awaited
      BY <1>5, <1>8, <2>2, <3>1 DEF ForwardedAreAwaited
    <3>4. QED
      BY <1>0, <3>2, <3>3 DEF ForwardedAreAwaited
  <2>6. InjectionsAreNoted'
    BY <1>0, <1>1, <1>a, <2>3 DEF InjectionsAreNoted
  <2>7. AwaitedAreOnTheWay'
    BY <1>0, <1>1, <1>2, <1>a, <2>3 DEF AwaitedAreOnTheWay
  <2>8. QED
    BY <1>3, <1>4, <2>5, <2>6, <2>7 DEF Agree
<1>9. QED
  BY <1>7, <1>8

LEMMA TogetherSession ==
    ASSUME FreshCalls, Types, Types', Kept, Ordered, Ordered', Placed, Travelling, SessionNext,
           ~ SentAgain, engine.pc # "ended", ForwardedAreAwaited, Agree
    PROVE  ForwardedAreAwaited' /\ (Open' => Agree')
<1>0. /\ engine \in EngineState /\ session \in SessionState /\ events \in Seq(Events)
      /\ commands \in Seq(Commands)
  BY DEF Types
<1>a. InjectionsAreNoted /\ FlightIsAwaited /\ GivenUp /\ AwaitedAreOnTheWay
  BY DEF Agree
<1>f. ASSUME UNCHANGED commands
      PROVE  /\ Accepted' = Accepted /\ Forwarded' = Forwarded
             /\ engine'.awaited = engine.awaited => ForwardedAreAwaited'
  BY <1>f DEF Accepted, BreakAt, Forwarded, ForwardedAreAwaited
<1>1. CASE HandleAction
  <2> DEFINE id == MessageId[Head(actions)]
  <2>1. /\ session'.pendingInjections = session.pendingInjections \cup {id}
        /\ session'.interruptedCalls = InterruptedNow /\ session'.ready = session.ready
        /\ delivering' = delivering \cup {Head(actions)} /\ running' = {}
        /\ UNCHANGED <<engine, commands, events, results, answered, queued, cancelled>>
    BY <1>0, <1>1 DEF HandleAction, SessionState
  <2>2. InjectionsAreNoted'
    BY <1>a, <1>f, <2>1 DEF InjectionsAreNoted
  <2> HIDE DEF id
  <2>3. Flight' \subseteq Flight
    BY <2>1 DEF Flight, Asked
  <2>4. Flight \subseteq InterruptedNow
    BY <1>a DEF FlightIsAwaited, InterruptedNow, Placed, OneCommit
  <2>5. FlightIsAwaited'
    BY <2>1, <2>3, <2>4 DEF FlightIsAwaited
  <2>6. GivenUp' /\ AwaitedAreOnTheWay'
    BY <2>1 DEF GivenUp, AwaitedAreOnTheWay
  <2>7. QED
    BY <1>f, <2>1, <2>2, <2>5, <2>6 DEF Agree
<1>2. CASE HandleStarted
  <2>1. /\ session'.pendingInjections = session.pendingInjections
        /\ session'.interruptedCalls = session.interruptedCalls
        /\ session'.interruptedRounds = session.interruptedRounds
        /\ session'.activeCalls = session.activeCalls /\ session'.ready = session.ready
        /\ events # <<>> /\ events' = Tail(events) /\ Head(events).type = "started"
        /\ UNCHANGED <<engine, commands, results, answered, running, delivering, queued, cancelled>>
    BY <1>0, <1>2 DEF HandleStarted, MayHandle, SessionState, messages
  <2>2. Flight' = Flight
    BY <2>1 DEF Flight, Asked
  <2>3. MessageIds(events') = MessageIds(events) /\ (ToExecute' <=> ToExecute)
    BY <2>1, EventPassed
  <2>4. Agree'
    BY <1>f, <2>1, <2>2, <2>3, AgreeCarries
  <2>5. QED
    BY <1>f, <2>1, <2>4
<1>3. CASE HandleExecute
  <2>1. UNCHANGED <<engine, commands>>
    BY <1>3 DEF HandleExecute
  <2>2. QED
    BY <1>3, <1>f, <2>1, TogetherExecute
<1>4. CASE HandleResultCommit
  <2> DEFINE event == Head(events)
  <2>1. /\ events # <<>> /\ event.type = "result" /\ events' = Tail(events)
        /\ session.status = "open"
        /\ UNCHANGED <<settled, commands, results, answered, delivering, queued>>
    BY <1>4 DEF HandleResultCommit, MayHandle, messages, Open
  <2>2. /\ engine'.round = engine.round /\ engine'.awaited = engine.awaited
        /\ engine'.script = engine.script
    BY <1>0, <1>4 DEF HandleResultCommit, EngineState
  <2>3. MessageIds(events') = MessageIds(events) /\ (ToExecute' <=> ToExecute)
    BY <2>1, <2>2, EventPassed
  <2>4. CASE CommitError(event) # "none"
    <3>1. ~ Open'
      BY <1>0, <1>4, <2>4 DEF HandleResultCommit, SessionFails, Open, SessionState
    <3>2. QED
      BY <1>f, <2>1, <2>2, <3>1
  <2>5. CASE CommitError(event) = "none"
    <3>1. /\ session'.pendingInjections = session.pendingInjections
          /\ session'.interruptedCalls = session.interruptedCalls
          /\ session'.interruptedRounds \subseteq session.interruptedRounds
          /\ ~ SettledByNow => session'.activeCalls = session.activeCalls
          /\ session'.ready = session.ready /\ UNCHANGED <<running, cancelled>>
      <4> DEFINE noted == [session EXCEPT !.completed = @ \cup {event.call},
                         !.completions = IF event.interrupted THEN @ ELSE @ \ {event.call}]
      <4>1. /\ session' = IF SettledByNow THEN RoundOver(noted) ELSE noted
            /\ UNCHANGED <<running, cancelled>>
        BY <1>4, <2>5 DEF HandleResultCommit
      <4>2. /\ noted.pendingInjections = session.pendingInjections
            /\ noted.interruptedCalls = session.interruptedCalls
            /\ noted.interruptedRounds = session.interruptedRounds
            /\ noted.ready = session.ready
            /\ RoundOver(noted).pendingInjections = session.pendingInjections
            /\ RoundOver(noted).interruptedCalls = session.interruptedCalls
            /\ RoundOver(noted).interruptedRounds \subseteq session.interruptedRounds
            /\ RoundOver(noted).ready = session.ready
        BY <1>0 DEF RoundOver, SessionState
      <4>3. noted.activeCalls = session.activeCalls
        BY <1>0 DEF SessionState
      <4> HIDE DEF noted
      <4>4. session' \in {noted, RoundOver(noted)} /\ (~ SettledByNow => session' = noted)
        BY <4>1
      <4>5. QED
        BY <4>1, <4>2, <4>3, <4>4
    <3>2. SettledByNow => engine.awaited = {}
      <4>1. session.activeRound = engine.round
        BY <2>1, CommitsFindTheirRound
      <4>2. SettledByNow => Over
        BY <4>1 DEF SettledByNow, Over
      <4>3. QED
        BY <4>2, NothingAwaited
    <3>3. Flight' = Flight
      BY <2>1, <3>1 DEF Flight, Asked
    <3>4. session.activeCalls \cap engine.awaited \subseteq session'.activeCalls
      BY <3>1, <3>2
    <3>5. Agree'
      BY <1>f, <2>1, <2>2, <2>3, <3>1, <3>3, <3>4, AgreeCarries
    <3>6. QED
      BY <1>f, <2>1, <2>2, <3>5
  <2>6. QED
    BY <2>4, <2>5
<1>5. CASE HandleMessageCommit
  <2> DEFINE id == Head(events).id
  <2>1. /\ events # <<>> /\ Head(events).type = "message" /\ events' = Tail(events)
        /\ session.status = "open"
        /\ UNCHANGED <<settled, commands, results, answered, running, delivering, queued, cancelled>>
    BY <1>5 DEF HandleMessageCommit, MayHandle, Open, messages
  <2>2. /\ engine'.round = engine.round /\ engine'.awaited = engine.awaited /\ engine'.pc = engine.pc
        /\ engine'.script = engine.script
        /\ session'.pendingInjections = session.pendingInjections \ {id}
        /\ session'.interruptedCalls = session.interruptedCalls
        /\ session'.activeCalls = session.activeCalls /\ session'.ready = session.ready
    BY <1>0, <1>5 DEF HandleMessageCommit, Undelivered, EngineState, SessionState
  <2>3. Over /\ engine.awaited = {}
    BY <2>1, CommitsFindTheirRound, NothingAwaited
  <2>4. ~ ToExecute'
    <3>1. events[1].type = "message"
      BY <1>0, <2>1, HeadTail
    <3>2. ~ ExecuteSent'
      BY <2>1, <2>2, <3>1, EventTaken
    <3>3. QED
      BY <2>2, <2>3, <3>2, NothingAwaited DEF ToExecute
  <2>5. MessageIds(events) = MessageIds(events') \cup {id}
    BY <1>0, <2>1, EventHandled
  <2> HIDE DEF id
  <2>6. Flight' = Flight
    BY <2>1, <2>2 DEF Flight, Asked
  <2>7. InjectionsAreNoted'
    <3>1. \A s \in delivering \cup Accepted : MessageId[s] # id
      BY <2>5 DEF Kept, Travelling, New
    <3>2. QED
      BY <1>a, <1>f, <2>1, <2>2, <2>5, <3>1 DEF InjectionsAreNoted
  <2>8. FlightIsAwaited'
    BY <1>a, <2>1, <2>2, <2>3, <2>6 DEF FlightIsAwaited
  <2>9. GivenUp' /\ AwaitedAreOnTheWay'
    BY <2>2, <2>3, <2>4 DEF GivenUp, AwaitedAreOnTheWay
  <2>10. QED
    BY <1>f, <2>1, <2>2, <2>7, <2>8, <2>9 DEF Agree
<1>6. CASE HandleFinal
  <2>1. /\ events # <<>> /\ events' = Tail(events) /\ Head(events).type = "final"
        /\ UNCHANGED <<session, commands, results, answered, running, delivering, queued, cancelled>>
        /\ engine'.round = engine.round /\ engine'.awaited = engine.awaited
        /\ engine'.script = engine.script
    BY <1>0, <1>6 DEF HandleFinal, MayHandle, EngineState, messages
  <2>2. Flight' = Flight
    BY <2>1 DEF Flight, Asked
  <2>3. MessageIds(events') = MessageIds(events) /\ (ToExecute' <=> ToExecute)
    BY <2>1, EventPassed
  <2>4. Agree'
    BY <1>f, <2>1, <2>2, <2>3, AgreeCarries
  <2>5. QED
    BY <1>f, <2>1, <2>4
<1>7. CASE HandleEnded
  <2>1. ~ Open' /\ UNCHANGED <<engine, commands>>
    BY <1>0, <1>7 DEF HandleEnded, Open, SessionState
  <2>2. QED
    BY <1>f, <2>1
<1>8. CASE HandleCompletion
  BY <1>8, TogetherForward
<1>9. QED
  BY <1>1, <1>2, <1>3, <1>4, <1>5, <1>6, <1>7, <1>8 DEF SessionNext

LEMMA TogetherInit == Init => Together
<1> SUFFICES ASSUME Init PROVE Together
  OBVIOUS
<1>1. /\ Accepted = {} /\ commands = <<>> /\ engine.awaited = {} /\ delivering = {}
      /\ session.pendingInjections = {} /\ running = {}
  BY NothingInEmpty DEF Init
<1>2. Flight = {}
  BY DEF Init, Flight, Asked, Range
<1>3. ~ ToExecute
  BY DEF Init, ToExecute, ExecuteSent
<1>4. QED
  BY <1>1, <1>2, <1>3 DEF Together, ForwardedAreAwaited, Agree, InjectionsAreNoted, FlightIsAwaited,
     GivenUp, AwaitedAreOnTheWay

\* A run that has ended stays ended, and a session that is not open stays closed.
LEMMA EndIsFinal ==
    ASSUME Types, Ordered, [Next]_vars
    PROVE  /\ engine.pc = "ended" => engine'.pc = "ended"
           /\ Open' => Open
           /\ unsent' \subseteq unsent
<1>0. engine \in EngineState /\ session \in SessionState
  BY DEF Types
<1>1. ASSUME engine.pc = "ended" PROVE engine.script = <<>> /\ engine.awaited = {}
  BY <1>1 DEF Ordered, Phases
<1>2. CASE EngineNext
  <2>1. UNCHANGED <<session, unsent>>
    BY <1>2 DEF EngineNext, ModelCallsTools, ModelEndsTurn, DrainAccepted, EngineEmits,
       EngineSkipsMessage, EngineContinues, TakeResult, TakeBreak, EngineCompletes, EngineCancelled,
       EngineFails, End, messages
  <2>2. engine.pc # "ended"
    BY <1>1, <1>2 DEF EngineNext, ModelCallsTools, ModelEndsTurn, DrainAccepted, EngineEmits,
       EngineSkipsMessage, EngineContinues, TakeResult, TakeBreak, EngineCompletes, EngineCancelled,
       EngineFails, Receives
  <2>3. QED
    BY <2>1, <2>2 DEF Open
<1>3. CASE SessionNext
  <2>1. Open /\ engine'.pc = engine.pc /\ unsent' = unsent
    BY <1>0, <1>3 DEF SessionNext, HandleAction, HandleStarted, HandleExecute, HandleResultCommit,
       HandleMessageCommit, HandleFinal, HandleEnded, HandleCompletion, MayHandle, messages, EngineState
  <2>2. QED
    BY <2>1
<1>4. ASSUME NEW s, SendMessage(s) \/ Deliver(s) PROVE UNCHANGED <<engine, session>> /\ unsent' \subseteq unsent
  BY <1>4 DEF SendMessage, Deliver
<1>5. ASSUME NEW exec, ToolAnswers(exec) \/ PassOnAnswer(exec) PROVE UNCHANGED <<engine, session, unsent>>
  BY <1>5 DEF ToolAnswers, PassOnAnswer, messages
<1>6. ASSUME Cancel \/ UNCHANGED vars PROVE UNCHANGED <<engine, session, unsent>>
  BY <1>6 DEF Cancel, vars, messages
<1>7. QED
  BY <1>2, <1>3, <1>4, <1>5, <1>6 DEF Next, Open

LEMMA TogetherStep ==
    ASSUME FreshCalls, Types, Types', Kept, Ordered, Ordered', Placed, Travelling, Together,
           [Next]_vars
    PROVE  Together'
<1> SUFFICES ASSUME ~ SentAgain', engine'.pc # "ended"
             PROVE  ForwardedAreAwaited' /\ (Open' => Agree')
  BY DEF Together
<1>0. /\ engine.pc # "ended" /\ ~ SentAgain /\ (Open' => Open)
      /\ ForwardedAreAwaited /\ (Open => Agree)
  BY EndIsFinal, SentAgainStays DEF Together
<1>a. Open' => InjectionsAreNoted /\ FlightIsAwaited /\ GivenUp /\ AwaitedAreOnTheWay
  BY <1>0 DEF Agree
<1>f. ASSUME UNCHANGED commands
      PROVE  /\ Accepted' = Accepted /\ Forwarded' = Forwarded
             /\ engine'.awaited = engine.awaited => ForwardedAreAwaited'
  BY <1>0, <1>f DEF Accepted, BreakAt, Forwarded, ForwardedAreAwaited
<1>t. ASSUME UNCHANGED <<engine, events>>
      PROVE  /\ ToExecute' = ToExecute
             /\ MessageIds(engine.script)' = MessageIds(engine.script)
             /\ MessageIds(events)' = MessageIds(events)
  BY <1>t DEF ToExecute, ExecuteSent
<1>k. ASSUME UNCHANGED <<engine, commands, events, session, delivering, queued, cancelled>>,
             Flight' = Flight, running' \subseteq running
      PROVE  ForwardedAreAwaited' /\ (Open' => Agree')
  BY <1>0, <1>f, <1>k, <1>t, AgreeCarries
<1>1. CASE EngineNext
  BY <1>0, <1>1, TogetherEngine
<1>2. CASE SessionNext
  <2>1. Open
    BY <1>2 DEF SessionNext, HandleAction, HandleStarted, HandleExecute, HandleResultCommit,
       HandleMessageCommit, HandleFinal, HandleEnded, HandleCompletion, MayHandle
  <2>2. QED
    BY <1>0, <1>2, <2>1, TogetherSession
<1>3. ASSUME NEW s \in Sends, SendMessage(s)
      PROVE  ForwardedAreAwaited' /\ (Open' => Agree')
  <2>1. UNCHANGED <<engine, commands, events, session, delivering, queued, cancelled, running,
                    answered, results>>
    BY <1>3 DEF SendMessage
  <2>2. Flight' = Flight
    BY <2>1 DEF Flight, Asked
  <2>3. QED
    BY <1>k, <2>1, <2>2
<1>4. ASSUME NEW s \in Sends, Deliver(s)
      PROVE  ForwardedAreAwaited' /\ (Open' => Agree')
  <2> DEFINE command == [type |-> "break", send |-> s]
  <2>1. /\ s \in delivering /\ delivering' = delivering \ {s}
        /\ UNCHANGED <<engine, events, session, running, answered, results, cancelled>>
        /\ \/ commands' = Append(commands, command) /\ queued' = queued
           \/ commands' = commands /\ queued' = queued \cup {MessageId[s]}
    BY <1>4 DEF Deliver, Refused
  <2>2. command \in Commands /\ command.type = "break" /\ command.send = s
    BY CommandTypes
  <2>3. Flight' = Flight
    BY <2>1 DEF Flight, Asked
  <2> HIDE DEF command
  <2>4. CASE commands' = commands /\ queued' = queued \cup {MessageId[s]}
    <3>1. ForwardedAreAwaited'
      BY <1>f, <2>1, <2>4
    <3>2. ASSUME Open' PROVE InjectionsAreNoted'
      BY <1>a, <1>f, <2>1, <2>4, <3>2 DEF InjectionsAreNoted
    <3>3. ASSUME Open' PROVE FlightIsAwaited' /\ GivenUp'
      BY <1>a, <1>t, <2>1, <2>3, <3>3 DEF FlightIsAwaited, GivenUp
    <3>4. AwaitedAreOnTheWay'
      BY <2>4 DEF AwaitedAreOnTheWay
    <3>5. QED
      BY <3>1, <3>2, <3>3, <3>4 DEF Agree
  <2>5. CASE commands' = Append(commands, command) /\ queued' = queued
    <3>1. Accepted' = Accepted \cup {s} /\ Forwarded' = Forwarded
      BY <2>2, <2>5, CommandSent
    <3>2. ForwardedAreAwaited'
      <4>1. /\ commands \in Seq(Commands) /\ Len(commands) \in Nat
            /\ \A i \in DOMAIN commands : commands'[i] = commands[i] /\ i \in Nat /\ i <= Len(commands)
            /\ \A i \in DOMAIN commands' : i \in DOMAIN commands \/ i = Len(commands) + 1
            /\ commands'[Len(commands) + 1] = command
        BY <2>2, <2>5, Appended DEF Types
      <4>2. \A i \in DOMAIN commands' : commands'[i].type = "result" => i \in DOMAIN commands
        BY <2>2, <4>1
      <4>3. \A i \in DOMAIN commands, j \in DOMAIN commands' : j < i => j \in DOMAIN commands
        BY <4>1
      <4>4. QED
        BY <1>0, <2>1, <4>1, <4>2, <4>3 DEF ForwardedAreAwaited
    <3>3. ASSUME Open' PROVE InjectionsAreNoted'
      BY <1>a, <1>t, <2>1, <2>5, <3>1, <3>3 DEF InjectionsAreNoted
    <3>4. ASSUME Open' PROVE FlightIsAwaited' /\ GivenUp'
      BY <1>a, <1>t, <2>1, <2>3, <3>4 DEF FlightIsAwaited, GivenUp
    <3>5. AwaitedAreOnTheWay'
      BY <3>1 DEF AwaitedAreOnTheWay
    <3>6. QED
      BY <3>2, <3>3, <3>4, <3>5 DEF Agree
  <2>6. QED
    BY <2>1, <2>4, <2>5
<1>5. ASSUME NEW exec \in running, ToolAnswers(exec)
      PROVE  ForwardedAreAwaited' /\ (Open' => Agree')
  <2>1. /\ running' = running \ {exec} /\ answered' = answered \cup {exec}
        /\ UNCHANGED <<engine, commands, events, session, delivering, queued, cancelled, results>>
    BY <1>5 DEF ToolAnswers, messages
  <2>2. Asked' = Asked
    BY <2>1 DEF Asked
  <2>3. Flight' = Flight
    BY <2>1, <2>2 DEF Flight
  <2>4. QED
    BY <1>k, <2>1, <2>3
<1>6. ASSUME NEW exec \in answered, PassOnAnswer(exec)
      PROVE  ForwardedAreAwaited' /\ (Open' => Agree')
  <2>1. /\ running' = running /\ answered' = answered \ {exec} /\ results' = Append(results, exec.call)
        /\ UNCHANGED <<engine, commands, events, session, delivering, queued, cancelled>>
    BY <1>6 DEF PassOnAnswer, messages
  <2>2. exec.call \in Calls /\ results \in Seq(Calls)
    BY DEF Types, Executions
  <2>3. Range(results') = Range(results) \cup {exec.call}
    BY <2>1, <2>2, Longer
  <2>4. Asked = Asked' \cup {exec.call}
    BY <2>1 DEF Asked
  <2>5. Flight' = Flight
    BY <2>1, <2>3, <2>4 DEF Flight
  <2>6. QED
    BY <1>k, <2>1, <2>5
<1>7. CASE Cancel
  <2>1. /\ running' = {} /\ cancelled'
        /\ UNCHANGED <<engine, commands, events, session, delivering, queued, answered, results>>
    BY <1>7 DEF Cancel, channels, messages
  <2>2. Flight' \subseteq Flight
    BY <2>1 DEF Flight, Asked
  <2>3. ASSUME Open' PROVE InjectionsAreNoted' /\ FlightIsAwaited' /\ GivenUp'
    BY <1>a, <1>f, <1>t, <2>1, <2>2, <2>3 DEF InjectionsAreNoted, FlightIsAwaited, GivenUp
  <2>4. AwaitedAreOnTheWay'
    BY <2>1 DEF AwaitedAreOnTheWay
  <2>5. QED
    BY <1>f, <2>1, <2>3, <2>4 DEF Agree
<1>8. CASE UNCHANGED vars
  <2>1. UNCHANGED <<engine, commands, events, session, delivering, queued, cancelled, running,
                    answered, results>>
    BY <1>8 DEF vars
  <2>2. Flight' = Flight
    BY <2>1 DEF Flight, Asked
  <2>3. QED
    BY <1>k, <2>1, <2>2
<1>9. QED
  BY <1>1, <1>2, <1>3, <1>4, <1>5, <1>6, <1>7, <1>8 DEF Next

-----------------------------------------------------------------------------
(* The theorems.                                                            *)

LEMMA FoundInit == Init => ResultsFindTheirRound
BY DEF Init, ResultsFindTheirRound

LEMMA FoundStep ==
    ASSUME Types, Kept, Ordered, Placed, Together, ResultsFindTheirRound, [Next]_vars
    PROVE  ResultsFindTheirRound'
<1>0. engine \in EngineState /\ commands \in Seq(Commands)
  BY DEF Types
<1>1. session'.error \notin PlacingErrors
  BY NoPlacingError DEF ResultsFindTheirRound, PlacingErrors
<1>2. SentAgain => SentAgain'
  BY EndIsFinal, SentAgainStays
<1>3. ASSUME ~ SentAgain' PROVE engine'.outcome # "failed"
  <2>0. ~ SentAgain /\ engine.outcome # "failed"
    BY <1>2, <1>3 DEF ResultsFindTheirRound
  <2>1. ~ EngineFails
    <3> SUFFICES ASSUME EngineFails PROVE FALSE
      OBVIOUS
    <3>1. /\ commands # <<>> /\ Head(commands).type = "result"
          /\ engine.pc = "model" \/ engine.awaited # {}
          /\ engine.pc = "round" => Head(commands).call \notin RoundCalls[engine.round]
      BY DEF EngineFails, Receives
    <3>2. engine.pc # "ended"
      BY <3>1 DEF Ordered, Phases
    <3>3. Head(commands).call \in engine.awaited
      BY <1>0, <2>0, <3>1, <3>2, HeadTail DEF Together, ForwardedAreAwaited
    <3>4. engine.pc = "round"
      BY <3>3 DEF Kept
    <3>5. engine.round \in Rounds
      BY <3>4 DEF Ordered, Phases, Types, EngineState
    <3>6. QED
      BY <3>1, <3>3, <3>4, <3>5, RoundFacts DEF Types
  <2>2. CASE HandleMessageCommit
    <3>1. session.activeRound = NoRound
      BY <2>2, CommitsFindTheirRound DEF HandleMessageCommit, MayHandle, Open
    <3>2. QED
      BY <1>0, <2>0, <2>2, <3>1 DEF HandleMessageCommit, EngineState
  <2>3. CASE EngineNext
    BY <1>0, <2>0, <2>1, <2>3 DEF EngineNext, ModelCallsTools, ModelEndsTurn, DrainAccepted,
       EngineEmits, EngineSkipsMessage, EngineContinues, TakeResult, TakeBreak, EngineCompletes,
       EngineCancelled, End, EngineState
  <2>4. CASE HandleAction \/ HandleStarted \/ HandleExecute \/ HandleResultCommit
               \/ HandleFinal \/ HandleEnded \/ HandleCompletion
    BY <1>0, <2>0, <2>4 DEF HandleAction, HandleStarted, HandleExecute, HandleResultCommit,
       HandleFinal, HandleEnded, HandleCompletion, EngineState
  <2>5. ASSUME UNCHANGED engine PROVE engine'.outcome # "failed"
    BY <2>0, <2>5
  <2>6. ASSUME NEW s, SendMessage(s) \/ Deliver(s) PROVE engine'.outcome # "failed"
    BY <2>5, <2>6 DEF SendMessage, Deliver
  <2>7. ASSUME NEW exec, ToolAnswers(exec) \/ PassOnAnswer(exec) PROVE engine'.outcome # "failed"
    BY <2>5, <2>7 DEF ToolAnswers, PassOnAnswer
  <2>8. CASE Cancel \/ UNCHANGED vars
    BY <2>5, <2>8 DEF Cancel, vars
  <2>9. QED
    BY <2>2, <2>3, <2>4, <2>6, <2>7, <2>8 DEF Next, SessionNext
<1>4. QED
  BY <1>1, <1>3 DEF ResultsFindTheirRound, PlacingErrors

LEMMA IInvInit == Init => IInv
BY TypesInit, KeptInit, OrderedInit, PlacedInit, TravellingInit, TogetherInit, FoundInit DEF IInv

LEMMA IInvStep ==
    ASSUME FreshCalls, IInv, [Next]_vars
    PROVE  IInv'
<1>1. Types' /\ Kept' /\ Ordered'
  BY TypesStep, KeptStep, OrderedStep DEF IInv
<1>2. Placed' /\ Travelling' /\ Together' /\ ResultsFindTheirRound'
  BY <1>1, PlacedStep, TravellingStep, TogetherStep, FoundStep DEF IInv
<1>3. QED
  BY <1>1, <1>2 DEF IInv

\* If no two rounds share a call id, the states of engine, session and channels
\* are in their invariant.
LEMMA Invariance == FreshCalls /\ Spec => []IInv
<1>1. FreshCalls /\ IInv /\ [Next]_vars => IInv'
  BY IInvStep
<1>2. QED
  <2> SUFFICES ASSUME FreshCalls PROVE Spec => []IInv
    OBVIOUS
  <2>1. IInv /\ [Next]_vars => IInv'
    BY <1>1
  <2>2. QED
    BY <2>1, IInvInit, PTL DEF Spec

\* Engine and session agree on the rounds: the engine is never sent a result it
\* cannot place, and the session never meets a commit or a completion it cannot
\* place (ResultsFindTheirRound).
THEOREM ResultsFindTheirRoundTheorem == FreshCalls /\ Spec => []ResultsFindTheirRound
<1>1. IInv => ResultsFindTheirRound
  BY DEF IInv
<1>2. QED
  BY <1>1, Invariance, PTL

\* A tool runs only while its round waits for it, or its run or session is over
\* (RunningToolsAreAwaited).
THEOREM RunningToolsAreAwaitedTheorem == FreshCalls /\ Spec => []RunningToolsAreAwaited
<1>1. ASSUME FreshCalls, IInv PROVE RunningToolsAreAwaited
  <2> SUFFICES ASSUME NEW exec \in running, ~ SentAgain, engine.pc # "ended", session.status = "open"
               PROVE  engine.round = exec.round /\ exec.call \in engine.awaited
    BY <1>1 DEF RunningToolsAreAwaited
  <2>1. FlightIsAwaited
    BY <1>1 DEF IInv, Together, Agree, Open
  <2>2. exec.call \in engine.awaited
    BY <2>1 DEF FlightIsAwaited, Flight, Asked
  <2>3. exec.round \in Rounds /\ exec.call \in RoundCalls[exec.round]
    BY <1>1 DEF IInv, Types, Executions
  <2>4. engine.round \in Rounds /\ exec.call \in RoundCalls[engine.round]
    BY <1>1, <2>2, RoundFacts DEF IInv, Types, EngineState
  <2>5. QED
    BY <1>1, <2>2, <2>3, <2>4 DEF FreshCalls
<1>2. QED
  <2> SUFFICES ASSUME FreshCalls PROVE Spec => []RunningToolsAreAwaited
    OBVIOUS
  <2>1. IInv => RunningToolsAreAwaited
    BY <1>1
  <2>2. QED
    BY <2>1, Invariance, PTL

\* A tool round is never left waiting for results that nobody will produce, as
\* long as the run refused no message and none was sent again
\* (RoundsGetTheirResults).
THEOREM RoundsGetTheirResultsTheorem == FreshCalls /\ Spec => []RoundsGetTheirResults
<1>1. ASSUME IInv PROVE RoundsGetTheirResults
  <2> SUFFICES ASSUME Quiet, queued = {}, ~ SentAgain PROVE engine.awaited = {}
    BY DEF RoundsGetTheirResults
  <2>1. CASE engine.pc = "ended"
    BY <1>1, <2>1 DEF IInv, Kept
  <2>2. CASE engine.pc # "ended"
    <3>1. AwaitedAreOnTheWay
      BY <1>1, <2>2 DEF IInv, Together, Agree, Open, Quiet
    <3>2. Flight = {} /\ Forwarded = {} /\ Accepted = {}
      BY NothingInEmpty DEF Quiet, Flight, Asked, Range
    <3>3. ~ ToExecute
      BY DEF Quiet, Listening, ToExecute, ExecuteSent
    <3>4. QED
      BY <3>1, <3>2, <3>3 DEF AwaitedAreOnTheWay, Quiet
  <2>3. QED
    BY <2>1, <2>2
<1>2. IInv => RoundsGetTheirResults
  BY <1>1
<1>3. QED
  BY <1>2, Invariance, PTL

=============================================================================
