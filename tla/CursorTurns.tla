---------------------------- MODULE CursorTurns ----------------------------
(***************************************************************************)
(* sidecar/cursor-proxy.js as a server of Cursor agents: RunSSE requests,   *)
(* each of which is a turn -- it waits for the user's message, calls the    *)
(* model, lets the client run the tools the model asks for, and calls the   *)
(* model again -- and BidiAppend requests, which bring the messages and the *)
(* results of the tools.                                                    *)
(*                                                                          *)
(* Node runs one handler at a time, from one await to the next: every       *)
(* action is what happens between two of them.  The client is external: it  *)
(* may send what it was asked for at any time, in any order, more than once *)
(* or not at all, may close the connection of a turn, and may send RunSSE   *)
(* for a request again.  The sidecar may be restarted; only the histories,  *)
(* which are files, are left then.                                          *)
(***************************************************************************)
EXTENDS ToolWaits, CursorSessions, Sequences

CONSTANTS
    Turns,              \* RunSSE requests
    ConversationOf,     \* the conversation each request is appended for
    Rounds,             \* the tools the model may ask for in one round
    MaxRounds,          \* CURSOR_TOOL_LOOP_MAX_ROUNDS
    MaxRestarts,        \* bound: how often the sidecar is restarted
    MaxExpired          \* bound: how many sessions become too old

\* A tool is a call and a kind; "local" stands for the tools that ask the
\* client nothing, and for calls that are refused before they do.
ToolType == [call : Calls, kind : Kinds \cup {"local"}]

ASSUME RoundsAssumption == Rounds \subseteq Seq(ToolType)
ASSUME MaxRoundsAssumption == MaxRounds \in Nat \ {0}
ASSUME ConversationsAssumption ==
    /\ ConversationOf \in [Requests -> Conversations]
    /\ NoConversation \notin Conversations
    /\ NoText \notin Requests
ASSUME NoExecAssumption ==
    NoExec \notin [turn : Turns, seq : Nat, call : Calls, kind : Kinds]

VARIABLES
    turn,       \* the handler of each RunSSE
    waits,      \* the tables of ToolWaits
    sessions,   \* the tables of CursorSessions
    history,    \* the messages recorded in each conversation
    asked,      \* external: what the client was asked to do
    restarts,
    expired     \* the sessions that have become too old

vars == <<turn, waits, sessions, history, asked, restarts, expired>>

Phases == {"new", "waiting", "model", "tool", "over", "cut"}

\* A turn that has not come yet.
NewTurn ==
    [phase |-> "new", request |-> NoText, conversation |-> NoConversation, text |-> NoText,
     connected |-> TRUE, round |-> 1, todo |-> <<>>, exec |-> NoExec, answers |-> {}]

Init ==
    /\ turn = [t \in Turns |-> NewTurn]
    /\ waits = NewTables
    /\ sessions = NewSessions
    /\ history = [c \in Conversations |-> {}]
    /\ asked = {}
    /\ restarts = 0
    /\ expired = 0

-----------------------------------------------------------------------------
(* What a handler does until it waits again                                 *)

\* A handler that is no more; its request is remembered by the client.
Gone(q, phase) == [NewTurn EXCEPT !.phase = phase, !.request = q.request]

\* The handler ends, well or badly; finally, it drops its session.
Over(t, q, w, s) ==
    /\ turn' = [turn EXCEPT ![t] = Gone(q, "over")]
    /\ waits' = w
    /\ sessions' = Dropped(s, q.request)
    /\ UNCHANGED asked

\* executeCursorToolCall fails at once where a frame cannot be written and
\* where the call is already waited for; the model is told, and the next tool
\* is tried.
Waits(q, w, tool) ==
    /\ q.connected
    /\ tool.kind # "local"
    /\ Free(w, tool.call, tool.kind)

\* The numbers that the first n tools, which did not wait, have used up.
Used(q, n) ==
    IF q.connected THEN Cardinality({i \in 1 .. n : q.todo[i].kind \in ExecKinds}) ELSE 0

\* The first tool that waits.
IsNext(q, w, i) ==
    /\ i \in 1 .. Len(q.todo)
    /\ Waits(q, w, q.todo[i])
    /\ \A j \in 1 .. i - 1 : ~Waits(q, w, q.todo[j])

\* The client is asked to run the tool.
Ask(t, q, w, s, i) ==
    LET tool == q.todo[i]
        seq == w.next + Used(q, i - 1) + 1
        e == [turn |-> t, call |-> tool.call, kind |-> tool.kind,
              seq |-> IF tool.kind = "query" THEN 0 ELSE seq]
    IN  /\ turn' = [turn EXCEPT ![t] =
                       [q EXCEPT !.phase = "tool", !.exec = e,
                                 !.todo = SubSeq(@, i + 1, Len(@))]]
        /\ waits' = Registered([w EXCEPT !.next = @ + Used(q, i - 1)], e)
        /\ asked' = asked \cup {e}
        /\ sessions' = s

\* Mutant of NextRound: the rounds are not counted.
EndlessRounds(t, q, w, s) ==
    \/ Over(t, q, w, s)
    \/ /\ turn' = [turn EXCEPT ![t] = [q EXCEPT !.phase = "model", !.exec = NoExec, !.todo = <<>>]]
       /\ waits' = w
       /\ sessions' = s
       /\ UNCHANGED asked

\* No tool is left: the model is called again, unless this was the last round
\* or the turn has taken too long.
NextRound(t, q, w, s) ==
    LET v == [w EXCEPT !.next = @ + Used(q, Len(q.todo))]
    IN  \/ Over(t, q, v, s)
        \/ /\ q.round < MaxRounds
           /\ turn' = [turn EXCEPT ![t] =
                          [q EXCEPT !.phase = "model", !.round = @ + 1, !.exec = NoExec,
                                    !.todo = <<>>]]
           /\ waits' = v
           /\ sessions' = s
           /\ UNCHANGED asked

\* The tools that are left.
RunTools(t, q, w, s) ==
    \/ \E i \in 1 .. Len(q.todo) : IsNext(q, w, i) /\ Ask(t, q, w, s, i)
    \/ /\ \A i \in 1 .. Len(q.todo) : ~Waits(q, w, q.todo[i])
       /\ NextRound(t, q, w, s)

-----------------------------------------------------------------------------
(* RunSSE                                                                   *)

\* handleRunSSE, until it waits for the session of its request.
RunSSE(t) ==
    /\ turn[t].phase = "new"
    /\ \E r \in Requests :
           turn' = [turn EXCEPT ![t] = [@ EXCEPT !.phase = "waiting", !.request = r]]
    /\ UNCHANGED <<waits, sessions, history, asked, restarts, expired>>

\* The turn begins with what it found; it fails where that has no text, and
\* where no model is configured.
Begin(t, s) ==
    LET q == turn[t]
        found == s.byRequest[q.request]
    IN  \/ Over(t, q, waits, s)
        \/ /\ HasText(s, q.request)
           /\ turn' = [turn EXCEPT ![t] =
                          [q EXCEPT !.phase = "model", !.text = found.text,
                                    !.conversation = found.conversation]]
           /\ sessions' = s
           /\ UNCHANGED <<waits, asked>>

\* waitForSession looks, and finds the session of the request, or a
\* conversation the request belongs to.
FindSession(t) ==
    LET r == turn[t].request
    IN  /\ turn[t].phase = "waiting"
        /\ \/ HasText(sessions, r) /\ Begin(t, sessions)
           \/ /\ ~HasText(sessions, r)
              /\ \E c \in Related(sessions, r) : Begin(t, Cloned(sessions, r, c))
        /\ UNCHANGED <<history, restarts, expired>>

\* waitForSession has waited long enough: it takes what is there, else the
\* one conversation that is recent, if only one is, which depends on times
\* that are left out.
WaitEnds(t) ==
    LET r == turn[t].request
    IN  /\ turn[t].phase = "waiting"
        /\ \/ Begin(t, sessions)
           \/ /\ ~HasText(sessions, r)
              /\ \E c \in Conversations :
                     /\ sessions.byConversation[c] # NoText
                     /\ Begin(t, Cloned(sessions, r, c))
        /\ UNCHANGED <<history, restarts, expired>>

\* The model's answer, with or without text.  That the client has left is
\* noticed where text is written; without tools the turn is complete and
\* recorded.
ModelAnswers(t) ==
    LET q == turn[t]
    IN  /\ q.phase = "model"
        /\ \E tools \in Rounds, text \in BOOLEAN :
            \/ /\ text /\ ~q.connected
               /\ Over(t, q, waits, sessions)
               /\ UNCHANGED history
            \/ /\ q.connected \/ ~text
               /\ tools = <<>>
               /\ history' = [history EXCEPT ![q.conversation] = @ \cup {q.text}]
               /\ Over(t, q, waits, sessions)
            \/ /\ q.connected \/ ~text
               /\ tools # <<>>
               /\ RunTools(t, [q EXCEPT !.todo = tools], waits, sessions)
               /\ UNCHANGED history
        /\ UNCHANGED <<restarts, expired>>

\* The upstream fails, or its stream is cut off.
ModelFails(t) ==
    /\ turn[t].phase = "model"
    /\ Over(t, turn[t], waits, sessions)
    /\ UNCHANGED <<history, restarts, expired>>

\* The timer of a wait; the model is told that the tool timed out.
ToolTimesOut(t) ==
    LET q == turn[t]
    IN  /\ q.phase = "tool"
        /\ RunTools(t, q, TimedOut(waits, q.exec), sessions)
        /\ UNCHANGED <<history, restarts, expired>>

-----------------------------------------------------------------------------
(* BidiAppend                                                               *)

\* A message that starts a run, with the user's text or without one.
UserMessage(r) ==
    /\ \E text \in {r, NoText} :
           sessions' = Remembered(sessions, r, [conversation |-> ConversationOf[r], text |-> text])
    /\ UNCHANGED <<turn, waits, history, asked, restarts, expired>>

\* What a result tells the handler that waits: whose message it was, and whose
\* output it shows.
Answered(q, e, w) ==
    [q EXCEPT !.answers = @ \cup
        {[to |-> q.exec, from |-> e,
          shown |-> IF e.kind = "shell" THEN w.shells[q.exec.call] ELSE {}]}]

\* The last message about an exec: it resolves the wait it leads to, and the
\* handler goes on.
ResultArrives(e) ==
    LET s == Touched(sessions, turn[e.turn].request)
    IN  /\ \/ /\ Answers(waits, e) = {}
              /\ sessions' = s
              /\ UNCHANGED <<turn, waits, asked>>
           \/ \E t \in Turns :
                  /\ turn[t].phase = "tool"
                  /\ turn[t].exec \in Answers(waits, e)
                  /\ RunTools(t, Answered(turn[t], e, waits),
                              Delivered(waits, turn[t].exec, e), s)
        /\ UNCHANGED <<history, restarts, expired>>

\* Some output of a shell.
OutputArrives(e) ==
    /\ e.kind = "shell"
    /\ waits' = ShellOutput(waits, e)
    /\ sessions' = Touched(sessions, turn[e.turn].request)
    /\ UNCHANGED <<turn, history, asked, restarts, expired>>

-----------------------------------------------------------------------------
(* The surroundings                                                         *)

\* The client closes the connection of a turn.
ClientLeaves(t) ==
    /\ turn[t].phase \in {"waiting", "model", "tool"}
    /\ turn[t].connected
    /\ turn' = [turn EXCEPT ![t].connected = FALSE]
    /\ UNCHANGED <<waits, sessions, history, asked, restarts, expired>>

\* A session has become too old.
SessionExpires ==
    /\ expired < MaxExpired
    /\ expired' = expired + 1
    /\ sessions' \in Expired(sessions) \ {sessions}
    /\ UNCHANGED <<turn, waits, history, asked, restarts>>

\* The process ends and another one begins.
Restart ==
    /\ restarts < MaxRestarts
    /\ restarts' = restarts + 1
    /\ turn' = [t \in Turns |->
                   IF turn[t].phase \in {"waiting", "model", "tool"}
                     THEN Gone(turn[t], "cut")
                     ELSE turn[t]]
    /\ waits' = NewTables
    /\ sessions' = NewSessions
    /\ UNCHANGED <<history, asked, expired>>

TurnStep(t) ==
    \/ RunSSE(t) \/ FindSession(t) \/ WaitEnds(t)
    \/ ModelAnswers(t) \/ ModelFails(t) \/ ToolTimesOut(t)

Next ==
    \/ \E t \in Turns : TurnStep(t) \/ ClientLeaves(t)
    \/ \E r \in Requests : UserMessage(r)
    \/ \E e \in asked : ResultArrives(e) \/ OutputArrives(e)
    \/ SessionExpires
    \/ Restart

Spec == Init /\ [][Next]_vars

\* Timers fire, and the upstream, whose requests have timers of their own,
\* answers or fails.
FairSpec ==
    /\ Spec
    /\ \A t \in Turns :
           /\ WF_vars(WaitEnds(t))
           /\ WF_vars(ModelAnswers(t) \/ ModelFails(t))
           /\ WF_vars(ToolTimesOut(t))

-----------------------------------------------------------------------------
(* Properties                                                               *)

Awaited == {turn[t].exec : t \in {u \in Turns : turn[u].phase = "tool"}}

\* Two turns may ask for the same call, a tool may be asked for again after
\* its wait has timed out, and results may come late: the answer to what a
\* handler waits for leads to that handler, and every other message leads
\* nowhere or to one that waits -- no table keeps what nobody waits for.
WaitsCanBeAnswered ==
    /\ \A e \in Awaited : Answers(waits, e) = {e}
    /\ \A e \in asked : Answers(waits, e) \subseteq Awaited
    /\ waits.aliases \subseteq Awaited

AllAnswers == UNION {turn[t].answers : t \in Turns}

\* While the sidecar runs, the model is told of an exec what the client said
\* of that exec, and not what it said too late of an earlier one.  After a
\* restart the numbers begin anew, and a result whose exec id is not known is
\* taken by its number: then it may be one of the process before.  Questions
\* have no exec id: the answer may be to the same call, asked before.
ResultsAreTheirOwn ==
    \A a \in AllAnswers :
        \/ a.from = a.to
        \/ a.to.kind = "query" /\ a.from.kind = "query" /\ a.from.call = a.to.call
        \/ restarts > 0 /\ a.from.seq = a.to.seq

\* What a shell printed is shown in one result, and in that of no other call.
\* (It may be that of the same call, asked again after the first timed out:
\* the output of the first is not thrown away.)
OutputIsShownOnce ==
    restarts = 0 =>
        /\ \A a \in AllAnswers : \A e \in a.shown : e.call = a.to.call
        /\ \A a, b \in AllAnswers : a.shown \cap b.shown # {} => a = b

\* A message is answered, and recorded, in the conversation it was sent in,
\* although sessions are copied between requests, written over by messages
\* without a text, and found by the conversation of an earlier request.
MessagesStayInTheirConversation ==
    /\ \A t \in Turns :
           turn[t].text # NoText => turn[t].conversation = ConversationOf[turn[t].text]
    /\ \A c \in Conversations : \A r \in history[c] : ConversationOf[r] = c

\* Every RunSSE ends: no wait for a message, a model or a tool is for ever,
\* whatever the client does, and the rounds are counted.
TurnsEnd ==
    \A t \in Turns :
        turn[t].phase # "new" ~> turn[t].phase \in {"over", "cut"}

=============================================================================
