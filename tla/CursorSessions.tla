--------------------------- MODULE CursorSessions ---------------------------
(***************************************************************************)
(* sidecar/cursor-proxy.js: the messages of Cursor users, which arrive by   *)
(* BidiAppend, until the RunSSE of the same request asks for them -- or of  *)
(* another request, for want of its own.                                    *)
(*                                                                          *)
(* A session has a conversation and a text; the text is named by the        *)
(* request it was appended for.  Sessions are a record of three tables:     *)
(* byRequest and byConversation (whose sessions all have a text), and       *)
(* dropped, the conversations of requests that are done.                    *)
(***************************************************************************)
EXTENDS Naturals

CONSTANTS
    Requests,
    Conversations,
    NoConversation,
    NoText,
    NoSession

SessionType ==
    [conversation : Conversations \cup {NoConversation}, text : Requests \cup {NoText}]

NewSessions ==
    [byRequest |-> [r \in Requests |-> NoSession],
     byConversation |-> [c \in Conversations |-> NoText],
     dropped |-> [r \in Requests |-> NoConversation]]

\* Mutant of Merged: an empty text does not replace the one before.
MergedIfAny(s, m) ==
    [conversation |-> m.conversation,
     text |-> IF m.text = NoText /\ s # NoSession THEN s.text ELSE m.text]

\* { ...existing, ...msg } for a message that starts a run.  parseBidiAppend
\* gives it both keys whenever it finds a run in it, the text as '' if there is
\* none, so that neither is left from before.
Merged(s, m) == [conversation |-> m.conversation, text |-> m.text]

\* What rememberSession stores: by request, and by conversation if it has a
\* text.
Stored(s, r, next) ==
    [s EXCEPT !.byRequest[r] = next,
              !.byConversation = [c \in Conversations |->
                  IF c = next.conversation /\ next.text # NoText THEN next.text ELSE @[c]]]

\* rememberSession with a run message, whose text may be empty.
Remembered(s, r, m) == Stored(s, r, Merged(s.byRequest[r], m))

\* rememberSession with any other message, to which parseBidiAppend gives
\* neither key: the session becomes the latest of its conversation all the same.
Touched(s, r) ==
    Stored(s, r, IF s.byRequest[r] = NoSession
                   THEN [conversation |-> NoConversation, text |-> NoText]
                   ELSE s.byRequest[r])

\* waitForSession puts a copy of a conversation's session under a request.
Cloned(s, r, c) ==
    [s EXCEPT !.byRequest[r] = [conversation |-> c, text |-> s.byConversation[c]]]

HasText(s, r) == s.byRequest[r] # NoSession /\ s.byRequest[r].text # NoText

\* The conversations in which a request without a text of its own may find
\* one: that of its session; failing this, that of its last session.
Related(s, r) ==
    LET own == IF s.byRequest[r] = NoSession THEN NoConversation
                                             ELSE s.byRequest[r].conversation
        WithText(c) == c # NoConversation /\ s.byConversation[c] # NoText
    IN  {c \in {own} : WithText(c)} \cup
        {c \in {s.dropped[r]} : ~WithText(own) /\ WithText(c)}

\* dropSession
Dropped(s, r) ==
    [s EXCEPT !.byRequest[r] = NoSession,
              !.dropped[r] =
                  IF s.byRequest[r] # NoSession /\ s.byRequest[r].conversation # NoConversation
                    THEN s.byRequest[r].conversation ELSE @]

\* cleanupSessionStore finds one session too old.
Expired(s) ==
    {[s EXCEPT !.byRequest[r] = NoSession] : r \in Requests} \cup
    {[s EXCEPT !.byConversation[c] = NoText] : c \in Conversations} \cup
    {[s EXCEPT !.dropped[r] = NoConversation] : r \in Requests}

=============================================================================
