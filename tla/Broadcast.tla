------------------------------ MODULE Broadcast ------------------------------
(***************************************************************************)
(* What cursor/transport/output.rs promises: channels that are written      *)
(* until they end, and readers that join one at any time and are given all  *)
(* of it, in order, from the first frame on.  A reader that is done has     *)
(* been given everything up to an end frame, and no channel ends without    *)
(* one.                                                                     *)
(***************************************************************************)
EXTENDS Naturals, Sequences

CONSTANTS Channels, Readers, Frames, EndFrame, NoChannel

VARIABLES
    log,        \* the frames of each channel
    ended,      \* the channels that take no more frames
    reader      \* where each reader is, and what it has been given

vars == <<log, ended, reader>>

Idle == [status |-> "idle", channel |-> NoChannel, got |-> <<>>]

Init ==
    /\ log = [c \in Channels |-> <<>>]
    /\ ended = [c \in Channels |-> FALSE]
    /\ reader = [r \in Readers |-> Idle]

Write(c) ==
    /\ ~ended[c]
    /\ \E f \in Frames \cup {EndFrame} : log' = [log EXCEPT ![c] = Append(@, f)]
    /\ UNCHANGED <<ended, reader>>

\* A channel ends only after an end frame, which all of its readers will find.
End(c) ==
    /\ ~ended[c]
    /\ \E i \in 1 .. Len(log[c]) : log[c][i] = EndFrame
    /\ ended' = [ended EXCEPT ![c] = TRUE]
    /\ UNCHANGED <<log, reader>>

Join(r, c) ==
    /\ reader[r] = Idle
    /\ reader' = [reader EXCEPT ![r] = [status |-> "reading", channel |-> c, got |-> <<>>]]
    /\ UNCHANGED <<log, ended>>

\* The next frame; the reader is done when it is an end frame.
Read(r) ==
    LET c == reader[r].channel
        n == Len(reader[r].got) + 1
    IN  /\ reader[r].status = "reading"
        /\ n <= Len(log[c])
        /\ reader' = [reader EXCEPT ![r] =
                         [status |-> IF log[c][n] = EndFrame THEN "done" ELSE "reading",
                          channel |-> c,
                          got |-> Append(reader[r].got, log[c][n])]]
        /\ UNCHANGED <<log, ended>>

\* The reader's client goes away.
Leave(r) ==
    /\ reader[r].status = "reading"
    /\ reader' = [reader EXCEPT ![r] =
                     [status |-> "gone", channel |-> reader[r].channel, got |-> reader[r].got]]
    /\ UNCHANGED <<log, ended>>

Next ==
    \/ \E c \in Channels : Write(c) \/ End(c) \/ \E r \in Readers : Join(r, c)
    \/ \E r \in Readers : Read(r) \/ Leave(r)

Spec == Init /\ [][Next]_vars

=============================================================================
