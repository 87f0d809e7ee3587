----------------------------- MODULE ToolWaits -----------------------------
(***************************************************************************)
(* sidecar/cursor-proxy.js: the tables by which what a Cursor client sends  *)
(* back finds the handler that waits for it.                                *)
(*                                                                          *)
(* The client is asked to do something by an exec message, which carries a  *)
(* fresh exec id and a number; its result carries them back.  The handler   *)
(* waits under the id of the tool call, which the upstream chose, or which  *)
(* was hashed from name and arguments: the same call may come again.        *)
(*                                                                          *)
(* An exec is a record: the turn that asked, the number (0 for a query,     *)
(* which has none), the call and the kind.  It stands for its exec id.      *)
(* Tables are a record: next is execSeqCounter; pending and queries are     *)
(* pendingToolResults and pendingInteractionResponses; aliases the keys of  *)
(* execIDAliases; numbers the entries of seqAliases; shells is shellAccums, *)
(* of which only matters whose output was added up.                         *)
(***************************************************************************)
EXTENDS Naturals, FiniteSets

CONSTANTS
    Calls,      \* ids of tool calls
    NoExec      \* nobody waits

\* Whose results come back under the number and the exec id, and who is asked
\* a question, whose answer comes back under the call.
ExecKinds == {"read", "shell"}
Kinds == ExecKinds \cup {"query"}

NewTables ==
    [next |-> 0, pending |-> [c \in Calls |-> NoExec], queries |-> [c \in Calls |-> NoExec],
     aliases |-> {}, numbers |-> {}, shells |-> [c \in Calls |-> {}]]

\* Mutant of Free: a second wait for a call takes the place of the first.
AlwaysFree(w, call, kind) == TRUE

\* registerToolWait and registerInteractionWait refuse a call that is waited for.
Free(w, call, kind) ==
    IF kind = "query" THEN w.queries[call] = NoExec ELSE w.pending[call] = NoExec

\* registerToolWait and registerExecIDAlias, or registerInteractionWait.
Registered(w, e) ==
    IF e.kind = "query"
      THEN [w EXCEPT !.queries[e.call] = e]
      ELSE [w EXCEPT !.next = e.seq,
                     !.pending[e.call] = e,
                     !.aliases = @ \cup {e},
                     !.numbers = {n \in @ : n.seq # e.seq} \cup
                                 {[seq |-> e.seq, call |-> e.call]}]

\* Mutant of WithoutCall: unregisterToolAliases is forgotten.
WithoutWait(w, call) == [w EXCEPT !.pending[call] = NoExec]

\* The wait for a call and everything that leads to it.
WithoutCall(w, call) ==
    [w EXCEPT !.pending[call] = NoExec,
              !.aliases = {a \in @ : a.call # call},
              !.numbers = {n \in @ : n.call # call}]

\* The timer of a wait; the output of a shell stays.
TimedOut(w, e) ==
    IF e.kind = "query" THEN [w EXCEPT !.queries[e.call] = NoExec]
                        ELSE WithoutCall(w, e.call)

\* The call a result leads to, if any: by its exec id, else by its number.
CallsFor(w, e) ==
    IF e \in w.aliases THEN {e.call}
                       ELSE {n.call : n \in {m \in w.numbers : m.seq = e.seq}}

\* The execs a message about e would be an answer to: at most one.
Answers(w, e) ==
    IF e.kind = "query"
      THEN {w.queries[e.call]} \ {NoExec}
      ELSE {w.pending[c] : c \in CallsFor(w, e)} \ {NoExec}

\* deliverShellStreamResult, for an event that is not the last: it adds up.
ShellOutput(w, e) ==
    [w EXCEPT !.shells = [c \in Calls |->
        IF c \in CallsFor(w, e) /\ w.pending[c] # NoExec THEN @[c] \cup {e} ELSE @[c]]]

\* Mutant of Delivered: the shell's output is not taken with its result.
DeliveredOnly(w, waiting, e) == TimedOut(w, waiting)

\* deliverToolResult and deliverInteractionResponse, when waiting is resolved
\* by the last message about e.
Delivered(w, waiting, e) ==
    IF e.kind = "shell"
      THEN [TimedOut(w, waiting) EXCEPT !.shells[waiting.call] = {}]
      ELSE TimedOut(w, waiting)

=============================================================================
