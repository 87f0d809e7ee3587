------------------------- MODULE CursorTurns_proofs -------------------------
(***************************************************************************)
(* Proofs about CursorTurns, for every set of turns, calls, requests and    *)
(* conversations, whatever the model asks for and however often the sidecar *)
(* is restarted: what a client sends back reaches the handler that waits    *)
(* for it and no other, and messages stay in their conversation.            *)
(*                                                                          *)
(* The tables are spoken of together with the set of execs that are         *)
(* awaited (Consistent): a handler takes its exec out of both, and puts the *)
(* next one into both, and in between the tables fit the other handlers.    *)
(***************************************************************************)
EXTENDS CursorTurns, TLAPS, FiniteSetTheorems, SequenceTheorems

-----------------------------------------------------------------------------
(* The tables                                                               *)

ExecType == [turn : Turns, seq : Nat, call : Calls, kind : Kinds]

TableFields == {"next", "pending", "queries", "aliases", "numbers", "shells"}

\* What holds of tables w when the execs in E, and no others, are awaited.
TablesOK(w, E) ==
    /\ DOMAIN w = TableFields
    /\ w.next \in Nat
    /\ DOMAIN w.pending = Calls /\ DOMAIN w.queries = Calls /\ DOMAIN w.shells = Calls
    /\ \A e \in E :
           /\ e.kind = "query" => w.queries[e.call] = e
           /\ e.kind # "query" =>
                  /\ w.pending[e.call] = e /\ e \in w.aliases
                  /\ [seq |-> e.seq, call |-> e.call] \in w.numbers
                  /\ e.seq <= w.next
    /\ \A c \in Calls :
           /\ w.pending[c] # NoExec =>
                  w.pending[c] \in E /\ w.pending[c].call = c /\ w.pending[c].kind # "query"
           /\ w.queries[c] # NoExec =>
                  w.queries[c] \in E /\ w.queries[c].call = c /\ w.queries[c].kind = "query"
    /\ \A a \in w.aliases : a \in E /\ a.kind # "query"
    /\ \A n \in w.numbers :
           /\ n.call \in Calls
           /\ w.pending[n.call] # NoExec
           /\ w.pending[n.call].seq = n.seq

\* The numbers of a process that is the first are not used twice.
FreshOK(k, w, K) ==
    k = 0 =>
        \A e, f \in K :
            /\ e.kind # "query" => e.seq <= w.next
            /\ e.kind # "query" /\ f.kind # "query" /\ e.seq = f.seq => e = f

Own(k, a) ==
    \/ a.from = a.to
    \/ a.to.kind = "query" /\ a.from.kind = "query" /\ a.from.call = a.to.call
    \/ k > 0 /\ a.from.seq = a.to.seq

\* Output that is kept has not been shown, output that is shown is not kept,
\* and no more of it is awaited.
ShownOK(k, w, E, A, K) ==
    k = 0 =>
        /\ \A c \in Calls : \A g \in w.shells[c] : g \in K /\ g.call = c /\ g.kind = "shell"
        /\ \A a \in A : \A g \in a.shown :
               /\ g \in K /\ g.call = a.to.call /\ g.kind = "shell"
               /\ g \notin E
               /\ g \notin w.shells[g.call]
        /\ \A a, b \in A : \A g \in a.shown : g \in b.shown => a = b

\* k restarts, tables w, awaited execs E, answers A, execs K that were asked for.
Consistent(k, w, E, A, K) ==
    /\ k \in Nat
    /\ K \subseteq ExecType
    /\ E \subseteq K
    /\ TablesOK(w, E)
    /\ FreshOK(k, w, K)
    /\ \A a \in A : Own(k, a)
    /\ ShownOK(k, w, E, A, K)

\* A call is awaited once, and asked about once.
LEMMA OnePerCall ==
    ASSUME NEW w, NEW E, TablesOK(w, E), NEW d \in E, NEW e \in E,
           d.kind = "query" <=> e.kind = "query", d.call = e.call
    PROVE  d = e
<1>1. CASE d.kind = "query"
  <2>1. w.queries[d.call] = d /\ w.queries[e.call] = e
    BY <1>1 DEF TablesOK
  <2>2. QED
    BY <2>1
<1>2. CASE d.kind # "query"
  <2>1. w.pending[d.call] = d /\ w.pending[e.call] = e
    BY <1>2 DEF TablesOK
  <2>2. QED
    BY <2>1
<1>3. QED
  BY <1>1, <1>2

\* What is awaited is not free.
LEMMA AwaitedNotFree ==
    ASSUME NEW w, NEW E, E \subseteq ExecType, TablesOK(w, E), NEW d \in E, NEW call, NEW kind,
           Free(w, call, kind), d.kind = "query" <=> kind = "query"
    PROVE  d.call # call
<1>1. d # NoExec
  BY NoExecAssumption DEF ExecType
<1>2. CASE kind = "query"
  <2>1. w.queries[d.call] = d /\ w.queries[call] = NoExec
    BY <1>2 DEF TablesOK, Free
  <2>2. QED
    BY <1>1, <2>1
<1>3. CASE kind # "query"
  <2>1. w.pending[d.call] = d /\ w.pending[call] = NoExec
    BY <1>3 DEF TablesOK, Free
  <2>2. QED
    BY <1>1, <2>1
<1>4. QED
  BY <1>2, <1>3

\* A removed wait, field by field.
LEMMA TimedOutFields ==
    ASSUME NEW w, NEW E, TablesOK(w, E), NEW e \in ExecType
    PROVE  LET v == TimedOut(w, e)
           IN  /\ DOMAIN v = TableFields
               /\ v.next = w.next /\ v.shells = w.shells
               /\ e.kind = "query" =>
                      /\ v.queries = [w.queries EXCEPT ![e.call] = NoExec]
                      /\ v.pending = w.pending /\ v.aliases = w.aliases
                      /\ v.numbers = w.numbers
               /\ e.kind # "query" =>
                      /\ v.queries = w.queries
                      /\ v.pending = [w.pending EXCEPT ![e.call] = NoExec]
                      /\ v.aliases = {a \in w.aliases : a.call # e.call}
                      /\ v.numbers = {n \in w.numbers : n.call # e.call}
BY DEF TablesOK, TableFields, TimedOut, WithoutCall

\* An exec that is awaited no more.
LEMMA TimedOutTables ==
    ASSUME NEW w, NEW E, E \subseteq ExecType, TablesOK(w, E), NEW e \in E
    PROVE  TablesOK(TimedOut(w, e), E \ {e})
<1> DEFINE v == TimedOut(w, e)
           D == E \ {e}
<1>1. /\ DOMAIN v = TableFields
      /\ v.next = w.next /\ v.shells = w.shells
      /\ e.kind = "query" =>
             /\ v.queries = [w.queries EXCEPT ![e.call] = NoExec]
             /\ v.pending = w.pending /\ v.aliases = w.aliases
             /\ v.numbers = w.numbers
      /\ e.kind # "query" =>
             /\ v.queries = w.queries
             /\ v.pending = [w.pending EXCEPT ![e.call] = NoExec]
             /\ v.aliases = {a \in w.aliases : a.call # e.call}
             /\ v.numbers = {n \in w.numbers : n.call # e.call}
  BY TimedOutFields
<1> SUFFICES TablesOK(v, D)
  OBVIOUS
<1> HIDE DEF v
<1>2. e \in ExecType /\ e.call \in Calls /\ e # NoExec
  BY NoExecAssumption DEF ExecType
<1>3. \A d \in E : d.call \in Calls
  BY DEF ExecType
<1>4. CASE e.kind = "query"
  <2>1. \A d \in D : d.kind = "query" => d.call # e.call
    BY <1>4, OnePerCall
  <2>2. QED
    BY <1>1, <1>2, <1>3, <1>4, <2>1 DEF TablesOK
<1>5. CASE e.kind # "query"
  <2>1. \A d \in D : d.kind # "query" => d.call # e.call
    BY <1>5, OnePerCall
  <2>2. \A d \in D :
           /\ d.kind = "query" => v.queries[d.call] = d
           /\ d.kind # "query" =>
                  /\ v.pending[d.call] = d /\ d \in v.aliases
                  /\ [seq |-> d.seq, call |-> d.call] \in v.numbers
                  /\ d.seq <= v.next
    <3>1. SUFFICES ASSUME NEW d \in D
                   PROVE  /\ d.kind = "query" => v.queries[d.call] = d
                          /\ d.kind # "query" =>
                                 /\ v.pending[d.call] = d /\ d \in v.aliases
                                 /\ [seq |-> d.seq, call |-> d.call] \in v.numbers
                                 /\ d.seq <= v.next
      OBVIOUS
    <3>2. d \in E /\ d.call \in Calls
      BY <1>3
    <3>3. CASE d.kind = "query"
      BY <1>1, <1>5, <3>2, <3>3 DEF TablesOK
    <3>4. CASE d.kind # "query"
      <4>1. /\ w.pending[d.call] = d /\ d \in w.aliases
            /\ [seq |-> d.seq, call |-> d.call] \in w.numbers
            /\ d.seq <= w.next
            /\ DOMAIN w.pending = Calls
        BY <3>2, <3>4 DEF TablesOK
      <4>2. d.call # e.call
        BY <2>1, <3>4
      <4>3. v.pending[d.call] = d
        BY <1>1, <1>5, <3>2, <4>1, <4>2
      <4>4. d \in v.aliases /\ d.seq <= v.next
        BY <1>1, <1>5, <4>1, <4>2
      <4>5. [seq |-> d.seq, call |-> d.call] \in v.numbers
        BY <1>1, <1>5, <4>1, <4>2
      <4>6. QED
        BY <3>4, <4>3, <4>4, <4>5
    <3>5. QED
      BY <3>3, <3>4
  <2>3. \A c \in Calls :
           /\ v.pending[c] # NoExec =>
                  v.pending[c] \in D /\ v.pending[c].call = c /\ v.pending[c].kind # "query"
           /\ v.queries[c] # NoExec =>
                  v.queries[c] \in D /\ v.queries[c].call = c /\ v.queries[c].kind = "query"
    BY <1>1, <1>2, <1>5 DEF TablesOK
  <2>4. \A n \in v.numbers :
           /\ n.call \in Calls
           /\ v.pending[n.call] # NoExec
           /\ v.pending[n.call].seq = n.seq
    BY <1>1, <1>5 DEF TablesOK
  <2>5. QED
    BY <1>1, <1>2, <1>5, <2>2, <2>3, <2>4 DEF TablesOK
<1>6. QED
  BY <1>4, <1>5

\* A fresh exec that is awaited, field by field.
LEMMA RegisteredTables ==
    ASSUME NEW w, NEW E, E \subseteq ExecType, TablesOK(w, E), NEW e \in ExecType,
           Free(w, e.call, e.kind), e.kind # "query" => e.seq > w.next
    PROVE  /\ TablesOK(Registered(w, e), E \cup {e})
           /\ Registered(w, e).shells = w.shells
           /\ Registered(w, e).next = IF e.kind = "query" THEN w.next ELSE e.seq
<1> DEFINE v == Registered(w, e)
           F == E \cup {e}
<1>1. /\ DOMAIN v = TableFields
      /\ v.shells = w.shells
      /\ e.kind = "query" =>
             /\ v.queries = [w.queries EXCEPT ![e.call] = e]
             /\ v.pending = w.pending /\ v.aliases = w.aliases
             /\ v.numbers = w.numbers /\ v.next = w.next
      /\ e.kind # "query" =>
             /\ v.queries = w.queries /\ v.next = e.seq
             /\ v.pending = [w.pending EXCEPT ![e.call] = e]
             /\ v.aliases = w.aliases \cup {e}
             /\ v.numbers = {n \in w.numbers : n.seq # e.seq}
                                \cup {[seq |-> e.seq, call |-> e.call]}
  BY DEF TablesOK, TableFields, Registered
<1> SUFFICES /\ TablesOK(v, F)
                  /\ v.shells = w.shells
                  /\ v.next = IF e.kind = "query" THEN w.next ELSE e.seq
  OBVIOUS
<1> HIDE DEF v
<1>2. e.call \in Calls /\ e # NoExec /\ e.seq \in Nat
  BY NoExecAssumption DEF ExecType
<1>3. \A d \in E : d.call \in Calls /\ d.seq \in Nat
  BY DEF ExecType
<1>4. CASE e.kind = "query"
  <2>1. \A d \in E : d.kind = "query" => d.call # e.call
    BY <1>4, AwaitedNotFree
  <2>2. QED
    BY <1>1, <1>2, <1>3, <1>4, <2>1 DEF TablesOK
<1>5. CASE e.kind # "query"
  <2>0. \A d \in E : d.kind # "query" => d.call # e.call
    BY <1>5, AwaitedNotFree
  <2>1. \A d \in E : d.kind # "query" => d.call # e.call /\ d.seq <= w.next
    BY <2>0 DEF TablesOK
  <2>2. \A n \in w.numbers : n.call # e.call /\ n.seq # e.seq
    <3>1. SUFFICES ASSUME NEW n \in w.numbers PROVE n.call # e.call /\ n.seq # e.seq
      OBVIOUS
    <3>2. w.pending[n.call] \in E /\ w.pending[n.call].kind # "query"
          /\ w.pending[n.call].call = n.call /\ w.pending[n.call].seq = n.seq
      BY DEF TablesOK
    <3>3. QED
      BY <1>2, <1>3, <1>5, <2>1, <3>2 DEF TablesOK
  <2>3. v.numbers = w.numbers \cup {[seq |-> e.seq, call |-> e.call]}
    BY <1>1, <1>5, <2>2
  <2>4. \A d \in F :
           /\ d.kind = "query" => v.queries[d.call] = d
           /\ d.kind # "query" =>
                  /\ v.pending[d.call] = d /\ d \in v.aliases
                  /\ [seq |-> d.seq, call |-> d.call] \in v.numbers
                  /\ d.seq <= v.next
    <3>1. SUFFICES ASSUME NEW d \in F
                   PROVE  /\ d.kind = "query" => v.queries[d.call] = d
                          /\ d.kind # "query" =>
                                 /\ v.pending[d.call] = d /\ d \in v.aliases
                                 /\ [seq |-> d.seq, call |-> d.call] \in v.numbers
                                 /\ d.seq <= v.next
      OBVIOUS
    <3>2. CASE d = e
      BY <1>1, <1>2, <1>5, <2>3, <3>2 DEF TablesOK
    <3>3. CASE d \in E /\ d.kind = "query"
      BY <1>1, <1>5, <3>3 DEF TablesOK
    <3>4. CASE d \in E /\ d.kind # "query"
      <4>1. /\ w.pending[d.call] = d /\ d \in w.aliases
            /\ [seq |-> d.seq, call |-> d.call] \in w.numbers
            /\ d.seq <= w.next /\ w.next \in Nat
            /\ DOMAIN w.pending = Calls
        BY <3>4 DEF TablesOK
      <4>2. d.call # e.call /\ d.call \in Calls /\ d.seq \in Nat
        BY <1>3, <2>1, <3>4
      <4>3. v.pending[d.call] = d
        BY <1>1, <1>5, <4>1, <4>2
      <4>4. d \in v.aliases /\ d.seq <= v.next
        BY <1>1, <1>2, <1>5, <4>1, <4>2
      <4>5. [seq |-> d.seq, call |-> d.call] \in v.numbers
        BY <2>3, <4>1
      <4>6. QED
        BY <3>4, <4>3, <4>4, <4>5
    <3>5. QED
      BY <3>2, <3>3, <3>4
  <2>5. \A c \in Calls :
           /\ v.pending[c] # NoExec =>
                  v.pending[c] \in F /\ v.pending[c].call = c /\ v.pending[c].kind # "query"
           /\ v.queries[c] # NoExec =>
                  v.queries[c] \in F /\ v.queries[c].call = c /\ v.queries[c].kind = "query"
    BY <1>1, <1>2, <1>5 DEF TablesOK
  <2>6. \A n \in v.numbers :
           /\ n.call \in Calls
           /\ v.pending[n.call] # NoExec
           /\ v.pending[n.call].seq = n.seq
    BY <1>1, <1>2, <1>5, <2>2, <2>3 DEF TablesOK
  <2>7. QED
    BY <1>1, <1>2, <1>5, <2>4, <2>5, <2>6 DEF TablesOK
<1>6. QED
  BY <1>1, <1>2, <1>4, <1>5

-----------------------------------------------------------------------------
(* What the handlers do to the tables                                       *)

\* A handler may be gone, and what it was answered forgotten.
LEMMA ConsistentLess ==
    ASSUME NEW k, NEW w, NEW E, NEW A, NEW K, Consistent(k, w, E, A, K), NEW B \in SUBSET A
    PROVE  Consistent(k, w, E, B, K)
BY DEF Consistent, ShownOK

\* The wait of e is over.
LEMMA TimedOutConsistent ==
    ASSUME NEW k, NEW w, NEW E, NEW A, NEW K, Consistent(k, w, E, A, K), NEW e \in E
    PROVE  Consistent(k, TimedOut(w, e), E \ {e}, A, K)
<1>1. E \subseteq ExecType /\ e \in ExecType /\ TablesOK(w, E)
  BY DEF Consistent
<1>2. TablesOK(TimedOut(w, e), E \ {e})
  BY <1>1, TimedOutTables
<1>3. TimedOut(w, e).next = w.next /\ TimedOut(w, e).shells = w.shells
  BY <1>1, TimedOutFields
<1>4. FreshOK(k, TimedOut(w, e), K) /\ ShownOK(k, TimedOut(w, e), E \ {e}, A, K)
  BY <1>3 DEF Consistent, FreshOK, ShownOK
<1>5. QED
  BY <1>2, <1>4 DEF Consistent

\* Numbers are used up.
LEMMA NumbersConsistent ==
    ASSUME NEW k, NEW w, NEW E, NEW A, NEW K, Consistent(k, w, E, A, K), NEW n \in Nat
    PROVE  LET v == [w EXCEPT !.next = @ + n]
           IN  /\ Consistent(k, v, E, A, K)
               /\ v.next = w.next + n
               /\ \A c, kind : Free(w, c, kind) => Free(v, c, kind)
<1> DEFINE v == [w EXCEPT !.next = @ + n]
<1>1. TablesOK(w, E) /\ E \subseteq ExecType /\ K \subseteq ExecType
  BY DEF Consistent
<1>2. /\ DOMAIN v = TableFields /\ v.next = w.next + n
      /\ v.pending = w.pending /\ v.queries = w.queries /\ v.shells = w.shells
      /\ v.aliases = w.aliases /\ v.numbers = w.numbers
  BY <1>1 DEF TablesOK, TableFields
<1> SUFFICES /\ Consistent(k, v, E, A, K)
             /\ v.next = w.next + n
             /\ \A c, kind : Free(w, c, kind) => Free(v, c, kind)
  OBVIOUS
<1> HIDE DEF v
<1>3. \A e \in K : e.seq \in Nat
  BY <1>1 DEF ExecType
<1>4. w.next \in Nat /\ v.next \in Nat /\ v.next >= w.next
  BY <1>1, <1>2 DEF TablesOK
<1>5. \A e \in E : e.kind # "query" => e.seq <= w.next
  BY <1>1 DEF TablesOK
<1>6. \A e \in E : e.kind # "query" => e.seq <= v.next
  BY <1>3, <1>4, <1>5 DEF Consistent
<1>7. TablesOK(v, E)
  BY <1>1, <1>2, <1>4, <1>6 DEF TablesOK
<1>8. FreshOK(k, v, K)
  BY <1>3, <1>4 DEF Consistent, FreshOK
<1>9. ShownOK(k, v, E, A, K)
  BY <1>2 DEF Consistent, ShownOK
<1>10. QED
  BY <1>2, <1>7, <1>8, <1>9 DEF Consistent, Free

\* Another exec is asked for, and awaited.
LEMMA RegisteredConsistent ==
    ASSUME NEW k, NEW w, NEW E, NEW A, NEW K, Consistent(k, w, E, A, K), NEW e \in ExecType,
           Free(w, e.call, e.kind), e.kind # "query" => e.seq > w.next
    PROVE  Consistent(k, Registered(w, e), E \cup {e}, A, K \cup {e})
<1> DEFINE v == Registered(w, e)
<1>1. TablesOK(w, E) /\ E \subseteq ExecType /\ K \subseteq ExecType
  BY DEF Consistent
<1>2. /\ TablesOK(v, E \cup {e}) /\ v.shells = w.shells
      /\ v.next = IF e.kind = "query" THEN w.next ELSE e.seq
  BY <1>1, RegisteredTables
<1> SUFFICES Consistent(k, v, E \cup {e}, A, K \cup {e})
  OBVIOUS
<1> HIDE DEF v
<1>3. \A f \in K \cup {e} : f.seq \in Nat
  BY <1>1 DEF ExecType
<1>4. w.next \in Nat
  BY <1>1 DEF TablesOK
<1>5. ASSUME k = 0, NEW f \in K, f.kind # "query"
      PROVE  f.seq <= w.next /\ (e.kind # "query" => f.seq < e.seq)
  <2>1. f.seq <= w.next
    BY <1>5 DEF Consistent, FreshOK
  <2>2. QED
    BY <1>3, <1>4, <2>1
<1>6. FreshOK(k, v, K \cup {e})
  <2>1. SUFFICES ASSUME k = 0, NEW f \in K \cup {e}, NEW g \in K \cup {e}
                 PROVE  /\ f.kind # "query" => f.seq <= v.next
                        /\ f.kind # "query" /\ g.kind # "query" /\ f.seq = g.seq => f = g
    BY DEF FreshOK
  <2>2. f.kind # "query" => f.seq <= v.next
    <3>1. CASE f = e
      BY <1>2, <1>3, <3>1
    <3>2. CASE f \in K /\ f.kind # "query"
      BY <1>2, <1>3, <1>4, <1>5, <2>1, <3>2
    <3>3. QED
      BY <3>1, <3>2
  <2>3. ASSUME f.kind # "query", g.kind # "query", f.seq = g.seq
        PROVE  f = g
    <3>1. CASE f \in K /\ g \in K
      BY <2>1, <2>3, <3>1 DEF Consistent, FreshOK
    <3>2. CASE f \in K /\ g = e
      BY <1>3, <1>5, <2>1, <2>3, <3>2
    <3>3. CASE g \in K /\ f = e
      BY <1>3, <1>5, <2>1, <2>3, <3>3
    <3>4. QED
      BY <3>1, <3>2, <3>3
  <2>4. QED
    BY <2>2, <2>3
<1>7. ShownOK(k, v, E \cup {e}, A, K \cup {e})
  <2>1. ASSUME k = 0, NEW g \in K, g.kind = "shell"
        PROVE  g # e
    BY <1>3, <1>5, <2>1
  <2>2. QED
    BY <1>2, <2>1 DEF Consistent, ShownOK
<1>8. QED
  BY <1>1, <1>2, <1>6, <1>7 DEF Consistent

\* What a message leads to.
LEMMA AnswersAwaited ==
    ASSUME NEW k, NEW w, NEW E, NEW A, NEW K, Consistent(k, w, E, A, K), NEW e \in K,
           NEW d \in Answers(w, e)
    PROVE  /\ d \in E
           /\ e.kind = "query" => d.kind = "query" /\ d.call = e.call
           /\ e.kind # "query" =>
                  /\ d.kind # "query"
                  /\ d = e \/ (k > 0 /\ e.seq = d.seq)
<1>1. TablesOK(w, E) /\ E \subseteq K /\ K \subseteq ExecType /\ e.call \in Calls
  BY DEF Consistent, ExecType
<1>2. CASE e.kind = "query"
  BY <1>1, <1>2 DEF Answers, TablesOK
<1>3. CASE e.kind # "query"
  <2>1. PICK c \in CallsFor(w, e) : d = w.pending[c] /\ d # NoExec
    BY <1>3 DEF Answers
  <2>2. CASE e \in w.aliases
    <3>1. c = e.call /\ e \in E
      BY <1>1, <2>1, <2>2 DEF CallsFor, TablesOK
    <3>2. w.pending[e.call] = e
      BY <1>1, <1>3, <3>1 DEF TablesOK
    <3>3. QED
      BY <1>3, <2>1, <3>1, <3>2
  <2>3. CASE e \notin w.aliases
    <3>1. PICK n \in w.numbers : n.seq = e.seq /\ n.call = c
      BY <2>1, <2>3 DEF CallsFor
    <3>2. c \in Calls /\ w.pending[c].seq = e.seq
      BY <1>1, <3>1 DEF TablesOK
    <3>3. d \in E /\ d.kind # "query" /\ d.seq = e.seq
      BY <1>1, <2>1, <3>2 DEF TablesOK
    <3>4. CASE k = 0
      <4>1. d = e
        BY <1>1, <1>3, <3>3, <3>4 DEF Consistent, FreshOK
      <4>2. QED
        BY <1>3, <3>3, <4>1
    <3>5. CASE k > 0
      BY <1>3, <3>3, <3>5
    <3>6. QED
      BY <3>4, <3>5 DEF Consistent
  <2>4. QED
    BY <2>2, <2>3
<1>4. QED
  BY <1>2, <1>3

\* The handler that waits for d is told what the client said of e.
LEMMA DeliveredConsistent ==
    ASSUME NEW k, NEW w, NEW E, NEW A, NEW K, Consistent(k, w, E, A, K), NEW e \in K,
           NEW d \in Answers(w, e)
    PROVE  LET a == [to |-> d, from |-> e,
                     shown |-> IF e.kind = "shell" THEN w.shells[d.call] ELSE {}]
           IN  Consistent(k, Delivered(w, d, e), E \ {d}, A \cup {a}, K)
<1> DEFINE a == [to |-> d, from |-> e,
                 shown |-> IF e.kind = "shell" THEN w.shells[d.call] ELSE {}]
           u == TimedOut(w, d)
           v == Delivered(w, d, e)
<1>1. /\ d \in E
      /\ e.kind = "query" => d.kind = "query" /\ d.call = e.call
      /\ e.kind # "query" =>
             /\ d.kind # "query"
             /\ d = e \/ (k > 0 /\ e.seq = d.seq)
  BY AnswersAwaited
<1>2. Consistent(k, u, E \ {d}, A, K)
  BY <1>1, TimedOutConsistent
<1>3. u.shells = w.shells /\ DOMAIN u.shells = Calls /\ DOMAIN u = TableFields
  <2>1. TablesOK(w, E) /\ d \in ExecType
    BY <1>1 DEF Consistent
  <2>2. u.shells = w.shells /\ DOMAIN u = TableFields
    BY <2>1, TimedOutFields
  <2>3. QED
    BY <2>1, <2>2 DEF TablesOK
<1>4. d.call \in Calls /\ TablesOK(w, E) /\ E \subseteq K
  BY <1>1 DEF Consistent, ExecType
<1>5. /\ v = IF e.kind = "shell" THEN [u EXCEPT !.shells[d.call] = {}] ELSE u
  BY DEF Delivered
<1>6. /\ DOMAIN v = TableFields /\ v.next = u.next /\ v.pending = u.pending
      /\ v.queries = u.queries /\ v.aliases = u.aliases /\ v.numbers = u.numbers
      /\ v.shells = IF e.kind = "shell" THEN [w.shells EXCEPT ![d.call] = {}] ELSE w.shells
  BY <1>3, <1>5 DEF TableFields
<1>7. a.to = d /\ a.from = e /\ a.shown = IF e.kind = "shell" THEN w.shells[d.call] ELSE {}
  OBVIOUS
<1> SUFFICES Consistent(k, v, E \ {d}, A \cup {a}, K)
  OBVIOUS
<1> HIDE DEF a, u, v
<1>8. TablesOK(v, E \ {d}) /\ FreshOK(k, v, K)
  BY <1>2, <1>3, <1>6 DEF Consistent, TablesOK, FreshOK
<1>9. Own(k, a)
  BY <1>1, <1>7 DEF Own
<1>10. ASSUME k = 0 PROVE ShownOK(k, v, E \ {d}, A \cup {a}, K)
  <2>1. CASE e.kind # "shell"
    BY <1>2, <1>3, <1>6, <1>7, <2>1 DEF Consistent, ShownOK
  <2>2. CASE e.kind = "shell"
    <3>1. d = e
      BY <1>1, <1>10, <2>2
    <3>2. \A c \in Calls : \A g \in w.shells[c] : g \in K /\ g.call = c /\ g.kind = "shell"
      BY <1>10 DEF Consistent, ShownOK
    <3>3. \A b \in A : \A g \in b.shown :
             g \in K /\ g.call = b.to.call /\ g.kind = "shell" /\ g \notin E
             /\ g \notin w.shells[g.call]
      BY <1>10 DEF Consistent, ShownOK
    <3>4. \A c \in Calls : v.shells[c] \subseteq w.shells[c]
      BY <1>3, <1>6
    <3>5. v.shells[d.call] = {}
      BY <1>3, <1>4, <1>6, <2>2
    <3>6. \A g \in K : g.call \in Calls
      BY DEF Consistent, ExecType
    <3>7. \A c \in Calls : \A g \in v.shells[c] : g \in K /\ g.call = c /\ g.kind = "shell"
      BY <3>2, <3>4
    <3>8. ASSUME NEW g \in a.shown
          PROVE  /\ g \in K /\ g.call = a.to.call /\ g.kind = "shell"
                 /\ g \notin E \ {d}
                 /\ g \notin v.shells[g.call]
                 /\ g \in w.shells[g.call]
      <4>1. g \in K /\ g.call = d.call /\ g.kind = "shell" /\ g \in w.shells[g.call]
        BY <1>4, <1>7, <2>2, <3>2, <3>8
      <4>2. g \notin E \ {d}
        BY <1>1, <1>4, <2>2, <3>1, <4>1, OnePerCall
      <4>3. QED
        BY <1>7, <3>5, <4>1, <4>2
    <3>9. ASSUME NEW b \in A, NEW g \in b.shown
          PROVE  /\ g \in K /\ g.call = b.to.call /\ g.kind = "shell"
                 /\ g \notin E \ {d}
                 /\ g \notin v.shells[g.call]
                 /\ g \notin w.shells[g.call]
      BY <3>3, <3>4, <3>6, <3>9
    <3>10. \A b, c \in A : \A g \in b.shown : g \in c.shown => b = c
      BY <1>10 DEF Consistent, ShownOK
    <3>11. \A b \in A \cup {a}, c \in A \cup {a} : \A g \in b.shown : g \in c.shown => b = c
      BY <3>8, <3>9, <3>10
    <3>12. QED
      BY <3>7, <3>8, <3>9, <3>11 DEF ShownOK
  <2>3. QED
    BY <2>1, <2>2
<1>11. QED
  BY <1>2, <1>8, <1>9, <1>10 DEF Consistent, ShownOK

\* The client sends output of a shell.
LEMMA OutputConsistent ==
    ASSUME NEW k, NEW w, NEW E, NEW A, NEW K, Consistent(k, w, E, A, K), NEW e \in K,
           e.kind = "shell"
    PROVE  Consistent(k, ShellOutput(w, e), E, A, K)
<1> DEFINE v == ShellOutput(w, e)
<1>1. TablesOK(w, E) /\ E \subseteq K /\ K \subseteq ExecType
  BY DEF Consistent
<1>2. /\ DOMAIN v = TableFields /\ v.next = w.next /\ v.pending = w.pending
      /\ v.queries = w.queries /\ v.aliases = w.aliases /\ v.numbers = w.numbers
      /\ v.shells = [c \in Calls |->
             IF c \in CallsFor(w, e) /\ w.pending[c] # NoExec
               THEN w.shells[c] \cup {e} ELSE w.shells[c]]
  BY <1>1 DEF ShellOutput, TablesOK, TableFields
<1> SUFFICES Consistent(k, v, E, A, K)
  OBVIOUS
<1> HIDE DEF v
<1>3. TablesOK(v, E) /\ FreshOK(k, v, K)
  BY <1>1, <1>2 DEF Consistent, TablesOK, FreshOK
<1>4. ASSUME k = 0, NEW c \in Calls, NEW g \in v.shells[c]
      PROVE  g \in w.shells[c] \/ (g = e /\ e \in E /\ c = e.call)
  <2>1. CASE g \in w.shells[c]
    BY <2>1
  <2>2. CASE g \notin w.shells[c]
    <3>1. g = e /\ c \in CallsFor(w, e) /\ w.pending[c] # NoExec
      BY <1>2, <1>4, <2>2
    <3>2. w.pending[c] \in E /\ w.pending[c].call = c
      BY <1>1, <3>1 DEF TablesOK
    <3>3. w.pending[c] \in Answers(w, e)
      BY <3>1 DEF Answers
    <3>4. w.pending[c] = e
      BY <1>4, <3>3, AnswersAwaited
    <3>5. QED
      BY <3>1, <3>2, <3>4
  <2>3. QED
    BY <2>1, <2>2
<1>5. \A g \in K : g.call \in Calls
  BY <1>1 DEF ExecType
<1>6. ASSUME k = 0 PROVE ShownOK(k, v, E, A, K)
  <2>1. \A c \in Calls : \A g \in v.shells[c] : g \in K /\ g.call = c /\ g.kind = "shell"
    BY <1>1, <1>4, <1>6 DEF Consistent, ShownOK
  <2>2. ASSUME NEW a \in A, NEW g \in a.shown
        PROVE  /\ g \in K /\ g.call = a.to.call /\ g.kind = "shell"
               /\ g \notin E
               /\ g \notin v.shells[g.call]
    <3>1. /\ g \in K /\ g.call = a.to.call /\ g.kind = "shell"
          /\ g \notin E /\ g \notin w.shells[g.call]
      BY <1>6, <2>2 DEF Consistent, ShownOK
    <3>2. QED
      BY <1>4, <1>5, <1>6, <3>1
  <2>3. QED
    BY <1>6, <2>1, <2>2 DEF Consistent, ShownOK
<1>7. QED
  BY <1>3, <1>6 DEF Consistent, ShownOK

\* A process that is not the first begins with empty tables.
LEMMA RestartConsistent ==
    ASSUME NEW k, NEW w, NEW E, NEW A, NEW K, Consistent(k, w, E, A, K)
    PROVE  Consistent(k + 1, NewTables, {}, A, K)
<1>1. TablesOK(NewTables, {})
  BY DEF TablesOK, TableFields, NewTables
<1>2. k + 1 \in Nat /\ k + 1 # 0 /\ k + 1 > 0
  BY DEF Consistent
<1>3. \A a \in A : Own(k + 1, a)
  BY <1>2 DEF Consistent, Own
<1>4. FreshOK(k + 1, NewTables, K) /\ ShownOK(k + 1, NewTables, {}, A, K)
  BY <1>2 DEF FreshOK, ShownOK
<1>5. QED
  BY <1>1, <1>2, <1>3, <1>4 DEF Consistent

\* The first process.
LEMMA FirstConsistent == Consistent(0, NewTables, {}, {}, {})
BY DEF Consistent, TablesOK, FreshOK, ShownOK, TableFields, NewTables

-----------------------------------------------------------------------------
(* The handlers and the sessions                                            *)

Fields ==
    {"phase", "request", "conversation", "text", "connected", "round", "todo", "exec", "answers"}

TurnOK(t, q) ==
    /\ DOMAIN q = Fields
    /\ q.todo \in Seq(ToolType)
    /\ q.phase = "tool" => q.exec.turn = t
    /\ q.phase # "new" => q.request \in Requests
    /\ q.phase \in {"model", "tool"} => q.text # NoText
    /\ q.text # NoText => q.text \in Requests /\ q.conversation = ConversationOf[q.text]

TurnsOK == DOMAIN turn = Turns /\ \A t \in Turns : TurnOK(t, turn[t])

AskedOK == \A e \in asked : turn[e.turn].request \in Requests

ConversationOrNone == Conversations \cup {NoConversation}

MessageOK(m) ==
    /\ DOMAIN m = {"conversation", "text"}
    /\ m.conversation \in ConversationOrNone
    /\ m.text # NoText => m.text \in Requests /\ m.conversation = ConversationOf[m.text]

SessionsOK(s) ==
    /\ DOMAIN s = {"byRequest", "byConversation", "dropped"}
    /\ DOMAIN s.byRequest = Requests
    /\ DOMAIN s.byConversation = Conversations
    /\ s.dropped \in [Requests -> ConversationOrNone]
    /\ \A r \in Requests : s.byRequest[r] # NoSession => MessageOK(s.byRequest[r])
    /\ \A c \in Conversations :
           s.byConversation[c] # NoText =>
               s.byConversation[c] \in Requests /\ ConversationOf[s.byConversation[c]] = c

HistoryOK ==
    /\ DOMAIN history = Conversations
    /\ \A c \in Conversations : \A r \in history[c] : ConversationOf[r] = c

Inv ==
    /\ Consistent(restarts, waits, Awaited, AllAnswers, asked)
    /\ TurnsOK
    /\ AskedOK
    /\ SessionsOK(sessions)
    /\ HistoryOK

\* What the other handlers await, and were answered.
AwaitedBut(t) == {turn[u].exec : u \in {x \in Turns \ {t} : turn[x].phase = "tool"}}

OtherAnswers(t) == UNION {turn[u].answers : u \in Turns \ {t}}

\* One handler among the others.
LEMMA Apart ==
    ASSUME TurnsOK, NEW t \in Turns
    PROVE  /\ AllAnswers = OtherAnswers(t) \cup turn[t].answers
           /\ turn[t].phase # "tool" => Awaited = AwaitedBut(t)
           /\ turn[t].phase = "tool" =>
                  turn[t].exec \in Awaited /\ AwaitedBut(t) = Awaited \ {turn[t].exec}
<1>1. AllAnswers = OtherAnswers(t) \cup turn[t].answers
  BY DEF AllAnswers, OtherAnswers
<1>2. ASSUME turn[t].phase # "tool" PROVE Awaited = AwaitedBut(t)
  BY <1>2 DEF Awaited, AwaitedBut
<1>3. ASSUME turn[t].phase = "tool"
      PROVE  turn[t].exec \in Awaited /\ AwaitedBut(t) = Awaited \ {turn[t].exec}
  <2>1. \A u \in Turns \ {t} : turn[u].phase = "tool" => turn[u].exec # turn[t].exec
    BY <1>3 DEF TurnsOK, TurnOK
  <2>2. QED
    BY <1>3, <2>1 DEF Awaited, AwaitedBut
<1>4. QED
  BY <1>1, <1>2, <1>3

\* One handler changes.
LEMMA OneChanges ==
    ASSUME TurnsOK, NEW t \in Turns, NEW p, turn' = [turn EXCEPT ![t] = p]
    PROVE  /\ DOMAIN turn' = Turns /\ turn'[t] = p
           /\ \A u \in Turns \ {t} : turn'[u] = turn[u]
           /\ AllAnswers' = OtherAnswers(t) \cup p.answers
           /\ p.phase = "tool" => Awaited' = AwaitedBut(t) \cup {p.exec}
           /\ p.phase # "tool" => Awaited' = AwaitedBut(t)
<1>1. DOMAIN turn' = Turns /\ turn'[t] = p /\ \A u \in Turns \ {t} : turn'[u] = turn[u]
  BY DEF TurnsOK
<1>2. AllAnswers' = OtherAnswers(t) \cup p.answers
  BY <1>1 DEF AllAnswers, OtherAnswers
<1>3. p.phase = "tool" => Awaited' = AwaitedBut(t) \cup {p.exec}
  BY <1>1 DEF Awaited, AwaitedBut
<1>4. p.phase # "tool" => Awaited' = AwaitedBut(t)
  BY <1>1 DEF Awaited, AwaitedBut
<1>5. QED
  BY <1>1, <1>2, <1>3, <1>4

\* A session that is dropped.
LEMMA DroppedOK ==
    ASSUME NEW s, SessionsOK(s), NEW r \in Requests
    PROVE  SessionsOK(Dropped(s, r))
BY DEF SessionsOK, Dropped, MessageOK

\* A session that is stored.
LEMMA StoredOK ==
    ASSUME NEW s, SessionsOK(s), NEW r \in Requests, NEW m, MessageOK(m)
    PROVE  SessionsOK(Stored(s, r, m))
<1> DEFINE v == Stored(s, r, m)
<1>1. /\ DOMAIN v = {"byRequest", "byConversation", "dropped"}
      /\ v.byRequest = [s.byRequest EXCEPT ![r] = m]
      /\ v.byConversation = [c \in Conversations |->
             IF c = m.conversation /\ m.text # NoText THEN m.text ELSE s.byConversation[c]]
      /\ v.dropped = s.dropped
  BY DEF SessionsOK, Stored
<1> SUFFICES SessionsOK(v)
  OBVIOUS
<1> HIDE DEF v
<1>2. QED
  BY <1>1 DEF SessionsOK, MessageOK

\* A message without a session's data.
LEMMA TouchedOK ==
    ASSUME NEW s, SessionsOK(s), NEW r \in Requests
    PROVE  SessionsOK(Touched(s, r))
<1> DEFINE m == IF s.byRequest[r] = NoSession
                  THEN [conversation |-> NoConversation, text |-> NoText]
                  ELSE s.byRequest[r]
<1>1. MessageOK(m)
  BY DEF SessionsOK, MessageOK, ConversationOrNone
<1>2. Touched(s, r) = Stored(s, r, m)
  BY DEF Touched
<1> HIDE DEF m
<1>3. QED
  BY <1>1, <1>2, StoredOK

\* A conversation's session under another request.
LEMMA ClonedOK ==
    ASSUME NEW s, SessionsOK(s), NEW r \in Requests, NEW c \in Conversations
    PROVE  SessionsOK(Cloned(s, r, c))
<1> DEFINE v == Cloned(s, r, c)
           m == [conversation |-> c, text |-> s.byConversation[c]]
<1>1. MessageOK(m)
  BY DEF SessionsOK, MessageOK, ConversationOrNone
<1>2. /\ DOMAIN v = {"byRequest", "byConversation", "dropped"}
      /\ v.byRequest = [s.byRequest EXCEPT ![r] = m]
      /\ v.byConversation = s.byConversation
      /\ v.dropped = s.dropped
  BY DEF SessionsOK, Cloned
<1> SUFFICES SessionsOK(v)
  OBVIOUS
<1> HIDE DEF v, m
<1>3. QED
  BY <1>1, <1>2 DEF SessionsOK

\* How many numbers are used up.
LEMMA UsedNat == ASSUME NEW q, NEW n \in Nat PROVE Used(q, n) \in Nat
<1> DEFINE U == {i \in 1 .. n : q.todo[i].kind \in ExecKinds}
<1>1. IsFiniteSet(1 .. n)
  BY FS_Interval
<1>2. IsFiniteSet(U)
  BY <1>1, FS_Subset
<1>3. Cardinality(U) \in Nat
  BY <1>2, FS_CardinalityType
<1>4. QED
  BY <1>3 DEF Used

\* What a step of handler t must leave.
After ==
    /\ Consistent(restarts, waits', Awaited', AllAnswers', asked')
    /\ TurnsOK'
    /\ AskedOK'
    /\ SessionsOK(sessions')

\* The handler ends.
LEMMA OverOK ==
    ASSUME TurnsOK, AskedOK, NEW t \in Turns, NEW q, q.request \in Requests,
           NEW w, Consistent(restarts, w, AwaitedBut(t), OtherAnswers(t) \cup q.answers, asked),
           NEW s, SessionsOK(s), Over(t, q, w, s)
    PROVE  After
<1> DEFINE p == Gone(q, "over")
<1>1. /\ DOMAIN p = Fields /\ p.phase = "over" /\ p.request = q.request /\ p.text = NoText
      /\ p.todo = <<>> /\ p.answers = {}
  BY DEF Gone, NewTurn, Fields
<1>2. turn' = [turn EXCEPT ![t] = p] /\ waits' = w /\ asked' = asked
      /\ sessions' = Dropped(s, q.request)
  BY DEF Over
<1> HIDE DEF p
<1>3. /\ DOMAIN turn' = Turns /\ turn'[t] = p
      /\ \A u \in Turns \ {t} : turn'[u] = turn[u]
      /\ AllAnswers' = OtherAnswers(t) \cup p.answers
      /\ Awaited' = AwaitedBut(t)
  BY <1>1, <1>2, OneChanges
<1>4. OtherAnswers(t) \in SUBSET (OtherAnswers(t) \cup q.answers)
  OBVIOUS
<1>5. Consistent(restarts, w, AwaitedBut(t), OtherAnswers(t), asked)
  BY <1>4, ConsistentLess
<1>6. Consistent(restarts, waits', Awaited', AllAnswers', asked')
  BY <1>1, <1>2, <1>3, <1>5
<1>7. TurnOK(t, p)
  BY <1>1, EmptySeq DEF TurnOK
<1>8. TurnsOK'
  BY <1>3, <1>7 DEF TurnsOK, TurnOK
<1>9. AskedOK'
  BY <1>1, <1>2, <1>3 DEF AskedOK, Consistent, ExecType
<1>10. SessionsOK(sessions')
  BY <1>2, DroppedOK
<1>11. QED
  BY <1>6, <1>8, <1>9, <1>10 DEF After

\* The handler asks for a tool.
LEMMA AskOK ==
    ASSUME TurnsOK, AskedOK, NEW t \in Turns, NEW q, TurnOK(t, q), q.phase \in {"model", "tool"},
           NEW w, Consistent(restarts, w, AwaitedBut(t), OtherAnswers(t) \cup q.answers, asked),
           NEW s, SessionsOK(s), NEW i \in 1 .. Len(q.todo), IsNext(q, w, i), Ask(t, q, w, s, i)
    PROVE  After
<1> DEFINE n == Used(q, i - 1)
           v == [w EXCEPT !.next = @ + n]
           tool == q.todo[i]
           e == [turn |-> t, call |-> tool.call, kind |-> tool.kind,
                 seq |-> IF tool.kind = "query" THEN 0 ELSE w.next + n + 1]
           p == [q EXCEPT !.phase = "tool", !.exec = e, !.todo = SubSeq(@, i + 1, Len(@))]
<1>1. i \in Nat \ {0} /\ Len(q.todo) \in Nat /\ i <= Len(q.todo) /\ i - 1 \in Nat
  BY DEF TurnOK
<1>2. n \in Nat
  BY <1>1, UsedNat
<1>3. tool \in ToolType
  BY <1>1 DEF TurnOK
<1>4. w.next \in Nat
  BY DEF Consistent, TablesOK
<1>5. tool.call \in Calls /\ tool.kind \in Kinds /\ Free(w, tool.call, tool.kind)
  BY <1>3 DEF ToolType, IsNext, Waits
<1>6. e \in ExecType /\ e.turn = t /\ e.call = tool.call /\ e.kind = tool.kind
      /\ (e.kind # "query" => e.seq = w.next + n + 1)
  BY <1>2, <1>4, <1>5 DEF ExecType
<1>7. SubSeq(q.todo, i + 1, Len(q.todo)) \in Seq(ToolType)
  <2>1. q.todo \in Seq(ToolType)
    BY DEF TurnOK
  <2>2. QED
    BY <1>1, <2>1
<1>8. /\ DOMAIN p = Fields /\ p.phase = "tool" /\ p.exec = e /\ p.request = q.request
      /\ p.text = q.text /\ p.conversation = q.conversation /\ p.answers = q.answers
      /\ p.todo \in Seq(ToolType)
  BY <1>7 DEF TurnOK, Fields
<1>9. /\ turn' = [turn EXCEPT ![t] = p] /\ waits' = Registered(v, e)
      /\ asked' = asked \cup {e} /\ sessions' = s
  BY DEF Ask
<1>10. /\ Consistent(restarts, v, AwaitedBut(t), OtherAnswers(t) \cup q.answers, asked)
       /\ v.next = w.next + n
       /\ Free(v, tool.call, tool.kind)
  BY <1>2, <1>5, NumbersConsistent
<1> HIDE DEF v, e, p, n, tool
<1>11. Free(v, e.call, e.kind) /\ (e.kind # "query" => e.seq > v.next)
  BY <1>2, <1>4, <1>6, <1>10
<1>12. Consistent(restarts, Registered(v, e), AwaitedBut(t) \cup {e},
                  OtherAnswers(t) \cup q.answers, asked \cup {e})
  BY <1>6, <1>10, <1>11, RegisteredConsistent
<1>13. /\ DOMAIN turn' = Turns /\ turn'[t] = p
       /\ \A u \in Turns \ {t} : turn'[u] = turn[u]
       /\ AllAnswers' = OtherAnswers(t) \cup p.answers
       /\ Awaited' = AwaitedBut(t) \cup {p.exec}
  BY <1>8, <1>9, OneChanges
<1>14. Consistent(restarts, waits', Awaited', AllAnswers', asked')
  BY <1>8, <1>9, <1>12, <1>13
<1>15. TurnOK(t, p)
  BY <1>6, <1>8 DEF TurnOK
<1>16. TurnsOK'
  BY <1>13, <1>15 DEF TurnsOK, TurnOK
<1>17. q.request \in Requests
  BY DEF TurnOK
<1>18. AskedOK'
  BY <1>6, <1>8, <1>9, <1>13, <1>17 DEF AskedOK, Consistent, ExecType
<1>19. QED
  BY <1>9, <1>14, <1>16, <1>18 DEF After

\* The handler calls the model again, or ends.
LEMMA NextRoundOK ==
    ASSUME TurnsOK, AskedOK, NEW t \in Turns, NEW q, TurnOK(t, q), q.phase \in {"model", "tool"},
           NEW w, Consistent(restarts, w, AwaitedBut(t), OtherAnswers(t) \cup q.answers, asked),
           NEW s, SessionsOK(s), NextRound(t, q, w, s)
    PROVE  After
<1> DEFINE n == Used(q, Len(q.todo))
           v == [w EXCEPT !.next = @ + n]
           p == [q EXCEPT !.phase = "model", !.round = @ + 1, !.exec = NoExec, !.todo = <<>>]
<1>1. Len(q.todo) \in Nat
  BY DEF TurnOK
<1>2. n \in Nat
  BY <1>1, UsedNat
<1>3. Consistent(restarts, v, AwaitedBut(t), OtherAnswers(t) \cup q.answers, asked)
  BY <1>2, NumbersConsistent
<1>4. /\ DOMAIN p = Fields /\ p.phase = "model" /\ p.request = q.request
      /\ p.text = q.text /\ p.conversation = q.conversation /\ p.answers = q.answers
      /\ p.todo = <<>>
  BY DEF TurnOK, Fields
<1>5. q.request \in Requests
  BY DEF TurnOK
<1>6. \/ Over(t, q, v, s)
      \/ turn' = [turn EXCEPT ![t] = p] /\ waits' = v /\ sessions' = s /\ asked' = asked
  BY DEF NextRound
<1> HIDE DEF n, v, p
<1>7. CASE Over(t, q, v, s)
  BY <1>3, <1>5, <1>7, OverOK
<1>8. CASE turn' = [turn EXCEPT ![t] = p] /\ waits' = v /\ sessions' = s /\ asked' = asked
  <2>1. /\ DOMAIN turn' = Turns /\ turn'[t] = p
        /\ \A u \in Turns \ {t} : turn'[u] = turn[u]
        /\ AllAnswers' = OtherAnswers(t) \cup p.answers
        /\ Awaited' = AwaitedBut(t)
    BY <1>4, <1>8, OneChanges
  <2>2. Consistent(restarts, waits', Awaited', AllAnswers', asked')
    BY <1>3, <1>4, <1>8, <2>1
  <2>3. TurnOK(t, p)
    BY <1>4, EmptySeq DEF TurnOK
  <2>4. TurnsOK'
    BY <2>1, <2>3 DEF TurnsOK, TurnOK
  <2>5. AskedOK'
    BY <1>4, <1>5, <1>8, <2>1 DEF AskedOK, Consistent, ExecType
  <2>6. QED
    BY <1>8, <2>2, <2>4, <2>5 DEF After
<1>9. QED
  BY <1>6, <1>7, <1>8

\* The handler goes on with the tools that are left.
LEMMA RunToolsOK ==
    ASSUME TurnsOK, AskedOK, NEW t \in Turns, NEW q, TurnOK(t, q), q.phase \in {"model", "tool"},
           NEW w, Consistent(restarts, w, AwaitedBut(t), OtherAnswers(t) \cup q.answers, asked),
           NEW s, SessionsOK(s), RunTools(t, q, w, s)
    PROVE  After
<1>1. CASE NextRound(t, q, w, s)
  BY <1>1, NextRoundOK
<1>2. CASE \E i \in 1 .. Len(q.todo) : IsNext(q, w, i) /\ Ask(t, q, w, s, i)
  BY <1>2, AskOK
<1>3. QED
  BY <1>1, <1>2 DEF RunTools

-----------------------------------------------------------------------------
(* The actions                                                              *)

\* The handler of a RunSSE begins.
LEMMA RunSSEOK == ASSUME Inv, NEW t \in Turns, RunSSE(t) PROVE Inv'
<1>1. PICK r \in Requests :
          turn' = [turn EXCEPT ![t] = [turn[t] EXCEPT !.phase = "waiting", !.request = r]]
  BY DEF RunSSE
<1> DEFINE p == [turn[t] EXCEPT !.phase = "waiting", !.request = r]
<1>2. TurnsOK /\ TurnOK(t, turn[t]) /\ turn[t].phase = "new"
  BY DEF Inv, TurnsOK, RunSSE
<1>3. /\ DOMAIN p = Fields /\ p.phase = "waiting" /\ p.request = r /\ p.todo = turn[t].todo
      /\ p.text = turn[t].text /\ p.conversation = turn[t].conversation
      /\ p.answers = turn[t].answers
  BY <1>2 DEF TurnOK, Fields
<1>4. turn' = [turn EXCEPT ![t] = p]
  BY <1>1
<1> HIDE DEF p
<1>5. /\ DOMAIN turn' = Turns /\ turn'[t] = p
      /\ \A u \in Turns \ {t} : turn'[u] = turn[u]
      /\ AllAnswers' = OtherAnswers(t) \cup p.answers
      /\ Awaited' = AwaitedBut(t)
  BY <1>2, <1>3, <1>4, OneChanges
<1>6. AllAnswers' = AllAnswers /\ Awaited' = Awaited
  BY <1>2, <1>3, <1>5, Apart
<1>7. waits' = waits /\ sessions' = sessions /\ history' = history /\ asked' = asked
      /\ restarts' = restarts
  BY DEF RunSSE
<1>8. TurnOK(t, p)
  BY <1>2, <1>3 DEF TurnOK
<1>9. TurnsOK'
  BY <1>2, <1>5, <1>8 DEF TurnsOK, TurnOK
<1>10. AskedOK'
  BY <1>3, <1>5, <1>7 DEF Inv, AskedOK, Consistent, ExecType
<1>11. Consistent(restarts, waits, Awaited, AllAnswers, asked)' /\ HistoryOK'
       /\ SessionsOK(sessions)'
  BY <1>6, <1>7 DEF Inv, HistoryOK
<1>12. QED
  BY <1>9, <1>10, <1>11 DEF Inv

\* The handler has looked for its message.
LEMMA BeginOK ==
    ASSUME Inv, NEW t \in Turns, turn[t].phase = "waiting", NEW s, SessionsOK(s), Begin(t, s)
    PROVE  After
<1> DEFINE q == turn[t]
           r == q.request
           p == [q EXCEPT !.phase = "model", !.text = s.byRequest[r].text,
                          !.conversation = s.byRequest[r].conversation]
<1>1. TurnsOK /\ AskedOK /\ TurnOK(t, q) /\ r \in Requests
  BY DEF Inv, TurnsOK, TurnOK
<1>2. Awaited = AwaitedBut(t) /\ AllAnswers = OtherAnswers(t) \cup q.answers
  BY <1>1, Apart
<1>3. Consistent(restarts, waits, AwaitedBut(t), OtherAnswers(t) \cup q.answers, asked)
  BY <1>2 DEF Inv
<1>4. CASE Over(t, q, waits, s)
  BY <1>1, <1>3, <1>4, OverOK
<1>5. CASE /\ HasText(s, r)
           /\ turn' = [turn EXCEPT ![t] = p] /\ sessions' = s
           /\ waits' = waits /\ asked' = asked
  <2>1. /\ DOMAIN p = Fields /\ p.phase = "model" /\ p.request = r /\ p.todo = q.todo
        /\ p.text = s.byRequest[r].text /\ p.conversation = s.byRequest[r].conversation
        /\ p.answers = q.answers
    BY <1>1 DEF TurnOK, Fields
  <2>2. /\ p.text # NoText /\ p.text \in Requests /\ p.conversation = ConversationOf[p.text]
    BY <1>1, <1>5, <2>1 DEF HasText, SessionsOK, MessageOK
  <2> HIDE DEF p
  <2>3. /\ DOMAIN turn' = Turns /\ turn'[t] = p
        /\ \A u \in Turns \ {t} : turn'[u] = turn[u]
        /\ AllAnswers' = OtherAnswers(t) \cup p.answers
        /\ Awaited' = AwaitedBut(t)
    BY <1>1, <1>5, <2>1, OneChanges
  <2>4. Consistent(restarts, waits', Awaited', AllAnswers', asked')
    BY <1>3, <1>5, <2>1, <2>3
  <2>5. TurnOK(t, p)
    BY <1>1, <2>1, <2>2 DEF TurnOK
  <2>6. TurnsOK'
    BY <1>1, <2>3, <2>5 DEF TurnsOK, TurnOK
  <2>7. AskedOK'
    BY <1>1, <1>5, <2>1, <2>3 DEF Inv, AskedOK, Consistent, ExecType
  <2>8. QED
    BY <1>5, <2>4, <2>6, <2>7 DEF After
<1>6. QED
  BY <1>4, <1>5 DEF Begin

\* What the steps of a handler leave of the rest.
LEMMA AfterInv ==
    ASSUME After, restarts' = restarts, HistoryOK' PROVE Inv'
<1>1. Consistent(restarts, waits, Awaited, AllAnswers, asked)'
  BY DEF After
<1>2. QED
  BY <1>1 DEF After, Inv

\* A request looks for its message.
LEMMA FindSessionOK == ASSUME Inv, NEW t \in Turns, FindSession(t) PROVE Inv'
<1> DEFINE r == turn[t].request
<1>1. SessionsOK(sessions) /\ r \in Requests /\ turn[t].phase = "waiting"
  BY DEF Inv, TurnsOK, TurnOK, FindSession
<1>2. Related(sessions, r) \subseteq Conversations
  BY <1>1 DEF Related, SessionsOK, MessageOK, ConversationOrNone
<1>3. After
  <2>1. CASE Begin(t, sessions)
    BY <1>1, <2>1, BeginOK
  <2>2. CASE \E c \in Related(sessions, r) : Begin(t, Cloned(sessions, r, c))
    <3>1. PICK c \in Conversations : Begin(t, Cloned(sessions, r, c))
      BY <1>2, <2>2
    <3>2. SessionsOK(Cloned(sessions, r, c))
      BY <1>1, ClonedOK
    <3>3. QED
      BY <1>1, <3>1, <3>2, BeginOK
  <2>3. QED
    BY <2>1, <2>2 DEF FindSession
<1>4. restarts' = restarts /\ HistoryOK'
  BY DEF Inv, FindSession, HistoryOK
<1>5. QED
  BY <1>3, <1>4, AfterInv

\* A request looks for its message for the last time.
LEMMA WaitEndsOK == ASSUME Inv, NEW t \in Turns, WaitEnds(t) PROVE Inv'
<1> DEFINE r == turn[t].request
<1>1. SessionsOK(sessions) /\ r \in Requests /\ turn[t].phase = "waiting"
  BY DEF Inv, TurnsOK, TurnOK, WaitEnds
<1>2. After
  <2>1. CASE Begin(t, sessions)
    BY <1>1, <2>1, BeginOK
  <2>2. CASE \E c \in Conversations : Begin(t, Cloned(sessions, r, c))
    <3>1. PICK c \in Conversations : Begin(t, Cloned(sessions, r, c))
      BY <2>2
    <3>2. SessionsOK(Cloned(sessions, r, c))
      BY <1>1, ClonedOK
    <3>3. QED
      BY <1>1, <3>1, <3>2, BeginOK
  <2>3. QED
    BY <2>1, <2>2 DEF WaitEnds
<1>3. restarts' = restarts /\ HistoryOK'
  BY DEF Inv, WaitEnds, HistoryOK
<1>4. QED
  BY <1>2, <1>3, AfterInv

\* The model answers.
LEMMA ModelAnswersOK == ASSUME Inv, NEW t \in Turns, ModelAnswers(t) PROVE Inv'
<1> DEFINE q == turn[t]
<1>1. /\ TurnsOK /\ AskedOK /\ TurnOK(t, q) /\ q.phase = "model" /\ q.request \in Requests
      /\ q.text # NoText /\ q.text \in Requests /\ q.conversation = ConversationOf[q.text]
      /\ SessionsOK(sessions) /\ restarts' = restarts
  BY DEF Inv, TurnsOK, TurnOK, ModelAnswers
<1>2. Awaited = AwaitedBut(t) /\ AllAnswers = OtherAnswers(t) \cup q.answers
  BY <1>1, Apart
<1>3. Consistent(restarts, waits, AwaitedBut(t), OtherAnswers(t) \cup q.answers, asked)
  BY <1>2 DEF Inv
<1>4. CASE Over(t, q, waits, sessions)
  <2>1. After
    BY <1>1, <1>3, <1>4, OverOK
  <2>2. \/ history' = history
        \/ history' = [history EXCEPT ![q.conversation] = @ \cup {q.text}]
    BY DEF ModelAnswers
  <2>3. HistoryOK'
    BY <1>1, <2>2 DEF Inv, HistoryOK
  <2>4. QED
    BY <1>1, <2>1, <2>3, AfterInv
<1>5. ASSUME NEW tools \in Rounds, RunTools(t, [q EXCEPT !.todo = tools], waits, sessions),
             history' = history
      PROVE  Inv'
  <2> DEFINE p == [q EXCEPT !.todo = tools]
  <2>1. tools \in Seq(ToolType)
    BY RoundsAssumption
  <2>2. /\ DOMAIN p = Fields /\ p.phase = "model" /\ p.request = q.request /\ p.todo = tools
        /\ p.text = q.text /\ p.conversation = q.conversation
        /\ p.answers = q.answers
    BY <1>1 DEF TurnOK, Fields
  <2>3. RunTools(t, p, waits, sessions)
    BY <1>5
  <2> HIDE DEF p
  <2>4. TurnOK(t, p)
    BY <1>1, <2>1, <2>2 DEF TurnOK
  <2>5. After
    BY <1>1, <1>3, <2>2, <2>3, <2>4, RunToolsOK
  <2>6. HistoryOK'
    BY <1>5 DEF Inv, HistoryOK
  <2>7. QED
    BY <1>1, <2>5, <2>6, AfterInv
<1>6. QED
  BY <1>4, <1>5 DEF ModelAnswers

\* The model does not answer.
LEMMA ModelFailsOK == ASSUME Inv, NEW t \in Turns, ModelFails(t) PROVE Inv'
<1> DEFINE q == turn[t]
<1>1. TurnsOK /\ AskedOK /\ q.phase = "model" /\ q.request \in Requests /\ SessionsOK(sessions)
      /\ Over(t, q, waits, sessions)
  BY DEF Inv, TurnsOK, TurnOK, ModelFails
<1>2. Awaited = AwaitedBut(t) /\ AllAnswers = OtherAnswers(t) \cup q.answers
  BY <1>1, Apart
<1>3. Consistent(restarts, waits, AwaitedBut(t), OtherAnswers(t) \cup q.answers, asked)
  BY <1>2 DEF Inv
<1>4. After
  BY <1>1, <1>3, OverOK
<1>5. restarts' = restarts /\ HistoryOK'
  BY DEF Inv, ModelFails, HistoryOK
<1>6. QED
  BY <1>4, <1>5, AfterInv

\* The client has not answered.
LEMMA ToolTimesOutOK == ASSUME Inv, NEW t \in Turns, ToolTimesOut(t) PROVE Inv'
<1> DEFINE q == turn[t]
<1>1. TurnsOK /\ AskedOK /\ TurnOK(t, q) /\ q.phase = "tool" /\ SessionsOK(sessions)
      /\ RunTools(t, q, TimedOut(waits, q.exec), sessions)
  BY DEF Inv, TurnsOK, ToolTimesOut
<1>2. /\ q.exec \in Awaited /\ AwaitedBut(t) = Awaited \ {q.exec}
      /\ AllAnswers = OtherAnswers(t) \cup q.answers
  BY <1>1, Apart
<1>3. Consistent(restarts, TimedOut(waits, q.exec), AwaitedBut(t),
                 OtherAnswers(t) \cup q.answers, asked)
  BY <1>2, TimedOutConsistent DEF Inv
<1>4. After
  BY <1>1, <1>3, RunToolsOK
<1>5. restarts' = restarts /\ HistoryOK'
  BY DEF Inv, ToolTimesOut, HistoryOK
<1>6. QED
  BY <1>4, <1>5, AfterInv

\* A message that starts a run.
LEMMA UserMessageOK == ASSUME Inv, NEW r \in Requests, UserMessage(r) PROVE Inv'
<1>1. PICK text \in {r, NoText} :
          sessions' = Remembered(sessions, r, [conversation |-> ConversationOf[r], text |-> text])
  BY DEF UserMessage
<1> DEFINE m == [conversation |-> ConversationOf[r], text |-> text]
<1>2. MessageOK(m)
  BY ConversationsAssumption DEF MessageOK, ConversationOrNone
<1>3. Remembered(sessions, r, m) = Stored(sessions, r, m)
  BY DEF Remembered, Merged
<1>4. sessions' = Remembered(sessions, r, m)
  BY <1>1
<1> HIDE DEF m
<1>5. SessionsOK(sessions')
  BY <1>2, <1>3, <1>4, StoredOK DEF Inv
<1>6. UNCHANGED <<turn, waits, history, asked, restarts>>
  BY DEF UserMessage
<1>7. Awaited' = Awaited /\ AllAnswers' = AllAnswers
  BY <1>6 DEF Awaited, AllAnswers
<1>8. Consistent(restarts, waits, Awaited, AllAnswers, asked)'
  BY <1>6, <1>7 DEF Inv
<1>9. TurnsOK' /\ AskedOK' /\ HistoryOK'
  BY <1>6 DEF Inv, TurnsOK, TurnOK, AskedOK, HistoryOK
<1>10. QED
  BY <1>5, <1>8, <1>9 DEF Inv

\* The last message about an exec.
LEMMA ResultArrivesOK == ASSUME Inv, NEW e \in asked, ResultArrives(e) PROVE Inv'
<1> DEFINE s == Touched(sessions, turn[e.turn].request)
<1>1. turn[e.turn].request \in Requests
  BY DEF Inv, AskedOK
<1>2. SessionsOK(s)
  BY <1>1, TouchedOK DEF Inv
<1>3. restarts' = restarts /\ HistoryOK'
  BY DEF Inv, ResultArrives, HistoryOK
<1> HIDE DEF s
<1>4. CASE sessions' = s /\ UNCHANGED <<turn, waits, asked>>
  <2>1. Awaited' = Awaited /\ AllAnswers' = AllAnswers
    BY <1>4 DEF Awaited, AllAnswers
  <2>2. Consistent(restarts, waits, Awaited, AllAnswers, asked)'
    BY <1>3, <1>4, <2>1 DEF Inv
  <2>3. TurnsOK' /\ AskedOK'
    BY <1>4 DEF Inv, TurnsOK, TurnOK, AskedOK
  <2>4. QED
    BY <1>2, <1>3, <1>4, <2>2, <2>3 DEF Inv
<1>5. ASSUME NEW t \in Turns, turn[t].phase = "tool", turn[t].exec \in Answers(waits, e),
             RunTools(t, Answered(turn[t], e, waits), Delivered(waits, turn[t].exec, e), s)
      PROVE  Inv'
  <2> DEFINE q == turn[t]
             a == [to |-> q.exec, from |-> e,
                   shown |-> IF e.kind = "shell" THEN waits.shells[q.exec.call] ELSE {}]
             p == Answered(q, e, waits)
  <2>1. TurnsOK /\ AskedOK /\ TurnOK(t, q)
    BY DEF Inv, TurnsOK
  <2>2. q.exec \in Awaited /\ AwaitedBut(t) = Awaited \ {q.exec}
        /\ AllAnswers = OtherAnswers(t) \cup q.answers
    BY <1>5, <2>1, Apart
  <2>3. /\ DOMAIN p = Fields /\ p.phase = q.phase /\ p.request = q.request /\ p.todo = q.todo
        /\ p.text = q.text /\ p.conversation = q.conversation /\ p.exec = q.exec
        /\ p.answers = q.answers \cup {a}
    BY <2>1 DEF Answered, TurnOK, Fields
  <2>4. Consistent(restarts, Delivered(waits, q.exec, e), Awaited \ {q.exec},
                   AllAnswers \cup {a}, asked)
    BY <1>5, DeliveredConsistent DEF Inv
  <2>5. RunTools(t, p, Delivered(waits, q.exec, e), s)
    BY <1>5
  <2> HIDE DEF p, a
  <2>6. OtherAnswers(t) \cup p.answers = AllAnswers \cup {a}
    BY <2>2, <2>3
  <2>7. Consistent(restarts, Delivered(waits, q.exec, e), AwaitedBut(t),
                   OtherAnswers(t) \cup p.answers, asked)
    BY <2>2, <2>4, <2>6
  <2>8. TurnOK(t, p) /\ p.phase = "tool"
    BY <1>5, <2>1, <2>3 DEF TurnOK
  <2>9. After
    BY <1>2, <2>1, <2>5, <2>7, <2>8, RunToolsOK
  <2>10. QED
    BY <1>3, <2>9, AfterInv
<1>6. QED
  BY <1>4, <1>5 DEF ResultArrives, s

\* Output of a shell.
LEMMA OutputArrivesOK == ASSUME Inv, NEW e \in asked, OutputArrives(e) PROVE Inv'
<1>1. turn[e.turn].request \in Requests /\ e.kind = "shell"
  BY DEF Inv, AskedOK, OutputArrives
<1>2. SessionsOK(sessions')
  BY <1>1, TouchedOK DEF Inv, OutputArrives
<1>3. UNCHANGED <<turn, history, asked, restarts>> /\ waits' = ShellOutput(waits, e)
  BY DEF OutputArrives
<1>4. Awaited' = Awaited /\ AllAnswers' = AllAnswers
  BY <1>3 DEF Awaited, AllAnswers
<1>5. Consistent(restarts, ShellOutput(waits, e), Awaited, AllAnswers, asked)
  BY <1>1, OutputConsistent DEF Inv
<1>6. Consistent(restarts, waits, Awaited, AllAnswers, asked)'
  BY <1>3, <1>4, <1>5
<1>7. TurnsOK' /\ AskedOK' /\ HistoryOK'
  BY <1>3 DEF Inv, TurnsOK, TurnOK, AskedOK, HistoryOK
<1>8. QED
  BY <1>2, <1>6, <1>7 DEF Inv

\* A client closes a connection.
LEMMA ClientLeavesOK == ASSUME Inv, NEW t \in Turns, ClientLeaves(t) PROVE Inv'
<1> DEFINE q == turn[t]
           p == [q EXCEPT !.connected = FALSE]
<1>1. TurnsOK /\ TurnOK(t, q)
  BY DEF Inv, TurnsOK
<1>2. /\ DOMAIN p = Fields /\ p.phase = q.phase /\ p.request = q.request /\ p.todo = q.todo
      /\ p.text = q.text /\ p.conversation = q.conversation /\ p.exec = q.exec
      /\ p.answers = q.answers
  BY <1>1 DEF TurnOK, Fields
<1>3. turn' = [turn EXCEPT ![t] = p]
  BY DEF ClientLeaves
<1>4. UNCHANGED <<waits, sessions, history, asked, restarts>>
  BY DEF ClientLeaves
<1> HIDE DEF p
<1>5. /\ DOMAIN turn' = Turns /\ turn'[t] = p
      /\ \A u \in Turns \ {t} : turn'[u] = turn[u]
      /\ AllAnswers' = OtherAnswers(t) \cup p.answers
      /\ p.phase = "tool" => Awaited' = AwaitedBut(t) \cup {p.exec}
      /\ p.phase # "tool" => Awaited' = AwaitedBut(t)
  BY <1>1, <1>3, OneChanges
<1>6. AllAnswers' = AllAnswers /\ Awaited' = Awaited
  BY <1>1, <1>2, <1>5, Apart
<1>7. TurnOK(t, p)
  BY <1>1, <1>2 DEF TurnOK
<1>8. TurnsOK'
  BY <1>1, <1>5, <1>7 DEF TurnsOK, TurnOK
<1>9. AskedOK'
  BY <1>2, <1>4, <1>5 DEF Inv, AskedOK, Consistent, ExecType
<1>10. Consistent(restarts, waits, Awaited, AllAnswers, asked)' /\ HistoryOK'
       /\ SessionsOK(sessions)'
  BY <1>4, <1>6 DEF Inv, HistoryOK
<1>11. QED
  BY <1>8, <1>9, <1>10 DEF Inv

\* A session becomes too old.
LEMMA SessionExpiresOK == ASSUME Inv, SessionExpires PROVE Inv'
<1>1. UNCHANGED <<turn, waits, history, asked, restarts>> /\ sessions' \in Expired(sessions)
  BY DEF SessionExpires
<1>2. SessionsOK(sessions)
  BY DEF Inv
<1>3. SessionsOK(sessions')
  <2>1. CASE \E r \in Requests : sessions' = [sessions EXCEPT !.byRequest[r] = NoSession]
    BY <1>2, <2>1 DEF SessionsOK, MessageOK
  <2>2. CASE \E c \in Conversations : sessions' = [sessions EXCEPT !.byConversation[c] = NoText]
    BY <1>2, <2>2 DEF SessionsOK, MessageOK
  <2>3. CASE \E r \in Requests : sessions' = [sessions EXCEPT !.dropped[r] = NoConversation]
    BY <1>2, <2>3 DEF SessionsOK, MessageOK, ConversationOrNone
  <2>4. QED
    BY <1>1, <2>1, <2>2, <2>3 DEF Expired
<1>4. Awaited' = Awaited /\ AllAnswers' = AllAnswers
  BY <1>1 DEF Awaited, AllAnswers
<1>5. Consistent(restarts, waits, Awaited, AllAnswers, asked)'
  BY <1>1, <1>4 DEF Inv
<1>6. TurnsOK' /\ AskedOK' /\ HistoryOK'
  BY <1>1 DEF Inv, TurnsOK, TurnOK, AskedOK, HistoryOK
<1>7. QED
  BY <1>3, <1>5, <1>6 DEF Inv

\* Nothing has been said yet.
LEMMA NewSessionsOK == SessionsOK(NewSessions)
BY DEF SessionsOK, NewSessions, ConversationOrNone

\* The process is another one.
LEMMA RestartOK == ASSUME Inv, Restart PROVE Inv'
<1> DEFINE Cut(t) == turn[t].phase \in {"waiting", "model", "tool"}
<1>1. /\ turn' = [t \in Turns |-> IF Cut(t) THEN Gone(turn[t], "cut") ELSE turn[t]]
      /\ waits' = NewTables /\ sessions' = NewSessions /\ history' = history
      /\ asked' = asked /\ restarts' = restarts + 1
  BY DEF Restart
<1>2. \A t \in Turns : TurnOK(t, turn[t])
  BY DEF Inv, TurnsOK
<1>3. ASSUME NEW t \in Turns
      PROVE  /\ TurnOK(t, turn'[t]) /\ turn'[t].phase # "tool"
             /\ turn'[t].request = turn[t].request /\ turn'[t].answers \subseteq turn[t].answers
  <2>1. CASE Cut(t)
    <3> DEFINE p == Gone(turn[t], "cut")
    <3>1. turn'[t] = p
      BY <1>1, <2>1
    <3>2. /\ DOMAIN p = Fields /\ p.phase = "cut" /\ p.request = turn[t].request
          /\ p.text = NoText /\ p.todo = <<>> /\ p.answers = {}
      BY DEF Gone, NewTurn, Fields
    <3>3. turn[t].request \in Requests
      BY <1>2, <2>1 DEF TurnOK
    <3> HIDE DEF p
    <3>4. TurnOK(t, p)
      BY <3>2, <3>3, EmptySeq DEF TurnOK
    <3>5. QED
      BY <3>1, <3>2, <3>4
  <2>2. CASE ~Cut(t)
    BY <1>1, <1>2, <2>2
  <2>3. QED
    BY <2>1, <2>2
<1>4. DOMAIN turn' = Turns
  BY <1>1
<1>5. Awaited' = {} /\ AllAnswers' \in SUBSET AllAnswers
  BY <1>3 DEF Awaited, AllAnswers
<1>6. Consistent(restarts + 1, NewTables, {}, AllAnswers, asked)
  BY RestartConsistent DEF Inv
<1>7. Consistent(restarts + 1, NewTables, {}, AllAnswers', asked)
  BY <1>5, <1>6, ConsistentLess
<1>8. Consistent(restarts, waits, Awaited, AllAnswers, asked)'
  BY <1>1, <1>5, <1>7
<1>9. TurnsOK'
  BY <1>3, <1>4 DEF TurnsOK, TurnOK
<1>10. AskedOK'
  BY <1>1, <1>3 DEF Inv, AskedOK, Consistent, ExecType
<1>11. SessionsOK(sessions)' /\ HistoryOK'
  BY <1>1, NewSessionsOK DEF Inv, HistoryOK
<1>12. QED
  BY <1>8, <1>9, <1>10, <1>11 DEF Inv

-----------------------------------------------------------------------------
(* The theorems                                                             *)

\* In the beginning.
LEMMA InitInv == ASSUME Init PROVE Inv
<1>1. Awaited = {} /\ AllAnswers = {}
  BY DEF Init, NewTurn, Awaited, AllAnswers
<1>2. Consistent(restarts, waits, Awaited, AllAnswers, asked)
  BY <1>1, FirstConsistent DEF Init
<1>3. TurnsOK
  BY EmptySeq DEF Init, NewTurn, TurnsOK, TurnOK, Fields
<1>4. AskedOK /\ SessionsOK(sessions) /\ HistoryOK
  BY NewSessionsOK DEF Init, AskedOK, HistoryOK
<1>5. QED
  BY <1>2, <1>3, <1>4 DEF Inv

\* Every step.
LEMMA StepInv == ASSUME Inv, [Next]_vars PROVE Inv'
<1>1. CASE \E t \in Turns : TurnStep(t) \/ ClientLeaves(t)
  BY <1>1, RunSSEOK, FindSessionOK, WaitEndsOK, ModelAnswersOK, ModelFailsOK, ToolTimesOutOK,
     ClientLeavesOK DEF TurnStep
<1>2. CASE \E r \in Requests : UserMessage(r)
  BY <1>2, UserMessageOK
<1>3. CASE \E e \in asked : ResultArrives(e) \/ OutputArrives(e)
  BY <1>3, ResultArrivesOK, OutputArrivesOK
<1>4. CASE SessionExpires \/ Restart
  BY <1>4, SessionExpiresOK, RestartOK
<1>5. CASE UNCHANGED vars
  <2>1. UNCHANGED <<turn, waits, sessions, history, asked, restarts>>
    BY <1>5 DEF vars
  <2>2. Awaited' = Awaited /\ AllAnswers' = AllAnswers
    BY <2>1 DEF Awaited, AllAnswers
  <2>3. Consistent(restarts, waits, Awaited, AllAnswers, asked)'
    BY <2>1, <2>2 DEF Inv
  <2>4. TurnsOK' /\ AskedOK' /\ SessionsOK(sessions)' /\ HistoryOK'
    BY <2>1 DEF Inv, TurnsOK, TurnOK, AskedOK, HistoryOK
  <2>5. QED
    BY <2>3, <2>4 DEF Inv
<1>6. QED
  BY <1>1, <1>2, <1>3, <1>4, <1>5 DEF Next

\* The tables fit what the handlers await, and the sessions and the histories
\* keep messages in their conversations.
THEOREM InvTheorem == Spec => []Inv
<1>1. Init => Inv
  BY InitInv
<1>2. Inv /\ [Next]_vars => Inv'
  BY StepInv
<1>3. QED
  BY <1>1, <1>2, PTL DEF Spec

\* The answer to what a handler waits for leads to that handler, and other
\* messages lead nowhere or to a handler that waits (deliverToolResult,
\* deliverInteractionResponse).
THEOREM WaitsCanBeAnsweredTheorem == Spec => []WaitsCanBeAnswered
<1>1. Inv => WaitsCanBeAnswered
  <2>1. SUFFICES ASSUME Inv PROVE WaitsCanBeAnswered
    OBVIOUS
  <2>2. Consistent(restarts, waits, Awaited, AllAnswers, asked)
    BY <2>1 DEF Inv
  <2>3. TablesOK(waits, Awaited) /\ Awaited \subseteq asked /\ Awaited \subseteq ExecType
    BY <2>2 DEF Consistent
  <2>4. ASSUME NEW e \in Awaited PROVE Answers(waits, e) = {e}
    <3>1. e # NoExec
      BY <2>3, NoExecAssumption DEF ExecType
    <3>2. CASE e.kind = "query"
      <4>1. waits.queries[e.call] = e
        BY <2>3, <2>4, <3>2 DEF TablesOK
      <4>2. Answers(waits, e) = {e} \ {NoExec}
        BY <3>2, <4>1 DEF Answers
      <4>3. QED
        BY <3>1, <4>2
    <3>3. CASE e.kind # "query"
      <4>1. waits.pending[e.call] = e /\ e \in waits.aliases
        BY <2>3, <2>4, <3>3 DEF TablesOK
      <4>2. CallsFor(waits, e) = {e.call}
        BY <4>1 DEF CallsFor
      <4>3. Answers(waits, e) = {e} \ {NoExec}
        BY <3>3, <4>1, <4>2 DEF Answers
      <4>4. QED
        BY <3>1, <4>3
    <3>4. QED
      BY <3>2, <3>3
  <2>5. \A e \in asked : Answers(waits, e) \subseteq Awaited
    BY <2>2, AnswersAwaited
  <2>6. waits.aliases \subseteq Awaited
    BY <2>3 DEF TablesOK
  <2>7. QED
    BY <2>4, <2>5, <2>6 DEF WaitsCanBeAnswered
<1>2. QED
  BY <1>1, InvTheorem, PTL

\* The model is told of an exec what the client said of that exec, but for
\* repeated questions, and for numbers of the process before a restart.
THEOREM ResultsAreTheirOwnTheorem == Spec => []ResultsAreTheirOwn
<1>1. Inv => ResultsAreTheirOwn
  BY DEF Inv, Consistent, Own, ResultsAreTheirOwn
<1>2. QED
  BY <1>1, InvTheorem, PTL

\* What a shell printed is shown in one result, of the same call.
THEOREM OutputIsShownOnceTheorem == Spec => []OutputIsShownOnce
<1>1. Inv => OutputIsShownOnce
  BY DEF Inv, Consistent, ShownOK, OutputIsShownOnce
<1>2. QED
  BY <1>1, InvTheorem, PTL

\* Messages are answered and recorded in the conversation they were sent in
\* (waitForSession, recordConversationTurn).
THEOREM MessagesStayTheorem == Spec => []MessagesStayInTheirConversation
<1>1. Inv => MessagesStayInTheirConversation
  BY DEF Inv, TurnsOK, TurnOK, HistoryOK, MessagesStayInTheirConversation
<1>2. QED
  BY <1>1, InvTheorem, PTL

=============================================================================
