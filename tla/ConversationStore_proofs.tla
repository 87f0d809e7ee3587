----------------------- MODULE ConversationStore_proofs -----------------------
(***************************************************************************)
(* Proofs about ConversationStore, for any runs, texts, histories and calls *)
(* and any bounds.                                                          *)
(*                                                                          *)
(* Ownership (SInv): a run is running exactly while it owns the             *)
(* conversation, the owner's head is the current checkpoint, a run that     *)
(* lost the conversation writes nothing, and outcomes are final.  OneOwner  *)
(* alone is not inductive: a claim keeps it only because the run that is    *)
(* claimed is new, an append keeps OwnerAtHead only because the new id lies *)
(* inside the table, so SInv carries the types and that the table is a      *)
(* sequence.                                                                *)
(*                                                                          *)
(* Histories (LInv, NInv, RInv): what the recursive query reads back is     *)
(* what the digest was taken of, because a parent is older than its         *)
(* children; no history repeats a message; and rounds and histories agree   *)
(* on the results.                                                          *)
(***************************************************************************)
EXTENDS ConversationStore, WellFoundedInduction, TLAPS

\* The table is a sequence of rows, whatever the rows are.
Table == \E S : checkpoints \in Seq(S)

\* A conversation nobody has created has no checkpoint and no owner.
EmptyUntilCreated == current = 0 => Len(checkpoints) = 0 /\ active = NoRun

SInv == TypeOK /\ Table /\ OneOwner /\ OwnerAtHead /\ EmptyUntilCreated

\* A row added at the end leaves the ids of the others as they are.
LEMMA RowAdded ==
    ASSUME NEW S, NEW t \in Seq(S), NEW row
    PROVE  /\ Append(t, row) \in Seq(S \cup {row})
           /\ Len(Append(t, row)) = Len(t) + 1
           /\ Len(t) \in Nat
<1>1. t \in Seq(S \cup {row})
  OBVIOUS
<1>2. QED
  BY <1>1

\* What every insertion does to the table: one more id, and every id of before
\* is still one.
LEMMA Insertion ==
    ASSUME TypeOK, Table, NEW parent, NEW additions, NEW digest,
           InsertCheckpoint(parent, additions, digest)
    PROVE  /\ Table'
           /\ Len(checkpoints') = Len(checkpoints) + 1
           /\ Len(checkpoints) \in Nat
           /\ DOMAIN checkpoints' = 1 .. Len(checkpoints')
<1>1. PICK S : checkpoints \in Seq(S)
  BY DEF Table
<1> DEFINE row == [parent |-> parent,
                   rows |-> [i \in DOMAIN additions |-> additions[i].id],
                   digest |-> digest]
<1>2. checkpoints' = Append(checkpoints, row)
  BY DEF InsertCheckpoint
<1> HIDE DEF row
<1>3. /\ checkpoints' \in Seq(S \cup {row})
      /\ Len(checkpoints') = Len(checkpoints) + 1
      /\ Len(checkpoints) \in Nat
  BY <1>1, <1>2, RowAdded
<1>4. DOMAIN checkpoints' = 1 .. Len(checkpoints')
  BY <1>3
<1>5. QED
  BY <1>3, <1>4 DEF Table

\* The owner appends at its head: what all appends have in common.
LEMMA AppendStep ==
    ASSUME SInv, NEW r \in Runs, NEW expected, NEW additions,
           AppendAt(r, expected, additions),
           UNCHANGED <<active, status, base>>
    PROVE  /\ active = r /\ r # NoRun /\ status[r] = "running"
           /\ current' \in 1 .. Len(checkpoints') /\ current' # 0
           /\ head' = [head EXCEPT ![r] = current']
           /\ head' \in [Runs -> 0 .. Len(checkpoints')]
           /\ base' \in [Runs -> 0 .. Len(checkpoints')]
           /\ DOMAIN checkpoints' = 1 .. Len(checkpoints')
           /\ Table' /\ OneOwner' /\ OwnerAtHead' /\ EmptyUntilCreated'
<1>1. InsertCheckpoint(expected, additions, Load(expected) \o additions)
  BY DEF AppendAt
<1>2. /\ Table'
      /\ Len(checkpoints') = Len(checkpoints) + 1
      /\ Len(checkpoints) \in Nat
      /\ DOMAIN checkpoints' = 1 .. Len(checkpoints')
  BY <1>1, Insertion DEF SInv
<1>3. active = r /\ r # NoRun /\ status[r] = "running"
  BY NoRunAssumption DEF AppendAt, OwnsHead, SInv, OneOwner
<1>4. current' = Len(checkpoints) + 1 /\ head' = [head EXCEPT ![r] = current']
  BY DEF AppendAt, NewCheckpoint
<1>5. current' \in 1 .. Len(checkpoints') /\ current' # 0
  BY <1>2, <1>4
<1>6. /\ head' \in [Runs -> 0 .. Len(checkpoints')]
      /\ base' \in [Runs -> 0 .. Len(checkpoints')]
  BY <1>2, <1>4, <1>5 DEF SInv, TypeOK
<1>7. OneOwner' /\ EmptyUntilCreated'
  BY <1>5 DEF SInv, OneOwner, EmptyUntilCreated
<1>8. OwnerAtHead'
  BY <1>3, <1>4 DEF SInv, TypeOK, OwnerAtHead
<1>9. QED
  BY <1>2, <1>3, <1>4, <1>5, <1>6, <1>7, <1>8

LEMMA SInitInv == Init => SInv
<1> SUFFICES ASSUME Init PROVE SInv
  OBVIOUS
<1>1. checkpoints \in Seq({}) /\ Len(checkpoints) = 0 /\ DOMAIN checkpoints = 1 .. 0
  BY DEF Init
<1>2. Table
  BY <1>1 DEF Table
<1>3. NoRound \in Round
  <2>1. <<>> \in Seq(Calls)
    OBVIOUS
  <2>2. QED
    BY <2>1 DEF NoRound, Round
<1>4. TypeOK
  BY <1>1, <1>3, BoundsAssumption DEF Init, TypeOK, Terminal, CallStatuses
<1>5. OneOwner
  BY NoRunAssumption DEF Init, OneOwner
<1>6. QED
  BY <1>2, <1>4, <1>5 DEF SInv, Init, OwnerAtHead, EmptyUntilCreated

\* A completed call leaves the round well typed.
LEMMA RoundAfterType ==
    ASSUME NEW round \in Round, NEW c \in Calls
    PROVE  RoundAfter(round, c) \in Round
<1>1. Append(round.completed, c) \in Seq(Calls)
  BY DEF Round
<1>2. round.pending \ {c} \in SUBSET Calls
  BY DEF Round
<1>3. QED
  BY <1>1, <1>2 DEF RoundAfter, Round

\* Every operation of the store preserves the invariant.
LEMMA SStepInv == SInv /\ [Next]_vars => SInv'
<1> SUFFICES ASSUME SInv, [Next]_vars
             PROVE  SInv'
  OBVIOUS
<1>1. CASE UNCHANGED vars
  BY <1>1 DEF vars, SInv, TypeOK, Table, OneOwner, OwnerAtHead, EmptyUntilCreated
<1>2. CASE EnsureConversation
  <2>1. /\ checkpoints' \in Seq({RootCheckpoint})
        /\ Len(checkpoints') = 1
        /\ DOMAIN checkpoints' = 1 .. 1
    BY <1>2 DEF EnsureConversation
  <2>2. Len(checkpoints) = 0 /\ active = NoRun
    BY <1>2 DEF EnsureConversation, SInv, EmptyUntilCreated
  <2>3. /\ base \in [Runs -> 0 .. 1]
        /\ head \in [Runs -> 0 .. 1]
    BY <2>2 DEF SInv, TypeOK
  <2>4. TypeOK'
    BY <1>2, <2>1, <2>3 DEF EnsureConversation, SInv, TypeOK
  <2>5. Table'
    BY <2>1 DEF Table
  <2>6. QED
    BY <1>2, <2>2, <2>4, <2>5 DEF EnsureConversation, SInv, OneOwner, OwnerAtHead,
       EmptyUntilCreated
<1>3. ASSUME NEW messages \in Histories, ImportCheckpoint(messages)
      PROVE  SInv'
  <2>1. PICK parent, additions : InsertCheckpoint(parent, additions, messages)
    BY <1>3 DEF ImportCheckpoint
  <2>2. /\ Table'
        /\ Len(checkpoints') = Len(checkpoints) + 1
        /\ Len(checkpoints) \in Nat
        /\ DOMAIN checkpoints' = 1 .. Len(checkpoints')
    BY <2>1, Insertion DEF SInv
  <2>3. TypeOK'
    BY <1>3, <2>2 DEF ImportCheckpoint, SInv, TypeOK
  <2>4. QED
    BY <1>3, <2>2, <2>3 DEF ImportCheckpoint, SInv, OneOwner, OwnerAtHead, EmptyUntilCreated
<1>4. ASSUME NEW r \in Runs, NEW b \in DOMAIN checkpoints, ClaimRun(r, b)
      PROVE  SInv'
  <2>1. b \in 1 .. Len(checkpoints) /\ Len(checkpoints) \in Nat
    BY DEF SInv, TypeOK, Table
  <2>2. /\ base' \in [Runs -> 0 .. Len(checkpoints)]
        /\ head' \in [Runs -> 0 .. Len(checkpoints)]
    BY <1>4, <2>1 DEF ClaimRun, SInv, TypeOK
  <2>3. modelCall' \in [Runs -> [status : CallStatuses,
                                 begun : {"absent", "running"} \cup Terminal]]
    BY <1>4 DEF ClaimRun, CallsAfterClaim, SInv, TypeOK, CallStatuses
  <2>4. status' \in [Runs -> {"absent", "running"} \cup Terminal]
    BY <1>4 DEF ClaimRun, StatusAfterClaim, SInv, TypeOK, Terminal
  <2>5. TypeOK'
    BY <1>4, <2>1, <2>2, <2>3, <2>4 DEF ClaimRun, SInv, TypeOK
  <2>6. OneOwner'
    BY <1>4, NoRunAssumption DEF ClaimRun, StatusAfterClaim, SInv, TypeOK, OneOwner
  <2>7. OwnerAtHead' /\ EmptyUntilCreated'
    BY <1>4, <2>1 DEF ClaimRun, SInv, TypeOK, OwnerAtHead, EmptyUntilCreated
  <2>8. Table'
    BY <1>4 DEF ClaimRun, SInv, Table
  <2>9. QED
    BY <2>5, <2>6, <2>7, <2>8 DEF SInv
<1>5. ASSUME NEW r \in Runs, NEW c \in DOMAIN checkpoints, AppendAnswer(r, c)
      PROVE  SInv'
  <2>1. TypeOK'
    BY <1>5, AppendStep DEF AppendAnswer, SInv, TypeOK
  <2>2. QED
    BY <1>5, <2>1, AppendStep DEF AppendAnswer, SInv
<1>6. ASSUME NEW r \in Runs, NEW c \in DOMAIN checkpoints, NEW t \in Texts,
             AppendMessageOnce(r, c, t)
      PROVE  SInv'
  <2>1. TypeOK'
    BY <1>6, AppendStep DEF AppendMessageOnce, SInv, TypeOK
  <2>2. QED
    BY <1>6, <2>1, AppendStep DEF AppendMessageOnce, SInv
<1>7. ASSUME NEW r \in Runs, NEW c \in DOMAIN checkpoints, NEW t \in Texts,
             ReplaceCheckpoint(r, c, <<t>>)
      PROVE  SInv'
  <2>1. /\ Table'
        /\ Len(checkpoints') = Len(checkpoints) + 1
        /\ Len(checkpoints) \in Nat
        /\ DOMAIN checkpoints' = 1 .. Len(checkpoints')
    BY <1>7, Insertion DEF SInv, ReplaceCheckpoint
  <2>2. current' = Len(checkpoints) + 1 /\ head' = [head EXCEPT ![r] = current']
    BY <1>7 DEF ReplaceCheckpoint, NewCheckpoint
  <2>3. active = r
    BY <1>7 DEF ReplaceCheckpoint, OwnsHead
  <2>4. TypeOK'
    BY <1>7, <2>1, <2>2 DEF ReplaceCheckpoint, SInv, TypeOK
  <2>5. OneOwner' /\ OwnerAtHead' /\ EmptyUntilCreated'
    BY <1>7, <2>1, <2>2, <2>3 DEF ReplaceCheckpoint, SInv, TypeOK, OneOwner, OwnerAtHead,
       EmptyUntilCreated
  <2>6. QED
    BY <2>1, <2>4, <2>5 DEF SInv
<1>8. ASSUME NEW r \in Runs, NEW c \in DOMAIN checkpoints, NEW calls \in SUBSET Calls,
             CreateToolRound(r, c, calls)
      PROVE  SInv'
  <2>1. [status |-> "pending", pending |-> calls, completed |-> <<>>] \in Round
    <3>1. <<>> \in Seq(Calls)
      OBVIOUS
    <3>2. QED
      BY <3>1 DEF Round
  <2>2. rounds' \in [Runs -> [1 .. MaxAnswers -> Round]]
    BY <1>8, <2>1 DEF CreateToolRound, SInv, TypeOK
  <2>3. TypeOK'
    BY <1>8, <2>2 DEF CreateToolRound, SInv, TypeOK
  <2>4. QED
    BY <1>8, <2>3 DEF CreateToolRound, SInv, Table, OneOwner, OwnerAtHead, EmptyUntilCreated
<1>9. ASSUME NEW r \in Runs, BeginProviderCall(r)
      PROVE  SInv'
  <2>1. answers' \in [Runs -> 0 .. MaxAnswers]
    BY <1>9, BoundsAssumption DEF BeginProviderCall, SInv, TypeOK
  <2>2. TypeOK'
    BY <1>9, <2>1 DEF BeginProviderCall, SInv, TypeOK
  <2>3. QED
    BY <1>9, <2>2 DEF BeginProviderCall, SInv, Table, OneOwner, OwnerAtHead, EmptyUntilCreated
<1>10. ASSUME NEW r \in Runs, StartModelCall(r)
       PROVE  SInv'
  <2>1. TypeOK'
    BY <1>10 DEF StartModelCall, SInv, TypeOK, CallStatuses
  <2>2. QED
    BY <1>10, <2>1 DEF StartModelCall, SInv, Table, OneOwner, OwnerAtHead, EmptyUntilCreated
<1>11. ASSUME NEW r \in Runs, NEW s \in {"completed", "cancelled", "error"},
              FinishModelCall(r, s)
       PROVE  SInv'
  <2>1. TypeOK'
    BY <1>11 DEF FinishModelCall, SInv, TypeOK, CallStatuses
  <2>2. QED
    BY <1>11, <2>1 DEF FinishModelCall, SInv, Table, OneOwner, OwnerAtHead, EmptyUntilCreated
<1>12. ASSUME NEW r \in Runs, NEW s \in Terminal, FinishRun(r, s)
       PROVE  SInv'
  <2>1. FinalStatus(r, s) \in Terminal
    BY <1>12 DEF FinishRun, FinalStatus, SInv, TypeOK
  <2>2. status' = [status EXCEPT ![r] = FinalStatus(r, s)]
    BY <1>12 DEF FinishRun
  <2>3. status' \in [Runs -> {"absent", "running"} \cup Terminal]
    BY <2>1, <2>2 DEF SInv, TypeOK
  <2>4. modelCall' \in [Runs -> [status : CallStatuses,
                                 begun : {"absent", "running"} \cup Terminal]]
    BY <1>12 DEF FinishRun, SInv, TypeOK, CallStatuses
  <2>5. active' \in Runs \cup {NoRun}
    BY <1>12 DEF FinishRun, OwnerAfterFinish, SInv, TypeOK
  <2>6. TypeOK'
    BY <1>12, <2>3, <2>4, <2>5 DEF FinishRun, SInv, TypeOK
  <2>7. OneOwner'
    BY <1>12, <2>1, <2>2, NoRunAssumption
       DEF FinishRun, OwnerAfterFinish, Terminal, SInv, TypeOK, OneOwner
  <2>8. OwnerAtHead' /\ EmptyUntilCreated' /\ Table'
    BY <1>12 DEF FinishRun, OwnerAfterFinish, SInv, Table, OwnerAtHead, EmptyUntilCreated
  <2>9. QED
    BY <2>6, <2>7, <2>8 DEF SInv
<1>13. ASSUME NEW r \in Runs, NEW n \in 1 .. MaxAnswers, NEW c \in Calls,
              CommitToolResult(r, n, c)
       PROVE  SInv'
  <2>1. RoundAfter(rounds[r][n], c) \in Round
    <3>1. rounds[r][n] \in Round
      <4>1. rounds[r] \in [1 .. MaxAnswers -> Round]
        BY Zenon DEF SInv, TypeOK
      <4>2. QED
        BY <4>1, Zenon
    <3>2. QED
      BY <3>1, RoundAfterType
  <2>2. rounds' \in [Runs -> [1 .. MaxAnswers -> Round]]
    BY <1>13, <2>1 DEF CommitToolResult, SInv, TypeOK
  <2>3. AppendAt(r, head[r], <<Result(r, n, c)>>) /\ UNCHANGED <<active, status, base>>
    BY <1>13 DEF CommitToolResult
  <2>4. TypeOK'
    BY <1>13, <2>2, <2>3, AppendStep DEF CommitToolResult, SInv, TypeOK
  <2>5. QED
    BY <2>3, <2>4, AppendStep DEF SInv
<1>14. QED
  BY <1>1, <1>2, <1>3, <1>4, <1>5, <1>6, <1>7, <1>8, <1>9, <1>10, <1>11, <1>12, <1>13
     DEF Next

-----------------------------------------------------------------------------
(* Theorems.                                                                *)

\* The invariant holds in every reachable state.
LEMMA SInvariant == Spec => []SInv
<1>1. Init => SInv
  BY SInitInv
<1>2. SInv /\ [Next]_vars => SInv'
  BY SStepInv
<1>3. QED
  BY <1>1, <1>2, PTL DEF Spec

\* Store rows keep their types: every checkpoint id that a conversation or a
\* run holds is a row of the table.
THEOREM StoreTypeCorrect == Spec => []TypeOK
<1>1. SInv => TypeOK
  BY DEF SInv
<1>2. QED
  BY <1>1, SInvariant, PTL

\* A run is running exactly while it owns the conversation: claims cancel the
\* run they replace, and finishing releases only what one owns.
THEOREM RunningMeansOwning == Spec => []OneOwner
<1>1. SInv => OneOwner
  BY DEF SInv
<1>2. QED
  BY <1>1, SInvariant, PTL

\* What the conversation shows is what its owner wrote last.
THEOREM OwnerShowsItsHead == Spec => []OwnerAtHead
<1>1. SInv => OwnerAtHead
  BY DEF SInv
<1>2. QED
  BY <1>1, SInvariant, PTL

\* A replaced run cannot overwrite its cancelled status, nor a failed one
\* complete: claim_run and finish_run change the status of running runs only.
THEOREM OutcomesAreFinal == Spec => OutcomeIsFinal
<1>1. SInv /\ [Next]_vars =>
        [\A r \in Runs : status[r] \in Terminal => status'[r] = status[r]]_vars
  <2> SUFFICES ASSUME SInv, [Next]_vars, NEW q \in Runs, status[q] \in Terminal
               PROVE  status'[q] = status[q]
    OBVIOUS
  <2>1. ASSUME UNCHANGED status
        PROVE  status'[q] = status[q]
    BY <2>1
  <2>2. ASSUME NEW r \in Runs, NEW b \in DOMAIN checkpoints, ClaimRun(r, b)
        PROVE  status'[q] = status[q]
    BY <2>2 DEF ClaimRun, StatusAfterClaim, Terminal
  <2>3. ASSUME NEW r \in Runs, NEW s \in Terminal, FinishRun(r, s)
        PROVE  status'[q] = status[q]
    BY <2>3 DEF FinishRun, FinalStatus, Terminal, SInv, TypeOK
  <2>4. QED
    BY <2>1, <2>2, <2>3 DEF Next, vars, EnsureConversation, ImportCheckpoint, AppendAnswer,
       AppendMessageOnce, ReplaceCheckpoint, CreateToolRound, BeginProviderCall,
       StartModelCall, FinishModelCall, CommitToolResult
<1>2. QED
  BY <1>1, SInvariant, PTL DEF Spec, OutcomeIsFinal

\* A run that lost the conversation leaves checkpoints, heads, rounds and call
\* indexes alone, and the conversation moves only with its owner's head.
THEOREM StaleRunsAreHarmless == Spec => StaleRunWritesNothing
<1>1. SInv /\ [Next]_vars =>
        [\A r \in Runs : status[r] # "absent" /\ active # r =>
            /\ head'[r] = head[r] /\ rounds'[r] = rounds[r] /\ answers'[r] = answers[r]
            /\ active # NoRun /\ current' # current /\ active' = active =>
                   head'[active] = current']_vars
  <2> SUFFICES ASSUME SInv, [Next]_vars, NEW q \in Runs, status[q] # "absent", active # q
               PROVE  /\ head'[q] = head[q] /\ rounds'[q] = rounds[q] /\ answers'[q] = answers[q]
                      /\ active # NoRun /\ current' # current /\ active' = active =>
                             head'[active] = current'
    OBVIOUS
  <2> DEFINE Kept == head'[q] = head[q] /\ rounds'[q] = rounds[q] /\ answers'[q] = answers[q]
             Moved == active # NoRun /\ current' # current /\ active' = active =>
                          head'[active] = current'
  <2>1. ASSUME UNCHANGED <<current, head, rounds, answers>>
        PROVE  Kept /\ Moved
    BY <2>1
  <2>2. ASSUME EnsureConversation
        PROVE  Kept /\ Moved
    BY <2>2 DEF EnsureConversation, SInv, EmptyUntilCreated
  <2>3. ASSUME NEW r \in Runs, NEW b \in DOMAIN checkpoints, ClaimRun(r, b)
        PROVE  Kept /\ Moved
    <3>1. q # r /\ active # r
      BY <2>3, NoRunAssumption DEF ClaimRun, SInv, OneOwner
    <3>2. QED
      BY <2>3, <3>1 DEF ClaimRun, SInv, TypeOK
  <2>4. ASSUME NEW r \in Runs, NEW expected, NEW additions,
               AppendAt(r, expected, additions), UNCHANGED answers,
               UNCHANGED rounds \/ \E round, n : rounds' = [rounds EXCEPT ![r][n] = round]
        PROVE  Kept /\ Moved
    BY <2>4 DEF AppendAt, OwnsHead, SInv, TypeOK
  <2>5. ASSUME NEW r \in Runs, NEW c \in DOMAIN checkpoints, NEW t \in Texts,
               ReplaceCheckpoint(r, c, <<t>>)
        PROVE  Kept /\ Moved
    BY <2>5 DEF ReplaceCheckpoint, OwnsHead, SInv, TypeOK
  <2>6. ASSUME NEW r \in Runs, NEW c \in DOMAIN checkpoints, NEW calls \in SUBSET Calls,
               CreateToolRound(r, c, calls)
        PROVE  Kept /\ Moved
    BY <2>6 DEF CreateToolRound, SInv, TypeOK
  <2>7. ASSUME NEW r \in Runs, BeginProviderCall(r)
        PROVE  Kept /\ Moved
    BY <2>7 DEF BeginProviderCall, SInv, TypeOK, OneOwner
  <2>8. ASSUME NEW r \in Runs, NEW n \in 1 .. MaxAnswers, NEW c \in Calls,
               CommitToolResult(r, n, c)
        PROVE  Kept /\ Moved
    BY <2>8, <2>4 DEF CommitToolResult
  <2>9. ASSUME NEW r \in Runs, NEW c \in DOMAIN checkpoints,
               AppendAnswer(r, c) \/ \E t \in Texts : AppendMessageOnce(r, c, t)
        PROVE  Kept /\ Moved
    BY <2>9, <2>4 DEF AppendAnswer, AppendMessageOnce
  <2>10. QED
    BY <2>1, <2>2, <2>3, <2>5, <2>6, <2>7, <2>8, <2>9
       DEF Next, vars, ImportCheckpoint, StartModelCall, FinishModelCall, FinishRun
<1>2. QED
  BY <1>1, SInvariant, PTL DEF Spec, StaleRunWritesNothing

\* A model call that began while its run was running ends with the run: both
\* ways to end a run, replacing it and finishing it, end its calls.
THEOREM CallsDoNotOutliveRuns == Spec => []CallsEndWithTheirRun
<1>1. Init => CallsEndWithTheirRun
  BY DEF Init, CallsEndWithTheirRun
<1>2. SInv /\ CallsEndWithTheirRun /\ [Next]_vars => CallsEndWithTheirRun'
  <2> SUFFICES ASSUME SInv, CallsEndWithTheirRun, [Next]_vars, NEW q \in Runs,
                      modelCall'[q].status = "running", modelCall'[q].begun = "running"
               PROVE  status'[q] = "running"
    BY DEF CallsEndWithTheirRun
  <2> USE DEF SInv, TypeOK, CallsEndWithTheirRun
  <2>1. ASSUME UNCHANGED <<status, modelCall>>
        PROVE  status'[q] = "running"
    BY <2>1
  <2>2. ASSUME NEW r \in Runs, NEW b \in DOMAIN checkpoints, ClaimRun(r, b)
        PROVE  status'[q] = "running"
    BY <2>2 DEF ClaimRun, StatusAfterClaim, CallsAfterClaim
  <2>3. ASSUME NEW r \in Runs, StartModelCall(r)
        PROVE  status'[q] = "running"
    BY <2>3 DEF StartModelCall
  <2>4. ASSUME NEW r \in Runs, NEW s \in {"completed", "cancelled", "error"},
               FinishModelCall(r, s)
        PROVE  status'[q] = "running"
    BY <2>4 DEF FinishModelCall
  <2>5. ASSUME NEW r \in Runs, NEW s \in Terminal, FinishRun(r, s)
        PROVE  status'[q] = "running"
    BY <2>5 DEF FinishRun
  <2>6. QED
    BY <2>1, <2>2, <2>3, <2>4, <2>5
       DEF Next, vars, EnsureConversation, ImportCheckpoint, AppendAnswer, AppendMessageOnce,
           ReplaceCheckpoint, CreateToolRound, BeginProviderCall, CommitToolResult
<1>3. QED
  BY <1>1, <1>2, SInvariant, PTL DEF Spec

\* A set of numbers has a least member.
LEMMA LeastMember ==
    ASSUME NEW S \in SUBSET Nat, S # {}
    PROVE  \E m \in S : \A n \in S : m <= n
<1> DEFINE R == {p \in Nat \X Nat : p[1] < p[2]}
<1>1. IsWellFoundedOn(R, Nat)
  BY NatLessThanWellFounded DEF OpToRel
<1>2. PICK m \in S : \A n \in S : ~ (<<n, m>> \in R)
  BY <1>1, WFMin
<1>3. \A n \in Nat : <<n, m>> \notin R => ~ (n < m)
  OBVIOUS
<1>4. \A n \in S : n \in Nat /\ ~ (n < m)
  BY <1>2, <1>3
<1>5. m \in Nat /\ \A n \in S : m <= n
  BY <1>4
<1>6. QED
  BY <1>5

LEMMA LoadDef ==
    ASSUME NEW c
    PROVE  Load(c) = (CHOOSE load : load = [k \in 0 .. Len(checkpoints) |->
            IF k = 0 THEN <<>>
            ELSE load[checkpoints[k].parent]
                     \o [i \in DOMAIN checkpoints[k].rows |->
                            Payload(checkpoints[k].rows[i])]])[c]
BY DEF Load
-----------------------------------------------------------------------------
(* Histories.                                                               *)

\* Every message that can enter the table.
Imported == UNION {{h[i] : i \in DOMAIN h} : h \in Histories}

Messages ==
    Imported \cup Texts
      \cup {Answer(r, n) : r \in Runs, n \in 1 .. MaxAnswers}
      \cup {Result(r, n, c) : r \in Runs, n \in 1 .. MaxAnswers, c \in Calls}

Row == [parent : Nat, rows : Seq({m.id : m \in Messages}), digest : Seq(Messages)]

\* A message id has one content, which is what the immutable payload is for.
OneContent == \A m, n \in stored : m.id = n.id => m = n

\* The history that a child of a checkpoint continues.
Continued(table, parent) == IF parent = 0 THEN <<>> ELSE table[parent].digest

\* The messages that have the ids of some rows.
WithIds(messages, rows) == [i \in DOMAIN rows |-> CHOOSE m \in messages : m.id = rows[i]]

\* The messages that a checkpoint adds to the history it continues.
Added(k) == WithIds(stored, checkpoints[k].rows)

\* A parent is older than its children, and the digest of a child is that of
\* its parent with the messages of its own rows, all of them stored.
Lineage ==
    \A k \in DOMAIN checkpoints :
        /\ checkpoints[k].parent < k
        /\ \A i \in DOMAIN checkpoints[k].rows :
              \E m \in stored : m.id = checkpoints[k].rows[i]
        /\ checkpoints[k].digest = Continued(checkpoints, checkpoints[k].parent) \o Added(k)

OneOfADigest ==
    \A c, d \in DOMAIN checkpoints :
        c # d => checkpoints[c].digest # checkpoints[d].digest

LInv ==
    /\ SInv
    /\ checkpoints \in Seq(Row) /\ stored \subseteq Messages
    /\ checkpoints # <<>> => checkpoints[1] = RootCheckpoint
    /\ OneContent /\ Lineage /\ OneOfADigest

\* The stored payload of an id is the message that has it.
LEMMA PayloadFound ==
    ASSUME OneContent, NEW m \in stored
    PROVE  Payload(m.id) = m
BY DEF OneContent, Payload

\* The recursion over the lineage ends, and gives the digests.
LEMMA LoadIsDigest ==
    ASSUME LInv, NEW c \in DOMAIN checkpoints
    PROVE  Load(c) = checkpoints[c].digest
<1> DEFINE N == Len(checkpoints)
           Step(f) == [k \in 0 .. N |->
                IF k = 0 THEN <<>>
                ELSE f[checkpoints[k].parent]
                       \o [i \in DOMAIN checkpoints[k].rows |->
                              Payload(checkpoints[k].rows[i])]]
           digests == [k \in 0 .. N |-> IF k = 0 THEN <<>> ELSE checkpoints[k].digest]
           load == CHOOSE f : f = Step(f)
<1>0. /\ N \in Nat /\ DOMAIN checkpoints = 1 .. N
      /\ \A k \in 1 .. N : checkpoints[k].parent \in 0 .. N /\ checkpoints[k].parent < k
  <2>1. N \in Nat /\ DOMAIN checkpoints = 1 .. N /\ \A k \in 1 .. N : checkpoints[k] \in Row
    BY DEF LInv
  <2>2. \A k \in 1 .. N : checkpoints[k].parent \in Nat /\ checkpoints[k].parent < k
    BY <2>1 DEF LInv, Lineage, Row
  <2>3. QED
    BY <2>1, <2>2
<1>1. \A k \in 1 .. N : checkpoints[k].digest = digests[checkpoints[k].parent] \o Added(k)
  <2> SUFFICES ASSUME NEW k \in 1 .. N
               PROVE  checkpoints[k].digest = digests[checkpoints[k].parent] \o Added(k)
    OBVIOUS
  <2>1. checkpoints[k].digest = Continued(checkpoints, checkpoints[k].parent) \o Added(k)
    BY <1>0 DEF LInv, Lineage
  <2>2. digests[checkpoints[k].parent] = Continued(checkpoints, checkpoints[k].parent)
    BY <1>0 DEF Continued
  <2>3. QED
    BY <2>1, <2>2
<1>2. digests = Step(digests)
  <2> SUFFICES ASSUME NEW k \in 0 .. N
               PROVE  digests[k] = Step(digests)[k]
    OBVIOUS
  <2>1. CASE k = 0
    BY <2>1
  <2>2. CASE k # 0
    <3>1. k \in 1 .. N /\ digests[k] = checkpoints[k].digest
      BY <1>0, <2>2
    <3>2. Step(digests)[k] = digests[checkpoints[k].parent] \o Added(k)
      <4> HIDE DEF digests
      <4>1. QED
        BY <2>2 DEF Added, WithIds, Payload
    <3>3. QED
      BY <1>1, <3>1, <3>2
  <2>3. QED
    BY <2>1, <2>2
<1>3. load = Step(load)
  BY <1>2
<1>4. Load(c) = load[c]
  BY LoadDef
<1>5. load[0] = <<>> /\ \A k \in 1 .. N : load[k] = load[checkpoints[k].parent] \o Added(k)
  <2> HIDE DEF load
  <2>1. \A k \in 0 .. N : load[k] = Step(load)[k]
    BY <1>3
  <2>2. load[0] = <<>>
    <3>1. 0 \in 0 .. N
      BY <1>0
    <3>2. Step(load)[0] = <<>>
      BY <3>1
    <3>3. QED
      BY ONLY <2>1, <3>1, <3>2
  <2>3. ASSUME NEW k \in 1 .. N
        PROVE  load[k] = load[checkpoints[k].parent] \o Added(k)
    <3>1. k \in 0 .. N /\ k # 0
      BY <1>0
    <3>2. Step(load)[k] = load[checkpoints[k].parent] \o Added(k)
      BY <3>1 DEF Added, WithIds, Payload
    <3>3. QED
      BY <2>1, <3>1, <3>2
  <2>4. QED
    BY <2>2, <2>3
<1> HIDE DEF load
<1> DEFINE Wrong == {k \in 0 .. N : load[k] # digests[k]}
<1>6. Wrong = {}
  <2> SUFFICES ASSUME Wrong # {} PROVE FALSE
    OBVIOUS
  <2>1. PICK m \in Wrong : \A n \in Wrong : m <= n
    <3>1. Wrong \in SUBSET Nat
      BY <1>0
    <3>2. QED
      BY <3>1, LeastMember
  <2>2. m \in 0 .. N /\ load[m] # digests[m]
    BY <2>1
  <2>3. m \in 1 .. N
    BY <1>0, <1>5, <2>2
  <2>4. load[checkpoints[m].parent] = digests[checkpoints[m].parent]
    BY <1>0, <2>1, <2>3
  <2>5. digests[m] = checkpoints[m].digest
    BY <1>0, <2>3
  <2>6. QED
    BY <1>1, <1>5, <2>2, <2>3, <2>4, <2>5
<1>7. c \in 1 .. N /\ load[c] = digests[c] /\ digests[c] = checkpoints[c].digest
  <2>1. c \in 1 .. N /\ c \in 0 .. N /\ c # 0
    BY <1>0
  <2>2. digests[c] = checkpoints[c].digest
    BY <2>1
  <2> HIDE DEF digests
  <2>3. QED
    BY <1>6, <2>1, <2>2
<1>8. QED
  BY <1>4, <1>7

\* A message that is inserted is stored afterwards, and what was stored stays.
LEMMA StoredAfter ==
    ASSUME OneContent, NEW parent, NEW additions, NEW digest,
           InsertCheckpoint(parent, additions, digest)
    PROVE  /\ stored \subseteq stored'
           /\ \A i \in DOMAIN additions : additions[i] \in stored'
           /\ \A m \in stored' : m \in stored \/ \E i \in DOMAIN additions :
                  m = additions[i] /\ \A n \in stored : n.id # m.id
           /\ OneContent'
<1> DEFINE New == {k \in DOMAIN additions : additions[k].id \notin {m.id : m \in stored}}
<1>1. stored' = stored \cup {additions[i] : i \in New}
  BY DEF InsertCheckpoint
<1>2. /\ \A i \in DOMAIN additions : \A m \in stored : m.id = additions[i].id => m = additions[i]
      /\ \A i, j \in DOMAIN additions : additions[i].id = additions[j].id => i = j
  BY DEF InsertCheckpoint, Storable
<1>3. \A i \in DOMAIN additions : additions[i] \in stored'
  BY <1>1, <1>2
<1>4. \A m \in stored' : m \in stored \/ \E i \in DOMAIN additions :
                  m = additions[i] /\ \A n \in stored : n.id # m.id
  BY <1>1
<1>5. OneContent'
  <2> SUFFICES ASSUME NEW m \in stored', NEW n \in stored', m.id = n.id PROVE m = n
    BY DEF OneContent
  <2>1. CASE m \in stored /\ n \in stored
    BY <2>1 DEF OneContent
  <2>2. CASE m \notin stored /\ n \notin stored
    BY <1>2, <1>4, <2>2
  <2>3. QED
    BY <1>4, <2>1, <2>2
<1>6. QED
  BY <1>1, <1>3, <1>4, <1>5

\* A new row below a checkpoint continues the history of that checkpoint.
LEMMA InsertedLineage ==
    ASSUME LInv, NEW parent \in DOMAIN checkpoints, NEW additions \in Seq(Messages),
           NEW digest \in Seq(Messages), digest = checkpoints[parent].digest \o additions,
           InsertCheckpoint(parent, additions, digest), SInv'
    PROVE  LInv'
<1> DEFINE N == Len(checkpoints)
           row == [parent |-> parent,
                   rows |-> [i \in DOMAIN additions |-> additions[i].id],
                   digest |-> digest]
<1>1. /\ stored \subseteq stored'
      /\ \A i \in DOMAIN additions : additions[i] \in stored'
      /\ \A m \in stored' : m \in stored \/ \E i \in DOMAIN additions : m = additions[i]
      /\ OneContent'
  BY StoredAfter DEF LInv
<1>2. stored' \subseteq Messages
  <2>1. \A i \in DOMAIN additions : additions[i] \in Messages
    OBVIOUS
  <2>2. QED
    BY <1>1, <2>1 DEF LInv
<1>3. row \in Row /\ row.parent = parent /\ row.digest = digest
      /\ row.rows = [i \in DOMAIN additions |-> additions[i].id]
  <2>1. DOMAIN additions = 1 .. Len(additions) /\ Len(additions) \in Nat
        /\ \A i \in DOMAIN additions : additions[i].id \in {m.id : m \in Messages}
    OBVIOUS
  <2>2. [i \in DOMAIN additions |-> additions[i].id] \in Seq({m.id : m \in Messages})
    BY <2>1
  <2>3. parent \in Nat
    BY DEF LInv, Row
  <2>4. QED
    BY <2>2, <2>3 DEF Row
<1>4. checkpoints' = Append(checkpoints, row)
  BY DEF InsertCheckpoint
<1> HIDE DEF row
<1>5. /\ checkpoints' \in Seq(Row) /\ N \in Nat /\ DOMAIN checkpoints = 1 .. N
      /\ DOMAIN checkpoints' = 1 .. (N + 1)
      /\ \A k \in 1 .. N : checkpoints'[k] = checkpoints[k]
      /\ checkpoints'[N + 1] = row
  BY <1>3, <1>4 DEF LInv
<1> HIDE DEF N
<1>6. ASSUME NEW k \in 1 .. N
      PROVE  /\ WithIds(stored', checkpoints'[k].rows) = Added(k)
             /\ Continued(checkpoints', checkpoints'[k].parent)
                   = Continued(checkpoints, checkpoints[k].parent)
  <2>1. checkpoints'[k] = checkpoints[k] /\ checkpoints[k] \in Row
    BY <1>5 DEF LInv
  <2>2. ASSUME NEW i \in DOMAIN checkpoints[k].rows
        PROVE  (CHOOSE m \in stored' : m.id = checkpoints[k].rows[i])
                 = (CHOOSE m \in stored : m.id = checkpoints[k].rows[i])
    <3>1. PICK m \in stored : m.id = checkpoints[k].rows[i]
      BY <1>5 DEF LInv, Lineage
    <3>2. m \in stored' /\ \A n \in stored' : n.id = m.id => n = m
      BY <1>1 DEF OneContent
    <3>3. \A n \in stored : n.id = m.id => n = m
      BY <1>1, <3>2
    <3>4. QED
      BY <3>1, <3>2, <3>3
  <2>3. WithIds(stored', checkpoints[k].rows) = WithIds(stored, checkpoints[k].rows)
    <3> DEFINE Before(i) == CHOOSE m \in stored : m.id = checkpoints[k].rows[i]
               After(i) == CHOOSE m \in stored' : m.id = checkpoints[k].rows[i]
    <3>1. WithIds(stored, checkpoints[k].rows) = [i \in DOMAIN checkpoints[k].rows |-> Before(i)]
      BY DEF WithIds
    <3>2. WithIds(stored', checkpoints[k].rows) = [i \in DOMAIN checkpoints[k].rows |-> After(i)]
      BY DEF WithIds
    <3>3. \A i \in DOMAIN checkpoints[k].rows : After(i) = Before(i)
      BY <2>2
    <3> HIDE DEF Before, After
    <3>4. QED
      BY ONLY <3>1, <3>2, <3>3
  <2>4. checkpoints[k].parent \in Nat /\ checkpoints[k].parent < k
    BY <1>5, <2>1 DEF LInv, Lineage, Row
  <2>5. Continued(checkpoints', checkpoints[k].parent)
           = Continued(checkpoints, checkpoints[k].parent)
    BY <1>5, <2>4 DEF Continued
  <2>6. QED
    BY <2>1, <2>3, <2>5 DEF Added
<1>7. WithIds(stored', row.rows) = additions
      /\ Continued(checkpoints', row.parent) = checkpoints[parent].digest
  <2>1. ASSUME NEW i \in DOMAIN additions
        PROVE  (CHOOSE m \in stored' : m.id = additions[i].id) = additions[i]
    BY <1>1 DEF OneContent
  <2>2. WithIds(stored', row.rows) = [i \in DOMAIN additions |-> additions[i]]
    BY <1>3, <2>1 DEF WithIds
  <2>3. parent # 0 /\ checkpoints'[parent] = checkpoints[parent]
    BY <1>5
  <2>4. QED
    BY <1>3, <2>2, <2>3 DEF Continued
<1>8. Lineage'
  <2> SUFFICES ASSUME NEW k \in 1 .. (N + 1)
               PROVE  /\ checkpoints'[k].parent < k
                      /\ \A i \in DOMAIN checkpoints'[k].rows :
                            \E m \in stored' : m.id = checkpoints'[k].rows[i]
                      /\ checkpoints'[k].digest = Continued(checkpoints', checkpoints'[k].parent) \o WithIds(stored', checkpoints'[k].rows)
    BY <1>5 DEF Lineage, Added
  <2>1. CASE k \in 1 .. N
    <3>1. checkpoints'[k] = checkpoints[k] /\ k \in DOMAIN checkpoints
      BY <1>5, <2>1
    <3>2. /\ checkpoints[k].parent < k
          /\ \A i \in DOMAIN checkpoints[k].rows :
                \E m \in stored : m.id = checkpoints[k].rows[i]
          /\ checkpoints[k].digest = Continued(checkpoints, checkpoints[k].parent) \o Added(k)
      BY <3>1 DEF LInv, Lineage
    <3>3. QED
      BY <1>1, <1>6, <2>1, <3>1, <3>2
  <2>2. CASE k = N + 1
    <3>1. parent < k
      BY <1>5, <2>2
    <3>2. checkpoints'[k] = row
      BY <1>5, <2>2
    <3>3. \A i \in DOMAIN row.rows : \E m \in stored' : m.id = row.rows[i]
      BY <1>1, <1>3
    <3>4. QED
      BY <1>3, <1>7, <3>1, <3>2, <3>3
  <2>3. QED
    BY <1>5, <2>1, <2>2
<1>9. OneOfADigest'
  <2>1. \A k \in 1 .. N : checkpoints[k].digest # digest
    BY <1>5 DEF InsertCheckpoint, Exists
  <2>2. SUFFICES ASSUME NEW c \in 1 .. (N + 1), NEW d \in 1 .. (N + 1), c # d
                  PROVE  checkpoints'[c].digest # checkpoints'[d].digest
    BY <1>5 DEF OneOfADigest
  <2>3. c \in 1 .. N \/ c = N + 1
    BY <1>5
  <2>4. d \in 1 .. N \/ d = N + 1
    BY <1>5
  <2>5. CASE c \in 1 .. N /\ d \in 1 .. N
    BY <1>5, <2>2, <2>5 DEF LInv, OneOfADigest
  <2>6. CASE c = N + 1 \/ d = N + 1
    BY <1>3, <1>5, <2>1, <2>2, <2>3, <2>4, <2>6
  <2>7. QED
    BY <2>3, <2>4, <2>5, <2>6
<1>10. checkpoints'[1] = RootCheckpoint
  BY <1>5 DEF LInv
<1>11. QED
  BY <1>1, <1>2, <1>5, <1>8, <1>9, <1>10 DEF LInv

LEMMA RowTypes ==
    ASSUME LInv, NEW k \in DOMAIN checkpoints
    PROVE  checkpoints[k].digest \in Seq(Messages) /\ checkpoints[k].parent \in Nat
<1>1. checkpoints[k] \in Row
  BY DEF LInv
<1>2. QED
  BY <1>1 DEF Row

\* What an append inserts below the checkpoint it names.
LEMMA AppendedLineage ==
    ASSUME LInv, NEW r \in Runs, NEW expected, NEW additions \in Seq(Messages),
           AppendAt(r, expected, additions)
    PROVE  /\ expected \in DOMAIN checkpoints
           /\ checkpoints[expected].digest \o additions \in Seq(Messages)
           /\ InsertCheckpoint(expected, additions, checkpoints[expected].digest \o additions)
<1>1. expected \in DOMAIN checkpoints
  BY NoRunAssumption DEF AppendAt, OwnsHead, LInv, SInv, TypeOK, EmptyUntilCreated
<1>2. Load(expected) = checkpoints[expected].digest
  BY <1>1, LoadIsDigest
<1>3. checkpoints[expected].digest \in Seq(Messages)
  BY <1>1, RowTypes
<1>4. QED
  BY <1>1, <1>2, <1>3 DEF AppendAt

\* A list of one message.
LEMMA OneMessage ==
    ASSUME NEW m \in Messages
    PROVE  <<m>> \in Seq(Messages)
OBVIOUS

LEMMA SameSequence ==
    ASSUME NEW S, NEW s \in Seq(S), NEW t \in Seq(S), Len(s) = Len(t),
           \A i \in 1 .. Len(s) : s[i] = t[i]
    PROVE  s = t
<1>1. s \in [1 .. Len(s) -> S] /\ t \in [1 .. Len(s) -> S]
  OBVIOUS
<1>2. QED
  BY <1>1

\* A history is its beginning and the rest.
LEMMA HistoryParts ==
    ASSUME NEW S, NEW h \in Seq(S), NEW prefix \in Seq(S), StartsWith(h, prefix)
    PROVE  /\ SubSeq(h, Len(prefix) + 1, Len(h)) \in Seq(S)
           /\ h = prefix \o SubSeq(h, Len(prefix) + 1, Len(h))
<1> DEFINE p == Len(prefix)
           rest == SubSeq(h, p + 1, Len(h))
<1>1. p \in Nat /\ Len(h) \in Nat /\ p <= Len(h) /\ SubSeq(h, 1, p) = prefix
  BY DEF StartsWith
<1>2. rest \in Seq(S) /\ Len(rest) = Len(h) - p
  BY <1>1
<1>3. \A i \in 1 .. (Len(h) - p) : rest[i] = h[i + p]
  BY <1>1
<1>4. \A i \in 1 .. p : prefix[i] = h[i]
  BY <1>1
<1> HIDE DEF p, rest
<1>5. /\ prefix \o rest \in Seq(S) /\ Len(prefix \o rest) = Len(h)
      /\ \A i \in 1 .. Len(h) : (prefix \o rest)[i] = IF i <= p THEN prefix[i] ELSE rest[i - p]
  BY <1>1, <1>2 DEF p
<1>6. ASSUME NEW i \in 1 .. Len(h) PROVE (prefix \o rest)[i] = h[i]
  <2>1. CASE i <= p
    BY <1>1, <1>4, <1>5, <2>1
  <2>2. CASE ~ (i <= p)
    BY <1>1, <1>3, <1>5, <2>2
  <2>3. QED
    BY <2>1, <2>2
<1>7. h = prefix \o rest
  BY <1>5, <1>6, SameSequence
<1>8. QED
  BY <1>2, <1>7 DEF p, rest

\* What an import inserts, and below which checkpoint.
LEMMA ImportedLineage ==
    ASSUME LInv, NEW h \in Histories, ImportCheckpoint(h)
    PROVE  \E parent \in DOMAIN checkpoints, additions \in Seq(Messages) :
              /\ h \in Seq(Messages)
              /\ h = checkpoints[parent].digest \o additions
              /\ InsertCheckpoint(parent, additions, h)
<1>1. h \in Seq(Messages)
  <2>1. h \in Seq({h[i] : i \in DOMAIN h})
    BY HistoriesAssumption
  <2>2. {h[i] : i \in DOMAIN h} \subseteq Messages
    <3>1. {h[i] : i \in DOMAIN h} \subseteq Imported
      BY DEF Imported
    <3>2. QED
      BY <3>1 DEF Messages
  <2>3. QED
    BY <2>1, <2>2
<1>2. current \in DOMAIN checkpoints /\ 1 \in DOMAIN checkpoints /\ checkpoints # <<>>
  BY DEF ImportCheckpoint, LInv, SInv, TypeOK
<1>3. checkpoints[current].digest \in Seq(Messages) /\ checkpoints[1].digest = <<>>
  BY <1>2, RowTypes DEF LInv, RootCheckpoint
<1>4. Load(current) = checkpoints[current].digest
  BY <1>2, LoadIsDigest
<1> DEFINE prefix == checkpoints[current].digest
           parent == ImportParent(h)
           additions == SubSeq(h, (IF parent = current THEN Len(prefix) ELSE 0) + 1, Len(h))
<1>5. InsertCheckpoint(parent, additions, h)
  BY <1>4 DEF ImportCheckpoint
<1>6. CASE StartsWith(h, prefix)
  <2>1. parent = current
    BY <1>4, <1>6 DEF ImportParent
  <2>2. additions \in Seq(Messages) /\ h = prefix \o additions
    BY <1>1, <1>3, <1>6, <2>1, HistoryParts
  <2>3. QED
    BY <1>1, <1>2, <1>5, <2>1, <2>2
<1>7. CASE ~ StartsWith(h, prefix)
  <2>1. parent = 1
    BY <1>4, <1>7 DEF ImportParent
  <2>2. StartsWith(h, <<>>)
    BY <1>1 DEF StartsWith
  <2>3. parent # current
    BY <1>3, <1>7, <2>1, <2>2
  <2>4. additions = SubSeq(h, Len(<<>>) + 1, Len(h))
    BY <2>3
  <2>5. additions \in Seq(Messages) /\ h = <<>> \o additions
    <3>1. <<>> \in Seq(Messages)
      OBVIOUS
    <3>2. /\ SubSeq(h, Len(<<>>) + 1, Len(h)) \in Seq(Messages)
          /\ h = <<>> \o SubSeq(h, Len(<<>>) + 1, Len(h))
      BY ONLY <1>1, <2>2, <3>1, HistoryParts
    <3>3. QED
      BY ONLY <2>4, <3>2
  <2>6. QED
    BY <1>1, <1>2, <1>3, <1>5, <2>1, <2>5
<1>8. QED
  BY <1>6, <1>7

\* The first checkpoint.
LEMMA EmptyRoot ==
    ASSUME LInv, EnsureConversation, SInv'
    PROVE  LInv'
<1>1. checkpoints' = <<RootCheckpoint>> /\ stored' = stored
  BY DEF EnsureConversation
<1>2. RootCheckpoint \in Row
  <2>1. <<>> \in Seq(Messages) /\ <<>> \in Seq({m.id : m \in Messages})
    OBVIOUS
  <2>2. QED
    BY <2>1 DEF RootCheckpoint, Row
<1>3. checkpoints' \in Seq(Row) /\ DOMAIN checkpoints' = {1} /\ checkpoints'[1] = RootCheckpoint
  BY <1>1, <1>2
<1>4. WithIds(stored', <<>>) = <<>>
  BY DEF WithIds
<1>5. Lineage'
  <2>1. <<>> = <<>> \o <<>>
    OBVIOUS
  <2>2. RootCheckpoint.parent = 0 /\ RootCheckpoint.rows = <<>> /\ RootCheckpoint.digest = <<>>
    BY DEF RootCheckpoint
  <2>3. Continued(checkpoints', 0) = <<>>
    BY DEF Continued
  <2>4. checkpoints'[1].digest =
            Continued(checkpoints', checkpoints'[1].parent) \o WithIds(stored', checkpoints'[1].rows)
    BY <1>3, <1>4, <2>1, <2>2, <2>3
  <2>5. QED
    BY <1>3, <2>2, <2>4 DEF Lineage, Added
<1>6. OneOfADigest'
  BY <1>3 DEF OneOfADigest
<1>7. OneContent' /\ stored' \subseteq Messages
  BY <1>1 DEF LInv, OneContent
<1>8. QED
  BY <1>3, <1>5, <1>6, <1>7 DEF LInv

\* Every insertion of a run continues the history of a checkpoint.
LEMMA WhatIsInserted ==
    ASSUME LInv, Next
    PROVE  \/ EnsureConversation
           \/ UNCHANGED <<checkpoints, stored>>
           \/ \E parent \in DOMAIN checkpoints, additions \in Seq(Messages) :
                 \E digest \in Seq(Messages) :
                    /\ digest = checkpoints[parent].digest \o additions
                    /\ InsertCheckpoint(parent, additions, digest)
<1> DEFINE Inserted ==
        \E parent \in DOMAIN checkpoints, additions \in Seq(Messages) :
           \E digest \in Seq(Messages) :
              /\ digest = checkpoints[parent].digest \o additions
              /\ InsertCheckpoint(parent, additions, digest)
<1>1. ASSUME NEW r \in Runs, NEW expected, NEW m \in Messages, AppendAt(r, expected, <<m>>)
      PROVE  Inserted
  BY <1>1, OneMessage, AppendedLineage
<1>2. ASSUME NEW h \in Histories, ImportCheckpoint(h)
      PROVE  Inserted
  BY <1>2, ImportedLineage
<1>3. ASSUME NEW r \in Runs, NEW expected, NEW t \in Texts, ReplaceCheckpoint(r, expected, <<t>>)
      PROVE  Inserted
  <2>1. <<t>> \in Seq(Messages)
    BY DEF Messages
  <2>2. current \in DOMAIN checkpoints
    BY <1>3, NoRunAssumption DEF ReplaceCheckpoint, OwnsHead, LInv, SInv, TypeOK, EmptyUntilCreated
  <2>3. 1 \in DOMAIN checkpoints /\ checkpoints[1].digest = <<>>
    BY <2>2 DEF LInv, SInv, TypeOK, RootCheckpoint
  <2>4. <<t>> = <<>> \o <<t>>
    BY <2>1
  <2>5. QED
    BY <1>3, <2>1, <2>3, <2>4 DEF ReplaceCheckpoint
<1>4. ASSUME NEW r \in Runs, NEW c \in DOMAIN checkpoints, AppendAnswer(r, c)
      PROVE  Inserted
  <2>1. answers[r] \in 1 .. MaxAnswers
    BY <1>4, BoundsAssumption DEF AppendAnswer, Unanswered, LInv, SInv, TypeOK
  <2>2. Answer(r, answers[r]) \in Messages
    BY <2>1 DEF Messages
  <2>3. QED
    BY <1>1, <1>4, <2>2 DEF AppendAnswer
<1>5. ASSUME NEW r \in Runs, NEW c \in DOMAIN checkpoints, NEW t \in Texts,
             AppendMessageOnce(r, c, t)
      PROVE  Inserted
  <2>1. t \in Messages
    BY DEF Messages
  <2>2. QED
    BY <1>1, <1>5, <2>1 DEF AppendMessageOnce
<1>6. ASSUME NEW r \in Runs, NEW n \in 1 .. MaxAnswers, NEW c \in Calls, CommitToolResult(r, n, c)
      PROVE  Inserted
  <2>1. Result(r, n, c) \in Messages
    BY DEF Messages
  <2>2. QED
    BY <1>1, <1>6, <2>1 DEF CommitToolResult
<1> HIDE DEF Inserted
<1>7. ASSUME NEW r \in Runs, NEW c \in DOMAIN checkpoints,
             ClaimRun(r, c) \/ \E calls \in SUBSET Calls : CreateToolRound(r, c, calls)
      PROVE  UNCHANGED <<checkpoints, stored>>
  BY <1>7 DEF ClaimRun, CreateToolRound
<1>8. ASSUME NEW r \in Runs,
             \/ BeginProviderCall(r) \/ StartModelCall(r)
             \/ \E s \in {"completed", "cancelled", "error"} : FinishModelCall(r, s)
             \/ \E s \in Terminal : FinishRun(r, s)
      PROVE  UNCHANGED <<checkpoints, stored>>
  BY <1>8 DEF BeginProviderCall, StartModelCall, FinishModelCall, FinishRun
<1>9. EnsureConversation \/ UNCHANGED <<checkpoints, stored>> \/ Inserted
  <2>1. CASE \E r \in Runs, c \in DOMAIN checkpoints :
                \/ ClaimRun(r, c)
                \/ AppendAnswer(r, c)
                \/ \E t \in Texts : AppendMessageOnce(r, c, t) \/ ReplaceCheckpoint(r, c, <<t>>)
                \/ \E calls \in SUBSET Calls : CreateToolRound(r, c, calls)
    BY <1>3, <1>4, <1>5, <1>7, <2>1
  <2>2. CASE \E r \in Runs :
                \/ BeginProviderCall(r)
                \/ StartModelCall(r)
                \/ \E s \in {"completed", "cancelled", "error"} : FinishModelCall(r, s)
                \/ \E s \in Terminal : FinishRun(r, s)
                \/ \E n \in 1 .. MaxAnswers, c \in Calls : CommitToolResult(r, n, c)
    BY <1>6, <1>8, <2>2
  <2>3. QED
    BY <1>2, <2>1, <2>2 DEF Next
<1>10. QED
  BY <1>9 DEF Inserted

LEMMA LStepInv == LInv /\ [Next]_vars => LInv'
<1> SUFFICES ASSUME LInv, [Next]_vars PROVE LInv'
  OBVIOUS
<1>1. SInv'
  BY SStepInv DEF LInv
<1>2. CASE UNCHANGED <<checkpoints, stored>>
  BY <1>1, <1>2 DEF LInv, OneContent, Lineage, OneOfADigest, Added
<1>3. CASE EnsureConversation
  BY <1>1, <1>3, EmptyRoot
<1>4. CASE Next
  BY <1>1, <1>2, <1>3, <1>4, WhatIsInserted, InsertedLineage
<1>5. QED
  BY <1>2, <1>4 DEF vars

LEMMA LInitInv == Init => LInv
<1> SUFFICES ASSUME Init PROVE LInv
  OBVIOUS
<1>1. checkpoints = <<>> /\ stored = {} /\ DOMAIN checkpoints = {} /\ checkpoints \in Seq(Row)
  BY DEF Init
<1>2. SInv
  BY SInitInv
<1>3. QED
  BY <1>1, <1>2 DEF LInv, OneContent, Lineage, OneOfADigest

LEMMA LInvariant == Spec => []LInv
<1>1. QED
  BY LInitInv, LStepInv, PTL DEF Spec

\* The digest of every checkpoint is that of the history that the recursive
\* query over its lineage reads back, and no two checkpoints share one.
THEOREM LineagesAreTheirDigests == Spec => []LineageIsDigest
<1>1. LInv => LineageIsDigest
  <2> SUFFICES ASSUME LInv PROVE LineageIsDigest
    OBVIOUS
  <2>1. \A c \in DOMAIN checkpoints : Load(c) = checkpoints[c].digest
    BY LoadIsDigest
  <2>2. QED
    BY <2>1 DEF LineageIsDigest, LInv, OneOfADigest
<1>2. QED
  BY <1>1, LInvariant, PTL

-----------------------------------------------------------------------------
(* No message twice.                                                        *)

OnceIn(history) ==
    \A i, j \in DOMAIN history : history[i].id = history[j].id => i = j

\* What clients send: a history has no message twice, and neither a history
\* nor a text holds a result that a run of the model has still to commit.
ClientsSendOnce ==
    /\ \A h \in Histories : OnceIn(h)
    /\ \A m \in Imported \cup Texts :
          \A r \in Runs, n \in 1 .. MaxAnswers, c \in Calls : m # Result(r, n, c)

\* What a history holds is in the messages table.
DigestsAreStored ==
    \A k \in DOMAIN checkpoints :
        \A i \in DOMAIN checkpoints[k].digest : checkpoints[k].digest[i] \in stored

\* A result is stored when its call is completed, and not before.
ResultsAreCommitted ==
    \A r \in Runs, n \in 1 .. MaxAnswers, c \in Calls :
        Result(r, n, c) \in stored =>
            rounds[r][n].status # "none" /\ c \notin rounds[r][n].pending

NInv == LInv /\ NoMessageTwice /\ DigestsAreStored /\ ResultsAreCommitted

\* Answers and results of different calls are different messages.
LEMMA OwnMessages ==
    ASSUME NEW r \in Runs, NEW n \in 1 .. MaxAnswers, NEW c \in Calls
    PROVE  /\ \A q \in Runs, m \in 1 .. MaxAnswers : Answer(q, m) # Result(r, n, c)
           /\ \A q \in Runs, m \in 1 .. MaxAnswers, d \in Calls :
                 Result(q, m, d) = Result(r, n, c) => q = r /\ m = n /\ d = c
<1>1. \A q, m : Answer(q, m).body = "answer"
  BY DEF Answer
<1>2. \A q, m, d : Result(q, m, d).body = "result" /\ Result(q, m, d).id = <<q, m, d>>
  BY DEF Result
<1>3. \A q, m : Answer(q, m) # Result(r, n, c)
  BY <1>1, <1>2
<1>4. \A q, m, d : Result(q, m, d) = Result(r, n, c) => <<q, m, d>> = <<r, n, c>>
  BY <1>2
<1>5. QED
  BY <1>3, <1>4

\* A message is not in a history that lacks its id.
LEMMA OneMore ==
    ASSUME NEW history \in Seq(Messages), OnceIn(history), NEW m \in Messages,
           \A i \in DOMAIN history : history[i].id # m.id
    PROVE  OnceIn(history \o <<m>>)
<1> DEFINE longer == history \o <<m>>
<1>1. /\ Len(history) \in Nat /\ DOMAIN history = 1 .. Len(history)
      /\ DOMAIN longer = 1 .. (Len(history) + 1)
      /\ \A i \in DOMAIN history : longer[i] = history[i]
      /\ longer[Len(history) + 1] = m
  OBVIOUS
<1> HIDE DEF longer
<1>2. \A i \in DOMAIN longer : i \in DOMAIN history \/ i = Len(history) + 1
  BY <1>1
<1>3. OnceIn(longer)
  BY <1>1, <1>2 DEF OnceIn
<1>4. QED
  BY <1>3 DEF longer

\* An insertion of a history without repetitions.
LEMMA InsertedOnce ==
    ASSUME NInv, NEW parent \in DOMAIN checkpoints, NEW additions \in Seq(Messages),
           NEW digest \in Seq(Messages), digest = checkpoints[parent].digest \o additions,
           InsertCheckpoint(parent, additions, digest), OnceIn(digest)
    PROVE  /\ NoMessageTwice' /\ DigestsAreStored'
           /\ \A m \in stored' : m \in stored \/ \E i \in DOMAIN additions : m = additions[i]
<1> DEFINE N == Len(checkpoints)
           row == [parent |-> parent,
                   rows |-> [i \in DOMAIN additions |-> additions[i].id],
                   digest |-> digest]
           first == checkpoints[parent].digest
<1>1. /\ stored \subseteq stored'
      /\ \A i \in DOMAIN additions : additions[i] \in stored'
      /\ \A m \in stored' : m \in stored \/ \E i \in DOMAIN additions : m = additions[i]
  BY StoredAfter DEF NInv, LInv
<1>2. checkpoints' = Append(checkpoints, row) /\ row.digest = digest
  BY DEF InsertCheckpoint
<1> HIDE DEF row
<1>3. /\ N \in Nat /\ DOMAIN checkpoints = 1 .. N /\ DOMAIN checkpoints' = 1 .. (N + 1)
      /\ \A k \in 1 .. N : checkpoints'[k] = checkpoints[k]
      /\ checkpoints'[N + 1] = row
  BY <1>2 DEF NInv, LInv
<1> HIDE DEF N
<1>4. \A k \in DOMAIN checkpoints' :
         \/ k \in DOMAIN checkpoints /\ checkpoints'[k].digest = checkpoints[k].digest
         \/ checkpoints'[k].digest = digest
  BY <1>2, <1>3
<1>5. NoMessageTwice'
  <2>1. \A k \in DOMAIN checkpoints' : OnceIn(checkpoints'[k].digest)
    BY <1>4 DEF NInv, NoMessageTwice, OnceIn
  <2>2. QED
    BY <2>1 DEF NoMessageTwice, OnceIn
<1>6. \A i \in DOMAIN digest : digest[i] \in stored'
  <2>1. first \in Seq(Messages)
    BY RowTypes DEF NInv
  <2>2. \A i \in DOMAIN first : first[i] \in stored
    BY DEF NInv, DigestsAreStored
  <2> HIDE DEF first
  <2>3. \A i \in DOMAIN (first \o additions) :
           \/ i \in DOMAIN first /\ (first \o additions)[i] = first[i]
           \/ \E j \in DOMAIN additions : (first \o additions)[i] = additions[j]
    <3> SUFFICES ASSUME NEW i \in DOMAIN (first \o additions)
                 PROVE  \/ i \in DOMAIN first /\ (first \o additions)[i] = first[i]
                        \/ \E j \in DOMAIN additions : (first \o additions)[i] = additions[j]
      OBVIOUS
    <3>1. i \in Nat /\ 1 <= i /\ i <= Len(first) + Len(additions)
      BY <2>1
    <3>2. CASE i <= Len(first)
      BY <2>1, <3>1, <3>2
    <3>3. CASE ~ (i <= Len(first))
      <4>1. i - Len(first) \in DOMAIN additions
        BY <2>1, <3>1, <3>3
      <4>2. (first \o additions)[i] = additions[i - Len(first)]
        BY <2>1, <3>1, <3>3
      <4>3. QED
        BY <4>1, <4>2
    <3>4. QED
      BY <3>2, <3>3
  <2>4. QED
    BY <1>1, <2>2, <2>3 DEF first
<1>7. DigestsAreStored'
  BY <1>1, <1>4, <1>6 DEF NInv, DigestsAreStored
<1>8. QED
  BY <1>1, <1>5, <1>7

\* An append of a message that is new, or whose id the history does not have.
LEMMA AppendedOnce ==
    ASSUME NInv, NEW r \in Runs, NEW expected, NEW m \in Messages,
           AppendAt(r, expected, <<m>>),
           m \notin stored \/ m.id \notin Ids(Load(expected))
    PROVE  NoMessageTwice' /\ DigestsAreStored' /\ stored' \subseteq stored \cup {m}
<1> DEFINE digest == checkpoints[expected].digest
<1>1. /\ <<m>> \in Seq(Messages) /\ expected \in DOMAIN checkpoints
      /\ digest \o <<m>> \in Seq(Messages)
      /\ InsertCheckpoint(expected, <<m>>, digest \o <<m>>)
  BY OneMessage, AppendedLineage DEF NInv
<1>2. digest \in Seq(Messages) /\ OnceIn(digest)
  BY <1>1, RowTypes DEF NInv, NoMessageTwice, OnceIn
<1>3. \A i \in DOMAIN digest : digest[i].id # m.id
  <2>1. CASE m \notin stored
    <3>1. \A n \in stored : n.id # m.id
      <4>1. Storable(<<m>>)
        BY <1>1 DEF InsertCheckpoint
      <4>2. 1 \in DOMAIN <<m>> /\ <<m>>[1] = m
        OBVIOUS
      <4>3. QED
        BY <2>1, <4>1, <4>2 DEF Storable
    <3>2. \A i \in DOMAIN digest : digest[i] \in stored
      BY <1>1 DEF NInv, DigestsAreStored
    <3>3. QED
      BY <3>1, <3>2
  <2>2. CASE m.id \notin Ids(Load(expected))
    <3>1. Load(expected) = digest
      BY <1>1, LoadIsDigest DEF NInv
    <3>2. QED
      BY <2>2, <3>1 DEF Ids
  <2>3. QED
    BY <2>1, <2>2
<1>4. OnceIn(digest \o <<m>>)
  BY <1>2, <1>3, OneMore
<1>5. /\ NoMessageTwice' /\ DigestsAreStored'
      /\ \A n \in stored' : n \in stored \/ \E i \in DOMAIN <<m>> : n = <<m>>[i]
  BY <1>1, <1>4, InsertedOnce
<1>6. QED
  BY <1>5

\* The messages that are no results.
LEMMA NotResults ==
    ASSUME ClientsSendOnce, NEW r \in Runs, NEW n \in 1 .. MaxAnswers, NEW c \in Calls
    PROVE  \A m \in Imported \cup Texts \cup {Answer(q, k) : q \in Runs, k \in 1 .. MaxAnswers} :
              m # Result(r, n, c)
BY OwnMessages DEF ClientsSendOnce

\* What is inserted is no result: the rounds say the same of the results.
LEMMA NoResultStored ==
    ASSUME NInv, UNCHANGED rounds,
           \A m \in stored' : m \in stored \/ \A r \in Runs, n \in 1 .. MaxAnswers, c \in Calls :
                                                m # Result(r, n, c)
    PROVE  ResultsAreCommitted'
BY DEF NInv, ResultsAreCommitted

LEMMA NStepInv == ClientsSendOnce /\ NInv /\ [Next]_vars => NInv'
<1> SUFFICES ASSUME ClientsSendOnce, NInv, [Next]_vars PROVE NInv'
  OBVIOUS
<1>0. LInv' /\ TypeOK
  BY LStepInv DEF NInv, LInv, SInv
<1>1. ASSUME UNCHANGED <<checkpoints, stored, rounds>> PROVE NInv'
  BY <1>0, <1>1 DEF NInv, NoMessageTwice, DigestsAreStored, ResultsAreCommitted
<1>2. CASE EnsureConversation
  <2>1. checkpoints' = <<RootCheckpoint>> /\ UNCHANGED <<stored, rounds>>
    BY <1>2 DEF EnsureConversation
  <2>2. DOMAIN checkpoints' = {1} /\ DOMAIN checkpoints'[1].digest = {}
    BY <2>1 DEF RootCheckpoint
  <2>3. QED
    BY <1>0, <2>1, <2>2 DEF NInv, NoMessageTwice, DigestsAreStored, ResultsAreCommitted
<1>3. ASSUME NEW h \in Histories, ImportCheckpoint(h) PROVE NInv'
  <2>1. PICK parent \in DOMAIN checkpoints, additions \in Seq(Messages) :
              /\ h \in Seq(Messages)
              /\ h = checkpoints[parent].digest \o additions
              /\ InsertCheckpoint(parent, additions, h)
    BY <1>3, ImportedLineage DEF NInv
  <2>2. OnceIn(h)
    BY DEF ClientsSendOnce
  <2>3. /\ NoMessageTwice' /\ DigestsAreStored'
        /\ \A m \in stored' : m \in stored \/ \E i \in DOMAIN additions : m = additions[i]
    BY <2>1, <2>2, InsertedOnce
  <2>4. \A i \in DOMAIN additions : additions[i] \in Imported
    <3> SUFFICES ASSUME NEW i \in DOMAIN additions PROVE additions[i] \in Imported
      OBVIOUS
    <3> DEFINE before == checkpoints[parent].digest
    <3>1. before \in Seq(Messages)
      BY RowTypes DEF NInv
    <3>2. Len(before) + i \in DOMAIN (before \o additions)
          /\ (before \o additions)[Len(before) + i] = additions[i]
      BY <3>1
    <3>3. \E j \in DOMAIN h : h[j] = additions[i]
      BY <2>1, <3>2
    <3>4. QED
      BY <3>3 DEF Imported
  <2>5. ResultsAreCommitted'
    BY <1>3, <2>3, <2>4, NoResultStored DEF ImportCheckpoint, ClientsSendOnce
  <2>6. QED
    BY <1>0, <2>3, <2>5 DEF NInv
<1>4. ASSUME NEW r \in Runs, NEW c \in DOMAIN checkpoints, AppendAnswer(r, c) PROVE NInv'
  <2>1. answers[r] \in 1 .. MaxAnswers
    BY <1>0, <1>4, BoundsAssumption DEF AppendAnswer, Unanswered, TypeOK
  <2>2. Answer(r, answers[r]) \in Messages
    BY <2>1 DEF Messages
  <2>3. NoMessageTwice' /\ DigestsAreStored' /\ stored' \subseteq stored \cup {Answer(r, answers[r])}
    BY <1>4, <2>2, AppendedOnce DEF AppendAnswer, Unanswered
  <2>4. ResultsAreCommitted'
    BY <1>4, <2>1, <2>3, NoResultStored, OwnMessages DEF AppendAnswer
  <2>5. QED
    BY <1>0, <2>3, <2>4 DEF NInv
<1>5. ASSUME NEW r \in Runs, NEW c \in DOMAIN checkpoints, NEW t \in Texts,
             AppendMessageOnce(r, c, t)
      PROVE  NInv'
  <2>1. t \in Messages
    BY DEF Messages
  <2>2. NoMessageTwice' /\ DigestsAreStored' /\ stored' \subseteq stored \cup {t}
    BY <1>5, <2>1, AppendedOnce DEF AppendMessageOnce, AlreadyThere
  <2>3. ResultsAreCommitted'
    BY <1>5, <2>2, NoResultStored DEF AppendMessageOnce, ClientsSendOnce
  <2>4. QED
    BY <1>0, <2>2, <2>3 DEF NInv
<1>6. ASSUME NEW r \in Runs, NEW c \in DOMAIN checkpoints, NEW t \in Texts,
             ReplaceCheckpoint(r, c, <<t>>)
      PROVE  NInv'
  <2>1. <<t>> \in Seq(Messages) /\ DOMAIN <<t>> = {1} /\ <<t>>[1] = t /\ <<t>> = <<>> \o <<t>>
    BY DEF Messages
  <2>2. 1 \in DOMAIN checkpoints /\ checkpoints[1].digest = <<>>
    <3>1. current \in DOMAIN checkpoints
      BY <1>6, NoRunAssumption
         DEF ReplaceCheckpoint, OwnsHead, NInv, LInv, SInv, TypeOK, EmptyUntilCreated
    <3>2. QED
      BY <3>1 DEF NInv, LInv, SInv, TypeOK, RootCheckpoint
  <2>3. OnceIn(<<t>>)
    BY <2>1 DEF OnceIn
  <2>4. /\ NoMessageTwice' /\ DigestsAreStored'
        /\ \A m \in stored' : m \in stored \/ \E i \in DOMAIN <<t>> : m = <<t>>[i]
    BY <1>6, <2>1, <2>2, <2>3, InsertedOnce DEF ReplaceCheckpoint
  <2>5. ResultsAreCommitted'
    BY <1>6, <2>1, <2>4, NoResultStored DEF ReplaceCheckpoint, ClientsSendOnce
  <2>6. QED
    BY <1>0, <2>4, <2>5 DEF NInv
<1>7. ASSUME NEW r \in Runs, NEW c \in DOMAIN checkpoints, NEW calls \in SUBSET Calls,
             CreateToolRound(r, c, calls)
      PROVE  NInv'
  <2> DEFINE round == [status |-> "pending", pending |-> calls, completed |-> <<>>]
  <2>1. /\ UNCHANGED <<checkpoints, stored>> /\ rounds[r][answers[r]].status = "none"
        /\ rounds' = [rounds EXCEPT ![r][answers[r]] = round]
    BY <1>7 DEF CreateToolRound, Unanswered
  <2> HIDE DEF round
  <2>2. ResultsAreCommitted'
    <3> SUFFICES ASSUME NEW q \in Runs, NEW n \in 1 .. MaxAnswers, NEW d \in Calls,
                        Result(q, n, d) \in stored
                 PROVE  rounds'[q][n].status # "none" /\ d \notin rounds'[q][n].pending
      BY <2>1 DEF ResultsAreCommitted
    <3>1. rounds[q][n].status # "none" /\ d \notin rounds[q][n].pending
      BY DEF NInv, ResultsAreCommitted
    <3>2. rounds \in [Runs -> [1 .. MaxAnswers -> Round]]
      BY <1>0 DEF TypeOK
    <3>3. rounds'[q][n] = rounds[q][n]
      BY <2>1, <3>1, <3>2
    <3>4. QED
      BY <3>1, <3>3
  <2>3. QED
    BY <1>0, <2>1, <2>2 DEF NInv, NoMessageTwice, DigestsAreStored
<1>8. ASSUME NEW r \in Runs, NEW n \in 1 .. MaxAnswers, NEW c \in Calls,
             CommitToolResult(r, n, c)
      PROVE  NInv'
  <2> DEFINE m == Result(r, n, c)
             round == RoundAfter(rounds[r][n], c)
  <2>1. /\ c \in rounds[r][n].pending /\ AppendAt(r, head[r], <<m>>)
        /\ rounds' = [rounds EXCEPT ![r][n] = round]
    BY <1>8 DEF CommitToolResult
  <2>2. m \in Messages
    BY DEF Messages
  <2>3. m \notin stored
    BY <2>1 DEF NInv, ResultsAreCommitted
  <2>4. round.status # "none" /\ round.pending = rounds[r][n].pending \ {c}
    BY DEF RoundAfter
  <2> HIDE DEF m, round
  <2>5. NoMessageTwice' /\ DigestsAreStored' /\ stored' \subseteq stored \cup {m}
    BY <2>1, <2>2, <2>3, AppendedOnce
  <2>6. ResultsAreCommitted'
    <3> SUFFICES ASSUME NEW q \in Runs, NEW k \in 1 .. MaxAnswers, NEW d \in Calls,
                        Result(q, k, d) \in stored'
                 PROVE  rounds'[q][k].status # "none" /\ d \notin rounds'[q][k].pending
      BY DEF ResultsAreCommitted
    <3>1. rounds \in [Runs -> [1 .. MaxAnswers -> Round]]
      BY <1>0 DEF TypeOK
    <3>2. rounds'[r][n] = round
      BY <2>1, <3>1
    <3>3. CASE Result(q, k, d) \in stored
      <4>1. rounds[q][k].status # "none" /\ d \notin rounds[q][k].pending
        BY <3>3 DEF NInv, ResultsAreCommitted
      <4>2. CASE q = r /\ k = n
        BY <2>4, <3>2, <4>1, <4>2
      <4>3. CASE ~ (q = r /\ k = n)
        BY <2>1, <3>1, <4>1, <4>3
      <4>4. QED
        BY <4>2, <4>3
    <3>4. CASE Result(q, k, d) = m
      <4>1. q = r /\ k = n /\ d = c
        BY <3>4, OwnMessages DEF m
      <4>2. QED
        BY <2>4, <3>2, <4>1
    <3>5. QED
      BY <2>5, <3>3, <3>4
  <2>7. QED
    BY <1>0, <2>5, <2>6 DEF NInv
<1>9. ASSUME NEW r \in Runs, NEW c \in DOMAIN checkpoints, ClaimRun(r, c) PROVE NInv'
  BY <1>1, <1>9 DEF ClaimRun
<1>10. ASSUME NEW r \in Runs,
              \/ BeginProviderCall(r) \/ StartModelCall(r)
              \/ \E s \in {"completed", "cancelled", "error"} : FinishModelCall(r, s)
              \/ \E s \in Terminal : FinishRun(r, s)
       PROVE  NInv'
  BY <1>1, <1>10 DEF BeginProviderCall, StartModelCall, FinishModelCall, FinishRun
<1>11. CASE UNCHANGED vars
  BY <1>1, <1>11 DEF vars
<1>12. QED
  BY <1>2, <1>3, <1>4, <1>5, <1>6, <1>7, <1>8, <1>9, <1>10, <1>11 DEF Next

\* If clients send no message twice and no result of a run that is going on,
\* no history of the tree holds a message twice.
THEOREM NoMessageTwiceTheorem == ClientsSendOnce /\ Spec => []NoMessageTwice
<1>1. Init => NInv
  <2> SUFFICES ASSUME Init PROVE NInv
    OBVIOUS
  <2>1. checkpoints = <<>> /\ stored = {} /\ DOMAIN checkpoints = {}
    BY DEF Init
  <2>2. QED
    BY <2>1, LInitInv DEF NInv, NoMessageTwice, DigestsAreStored, ResultsAreCommitted
<1>2. NInv => NoMessageTwice
  BY DEF NInv
<1>3. QED
  <2> SUFFICES ASSUME ClientsSendOnce PROVE Spec => []NoMessageTwice
    OBVIOUS
  <2>1. NInv /\ [Next]_vars => NInv'
    BY NStepInv
  <2>2. QED
    BY <1>1, <1>2, <2>1, PTL DEF Spec

-----------------------------------------------------------------------------
(* Tool rounds and histories.                                               *)

\* Where a history holds a result.
Places(history, r, n, c) == {i \in DOMAIN history : history[i] = Result(r, n, c)}

\* A history and a round of a run agree.
Matches(history, r, n, round) ==
    /\ \/ \A c \in Calls : Places(history, r, n, c) # {} <=>
                              \E k \in DOMAIN round.completed : round.completed[k] = c
       \/ round.status = "settled" /\ \A c \in Calls : Places(history, r, n, c) = {}
    /\ \A j, k \in DOMAIN round.completed : j < k =>
          \A x \in Places(history, r, n, round.completed[j]),
             y \in Places(history, r, n, round.completed[k]) : x < y

\* A call is pending or completed, and a round is settled by its last call.
WellFormed(round) ==
    /\ round.status = "none" => round.pending = {} /\ round.completed = <<>>
    /\ round.status = "settled" <=> round.pending = {} /\ round.completed # <<>>
    /\ \A k \in DOMAIN round.completed : round.completed[k] \notin round.pending

RoundsAreWellFormed ==
    /\ \A r \in Runs : \A n \in 1 .. MaxAnswers : WellFormed(rounds[r][n])
    /\ \A r \in Runs : status[r] = "absent" =>
          \A n \in 1 .. MaxAnswers : rounds[r][n].status = "none"

HistoriesMatch ==
    \A r \in Runs : \A n \in 1 .. MaxAnswers :
        Matches(Continued(checkpoints, head[r]), r, n, rounds[r][n])

RInv == NInv /\ RoundsAreWellFormed /\ HistoriesMatch

\* A history that is longer by a message.
LEMMA OneMorePlace ==
    ASSUME NEW history \in Seq(Messages), NEW m \in Messages, NEW r, NEW n, NEW c
    PROVE  Places(history \o <<m>>, r, n, c) = Places(history, r, n, c)
              \cup (IF m = Result(r, n, c) THEN {Len(history) + 1} ELSE {})
<1> DEFINE longer == history \o <<m>>
<1>1. /\ Len(history) \in Nat /\ DOMAIN history = 1 .. Len(history)
      /\ DOMAIN longer = 1 .. (Len(history) + 1)
      /\ \A i \in DOMAIN history : longer[i] = history[i]
      /\ longer[Len(history) + 1] = m
  OBVIOUS
<1> HIDE DEF longer
<1>2. Places(longer, r, n, c) = Places(history, r, n, c)
              \cup (IF m = Result(r, n, c) THEN {Len(history) + 1} ELSE {})
  BY <1>1 DEF Places
<1>3. QED
  BY <1>2 DEF longer

\* What an insertion leaves of the other histories, and what it adds.
LEMMA HistoriesAfter ==
    ASSUME LInv, NEW parent, NEW additions, NEW digest,
           InsertCheckpoint(parent, additions, digest)
    PROVE  /\ \A h \in 0 .. Len(checkpoints) :
                 Continued(checkpoints', h) = Continued(checkpoints, h)
           /\ Continued(checkpoints', NewCheckpoint) = digest
           /\ Len(checkpoints) \in Nat
<1> DEFINE row == [parent |-> parent,
                   rows |-> [i \in DOMAIN additions |-> additions[i].id],
                   digest |-> digest]
<1>1. checkpoints' = Append(checkpoints, row) /\ row.digest = digest
  BY DEF InsertCheckpoint
<1> HIDE DEF row
<1>2. /\ Len(checkpoints) \in Nat
      /\ \A k \in 1 .. Len(checkpoints) : checkpoints'[k] = checkpoints[k]
      /\ checkpoints'[Len(checkpoints) + 1] = row
  BY <1>1 DEF LInv
<1>3. \A h \in 0 .. Len(checkpoints) : h = 0 \/ h \in 1 .. Len(checkpoints)
  BY <1>2
<1>4. QED
  BY <1>1, <1>2, <1>3 DEF Continued, NewCheckpoint

\* The owner's history grows by a message that is no result.
LEMMA NoResultMatches ==
    ASSUME NEW history \in Seq(Messages), NEW m \in Messages, NEW r, NEW n, NEW round,
           \A c \in Calls : m # Result(r, n, c),
           round.completed \in Seq(Calls),
           Matches(history, r, n, round)
    PROVE  Matches(history \o <<m>>, r, n, round)
<1>1. \A c \in Calls : Places(history \o <<m>>, r, n, c) = Places(history, r, n, c)
  <2> SUFFICES ASSUME NEW c \in Calls
               PROVE  Places(history \o <<m>>, r, n, c) = Places(history, r, n, c)
    OBVIOUS
  <2>1. m # Result(r, n, c)
    OBVIOUS
  <2>2. Places(history \o <<m>>, r, n, c) = Places(history, r, n, c)
              \cup (IF m = Result(r, n, c) THEN {Len(history) + 1} ELSE {})
    BY OneMorePlace
  <2>3. QED
    BY ONLY <2>1, <2>2
<1>2. \A k \in DOMAIN round.completed : round.completed[k] \in Calls
  OBVIOUS
<1>3. QED
  BY <1>1, <1>2 DEF Matches

\* The owner's history grows by the result of a call that was pending.
LEMMA ResultMatches ==
    ASSUME NEW history \in Seq(Messages), NEW r, NEW n, NEW c \in Calls, NEW round \in Round,
           Result(r, n, c) \in Messages, round.status = "pending", c \in round.pending,
           WellFormed(round), Matches(history, r, n, round),
           \A d \in Calls : Result(r, n, d) = Result(r, n, c) => d = c
    PROVE  Matches(history \o <<Result(r, n, c)>>, r, n, RoundAfter(round, c))
<1> DEFINE m == Result(r, n, c)
           longer == history \o <<m>>
           after == RoundAfter(round, c)
           done == round.completed
<1>1. done \in Seq(Calls) /\ \A k \in DOMAIN done : done[k] \in Calls /\ done[k] # c
  BY DEF Round, WellFormed
<1>2. after.completed = Append(done, c)
  BY DEF RoundAfter
<1>3. /\ Len(done) \in Nat /\ DOMAIN after.completed = 1 .. (Len(done) + 1)
      /\ DOMAIN done = 1 .. Len(done)
      /\ \A k \in DOMAIN done : after.completed[k] = done[k]
      /\ after.completed[Len(done) + 1] = c
  BY <1>1, <1>2
<1>4. ASSUME NEW d \in Calls, d # c
      PROVE  Places(longer, r, n, d) = Places(history, r, n, d)
  <2>1. m # Result(r, n, d)
    BY <1>4
  <2>2. Places(longer, r, n, d) = Places(history, r, n, d)
              \cup (IF m = Result(r, n, d) THEN {Len(history) + 1} ELSE {})
    BY OneMorePlace
  <2>3. QED
    BY ONLY <2>1, <2>2
<1>5. \A d \in Calls : Places(history, r, n, d) # {} <=> \E k \in DOMAIN done : done[k] = d
  BY DEF Matches
<1>6. Places(history, r, n, c) = {}
  BY <1>1, <1>5
<1>7. Places(longer, r, n, c) = {Len(history) + 1}
  BY <1>6, OneMorePlace
<1>8. \A d \in Calls : \A x \in Places(history, r, n, d) : x \in Nat /\ x < Len(history) + 1
  BY DEF Places
<1> HIDE DEF longer, after, m
<1>9. \A d \in Calls : Places(longer, r, n, d) # {} <=>
                          \E k \in DOMAIN after.completed : after.completed[k] = d
  <2> SUFFICES ASSUME NEW d \in Calls
               PROVE  Places(longer, r, n, d) # {} <=>
                          \E k \in DOMAIN after.completed : after.completed[k] = d
    OBVIOUS
  <2>1. CASE d = c
    <3>1. Len(done) + 1 \in DOMAIN after.completed /\ after.completed[Len(done) + 1] = d
      BY <1>3, <2>1
    <3>2. QED
      BY <1>7, <2>1, <3>1
  <2>2. CASE d # c
    BY <1>3, <1>4, <1>5, <2>2
  <2>3. QED
    BY <2>1, <2>2
<1>10. ASSUME NEW j \in DOMAIN after.completed, NEW k \in DOMAIN after.completed, j < k,
              NEW x \in Places(longer, r, n, after.completed[j]),
              NEW y \in Places(longer, r, n, after.completed[k])
       PROVE  x < y
  <2>1. j \in DOMAIN done /\ after.completed[j] = done[j]
    BY <1>3, <1>10
  <2>2. x \in Places(history, r, n, done[j])
    BY <1>1, <1>4, <2>1
  <2>3. CASE k \in DOMAIN done
    <3>1. y \in Places(history, r, n, done[k])
      BY <1>1, <1>3, <1>4, <2>3
    <3>2. QED
      BY <1>10, <2>1, <2>2, <2>3, <3>1 DEF Matches
  <2>4. CASE k = Len(done) + 1
    BY <1>1, <1>3, <1>7, <1>8, <2>1, <2>2, <2>4
  <2>5. QED
    BY <1>3, <2>3, <2>4
<1>11. QED
  BY <1>9, <1>10 DEF Matches, longer, after, m

\* The round after a result.
LEMMA RoundAfterWellFormed ==
    ASSUME NEW round \in Round, NEW c \in round.pending, WellFormed(round)
    PROVE  WellFormed(RoundAfter(round, c)) /\ RoundAfter(round, c).status # "none"
<1> DEFINE after == RoundAfter(round, c)
<1>1. /\ after.status = IF after.pending = {} THEN "settled" ELSE "pending"
      /\ after.pending = round.pending \ {c} /\ after.completed = Append(round.completed, c)
  BY DEF RoundAfter
<1>2. /\ after.completed # <<>>
      /\ \A k \in DOMAIN after.completed :
            after.completed[k] = c \/ \E j \in DOMAIN round.completed : after.completed[k] = round.completed[j]
  BY <1>1 DEF Round
<1> HIDE DEF after
<1>3. WellFormed(after) /\ after.status # "none"
  BY <1>1, <1>2 DEF WellFormed
<1>4. QED
  BY <1>3 DEF after

\* The round and the history of a run, and where its head is.
LEMMA RoundTypes ==
    ASSUME RInv, NEW r \in Runs, NEW n \in 1 .. MaxAnswers
    PROVE  /\ rounds[r][n] \in Round /\ WellFormed(rounds[r][n])
           /\ Continued(checkpoints, head[r]) \in Seq(Messages)
           /\ Matches(Continued(checkpoints, head[r]), r, n, rounds[r][n])
           /\ head[r] \in 0 .. Len(checkpoints) /\ Len(checkpoints) \in Nat
<1>1. TypeOK /\ LInv
  BY DEF RInv, NInv, LInv, SInv
<1>2. rounds[r] \in [1 .. MaxAnswers -> Round]
  BY <1>1, Zenon DEF TypeOK
<1>3. head[r] \in 0 .. Len(checkpoints) /\ Len(checkpoints) \in Nat
  BY <1>1 DEF TypeOK, LInv
<1>4. Continued(checkpoints, head[r]) \in Seq(Messages)
  <2>1. CASE head[r] = 0
    BY <2>1 DEF Continued
  <2>2. CASE head[r] # 0
    <3>1. head[r] \in DOMAIN checkpoints
      BY <1>1, <1>3, <2>2 DEF TypeOK
    <3>2. QED
      BY <1>1, <2>2, <3>1, RowTypes DEF Continued
  <2>3. QED
    BY <2>1, <2>2
<1>5. WellFormed(rounds[r][n]) /\ Matches(Continued(checkpoints, head[r]), r, n, rounds[r][n])
  BY DEF RInv, RoundsAreWellFormed, HistoriesMatch
<1>6. QED
  BY <1>2, <1>3, <1>4, <1>5

\* What an append does to the histories of the runs.
LEMMA AppendedHistories ==
    ASSUME RInv, NEW r \in Runs, NEW expected, NEW m \in Messages,
           AppendAt(r, expected, <<m>>)
    PROVE  /\ Continued(checkpoints', head'[r]) = Continued(checkpoints, head[r]) \o <<m>>
           /\ \A q \in Runs : q # r =>
                 Continued(checkpoints', head'[q]) = Continued(checkpoints, head[q])
           /\ active = r /\ status[r] = "running"
<1>1. LInv /\ TypeOK /\ OneOwner /\ OwnerAtHead
  BY DEF RInv, NInv, LInv, SInv
<1>2. /\ <<m>> \in Seq(Messages) /\ expected \in DOMAIN checkpoints
      /\ InsertCheckpoint(expected, <<m>>, checkpoints[expected].digest \o <<m>>)
  BY <1>1, OneMessage, AppendedLineage
<1>3. active = r /\ status[r] = "running" /\ head[r] = expected
  BY <1>1, NoRunAssumption DEF AppendAt, OwnsHead, OneOwner, OwnerAtHead
<1>4. head' = [head EXCEPT ![r] = NewCheckpoint]
  BY DEF AppendAt
<1>5. head'[r] = NewCheckpoint /\ \A q \in Runs : q # r => head'[q] = head[q]
  BY <1>1, <1>4 DEF TypeOK
<1>6. \A q \in Runs : head[q] \in 0 .. Len(checkpoints)
  BY <1>1 DEF TypeOK
<1>7. expected # 0 /\ Continued(checkpoints, head[r]) = checkpoints[expected].digest
  BY <1>1, <1>2, <1>3 DEF Continued, TypeOK
<1>8. QED
  BY <1>1, <1>2, <1>3, <1>5, <1>6, <1>7, HistoriesAfter

\* Appends that complete no call.
LEMMA AppendKeepsRounds ==
    ASSUME RInv, NInv', NEW r \in Runs, NEW expected, NEW m \in Messages,
           AppendAt(r, expected, <<m>>), UNCHANGED <<rounds, status>>,
           \A q \in Runs, n \in 1 .. MaxAnswers, c \in Calls : m # Result(q, n, c)
    PROVE  RInv'
<1>1. HistoriesMatch'
  <2> SUFFICES ASSUME NEW q \in Runs, NEW n \in 1 .. MaxAnswers
               PROVE  Matches(Continued(checkpoints', head'[q]), q, n, rounds[q][n])
    BY DEF HistoriesMatch
  <2>1. /\ rounds[q][n] \in Round /\ Continued(checkpoints, head[q]) \in Seq(Messages)
        /\ Matches(Continued(checkpoints, head[q]), q, n, rounds[q][n])
    BY RoundTypes
  <2>2. rounds[q][n].completed \in Seq(Calls)
    BY <2>1 DEF Round
  <2>3. Matches(Continued(checkpoints, head[q]) \o <<m>>, q, n, rounds[q][n])
    BY <2>1, <2>2, NoResultMatches
  <2>4. Continued(checkpoints', head'[q]) \in
            {Continued(checkpoints, head[q]), Continued(checkpoints, head[q]) \o <<m>>}
    BY AppendedHistories
  <2>5. QED
    BY <2>1, <2>3, <2>4
<1>2. RoundsAreWellFormed'
  BY DEF RInv, RoundsAreWellFormed
<1>3. QED
  BY <1>1, <1>2 DEF RInv

\* Steps that leave the histories of the runs and their rounds alone.
LEMMA HistoriesStay ==
    ASSUME RInv, NInv', UNCHANGED rounds,
           \A r \in Runs : status'[r] = "absent" => status[r] = "absent",
           \A r \in Runs : Continued(checkpoints', head'[r]) = Continued(checkpoints, head[r])
    PROVE  RInv'
BY DEF RInv, HistoriesMatch, RoundsAreWellFormed

LEMMA RoundsCommit ==
    ASSUME RInv, NInv', NEW r \in Runs, NEW n \in 1 .. MaxAnswers, NEW c \in Calls,
           CommitToolResult(r, n, c)
    PROVE  RInv'
<1> DEFINE m == Result(r, n, c)
           round == rounds[r][n]
           after == RoundAfter(round, c)
<1>1. /\ round.status = "pending" /\ c \in round.pending /\ AppendAt(r, head[r], <<m>>)
      /\ rounds' = [rounds EXCEPT ![r][n] = after] /\ UNCHANGED status
  BY DEF CommitToolResult
<1>2. m \in Messages
  BY DEF Messages
<1>3. /\ round \in Round /\ WellFormed(round)
      /\ Continued(checkpoints, head[r]) \in Seq(Messages)
      /\ Matches(Continued(checkpoints, head[r]), r, n, round)
  BY RoundTypes
<1>4. \A q \in Runs, k \in 1 .. MaxAnswers, d \in Calls :
          Result(q, k, d) = m => q = r /\ k = n /\ d = c
  BY OwnMessages
<1>5. Matches(Continued(checkpoints, head[r]) \o <<m>>, r, n, after)
  BY <1>1, <1>2, <1>3, <1>4, ResultMatches
<1>6. WellFormed(after) /\ after.status # "none"
  BY <1>1, <1>3, RoundAfterWellFormed
<1>7. rounds \in [Runs -> [1 .. MaxAnswers -> Round]]
  BY DEF RInv, NInv, LInv, SInv, TypeOK
<1> HIDE DEF m, round, after
<1>8. /\ rounds'[r][n] = after
      /\ \A q \in Runs, k \in 1 .. MaxAnswers : ~ (q = r /\ k = n) => rounds'[q][k] = rounds[q][k]
  BY <1>1, <1>7
<1>9. /\ Continued(checkpoints', head'[r]) = Continued(checkpoints, head[r]) \o <<m>>
      /\ \A q \in Runs : q # r =>
            Continued(checkpoints', head'[q]) = Continued(checkpoints, head[q])
      /\ status[r] = "running"
  BY <1>1, <1>2, AppendedHistories
<1>10. HistoriesMatch'
  <2> SUFFICES ASSUME NEW q \in Runs, NEW k \in 1 .. MaxAnswers
               PROVE  Matches(Continued(checkpoints', head'[q]), q, k, rounds'[q][k])
    BY DEF HistoriesMatch
  <2>1. /\ rounds[q][k] \in Round /\ Continued(checkpoints, head[q]) \in Seq(Messages)
        /\ Matches(Continued(checkpoints, head[q]), q, k, rounds[q][k])
    BY RoundTypes
  <2>2. CASE q = r /\ k = n
    BY <1>5, <1>8, <1>9, <2>2
  <2>3. CASE q = r /\ k # n
    <3>1. \A d \in Calls : m # Result(q, k, d)
      BY <1>4, <2>3
    <3>2. rounds[q][k].completed \in Seq(Calls)
      BY <2>1 DEF Round
    <3>3. Matches(Continued(checkpoints, head[q]) \o <<m>>, q, k, rounds[q][k])
      BY <1>2, <2>1, <3>1, <3>2, NoResultMatches
    <3>4. QED
      BY <1>8, <1>9, <2>3, <3>3
  <2>4. CASE q # r
    BY <1>8, <1>9, <2>1, <2>4
  <2>5. QED
    BY <2>2, <2>3, <2>4
<1>11. RoundsAreWellFormed'
  <2>1. \A q \in Runs : \A k \in 1 .. MaxAnswers : WellFormed(rounds'[q][k])
    BY <1>6, <1>8 DEF RInv, RoundsAreWellFormed
  <2>2. \A q \in Runs : status'[q] = "absent" => q # r /\ status[q] = "absent"
    BY <1>1, <1>9
  <2>3. QED
    BY <1>8, <2>1, <2>2 DEF RInv, RoundsAreWellFormed
<1>12. QED
  BY <1>10, <1>11 DEF RInv

\* A new round: nothing of it is in the history yet.
LEMMA RoundsBegin ==
    ASSUME RInv, NInv', NEW r \in Runs, NEW b, NEW calls \in SUBSET Calls,
           CreateToolRound(r, b, calls)
    PROVE  RInv'
<1> DEFINE n == answers[r]
           round == [status |-> "pending", pending |-> calls, completed |-> <<>>]
<1>1. /\ rounds[r][n].status = "none" /\ status[r] = "running" /\ calls # {}
      /\ rounds' = [rounds EXCEPT ![r][n] = round]
      /\ UNCHANGED <<checkpoints, head, status>> /\ n > 0
  BY DEF CreateToolRound, Unanswered
<1>2. n \in 1 .. MaxAnswers /\ rounds \in [Runs -> [1 .. MaxAnswers -> Round]]
  BY <1>1, BoundsAssumption DEF RInv, NInv, LInv, SInv, TypeOK
<1>3. /\ Matches(Continued(checkpoints, head[r]), r, n, rounds[r][n])
      /\ rounds[r][n].completed = <<>>
  BY <1>1, <1>2, RoundTypes DEF WellFormed
<1>4. round.completed = <<>> /\ round.status = "pending" /\ round.pending = calls
  OBVIOUS
<1> HIDE DEF n, round
<1>5. Matches(Continued(checkpoints, head[r]), r, n, round)
  BY <1>1, <1>3, <1>4 DEF Matches
<1>6. WellFormed(round)
  BY <1>1, <1>4 DEF WellFormed
<1>7. /\ rounds'[r][n] = round
      /\ \A q \in Runs, k \in 1 .. MaxAnswers : ~ (q = r /\ k = n) => rounds'[q][k] = rounds[q][k]
  BY <1>1, <1>2
<1>8. HistoriesMatch'
  BY <1>1, <1>5, <1>7 DEF RInv, HistoriesMatch
<1>9. RoundsAreWellFormed'
  <2>1. \A q \in Runs : \A k \in 1 .. MaxAnswers : WellFormed(rounds'[q][k])
    BY <1>6, <1>7 DEF RInv, RoundsAreWellFormed
  <2>2. \A q \in Runs : status'[q] = "absent" => q # r /\ status[q] = "absent"
    BY <1>1
  <2>3. QED
    BY <1>7, <2>1, <2>2 DEF RInv, RoundsAreWellFormed
<1>10. QED
  BY <1>8, <1>9 DEF RInv

\* Compaction: no round is pending, and the new history has no result.
LEMMA RoundsCompacted ==
    ASSUME ClientsSendOnce, RInv, NInv', NEW r \in Runs, NEW expected, NEW t \in Texts,
           ReplaceCheckpoint(r, expected, <<t>>)
    PROVE  RInv'
<1>1. LInv /\ TypeOK
  BY DEF RInv, NInv, LInv, SInv
<1>2. /\ InsertCheckpoint(1, <<t>>, <<t>>) /\ head' = [head EXCEPT ![r] = NewCheckpoint]
      /\ UNCHANGED <<rounds, status>>
      /\ \A n \in 1 .. MaxAnswers : rounds[r][n].status # "pending"
  BY DEF ReplaceCheckpoint
<1>3. head'[r] = NewCheckpoint /\ \A q \in Runs : q # r => head'[q] = head[q]
  BY <1>1, <1>2 DEF TypeOK
<1>4. /\ Continued(checkpoints', head'[r]) = <<t>>
      /\ \A q \in Runs : q # r =>
            Continued(checkpoints', head'[q]) = Continued(checkpoints, head[q])
  <2>1. \A q \in Runs : head[q] \in 0 .. Len(checkpoints)
    BY <1>1 DEF TypeOK
  <2>2. QED
    BY <1>1, <1>2, <1>3, <2>1, HistoriesAfter
<1>5. \A n \in 1 .. MaxAnswers, c \in Calls : Places(<<t>>, r, n, c) = {}
  BY DEF Places, ClientsSendOnce
<1>6. ASSUME NEW n \in 1 .. MaxAnswers PROVE Matches(<<t>>, r, n, rounds[r][n])
  <2>1. rounds[r][n] \in Round /\ WellFormed(rounds[r][n])
    BY RoundTypes
  <2>2. rounds[r][n].status \in {"none", "settled"}
    BY <1>2, <2>1 DEF Round
  <2>3. \A k \in DOMAIN rounds[r][n].completed : rounds[r][n].completed[k] \in Calls
    BY <2>1 DEF Round
  <2>4. QED
    BY <1>5, <2>1, <2>2, <2>3 DEF Matches, WellFormed
<1>7. HistoriesMatch'
  BY <1>2, <1>4, <1>6 DEF RInv, HistoriesMatch
<1>8. QED
  BY <1>2, <1>7 DEF RInv, RoundsAreWellFormed

\* A run that is claimed has no round, and no history has results of it.
LEMMA RoundsClaimed ==
    ASSUME RInv, NInv', NEW r \in Runs, NEW b \in DOMAIN checkpoints, ClaimRun(r, b)
    PROVE  RInv'
<1>1. LInv /\ TypeOK /\ DigestsAreStored /\ ResultsAreCommitted
  BY DEF RInv, NInv, LInv, SInv
<1>2. /\ status[r] = "absent" /\ head' = [head EXCEPT ![r] = b]
      /\ UNCHANGED <<checkpoints, rounds>> /\ status' = StatusAfterClaim(r)
  BY DEF ClaimRun
<1>3. head'[r] = b /\ b # 0 /\ \A q \in Runs : q # r => head'[q] = head[q]
  BY <1>1, <1>2 DEF TypeOK
<1>4. Continued(checkpoints, b) = checkpoints[b].digest
  BY <1>3 DEF Continued
<1>5. ASSUME NEW n \in 1 .. MaxAnswers PROVE Matches(checkpoints[b].digest, r, n, rounds[r][n])
  <2>1. rounds[r][n].status = "none" /\ rounds[r][n].completed = <<>>
    BY <1>2, RoundTypes DEF RInv, RoundsAreWellFormed, WellFormed
  <2>2. \A c \in Calls : Result(r, n, c) \notin stored
    BY <1>1, <2>1 DEF ResultsAreCommitted
  <2>3. \A c \in Calls : Places(checkpoints[b].digest, r, n, c) = {}
    BY <1>1, <2>2 DEF Places, DigestsAreStored
  <2>4. QED
    BY <2>1, <2>3 DEF Matches
<1>6. HistoriesMatch'
  BY <1>2, <1>3, <1>4, <1>5 DEF RInv, HistoriesMatch
<1>7. \A q \in Runs : status'[q] = "absent" => status[q] = "absent"
  BY <1>2 DEF StatusAfterClaim
<1>8. QED
  BY <1>2, <1>6, <1>7 DEF RInv, RoundsAreWellFormed

LEMMA RStepInv == ClientsSendOnce /\ RInv /\ [Next]_vars => RInv'
<1> SUFFICES ASSUME ClientsSendOnce, RInv, [Next]_vars PROVE RInv'
  OBVIOUS
<1>0. NInv' /\ LInv /\ TypeOK
  BY NStepInv DEF RInv, NInv, LInv, SInv
<1>1. ASSUME UNCHANGED <<checkpoints, head, rounds>>,
             \A r \in Runs : status'[r] = "absent" => status[r] = "absent"
      PROVE  RInv'
  BY <1>0, <1>1, HistoriesStay
<1>2. CASE EnsureConversation
  <2>1. UNCHANGED <<head, rounds, status>> /\ current = 0
    BY <1>2 DEF EnsureConversation
  <2>2. \A r \in Runs : head[r] = 0
    BY <1>0, <2>1 DEF LInv, SInv, EmptyUntilCreated, TypeOK
  <2>3. \A r \in Runs : Continued(checkpoints', head'[r]) = Continued(checkpoints, head[r])
    BY <2>1, <2>2 DEF Continued
  <2>4. QED
    BY <1>0, <2>1, <2>3, HistoriesStay
<1>3. ASSUME NEW h \in Histories, ImportCheckpoint(h) PROVE RInv'
  <2>1. UNCHANGED <<head, rounds, status>>
    BY <1>3 DEF ImportCheckpoint
  <2>2. PICK parent \in DOMAIN checkpoints, additions \in Seq(Messages) :
               InsertCheckpoint(parent, additions, h)
    BY <1>0, <1>3, ImportedLineage
  <2>3. \A r \in Runs : head[r] \in 0 .. Len(checkpoints)
    BY <1>0 DEF TypeOK
  <2>4. \A r \in Runs : Continued(checkpoints', head'[r]) = Continued(checkpoints, head[r])
    BY <1>0, <2>1, <2>2, <2>3, HistoriesAfter
  <2>5. QED
    BY <1>0, <2>1, <2>4, HistoriesStay
<1>4. ASSUME NEW r \in Runs, NEW c \in DOMAIN checkpoints, AppendAnswer(r, c) PROVE RInv'
  <2>1. answers[r] \in 1 .. MaxAnswers
    BY <1>0, <1>4, BoundsAssumption DEF AppendAnswer, Unanswered, TypeOK
  <2>2. Answer(r, answers[r]) \in Messages
    BY <2>1 DEF Messages
  <2>3. \A q \in Runs, n \in 1 .. MaxAnswers, d \in Calls : Answer(r, answers[r]) # Result(q, n, d)
    BY <2>1, OwnMessages
  <2>4. AppendAt(r, c, <<Answer(r, answers[r])>>) /\ UNCHANGED <<rounds, status>>
    BY <1>4 DEF AppendAnswer
  <2>5. QED
    BY <1>0, <2>2, <2>3, <2>4, AppendKeepsRounds
<1>5. ASSUME NEW r \in Runs, NEW c \in DOMAIN checkpoints, NEW t \in Texts,
             AppendMessageOnce(r, c, t)
      PROVE  RInv'
  <2>1. t \in Messages /\ \A q \in Runs, n \in 1 .. MaxAnswers, d \in Calls : t # Result(q, n, d)
    BY DEF Messages, ClientsSendOnce
  <2>2. AppendAt(r, c, <<t>>) /\ UNCHANGED <<rounds, status>>
    BY <1>5 DEF AppendMessageOnce
  <2>3. QED
    BY <1>0, <2>1, <2>2, AppendKeepsRounds
<1>6. ASSUME NEW r \in Runs, NEW c \in DOMAIN checkpoints, NEW t \in Texts,
             ReplaceCheckpoint(r, c, <<t>>)
      PROVE  RInv'
  BY <1>0, <1>6, RoundsCompacted
<1>7. ASSUME NEW r \in Runs, NEW c \in DOMAIN checkpoints, NEW calls \in SUBSET Calls,
             CreateToolRound(r, c, calls)
      PROVE  RInv'
  BY <1>0, <1>7, RoundsBegin
<1>8. ASSUME NEW r \in Runs, NEW n \in 1 .. MaxAnswers, NEW c \in Calls,
             CommitToolResult(r, n, c)
      PROVE  RInv'
  BY <1>0, <1>8, RoundsCommit
<1>9. ASSUME NEW r \in Runs, NEW c \in DOMAIN checkpoints, ClaimRun(r, c) PROVE RInv'
  BY <1>0, <1>9, RoundsClaimed
<1>10. ASSUME NEW r \in Runs,
              \/ BeginProviderCall(r) \/ StartModelCall(r)
              \/ \E s \in {"completed", "cancelled", "error"} : FinishModelCall(r, s)
       PROVE  RInv'
  BY <1>1, <1>10 DEF BeginProviderCall, StartModelCall, FinishModelCall
<1>11. ASSUME NEW r \in Runs, NEW s \in Terminal, FinishRun(r, s) PROVE RInv'
  <2>1. status[r] # "absent" /\ status' = [status EXCEPT ![r] = FinalStatus(r, s)]
        /\ UNCHANGED <<checkpoints, head, rounds>>
    BY <1>11 DEF FinishRun
  <2>2. FinalStatus(r, s) # "absent"
    BY <2>1 DEF FinalStatus, Terminal
  <2>3. \A q \in Runs : status'[q] = "absent" => status[q] = "absent"
    BY <1>0, <2>1, <2>2 DEF TypeOK
  <2>4. QED
    BY <1>1, <2>1, <2>3
<1>12. CASE UNCHANGED vars
  BY <1>1, <1>12 DEF vars
<1>13. QED
  BY <1>2, <1>3, <1>4, <1>5, <1>6, <1>7, <1>8, <1>9, <1>10, <1>11, <1>12 DEF Next

\* A round of a run and the history at its head agree: the completed calls are
\* those whose results the history holds, in the order of completion, and a
\* round is settled by the last of its calls.
THEOREM RoundsMatchHistories == ClientsSendOnce /\ Spec => []RoundMatchesHistory
<1>1. Init => RInv
  <2> SUFFICES ASSUME Init PROVE RInv
    OBVIOUS
  <2>1. /\ checkpoints = <<>> /\ stored = {} /\ DOMAIN checkpoints = {}
        /\ \A r \in Runs : head[r] = 0
        /\ \A r \in Runs, n \in 1 .. MaxAnswers : rounds[r][n] = NoRound
    BY DEF Init
  <2>2. NInv
    BY <2>1, LInitInv DEF NInv, NoMessageTwice, DigestsAreStored, ResultsAreCommitted
  <2>3. NoRound.status = "none" /\ NoRound.pending = {} /\ NoRound.completed = <<>>
    BY DEF NoRound
  <2>4. \A r \in Runs, n \in 1 .. MaxAnswers : Matches(<<>>, r, n, NoRound)
    BY <2>3 DEF Matches, Places
  <2>5. WellFormed(NoRound)
    BY <2>3 DEF WellFormed
  <2>6. HistoriesMatch
    BY <2>1, <2>4 DEF HistoriesMatch, Continued
  <2>7. RoundsAreWellFormed
    BY <2>1, <2>3, <2>5 DEF RoundsAreWellFormed
  <2>8. QED
    BY <2>2, <2>6, <2>7 DEF RInv
<1>2. RInv => RoundMatchesHistory
  <2> SUFFICES ASSUME RInv PROVE RoundMatchesHistory
    OBVIOUS
  <2>1. \A r \in Runs, n \in 1 .. MaxAnswers :
            /\ WellFormed(rounds[r][n])
            /\ Matches(Continued(checkpoints, head[r]), r, n, rounds[r][n])
    BY RoundTypes
  <2>2. QED
    BY <2>1 DEF RoundMatchesHistory, Matches, WellFormed, Places, Continued
<1>3. QED
  <2> SUFFICES ASSUME ClientsSendOnce PROVE Spec => []RoundMatchesHistory
    OBVIOUS
  <2>1. RInv /\ [Next]_vars => RInv'
    BY RStepInv
  <2>2. QED
    BY <1>1, <1>2, <2>1, PTL DEF Spec

=============================================================================
