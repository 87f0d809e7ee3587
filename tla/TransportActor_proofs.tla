------------------------ MODULE TransportActor_proofs ------------------------
(***************************************************************************)
(* Proofs about TransportLifecycle and TransportActor, for every finite set *)
(* of appends, whatever they carry and however they are numbered.  Of the   *)
(* lifecycle: the state stays well typed, the admission counter is the      *)
(* number of live guards, a Draining transport has none, and the actor's    *)
(* wait loses no wakeup.  Of the actor: the same holds inside it, a drain   *)
(* loses no acknowledged append, the run of every superseded generation is  *)
(* told to stop, and, where no append carries a user message, a drain ends  *)
(* the stream with what the current turn reported and cuts off no turn.     *)
(***************************************************************************)
EXTENDS TransportActor, FiniteSetTheorems, WellFoundedInduction, TLAPS

-----------------------------------------------------------------------------
(* The lifecycle.                                                           *)

\* Inductive as a whole: the last properties need the exact counter, because
\* the code only ever tests the counter, never the guards.
LInv == /\ LifecycleTypeOK
        /\ CounterCountsHolders
        /\ DrainingHasNoAppend
        /\ NoLostWakeup
        /\ waiter # "absent" => state = "Closing"

\* Taking a guard adds one to the number of holders, dropping it takes one
\* away: what the counter must follow.
LEMMA HolderCount ==
    ASSUME NEW S \in SUBSET Appends
    PROVE  /\ IsFiniteSet(S)
           /\ Cardinality(S) \in Nat
           /\ (Cardinality(S) = 0) <=> (S = {})
           /\ \A a \in Appends \ S : Cardinality(S \cup {a}) = Cardinality(S) + 1
           /\ \A a \in S : Cardinality(S \ {a}) = Cardinality(S) - 1
<1>1. IsFiniteSet(S)
  BY AppendsAssumption, FS_Subset
<1>2. Cardinality(S) \in Nat
  BY <1>1, FS_CardinalityType
<1>3. (Cardinality(S) = 0) <=> (S = {})
  BY <1>1, FS_EmptySet
<1>4. \A a \in Appends \ S : Cardinality(S \cup {a}) = Cardinality(S) + 1
  BY <1>1, FS_AddElement
<1>5. \A a \in S : Cardinality(S \ {a}) = Cardinality(S) - 1
  BY <1>1, FS_RemoveElement
<1>6. QED
  BY <1>1, <1>2, <1>3, <1>4, <1>5

\* The initial state is idle: nothing admitted, nobody waiting.
LEMMA LInitInv == LifecycleInit => LInv
<1>1. Cardinality({}) = 0
  BY FS_EmptySet
<1>2. LifecycleInit => LifecycleTypeOK
  <2>1. 0 \in Nat
    OBVIOUS
  <2>2. QED
    BY <2>1, Zenon DEF LifecycleInit, LifecycleTypeOK, TransportState,
       WaiterState
<1>3. QED
  BY <1>1, <1>2 DEF LifecycleInit, LInv, CounterCountsHolders,
     DrainingHasNoAppend, NoLostWakeup

\* Each method and each step of the wait preserves the invariant.
LEMMA LStepInv == LInv /\ [LifecycleNext]_lifecycleVars => LInv'
<1> SUFFICES ASSUME LInv, [LifecycleNext]_lifecycleVars
             PROVE  LInv'
  OBVIOUS
<1> USE DEF LInv, LifecycleTypeOK, CounterCountsHolders, DrainingHasNoAppend,
        NoLostWakeup, TransportState, WaiterState
<1>1. ASSUME NEW a \in Appends, Admit(a)
      PROVE  LInv'
  <2>1. Cardinality(holders \cup {a}) = Cardinality(holders) + 1
    BY <1>1, HolderCount DEF Admit
  <2>2. QED
    BY <1>1, <2>1 DEF Admit
<1>1a. ASSUME NEW a \in Appends, NotifyDrained(a)
       PROVE  LInv'
  <2>1. notified' \in BOOLEAN /\ (waiter # "absent" => notified')
    BY <1>1a, Zenon DEF NotifyDrained, NotifyWaiters
  <2>2. QED
    BY <1>1a, <2>1 DEF NotifyDrained
<1>2. ASSUME NEW a \in Appends, DropAdmission(a)
      PROVE  LInv'
  <2>1. /\ Cardinality(holders) \in Nat \ {0}
        /\ Cardinality(holders \ {a}) = Cardinality(holders) - 1
        /\ (Cardinality(holders \ {a}) = 0) <=> (holders \ {a} = {})
    BY <1>2, HolderCount DEF DropAdmission
  <2>2. admissions' = admissions - 1 /\ CounterCountsHolders'
    BY <1>2, <2>1 DEF DropAdmission, SaturatingDecrement
  <2>3. LifecycleTypeOK' /\ DrainingHasNoAppend'
    BY <1>2, <2>1, <2>2 DEF DropAdmission
  <2>4. NoLostWakeup'
    BY <1>2, <2>1, <2>2 DEF DropAdmission
  <2>5. QED
    BY <1>2, <2>2, <2>3, <2>4 DEF DropAdmission
<1>3. CASE BeginClose
  BY <1>3 DEF BeginClose, NotifyWaiters
<1>4. CASE StartWait
  BY <1>4 DEF StartWait
<1>5. CASE ReadCounter
  <2>1. (admissions = 0) <=> (holders = {})
    BY HolderCount
  <2>2. QED
    BY <1>5, <2>1 DEF ReadCounter
<1>6. CASE Poll \/ WakeUp
  BY <1>6 DEF Poll, WakeUp
<1>7. CASE LeaveWait
  BY <1>7 DEF LeaveWait
<1>8. CASE MarkDraining
  <2>1. holders = {}
    BY <1>8, HolderCount DEF MarkDraining
  <2>2. QED
    BY <1>8, <2>1 DEF MarkDraining
<1>9. CASE Reopen
  BY <1>9 DEF Reopen
<1>10. CASE Close
  BY <1>10 DEF Close
<1>11. CASE UNCHANGED lifecycleVars
  BY <1>11 DEF lifecycleVars
<1>12. QED
  BY <1>1, <1>1a, <1>2, <1>3, <1>4, <1>5, <1>6, <1>7, <1>8, <1>9, <1>10, <1>11
     DEF LifecycleNext

LEMMA LInvariant == LifecycleSpec => []LInv
<1>1. QED
  BY LInitInv, LStepInv, PTL DEF LifecycleSpec

\* The state stays well typed: in particular the counter never goes below zero.
THEOREM LifecycleTypeCorrect == LifecycleSpec => []LifecycleTypeOK
<1>1. LInv => LifecycleTypeOK
  BY DEF LInv
<1>2. QED
  BY <1>1, LInvariant, PTL

\* A transport that was declared Draining has no append in flight.
THEOREM DrainingIsQuiet == LifecycleSpec => [](CounterCountsHolders /\ DrainingHasNoAppend)
<1>1. LInv => CounterCountsHolders /\ DrainingHasNoAppend
  BY DEF LInv
<1>2. QED
  BY <1>1, LInvariant, PTL

\* An actor asleep on the drained notification has it or will be sent it.
THEOREM WakeupIsNeverLost == LifecycleSpec => []NoLostWakeup
<1>1. LInv => NoLostWakeup
  BY DEF LInv
<1>2. QED
  BY <1>1, LInvariant, PTL

-----------------------------------------------------------------------------
(* The actor uses its lifecycle.                                             *)

\* Whatever a handler, the actor or a generation does, its effect on the
\* lifecycle is one of the lifecycle's own steps, or none.
LEMMA LifecycleStep == [Next]_vars => [LifecycleNext]_lifecycleVars
<1> SUFFICES ASSUME [Next]_vars
             PROVE  LifecycleNext \/ UNCHANGED lifecycleVars
  OBVIOUS
<1>1. CASE HandlerNext
  BY <1>1 DEF HandlerNext, AdmitAppend, RefuseAppend, SendAppend, ReturnAppend, NotifyActor,
     LifecycleNext
<1>2. CASE DropStream \/ SendDisconnect
  BY <1>2 DEF DropStream, SendDisconnect
<1>3. CASE ActorNext
  <2>1. CASE ReceiveAppend \/ ReceiveDisconnect \/ FinishDisconnect
    BY <2>1 DEF ReceiveAppend, ReceiveDisconnect, FinishDisconnect, LeaveLoopHead, LifecycleNext
  <2>2. CASE ReceiveRunFinished
    BY <2>2 DEF ReceiveRunFinished, LeaveLoopHead, LifecycleNext
  <2>3. CASE WaitAdmissionsDrained \/ DeclareDraining \/ DrainEnd \/ ActorEnds
    BY <2>3 DEF WaitAdmissionsDrained, DeclareDraining, DrainEnd, ActorEnds, LifecycleNext
  <2>4. CASE HandleRunRequest \/ HandleConflictingRequest
    BY <2>4 DEF HandleRunRequest, HandleConflictingRequest, ReopenForRequest, LifecycleNext
  <2>5. CASE StartGeneration \/ HandleUserMessage \/ HandleCancelAction
    BY <2>5 DEF StartGeneration, HandleUserMessage, HandleCancelAction
  <2>6. QED
    BY <1>3, <2>1, <2>2, <2>3, <2>4, <2>5 DEF ActorNext
<1>4. CASE ContinuationIdleTimeout
  BY <1>4 DEF ContinuationIdleTimeout, LifecycleNext
<1>5. ASSUME NEW g \in Generations, TaskNext(g)
      PROVE  UNCHANGED lifecycleVars
  BY <1>5 DEF TaskNext, Abandon, BeginPreparing, InstallRun, Launch, OutputStops,
     OutputCompletes, Release, CheckSuperseded, Report, GenerationStep
<1>6. ASSUME NEW g \in Generations, EngineNext(g)
      PROVE  UNCHANGED lifecycleVars
  BY <1>6 DEF EngineNext, Prepare, EndWithoutRun, EngineBeginsFinalizing, EngineResumes,
     EngineEnds, OutputFails, GenerationStep
<1>7. CASE UNCHANGED vars
  BY <1>7 DEF vars
<1>8. QED
  BY <1>1, <1>2, <1>3, <1>4, <1>5, <1>6, <1>7 DEF Next

\* The actor is composed with its lifecycle: what was proved of the lifecycle
\* alone holds inside it.
LEMMA ActorUsesLifecycle == Spec => LifecycleSpec
<1>1. Init => LifecycleInit
  BY DEF Init
<1>2. QED
  BY <1>1, LifecycleStep, PTL DEF Spec, LifecycleSpec

LEMMA LifecycleHolds == Spec => []LInv
BY ActorUsesLifecycle, LInvariant, PTL

\* Inside the whole actor, too, the counter is exact and a Draining transport
\* has no append in flight.
THEOREM ActorDrainsQuietly == Spec => [](CounterCountsHolders /\ DrainingHasNoAppend)
BY ActorUsesLifecycle, DrainingIsQuiet, PTL

-----------------------------------------------------------------------------
(* Types.                                                                   *)

\* A Runs whose previous generation is any number.
AnyRuns == [task : TaskState,
            previous : Nat,
            superseded : BOOLEAN,
            handle : BOOLEAN,
            phase : {"none", "Running", "Finalizing", "Ended"},
            outcome : {"none", "Completed", "Cancelled", "Failed"},
            cancelled : BOOLEAN,
            finish : RunFinishes \cup {"none"}]

\* A generation's task reports only what its output returned, and its run is
\* installed while it runs.
GoodRuns ==
    {r \in AnyRuns :
        /\ r.task \in {"installed", "running"} => r.handle
        /\ r.task = "installed" => r.phase = "Running"
        /\ r.task = "running" /\ r.phase = "Ended" => r.outcome # "none"
        /\ r.task \in {"returned", "released", "reporting"} => r.finish \in RunFinishes}

\* As much of TypeOK as the proofs need.  TypeOK itself bounds the number of
\* generations by the number of messages, which is not needed here.
GenTypes ==
    /\ append \in [Appends -> {"idle", "admitted", "sent", "returned"}]
    /\ channel \in Seq(Commands)
    /\ current \in Nat
    /\ nextGeneration \in Nat
    /\ run \in [Generations -> GoodRuns]

LEMMA TypesInit == Init => GenTypes
<1> SUFFICES ASSUME Init PROVE GenTypes
  OBVIOUS
<1>1. NoRun \in GoodRuns
  BY DEF NoRun, GoodRuns, AnyRuns, TaskState, NoGeneration
<1>2. QED
  BY <1>1 DEF Init, GenTypes, NoGeneration

\* A generation's own step changes its own entry only.
LEMMA OwnEntry ==
    ASSUME GenTypes, NEW g \in Generations, NEW changed \in GoodRuns,
           GenerationStep(g, changed), channel' \in Seq(Commands)
    PROVE  GenTypes'
BY DEF GenTypes, GenerationStep, actorVars

LEMMA TaskTypes ==
    ASSUME GenTypes, NEW g \in Generations, TaskNext(g)
    PROVE  GenTypes'
<1> DEFINE r == run[g]
<1>0. r \in GoodRuns /\ channel \in Seq(Commands)
  BY DEF GenTypes
<1> USE DEF GoodRuns, AnyRuns, TaskState, RunFinishes
<1> HIDE DEF r
<1>1. CASE Abandon(g)
  <2>1. [r EXCEPT !.task = "done"] \in GoodRuns
    BY <1>0
  <2>2. QED
    BY <1>0, <1>1, <2>1, OwnEntry DEF Abandon, r
<1>2. CASE BeginPreparing(g)
  <2>1. [r EXCEPT !.task = "preparing"] \in GoodRuns
    BY <1>0
  <2>2. QED
    BY <1>0, <1>2, <2>1, OwnEntry DEF BeginPreparing, r
<1>3. CASE InstallRun(g)
  <2>1. [r EXCEPT !.task = "installed", !.handle = TRUE, !.phase = "Running"] \in GoodRuns
    BY <1>0
  <2>2. QED
    BY <1>0, <1>3, <2>1, OwnEntry DEF InstallRun, r
<1>4. CASE Launch(g)
  <2>1. r.task = "installed" => Launched(r) \in GoodRuns
    BY <1>0 DEF Launched
  <2>2. QED
    BY <1>0, <1>4, <2>1, OwnEntry DEF Launch, r
<1>5. CASE OutputStops(g)
  <2>1. [r EXCEPT !.task = "returned", !.finish = "Cancelled"] \in GoodRuns
    BY <1>0
  <2>2. QED
    BY <1>0, <1>5, <2>1, OwnEntry DEF OutputStops, r
<1>6. CASE OutputCompletes(g)
  <2> DEFINE finish == IF r.outcome = "Completed" THEN "TurnCompleted" ELSE r.outcome
  <2> DEFINE changed == [r EXCEPT !.task = "returned", !.finish = finish]
  <2>1. r.task = "running" /\ r.phase = "Ended" => changed \in GoodRuns
    BY <1>0
  <2>2. /\ r.task = "running" /\ r.phase = "Ended"
        /\ GenerationStep(g, changed) /\ channel' \in Seq(Commands)
    BY <1>0, <1>6 DEF OutputCompletes, r
  <2> HIDE DEF changed
  <2>3. QED
    BY <2>1, <2>2, OwnEntry
<1>7. CASE Release(g)
  <2>1. r.task = "returned" => [r EXCEPT !.task = "released", !.handle = FALSE] \in GoodRuns
    BY <1>0
  <2>2. QED
    BY <1>0, <1>7, <2>1, OwnEntry DEF Release, r
<1>8. CASE CheckSuperseded(g)
  <2>1. r.task = "released" =>
           [r EXCEPT !.task = IF r.superseded THEN "done" ELSE "reporting"] \in GoodRuns
    BY <1>0
  <2>2. QED
    BY <1>0, <1>8, <2>1, OwnEntry DEF CheckSuperseded, r
<1>9. CASE Report(g)
  <2>1. [r EXCEPT !.task = "done"] \in GoodRuns
    BY <1>0
  <2>2. [type |-> "RunFinished", generation |-> g, finish |-> r.finish] \in Commands
    BY <1>0, <1>9 DEF Report, Commands, r
  <2>3. channel' \in Seq(Commands)
    BY <1>0, <1>9, <2>2 DEF Report, Send, Sent, r
  <2>4. QED
    BY <1>9, <2>1, <2>3, OwnEntry DEF Report, r
<1>10. QED
  BY <1>1, <1>2, <1>3, <1>4, <1>5, <1>6, <1>7, <1>8, <1>9 DEF TaskNext

LEMMA EngineTypes ==
    ASSUME GenTypes, NEW g \in Generations, EngineNext(g)
    PROVE  GenTypes'
<1> DEFINE r == run[g]
<1>0. r \in GoodRuns /\ channel \in Seq(Commands)
  BY DEF GenTypes
<1> USE DEF GoodRuns, AnyRuns, TaskState, RunFinishes
<1> HIDE DEF r
<1>1. CASE Prepare(g)
  <2>1. [r EXCEPT !.task = "prepared"] \in GoodRuns
    BY <1>0
  <2>2. QED
    BY <1>0, <1>1, <2>1, OwnEntry DEF Prepare, r
<1>2. ASSUME NEW finish \in {"Failed", "Success"}, EndWithoutRun(g, finish)
      PROVE  GenTypes'
  <2>1. [r EXCEPT !.task = "reporting", !.finish = finish] \in GoodRuns
    BY <1>0
  <2>2. QED
    BY <1>0, <1>2, <2>1, OwnEntry DEF EndWithoutRun, r
<1>3. CASE EngineBeginsFinalizing(g)
  <2>1. r.task \in {"running", "returned"} => [r EXCEPT !.phase = "Finalizing"] \in GoodRuns
    BY <1>0
  <2>2. QED
    BY <1>0, <1>3, <2>1, OwnEntry DEF EngineBeginsFinalizing, r
<1>4. CASE EngineResumes(g)
  <2>1. [r EXCEPT !.phase = "Running"] \in GoodRuns
    BY <1>0
  <2>2. QED
    BY <1>0, <1>4, <2>1, OwnEntry DEF EngineResumes, r
<1>5. ASSUME NEW outcome \in {"Completed", "Cancelled", "Failed"}, EngineEnds(g, outcome)
      PROVE  GenTypes'
  <2>1. r.task \in {"running", "returned"} =>
           [r EXCEPT !.phase = "Ended", !.outcome = outcome] \in GoodRuns
    BY <1>0
  <2>2. QED
    BY <1>0, <1>5, <2>1, OwnEntry DEF EngineEnds, r
<1>6. CASE OutputFails(g)
  <2>1. [r EXCEPT !.task = "returned", !.finish = "Failed", !.cancelled = TRUE] \in GoodRuns
    BY <1>0
  <2>2. QED
    BY <1>0, <1>6, <2>1, OwnEntry DEF OutputFails, r
<1>7. QED
  BY <1>1, <1>2, <1>3, <1>4, <1>5, <1>6 DEF EngineNext

\* Superseding and cancelling the current generation keeps the types.
LEMMA TellingTypes ==
    ASSUME GenTypes
    PROVE  /\ (SupersedeCurrent => run' \in [Generations -> GoodRuns])
           /\ CancelCurrent \in [Generations -> GoodRuns]
<1>1. ASSUME NEW r \in GoodRuns
      PROVE  [r EXCEPT !.superseded = TRUE] \in GoodRuns
  <2>1. [r EXCEPT !.superseded = TRUE] \in AnyRuns
    BY DEF GoodRuns, AnyRuns
  <2>2. QED
    BY <2>1 DEF GoodRuns, AnyRuns
<1>2. ASSUME NEW r \in GoodRuns
      PROVE  [r EXCEPT !.cancelled = TRUE] \in GoodRuns
  <2>1. [r EXCEPT !.cancelled = TRUE] \in AnyRuns
    BY DEF GoodRuns, AnyRuns
  <2>2. QED
    BY <2>1 DEF GoodRuns, AnyRuns
<1>3. QED
  BY <1>1, <1>2 DEF GenTypes, SupersedeCurrent, CancelCurrent

LEMMA ActorTypes ==
    ASSUME GenTypes, ActorNext \/ ContinuationIdleTimeout
    PROVE  GenTypes'
<1> USE DEF GenTypes
<1>1. CASE ReceiveAppend \/ ReceiveRunFinished
  <2>1. channel # <<>> => Tail(channel) \in Seq(Commands)
    OBVIOUS
  <2>2. QED
    BY <1>1, <2>1 DEF ReceiveAppend, ReceiveRunFinished, MayReceive
<1>2. CASE ReceiveDisconnect
  <2>1. channel # <<>> => Tail(channel) \in Seq(Commands)
    OBVIOUS
  <2>2. QED
    BY <1>2, <2>1, TellingTypes DEF ReceiveDisconnect, MayReceive
<1>3. CASE FinishDisconnect \/ HandleCancelAction
  BY <1>3, TellingTypes DEF FinishDisconnect, HandleCancelAction
<1>4. CASE WaitAdmissionsDrained \/ DeclareDraining \/ DrainEnd
  BY <1>4 DEF WaitAdmissionsDrained, DeclareDraining, DrainEnd, actorVars
<1>4a. CASE ActorEnds
  <2>1. <<>> \in Seq(Commands)
    OBVIOUS
  <2>2. QED
    BY <1>4a, <2>1 DEF ActorEnds
<1>5. CASE HandleRunRequest \/ HandleUserMessage
  BY <1>5, TellingTypes DEF HandleRunRequest, HandleUserMessage
<1>6. CASE StartGeneration
  <2>1. [NoRun EXCEPT !.task = "waiting", !.previous = current] \in GoodRuns
    BY DEF NoRun, GoodRuns, AnyRuns, TaskState
  <2>2. run' \in [Generations -> GoodRuns]
    BY <1>6, <2>1, TellingTypes DEF StartGeneration
  <2>3. QED
    BY <1>6, <2>2 DEF StartGeneration
<1>7. CASE HandleConflictingRequest \/ ContinuationIdleTimeout
  BY <1>7 DEF HandleConflictingRequest, ContinuationIdleTimeout
<1>8. QED
  BY <1>1, <1>2, <1>3, <1>4, <1>5, <1>6, <1>7, <1>4a DEF ActorNext

LEMMA HandlerTypes ==
    ASSUME GenTypes, HandlerNext \/ DropStream \/ SendDisconnect
    PROVE  GenTypes'
<1> USE DEF GenTypes
<1>1. \A a \in Appends : [type |-> "Append", append |-> a] \in Commands
  BY DEF Commands
<1>2. [type |-> "Disconnect"] \in Commands
  BY DEF Commands
<1>3. \A c \in Commands : Sent(c) \in Seq(Commands)
  BY DEF Sent
<1>4. ASSUME NEW a \in Appends,
             AdmitAppend(a) \/ RefuseAppend(a) \/ ReturnAppend(a) \/ NotifyActor(a)
      PROVE  GenTypes'
  BY <1>4 DEF AdmitAppend, RefuseAppend, ReturnAppend, NotifyActor, actorVars
<1>5. ASSUME NEW a \in Appends, SendAppend(a)
      PROVE  GenTypes'
  <2>1. channel' \in Seq(Commands)
    BY <1>1, <1>3, <1>5 DEF SendAppend, Send
  <2>2. QED
    BY <1>5, <2>1 DEF SendAppend, actorVars
<1>6. CASE DropStream
  BY <1>6 DEF DropStream, actorVars
<1>6a. CASE SendDisconnect
  <2>1. channel' \in Seq(Commands)
    BY <1>2, <1>3, <1>6a DEF SendDisconnect, Send
  <2>2. QED
    BY <1>6a, <2>1 DEF SendDisconnect, actorVars
<1>7. QED
  BY <1>4, <1>5, <1>6, <1>6a DEF HandlerNext

LEMMA TypesStep == GenTypes /\ [Next]_vars => GenTypes'
<1>1. GenTypes /\ UNCHANGED vars => GenTypes'
  BY DEF GenTypes, vars, actorVars
<1>2. QED
  BY <1>1, ActorTypes, HandlerTypes, TaskTypes, EngineTypes DEF Next

LEMMA TypesHold == Spec => []GenTypes
BY TypesInit, TypesStep, PTL DEF Spec

-----------------------------------------------------------------------------
(* Superseded generations.                                                  *)

\* Why SupersededRunsAreCancelled holds: between marking a generation and
\* cancelling its run the actor does nothing else, the run it has marked is the
\* current one, and a run that is installed later looks at the mark itself.
ToldOrBeingTold ==
    \A g \in Generations :
        run[g].superseded /\ run[g].task = "running" /\ ~ run[g].cancelled =>
            actor \in {"replacing", "disconnecting"} /\ current = g

LEMMA ToldByTask ==
    ASSUME GenTypes, ToldOrBeingTold, NEW g \in Generations, TaskNext(g) \/ EngineNext(g)
    PROVE  ToldOrBeingTold'
<1> DEFINE r == run[g]
<1>0. r \in GoodRuns
  BY DEF GenTypes
<1>1. UNCHANGED <<actor, current>>
  BY DEF TaskNext, Abandon, BeginPreparing, InstallRun, Launch, OutputStops, OutputCompletes,
     Release, CheckSuperseded, Report, EngineNext, Prepare, EndWithoutRun,
     EngineBeginsFinalizing, EngineResumes, EngineEnds, OutputFails, GenerationStep, actorVars
<1>2. /\ run'[g].task = "running" /\ run'[g].superseded =>
           r.task = "running" /\ r.superseded /\ run'[g].cancelled = r.cancelled
      /\ \A h \in Generations \ {g} : run'[h] = run[h]
  <2> USE <1>0 DEF GoodRuns, AnyRuns, GenTypes, GenerationStep
  <2>1. CASE Launch(g)
    BY <2>1 DEF Launch, Launched
  <2>2. CASE Abandon(g)
    BY <2>2 DEF Abandon
  <2>3. CASE BeginPreparing(g)
    BY <2>3 DEF BeginPreparing
  <2>4. CASE InstallRun(g)
    BY <2>4 DEF InstallRun
  <2>5. CASE OutputStops(g)
    BY <2>5 DEF OutputStops
  <2>6. CASE OutputCompletes(g)
    BY <2>6 DEF OutputCompletes
  <2>7. CASE Release(g)
    BY <2>7 DEF Release
  <2>8. CASE CheckSuperseded(g)
    BY <2>8 DEF CheckSuperseded
  <2>9. CASE Report(g)
    BY <2>9 DEF Report, Send
  <2>10. CASE Prepare(g)
    BY <2>10 DEF Prepare
  <2>11. CASE EngineBeginsFinalizing(g)
    BY <2>11 DEF EngineBeginsFinalizing
  <2>12. CASE EngineResumes(g)
    BY <2>12 DEF EngineResumes
  <2>13. CASE OutputFails(g)
    BY <2>13 DEF OutputFails
  <2>14. CASE \E finish \in {"Failed", "Success"} : EndWithoutRun(g, finish)
    BY <2>14 DEF EndWithoutRun
  <2>15. CASE \E outcome \in {"Completed", "Cancelled", "Failed"} : EngineEnds(g, outcome)
    BY <2>15 DEF EngineEnds
  <2>16. QED
    BY <2>1, <2>2, <2>3, <2>4, <2>5, <2>6, <2>7, <2>8,
       <2>9, <2>10, <2>11, <2>12, <2>13, <2>14, <2>15
       DEF TaskNext, EngineNext
<1>3. QED
  BY <1>1, <1>2 DEF ToldOrBeingTold

\* The actor marks the current generation and cancels its run one after the
\* other; nothing it does in between lets it forget.
LEMMA ToldByActor ==
    ASSUME GenTypes, ToldOrBeingTold, ActorNext \/ ContinuationIdleTimeout
    PROVE  ToldOrBeingTold'
<1> USE DEF ToldOrBeingTold
<1>1. CASE ReceiveDisconnect \/ HandleRunRequest \/ HandleUserMessage
  <2>1. CASE actor' = actor /\ run' = run /\ current' = current
    BY <2>1
  <2>2. CASE /\ SupersedeCurrent /\ actor' \in {"replacing", "disconnecting"}
             /\ current' = current /\ actor = "looping"
    <3>1. ASSUME NEW g \in Generations, g # current
          PROVE  run'[g] = run[g]
      BY <2>2, <3>1 DEF SupersedeCurrent, GenTypes
    <3>2. QED
      BY <2>2, <3>1
  <2>3. QED
    BY <1>1, <2>1, <2>2 DEF ReceiveDisconnect, HandleRunRequest, HandleUserMessage,
       MayReceive, InLoop
<1>2. CASE FinishDisconnect \/ StartGeneration \/ HandleCancelAction
  <2>1. \A g \in Generations :
            /\ CancelCurrent[g].superseded = run[g].superseded
            /\ CancelCurrent[g].task = run[g].task
            /\ run[g].cancelled => CancelCurrent[g].cancelled
            /\ g = current /\ run[g].task = "running" => CancelCurrent[g].cancelled
    BY DEF CancelCurrent, GenTypes, GoodRuns, AnyRuns, NoGeneration, Generations
  <2>2. CASE FinishDisconnect \/ HandleCancelAction
    BY <2>1, <2>2 DEF FinishDisconnect, HandleCancelAction
  <2>3. CASE StartGeneration
    <3>1. ASSUME NEW g \in Generations
          PROVE  run'[g] = CancelCurrent[g] \/ run'[g].task = "waiting"
      BY <2>3, TellingTypes DEF StartGeneration, NoRun, GenTypes
    <3>2. QED
      BY <2>1, <2>3, <3>1 DEF StartGeneration
  <2>4. QED
    BY <1>2, <2>2, <2>3
<1>3. CASE ReceiveAppend \/ ReceiveRunFinished
  BY <1>3 DEF ReceiveAppend, ReceiveRunFinished
<1>4. CASE WaitAdmissionsDrained \/ DeclareDraining
  BY <1>4 DEF WaitAdmissionsDrained, DeclareDraining, actorVars
<1>5. CASE DrainEnd \/ HandleConflictingRequest
  BY <1>5 DEF DrainEnd, HandleConflictingRequest, InLoop
<1>6. CASE ActorEnds
  BY <1>6 DEF ActorEnds
<1>7. CASE ContinuationIdleTimeout
  BY <1>7 DEF ContinuationIdleTimeout
<1>8. QED
  BY <1>1, <1>2, <1>3, <1>4, <1>5, <1>6, <1>7 DEF ActorNext

LEMMA ToldStep == GenTypes /\ ToldOrBeingTold /\ [Next]_vars => ToldOrBeingTold'
<1>1. ToldOrBeingTold /\ UNCHANGED vars => ToldOrBeingTold'
  BY DEF ToldOrBeingTold, vars, actorVars
<1>2. ToldOrBeingTold /\ (HandlerNext \/ DropStream \/ SendDisconnect) => ToldOrBeingTold'
  BY DEF ToldOrBeingTold, HandlerNext, DropStream, SendDisconnect, AdmitAppend, RefuseAppend, SendAppend,
     ReturnAppend, NotifyActor, actorVars
<1>3. QED
  BY <1>1, <1>2, ToldByTask, ToldByActor DEF Next

LEMMA ToldInit == Init => ToldOrBeingTold
BY DEF Init, ToldOrBeingTold, NoRun

\* However the actor, the generation that is replaced and its engine take
\* turns, no replaced run goes on without having been cancelled.
THEOREM ReplacedRunsAreTold == Spec => []SupersededRunsAreCancelled
<1>1. ToldOrBeingTold => SupersededRunsAreCancelled
  BY DEF ToldOrBeingTold, SupersededRunsAreCancelled
<1>2. QED
  BY <1>1, ToldInit, ToldStep, TypesHold, PTL DEF Spec
-----------------------------------------------------------------------------
(* Drains.                                                                  *)

NoAppendQueued == \A i \in 1 .. Len(channel) : channel[i].type # "Append"

\* Why DrainLosesNothing holds: whoever still has something to send holds an
\* admission, and the last look was taken at a transport that has none, admits
\* none and is not reopened once the actor has left its loop.
QuietOnceDrained ==
    /\ \A a \in Appends : append[a] \in {"admitted", "sent"} => a \in holders
    /\ exit = "drained" =>
         /\ actor \in {"exited", "ended"} /\ state \in {"Draining", "Closed"}
         /\ holders = {} /\ NoAppendQueued

LEMMA QuietInit == Init => QuietOnceDrained
BY DEF Init, QuietOnceDrained

\* Only an append handler puts an Append on the channel.
LEMMA SentIsQuiet ==
    ASSUME channel \in Seq(Commands), NoAppendQueued, NEW c \in Commands,
           c.type # "Append", channel' = Sent(c)
    PROVE  NoAppendQueued'
BY DEF NoAppendQueued, Sent

LEMMA QuietHandlers ==
    ASSUME GenTypes, QuietOnceDrained, HandlerNext
    PROVE  QuietOnceDrained'
<1> USE DEF QuietOnceDrained, GenTypes
<1> PICK a \in Appends : \/ AdmitAppend(a) \/ RefuseAppend(a) \/ SendAppend(a)
                        \/ ReturnAppend(a) \/ NotifyActor(a)
  BY DEF HandlerNext
<1>1. CASE AdmitAppend(a)
  BY <1>1 DEF AdmitAppend, Admit, actorVars, NoAppendQueued
<1>2. CASE RefuseAppend(a)
  BY <1>2 DEF RefuseAppend, lifecycleVars, actorVars, NoAppendQueued
<1>3. CASE SendAppend(a)
  <2>1. exit # "drained"
    BY <1>3 DEF SendAppend
  <2>2. QED
    BY <1>3, <2>1 DEF SendAppend, lifecycleVars, actorVars
<1>4. CASE ReturnAppend(a)
  <2>1. exit # "drained"
    BY <1>4 DEF ReturnAppend, DropAdmission
  <2>2. QED
    BY <1>4, <2>1 DEF ReturnAppend, DropAdmission, actorVars
<1>5. CASE NotifyActor(a)
  BY <1>5 DEF NotifyActor, NotifyDrained, actorVars, NoAppendQueued
<1>6. QED
  BY <1>1, <1>2, <1>3, <1>4, <1>5

\* Before it leaves, the actor keeps every holder; the leaving itself sees an
\* empty channel of a Draining transport.
LEMMA QuietActor ==
    ASSUME LInv, QuietOnceDrained, ActorNext \/ ContinuationIdleTimeout
    PROVE  QuietOnceDrained'
<1> USE DEF QuietOnceDrained
<1>1. UNCHANGED <<append, holders>>
  BY DEF ActorNext, ReceiveAppend, ReceiveRunFinished, ReceiveDisconnect, FinishDisconnect,
     WaitAdmissionsDrained, DeclareDraining, DrainEnd, ActorEnds, HandleRunRequest,
     StartGeneration, HandleConflictingRequest, HandleUserMessage, HandleCancelAction,
     ContinuationIdleTimeout, LeaveLoopHead, LeaveWait, BeginClose, StartWait, ReadCounter,
     Poll, WakeUp, MarkDraining, Close, ReopenForRequest, Reopen, lifecycleVars
<1>2. CASE DrainEnd
  BY <1>1, <1>2 DEF DrainEnd, LastLook, LInv, DrainingHasNoAppend, lifecycleVars, NoAppendQueued
<1>3. CASE ActorEnds
  BY <1>1, <1>3 DEF ActorEnds, Close, NoAppendQueued
<1>4. CASE ~ DrainEnd /\ ~ ActorEnds
  <2>1. exit' # "drained"
    BY <1>4 DEF ActorNext, ReceiveAppend, ReceiveRunFinished, ReceiveDisconnect,
       FinishDisconnect, WaitAdmissionsDrained, DeclareDraining, HandleRunRequest,
       StartGeneration, HandleConflictingRequest, HandleUserMessage, HandleCancelAction,
       ContinuationIdleTimeout, MayReceive, InLoop, actorVars
  <2>2. QED
    BY <1>1, <2>1
<1>5. QED
  BY <1>2, <1>3, <1>4

LEMMA QuietTasks ==
    ASSUME GenTypes, QuietOnceDrained, NEW g \in Generations, TaskNext(g) \/ EngineNext(g)
    PROVE  QuietOnceDrained'
<1> USE DEF QuietOnceDrained
<1>1. UNCHANGED <<append, holders, exit, actor, state>>
  BY DEF TaskNext, Abandon, BeginPreparing, InstallRun, Launch, OutputStops, OutputCompletes,
     Release, CheckSuperseded, Report, EngineNext, Prepare, EndWithoutRun,
     EngineBeginsFinalizing, EngineResumes, EngineEnds, OutputFails, GenerationStep,
     lifecycleVars, actorVars
<1>2. CASE Report(g)
  <2> DEFINE c == [type |-> "RunFinished", generation |-> g, finish |-> run[g].finish]
  <2>1. c \in Commands /\ c.type # "Append"
    BY <1>2 DEF Report, GenTypes, GoodRuns, AnyRuns, Commands
  <2>2. channel' = Sent(c) /\ channel \in Seq(Commands)
    BY <1>2 DEF Report, Send, GenTypes
  <2> HIDE DEF c
  <2>3. NoAppendQueued => NoAppendQueued'
    BY <2>1, <2>2, SentIsQuiet
  <2>4. QED
    BY <1>1, <2>3
<1>3. CASE ~ Report(g)
  <2>1. channel' = channel
    BY <1>3 DEF TaskNext, Abandon, BeginPreparing, InstallRun, Launch, OutputStops,
       OutputCompletes, Release, CheckSuperseded, EngineNext, Prepare, EndWithoutRun,
       EngineBeginsFinalizing, EngineResumes, EngineEnds, OutputFails
  <2>2. QED
    BY <1>1, <2>1 DEF NoAppendQueued
<1>4. QED
  BY <1>2, <1>3

LEMMA QuietStep == LInv /\ GenTypes /\ QuietOnceDrained /\ [Next]_vars => QuietOnceDrained'
<1>1. QuietOnceDrained /\ UNCHANGED vars => QuietOnceDrained'
  BY DEF QuietOnceDrained, vars, actorVars, lifecycleVars, NoAppendQueued
<1>2. ASSUME GenTypes, QuietOnceDrained, SendDisconnect
      PROVE  QuietOnceDrained'
  <2> DEFINE c == [type |-> "Disconnect"]
  <2>1. c \in Commands /\ c.type # "Append"
    BY DEF Commands
  <2>2. channel' = Sent(c) /\ channel \in Seq(Commands)
    BY <1>2 DEF SendDisconnect, Send, GenTypes
  <2> HIDE DEF c
  <2>3. NoAppendQueued => NoAppendQueued'
    BY <2>1, <2>2, SentIsQuiet
  <2>4. QED
    BY <1>2, <2>3 DEF SendDisconnect, QuietOnceDrained, actorVars, lifecycleVars
<1>2a. QuietOnceDrained /\ DropStream => QuietOnceDrained'
  BY DEF QuietOnceDrained, DropStream, actorVars, lifecycleVars, NoAppendQueued
<1>3. QED
  BY <1>1, <1>2, <1>2a, QuietHandlers, QuietActor, QuietTasks DEF Next

\* A drain that ends the stream leaves no acknowledged append behind, for any
\* number of appends sent in any order and any turns the actor takes with them.
THEOREM DrainIsComplete == Spec => []DrainLosesNothing
<1>1. QuietOnceDrained => DrainLosesNothing
  BY DEF QuietOnceDrained, NoAppendQueued, DrainLosesNothing
<1>2. QED
  BY <1>1, QuietInit, QuietStep, LifecycleHolds, TypesHold, PTL DEF Spec

-----------------------------------------------------------------------------
(* Turns.                                                                   *)

\* What the reports of a generation mean to the client.
EndedWith(finish) == IF finish = "TurnCompleted" THEN "Success" ELSE finish

\* Generations are numbered as they are started, the current one the last.
Numbered ==
    /\ current < nextGeneration
    /\ \A g \in Generations : g >= nextGeneration => run[g].task = "none"

\* All but the current one have been superseded, and that one too while it is
\* being replaced.
OthersSuperseded ==
    \A g \in Generations :
        g < nextGeneration /\ (g # current \/ actor = "replacing") => run[g].superseded

\* A report is the last thing a generation does.
ReportsAreTrue ==
    \A i \in 1 .. Len(channel) :
        channel[i].type = "RunFinished" =>
            /\ run[channel[i].generation].task = "done"
            /\ run[channel[i].generation].finish = channel[i].finish

TurnIsDone == current \in Generations /\ run[current].task = "done"

\* Where the actor stands is where the current turn stands: it waits or drains
\* only after that turn, and what it is about to close the stream with is what
\* that turn reported.
InStep ==
    /\ exit # "none" => actor \in {"exited", "ended"}
    /\ exit = "none" => output = "open"
    /\ actor = "replacing" => ~ draining /\ ~ waitingForAction
    /\ exit = "none" /\ waitingForAction =>
         TurnIsDone /\ run[current].finish = "TurnCompleted"
    /\ exit = "none" /\ draining =>
         /\ TurnIsDone
         /\ pendingFinish = [generation |-> current,
                             finish |-> EndedWith(run[current].finish)]
    /\ exit = "drained" => TurnIsDone /\ output = EndedWith(run[current].finish)

\* What the inbox holds and has released is appends.
InboxTypes ==
    /\ inbox = [next |-> inbox.next, pending |-> inbox.pending]
    /\ inbox.next \in Nat
    /\ \E M \in Nat : inbox.next <= M /\ DOMAIN inbox.pending \subseteq 0 .. M - 1
    /\ \A s \in DOMAIN inbox.pending : inbox.pending[s] \in Appends
    /\ ready \in Seq(Appends)

TurnInv == Numbered /\ OthersSuperseded /\ ReportsAreTrue /\ InStep

LEMMA TurnInit == Init => TurnInv /\ InboxTypes
<1> SUFFICES ASSUME Init PROVE TurnInv /\ InboxTypes
  OBVIOUS
<1>1. inbox = [next |-> 0, pending |-> <<>>] /\ DOMAIN inbox.pending = {}
  BY DEF Init, StartingAt
<1>2. InboxTypes
  <2>1. <<>> \in Seq(Appends) /\ ready = <<>>
    BY DEF Init
  <2>2. QED
    BY <1>1, <2>1 DEF InboxTypes
<1>3. Numbered /\ OthersSuperseded /\ ReportsAreTrue /\ InStep
  BY DEF Init, Numbered, OthersSuperseded, ReportsAreTrue, InStep, NoRun, NoGeneration,
     Generations
<1>4. QED
  BY <1>2, <1>3 DEF TurnInv

-----------------------------------------------------------------------------
(* The inbox.                                                               *)

\* Every set of natural numbers that is not empty has a smallest element.
LEMMA LeastNatural ==
    ASSUME NEW T, T \subseteq Nat, T # {}
    PROVE  \E m \in T : \A k \in T : m <= k
<1>1. PICK m \in T : \A k \in T : ~ (<<k, m>> \in OpToRel(<, Nat))
  BY NatLessThanWellFounded, WFMin
<1>2. \A k \in T : m <= k
  <2> SUFFICES ASSUME NEW k \in T PROVE m <= k
    OBVIOUS
  <2>1. k \in Nat /\ m \in Nat
    OBVIOUS
  <2>2. <<k, m>> \in OpToRel(<, Nat) <=> k < m
    BY <2>1 DEF OpToRel
  <2>3. ~ (k < m)
    BY <1>1, <2>2
  <2>4. QED
    BY <2>1, <2>3
<1>3. QED
  BY <1>2

\* The release loop stops at a number, and has released what it had for all
\* the numbers before it.
LEMMA ReleaseStops ==
    ASSUME NEW box, NEW M \in Nat, box.next \in 0 .. M,
           DOMAIN box.pending \subseteq 0 .. M - 1
    PROVE  /\ NextGap(box) \in box.next .. M
           /\ \A j \in box.next .. NextGap(box) - 1 : j \in DOMAIN box.pending
<1> DEFINE n == box.next
           D == DOMAIN box.pending
           T == {k \in Nat : k >= n /\ k \notin D}
           Stops(k) == /\ k \notin D
                       /\ \A j \in n .. k - 1 : j \in D
<1>1. n \in Nat /\ n <= M /\ M \in T
  OBVIOUS
<1>2. PICK k \in T : \A i \in T : k <= i
  BY <1>1, LeastNatural
<1>3. Stops(k)
  BY <1>1, <1>2
<1>4. IsFiniteSet(D) /\ Cardinality(D) \in Nat
  <2>1. 0 \in Int /\ M - 1 \in Int
    OBVIOUS
  <2>2. IsFiniteSet(0 .. M - 1)
    BY <2>1, FS_Interval
  <2>3. IsFiniteSet(D)
    BY <2>2, FS_Subset
  <2>4. QED
    BY <2>3, FS_CardinalityType
<1>5. k <= n + Cardinality(D)
  <2>1. n .. k - 1 \in SUBSET D
    BY <1>3
  <2>2. Cardinality(n .. k - 1) <= Cardinality(D)
    BY <1>4, <2>1, FS_Subset
  <2>3. Cardinality(n .. k - 1) = IF n > k - 1 THEN 0 ELSE (k - 1) - n + 1
    <3>1. n \in Int /\ k - 1 \in Int
      BY <1>1
    <3>2. QED
      BY <3>1, FS_Interval
  <2>4. QED
    BY <1>1, <1>4, <2>2, <2>3
<1>6. \E i \in n .. n + Cardinality(D) : Stops(i)
  BY <1>1, <1>2, <1>3, <1>4, <1>5
<1>7. NextGap(box) \in n .. n + Cardinality(D) /\ Stops(NextGap(box))
  <2>1. NextGap(box) = CHOOSE i \in n .. n + Cardinality(D) : Stops(i)
    BY DEF NextGap
  <2> HIDE DEF n, D, Stops
  <2>2. QED
    BY <1>6, <2>1
<1>8. NextGap(box) <= M
  BY <1>1, <1>4, <1>7
<1>9. QED
  BY <1>1, <1>4, <1>7, <1>8

\* Only what was pushed comes out of the inbox.
LEMMA PushedAppends ==
    ASSUME InboxTypes, NEW a \in Appends, Seqno[a] \in Nat,
           inbox' = Push(inbox, Seqno[a], a).inbox, ready' = Push(inbox, Seqno[a], a).ready
    PROVE  InboxTypes'
<1> DEFINE s == Seqno[a]
           filled == Insert(inbox, s, a)
<1>1. CASE Ignored(inbox, s)
  <2>1. inbox' = inbox /\ ready' = <<>> /\ <<>> \in Seq(Appends)
    BY <1>1 DEF Push
  <2>2. QED
    BY <2>1 DEF InboxTypes
<1>2. CASE ~ Ignored(inbox, s)
  <2>1. PICK M \in Nat : inbox.next <= M /\ DOMAIN inbox.pending \subseteq 0 .. M - 1
    BY DEF InboxTypes
  <2> DEFINE N == IF M > s THEN M ELSE s + 1
             gap == NextGap(filled)
  <2>2. /\ filled.next = inbox.next
        /\ DOMAIN filled.pending = DOMAIN inbox.pending \cup {s}
        /\ \A k \in DOMAIN filled.pending : filled.pending[k] \in Appends
    BY DEF Insert, InboxTypes
  <2>3. /\ N \in Nat /\ filled.next \in 0 .. N /\ inbox.next \in Nat
        /\ DOMAIN filled.pending \subseteq 0 .. N - 1
    BY <2>1, <2>2 DEF InboxTypes
  <2>4. /\ inbox' = AfterRelease(filled)
        /\ ready' = ReadyValues(filled)
    BY <1>2 DEF Push
  <2> HIDE DEF filled, N, s
  <2>5. /\ gap \in filled.next .. N
        /\ \A j \in filled.next .. gap - 1 : j \in DOMAIN filled.pending
    BY <2>3, ReleaseStops
  <2>6. ready' \in Seq(Appends)
    <3>1. gap - filled.next \in Nat
      BY <2>2, <2>3, <2>5
    <3>2. ready' = [i \in 1 .. gap - filled.next |-> filled.pending[filled.next + i - 1]]
      BY <2>4 DEF ReadyValues
    <3>3. \A i \in 1 .. gap - filled.next : filled.next + i - 1 \in filled.next .. gap - 1
      BY <2>2, <2>3, <2>5
    <3>4. ready' \in [1 .. gap - filled.next -> Appends]
      BY <2>2, <2>5, <3>2, <3>3
    <3>5. QED
      BY <3>1, <3>4
  <2>7. /\ inbox' = [next |-> gap,
                     pending |-> [k \in DOMAIN filled.pending \ (filled.next .. gap - 1) |->
                                    filled.pending[k]]]
    BY <2>4 DEF AfterRelease
  <2> HIDE DEF gap
  <2>8. /\ inbox' = [next |-> inbox'.next, pending |-> inbox'.pending]
        /\ inbox'.next = gap
        /\ DOMAIN inbox'.pending \subseteq DOMAIN filled.pending
        /\ \A k \in DOMAIN inbox'.pending : inbox'.pending[k] = filled.pending[k]
    BY <2>7
  <2>9. inbox'.next \in Nat /\ inbox'.next <= N /\ DOMAIN inbox'.pending \subseteq 0 .. N - 1
    BY <2>3, <2>5, <2>8
  <2>10. \A k \in DOMAIN inbox'.pending : inbox'.pending[k] \in Appends
    BY <2>2, <2>8
  <2>11. QED
    BY <2>3, <2>6, <2>8, <2>9, <2>10 DEF InboxTypes
<1>3. QED
  BY <1>1, <1>2

LEMMA InboxStep == GenTypes /\ InboxTypes /\ [Next]_vars => InboxTypes'
<1> SUFFICES ASSUME GenTypes, InboxTypes, [Next]_vars PROVE InboxTypes'
  OBVIOUS
<1>1. CASE ReceiveAppend
  <2>1. Head(channel) \in Commands /\ Head(channel).type = "Append"
    BY <1>1 DEF ReceiveAppend, MayReceive, GenTypes
  <2>2. Head(channel).append \in Appends
    BY <2>1 DEF Commands
  <2>3. QED
    BY <1>1, <2>2, SeqnoAssumption, PushedAppends DEF ReceiveAppend
<1>2. ASSUME inbox' = inbox,
             ready' = ready \/ (ready # <<>> /\ ready' = Tail(ready)) \/ ready' = <<>>
      PROVE  InboxTypes'
  <2>1. <<>> \in Seq(Appends) /\ (ready # <<>> => Tail(ready) \in Seq(Appends))
    BY DEF InboxTypes
  <2>2. ready' \in Seq(Appends)
    BY <1>2, <2>1 DEF InboxTypes
  <2>3. QED
    BY <1>2, <2>2 DEF InboxTypes
<1>3. CASE HandlerNext \/ DropStream \/ SendDisconnect \/ UNCHANGED vars
  BY <1>2, <1>3 DEF HandlerNext, DropStream, SendDisconnect, AdmitAppend, RefuseAppend, SendAppend,
     ReturnAppend, NotifyActor, actorVars, vars
<1>4. CASE \/ ReceiveRunFinished \/ ReceiveDisconnect \/ FinishDisconnect
           \/ WaitAdmissionsDrained \/ DeclareDraining \/ DrainEnd \/ ActorEnds
           \/ ContinuationIdleTimeout
  BY <1>2, <1>4 DEF ReceiveRunFinished, ReceiveDisconnect, FinishDisconnect,
     WaitAdmissionsDrained, DeclareDraining, DrainEnd, ActorEnds, ContinuationIdleTimeout,
     actorVars
<1>5. CASE \/ HandleRunRequest \/ StartGeneration \/ HandleConflictingRequest
           \/ HandleUserMessage \/ HandleCancelAction
  BY <1>2, <1>5 DEF HandleRunRequest, StartGeneration, HandleConflictingRequest,
     HandleUserMessage, HandleCancelAction
<1>6. ASSUME NEW g \in Generations, TaskNext(g) \/ EngineNext(g)
      PROVE  UNCHANGED actorVars
  BY <1>6 DEF TaskNext, Abandon, BeginPreparing, InstallRun, Launch, OutputStops,
     OutputCompletes, Release, CheckSuperseded, Report, EngineNext, Prepare, EndWithoutRun,
     EngineBeginsFinalizing, EngineResumes, EngineEnds, OutputFails, GenerationStep
<1>7. QED
  BY <1>1, <1>2, <1>3, <1>4, <1>5, <1>6 DEF Next, ActorNext, actorVars

-----------------------------------------------------------------------------
(* Turns, step by step.                                                     *)

\* What the steps of a generation's task and of its engine leave alone: the
\* actor, every other generation, and what it has reported.
LEMMA GenerationEffect ==
    ASSUME GenTypes, NEW g \in Generations, TaskNext(g) \/ EngineNext(g)
    PROVE  /\ UNCHANGED <<actor, exit, draining, waitingForAction, pendingFinish, current,
                          nextGeneration, output>>
           /\ \A h \in Generations \ {g} : run'[h] = run[h]
           /\ run'[g].superseded = run[g].superseded
           /\ run[g].task = "none" => run'[g].task = "none"
           /\ run[g].task = "done" => run'[g].task = "done" /\ run'[g].finish = run[g].finish
           /\ \/ channel' = channel
              \/ /\ run'[g].task = "done"
                 /\ channel' = Sent([type |-> "RunFinished", generation |-> g,
                                     finish |-> run'[g].finish])
<1>1. UNCHANGED <<actor, exit, draining, waitingForAction, pendingFinish, current,
                  nextGeneration, output>>
  BY DEF TaskNext, Abandon, BeginPreparing, InstallRun, Launch, OutputStops, OutputCompletes,
     Release, CheckSuperseded, Report, EngineNext, Prepare, EndWithoutRun,
     EngineBeginsFinalizing, EngineResumes, EngineEnds, OutputFails, GenerationStep, actorVars
<1> DEFINE Effect ==
      /\ \A h \in Generations \ {g} : run'[h] = run[h]
      /\ run'[g].superseded = run[g].superseded
      /\ run[g].task = "none" => run'[g].task = "none"
      /\ run[g].task = "done" => run'[g].task = "done" /\ run'[g].finish = run[g].finish
<1>2. run[g] \in AnyRuns /\ run \in [Generations -> AnyRuns]
  BY DEF GenTypes, GoodRuns
<1>3. /\ Effect
      /\ ~ Report(g) => channel' = channel
      /\ Report(g) => /\ run'[g].task = "done" /\ run'[g].finish = run[g].finish
                      /\ channel' = Sent([type |-> "RunFinished", generation |-> g,
                                          finish |-> run[g].finish])
  <2> USE <1>2 DEF AnyRuns, GenerationStep
  <2>1. CASE Launch(g)
    BY <2>1 DEF Launch, Launched, Report
  <2>2. CASE Abandon(g)
    BY <2>2 DEF Abandon, Report
  <2>3. CASE BeginPreparing(g)
    BY <2>3 DEF BeginPreparing, Report
  <2>4. CASE InstallRun(g)
    BY <2>4 DEF InstallRun, Report
  <2>5. CASE OutputStops(g)
    BY <2>5 DEF OutputStops, Report
  <2>6. CASE OutputCompletes(g)
    BY <2>6 DEF OutputCompletes, Report
  <2>7. CASE Release(g)
    BY <2>7 DEF Release, Report
  <2>8. CASE CheckSuperseded(g)
    BY <2>8 DEF CheckSuperseded, Report
  <2>9. CASE Report(g)
    BY <2>9 DEF Report, Send
  <2>10. CASE Prepare(g)
    BY <2>10 DEF Prepare, Report
  <2>11. CASE EngineBeginsFinalizing(g)
    BY <2>11 DEF EngineBeginsFinalizing, Report
  <2>12. CASE EngineResumes(g)
    BY <2>12 DEF EngineResumes, Report
  <2>13. CASE OutputFails(g)
    BY <2>13 DEF OutputFails, Report
  <2>14. CASE \E finish \in {"Failed", "Success"} : EndWithoutRun(g, finish)
    BY <2>14 DEF EndWithoutRun, Report
  <2>15. CASE \E outcome \in {"Completed", "Cancelled", "Failed"} : EngineEnds(g, outcome)
    BY <2>15 DEF EngineEnds, Report
  <2>16. QED
    BY <2>1, <2>2, <2>3, <2>4, <2>5, <2>6, <2>7, <2>8,
       <2>9, <2>10, <2>11, <2>12, <2>13, <2>14, <2>15
       DEF TaskNext, EngineNext
<1>4. QED
  BY <1>1, <1>3

\* A command that is sent is the last on the channel.
LEMMA SentChannel ==
    ASSUME channel \in Seq(Commands), NEW c \in Commands, channel' = Sent(c),
           NEW i \in 1 .. Len(channel')
    PROVE  channel'[i] = c \/ (i \in 1 .. Len(channel) /\ channel'[i] = channel[i])
BY DEF Sent

\* What is left of a channel was in it.
LEMMA RestOfChannel ==
    ASSUME channel \in Seq(Commands), channel # <<>>, channel' = Tail(channel),
           NEW i \in 1 .. Len(channel')
    PROVE  i + 1 \in 1 .. Len(channel) /\ channel'[i] = channel[i + 1]
OBVIOUS

\* Steps after which no report says less than before: what a done generation
\* has reported stays, and a new report is of one that is done.
LEMMA ReportsStayTrue ==
    ASSUME GenTypes, ReportsAreTrue,
           \A g \in Generations : run[g].task = "done" =>
               run'[g].task = "done" /\ run'[g].finish = run[g].finish,
           \A i \in 1 .. Len(channel') :
               \/ \E j \in 1 .. Len(channel) : channel'[i] = channel[j]
               \/ channel'[i].type # "RunFinished"
               \/ LET g == channel'[i].generation
                  IN  run'[g].task = "done" /\ run'[g].finish = channel'[i].finish
    PROVE  ReportsAreTrue'
<1> SUFFICES ASSUME NEW i \in 1 .. Len(channel'), channel'[i].type = "RunFinished"
             PROVE  /\ run'[channel'[i].generation].task = "done"
                    /\ run'[channel'[i].generation].finish = channel'[i].finish
  BY DEF ReportsAreTrue
<1>1. CASE \E j \in 1 .. Len(channel) : channel'[i] = channel[j]
  <2>1. PICK j \in 1 .. Len(channel) : channel'[i] = channel[j]
    BY <1>1
  <2>2. channel[j] \in Commands /\ channel[j].type = "RunFinished"
    BY <2>1 DEF GenTypes
  <2>3. channel[j].generation \in Generations
    BY <2>2 DEF Commands
  <2>4. QED
    BY <2>1, <2>2, <2>3 DEF ReportsAreTrue
<1>2. QED
  BY <1>1

LEMMA TurnByTask ==
    ASSUME GenTypes, TurnInv, NEW g \in Generations, TaskNext(g) \/ EngineNext(g)
    PROVE  TurnInv'
<1> USE DEF TurnInv
<1>0. GenTypes'
  BY TaskTypes, EngineTypes
<1>1. /\ UNCHANGED <<actor, exit, draining, waitingForAction, pendingFinish, current,
                     nextGeneration, output>>
      /\ \A h \in Generations :
            /\ run'[h].superseded = run[h].superseded
            /\ run[h].task = "none" => run'[h].task = "none"
            /\ run[h].task = "done" => run'[h].task = "done" /\ run'[h].finish = run[h].finish
  BY GenerationEffect
<1>2. Numbered' /\ OthersSuperseded'
  BY <1>1 DEF Numbered, OthersSuperseded
<1>3. InStep'
  BY <1>1 DEF InStep, TurnIsDone
<1>4. CASE channel' = channel
  <2>1. ReportsAreTrue'
    BY <1>1, <1>4, ReportsStayTrue
  <2>2. QED
    BY <1>2, <1>3, <2>1
<1>5. ASSUME run'[g].task = "done",
             channel' = Sent([type |-> "RunFinished", generation |-> g,
                              finish |-> run'[g].finish])
      PROVE  ReportsAreTrue'
  <2> DEFINE c == [type |-> "RunFinished", generation |-> g, finish |-> run'[g].finish]
  <2>1. CASE actor = "ended"
    <3>1. channel' = channel
      BY <1>5, <2>1 DEF Sent
    <3>2. QED
      BY <1>1, <3>1, ReportsStayTrue
  <2>2. CASE actor # "ended"
    <3>1. channel' = Append(channel, c) /\ channel \in Seq(Commands)
      BY <1>5, <2>2 DEF Sent, GenTypes
    <3>2. c.generation = g /\ c.finish = run'[g].finish
      OBVIOUS
    <3> HIDE DEF c
    <3>3. \A i \in 1 .. Len(channel') :
             channel'[i] = c \/ \E j \in 1 .. Len(channel) : channel'[i] = channel[j]
      BY <3>1
    <3>4. QED
      BY <1>1, <1>5, <3>2, <3>3, ReportsStayTrue
  <2>3. QED
    BY <2>1, <2>2
<1>6. QED
  BY <1>2, <1>3, <1>4, <1>5, GenerationEffect

LEMMA TurnByHandler ==
    ASSUME GenTypes, TurnInv, HandlerNext \/ DropStream \/ SendDisconnect \/ UNCHANGED vars
    PROVE  TurnInv'
<1>1. UNCHANGED <<actor, exit, draining, waitingForAction, pendingFinish, current,
                  nextGeneration, run, output>>
  BY DEF HandlerNext, DropStream, SendDisconnect, AdmitAppend, RefuseAppend, SendAppend,
     ReturnAppend, NotifyActor, actorVars, vars
<1>2. \/ channel' = channel
      \/ \E c \in Commands : c.type # "RunFinished" /\ channel' = Sent(c)
  <2>1. \A a \in Appends : LET c == [type |-> "Append", append |-> a]
                           IN  c \in Commands /\ c.type # "RunFinished"
    BY DEF Commands
  <2>2. LET c == [type |-> "Disconnect"] IN c \in Commands /\ c.type # "RunFinished"
    BY DEF Commands
  <2>3. CASE \E a \in Appends : SendAppend(a)
    BY <2>1, <2>3 DEF SendAppend, Send
  <2>4. CASE SendDisconnect
    BY <2>2, <2>4 DEF SendDisconnect, Send
  <2>5. CASE ~ SendDisconnect /\ ~ \E a \in Appends : SendAppend(a)
    BY <2>5 DEF HandlerNext, DropStream, AdmitAppend, RefuseAppend, ReturnAppend, NotifyActor,
       vars
  <2>6. QED
    BY <2>3, <2>4, <2>5
<1>3. ReportsAreTrue'
  <2>1. \A i \in 1 .. Len(channel') :
           \/ \E j \in 1 .. Len(channel) : channel'[i] = channel[j]
           \/ channel'[i].type # "RunFinished"
    BY <1>2, SentChannel DEF GenTypes
  <2>2. QED
    BY <1>1, <2>1, ReportsStayTrue DEF TurnInv
<1>4. QED
  BY <1>1, <1>3 DEF TurnInv, Numbered, OthersSuperseded, InStep, TurnIsDone

\* Superseding and cancelling the current generation changes nothing else.
LEMMA TellingEffect ==
    ASSUME GenTypes, SupersedeCurrent \/ run' = CancelCurrent
    PROVE  \A g \in Generations :
              /\ run'[g].task = run[g].task /\ run'[g].finish = run[g].finish
              /\ run[g].superseded => run'[g].superseded
              /\ SupersedeCurrent /\ g = current => run'[g].superseded
<1>1. /\ run \in [Generations -> AnyRuns]
      /\ \A g \in Generations : g # NoGeneration
  BY DEF GenTypes, GoodRuns, NoGeneration, Generations
<1>2. CASE SupersedeCurrent
  BY <1>1, <1>2 DEF SupersedeCurrent, AnyRuns
<1>3. CASE ~ SupersedeCurrent
  BY <1>1, <1>3 DEF CancelCurrent, AnyRuns
<1>4. QED
  BY <1>2, <1>3

\* The steps in which the actor changes no run.
LEMMA TurnByActor ==
    ASSUME GenTypes, TurnInv, UNCHANGED <<run, current, nextGeneration>>,
           actor' # "replacing" \/ actor' = actor,
           channel' \in {channel, <<>>} \/ (channel # <<>> /\ channel' = Tail(channel)),
           InStep'
    PROVE  TurnInv'
<1>1. ReportsAreTrue'
  <2>1. \A i \in 1 .. Len(channel') :
           \E j \in 1 .. Len(channel) : channel'[i] = channel[j]
    BY RestOfChannel DEF GenTypes
  <2>2. QED
    BY <2>1, ReportsStayTrue DEF TurnInv
<1>2. QED
  BY <1>1 DEF TurnInv, Numbered, OthersSuperseded

LEMMA TurnByReport ==
    ASSUME GenTypes, TurnInv, ReceiveRunFinished
    PROVE  TurnInv'
<1>1. /\ UNCHANGED <<run, current, nextGeneration, actor, exit, output>>
      /\ channel # <<>> /\ channel' = Tail(channel)
      /\ actor = "looping" /\ exit = "none"
      /\ Head(channel).type = "RunFinished"
  BY DEF ReceiveRunFinished, MayReceive, InLoop, TurnInv, InStep
<1> DEFINE report == Head(channel)
<1>2. report \in Commands /\ 1 \in 1 .. Len(channel) /\ report = channel[1]
  BY <1>1 DEF GenTypes
<1>3. /\ report.generation \in Generations
      /\ run[report.generation].task = "done"
      /\ run[report.generation].finish = report.finish
  BY <1>1, <1>2 DEF TurnInv, ReportsAreTrue, Commands
<1>4. CASE ~ IsCurrent(report.generation) /\ UNCHANGED <<draining, waitingForAction, pendingFinish>>
  BY <1>1, <1>4, TurnByActor DEF TurnInv, InStep, TurnIsDone
<1>5. CASE /\ IsCurrent(report.generation) /\ report.finish = "TurnCompleted"
           /\ draining' = FALSE /\ waitingForAction' = TRUE
  <2>1. InStep'
    BY <1>1, <1>3, <1>5 DEF TurnInv, InStep, TurnIsDone, IsCurrent
  <2>2. QED
    BY <1>1, <2>1, TurnByActor
<1>6. CASE /\ IsCurrent(report.generation) /\ report.finish # "TurnCompleted"
           /\ pendingFinish' = [generation |-> report.generation, finish |-> report.finish]
           /\ draining' = TRUE /\ waitingForAction' = FALSE
  <2>1. InStep'
    BY <1>1, <1>3, <1>6 DEF TurnInv, InStep, TurnIsDone, IsCurrent, EndedWith
  <2>2. QED
    BY <1>1, <2>1, TurnByActor
<1>7. QED
  BY <1>4, <1>5, <1>6 DEF ReceiveRunFinished

\* The actor leaves its loop with what the current turn reported.
LEMMA TurnByDrainEnd ==
    ASSUME GenTypes, TurnInv, DrainEnd
    PROVE  TurnInv'
<1>1. /\ UNCHANGED <<run, current, nextGeneration, channel>>
      /\ actor = "looping" /\ exit = "none" /\ draining
      /\ actor' = "exited" /\ exit' = "drained"
      /\ output = "open"
  BY DEF DrainEnd, InLoop, TurnInv, InStep
<1>2. /\ TurnIsDone
      /\ pendingFinish = [generation |-> current, finish |-> EndedWith(run[current].finish)]
  BY <1>1 DEF TurnInv, InStep
<1>3. current # NoGeneration
  BY <1>2 DEF TurnIsDone, Generations, NoGeneration
<1>4. pendingFinish # NoFinish /\ pendingFinish.generation = current
  BY <1>2, <1>3 DEF NoFinish
<1>5. output' = EndedWith(run[current].finish)
  BY <1>1, <1>2, <1>4 DEF DrainEnd, CloseOutput
<1>6. InStep'
  BY <1>1, <1>2, <1>5 DEF InStep, TurnIsDone
<1>7. QED
  BY <1>1, <1>6, TurnByActor

\* A new generation: the one before it has been superseded.
LEMMA TurnByStart ==
    ASSUME GenTypes, TurnInv, StartGeneration
    PROVE  TurnInv'
<1> DEFINE new == nextGeneration
           fresh == [NoRun EXCEPT !.task = "waiting", !.previous = current]
<1>1. /\ UNCHANGED <<exit, draining, waitingForAction, pendingFinish, channel, output>>
      /\ actor = "replacing" /\ actor' = "looping" /\ exit = "none"
      /\ ~ draining /\ ~ waitingForAction
      /\ current' = new /\ nextGeneration' = new + 1
  BY DEF StartGeneration, TurnInv, InStep
<1>2. \A g \in Generations \ {new} : run'[g] = CancelCurrent[g]
  BY TellingTypes DEF StartGeneration
<1>3. \A g \in Generations :
         /\ CancelCurrent[g].task = run[g].task /\ CancelCurrent[g].finish = run[g].finish
         /\ CancelCurrent[g].superseded = run[g].superseded
  BY DEF CancelCurrent, GenTypes, GoodRuns, AnyRuns, NoGeneration, Generations
<1>4. new \in Nat /\ current \in Nat /\ current < new /\ Generations \subseteq Nat
  BY DEF GenTypes, TurnInv, Numbered, Generations
<1>5. new \in Generations => run[new].task = "none"
  BY <1>4 DEF TurnInv, Numbered
<1>6. Numbered'
  BY <1>1, <1>2, <1>3, <1>4 DEF TurnInv, Numbered
<1>7. OthersSuperseded'
  BY <1>1, <1>2, <1>3, <1>4 DEF TurnInv, OthersSuperseded
<1>8. ReportsAreTrue'
  <2>1. \A g \in Generations : run[g].task = "done" =>
           run'[g].task = "done" /\ run'[g].finish = run[g].finish
    BY <1>2, <1>3, <1>5
  <2>2. \A i \in 1 .. Len(channel') : \E j \in 1 .. Len(channel) : channel'[i] = channel[j]
    BY <1>1
  <2>3. QED
    BY <2>1, <2>2, ReportsStayTrue DEF TurnInv
<1>9. InStep'
  BY <1>1 DEF TurnInv, InStep
<1>10. QED
  BY <1>6, <1>7, <1>8, <1>9 DEF TurnInv

\* The current generation is superseded, by a request or with the stream.
LEMMA TurnByRequest ==
    ASSUME GenTypes, TurnInv, HandleRunRequest \/ ReceiveDisconnect
    PROVE  TurnInv'
<1>1. /\ UNCHANGED <<exit, current, nextGeneration, output>> /\ SupersedeCurrent
      /\ actor = "looping" /\ exit = "none"
      /\ channel' = channel \/ (channel # <<>> /\ channel' = Tail(channel))
  BY DEF HandleRunRequest, ReceiveDisconnect, MayReceive, InLoop, TurnInv, InStep
<1>2. \A g \in Generations :
         /\ run'[g].task = run[g].task /\ run'[g].finish = run[g].finish
         /\ run[g].superseded => run'[g].superseded
         /\ g = current => run'[g].superseded
  BY <1>1, TellingEffect
<1>3. Numbered' /\ OthersSuperseded'
  BY <1>1, <1>2 DEF TurnInv, Numbered, OthersSuperseded
<1>4. ReportsAreTrue'
  <2>1. \A i \in 1 .. Len(channel') : \E j \in 1 .. Len(channel) : channel'[i] = channel[j]
    BY <1>1, RestOfChannel DEF GenTypes
  <2>2. QED
    BY <1>2, <2>1, ReportsStayTrue DEF TurnInv
<1>5. InStep'
  <2>1. CASE HandleRunRequest
    <3>1. ~ draining' /\ ~ waitingForAction'
      BY <2>1 DEF HandleRunRequest, ReopenForRequest
    <3>2. QED
      BY <1>1, <2>1, <3>1 DEF TurnInv, InStep, HandleRunRequest
  <2>2. CASE ReceiveDisconnect
    BY <1>1, <1>2, <2>2 DEF TurnInv, InStep, TurnIsDone, ReceiveDisconnect
  <2>3. QED
    BY <2>1, <2>2
<1>6. QED
  BY <1>3, <1>4, <1>5 DEF TurnInv

\* A run is cancelled, by the client or with the stream.
LEMMA TurnByCancel ==
    ASSUME GenTypes, TurnInv, HandleCancelAction \/ FinishDisconnect
    PROVE  TurnInv'
<1>1. /\ UNCHANGED <<current, nextGeneration, channel, draining, waitingForAction,
                     pendingFinish>>
      /\ run' = CancelCurrent /\ actor' # "replacing" /\ exit = "none"
  BY DEF HandleCancelAction, FinishDisconnect, TurnInv, InStep
<1>2. \A g \in Generations :
         /\ run'[g].task = run[g].task /\ run'[g].finish = run[g].finish
         /\ run[g].superseded => run'[g].superseded
  BY <1>1, TellingEffect
<1>3. Numbered' /\ OthersSuperseded'
  BY <1>1, <1>2 DEF TurnInv, Numbered, OthersSuperseded
<1>4. ReportsAreTrue'
  <2>1. \A i \in 1 .. Len(channel') : \E j \in 1 .. Len(channel) : channel'[i] = channel[j]
    BY <1>1
  <2>2. QED
    BY <1>2, <2>1, ReportsStayTrue DEF TurnInv
<1>5. InStep'
  <2>1. CASE HandleCancelAction
    BY <1>1, <1>2, <2>1 DEF TurnInv, InStep, TurnIsDone, HandleCancelAction
  <2>2. CASE FinishDisconnect
    BY <1>1, <2>2 DEF InStep, FinishDisconnect
  <2>3. QED
    BY <2>1, <2>2
<1>6. QED
  BY <1>3, <1>4, <1>5 DEF TurnInv

\* The other steps of the actor.
LEMMA TurnByOthers ==
    ASSUME GenTypes, TurnInv,
           \/ ReceiveAppend \/ WaitAdmissionsDrained \/ DeclareDraining \/ ActorEnds
           \/ HandleConflictingRequest \/ ContinuationIdleTimeout
    PROVE  TurnInv'
<1>1. CASE ReceiveAppend \/ WaitAdmissionsDrained \/ DeclareDraining
  <2>1. UNCHANGED <<actor, exit, draining, waitingForAction, pendingFinish, current,
                    nextGeneration, run, output>>
    BY <1>1 DEF ReceiveAppend, WaitAdmissionsDrained, DeclareDraining, actorVars
  <2>2. channel' = channel \/ (channel # <<>> /\ channel' = Tail(channel))
    BY <1>1 DEF ReceiveAppend, MayReceive, WaitAdmissionsDrained, DeclareDraining
  <2>3. InStep'
    BY <2>1 DEF TurnInv, InStep, TurnIsDone
  <2>4. QED
    BY <2>1, <2>2, <2>3, TurnByActor
<1>2. CASE ActorEnds
  <2>1. InStep'
    BY <1>2 DEF TurnInv, InStep, TurnIsDone, ActorEnds
  <2>2. QED
    BY <1>2, <2>1, TurnByActor DEF ActorEnds
<1>3. CASE HandleConflictingRequest
  <2>1. InStep'
    BY <1>3 DEF InStep, HandleConflictingRequest
  <2>2. QED
    BY <1>3, <2>1, TurnByActor DEF HandleConflictingRequest
<1>4. CASE ContinuationIdleTimeout
  <2>1. InStep'
    BY <1>4 DEF TurnInv, InStep, TurnIsDone, EndedWith, ContinuationIdleTimeout, InLoop
  <2>2. QED
    BY <1>4, <2>1, TurnByActor DEF ContinuationIdleTimeout
<1>5. QED
  BY <1>1, <1>2, <1>3, <1>4

-----------------------------------------------------------------------------
(* The end of the stream.                                                   *)

\* No append of the transport carries a user message.  With one the theorems
\* below are false: such a message, found while the actor drains, starts a turn
\* that the drain does not know of.
NoUserMessages == \A a \in Appends : "UserMessage" \notin Kind[a]

LEMMA TurnStep ==
    ASSUME NoUserMessages, GenTypes, InboxTypes, TurnInv, [Next]_vars
    PROVE  TurnInv'
<1>1. ~ HandleUserMessage
  <2>1. ready # <<>> => Head(ready) \in Appends
    BY DEF InboxTypes
  <2>2. QED
    BY <2>1 DEF HandleUserMessage, NoUserMessages
<1>2. CASE ActorNext \/ ContinuationIdleTimeout
  BY <1>1, <1>2, TurnByReport, TurnByDrainEnd, TurnByStart, TurnByRequest, TurnByCancel,
     TurnByOthers DEF ActorNext
<1>3. ASSUME NEW g \in Generations, TaskNext(g) \/ EngineNext(g)
      PROVE  TurnInv'
  BY <1>3, TurnByTask
<1>4. QED
  BY <1>2, <1>3, TurnByHandler DEF Next

LEMMA TurnsHold ==
    ASSUME NoUserMessages
    PROVE  Spec => []TurnInv
<1>1. GenTypes /\ InboxTypes /\ TurnInv /\ [Next]_vars => TurnInv'
  BY TurnStep
<1>2. QED
  BY <1>1, TypesHold, TurnInit, InboxStep, PTL DEF Spec

\* For any number of requests, conflicting requests and cancellations, in any
\* order and whatever their turns come to: when the actor ends the stream after
\* a drain it ends it with what the turn that is current reported.
THEOREM StreamsEndWithTheirTurn ==
    ASSUME NoUserMessages
    PROVE  Spec => []StreamEndsWithActor
<1>1. TurnInv => StreamEndsWithActor
  BY DEF TurnInv, InStep, StreamEndsWithActor, EndedWith
<1>2. QED
  BY <1>1, TurnsHold, PTL

\* ... and no turn that nobody superseded is still under way.
THEOREM NoTurnIsCutOff ==
    ASSUME NoUserMessages
    PROVE  Spec => []NoTurnCutOff
<1>1. GenTypes /\ TurnInv => NoTurnCutOff
  <2> SUFFICES ASSUME GenTypes, TurnInv, exit = "drained", NEW g \in Generations
               PROVE  run[g].superseded \/ run[g].task \in {"none", "done"}
    BY DEF NoTurnCutOff
  <2>1. nextGeneration \in Nat /\ g \in Nat
    BY DEF GenTypes, Generations
  <2>2. QED
    BY <2>1 DEF TurnInv, Numbered, OthersSuperseded, InStep, TurnIsDone
<1>2. QED
  BY <1>1, TurnsHold, TypesHold, PTL

=============================================================================
