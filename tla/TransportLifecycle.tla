------------------------- MODULE TransportLifecycle -------------------------
(***************************************************************************)
(* cursor-core/src/cursor/transport/lifecycle.rs: how the admission of      *)
(* append requests is coordinated with the shutdown of a transport.         *)
(*                                                                          *)
(* An append request holds a TransportAdmission from the moment it is       *)
(* admitted until its handler returns (the guard is dropped on every path,  *)
(* the failing ones included).  One actor closes the transport: it stops    *)
(* admitting (Closing), waits until the admissions that are still held are  *)
(* gone, and only then declares the transport Draining and looks at its     *)
(* queue for the last time.  A run request found in the queue reopens the   *)
(* transport.                                                               *)
(*                                                                          *)
(* LifecycleState is protected by one mutex, so what a method does under it *)
(* is one action.  Two methods go on without it: the drop of the last       *)
(* admission releases the mutex before it notifies, and                     *)
(* wait_admissions_drained arms a tokio Notified, takes the mutex to read   *)
(* the counter, releases it and only then sleeps.                           *)
(***************************************************************************)
EXTENDS Naturals, FiniteSets

CONSTANT Appends    \* append requests, each a possible holder of an admission

ASSUME AppendsAssumption == IsFiniteSet(Appends)

VARIABLES
    state,          \* LifecycleState.state
    admissions,     \* LifecycleState.admissions, the counter
    holders,        \* the append requests that own a live TransportAdmission
    notifying,      \* those that dropped the last one and have yet to notify
    waiter,         \* where the actor stands in wait_admissions_drained
    notified        \* the waiter's Notified future has been notified

lifecycleVars == <<state, admissions, holders, notifying, waiter, notified>>

TransportState == {"Open", "Closing", "Draining", "Closed"}

WaiterState == {"absent",    \* the actor is not in wait_admissions_drained
                "armed",     \* Notified created, the counter not read yet
                "counted",   \* the counter was not zero, Notified not polled
                "asleep"}    \* Notified polled: parked until it is notified

LifecycleTypeOK ==
    /\ state \in TransportState
    /\ admissions \in Nat
    /\ holders \in SUBSET Appends
    /\ notifying \in SUBSET Appends
    /\ waiter \in WaiterState
    /\ notified \in BOOLEAN

LifecycleInit ==
    /\ state = "Open"
    /\ admissions = 0
    /\ holders = {}
    /\ notifying = {}
    /\ waiter = "absent"
    /\ notified = FALSE

-----------------------------------------------------------------------------
(* Helpers.                                                                 *)

\* Mutants of NotifyWaiters: only a sleeping waiter is notified; nobody is.
NotifySleepers == notified' = (notified \/ waiter = "asleep")

NotifyNobody == UNCHANGED notified

\* Notify::notify_waiters reaches every Notified that exists at that moment,
\* one that has not been polled yet included, and leaves no permit behind.
NotifyWaiters == notified' = (notified \/ waiter # "absent")

\* admissions.saturating_sub(1)
SaturatingDecrement(n) == IF n = 0 THEN 0 ELSE n - 1

-----------------------------------------------------------------------------
(* The append handlers.                                                     *)

\* TransportLifecycle::admit: only an open transport admits.
Admit(a) ==
    /\ a \notin holders \cup notifying
    /\ state = "Open"
    /\ admissions' = admissions + 1
    /\ holders' = holders \cup {a}
    /\ UNCHANGED <<state, notifying, waiter, notified>>

\* Drop for TransportAdmission, under the mutex.  Only the drop that empties a
\* transport which is Closing will notify.
DropAdmission(a) ==
    /\ a \in holders
    /\ holders' = holders \ {a}
    /\ admissions' = SaturatingDecrement(admissions)
    /\ notifying' = IF state = "Closing" /\ admissions' = 0
                      THEN notifying \cup {a} ELSE notifying
    /\ UNCHANGED <<state, waiter, notified>>

\* The end of that drop, after the mutex has been released: by now the actor
\* may have left the wait, reopened the transport or begun another wait.
NotifyDrained(a) ==
    /\ a \in notifying
    /\ notifying' = notifying \ {a}
    /\ NotifyWaiters
    /\ UNCHANGED <<state, admissions, holders, waiter>>

-----------------------------------------------------------------------------
(* The actor.  Outside wait_admissions_drained it is free to call the other *)
(* methods; inside, it only waits or is pulled out by a command.            *)

BeginClose ==
    /\ waiter = "absent"
    /\ state = "Open"
    /\ state' = "Closing"
    /\ IF admissions = 0 THEN NotifyWaiters ELSE UNCHANGED notified
    /\ UNCHANGED <<admissions, holders, notifying, waiter>>

\* wait_admissions_drained: `notified()` is created before the counter is read.
StartWait ==
    /\ waiter = "absent"
    /\ state = "Closing"
    /\ waiter' = "armed"
    /\ notified' = FALSE
    /\ UNCHANGED <<state, admissions, holders, notifying>>

\* The counter is read under the mutex: zero returns.
ReadCounter ==
    /\ waiter = "armed"
    /\ waiter' = IF admissions = 0 THEN "absent" ELSE "counted"
    /\ notified' = IF admissions = 0 THEN FALSE ELSE notified
    /\ UNCHANGED <<state, admissions, holders, notifying>>

\* The mutex is released and the Notified polled for the first time: it is
\* ready at once when it was notified since it was created.
Poll ==
    /\ waiter = "counted"
    /\ waiter' = IF notified THEN "armed" ELSE "asleep"
    /\ notified' = FALSE
    /\ UNCHANGED <<state, admissions, holders, notifying>>

\* The await completes and the loop arms a new Notified.
WakeUp ==
    /\ waiter = "asleep"
    /\ notified
    /\ waiter' = "armed"
    /\ notified' = FALSE
    /\ UNCHANGED <<state, admissions, holders, notifying>>

\* A command won the select! in which the wait runs, which drops the future.
LeaveWait ==
    /\ waiter # "absent"
    /\ waiter' = "absent"
    /\ notified' = FALSE
    /\ UNCHANGED <<state, admissions, holders, notifying>>

\* Mutant of MarkDraining: the counter is not read again under the mutex.
MarkDrainingUnchecked ==
    /\ waiter = "absent"
    /\ state = "Closing"
    /\ state' = "Draining"
    /\ UNCHANGED <<admissions, holders, notifying, waiter, notified>>

MarkDraining ==
    /\ waiter = "absent"
    /\ state = "Closing"
    /\ admissions = 0
    /\ state' = "Draining"
    /\ UNCHANGED <<admissions, holders, notifying, waiter, notified>>

Reopen ==
    /\ waiter = "absent"
    /\ state \in {"Closing", "Draining"}
    /\ state' = "Open"
    /\ UNCHANGED <<admissions, holders, notifying, waiter, notified>>

\* TransportActorGuard closes the transport when the actor's task ends,
\* whatever state it is in; the task cannot end inside the wait.
Close ==
    /\ waiter = "absent"
    /\ state # "Closed"
    /\ state' = "Closed"
    /\ UNCHANGED <<admissions, holders, notifying, waiter, notified>>

LifecycleNext ==
    \/ \E a \in Appends : Admit(a) \/ DropAdmission(a) \/ NotifyDrained(a)
    \/ BeginClose \/ StartWait \/ ReadCounter \/ Poll \/ WakeUp
    \/ LeaveWait \/ MarkDraining \/ Reopen \/ Close

LifecycleSpec == LifecycleInit /\ [][LifecycleNext]_lifecycleVars

-----------------------------------------------------------------------------
(* Properties.                                                              *)

\* The counter counts exactly the live guards: saturating_sub never hides a
\* double drop, and no guard is forgotten.
CounterCountsHolders == admissions = Cardinality(holders)

\* A transport that was declared Draining has no append in flight, so the
\* actor's last look at its queue misses no admitted message.
DrainingHasNoAppend == state = "Draining" => holders = {}

\* An actor that read a non-zero counter has its notification already, or a
\* drop is about to send it, or there is still a guard whose drop will: the
\* windows between reading the counter and parking, and between releasing the
\* mutex and notifying, lose no wakeup.
NoLostWakeup ==
    waiter \in {"counted", "asleep"} =>
        notified \/ notifying # {} \/ (state = "Closing" /\ holders # {})

=============================================================================
