--------------------------- MODULE RequestTracker ---------------------------
(***************************************************************************)
(* sidecar/request-tracker.js: what is known of one request, and what it    *)
(* writes into the statistics (stats.js) and the ledger (usage-ledger.js).  *)
(*                                                                          *)
(* A tracker is a record: status is "none" until the request is settled;    *)
(* attempts are the statuses of the attempts, the open one, if any, last    *)
(* and "pending"; final is finalized.  Books are the counters of stats.js   *)
(* and the lines of the ledger.  Names, token counts, times and retries,    *)
(* which are only copied, are left out.                                     *)
(***************************************************************************)
EXTENDS Naturals, Sequences, SequencesExt

NewTracker == [status |-> "none", attempts |-> <<>>, final |-> FALSE]

NewBooks == [requests |-> 0, errors |-> 0, usages |-> 0, lines |-> 0]

HasOpenAttempt(t) == t.attempts # <<>> /\ Last(t.attempts) = "pending"

\* closeOpenAttempt
CloseOpenAttempt(t, status) ==
    IF HasOpenAttempt(t)
      THEN [t EXCEPT !.attempts[Len(t.attempts)] = status]
      ELSE t

\* beginAttempt; the caller has checked that the tracker is not final.
BeginAttempt(t) ==
    LET closed == CloseOpenAttempt(t, "skipped")
    IN  [closed EXCEPT !.attempts = Append(@, "pending")]

\* recordRequest
RecordRequest(b) == [b EXCEPT !.requests = @ + 1]

\* endAttempt throws when the tracker is final or no attempt is open.
EndAttemptThrows(t) == t.final \/ ~HasOpenAttempt(t)

\* endAttempt
EndAttempt(t, status) == [t EXCEPT !.attempts[Len(t.attempts)] = status]

\* reject; it is called before anything else has settled the request.
Reject(t) == [t EXCEPT !.status = "rejected"]

\* Mutant of SettleUnlessFinal: the last word counts.
SettleAnyhow(t, status) == [t EXCEPT !.status = status]

\* What abort and fail have in common: they settle what is not settled.
SettleUnlessFinal(t, status) ==
    IF t.final \/ t.status # "none" THEN t ELSE [t EXCEPT !.status = status]

Abort(t) == SettleUnlessFinal(t, "aborted")

Fail(t) == SettleUnlessFinal(t, "failed")

\* The status finish settles for: what was declared; else ok if an attempt
\* was; else failed.
FinalStatus(t) ==
    CASE t.status # "none" -> t.status
      [] t.status = "none" /\ "ok" \in ToSet(t.attempts) -> "ok"
      [] OTHER -> "failed"

\* finish; the attempts are not looked at again.
Finish(t) ==
    IF t.final
      THEN t
      ELSE [status |-> FinalStatus(t), attempts |-> <<>>, final |-> TRUE]

\* Mutant of BooksAfterFinish: finish is not idempotent.
BooksAfterEachFinish(b, t) ==
    LET status == FinalStatus(t)
    IN  [requests |-> b.requests + (IF t.attempts = <<>> THEN 1 ELSE 0),
         errors |-> b.errors + (IF status \in {"failed", "rejected"} THEN 1 ELSE 0),
         usages |-> b.usages + (IF status = "ok" THEN 1 ELSE 0),
         lines |-> b.lines + 1]

\* What finish writes: a request without an attempt is counted now, an error
\* if the request failed or was rejected, usage if it was answered, and one
\* line in the ledger.
BooksAfterFinish(b, t) ==
    LET status == FinalStatus(t)
    IN  IF t.final
          THEN b
          ELSE [requests |-> b.requests + (IF t.attempts = <<>> THEN 1 ELSE 0),
                errors |-> b.errors + (IF status \in {"failed", "rejected"} THEN 1 ELSE 0),
                usages |-> b.usages + (IF status = "ok" THEN 1 ELSE 0),
                       lines |-> b.lines + 1]

=============================================================================
