------------------------------ MODULE TaskRecords ------------------------------
(***************************************************************************)
(* One task of the workforce (class TaskQueue of packages/workforce): its  *)
(* stage, how many attempts it used and how the last one ended, the        *)
(* operations on it as pairs of a guard and a next record, and what a      *)
(* restart makes of a stored record.  Whom an attempt is assigned to is    *)
(* written to the record and never read, so it is left out; so is who      *)
(* failed.                                                                 *)
(***************************************************************************)
EXTENDS Naturals

CONSTANTS Tasks,
          Employees,
          Nobody,        \* no employee
          MaxAttempts    \* task.maxAttempts (1 to 10)

ASSUME MaxAttemptsIsPositive == MaxAttempts \in Nat \ {0}

Stages   == {"queued", "assigned", "running", "completed", "failed"}
Failures == {"retriable", "final"}
Results  == [status : {"none"} \cup Failures, employee : {Nobody}]
            \cup [status : {"completed"}, employee : Employees]
Records  == [stage : Stages, attempts : 0 .. MaxAttempts, result : Results]

NoResult   == [status |-> "none", employee |-> Nobody]
Success(e) == [status |-> "completed", employee |-> e]
Failure(s) == [status |-> s, employee |-> Nobody]

Enqueued == [stage |-> "queued", attempts |-> 0, result |-> NoResult]

CanAssign(r) == r.stage \in {"queued", "failed"} /\ r.attempts < MaxAttempts
Assigned(r)  == [r EXCEPT !.stage = "assigned", !.attempts = @ + 1]

Started(r)   == [r EXCEPT !.stage = "running"]   \* only ever after assign

CanFinish(r)         == r.stage = "running"
Completed(r, result) == [r EXCEPT !.stage = "completed", !.result = result]
Failed(r, result)    == [r EXCEPT !.stage = "failed", !.result = result]

CanRequeue(r) == r.stage = "failed"
Requeued(r)   == IF r.attempts < MaxAttempts
                 THEN [r EXCEPT !.stage = "queued"] ELSE r

-----------------------------------------------------------------------------
\* Mutated: what was in flight is enqueued as a new task.
ReplayedAfresh(r) == IF r.stage \in {"completed", "failed"} THEN r ELSE Enqueued

\* A repeated attempt ends as it was stored if it is the last one and did end,
\* else as a failure that may be retried.
Ended(q, r, last) ==
  IF last /\ r.stage = "completed" THEN Completed(q, r.result)
  ELSE IF last /\ r.stage = "failed" /\ r.result # NoResult
       THEN Failed(q, r.result)
       ELSE Failed(q, Failure("retriable"))

\* One attempt after q, of a task stored as r.
Repeated(q, r, last) ==
  LET ended == Ended(Started(Assigned(q)), r, last) IN
  IF ended.stage = "failed"
     /\ (~last \/ r.stage \in {"queued", "assigned", "running"})
  THEN Requeued(ended) ELSE ended

\* restoreTaskRecord: the stored attempts are repeated on a new record.
Replayed(r) ==
  LET f[k \in 0 .. r.attempts] ==
        IF k = 0 THEN Enqueued ELSE Repeated(f[k - 1], r, k = r.attempts)
  IN f[r.attempts]
=============================================================================
