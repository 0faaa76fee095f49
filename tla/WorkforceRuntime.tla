---------------------------- MODULE WorkforceRuntime ----------------------------
(***************************************************************************)
(* DurableWorkforceRuntime.execute (packages/workforce) over the task      *)
(* queue, the registry of employees and the chain of checkpoints.  Calls   *)
(* run on one event loop: a step goes from one await to the next.  Nodes   *)
(* report their health, employees are registered, a checkpoint may fail,   *)
(* the process may die and restore the last stored snapshot.               *)
(***************************************************************************)
EXTENDS TaskRecords, Sequences, FiniteSets

CONSTANTS Nodes,
          Calls,       \* execute() calls in flight at the same time
          NodeOf,      \* the node an employee works on
          Capable,     \* per task, the employees with its capabilities
          Controller,  \* whoever else checkpoints: the routes of the controller
          Limit,       \* concurrencyLimit of every employee
          MaxEvents    \* bound: crashes, failed saves and health reports

ASSUME LimitIsPositive == Limit \in Nat \ {0}
ASSUME NodesAreKnown   == NodeOf \in [Employees -> Nodes]
ASSUME CapableIsKnown  == Capable \in [Tasks -> SUBSET Employees]
ASSUME MaxEventsIsNat  == MaxEvents \in Nat
ASSUME ControllerIsNoCall == Controller \notin Calls
ASSUME CallsAreFinite == IsFiniteSet(Calls)

VARIABLES queue,      \* TaskQueue: the records of the tasks enqueued so far
          nodes,      \* WorkforceRegistry: the status of each node
          staff,      \* WorkforceRegistry: the employees registered so far
          call,       \* per call, the await it is suspended at
          chain,      \* calls waiting for their checkpoint, first one first
          saving,     \* the snapshot being saved for the first of them
          poisoned,   \* the chain is rejected
          stored,     \* the last snapshot in the store
          events,     \* bounded events so far
          executions, \* history: per task, adapter calls over all restarts
          overlapped, \* history: two calls for one task were in flight
          returned,   \* history: completed results handed to a caller
          stranded    \* history: employees and tasks whose call gave up
                      \* between assign and start, or before the adapter

vars == <<queue, nodes, staff, call, chain, saving, poisoned, stored, events,
          executions, overlapped, returned, stranded>>

Idle == [pc |-> "idle"]
None == << >>

Snapshot == [queue |-> queue, nodes |-> nodes, staff |-> staff]

-----------------------------------------------------------------------------
(***************************************************************************)
(* The registry.                                                           *)
(***************************************************************************)
Put(f, x, y) == [z \in DOMAIN f \cup {x} |-> IF z = x THEN y ELSE f[z]]

Occupancy(active) == IF active >= Limit THEN "busy" ELSE "idle"

CanAcquire(e) == nodes[NodeOf[e]] # "offline" /\ staff[e].active < Limit

Acquired(e, t) ==
  [staff EXCEPT ![e] = [active |-> @.active + 1, current |-> @.current \cup {t},
                        availability |-> Occupancy(@.active + 1)]]

\* Mutated: the count is not reduced when a task fails.
ReleasedOnSuccess(e, t, success) ==
  [staff EXCEPT ![e] =
     [active |-> IF success THEN @.active - 1 ELSE @.active,
      current |-> @.current \ {t}, availability |-> "idle"]]

Released(e, t, success) ==
  LET left == IF staff[e].active > 0 THEN staff[e].active - 1 ELSE 0 IN
  [staff EXCEPT ![e] =
     [active |-> left, current |-> @.current \ {t},
      availability |-> IF nodes[NodeOf[e]] \in {"offline", "degraded"}
                       THEN nodes[NodeOf[e]] ELSE Occupancy(left)]]

\* rank: who may take the task.  The score only orders them.
Eligible(t, excluded) ==
  {e \in DOMAIN staff \cap Capable[t] :
     /\ e \notin excluded
     /\ staff[e].availability \notin {"offline", "degraded"}
     /\ staff[e].active < Limit}

-----------------------------------------------------------------------------
(***************************************************************************)
(* Checkpoints: each is chained to the one before; its snapshot is taken   *)
(* when its turn comes.  One that fails rejects all that follow.           *)
(***************************************************************************)
Chained(c) == IF poisoned THEN chain ELSE Append(chain, c)

\* The call goes on to an await of checkpoint().
Await(c, next) ==
  /\ call' = [call EXCEPT ![c] =
       [next EXCEPT !.saved = IF poisoned THEN "failed" ELSE "waiting"]]
  /\ chain' = Chained(c)

SaveBegins ==
  /\ chain # << >> /\ saving = None
  /\ saving' = Snapshot
  /\ UNCHANGED <<queue, nodes, staff, call, chain, poisoned, stored, events,
                 executions, overlapped, returned, stranded>>

SaveEnds ==
  /\ saving # None
  /\ stored' = saving
  /\ saving' = None
  /\ chain' = Tail(chain)
  /\ call' = [c \in Calls |-> IF c = Head(chain)
                             THEN [call[c] EXCEPT !.saved = "done"] ELSE call[c]]
  /\ UNCHANGED <<queue, nodes, staff, poisoned, events, executions, overlapped,
                 returned, stranded>>

\* The store throws (the journal is locked by another stream's writer, or the
\* disk refuses, before or after the snapshot was written).
SaveFails ==
  /\ saving # None /\ events < MaxEvents
  /\ events' = events + 1
  /\ stored' \in {stored, saving}
  /\ poisoned' = TRUE
  /\ saving' = None
  /\ chain' = << >>
  /\ call' = [c \in Calls |->
       IF c \in {chain[i] : i \in DOMAIN chain}
       THEN [call[c] EXCEPT !.saved = "failed"] ELSE call[c]]
  /\ UNCHANGED <<queue, nodes, staff, executions, overlapped, returned,
                 stranded>>

-----------------------------------------------------------------------------
(***************************************************************************)
(* The registry changes under the calls; the controller checkpoints each   *)
(* change.  Its routes report nodes online or degraded; offline is what    *)
(* another caller of heartbeat() may report (workforce.test.ts:109).       *)
(***************************************************************************)
\* An employee is registered as idle, whatever its node says of itself.
RegisterEmployee(e) ==
  /\ e \notin DOMAIN staff
  /\ staff' = Put(staff, e, [active |-> 0, current |-> {},
                              availability |-> "idle"])
  /\ chain' = Chained(Controller)
  /\ UNCHANGED <<queue, nodes, call, saving, poisoned, stored, events,
                 executions, overlapped, returned, stranded>>

Heartbeat(n, status) ==
  /\ nodes[n] # status /\ events < MaxEvents
  /\ events' = events + 1
  /\ nodes' = [nodes EXCEPT ![n] = status]
  /\ staff' = [e \in DOMAIN staff |->
       IF NodeOf[e] # n THEN staff[e]
       ELSE IF status = "offline" THEN [staff[e] EXCEPT !.availability = "offline"]
       ELSE IF staff[e].active = 0
            THEN [staff[e] EXCEPT !.availability =
                    IF status = "degraded" THEN "degraded" ELSE "idle"]
            ELSE staff[e]]
  /\ chain' = Chained(Controller)
  /\ UNCHANGED <<queue, call, saving, poisoned, stored, executions, overlapped,
                 returned, stranded>>

-----------------------------------------------------------------------------
(***************************************************************************)
(* execute.                                                                *)
(***************************************************************************)
At(c, pc, saved) == call[c].pc = pc /\ call[c].saved = saved

\* The call returns a result, or throws.
Return(c, status, e) ==
  /\ call' = [call EXCEPT ![c] = Idle]
  /\ returned' = IF status = "completed"
                 THEN returned \cup {[task |-> call[c].task, employee |-> e]}
                 ELSE returned
  /\ UNCHANGED chain

Throw(c) == call' = [call EXCEPT ![c] = Idle] /\ UNCHANGED <<chain, returned>>

\* A completed task, or one that failed for good, is not run again.
HasAnswer(r) ==
  \/ r.stage = "completed"
  \/ r.stage = "failed" /\ r.result.status = "final"

\* execute() is called: the task is enqueued, or the one with its key found.
Invoke(c, t) ==
  /\ call[c] = Idle
  /\ overlapped' = (overlapped \/ \E d \in Calls :
                                    call[d] # Idle /\ call[d].task = t)
  /\ queue' = IF t \in DOMAIN queue THEN queue ELSE Put(queue, t, Enqueued)
  /\ Await(c, [pc |-> "enqueued", task |-> t, saved |-> "waiting",
               answer |-> IF HasAnswer(queue'[t]) THEN queue'[t].result
                          ELSE NoResult,
               employee |-> Nobody, tried |-> {},
               outcome |-> "none"])
  /\ UNCHANGED <<nodes, staff, saving, poisoned, stored, events, executions,
                 returned, stranded>>

\* The record seen at the start already held the answer.
AnswerFromRecord(c) ==
  /\ At(c, "enqueued", "done")
  /\ call[c].answer # NoResult
  /\ Return(c, call[c].answer.status, call[c].answer.employee)
  /\ UNCHANGED <<queue, nodes, staff, saving, poisoned, stored, events,
                 executions, overlapped, stranded>>

\* The head of the while loop is reached from three awaits.
AtLoop(c) ==
  \/ At(c, "enqueued", "done") /\ call[c].answer = NoResult
  \/ At(c, "requeued", "done")
  \/ At(c, "caughtRequeued", "done")

\* An employee is selected, assigned and acquired, and the task started.
Assign(c, e) ==
  LET t == call[c].task IN
  /\ AtLoop(c)
  /\ e \in Eligible(t, call[c].tried)
  /\ CanAssign(queue[t])
  /\ CanAcquire(e)
  /\ queue' = [queue EXCEPT ![t] = Started(Assigned(@))]
  /\ staff' = Acquired(e, t)
  /\ Await(c, [call[c] EXCEPT !.pc = "started", !.employee = e])
  /\ UNCHANGED <<nodes, saving, poisoned, stored, events, executions,
                 overlapped, returned, stranded>>

\* The registry refuses what the scheduler chose: the call throws with the
\* task assigned.
AssignFails(c, e) ==
  LET t == call[c].task IN
  /\ AtLoop(c)
  /\ e \in Eligible(t, call[c].tried)
  /\ CanAssign(queue[t])
  /\ ~CanAcquire(e)
  /\ queue' = [queue EXCEPT ![t] = Assigned(@)]
  /\ stranded' = stranded \cup {t}
  /\ Throw(c)
  /\ UNCHANGED <<nodes, staff, saving, poisoned, stored, events, executions,
                 overlapped>>

\* Nobody is eligible, the task is not assignable, or its attempts are used
\* up: the call throws, or returns the failure it saw last.
GiveUp(c) ==
  LET t == call[c].task IN
  /\ AtLoop(c)
  /\ Eligible(t, call[c].tried) = {} \/ ~CanAssign(queue[t])
  /\ Throw(c)
  /\ UNCHANGED <<queue, nodes, staff, saving, poisoned, stored, events,
                 executions, overlapped, stranded>>

\* Mutated: the adapter is called without waiting for the checkpoint.
ExecuteBeforeStored(c) ==
  /\ call[c] # Idle /\ call[c].pc = "started" /\ call[c].saved # "failed"
  /\ call' = [call EXCEPT ![c].pc = "executing"]
  /\ executions' = [executions EXCEPT ![call[c].task] = @ + 1]
  /\ UNCHANGED <<queue, nodes, staff, chain, saving, poisoned, stored, events,
                 overlapped, returned, stranded>>

\* The attempt is stored: the adapter is called.
Execute(c) ==
  /\ At(c, "started", "done")
  /\ call' = [call EXCEPT ![c].pc = "executing"]
  /\ executions' = [executions EXCEPT ![call[c].task] = @ + 1]
  /\ UNCHANGED <<queue, nodes, staff, chain, saving, poisoned, stored, events,
                 overlapped, returned, stranded>>

\* Mutated: an error of the adapter is not caught.
CatchNothing(c) == Throw(c) /\ UNCHANGED <<queue, staff>>

\* The catch block: the attempt is failed and released, if the record lets
\* it; otherwise queue.fail throws and the call with it.
Catch(c) ==
  LET t == call[c].task IN
  \/ /\ CanFinish(queue[t])
     /\ queue' = [queue EXCEPT ![t] = Failed(@, Failure("retriable"))]
     /\ staff' = Released(call[c].employee, t, FALSE)
     /\ Await(c, [call[c] EXCEPT !.pc = "caughtFailed", !.employee = Nobody,
                                 !.outcome = "none",
                                 !.tried = @ \cup {call[c].employee}])
     /\ UNCHANGED returned
  \/ /\ ~CanFinish(queue[t])
     /\ Throw(c)
     /\ UNCHANGED <<queue, staff>>

\* The adapter returns a completed result.
Complete(c) ==
  LET t == call[c].task IN
  /\ At(c, "executing", "done")
  /\ CanFinish(queue[t])
  /\ queue' = [queue EXCEPT ![t] = Completed(@, Success(call[c].employee))]
  /\ staff' = Released(call[c].employee, t, TRUE)
  /\ Await(c, [call[c] EXCEPT !.pc = "completed"])
  /\ UNCHANGED <<nodes, saving, poisoned, stored, events, executions,
                 overlapped, returned, stranded>>

\* It returns a failure, retriable or final.
Fail(c, status) ==
  LET t == call[c].task IN
  /\ At(c, "executing", "done")
  /\ CanFinish(queue[t])
  /\ queue' = [queue EXCEPT ![t] = Failed(@, Failure(status))]
  /\ staff' = Released(call[c].employee, t, FALSE)
  /\ Await(c, [call[c] EXCEPT !.pc = "failed", !.outcome = status,
                              !.tried = @ \cup {call[c].employee}])
  /\ UNCHANGED <<nodes, saving, poisoned, stored, events, executions,
                 overlapped, returned, stranded>>

\* It throws, or its result is refused by the validation or by the queue; or
\* a checkpoint or a requeue inside the try throws.
Caught(c) ==
  /\ \/ At(c, "executing", "done")
     \/ At(c, "completed", "failed")
     \/ At(c, "failed", "failed")
     \/ At(c, "requeued", "failed")
     \/ /\ At(c, "failed", "done")
        /\ call[c].outcome = "retriable" /\ ~CanRequeue(queue[call[c].task])
  /\ Catch(c)
  /\ UNCHANGED <<nodes, saving, poisoned, stored, events, executions,
                 overlapped, stranded>>

\* Mutated: the result is returned without waiting for the checkpoint.
ReturnEarly(c) ==
  /\ call[c].pc = "completed" /\ call[c].saved \in {"waiting", "done"}
  /\ call[c].saved = "waiting" => c # Head(chain) \/ saving = None
  /\ call' = [call EXCEPT ![c] = Idle]
  /\ chain' = SelectSeq(chain, LAMBDA d : d # c)
  /\ returned' = returned \cup {[task |-> call[c].task,
                                 employee |-> call[c].employee]}
  /\ UNCHANGED <<queue, nodes, staff, saving, poisoned, stored, events,
                 executions, overlapped, stranded>>

\* The completion is stored: it is returned.
ReturnCompleted(c) ==
  /\ At(c, "completed", "done")
  /\ Return(c, "completed", call[c].employee)
  /\ UNCHANGED <<queue, nodes, staff, saving, poisoned, stored, events,
                 executions, overlapped, stranded>>

\* The failure is stored: it is returned if final, requeued otherwise.
ReturnFailed(c) ==
  /\ At(c, "failed", "done") /\ call[c].outcome = "final"
  /\ Return(c, "final", call[c].employee)
  /\ UNCHANGED <<queue, nodes, staff, saving, poisoned, stored, events,
                 executions, overlapped, stranded>>

Requeue(c) ==
  LET t == call[c].task IN
  /\ \/ At(c, "failed", "done") /\ call[c].outcome = "retriable"
     \/ At(c, "caughtFailed", "done")
  /\ CanRequeue(queue[t])
  /\ queue' = [queue EXCEPT ![t] = Requeued(@)]
  /\ Await(c, [call[c] EXCEPT !.pc = IF @ = "failed" THEN "requeued"
                                     ELSE "caughtRequeued",
                              !.outcome = "none"])
  /\ UNCHANGED <<nodes, staff, saving, poisoned, stored, events, executions,
                 overlapped, returned, stranded>>

\* A checkpoint or a requeue outside the try throws, and the call with it.
\* Before the adapter this leaves the employee acquired and the task running.
Rejected(c) ==
  /\ \/ \E pc \in {"enqueued", "started", "caughtFailed", "caughtRequeued"} :
          At(c, pc, "failed")
     \/ At(c, "caughtFailed", "done") /\ ~CanRequeue(queue[call[c].task])
  /\ stranded' = IF call[c].pc = "started"
                 THEN stranded \cup {call[c].employee, call[c].task} ELSE stranded
  /\ Throw(c)
  /\ UNCHANGED <<queue, nodes, staff, saving, poisoned, stored, events,
                 executions, overlapped>>

\* The process dies; a new one restores the stored snapshot.
Restart ==
  /\ events < MaxEvents
  /\ events' = events + 1
  /\ queue' = [t \in DOMAIN stored.queue |-> Replayed(stored.queue[t])]
  /\ nodes' = stored.nodes
  /\ staff' = [e \in DOMAIN stored.staff |->
       [active |-> 0, current |-> {},
        availability |-> IF stored.nodes[NodeOf[e]] \in {"offline", "degraded"}
                         THEN stored.nodes[NodeOf[e]] ELSE "idle"]]
  /\ call' = [c \in Calls |-> Idle]
  /\ chain' = << >>
  /\ saving' = None
  /\ poisoned' = FALSE
  /\ stranded' = {}
  /\ overlapped' = FALSE
  /\ UNCHANGED <<stored, executions, returned>>

-----------------------------------------------------------------------------
Init ==
  /\ queue = [t \in {} |-> Enqueued]
  /\ nodes = [n \in Nodes |-> "online"]
  /\ staff = [e \in {} |-> None]
  /\ call = [c \in Calls |-> Idle]
  /\ chain = << >>
  /\ saving = None
  /\ poisoned = FALSE
  /\ stored = Snapshot
  /\ events = 0
  /\ executions = [t \in Tasks |-> 0]
  /\ overlapped = FALSE
  /\ returned = {}
  /\ stranded = {}

Step(c) ==
  \/ AnswerFromRecord(c) \/ GiveUp(c) \/ Execute(c) \/ Complete(c) \/ Caught(c)
  \/ ReturnCompleted(c) \/ ReturnFailed(c) \/ Requeue(c) \/ Rejected(c)
  \/ \E e \in Employees : Assign(c, e) \/ AssignFails(c, e)
  \/ \E status \in Failures : Fail(c, status)

Next ==
  \/ \E c \in Calls : Step(c) \/ \E t \in Tasks : Invoke(c, t)
  \/ \E e \in Employees : RegisterEmployee(e)
  \/ \E n \in Nodes, status \in {"online", "degraded", "offline"} :
       Heartbeat(n, status)
  \/ SaveBegins \/ SaveEnds \/ SaveFails \/ Restart

Spec == Init /\ [][Next]_vars

-----------------------------------------------------------------------------
(***************************************************************************)
(* Properties that hold.                                                   *)
(***************************************************************************)
\* Over all restarts, retries and duplicate calls, a task's adapter is called
\* at most maxAttempts times: an attempt is stored before it is made
\* (WO-024 "recovered/requeued only within remaining maxAttempts").
ExecutionsAreBounded == \A t \in Tasks : executions[t] <= MaxAttempts

\* A completed result that was returned stays the task's result, in memory
\* and in the store, whatever crashes: after a restart the task is not run
\* again (WO-024 "duplicate suppression").
CompletionIsFinal ==
  \A x \in returned :
    /\ x.task \in DOMAIN queue /\ x.task \in DOMAIN stored.queue
    /\ queue[x.task].stage = "completed"
    /\ queue[x.task].result.employee = x.employee
    /\ stored.queue[x.task].result = queue[x.task].result

\* Work in flight is never taken for done by a restart, and work that was
\* stored as done is never undone: attempts are kept, and a task that was
\* neither completed nor failed is queued again or out of attempts.
RestartIsHonest ==
  [][Restart =>
       \A t \in DOMAIN stored.queue :
         LET r == stored.queue[t] q == queue'[t] IN
         /\ q.attempts = r.attempts
         /\ r.stage \in {"completed", "failed"} =>
              q.stage = r.stage /\ q.result = r.result
         /\ r.stage \in {"queued", "assigned", "running"} =>
              q.stage = IF r.attempts < MaxAttempts THEN "queued" ELSE "failed"]_vars

\* The attempts an employee is really busy with.
Holding(e) ==
  {c \in Calls : /\ call[c] # Idle /\ call[c].employee = e
                 /\ call[c].pc \in {"started", "executing"}}

\* Unless two calls for one task overlapped, the registry's count of what an
\* employee does is the truth, unless a call gave up over a failed checkpoint
\* before its adapter ran.
CountsAreTrue ==
  ~overlapped =>
    \A e \in DOMAIN staff :
      e \notin stranded => staff[e].active = Cardinality(Holding(e))

\* ... and a task that is assigned or running has a call that will end it,
\* unless one gave up that way.
InFlightIsHeld ==
  ~overlapped =>
    \A t \in DOMAIN queue :
      queue[t].stage \in {"assigned", "running"} /\ t \notin stranded =>
        \E c \in Calls : /\ call[c] # Idle /\ call[c].task = t
                         /\ call[c].pc \in {"started", "executing"}

-----------------------------------------------------------------------------
(***************************************************************************)
(* Properties the repository states and the code does not keep when two    *)
(* calls for one task overlap.                                             *)
(***************************************************************************)

\* A duplicate call never leads to a second execution beside the first.
\* Broken when the duplicate takes the task over while the first call awaits
\* the checkpoint of its failure: the first call's requeue then throws, its
\* catch fails the duplicate's attempt and queues the task once more.
NoSecondExecution ==
  \A c, d \in Calls :
    /\ call[c] # Idle /\ call[c].pc = "executing"
    /\ call[d] # Idle /\ call[d].pc = "executing"
    /\ call[c].task = call[d].task
    => c = d
=============================================================================
