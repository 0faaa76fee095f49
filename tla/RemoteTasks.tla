------------------------------ MODULE RemoteTasks ------------------------------
(***************************************************************************)
(* Remote workers that pull their tasks (packages/workforce): the          *)
(* RemoteTaskBroker between the task queue and its checkpoints, and the    *)
(* DurableTaskMailbox, a stream of events per task in the journal.  A node *)
(* polls for a lease and delivers a result.  A call runs from one await to *)
(* the next; between them others run, leases run out, and the process may  *)
(* die and restore the last snapshot; the mailbox is never restored.       *)
(*                                                                         *)
(* Each node has one employee with one task at a time and stays online     *)
(* (WorkforceRuntime has their health), so both go by one name here.       *)
(***************************************************************************)
EXTENDS TaskRecords, Integers, Sequences, FiniteSets

CONSTANTS MaxCalls,    \* bound: requests in flight at the same time
          MaxEvents    \* bound: restarts, and writes the journal refuses

ASSUME BoundsAreNat == {MaxCalls, MaxEvents} \subseteq Nat


VARIABLES queue,      \* TaskQueue: the records of the tasks enqueued so far
          assignee,   \* assignedEmployeeId of each record
          active,     \* WorkforceRegistry: activeTaskCount of each employee
          mail,       \* per task its leases, as the events in its stream say
          call,       \* per call, the await it is suspended at
          chain, saving, poisoned, stored, \* checkpoints (WorkforceRuntime)
          events,     \* bounded events so far
          overlapped, \* history: a node had two calls in flight at once
          told        \* history: completions that were told, and whether they
                      \* were stored by then

store == <<chain, saving, poisoned, stored>>
vars  == <<queue, assignee, active, mail, call, store, events,
          overlapped, told>>

Calls      == 1 .. MaxCalls
Controller == 0      \* the call of the route that enqueues
Answers    == Failures \cup {"completed"}
Idle == [pc |-> "idle"]
None == << >>

Snapshot == [queue |-> queue, assignee |-> assignee]

-----------------------------------------------------------------------------
(***************************************************************************)
(* The mailbox.  Only the last lease of a task counts; "over" says that    *)
(* its time has run out.                                                   *)
(***************************************************************************)
NewLease(e) == [employee |-> e, accepted |-> "none", over |-> FALSE]

Current(t) == mail[t][Len(mail[t])]
Leased(t)  == mail[t] # << >>
Live(t)    == Leased(t) /\ Current(t).accepted = "none" /\ ~Current(t).over
Expired(t) == Leased(t) /\ Current(t).accepted = "none" /\ Current(t).over

\* An event about a lease that is no longer the last one changes nothing.
Noted(t, i, status) ==
  IF i = Len(mail[t]) THEN [mail EXCEPT ![t][i].accepted = status] ELSE mail

\* Nobody looks at the time of a lease whose result is accepted.
LeaseRunsOut(t) ==
  /\ Live(t)
  /\ mail' = [mail EXCEPT ![t][Len(mail[t])].over = TRUE]
  /\ UNCHANGED <<queue, assignee, active, call, store, events, overlapped, told>>

\* An append may throw: another writer holds the lock or was first, or the
\* disk refuses, before or after the event is written.
Refuses(after) ==
  /\ events < MaxEvents /\ events' = events + 1
  /\ mail' \in {mail, after}

-----------------------------------------------------------------------------
(***************************************************************************)
(* Checkpoints, as in WorkforceRuntime.                                    *)
(***************************************************************************)
Goto(c, pc)  == call' = [call EXCEPT ![c].pc = pc]
Return(c)    == call' = [call EXCEPT ![c] = Idle]
Chained(c)   == IF poisoned THEN chain ELSE Append(chain, c)
At(c, pc)    == call[c].pc = pc
Saved(c, pc) == At(c, pc) /\ call[c].saved = "done"
Threw(c, pc) == At(c, pc) /\ call[c].saved = "failed"

\* The call goes on to an await of checkpoint().
Checkpoint(c, next) ==
  /\ call' = [call EXCEPT ![c] =
       [next EXCEPT !.saved = IF poisoned THEN "failed" ELSE "waiting"]]
  /\ chain' = Chained(c)
  /\ UNCHANGED <<saving, poisoned, stored>>

SaveBegins ==
  /\ chain # << >> /\ saving = None
  /\ saving' = Snapshot
  /\ UNCHANGED <<queue, assignee, active, mail, call, chain,
                 poisoned, stored, events, overlapped, told>>

SaveEnds ==
  /\ saving # None
  /\ stored' = saving
  /\ saving' = None
  /\ chain' = Tail(chain)
  /\ call' = [c \in Calls |-> IF c = Head(chain)
                             THEN [call[c] EXCEPT !.saved = "done"] ELSE call[c]]
  /\ UNCHANGED <<queue, assignee, active, mail, poisoned, events, overlapped, told>>

SaveFails ==
  /\ saving # None /\ events < MaxEvents
  /\ events' = events + 1
  /\ stored' \in {stored, saving}
  /\ poisoned' = TRUE
  /\ saving' = None
  /\ chain' = << >>
  /\ call' = [c \in Calls |-> IF \E i \in DOMAIN chain : chain[i] = c
                             THEN [call[c] EXCEPT !.saved = "failed"]
                             ELSE call[c]]
  /\ UNCHANGED <<queue, assignee, active, mail, overlapped,
                 told>>

-----------------------------------------------------------------------------
(***************************************************************************)
(* What the broker does to the queue and the registry between two awaits.  *)
(***************************************************************************)
ReleaseEmployee(e) == active' = [active EXCEPT ![e] = IF @ > 0 THEN @ - 1 ELSE 0]

\* scheduler.select chooses one of them; the scores are left out.
Free == {e \in Employees : active[e] = 0}

Take(t, e) ==
  /\ queue' = [queue EXCEPT ![t] = Started(Assigned(@))]
  /\ assignee' = [assignee EXCEPT ![t] = e]
  /\ active' = [active EXCEPT ![e] = @ + 1]

\* Mutated: the employee is not released.
FailAndKeep(t, e, status) ==
  /\ queue' = [queue EXCEPT ![t] =
       IF status = "retriable" THEN Requeued(Failed(@, Failure(status)))
       ELSE Failed(@, Failure(status))]
  /\ assignee' = [assignee EXCEPT ![t] =
       IF queue'[t].stage = "queued" THEN Nobody ELSE @]
  /\ UNCHANGED active

\* fail, release, and requeue when the failure is retriable.
FailAndRequeue(t, e, status) ==
  /\ queue' = [queue EXCEPT ![t] =
       IF status = "retriable" THEN Requeued(Failed(@, Failure(status)))
       ELSE Failed(@, Failure(status))]
  /\ assignee' = [assignee EXCEPT ![t] =
       IF queue'[t].stage = "queued" THEN Nobody ELSE @]
  /\ ReleaseEmployee(e)

CompleteAndRelease(t, e) ==
  /\ queue' = [queue EXCEPT ![t] = Completed(@, Success(e))]
  /\ ReleaseEmployee(e)
  /\ UNCHANGED assignee

records == <<queue, assignee, active>>

-----------------------------------------------------------------------------
(***************************************************************************)
(* enqueue, by the controller.                                             *)
(***************************************************************************)
Enqueue(t) ==
  /\ t \notin DOMAIN queue
  /\ queue' = [u \in DOMAIN queue \cup {t} |->
                IF u = t THEN Enqueued ELSE queue[u]]
  /\ assignee' = [u \in DOMAIN queue \cup {t} |->
                   IF u = t THEN Nobody ELSE assignee[u]]
  /\ chain' = Chained(Controller)
  /\ UNCHANGED <<active, mail, call, saving, poisoned, stored,
                 events, overlapped, told>>

-----------------------------------------------------------------------------
(***************************************************************************)
(* poll.                                                                   *)
(***************************************************************************)
\* A node makes a request, whether or not it still waits for another.
Requests(c, next) ==
  /\ call[c] = Idle /\ \A d \in 1 .. c - 1 : call[d] # Idle
  /\ call' = [call EXCEPT ![c] = next]
  /\ overlapped' = (overlapped \/ \E d \in Calls : /\ call[d] # Idle
                                                  /\ call[d].node = next.node)
  /\ UNCHANGED <<records, mail, store, events, told>>

\* The tasks that run on the node are looked at for leases that ran out.
Poll(c, e) ==
  Requests(c, [pc |-> "recovering", node |-> e, saved |-> "done", task |-> None,
               rows |-> {t \in DOMAIN queue : /\ queue[t].stage = "running"
                                              /\ assignee[t] = e}])

\* Mutated: the times are compared the wrong way round.
RecoverLive(c, t) ==
  /\ Saved(c, "recovering") /\ t \in call[c].rows
  /\ call' = IF Live(t)
             THEN [call EXCEPT ![c].pc = "expiring", ![c].task = t]
             ELSE [call EXCEPT ![c].rows = @ \ {t}]
  /\ UNCHANGED <<records, mail, store, events, overlapped, told>>

\* mailbox.current() of one of them.
Recover(c, t) ==
  /\ Saved(c, "recovering") /\ t \in call[c].rows
  /\ call' = IF Expired(t)
             THEN [call EXCEPT ![c].pc = "expiring", ![c].task = t]
             ELSE [call EXCEPT ![c].rows = @ \ {t}]
  /\ UNCHANGED <<records, mail, store, events, overlapped, told>>

\* mailbox.expire() looks at the lease once more, and appends that it expired;
\* it returns false when there is nothing to expire by now, and the broker
\* does not look at that.
Expire(c) ==
  /\ At(c, "expiring")
  /\ \/ Goto(c, "expired") /\ UNCHANGED events
     \/ /\ Expired(call[c].task) /\ events < MaxEvents
        /\ events' = events + 1
        /\ Return(c)
  /\ UNCHANGED <<records, mail, store, overlapped, told>>

\* The attempt is failed, unless the task is no longer running: then it throws.
FailExpired(c) ==
  LET t == call[c].task IN
  /\ At(c, "expired")
  /\ \/ /\ CanFinish(queue[t])
        /\ FailAndRequeue(t, call[c].node, "retriable")
        /\ Checkpoint(c, [call[c] EXCEPT !.pc = "recovering",
                                         !.rows = @ \ {t}, !.task = None])
     \/ /\ ~CanFinish(queue[t])
        /\ Return(c)
        /\ UNCHANGED <<records, store>>
  /\ UNCHANGED <<mail, events, overlapped, told>>

\* A queued task is taken for the node, if the scheduler chooses it.
TakeTask(c, t) ==
  LET e == call[c].node IN
  /\ Saved(c, "recovering") /\ call[c].rows = {}
  /\ queue[t].stage = "queued" /\ e \in Free
  /\ Take(t, e)
  /\ Checkpoint(c, [call[c] EXCEPT !.pc = "taken", !.task = t])
  /\ UNCHANGED <<mail, events, overlapped, told>>

\* There is none, or the scheduler chooses another node for each.
NothingForNode(c) ==
  /\ Saved(c, "recovering") /\ call[c].rows = {}
  /\ \/ \A t \in DOMAIN queue : queue[t].stage # "queued"
     \/ Free # {call[c].node}
  /\ Return(c)
  /\ UNCHANGED <<records, mail, store, events, overlapped, told>>

\* Mutated: there is no catch block.
LeaseRefusedUncaught(c) == Return(c) /\ UNCHANGED <<records, store>>

\* The catch block: the attempt failed for want of a lease.  Once more it
\* throws if the task is no longer running.
LeaseRefused(c) ==
  LET t == call[c].task IN
  \/ /\ CanFinish(queue[t])
     /\ FailAndRequeue(t, call[c].node, "retriable")
     /\ Checkpoint(c, [call[c] EXCEPT !.pc = "refused"])
  \/ /\ ~CanFinish(queue[t])
     /\ Return(c)
     /\ UNCHANGED <<records, store>>

\* mailbox.lease(): refused while the last lease is live.
LookForLease(c) ==
  /\ Saved(c, "taken")
  /\ \/ ~Live(call[c].task) /\ Goto(c, "leasing") /\ UNCHANGED <<records, store>>
     \/ Live(call[c].task) /\ LeaseRefused(c)
  /\ UNCHANGED <<mail, events, overlapped, told>>

\* The lease is appended and returned; the answer may not arrive.
GrantLease(c) ==
  LET granted == [mail EXCEPT ![call[c].task] =
                    Append(@, NewLease(call[c].node))] IN
  /\ At(c, "leasing")
  /\ \/ mail' = granted /\ Return(c) /\ UNCHANGED <<records, store, events>>
     \/ Refuses(granted) /\ LeaseRefused(c)
  /\ UNCHANGED <<overlapped, told>>

-----------------------------------------------------------------------------
(***************************************************************************)
(* acceptResult: a node delivers the result of lease i, once or again.     *)
(***************************************************************************)
Deliver(c, t, i) ==
  /\ i \in 1 .. Len(mail[t])
  /\ t \in DOMAIN queue /\ assignee[t] = mail[t][i].employee
  /\ Requests(c, [pc |-> "delivering", node |-> assignee[t], saved |-> "done",
                  task |-> t, lease |-> i, status |-> "none",
                  stage |-> queue[t].stage])

\* The lease must be the last one; an accepted result is returned again.
CheckLease(c) ==
  LET t == call[c].task IN
  /\ At(c, "delivering")
  /\ call' = [call EXCEPT ![c] =
       IF call[c].lease # Len(mail[t]) THEN Idle
       ELSE IF Current(t).accepted # "none"
            THEN [@ EXCEPT !.pc = "accepted", !.status = Current(t).accepted]
       ELSE IF Current(t).over THEN Idle
       ELSE [@ EXCEPT !.pc = "accepting"]]
  /\ UNCHANGED <<records, mail, store, events, overlapped, told>>

\* The result is looked at only from here on.
AppendResult(c, status) ==
  /\ At(c, "accepting")
  /\ LET noted == Noted(call[c].task, call[c].lease, status) IN
     \/ /\ mail' = noted
        /\ call' = [call EXCEPT ![c].pc = "accepted", ![c].status = status]
        /\ UNCHANGED events
     \/ Refuses(noted) /\ Return(c)
  /\ UNCHANGED <<records, store, overlapped, told>>

Done(q, t) == t \in DOMAIN q /\ q[t].stage = "completed"

\* The node is told how its task ended.
Tells(c, isStored) ==
  told' = IF call[c].status = "completed"
          THEN told \cup {[task |-> call[c].task, stored |-> isStored]} ELSE told

\* Mutated: a completion is told before its checkpoint.
SettleUnsaved(c) ==
  LET t == call[c].task IN
  /\ At(c, "accepted") /\ call[c].stage = "running" /\ CanFinish(queue[t])
  /\ IF call[c].status = "completed"
     THEN CompleteAndRelease(t, call[c].node)
     ELSE FailAndRequeue(t, call[c].node, call[c].status)
  /\ Checkpoint(c, [call[c] EXCEPT !.pc = "settled"])
  /\ Tells(c, TRUE)
  /\ UNCHANGED <<mail, events, overlapped>>

\* The broker goes by the stage it read at the start.  The task was running,
\* and still is: its attempt ends.
Settle(c) ==
  LET t == call[c].task IN
  /\ At(c, "accepted") /\ call[c].stage = "running" /\ CanFinish(queue[t])
  /\ IF call[c].status = "completed"
     THEN CompleteAndRelease(t, call[c].node)
     ELSE FailAndRequeue(t, call[c].node, call[c].status)
  /\ Checkpoint(c, [call[c] EXCEPT !.pc = "settled"])
  /\ UNCHANGED <<mail, events, overlapped, told>>

\* It was completed: the accepted result once more, at once, whether or not
\* the checkpoint of the delivery that completed it is stored.
Repeat(c) ==
  /\ At(c, "accepted") /\ call[c].stage = "completed"
  /\ Return(c)
  /\ Tells(c, Done(stored.queue, call[c].task))
  /\ UNCHANGED <<records, mail, store, events, overlapped>>

\* It was neither, or is no longer running: an error.
Reject(c) ==
  /\ At(c, "accepted") /\ call[c].stage # "completed"
  /\ call[c].stage # "running" \/ ~CanFinish(queue[call[c].task])
  /\ Return(c)
  /\ UNCHANGED <<records, mail, store, events, overlapped, told>>

\* What was settled is stored: it is told.
Tell(c) ==
  /\ Saved(c, "settled")
  /\ Return(c)
  /\ Tells(c, TRUE)
  /\ UNCHANGED <<records, mail, store, events, overlapped>>

\* A checkpoint fails and the call throws, or it was about to throw anyway.
\* A task that was taken stays running, and nobody has a lease for it.
Throw(c) ==
  /\ \/ \E pc \in {"recovering", "taken", "refused", "settled"} : Threw(c, pc)
     \/ Saved(c, "refused")
  /\ Return(c)
  /\ UNCHANGED <<records, mail, store, events, overlapped, told>>

-----------------------------------------------------------------------------
\* The process dies; a new one restores the stored snapshot.
Restart ==
  /\ events < MaxEvents
  /\ events' = events + 1
  /\ queue' = [t \in DOMAIN stored.queue |-> Replayed(stored.queue[t])]
  /\ assignee' = [t \in DOMAIN stored.queue |->
       IF queue'[t].stage = "queued" THEN Nobody ELSE stored.assignee[t]]
  /\ active' = [e \in Employees |-> 0]
  /\ call' = [c \in Calls |-> Idle]
  /\ chain' = << >> /\ saving' = None /\ poisoned' = FALSE
  /\ told' = {a \in told : a.stored}
  /\ UNCHANGED <<mail, stored, overlapped>>

Init ==
  /\ queue = [t \in {} |-> Enqueued]
  /\ assignee = [t \in {} |-> Nobody]
  /\ active = [e \in Employees |-> 0]
  /\ mail = [t \in Tasks |-> << >>]
  /\ call = [c \in Calls |-> Idle]
  /\ chain = << >> /\ saving = None /\ poisoned = FALSE
  /\ stored = Snapshot
  /\ events = 0
  /\ overlapped = FALSE
  /\ told = {}

Step(c) ==
  \/ Expire(c) \/ FailExpired(c) \/ NothingForNode(c)
  \/ LookForLease(c) \/ GrantLease(c) \/ CheckLease(c)
  \/ Settle(c) \/ Repeat(c) \/ Reject(c) \/ Tell(c) \/ Throw(c)
  \/ \E t \in Tasks \cap DOMAIN queue : Recover(c, t) \/ TakeTask(c, t)

Next ==
  \/ \E c \in Calls :
       \/ Step(c) \/ \E e \in Employees : Poll(c, e)
       \/ \E t \in Tasks, i \in 1 .. MaxAttempts : Deliver(c, t, i)
       \/ \E status \in Answers : AppendResult(c, status)
  \/ \E t \in Tasks : Enqueue(t) \/ LeaseRunsOut(t)
  \/ SaveBegins \/ SaveEnds \/ SaveFails \/ Restart

Spec == Init /\ [][Next]_vars

\* A call that waits for nothing goes on, the journal answers, time passes,
\* and the nodes keep polling.  Nobody need deliver anything.
FairSpec ==
  /\ Spec
  /\ \A c \in Calls :
       WF_vars(Step(c)) /\ WF_vars(\E status \in Answers : AppendResult(c, status))
  /\ \A e \in Employees : SF_vars(\E c \in Calls : Poll(c, e))
  /\ SF_vars(\E c \in Calls, t \in Tasks \cap DOMAIN queue : TakeTask(c, t))
  /\ WF_vars(SaveBegins) /\ WF_vars(SaveEnds)
  /\ \A t \in Tasks : WF_vars(LeaseRunsOut(t))

-----------------------------------------------------------------------------
(***************************************************************************)
(* Properties that hold.                                                   *)
(***************************************************************************)
\* Over all restarts, lost leases, refused writes and overlapping polls, a
\* task is leased at most maxAttempts times: the attempt is stored before the
\* lease is made (WO-026 "Bounded attempts and expiring lease").
LeaseBudget == \A t \in Tasks : Len(mail[t]) <= MaxAttempts

\* A completion that was told when it was stored, as the delivery that settles
\* it does, stays the task's end, in memory and in the store, whatever a late
\* delivery, an expiry or a restart does.  One that a repeated delivery was
\* told of earlier stays only as long as the process lives: when that dies
\* before the checkpoint, or the checkpoint failed, the task runs again.
CompletionIsFinal ==
  \A a \in told :
    /\ Done(queue, a.task)
    /\ a.stored => Done(stored.queue, a.task)

\* As long as no node has two calls in flight, the count of an employee is
\* the number of tasks that run on it: nothing is released twice, or never.
CountsAreTrue ==
  ~overlapped =>
    \A e \in Employees :
      active[e] = Cardinality({t \in DOMAIN queue : /\ queue[t].stage = "running"
                                                    /\ assignee[t] = e})

\* ... and a running task has a poll that will lease it, or is leased last to
\* its assignee: nothing runs that no delivery and no expiry could end.  But
\* for a checkpoint that failed before the lease, which leaves it so.
RunningIsLeased ==
  ~overlapped /\ ~poisoned =>
    \A t \in DOMAIN queue :
      queue[t].stage = "running" =>
        \/ Leased(t) /\ Current(t).employee = assignee[t]
        \/ \E c \in Calls : /\ call[c] # Idle /\ call[c].task = t
                            /\ call[c].pc \in {"taken", "leasing"}

\* Whatever is lost, a task that was stored ends while its nodes poll: unless checkpoints are
\* refused, or its last lease has an accepted result that no delivery settled.
EveryTaskEnds ==
  \A t \in Tasks :
    (t \in DOMAIN stored.queue) ~>
      \/ t \in DOMAIN queue /\ queue[t].stage \in {"completed", "failed"}
      \/ poisoned
      \/ Leased(t) /\ Current(t).accepted # "none"

-----------------------------------------------------------------------------
\* "Accepted completion is idempotent and single-result authoritative"
\* (WO-026): once a lease's completion is accepted there is no other lease.
\* Broken without any failure: a poll that found the lease expired waits in
\* expire() while a delivery that was in time is accepted; expire() then says
\* that there is nothing to expire, and the poll fails the attempt all the same.
AcceptedIsAuthoritative ==
  \A t \in Tasks : \A i \in 1 .. Len(mail[t]) - 1 :
    mail[t][i].accepted # "completed"
=============================================================================
