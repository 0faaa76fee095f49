--------------------------- MODULE RemoteTasks_proofs ---------------------------
(***************************************************************************)
(* What holds of the RemoteTaskBroker and its mailbox for every number of  *)
(* tasks, nodes, calls and attempts.  The argument is in layers, each of   *)
(* them an inductive invariant on top of BaseInv:                          *)
(*   BaseInv    what the records, the leases, the snapshots and the calls  *)
(*              are, who waits in the chain of checkpoints, and that the   *)
(*              stored, the saved and the present queue are in order;      *)
(*   LeaseInv   a lease was made, and stored, as an attempt (LeaseBudget); *)
(*   ToldInv    a completion is recorded before it is settled, and stored  *)
(*              before it is told (CompletionIsFinal);                     *)
(*   HandsInv   while no node has two calls in flight, what a call has in  *)
(*              hand runs on its node (CountsAreTrue, RunningIsLeased).    *)
(***************************************************************************)
EXTENDS RemoteTasks, TaskRecords_proofs

-----------------------------------------------------------------------------
(***************************************************************************)
(* What the leases, the snapshots and the calls are.                       *)
(***************************************************************************)
PollPcs     == {"recovering", "expiring", "expired", "taken", "leasing", "refused"}
DeliverPcs  == {"delivering", "accepting", "accepted", "settled"}
Checkpoints == {"recovering", "taken", "refused", "settled"}
SavedStates == {"waiting", "done", "failed"}

PollRecs    == [pc : PollPcs, node : Employees, saved : SavedStates,
                task : Tasks \cup {None}, rows : SUBSET Tasks]
DeliverRecs == [pc : DeliverPcs, node : Employees, saved : SavedStates, task : Tasks,
                lease : Nat \ {0}, status : {"none"} \cup Answers, stage : Stages]
CallRecs    == PollRecs \cup DeliverRecs
Leases      == [employee : Employees, accepted : {"none"} \cup Answers, over : BOOLEAN]

Active(c)      == call[c] # Idle
AssigneeFits(a, q) == a \in [DOMAIN q -> Employees \cup {Nobody}]
SnapFits(s)    == /\ DOMAIN s = {"queue", "assignee"} /\ QueueFits(s.queue)
                  /\ IsFiniteSet(DOMAIN s.queue) /\ AssigneeFits(s.assignee, s.queue)

\* A call waits only for checkpoints; one whose checkpoint failed means that
\* the chain is rejected.  A task that a delivery found completed still is.
RecFits(p) ==
  /\ p.pc # "recovering" => p.task \in DOMAIN queue
  /\ p.pc \in {"expiring", "expired"} => p.task \in p.rows
  /\ p.pc = "accepted" => p.status # "none"
  /\ p.saved # "done" => p.pc \in Checkpoints
  /\ p.saved = "failed" => poisoned
  /\ p.pc \in DeliverPcs /\ p.stage = "completed" => Done(queue, p.task)
CallFits(c) == Active(c) => RecFits(call[c])

Types ==
  /\ QueueFits(queue) /\ IsFiniteSet(DOMAIN queue) /\ AssigneeFits(assignee, queue)
  /\ active \in [Employees -> Nat] /\ mail \in [Tasks -> Seq(Leases)]
  /\ call \in [Calls -> CallRecs \cup {Idle}] /\ \A c \in Calls : CallFits(c)
  /\ chain \in Seq(Calls \cup {Controller})
  /\ SnapFits(stored) /\ (saving = None \/ SnapFits(saving))
  /\ poisoned \in BOOLEAN /\ overlapped \in BOOLEAN

\* The chain holds the calls that wait for a checkpoint, each of them once.
Chains(c) == InLine(chain, c)
ChainFits ==
  /\ poisoned => chain = << >>
  /\ saving # None => chain # << >>
  /\ \A c \in Calls : (Active(c) /\ call[c].saved = "waiting") <=> Chains(c)
  /\ Once(chain, Calls)

InOrder ==
  /\ Precedes(stored.queue, queue)
  /\ saving # None => Precedes(stored.queue, saving.queue) /\ Precedes(saving.queue, queue)

BaseInv == Types /\ ChainFits /\ InOrder

(***************************************************************************)
(* The attempts: a lease is an attempt, made and stored before it.         *)
(***************************************************************************)
BeforeLease(p) == p.pc \in {"taken", "leasing"}
Pending(t) == {c \in Calls : Active(c) /\ BeforeLease(call[c]) /\ call[c].task = t}
PendingStored(t) == {c \in Pending(t) : call[c].saved = "done"}
PendingSaved(t)  == {c \in Pending(t) : call[c].saved = "done" \/ c = Head(chain)}

Leasing(t) ==
  /\ Len(mail[t]) + Cardinality(Pending(t)) <= Attempts(queue, t)
  /\ Len(mail[t]) + Cardinality(PendingStored(t)) <= Attempts(stored.queue, t)
  /\ saving # None =>
       Len(mail[t]) + Cardinality(PendingSaved(t)) <= Attempts(saving.queue, t)
LeaseInv == \A t \in Tasks : Leasing(t)

(***************************************************************************)
(* The completions: recorded before they are settled, stored before told.  *)
(***************************************************************************)
Settles(p) == p.pc = "settled" /\ p.status = "completed"
Settling(c) ==
  Active(c) /\ Settles(call[c]) =>
    /\ Done(queue, call[c].task)
    /\ call[c].saved = "done" => Done(stored.queue, call[c].task)
    /\ saving # None /\ c = Head(chain) => Done(saving.queue, call[c].task)
ToldInv == (\A c \in Calls : Settling(c)) /\ CompletionIsFinal

(***************************************************************************)
(* What a call has in hand: the tasks it found running on its node, or     *)
(* took for it, and may still end.                                         *)
(***************************************************************************)
HandsOf(p) ==
  {t \in Tasks :
     \/ p.pc \in {"recovering", "expiring", "expired"} /\ t \in p.rows
     \/ BeforeLease(p) /\ t = p.task
     \/ p.pc \in {"delivering", "accepting", "accepted"} /\ p.stage = "running" /\ t = p.task}

RunsOn(t, e) == t \in DOMAIN queue /\ queue[t].stage = "running" /\ assignee[t] = e
Running(e)   == {t \in DOMAIN queue : queue[t].stage = "running" /\ assignee[t] = e}

Alone ==
  /\ \A c, d \in Calls : Active(c) /\ Active(d) /\ call[c].node = call[d].node => c = d
  /\ \A c \in Calls : Active(c) => \A t \in HandsOf(call[c]) : RunsOn(t, call[c].node)
  /\ \A e \in Employees : active[e] = Cardinality(Running(e))

\* A running task is leased to its assignee, or will be.
Held(t) ==
  \/ Leased(t) /\ Current(t).employee = assignee[t]
  \/ \E c \in Pending(t) : call[c].node = assignee[t]
HandsInv ==
  ~overlapped =>
    Alone /\ (~poisoned => \A t \in DOMAIN queue : queue[t].stage = "running" => Held(t))

-----------------------------------------------------------------------------
(***************************************************************************)
(* What a call is, and what its step leaves of the chain.                  *)
(***************************************************************************)
\* A call waits in the chain when it asked for a checkpoint of a chain that
\* works, and only then.
Goes(c, q) ==
  /\ call' = [call EXCEPT ![c] = q]
  /\ \/ (q # Idle => q.saved # "waiting") /\ chain' = chain
     \/ q # Idle /\ q.saved = "waiting" /\ ~poisoned /\ chain' = Append(chain, c)

\* The mailbox keeps its leases, and whom they are to.
MailStays ==
  /\ mail' \in [Tasks -> Seq(Leases)]
  /\ \A t \in Tasks : /\ Len(mail'[t]) = Len(mail[t])
                      /\ Leased(t) => Current(t)'.employee = Current(t).employee

\* The records stay what they are, and are in order.
RecordsFit ==
  /\ QueueFits(queue') /\ Precedes(queue, queue') /\ DOMAIN queue' = DOMAIN queue
  /\ AssigneeFits(assignee', queue') /\ active' \in [Employees -> Nat]

\* What the steps of a call have in common.
Moves(c, q) ==
  /\ Active(c) => call[c].saved # "waiting"
  /\ q \in CallRecs \cup {Idle} /\ Goes(c, q) /\ (q # Idle => RecFits(q))
  /\ UNCHANGED <<saving, poisoned, stored>>
  /\ RecordsFit /\ mail' \in [Tasks -> Seq(Leases)] /\ overlapped' \in BOOLEAN

LEMMA IdleIsNoCall == Idle \notin CallRecs
<1>1. \A q \in CallRecs : q.pc \in PollPcs \cup DeliverPcs
  BY DEF CallRecs, PollRecs, DeliverRecs
<1>2. Idle.pc = "idle" /\ "idle" \notin PollPcs \cup DeliverPcs
  BY DEF Idle, PollPcs, DeliverPcs
<1> QED BY <1>1, <1>2

\* A call is at an await of poll, or of acceptResult.
LEMMA PollIs ==
  ASSUME Types, NEW c \in Calls, call[c].pc \in PollPcs
  PROVE  /\ Active(c) /\ call[c] \in PollRecs /\ call[c] \in CallRecs /\ RecFits(call[c])
<1>1. call[c] # Idle /\ call[c] \in CallRecs
  BY DEF Types, Idle, PollPcs
<1>2. call[c] \notin DeliverRecs
  BY DEF DeliverRecs, DeliverPcs, PollPcs
<1> QED BY <1>1, <1>2 DEF Active, CallRecs, Types, CallFits

LEMMA DeliverIs ==
  ASSUME Types, NEW c \in Calls, call[c].pc \in DeliverPcs
  PROVE  /\ Active(c) /\ call[c] \in DeliverRecs /\ call[c] \in CallRecs /\ RecFits(call[c])
<1>1. call[c] # Idle /\ call[c] \in CallRecs
  BY DEF Types, Idle, DeliverPcs
<1>2. call[c] \notin PollRecs
  BY DEF PollRecs, DeliverPcs, PollPcs
<1> QED BY <1>1, <1>2 DEF Active, CallRecs, Types, CallFits

LEMMA GoesKeepsChain ==
  ASSUME Types, ChainFits, NEW c \in Calls, Active(c) => call[c].saved # "waiting",
         NEW q \in CallRecs \cup {Idle}, Goes(c, q), UNCHANGED <<saving, poisoned>>
  PROVE  /\ ChainFits' /\ chain' \in Seq(Calls \cup {Controller})
         /\ call' \in [Calls -> CallRecs \cup {Idle}]
         /\ saving # None => Head(chain') = Head(chain) /\ Head(chain) # c
<1>1. /\ call' \in [Calls -> CallRecs \cup {Idle}] /\ call'[c] = q
      /\ \A d \in Calls : d # c => call'[d] = call[d]
  BY DEF Goes, Types
<1>2. ~Chains(c)
  BY DEF ChainFits
<1>3. chain \in Seq(Calls \cup {Controller})
  BY DEF Types
<1>4. saving # None => Head(chain) # c
  <2>1. chain # << >> => Head(chain) = chain[1] /\ 1 \in DOMAIN chain
    BY <1>3
  <2> QED BY <2>1, <1>2 DEF ChainFits, Chains, InLine
<1>5. CASE (q # Idle => q.saved # "waiting") /\ chain' = chain
  <2>1. \A d \in Calls : Active(d)' /\ call'[d].saved = "waiting" <=> Chains(d)'
    BY <1>1, <1>2, <1>5 DEF ChainFits, Active, Chains
  <2>2. ChainFits'
    BY <1>5, <2>1 DEF ChainFits
  <2> QED BY <1>1, <1>3, <1>4, <1>5, <2>2
<1>6. CASE q # Idle /\ q.saved = "waiting" /\ ~poisoned /\ chain' = Append(chain, c)
  <2>1. /\ chain' \in Seq(Calls \cup {Controller}) /\ chain' # << >> /\ Once(chain', Calls)
        /\ \A d : InLine(chain', d) <=> InLine(chain, d) \/ d = c
        /\ chain # << >> => Head(chain') = Head(chain)
    BY <1>2, <1>3, <1>6, Appended DEF ChainFits, Chains
  <2>2. \A d \in Calls : Active(d)' /\ call'[d].saved = "waiting" <=> Chains(d)'
    BY <1>1, <1>6, <2>1 DEF ChainFits, Active, Chains
  <2>3. ChainFits'
    BY <1>6, <2>1, <2>2 DEF ChainFits
  <2> QED BY <1>1, <1>4, <2>1, <2>3 DEF ChainFits
<1> QED BY <1>5, <1>6 DEF Goes

LEMMA RecStaysFit ==
  ASSUME NEW p, RecFits(p), Precedes(queue, queue'), poisoned => poisoned'
  PROVE  RecFits(p)'
BY DEF RecFits, Precedes, Done

LEMMA CallsStayFit ==
  ASSUME Types, NEW d \in Calls, call'[d] = call[d],
         Precedes(queue, queue'), poisoned => poisoned'
  PROVE  CallFits(d)'
<1>1. CallFits(d)
  BY DEF Types
<1>2. PICK p : p = call[d]
  OBVIOUS
<1>3. Active(d) => RecFits(p)'
  BY <1>1, <1>2, RecStaysFit DEF CallFits
<1> QED BY <1>2, <1>3 DEF CallFits, RecFits, Active

LEMMA MovesKeeps ==
  ASSUME BaseInv, NEW c \in Calls, NEW q, Moves(c, q)
  PROVE  BaseInv'
<1>1. q \in CallRecs \cup {Idle} /\ Goes(c, q)
  BY DEF Moves
<1>2. /\ ChainFits' /\ chain' \in Seq(Calls \cup {Controller})
      /\ call' \in [Calls -> CallRecs \cup {Idle}]
  BY <1>1, GoesKeepsChain DEF Moves, BaseInv
<1>3. \A d \in Calls : CallFits(d)'
  <2> TAKE d \in Calls
  <2>1. Precedes(queue, queue') /\ poisoned' = poisoned
    BY DEF Moves, RecordsFit
  <2>2. CASE d = c
    <3>1. call'[d] = q /\ (q # Idle => RecFits(q))
      BY <2>2 DEF Moves, Goes, BaseInv, Types
    <3>2. q # Idle => RecFits(q)'
      BY <2>1, <3>1, RecStaysFit
    <3> QED BY <3>1, <3>2 DEF CallFits, RecFits, Active
  <2>3. CASE d # c
    <3>1. call'[d] = call[d]
      BY <1>1, <2>3 DEF Goes, BaseInv, Types
    <3> QED BY <2>1, <3>1, CallsStayFit DEF BaseInv
  <2> QED BY <2>2, <2>3
<1>4. Types'
  BY <1>2, <1>3 DEF Moves, RecordsFit, BaseInv, Types
<1>5. InOrder'
  <2>1. QueueFits(queue) /\ QueueFits(queue') /\ QueueFits(stored.queue)
    BY DEF Moves, RecordsFit, BaseInv, Types, SnapFits
  <2>2. Precedes(stored.queue, queue')
    BY <2>1, PrecedesOn DEF Moves, RecordsFit, BaseInv, InOrder
  <2>3. saving # None => QueueFits(saving.queue)
    BY DEF BaseInv, Types, SnapFits
  <2>4. saving # None => Precedes(saving.queue, queue')
    BY <2>1, <2>3, PrecedesOn DEF Moves, RecordsFit, BaseInv, InOrder
  <2> QED BY <2>2, <2>4 DEF Moves, RecordsFit, BaseInv, InOrder
<1> QED BY <1>2, <1>4, <1>5 DEF BaseInv

-----------------------------------------------------------------------------
(***************************************************************************)
(* What a step does to the mailbox, and to the records.                    *)
(***************************************************************************)
Grants(c) ==
  /\ call[c].pc = "leasing"
  /\ mail' = [mail EXCEPT ![call[c].task] = Append(@, NewLease(call[c].node))]

LEMMA MailKept == ASSUME Types, mail' = mail PROVE MailStays
BY DEF MailStays, Types, Current

\* The last lease of a task is changed, but not whom it is to.
LEMMA LeaseChanges ==
  ASSUME Types, NEW t \in Tasks, mail[t] # << >>,
         NEW lease \in Leases, lease.employee = Current(t).employee,
         mail' = [mail EXCEPT ![t] = [@ EXCEPT ![Len(mail[t])] = lease]]
  PROVE  MailStays
<1> DEFINE n == Len(mail[t])
           s == [mail[t] EXCEPT ![n] = lease]
<1>1. mail \in [Tasks -> Seq(Leases)] /\ mail[t] \in Seq(Leases)
  BY DEF Types
<1>2. n \in 1 .. n /\ DOMAIN mail[t] = 1 .. n
  BY <1>1
<1>3. s \in Seq(Leases) /\ Len(s) = n /\ s[n] = lease
  BY <1>1, <1>2
<1>4. mail' = [mail EXCEPT ![t] = s]
  OBVIOUS
<1> HIDE DEF s
<1>5. /\ mail' \in [Tasks -> Seq(Leases)] /\ mail'[t] = s
      /\ \A u \in Tasks : u # t => mail'[u] = mail[u]
  BY <1>1, <1>3, <1>4
<1>6. ASSUME NEW u \in Tasks
      PROVE  /\ Len(mail'[u]) = Len(mail[u])
             /\ Leased(u) => Current(u)'.employee = Current(u).employee
  <2>1. CASE u = t
    BY <1>3, <1>5, <2>1 DEF Current
  <2>2. CASE u # t
    BY <1>5, <2>2 DEF Current
  <2> QED BY <2>1, <2>2
<1> QED BY <1>5, <1>6 DEF MailStays

LEMMA LeaseIs ==
  ASSUME Types, NEW t \in Tasks, NEW i \in 1 .. Len(mail[t])
  PROVE  mail[t] # << >> /\ mail[t][i] \in Leases /\ Len(mail[t]) \in Nat
BY DEF Types

LEMMA NotedStays ==
  ASSUME Types, NEW t \in Tasks, NEW i \in Nat \ {0}, NEW status \in Answers,
         mail' = Noted(t, i, status)
  PROVE  MailStays
<1>1. CASE i # Len(mail[t])
  BY <1>1, MailKept DEF Noted
<1>2. CASE i = Len(mail[t])
  <2> DEFINE lease == [Current(t) EXCEPT !.accepted = status]
  <2>1. mail[t] # << >> /\ mail[t][i] \in Leases
    BY <1>2, LeaseIs
  <2>2. lease \in Leases /\ lease.employee = Current(t).employee
    BY <1>2, <2>1 DEF Leases, Current
  <2>3. mail' = [mail EXCEPT ![t] = [@ EXCEPT ![Len(mail[t])] = lease]]
    BY <1>2 DEF Noted, Current
  <2> HIDE DEF lease
  <2> QED BY <2>1, <2>2, <2>3, LeaseChanges
<1> QED BY <1>1, <1>2

LEMMA RunsOutStays == ASSUME Types, NEW t \in Tasks, LeaseRunsOut(t) PROVE MailStays
<1> DEFINE lease == [Current(t) EXCEPT !.over = TRUE]
<1>1. mail[t] # << >>
  BY DEF LeaseRunsOut, Live, Leased
<1>2. Current(t) \in Leases
  BY <1>1 DEF Types, Current
<1>3. lease \in Leases /\ lease.employee = Current(t).employee
  BY <1>2 DEF Leases
<1>4. mail' = [mail EXCEPT ![t] = [@ EXCEPT ![Len(mail[t])] = lease]]
  BY DEF LeaseRunsOut, Current
<1> HIDE DEF lease
<1> QED BY <1>1, <1>3, <1>4, LeaseChanges

LEMMA GrantFits ==
  ASSUME Types, NEW c \in Calls, call[c].task \in Tasks, call[c].node \in Employees, Grants(c)
  PROVE  /\ mail' \in [Tasks -> Seq(Leases)]
         /\ \A t \in Tasks :
              IF t = call[c].task
              THEN /\ Len(mail'[t]) = Len(mail[t]) + 1
                   /\ Leased(t)' /\ Current(t)'.employee = call[c].node
              ELSE mail'[t] = mail[t]
<1> PICK t \in Tasks : t = call[c].task
  OBVIOUS
<1> DEFINE s == Append(mail[t], NewLease(call[c].node))
<1>1. NewLease(call[c].node) \in Leases /\ NewLease(call[c].node).employee = call[c].node
  BY DEF NewLease, Leases
<1>2. mail[t] \in Seq(Leases) /\ mail \in [Tasks -> Seq(Leases)]
  BY DEF Types
<1>3. s \in Seq(Leases) /\ Len(s) = Len(mail[t]) + 1 /\ s # << >> /\ s[Len(s)].employee = call[c].node
  BY <1>1, <1>2
<1>4. mail' = [mail EXCEPT ![t] = s]
  BY DEF Grants
<1> HIDE DEF s
<1>5. mail' \in [Tasks -> Seq(Leases)] /\ mail'[t] = s /\ \A u \in Tasks : u # t => mail'[u] = mail[u]
  BY <1>2, <1>3, <1>4
<1> HIDE DEF Grants
<1>6. Leased(t)' /\ Current(t)'.employee = call[c].node
  BY <1>3, <1>5 DEF Leased, Current
<1> QED BY <1>3, <1>5, <1>6 DEF Current, Leased

\* The attempt at t on e ends with record r.
Finishes(t, e, r) ==
  /\ Grown(queue[t], r) /\ r.stage # "running"
  /\ queue' = [queue EXCEPT ![t] = r]
  /\ \E a \in Employees \cup {Nobody} : assignee' = [assignee EXCEPT ![t] = a]
  /\ ReleaseEmployee(e)

LEMMA FailFinishes ==
  ASSUME Types, NEW t \in DOMAIN queue, CanFinish(queue[t]), NEW e,
         NEW status \in Failures, FailAndRequeue(t, e, status)
  PROVE  \E r : Finishes(t, e, r)
<1> DEFINE f == Failed(queue[t], Failure(status))
           r == IF status = "retriable" THEN Requeued(f) ELSE f
<1>1. TaskFits(queue[t]) /\ assignee[t] \in Employees \cup {Nobody}
  BY DEF Types, QueueFits, AssigneeFits
<1>2. Grown(queue[t], f) /\ f.stage = "failed"
  BY <1>1, FinishGrows
<1>3. Grown(f, Requeued(f)) /\ Requeued(f).stage \in {"queued", "failed"}
  BY <1>2, RequeueGrows DEF Grown, CanRequeue
<1>4. Grown(queue[t], Requeued(f))
  <2>1. TaskFits(f) /\ TaskFits(Requeued(f))
    BY <1>2, <1>3 DEF Grown
  <2>2. /\ queue[t].attempts \in Nat /\ f.attempts \in Nat /\ Requeued(f).attempts \in Nat
    BY <1>1, <2>1, MaxAttemptsIsPositive DEF TaskFits, Records
  <2> QED BY <1>2, <1>3, <2>2 DEF Grown
<1>5. queue' = [queue EXCEPT ![t] = r]
  BY DEF FailAndRequeue
<1>6. \E a \in Employees \cup {Nobody} : assignee' = [assignee EXCEPT ![t] = a]
  <2>1. assignee' = [assignee EXCEPT ![t] = IF queue'[t].stage = "queued" THEN Nobody ELSE assignee[t]]
    BY DEF FailAndRequeue
  <2> QED BY <1>1, <2>1
<1>7. ReleaseEmployee(e)
  BY DEF FailAndRequeue
<1>8. Grown(queue[t], r) /\ r.stage # "running"
  BY <1>2, <1>3, <1>4
<1> HIDE DEF r
<1> QED BY <1>5, <1>6, <1>7, <1>8 DEF Finishes

LEMMA CompleteFinishes ==
  ASSUME Types, NEW t \in DOMAIN queue, CanFinish(queue[t]), NEW e \in Employees,
         CompleteAndRelease(t, e)
  PROVE  \E r : Finishes(t, e, r) /\ r.stage = "completed"
<1> DEFINE r == Completed(queue[t], Success(e))
<1>1. TaskFits(queue[t]) /\ assignee[t] \in Employees \cup {Nobody} /\ assignee = [assignee EXCEPT ![t] = assignee[t]]
  BY DEF Types, QueueFits, AssigneeFits
<1>2. Grown(queue[t], r) /\ r.stage = "completed"
  BY <1>1, FinishGrows
<1>3. queue' = [queue EXCEPT ![t] = r] /\ assignee' = assignee /\ ReleaseEmployee(e)
  BY DEF CompleteAndRelease
<1> HIDE DEF r
<1>4. Finishes(t, e, r)
  BY <1>1, <1>2, <1>3 DEF Finishes
<1> QED BY <1>2, <1>4

LEMMA StillFit ==
  ASSUME Types, UNCHANGED <<queue, assignee, active>>
  PROVE  RecordsFit
BY PrecedesItself DEF Types, RecordsFit

LEMMA FinishedFit ==
  ASSUME Types, NEW t \in DOMAIN queue, NEW e \in Employees, NEW r, Finishes(t, e, r)
  PROVE  /\ RecordsFit /\ queue'[t] = r /\ \A u \in DOMAIN queue : u # t => queue'[u] = queue[u]
         /\ \A u \in DOMAIN queue : u # t => assignee'[u] = assignee[u]
<1>1. /\ QueueFits(queue') /\ Precedes(queue, queue') /\ DOMAIN queue' = DOMAIN queue
      /\ queue'[t] = r /\ \A u \in DOMAIN queue : u # t => queue'[u] = queue[u]
  BY QueueGrows DEF Finishes, Types
<1>2. PICK a \in Employees \cup {Nobody} : assignee' = [assignee EXCEPT ![t] = a]
  BY DEF Finishes
<1>3. /\ AssigneeFits(assignee', queue')
      /\ \A u \in DOMAIN queue : u # t => assignee'[u] = assignee[u]
  BY <1>1, <1>2 DEF AssigneeFits, Types
<1>4. active' \in [Employees -> Nat]
  BY DEF Finishes, ReleaseEmployee, Types
<1> QED BY <1>1, <1>3, <1>4 DEF RecordsFit

LEMMA TakenFit ==
  ASSUME Types, NEW t \in DOMAIN queue, queue[t].stage = "queued", NEW e \in Employees, Take(t, e)
  PROVE  /\ RecordsFit
         /\ queue'[t].stage = "running" /\ queue'[t].attempts = queue[t].attempts + 1
         /\ assignee'[t] = e
         /\ \A u \in DOMAIN queue : u # t => queue'[u] = queue[u] /\ assignee'[u] = assignee[u]
<1> DEFINE r == Started(Assigned(queue[t]))
<1>1. TaskFits(queue[t]) /\ CanAssign(queue[t])
  BY DEF Types, QueueFits, TaskFits, CanAssign
<1>2. Grown(queue[t], r) /\ r.stage = "running" /\ r.attempts = queue[t].attempts + 1
  BY <1>1, AssignGrows
<1>3. queue' = [queue EXCEPT ![t] = r]
  BY DEF Take
<1> HIDE DEF r
<1>4. /\ QueueFits(queue') /\ Precedes(queue, queue') /\ DOMAIN queue' = DOMAIN queue
      /\ queue'[t] = r /\ \A u \in DOMAIN queue : u # t => queue'[u] = queue[u]
  BY <1>2, <1>3, QueueGrows DEF Types
<1>5. /\ AssigneeFits(assignee', queue') /\ assignee'[t] = e
      /\ \A u \in DOMAIN queue : u # t => assignee'[u] = assignee[u]
  BY <1>4 DEF Take, AssigneeFits, Types
<1>6. active' \in [Employees -> Nat]
  BY DEF Take, Types
<1> QED BY <1>2, <1>4, <1>5, <1>6 DEF RecordsFit
-----------------------------------------------------------------------------
(***************************************************************************)
(* The five forms that a step of a call can take.                          *)
(***************************************************************************)
\* It goes on, with nothing new in hand.
Passes(c, q) ==
  /\ Active(c) /\ Moves(c, q) /\ MailStays /\ UNCHANGED <<queue, assignee, active, overlapped, told>>
  /\ q # Idle /\ q.saved = "done" /\ q.node = call[c].node /\ q.pc # "settled"
  /\ HandsOf(q) \subseteq HandsOf(call[c])
  /\ BeforeLease(q) <=> BeforeLease(call[c])
  /\ BeforeLease(q) => q.task = call[c].task /\ call[c].saved = "done"

\* It returns or throws, and leaves the records alone.
Leaves(c) ==
  /\ Active(c) /\ Moves(c, Idle) /\ (MailStays \/ Grants(c))
  /\ UNCHANGED <<queue, assignee, active, overlapped>>
  /\ \/ told' = told
     \/ /\ call[c].saved = "done" /\ Settles(call[c])
        /\ told' = told \cup {[task |-> call[c].task, stored |-> TRUE]}
     \/ /\ Done(queue, call[c].task)
        /\ told' = told \cup {[task |-> call[c].task,
                               stored |-> Done(stored.queue, call[c].task)]}
  /\ BeforeLease(call[c]) => \/ Grants(c) \/ poisoned
                             \/ queue[call[c].task].stage # "running"

\* It ends an attempt that it had in hand, and asks for a checkpoint.
Ends(c, q) ==
  /\ Active(c) /\ Moves(c, q) /\ (MailStays \/ Grants(c)) /\ UNCHANGED <<overlapped, told>>
  /\ call[c].task \in HandsOf(call[c]) /\ call[c].task \in DOMAIN queue
  /\ queue[call[c].task].stage = "running"
  /\ \E r : Finishes(call[c].task, call[c].node, r)
  /\ q # Idle /\ q.saved # "done" /\ q.node = call[c].node /\ ~BeforeLease(q)
  /\ HandsOf(q) \subseteq HandsOf(call[c]) \ {call[c].task}
  /\ Settles(q) => Done(queue', q.task)

\* It takes a queued task, and asks for a checkpoint.
Takes(c, q) ==
  /\ Active(c) /\ Moves(c, q) /\ UNCHANGED <<mail, overlapped, told>>
  /\ call[c].pc = "recovering" /\ queue[q.task].stage = "queued" /\ Take(q.task, q.node)
  /\ q # Idle /\ q.pc = "taken" /\ q.saved # "done" /\ q.node = call[c].node

\* A request comes in.
Starts(c, q) ==
  /\ ~Active(c) /\ Moves(c, q) /\ UNCHANGED <<queue, assignee, active, mail, told>>
  /\ q # Idle /\ q.saved = "done" /\ ~BeforeLease(q) /\ q.pc # "settled"
  /\ \A t \in HandsOf(q) : RunsOn(t, q.node)
  /\ overlapped' = (overlapped \/ \E d \in Calls : Active(d) /\ call[d].node = q.node)

\* A call asks for a checkpoint, and is otherwise what it meant to be.
LEMMA Asks ==
  ASSUME Types, NEW c \in Calls, NEW p \in CallRecs, Checkpoint(c, p),
         p.pc \in Checkpoints, RecFits([p EXCEPT !.saved = "done"])
  PROVE  \E q \in CallRecs :
           /\ Goes(c, q) /\ UNCHANGED <<saving, poisoned, stored>> /\ RecFits(q)
           /\ q # Idle /\ q.saved # "done" /\ q.pc = p.pc /\ q.node = p.node /\ q.task = p.task
           /\ HandsOf(q) = HandsOf(p) /\ (Settles(q) <=> Settles(p))
<1> DEFINE s == IF poisoned THEN "failed" ELSE "waiting"
           q == [p EXCEPT !.saved = s]
           d == [p EXCEPT !.saved = "done"]
<1>1. call' = [call EXCEPT ![c] = q] /\ chain' = Chained(c) /\ UNCHANGED <<saving, poisoned, stored>>
  BY DEF Checkpoint
<1>2. s \in SavedStates /\ s # "done" /\ (s = "failed" <=> poisoned) /\ (s = "waiting" <=> ~poisoned)
  BY DEF SavedStates
<1> HIDE DEF s
<1>3. CASE p \in PollRecs
  <2>1. /\ q \in PollRecs /\ q.saved = s /\ q.pc = p.pc /\ q.node = p.node /\ q.task = p.task
        /\ q.rows = p.rows
    BY <1>2, <1>3 DEF PollRecs
  <2>2. d.pc = p.pc /\ d.task = p.task /\ d.rows = p.rows
    BY <1>3 DEF PollRecs
  <2>3. p.pc \in PollPcs
    BY <1>3 DEF PollRecs
  <2> HIDE DEF q, d
  <2>4. RecFits(q)
    BY <1>2, <2>1, <2>2, <2>3 DEF RecFits, Checkpoints, PollPcs, DeliverPcs, d
  <2>5. HandsOf(q) = HandsOf(p) /\ ~Settles(q) /\ ~Settles(p)
    BY <2>1, <2>3 DEF HandsOf, BeforeLease, Settles, PollPcs
  <2>6. q \in CallRecs /\ q # Idle
    BY <2>1, IdleIsNoCall DEF CallRecs
  <2>7. Goes(c, q)
    BY <1>1, <1>2, <2>1, <2>6 DEF Goes, Chained
  <2> QED BY <1>1, <1>2, <2>1, <2>4, <2>5, <2>6, <2>7
<1>4. CASE p \in DeliverRecs
  <2>1. /\ q \in DeliverRecs /\ q.saved = s /\ q.pc = p.pc /\ q.node = p.node /\ q.task = p.task
        /\ q.status = p.status /\ q.stage = p.stage
    BY <1>2, <1>4 DEF DeliverRecs
  <2>2. d.pc = p.pc /\ d.task = p.task /\ d.status = p.status
    BY <1>4 DEF DeliverRecs
  <2>3. p.pc \in DeliverPcs
    BY <1>4 DEF DeliverRecs
  <2> HIDE DEF q, d
  <2>4. RecFits(q)
    BY <1>2, <2>1, <2>2, <2>3 DEF RecFits, Checkpoints, DeliverPcs, d
  <2>5. HandsOf(q) = HandsOf(p) /\ (Settles(q) <=> Settles(p))
    BY <2>1, <2>3 DEF HandsOf, BeforeLease, Settles, DeliverPcs
  <2>6. q \in CallRecs /\ q # Idle
    BY <2>1, IdleIsNoCall DEF CallRecs
  <2>7. Goes(c, q)
    BY <1>1, <1>2, <2>1, <2>6 DEF Goes, Chained
  <2> QED BY <1>1, <1>2, <2>1, <2>4, <2>5, <2>6, <2>7
<1> QED BY <1>3, <1>4 DEF CallRecs

LEMMA GoesOn ==
  ASSUME Types, NEW c \in Calls, Active(c), call[c].saved # "waiting",
         NEW q \in CallRecs, q.saved = "done", RecFits(q), call' = [call EXCEPT ![c] = q],
         UNCHANGED <<records, store, overlapped>>, mail' \in [Tasks -> Seq(Leases)]
  PROVE  Moves(c, q) /\ q # Idle
<1>1. RecordsFit /\ overlapped' \in BOOLEAN
  BY StillFit DEF records, Types
<1>2. Goes(c, q) /\ UNCHANGED <<saving, poisoned, stored>>
  BY DEF Goes, store
<1> QED BY <1>1, <1>2, IdleIsNoCall DEF Moves

LEMMA ReturnMoves ==
  ASSUME Types, NEW c \in Calls, Active(c), call[c].saved # "waiting", Return(c),
         UNCHANGED <<records, store, overlapped>>, mail' \in [Tasks -> Seq(Leases)]
  PROVE  Moves(c, Idle)
<1>1. RecordsFit /\ overlapped' \in BOOLEAN
  BY StillFit DEF records, Types
<1>2. Goes(c, Idle) /\ UNCHANGED <<saving, poisoned, stored>>
  BY DEF Goes, store, Return
<1> QED BY <1>1, <1>2 DEF Moves

\* A call that is not before a lease leaves without more ado.
LEMMA ReturnLeaves ==
  ASSUME Types, NEW c \in Calls, Active(c), call[c].saved # "waiting", Return(c),
         UNCHANGED <<records, store, overlapped, told>>, MailStays,
         BeforeLease(call[c]) => poisoned \/ queue[call[c].task].stage # "running"
  PROVE  Leaves(c)
BY ReturnMoves DEF Leaves, MailStays, records

LEMMA AskEnds ==
  ASSUME Types, NEW c \in Calls, Active(c), call[c].saved # "waiting",
         call[c].node \in Employees, call[c].task \in DOMAIN queue,
         CanFinish(queue[call[c].task]), call[c].task \in HandsOf(call[c]),
         NEW p \in CallRecs, Checkpoint(c, p), p.pc \in Checkpoints \ {"taken"},
         RecFits([p EXCEPT !.saved = "done"]), p.node = call[c].node,
         HandsOf(p) \subseteq HandsOf(call[c]) \ {call[c].task},
         NEW r, Finishes(call[c].task, call[c].node, r),
         Settles(p) => p.task = call[c].task /\ r.stage = "completed",
         mail' \in [Tasks -> Seq(Leases)], MailStays \/ Grants(c), UNCHANGED <<overlapped, told>>
  PROVE  \E q : Ends(c, q)
<1>1. PICK q \in CallRecs :
           /\ Goes(c, q) /\ UNCHANGED <<saving, poisoned, stored>> /\ RecFits(q)
           /\ q # Idle /\ q.saved # "done" /\ q.pc = p.pc /\ q.node = p.node /\ q.task = p.task
           /\ HandsOf(q) = HandsOf(p) /\ (Settles(q) <=> Settles(p))
  BY Asks
<1>2. RecordsFit /\ queue'[call[c].task] = r
  BY FinishedFit
<1>3. Moves(c, q)
  BY <1>1, <1>2 DEF Moves, Types
<1>4. ~BeforeLease(q)
  BY <1>1 DEF BeforeLease, Checkpoints
<1>5. Settles(q) => Done(queue', q.task)
  BY <1>1, <1>2 DEF Done, RecordsFit
<1>6. queue[call[c].task].stage = "running"
  BY DEF CanFinish
<1> QED BY <1>1, <1>3, <1>4, <1>5, <1>6 DEF Ends
-----------------------------------------------------------------------------
(***************************************************************************)
(* Every step of a call has one of these forms.                            *)
(***************************************************************************)
\* At an await of poll that is no checkpoint, or whose checkpoint is stored.
LEMMA PollAt ==
  ASSUME Types, NEW c \in Calls, NEW pc \in PollPcs, At(c, pc)
  PROVE  /\ Active(c) /\ call[c] \in PollRecs /\ call[c] \in CallRecs /\ RecFits(call[c])
         /\ call[c].node \in Employees /\ call[c].rows \in SUBSET Tasks /\ call[c].pc = pc
         /\ pc # "recovering" => call[c].task \in DOMAIN queue /\ call[c].task \in Tasks
         /\ pc \notin Checkpoints => call[c].saved = "done"
<1>1. call[c] \in PollRecs /\ RecFits(call[c]) /\ call[c].pc = pc /\ Active(c) /\ call[c] \in CallRecs
  BY PollIs DEF At
<1>2. DOMAIN queue \subseteq Tasks
  BY DEF Types, QueueFits
<1> QED BY <1>1, <1>2 DEF PollRecs, RecFits

LEMMA DeliverAt ==
  ASSUME Types, NEW c \in Calls, NEW pc \in DeliverPcs, At(c, pc)
  PROVE  /\ Active(c) /\ call[c] \in DeliverRecs /\ call[c] \in CallRecs /\ RecFits(call[c])
         /\ call[c].node \in Employees /\ call[c].pc = pc
         /\ call[c].task \in DOMAIN queue /\ call[c].task \in Tasks
         /\ pc \notin Checkpoints => call[c].saved = "done"
<1>1. call[c] \in DeliverRecs /\ RecFits(call[c]) /\ call[c].pc = pc /\ Active(c) /\ call[c] \in CallRecs
  BY DeliverIs DEF At
<1>2. DOMAIN queue \subseteq Tasks /\ pc # "recovering"
  BY DEF Types, QueueFits, DeliverPcs
<1> QED BY <1>1, <1>2 DEF DeliverRecs, RecFits

LEMMA RecoverPasses ==
  ASSUME Types, NEW c \in Calls, NEW t \in Tasks \cap DOMAIN queue, Recover(c, t)
  PROVE  \E q : Passes(c, q)
<1>1. At(c, "recovering") /\ call[c].saved = "done" /\ t \in call[c].rows
  BY DEF Recover, Saved
<1>2. /\ Active(c) /\ call[c] \in PollRecs /\ RecFits(call[c]) /\ call[c].node \in Employees
      /\ call[c].rows \in SUBSET Tasks /\ call[c].pc = "recovering"
  BY <1>1, PollAt DEF PollPcs
<1>3. UNCHANGED <<queue, assignee, active, records, mail, store, events, overlapped, told>> /\ MailStays
  BY MailKept DEF Recover, records
<1>4. CASE Expired(t)
  <2> DEFINE q == [call[c] EXCEPT !.pc = "expiring", !.task = t]
  <2>1. /\ q \in PollRecs /\ q.saved = "done" /\ q.pc = "expiring" /\ q.task = t
        /\ q.node = call[c].node /\ q.rows = call[c].rows
    BY <1>1, <1>2 DEF PollRecs, PollPcs
  <2>2. call' = [call EXCEPT ![c] = q]
    BY <1>2, <1>4 DEF Recover, Types
  <2> HIDE DEF q
  <2>3. RecFits(q)
    BY <1>1, <2>1 DEF RecFits, DeliverPcs
  <2>4. Moves(c, q) /\ q # Idle
    BY <1>1, <1>2, <1>3, <2>1, <2>2, <2>3, GoesOn DEF CallRecs, MailStays
  <2>5. HandsOf(q) \subseteq HandsOf(call[c])
    BY <1>2, <2>1 DEF HandsOf, BeforeLease
  <2> QED BY <1>2, <1>3, <2>1, <2>4, <2>5 DEF Passes, BeforeLease
<1>5. CASE ~Expired(t)
  <2> DEFINE q == [call[c] EXCEPT !.rows = @ \ {t}]
  <2>1. /\ q \in PollRecs /\ q.saved = "done" /\ q.pc = "recovering"
        /\ q.node = call[c].node /\ q.rows = call[c].rows \ {t}
    BY <1>1, <1>2 DEF PollRecs, PollPcs
  <2>2. call' = [call EXCEPT ![c] = q]
    BY <1>2, <1>5 DEF Recover, Types
  <2> HIDE DEF q
  <2>3. RecFits(q)
    BY <2>1 DEF RecFits, DeliverPcs
  <2>4. Moves(c, q) /\ q # Idle
    BY <1>1, <1>2, <1>3, <2>1, <2>2, <2>3, GoesOn DEF CallRecs, MailStays
  <2>5. HandsOf(q) \subseteq HandsOf(call[c])
    BY <1>2, <2>1 DEF HandsOf, BeforeLease
  <2> QED BY <1>2, <1>3, <2>1, <2>4, <2>5 DEF Passes, BeforeLease
<1> QED BY <1>4, <1>5

LEMMA ExpireMoves ==
  ASSUME Types, NEW c \in Calls, Expire(c)
  PROVE  Leaves(c) \/ \E q : Passes(c, q)
<1>1. /\ Active(c) /\ call[c] \in PollRecs /\ RecFits(call[c]) /\ call[c].pc = "expiring"
      /\ call[c].saved = "done" /\ ~BeforeLease(call[c])
  BY PollAt DEF Expire, PollPcs, Checkpoints, BeforeLease
<1>2. UNCHANGED <<queue, assignee, active, records, mail, store, overlapped, told>> /\ MailStays
  BY MailKept DEF Expire, records
<1>3. CASE Goto(c, "expired")
  <2> DEFINE q == [call[c] EXCEPT !.pc = "expired"]
  <2>1. /\ q \in PollRecs /\ q.saved = "done" /\ q.pc = "expired" /\ q.task = call[c].task
        /\ q.node = call[c].node /\ q.rows = call[c].rows
    BY <1>1 DEF PollRecs, PollPcs
  <2>2. call' = [call EXCEPT ![c] = q]
    BY <1>1, <1>3 DEF Goto, Types
  <2> HIDE DEF q
  <2>3. RecFits(q)
    BY <1>1, <2>1 DEF RecFits, DeliverPcs
  <2>4. Moves(c, q) /\ q # Idle
    BY <1>1, <1>2, <2>1, <2>2, <2>3, GoesOn DEF CallRecs, MailStays
  <2>5. HandsOf(q) \subseteq HandsOf(call[c])
    BY <1>1, <2>1 DEF HandsOf, BeforeLease
  <2> QED BY <1>1, <1>2, <2>1, <2>4, <2>5 DEF Passes, BeforeLease
<1>4. CASE Return(c)
  BY <1>1, <1>2, <1>4, ReturnLeaves
<1> QED BY <1>3, <1>4 DEF Expire

LEMMA FailExpiredMoves ==
  ASSUME Types, NEW c \in Calls, FailExpired(c)
  PROVE  Leaves(c) \/ \E q : Ends(c, q)
<1> DEFINE t == call[c].task
<1>1. /\ Active(c) /\ call[c] \in PollRecs /\ RecFits(call[c]) /\ call[c].pc = "expired"
      /\ call[c].saved = "done" /\ ~BeforeLease(call[c])
      /\ t \in DOMAIN queue /\ t \in Tasks /\ call[c].node \in Employees
  BY PollAt DEF FailExpired, PollPcs, Checkpoints, BeforeLease
<1>2. UNCHANGED <<mail, overlapped, told>> /\ MailStays
  BY MailKept DEF FailExpired
<1>3. CASE /\ CanFinish(queue[t])
           /\ FailAndRequeue(t, call[c].node, "retriable")
           /\ Checkpoint(c, [call[c] EXCEPT !.pc = "recovering", !.rows = @ \ {t}, !.task = None])
  <2> DEFINE p == [call[c] EXCEPT !.pc = "recovering", !.rows = @ \ {t}, !.task = None]
             d == [p EXCEPT !.saved = "done"]
  <2>1. /\ p \in PollRecs /\ p.pc = "recovering" /\ p.node = call[c].node
        /\ p.rows = call[c].rows \ {t} /\ d.pc = "recovering" /\ d.saved = "done"
    BY <1>1 DEF PollRecs, PollPcs
  <2>2. Checkpoint(c, p)
    BY <1>3
  <2>3. PICK r : Finishes(t, call[c].node, r)
    BY <1>1, <1>3, FailFinishes DEF Failures
  <2> HIDE DEF p, d
  <2>4. RecFits(d)
    BY <2>1 DEF RecFits, DeliverPcs
  <2>5. t \in HandsOf(call[c]) /\ HandsOf(p) \subseteq HandsOf(call[c]) \ {t}
    BY <1>1, <2>1 DEF HandsOf, BeforeLease, RecFits
  <2>6. ~Settles(p) /\ p \in CallRecs /\ p.pc \in Checkpoints \ {"taken"}
    BY <2>1 DEF Settles, CallRecs, Checkpoints
  <2> QED BY <1>1, <1>2, <1>3, <2>1, <2>2, <2>3, <2>4, <2>5, <2>6, AskEnds DEF d, MailStays
<1>4. CASE Return(c) /\ UNCHANGED <<records, store>>
  BY <1>1, <1>2, <1>4, ReturnLeaves
<1> QED BY <1>3, <1>4 DEF FailExpired

LEMMA NothingLeaves ==
  ASSUME Types, NEW c \in Calls, NothingForNode(c)
  PROVE  Leaves(c)
<1>1. /\ Active(c) /\ call[c].pc = "recovering" /\ call[c].saved = "done" /\ ~BeforeLease(call[c])
  BY PollAt DEF NothingForNode, Saved, PollPcs, BeforeLease
<1> QED BY <1>1, MailKept, ReturnLeaves DEF NothingForNode

LEMMA TakeTaskTakes ==
  ASSUME Types, NEW c \in Calls, NEW t \in Tasks \cap DOMAIN queue, TakeTask(c, t)
  PROVE  \E q : Takes(c, q)
<1>1. /\ Active(c) /\ call[c] \in PollRecs /\ call[c].pc = "recovering"
      /\ call[c].saved = "done" /\ call[c].node \in Employees
  BY PollAt DEF TakeTask, Saved, PollPcs
<1>2. /\ queue[t].stage = "queued" /\ Take(t, call[c].node)
      /\ UNCHANGED <<mail, overlapped, told>>
  BY DEF TakeTask
<1> DEFINE p == [call[c] EXCEPT !.pc = "taken", !.task = t]
           d == [p EXCEPT !.saved = "done"]
<1>3. /\ p \in PollRecs /\ p.pc = "taken" /\ p.node = call[c].node /\ p.task = t
      /\ d.pc = "taken" /\ d.saved = "done" /\ d.task = t
  BY <1>1 DEF PollRecs, PollPcs
<1>4. Checkpoint(c, p)
  BY DEF TakeTask
<1> HIDE DEF p, d
<1>5. RecFits(d)
  BY <1>3 DEF RecFits, DeliverPcs
<1>6. PICK q \in CallRecs :
           /\ Goes(c, q) /\ UNCHANGED <<saving, poisoned, stored>> /\ RecFits(q)
           /\ q # Idle /\ q.saved # "done" /\ q.pc = p.pc /\ q.node = p.node /\ q.task = p.task
  BY <1>3, <1>4, <1>5, Asks DEF d, CallRecs, Checkpoints
<1>7. RecordsFit
  BY <1>1, <1>2, TakenFit
<1>8. Moves(c, q)
  BY <1>1, <1>2, <1>6, <1>7 DEF Moves, Types
<1> QED BY <1>1, <1>2, <1>3, <1>6, <1>8 DEF Takes

LEMMA RefusedMoves ==
  ASSUME Types, NEW c \in Calls, At(c, "taken") \/ At(c, "leasing"), call[c].saved = "done",
         LeaseRefused(c), MailStays \/ Grants(c), mail' \in [Tasks -> Seq(Leases)],
         UNCHANGED <<overlapped, told>>
  PROVE  Leaves(c) \/ \E q : Ends(c, q)
<1> DEFINE t == call[c].task
<1>1. /\ Active(c) /\ call[c] \in PollRecs /\ BeforeLease(call[c])
      /\ t \in DOMAIN queue /\ t \in Tasks /\ call[c].node \in Employees
  BY PollAt DEF PollPcs, BeforeLease
<1>2. CASE /\ CanFinish(queue[t])
           /\ FailAndRequeue(t, call[c].node, "retriable")
           /\ Checkpoint(c, [call[c] EXCEPT !.pc = "refused"])
  <2> DEFINE p == [call[c] EXCEPT !.pc = "refused"]
             d == [p EXCEPT !.saved = "done"]
  <2>1. /\ p \in PollRecs /\ p.pc = "refused" /\ p.node = call[c].node
        /\ d.pc = "refused" /\ d.saved = "done" /\ d.task = t
    BY <1>1 DEF PollRecs, PollPcs
  <2>2. Checkpoint(c, p)
    BY <1>2
  <2>3. PICK r : Finishes(t, call[c].node, r)
    BY <1>1, <1>2, FailFinishes DEF Failures
  <2> HIDE DEF p, d
  <2>4. RecFits(d)
    BY <1>1, <2>1 DEF RecFits, DeliverPcs
  <2>5. t \in HandsOf(call[c]) /\ HandsOf(p) \subseteq HandsOf(call[c]) \ {t}
    BY <1>1, <2>1 DEF HandsOf, BeforeLease
  <2>6. ~Settles(p) /\ p \in CallRecs /\ p.pc \in Checkpoints \ {"taken"}
    BY <2>1 DEF Settles, CallRecs, Checkpoints
  <2> QED BY <1>1, <1>2, <2>1, <2>2, <2>3, <2>4, <2>5, <2>6, AskEnds DEF d
<1>3. CASE ~CanFinish(queue[t]) /\ Return(c) /\ UNCHANGED <<records, store>>
  <2>1. queue[t].stage # "running" /\ UNCHANGED <<queue, assignee, active>>
    BY <1>3 DEF CanFinish, records
  <2>2. Moves(c, Idle)
    BY <1>1, <1>3, ReturnMoves
  <2> QED BY <1>1, <2>1, <2>2 DEF Leaves
<1> QED BY <1>2, <1>3 DEF LeaseRefused

LEMMA LookMoves ==
  ASSUME Types, NEW c \in Calls, LookForLease(c)
  PROVE  Leaves(c) \/ \E q : Passes(c, q) \/ Ends(c, q)
<1>1. /\ Active(c) /\ call[c] \in PollRecs /\ RecFits(call[c]) /\ call[c].pc = "taken"
      /\ call[c].saved = "done" /\ BeforeLease(call[c]) /\ At(c, "taken")
  BY PollAt DEF LookForLease, Saved, PollPcs, BeforeLease
<1>2. UNCHANGED <<mail, overlapped, told>> /\ MailStays
  BY MailKept DEF LookForLease
<1>3. CASE Goto(c, "leasing") /\ UNCHANGED <<records, store>>
  <2> DEFINE q == [call[c] EXCEPT !.pc = "leasing"]
  <2>1. /\ q \in PollRecs /\ q.saved = "done" /\ q.pc = "leasing" /\ q.task = call[c].task
        /\ q.node = call[c].node
    BY <1>1 DEF PollRecs, PollPcs
  <2>2. call' = [call EXCEPT ![c] = q]
    BY <1>1, <1>3 DEF Goto, Types
  <2> HIDE DEF q
  <2>3. RecFits(q)
    BY <1>1, <2>1 DEF RecFits, DeliverPcs
  <2>4. Moves(c, q) /\ q # Idle
    BY <1>1, <1>2, <1>3, <2>1, <2>2, <2>3, GoesOn DEF CallRecs, MailStays
  <2>5. HandsOf(q) \subseteq HandsOf(call[c])
    BY <1>1, <2>1 DEF HandsOf, BeforeLease
  <2> QED BY <1>1, <1>2, <1>3, <2>1, <2>4, <2>5 DEF Passes, BeforeLease, records
<1>4. CASE LeaseRefused(c)
  BY <1>1, <1>2, <1>4, RefusedMoves DEF MailStays
<1> QED BY <1>3, <1>4 DEF LookForLease

LEMMA GrantMoves ==
  ASSUME Types, NEW c \in Calls, GrantLease(c)
  PROVE  Leaves(c) \/ \E q : Ends(c, q)
<1> DEFINE granted == [mail EXCEPT ![call[c].task] = Append(@, NewLease(call[c].node))]
<1>1. /\ Active(c) /\ call[c] \in PollRecs /\ call[c].pc = "leasing" /\ At(c, "leasing")
      /\ call[c].saved = "done" /\ call[c].task \in Tasks /\ call[c].node \in Employees
  BY PollAt DEF GrantLease, PollPcs, Checkpoints
<1>2. UNCHANGED <<overlapped, told>>
  BY DEF GrantLease
<1>3. mail' = granted => Grants(c) /\ mail' \in [Tasks -> Seq(Leases)]
  BY <1>1, GrantFits DEF Grants
<1>4. CASE mail' = granted /\ Return(c) /\ UNCHANGED <<records, store, events>>
  <2>1. Moves(c, Idle)
    BY <1>1, <1>2, <1>3, <1>4, ReturnMoves
  <2> QED BY <1>1, <1>2, <1>3, <1>4, <2>1 DEF Leaves, records
<1>5. CASE Refuses(granted) /\ LeaseRefused(c)
  <2>1. mail' = mail \/ mail' = granted
    BY <1>5 DEF Refuses
  <2>2. mail' = mail => MailStays /\ mail' \in [Tasks -> Seq(Leases)]
    BY MailKept DEF MailStays
  <2> HIDE DEF granted
  <2> QED BY <1>1, <1>2, <1>3, <1>5, <2>1, <2>2, RefusedMoves
<1> QED BY <1>4, <1>5 DEF GrantLease
LEMMA CheckMoves ==
  ASSUME Types, NEW c \in Calls, CheckLease(c)
  PROVE  Leaves(c) \/ \E q : Passes(c, q)
<1> DEFINE t == call[c].task
<1>1. /\ Active(c) /\ call[c] \in DeliverRecs /\ RecFits(call[c]) /\ call[c].pc = "delivering"
      /\ call[c].saved = "done" /\ ~BeforeLease(call[c]) /\ t \in Tasks
  BY DeliverAt DEF CheckLease, DeliverPcs, Checkpoints, BeforeLease
<1>2. UNCHANGED <<queue, assignee, active, records, mail, store, events, overlapped, told>> /\ MailStays
  BY MailKept DEF CheckLease, records
<1>3. ASSUME NEW q \in DeliverRecs, call' = [call EXCEPT ![c] = q], q.saved = "done",
             q.node = call[c].node, q.task = t, q.stage = call[c].stage,
             q.pc \in {"accepting", "accepted"}, q.pc = "accepted" => q.status # "none"
      PROVE  Passes(c, q)
  <2>1. RecFits(q)
    BY <1>1, <1>3 DEF RecFits, DeliverPcs
  <2>2. Moves(c, q) /\ q # Idle
    BY <1>1, <1>2, <1>3, <2>1, GoesOn DEF CallRecs, MailStays
  <2>3. HandsOf(q) \subseteq HandsOf(call[c])
    BY <1>1, <1>3 DEF HandsOf, BeforeLease
  <2> QED BY <1>1, <1>2, <1>3, <2>2, <2>3 DEF Passes, BeforeLease
<1>4. CASE call[c].lease # Len(mail[t]) \/ (Current(t).accepted = "none" /\ Current(t).over)
  <2>1. Return(c)
    BY <1>4 DEF CheckLease, Return
  <2> QED BY <1>1, <1>2, <2>1, ReturnLeaves
<1>5. CASE call[c].lease = Len(mail[t]) /\ Current(t).accepted # "none"
  <2> DEFINE q == [call[c] EXCEPT !.pc = "accepted", !.status = Current(t).accepted]
  <2>1. Current(t).accepted \in Answers
    <3>1. call[c].lease \in 1 .. Len(mail[t])
      BY <1>1, <1>5 DEF DeliverRecs
    <3>2. Current(t) \in Leases
      BY <1>1, <1>5, <3>1, LeaseIs DEF Current
    <3> QED BY <1>5, <3>2 DEF Leases
  <2>2. /\ q \in DeliverRecs /\ q.saved = "done" /\ q.pc = "accepted" /\ q.task = t
        /\ q.node = call[c].node /\ q.stage = call[c].stage /\ q.status = Current(t).accepted
    BY <1>1, <2>1 DEF DeliverRecs, DeliverPcs
  <2>3. call' = [call EXCEPT ![c] = q]
    BY <1>1, <1>5 DEF CheckLease, Types
  <2> HIDE DEF q
  <2> QED BY <1>3, <1>5, <2>2, <2>3
<1>6. CASE call[c].lease = Len(mail[t]) /\ Current(t).accepted = "none" /\ ~Current(t).over
  <2> DEFINE q == [call[c] EXCEPT !.pc = "accepting"]
  <2>1. /\ q \in DeliverRecs /\ q.saved = "done" /\ q.pc = "accepting" /\ q.task = t
        /\ q.node = call[c].node /\ q.stage = call[c].stage
    BY <1>1 DEF DeliverRecs, DeliverPcs
  <2>2. call' = [call EXCEPT ![c] = q]
    BY <1>1, <1>6 DEF CheckLease, Types
  <2> HIDE DEF q
  <2> QED BY <1>3, <2>1, <2>2
<1> QED BY <1>4, <1>5, <1>6

LEMMA AppendMoves ==
  ASSUME Types, NEW c \in Calls, NEW status \in Answers, AppendResult(c, status)
  PROVE  Leaves(c) \/ \E q : Passes(c, q)
<1> DEFINE noted == Noted(call[c].task, call[c].lease, status)
<1>1. /\ Active(c) /\ call[c] \in DeliverRecs /\ RecFits(call[c]) /\ call[c].pc = "accepting"
      /\ call[c].saved = "done" /\ ~BeforeLease(call[c]) /\ call[c].task \in Tasks
      /\ call[c].lease \in Nat \ {0}
  BY DeliverAt DEF AppendResult, DeliverPcs, DeliverRecs, Checkpoints, BeforeLease
<1>2. UNCHANGED <<queue, assignee, active, records, store, overlapped, told>>
  BY DEF AppendResult, records
<1>3. mail' = mail \/ mail' = noted => MailStays
  BY <1>1, MailKept, NotedStays
<1>4. CASE mail' = noted /\ call' = [call EXCEPT ![c].pc = "accepted", ![c].status = status]
  <2> DEFINE q == [call[c] EXCEPT !.pc = "accepted", !.status = status]
  <2>1. /\ q \in DeliverRecs /\ q.saved = "done" /\ q.pc = "accepted" /\ q.task = call[c].task
        /\ q.node = call[c].node /\ q.stage = call[c].stage /\ q.status = status
    BY <1>1 DEF DeliverRecs, DeliverPcs
  <2>2. call' = [call EXCEPT ![c] = q]
    BY <1>1, <1>4 DEF Types
  <2> HIDE DEF q, noted
  <2>3. RecFits(q)
    BY <1>1, <2>1 DEF RecFits, DeliverPcs, Answers, Failures
  <2>4. Moves(c, q) /\ q # Idle
    BY <1>1, <1>2, <1>3, <1>4, <2>1, <2>2, <2>3, GoesOn DEF CallRecs, MailStays
  <2>5. HandsOf(q) \subseteq HandsOf(call[c])
    BY <1>1, <2>1 DEF HandsOf, BeforeLease
  <2> QED BY <1>1, <1>2, <1>3, <1>4, <2>1, <2>4, <2>5 DEF Passes, BeforeLease
<1>5. CASE Refuses(noted) /\ Return(c)
  <2>1. MailStays
    BY <1>3, <1>5 DEF Refuses
  <2> HIDE DEF noted
  <2> QED BY <1>1, <1>2, <1>5, <2>1, ReturnLeaves
<1> QED BY <1>4, <1>5 DEF AppendResult

LEMMA SettleMoves ==
  ASSUME Types, NEW c \in Calls, Settle(c)
  PROVE  \E q : Ends(c, q)
<1> DEFINE t == call[c].task
<1>1. /\ Active(c) /\ call[c] \in DeliverRecs /\ RecFits(call[c]) /\ call[c].pc = "accepted"
      /\ call[c].saved = "done" /\ ~BeforeLease(call[c]) /\ t \in Tasks /\ t \in DOMAIN queue
      /\ call[c].node \in Employees
  BY DeliverAt DEF Settle, DeliverPcs, Checkpoints, BeforeLease
<1>2. UNCHANGED <<mail, overlapped, told>> /\ MailStays
  BY MailKept DEF Settle
<1>3. CASE /\ call[c].stage = "running" /\ CanFinish(queue[t])
           /\ IF call[c].status = "completed" THEN CompleteAndRelease(t, call[c].node)
              ELSE FailAndRequeue(t, call[c].node, call[c].status)
           /\ Checkpoint(c, [call[c] EXCEPT !.pc = "settled"])
  <2> DEFINE p == [call[c] EXCEPT !.pc = "settled"]
             d == [p EXCEPT !.saved = "done"]
  <2>1. /\ p \in DeliverRecs /\ p.pc = "settled" /\ p.node = call[c].node /\ p.task = t
        /\ p.status = call[c].status
        /\ d.pc = "settled" /\ d.saved = "done" /\ d.task = t /\ d.stage = call[c].stage
    BY <1>1 DEF DeliverRecs, DeliverPcs
  <2>2. Checkpoint(c, p)
    BY <1>3
  <2>3. PICK r : /\ Finishes(t, call[c].node, r)
                 /\ call[c].status = "completed" => r.stage = "completed"
    <3>1. call[c].status \in Answers
      BY <1>1 DEF RecFits, DeliverRecs
    <3>2. CASE call[c].status = "completed"
      BY <1>1, <1>3, <3>2, CompleteFinishes
    <3>3. CASE call[c].status # "completed"
      <4>1. call[c].status \in Failures
        BY <3>1, <3>3 DEF Answers
      <4> QED BY <1>1, <1>3, <3>3, <4>1, FailFinishes
    <3> QED BY <3>2, <3>3
  <2> HIDE DEF p, d
  <2>4. RecFits(d)
    BY <1>1, <2>1 DEF RecFits, DeliverPcs, Checkpoints
  <2>5. t \in HandsOf(call[c]) /\ HandsOf(p) \subseteq HandsOf(call[c]) \ {t}
    BY <1>1, <1>3, <2>1 DEF HandsOf, BeforeLease
  <2>6. (Settles(p) => p.task = t /\ r.stage = "completed") /\ p \in CallRecs /\ p.pc \in Checkpoints \ {"taken"}
    BY <2>1, <2>3 DEF Settles, CallRecs, Checkpoints
  <2> QED BY <1>1, <1>2, <1>3, <2>1, <2>2, <2>3, <2>4, <2>5, <2>6, AskEnds DEF d, MailStays
<1> QED BY <1>3 DEF Settle

LEMMA RepeatLeaves ==
  ASSUME Types, NEW c \in Calls, Repeat(c)
  PROVE  Leaves(c)
<1>1. /\ Active(c) /\ RecFits(call[c]) /\ call[c].pc = "accepted" /\ call[c].saved = "done"
      /\ ~BeforeLease(call[c])
  BY DeliverAt DEF Repeat, DeliverPcs, Checkpoints, BeforeLease
<1>2. MailStays /\ UNCHANGED <<queue, assignee, active, overlapped>>
  BY MailKept DEF Repeat, records
<1>3. Moves(c, Idle)
  BY <1>1, <1>2, ReturnMoves DEF Repeat, MailStays
<1>4. Done(queue, call[c].task)
  BY <1>1 DEF Repeat, RecFits, DeliverPcs
<1>5. \/ told' = told
      \/ told' = told \cup {[task |-> call[c].task, stored |-> Done(stored.queue, call[c].task)]}
  BY DEF Repeat, Tells
<1> QED BY <1>1, <1>2, <1>3, <1>4, <1>5 DEF Leaves

LEMMA RejectLeaves ==
  ASSUME Types, NEW c \in Calls, Reject(c)
  PROVE  Leaves(c)
<1>1. Active(c) /\ call[c].saved = "done" /\ ~BeforeLease(call[c])
  BY DeliverAt DEF Reject, DeliverPcs, Checkpoints, BeforeLease
<1>2. MailStays
  BY MailKept DEF Reject
<1> QED BY <1>1, <1>2, ReturnLeaves DEF Reject

LEMMA TellLeaves ==
  ASSUME Types, NEW c \in Calls, Tell(c)
  PROVE  Leaves(c)
<1>1. /\ Active(c) /\ call[c].pc = "settled" /\ call[c].saved = "done" /\ ~BeforeLease(call[c])
  BY DeliverAt DEF Tell, Saved, DeliverPcs, BeforeLease
<1>2. MailStays /\ UNCHANGED <<queue, assignee, active, overlapped>>
  BY MailKept DEF Tell, records
<1>3. Moves(c, Idle)
  BY <1>1, <1>2, ReturnMoves DEF Tell, MailStays
<1>4. \/ told' = told
      \/ Settles(call[c]) /\ told' = told \cup {[task |-> call[c].task, stored |-> TRUE]}
  BY <1>1 DEF Tell, Tells, Settles
<1> QED BY <1>1, <1>2, <1>3, <1>4 DEF Leaves

LEMMA ThrowLeaves ==
  ASSUME Types, NEW c \in Calls, Throw(c)
  PROVE  Leaves(c)
<1>1. /\ call[c].pc \in PollPcs \cup DeliverPcs /\ call[c].saved # "waiting"
      /\ call[c].saved = "failed" \/ call[c].pc = "refused"
  BY DEF Throw, Threw, Saved, At, PollPcs, DeliverPcs
<1>2. Active(c) /\ RecFits(call[c])
  BY <1>1, PollIs, DeliverIs
<1>3. BeforeLease(call[c]) => poisoned
  BY <1>1, <1>2 DEF RecFits, BeforeLease
<1> QED BY <1>1, <1>2, <1>3, MailKept, ReturnLeaves DEF Throw

LEMMA PollStarts ==
  ASSUME Types, NEW c \in Calls, NEW e \in Employees, Poll(c, e)
  PROVE  \E q : Starts(c, q)
<1> DEFINE rows == {t \in DOMAIN queue : queue[t].stage = "running" /\ assignee[t] = e}
           q == [pc |-> "recovering", node |-> e, saved |-> "done", task |-> None, rows |-> rows]
<1>1. rows \in SUBSET Tasks
  BY DEF Types, QueueFits
<1>2. /\ q \in PollRecs /\ q.pc = "recovering" /\ q.node = e /\ q.saved = "done" /\ q.rows = rows
  BY <1>1 DEF PollRecs, PollPcs, SavedStates
<1>3. Requests(c, q)
  BY DEF Poll
<1> HIDE DEF q
<1>4. RecFits(q) /\ q \in CallRecs /\ q # Idle
  BY <1>2, IdleIsNoCall DEF RecFits, DeliverPcs, CallRecs
<1>5. \A t \in HandsOf(q) : RunsOn(t, q.node)
  BY <1>2 DEF HandsOf, BeforeLease, RunsOn
<1>6. /\ ~Active(c) /\ call' = [call EXCEPT ![c] = q]
      /\ overlapped' = (overlapped \/ \E d \in Calls : Active(d) /\ call[d].node = q.node)
      /\ UNCHANGED <<queue, assignee, active, mail, chain, saving, poisoned, stored, told>>
  BY <1>3 DEF Requests, Active, records, store
<1>7. RecordsFit /\ mail' \in [Tasks -> Seq(Leases)] /\ overlapped' \in BOOLEAN
  BY <1>6, StillFit DEF Types
<1>8. Goes(c, q)
  BY <1>2, <1>6 DEF Goes
<1>9. Moves(c, q)
  BY <1>4, <1>6, <1>7, <1>8 DEF Moves
<1> QED BY <1>2, <1>4, <1>5, <1>6, <1>9 DEF Starts, BeforeLease

LEMMA StagesFit == Types => \A t \in DOMAIN queue : queue[t].stage \in Stages
BY DEF Types, QueueFits, Records

LEMMA DeliverStarts ==
  ASSUME Types, NEW c \in Calls, NEW t \in Tasks, NEW i, Deliver(c, t, i)
  PROVE  \E q : Starts(c, q)
<1> DEFINE q == [pc |-> "delivering", node |-> assignee[t], saved |-> "done",
                 task |-> t, lease |-> i, status |-> "none", stage |-> queue[t].stage]
<1>1. i \in Nat \ {0} /\ t \in DOMAIN queue /\ assignee[t] \in Employees
  <2>1. i \in 1 .. Len(mail[t]) /\ t \in DOMAIN queue /\ assignee[t] = mail[t][i].employee
    BY DEF Deliver
  <2>2. mail[t][i] \in Leases /\ Len(mail[t]) \in Nat
    BY <2>1, LeaseIs
  <2> QED BY <2>1, <2>2 DEF Leases
<1>2. /\ q \in DeliverRecs /\ q.pc = "delivering" /\ q.node = assignee[t] /\ q.saved = "done"
      /\ q.task = t /\ q.stage = queue[t].stage
  BY <1>1, StagesFit DEF DeliverRecs, DeliverPcs, SavedStates
<1>3. Requests(c, q)
  BY DEF Deliver
<1> HIDE DEF q
<1>4. RecFits(q) /\ q \in CallRecs /\ q # Idle
  BY <1>1, <1>2, IdleIsNoCall DEF RecFits, Done, DeliverPcs, CallRecs
<1>5. \A u \in HandsOf(q) : RunsOn(u, q.node)
  BY <1>1, <1>2 DEF HandsOf, BeforeLease, RunsOn
<1>6. /\ ~Active(c) /\ call' = [call EXCEPT ![c] = q]
      /\ overlapped' = (overlapped \/ \E d \in Calls : Active(d) /\ call[d].node = q.node)
      /\ UNCHANGED <<queue, assignee, active, mail, chain, saving, poisoned, stored, told>>
  BY <1>3 DEF Requests, Active, records, store
<1>7. RecordsFit /\ mail' \in [Tasks -> Seq(Leases)] /\ overlapped' \in BOOLEAN
  BY <1>6, StillFit DEF Types
<1>8. Goes(c, q)
  BY <1>2, <1>6 DEF Goes
<1>9. Moves(c, q)
  BY <1>4, <1>6, <1>7, <1>8 DEF Moves
<1> QED BY <1>2, <1>4, <1>5, <1>6, <1>9 DEF Starts, BeforeLease

\* What the calls do between two awaits.
CallSteps ==
  \E c \in Calls :
    \/ Step(c) \/ \E e \in Employees : Poll(c, e)
    \/ \E t \in Tasks, i \in 1 .. MaxAttempts : Deliver(c, t, i)
    \/ \E status \in Answers : AppendResult(c, status)

LEMMA StepForms ==
  ASSUME Types, CallSteps
  PROVE  \E c \in Calls : \/ Leaves(c)
                          \/ \E q : Passes(c, q) \/ Ends(c, q) \/ Takes(c, q) \/ Starts(c, q)
<1>1. PICK c \in Calls :
        \/ Step(c) \/ \E e \in Employees : Poll(c, e)
        \/ \E t \in Tasks, i \in 1 .. MaxAttempts : Deliver(c, t, i)
        \/ \E status \in Answers : AppendResult(c, status)
  BY DEF CallSteps
<1>2. CASE Step(c)
  BY <1>2, RecoverPasses, ExpireMoves, FailExpiredMoves, NothingLeaves, TakeTaskTakes, LookMoves,
     GrantMoves, CheckMoves, SettleMoves, RepeatLeaves,
     RejectLeaves, TellLeaves, ThrowLeaves DEF Step
<1>3. CASE \E e \in Employees : Poll(c, e)
  BY <1>3, PollStarts
<1>4. CASE \E t \in Tasks, i \in 1 .. MaxAttempts : Deliver(c, t, i)
  BY <1>4, DeliverStarts
<1>5. CASE \E status \in Answers : AppendResult(c, status)
  BY <1>5, AppendMoves
<1> QED BY <1>1, <1>2, <1>3, <1>4, <1>5
-----------------------------------------------------------------------------
(***************************************************************************)
(* BaseInv: the steps that are no call's, and the induction.               *)
(***************************************************************************)
\* A task is enqueued, or a lease runs out: the calls are left alone.
Outside ==
  /\ UNCHANGED <<active, call, saving, poisoned, stored, overlapped, told>> /\ MailStays
  /\ QueueFits(queue') /\ IsFiniteSet(DOMAIN queue') /\ Precedes(queue, queue')
  /\ AssigneeFits(assignee', queue')
  /\ \A t \in DOMAIN queue : queue'[t] = queue[t] /\ assignee'[t] = assignee[t]
  /\ \A t \in DOMAIN queue' \ DOMAIN queue : queue'[t].stage = "queued"
  /\ chain' = chain \/ (~poisoned /\ chain' = Append(chain, Controller))

LEMMA RunsOutIsOutside == ASSUME Types, NEW t \in Tasks, LeaseRunsOut(t) PROVE Outside
BY RunsOutStays, PrecedesItself DEF Outside, LeaseRunsOut, Types, store

LEMMA EnqueueIsOutside == ASSUME Types, NEW t \in Tasks, Enqueue(t) PROVE Outside
<1>1. /\ UNCHANGED <<active, mail, call, saving, poisoned, stored, overlapped, told>>
      /\ chain' = Chained(Controller) /\ t \notin DOMAIN queue
  BY DEF Enqueue
<1>2. /\ DOMAIN queue' = DOMAIN queue \cup {t} /\ queue'[t] = Enqueued
      /\ \A u \in DOMAIN queue : queue'[u] = queue[u] /\ assignee'[u] = assignee[u]
  BY <1>1 DEF Enqueue
<1>3. TaskFits(Enqueued) /\ Enqueued.stage = "queued"
  <2>1. Enqueued = Row("queued", 0, NoResult) /\ Enqueued.stage = "queued"
    BY DEF Enqueued, Row
  <2>2. NoResult \in Results /\ NoResult.status = "none"
    BY DEF NoResult, Results
  <2> QED BY <2>1, <2>2, MaxAttemptsIsPositive, RowFits DEF Stages
<1>4. QueueFits(queue')
  <2>1. \A u \in DOMAIN queue' : TaskFits(queue'[u])
    BY <1>2, <1>3 DEF Types, QueueFits
  <2>2. queue' \in [DOMAIN queue' -> Records] /\ DOMAIN queue' \subseteq Tasks
    BY <1>2, <2>1 DEF TaskFits, Enqueue, Types, QueueFits
  <2> QED BY <2>1, <2>2 DEF QueueFits
<1>5. Precedes(queue, queue')
  BY <1>2, PrecedesItself DEF Types, Precedes
<1>6. IsFiniteSet(DOMAIN queue')
  <2>1. IsFiniteSet(DOMAIN queue)
    BY DEF Types
  <2>2. IsFiniteSet(DOMAIN queue \cup {t})
    BY <2>1, FS_AddElement
  <2> QED BY <1>2, <2>2
<1>7. AssigneeFits(assignee', queue')
  BY <1>2 DEF Enqueue, AssigneeFits, Types
<1>8. MailStays
  BY <1>1, MailKept
<1> QED BY <1>1, <1>2, <1>3, <1>4, <1>5, <1>6, <1>7, <1>8 DEF Outside, Chained

\* The controller is no call, and comes last.
LEMMA OutsideKeepsChain ==
  ASSUME Types, ChainFits, Outside
  PROVE  /\ ChainFits' /\ chain' \in Seq(Calls \cup {Controller})
         /\ saving # None => Head(chain') = Head(chain)
<1>1. Controller \notin Calls
  BY DEF Controller, Calls
<1>2. chain \in Seq(Calls \cup {Controller}) /\ Once(chain, Calls)
  BY DEF Types, ChainFits
<1>3. CASE chain' = chain
  BY <1>2, <1>3 DEF Outside, ChainFits, Chains, Active
<1>4. CASE ~poisoned /\ chain' = Append(chain, Controller)
  <2>1. /\ chain' \in Seq(Calls \cup {Controller}) /\ chain' # << >> /\ Once(chain', Calls)
        /\ \A d : InLine(chain', d) <=> InLine(chain, d) \/ d = Controller
        /\ chain # << >> => Head(chain') = Head(chain)
    BY <1>1, <1>2, <1>4, Appended
  <2>2. \A d \in Calls : Active(d)' /\ call'[d].saved = "waiting" <=> Chains(d)'
    BY <1>1, <2>1 DEF Outside, ChainFits, Chains, Active
  <2>3. poisoned' = FALSE /\ saving' = saving
    BY <1>4 DEF Outside, Types
  <2> QED BY <2>1, <2>2, <2>3 DEF ChainFits
<1> QED BY <1>3, <1>4 DEF Outside

LEMMA OutsideKeeps == ASSUME BaseInv, Outside PROVE BaseInv'
<1>1. ChainFits' /\ chain' \in Seq(Calls \cup {Controller})
  BY OutsideKeepsChain DEF BaseInv
<1>2. \A d \in Calls : CallFits(d)'
  BY CallsStayFit DEF BaseInv, Types, Outside, Precedes
<1>3. Types'
  BY <1>1, <1>2 DEF BaseInv, Types, Outside, MailStays
<1>4. InOrder'
  <2>1. QueueFits(queue) /\ QueueFits(queue') /\ QueueFits(stored.queue)
    BY DEF Outside, BaseInv, Types, SnapFits
  <2>2. Precedes(stored.queue, queue')
    BY <2>1, PrecedesOn DEF Outside, BaseInv, InOrder
  <2>3. saving # None => QueueFits(saving.queue)
    BY DEF BaseInv, Types, SnapFits
  <2>4. saving # None => Precedes(saving.queue, queue')
    BY <2>1, <2>3, PrecedesOn DEF Outside, BaseInv, InOrder
  <2> QED BY <2>2, <2>4 DEF Outside, BaseInv, InOrder
<1> QED BY <1>1, <1>3, <1>4 DEF BaseInv

\* The snapshot that is saved is that of the moment.
LEMMA SnapshotFits ==
  ASSUME BaseInv
  PROVE  /\ SnapFits(Snapshot) /\ Snapshot # None /\ Snapshot.queue = queue
         /\ Snapshot.assignee = assignee
<1>1. Snapshot # None
  <2>1. DOMAIN Snapshot # {} /\ DOMAIN None = {}
    BY DEF Snapshot, None
  <2> QED BY <2>1
<1> QED BY <1>1 DEF Snapshot, SnapFits, BaseInv, Types

LEMMA SaveBeginsKeeps == ASSUME BaseInv, SaveBegins PROVE BaseInv'
<1>1. /\ UNCHANGED <<queue, assignee, active, mail, call, chain, poisoned, stored, overlapped>>
      /\ chain # << >> /\ saving' = Snapshot
  BY DEF SaveBegins
<1>2. Types'
  BY <1>1, SnapshotFits DEF BaseInv, Types, CallFits, RecFits, Active
<1>3. ChainFits'
  BY <1>1 DEF BaseInv, ChainFits, Chains, Active
<1>4. InOrder'
  BY <1>1, SnapshotFits, PrecedesItself DEF BaseInv, InOrder, Types
<1> QED BY <1>2, <1>3, <1>4 DEF BaseInv

\* A call is told how its checkpoint ended, and otherwise left alone.
\* A call is told how its checkpoint ended, and otherwise left alone.
Told(d) ==
  /\ Active(d)' <=> Active(d)
  /\ Active(d) => /\ call'[d] \in CallRecs /\ call'[d].pc = call[d].pc
                  /\ call'[d].task = call[d].task /\ call'[d].node = call[d].node
                  /\ HandsOf(call'[d]) = HandsOf(call[d])
                  /\ Settles(call'[d]) <=> Settles(call[d])
                  /\ \/ call'[d] = call[d]
                     \/ call[d].saved = "waiting" /\ call'[d].saved # "waiting"
  /\ ~Active(d) => call'[d] = call[d]

LEMMA MarkedIsTold ==
  ASSUME Types, NEW d \in Calls, Active(d), call[d].saved = "waiting",
         NEW s \in {"done", "failed"}, call'[d] = [call[d] EXCEPT !.saved = s],
         s = "failed" => poisoned', queue' = queue
  PROVE  Told(d) /\ call'[d].saved = s /\ CallFits(d)'
<1>1. call[d] \in CallRecs /\ RecFits(call[d])
  BY DEF Types, CallFits, Active
<1>2. PICK p : p = call[d]
  OBVIOUS
<1>3. PICK q : q = call'[d]
  OBVIOUS
<1>4. q = [p EXCEPT !.saved = s]
  BY <1>2, <1>3
<1>5. CASE p \in PollRecs
  <2>1. /\ q \in PollRecs /\ q.pc = p.pc /\ q.task = p.task /\ q.node = p.node
        /\ q.rows = p.rows /\ q.saved = s /\ p.pc \in PollPcs
    BY <1>4, <1>5 DEF PollRecs, SavedStates
  <2>2. HandsOf(q) = HandsOf(p) /\ ~Settles(q) /\ ~Settles(p)
    BY <2>1 DEF HandsOf, BeforeLease, Settles, PollPcs
  <2>3. q \in CallRecs /\ q # Idle
    BY <2>1, IdleIsNoCall DEF CallRecs
  <2>4. RecFits(q)'
    BY <1>1, <1>2, <2>1 DEF RecFits, PollPcs, DeliverPcs
  <2> QED BY <1>2, <1>3, <2>1, <2>2, <2>3, <2>4 DEF Told, Active, CallFits, RecFits
<1>6. CASE p \in DeliverRecs
  <2>1. /\ q \in DeliverRecs /\ q.pc = p.pc /\ q.task = p.task /\ q.node = p.node
        /\ q.status = p.status /\ q.stage = p.stage /\ q.saved = s /\ p.pc \in DeliverPcs
    BY <1>4, <1>6 DEF DeliverRecs, SavedStates
  <2>2. HandsOf(q) = HandsOf(p) /\ (Settles(q) <=> Settles(p))
    BY <2>1 DEF HandsOf, BeforeLease, Settles, DeliverPcs
  <2>3. q \in CallRecs /\ q # Idle
    BY <2>1, IdleIsNoCall DEF CallRecs
  <2>4. RecFits(q)'
    BY <1>1, <1>2, <2>1 DEF RecFits, DeliverPcs
  <2> QED BY <1>2, <1>3, <2>1, <2>2, <2>3, <2>4 DEF Told, Active, CallFits, RecFits
<1> QED BY <1>1, <1>2, <1>5, <1>6 DEF CallRecs

LEMMA LeftIsTold ==
  ASSUME Types, NEW d \in Calls, call'[d] = call[d], queue' = queue, poisoned => poisoned'
  PROVE  Told(d) /\ CallFits(d)'
<1>1. CallFits(d)'
  BY CallsStayFit, PrecedesItself DEF Types
<1> QED BY <1>1 DEF Told, Active, Types

\* The first of the chain is told that its snapshot is stored.
LEMMA SaveEndsTells ==
  ASSUME BaseInv, SaveEnds
  PROVE  /\ chain \in Seq(Calls \cup {Controller}) /\ chain # << >>
         /\ chain' \in Seq(Calls \cup {Controller})
         /\ \A d \in Calls : Told(d) /\ CallFits(d)'
         /\ \A d \in Calls : /\ d # Head(chain) => call'[d] = call[d]
                             /\ d = Head(chain) => /\ Active(d) /\ call[d].saved = "waiting"
                                                   /\ call'[d].saved = "done"
         /\ \A d \in Calls : Chains(d)' <=> Chains(d) /\ d # Head(chain)
         /\ ChainFits'
<1>1. /\ chain \in Seq(Calls \cup {Controller}) /\ chain # << >> /\ Once(chain, Calls)
      /\ chain' = Tail(chain)
  BY DEF SaveEnds, BaseInv, ChainFits, Types
<1>2. /\ chain' \in Seq(Calls \cup {Controller}) /\ Once(chain', Calls)
      /\ InLine(chain, Head(chain))
      /\ \A d \in Calls : InLine(chain', d) <=> InLine(chain, d) /\ d # Head(chain)
  BY <1>1, Removed
<1>3. \A d \in Calls : Chains(d)' <=> Chains(d) /\ d # Head(chain)
  BY <1>2 DEF Chains
<1>4. ASSUME NEW d \in Calls
      PROVE  /\ Told(d) /\ CallFits(d)'
             /\ d # Head(chain) => call'[d] = call[d]
             /\ d = Head(chain) => /\ Active(d) /\ call[d].saved = "waiting"
                                   /\ call'[d].saved = "done"
  <2>1. CASE d # Head(chain)
    <3>1. call'[d] = call[d]
      BY <2>1 DEF SaveEnds
    <3> QED BY <2>1, <3>1, LeftIsTold DEF BaseInv, SaveEnds
  <2>2. CASE d = Head(chain)
    <3>1. Active(d) /\ call[d].saved = "waiting"
      BY <1>2, <2>2 DEF BaseInv, ChainFits, Chains
    <3>2. call'[d] = [call[d] EXCEPT !.saved = "done"]
      BY <2>2 DEF SaveEnds
    <3> QED BY <2>2, <3>1, <3>2, MarkedIsTold DEF BaseInv, SaveEnds
  <2> QED BY <2>1, <2>2
<1>5. ASSUME NEW d \in Calls
      PROVE  Active(d)' /\ call'[d].saved = "waiting" <=> Chains(d)'
  <2>1. CASE d = Head(chain)
    BY <1>3, <1>4, <2>1
  <2>2. CASE d # Head(chain)
    BY <1>3, <1>4, <2>2 DEF BaseInv, ChainFits, Told
  <2> QED BY <2>1, <2>2
<1>6. poisoned' = FALSE /\ saving' = None
  BY <1>1 DEF SaveEnds, BaseInv, ChainFits, Types
<1>7. ChainFits'
  BY <1>2, <1>5, <1>6 DEF ChainFits
<1> QED BY <1>1, <1>2, <1>3, <1>4, <1>7

\* All of the chain are told that theirs is not.
LEMMA SaveFailsTells ==
  ASSUME BaseInv, SaveFails
  PROVE  /\ \A d \in Calls : Told(d) /\ CallFits(d)'
         /\ \A d \in Calls : /\ ~Chains(d) => call'[d] = call[d]
                             /\ Chains(d) => Active(d) /\ call'[d].saved = "failed"
         /\ ChainFits'
<1>1. ASSUME NEW d \in Calls
      PROVE  /\ Told(d) /\ CallFits(d)' /\ (~Chains(d) => call'[d] = call[d])
             /\ Chains(d) => Active(d) /\ call'[d].saved = "failed"
  <2>1. d \in {chain[i] : i \in DOMAIN chain} <=> Chains(d)
    BY DEF Chains, InLine
  <2>2. CASE ~Chains(d)
    <3>1. call'[d] = call[d]
      BY <2>1, <2>2 DEF SaveFails
    <3> QED BY <2>2, <3>1, LeftIsTold DEF BaseInv, SaveFails
  <2>3. CASE Chains(d)
    <3>1. Active(d) /\ call[d].saved = "waiting"
      BY <2>3 DEF BaseInv, ChainFits
    <3>2. call'[d] = [call[d] EXCEPT !.saved = "failed"]
      BY <2>1, <2>3 DEF SaveFails
    <3> QED BY <2>3, <3>1, <3>2, MarkedIsTold DEF BaseInv, SaveFails
  <2> QED BY <2>2, <2>3
<1>2. chain' = << >> /\ DOMAIN chain' = {} /\ saving' = None
  BY DEF SaveFails
<1>3. \A d \in Calls : ~(Active(d)' /\ call'[d].saved = "waiting") /\ ~Chains(d)'
  BY <1>1, <1>2 DEF Chains, InLine, BaseInv, ChainFits, Told
<1>4. ChainFits'
  BY <1>2, <1>3 DEF ChainFits, Once
<1> QED BY <1>1, <1>4

LEMMA SaveEndsKeeps == ASSUME BaseInv, SaveEnds PROVE BaseInv'
<1>1. /\ UNCHANGED <<queue, assignee, active, mail, poisoned, overlapped>>
      /\ stored' = saving /\ saving # None /\ saving' = None
  BY DEF SaveEnds
<1>2. /\ ChainFits' /\ chain' \in Seq(Calls \cup {Controller})
      /\ \A d \in Calls : Told(d) /\ CallFits(d)'
  BY SaveEndsTells
<1>3. \A d \in Calls : call'[d] \in CallRecs \cup {Idle}
  BY <1>2 DEF Told, BaseInv, Types, Active
<1>4. call' \in [Calls -> CallRecs \cup {Idle}]
  BY <1>3 DEF SaveEnds
<1>5. Types'
  BY <1>1, <1>2, <1>3, <1>4 DEF BaseInv, Types
<1>6. InOrder'
  BY <1>1 DEF BaseInv, InOrder
<1> QED BY <1>2, <1>5, <1>6 DEF BaseInv

LEMMA SaveFailsKeeps == ASSUME BaseInv, SaveFails PROVE BaseInv'
<1>1. /\ UNCHANGED <<queue, assignee, active, mail, overlapped>>
      /\ stored' \in {stored, saving} /\ saving # None /\ saving' = None
      /\ poisoned' = TRUE /\ chain' = << >>
  BY DEF SaveFails
<1>2. ChainFits' /\ \A d \in Calls : Told(d) /\ CallFits(d)'
  BY SaveFailsTells
<1>3. \A d \in Calls : call'[d] \in CallRecs \cup {Idle}
  BY <1>2 DEF Told, BaseInv, Types, Active
<1>4. call' \in [Calls -> CallRecs \cup {Idle}]
  BY <1>3 DEF SaveFails
<1>5. chain' \in Seq(Calls \cup {Controller})
  BY <1>1
<1>6. Types'
  BY <1>1, <1>2, <1>4, <1>5 DEF BaseInv, Types
<1>7. InOrder'
  BY <1>1 DEF BaseInv, InOrder
<1> QED BY <1>2, <1>6, <1>7 DEF BaseInv

LEMMA RestartRecovers ==
  ASSUME BaseInv, Restart
  PROVE  /\ DOMAIN queue' = DOMAIN stored.queue /\ QueueFits(queue')
         /\ Precedes(stored.queue, queue')
         /\ \A t \in DOMAIN stored.queue : TaskFits(stored.queue[t])
                                           /\ queue'[t] = Recovered(stored.queue[t])
BY QueueRecovers DEF Restart, BaseInv, Types, SnapFits

LEMMA RestartKeeps == ASSUME BaseInv, Restart PROVE BaseInv'
<1>1. /\ stored' = stored /\ chain' = << >> /\ saving' = None /\ poisoned' = FALSE
      /\ UNCHANGED <<mail, overlapped>> /\ call' = [c \in Calls |-> Idle]
      /\ active' = [e \in Employees |-> 0]
  BY DEF Restart
<1>2. AssigneeFits(assignee', queue')
  BY RestartRecovers DEF Restart, AssigneeFits, BaseInv, Types, SnapFits
<1>3. \A d \in Calls : ~Active(d)'
  BY <1>1 DEF Active
<1>4. chain' \in Seq(Calls \cup {Controller}) /\ DOMAIN chain' = {}
  BY <1>1
<1>5. IsFiniteSet(DOMAIN queue')
  BY RestartRecovers DEF BaseInv, Types, SnapFits
<1>6. Types'
  BY <1>1, <1>2, <1>3, <1>4, <1>5, RestartRecovers DEF BaseInv, Types, CallFits, SnapFits, AssigneeFits
<1>7. ChainFits'
  BY <1>1, <1>3, <1>4 DEF ChainFits, Chains, InLine, Once
<1>8. InOrder'
  BY <1>1, RestartRecovers DEF InOrder
<1> QED BY <1>6, <1>7, <1>8 DEF BaseInv

LEMMA InitBase == Init => BaseInv
<1> SUFFICES ASSUME Init PROVE BaseInv
  OBVIOUS
<1>1. QueueFits(queue) /\ DOMAIN queue = {} /\ IsFiniteSet(DOMAIN queue)
  BY FS_EmptySet DEF Init, QueueFits
<1>2. AssigneeFits(assignee, queue)
  BY DEF Init, AssigneeFits
<1>3. stored = [queue |-> queue, assignee |-> assignee]
  BY DEF Init, Snapshot
<1>4. SnapFits(stored) /\ stored.queue = queue
  BY <1>1, <1>2, <1>3 DEF SnapFits
<1>5. \A c \in Calls : ~Active(c)
  BY DEF Init, Active
<1>6. /\ call \in [Calls -> CallRecs \cup {Idle}] /\ mail \in [Tasks -> Seq(Leases)]
      /\ active \in [Employees -> Nat]
      /\ poisoned = FALSE /\ overlapped = FALSE /\ saving = None /\ chain = << >>
  BY DEF Init
<1>7. chain \in Seq(Calls \cup {Controller}) /\ DOMAIN chain = {}
  BY <1>6
<1>8. Types
  BY <1>1, <1>2, <1>4, <1>5, <1>6, <1>7 DEF Types, CallFits
<1>9. ChainFits
  BY <1>5, <1>6, <1>7 DEF ChainFits, Chains, InLine, Once
<1>10. InOrder
  BY <1>1, <1>4, <1>6, PrecedesItself DEF InOrder
<1> QED BY <1>8, <1>9, <1>10 DEF BaseInv

\* A step is a call's, or one of the others.
LEMMA NextIs ==
  ASSUME Types, Next
  PROVE  CallSteps \/ Outside \/ SaveBegins \/ SaveEnds \/ SaveFails \/ Restart
BY RunsOutIsOutside, EnqueueIsOutside DEF Next, CallSteps

LEMMA BaseKept == BaseInv /\ [Next]_vars => BaseInv'
<1> SUFFICES ASSUME BaseInv, [Next]_vars PROVE BaseInv'
  OBVIOUS
<1>1. CASE CallSteps
  <2>1. PICK c \in Calls : \/ Leaves(c)
                           \/ \E q : Passes(c, q) \/ Ends(c, q) \/ Takes(c, q) \/ Starts(c, q)
    BY <1>1, StepForms DEF BaseInv
  <2>2. \E q : Moves(c, q)
    BY <2>1 DEF Leaves, Passes, Ends, Takes, Starts
  <2> QED BY <2>2, MovesKeeps
<1>2. CASE Outside \/ SaveBegins \/ SaveEnds \/ SaveFails \/ Restart
  BY <1>2, OutsideKeeps, SaveBeginsKeeps, SaveEndsKeeps, SaveFailsKeeps, RestartKeeps
<1>3. CASE UNCHANGED vars
  <2>1. UNCHANGED <<queue, assignee, active, mail, call, chain, saving, poisoned, stored, overlapped>>
    BY <1>3 DEF vars, store
  <2>2. Types'
    BY <2>1 DEF BaseInv, Types, CallFits, RecFits, Active
  <2>3. ChainFits' /\ InOrder'
    BY <2>1 DEF BaseInv, ChainFits, Chains, Active, InOrder
  <2> QED BY <2>2, <2>3 DEF BaseInv
<1> QED BY <1>1, <1>2, <1>3, NextIs DEF BaseInv
-----------------------------------------------------------------------------
(***************************************************************************)
(* The leases.                                                             *)
(***************************************************************************)
LEMMA CallsAreFinite == IsFiniteSet(Calls)
<1>1. MaxCalls \in Nat
  BY BoundsAreNat
<1> QED BY <1>1, FS_Interval DEF Calls

LEMMA SomeCalls ==
  ASSUME NEW S \in SUBSET Calls, NEW T \in SUBSET S
  PROVE  /\ Cardinality(S) \in Nat /\ Cardinality(T) \in Nat
         /\ Cardinality(T) <= Cardinality(S)
BY CallsAreFinite, FS_Subset, SomeOf

LEMMA OneCallLess ==
  ASSUME NEW S \in SUBSET Calls, NEW c \in S, NEW T \in SUBSET S, c \notin T
  PROVE  Cardinality(T) \in Nat /\ Cardinality(T) + 1 <= Cardinality(S)
BY CallsAreFinite, FS_Subset, OneLessOf

LEMMA OneCallMore ==
  ASSUME NEW S \in SUBSET Calls, NEW c \in Calls, NEW T \in SUBSET (S \cup {c})
  PROVE  Cardinality(S) \in Nat /\ Cardinality(T) \in Nat /\ Cardinality(T) <= Cardinality(S) + 1
BY CallsAreFinite, FS_Subset, OneMoreOf

LEMMA WhoIsPending ==
  ASSUME NEW t
  PROVE  /\ Pending(t) \in SUBSET Calls
         /\ PendingStored(t) \in SUBSET Pending(t) /\ PendingSaved(t) \in SUBSET Pending(t)
         /\ PendingStored(t) \in SUBSET PendingSaved(t)
BY DEF Pending, PendingStored, PendingSaved

LEMMA CountsOf ==
  ASSUME BaseInv, NEW t \in Tasks
  PROVE  /\ Cardinality(Pending(t)) \in Nat /\ Cardinality(PendingStored(t)) \in Nat
         /\ Cardinality(PendingSaved(t)) \in Nat
         /\ Cardinality(PendingStored(t)) <= Cardinality(PendingSaved(t))
         /\ Cardinality(PendingSaved(t)) <= Cardinality(Pending(t))
         /\ Len(mail[t]) \in Nat /\ Attempts(queue, t) \in Nat /\ Attempts(stored.queue, t) \in Nat
         /\ saving # None => Attempts(saving.queue, t) \in Nat
<1>1. Pending(t) \in SUBSET Calls /\ PendingSaved(t) \in SUBSET Calls /\ PendingStored(t) \in SUBSET PendingSaved(t)
      /\ PendingSaved(t) \in SUBSET Pending(t)
  BY WhoIsPending
<1>2. /\ Cardinality(Pending(t)) \in Nat /\ Cardinality(PendingStored(t)) \in Nat
      /\ Cardinality(PendingSaved(t)) \in Nat /\ Cardinality(PendingStored(t)) <= Cardinality(PendingSaved(t))
      /\ Cardinality(PendingSaved(t)) <= Cardinality(Pending(t))
  BY <1>1, SomeCalls
<1>3. Len(mail[t]) \in Nat
  BY DEF BaseInv, Types
<1>4. /\ Attempts(queue, t) \in Nat /\ Attempts(stored.queue, t) \in Nat
      /\ saving # None => Attempts(saving.queue, t) \in Nat
  BY MaxAttemptsIsPositive DEF Attempts, BaseInv, Types, SnapFits, QueueFits, Records
<1> QED BY <1>2, <1>3, <1>4

\* A step of a call changes, of who is pending, only that call.
LEMMA OthersPend ==
  ASSUME BaseInv, NEW c \in Calls, NEW q, Moves(c, q), NEW t
  PROVE  /\ \A d \in Calls : d # c =>
              /\ d \in Pending(t)' <=> d \in Pending(t)
              /\ d \in PendingStored(t)' <=> d \in PendingStored(t)
              /\ saving # None => (d \in PendingSaved(t)' <=> d \in PendingSaved(t))
         /\ saving # None /\ c \in PendingSaved(t)' => c \in PendingStored(t)'
         /\ Pending(t)' \subseteq Calls /\ PendingStored(t)' \subseteq Pending(t)'
         /\ PendingSaved(t)' \subseteq Pending(t)'
<1>1. saving # None => Head(chain') = Head(chain) /\ Head(chain) # c
  BY GoesKeepsChain DEF Moves, BaseInv
<1>2. \A d \in Calls : d # c => call'[d] = call[d]
  BY DEF Moves, Goes, BaseInv, Types
<1> QED BY <1>1, <1>2 DEF Pending, PendingStored, PendingSaved, Active

LEMMA MovesGrows ==
  ASSUME BaseInv, NEW c, NEW q, Moves(c, q), NEW t
  PROVE  /\ Attempts(queue, t) <= Attempts(queue', t) /\ Attempts(queue, t) \in Nat
         /\ Attempts(queue', t) \in Nat /\ stored' = stored /\ saving' = saving
BY AttemptsGrow DEF Moves, RecordsFit, BaseInv, Types

\* Nobody more is pending, and nothing is leased.
LEMMA QuietLeases ==
  ASSUME BaseInv, LeaseInv, NEW c \in Calls, NEW q, Moves(c, q), NEW t \in Tasks,
         Len(mail'[t]) = Len(mail[t]),
         c \in Pending(t)' => c \in Pending(t),
         c \in PendingStored(t)' => c \in PendingStored(t)
  PROVE  Leasing(t)'
<1>1. /\ Pending(t)' \in SUBSET Pending(t) /\ PendingStored(t)' \in SUBSET PendingStored(t)
      /\ saving # None => PendingSaved(t)' \in SUBSET PendingSaved(t)
  BY OthersPend, WhoIsPending
<1>2. /\ Pending(t) \in SUBSET Calls /\ PendingStored(t) \in SUBSET Calls
      /\ PendingSaved(t) \in SUBSET Calls
  BY WhoIsPending
<1>3. /\ Cardinality(Pending(t)') \in Nat /\ Cardinality(Pending(t)') <= Cardinality(Pending(t))
      /\ Cardinality(PendingStored(t)') \in Nat
      /\ Cardinality(PendingStored(t)') <= Cardinality(PendingStored(t))
      /\ saving # None =>
           /\ Cardinality(PendingSaved(t)') \in Nat
           /\ Cardinality(PendingSaved(t)') <= Cardinality(PendingSaved(t))
  BY <1>1, <1>2, SomeCalls
<1>4. Leasing(t)
  BY DEF LeaseInv
<1> HIDE DEF LeaseInv
<1>5. /\ Attempts(queue, t) \in Nat /\ Attempts(queue', t) \in Nat
      /\ Attempts(queue, t) <= Attempts(queue', t)
      /\ stored' = stored /\ saving' = saving
  BY MovesGrows
<1>6. /\ Cardinality(Pending(t)) \in Nat /\ Cardinality(PendingStored(t)) \in Nat
      /\ Cardinality(PendingSaved(t)) \in Nat /\ Len(mail[t]) \in Nat
      /\ Attempts(stored.queue, t) \in Nat
      /\ saving # None => Attempts(saving.queue, t) \in Nat
  BY CountsOf
<1>7. Len(mail'[t]) + Cardinality(Pending(t)') <= Attempts(queue', t)
  BY <1>3, <1>4, <1>5, <1>6 DEF Leasing
<1>8. Len(mail'[t]) + Cardinality(PendingStored(t)') <= Attempts(stored.queue, t)
  BY <1>3, <1>4, <1>6 DEF Leasing
<1>9. saving # None => Len(mail'[t]) + Cardinality(PendingSaved(t)') <= Attempts(saving.queue, t)
  BY <1>3, <1>4, <1>6 DEF Leasing
<1> QED BY <1>5, <1>7, <1>8, <1>9 DEF Leasing

\* A lease takes the place of a call that was pending, and stored.
LEMMA GrantLeases ==
  ASSUME BaseInv, LeaseInv, NEW c \in Calls, NEW q, Moves(c, q), NEW t \in Tasks,
         Len(mail'[t]) = Len(mail[t]) + 1,
         c \in PendingStored(t), c \notin Pending(t)'
  PROVE  Leasing(t)'
<1>1. /\ Pending(t)' \in SUBSET Pending(t) /\ PendingStored(t)' \in SUBSET PendingStored(t)
      /\ saving # None => PendingSaved(t)' \in SUBSET PendingSaved(t)
      /\ c \notin PendingStored(t)' /\ c \notin PendingSaved(t)'
      /\ c \in Pending(t) /\ c \in PendingSaved(t)
  BY OthersPend, WhoIsPending
<1>2. /\ Pending(t) \in SUBSET Calls /\ PendingStored(t) \in SUBSET Calls
      /\ PendingSaved(t) \in SUBSET Calls
  BY WhoIsPending
<1>3. /\ Cardinality(Pending(t)') \in Nat /\ Cardinality(Pending(t)') + 1 <= Cardinality(Pending(t))
      /\ Cardinality(PendingStored(t)') \in Nat
      /\ Cardinality(PendingStored(t)') + 1 <= Cardinality(PendingStored(t))
      /\ saving # None =>
           /\ Cardinality(PendingSaved(t)') \in Nat
           /\ Cardinality(PendingSaved(t)') + 1 <= Cardinality(PendingSaved(t))
  BY <1>1, <1>2, OneCallLess
<1>4. Leasing(t)
  BY DEF LeaseInv
<1> HIDE DEF LeaseInv
<1>5. /\ Attempts(queue, t) \in Nat /\ Attempts(queue', t) \in Nat
      /\ Attempts(queue, t) <= Attempts(queue', t)
      /\ stored' = stored /\ saving' = saving
  BY MovesGrows
<1>6. /\ Cardinality(Pending(t)) \in Nat /\ Cardinality(PendingStored(t)) \in Nat
      /\ Cardinality(PendingSaved(t)) \in Nat /\ Len(mail[t]) \in Nat
      /\ Attempts(stored.queue, t) \in Nat
      /\ saving # None => Attempts(saving.queue, t) \in Nat
  BY CountsOf
<1>7. Len(mail'[t]) + Cardinality(Pending(t)') <= Attempts(queue', t)
  BY <1>3, <1>4, <1>5, <1>6 DEF Leasing
<1>8. Len(mail'[t]) + Cardinality(PendingStored(t)') <= Attempts(stored.queue, t)
  BY <1>3, <1>4, <1>6 DEF Leasing
<1>9. saving # None => Len(mail'[t]) + Cardinality(PendingSaved(t)') <= Attempts(saving.queue, t)
  BY <1>3, <1>4, <1>6 DEF Leasing
<1> QED BY <1>5, <1>7, <1>8, <1>9 DEF Leasing

\* A call that gets pending has made an attempt, but not stored it.
LEMMA TakeLeases ==
  ASSUME BaseInv, LeaseInv, NEW c \in Calls, NEW q, Moves(c, q), NEW t \in Tasks,
         Len(mail'[t]) = Len(mail[t]), c \notin PendingStored(t)',
         Attempts(queue', t) = Attempts(queue, t) + 1
  PROVE  Leasing(t)'
<1>1. /\ Pending(t)' \in SUBSET (Pending(t) \cup {c})
      /\ PendingStored(t)' \in SUBSET PendingStored(t)
      /\ saving # None => PendingSaved(t)' \in SUBSET PendingSaved(t)
  BY OthersPend, WhoIsPending
<1>2. /\ Pending(t) \in SUBSET Calls /\ PendingStored(t) \in SUBSET Calls
      /\ PendingSaved(t) \in SUBSET Calls
  BY WhoIsPending
<1>3. /\ Cardinality(Pending(t)') \in Nat /\ Cardinality(Pending(t)') <= Cardinality(Pending(t)) + 1
      /\ Cardinality(PendingStored(t)') \in Nat
      /\ Cardinality(PendingStored(t)') <= Cardinality(PendingStored(t))
      /\ saving # None =>
           /\ Cardinality(PendingSaved(t)') \in Nat
           /\ Cardinality(PendingSaved(t)') <= Cardinality(PendingSaved(t))
  BY <1>1, <1>2, SomeCalls, OneCallMore
<1>4. Leasing(t)
  BY DEF LeaseInv
<1> HIDE DEF LeaseInv
<1>5. /\ Attempts(queue, t) \in Nat /\ Attempts(queue', t) \in Nat
      /\ Attempts(queue, t) <= Attempts(queue', t)
      /\ stored' = stored /\ saving' = saving
  BY MovesGrows
<1>6. /\ Cardinality(Pending(t)) \in Nat /\ Cardinality(PendingStored(t)) \in Nat
      /\ Cardinality(PendingSaved(t)) \in Nat /\ Len(mail[t]) \in Nat
      /\ Attempts(stored.queue, t) \in Nat
      /\ saving # None => Attempts(saving.queue, t) \in Nat
  BY CountsOf
<1>7. Len(mail'[t]) + Cardinality(Pending(t)') <= Attempts(queue', t)
  BY <1>3, <1>4, <1>5, <1>6 DEF Leasing
<1>8. Len(mail'[t]) + Cardinality(PendingStored(t)') <= Attempts(stored.queue, t)
  BY <1>3, <1>4, <1>6 DEF Leasing
<1>9. saving # None => Len(mail'[t]) + Cardinality(PendingSaved(t)') <= Attempts(saving.queue, t)
  BY <1>3, <1>4, <1>6 DEF Leasing
<1> QED BY <1>5, <1>7, <1>8, <1>9 DEF Leasing

\* A call that leaves, or ends its attempt, is pending no more.
LEMMA MailOrGrant ==
  ASSUME BaseInv, LeaseInv, NEW c \in Calls, Active(c), NEW q, Moves(c, q),
         q = Idle \/ ~BeforeLease(q), MailStays \/ Grants(c)
  PROVE  LeaseInv'
<1> SUFFICES ASSUME NEW t \in Tasks PROVE Leasing(t)'
  BY DEF LeaseInv
<1>1. c \notin Pending(t)' /\ c \notin PendingStored(t)'
  BY DEF Moves, Goes, BaseInv, Types, Pending, PendingStored, Active
<1>2. CASE MailStays
  BY <1>1, <1>2, QuietLeases DEF MailStays
<1>3. CASE Grants(c)
  <2>1. /\ call[c].task \in Tasks /\ call[c].node \in Employees
        /\ BeforeLease(call[c]) /\ call[c].saved = "done"
    BY <1>3, PollAt DEF Grants, At, PollPcs, Checkpoints, BeforeLease, BaseInv
  <2>2. IF t = call[c].task THEN Len(mail'[t]) = Len(mail[t]) + 1 ELSE mail'[t] = mail[t]
    BY <1>3, <2>1, GrantFits DEF BaseInv
  <2>3. CASE t = call[c].task
    <3>1. c \in PendingStored(t)
      BY <2>1, <2>3 DEF Pending, PendingStored
    <3> QED BY <1>1, <2>2, <2>3, <3>1, GrantLeases
  <2>4. CASE t # call[c].task
    BY <1>1, <2>2, <2>4, QuietLeases
  <2> QED BY <2>3, <2>4
<1> QED BY <1>2, <1>3

LEMMA PassesLeases ==
  ASSUME BaseInv, LeaseInv, NEW c \in Calls, NEW q, Passes(c, q)
  PROVE  LeaseInv'
<1> SUFFICES ASSUME NEW t \in Tasks PROVE Leasing(t)'
  BY DEF LeaseInv
<1>1. call'[c] = q /\ Active(c)
  BY DEF Passes, Moves, Goes, BaseInv, Types
<1>2. /\ c \in Pending(t)' => c \in Pending(t)
      /\ c \in PendingStored(t)' => c \in PendingStored(t)
  BY <1>1 DEF Passes, Pending, PendingStored, Active
<1> QED BY <1>2, QuietLeases DEF Passes, MailStays

LEMMA StartsLeases ==
  ASSUME BaseInv, LeaseInv, NEW c \in Calls, NEW q, Starts(c, q)
  PROVE  LeaseInv'
<1> SUFFICES ASSUME NEW t \in Tasks PROVE Leasing(t)'
  BY DEF LeaseInv
<1>1. call'[c] = q
  BY DEF Starts, Moves, Goes, BaseInv, Types
<1>2. c \notin Pending(t)' /\ c \notin PendingStored(t)'
  BY <1>1 DEF Starts, Pending, PendingStored
<1> QED BY <1>2, QuietLeases DEF Starts

LEMMA TakesLeases ==
  ASSUME BaseInv, LeaseInv, NEW c \in Calls, NEW q, Takes(c, q)
  PROVE  LeaseInv'
<1> SUFFICES ASSUME NEW t \in Tasks PROVE Leasing(t)'
  BY DEF LeaseInv
<1>1. call'[c] = q
  BY DEF Takes, Moves, Goes, BaseInv, Types
<1>2. c \notin PendingStored(t)'
  BY <1>1 DEF Takes, PendingStored
<1>3. CASE t = q.task
  <2>1. q \in PollRecs /\ q.node \in Employees /\ RecFits(q)
    <3>1. q \in CallRecs /\ q \notin DeliverRecs /\ RecFits(q)
      BY DEF Takes, Moves, DeliverRecs, DeliverPcs
    <3> QED BY <3>1 DEF CallRecs, PollRecs
  <2>2. t \in DOMAIN queue
    BY <1>3, <2>1 DEF RecFits, Takes
  <2>3. DOMAIN queue' = DOMAIN queue /\ queue'[t].attempts = queue[t].attempts + 1
    BY <1>3, <2>1, <2>2, TakenFit DEF Takes, RecordsFit, BaseInv
  <2>4. Attempts(queue', t) = Attempts(queue, t) + 1
    BY <2>2, <2>3 DEF Attempts
  <2> QED BY <1>2, <2>4, TakeLeases DEF Takes
<1>4. CASE t # q.task
  <2>1. c \notin Pending(t)'
    BY <1>1, <1>4 DEF Pending
  <2> QED BY <1>2, <2>1, QuietLeases DEF Takes
<1> QED BY <1>3, <1>4

LEMMA CallLeases == ASSUME BaseInv, LeaseInv, CallSteps PROVE LeaseInv'
<1>1. PICK c \in Calls : \/ Leaves(c)
                         \/ \E q : Passes(c, q) \/ Ends(c, q) \/ Takes(c, q) \/ Starts(c, q)
  BY StepForms DEF BaseInv
<1>2. CASE Leaves(c)
  BY <1>2, MailOrGrant DEF Leaves
<1>3. ASSUME NEW q, Ends(c, q) PROVE LeaseInv'
  BY <1>3, MailOrGrant DEF Ends
<1> QED BY <1>1, <1>2, <1>3, PassesLeases, TakesLeases, StartsLeases

LEMMA LeasesStay ==
  ASSUME BaseInv, LeaseInv, UNCHANGED <<call, saving, stored>>,
         QueueFits(queue'), Precedes(queue, queue'),
         \A t \in Tasks : Len(mail'[t]) = Len(mail[t]),
         saving # None => Head(chain') = Head(chain)
  PROVE  LeaseInv'
<1> SUFFICES ASSUME NEW t \in Tasks PROVE Leasing(t)'
  BY DEF LeaseInv
<1>1. Pending(t)' = Pending(t)
  BY DEF Pending, Active
<1>2. PendingStored(t)' = PendingStored(t) /\ (saving # None => PendingSaved(t)' = PendingSaved(t))
  BY <1>1 DEF PendingStored, PendingSaved
<1>3. Leasing(t)
  BY DEF LeaseInv
<1>4. Attempts(queue, t) <= Attempts(queue', t) /\ Attempts(queue', t) \in Nat
  BY AttemptsGrow DEF BaseInv, Types
<1> HIDE DEF LeaseInv
<1> QED BY <1>1, <1>2, <1>3, <1>4, CountsOf DEF Leasing

LEMMA SaveBeginsLeases == ASSUME BaseInv, LeaseInv, SaveBegins PROVE LeaseInv'
<1> SUFFICES ASSUME NEW t \in Tasks PROVE Leasing(t)'
  BY DEF LeaseInv
<1>1. /\ UNCHANGED <<queue, call, chain, stored, mail>> /\ saving' = Snapshot
  BY DEF SaveBegins
<1>2. Pending(t)' = Pending(t) /\ PendingStored(t)' = PendingStored(t) /\ PendingSaved(t)' = PendingSaved(t)
  BY <1>1 DEF Pending, PendingStored, PendingSaved, Active
<1>3. saving'.queue = queue
  BY <1>1, SnapshotFits
<1>4. Leasing(t)
  BY DEF LeaseInv
<1>5. Attempts(queue', t) = Attempts(queue, t)
  BY <1>1 DEF Attempts
<1> HIDE DEF LeaseInv
<1> QED BY <1>1, <1>2, <1>3, <1>4, <1>5, CountsOf DEF Leasing

LEMMA SaveEndsLeases == ASSUME BaseInv, LeaseInv, SaveEnds PROVE LeaseInv'
<1> SUFFICES ASSUME NEW t \in Tasks PROVE Leasing(t)'
  BY DEF LeaseInv
<1>1. /\ UNCHANGED <<queue, mail>> /\ stored' = saving /\ saving # None /\ saving' = None
  BY DEF SaveEnds
<1>2. /\ \A d \in Calls : Told(d)
      /\ \A d \in Calls : /\ d # Head(chain) => call'[d] = call[d]
                          /\ d = Head(chain) => Active(d) /\ call'[d].saved = "done"
  BY SaveEndsTells
<1>3. Pending(t)' = Pending(t) /\ PendingStored(t)' = PendingSaved(t)
  BY <1>2 DEF Pending, PendingStored, PendingSaved, BeforeLease, Told
<1>4. Leasing(t)
  BY DEF LeaseInv
<1>5. Attempts(queue', t) = Attempts(queue, t)
  BY <1>1 DEF Attempts
<1> HIDE DEF LeaseInv
<1> QED BY <1>1, <1>3, <1>4, <1>5, CountsOf DEF Leasing

LEMMA SaveFailsLeases == ASSUME BaseInv, LeaseInv, SaveFails PROVE LeaseInv'
<1> SUFFICES ASSUME NEW t \in Tasks PROVE Leasing(t)'
  BY DEF LeaseInv
<1>1. /\ UNCHANGED <<queue, mail>> /\ stored' \in {stored, saving} /\ saving # None
      /\ saving' = None
  BY DEF SaveFails
<1>2. \A d \in Calls : /\ Told(d) /\ (~Chains(d) => call'[d] = call[d])
                       /\ Chains(d) => call'[d].saved = "failed"
  BY SaveFailsTells
<1>3. Pending(t)' = Pending(t) /\ PendingStored(t)' \in SUBSET PendingStored(t)
  BY <1>2 DEF Pending, PendingStored, BeforeLease, Told
<1>4. Cardinality(PendingStored(t)') \in Nat /\ Cardinality(PendingStored(t)') <= Cardinality(PendingStored(t))
  <2>1. PendingStored(t) \in SUBSET Calls
    BY WhoIsPending
  <2> QED BY <1>3, <2>1, SomeCalls
<1>5. Leasing(t)
  BY DEF LeaseInv
<1>6. Attempts(queue', t) = Attempts(queue, t)
  BY <1>1 DEF Attempts
<1> HIDE DEF LeaseInv
<1>7. Len(mail[t]) + Cardinality(PendingStored(t)') <= Attempts(stored'.queue, t)
  BY <1>1, <1>4, <1>5, CountsOf DEF Leasing
<1> QED BY <1>1, <1>3, <1>5, <1>6, <1>7 DEF Leasing

LEMMA RestartLeases == ASSUME BaseInv, LeaseInv, Restart PROVE LeaseInv'
<1> SUFFICES ASSUME NEW t \in Tasks PROVE Leasing(t)'
  BY DEF LeaseInv
<1>1. /\ UNCHANGED <<stored, mail>> /\ saving' = None /\ \A d \in Calls : ~Active(d)'
  BY DEF Restart, Active
<1>2. Pending(t)' = {} /\ PendingStored(t)' = {} /\ Cardinality({}) = 0
  BY <1>1, FS_EmptySet DEF Pending, PendingStored
<1>3. Attempts(queue', t) = Attempts(stored.queue, t)
  BY RestartRecovers, RecoveredFits DEF Attempts
<1>4. Leasing(t)
  BY DEF LeaseInv
<1> HIDE DEF LeaseInv
<1> QED BY <1>1, <1>2, <1>3, <1>4, CountsOf DEF Leasing

LEMMA InitLeases == Init => LeaseInv
<1> SUFFICES ASSUME Init, NEW t \in Tasks PROVE Leasing(t)
  BY DEF LeaseInv
<1>1. Len(mail[t]) = 0 /\ saving = None /\ \A d \in Calls : ~Active(d)
  BY DEF Init, Active
<1>2. Pending(t) = {} /\ PendingStored(t) = {} /\ Cardinality({}) = 0
  BY <1>1, FS_EmptySet DEF Pending, PendingStored
<1>3. Attempts(queue, t) \in Nat /\ Attempts(stored.queue, t) \in Nat
  BY InitBase, CountsOf
<1> QED BY <1>1, <1>2, <1>3 DEF Leasing

LEMMA LeasesKept == BaseInv /\ LeaseInv /\ [Next]_vars => LeaseInv'
<1> SUFFICES ASSUME BaseInv, LeaseInv, [Next]_vars PROVE LeaseInv'
  OBVIOUS
<1>1. CASE Outside
  BY <1>1, OutsideKeepsChain, LeasesStay DEF Outside, MailStays, BaseInv
<1>2. CASE UNCHANGED vars
  BY <1>2, LeasesStay, PrecedesItself DEF vars, store, BaseInv, Types
<1>3. CASE SaveBegins \/ SaveEnds \/ SaveFails \/ Restart
  BY <1>3, SaveBeginsLeases, SaveEndsLeases, SaveFailsLeases, RestartLeases
<1> QED BY <1>1, <1>2, <1>3, CallLeases, NextIs DEF BaseInv

\* Over all restarts, lost leases, refused writes and overlapping polls, the
\* broker leases a task at most maxAttempts times: an attempt is stored before
\* its lease is made.
THEOREM LeasesStayBudgeted == Spec => []LeaseBudget
<1>1. BaseInv /\ LeaseInv => LeaseBudget
  <2> SUFFICES ASSUME BaseInv, LeaseInv, NEW t \in Tasks PROVE Len(mail[t]) <= MaxAttempts
    BY DEF LeaseBudget
  <2>1. Leasing(t) /\ Attempts(queue, t) <= MaxAttempts /\ MaxAttempts \in Nat
    <3>1. Leasing(t)
      BY DEF LeaseInv
    <3> QED BY <3>1, MaxAttemptsIsPositive DEF Attempts, BaseInv, Types, QueueFits, Records
  <2> QED BY <2>1, CountsOf DEF Leasing
<1> QED BY <1>1, InitBase, InitLeases, BaseKept, LeasesKept, PTL DEF Spec
-----------------------------------------------------------------------------
(***************************************************************************)
(* The completions.                                                        *)
(***************************************************************************)
LEMMA DoneOn ==
  ASSUME NEW p, NEW q, Precedes(p, q), NEW t, Done(p, t)
  PROVE  Done(q, t)
BY DEF Done, Precedes

LEMMA FinalStays ==
  ASSUME CompletionIsFinal, told' = told, Precedes(queue, queue'),
         Precedes(stored.queue, stored'.queue)
  PROVE  CompletionIsFinal'
BY DoneOn DEF CompletionIsFinal

LEMMA CallTells ==
  ASSUME BaseInv, ToldInv, NEW c \in Calls, NEW q, Moves(c, q),
         q # Idle /\ Settles(q) => q.saved # "done" /\ Done(queue', q.task)
  PROVE  \A d \in Calls : Settling(d)'
<1>1. saving # None => Head(chain') = Head(chain) /\ Head(chain) # c
  BY GoesKeepsChain DEF Moves, BaseInv
<1>2. /\ Precedes(queue, queue') /\ stored' = stored /\ saving' = saving
      /\ call'[c] = q /\ \A d \in Calls : d # c => call'[d] = call[d]
  BY DEF Moves, RecordsFit, Goes, BaseInv, Types
<1>3. ASSUME NEW d \in Calls PROVE Settling(d)'
  <2>1. CASE d = c
    BY <1>1, <1>2, <2>1 DEF Settling, Active
  <2>2. CASE d # c
    <3>1. Settling(d) /\ call'[d] = call[d]
      BY <1>2, <2>2 DEF ToldInv
    <3>2. Active(d) /\ Settles(call[d]) => Done(queue', call[d].task)
      BY <1>2, <3>1, DoneOn DEF Settling
    <3> QED BY <1>1, <1>2, <3>1, <3>2 DEF Settling, Active
  <2> QED BY <2>1, <2>2
<1> QED BY <1>3

LEMMA LeavesTells == ASSUME BaseInv, ToldInv, NEW c \in Calls, Leaves(c) PROVE ToldInv'
<1>1. \A d \in Calls : Settling(d)'
  BY CallTells DEF Leaves
<1>2. stored' = stored /\ queue' = queue
  BY DEF Leaves, Moves
<1>3. ASSUME NEW a \in told' \ told
      PROVE  Done(queue, a.task) /\ (a.stored => Done(stored.queue, a.task))
  <2>1. CASE /\ call[c].saved = "done" /\ Settles(call[c])
             /\ a = [task |-> call[c].task, stored |-> TRUE]
    BY <2>1 DEF Leaves, ToldInv, Settling
  <2>2. CASE /\ Done(queue, call[c].task)
             /\ a = [task |-> call[c].task, stored |-> Done(stored.queue, call[c].task)]
    BY <2>2
  <2> QED BY <1>3, <2>1, <2>2 DEF Leaves
<1> QED BY <1>1, <1>2, <1>3 DEF ToldInv, CompletionIsFinal

LEMMA OthersTell ==
  ASSUME BaseInv, ToldInv, NEW c \in Calls, NEW q,
         Passes(c, q) \/ Ends(c, q) \/ Takes(c, q) \/ Starts(c, q)
  PROVE  ToldInv'
<1>1. Moves(c, q) /\ told' = told /\ stored' = stored /\ Precedes(queue, queue')
  BY DEF Passes, Ends, Takes, Starts, Moves, RecordsFit
<1>2. Settles(q) => q.saved # "done" /\ Done(queue', q.task)
  BY DEF Passes, Ends, Takes, Starts, Settles
<1>3. \A d \in Calls : Settling(d)'
  BY <1>1, <1>2, CallTells
<1>4. Precedes(stored.queue, stored'.queue)
  BY <1>1, PrecedesItself DEF BaseInv, Types, SnapFits
<1> QED BY <1>1, <1>3, <1>4, FinalStays DEF ToldInv

LEMMA OutsideTells == ASSUME BaseInv, ToldInv, Outside PROVE ToldInv'
<1>1. /\ UNCHANGED <<call, saving, stored, told>> /\ Precedes(queue, queue')
      /\ saving # None => Head(chain') = Head(chain)
  BY OutsideKeepsChain DEF Outside, BaseInv
<1>2. ASSUME NEW d \in Calls PROVE Settling(d)'
  <2>1. Settling(d)
    BY DEF ToldInv
  <2>2. Active(d) /\ Settles(call[d]) => Done(queue', call[d].task)
    BY <1>1, <2>1, DoneOn DEF Settling
  <2> QED BY <1>1, <2>1, <2>2 DEF Settling, Active
<1>3. Precedes(stored.queue, stored'.queue)
  BY <1>1, PrecedesItself DEF BaseInv, Types, SnapFits
<1> QED BY <1>1, <1>2, <1>3, FinalStays DEF ToldInv

LEMMA SaveBeginsTells == ASSUME BaseInv, ToldInv, SaveBegins PROVE ToldInv'
<1>1. /\ UNCHANGED <<queue, call, chain, stored, told>> /\ saving' = Snapshot
      /\ Snapshot.queue = queue
  BY SnapshotFits DEF SaveBegins
<1>2. \A d \in Calls : Settling(d)'
  BY <1>1 DEF ToldInv, Settling, Active
<1> QED BY <1>1, <1>2 DEF ToldInv, CompletionIsFinal

LEMMA SaveEndsSettles == ASSUME BaseInv, ToldInv, SaveEnds PROVE ToldInv'
<1>1. /\ queue' = queue /\ told' = told /\ stored' = saving /\ saving # None /\ saving' = None
      /\ Precedes(stored.queue, saving.queue)
  BY DEF SaveEnds, BaseInv, InOrder
<1>2. ASSUME NEW d \in Calls PROVE Settling(d)'
  <2>1. Settling(d) /\ Told(d)
    BY SaveEndsTells DEF ToldInv
  <2>2. Active(d)' /\ Settles(call'[d]) =>
          /\ Active(d) /\ Settles(call[d]) /\ call'[d].task = call[d].task
          /\ call'[d].saved = "done" => d = Head(chain) \/ call[d].saved = "done"
    BY <2>1, SaveEndsTells DEF Told
  <2>3. Active(d)' /\ Settles(call'[d]) /\ call'[d].saved = "done" =>
          Done(saving.queue, call'[d].task)
    <3>1. \A t : Done(stored.queue, t) => Done(saving.queue, t)
      BY <1>1, DoneOn
    <3> QED BY <1>1, <2>1, <2>2, <3>1 DEF Settling
  <2> QED BY <1>1, <2>1, <2>2, <2>3 DEF Settling
<1>3. Precedes(queue, queue')
  BY <1>1, PrecedesItself DEF BaseInv, Types
<1> QED BY <1>1, <1>2, <1>3, FinalStays DEF ToldInv

LEMMA SaveFailsSettles == ASSUME BaseInv, ToldInv, SaveFails PROVE ToldInv'
<1>1. /\ queue' = queue /\ told' = told /\ stored' \in {stored, saving} /\ saving # None /\ saving' = None
      /\ Precedes(stored.queue, saving.queue)
  BY DEF SaveFails, BaseInv, InOrder
<1>2. \A t : Done(stored.queue, t) => Done(stored'.queue, t)
  BY <1>1, DoneOn
<1>3. ASSUME NEW d \in Calls PROVE Settling(d)'
  <2>1. Settling(d) /\ Told(d)
    BY SaveFailsTells DEF ToldInv
  <2>2. Active(d)' /\ Settles(call'[d]) =>
          /\ Active(d) /\ Settles(call[d]) /\ call'[d].task = call[d].task
          /\ call'[d].saved = "done" => call[d].saved = "done"
    BY <2>1, SaveFailsTells DEF Told
  <2> QED BY <1>1, <1>2, <2>1, <2>2 DEF Settling
<1>4. Precedes(queue, queue') /\ Precedes(stored.queue, stored'.queue) /\ told' = told
  BY <1>1, PrecedesItself DEF BaseInv, Types, SnapFits, SaveFails
<1> QED BY <1>3, <1>4, FinalStays DEF ToldInv

LEMMA RestartTells == ASSUME BaseInv, ToldInv, Restart PROVE ToldInv'
<1>1. /\ stored' = stored /\ told' = {a \in told : a.stored} /\ \A d \in Calls : ~Active(d)'
  BY DEF Restart, Active
<1>2. Precedes(stored.queue, queue')
  BY RestartKeeps DEF BaseInv, InOrder, Restart
<1> QED BY <1>1, <1>2, DoneOn DEF ToldInv, Settling, CompletionIsFinal

LEMMA InitTold == Init => ToldInv
BY DEF Init, ToldInv, Settling, Active, CompletionIsFinal

LEMMA ToldKept == BaseInv /\ ToldInv /\ [Next]_vars => ToldInv'
<1> SUFFICES ASSUME BaseInv, ToldInv, [Next]_vars PROVE ToldInv'
  OBVIOUS
<1>1. CASE CallSteps
  <2>1. \E c \in Calls : \/ Leaves(c)
                         \/ \E q : Passes(c, q) \/ Ends(c, q) \/ Takes(c, q) \/ Starts(c, q)
    BY <1>1, StepForms DEF BaseInv
  <2> QED BY <2>1, LeavesTells, OthersTell
<1>2. CASE Outside \/ SaveBegins \/ SaveEnds \/ SaveFails \/ Restart
  BY <1>2, OutsideTells, SaveBeginsTells, SaveEndsSettles, SaveFailsSettles, RestartTells
<1>3. CASE UNCHANGED vars
  BY <1>3 DEF vars, store, ToldInv, Settling, Active, CompletionIsFinal
<1> QED BY <1>1, <1>2, <1>3, NextIs DEF BaseInv

\* A completion that acceptResult told when it was stored stays the end of its
\* task, in memory and in the store: a late delivery, a poll that takes the
\* lease for expired and a restart leave it alone.  One that a repeated
\* delivery was told of earlier stays in memory until a restart.
THEOREM ToldStaysFinal == Spec => []CompletionIsFinal
<1>1. BaseInv /\ ToldInv => CompletionIsFinal
  BY DEF ToldInv
<1> QED BY <1>1, InitBase, InitTold, BaseKept, ToldKept, PTL DEF Spec
-----------------------------------------------------------------------------
(***************************************************************************)
(* What the calls have in hand, while no node has two of them in flight.   *)
(***************************************************************************)
LEMMA HandsFrom ==
  ASSUME BaseInv, Alone, NEW c \in Calls, NEW q, Moves(c, q),
         q # Idle => \A t \in HandsOf(q) : RunsOn(t, q.node)',
         q # Idle => \/ Active(c) /\ q.node = call[c].node
                     \/ \A d \in Calls : Active(d) => call[d].node # q.node,
         \A d \in Calls \ {c}, e \in Employees :
           Active(d) /\ call[d].node = e => \A t \in HandsOf(call[d]) : RunsOn(t, e)',
         \A e \in Employees : active'[e] = Cardinality(Running(e)')
  PROVE  Alone'
<1>1. call'[c] = q /\ \A d \in Calls : d # c => call'[d] = call[d]
  BY DEF Moves, Goes, BaseInv, Types
<1>2. \A d, f \in Calls : Active(d)' /\ Active(f)' /\ call'[d].node = call'[f].node => d = f
  BY <1>1 DEF Alone, Active
<1>3. ASSUME NEW d \in Calls, Active(d)', NEW e, e = call'[d].node, NEW t \in HandsOf(call'[d])
      PROVE  RunsOn(t, e)'
  <2>1. CASE d = c
    BY <1>1, <1>3, <2>1 DEF Active
  <2>2. CASE d # c
    <3>1. call'[d] = call[d] /\ Active(d) /\ e \in Employees
      BY <1>1, <1>3, <2>2 DEF Active, BaseInv, Types, CallRecs, PollRecs, DeliverRecs
    <3> QED BY <1>3, <2>2, <3>1
  <2> QED BY <2>1, <2>2
<1>4. \A d \in Calls : Active(d)' => \A t \in HandsOf(call'[d]) : RunsOn(t, call[d].node)'
  BY <1>3 DEF RunsOn
<1> QED BY <1>2, <1>4 DEF Alone

\* A call stays in what holds a task, or the task got its lease.
LEMMA HeldOn ==
  ASSUME BaseInv, NEW c \in Calls, NEW q, Moves(c, q), NEW t \in DOMAIN queue, Held(t),
         assignee'[t] = assignee[t],
         \/ Leased(t) => Leased(t)' /\ Current(t)'.employee = Current(t).employee
         \/ Leased(t)' /\ Current(t)'.employee = assignee[t],
         c \in Pending(t) =>
           \/ c \in Pending(t)' /\ q.node = call[c].node
           \/ Leased(t)' /\ Current(t)'.employee = assignee[t]
  PROVE  Held(t)'
<1>1. call'[c] = q /\ \A d \in Calls : d # c => call'[d] = call[d]
  BY DEF Moves, Goes, BaseInv, Types
<1>2. CASE Leased(t) /\ Current(t).employee = assignee[t]
  BY <1>2 DEF Held
<1>3. ASSUME NEW d \in Pending(t), call[d].node = assignee[t] PROVE Held(t)'
  <2>1. d \in Calls
    BY DEF Pending
  <2>2. CASE d = c
    BY <1>1, <1>3, <2>2 DEF Held
  <2>3. CASE d # c
    <3>1. d \in Pending(t)' /\ call'[d].node = assignee'[t]
      BY <1>1, <1>3, <2>1, <2>3 DEF Pending, Active
    <3> QED BY <3>1 DEF Held
  <2> QED BY <2>2, <2>3
<1> QED BY <1>2, <1>3 DEF Held

LEMMA MailKeepsLease ==
  ASSUME Types, MailStays, NEW t \in Tasks, Leased(t)
  PROVE  Leased(t)' /\ Current(t)'.employee = Current(t).employee
<1>1. mail[t] \in Seq(Leases) /\ mail'[t] \in Seq(Leases) /\ Len(mail'[t]) = Len(mail[t])
  BY DEF Types, MailStays
<1>2. mail'[t] # << >>
  BY <1>1 DEF Leased
<1> QED BY <1>2 DEF MailStays, Leased

\* A lease is made to the node that the task runs on.
LEMMA GrantKeepsLease ==
  ASSUME Types, NEW c \in Calls, Grants(c), NEW t \in Tasks
  PROVE  /\ t = call[c].task => Leased(t)' /\ Current(t)'.employee = call[c].node
         /\ t # call[c].task /\ Leased(t) =>
              Leased(t)' /\ Current(t)'.employee = Current(t).employee
<1>1. call[c].task \in Tasks /\ call[c].node \in Employees
  BY PollAt DEF Grants, At, PollPcs
<1>2. IF t = call[c].task THEN Leased(t)' /\ Current(t)'.employee = call[c].node
      ELSE mail'[t] = mail[t]
  BY <1>1, GrantFits
<1> QED BY <1>2 DEF Leased, Current

LEMMA AloneIs ==
  ASSUME HandsInv, ~overlapped
  PROVE  /\ Alone
         /\ \A c \in Calls : Active(c) => \A t \in HandsOf(call[c]) : RunsOn(t, call[c].node)
         /\ \A e \in Employees : active[e] = Cardinality(Running(e))
         /\ ~poisoned => \A t \in DOMAIN queue : queue[t].stage = "running" => Held(t)
BY DEF HandsInv, Alone

LEMMA StillAlone ==
  ASSUME BaseInv, Alone, NEW c \in Calls, NEW q, Moves(c, q),
         UNCHANGED <<queue, assignee, active>>,
         q # Idle => \A t \in HandsOf(q) : RunsOn(t, q.node),
         q # Idle => \/ Active(c) /\ q.node = call[c].node
                     \/ \A d \in Calls : Active(d) => call[d].node # q.node
  PROVE  Alone'
<1>1. \A t, e : RunsOn(t, e)' <=> RunsOn(t, e)
  BY DEF RunsOn
<1>2. \A e : Running(e)' = Running(e)
  BY DEF Running
<1>3. q # Idle => \A t \in HandsOf(q) : RunsOn(t, q.node)'
  BY <1>1
<1>4. \A d \in Calls \ {c}, e \in Employees :
        Active(d) /\ call[d].node = e => \A t \in HandsOf(call[d]) : RunsOn(t, e)'
  BY <1>1 DEF Alone
<1>5. \A e \in Employees : active'[e] = Cardinality(Running(e)')
  BY <1>2 DEF Alone
<1> QED BY <1>3, <1>4, <1>5, HandsFrom

LEMMA PassesHands ==
  ASSUME BaseInv, HandsInv, NEW c \in Calls, NEW q, Passes(c, q)
  PROVE  HandsInv'
<1> SUFFICES ASSUME ~overlapped'
             PROVE  /\ Alone'
                    /\ ~poisoned' => \A t \in DOMAIN queue' : queue'[t].stage = "running" => Held(t)'
  BY DEF HandsInv
<1>1. /\ ~overlapped /\ poisoned' = poisoned /\ UNCHANGED <<queue, assignee, active>>
      /\ Active(c) /\ Moves(c, q) /\ MailStays /\ q # Idle /\ q.node = call[c].node
  BY DEF Passes, Moves
<1>2. Alone'
  <2>1. \A t \in HandsOf(q) : RunsOn(t, q.node)
    BY <1>1, AloneIs DEF Passes
  <2> QED BY <1>1, <2>1, AloneIs, StillAlone
<1>3. ASSUME ~poisoned, NEW t \in DOMAIN queue, queue[t].stage = "running" PROVE Held(t)'
  <2>1. Held(t) /\ t \in Tasks
    BY <1>1, <1>3, AloneIs DEF BaseInv, Types, QueueFits
  <2>2. Leased(t) => Leased(t)' /\ Current(t)'.employee = Current(t).employee
    BY <1>1, <2>1, MailKeepsLease DEF BaseInv
  <2>3. c \in Pending(t) => c \in Pending(t)'
    <3>1. call'[c] = q
      BY DEF Passes, Moves, Goes, BaseInv, Types
    <3> QED BY <3>1 DEF Passes, Pending, Active
  <2> QED BY <1>1, <2>1, <2>2, <2>3, HeldOn
<1> QED BY <1>1, <1>2, <1>3

LEMMA LeavesHands ==
  ASSUME BaseInv, HandsInv, NEW c \in Calls, Leaves(c)
  PROVE  HandsInv'
<1> SUFFICES ASSUME ~overlapped'
             PROVE  /\ Alone'
                    /\ ~poisoned' => \A t \in DOMAIN queue' : queue'[t].stage = "running" => Held(t)'
  BY DEF HandsInv
<1>1. /\ ~overlapped /\ poisoned' = poisoned /\ UNCHANGED <<queue, assignee, active>>
      /\ Active(c) /\ Moves(c, Idle) /\ (MailStays \/ Grants(c))
  BY DEF Leaves, Moves
<1>2. Alone'
  BY <1>1, AloneIs, StillAlone
<1>3. ASSUME ~poisoned, NEW t \in DOMAIN queue, queue[t].stage = "running" PROVE Held(t)'
  <2>1. Held(t) /\ t \in Tasks
    BY <1>1, <1>3, AloneIs DEF BaseInv, Types, QueueFits
  <2>2. c \in Pending(t) => Grants(c) /\ t = call[c].task /\ call[c].node = assignee[t]
    <3>1. ASSUME c \in Pending(t) PROVE BeforeLease(call[c]) /\ t = call[c].task /\ t \in HandsOf(call[c])
      BY <2>1, <3>1 DEF Pending, HandsOf
    <3>2. \A u \in HandsOf(call[c]) : RunsOn(u, call[c].node)
      BY <1>1, AloneIs
    <3> QED BY <1>3, <3>1, <3>2 DEF Leaves, RunsOn
  <2>3. CASE MailStays /\ c \notin Pending(t)
    BY <1>1, <2>1, <2>3, MailKeepsLease, HeldOn DEF BaseInv
  <2>4. CASE Grants(c)
    <3>1. call[c].task = t => Leased(t)' /\ Current(t)'.employee = assignee[t]
      <4>1. c \in Pending(call[c].task)
        BY <1>1, <2>4 DEF Pending, Grants, BeforeLease
      <4> QED BY <2>1, <2>2, <2>4, <4>1, GrantKeepsLease DEF BaseInv
    <3>2. call[c].task # t => (Leased(t) => Leased(t)' /\ Current(t)'.employee = Current(t).employee)
      BY <2>1, <2>4, GrantKeepsLease DEF BaseInv
    <3> QED BY <1>1, <2>1, <2>2, <3>1, <3>2, HeldOn
  <2> QED BY <1>1, <2>2, <2>3, <2>4
<1> QED BY <1>1, <1>2, <1>3
LEMMA EndsHands ==
  ASSUME BaseInv, HandsInv, NEW c \in Calls, NEW q, Ends(c, q)
  PROVE  HandsInv'
<1> SUFFICES ASSUME ~overlapped'
             PROVE  /\ Alone'
                    /\ ~poisoned' => \A t \in DOMAIN queue' : queue'[t].stage = "running" => Held(t)'
  BY DEF HandsInv
<1>1. /\ ~overlapped /\ poisoned' = poisoned /\ Active(c) /\ Moves(c, q)
      /\ (MailStays \/ Grants(c)) /\ q # Idle /\ q.node = call[c].node
      /\ HandsOf(q) \subseteq HandsOf(call[c]) \ {call[c].task}
  BY DEF Ends, Moves
<1>2. PICK e \in Employees : e = call[c].node
  BY <1>1 DEF BaseInv, Types, Active, CallRecs, PollRecs, DeliverRecs
<1>3. PICK u \in DOMAIN queue : u = call[c].task
  BY DEF Ends
<1>4. PICK r : Finishes(u, e, r)
  BY <1>2, <1>3 DEF Ends
<1>5. /\ DOMAIN queue' = DOMAIN queue /\ queue'[u].stage # "running"
      /\ \A t \in DOMAIN queue : t # u => queue'[t] = queue[t] /\ assignee'[t] = assignee[t]
  BY <1>4, FinishedFit DEF BaseInv, RecordsFit, Finishes
<1>6. RunsOn(u, e)
  BY <1>1, <1>2, <1>3, AloneIs DEF Ends
<1>7. \A t, f : RunsOn(t, f)' <=> RunsOn(t, f) /\ t # u
  BY <1>5 DEF RunsOn
<1>8. Alone'
  <2>1. \A t \in HandsOf(q) : RunsOn(t, q.node)'
    <3>1. \A t \in HandsOf(q) : RunsOn(t, e) /\ t # u
      BY <1>1, <1>2, <1>3, AloneIs
    <3> QED BY <1>1, <1>2, <1>7, <3>1
  <2>2. ASSUME NEW d \in Calls \ {c}, NEW f \in Employees, Active(d), call[d].node = f,
               NEW t \in HandsOf(call[d])
        PROVE  RunsOn(t, f)'
    <3>1. RunsOn(t, f) /\ f # e
      BY <1>1, <1>2, <2>2, AloneIs DEF Alone
    <3>2. t # u
      BY <1>6, <3>1 DEF RunsOn
    <3> QED BY <1>7, <3>1, <3>2
  <2>3. ASSUME NEW f \in Employees PROVE active'[f] = Cardinality(Running(f)')
    <3>1. active[f] = Cardinality(Running(f)) /\ active[f] \in Nat
      BY <1>1, AloneIs DEF BaseInv, Types
    <3>2. CASE f = e
      <4>1. Running(f)' = Running(f) \ {u} /\ u \in Running(f)
        BY <1>5, <1>6, <3>2 DEF Running, RunsOn
      <4>2. IsFiniteSet(Running(f))
        <5>1. Running(f) \subseteq DOMAIN queue
          BY DEF Running
        <5> QED BY <5>1, FS_Subset DEF BaseInv, Types
      <4>3. Cardinality(Running(f) \ {u}) = Cardinality(Running(f)) - 1 /\ Cardinality(Running(f) \ {u}) \in Nat
        BY <4>1, <4>2, FS_RemoveElement, FS_CardinalityType
      <4>4. active'[f] = IF active[f] > 0 THEN active[f] - 1 ELSE 0
        BY <1>4, <3>2 DEF Finishes, ReleaseEmployee, BaseInv, Types
      <4> QED BY <3>1, <4>1, <4>3, <4>4
    <3>3. CASE f # e
      <4>1. Running(f)' = Running(f)
        BY <1>5, <1>6, <3>3 DEF Running, RunsOn
      <4>2. active'[f] = active[f]
        BY <1>4, <3>3 DEF Finishes, ReleaseEmployee, BaseInv, Types
      <4> QED BY <3>1, <4>1, <4>2
    <3> QED BY <3>2, <3>3
  <2> QED BY <1>1, <2>1, <2>2, <2>3, AloneIs, HandsFrom
<1>9. ASSUME ~poisoned, NEW t \in DOMAIN queue, queue'[t].stage = "running" PROVE Held(t)'
  <2>1. t # u /\ queue[t].stage = "running" /\ assignee'[t] = assignee[t]
    BY <1>5, <1>9
  <2>2. Held(t) /\ t \in Tasks
    BY <1>1, <1>9, <2>1, AloneIs DEF BaseInv, Types, QueueFits
  <2>3. c \notin Pending(t)
    BY <1>3, <2>1 DEF Pending
  <2>4. Leased(t) => Leased(t)' /\ Current(t)'.employee = Current(t).employee
    BY <1>1, <1>3, <2>1, <2>2, MailKeepsLease, GrantKeepsLease DEF BaseInv
  <2> QED BY <1>1, <2>1, <2>2, <2>3, <2>4, HeldOn
<1> QED BY <1>1, <1>5, <1>8, <1>9

LEMMA TakesHands ==
  ASSUME BaseInv, HandsInv, NEW c \in Calls, NEW q, Takes(c, q)
  PROVE  HandsInv'
<1> SUFFICES ASSUME ~overlapped'
             PROVE  /\ Alone'
                    /\ ~poisoned' => \A t \in DOMAIN queue' : queue'[t].stage = "running" => Held(t)'
  BY DEF HandsInv
<1>1. /\ ~overlapped /\ poisoned' = poisoned /\ Active(c) /\ Moves(c, q) /\ mail' = mail
      /\ q # Idle /\ q.node = call[c].node /\ q.pc = "taken"
  BY DEF Takes, Moves
<1>2. q \in PollRecs /\ RecFits(q) /\ call'[c] = q
  <2>1. q \in CallRecs /\ q \notin DeliverRecs /\ RecFits(q)
    BY <1>1 DEF Moves, DeliverRecs, DeliverPcs
  <2> QED BY <1>1, <2>1 DEF CallRecs, Moves, Goes, BaseInv, Types
<1>3. PICK e \in Employees : e = q.node
  BY <1>2 DEF PollRecs
<1>4. PICK u \in DOMAIN queue : u = q.task
  BY <1>1, <1>2 DEF RecFits
<1>5. queue[u].stage = "queued" /\ Take(u, e)
  BY <1>3, <1>4 DEF Takes
<1>6. /\ DOMAIN queue' = DOMAIN queue /\ queue'[u].stage = "running" /\ assignee'[u] = e
      /\ \A t \in DOMAIN queue : t # u => queue'[t] = queue[t] /\ assignee'[t] = assignee[t]
  BY <1>5, TakenFit DEF BaseInv, RecordsFit
<1>7. /\ RunsOn(u, e)' /\ \A t, f : RunsOn(t, f) => RunsOn(t, f)' /\ t # u
  BY <1>5, <1>6 DEF RunsOn
<1>8. Alone'
  <2>1. \A t \in HandsOf(q) : RunsOn(t, q.node)'
    <3>1. HandsOf(q) \subseteq {u}
      BY <1>1, <1>4 DEF HandsOf, BeforeLease
    <3> QED BY <1>3, <1>7, <3>1
  <2>2. \A d \in Calls \ {c}, f \in Employees :
          Active(d) /\ call[d].node = f => \A t \in HandsOf(call[d]) : RunsOn(t, f)'
    BY <1>1, <1>7, AloneIs
  <2>3. ASSUME NEW f \in Employees PROVE active'[f] = Cardinality(Running(f)')
    <3>1. active[f] = Cardinality(Running(f)) /\ active[f] \in Nat
      BY <1>1, AloneIs DEF BaseInv, Types
    <3>2. CASE f = e
      <4>1. Running(f)' = Running(f) \cup {u} /\ u \notin Running(f)
        BY <1>5, <1>6, <3>2 DEF Running
      <4>2. IsFiniteSet(Running(f))
        <5>1. Running(f) \subseteq DOMAIN queue
          BY DEF Running
        <5> QED BY <5>1, FS_Subset DEF BaseInv, Types
      <4>3. Cardinality(Running(f) \cup {u}) = Cardinality(Running(f)) + 1
        BY <4>1, <4>2, FS_AddElement
      <4>4. active'[f] = active[f] + 1
        BY <1>5, <3>2 DEF Take, BaseInv, Types
      <4> QED BY <3>1, <4>1, <4>3, <4>4
    <3>3. CASE f # e
      <4>1. Running(f)' = Running(f)
        BY <1>5, <1>6, <3>3 DEF Running
      <4>2. active'[f] = active[f]
        BY <1>5, <3>3 DEF Take, BaseInv, Types
      <4> QED BY <3>1, <4>1, <4>2
    <3> QED BY <3>2, <3>3
  <2> QED BY <1>1, <2>1, <2>2, <2>3, AloneIs, HandsFrom
<1>9. ASSUME ~poisoned, NEW t \in DOMAIN queue, queue'[t].stage = "running" PROVE Held(t)'
  <2>1. CASE t = u
    <3>1. c \in Pending(t)' /\ call'[c].node = assignee'[t]
      BY <1>1, <1>2, <1>3, <1>4, <1>6, <2>1 DEF Pending, Active, BeforeLease
    <3> QED BY <3>1 DEF Held
  <2>2. CASE t # u
    <3>1. Held(t) /\ assignee'[t] = assignee[t]
      BY <1>1, <1>6, <1>9, <2>2, AloneIs
    <3>2. c \notin Pending(t)
      BY DEF Takes, Pending, BeforeLease
    <3>3. Leased(t) => Leased(t)' /\ Current(t)'.employee = Current(t).employee
      BY <1>1 DEF Leased, Current
    <3> QED BY <1>1, <3>1, <3>2, <3>3, HeldOn
  <2> QED BY <2>1, <2>2
<1> QED BY <1>1, <1>6, <1>8, <1>9

LEMMA StartsHands ==
  ASSUME BaseInv, HandsInv, NEW c \in Calls, NEW q, Starts(c, q)
  PROVE  HandsInv'
<1> SUFFICES ASSUME ~overlapped'
             PROVE  /\ Alone'
                    /\ ~poisoned' => \A t \in DOMAIN queue' : queue'[t].stage = "running" => Held(t)'
  BY DEF HandsInv
<1>1. /\ ~overlapped /\ \A d \in Calls : Active(d) => call[d].node # q.node
      /\ poisoned' = poisoned /\ UNCHANGED <<queue, assignee, active, mail>>
      /\ ~Active(c) /\ Moves(c, q) /\ q # Idle /\ \A t \in HandsOf(q) : RunsOn(t, q.node)
  BY DEF Starts, Moves
<1>2. Alone'
  BY <1>1, AloneIs, StillAlone
<1>3. ASSUME ~poisoned, NEW t \in DOMAIN queue, queue[t].stage = "running" PROVE Held(t)'
  <2>1. Held(t)
    BY <1>1, <1>3, AloneIs
  <2>2. Leased(t) => Leased(t)' /\ Current(t)'.employee = Current(t).employee
    BY <1>1 DEF Leased, Current
  <2>3. c \notin Pending(t)
    BY <1>1 DEF Pending
  <2> QED BY <1>1, <2>1, <2>2, <2>3, HeldOn
<1> QED BY <1>1, <1>2, <1>3

\* The calls are told something, or left alone; the records that run stay.
LEMMA ToldHands ==
  ASSUME BaseInv, HandsInv, \A d \in Calls : Told(d), UNCHANGED <<active, overlapped>>, MailStays,
         DOMAIN queue \subseteq DOMAIN queue',
         \A t \in DOMAIN queue : queue'[t] = queue[t] /\ assignee'[t] = assignee[t],
         \A t \in DOMAIN queue' \ DOMAIN queue : queue'[t].stage = "queued",
         poisoned => poisoned'
  PROVE  HandsInv'
<1> SUFFICES ASSUME ~overlapped'
             PROVE  /\ Alone'
                    /\ ~poisoned' => \A t \in DOMAIN queue' : queue'[t].stage = "running" => Held(t)'
  BY DEF HandsInv
<1>1. \A t \in DOMAIN queue' : queue'[t].stage = "running" => t \in DOMAIN queue
  OBVIOUS
<1>2. \A t, e : RunsOn(t, e)' <=> RunsOn(t, e)
  BY <1>1 DEF RunsOn
<1>3. \A e : Running(e)' = Running(e)
  BY <1>1 DEF Running
<1>4. \A d \in Calls : /\ Active(d)' <=> Active(d)
                       /\ Active(d) => /\ call'[d].node = call[d].node /\ call'[d].task = call[d].task
                                       /\ call'[d].pc = call[d].pc
                                       /\ HandsOf(call'[d]) = HandsOf(call[d])
  BY DEF Told
<1>5. Alone'
  <2>1. \A d \in Calls : Active(d)' => \A t \in HandsOf(call'[d]) : RunsOn(t, call[d].node)'
    <3>1. ASSUME NEW d \in Calls, Active(d)', NEW t \in HandsOf(call'[d]), NEW e, e = call'[d].node
          PROVE  RunsOn(t, e)'
      BY <1>2, <1>4, <3>1, AloneIs
    <3> QED BY <3>1 DEF RunsOn
  <2> QED BY <1>3, <1>4, <2>1, AloneIs DEF Alone
<1>6. ASSUME ~poisoned', NEW t \in DOMAIN queue', queue'[t].stage = "running" PROVE Held(t)'
  <2>1. t \in DOMAIN queue /\ Held(t) /\ t \in Tasks /\ assignee'[t] = assignee[t]
    BY <1>1, <1>6, AloneIs DEF BaseInv, Types, QueueFits
  <2>2. CASE Leased(t) /\ Current(t).employee = assignee[t]
    BY <2>1, <2>2, MailKeepsLease DEF Held, BaseInv
  <2>3. ASSUME NEW d \in Pending(t), call[d].node = assignee[t] PROVE Held(t)'
    <3>1. d \in Pending(t)' /\ call'[d].node = assignee'[t]
      BY <1>4, <2>1, <2>3 DEF Pending, BeforeLease
    <3> QED BY <3>1 DEF Held
  <2> QED BY <2>1, <2>2, <2>3 DEF Held
<1> QED BY <1>5, <1>6

LEMMA RestartHands == ASSUME BaseInv, HandsInv, Restart PROVE HandsInv'
<1>1. /\ \A d \in Calls : ~Active(d)'
      /\ \A e \in Employees : active'[e] = 0
  BY DEF Restart, Active
<1>2. \A t \in DOMAIN queue' : queue'[t].stage # "running"
  BY RestartRecovers, RecoveredFits DEF TaskFits, Records, Stages
<1>3. \A e : Running(e)' = {}
  BY <1>2 DEF Running
<1>4. Cardinality({}) = 0
  BY FS_EmptySet
<1>5. ASSUME NEW e \in Employees PROVE active'[e] = Cardinality(Running(e)')
  BY <1>1, <1>3, <1>4
<1>6. Alone'
  BY <1>1, <1>5 DEF Alone
<1> QED BY <1>2, <1>6 DEF HandsInv

LEMMA InitHands == Init => HandsInv
<1> SUFFICES ASSUME Init PROVE Alone /\ DOMAIN queue = {}
  BY DEF HandsInv
<1>1. /\ DOMAIN queue = {} /\ \A d \in Calls : ~Active(d)
      /\ \A e \in Employees : active[e] = 0
  BY DEF Init, Active
<1>2. \A e : Running(e) = {}
  BY <1>1 DEF Running
<1>3. Cardinality({}) = 0
  BY FS_EmptySet
<1> QED BY <1>1, <1>2, <1>3 DEF Alone

LEMMA HandsKept == BaseInv /\ HandsInv /\ [Next]_vars => HandsInv'
<1> SUFFICES ASSUME BaseInv, HandsInv, [Next]_vars PROVE HandsInv'
  OBVIOUS
<1>1. CASE CallSteps
  <2>1. \E c \in Calls : \/ Leaves(c)
                         \/ \E q : Passes(c, q) \/ Ends(c, q) \/ Takes(c, q) \/ Starts(c, q)
    BY <1>1, StepForms DEF BaseInv
  <2> QED BY <2>1, LeavesHands, PassesHands, EndsHands, TakesHands, StartsHands
<1>2. ASSUME UNCHANGED <<queue, assignee, active, mail, overlapped>>, poisoned => poisoned',
             \A d \in Calls : Told(d)
      PROVE  HandsInv'
  BY <1>2, MailKept, ToldHands DEF BaseInv
<1>3. CASE Outside
  <2>1. \A d \in Calls : Told(d)
    BY <1>3 DEF Outside, Told, Active, BaseInv, Types
  <2> QED BY <1>3, <2>1, ToldHands DEF Outside, Precedes
<1>4. CASE SaveBegins \/ UNCHANGED vars
  <2>1. UNCHANGED <<queue, assignee, active, mail, call, poisoned, overlapped>>
    BY <1>4 DEF SaveBegins, vars, store
  <2>2. \A d \in Calls : Told(d)
    BY <2>1 DEF Told, Active, BaseInv, Types
  <2> QED BY <1>2, <2>1, <2>2
<1>5. CASE SaveEnds
  BY <1>2, <1>5, SaveEndsTells DEF SaveEnds
<1>6. CASE SaveFails
  BY <1>2, <1>6, SaveFailsTells DEF SaveFails
<1> QED BY <1>1, <1>3, <1>4, <1>5, <1>6, RestartHands, NextIs DEF BaseInv

\* While no node has two calls in flight, activeTaskCount of an employee is the
\* number of tasks that run on it: every attempt that is taken is released when
\* it fails, expires or completes, and released once.
THEOREM ActiveStaysTrue == Spec => []CountsAreTrue
<1>1. HandsInv => CountsAreTrue
  BY DEF HandsInv, Alone, CountsAreTrue, Running
<1> QED BY <1>1, InitBase, InitHands, BaseKept, HandsKept, PTL DEF Spec

\* While no node has two calls in flight and no checkpoint failed, a task that
\* runs is leased to its assignee, or its poll is about to lease it.
THEOREM RunningStaysLeased == Spec => []RunningIsLeased
<1>1. HandsInv => RunningIsLeased
  <2> SUFFICES ASSUME HandsInv, ~overlapped, ~poisoned, NEW t \in DOMAIN queue, queue[t].stage = "running"
               PROVE  \/ Leased(t) /\ Current(t).employee = assignee[t]
                      \/ \E c \in Calls : /\ call[c] # Idle /\ call[c].task = t
                                          /\ call[c].pc \in {"taken", "leasing"}
    BY DEF RunningIsLeased
  <2>1. Held(t)
    BY AloneIs
  <2> QED BY <2>1 DEF Held, Pending, Active, BeforeLease
<1> QED BY <1>1, InitBase, InitHands, BaseKept, HandsKept, PTL DEF Spec
=============================================================================
