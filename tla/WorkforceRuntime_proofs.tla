------------------------ MODULE WorkforceRuntime_proofs ------------------------
(***************************************************************************)
(* What holds of DurableWorkforceRuntime for every number of tasks, calls, *)
(* employees and attempts.  The argument is in four layers, each of them   *)
(* an inductive invariant on top of BaseInv:                               *)
(*   BaseInv     what a record, a snapshot and a call are, who waits in    *)
(*               the chain of checkpoints, and that the stored, the saved  *)
(*               and the present queue are in order (RestartIsHonest);     *)
(*   SpentInv    an execution was made, and stored, as an attempt          *)
(*               (ExecutionsAreBounded);                                   *)
(*   PromiseInv  what a call is about to return is recorded                *)
(*               (CompletionIsFinal);                                      *)
(*   AloneInv    without overlapping calls, a task is at the stage its     *)
(*               call left it (CountsAreTrue, InFlightIsHeld).             *)
(***************************************************************************)
EXTENDS WorkforceRuntime, TaskRecords_proofs

-----------------------------------------------------------------------------
(***************************************************************************)
(* What the records, the snapshots and the calls are.                      *)
(***************************************************************************)
Health   == {"online", "degraded", "offline"}
Pcs      == {"enqueued", "started", "executing", "completed", "failed", "requeued",
             "caughtFailed", "caughtRequeued"}
CallRecs == [pc : Pcs, task : Tasks, saved : {"waiting", "done", "failed"},
             answer : Results, employee : Employees \cup {Nobody},
             tried : SUBSET Employees, outcome : {"none"} \cup Failures]
StaffRecs == [active : Nat, current : SUBSET Tasks,
              availability : {"idle", "busy", "degraded", "offline"}]

StaffFits(s) == s \in [DOMAIN s -> StaffRecs] /\ DOMAIN s \subseteq Employees
SnapFits(s)  == /\ DOMAIN s = {"queue", "nodes", "staff"}
                /\ QueueFits(s.queue) /\ s.nodes \in [Nodes -> Health] /\ StaffFits(s.staff)

\* A call is at a task of the queue, and at work with a registered employee.
Active(c) == call[c] # Idle
AtWork    == {"started", "executing", "completed", "failed", "requeued"}
CallFits(c) ==
  Active(c) => /\ call[c].task \in DOMAIN queue
               /\ call[c].pc \in AtWork => call[c].employee \in DOMAIN staff
               /\ call[c].pc = "executing" => call[c].saved = "done"

Types ==
  /\ QueueFits(queue) /\ nodes \in [Nodes -> Health] /\ StaffFits(staff)
  /\ call \in [Calls -> CallRecs \cup {Idle}] /\ \A c \in Calls : CallFits(c)
  /\ chain \in Seq(Calls \cup {Controller})
  /\ SnapFits(stored) /\ (saving = None \/ SnapFits(saving))
  /\ executions \in [Tasks -> Nat]
  /\ poisoned \in BOOLEAN /\ overlapped \in BOOLEAN

\* The chain holds the calls that wait for a checkpoint, each of them once.
Chains(c) == InLine(chain, c)
ChainFits ==
  /\ poisoned => chain = << >>
  /\ saving # None => chain # << >>
  /\ \A c \in Calls : (Active(c) /\ call[c].saved = "waiting") <=> Chains(c)
  /\ Once(chain, Calls)

InOrder ==
  /\ Precedes(stored.queue, queue)
  /\ saving # None => Precedes(stored.queue, saving.queue) /\ Precedes(saving.queue, queue)

BaseInv == Types /\ ChainFits /\ InOrder

(***************************************************************************)
(* The attempts: an execution has been made, and stored, as an attempt.    *)
(***************************************************************************)
Pending(t) == {c \in Calls : Active(c) /\ call[c].pc = "started" /\ call[c].task = t}
Stored(t)  == {c \in Pending(t) : call[c].saved = "done"}
Saved(t)   == {c \in Pending(t) : call[c].saved = "done" \/ c = Head(chain)}

Spent(t) ==
  /\ executions[t] + Cardinality(Pending(t)) <= Attempts(queue, t)
  /\ executions[t] + Cardinality(Stored(t)) <= Attempts(stored.queue, t)
  /\ saving # None =>
       executions[t] + Cardinality(Saved(t)) <= Attempts(saving.queue, t)
SpentInv == \A t \in Tasks : Spent(t)

(***************************************************************************)
(* The results: what a call is about to return is recorded.                *)
(***************************************************************************)
Holds(q, t, e) ==
  /\ t \in DOMAIN q /\ q[t].stage = "completed" /\ q[t].result.employee = e
\* The completed result that a call will return.
Promise(c) ==
  {e \in Employees :
     \/ call[c].pc = "completed" /\ call[c].employee = e
     \/ /\ call[c].pc = "enqueued" /\ call[c].answer.status = "completed"
        /\ call[c].answer.employee = e}
Promised(c) ==
  Active(c) => \A e \in Promise(c) :
    /\ Holds(queue, call[c].task, e)
    /\ call[c].saved = "done" => Holds(stored.queue, call[c].task, e)
    /\ saving # None /\ c = Head(chain) => Holds(saving.queue, call[c].task, e)
PromiseInv ==
  /\ \A c \in Calls : Promised(c)
  /\ \A x \in returned : Holds(stored.queue, x.task, x.employee)

(***************************************************************************)
(* Calls that do not overlap: each task is at the stage its call left it.  *)
(***************************************************************************)
StageOf(pc) ==
  CASE pc = "enqueued" -> Stages
    [] pc \in {"started", "executing"} -> {"running"}
    [] pc = "completed" -> {"completed"}
    [] pc \in {"failed", "caughtFailed"} -> {"failed"}
    [] pc \in {"requeued", "caughtRequeued"} -> {"queued", "failed"}

Alone ==
  /\ \A c, d \in Calls : Active(c) /\ Active(d) /\ call[c].task = call[d].task => c = d
  /\ \A c \in Calls : Active(c) => queue[call[c].task].stage \in StageOf(call[c].pc)
AloneInv == /\ ~overlapped => Alone
            /\ CountsAreTrue /\ InFlightIsHeld

-----------------------------------------------------------------------------
(***************************************************************************)
(* The steps of one call, and what they leave of the chain.                *)
(***************************************************************************)
\* A call waits in the chain when it asked for a checkpoint of a chain that
\* works, and only then.
Goes(c, q) ==
  /\ call' = [call EXCEPT ![c] = q]
  /\ \/ (q # Idle => q.saved # "waiting") /\ chain' = chain
     \/ q # Idle /\ q.saved = "waiting" /\ ~poisoned /\ chain' = Append(chain, c)

CallMoves(c) ==
  /\ Active(c) => call[c].saved # "waiting"
  /\ \E q \in CallRecs \cup {Idle} : Goes(c, q)
  /\ CallFits(c)'
  /\ UNCHANGED <<nodes, saving, poisoned, stored>>
  /\ QueueFits(queue') /\ Precedes(queue, queue')
  /\ StaffFits(staff') /\ DOMAIN staff \subseteq DOMAIN staff'
  /\ executions' \in [Tasks -> Nat] /\ overlapped' \in BOOLEAN

LEMMA IdleIsNoCall == Idle \notin CallRecs
<1>1. \A q \in CallRecs : q.pc \in Pcs
  BY DEF CallRecs
<1>2. Idle.pc = "idle" /\ "idle" \notin Pcs
  BY DEF Idle, Pcs
<1> QED BY <1>1, <1>2

LEMMA CallIs ==
  ASSUME Types, NEW c \in Calls, Active(c)
  PROVE  call[c] \in CallRecs /\ CallFits(c) /\ call[c].task \in DOMAIN queue /\ call[c].task \in Tasks
BY DEF Types, Active, CallFits, QueueFits

LEMMA Asks ==
  ASSUME poisoned \in BOOLEAN, NEW c, NEW q \in CallRecs, Await(c, q)
  PROVE  LET r == [q EXCEPT !.saved = IF poisoned THEN "failed" ELSE "waiting"]
         IN  r \in CallRecs /\ Goes(c, r)
<1> DEFINE r == [q EXCEPT !.saved = IF poisoned THEN "failed" ELSE "waiting"]
<1>1. r \in CallRecs /\ r.saved = IF poisoned THEN "failed" ELSE "waiting"
  BY DEF CallRecs
<1>2. r # Idle
  BY <1>1, IdleIsNoCall
<1>3. call' = [call EXCEPT ![c] = r] /\ chain' = IF poisoned THEN chain ELSE Append(chain, c)
  BY DEF Await, Chained
<1> HIDE DEF r
<1>4. Goes(c, r)
  BY <1>1, <1>2, <1>3 DEF Goes
<1> QED BY <1>1, <1>4 DEF r

LEMMA GoesKeepsChain ==
  ASSUME Types, ChainFits, NEW c \in Calls, Active(c) => call[c].saved # "waiting",
         NEW q \in CallRecs \cup {Idle}, Goes(c, q), UNCHANGED <<saving, poisoned>>
  PROVE  /\ ChainFits' /\ chain' \in Seq(Calls \cup {Controller})
         /\ call' \in [Calls -> CallRecs \cup {Idle}]
         /\ saving # None => Head(chain') = Head(chain) /\ Head(chain) # c
<1>1. /\ call' \in [Calls -> CallRecs \cup {Idle}] /\ call'[c] = q
      /\ \A d \in Calls : d # c => call'[d] = call[d]
  BY DEF Goes, Types
<1>2. ~Chains(c)
  BY DEF ChainFits
<1>3. chain \in Seq(Calls \cup {Controller})
  BY DEF Types
<1>4. saving # None => Head(chain) # c
  <2>1. chain # << >> => Head(chain) = chain[1] /\ 1 \in DOMAIN chain
    BY <1>3
  <2> QED BY <2>1, <1>2 DEF ChainFits, Chains, InLine
<1>5. CASE (q # Idle => q.saved # "waiting") /\ chain' = chain
  <2>1. \A d \in Calls : Active(d)' /\ call'[d].saved = "waiting" <=> Chains(d)'
    BY <1>1, <1>2, <1>5 DEF ChainFits, Active, Chains
  <2>2. ChainFits'
    BY <1>5, <2>1 DEF ChainFits
  <2> QED BY <1>1, <1>3, <1>4, <1>5, <2>2
<1>6. CASE q # Idle /\ q.saved = "waiting" /\ ~poisoned /\ chain' = Append(chain, c)
  <2>1. /\ chain' \in Seq(Calls \cup {Controller}) /\ chain' # << >> /\ Once(chain', Calls)
        /\ \A d : InLine(chain', d) <=> InLine(chain, d) \/ d = c
        /\ chain # << >> => Head(chain') = Head(chain)
    BY <1>2, <1>3, <1>6, Appended DEF ChainFits, Chains
  <2>2. \A d \in Calls : Active(d)' /\ call'[d].saved = "waiting" <=> Chains(d)'
    BY <1>1, <1>6, <2>1 DEF ChainFits, Active, Chains
  <2>3. ChainFits'
    BY <1>6, <2>1, <2>2 DEF ChainFits
  <2> QED BY <1>1, <1>4, <2>1, <2>3 DEF ChainFits
<1> QED BY <1>5, <1>6 DEF Goes

LEMMA CallsStayFit ==
  ASSUME Types, NEW d \in Calls, CallFits(d), call'[d] = call[d],
         DOMAIN queue \subseteq DOMAIN queue', DOMAIN staff \subseteq DOMAIN staff'
  PROVE  CallFits(d)'
BY DEF CallFits, Active

LEMMA CallMovesKeeps ==
  ASSUME BaseInv, NEW c \in Calls, CallMoves(c)
  PROVE  BaseInv'
<1>1. PICK q \in CallRecs \cup {Idle} : Goes(c, q)
  BY DEF CallMoves
<1>2. /\ ChainFits' /\ chain' \in Seq(Calls \cup {Controller})
      /\ call' \in [Calls -> CallRecs \cup {Idle}]
  BY <1>1, GoesKeepsChain DEF CallMoves, BaseInv
<1>3. \A d \in Calls : CallFits(d)'
  <2> TAKE d \in Calls
  <2>1. CASE d = c
    BY <2>1 DEF CallMoves
  <2>2. CASE d # c
    <3>1. call'[d] = call[d]
      BY <1>1, <2>2 DEF Goes, BaseInv, Types
    <3>2. DOMAIN queue \subseteq DOMAIN queue' /\ DOMAIN staff \subseteq DOMAIN staff'
      BY DEF CallMoves, Precedes
    <3> QED BY <3>1, <3>2, CallsStayFit DEF BaseInv, Types
  <2> QED BY <2>1, <2>2
<1>4. Types'
  BY <1>2, <1>3 DEF CallMoves, BaseInv, Types
<1>5. InOrder'
  <2>1. QueueFits(queue) /\ QueueFits(queue') /\ QueueFits(stored.queue)
    BY DEF CallMoves, BaseInv, Types, SnapFits
  <2>2. Precedes(stored.queue, queue')
    BY <2>1, PrecedesOn DEF CallMoves, BaseInv, InOrder
  <2>3. saving # None => QueueFits(saving.queue)
    BY DEF BaseInv, Types, SnapFits
  <2>4. saving # None => Precedes(saving.queue, queue')
    BY <2>1, <2>3, PrecedesOn DEF CallMoves, BaseInv, InOrder
  <2> QED BY <2>2, <2>4 DEF CallMoves, BaseInv, InOrder
<1> QED BY <1>2, <1>4, <1>5 DEF BaseInv

LEMMA AtIs ==
  ASSUME Types, NEW c \in Calls, NEW pc \in Pcs, NEW saved, At(c, pc, saved)
  PROVE  /\ Active(c) /\ call[c] \in CallRecs /\ CallFits(c)
         /\ call[c].pc = pc /\ call[c].saved = saved
         /\ call[c].task \in DOMAIN queue /\ TaskFits(queue[call[c].task])
<1>1. Active(c)
  BY DEF At, Active, Idle, Pcs
<1> QED BY <1>1, CallIs DEF At, Types, QueueFits

LEMMA AtLoopIs ==
  ASSUME Types, NEW c \in Calls, AtLoop(c)
  PROVE  /\ Active(c) /\ call[c] \in CallRecs /\ call[c].saved = "done"
         /\ call[c].pc \in {"enqueued", "requeued", "caughtRequeued"}
         /\ call[c].task \in DOMAIN queue /\ TaskFits(queue[call[c].task])
BY AtIs DEF AtLoop, Pcs

\* The call ends, with or without a result.
LEMMA LeavingMoves ==
  ASSUME BaseInv, NEW c \in Calls, Active(c), call[c].saved # "waiting",
         call' = [call EXCEPT ![c] = Idle],
         UNCHANGED <<chain, nodes, staff, saving, poisoned, stored, executions, overlapped>>,
         QueueFits(queue'), Precedes(queue, queue')
  PROVE  CallMoves(c)
<1>1. Goes(c, Idle)
  BY DEF Goes
<1>2. CallFits(c)'
  BY DEF CallFits, Active, BaseInv, Types
<1>3. /\ StaffFits(staff') /\ executions' \in [Tasks -> Nat] /\ overlapped' \in BOOLEAN
  BY DEF BaseInv, Types
<1> QED BY <1>1, <1>2, <1>3 DEF CallMoves

\* The call goes on to a checkpoint, at a task of the queue.
LEMMA AwaitingMoves ==
  ASSUME BaseInv, NEW c \in Calls, Active(c) => call[c].saved # "waiting",
         NEW q \in CallRecs, Await(c, q),
         UNCHANGED <<nodes, saving, poisoned, stored, executions>>, overlapped' \in BOOLEAN,
         QueueFits(queue'), Precedes(queue, queue'), q.task \in DOMAIN queue',
         StaffFits(staff'), DOMAIN staff \subseteq DOMAIN staff', q.pc # "executing",
         q.pc \in AtWork => q.employee \in DOMAIN staff'
  PROVE  CallMoves(c)
<1> DEFINE r == [q EXCEPT !.saved = IF poisoned THEN "failed" ELSE "waiting"]
<1>1. r \in CallRecs /\ Goes(c, r)
  BY Asks DEF BaseInv, Types
<1>2. r.task = q.task /\ r.pc = q.pc /\ r.employee = q.employee
  BY DEF CallRecs
<1> HIDE DEF r
<1>3. call'[c] = r
  BY <1>1 DEF Goes, BaseInv, Types
<1>4. CallFits(c)'
  BY <1>2, <1>3 DEF CallFits
<1>5. executions' \in [Tasks -> Nat]
  BY DEF BaseInv, Types
<1> QED BY <1>1, <1>4, <1>5 DEF CallMoves

LEMMA QueueStays ==
  ASSUME BaseInv, UNCHANGED queue
  PROVE  QueueFits(queue') /\ Precedes(queue, queue')
BY PrecedesItself DEF BaseInv, Types

LEMMA InvokeMoves ==
  ASSUME BaseInv, NEW c \in Calls, NEW t \in Tasks, Invoke(c, t)
  PROVE  CallMoves(c)
<1> DEFINE q == [pc |-> "enqueued", task |-> t, saved |-> "waiting",
                 answer |-> IF HasAnswer(queue'[t]) THEN queue'[t].result ELSE NoResult,
                 employee |-> Nobody, tried |-> {}, outcome |-> "none"]
<1>1. QueueFits(queue') /\ Precedes(queue, queue') /\ t \in DOMAIN queue'
  <2>1. CASE t \in DOMAIN queue
    BY <2>1, QueueStays DEF Invoke
  <2>2. CASE t \notin DOMAIN queue
    <3>1. Enqueued = Row("queued", 0, NoResult) /\ NoResult \in Results
      BY DEF Enqueued, Row, NoResult, Results
    <3>2. TaskFits(Enqueued) /\ Enqueued \in Records
      <4>1. 0 \in 0 .. MaxAttempts /\ 0 < MaxAttempts
        BY MaxAttemptsIsPositive
      <4>2. NoResult.status # "completed"
        BY DEF NoResult
      <4> QED BY <3>1, <4>1, <4>2, RowFits DEF Stages, TaskFits
    <3>3. queue' = Put(queue, t, Enqueued)
      BY <2>2 DEF Invoke
    <3>4. /\ DOMAIN queue' = DOMAIN queue \cup {t} /\ queue'[t] = Enqueued
          /\ \A u \in DOMAIN queue : queue'[u] = queue[u]
          /\ queue' = [u \in DOMAIN queue' |-> queue'[u]]
      BY <2>2, <3>3 DEF Put
    <3>5. QueueFits(queue')
      BY <3>2, <3>4 DEF QueueFits, BaseInv, Types
    <3>6. Precedes(queue, queue')
      BY <3>4 DEF Precedes, QueueFits, BaseInv, Types, Records
    <3> QED BY <3>4, <3>5, <3>6
  <2> QED BY <2>1, <2>2
<1>2. q \in CallRecs
  <2>1. queue'[t].result \in Results
    BY <1>1 DEF QueueFits, Records
  <2>2. NoResult \in Results
    BY DEF NoResult, Results
  <2> QED BY <2>1, <2>2 DEF CallRecs, Pcs
<1>3. Await(c, q) /\ ~Active(c)
  BY DEF Invoke, Active
<1>4. q.task \in DOMAIN queue' /\ q.pc = "enqueued"
  BY <1>1
<1> HIDE DEF q
<1>5. /\ UNCHANGED <<nodes, staff, saving, poisoned, stored, executions>>
      /\ overlapped' \in BOOLEAN /\ StaffFits(staff')
  BY DEF Invoke, BaseInv, Types
<1> QED BY <1>1, <1>2, <1>3, <1>4, <1>5, AwaitingMoves DEF AtWork

LEMMA AnswerMoves ==
  ASSUME BaseInv, NEW c \in Calls,
         AnswerFromRecord(c) \/ GiveUp(c) \/ ReturnCompleted(c) \/ ReturnFailed(c) \/ Rejected(c)
  PROVE  CallMoves(c)
<1>1. /\ call' = [call EXCEPT ![c] = Idle]
      /\ UNCHANGED <<chain, queue, nodes, staff, saving, poisoned, stored, executions, overlapped>>
  BY DEF AnswerFromRecord, GiveUp, ReturnCompleted, ReturnFailed, Rejected, Return, Throw
<1>2. Active(c) /\ call[c].saved # "waiting"
  <2>1. CASE GiveUp(c)
    BY <2>1, AtLoopIs DEF GiveUp, BaseInv
  <2>2. CASE ~GiveUp(c)
    <3>1. \E pc \in Pcs, saved \in {"done", "failed"} : At(c, pc, saved)
      BY <2>2 DEF AnswerFromRecord, ReturnCompleted, ReturnFailed, Rejected, Pcs
    <3> QED BY <3>1, AtIs DEF BaseInv
  <2> QED BY <2>1, <2>2
<1> QED BY <1>1, <1>2, LeavingMoves, QueueStays

LEMMA EligibleIs ==
  ASSUME NEW t, NEW excluded, NEW e \in Eligible(t, excluded)
  PROVE  e \in DOMAIN staff
BY DEF Eligible

LEMMA AssignMoves ==
  ASSUME BaseInv, NEW c \in Calls, NEW e \in Employees, Assign(c, e)
  PROVE  CallMoves(c)
<1> DEFINE t == call[c].task
           q == [call[c] EXCEPT !.pc = "started", !.employee = e]
<1>1. /\ Active(c) /\ call[c] \in CallRecs /\ call[c].saved = "done"
      /\ t \in DOMAIN queue /\ TaskFits(queue[t])
  BY AtLoopIs DEF Assign, BaseInv
<1>2. e \in DOMAIN staff
  BY EligibleIs DEF Assign
<1>3. QueueFits(queue') /\ Precedes(queue, queue') /\ DOMAIN queue' = DOMAIN queue
  <2>1. Grown(queue[t], Started(Assigned(queue[t])))
    BY <1>1, AssignGrows DEF Assign
  <2>2. queue' = [queue EXCEPT ![t] = Started(Assigned(queue[t]))]
    BY DEF Assign
  <2> QED BY <1>1, <2>1, <2>2, QueueGrows DEF BaseInv, Types
<1>4. StaffFits(staff') /\ DOMAIN staff' = DOMAIN staff
  <2> DEFINE s == [active |-> staff[e].active + 1, current |-> staff[e].current \cup {t},
                   availability |-> Occupancy(staff[e].active + 1)]
  <2>1. staff[e] \in StaffRecs /\ t \in Tasks
    BY <1>1, <1>2 DEF BaseInv, Types, StaffFits, QueueFits
  <2>2. s \in StaffRecs
    BY <2>1 DEF StaffRecs, Occupancy
  <2>3. staff' = [staff EXCEPT ![e] = s]
    BY DEF Assign, Acquired
  <2> HIDE DEF s
  <2> QED BY <2>2, <2>3 DEF BaseInv, Types, StaffFits
<1>5. q \in CallRecs /\ q.task = t /\ q.pc = "started" /\ q.employee = e
  BY <1>1 DEF CallRecs, Pcs
<1>6. Await(c, q) /\ UNCHANGED <<nodes, saving, poisoned, stored, executions, overlapped>>
  BY DEF Assign
<1> HIDE DEF q
<1>7. overlapped' \in BOOLEAN
  BY <1>6 DEF BaseInv, Types
<1> QED BY <1>1, <1>2, <1>3, <1>4, <1>5, <1>6, <1>7, AwaitingMoves

LEMMA AssignFailsMoves ==
  ASSUME BaseInv, NEW c \in Calls, NEW e \in Employees, AssignFails(c, e)
  PROVE  CallMoves(c)
<1> DEFINE t == call[c].task
<1>1. /\ Active(c) /\ call[c] \in CallRecs /\ call[c].saved = "done"
      /\ t \in DOMAIN queue /\ TaskFits(queue[t])
  BY AtLoopIs DEF AssignFails, BaseInv
<1>2. QueueFits(queue') /\ Precedes(queue, queue')
  <2>1. Grown(queue[t], Assigned(queue[t]))
    BY <1>1, AssignGrows DEF AssignFails
  <2>2. queue' = [queue EXCEPT ![t] = Assigned(queue[t])]
    BY DEF AssignFails
  <2> QED BY <1>1, <2>1, <2>2, QueueGrows DEF BaseInv, Types
<1>3. call' = [call EXCEPT ![c] = Idle]
      /\ UNCHANGED <<chain, nodes, staff, saving, poisoned, stored, executions, overlapped>>
  BY DEF AssignFails, Throw
<1> QED BY <1>1, <1>2, <1>3, LeavingMoves

LEMMA ExecuteMoves ==
  ASSUME BaseInv, NEW c \in Calls, Execute(c)
  PROVE  CallMoves(c)
<1> DEFINE q == [call[c] EXCEPT !.pc = "executing"]
<1>1. /\ Active(c) /\ call[c] \in CallRecs /\ call[c].saved = "done" /\ call[c].pc = "started"
      /\ call[c].task \in DOMAIN queue /\ CallFits(c)
  BY AtIs DEF Execute, BaseInv, Pcs
<1>2. /\ q \in CallRecs /\ q.saved = "done" /\ q.task = call[c].task
      /\ q.employee = call[c].employee
  BY <1>1 DEF CallRecs, Pcs
<1>3. call' = [call EXCEPT ![c] = q]
  BY DEF Execute
<1> HIDE DEF q
<1>4. Goes(c, q) /\ call'[c] = q
  BY <1>2, <1>3 DEF Execute, Goes, BaseInv, Types
<1>5. UNCHANGED <<queue, nodes, staff, saving, poisoned, stored, overlapped>>
  BY DEF Execute
<1>6. CallFits(c)'
  BY <1>1, <1>2, <1>4, <1>5 DEF CallFits, AtWork
<1>7. executions' \in [Tasks -> Nat]
  <2>1. executions' = [executions EXCEPT ![call[c].task] = executions[call[c].task] + 1]
    BY DEF Execute
  <2>2. executions \in [Tasks -> Nat] /\ call[c].task \in Tasks
    BY <1>1 DEF BaseInv, Types, QueueFits
  <2>3. executions[call[c].task] + 1 \in Nat
    BY <2>2
  <2> QED BY <2>1, <2>2, <2>3
<1>8. QueueFits(queue') /\ Precedes(queue, queue')
  BY <1>5, QueueStays
<1>9. StaffFits(staff') /\ DOMAIN staff \subseteq DOMAIN staff' /\ overlapped' \in BOOLEAN
  BY <1>5 DEF BaseInv, Types
<1> QED BY <1>1, <1>2, <1>4, <1>5, <1>6, <1>7, <1>8, <1>9 DEF CallMoves

LEMMA ReleasedFits ==
  ASSUME StaffFits(staff), nodes \in [Nodes -> Health], NEW e \in Employees, NEW t, NEW success,
         staff' = Released(e, t, success)
  PROVE  StaffFits(staff') /\ DOMAIN staff' = DOMAIN staff
<1> DEFINE left == IF staff[e].active > 0 THEN staff[e].active - 1 ELSE 0
           s == [active |-> left, current |-> staff[e].current \ {t},
                 availability |-> IF nodes[NodeOf[e]] \in {"offline", "degraded"}
                                  THEN nodes[NodeOf[e]] ELSE Occupancy(left)]
<1>1. staff' = [staff EXCEPT ![e] = s]
  BY DEF Released
<1>2. CASE e \in DOMAIN staff
  <2>1. staff[e] \in StaffRecs
    BY <1>2 DEF StaffFits
  <2>2. s \in StaffRecs
    BY <2>1 DEF StaffRecs, Occupancy
  <2> HIDE DEF s
  <2> QED BY <1>1, <2>2 DEF StaffFits
<1>3. CASE e \notin DOMAIN staff
  <2> HIDE DEF s
  <2> QED BY <1>1, <1>3 DEF StaffFits
<1> QED BY <1>2, <1>3

LEMMA CompleteMoves ==
  ASSUME BaseInv, NEW c \in Calls, Complete(c)
  PROVE  CallMoves(c)
<1> DEFINE t == call[c].task
           q == [call[c] EXCEPT !.pc = "completed"]
<1>1. /\ Active(c) /\ call[c] \in CallRecs /\ call[c].saved = "done" /\ call[c].pc = "executing"
      /\ t \in DOMAIN queue /\ TaskFits(queue[t]) /\ CallFits(c)
  BY AtIs DEF Complete, BaseInv, Pcs
<1>2. call[c].employee \in DOMAIN staff /\ call[c].employee \in Employees
  BY <1>1 DEF CallFits, AtWork, BaseInv, Types, StaffFits
<1>3. QueueFits(queue') /\ Precedes(queue, queue') /\ DOMAIN queue' = DOMAIN queue
  <2>1. Grown(queue[t], Completed(queue[t], Success(call[c].employee)))
    BY <1>1, <1>2, FinishGrows DEF Complete
  <2>2. queue' = [queue EXCEPT ![t] = Completed(queue[t], Success(call[c].employee))]
    BY DEF Complete
  <2> QED BY <1>1, <2>1, <2>2, QueueGrows DEF BaseInv, Types
<1>4. StaffFits(staff') /\ DOMAIN staff' = DOMAIN staff
  BY <1>2, ReleasedFits DEF Complete, BaseInv, Types
<1>5. q \in CallRecs /\ q.task = t /\ q.pc = "completed" /\ q.employee = call[c].employee
  BY <1>1 DEF CallRecs, Pcs
<1>6. Await(c, q) /\ UNCHANGED <<nodes, saving, poisoned, stored, executions, overlapped>>
  BY DEF Complete
<1> HIDE DEF q
<1>7. overlapped' \in BOOLEAN
  BY <1>6 DEF BaseInv, Types
<1> QED BY <1>1, <1>2, <1>3, <1>4, <1>5, <1>6, <1>7, AwaitingMoves

LEMMA FailMoves ==
  ASSUME BaseInv, NEW c \in Calls, NEW status \in Failures, Fail(c, status)
  PROVE  CallMoves(c)
<1> DEFINE t == call[c].task
           q == [call[c] EXCEPT !.pc = "failed", !.outcome = status,
                                !.tried = @ \cup {call[c].employee}]
<1>1. /\ Active(c) /\ call[c] \in CallRecs /\ call[c].saved = "done" /\ call[c].pc = "executing"
      /\ t \in DOMAIN queue /\ TaskFits(queue[t]) /\ CallFits(c)
  BY AtIs DEF Fail, BaseInv, Pcs
<1>2. call[c].employee \in DOMAIN staff /\ call[c].employee \in Employees
  BY <1>1 DEF CallFits, AtWork, BaseInv, Types, StaffFits
<1>3. QueueFits(queue') /\ Precedes(queue, queue') /\ DOMAIN queue' = DOMAIN queue
  <2>1. Grown(queue[t], Failed(queue[t], Failure(status)))
    BY <1>1, FinishGrows DEF Fail
  <2>2. queue' = [queue EXCEPT ![t] = Failed(queue[t], Failure(status))]
    BY DEF Fail
  <2> QED BY <1>1, <2>1, <2>2, QueueGrows DEF BaseInv, Types
<1>4. StaffFits(staff') /\ DOMAIN staff' = DOMAIN staff
  BY <1>2, ReleasedFits DEF Fail, BaseInv, Types
<1>5. q \in CallRecs /\ q.task = t /\ q.pc = "failed" /\ q.employee = call[c].employee
  BY <1>1, <1>2 DEF CallRecs, Pcs
<1>6. Await(c, q) /\ UNCHANGED <<nodes, saving, poisoned, stored, executions, overlapped>>
  BY DEF Fail
<1> HIDE DEF q
<1>7. overlapped' \in BOOLEAN
  BY <1>6 DEF BaseInv, Types
<1> QED BY <1>1, <1>2, <1>3, <1>4, <1>5, <1>6, <1>7, AwaitingMoves

\* Where a call stands that gets to the catch block.
LEMMA CaughtIs ==
  ASSUME BaseInv, NEW c \in Calls, Caught(c)
  PROVE  /\ Active(c) /\ call[c] \in CallRecs /\ call[c].saved # "waiting"
         /\ call[c].pc \in {"executing", "completed", "failed", "requeued"}
         /\ call[c].task \in DOMAIN queue /\ TaskFits(queue[call[c].task])
         /\ call[c].employee \in DOMAIN staff /\ call[c].employee \in Employees
<1>1. \E pc \in {"executing", "completed", "failed", "requeued"}, saved \in {"done", "failed"} :
        At(c, pc, saved)
  BY DEF Caught
<1>2. PICK pc \in Pcs, saved \in {"done", "failed"} :
        At(c, pc, saved) /\ pc \in {"executing", "completed", "failed", "requeued"}
  BY <1>1 DEF Pcs
<1>3. /\ Active(c) /\ call[c] \in CallRecs /\ CallFits(c) /\ call[c].pc = pc
      /\ call[c].saved = saved /\ call[c].task \in DOMAIN queue
      /\ TaskFits(queue[call[c].task])
  BY <1>2, AtIs DEF BaseInv
<1> QED BY <1>2, <1>3 DEF CallFits, AtWork, BaseInv, Types, StaffFits

LEMMA CaughtMoves ==
  ASSUME BaseInv, NEW c \in Calls, Caught(c)
  PROVE  CallMoves(c)
<1> DEFINE t == call[c].task
           q == [call[c] EXCEPT !.pc = "caughtFailed", !.employee = Nobody,
                                !.outcome = "none", !.tried = @ \cup {call[c].employee}]
<1>1. /\ Active(c) /\ call[c] \in CallRecs /\ call[c].saved # "waiting"
      /\ t \in DOMAIN queue /\ TaskFits(queue[t])
      /\ call[c].employee \in DOMAIN staff /\ call[c].employee \in Employees
  BY CaughtIs
<1>2. UNCHANGED <<nodes, saving, poisoned, stored, executions, overlapped>>
  BY DEF Caught
<1>3. CASE CanFinish(queue[t])
  <2>1. /\ queue' = [queue EXCEPT ![t] = Failed(queue[t], Failure("retriable"))]
        /\ staff' = Released(call[c].employee, t, FALSE) /\ Await(c, q)
    BY <1>3 DEF Caught, Catch
  <2>2. Grown(queue[t], Failed(queue[t], Failure("retriable")))
    BY <1>1, <1>3, FinishGrows DEF Failures
  <2>3. QueueFits(queue') /\ Precedes(queue, queue') /\ DOMAIN queue' = DOMAIN queue
    <3>1. PICK r : r = Failed(queue[t], Failure("retriable"))
      OBVIOUS
    <3>2. queue' = [queue EXCEPT ![t] = r] /\ Grown(queue[t], r) /\ t \in DOMAIN queue /\ QueueFits(queue)
      BY <1>1, <2>1, <2>2, <3>1 DEF BaseInv, Types
    <3> QED BY <3>2, QueueGrows
  <2>4. StaffFits(staff') /\ DOMAIN staff' = DOMAIN staff
    BY <1>1, <2>1, ReleasedFits DEF BaseInv, Types
  <2>5. q \in CallRecs /\ q.task = t /\ q.pc = "caughtFailed"
    BY <1>1 DEF CallRecs, Pcs
  <2>6. Await(c, q)
    BY <2>1
  <2> HIDE DEF q
  <2>7. overlapped' \in BOOLEAN
    BY <1>2 DEF BaseInv, Types
  <2> QED BY <1>1, <1>2, <2>3, <2>4, <2>5, <2>6, <2>7, AwaitingMoves DEF AtWork
<1>4. CASE ~CanFinish(queue[t])
  <2>1. call' = [call EXCEPT ![c] = Idle] /\ UNCHANGED <<chain, queue, staff>>
    BY <1>4 DEF Caught, Catch, Throw
  <2> QED BY <1>1, <1>2, <2>1, LeavingMoves, QueueStays
<1> QED BY <1>3, <1>4

LEMMA RequeueIs ==
  ASSUME BaseInv, NEW c \in Calls, Requeue(c)
  PROVE  /\ Active(c) /\ call[c] \in CallRecs /\ call[c].saved = "done" /\ CallFits(c)
         /\ call[c].pc \in {"failed", "caughtFailed"}
         /\ call[c].task \in DOMAIN queue /\ TaskFits(queue[call[c].task])
<1>1. PICK pc \in {"failed", "caughtFailed"} : At(c, pc, "done")
  BY DEF Requeue
<1>2. pc \in Pcs
  BY DEF Pcs
<1> QED BY <1>1, <1>2, AtIs DEF BaseInv

LEMMA RequeueMoves ==
  ASSUME BaseInv, NEW c \in Calls, Requeue(c)
  PROVE  CallMoves(c)
<1> DEFINE t  == call[c].task
           pc == IF call[c].pc = "failed" THEN "requeued" ELSE "caughtRequeued"
           q  == [call[c] EXCEPT !.pc = pc, !.outcome = "none"]
<1>1. /\ Active(c) /\ call[c] \in CallRecs /\ call[c].saved = "done" /\ CallFits(c)
      /\ call[c].pc \in {"failed", "caughtFailed"}
      /\ t \in DOMAIN queue /\ TaskFits(queue[t])
  BY RequeueIs
<1>2. QueueFits(queue') /\ Precedes(queue, queue') /\ DOMAIN queue' = DOMAIN queue
  <2>1. Grown(queue[t], Requeued(queue[t]))
    BY <1>1, RequeueGrows DEF Requeue
  <2>2. queue' = [queue EXCEPT ![t] = Requeued(queue[t])]
    BY DEF Requeue
  <2> QED BY <1>1, <2>1, <2>2, QueueGrows DEF BaseInv, Types
<1>3. Await(c, q) /\ UNCHANGED <<nodes, staff, saving, poisoned, stored, executions, overlapped>>
  BY DEF Requeue
<1>4. q \in CallRecs /\ q.task = t /\ q.pc = pc /\ q.employee = call[c].employee
  BY <1>1 DEF CallRecs, Pcs
<1>5. q.pc \in AtWork => q.employee \in DOMAIN staff
  BY <1>1, <1>4 DEF CallFits, AtWork
<1>6. q.pc # "executing"
  BY <1>4
<1> HIDE DEF q
<1>7. overlapped' \in BOOLEAN /\ StaffFits(staff') /\ DOMAIN staff' = DOMAIN staff
  BY <1>3 DEF BaseInv, Types
<1> QED BY <1>1, <1>2, <1>3, <1>4, <1>5, <1>6, <1>7, AwaitingMoves

\* Every step of a call is one of these.
LEMMA StepMoves ==
  ASSUME BaseInv, NEW c \in Calls, Step(c)
  PROVE  CallMoves(c)
BY AnswerMoves, AssignMoves, AssignFailsMoves, ExecuteMoves, CompleteMoves, FailMoves,
   CaughtMoves, RequeueMoves DEF Step

-----------------------------------------------------------------------------
(***************************************************************************)
(* The other steps.                                                        *)
(***************************************************************************)
LEMMA InitBase == Init => BaseInv
<1> SUFFICES ASSUME Init PROVE BaseInv
  OBVIOUS
<1>1. QueueFits(queue) /\ DOMAIN queue = {}
  BY DEF Init, QueueFits
<1>2. StaffFits(staff)
  BY DEF Init, StaffFits
<1>3. nodes \in [Nodes -> Health]
  BY DEF Init, Health
<1>4. stored = [queue |-> queue, nodes |-> nodes, staff |-> staff]
  BY DEF Init, Snapshot
<1>5. SnapFits(stored) /\ stored.queue = queue
  BY <1>1, <1>2, <1>3, <1>4 DEF SnapFits
<1>6. \A c \in Calls : ~Active(c)
  BY DEF Init, Active
<1>7. /\ call \in [Calls -> CallRecs \cup {Idle}] /\ executions \in [Tasks -> Nat]
      /\ poisoned = FALSE /\ overlapped = FALSE /\ saving = None /\ chain = << >>
  BY DEF Init
<1>8. chain \in Seq(Calls \cup {Controller}) /\ DOMAIN chain = {}
  BY <1>7
<1>9. Types
  BY <1>1, <1>2, <1>3, <1>5, <1>6, <1>7, <1>8 DEF Types, CallFits
<1>10. ChainFits
  BY <1>6, <1>7, <1>8 DEF ChainFits, Chains, InLine, Once
<1>11. InOrder
  BY <1>1, <1>5, <1>7, PrecedesItself DEF InOrder
<1> QED BY <1>9, <1>10, <1>11 DEF BaseInv

\* A change of the registry is checkpointed by the controller.
RegistryMoves ==
  /\ UNCHANGED <<queue, call, saving, poisoned, stored, executions, overlapped, stranded, returned>>
  /\ chain' = Chained(Controller)
  /\ nodes' \in [Nodes -> Health] /\ StaffFits(staff') /\ DOMAIN staff \subseteq DOMAIN staff'

LEMMA RegistryKeepsChain ==
  ASSUME BaseInv, RegistryMoves
  PROVE  /\ ChainFits' /\ chain' \in Seq(Calls \cup {Controller})
         /\ saving # None => Head(chain') = Head(chain)
<1>1. chain \in Seq(Calls \cup {Controller})
  BY DEF BaseInv, Types
<1>2. CASE chain' = chain
  BY <1>1, <1>2 DEF RegistryMoves, BaseInv, ChainFits, Chains, Active
<1>3. CASE ~poisoned /\ chain' = Append(chain, Controller)
  <2>1. /\ chain' \in Seq(Calls \cup {Controller}) /\ chain' # << >> /\ Once(chain', Calls)
        /\ \A d : InLine(chain', d) <=> InLine(chain, d) \/ d = Controller
        /\ chain # << >> => Head(chain') = Head(chain)
    BY <1>1, <1>3, ControllerIsNoCall, Appended DEF BaseInv, ChainFits
  <2>2. \A d \in Calls : Chains(d)' <=> Chains(d)
    BY <2>1, ControllerIsNoCall DEF Chains
  <2>3. ChainFits'
    BY <1>3, <2>1, <2>2 DEF RegistryMoves, BaseInv, ChainFits, Active
  <2> QED BY <2>1, <2>3 DEF BaseInv, ChainFits
<1> QED BY <1>2, <1>3 DEF RegistryMoves, Chained, BaseInv, Types

LEMMA RegistryKeeps == ASSUME BaseInv, RegistryMoves PROVE BaseInv'
<1>1. ChainFits' /\ chain' \in Seq(Calls \cup {Controller})
  BY RegistryKeepsChain
<1>2. \A d \in Calls : CallFits(d)'
  BY CallsStayFit DEF RegistryMoves, BaseInv, Types
<1>3. Types'
  BY <1>1, <1>2 DEF RegistryMoves, BaseInv, Types
<1>4. InOrder'
  BY DEF RegistryMoves, BaseInv, InOrder
<1> QED BY <1>1, <1>3, <1>4 DEF BaseInv

LEMMA RegisterMoves ==
  ASSUME BaseInv, NEW e \in Employees, RegisterEmployee(e)
  PROVE  RegistryMoves
<1> DEFINE s == [active |-> 0, current |-> {}, availability |-> "idle"]
<1>1. s \in StaffRecs
  BY DEF StaffRecs
<1>2. staff' = Put(staff, e, s)
  BY DEF RegisterEmployee
<1> HIDE DEF s
<1>3. StaffFits(staff') /\ DOMAIN staff \subseteq DOMAIN staff'
  BY <1>1, <1>2 DEF Put, StaffFits, BaseInv, Types
<1> QED BY <1>3 DEF RegisterEmployee, RegistryMoves, BaseInv, Types

LEMMA HeartbeatMoves ==
  ASSUME BaseInv, NEW n \in Nodes, NEW status \in Health, Heartbeat(n, status)
  PROVE  RegistryMoves /\ DOMAIN staff' = DOMAIN staff
                       /\ \A e \in DOMAIN staff : staff'[e].active = staff[e].active
<1>1. /\ DOMAIN staff' = DOMAIN staff
      /\ \A e \in DOMAIN staff : \E a \in {"idle", "busy", "degraded", "offline"} :
           staff'[e] = [staff[e] EXCEPT !.availability = a]
  <2>1. \A e \in DOMAIN staff : staff[e] \in StaffRecs
    BY DEF BaseInv, Types, StaffFits
  <2>2. \A e \in DOMAIN staff :
          /\ staff[e].availability \in {"idle", "busy", "degraded", "offline"}
          /\ staff[e] = [staff[e] EXCEPT !.availability = staff[e].availability]
    BY <2>1 DEF StaffRecs
  <2>3. ASSUME NEW e \in DOMAIN staff
        PROVE  \E a \in {"idle", "busy", "degraded", "offline"} :
                 staff'[e] = [staff[e] EXCEPT !.availability = a]
    <3>1. staff'[e] = staff[e] \/ \E a \in {"offline", "degraded", "idle"} :
            staff'[e] = [staff[e] EXCEPT !.availability = a]
      BY <2>3 DEF Heartbeat
    <3> QED BY <2>2, <3>1
  <2>4. DOMAIN staff' = DOMAIN staff
    BY DEF Heartbeat
  <2> QED BY <2>3, <2>4
<1>2. \A e \in DOMAIN staff : staff[e] \in StaffRecs
  BY DEF BaseInv, Types, StaffFits
<1>3. \A e \in DOMAIN staff : staff'[e] \in StaffRecs /\ staff'[e].active = staff[e].active
  BY <1>1, <1>2 DEF StaffRecs
<1>4. StaffFits(staff')
  <2>1. staff' = [e \in DOMAIN staff' |-> staff'[e]]
    BY DEF Heartbeat
  <2> QED BY <1>1, <1>3, <2>1 DEF StaffFits, BaseInv, Types
<1>5. nodes' \in [Nodes -> Health]
  BY DEF Heartbeat, BaseInv, Types
<1> QED BY <1>1, <1>3, <1>4, <1>5 DEF Heartbeat, RegistryMoves

\* The snapshot that is saved is that of the moment.
LEMMA SnapshotFits ==
  ASSUME BaseInv
  PROVE  /\ SnapFits(Snapshot) /\ Snapshot # None /\ Snapshot.queue = queue
         /\ Snapshot.staff = staff /\ Snapshot.nodes = nodes
<1>1. Snapshot # None
  <2>1. DOMAIN Snapshot # {} /\ DOMAIN None = {}
    BY DEF Snapshot, None
  <2> QED BY <2>1
<1> QED BY <1>1 DEF Snapshot, SnapFits, BaseInv, Types

LEMMA SaveBeginsKeeps == ASSUME BaseInv, SaveBegins PROVE BaseInv'
<1>1. /\ UNCHANGED <<queue, nodes, staff, call, chain, poisoned, stored, executions, overlapped>>
      /\ chain # << >> /\ saving' = Snapshot
  BY DEF SaveBegins
<1>2. Types'
  BY <1>1, SnapshotFits DEF BaseInv, Types, CallFits, Active
<1>3. ChainFits'
  BY <1>1 DEF BaseInv, ChainFits, Chains, Active
<1>4. InOrder'
  BY <1>1, SnapshotFits, PrecedesItself DEF BaseInv, InOrder, Types
<1> QED BY <1>2, <1>3, <1>4 DEF BaseInv

\* A call is told how its checkpoint ended, and otherwise left alone.
Told(d) ==
  /\ Active(d)' <=> Active(d)
  /\ Active(d) => /\ call'[d] \in CallRecs /\ call'[d].pc = call[d].pc
                  /\ call'[d].task = call[d].task /\ call'[d].employee = call[d].employee
                  /\ call'[d].answer = call[d].answer
                  /\ \/ call'[d] = call[d]
                     \/ call[d].saved = "waiting" /\ call'[d].saved # "waiting"
  /\ ~Active(d) => call'[d] = call[d]

LEMMA MarkedIsTold ==
  ASSUME Types, NEW d \in Calls, Active(d), call[d].saved = "waiting",
         NEW s \in {"done", "failed"}, call'[d] = [call[d] EXCEPT !.saved = s]
  PROVE  Told(d) /\ call'[d].saved = s
<1>1. call[d] \in CallRecs
  BY DEF Types, Active
<1>2. /\ call'[d] \in CallRecs /\ call'[d].pc = call[d].pc
      /\ call'[d].task = call[d].task /\ call'[d].employee = call[d].employee
      /\ call'[d].answer = call[d].answer /\ call'[d].saved = s
  BY <1>1 DEF CallRecs
<1>3. Active(d)'
  BY <1>2, IdleIsNoCall DEF Active
<1> QED BY <1>2, <1>3 DEF Told

LEMMA LeftIsTold ==
  ASSUME Types, NEW d \in Calls, call'[d] = call[d]
  PROVE  Told(d)
BY DEF Told, Active, Types

LEMMA ToldFits ==
  ASSUME Types, NEW d \in Calls, Told(d),
         DOMAIN queue \subseteq DOMAIN queue', DOMAIN staff \subseteq DOMAIN staff'
  PROVE  CallFits(d)' /\ call'[d] \in CallRecs \cup {Idle}
<1>1. CASE Active(d)
  <2>1. CallFits(d)
    BY DEF Types
  <2>2. call[d].saved = "waiting" => call[d].pc # "executing"
    BY <1>1, <2>1 DEF CallFits
  <2> QED BY <1>1, <2>1, <2>2 DEF Told, CallFits
<1>2. CASE ~Active(d)
  BY <1>2 DEF Told, CallFits, Active
<1> QED BY <1>1, <1>2

\* The first of the chain is told that its snapshot is stored.
LEMMA SaveEndsTells ==
  ASSUME BaseInv, SaveEnds
  PROVE  /\ chain \in Seq(Calls \cup {Controller}) /\ chain # << >>
         /\ chain' \in Seq(Calls \cup {Controller})
         /\ \A d \in Calls : Told(d)
         /\ \A d \in Calls : /\ d # Head(chain) => call'[d] = call[d]
                             /\ d = Head(chain) => /\ Active(d) /\ call[d].saved = "waiting"
                                                   /\ call'[d].saved = "done"
         /\ \A d \in Calls : Chains(d)' <=> Chains(d) /\ d # Head(chain)
         /\ ChainFits'
<1>1. /\ chain \in Seq(Calls \cup {Controller}) /\ chain # << >> /\ Once(chain, Calls)
      /\ chain' = Tail(chain)
  BY DEF SaveEnds, BaseInv, ChainFits, Types
<1>2. /\ chain' \in Seq(Calls \cup {Controller}) /\ Once(chain', Calls)
      /\ InLine(chain, Head(chain))
      /\ \A d \in Calls : InLine(chain', d) <=> InLine(chain, d) /\ d # Head(chain)
  BY <1>1, Removed
<1>3. \A d \in Calls : Chains(d)' <=> Chains(d) /\ d # Head(chain)
  BY <1>2 DEF Chains
<1>4. ASSUME NEW d \in Calls
      PROVE  /\ Told(d)
             /\ d # Head(chain) => call'[d] = call[d]
             /\ d = Head(chain) => /\ Active(d) /\ call[d].saved = "waiting"
                                   /\ call'[d].saved = "done"
  <2>1. CASE d # Head(chain)
    <3>1. call'[d] = call[d]
      BY <2>1 DEF SaveEnds
    <3> QED BY <2>1, <3>1, LeftIsTold DEF BaseInv
  <2>2. CASE d = Head(chain)
    <3>1. Active(d) /\ call[d].saved = "waiting"
      BY <1>2, <2>2 DEF BaseInv, ChainFits, Chains
    <3>2. call'[d] = [call[d] EXCEPT !.saved = "done"]
      BY <2>2 DEF SaveEnds
    <3> QED BY <2>2, <3>1, <3>2, MarkedIsTold DEF BaseInv
  <2> QED BY <2>1, <2>2
<1>5. ASSUME NEW d \in Calls
      PROVE  Active(d)' /\ call'[d].saved = "waiting" <=> Chains(d)'
  <2>1. CASE d = Head(chain)
    BY <1>3, <1>4, <2>1
  <2>2. CASE d # Head(chain)
    BY <1>3, <1>4, <2>2 DEF BaseInv, ChainFits, Told
  <2> QED BY <2>1, <2>2
<1>6. poisoned' = FALSE /\ saving' = None
  BY <1>1 DEF SaveEnds, BaseInv, ChainFits, Types
<1>7. ChainFits'
  BY <1>2, <1>5, <1>6 DEF ChainFits
<1> QED BY <1>1, <1>2, <1>3, <1>4, <1>7

\* All of the chain are told that theirs is not.
LEMMA SaveFailsTells ==
  ASSUME BaseInv, SaveFails
  PROVE  /\ \A d \in Calls : Told(d)
         /\ \A d \in Calls : /\ ~Chains(d) => call'[d] = call[d]
                             /\ Chains(d) => Active(d) /\ call'[d].saved = "failed"
         /\ ChainFits'
<1>1. ASSUME NEW d \in Calls
      PROVE  /\ Told(d) /\ (~Chains(d) => call'[d] = call[d])
             /\ Chains(d) => Active(d) /\ call'[d].saved = "failed"
  <2>1. d \in {chain[i] : i \in DOMAIN chain} <=> Chains(d)
    BY DEF Chains, InLine
  <2>2. CASE ~Chains(d)
    <3>1. call'[d] = call[d]
      BY <2>1, <2>2 DEF SaveFails
    <3> QED BY <2>2, <3>1, LeftIsTold DEF BaseInv
  <2>3. CASE Chains(d)
    <3>1. Active(d) /\ call[d].saved = "waiting"
      BY <2>3 DEF BaseInv, ChainFits
    <3>2. call'[d] = [call[d] EXCEPT !.saved = "failed"]
      BY <2>1, <2>3 DEF SaveFails
    <3> QED BY <2>3, <3>1, <3>2, MarkedIsTold DEF BaseInv
  <2> QED BY <2>2, <2>3
<1>2. chain' = << >> /\ DOMAIN chain' = {} /\ saving' = None
  BY DEF SaveFails
<1>3. \A d \in Calls : ~(Active(d)' /\ call'[d].saved = "waiting") /\ ~Chains(d)'
  BY <1>1, <1>2 DEF Chains, InLine, BaseInv, ChainFits, Told
<1>4. ChainFits'
  BY <1>2, <1>3 DEF ChainFits, Once
<1> QED BY <1>1, <1>4

LEMMA SaveEndsKeeps == ASSUME BaseInv, SaveEnds PROVE BaseInv'
<1>1. /\ UNCHANGED <<queue, nodes, staff, poisoned, executions, overlapped>>
      /\ stored' = saving /\ saving # None /\ saving' = None
  BY DEF SaveEnds
<1>2. /\ ChainFits' /\ chain' \in Seq(Calls \cup {Controller})
      /\ \A d \in Calls : Told(d)
  BY SaveEndsTells
<1>3. \A d \in Calls : CallFits(d)' /\ call'[d] \in CallRecs \cup {Idle}
  BY <1>1, <1>2, ToldFits DEF BaseInv
<1>4. call' \in [Calls -> CallRecs \cup {Idle}]
  BY <1>3 DEF SaveEnds
<1>5. Types'
  BY <1>1, <1>2, <1>3, <1>4 DEF BaseInv, Types
<1>6. InOrder'
  BY <1>1 DEF BaseInv, InOrder
<1> QED BY <1>2, <1>5, <1>6 DEF BaseInv

LEMMA SaveFailsKeeps == ASSUME BaseInv, SaveFails PROVE BaseInv'
<1>1. /\ UNCHANGED <<queue, nodes, staff, executions, overlapped>>
      /\ stored' \in {stored, saving} /\ saving # None /\ saving' = None
      /\ poisoned' = TRUE /\ chain' = << >>
  BY DEF SaveFails
<1>2. ChainFits' /\ \A d \in Calls : Told(d)
  BY SaveFailsTells
<1>3. \A d \in Calls : CallFits(d)' /\ call'[d] \in CallRecs \cup {Idle}
  BY <1>1, <1>2, ToldFits DEF BaseInv
<1>4. call' \in [Calls -> CallRecs \cup {Idle}]
  BY <1>3 DEF SaveFails
<1>5. chain' \in Seq(Calls \cup {Controller})
  BY <1>1
<1>6. Types'
  BY <1>1, <1>3, <1>4, <1>5 DEF BaseInv, Types
<1>7. InOrder'
  BY <1>1 DEF BaseInv, InOrder
<1> QED BY <1>2, <1>6, <1>7 DEF BaseInv

LEMMA RestartRecovers ==
  ASSUME BaseInv, Restart
  PROVE  /\ DOMAIN queue' = DOMAIN stored.queue /\ QueueFits(queue')
         /\ Precedes(stored.queue, queue')
         /\ \A t \in DOMAIN stored.queue : TaskFits(stored.queue[t])
                                           /\ queue'[t] = Recovered(stored.queue[t])
BY QueueRecovers DEF Restart, BaseInv, Types, SnapFits

LEMMA RestartKeeps == ASSUME BaseInv, Restart PROVE BaseInv'
<1>1. /\ stored' = stored /\ nodes' = stored.nodes /\ chain' = << >> /\ saving' = None
      /\ poisoned' = FALSE /\ overlapped' = FALSE /\ executions' = executions
      /\ call' = [c \in Calls |-> Idle]
  BY DEF Restart
<1>2. StaffFits(staff')
  <2> DEFINE g(e) == [active |-> 0, current |-> {},
                      availability |-> IF stored.nodes[NodeOf[e]] \in {"offline", "degraded"}
                                       THEN stored.nodes[NodeOf[e]] ELSE "idle"]
  <2>1. \A e : g(e) \in StaffRecs
    BY DEF StaffRecs
  <2>2. staff' = [e \in DOMAIN stored.staff |-> g(e)]
    BY DEF Restart
  <2> HIDE DEF g
  <2>3. DOMAIN stored.staff \subseteq Employees
    BY DEF BaseInv, Types, SnapFits, StaffFits
  <2> QED BY <2>1, <2>2, <2>3 DEF StaffFits
<1>3. \A d \in Calls : ~Active(d)'
  BY <1>1 DEF Active
<1>4. chain' \in Seq(Calls \cup {Controller}) /\ DOMAIN chain' = {}
  BY <1>1
<1>5. call' \in [Calls -> CallRecs \cup {Idle}] /\ nodes' \in [Nodes -> Health]
      /\ executions' \in [Tasks -> Nat]
  BY <1>1 DEF BaseInv, Types, SnapFits
<1>6. Types'
  BY <1>1, <1>2, <1>3, <1>4, <1>5, RestartRecovers DEF BaseInv, Types, CallFits, SnapFits
<1>7. ChainFits'
  BY <1>1, <1>3, <1>4 DEF ChainFits, Chains, InLine, Once
<1>8. InOrder'
  BY <1>1, RestartRecovers DEF InOrder
<1> QED BY <1>6, <1>7, <1>8 DEF BaseInv

LEMMA BaseKept == BaseInv /\ [Next]_vars => BaseInv'
<1> SUFFICES ASSUME BaseInv, [Next]_vars PROVE BaseInv'
  OBVIOUS
<1>1. ASSUME NEW c \in Calls, Step(c) PROVE BaseInv'
  BY <1>1, StepMoves, CallMovesKeeps
<1>2. ASSUME NEW c \in Calls, NEW t \in Tasks, Invoke(c, t) PROVE BaseInv'
  BY <1>2, InvokeMoves, CallMovesKeeps
<1>3. ASSUME NEW e \in Employees, RegisterEmployee(e) PROVE BaseInv'
  BY <1>3, RegisterMoves, RegistryKeeps
<1>4. ASSUME NEW n \in Nodes, NEW status \in Health, Heartbeat(n, status) PROVE BaseInv'
  BY <1>4, HeartbeatMoves, RegistryKeeps
<1>5. CASE SaveBegins \/ SaveEnds \/ SaveFails \/ Restart
  BY <1>5, SaveBeginsKeeps, SaveEndsKeeps, SaveFailsKeeps, RestartKeeps
<1>6. CASE UNCHANGED vars
  <2>1. UNCHANGED <<queue, nodes, staff, call, chain, saving, poisoned, stored, executions, overlapped>>
    BY <1>6 DEF vars
  <2>2. Types'
    BY <2>1 DEF BaseInv, Types, CallFits, Active
  <2>3. ChainFits' /\ InOrder'
    BY <2>1 DEF BaseInv, ChainFits, Chains, Active, InOrder
  <2> QED BY <2>2, <2>3 DEF BaseInv
<1> QED BY <1>1, <1>2, <1>3, <1>4, <1>5, <1>6 DEF Next, Health

\* A restart keeps what was stored as done, and takes nothing else for done.
THEOREM RestartStaysHonest == Spec => RestartIsHonest
<1>1. BaseInv /\ Restart =>
        \A t \in DOMAIN stored.queue :
          LET r == stored.queue[t] q == queue'[t] IN
          /\ q.attempts = r.attempts
          /\ r.stage \in {"completed", "failed"} => q.stage = r.stage /\ q.result = r.result
          /\ r.stage \in {"queued", "assigned", "running"} =>
               q.stage = IF r.attempts < MaxAttempts THEN "queued" ELSE "failed"
  BY RestartRecovers, RecoveredFits
<1> QED BY <1>1, InitBase, BaseKept, PTL DEF Spec, RestartIsHonest

-----------------------------------------------------------------------------
(***************************************************************************)
(* The attempts.                                                           *)
(***************************************************************************)
LEMMA SomeCalls ==
  ASSUME NEW S \in SUBSET Calls, NEW T \in SUBSET S
  PROVE  /\ Cardinality(S) \in Nat /\ Cardinality(T) \in Nat
         /\ Cardinality(T) <= Cardinality(S)
BY CallsAreFinite, FS_Subset, SomeOf

LEMMA OneCallLess ==
  ASSUME NEW S \in SUBSET Calls, NEW c \in S, NEW T \in SUBSET S, c \notin T
  PROVE  Cardinality(T) \in Nat /\ Cardinality(T) + 1 <= Cardinality(S)
BY CallsAreFinite, FS_Subset, OneLessOf

LEMMA OneCallMore ==
  ASSUME NEW S \in SUBSET Calls, NEW c \in Calls, NEW T \in SUBSET (S \cup {c})
  PROVE  Cardinality(S) \in Nat /\ Cardinality(T) \in Nat /\ Cardinality(T) <= Cardinality(S) + 1
BY CallsAreFinite, FS_Subset, OneMoreOf

LEMMA WhoIsPending ==
  ASSUME NEW t
  PROVE  /\ Pending(t) \in SUBSET Calls
         /\ Stored(t) \in SUBSET Pending(t) /\ Saved(t) \in SUBSET Pending(t)
         /\ Stored(t) \in SUBSET Saved(t)
BY DEF Pending, Stored, Saved

\* A call that was or gets at the wait before its adapter changes its set.
LEMMA OthersPend ==
  ASSUME BaseInv, NEW c \in Calls, CallMoves(c), NEW t
  PROVE  \A d \in Calls : d # c =>
           /\ d \in Pending(t)' <=> d \in Pending(t)
           /\ d \in Stored(t)' <=> d \in Stored(t)
           /\ saving # None => (d \in Saved(t)' <=> d \in Saved(t))
<1>1. PICK q \in CallRecs \cup {Idle} : Goes(c, q)
  BY DEF CallMoves
<1>2. saving # None => Head(chain') = Head(chain)
  BY <1>1, GoesKeepsChain DEF CallMoves, BaseInv
<1>3. \A d \in Calls : d # c => call'[d] = call[d]
  BY <1>1 DEF Goes, BaseInv, Types
<1> QED BY <1>2, <1>3 DEF Pending, Stored, Saved, Active

LEMMA QuietCallSpends ==
  ASSUME BaseInv, SpentInv, NEW c \in Calls, CallMoves(c), executions' = executions,
         Active(c)' => call'[c].pc # "started"
  PROVE  SpentInv'
<1> SUFFICES ASSUME NEW t \in Tasks PROVE Spent(t)'
  BY DEF SpentInv
<1>1. c \notin Pending(t)'
  BY DEF Pending
<1>2. /\ Pending(t)' \in SUBSET Pending(t) /\ Stored(t)' \in SUBSET Stored(t)
      /\ saving # None => Saved(t)' \in SUBSET Saved(t)
  <2>1. \A d \in Calls : d # c =>
           /\ d \in Pending(t)' <=> d \in Pending(t)
           /\ d \in Stored(t)' <=> d \in Stored(t)
           /\ saving # None => (d \in Saved(t)' <=> d \in Saved(t))
    BY OthersPend
  <2>2. Pending(t)' \subseteq Calls /\ Stored(t)' \subseteq Pending(t)' /\ Saved(t)' \subseteq Pending(t)'
    BY DEF Pending, Stored, Saved
  <2> QED BY <1>1, <2>1, <2>2
<1>3. /\ Cardinality(Pending(t)') <= Cardinality(Pending(t))
      /\ Cardinality(Stored(t)') <= Cardinality(Stored(t))
      /\ saving # None => Cardinality(Saved(t)') <= Cardinality(Saved(t)) /\ Cardinality(Saved(t)) \in Nat /\ Cardinality(Saved(t)') \in Nat
      /\ Cardinality(Pending(t)) \in Nat /\ Cardinality(Stored(t)) \in Nat
      /\ Cardinality(Pending(t)') \in Nat /\ Cardinality(Stored(t)') \in Nat
  <2>1. Pending(t) \in SUBSET Calls /\ Stored(t) \in SUBSET Calls /\ Saved(t) \in SUBSET Calls
    BY WhoIsPending
  <2> QED BY <1>2, <2>1, SomeCalls
<1>4. Attempts(queue, t) <= Attempts(queue', t) /\ Attempts(queue, t) \in Nat /\ Attempts(queue', t) \in Nat
  BY AttemptsGrow DEF CallMoves, BaseInv, Types
<1>5. executions[t] \in Nat /\ stored' = stored /\ saving' = saving
  BY DEF BaseInv, Types, CallMoves
<1>6. Attempts(stored.queue, t) \in Nat /\ (saving # None => Attempts(saving.queue, t) \in Nat)
  BY MaxAttemptsIsPositive DEF Attempts, BaseInv, Types, SnapFits, QueueFits, Records
<1>7. Spent(t)
  BY DEF SpentInv
<1> HIDE DEF SpentInv
<1> QED BY <1>3, <1>4, <1>5, <1>6, <1>7 DEF Spent

LEMMA AssignSpends ==
  ASSUME BaseInv, SpentInv, NEW c \in Calls, NEW e \in Employees, Assign(c, e)
  PROVE  SpentInv'
<1> SUFFICES ASSUME NEW t \in Tasks PROVE Spent(t)'
  BY DEF SpentInv
<1> DEFINE u == call[c].task
<1>1. CallMoves(c)
  BY AssignMoves
<1>2. /\ Active(c) /\ call[c] \in CallRecs /\ call[c].pc \in {"enqueued", "requeued", "caughtRequeued"}
      /\ u \in DOMAIN queue /\ TaskFits(queue[u])
  BY AtLoopIs DEF Assign, BaseInv
<1>3. PICK q \in CallRecs : /\ Goes(c, q) /\ q.pc = "started" /\ q.task = u /\ q.saved # "done"
  <2> DEFINE p == [call[c] EXCEPT !.pc = "started", !.employee = e]
             r == [p EXCEPT !.saved = IF poisoned THEN "failed" ELSE "waiting"]
  <2>0. e \in Employees
    OBVIOUS
  <2>1. p \in CallRecs /\ p.pc = "started" /\ p.task = u
    BY <1>2 DEF CallRecs, Pcs
  <2>2. Await(c, p)
    BY DEF Assign
  <2> HIDE DEF p
  <2>3. r \in CallRecs /\ Goes(c, r)
    BY <2>1, <2>2, Asks DEF BaseInv, Types
  <2>4. r.pc = "started" /\ r.task = u /\ r.saved # "done"
    BY <2>1 DEF CallRecs
  <2> QED BY <2>3, <2>4
<1>4. call'[c] = q /\ Active(c)' /\ (saving # None => Head(chain') # c)
  <2>1. call'[c] = q
    BY <1>3 DEF Goes, BaseInv, Types
  <2>2. saving # None => Head(chain') = Head(chain) /\ Head(chain) # c
    BY <1>1, <1>3, GoesKeepsChain DEF CallMoves, BaseInv
  <2> QED BY <2>1, <2>2, IdleIsNoCall DEF Active
<1>5. c \notin Stored(t)' /\ (saving # None => c \notin Saved(t)') /\ c \notin Pending(t)
      /\ (t # u => c \notin Pending(t)')
  BY <1>2, <1>3, <1>4 DEF Stored, Saved, Pending
<1>6. \A d \in Calls : d # c =>
           /\ d \in Pending(t)' <=> d \in Pending(t)
           /\ d \in Stored(t)' <=> d \in Stored(t)
           /\ saving # None => (d \in Saved(t)' <=> d \in Saved(t))
  BY <1>1, OthersPend
<1>7. /\ Pending(t)' \in SUBSET (Pending(t) \cup {c}) /\ (t # u => Pending(t)' \in SUBSET Pending(t))
      /\ Stored(t)' \in SUBSET Stored(t)
      /\ saving # None => Saved(t)' \in SUBSET Saved(t)
  <2>1. Pending(t)' \subseteq Calls /\ Stored(t)' \subseteq Calls /\ Saved(t)' \subseteq Calls
    BY DEF Pending, Stored, Saved
  <2> QED BY <1>5, <1>6, <2>1
<1>8. Pending(t) \in SUBSET Calls /\ Stored(t) \in SUBSET Calls /\ Saved(t) \in SUBSET Calls
  BY WhoIsPending
<1>9. /\ Cardinality(Stored(t)') \in Nat /\ Cardinality(Stored(t)) \in Nat
      /\ Cardinality(Stored(t)') <= Cardinality(Stored(t))
      /\ saving # None => /\ Cardinality(Saved(t)') \in Nat /\ Cardinality(Saved(t)) \in Nat
                          /\ Cardinality(Saved(t)') <= Cardinality(Saved(t))
  BY <1>7, <1>8, SomeCalls
<1>10. /\ Cardinality(Pending(t)') \in Nat /\ Cardinality(Pending(t)) \in Nat
       /\ Cardinality(Pending(t)') <= Cardinality(Pending(t)) + 1
       /\ t # u => Cardinality(Pending(t)') <= Cardinality(Pending(t))
  BY <1>7, <1>8, SomeCalls, OneCallMore
<1>11. /\ Attempts(queue, t) \in Nat /\ Attempts(queue', t) \in Nat
       /\ Attempts(queue, t) <= Attempts(queue', t)
       /\ t = u => Attempts(queue', t) = Attempts(queue, t) + 1
  <2>1. Attempts(queue, t) <= Attempts(queue', t) /\ Attempts(queue, t) \in Nat /\ Attempts(queue', t) \in Nat
    BY <1>1, AttemptsGrow DEF CallMoves, BaseInv, Types
  <2>2. queue'[u] = Started(Assigned(queue[u])) /\ DOMAIN queue' = DOMAIN queue
    BY <1>2, AssignGrows, QueueGrows DEF Assign, BaseInv, Types
  <2>3. Started(Assigned(queue[u])).attempts = queue[u].attempts + 1
    BY <1>2, AssignGrows DEF Assign
  <2> QED BY <1>2, <2>1, <2>2, <2>3 DEF Attempts
<1>12. executions[t] \in Nat /\ stored' = stored /\ saving' = saving /\ executions' = executions
  BY DEF BaseInv, Types, Assign
<1>13. Attempts(stored.queue, t) \in Nat /\ (saving # None => Attempts(saving.queue, t) \in Nat)
  BY MaxAttemptsIsPositive DEF Attempts, BaseInv, Types, SnapFits, QueueFits, Records
<1>14. Spent(t)
  BY DEF SpentInv
<1> HIDE DEF SpentInv
<1>15. executions[t] + Cardinality(Pending(t)') <= Attempts(queue', t)
  BY <1>10, <1>11, <1>12, <1>14 DEF Spent
<1> QED BY <1>9, <1>12, <1>13, <1>14, <1>15 DEF Spent

LEMMA ExecuteSpends ==
  ASSUME BaseInv, SpentInv, NEW c \in Calls, Execute(c)
  PROVE  SpentInv'
<1> SUFFICES ASSUME NEW t \in Tasks PROVE Spent(t)'
  BY DEF SpentInv
<1> DEFINE u == call[c].task
<1>1. CallMoves(c)
  BY ExecuteMoves
<1>2. /\ Active(c) /\ call[c] \in CallRecs /\ call[c].pc = "started" /\ call[c].saved = "done"
      /\ u \in Tasks
  BY AtIs, CallIs DEF Execute, BaseInv, Pcs
<1>3. c \in Stored(u) /\ \A v : v # u => c \notin Pending(v)
  BY <1>2 DEF Stored, Pending
<1>4. call'[c].pc = "executing"
  <2>1. call' = [call EXCEPT ![c].pc = "executing"]
    BY DEF Execute
  <2>2. call \in [Calls -> CallRecs \cup {Idle}]
    BY DEF BaseInv, Types
  <2> QED BY <1>2, <2>1, <2>2 DEF CallRecs
<1>5. c \notin Pending(t)'
  BY <1>4 DEF Pending
<1>6. /\ Pending(t)' \in SUBSET Pending(t) /\ Stored(t)' \in SUBSET Stored(t)
      /\ saving # None => Saved(t)' \in SUBSET Saved(t)
      /\ c \notin Pending(t)' /\ c \notin Stored(t)' /\ c \notin Saved(t)'
  <2>1. \A d \in Calls : d # c =>
           /\ d \in Pending(t)' <=> d \in Pending(t)
           /\ d \in Stored(t)' <=> d \in Stored(t)
           /\ saving # None => (d \in Saved(t)' <=> d \in Saved(t))
    BY <1>1, OthersPend
  <2>2. Pending(t)' \subseteq Calls /\ Stored(t)' \subseteq Pending(t)' /\ Saved(t)' \subseteq Pending(t)'
    BY DEF Pending, Stored, Saved
  <2> QED BY <1>5, <2>1, <2>2
<1>7. /\ Pending(t) \in SUBSET Calls /\ Stored(t) \in SUBSET Calls /\ Saved(t) \in SUBSET Calls
      /\ Stored(t) \in SUBSET Pending(t) /\ Stored(t) \in SUBSET Saved(t)
  BY WhoIsPending
<1>8. /\ Attempts(queue', t) = Attempts(queue, t) /\ stored' = stored /\ saving' = saving
      /\ executions[t] \in Nat
      /\ executions'[t] = IF t = u THEN executions[t] + 1 ELSE executions[t]
  <2>1. executions' = [executions EXCEPT ![u] = executions[u] + 1]
    BY DEF Execute
  <2>2. executions \in [Tasks -> Nat]
    BY DEF BaseInv, Types
  <2>3. UNCHANGED <<queue, stored, saving>>
    BY DEF Execute
  <2> QED BY <1>2, <2>1, <2>2, <2>3 DEF Attempts
<1>9. Attempts(queue, t) \in Nat /\ Attempts(stored.queue, t) \in Nat
      /\ (saving # None => Attempts(saving.queue, t) \in Nat)
  BY MaxAttemptsIsPositive DEF Attempts, BaseInv, Types, SnapFits, QueueFits, Records
<1>10. Spent(t)
  BY DEF SpentInv
<1> HIDE DEF SpentInv
<1>11. CASE t = u
  <2>1. c \in Stored(t) /\ c \in Pending(t) /\ c \in Saved(t)
    BY <1>3, <1>7, <1>11
  <2>2. /\ Cardinality(Pending(t)') \in Nat /\ Cardinality(Pending(t)') + 1 <= Cardinality(Pending(t))
        /\ Cardinality(Stored(t)') \in Nat /\ Cardinality(Stored(t)') + 1 <= Cardinality(Stored(t))
        /\ saving # None => /\ Cardinality(Saved(t)') \in Nat
                            /\ Cardinality(Saved(t)') + 1 <= Cardinality(Saved(t))
    BY <1>6, <1>7, <2>1, OneCallLess
  <2>3. Cardinality(Pending(t)) \in Nat /\ Cardinality(Stored(t)) \in Nat /\ Cardinality(Saved(t)) \in Nat
    BY <1>7, SomeCalls
  <2> QED BY <1>8, <1>9, <1>10, <1>11, <2>2, <2>3 DEF Spent
<1>12. CASE t # u
  <2>1. /\ Cardinality(Pending(t)') \in Nat /\ Cardinality(Pending(t)') <= Cardinality(Pending(t))
        /\ Cardinality(Stored(t)') \in Nat /\ Cardinality(Stored(t)') <= Cardinality(Stored(t))
        /\ saving # None => /\ Cardinality(Saved(t)') \in Nat
                            /\ Cardinality(Saved(t)') <= Cardinality(Saved(t))
    BY <1>6, <1>7, SomeCalls
  <2>2. Cardinality(Pending(t)) \in Nat /\ Cardinality(Stored(t)) \in Nat /\ Cardinality(Saved(t)) \in Nat
    BY <1>7, SomeCalls
  <2> QED BY <1>8, <1>9, <1>10, <1>12, <2>1, <2>2 DEF Spent
<1> QED BY <1>11, <1>12

\* Where a call stands after a step that asks for a checkpoint.
LEMMA AwaitIs ==
  ASSUME BaseInv, NEW c \in Calls, NEW q \in CallRecs, Await(c, q)
  PROVE  /\ call'[c] \in CallRecs /\ Active(c)' /\ call'[c].pc = q.pc /\ call'[c].task = q.task
         /\ call'[c].employee = q.employee /\ call'[c].answer = q.answer
         /\ call'[c].saved \in {"waiting", "failed"}
         /\ \A d \in Calls : d # c => call'[d] = call[d]
<1> DEFINE r == [q EXCEPT !.saved = IF poisoned THEN "failed" ELSE "waiting"]
<1>1. /\ r \in CallRecs /\ r.pc = q.pc /\ r.task = q.task /\ r.employee = q.employee
      /\ r.answer = q.answer /\ r.saved \in {"waiting", "failed"}
  BY DEF CallRecs
<1>2. call' = [call EXCEPT ![c] = r]
  BY DEF Await
<1> HIDE DEF r
<1>3. call'[c] = r /\ \A d \in Calls : d # c => call'[d] = call[d]
  BY <1>2 DEF BaseInv, Types
<1> QED BY <1>1, <1>3, IdleIsNoCall DEF Active

LEMMA LeavingIs ==
  ASSUME BaseInv, NEW c \in Calls, call' = [call EXCEPT ![c] = Idle]
  PROVE  /\ ~Active(c)' /\ \A d \in Calls : d # c => call'[d] = call[d]
BY DEF BaseInv, Types, Active

\* The steps that leave the call waiting at the next place, or gone.
Ends(c)  == \/ AnswerFromRecord(c) \/ GiveUp(c) \/ ReturnCompleted(c) \/ ReturnFailed(c)
            \/ Rejected(c) \/ \E e \in Employees : AssignFails(c, e)
Settles(c) == \/ Complete(c) \/ Caught(c) \/ Requeue(c)
              \/ \E status \in Failures : Fail(c, status)

LEMMA StepIs ==
  ASSUME NEW c, Step(c)
  PROVE  \/ Ends(c) \/ Settles(c) \/ Execute(c)
         \/ \E e \in Employees : Assign(c, e)
BY DEF Step, Ends, Settles

LEMMA EndsIs ==
  ASSUME BaseInv, NEW c \in Calls, Ends(c)
  PROVE  /\ call' = [call EXCEPT ![c] = Idle] /\ executions' = executions
         /\ UNCHANGED <<nodes, staff, chain, overlapped>>
         /\ CallMoves(c)
<1>1. /\ call' = [call EXCEPT ![c] = Idle] /\ executions' = executions
      /\ UNCHANGED <<nodes, staff, chain, overlapped>>
  BY DEF Ends, AnswerFromRecord, GiveUp, ReturnCompleted, ReturnFailed, Rejected, AssignFails,
         Return, Throw
<1> QED BY <1>1, AnswerMoves, AssignFailsMoves DEF Ends

\* After such a step the call waits at pc, at the same task.
Waits(c, pc) ==
  /\ Active(c)' /\ call'[c] \in CallRecs /\ call'[c].pc = pc /\ call'[c].task = call[c].task
  /\ call'[c].saved \in {"waiting", "failed"}
  /\ \A d \in Calls : d # c => call'[d] = call[d]

LEMMA CompleteIs ==
  ASSUME BaseInv, NEW c \in Calls, Complete(c)
  PROVE  /\ Active(c) /\ call[c].pc = "executing" /\ call[c] \in CallRecs /\ CallFits(c)
         /\ call[c].employee \in DOMAIN staff /\ call[c].employee \in Employees
         /\ call[c].task \in DOMAIN queue /\ TaskFits(queue[call[c].task])
         /\ Waits(c, "completed") /\ call'[c].employee = call[c].employee
<1> DEFINE q == [call[c] EXCEPT !.pc = "completed"]
<1>1. /\ Active(c) /\ call[c].pc = "executing" /\ call[c] \in CallRecs /\ CallFits(c)
      /\ call[c].task \in DOMAIN queue /\ TaskFits(queue[call[c].task])
  BY AtIs DEF Complete, BaseInv, Pcs
<1>2. call[c].employee \in DOMAIN staff /\ call[c].employee \in Employees
  BY <1>1 DEF CallFits, AtWork, BaseInv, Types, StaffFits
<1>3. /\ q \in CallRecs /\ q.pc = "completed" /\ q.task = call[c].task
      /\ q.employee = call[c].employee /\ Await(c, q)
  BY <1>1 DEF CallRecs, Pcs, Complete
<1> HIDE DEF q
<1> QED BY <1>1, <1>2, <1>3, AwaitIs DEF Waits

LEMMA FailIs ==
  ASSUME BaseInv, NEW c \in Calls, NEW status \in Failures, Fail(c, status)
  PROVE  /\ Active(c) /\ call[c].pc = "executing" /\ call[c] \in CallRecs /\ CallFits(c)
         /\ call[c].employee \in DOMAIN staff /\ call[c].employee \in Employees
         /\ call[c].task \in DOMAIN queue /\ TaskFits(queue[call[c].task])
         /\ Waits(c, "failed")
<1> DEFINE q == [call[c] EXCEPT !.pc = "failed", !.outcome = status,
                                !.tried = @ \cup {call[c].employee}]
<1>1. /\ Active(c) /\ call[c].pc = "executing" /\ call[c] \in CallRecs /\ CallFits(c)
      /\ call[c].task \in DOMAIN queue /\ TaskFits(queue[call[c].task])
  BY AtIs DEF Fail, BaseInv, Pcs
<1>2. call[c].employee \in DOMAIN staff /\ call[c].employee \in Employees
  BY <1>1 DEF CallFits, AtWork, BaseInv, Types, StaffFits
<1>3. q \in CallRecs /\ q.pc = "failed" /\ q.task = call[c].task
  BY <1>1, <1>2 DEF CallRecs, Pcs
<1>4. Await(c, q)
  BY DEF Fail
<1> HIDE DEF q
<1> QED BY <1>1, <1>2, <1>3, <1>4, AwaitIs DEF Waits

LEMMA RequeueWaits ==
  ASSUME BaseInv, NEW c \in Calls, Requeue(c)
  PROVE  Waits(c, "requeued") \/ Waits(c, "caughtRequeued")
<1> DEFINE pc == IF call[c].pc = "failed" THEN "requeued" ELSE "caughtRequeued"
           q  == [call[c] EXCEPT !.pc = pc, !.outcome = "none"]
<1>1. call[c] \in CallRecs
  BY RequeueIs
<1>2. q \in CallRecs /\ q.pc = pc /\ q.task = call[c].task
  BY <1>1 DEF CallRecs, Pcs
<1>3. Await(c, q)
  BY DEF Requeue
<1> HIDE DEF q
<1> QED BY <1>2, <1>3, AwaitIs DEF Waits

LEMMA CaughtWaits ==
  ASSUME BaseInv, NEW c \in Calls, Caught(c)
  PROVE  IF CanFinish(queue[call[c].task])
         THEN /\ queue' = [queue EXCEPT ![call[c].task] =
                             Failed(queue[call[c].task], Failure("retriable"))]
              /\ staff' = Released(call[c].employee, call[c].task, FALSE)
              /\ Waits(c, "caughtFailed")
         ELSE call' = [call EXCEPT ![c] = Idle] /\ UNCHANGED <<queue, staff>>
<1> DEFINE q == [call[c] EXCEPT !.pc = "caughtFailed", !.employee = Nobody,
                                !.outcome = "none", !.tried = @ \cup {call[c].employee}]
<1>1. call[c] \in CallRecs /\ call[c].employee \in Employees
  BY CaughtIs
<1>2. q \in CallRecs /\ q.pc = "caughtFailed" /\ q.task = call[c].task
  BY <1>1 DEF CallRecs, Pcs
<1>3. CASE CanFinish(queue[call[c].task])
  <2>1. /\ queue' = [queue EXCEPT ![call[c].task] =
                       Failed(queue[call[c].task], Failure("retriable"))]
        /\ staff' = Released(call[c].employee, call[c].task, FALSE) /\ Await(c, q)
    BY <1>3 DEF Caught, Catch
  <2>2. Await(c, q)
    BY <2>1
  <2> HIDE DEF q
  <2>3. Waits(c, "caughtFailed")
    BY <1>2, <2>2, AwaitIs DEF Waits
  <2> QED BY <1>3, <2>1, <2>3
<1>4. CASE ~CanFinish(queue[call[c].task])
  BY <1>4 DEF Caught, Catch, Throw
<1> QED BY <1>3, <1>4

LEMMA SettlesIs ==
  ASSUME BaseInv, NEW c \in Calls, Settles(c)
  PROVE  /\ executions' = executions /\ returned' = returned /\ CallMoves(c)
         /\ UNCHANGED <<nodes, overlapped, stranded>> \/ Caught(c)
         /\ \/ ~Active(c)'
            \/ Waits(c, "completed") /\ Complete(c)
            \/ \E pc \in {"failed", "caughtFailed", "requeued", "caughtRequeued"} : Waits(c, pc)
<1>1. executions' = executions /\ returned' = returned
  BY DEF Settles, Complete, Caught, Requeue, Fail, Catch, Throw
<1>2. CallMoves(c)
  BY CompleteMoves, CaughtMoves, RequeueMoves, FailMoves DEF Settles
<1>3. UNCHANGED <<nodes, overlapped, stranded>> \/ Caught(c)
  BY DEF Settles, Complete, Requeue, Fail
<1>4. \/ ~Active(c)'
      \/ Waits(c, "completed") /\ Complete(c)
      \/ \E pc \in {"failed", "caughtFailed", "requeued", "caughtRequeued"} : Waits(c, pc)
  <2>1. CASE Caught(c)
    BY <2>1, CaughtWaits, LeavingIs
  <2> QED BY <2>1, CompleteIs, FailIs, RequeueWaits DEF Settles
<1> QED BY <1>1, <1>2, <1>3, <1>4

LEMMA SettledIsNotStarted ==
  ASSUME BaseInv, NEW c \in Calls, Settles(c), Active(c)'
  PROVE  call'[c].pc # "started"
BY SettlesIs DEF Waits

LEMMA StepSpends ==
  ASSUME BaseInv, SpentInv, NEW c \in Calls, Step(c)
  PROVE  SpentInv'
<1>1. CASE Ends(c)
  BY <1>1, EndsIs, LeavingIs, QuietCallSpends
<1>2. CASE Settles(c)
  BY <1>2, SettlesIs, SettledIsNotStarted, QuietCallSpends
<1> QED BY <1>1, <1>2, StepIs, AssignSpends, ExecuteSpends

LEMMA InvokeIs ==
  ASSUME BaseInv, NEW c \in Calls, NEW t \in Tasks, Invoke(c, t)
  PROVE  /\ ~Active(c) /\ Active(c)' /\ call'[c].pc = "enqueued" /\ call'[c].task = t
         /\ call'[c] \in CallRecs /\ call'[c].saved \in {"waiting", "failed"}
         /\ call'[c].answer = IF HasAnswer(queue'[t]) THEN queue'[t].result ELSE NoResult
         /\ call'[c].employee = Nobody
         /\ \A d \in Calls : d # c => call'[d] = call[d]
<1> DEFINE q == [pc |-> "enqueued", task |-> t, saved |-> "waiting",
                 answer |-> IF HasAnswer(queue'[t]) THEN queue'[t].result ELSE NoResult,
                 employee |-> Nobody, tried |-> {}, outcome |-> "none"]
<1>1. CallMoves(c)
  BY InvokeMoves
<1>2. t \in DOMAIN queue' /\ queue'[t].result \in Results /\ NoResult \in Results
  <2>1. t \in DOMAIN queue'
    BY DEF Invoke, Put
  <2> QED BY <1>1, <2>1 DEF CallMoves, QueueFits, Records, NoResult, Results
<1>3. q \in CallRecs /\ Await(c, q)
  BY <1>2 DEF CallRecs, Pcs, Invoke
<1>4. /\ q.pc = "enqueued" /\ q.task = t /\ q.employee = Nobody
      /\ q.answer = IF HasAnswer(queue'[t]) THEN queue'[t].result ELSE NoResult
  OBVIOUS
<1>5. ~Active(c)
  BY DEF Invoke, Active
<1> HIDE DEF q
<1> QED BY <1>3, <1>4, <1>5, AwaitIs

LEMMA InvokeSpends ==
  ASSUME BaseInv, SpentInv, NEW c \in Calls, NEW t \in Tasks, Invoke(c, t)
  PROVE  SpentInv'
<1>1. executions' = executions
  BY DEF Invoke
<1> QED BY <1>1, InvokeMoves, InvokeIs, QuietCallSpends

LEMMA SpentStays ==
  ASSUME BaseInv, SpentInv,
         UNCHANGED <<queue, call, saving, stored, executions>>,
         saving # None => Head(chain') = Head(chain)
  PROVE  SpentInv'
<1> SUFFICES ASSUME NEW t \in Tasks PROVE Spent(t)'
  BY DEF SpentInv
<1>1. Pending(t)' = Pending(t)
  BY DEF Pending, Active
<1>2. Stored(t)' = Stored(t) /\ (saving # None => Saved(t)' = Saved(t))
  BY <1>1 DEF Stored, Saved
<1>3. Spent(t)
  BY DEF SpentInv
<1>4. Attempts(queue', t) = Attempts(queue, t)
  BY DEF Attempts
<1> HIDE DEF SpentInv
<1> QED BY <1>1, <1>2, <1>3, <1>4 DEF Spent

LEMMA CountsOf ==
  ASSUME BaseInv, NEW t \in Tasks
  PROVE  /\ Cardinality(Pending(t)) \in Nat /\ Cardinality(Stored(t)) \in Nat
         /\ Cardinality(Saved(t)) \in Nat
         /\ Cardinality(Stored(t)) <= Cardinality(Saved(t))
         /\ Cardinality(Saved(t)) <= Cardinality(Pending(t))
         /\ executions[t] \in Nat /\ Attempts(queue, t) \in Nat /\ Attempts(stored.queue, t) \in Nat
         /\ saving # None => Attempts(saving.queue, t) \in Nat
<1>1. Pending(t) \in SUBSET Calls /\ Saved(t) \in SUBSET Calls /\ Stored(t) \in SUBSET Saved(t)
      /\ Saved(t) \in SUBSET Pending(t)
  BY WhoIsPending
<1>2. /\ Cardinality(Pending(t)) \in Nat /\ Cardinality(Stored(t)) \in Nat
      /\ Cardinality(Saved(t)) \in Nat /\ Cardinality(Stored(t)) <= Cardinality(Saved(t))
      /\ Cardinality(Saved(t)) <= Cardinality(Pending(t))
  BY <1>1, SomeCalls
<1>3. executions[t] \in Nat
  BY DEF BaseInv, Types
<1>4. /\ Attempts(queue, t) \in Nat /\ Attempts(stored.queue, t) \in Nat
      /\ saving # None => Attempts(saving.queue, t) \in Nat
  BY MaxAttemptsIsPositive DEF Attempts, BaseInv, Types, SnapFits, QueueFits, Records
<1> QED BY <1>2, <1>3, <1>4

LEMMA SaveBeginsSpends == ASSUME BaseInv, SpentInv, SaveBegins PROVE SpentInv'
<1> SUFFICES ASSUME NEW t \in Tasks PROVE Spent(t)'
  BY DEF SpentInv
<1>1. /\ UNCHANGED <<queue, call, chain, stored, executions>> /\ saving' = Snapshot
  BY DEF SaveBegins
<1>2. Pending(t)' = Pending(t) /\ Stored(t)' = Stored(t) /\ Saved(t)' = Saved(t)
  BY <1>1 DEF Pending, Stored, Saved, Active
<1>3. saving'.queue = queue
  BY <1>1, SnapshotFits
<1>4. Spent(t)
  BY DEF SpentInv
<1>5. Attempts(queue', t) = Attempts(queue, t)
  BY <1>1 DEF Attempts
<1> HIDE DEF SpentInv
<1> QED BY <1>1, <1>2, <1>3, <1>4, <1>5, CountsOf DEF Spent

LEMMA SaveEndsSpends == ASSUME BaseInv, SpentInv, SaveEnds PROVE SpentInv'
<1> SUFFICES ASSUME NEW t \in Tasks PROVE Spent(t)'
  BY DEF SpentInv
<1>1. /\ UNCHANGED <<queue, executions>> /\ stored' = saving /\ saving # None /\ saving' = None
  BY DEF SaveEnds
<1>2. /\ \A d \in Calls : Told(d)
      /\ \A d \in Calls : /\ d # Head(chain) => call'[d] = call[d]
                          /\ d = Head(chain) => Active(d) /\ call'[d].saved = "done"
  BY SaveEndsTells
<1>3. Pending(t)' = Pending(t) /\ Stored(t)' = Saved(t)
  BY <1>2 DEF Pending, Stored, Saved, Told
<1>4. Spent(t)
  BY DEF SpentInv
<1>5. Attempts(queue', t) = Attempts(queue, t)
  BY <1>1 DEF Attempts
<1> HIDE DEF SpentInv
<1> QED BY <1>1, <1>3, <1>4, <1>5, CountsOf DEF Spent

LEMMA SaveFailsSpends == ASSUME BaseInv, SpentInv, SaveFails PROVE SpentInv'
<1> SUFFICES ASSUME NEW t \in Tasks PROVE Spent(t)'
  BY DEF SpentInv
<1>1. /\ UNCHANGED <<queue, executions>> /\ stored' \in {stored, saving} /\ saving # None
      /\ saving' = None
  BY DEF SaveFails
<1>2. \A d \in Calls : /\ Told(d) /\ (~Chains(d) => call'[d] = call[d])
                       /\ Chains(d) => call'[d].saved = "failed"
  BY SaveFailsTells
<1>3. Pending(t)' = Pending(t) /\ Stored(t)' \in SUBSET Stored(t)
  BY <1>2 DEF Pending, Stored, Told
<1>4. Cardinality(Stored(t)') \in Nat /\ Cardinality(Stored(t)') <= Cardinality(Stored(t))
  <2>1. Stored(t) \in SUBSET Calls
    BY WhoIsPending
  <2> QED BY <1>3, <2>1, SomeCalls
<1>5. Spent(t)
  BY DEF SpentInv
<1>6. Attempts(queue', t) = Attempts(queue, t)
  BY <1>1 DEF Attempts
<1> HIDE DEF SpentInv
<1>7. executions[t] + Cardinality(Stored(t)') <= Attempts(stored'.queue, t)
  BY <1>1, <1>4, <1>5, CountsOf DEF Spent
<1> QED BY <1>1, <1>3, <1>5, <1>6, <1>7 DEF Spent

LEMMA RestartSpends == ASSUME BaseInv, SpentInv, Restart PROVE SpentInv'
<1> SUFFICES ASSUME NEW t \in Tasks PROVE Spent(t)'
  BY DEF SpentInv
<1>1. /\ UNCHANGED <<stored, executions>> /\ saving' = None /\ \A d \in Calls : ~Active(d)'
  BY DEF Restart, Active
<1>2. Pending(t)' = {} /\ Stored(t)' = {} /\ Cardinality({}) = 0
  BY <1>1, FS_EmptySet DEF Pending, Stored
<1>3. Attempts(queue', t) = Attempts(stored.queue, t)
  BY RestartRecovers, RecoveredFits DEF Attempts
<1>4. Spent(t)
  BY DEF SpentInv
<1> HIDE DEF SpentInv
<1> QED BY <1>1, <1>2, <1>3, <1>4, CountsOf DEF Spent

LEMMA InitSpent == Init => SpentInv
<1> SUFFICES ASSUME Init, NEW t \in Tasks PROVE Spent(t)
  BY DEF SpentInv
<1>1. executions[t] = 0 /\ saving = None /\ \A d \in Calls : ~Active(d)
  BY DEF Init, Active
<1>2. Pending(t) = {} /\ Stored(t) = {} /\ Cardinality({}) = 0
  BY <1>1, FS_EmptySet DEF Pending, Stored
<1>3. Attempts(queue, t) \in Nat /\ Attempts(stored.queue, t) \in Nat
  BY InitBase, CountsOf
<1> QED BY <1>1, <1>2, <1>3 DEF Spent

LEMMA SpentKept == BaseInv /\ SpentInv /\ [Next]_vars => SpentInv'
<1> SUFFICES ASSUME BaseInv, SpentInv, [Next]_vars PROVE SpentInv'
  OBVIOUS
<1>1. ASSUME NEW e \in Employees, RegisterEmployee(e) PROVE SpentInv'
  BY <1>1, RegisterMoves, RegistryKeepsChain, SpentStays DEF RegistryMoves
<1>2. ASSUME NEW n \in Nodes, NEW status \in Health, Heartbeat(n, status) PROVE SpentInv'
  BY <1>2, HeartbeatMoves, RegistryKeepsChain, SpentStays DEF RegistryMoves
<1>3. CASE UNCHANGED vars
  BY <1>3, SpentStays DEF vars
<1>4. CASE SaveBegins \/ SaveEnds \/ SaveFails \/ Restart
  BY <1>4, SaveBeginsSpends, SaveEndsSpends, SaveFailsSpends, RestartSpends
<1> QED BY <1>1, <1>2, <1>3, <1>4, StepSpends, InvokeSpends DEF Next, Health

\* Over all restarts and retries, a task's adapter is called at most
\* maxAttempts times: an attempt is stored before it is made.
THEOREM ExecutionsStayBounded == Spec => []ExecutionsAreBounded
<1>1. BaseInv /\ SpentInv => ExecutionsAreBounded
  <2> SUFFICES ASSUME BaseInv, SpentInv, NEW t \in Tasks PROVE executions[t] <= MaxAttempts
    BY DEF ExecutionsAreBounded
  <2>1. Spent(t) /\ Attempts(queue, t) <= MaxAttempts /\ MaxAttempts \in Nat
    <3>1. Spent(t)
      BY DEF SpentInv
    <3> QED BY <3>1, MaxAttemptsIsPositive DEF Attempts, BaseInv, Types, QueueFits, Records
  <2> QED BY <2>1, CountsOf DEF Spent
<1> QED BY <1>1, InitBase, InitSpent, BaseKept, SpentKept, PTL DEF Spec

-----------------------------------------------------------------------------
(***************************************************************************)
(* The results.                                                            *)
(***************************************************************************)
LEMMA HoldsOn ==
  ASSUME NEW p, NEW q, Precedes(p, q), NEW t, NEW e, Holds(p, t, e)
  PROVE  Holds(q, t, e)
BY DEF Holds, Precedes

\* A step of a call leaves the promises of the others as they are.
LEMMA OthersPromise ==
  ASSUME BaseInv, PromiseInv, NEW c \in Calls, CallMoves(c), NEW d \in Calls, d # c
  PROVE  Promised(d)'
<1>1. PICK q \in CallRecs \cup {Idle} : Goes(c, q)
  BY DEF CallMoves
<1>2. saving # None => Head(chain') = Head(chain)
  BY <1>1, GoesKeepsChain DEF CallMoves, BaseInv
<1>3. call'[d] = call[d]
  BY <1>1 DEF Goes, BaseInv, Types
<1>4. Promised(d)
  BY DEF PromiseInv
<1>5. Promise(d)' = Promise(d) /\ (Active(d)' <=> Active(d))
  BY <1>3 DEF Promise, Active
<1>6. stored' = stored /\ saving' = saving /\ Precedes(queue, queue')
  BY DEF CallMoves
<1>7. \A t, e : Holds(queue, t, e) => Holds(queue', t, e)
  BY <1>6, HoldsOn
<1> QED BY <1>2, <1>3, <1>4, <1>5, <1>6, <1>7 DEF Promised

\* Its own promise is recorded when it is made, and not stored yet.
LEMMA CallPromises ==
  ASSUME BaseInv, PromiseInv, NEW c \in Calls, CallMoves(c),
         Active(c)' => \A e \in Promise(c)' : /\ Holds(queue', call'[c].task, e)
                                              /\ call'[c].saved # "done",
         \A x \in returned' : Holds(stored.queue, x.task, x.employee)
  PROVE  PromiseInv'
<1>1. PICK q \in CallRecs \cup {Idle} : Goes(c, q)
  BY DEF CallMoves
<1>2. saving # None => Head(chain') # c
  BY <1>1, GoesKeepsChain DEF CallMoves, BaseInv
<1>3. stored' = stored /\ saving' = saving
  BY DEF CallMoves
<1>4. Promised(c)'
  BY <1>2, <1>3 DEF Promised
<1> QED BY <1>3, <1>4, OthersPromise DEF PromiseInv

LEMMA NoPromise ==
  ASSUME NEW c, call'[c].pc \notin {"completed", "enqueued"}
  PROVE  Promise(c)' = {}
BY DEF Promise

\* What a call returns has been stored.
LEMMA EndsPromises ==
  ASSUME BaseInv, PromiseInv, NEW c \in Calls, Ends(c)
  PROVE  PromiseInv'
<1>1. CallMoves(c) /\ ~Active(c)'
  BY EndsIs, LeavingIs
<1>2. CASE returned' = returned
  BY <1>1, <1>2, CallPromises DEF PromiseInv
<1>3. CASE returned' # returned
  <2>1. PICK e : /\ returned' = returned \cup {[task |-> call[c].task, employee |-> e]}
                 /\ \/ AnswerFromRecord(c) /\ call[c].answer.status = "completed"
                       /\ e = call[c].answer.employee
                    \/ ReturnCompleted(c) /\ e = call[c].employee
    BY <1>3 DEF Ends, AnswerFromRecord, GiveUp, ReturnCompleted, ReturnFailed, Rejected,
                AssignFails, Return, Throw
  <2>2. \E pc \in {"enqueued", "completed"} : At(c, pc, "done")
    BY <2>1 DEF AnswerFromRecord, ReturnCompleted
  <2>3. Active(c) /\ call[c] \in CallRecs /\ CallFits(c) /\ call[c].saved = "done"
    BY <2>2, AtIs DEF BaseInv, Pcs
  <2>4. e \in Promise(c)
    <3>1. CASE AnswerFromRecord(c) /\ call[c].answer.status = "completed"
               /\ e = call[c].answer.employee
      <4>1. call[c].answer \in Results
        BY <2>3 DEF CallRecs
      <4>2. e \in Employees
        BY <3>1, <4>1 DEF Results, Failures
      <4> QED BY <3>1, <4>2 DEF Promise, AnswerFromRecord, At
    <3>2. CASE ReturnCompleted(c) /\ e = call[c].employee
      <4>1. call[c].pc = "completed"
        BY <3>2 DEF ReturnCompleted, At
      <4>2. e \in Employees
        BY <2>3, <3>2, <4>1 DEF CallFits, AtWork, BaseInv, Types, StaffFits
      <4> QED BY <3>2, <4>1, <4>2 DEF Promise
    <3> QED BY <2>1, <3>1, <3>2
  <2>5. Holds(stored.queue, call[c].task, e)
    BY <2>3, <2>4 DEF PromiseInv, Promised
  <2>6. \A x \in returned' : Holds(stored.queue, x.task, x.employee)
    BY <2>1, <2>5 DEF PromiseInv
  <2> QED BY <1>1, <2>6, CallPromises
<1> QED BY <1>2, <1>3

LEMMA SettlesPromises ==
  ASSUME BaseInv, PromiseInv, NEW c \in Calls, Settles(c)
  PROVE  PromiseInv'
<1>1. CallMoves(c) /\ returned' = returned
  BY SettlesIs
<1>2. CASE ~Active(c)'
  BY <1>1, <1>2, CallPromises DEF PromiseInv
<1>3. CASE Waits(c, "completed") /\ Complete(c)
  <2> DEFINE t == call[c].task
             e == call[c].employee
  <2>1. /\ e \in Employees /\ call'[c].employee = e /\ t \in DOMAIN queue
        /\ TaskFits(queue[t])
    BY <1>3, CompleteIs
  <2>2. Completed(queue[t], Success(e)).stage = "completed"
        /\ Completed(queue[t], Success(e)).result = Success(e)
    BY <1>3, <2>1, FinishGrows DEF Complete
  <2>3. queue' = [queue EXCEPT ![t] = Completed(queue[t], Success(e))]
    BY <1>3 DEF Complete
  <2>4. Holds(queue', t, e)
    BY <2>1, <2>2, <2>3 DEF Holds, Success
  <2>5. Promise(c)' \in SUBSET {e} /\ call'[c].task = t /\ call'[c].saved # "done"
    BY <1>3, <2>1 DEF Promise, Waits
  <2> QED BY <1>1, <2>4, <2>5, CallPromises DEF PromiseInv
<1>4. CASE \E pc \in {"failed", "caughtFailed", "requeued", "caughtRequeued"} : Waits(c, pc)
  <2>1. Promise(c)' = {}
    BY <1>4, NoPromise DEF Waits
  <2> QED BY <1>1, <2>1, CallPromises DEF PromiseInv
<1> QED BY <1>2, <1>3, <1>4, SettlesIs

LEMMA AssignIs ==
  ASSUME BaseInv, NEW c \in Calls, NEW e \in Employees, Assign(c, e)
  PROVE  /\ Active(c) /\ call[c] \in CallRecs
         /\ call[c].pc \in {"enqueued", "requeued", "caughtRequeued"}
         /\ call[c].task \in DOMAIN queue /\ TaskFits(queue[call[c].task])
         /\ Waits(c, "started") /\ call'[c].employee = e
<1> DEFINE q == [call[c] EXCEPT !.pc = "started", !.employee = e]
<1>1. /\ Active(c) /\ call[c] \in CallRecs
      /\ call[c].pc \in {"enqueued", "requeued", "caughtRequeued"}
      /\ call[c].task \in DOMAIN queue /\ TaskFits(queue[call[c].task])
  BY AtLoopIs DEF Assign, BaseInv
<1>2. q \in CallRecs /\ q.pc = "started" /\ q.task = call[c].task /\ q.employee = e
  BY <1>1 DEF CallRecs, Pcs
<1>3. Await(c, q)
  BY DEF Assign
<1> HIDE DEF q
<1> QED BY <1>1, <1>2, <1>3, AwaitIs DEF Waits

LEMMA ExecuteIs ==
  ASSUME BaseInv, NEW c \in Calls, Execute(c)
  PROVE  /\ Active(c) /\ call[c] \in CallRecs /\ call[c].pc = "started" /\ CallFits(c)
         /\ call[c].task \in DOMAIN queue
         /\ Active(c)' /\ call'[c] \in CallRecs /\ call'[c].pc = "executing"
         /\ call'[c].task = call[c].task /\ call'[c].employee = call[c].employee
         /\ \A d \in Calls : d # c => call'[d] = call[d]
<1> DEFINE q == [call[c] EXCEPT !.pc = "executing"]
<1>1. /\ Active(c) /\ call[c] \in CallRecs /\ call[c].pc = "started" /\ CallFits(c)
      /\ call[c].task \in DOMAIN queue
  BY AtIs DEF Execute, BaseInv, Pcs
<1>2. /\ q \in CallRecs /\ q.pc = "executing" /\ q.task = call[c].task
      /\ q.employee = call[c].employee
  BY <1>1 DEF CallRecs, Pcs
<1>3. call' = [call EXCEPT ![c] = q]
  BY DEF Execute
<1> HIDE DEF q
<1>4. call'[c] = q /\ \A d \in Calls : d # c => call'[d] = call[d]
  BY <1>3 DEF BaseInv, Types
<1> QED BY <1>1, <1>2, <1>4, IdleIsNoCall DEF Active

LEMMA StepPromises ==
  ASSUME BaseInv, PromiseInv, NEW c \in Calls, Step(c)
  PROVE  PromiseInv'
<1>1. ASSUME NEW e \in Employees, Assign(c, e) PROVE PromiseInv'
  <2>1. Promise(c)' = {}
    BY <1>1, AssignIs, NoPromise DEF Waits
  <2>2. returned' = returned
    BY <1>1 DEF Assign
  <2> QED BY <1>1, <2>1, <2>2, AssignMoves, CallPromises DEF PromiseInv
<1>2. CASE Execute(c)
  <2>1. Promise(c)' = {}
    BY <1>2, ExecuteIs, NoPromise
  <2>2. returned' = returned
    BY <1>2 DEF Execute
  <2> QED BY <1>2, <2>1, <2>2, ExecuteMoves, CallPromises DEF PromiseInv
<1> QED BY <1>1, <1>2, StepIs, EndsPromises, SettlesPromises

LEMMA InvokePromises ==
  ASSUME BaseInv, PromiseInv, NEW c \in Calls, NEW t \in Tasks, Invoke(c, t)
  PROVE  PromiseInv'
<1>1. /\ Active(c)' /\ call'[c].pc = "enqueued" /\ call'[c].task = t /\ call'[c].saved # "done"
      /\ call'[c].answer = IF HasAnswer(queue'[t]) THEN queue'[t].result ELSE NoResult
  BY InvokeIs
<1>2. CallMoves(c) /\ returned' = returned
  BY InvokeMoves DEF Invoke
<1>3. t \in DOMAIN queue' /\ TaskFits(queue'[t])
  <2>1. t \in DOMAIN queue'
    BY DEF Invoke, Put
  <2> QED BY <1>2, <2>1 DEF CallMoves, QueueFits
<1>4. ASSUME NEW e \in Promise(c)' PROVE Holds(queue', t, e)
  <2>1. call'[c].answer.status = "completed" /\ call'[c].answer.employee = e
    BY <1>1 DEF Promise
  <2>2. queue'[t].result.status = "completed" /\ queue'[t].result.employee = e
    BY <1>1, <2>1 DEF NoResult
  <2> QED BY <1>3, <2>2 DEF Holds, TaskFits
<1> QED BY <1>1, <1>2, <1>4, CallPromises DEF PromiseInv

LEMMA PromiseStays ==
  ASSUME PromiseInv, UNCHANGED <<queue, call, saving, stored, returned>>,
         saving # None => Head(chain') = Head(chain)
  PROVE  PromiseInv'
<1>1. ASSUME NEW d \in Calls PROVE Promised(d)'
  <2>1. Promised(d)
    BY DEF PromiseInv
  <2> QED BY <2>1 DEF Promised, Promise, Active
<1> QED BY <1>1 DEF PromiseInv

LEMMA ToldPromise ==
  ASSUME NEW d \in Calls, Told(d)
  PROVE  (Active(d)' <=> Active(d))
         /\ (Active(d) => Promise(d)' = Promise(d) /\ call'[d].task = call[d].task)
BY DEF Told, Promise

LEMMA SaveBeginsPromises == ASSUME BaseInv, PromiseInv, SaveBegins PROVE PromiseInv'
<1>1. UNCHANGED <<queue, call, chain, stored, returned>> /\ saving' = Snapshot
  BY DEF SaveBegins
<1>2. saving'.queue = queue
  BY <1>1, SnapshotFits
<1>3. ASSUME NEW d \in Calls PROVE Promised(d)'
  <2>1. Promised(d)
    BY DEF PromiseInv
  <2> QED BY <1>1, <1>2, <2>1 DEF Promised, Promise, Active
<1> QED BY <1>1, <1>3 DEF PromiseInv

LEMMA SaveEndsPromises == ASSUME BaseInv, PromiseInv, SaveEnds PROVE PromiseInv'
<1>1. UNCHANGED <<queue, returned>> /\ stored' = saving /\ saving # None /\ saving' = None
  BY DEF SaveEnds
<1>2. \A t, e : Holds(stored.queue, t, e) => Holds(stored'.queue, t, e)
  BY <1>1, HoldsOn DEF BaseInv, InOrder
<1>3. ASSUME NEW d \in Calls PROVE Promised(d)'
  <2>1. Promised(d) /\ Told(d)
    BY SaveEndsTells DEF PromiseInv
  <2>2. d # Head(chain) => call'[d] = call[d]
    BY SaveEndsTells
  <2> QED BY <1>1, <1>2, <2>1, <2>2, ToldPromise DEF Promised
<1> QED BY <1>1, <1>2, <1>3 DEF PromiseInv

LEMMA SaveFailsPromises == ASSUME BaseInv, PromiseInv, SaveFails PROVE PromiseInv'
<1>1. /\ UNCHANGED <<queue, returned>> /\ stored' \in {stored, saving} /\ saving # None
      /\ saving' = None
  BY DEF SaveFails
<1>2. \A t, e : Holds(stored.queue, t, e) => Holds(stored'.queue, t, e)
  BY <1>1, HoldsOn DEF BaseInv, InOrder
<1>3. ASSUME NEW d \in Calls PROVE Promised(d)'
  <2>1. Promised(d) /\ Told(d)
    BY SaveFailsTells DEF PromiseInv
  <2>2. call'[d] = call[d] \/ call'[d].saved = "failed"
    BY SaveFailsTells
  <2> QED BY <1>1, <1>2, <2>1, <2>2, ToldPromise DEF Promised
<1> QED BY <1>1, <1>2, <1>3 DEF PromiseInv

LEMMA PromiseKept == BaseInv /\ PromiseInv /\ [Next]_vars => PromiseInv'
<1> SUFFICES ASSUME BaseInv, PromiseInv, [Next]_vars PROVE PromiseInv'
  OBVIOUS
<1>1. ASSUME NEW e \in Employees, RegisterEmployee(e) PROVE PromiseInv'
  BY <1>1, RegisterMoves, RegistryKeepsChain, PromiseStays DEF RegistryMoves
<1>2. ASSUME NEW n \in Nodes, NEW status \in Health, Heartbeat(n, status) PROVE PromiseInv'
  BY <1>2, HeartbeatMoves, RegistryKeepsChain, PromiseStays DEF RegistryMoves
<1>3. CASE UNCHANGED vars
  BY <1>3, PromiseStays DEF vars
<1>4. CASE Restart
  <2>1. stored' = stored /\ returned' = returned /\ \A d \in Calls : ~Active(d)'
    BY <1>4 DEF Restart, Active
  <2> QED BY <2>1 DEF PromiseInv, Promised
<1>5. CASE SaveBegins \/ SaveEnds \/ SaveFails
  BY <1>5, SaveBeginsPromises, SaveEndsPromises, SaveFailsPromises
<1> QED BY <1>1, <1>2, <1>3, <1>4, <1>5, StepPromises, InvokePromises DEF Next, Health

\* A completed result that was returned stays the task's result, in memory
\* and in the store, whatever crashes.
THEOREM CompletionStaysFinal == Spec => []CompletionIsFinal
<1>1. Init => PromiseInv
  BY DEF Init, PromiseInv, Promised, Active
<1>2. BaseInv /\ PromiseInv => CompletionIsFinal
  <2> SUFFICES ASSUME BaseInv, PromiseInv, NEW x \in returned
      PROVE  /\ x.task \in DOMAIN queue /\ x.task \in DOMAIN stored.queue
             /\ queue[x.task].stage = "completed"
             /\ queue[x.task].result.employee = x.employee
             /\ stored.queue[x.task].result = queue[x.task].result
    BY DEF CompletionIsFinal
  <2>1. Holds(stored.queue, x.task, x.employee)
    BY DEF PromiseInv
  <2> QED BY <2>1 DEF Holds, BaseInv, InOrder, Precedes
<1> QED BY <1>1, <1>2, InitBase, BaseKept, PromiseKept, PTL DEF Spec

-----------------------------------------------------------------------------
(***************************************************************************)
(* Calls that do not overlap.                                              *)
(***************************************************************************)
InFlight == {"assigned", "running"}
Busy     == {"started", "executing"}
Has(d, t) == Active(d) /\ call[d].task = t /\ call[d].pc \in Busy
Counts(e) == e \in DOMAIN staff /\ e \notin stranded => staff[e].active = Cardinality(Holding(e))
IsHeld(t) == t \in DOMAIN queue /\ queue[t].stage \in InFlight /\ t \notin stranded =>
               \E d \in Calls : Has(d, t)

LEMMA AloneIs ==
  AloneInv <=> (~overlapped => Alone /\ (\A e : Counts(e)) /\ (\A t : IsHeld(t)))
BY DEF AloneInv, CountsAreTrue, InFlightIsHeld, Counts, IsHeld, InFlight, Busy, Has, Active

LEMMA MakesAlone ==
  ASSUME ~overlapped' => Alone' /\ (\A e : Counts(e)') /\ (\A t : IsHeld(t)')
  PROVE  AloneInv'
BY DEF AloneInv, CountsAreTrue, InFlightIsHeld, Counts, IsHeld, InFlight, Busy, Has, Active

LEMMA StageIs ==
  /\ StageOf("enqueued") = Stages /\ StageOf("started") = {"running"}
  /\ StageOf("executing") = {"running"} /\ StageOf("completed") = {"completed"}
  /\ StageOf("failed") = {"failed"} /\ StageOf("caughtFailed") = {"failed"}
  /\ StageOf("requeued") = {"queued", "failed"}
  /\ StageOf("caughtRequeued") = {"queued", "failed"}
BY DEF StageOf

LEMMA HoldersAre ==
  ASSUME NEW e
  PROVE  /\ Holding(e) \in SUBSET Calls /\ IsFiniteSet(Holding(e)) /\ Cardinality(Holding(e)) \in Nat
         /\ \A d \in Calls : d \in Holding(e) <=> Active(d) /\ call[d].employee = e /\ call[d].pc \in Busy
<1>1. Holding(e) \in SUBSET Calls
  BY DEF Holding
<1> QED BY <1>1, CallsAreFinite, FS_Subset, FS_CardinalityType DEF Holding, Active, Busy

LEMMA OneHolderMore ==
  ASSUME NEW e, NEW c \in Calls, c \notin Holding(e), Holding(e)' = Holding(e) \cup {c}
  PROVE  Cardinality(Holding(e)') = Cardinality(Holding(e)) + 1
BY HoldersAre, FS_AddElement

LEMMA OneHolderLess ==
  ASSUME NEW e, NEW c \in Holding(e), Holding(e)' = Holding(e) \ {c}
  PROVE  Cardinality(Holding(e)') = Cardinality(Holding(e)) - 1 /\ Cardinality(Holding(e)) >= 1
<1>1. Cardinality(Holding(e)') = Cardinality(Holding(e)) - 1
  BY HoldersAre, FS_RemoveElement
<1>2. IsFiniteSet(Holding(e)') /\ Cardinality(Holding(e)') \in Nat
  BY HoldersAre, FS_RemoveElement, FS_CardinalityType
<1> QED BY <1>1, <1>2, HoldersAre

\* A step of a call touches the record of its own task only.
Touches(c) ==
  /\ Active(c) /\ call[c].task \in DOMAIN queue /\ DOMAIN queue' = DOMAIN queue
  /\ \A u \in DOMAIN queue : u # call[c].task => queue'[u] = queue[u]
  /\ \A d \in Calls : d # c => call'[d] = call[d]
  /\ Active(c)' => call'[c].task = call[c].task
  /\ stranded \subseteq stranded' /\ overlapped' = overlapped

LEMMA StaysAlone ==
  ASSUME BaseInv, Alone, NEW c \in Calls, Touches(c),
         Active(c)' => queue'[call[c].task].stage \in StageOf(call'[c].pc)
  PROVE  Alone'
<1>1. ASSUME NEW d \in Calls, NEW f \in Calls, Active(d)', Active(f)', call'[d].task = call'[f].task
      PROVE  d = f
  <2>1. /\ Active(d) /\ call'[d].task = call[d].task
        /\ Active(f) /\ call'[f].task = call[f].task
    BY <1>1 DEF Touches, Active
  <2> QED BY <1>1, <2>1 DEF Alone
<1>2. ASSUME NEW d \in Calls, Active(d)'
      PROVE  queue'[call'[d].task].stage \in StageOf(call'[d].pc)
  <2>1. CASE d = c
    BY <1>2, <2>1 DEF Touches
  <2>2. CASE d # c
    <3>1. call'[d] = call[d] /\ Active(d)
      BY <1>2, <2>2 DEF Touches, Active
    <3>2. call[d].task # call[c].task /\ call[d].task \in DOMAIN queue
      BY <2>2, <3>1 DEF Alone, Touches, BaseInv, Types, CallFits
    <3>3. queue'[call[d].task] = queue[call[d].task]
      BY <3>2 DEF Touches
    <3> QED BY <3>1, <3>3 DEF Alone
  <2> QED BY <2>1, <2>2
<1> QED BY <1>1, <1>2 DEF Alone

\* The tasks stay held, if this one is.
LEMMA StaysHeld ==
  ASSUME \A t : IsHeld(t), NEW c \in Calls, Touches(c), NEW u, u = call[c].task, IsHeld(u)', NEW t
  PROVE  IsHeld(t)'
<1>1. CASE t = u
  BY <1>1
<1>2. CASE t # u
  <2> SUFFICES ASSUME t \in DOMAIN queue', queue'[t].stage \in InFlight, t \notin stranded'
               PROVE  \E d \in Calls : Has(d, t)'
    BY DEF IsHeld
  <2>1. t \in DOMAIN queue /\ queue'[t] = queue[t] /\ t \notin stranded
    BY <1>2 DEF Touches
  <2>2. PICK d \in Calls : Has(d, t)
    BY <2>1 DEF IsHeld
  <2>3. d # c /\ call'[d] = call[d]
    BY <1>2, <2>2 DEF Has, Touches
  <2> QED BY <2>2, <2>3 DEF Has, Active
<1> QED BY <1>1, <1>2

\* What others hold stays with them.
LEMMA OthersHold ==
  ASSUME NEW c \in Calls, \A d \in Calls : d # c => call'[d] = call[d], NEW e
  PROVE  \A d \in Calls : d # c => (d \in Holding(e)' <=> d \in Holding(e))
BY DEF Holding

LEMMA SameHolders ==
  ASSUME NEW c \in Calls, \A d \in Calls : d # c => call'[d] = call[d], NEW e,
         c \in Holding(e)' <=> c \in Holding(e)
  PROVE  Holding(e)' = Holding(e)
<1>1. Holding(e) \subseteq Calls /\ Holding(e)' \subseteq Calls
  BY DEF Holding
<1>2. \A d \in Calls : d # c => (d \in Holding(e)' <=> d \in Holding(e))
  BY OthersHold
<1> QED BY <1>1, <1>2

LEMMA AssignAlone ==
  ASSUME BaseInv, AloneInv, ~overlapped, NEW c \in Calls, NEW e \in Employees, Assign(c, e)
  PROVE  AloneInv'
<1> PICK t : t = call[c].task
  OBVIOUS
<1>1. /\ Active(c) /\ call[c].pc \in {"enqueued", "requeued", "caughtRequeued"}
      /\ t \in DOMAIN queue /\ TaskFits(queue[t]) /\ Waits(c, "started")
      /\ call'[c].employee = e
  BY AssignIs
<1>2. Alone /\ (\A f : Counts(f)) /\ (\A u : IsHeld(u))
  BY AloneIs
<1>3. /\ DOMAIN queue' = DOMAIN queue /\ queue'[t].stage = "running"
      /\ \A u \in DOMAIN queue : u # t => queue'[u] = queue[u]
  <2>1. /\ Grown(queue[t], Started(Assigned(queue[t])))
        /\ Started(Assigned(queue[t])).stage = "running"
    BY <1>1, AssignGrows DEF Assign
  <2>2. queue' = [queue EXCEPT ![t] = Started(Assigned(queue[t]))]
    BY DEF Assign
  <2> QED BY <1>1, <2>1, <2>2, QueueGrows DEF BaseInv, Types
<1>4. stranded' = stranded /\ overlapped' = overlapped
  BY DEF Assign
<1>5. Touches(c)
  BY <1>1, <1>3, <1>4 DEF Touches, Waits
<1>6. Alone'
  BY <1>1, <1>2, <1>3, <1>5, StaysAlone, StageIs DEF Waits
<1>7. IsHeld(t)'
  <2>1. Has(c, t)'
    BY <1>1 DEF Has, Waits, Busy
  <2> QED BY <2>1 DEF IsHeld
<1>8. e \in DOMAIN staff
  BY EligibleIs DEF Assign
<1>9. /\ DOMAIN staff' = DOMAIN staff /\ staff'[e].active = staff[e].active + 1
      /\ \A f \in DOMAIN staff : f # e => staff'[f] = staff[f]
  <2>1. staff' = Acquired(e, t)
    BY DEF Assign
  <2> QED BY <1>8, <2>1 DEF Acquired
<1>10. ASSUME NEW f PROVE Counts(f)'
  <2>1. c \notin Holding(f)
    BY <1>1 DEF Holding
  <2>2. \A d \in Calls : d # c => (d \in Holding(f)' <=> d \in Holding(f))
    BY <1>1, OthersHold DEF Waits
  <2>3. Holding(f) \subseteq Calls /\ Holding(f)' \subseteq Calls
    BY DEF Holding
  <2>4. CASE f = e
    <3>1. c \in Holding(f)'
      BY <1>1, <2>4 DEF Holding, Waits, Active
    <3>2. Holding(f)' = Holding(f) \cup {c}
      BY <2>2, <2>3, <3>1
    <3>3. Cardinality(Holding(f)') = Cardinality(Holding(f)) + 1
      BY <2>1, <3>2, OneHolderMore
    <3>4. Counts(f)
      BY <1>2
    <3> QED BY <1>4, <1>9, <2>4, <3>3, <3>4 DEF Counts
  <2>5. CASE f # e
    <3>1. c \notin Holding(f)'
      BY <1>1, <2>5 DEF Holding
    <3>2. Holding(f)' = Holding(f)
      BY <2>1, <2>2, <2>3, <3>1
    <3>3. Counts(f)
      BY <1>2
    <3> QED BY <1>4, <1>9, <2>5, <3>2, <3>3 DEF Counts
  <2> QED BY <2>4, <2>5
<1>11. \A u : IsHeld(u)'
  BY <1>2, <1>5, <1>7, StaysHeld
<1> QED BY <1>4, <1>6, <1>10, <1>11, MakesAlone

LEMMA ExecuteAlone ==
  ASSUME BaseInv, AloneInv, ~overlapped, NEW c \in Calls, Execute(c)
  PROVE  AloneInv'
<1> PICK t : t = call[c].task
  OBVIOUS
<1>1. /\ Active(c) /\ call[c].pc = "started" /\ t \in DOMAIN queue
      /\ Active(c)' /\ call'[c].pc = "executing" /\ call'[c].task = t
      /\ call'[c].employee = call[c].employee
      /\ \A d \in Calls : d # c => call'[d] = call[d]
  BY ExecuteIs
<1>2. Alone /\ (\A f : Counts(f)) /\ (\A u : IsHeld(u))
  BY AloneIs
<1>3. UNCHANGED <<queue, staff, stranded, overlapped>>
  BY DEF Execute
<1>4. Touches(c)
  BY <1>1, <1>3 DEF Touches
<1>5. queue[t].stage \in StageOf("started")
  BY <1>1, <1>2 DEF Alone
<1>6. Alone'
  BY <1>1, <1>2, <1>3, <1>4, <1>5, StaysAlone, StageIs
<1>7. IsHeld(t)'
  <2>1. Has(c, t)'
    BY <1>1 DEF Has, Busy
  <2> QED BY <2>1 DEF IsHeld
<1>8. ASSUME NEW f PROVE Counts(f)'
  <2>1. c \in Holding(f)' <=> c \in Holding(f)
    BY <1>1 DEF Holding, Active
  <2>2. Holding(f)' = Holding(f)
    BY <1>1, <2>1, SameHolders
  <2> QED BY <1>2, <1>3, <2>2 DEF Counts
<1>9. \A u : IsHeld(u)'
  BY <1>2, <1>4, <1>7, StaysHeld
<1> QED BY <1>3, <1>6, <1>8, <1>9, MakesAlone

\* The attempt ends: its task is completed or failed, its employee released.
LEMMA FinishAlone ==
  ASSUME BaseInv, AloneInv, ~overlapped, NEW c \in Calls, NEW r, NEW success, NEW pc,
         Active(c), call[c].pc = "executing", call[c].employee \in DOMAIN staff,
         call[c].task \in DOMAIN queue, Waits(c, pc), pc \notin Busy,
         Grown(queue[call[c].task], r), r.stage \in StageOf(pc), r.stage \notin InFlight,
         queue' = [queue EXCEPT ![call[c].task] = r],
         staff' = Released(call[c].employee, call[c].task, success),
         stranded' = stranded, overlapped' = overlapped
  PROVE  AloneInv'
<1> PICK t : t = call[c].task
  OBVIOUS
<1> PICK e : e = call[c].employee
  OBVIOUS
<1>1. Alone /\ (\A f : Counts(f)) /\ (\A u : IsHeld(u))
  BY AloneIs
<1>2. /\ DOMAIN queue' = DOMAIN queue /\ queue'[t] = r
      /\ \A u \in DOMAIN queue : u # t => queue'[u] = queue[u]
  BY QueueGrows DEF BaseInv, Types
<1>3. Touches(c)
  BY <1>2 DEF Touches, Waits
<1>4. Alone'
  BY <1>1, <1>2, <1>3, StaysAlone DEF Waits
<1>5. IsHeld(t)'
  BY <1>2 DEF IsHeld
<1>6. /\ DOMAIN staff' = DOMAIN staff
      /\ staff'[e].active = IF staff[e].active > 0 THEN staff[e].active - 1 ELSE 0
      /\ \A f \in DOMAIN staff : f # e => staff'[f] = staff[f]
  BY DEF Released
<1>7. ASSUME NEW f PROVE Counts(f)'
  <2>1. c \notin Holding(f)'
    BY DEF Holding, Waits, Busy
  <2>2. \A d \in Calls : d # c => (d \in Holding(f)' <=> d \in Holding(f))
    BY OthersHold DEF Waits
  <2>3. Holding(f) \subseteq Calls /\ Holding(f)' \subseteq Calls
    BY DEF Holding
  <2>4. CASE f = e
    <3>1. c \in Holding(f)
      BY <2>4 DEF Holding, Active
    <3>2. Holding(f)' = Holding(f) \ {c}
      BY <2>1, <2>2, <2>3, <3>1
    <3>3. Cardinality(Holding(f)') = Cardinality(Holding(f)) - 1 /\ Cardinality(Holding(f)) >= 1
      BY <3>1, <3>2, OneHolderLess
    <3>4. Counts(f) /\ Cardinality(Holding(f)) \in Nat
      BY <1>1, HoldersAre
    <3> QED BY <1>6, <2>4, <3>3, <3>4 DEF Counts
  <2>5. CASE f # e
    <3>1. c \notin Holding(f)
      BY <2>5 DEF Holding
    <3>2. Holding(f)' = Holding(f)
      BY <2>1, <2>2, <2>3, <3>1
    <3>3. Counts(f)
      BY <1>1
    <3> QED BY <1>6, <2>5, <3>2, <3>3 DEF Counts
  <2> QED BY <2>4, <2>5
<1>8. \A u : IsHeld(u)'
  BY <1>1, <1>3, <1>5, StaysHeld
<1> QED BY <1>4, <1>7, <1>8, MakesAlone

\* A step of a call that holds nothing, before and after.
LEMMA IdleHandsAlone ==
  ASSUME BaseInv, AloneInv, ~overlapped, NEW c \in Calls, Touches(c),
         Active(c)' => /\ queue'[call[c].task].stage \in StageOf(call'[c].pc)
                       /\ call'[c].pc \notin Busy,
         staff' = staff,
         call[c].pc \in Busy => {call[c].task, call[c].employee} \subseteq stranded',
         \/ queue' = queue
         \/ queue'[call[c].task].stage \notin InFlight \/ call[c].task \in stranded'
  PROVE  AloneInv'
<1> PICK t : t = call[c].task
  OBVIOUS
<1>1. Alone /\ (\A f : Counts(f)) /\ (\A u : IsHeld(u))
  BY AloneIs
<1>2. Alone'
  BY <1>1, StaysAlone
<1>3. ASSUME NEW f PROVE Counts(f)'
  <2>1. CASE f \in stranded'
    BY <2>1 DEF Counts
  <2>2. CASE f \notin stranded'
    <3>1. c \notin Holding(f)
      BY <2>2 DEF Holding, Busy
    <3>2. c \notin Holding(f)'
      BY DEF Holding, Busy, Active
    <3>3. Holding(f)' = Holding(f)
      BY <3>1, <3>2, SameHolders DEF Touches
    <3>4. f \notin stranded /\ Counts(f)
      BY <1>1, <2>2 DEF Touches
    <3> QED BY <3>3, <3>4 DEF Counts
  <2> QED BY <2>1, <2>2
<1>4. IsHeld(t)'
  <2> SUFFICES ASSUME t \in DOMAIN queue', queue'[t].stage \in InFlight, t \notin stranded'
               PROVE  \E d \in Calls : Has(d, t)'
    BY DEF IsHeld
  <2>1. queue' = queue /\ t \notin stranded
    BY DEF Touches
  <2>2. PICK d \in Calls : Has(d, t)
    BY <1>1, <2>1 DEF IsHeld
  <2>3. d # c
    BY <2>2 DEF Has
  <2>4. call'[d] = call[d]
    BY <2>3 DEF Touches
  <2> QED BY <2>2, <2>4 DEF Has, Active
<1>5. \A u : IsHeld(u)'
  BY <1>1, <1>4, StaysHeld
<1> QED BY <1>2, <1>3, <1>5, MakesAlone

LEMMA CompleteAlone ==
  ASSUME BaseInv, AloneInv, ~overlapped, NEW c \in Calls, Complete(c)
  PROVE  AloneInv'
<1> DEFINE r == Completed(queue[call[c].task], Success(call[c].employee))
<1>1. /\ Active(c) /\ call[c].pc = "executing" /\ call[c].employee \in DOMAIN staff
      /\ call[c].employee \in Employees
      /\ call[c].task \in DOMAIN queue /\ TaskFits(queue[call[c].task]) /\ Waits(c, "completed")
  BY CompleteIs
<1>2. Grown(queue[call[c].task], r) /\ r.stage = "completed"
  BY <1>1, FinishGrows DEF Complete
<1>3. /\ queue' = [queue EXCEPT ![call[c].task] = r]
      /\ staff' = Released(call[c].employee, call[c].task, TRUE)
      /\ stranded' = stranded /\ overlapped' = overlapped
  BY DEF Complete
<1> HIDE DEF r
<1>4. r.stage \in StageOf("completed") /\ r.stage \notin InFlight /\ "completed" \notin Busy
  BY <1>2, StageIs DEF InFlight, Busy
<1> QED BY <1>1, <1>2, <1>3, <1>4, FinishAlone

LEMMA FailAlone ==
  ASSUME BaseInv, AloneInv, ~overlapped, NEW c \in Calls, NEW status \in Failures, Fail(c, status)
  PROVE  AloneInv'
<1> DEFINE r == Failed(queue[call[c].task], Failure(status))
<1>1. /\ Active(c) /\ call[c].pc = "executing" /\ call[c].employee \in DOMAIN staff
      /\ call[c].task \in DOMAIN queue /\ TaskFits(queue[call[c].task]) /\ Waits(c, "failed")
  BY FailIs
<1>2. Grown(queue[call[c].task], r) /\ r.stage = "failed"
  BY <1>1, FinishGrows DEF Fail
<1>3. /\ queue' = [queue EXCEPT ![call[c].task] = r]
      /\ staff' = Released(call[c].employee, call[c].task, FALSE)
      /\ stranded' = stranded /\ overlapped' = overlapped
  BY DEF Fail
<1> HIDE DEF r
<1>4. r.stage \in StageOf("failed") /\ r.stage \notin InFlight /\ "failed" \notin Busy
  BY <1>2, StageIs DEF InFlight, Busy
<1> QED BY <1>1, <1>2, <1>3, <1>4, FinishAlone

\* A call that is alone gets to the catch block with its task running only
\* from its adapter.
LEMMA CaughtAlone ==
  ASSUME BaseInv, AloneInv, ~overlapped, NEW c \in Calls, Caught(c)
  PROVE  AloneInv'
<1> DEFINE r == Failed(queue[call[c].task], Failure("retriable"))
<1>1. /\ Active(c) /\ call[c].pc \in {"executing", "completed", "failed", "requeued"}
      /\ call[c].employee \in DOMAIN staff
      /\ call[c].task \in DOMAIN queue /\ TaskFits(queue[call[c].task])
  BY CaughtIs
<1>2. stranded' = stranded /\ overlapped' = overlapped
  BY DEF Caught
<1>3. CanFinish(queue[call[c].task]) <=> call[c].pc = "executing"
  <2>1. queue[call[c].task].stage \in StageOf(call[c].pc)
    BY <1>1, AloneIs DEF Alone
  <2> QED BY <1>1, <2>1, StageIs DEF CanFinish
<1>4. CASE CanFinish(queue[call[c].task])
  <2>1. /\ queue' = [queue EXCEPT ![call[c].task] = r] /\ Waits(c, "caughtFailed")
        /\ staff' = Released(call[c].employee, call[c].task, FALSE)
    BY <1>4, CaughtWaits
  <2>2. Grown(queue[call[c].task], r) /\ r.stage = "failed"
    BY <1>1, <1>4, FinishGrows DEF Failures
  <2> HIDE DEF r
  <2>3. r.stage \in StageOf("caughtFailed") /\ r.stage \notin InFlight /\ "caughtFailed" \notin Busy
    BY <2>2, StageIs DEF InFlight, Busy
  <2> QED BY <1>1, <1>2, <1>3, <1>4, <2>1, <2>2, <2>3, FinishAlone
<1>5. CASE ~CanFinish(queue[call[c].task])
  <2>1. call' = [call EXCEPT ![c] = Idle] /\ UNCHANGED <<queue, staff>>
    BY <1>5, CaughtWaits
  <2>2. ~Active(c)' /\ \A d \in Calls : d # c => call'[d] = call[d]
    BY <2>1, LeavingIs
  <2>3. Touches(c)
    BY <1>1, <1>2, <2>1, <2>2 DEF Touches
  <2>4. call[c].pc \notin Busy
    BY <1>1, <1>3, <1>5 DEF Busy
  <2> QED BY <2>1, <2>2, <2>3, <2>4, IdleHandsAlone
<1> QED BY <1>4, <1>5

LEMMA RequeueAlone ==
  ASSUME BaseInv, AloneInv, ~overlapped, NEW c \in Calls, Requeue(c)
  PROVE  AloneInv'
<1> DEFINE r == Requeued(queue[call[c].task])
<1>1. /\ Active(c) /\ call[c].pc \in {"failed", "caughtFailed"}
      /\ call[c].task \in DOMAIN queue /\ TaskFits(queue[call[c].task])
  BY RequeueIs
<1>2. Grown(queue[call[c].task], r) /\ r.stage \in {"queued", "failed"}
  BY <1>1, RequeueGrows DEF Requeue
<1>3. /\ queue' = [queue EXCEPT ![call[c].task] = r] /\ staff' = staff
      /\ stranded' = stranded /\ overlapped' = overlapped
  BY DEF Requeue
<1> HIDE DEF r
<1>4. /\ DOMAIN queue' = DOMAIN queue /\ queue'[call[c].task] = r
      /\ \A u \in DOMAIN queue : u # call[c].task => queue'[u] = queue[u]
  BY <1>1, <1>2, <1>3, QueueGrows DEF BaseInv, Types
<1>5. PICK pc \in {"requeued", "caughtRequeued"} : Waits(c, pc)
  BY RequeueWaits
<1>6. Touches(c)
  BY <1>1, <1>3, <1>4, <1>5 DEF Touches, Waits
<1>7. /\ queue'[call[c].task].stage \in StageOf(call'[c].pc) /\ call'[c].pc \notin Busy
      /\ call[c].pc \notin Busy /\ queue'[call[c].task].stage \notin InFlight
  BY <1>1, <1>2, <1>4, <1>5, StageIs DEF Waits, Busy, InFlight
<1> QED BY <1>3, <1>6, <1>7, IdleHandsAlone

LEMMA EndsAlone ==
  ASSUME BaseInv, AloneInv, ~overlapped, NEW c \in Calls, Ends(c)
  PROVE  AloneInv'
<1>1. /\ call' = [call EXCEPT ![c] = Idle] /\ staff' = staff /\ overlapped' = overlapped
  BY EndsIs
<1>2. ~Active(c)' /\ \A d \in Calls : d # c => call'[d] = call[d]
  BY <1>1, LeavingIs
<1>3. CASE \E e \in Employees : AssignFails(c, e)
  <2>1. PICK e \in Employees : AssignFails(c, e)
    BY <1>3
  <2>2. /\ Active(c) /\ call[c].pc \in {"enqueued", "requeued", "caughtRequeued"}
        /\ call[c].task \in DOMAIN queue /\ TaskFits(queue[call[c].task])
    BY <2>1, AtLoopIs DEF AssignFails, BaseInv
  <2>3. stranded' = stranded \cup {call[c].task}
    BY <2>1 DEF AssignFails
  <2>4. Grown(queue[call[c].task], Assigned(queue[call[c].task]))
    BY <2>1, <2>2, AssignGrows DEF AssignFails
  <2>5. queue' = [queue EXCEPT ![call[c].task] = Assigned(queue[call[c].task])]
    BY <2>1 DEF AssignFails
  <2>6. /\ DOMAIN queue' = DOMAIN queue
        /\ \A u \in DOMAIN queue : u # call[c].task => queue'[u] = queue[u]
    BY <2>2, <2>4, <2>5, QueueGrows DEF BaseInv, Types
  <2>7. Touches(c)
    BY <1>1, <1>2, <2>2, <2>3, <2>6 DEF Touches
  <2>8. call[c].pc \notin Busy
    BY <2>2 DEF Busy
  <2> QED BY <1>1, <1>2, <2>3, <2>7, <2>8, IdleHandsAlone
<1>4. CASE Rejected(c)
  <2>1. PICK pc \in Pcs \ {"executing"}, saved \in {"done", "failed"} : At(c, pc, saved)
    BY <1>4 DEF Rejected, Pcs
  <2>2. Active(c) /\ call[c].pc = pc /\ call[c].task \in DOMAIN queue
    BY <2>1, AtIs DEF BaseInv
  <2>3. /\ queue' = queue /\ stranded \subseteq stranded'
        /\ pc = "started" => {call[c].task, call[c].employee} \subseteq stranded'
    BY <1>4, <2>2 DEF Rejected
  <2>4. Touches(c)
    BY <1>1, <1>2, <2>2, <2>3 DEF Touches
  <2>5. call[c].pc \in Busy => call[c].pc = "started"
    BY <2>2 DEF Busy
  <2> QED BY <1>1, <1>2, <2>2, <2>3, <2>4, <2>5, IdleHandsAlone
<1>5. CASE AnswerFromRecord(c) \/ GiveUp(c) \/ ReturnCompleted(c) \/ ReturnFailed(c)
  <2>1. \E pc \in Pcs \ Busy : At(c, pc, "done")
    BY <1>5 DEF AnswerFromRecord, GiveUp, ReturnCompleted, ReturnFailed, AtLoop, Pcs, Busy
  <2>2. Active(c) /\ call[c].pc \notin Busy /\ call[c].task \in DOMAIN queue
    BY <2>1, AtIs DEF BaseInv
  <2>3. queue' = queue /\ stranded' = stranded
    BY <1>5 DEF AnswerFromRecord, GiveUp, ReturnCompleted, ReturnFailed
  <2>4. Touches(c)
    BY <1>1, <1>2, <2>2, <2>3 DEF Touches
  <2> QED BY <1>1, <1>2, <2>2, <2>3, <2>4, IdleHandsAlone
<1> QED BY <1>3, <1>4, <1>5 DEF Ends

LEMMA StepAlone ==
  ASSUME BaseInv, AloneInv, NEW c \in Calls, Step(c)
  PROVE  AloneInv'
<1>1. CASE ~overlapped
  BY <1>1, StepIs, EndsAlone, AssignAlone, ExecuteAlone, CompleteAlone, FailAlone,
     CaughtAlone, RequeueAlone DEF Settles
<1>2. CASE overlapped
  <2>1. overlapped' = overlapped
    BY DEF Step, AnswerFromRecord, GiveUp, Execute, Complete, Caught, ReturnCompleted,
           ReturnFailed, Requeue, Rejected, Assign, AssignFails, Fail
  <2> QED BY <1>2, <2>1, MakesAlone
<1> QED BY <1>1, <1>2

\* A second call for a task that a call is at is an overlap.
LEMMA InvokeAlone ==
  ASSUME BaseInv, AloneInv, NEW c \in Calls, NEW t \in Tasks, Invoke(c, t)
  PROVE  AloneInv'
<1> SUFFICES ASSUME ~overlapped'
             PROVE  Alone' /\ (\A f : Counts(f)') /\ (\A u : IsHeld(u)')
  BY MakesAlone
<1>1. ~overlapped /\ \A d \in Calls : Active(d) => call[d].task # t
  BY DEF Invoke, Active
<1>2. Alone /\ (\A f : Counts(f)) /\ (\A u : IsHeld(u))
  BY <1>1, AloneIs
<1>3. /\ ~Active(c) /\ Active(c)' /\ call'[c].pc = "enqueued" /\ call'[c].task = t
      /\ \A d \in Calls : d # c => call'[d] = call[d]
  BY InvokeIs
<1>4. UNCHANGED <<staff, stranded>>
  BY DEF Invoke
<1>5. /\ QueueFits(queue') /\ t \in DOMAIN queue' /\ DOMAIN queue' = DOMAIN queue \cup {t}
      /\ \A u \in DOMAIN queue : queue'[u] = queue[u]
      /\ t \notin DOMAIN queue => queue'[t] = Enqueued
  <2>1. QueueFits(queue')
    BY InvokeMoves DEF CallMoves
  <2> QED BY <2>1 DEF Invoke, Put
<1>6. Alone'
  <2>1. ASSUME NEW d \in Calls, NEW f \in Calls, Active(d)', Active(f)',
               call'[d].task = call'[f].task
        PROVE  d = f
    BY <1>1, <1>2, <1>3, <2>1 DEF Alone, Active
  <2>2. ASSUME NEW d \in Calls, Active(d)'
        PROVE  queue'[call'[d].task].stage \in StageOf(call'[d].pc)
    <3>1. CASE d = c
      <4>1. queue'[t].stage \in Stages
        BY <1>5 DEF QueueFits, Records
      <4> QED BY <1>3, <3>1, <4>1, StageIs
    <3>2. CASE d # c
      <4>1. Active(d) /\ call'[d] = call[d]
        BY <1>3, <2>2, <3>2 DEF Active
      <4>2. call[d].task \in DOMAIN queue
        BY <4>1 DEF BaseInv, Types, CallFits
      <4> QED BY <1>2, <1>5, <4>1, <4>2 DEF Alone
    <3> QED BY <3>1, <3>2
  <2> QED BY <2>1, <2>2 DEF Alone
<1>7. ASSUME NEW f PROVE Counts(f)'
  <2>1. c \in Holding(f)' <=> c \in Holding(f)
    BY <1>3 DEF Holding, Active
  <2>2. Holding(f)' = Holding(f)
    BY <1>3, <2>1, SameHolders
  <2> QED BY <1>2, <1>4, <2>2 DEF Counts
<1>8. ASSUME NEW u PROVE IsHeld(u)'
  <2> SUFFICES ASSUME u \in DOMAIN queue', queue'[u].stage \in InFlight, u \notin stranded'
               PROVE  \E d \in Calls : Has(d, u)'
    BY DEF IsHeld
  <2>1. u \in DOMAIN queue
    BY <1>5 DEF Enqueued, InFlight
  <2>2. PICK d \in Calls : Has(d, u)
    BY <1>2, <1>4, <1>5, <2>1 DEF IsHeld
  <2>3. call'[d] = call[d]
    BY <1>3, <2>2 DEF Has
  <2> QED BY <2>2, <2>3 DEF Has, Active
<1> QED BY <1>6, <1>7, <1>8

\* The calls stay where they are, and so do the counts.
LEMMA AloneStays ==
  ASSUME BaseInv, AloneInv, UNCHANGED <<queue, overlapped, stranded>>,
         \A d \in Calls : Told(d),
         \A e \in DOMAIN staff' : IF e \in DOMAIN staff THEN staff'[e].active = staff[e].active
                                  ELSE staff'[e].active = 0
  PROVE  AloneInv'
<1> SUFFICES ASSUME ~overlapped'
             PROVE  Alone' /\ (\A f : Counts(f)') /\ (\A u : IsHeld(u)')
  BY MakesAlone
<1>1. Alone /\ (\A f : Counts(f)) /\ (\A u : IsHeld(u))
  BY AloneIs
<1>2. \A d \in Calls : /\ Active(d)' <=> Active(d)
                       /\ Active(d) => /\ call'[d].pc = call[d].pc
                                       /\ call'[d].task = call[d].task
                                       /\ call'[d].employee = call[d].employee
  BY DEF Told
<1>3. Alone'
  BY <1>1, <1>2 DEF Alone
<1>4. ASSUME NEW f PROVE Counts(f)'
  <2>1. Holding(f)' = Holding(f)
    BY <1>2 DEF Holding, Active
  <2>2. CASE f \in DOMAIN staff
    BY <1>1, <2>1, <2>2 DEF Counts
  <2>3. CASE f \notin DOMAIN staff
    <3>1. Holding(f) = {}
      BY <2>3 DEF Holding, BaseInv, Types, CallFits, Active, AtWork
    <3>2. Cardinality({}) = 0
      BY FS_EmptySet
    <3> QED BY <2>1, <2>3, <3>1, <3>2 DEF Counts
  <2> QED BY <2>2, <2>3
<1>5. ASSUME NEW u PROVE IsHeld(u)'
  BY <1>1, <1>2 DEF IsHeld, Has
<1> QED BY <1>3, <1>4, <1>5

LEMMA CallsAreTold == ASSUME BaseInv, call' = call PROVE \A d \in Calls : Told(d)
BY LeftIsTold DEF BaseInv

LEMMA RestartAlone == ASSUME BaseInv, Restart PROVE AloneInv'
<1>1. /\ \A d \in Calls : ~Active(d)'
      /\ \A e \in DOMAIN staff' : staff'[e].active = 0
  BY DEF Restart, Active
<1>2. Alone'
  BY <1>1 DEF Alone
<1>3. ASSUME NEW f PROVE Counts(f)'
  <2>1. Holding(f)' = {} /\ Cardinality({}) = 0
    BY <1>1, FS_EmptySet DEF Holding, Active
  <2> QED BY <1>1, <2>1 DEF Counts
<1>4. ASSUME NEW u PROVE IsHeld(u)'
  <2> SUFFICES ASSUME u \in DOMAIN queue' PROVE queue'[u].stage \notin InFlight
    BY DEF IsHeld
  <2>1. u \in DOMAIN stored.queue /\ TaskFits(stored.queue[u])
        /\ queue'[u] = Recovered(stored.queue[u])
    BY RestartRecovers
  <2> QED BY <2>1, RecoveredFits DEF InFlight
<1> QED BY <1>2, <1>3, <1>4, MakesAlone

LEMMA InitAlone == Init => AloneInv
<1> SUFFICES ASSUME Init PROVE AloneInv
  OBVIOUS
<1>1. DOMAIN queue = {} /\ DOMAIN staff = {} /\ \A d \in Calls : ~Active(d)
  BY DEF Init, Active
<1> QED BY <1>1, AloneIs DEF Alone, Counts, IsHeld

LEMMA AloneKept == BaseInv /\ AloneInv /\ [Next]_vars => AloneInv'
<1> SUFFICES ASSUME BaseInv, AloneInv, [Next]_vars PROVE AloneInv'
  OBVIOUS
<1>1. ASSUME NEW e \in Employees, RegisterEmployee(e) PROVE AloneInv'
  <2>1. /\ UNCHANGED <<queue, overlapped, stranded, call>>
        /\ \A f \in DOMAIN staff' : IF f \in DOMAIN staff THEN staff'[f].active = staff[f].active
                                    ELSE staff'[f].active = 0
    BY <1>1 DEF RegisterEmployee, Put
  <2> QED BY <2>1, CallsAreTold, AloneStays
<1>2. ASSUME NEW n \in Nodes, NEW status \in Health, Heartbeat(n, status) PROVE AloneInv'
  BY <1>2, HeartbeatMoves, CallsAreTold, AloneStays DEF RegistryMoves
<1>3. CASE SaveBegins \/ UNCHANGED vars
  <2>1. UNCHANGED <<queue, overlapped, stranded, call, staff>>
    BY <1>3 DEF SaveBegins, vars
  <2> QED BY <2>1, CallsAreTold, AloneStays
<1>4. CASE SaveEnds \/ SaveFails
  <2>1. UNCHANGED <<queue, overlapped, stranded, staff>>
    BY <1>4 DEF SaveEnds, SaveFails
  <2>2. \A d \in Calls : Told(d)
    BY <1>4, SaveEndsTells, SaveFailsTells
  <2> QED BY <2>1, <2>2, AloneStays
<1> QED BY <1>1, <1>2, <1>3, <1>4, StepAlone, InvokeAlone, RestartAlone DEF Next, Health

\* Unless two calls for one task overlapped or a call gave up over a failed
\* checkpoint, the registry's count of what an employee does is the truth.
THEOREM CountsStayTrue == Spec => []CountsAreTrue
<1>1. AloneInv => CountsAreTrue
  BY DEF AloneInv
<1> QED BY <1>1, InitBase, InitAlone, BaseKept, AloneKept, PTL DEF Spec

\* ... and a task that is assigned or running has a call that will end it.
THEOREM InFlightStaysHeld == Spec => []InFlightIsHeld
<1>1. AloneInv => InFlightIsHeld
  BY DEF AloneInv
<1> QED BY <1>1, InitBase, InitAlone, BaseKept, AloneKept, PTL DEF Spec
=============================================================================
