---------------------------- MODULE CoreJobs_proofs ----------------------------
(***************************************************************************)
(* For any jobs, resources, leases, loads and number of overlapping runs:  *)
(* a direct local action is never started twice (DirectOnce), the attempts *)
(* of a job stay within its budget (BudgetHolds), a resource has one user  *)
(* (SlotsExclude) and no slot is lost (NoSlotIsLost).  The invariants are  *)
(* built on each other: IInv is about direct actions alone, JobsInv adds   *)
(* that a job's row and its run agree, SlotsInv that runs and slots do.    *)
(***************************************************************************)
EXTENDS CoreJobs, FiniteSetTheorems, TLAPS

Maybe == Resources \cup {Nothing}

Statuses == {"queued", "running", "waiting", "done", "failed"}
JobRows == [status : Statuses, attempts : Int, waits : Int, lease : {"none", "live", "over"},
            res : Maybe]
Rows    == [job : Jobs, res : Maybe, attempts : Int]

\* What the steps need to know of the rows, without the bounds of TypeOK.
Shapes ==
  /\ job \in [Jobs -> JobRows]
  /\ run \in [Runs -> RunRecs \cup {Nothing}]
  /\ sweep \in [release : SUBSET Jobs, rows : SUBSET Rows, free : Maybe]
  /\ calls \in [Jobs -> Nat]

\* Where the run of a direct action stands: before it acts, and after.
Early == {"start", "fencing", "acting"}
Late  == {"acted", "accepted", "dead"}

Direct == {j \in Jobs : Kind[j] = "direct"}

NeverWaits == \A j \in Direct : job[j].status # "waiting"

\* A queued action has not been started, and nobody is at it: this is what a
\* second claim of it would need to be wrong.
QueuedIsFresh ==
  \A j \in Direct : job[j].status = "queued" =>
    calls[j] = 0 /\ \A x \in Runs : run[x] # Nothing => run[x].job # j

OneRunEach ==
  \A j \in Direct, x, y \in Runs :
    run[x] # Nothing /\ run[y] # Nothing /\ run[x].job = j /\ run[y].job = j => x = y

\* A run stands at a step of a direct action, and has not acted before "acted".
EarlyIsFresh ==
  \A x \in Runs : run[x] # Nothing /\ run[x].job \in Direct =>
    /\ run[x].pc \in Early \cup Late
    /\ run[x].pc \in Early => calls[run[x].job] = 0

StartedOnce == \A j \in Direct : calls[j] <= 1

IInv == Shapes /\ NeverWaits /\ QueuedIsFresh /\ OneRunEach /\ EarlyIsFresh /\ StartedOnce

-----------------------------------------------------------------------------
LEMMA InitOK == Init => IInv
<1> SUFFICES ASSUME Init PROVE IInv
  OBVIOUS
<1>1. Shapes
  <2>1. job \in [Jobs -> JobRows]
    BY DEF Init, JobRows, Maybe, Statuses
  <2>2. run \in [Runs -> RunRecs \cup {Nothing}] /\ calls \in [Jobs -> Nat]
    BY DEF Init
  <2>3. sweep \in [release : SUBSET Jobs, rows : SUBSET Rows, free : Maybe]
    BY DEF Init, Idle, Maybe
  <2> QED BY <2>1, <2>2, <2>3 DEF Shapes
<1>2. NeverWaits /\ QueuedIsFresh /\ OneRunEach /\ EarlyIsFresh /\ StartedOnce
  BY DEF Init, NeverWaits, QueuedIsFresh, OneRunEach, EarlyIsFresh, StartedOnce, Direct
<1> QED BY <1>1, <1>2 DEF IInv

\* A step that moves the runs of direct actions only forward, starts none of
\* them, and puts none of them back into the queue.
Forward ==
  /\ \A y \in Runs : run'[y] # Nothing =>
       /\ run[y] # Nothing /\ run'[y].job = run[y].job
       /\ run[y].job \in Direct =>
            run'[y].pc \in Late \/ (run[y].pc \in Early /\ run'[y].pc \in Early)
  /\ \A j \in Direct :
       /\ calls'[j] = calls[j]
       /\ job'[j].status = job[j].status \/ job'[j].status \notin {"queued", "waiting"}

LEMMA ForwardKeeps ==
  ASSUME IInv, Shapes', Forward
  PROVE  IInv'
<1> USE DEF Direct
<1>1. NeverWaits'
  BY DEF IInv, NeverWaits, Forward
<1>2. QueuedIsFresh'
  BY DEF IInv, QueuedIsFresh, Forward
<1>3. OneRunEach'
  BY DEF IInv, OneRunEach, Forward
<1>4. EarlyIsFresh'
  BY DEF IInv, Shapes, RunRecs, EarlyIsFresh, Forward, Early, Late
<1>5. StartedOnce'
  BY DEF IInv, StartedOnce, Forward
<1> QED BY <1>1, <1>2, <1>3, <1>4, <1>5 DEF IInv

-----------------------------------------------------------------------------
(* What a step of a run does to the runs. *)

Moved(x, pc) ==
  /\ run' \in [Runs -> RunRecs \cup {Nothing}]
  /\ \A y \in Runs : run'[y] # Nothing =>
       /\ run[y] # Nothing /\ run'[y].job = run[y].job
       /\ run'[y].pc = IF y = x THEN pc ELSE run[y].pc

LEMMA AtRuns == ASSUME Shapes, NEW x \in Busy PROVE x \in Runs /\ run[x] \in RunRecs /\ Job(x) \in Jobs
  BY DEF Shapes, Busy, Job, RunRecs

LEMMA GotoMoves ==
  ASSUME Shapes, NEW x \in Busy, NEW pc \in Pcs, Goto(x, pc)
  PROVE  Moved(x, pc)
<1>1. x \in Runs /\ run[x] \in RunRecs
  BY AtRuns
<1>2. [run[x] EXCEPT !.pc = pc] \in RunRecs
  BY <1>1 DEF RunRecs
<1> QED BY <1>1, <1>2 DEF Goto, Moved, Shapes, Busy, RunRecs

LEMMA FreshOK ==
  ASSUME NEW j \in Jobs, NEW n \in Int
  PROVE  Fresh(j, n) \in RunRecs /\ Fresh(j, n).job = j
  BY DEF Fresh, RunRecs, Maybe, Pcs

\* The same run, another field.
Same(q, p, pc) == q \in RunRecs /\ q.job = p.job /\ q.pc = pc

LEMMA PcField ==
  ASSUME NEW q \in RunRecs, NEW pc \in Pcs
  PROVE  Same([q EXCEPT !.pc = pc], q, pc)
  BY DEF RunRecs, Same

LEMMA LeftField ==
  ASSUME NEW q \in RunRecs, NEW n \in Int
  PROVE  Same([q EXCEPT !.left = n], q, q.pc)
  BY DEF RunRecs, Same

LEMMA TriedField ==
  ASSUME NEW q \in RunRecs, NEW t \in SUBSET Resources
  PROVE  Same([q EXCEPT !.tried = t], q, q.pc)
  BY DEF RunRecs, Same

LEMMA FixedField ==
  ASSUME NEW q \in RunRecs, NEW b \in BOOLEAN
  PROVE  Same([q EXCEPT !.fixed = b], q, q.pc)
  BY DEF RunRecs, Same

LEMMA PcResFields ==
  ASSUME NEW q \in RunRecs, NEW pc \in Pcs, NEW r \in Maybe
  PROVE  Same([q EXCEPT !.pc = pc, !.res = r], q, pc)
  BY DEF RunRecs, Maybe, Same

\* A run that is replaced by another record of the same job has moved.
LEMMA ReplacedMoves ==
  ASSUME Shapes, NEW x \in Busy, NEW q, NEW pc, Same(q, run[x], pc),
         run' = [run EXCEPT ![x] = q]
  PROVE  Moved(x, pc)
  BY AtRuns DEF Moved, Shapes, Busy, Same

LEMMA LeavesMoves ==
  ASSUME Shapes, NEW x \in Busy, NEW pc \in Pcs, Leaves(x, pc)
  PROVE  Moved(x, pc)
<1> DEFINE q == [Fresh(Job(x), 0) EXCEPT !.pc = pc]
<1>1. Fresh(Job(x), 0) \in RunRecs /\ Fresh(Job(x), 0).job = run[x].job
  BY AtRuns, FreshOK DEF Job
<1>2. Same(q, Fresh(Job(x), 0), pc)
  BY Zenon, <1>1, PcField
<1>3. run' = [run EXCEPT ![x] = q]
  BY Zenon DEF Leaves
<1> HIDE DEF q
<1> QED BY <1>1, <1>2, <1>3, ReplacedMoves DEF Same

LEMMA EndsMoves ==
  ASSUME Shapes, NEW x \in Busy, Ends(x), NEW pc
  PROVE  Moved(x, pc)
<1>1. x \in Runs
  BY AtRuns
<1> QED BY <1>1 DEF Ends, Moved, Shapes

LEMMA TakeSlotMoves ==
  ASSUME Shapes, NEW x \in Busy, NEW r \in Resources, TakeSlot(x, r)
  PROVE  Moved(x, "claimed") /\ UNCHANGED <<job, calls>>
<1>1. x \in Runs /\ run[x] \in RunRecs
  BY AtRuns
<1> DEFINE a == [run[x] EXCEPT !.pc = "claimed", !.res = r]
           b == [a EXCEPT !.tried = @ \cup {r}]
<1>2. "claimed" \in Pcs /\ r \in Maybe
  BY DEF Pcs, Maybe
<1>3. Same(a, run[x], "claimed")
  BY Zenon, <1>1, <1>2, PcResFields
<1>4. run' = [run EXCEPT ![x] = b]
  BY Zenon DEF TakeSlot, Holding
<1>7. UNCHANGED <<job, calls>>
  BY DEF TakeSlot
<1> HIDE DEF a
<1>5. a.tried \cup {r} \in SUBSET Resources
  BY <1>3 DEF RunRecs, Same
<1>6. Same(b, a, a.pc)
  BY Zenon, <1>3, <1>5, TriedField DEF Same
<1> HIDE DEF b
<1> QED BY <1>3, <1>4, <1>6, <1>7, ReplacedMoves DEF Same

LEMMA AgainMoves ==
  ASSUME Shapes, NEW x \in Busy, run' = [run EXCEPT ![x] = [Again(x) EXCEPT !.left = @ - 1]]
  PROVE  Moved(x, "start")
<1>1. x \in Runs /\ run[x] \in RunRecs
  BY AtRuns
<1> DEFINE b == [Again(x) EXCEPT !.left = @ - 1]
<1>2. "start" \in Pcs /\ Nothing \in Maybe
  BY DEF Pcs, Maybe
<1>3. Same(Again(x), run[x], "start")
  BY Zenon, <1>1, <1>2, PcResFields DEF Again
<1>4. Again(x).left - 1 \in Int
  BY <1>3 DEF RunRecs, Same
<1>5. Same(b, Again(x), Again(x).pc)
  BY Zenon, <1>3, <1>4, LeftField DEF Same
<1>6. run' = [run EXCEPT ![x] = b]
  BY Zenon
<1> HIDE DEF b
<1> QED BY <1>3, <1>5, <1>6, ReplacedMoves DEF Same

LEMMA SkipMoves ==
  ASSUME Shapes, NEW x \in Busy, At(x, "start"), NEW r \in Resources,
         run' = [run EXCEPT ![x] = Skipping(x, r)]
  PROVE  Moved(x, "start")
<1>1. x \in Runs /\ run[x] \in RunRecs /\ run[x].pc = "start"
  BY AtRuns DEF At
<1> DEFINE a == [run[x] EXCEPT !.left = @ - 1]
           b == [a EXCEPT !.tried = @ \cup {r}]
<1>2. run[x].left - 1 \in Int
  BY <1>1 DEF RunRecs
<1>3. Same(a, run[x], "start")
  BY Zenon, <1>1, <1>2, LeftField
<1>4. run' = [run EXCEPT ![x] = b]
  BY Zenon DEF Skipping
<1> HIDE DEF a
<1>5. a.tried \cup {r} \in SUBSET Resources
  BY <1>3 DEF RunRecs, Same
<1>6. Same(b, a, a.pc)
  BY Zenon, <1>3, <1>5, TriedField DEF Same
<1> HIDE DEF b
<1> QED BY <1>3, <1>4, <1>6, ReplacedMoves DEF Same

LEMMA CorrectMoves ==
  ASSUME Shapes, NEW x \in Busy, run' = [run EXCEPT ![x] = [Fresh(Job(x), 1) EXCEPT !.fixed = TRUE]]
  PROVE  Moved(x, "start")
<1> DEFINE q == [Fresh(Job(x), 1) EXCEPT !.fixed = TRUE]
<1>1. /\ Fresh(Job(x), 1) \in RunRecs /\ Fresh(Job(x), 1).job = run[x].job
      /\ Fresh(Job(x), 1).pc = "start"
  BY AtRuns, FreshOK DEF Job, Fresh
<1>2. Same(q, Fresh(Job(x), 1), Fresh(Job(x), 1).pc)
  BY Zenon, <1>1, FixedField
<1>3. run' = [run EXCEPT ![x] = q]
  BY Zenon
<1> HIDE DEF q
<1> QED BY <1>1, <1>2, <1>3, ReplacedMoves DEF Same

-----------------------------------------------------------------------------
(* What the statements make of a row. *)

LEMMA Settling ==
  ASSUME Shapes, NEW j \in Jobs, NEW st \in Statuses
  PROVE  Settled(j, st) \in JobRows /\ Settled(j, st).status = st
  BY DEF Shapes, JobRows, Settled

\* A row with this status.
HasStatus(w, st) == w \in JobRows /\ w.status = st

LEMMA WaitsResFields ==
  ASSUME NEW w \in JobRows, NEW n \in Int, NEW r \in Maybe
  PROVE  HasStatus([w EXCEPT !.waits = n, !.res = r], w.status)
  BY DEF JobRows, HasStatus

LEMMA ResAttemptsFields ==
  ASSUME NEW w \in JobRows, NEW n \in Int, NEW r \in Maybe
  PROVE  HasStatus([w EXCEPT !.res = r, !.attempts = n], w.status)
  BY DEF JobRows, HasStatus

LEMMA RowsOK ==
  ASSUME Shapes, NEW j \in Jobs, NEW r \in Maybe, NEW n \in Int
  PROVE  /\ Done(j, r) \in JobRows /\ Done(j, r).status = "done"
         /\ Called(j, r) \in JobRows /\ Called(j, r).status = job[j].status
         /\ Tried(j) \in JobRows /\ Tried(j).status = job[j].status
         /\ Waiting(j) \in JobRows /\ Waiting(j).status = "waiting"
         /\ \A st \in Statuses : Recovered(j, st, n) \in JobRows /\ Recovered(j, st, n).status = st
<1> USE DEF Statuses
<1>1. job[j] \in JobRows
  BY DEF Shapes
<1>2. Done(j, r) \in JobRows /\ Done(j, r).status = "done"
  <2>1. Settled(j, "done") \in JobRows /\ Settled(j, "done").status = "done" /\ 0 \in Int
    BY Settling
  <2> QED BY Zenon, <2>1, WaitsResFields DEF Done, HasStatus
<1>3. Called(j, r) \in JobRows /\ Called(j, r).status = job[j].status
  BY <1>1 DEF Called, JobRows
<1>4. Tried(j) \in JobRows /\ Tried(j).status = job[j].status
  BY <1>1 DEF Tried, JobRows
<1>5. Waiting(j) \in JobRows /\ Waiting(j).status = "waiting"
  BY Settling DEF Waiting, JobRows
<1>6. ASSUME NEW st \in Statuses
      PROVE  Recovered(j, st, n) \in JobRows /\ Recovered(j, st, n).status = st
  <2>1. Settled(j, st) \in JobRows /\ Settled(j, st).status = st /\ Nothing \in Maybe
    BY Settling DEF Maybe
  <2> QED BY Zenon, <2>1, ResAttemptsFields DEF Recovered, HasStatus
<1> QED BY <1>2, <1>3, <1>4, <1>5, <1>6

\* One statement changes one row.
Updated(j, st) ==
  /\ job' \in [Jobs -> JobRows]
  /\ \A i \in Jobs : job'[i].status = IF i = j THEN st ELSE job[i].status

LEMMA UpdateOK ==
  ASSUME Shapes, NEW j \in Jobs, NEW row \in JobRows, Update(j, row)
  PROVE  Updated(j, row.status)
  BY DEF Shapes, Update, Updated

-----------------------------------------------------------------------------
(* The steps. *)

\* Most steps of a run: whatever it does to its job, it moves on.
LEMMA MovingKeeps ==
  ASSUME IInv, NEW x \in Busy, NEW pc, Moved(x, pc), Shapes',
         Job(x) \in Direct => pc \in Late \/ (run[x].pc \in Early /\ pc \in Early),
         \A j \in Direct : calls'[j] = calls[j],
         \A j \in Direct : job'[j].status = job[j].status \/ job'[j].status \notin {"queued", "waiting"}
  PROVE  IInv'
<1>1. \A y \in Runs : run'[y] # Nothing /\ run[y].job \in Direct =>
         run'[y].pc \in Late \/ (run[y].pc \in Early /\ run'[y].pc \in Early)
  <2> SUFFICES ASSUME NEW y \in Runs, run'[y] # Nothing, run[y].job \in Direct
               PROVE  run'[y].pc \in Late \/ (run[y].pc \in Early /\ run'[y].pc \in Early)
    OBVIOUS
  <2>1. CASE y = x
    BY <2>1 DEF Moved, Job
  <2>2. CASE y # x
    BY <2>2 DEF Moved, IInv, EarlyIsFresh
  <2> QED BY <2>1, <2>2
<1>2. Forward
  BY <1>1 DEF Forward, Moved
<1> QED BY <1>2, ForwardKeeps

\* Steps that leave the runs where they are, or end them all.
LEMMA RestingKeeps ==
  ASSUME IInv, Shapes',
         UNCHANGED run \/ run' = [x \in Runs |-> Nothing],
         UNCHANGED calls,
         \A j \in Direct : job'[j].status = job[j].status \/ job'[j].status \notin {"queued", "waiting"}
  PROVE  IInv'
<1>1. Forward
  BY DEF IInv, EarlyIsFresh, Forward
<1> QED BY <1>1, ForwardKeeps

\* A step of a run that moves it and leaves its job's row and calls alone.
LEMMA OnlyMovingKeeps ==
  ASSUME IInv, NEW x \in Busy, NEW pc, Moved(x, pc), UNCHANGED <<job, calls, sweep>>,
         Job(x) \in Direct => pc \in Late \/ (run[x].pc \in Early /\ pc \in Early)
  PROVE  IInv'
<1>1. Shapes'
  BY DEF IInv, Shapes, Moved
<1> QED BY <1>1, MovingKeeps

\* ... or one that also gives the row another status, but not one to claim it by.
LEMMA UpdatingKeeps ==
  ASSUME IInv, NEW x \in Busy, NEW pc, Moved(x, pc), UNCHANGED <<calls, sweep>>,
         NEW row \in JobRows, Update(Job(x), row),
         Job(x) \in Direct => pc \in Late \/ (run[x].pc \in Early /\ pc \in Early),
         Job(x) \in Direct => row.status = job[Job(x)].status \/ row.status \notin {"queued", "waiting"}
  PROVE  IInv'
<1>1. Shapes /\ Job(x) \in Jobs
  BY AtRuns DEF IInv
<1>2. Updated(Job(x), row.status)
  BY <1>1, UpdateOK
<1>3. Shapes'
  BY <1>1, <1>2 DEF Shapes, Moved, Updated
<1>4. \A j \in Direct : job'[j].status = job[j].status \/ job'[j].status \notin {"queued", "waiting"}
  BY <1>2 DEF Updated, Direct
<1> QED BY <1>3, <1>4, MovingKeeps

\* The steps of a run that routes to resources, which no direct action takes.
LEMMA RoutedKeeps ==
  ASSUME IInv, NEW x \in Busy, InRun(x),
         \/ \E r \in Resources : Route(x, r) \/ Unlisted(x, r)
         \/ Answered(x) \/ Unanswered(x) \/ Contended(x) \/ NoResource(x) \/ Correct(x)
         \/ ClaimOpenClaw(x) \/ OpenClawBusy(x) \/ LeaveOpenClaw(x) \/ DispatchFails(x)
         \/ ClearedTwice(x) \/ Breaks(x) \/ SlotLeft(x) \/ HalfAnswered(x)
  PROVE  IInv'
<1> USE DEF Pcs
<1>1. Shapes /\ x \in Runs /\ Job(x) \in Jobs /\ UNCHANGED sweep
  BY AtRuns DEF IInv, RunStep, InRun
<1>2. run[x].pc \notin Early \cup Late => Job(x) \notin Direct
  BY <1>1 DEF IInv, EarlyIsFresh, Busy, Job
<1>3. ASSUME NEW r \in Resources, Route(x, r) \/ (ClaimOpenClaw(x) /\ r = OpenClaw)
      PROVE  IInv'
  <2>1. TakeSlot(x, r) /\ Job(x) \notin Direct
    BY <1>3 DEF Route, ClaimOpenClaw, Direct
  <2> QED BY <1>1, <2>1, TakeSlotMoves, OnlyMovingKeeps
<1>4. CASE Answered(x)
  <2>1. Moved(x, "answered")
    BY <1>1, <1>4, GotoMoves DEF Answered
  <2> QED BY <1>1, <1>4, <2>1, OnlyMovingKeeps DEF Answered, Calling, Direct
<1>5. CASE Unanswered(x) \/ ClearedTwice(x)
  <2>1. Moved(x, "start") \/ Moved(x, "refused")
    BY <1>1, <1>5, AgainMoves, LeavesMoves DEF Unanswered, ClearedTwice, FailsOver
  <2>2. Job(x) \notin Direct
    BY <1>2, <1>5 DEF Unanswered, ClearedTwice, Calling, At, Early, Late
  <2> QED BY <1>1, <1>5, <2>1, <2>2, OnlyMovingKeeps DEF Unanswered, ClearedTwice
<1>6. CASE Contended(x) \/ NoResource(x)
  <2>1. Moved(x, "refused")
    BY <1>1, <1>6, LeavesMoves DEF Contended, NoResource
  <2> QED BY <1>1, <1>6, <2>1, OnlyMovingKeeps DEF Contended, NoResource, Direct
<1>7. CASE Correct(x)
  <2>1. Moved(x, "start")
    BY <1>1, <1>7, CorrectMoves DEF Correct
  <2>2. Job(x) \notin Direct
    BY <1>2, <1>7 DEF Correct, At, Early, Late
  <2> QED BY <1>1, <1>7, <2>1, <2>2, OnlyMovingKeeps DEF Correct
<1>8. CASE OpenClawBusy(x)
  <2>1. Moved(x, "retry")
    BY <1>1, <1>8, LeavesMoves DEF OpenClawBusy
  <2> QED BY <1>1, <1>8, <2>1, OnlyMovingKeeps DEF OpenClawBusy, Direct
<1>9. CASE LeaveOpenClaw(x)
  <2>1. Moved(x, "leaving")
    BY <1>1, <1>9, EndsMoves DEF LeaveOpenClaw
  <2>2. Job(x) \notin Direct
    BY <1>2, <1>9 DEF LeaveOpenClaw, At, Early, Late
  <2> QED BY <1>1, <1>9, <2>1, <2>2, OnlyMovingKeeps DEF LeaveOpenClaw
<1>10. CASE DispatchFails(x)
  <2>1. Moved(x, "retry") \/ Moved(x, "dead")
    BY <1>1, <1>10, LeavesMoves DEF DispatchFails
  <2> QED BY <1>1, <1>10, <2>1, OnlyMovingKeeps DEF DispatchFails, Direct
<1>11. CASE Breaks(x)
  <2>1. Moved(x, "dead")
    BY <1>1, <1>11, LeavesMoves DEF Breaks
  <2> QED BY <1>1, <1>11, <2>1, OnlyMovingKeeps DEF Breaks, Late
<1>12. ASSUME NEW r \in Resources, Unlisted(x, r) PROVE IInv'
  <2>1. Moved(x, "start") /\ Job(x) \notin Direct
    BY <1>1, <1>12, SkipMoves DEF Unlisted, At, Direct
  <2> QED BY <1>1, <1>12, <2>1, OnlyMovingKeeps DEF Unlisted
<1>13. CASE SlotLeft(x)
  <2>1. Moved(x, "retry") \/ Moved(x, "dead") \/ Moved(x, "leaving")
    BY <1>1, <1>13, LeavesMoves, EndsMoves DEF SlotLeft
  <2>2. Job(x) \notin Direct
    BY <1>2, <1>13 DEF SlotLeft, At, Early, Late
  <2> QED BY <1>1, <1>13, <2>1, <2>2, OnlyMovingKeeps DEF SlotLeft
<1>14. CASE HalfAnswered(x)
  <2>1. Moved(x, "marking")
    BY <1>1, <1>14, GotoMoves DEF HalfAnswered
  <2> QED BY <1>1, <1>14, <2>1, OnlyMovingKeeps DEF HalfAnswered, Calling, Direct
<1> QED BY <1>3, <1>4, <1>5, <1>6, <1>7, <1>8, <1>9, <1>10, <1>11, <1>12, <1>13, <1>14,
        OpenClawIsResource

\* The provider is called: another job's calls are left alone.
LEMMA CallKeeps == ASSUME IInv, NEW x \in Busy, Call(x) PROVE IInv'
<1>1. Shapes /\ x \in Runs /\ run[x] \in RunRecs /\ Job(x) \in Jobs /\ UNCHANGED sweep
  BY AtRuns DEF IInv, Call, RunStep, InRun
<1>2. Job(x) \notin Direct
  BY <1>1 DEF IInv, EarlyIsFresh, Busy, Job, Call, At, Early, Late
<1>3. Moved(x, "calling")
  BY <1>1, GotoMoves DEF Call, Pcs
<1> DEFINE w == Called(Job(x), run[x].res)
           row == [w EXCEPT !.attempts = @ + 1]
<1>4. w \in JobRows
  BY <1>1, RowsOK DEF RunRecs, Maybe
<1>5. Update(Job(x), row)
  BY Zenon DEF Call
<1> HIDE DEF w
<1>6. row \in JobRows
  BY <1>4 DEF JobRows
<1> HIDE DEF row
<1>7. Updated(Job(x), row.status)
  BY <1>1, <1>5, <1>6, UpdateOK
<1>8. calls' = [calls EXCEPT ![Job(x)] = @ + 1]
  BY DEF Call
<1>9. Shapes' /\ \A j \in Direct : calls'[j] = calls[j]
  BY <1>1, <1>2, <1>3, <1>7, <1>8 DEF Shapes, Moved, Updated, Direct
<1>10. \A j \in Direct : job'[j].status = job[j].status \/ job'[j].status \notin {"queued", "waiting"}
  BY <1>2, <1>7 DEF Updated, Direct
<1> QED BY <1>2, <1>3, <1>9, <1>10, MovingKeeps

\* ... and once more, for the same attempt.
LEMMA CallAgainKeeps == ASSUME IInv, NEW x \in Busy, CallAgain(x) PROVE IInv'
<1>1. Shapes /\ x \in Runs /\ run[x] \in RunRecs /\ Job(x) \in Jobs /\ UNCHANGED <<sweep, job>>
  BY AtRuns DEF IInv, CallAgain, RunStep, InRun
<1>2. Job(x) \notin Direct
  BY DEF CallAgain, Direct
<1>3. Moved(x, "recalling")
  BY <1>1, GotoMoves DEF CallAgain, Pcs
<1>4. calls' = [calls EXCEPT ![Job(x)] = @ + 1]
  BY DEF CallAgain
<1>5. Shapes' /\ \A j \in Direct : calls'[j] = calls[j]
  BY <1>1, <1>2, <1>3, <1>4 DEF Shapes, Moved, Direct
<1> QED BY <1>1, <1>2, <1>3, <1>5, MovingKeeps

\* A direct action starts: it is the first time, and its run is the only one.
LEMMA ActKeeps == ASSUME IInv, NEW x \in Busy, Act(x) PROVE IInv'
<1>1. Shapes /\ x \in Runs /\ run[x] \in RunRecs /\ Job(x) \in Jobs /\ UNCHANGED <<sweep, job>>
  BY AtRuns DEF IInv, Act, RunStep, InRun
<1>2. Moved(x, "acted")
  BY <1>1, GotoMoves DEF Act, Pcs
<1>3. calls' = [calls EXCEPT ![Job(x)] = @ + 1]
  BY DEF Act
<1>4. Job(x) \in Direct => calls[Job(x)] = 0 /\ job[Job(x)].status # "queued"
  BY <1>1 DEF IInv, EarlyIsFresh, QueuedIsFresh, Early, Act, At, Busy, Job
<1>5. Shapes'
  BY <1>1, <1>2, <1>3 DEF Shapes, Moved
<1>6. NeverWaits' /\ StartedOnce'
  BY <1>1, <1>3, <1>4 DEF IInv, Shapes, NeverWaits, StartedOnce, Direct
<1>7. QueuedIsFresh'
  BY <1>1, <1>2, <1>3, <1>4 DEF IInv, Shapes, QueuedIsFresh, Moved, Direct
<1>8. OneRunEach'
  BY <1>1, <1>2 DEF IInv, OneRunEach, Moved
<1>9. EarlyIsFresh'
  <2> SUFFICES ASSUME NEW y \in Runs, run'[y] # Nothing, run'[y].job \in Direct
               PROVE  /\ run'[y].pc \in Early \cup Late
                      /\ run'[y].pc \in Early => calls'[run'[y].job] = 0
    BY DEF EarlyIsFresh, Direct
  <2>1. CASE y = x
    BY <1>2, <2>1 DEF Moved, Early, Late
  <2>2. CASE y # x
    <3>1. run[y].job # Job(x)
      BY <1>1, <1>2, <2>2 DEF IInv, OneRunEach, Moved, Busy, Job
    <3> QED BY <1>1, <1>2, <1>3, <2>2, <3>1 DEF IInv, Shapes, EarlyIsFresh, Moved, Direct
  <2> QED BY <2>1, <2>2
<1> QED BY <1>5, <1>6, <1>7, <1>8, <1>9 DEF IInv

\* The steps in which a run writes the row of its job, or is a direct action's.
LEMMA WritingKeeps ==
  ASSUME IInv, NEW x \in Busy, InRun(x),
         \/ Finish(x) \/ Wait(x) \/ GiveUp(x) \/ GatewayDown(x) \/ Dispatched(x) \/ Retry(x)
         \/ Admit(x) \/ Fence(x) \/ Acted(x) \/ Accepted(x)
  PROVE  IInv'
<1> USE DEF Pcs, Statuses
<1>1. Shapes /\ x \in Runs /\ run[x] \in RunRecs /\ Job(x) \in Jobs /\ UNCHANGED sweep
  BY AtRuns DEF IInv, InRun
<1>2. run[x].pc \notin Early \cup Late => Job(x) \notin Direct
  BY <1>1 DEF IInv, EarlyIsFresh, Busy, Job
<1>3. run[x].res \in Maybe /\ OpenClaw \in Maybe /\ Nothing \in Maybe
  BY <1>1, OpenClawIsResource DEF RunRecs, Maybe
<1>4. CASE Finish(x)
  <2>1. Moved(x, "done") /\ Done(Job(x), run[x].res) \in JobRows
    BY <1>1, <1>3, <1>4, EndsMoves, RowsOK DEF Finish
  <2>2. Job(x) \notin Direct
    BY <1>2, <1>4 DEF Finish, At, Early, Late
  <2> QED BY <1>1, <1>4, <2>1, <2>2, UpdatingKeeps DEF Finish
<1>5. CASE Wait(x)
  <2>1. Moved(x, "done") /\ Waiting(Job(x)) \in JobRows
    BY <1>1, <1>3, <1>5, EndsMoves, RowsOK DEF Wait
  <2>2. Job(x) \notin Direct
    BY <1>2, <1>5 DEF Wait, At, Early, Late
  <2> QED BY <1>1, <1>5, <2>1, <2>2, UpdatingKeeps DEF Wait
<1>6. CASE GiveUp(x)
  <2>1. Moved(x, "dead")
    BY <1>1, <1>6, EndsMoves DEF GiveUp
  <2>2. Settled(Job(x), "failed") \in JobRows /\ Settled(Job(x), "failed").status = "failed"
    BY <1>1, Settling
  <2> QED BY <1>1, <1>6, <2>1, <2>2, UpdatingKeeps DEF GiveUp, Late
<1>7. CASE GatewayDown(x)
  <2>1. Moved(x, "retry") /\ Tried(Job(x)) \in JobRows
    BY <1>1, <1>3, <1>7, LeavesMoves, RowsOK DEF GatewayDown
  <2> QED BY <1>1, <1>7, <2>1, UpdatingKeeps DEF GatewayDown, Direct
<1>8. CASE Dispatched(x)
  <2>1. Moved(x, "leaving") /\ Done(Job(x), OpenClaw) \in JobRows
    BY <1>1, <1>3, <1>8, GotoMoves, RowsOK DEF Dispatched
  <2> QED BY <1>1, <1>8, <2>1, UpdatingKeeps DEF Dispatched, Direct
<1>9. CASE Retry(x)
  <2>1. Job(x) \notin Direct
    BY <1>2, <1>9 DEF Retry, At, Early, Late
  <2>2. CASE job[Job(x)].attempts < MaxAttempts
    <3>1. Moved(x, "done") /\ Settled(Job(x), "waiting") \in JobRows
      BY <1>1, <1>9, <2>2, EndsMoves, Settling DEF Retry
    <3> QED BY <1>1, <1>9, <2>1, <2>2, <3>1, UpdatingKeeps DEF Retry
  <2>3. CASE ~(job[Job(x)].attempts < MaxAttempts)
    <3>1. Moved(x, "dead")
      BY <1>1, <1>9, <2>3, GotoMoves DEF Retry
    <3> QED BY <1>1, <1>9, <2>1, <2>3, <3>1, OnlyMovingKeeps DEF Retry
  <2> QED BY <2>2, <2>3
<1>10. CASE Admit(x)
  <2>1. PICK pc \in {"fencing", "acting"} : Goto(x, pc)
    BY <1>10 DEF Admit
  <2>2. Moved(x, pc)
    BY <1>1, <2>1, GotoMoves
  <2>3. Tried(Job(x)) \in JobRows /\ Tried(Job(x)).status = job[Job(x)].status
    BY <1>1, <1>3, RowsOK
  <2> QED BY <1>1, <1>10, <2>2, <2>3, UpdatingKeeps DEF Admit, At, Early
<1>11. CASE Fence(x)
  <2>1. PICK pc \in {"acting", "dead"} : Goto(x, pc)
    BY <1>11 DEF Fence
  <2>2. Moved(x, pc)
    BY <1>1, <2>1, GotoMoves
  <2> QED BY <1>1, <1>11, <2>2, OnlyMovingKeeps DEF Fence, At, Early, Late
<1>12. CASE Acted(x)
  <2>1. PICK pc \in {"accepted", "dead"} : Goto(x, pc)
    BY <1>12 DEF Acted
  <2>2. Moved(x, pc)
    BY <1>1, <2>1, GotoMoves
  <2> QED BY <1>1, <1>12, <2>2, OnlyMovingKeeps DEF Acted, Late
<1>13. CASE Accepted(x)
  <2>1. Moved(x, "accepted")
    BY <1>1, <1>13, EndsMoves DEF Accepted
  <2>2. Done(Job(x), Nothing) \in JobRows /\ Done(Job(x), Nothing).status = "done"
    BY <1>1, <1>3, RowsOK
  <2> QED BY <1>1, <1>13, <2>1, <2>2, UpdatingKeeps DEF Accepted, Late
<1> QED BY <1>4, <1>5, <1>6, <1>7, <1>8, <1>9, <1>10, <1>11, <1>12, <1>13

\* claimJob: a direct action is claimed from the queue only, so afresh.
LEMMA ClaimKeeps == ASSUME IInv, NEW x \in Runs, NEW j \in Jobs, Claim(x, j) PROVE IInv'
<1> DEFINE n == IF Kind[j] = "ai" THEN Budget(j) ELSE 0
           row == [job[j] EXCEPT !.status = "running", !.lease = "live"]
<1>1. Shapes /\ job[j] \in JobRows /\ x \notin Busy
  BY DEF IInv, Shapes, Claim
<1>2. n \in Int
  BY <1>1, AttemptsAreCounted DEF Budget, JobRows
<1> HIDE DEF n
<1>3. Fresh(j, n) \in RunRecs /\ Fresh(j, n).job = j /\ Fresh(j, n).pc = "start"
  BY <1>2, FreshOK DEF Fresh
<1>4. run' = [run EXCEPT ![x] = Fresh(j, n)]
  BY DEF Claim, n
<1>5. row \in JobRows /\ row.status = "running"
  BY <1>1 DEF JobRows, Statuses
<1>6. Update(j, row) /\ UNCHANGED <<sweep, calls>>
  BY DEF Claim
<1> HIDE DEF row
<1>7. Updated(j, "running")
  BY <1>1, <1>5, <1>6, UpdateOK
<1>8. Shapes'
  BY <1>1, <1>3, <1>4, <1>6, <1>7 DEF Shapes, Updated
<1>9. /\ run'[x].job = j /\ run'[x].pc = "start"
      /\ \A y \in Runs : y # x => run'[y] = run[y]
  BY <1>1, <1>3, <1>4 DEF Shapes
<1>10. j \in Direct => job[j].status = "queued"
  BY DEF IInv, NeverWaits, Claim
<1>11. j \in Direct => calls[j] = 0 /\ \A y \in Runs : run[y] # Nothing => run[y].job # j
  BY <1>10 DEF IInv, QueuedIsFresh
<1>12. NeverWaits' /\ StartedOnce'
  BY <1>6, <1>7 DEF IInv, NeverWaits, StartedOnce, Updated, Direct
<1>13. QueuedIsFresh'
  BY <1>6, <1>7, <1>9 DEF IInv, QueuedIsFresh, Updated, Direct
<1>14. OneRunEach'
  BY <1>9, <1>11 DEF IInv, OneRunEach, Direct
<1>15. EarlyIsFresh'
  BY <1>6, <1>9, <1>11 DEF IInv, EarlyIsFresh, Direct, Early
<1> QED BY <1>8, <1>12, <1>13, <1>14, <1>15 DEF IInv

\* The sweep and the restart never queue a direct action again.
LEMMA RecoveryKeeps ==
  ASSUME IInv,
         \/ FailExhausted \/ \E j \in Jobs : ReleaseExhausted(j)
         \/ ReadStale \/ \E w \in sweep.rows : RecoverStaleRow(w) \/ RecoverBootRow(w)
         \/ FreeNamedSlot \/ Crash \/ Boot \/ Booted \/ SweepFails \/ BootFails
  PROVE  IInv'
<1> USE DEF Statuses
<1>1. Shapes
  BY DEF IInv
<1>2. \A j \in Jobs : Row(j) \in Rows
  BY <1>1 DEF Shapes, Row, Rows, JobRows
<1>3. \A j \in Jobs : Settled(j, "failed") \in JobRows /\ Settled(j, "failed").status = "failed"
  BY <1>1, Settling
<1>4. CASE FailExhausted
  <2>1. job' \in [Jobs -> JobRows]
    BY <1>1, <1>3, <1>4 DEF FailExhausted, Shapes
  <2>2. sweep' \in [release : SUBSET Jobs, rows : SUBSET Rows, free : Maybe]
    BY <1>1, <1>4 DEF FailExhausted, Shapes
  <2>3. Shapes' /\ UNCHANGED <<run, calls>>
    BY <1>1, <1>4, <2>1, <2>2 DEF FailExhausted, Shapes
  <2>4. \A j \in Jobs : job'[j].status = job[j].status \/ job'[j].status = "failed"
    BY <1>3, <1>4 DEF FailExhausted
  <2> QED BY <2>3, <2>4, RestingKeeps DEF Direct
<1>5. ASSUME NEW j \in Jobs, ReleaseExhausted(j) PROVE IInv'
  <2>1. sweep' \in [release : SUBSET Jobs, rows : SUBSET Rows, free : Maybe]
    BY <1>1, <1>5 DEF ReleaseExhausted, Shapes
  <2>2. Shapes' /\ UNCHANGED <<run, job, calls>>
    BY <1>1, <1>5, <2>1 DEF ReleaseExhausted, Shapes
  <2> QED BY <2>2, RestingKeeps
<1>6. CASE ReadStale
  <2>1. sweep' \in [release : SUBSET Jobs, rows : SUBSET Rows, free : Maybe]
    BY <1>1, <1>2, <1>6 DEF ReadStale, Shapes
  <2>2. Shapes' /\ UNCHANGED <<run, job, calls>>
    BY <1>1, <1>6, <2>1 DEF ReadStale, Shapes
  <2> QED BY <2>2, RestingKeeps
<1>7. ASSUME NEW w \in sweep.rows, RecoverStaleRow(w) \/ RecoverBootRow(w) PROVE IInv'
  <2>1. w \in Rows /\ w.job \in Jobs /\ w.res \in Maybe /\ w.attempts \in Int /\ Nothing \in Maybe
    BY <1>1 DEF Shapes, Rows, Maybe
  <2>2. w.attempts + 1 \in Int /\ job[w.job].attempts \in Int
    BY <1>1, <2>1 DEF Shapes, JobRows
  <2>3. PICK row \in JobRows :
          Update(w.job, row) /\ (w.job \in Direct => row.status = "failed")
    <3> DEFINE a == IF Kind[w.job] = "direct" \/ w.attempts + 1 >= MaxAttempts THEN "failed" ELSE "queued"
               b == IF Kind[w.job] = "direct" THEN "failed" ELSE "queued"
               n == IF Kind[w.job] = "direct" THEN job[w.job].attempts ELSE w.attempts + 1
    <3>1. /\ Recovered(w.job, a, n) \in JobRows /\ Recovered(w.job, a, n).status = a
          /\ Recovered(w.job, b, w.attempts) \in JobRows /\ Recovered(w.job, b, w.attempts).status = b
      <4>1. a \in Statuses /\ b \in Statuses /\ n \in Int
        BY <2>2
      <4> HIDE DEF a, b, n
      <4> QED BY <1>1, <2>1, <4>1, RowsOK
    <3>2. w.job \in Direct => a = "failed" /\ b = "failed"
      BY DEF Direct
    <3>3. CASE RecoverStaleRow(w)
      <4>1. Update(w.job, Recovered(w.job, a, n))
        BY <3>3 DEF RecoverStaleRow, Update
      <4> HIDE DEF a, n
      <4> QED BY <3>1, <3>2, <4>1
    <3>4. CASE RecoverBootRow(w)
      <4>1. Update(w.job, Recovered(w.job, b, w.attempts))
        BY <3>4 DEF RecoverBootRow
      <4> HIDE DEF b
      <4> QED BY <3>1, <3>2, <4>1
    <3> QED BY <1>7, <3>3, <3>4
  <2>4. Updated(w.job, row.status)
    BY <1>1, <2>1, <2>3, UpdateOK
  <2>5. sweep' \in [release : SUBSET Jobs, rows : SUBSET Rows, free : Maybe]
    BY <1>1, <1>7, <2>1 DEF RecoverStaleRow, RecoverBootRow, Shapes
  <2>6. Shapes' /\ UNCHANGED <<run, calls>>
    BY <1>1, <1>7, <2>4, <2>5 DEF RecoverStaleRow, RecoverBootRow, Shapes, Updated
  <2> QED BY <2>3, <2>4, <2>6, RestingKeeps DEF Updated, Direct
<1>8. CASE FreeNamedSlot
  <2>1. sweep' \in [release : SUBSET Jobs, rows : SUBSET Rows, free : Maybe]
    BY <1>1, <1>8 DEF FreeNamedSlot, Shapes, Maybe
  <2>2. Shapes' /\ UNCHANGED <<run, job, calls>>
    BY <1>1, <1>8, <2>1 DEF FreeNamedSlot, Shapes
  <2> QED BY <2>2, RestingKeeps
<1>9. CASE Crash
  <2>1. Idle \in [release : SUBSET Jobs, rows : SUBSET Rows, free : Maybe]
    BY DEF Idle, Maybe
  <2>2. Shapes' /\ run' = [x \in Runs |-> Nothing] /\ UNCHANGED <<job, calls>>
    BY <1>1, <1>9, <2>1 DEF Crash, Shapes
  <2> QED BY <2>2, RestingKeeps
<1>10. CASE Boot
  <2>1. job' \in [Jobs -> JobRows]
    BY <1>1, <1>3, <1>10 DEF Boot, FailCutOff, CutOff, Shapes
  <2>2. sweep' \in [release : SUBSET Jobs, rows : SUBSET Rows, free : Maybe]
    BY <1>2, <1>10 DEF Boot, Idle, Maybe
  <2>3. Shapes' /\ UNCHANGED <<run, calls>>
    BY <1>1, <1>10, <2>1, <2>2 DEF Boot, Shapes
  <2>4. \A j \in Jobs : job'[j].status = job[j].status \/ job'[j].status = "failed"
    BY <1>3, <1>10 DEF Boot, FailCutOff
  <2> QED BY <2>3, <2>4, RestingKeeps DEF Direct
<1>11. CASE Booted
  <2>1. Shapes' /\ UNCHANGED <<run, job, calls>>
    BY <1>1, <1>11 DEF Booted, Shapes
  <2> QED BY <2>1, RestingKeeps
<1>12. CASE SweepFails
  <2>1. Idle \in [release : SUBSET Jobs, rows : SUBSET Rows, free : Maybe]
    BY DEF Idle, Maybe
  <2>2. Shapes' /\ UNCHANGED <<run, job, calls>>
    BY <1>1, <1>12, <2>1 DEF SweepFails, Shapes
  <2> QED BY <2>2, RestingKeeps
<1>13. CASE BootFails
  <2>1. CutOff \subseteq Jobs
    BY DEF CutOff
  <2>2. job' \in [Jobs -> JobRows]
    BY <1>1, <1>3, <1>13 DEF BootFails, FailCutOff, Shapes
  <2>3. sweep' \in [release : SUBSET Jobs, rows : SUBSET Rows, free : Maybe]
    BY <1>1, <1>2, <1>13, <2>1 DEF BootFails, Shapes
  <2>4. Shapes' /\ UNCHANGED <<run, calls>>
    BY <1>1, <1>13, <2>2, <2>3 DEF BootFails, Shapes
  <2>5. \A j \in Jobs : job'[j].status = job[j].status \/ job'[j].status = "failed"
    BY <1>3, <1>13 DEF BootFails, FailCutOff
  <2> QED BY <2>4, <2>5, RestingKeeps DEF Direct
<1> QED BY <1>4, <1>5, <1>6, <1>7, <1>8, <1>9, <1>10, <1>11, <1>12, <1>13

\* Every step of a run is one of a run under way, and all but one leave the failed
\* statements' history alone.
LEMMA RunNextRuns ==
  ASSUME NEW x \in Runs, RunNext(x)
  PROVE  x \in Busy /\ InRun(x) /\ (RunStep(x) \/ ClearedTwice(x))
<1>1. CASE ClearedTwice(x)
  BY <1>1 DEF ClearedTwice, InRun
<1>2. CASE ~ClearedTwice(x)
  <2>1. RunStep(x)
    BY <1>2 DEF RunNext, Route, Call, CallAgain, Answered, Unanswered, Contended, NoResource, Breaks,
         Correct, Finish, Wait, GiveUp, ClaimOpenClaw, GatewayDown, OpenClawBusy, Dispatched,
         LeaveOpenClaw, DispatchFails, Retry, Admit, Fence, Act, Acted, Accepted
  <2> QED BY <2>1 DEF RunStep, InRun
<1> QED BY <1>1, <1>2

LEMMA StepOK == IInv /\ [Next]_vars => IInv'
<1> SUFFICES ASSUME IInv, [Next]_vars PROVE IInv'
  OBVIOUS
<1>1. ASSUME NEW x \in Runs, RunNext(x) PROVE IInv'
  <2>1. x \in Busy /\ InRun(x)
    BY <1>1, RunNextRuns
  <2> QED BY <1>1, <2>1, RoutedKeeps, WritingKeeps, CallKeeps, CallAgainKeeps, ActKeeps DEF RunNext
<1>2. ASSUME NEW x \in Runs, NEW j \in Jobs, Claim(x, j) PROVE IInv'
  BY <1>2, ClaimKeeps
<1>3. CASE \/ FailExhausted \/ \E j \in Jobs : ReleaseExhausted(j)
           \/ ReadStale \/ \E w \in sweep.rows : RecoverStaleRow(w) \/ RecoverBootRow(w)
           \/ FreeNamedSlot \/ Crash \/ Boot \/ Booted \/ SweepFails \/ BootFails
  BY <1>3, RecoveryKeeps
<1>4. ASSUME NEW j \in Jobs, LeaseOver(j) PROVE IInv'
  <2> DEFINE row == [job[j] EXCEPT !.lease = "over"]
  <2>1. row \in JobRows /\ row.status = job[j].status
    BY DEF IInv, Shapes, JobRows
  <2>2. Update(j, row) /\ UNCHANGED <<run, sweep, calls>>
    BY <1>4 DEF LeaseOver
  <2> HIDE DEF row
  <2>3. Updated(j, row.status)
    BY <2>1, <2>2, UpdateOK DEF IInv
  <2>4. Shapes'
    BY <2>2, <2>3 DEF IInv, Shapes, Updated
  <2> QED BY <2>1, <2>2, <2>3, <2>4, RestingKeeps DEF Updated, Direct
<1>5. CASE OthersNext
  <2>1. UNCHANGED <<job, run, sweep, calls>>
    BY <1>5 DEF OthersNext, jobVars
  <2>2. Shapes'
    BY <2>1 DEF IInv, Shapes
  <2> QED BY <2>1, <2>2, RestingKeeps
<1>6. CASE UNCHANGED vars
  <2>1. UNCHANGED <<job, run, sweep, calls>>
    BY <1>6 DEF vars, jobVars
  <2>2. Shapes'
    BY <2>1 DEF IInv, Shapes
  <2> QED BY <2>1, <2>2, RestingKeeps
<1>7. ASSUME NEW x \in Runs, (\E r \in Resources : Unlisted(x, r)) \/ SlotLeft(x) \/ HalfAnswered(x)
      PROVE  IInv'
  <2>1. x \in Busy /\ InRun(x)
    BY <1>7 DEF Unlisted, SlotLeft, HalfAnswered, InRun
  <2> QED BY <1>7, <2>1, RoutedKeeps
<1> QED BY <1>1, <1>2, <1>3, <1>4, <1>5, <1>6, <1>7 DEF Next, FaultNext

\* A direct local action is started at most once, for any jobs, kinds, resources,
\* leases, crashes and overruns (recoverStale and recoverAfterCoreRestart never
\* queue it again, and every other update of its row leaves it unclaimable).
THEOREM DirectOnce == Spec => []DirectActsOnce
<1>1. IInv => DirectActsOnce
  BY DEF IInv, StartedOnce, Direct, DirectActsOnce
<1> QED BY <1>1, InitOK, StepOK, PTL DEF Spec

-----------------------------------------------------------------------------
(***************************************************************************)
(* The jobs and their runs: a run and the row of its job agree, as long as *)
(* the job did not outlast its lease, because then nobody else writes it.  *)
(* The resources come after; they need to know who runs what.              *)
(***************************************************************************)

\* A row fits its job and the number of times the job was started.  over: the
\* jobs that outlasted their lease, of whose attempts nothing is claimed.
RowFits(j, w, n, over) ==
  /\ Kind[j] # "ai" => w.res \in {OpenClaw, Nothing}
  /\ w.lease = "over" => j \in over
  /\ Kind[j] = "direct" /\ w.status = "queued" => w.attempts = 0
  /\ Kind[j] # "direct" /\ j \notin over => n <= 2 * w.attempts /\ w.attempts <= MaxAttempts + 1

\* What a run has of a resource goes with its kind.
KindFits(q) ==
  /\ q.pc \in {"claimed", "calling", "recalling", "marking"} =>
       \/ Kind[q.job] = "ai" /\ q.res \in Resources \ {OpenClaw}
       \/ Kind[q.job] = "openclaw" /\ q.res = OpenClaw
  /\ q.pc = "leaving" => Kind[q.job] = "openclaw" /\ q.res = OpenClaw
  /\ q.pc \in {"answered", "recalling", "marking"} => Kind[q.job] = "ai"
  /\ q.pc \in {"fencing", "acting", "acted", "accepted"} => Kind[q.job] = "direct"
  /\ q.pc = "fencing" => q.job \in Holders

\* The correction has a budget of its own, once in a run.
Extra(q) == IF q.fixed THEN 1 ELSE 0

\* What a run may still spend, n attempts after its job was new.
Within(q, n) ==
  /\ Kind[q.job] = "ai" =>
       /\ q.pc = "start" => n + q.left <= MaxAttempts + Extra(q)
       /\ q.pc = "claimed" => q.left > 0 /\ n + q.left <= MaxAttempts + Extra(q)
       /\ q.pc \in {"calling", "recalling", "marking"} =>
            q.left > 0 /\ n + q.left <= MaxAttempts + 1 + Extra(q)
       /\ q.pc = "answered" /\ ~q.fixed => n <= MaxAttempts
  /\ Kind[q.job] = "openclaw" /\ q.pc \in {"start", "claimed"} => n < MaxAttempts

\* A run fits the row of its job.
RunFits(q, w, over) ==
  /\ KindFits(q)
  /\ q.job \notin over => /\ w.status = IF q.pc = "leaving" THEN "done" ELSE "running"
                          /\ Within(q, w.attempts)

\* A run that may repeat its call has a start of this attempt left.
Spent(q, w, n, over) == q.pc = "calling" /\ q.job \notin over => n < 2 * w.attempts

Phases ==
  /\ phase \in {"up", "down", "boot", "late"} /\ crashes \in Nat
  /\ phase # "up" => crashes > 0 /\ \A x \in Runs : run[x] = Nothing
  /\ phase = "down" => sweep = Idle

\* What recoverStale has read is about jobs that outlasted their lease; what the
\* restart has read is still so, since no run is there to change it.
SweepKnows ==
  /\ phase = "up" => /\ sweep.free # Nothing => overran # {}
                     /\ \A w \in sweep.rows : w.job \in overran
  /\ phase = "boot" => /\ sweep.release = {} /\ sweep.free \in {OpenClaw, Nothing}
                       /\ \A w \in sweep.rows : /\ Kind[w.job] # "ai" /\ w.res \in {OpenClaw, Nothing}
                                                /\ w.attempts = job[w.job].attempts
  /\ phase = "late" => /\ sweep.release = {} /\ (sweep # Idle => freed # {})
                       /\ \A w \in sweep.rows : Kind[w.job] = "ai" /\ w.attempts = job[w.job].attempts
  /\ \A j \in sweep.release : Kind[j] # "direct" /\ (j \in overran \/ job[j].status = "failed")

RowsFit == \A j \in Jobs : RowFits(j, job[j], calls[j], overran)
RunsFit == \A x \in Runs : run[x] # Nothing => RunFits(run[x], job[run[x].job], overran)
OneRunOfEach ==
  \A x, y \in Runs : run[x] # Nothing /\ run[y] # Nothing /\ run[x].job = run[y].job
                     /\ run[x].job \notin overran => x = y

CallsLeft ==
  \A x \in Runs : run[x] # Nothing =>
    Spent(run[x], job[run[x].job], calls[run[x].job], overran)

JobsInv == IInv /\ Phases /\ SweepKnows /\ RowsFit /\ RunsFit /\ OneRunOfEach /\ CallsLeft

LEMMA JobsInit == Init => JobsInv
<1> SUFFICES ASSUME Init PROVE JobsInv
  OBVIOUS
<1>1. IInv
  BY InitOK
<1>2. Phases /\ SweepKnows /\ RunsFit /\ OneRunOfEach /\ CallsLeft
  BY DEF Init, Idle, Phases, SweepKnows, RunsFit, OneRunOfEach, CallsLeft
<1>3. RowsFit
  <2> SUFFICES ASSUME NEW j \in Jobs PROVE RowFits(j, job[j], calls[j], overran)
    BY DEF RowsFit
  <2>1. /\ job[j].attempts = 0 /\ job[j].lease = "none" /\ job[j].res = Nothing
        /\ calls[j] = 0
    BY DEF Init
  <2> QED BY <2>1, AttemptsAreCounted DEF RowFits
<1> QED BY <1>1, <1>2, <1>3 DEF JobsInv

-----------------------------------------------------------------------------
(* A step of a run, told field by field. *)

Fields(q, j, pc, r, n, f) ==
  /\ q \in RunRecs /\ q.job = j /\ q.pc = pc /\ q.res = r /\ q.left = n /\ q.fixed = f

\* The other runs stand still.
Alone(x) == \A y \in Runs \ {x} : run'[y] = run[y]

Becomes(x, pc, r, n, f) ==
  /\ Alone(x) /\ run'[x] # Nothing
  /\ Fields(run'[x], Job(x), pc, r, n, f)

Ended(x) == Alone(x) /\ run'[x] = Nothing

LEMMA RunsAreThere == ASSUME NEW q \in RunRecs PROVE q # Nothing
  BY NullIsNoRun, Zenon

LEMMA ReplacedBecomes ==
  ASSUME Shapes, NEW x \in Busy, NEW q, NEW pc, NEW r, NEW n, NEW f,
         Fields(q, Job(x), pc, r, n, f), run' = [run EXCEPT ![x] = q]
  PROVE  Becomes(x, pc, r, n, f)
<1>1. x \in Runs
  BY AtRuns
<1>2. run'[x] = q /\ Alone(x)
  BY <1>1 DEF Shapes, Alone
<1>3. q # Nothing
  BY RunsAreThere DEF Fields
<1> QED BY <1>2, <1>3 DEF Becomes

LEMMA GotoBecomes ==
  ASSUME Shapes, NEW x \in Busy, NEW pc \in Pcs, Goto(x, pc)
  PROVE  Becomes(x, pc, run[x].res, run[x].left, run[x].fixed)
<1> DEFINE q == [run[x] EXCEPT !.pc = pc]
<1>1. x \in Runs /\ run[x] \in RunRecs
  BY AtRuns
<1>2. Fields(q, Job(x), pc, run[x].res, run[x].left, run[x].fixed)
  BY <1>1 DEF RunRecs, Fields, Job
<1>3. run' = [run EXCEPT ![x] = q]
  BY <1>1 DEF Goto
<1> HIDE DEF q
<1> QED BY <1>2, <1>3, ReplacedBecomes

LEMMA FreshFields ==
  ASSUME NEW j \in Jobs, NEW n \in Int
  PROVE  Fields(Fresh(j, n), j, "start", Nothing, n, FALSE)
  BY DEF Fresh, RunRecs, Maybe, Pcs, Fields

LEMMA LeavesBecomes ==
  ASSUME Shapes, NEW x \in Busy, NEW pc \in Pcs, Leaves(x, pc)
  PROVE  Becomes(x, pc, Nothing, 0, FALSE)
<1> DEFINE e == Fresh(Job(x), 0)
           q == [e EXCEPT !.pc = pc]
<1>1. Fields(e, Job(x), "start", Nothing, 0, FALSE)
  <2>1. Job(x) \in Jobs /\ 0 \in Int
    BY AtRuns
  <2> QED BY <2>1, FreshFields, Zenon
<1>3. run' = [run EXCEPT ![x] = q]
  BY Zenon DEF Leaves
<1> HIDE DEF e
<1>2. Fields(q, Job(x), pc, Nothing, 0, FALSE)
  BY <1>1 DEF Fields, RunRecs
<1> HIDE DEF q
<1> QED BY <1>2, <1>3, ReplacedBecomes

LEMMA AgainBecomes ==
  ASSUME Shapes, NEW x \in Busy, run' = [run EXCEPT ![x] = [Again(x) EXCEPT !.left = @ - 1]]
  PROVE  Becomes(x, "start", Nothing, run[x].left - 1, run[x].fixed)
<1> DEFINE a == Again(x)
           q == [a EXCEPT !.left = a.left - 1]
<1>1. x \in Runs /\ run[x] \in RunRecs
  BY AtRuns
<1>2. Fields(a, Job(x), "start", Nothing, run[x].left, run[x].fixed)
  BY <1>1 DEF Again, RunRecs, Fields, Pcs, Maybe, Job
<1>3. run' = [run EXCEPT ![x] = q]
  BY Zenon
<1> HIDE DEF a
<1>4. Fields(q, Job(x), "start", Nothing, run[x].left - 1, run[x].fixed)
  BY <1>2 DEF Fields, RunRecs
<1> HIDE DEF q
<1> QED BY <1>3, <1>4, ReplacedBecomes

LEMMA CorrectBecomes ==
  ASSUME Shapes, NEW x \in Busy, run' = [run EXCEPT ![x] = [Fresh(Job(x), 1) EXCEPT !.fixed = TRUE]]
  PROVE  Becomes(x, "start", Nothing, 1, TRUE)
<1> DEFINE e == Fresh(Job(x), 1)
           q == [e EXCEPT !.fixed = TRUE]
<1>1. Fields(e, Job(x), "start", Nothing, 1, FALSE)
  <2>1. Job(x) \in Jobs /\ 1 \in Int
    BY AtRuns
  <2> QED BY <2>1, FreshFields, Zenon
<1>2. run' = [run EXCEPT ![x] = q]
  BY Zenon
<1> HIDE DEF e
<1>3. Fields(q, Job(x), "start", Nothing, 1, TRUE)
  BY <1>1 DEF Fields, RunRecs
<1> HIDE DEF q
<1> QED BY <1>2, <1>3, ReplacedBecomes

LEMMA TakeSlotBecomes ==
  ASSUME Shapes, NEW x \in Busy, NEW r \in Resources, TakeSlot(x, r)
  PROVE  Becomes(x, "claimed", r, run[x].left, run[x].fixed)
<1> DEFINE a == [run[x] EXCEPT !.pc = "claimed", !.res = r]
           q == [a EXCEPT !.tried = a.tried \cup {r}]
<1>1. x \in Runs /\ run[x] \in RunRecs
  BY AtRuns
<1>2. Fields(a, Job(x), "claimed", r, run[x].left, run[x].fixed)
  BY <1>1 DEF RunRecs, Fields, Pcs, Maybe, Job
<1>3. run' = [run EXCEPT ![x] = q]
  BY Zenon DEF TakeSlot, Holding
<1> HIDE DEF a
<1>4. Fields(q, Job(x), "claimed", r, run[x].left, run[x].fixed)
  BY <1>2 DEF Fields, RunRecs
<1> HIDE DEF q
<1> QED BY <1>3, <1>4, ReplacedBecomes

LEMMA SkipBecomes ==
  ASSUME Shapes, NEW x \in Busy, At(x, "start"), NEW r \in Resources,
         run' = [run EXCEPT ![x] = Skipping(x, r)]
  PROVE  Becomes(x, "start", run[x].res, run[x].left - 1, run[x].fixed)
<1> DEFINE a == [run[x] EXCEPT !.left = @ - 1]
           q == [a EXCEPT !.tried = a.tried \cup {r}]
<1>1. x \in Runs /\ run[x] \in RunRecs /\ run[x].pc = "start"
  BY AtRuns DEF At
<1>2. Fields(a, Job(x), "start", run[x].res, run[x].left - 1, run[x].fixed)
  BY <1>1 DEF RunRecs, Fields, Job
<1>3. run' = [run EXCEPT ![x] = q]
  BY Zenon DEF Skipping
<1> HIDE DEF a
<1>4. Fields(q, Job(x), "start", run[x].res, run[x].left - 1, run[x].fixed)
  BY <1>2 DEF Fields, RunRecs
<1> HIDE DEF q
<1> QED BY <1>3, <1>4, ReplacedBecomes

LEMMA EndsEnded == ASSUME Shapes, NEW x \in Busy, Ends(x) PROVE Ended(x)
  BY AtRuns DEF Ends, Shapes, Ended, Alone

\* What the statements write, field by field.
Written(w, st, n, l, r) ==
  w \in JobRows /\ w.status = st /\ w.attempts = n /\ w.lease = l /\ w.res = r

LEMMA SettledRow ==
  ASSUME Shapes, NEW j \in Jobs, NEW st \in Statuses
  PROVE  Written(Settled(j, st), st, job[j].attempts, "none", job[j].res)
  BY DEF Shapes, JobRows, Settled, Written

LEMMA TwoFields ==
  ASSUME NEW w, NEW st, NEW n, NEW l, NEW res, Written(w, st, n, l, res),
         NEW m \in Int, NEW r \in Maybe
  PROVE  Written([w EXCEPT !.waits = m, !.res = r], st, n, l, r)
  BY DEF Written, JobRows

LEMMA DoneRow ==
  ASSUME Shapes, NEW j \in Jobs, NEW r \in Maybe
  PROVE  Written(Done(j, r), "done", job[j].attempts, "none", r)
<1>1. Written(Settled(j, "done"), "done", job[j].attempts, "none", job[j].res) /\ 0 \in Int
  BY SettledRow DEF Statuses
<1> QED BY Zenon, <1>1, TwoFields DEF Done

LEMMA WaitingRow ==
  ASSUME Shapes, NEW j \in Jobs
  PROVE  Written(Waiting(j), "waiting", job[j].attempts, "none", job[j].res)
<1> DEFINE w == Settled(j, "waiting")
<1>1. Written(w, "waiting", job[j].attempts, "none", job[j].res)
  BY SettledRow DEF Statuses
<1>2. Waiting(j) = [w EXCEPT !.waits = w.waits + 1]
  BY Zenon DEF Waiting
<1> HIDE DEF w
<1> QED BY <1>1, <1>2 DEF Written, JobRows

LEMMA RecoveredRow ==
  ASSUME Shapes, NEW j \in Jobs, NEW st \in Statuses, NEW n \in Int
  PROVE  Written(Recovered(j, st, n), st, n, "none", Nothing)
<1> DEFINE w == Settled(j, st)
<1>1. Written(w, st, job[j].attempts, "none", job[j].res)
  BY SettledRow
<1>2. Recovered(j, st, n) = [w EXCEPT !.res = Nothing, !.attempts = n]
  BY Zenon DEF Recovered
<1> HIDE DEF w
<1> QED BY <1>1, <1>2 DEF Written, JobRows, Maybe

LEMMA TriedRow ==
  ASSUME Shapes, NEW j \in Jobs
  PROVE  Written(Tried(j), job[j].status, job[j].attempts + 1, job[j].lease, job[j].res)
  BY DEF Shapes, JobRows, Tried, Written

\* Call writes the resource, the lease and the attempt.
LEMMA CalledRow ==
  ASSUME Shapes, NEW j \in Jobs, NEW r \in Maybe
  PROVE  Written([Called(j, r) EXCEPT !.attempts = @ + 1],
                 job[j].status, job[j].attempts + 1, "live", r)
<1> DEFINE w == Called(j, r)
<1>1. Written(w, job[j].status, job[j].attempts, "live", r)
  BY DEF Shapes, JobRows, Called, Written
<1> HIDE DEF w
<1>2. Written([w EXCEPT !.attempts = w.attempts + 1], job[j].status, job[j].attempts + 1, "live", r)
  BY <1>1 DEF Written, JobRows
<1> QED BY <1>2 DEF w

-----------------------------------------------------------------------------
(* The jobs stay in step with their runs. *)

\* A step of a run: what fits its own run and row is all there is to show.
LEMMA RunStepKeepsJobs ==
  ASSUME JobsInv, IInv', NEW x \in Busy, InRun(x), Alone(x),
         \A i \in Jobs \ {Job(x)} : job'[i] = job[i] /\ calls'[i] = calls[i],
         RowFits(Job(x), job'[Job(x)], calls'[Job(x)], overran),
         run'[x] # Nothing => /\ run'[x].job = Job(x)
                              /\ RunFits(run'[x], job'[Job(x)], overran)
                              /\ Spent(run'[x], job'[Job(x)], calls'[Job(x)], overran)
  PROVE  JobsInv'
<1>1. /\ phase = "up" /\ UNCHANGED <<sweep, phase, overran, crashes>>
      /\ x \in Runs /\ run[x] # Nothing /\ Job(x) \in Jobs
  BY AtRuns DEF RunStep, InRun, Busy, JobsInv, IInv
<1>2. Phases'
  BY <1>1 DEF JobsInv, Phases
<1>3. SweepKnows'
  <2>1. Job(x) \in overran \/ job[Job(x)].status # "failed"
    BY <1>1 DEF JobsInv, RunsFit, RunFits, Job
  <2>2. \A j \in sweep.release : j \in Jobs
    BY DEF JobsInv, IInv, Shapes
  <2>3. \A j \in sweep.release : Kind[j] # "direct" /\ (j \in overran \/ job'[j].status = "failed")
    BY <2>1, <2>2 DEF JobsInv, SweepKnows
  <2> QED BY <1>1, <2>3 DEF JobsInv, SweepKnows
<1>4. RowsFit'
  BY <1>1 DEF JobsInv, RowsFit
<1>5. RunsFit'
  <2> SUFFICES ASSUME NEW y \in Runs, run'[y] # Nothing
               PROVE  RunFits(run'[y], job'[run'[y].job], overran)
    BY <1>1 DEF RunsFit
  <2>1. CASE y = x
    BY <2>1
  <2>2. CASE y # x
    <3>1. run'[y] = run[y] /\ run[y].job \in Jobs /\ RunFits(run[y], job[run[y].job], overran)
      BY <2>2 DEF Alone, JobsInv, RunsFit, IInv, Shapes, RunRecs
    <3>2. CASE run[y].job = Job(x)
      BY <1>1, <2>2, <3>1, <3>2 DEF JobsInv, OneRunOfEach, Job, RunFits
    <3>3. CASE run[y].job # Job(x)
      BY <3>1, <3>3
    <3> QED BY <3>2, <3>3
  <2> QED BY <2>1, <2>2
<1>6. OneRunOfEach'
  BY <1>1 DEF JobsInv, OneRunOfEach, Alone, Job
<1>7. CallsLeft'
  <2> SUFFICES ASSUME NEW y \in Runs, run'[y] # Nothing
               PROVE  Spent(run'[y], job'[run'[y].job], calls'[run'[y].job], overran)
    BY <1>1 DEF CallsLeft
  <2>1. CASE y = x
    BY <2>1
  <2>2. CASE y # x
    <3>1. /\ run'[y] = run[y] /\ run[y].job \in Jobs
          /\ Spent(run[y], job[run[y].job], calls[run[y].job], overran)
      BY <2>2 DEF Alone, JobsInv, CallsLeft, IInv, Shapes, RunRecs
    <3>2. CASE run[y].job = Job(x)
      BY <1>1, <2>2, <3>1, <3>2 DEF JobsInv, OneRunOfEach, Job, Spent
    <3>3. CASE run[y].job # Job(x)
      BY <3>1, <3>3
    <3> QED BY <3>2, <3>3
  <2> QED BY <2>1, <2>2
<1> QED BY <1>2, <1>3, <1>4, <1>5, <1>6, <1>7 DEF JobsInv

\* Steps that change no job: only the run itself has to fit.
LEMMA BecomingKeepsJobs ==
  ASSUME JobsInv, IInv', NEW x \in Busy, InRun(x), UNCHANGED job,
         \A i \in Jobs : calls'[i] = calls[i] \/ Kind[i] = "direct",
         \A i \in Jobs \ {Job(x)} : calls'[i] = calls[i],
         NEW pc, NEW r, NEW n, NEW f, Becomes(x, pc, r, n, f), pc # "calling",
         \A q : Fields(q, Job(x), pc, r, n, f) => RunFits(q, job[Job(x)], overran)
  PROVE  JobsInv'
<1>1. Job(x) \in Jobs
  BY AtRuns DEF JobsInv, IInv
<1>2. RowFits(Job(x), job'[Job(x)], calls'[Job(x)], overran)
  BY <1>1 DEF JobsInv, RowsFit, RowFits
<1>3. /\ RunFits(run'[x], job'[Job(x)], overran) /\ run'[x].job = Job(x)
      /\ Spent(run'[x], job'[Job(x)], calls'[Job(x)], overran)
  BY DEF Becomes, Fields, Spent
<1> QED BY <1>2, <1>3, RunStepKeepsJobs DEF Becomes

LEMMA EndingKeepsJobs ==
  ASSUME JobsInv, IInv', NEW x \in Busy, InRun(x), UNCHANGED calls, Ended(x),
         \/ UNCHANGED job
         \/ \E w \in JobRows : /\ Update(Job(x), w)
                               /\ RowFits(Job(x), w, calls[Job(x)], overran)
  PROVE  JobsInv'
<1>1. Job(x) \in Jobs /\ Shapes
  BY AtRuns DEF JobsInv, IInv
<1>2. /\ \A i \in Jobs \ {Job(x)} : job'[i] = job[i]
      /\ RowFits(Job(x), job'[Job(x)], calls[Job(x)], overran)
  BY <1>1 DEF JobsInv, RowsFit, Update, Shapes
<1> QED BY <1>2, RunStepKeepsJobs DEF Ended

\* What the invariant says of the run that takes a step.
LEMMA RunIsFit ==
  ASSUME JobsInv, NEW x \in Busy
  PROVE  /\ x \in Runs /\ run[x] \in RunRecs /\ run[x].job = Job(x) /\ Job(x) \in Jobs
         /\ job[Job(x)] \in JobRows /\ calls[Job(x)] \in Nat
         /\ job[Job(x)].attempts \in Int /\ run[x].left \in Int /\ run[x].fixed \in BOOLEAN
         /\ RunFits(run[x], job[Job(x)], overran)
         /\ RowFits(Job(x), job[Job(x)], calls[Job(x)], overran)
         /\ Spent(run[x], job[Job(x)], calls[Job(x)], overran)
<1>1. x \in Runs /\ run[x] \in RunRecs /\ Job(x) \in Jobs /\ run[x] # Nothing
  BY AtRuns DEF JobsInv, IInv, Busy
<1>2. job[Job(x)] \in JobRows /\ calls[Job(x)] \in Nat
  BY <1>1 DEF JobsInv, IInv, Shapes
<1> QED BY <1>1, <1>2 DEF JobsInv, RunsFit, RowsFit, CallsLeft, Job, JobRows, RunRecs

\* The steps of a run that leave its job's row alone.
LEMMA RoutedKeepsJobs ==
  ASSUME JobsInv, IInv', NEW x \in Busy, InRun(x),
         \/ \E r \in Resources : Route(x, r) \/ Unlisted(x, r)
         \/ Answered(x) \/ Unanswered(x) \/ Contended(x) \/ NoResource(x) \/ Correct(x)
         \/ ClaimOpenClaw(x) \/ OpenClawBusy(x) \/ DispatchFails(x)
         \/ Fence(x) \/ Act(x) \/ Acted(x) \/ ClearedTwice(x) \/ Breaks(x) \/ SlotLeft(x) \/ HalfAnswered(x)
  PROVE  JobsInv'
<1> USE DEF Pcs
<1>0. Shapes
  BY DEF JobsInv, IInv
<1>1. /\ run[x] \in RunRecs /\ run[x].job = Job(x) /\ Job(x) \in Jobs
      /\ job[Job(x)].attempts \in Int /\ run[x].left \in Int /\ run[x].fixed \in BOOLEAN
      /\ RunFits(run[x], job[Job(x)], overran)
  BY RunIsFit
<1>2. MaxAttempts \in Nat
  BY AttemptsAreCounted
<1> USE DEF RunFits, KindFits, Within, Extra, Fields
<1>3. ASSUME NEW r \in Resources, Route(x, r) PROVE JobsInv'
  <2>1. Becomes(x, "claimed", r, run[x].left, run[x].fixed) /\ UNCHANGED <<job, calls>>
    BY <1>0, <1>3, TakeSlotBecomes DEF Route, TakeSlot
  <2>2. /\ run[x].pc = "start" /\ Kind[Job(x)] = "ai" /\ run[x].left > 0 /\ r # OpenClaw
    BY <1>3 DEF Route, At
  <2>3. \A q : Fields(q, Job(x), "claimed", r, run[x].left, run[x].fixed)
                 => RunFits(q, job[Job(x)], overran)
    BY <1>1, <1>2, <2>2
  <2> QED BY <2>1, <2>3, BecomingKeepsJobs
<1>4. CASE ClaimOpenClaw(x)
  <2>1. Becomes(x, "claimed", OpenClaw, run[x].left, run[x].fixed) /\ UNCHANGED <<job, calls>>
    BY <1>0, <1>4, TakeSlotBecomes, OpenClawIsResource DEF ClaimOpenClaw, TakeSlot
  <2>2. run[x].pc = "start" /\ Kind[Job(x)] = "openclaw"
    BY <1>4 DEF ClaimOpenClaw, At
  <2>3. \A q : Fields(q, Job(x), "claimed", OpenClaw, run[x].left, run[x].fixed)
                 => RunFits(q, job[Job(x)], overran)
    BY <1>1, <1>2, <2>2
  <2> QED BY <2>1, <2>3, BecomingKeepsJobs
<1>5. CASE Answered(x)
  <2>1. Becomes(x, "answered", run[x].res, run[x].left, run[x].fixed) /\ UNCHANGED <<job, calls>>
    BY <1>0, <1>5, GotoBecomes DEF Answered
  <2>2. run[x].pc \in {"calling", "recalling"} /\ Kind[Job(x)] = "ai"
    BY <1>5 DEF Answered, Calling
  <2>3. \A q : Fields(q, Job(x), "answered", run[x].res, run[x].left, run[x].fixed)
                 => RunFits(q, job[Job(x)], overran)
    BY <1>1, <1>2, <2>2
  <2> QED BY <2>1, <2>3, BecomingKeepsJobs
<1>6. ASSUME NEW pc \in {"refused", "retry", "dead"}, Leaves(x, pc), UNCHANGED <<job, calls>>,
             run[x].pc # "leaving"
      PROVE  JobsInv'
  <2>1. Becomes(x, pc, Nothing, 0, FALSE)
    BY <1>0, <1>6, LeavesBecomes
  <2>2. \A q : Fields(q, Job(x), pc, Nothing, 0, FALSE) => RunFits(q, job[Job(x)], overran)
    BY <1>1, <1>2, <1>6
  <2> QED BY <1>6, <2>1, <2>2, BecomingKeepsJobs
<1>7. CASE Unanswered(x) \/ ClearedTwice(x)
  <2>1. /\ run[x].pc \in {"calling", "recalling", "marking"} /\ UNCHANGED <<job, calls>>
        /\ Kind[Job(x)] = "ai"
        /\ \/ run' = [run EXCEPT ![x] = [Again(x) EXCEPT !.left = @ - 1]]
           \/ Leaves(x, "refused")
    BY <1>1, <1>7 DEF Unanswered, ClearedTwice, FailsOver, Calling, At
  <2>2. CASE run' = [run EXCEPT ![x] = [Again(x) EXCEPT !.left = @ - 1]]
    <3>1. Becomes(x, "start", Nothing, run[x].left - 1, run[x].fixed)
      BY <1>0, <2>2, AgainBecomes
    <3>2. \A q : Fields(q, Job(x), "start", Nothing, run[x].left - 1, run[x].fixed)
                   => RunFits(q, job[Job(x)], overran)
      BY <1>1, <1>2, <2>1
    <3> QED BY <2>1, <3>1, <3>2, BecomingKeepsJobs
  <2> QED BY <1>6, <2>1, <2>2
<1>8. CASE Correct(x)
  <2>1. Becomes(x, "start", Nothing, 1, TRUE) /\ UNCHANGED <<job, calls>>
    BY <1>0, <1>8, CorrectBecomes DEF Correct
  <2>2. run[x].pc = "answered" /\ ~run[x].fixed
    BY <1>8 DEF Correct, At
  <2>3. \A q : Fields(q, Job(x), "start", Nothing, 1, TRUE) => RunFits(q, job[Job(x)], overran)
    BY <1>1, <1>2, <2>2
  <2> QED BY <2>1, <2>3, BecomingKeepsJobs
<1>9. CASE Contended(x) \/ NoResource(x) \/ OpenClawBusy(x) \/ DispatchFails(x) \/ Breaks(x)
  BY <1>6, <1>9 DEF Contended, NoResource, OpenClawBusy, DispatchFails, Breaks, At
<1>10. ASSUME NEW pc \in {"acting", "dead", "acted", "accepted"}, Goto(x, pc), UNCHANGED job,
              run[x].pc \in {"fencing", "acting", "acted"},
              UNCHANGED calls \/ calls' = [calls EXCEPT ![Job(x)] = @ + 1]
       PROVE  JobsInv'
  <2>1. Becomes(x, pc, run[x].res, run[x].left, run[x].fixed)
    BY <1>0, <1>10, GotoBecomes
  <2>2. \A q : Fields(q, Job(x), pc, run[x].res, run[x].left, run[x].fixed)
                 => RunFits(q, job[Job(x)], overran)
    BY <1>1, <1>2, <1>10
  <2>3. /\ \A i \in Jobs : calls'[i] = calls[i] \/ Kind[i] = "direct"
        /\ \A i \in Jobs \ {Job(x)} : calls'[i] = calls[i]
    BY <1>0, <1>1, <1>10 DEF Shapes
  <2> QED BY <1>10, <2>1, <2>2, <2>3, BecomingKeepsJobs
<1>11. CASE Fence(x)
  <2>1. PICK pc \in {"acting", "dead"} : Goto(x, pc)
    BY <1>11 DEF Fence
  <2> QED BY <1>10, <1>11, <2>1 DEF Fence, At
<1>12. CASE Acted(x)
  <2>1. PICK pc \in {"accepted", "dead"} : Goto(x, pc)
    BY <1>12 DEF Acted
  <2> QED BY <1>10, <1>12, <2>1 DEF Acted, At
<1>13. CASE Act(x)
  BY <1>10, <1>13 DEF Act, At
<1>14. ASSUME NEW r \in Resources, Unlisted(x, r) PROVE JobsInv'
  <2>1. /\ At(x, "start") /\ run[x].pc = "start" /\ UNCHANGED <<job, calls>>
        /\ run' = [run EXCEPT ![x] = Skipping(x, r)]
    BY <1>14 DEF Unlisted, At
  <2>2. Becomes(x, "start", run[x].res, run[x].left - 1, run[x].fixed)
    BY <1>0, <2>1, SkipBecomes
  <2>3. \A q : Fields(q, Job(x), "start", run[x].res, run[x].left - 1, run[x].fixed)
                 => RunFits(q, job[Job(x)], overran)
    BY <1>1, <1>2, <2>1
  <2> QED BY <2>1, <2>2, <2>3, BecomingKeepsJobs
<1>15. CASE SlotLeft(x)
  <2>1. UNCHANGED <<job, calls>>
    BY <1>15 DEF SlotLeft
  <2>2. CASE Ends(x)
    <3>1. Ended(x)
      BY <1>0, <2>2, EndsEnded
    <3> QED BY <2>1, <3>1, EndingKeepsJobs
  <2> QED BY <1>6, <1>15, <2>1, <2>2 DEF SlotLeft, At
<1>16. CASE HalfAnswered(x)
  <2>1. Becomes(x, "marking", run[x].res, run[x].left, run[x].fixed) /\ UNCHANGED <<job, calls>>
    BY <1>0, <1>16, GotoBecomes DEF HalfAnswered
  <2>2. run[x].pc \in {"calling", "recalling"} /\ Kind[Job(x)] = "ai"
    BY <1>16 DEF HalfAnswered, Calling
  <2>3. \A q : Fields(q, Job(x), "marking", run[x].res, run[x].left, run[x].fixed)
                 => RunFits(q, job[Job(x)], overran)
    BY <1>1, <1>2, <2>2
  <2> QED BY <2>1, <2>3, BecomingKeepsJobs
<1> QED BY <1>3, <1>4, <1>5, <1>7, <1>8, <1>9, <1>11, <1>12, <1>13, <1>14, <1>15, <1>16

\* The second call of an attempt.
LEMMA CallAgainKeepsJobs == ASSUME JobsInv, IInv', NEW x \in Busy, CallAgain(x) PROVE JobsInv'
<1>0. Shapes /\ InRun(x) /\ UNCHANGED job
  BY DEF JobsInv, IInv, CallAgain, RunStep
<1>1. /\ run[x] \in RunRecs /\ run[x].job = Job(x) /\ Job(x) \in Jobs
      /\ job[Job(x)].attempts \in Int /\ run[x].left \in Int /\ run[x].fixed \in BOOLEAN
      /\ RunFits(run[x], job[Job(x)], overran) /\ calls[Job(x)] \in Nat
      /\ RowFits(Job(x), job[Job(x)], calls[Job(x)], overran)
      /\ Spent(run[x], job[Job(x)], calls[Job(x)], overran)
  BY RunIsFit
<1>2. run[x].pc = "calling" /\ Kind[Job(x)] = "ai"
  BY DEF CallAgain, At
<1>3. Becomes(x, "recalling", run[x].res, run[x].left, run[x].fixed)
  BY <1>0, GotoBecomes DEF CallAgain, Pcs
<1>4. /\ calls'[Job(x)] = calls[Job(x)] + 1
      /\ \A i \in Jobs \ {Job(x)} : calls'[i] = calls[i]
  BY <1>0, <1>1 DEF CallAgain, Shapes
<1>5. RowFits(Job(x), job[Job(x)], calls[Job(x)] + 1, overran)
  BY <1>1, <1>2 DEF RowFits, Spent
<1>6. \A q : Fields(q, Job(x), "recalling", run[x].res, run[x].left, run[x].fixed)
               => /\ q.job = Job(x) /\ RunFits(q, job[Job(x)], overran)
                  /\ Spent(q, job[Job(x)], calls[Job(x)] + 1, overran)
  BY <1>1, <1>2 DEF RunFits, KindFits, Within, Extra, Fields, Spent
<1>7. /\ run'[x].job = Job(x) /\ RunFits(run'[x], job'[Job(x)], overran)
      /\ Spent(run'[x], job'[Job(x)], calls'[Job(x)], overran)
  BY <1>0, <1>3, <1>4, <1>6 DEF Becomes
<1> QED BY <1>0, <1>3, <1>4, <1>5, <1>7, RunStepKeepsJobs DEF Becomes

\* A run that writes its job's row and goes on.
LEMMA WritingOnKeepsJobs ==
  ASSUME JobsInv, IInv', NEW x \in Busy, InRun(x),
         NEW w \in JobRows, Update(Job(x), w), NEW m, RowFits(Job(x), w, m, overran),
         calls'[Job(x)] = m, \A i \in Jobs \ {Job(x)} : calls'[i] = calls[i],
         NEW pc, NEW r, NEW n, NEW f, Becomes(x, pc, r, n, f), 
         pc = "calling" /\ Job(x) \notin overran => m < 2 * w.attempts,
         \A q : Fields(q, Job(x), pc, r, n, f) => RunFits(q, w, overran)
  PROVE  JobsInv'
<1>1. Job(x) \in Jobs /\ Shapes
  BY AtRuns DEF JobsInv, IInv
<1>2. job'[Job(x)] = w /\ \A i \in Jobs \ {Job(x)} : job'[i] = job[i]
  BY <1>1 DEF Update, Shapes
<1>3. RunFits(run'[x], w, overran) /\ run'[x].job = Job(x) /\ Spent(run'[x], w, m, overran)
  BY DEF Becomes, Fields, Spent
<1> QED BY <1>2, <1>3, RunStepKeepsJobs DEF Becomes

LEMMA WritingKeepsJobs ==
  ASSUME JobsInv, IInv', NEW x \in Busy, InRun(x),
         \/ Call(x) \/ Finish(x) \/ Wait(x) \/ GiveUp(x) \/ GatewayDown(x) \/ Dispatched(x)
         \/ LeaveOpenClaw(x) \/ Retry(x) \/ Admit(x) \/ Accepted(x)
  PROVE  JobsInv'
<1> USE DEF Pcs, Statuses
<1>0. Shapes
  BY DEF JobsInv, IInv
<1>1. /\ run[x] \in RunRecs /\ run[x].job = Job(x) /\ Job(x) \in Jobs
      /\ job[Job(x)].attempts \in Int /\ run[x].left \in Int /\ run[x].fixed \in BOOLEAN
      /\ RunFits(run[x], job[Job(x)], overran) /\ calls[Job(x)] \in Nat
      /\ RowFits(Job(x), job[Job(x)], calls[Job(x)], overran)
  BY RunIsFit
<1>2. MaxAttempts \in Nat /\ MaxAttempts > 0
  BY AttemptsAreCounted
<1>3. run[x].res \in Maybe /\ OpenClaw \in Maybe /\ Nothing \in Maybe
  BY <1>1, OpenClawIsResource DEF RunRecs, Maybe
<1> USE DEF RunFits, KindFits, Within, Extra, Fields, Written, RowFits
<1>4. ASSUME NEW w, NEW st \in {"done", "waiting", "failed"}, NEW r \in Maybe,
             Written(w, st, job[Job(x)].attempts, "none", r), Update(Job(x), w), Ends(x),
             UNCHANGED calls, Kind[Job(x)] # "ai" => r \in {OpenClaw, Nothing}
      PROVE  JobsInv'
  <2>1. Ended(x)
    BY <1>0, <1>4, EndsEnded
  <2>2. w \in JobRows /\ RowFits(Job(x), w, calls[Job(x)], overran)
    BY <1>1, <1>4
  <2> QED BY <1>4, <2>1, <2>2, EndingKeepsJobs
<1>5. CASE Finish(x)
  <2>1. Written(Done(Job(x), run[x].res), "done", job[Job(x)].attempts, "none", run[x].res)
    BY <1>0, <1>1, <1>3, DoneRow
  <2>2. Kind[Job(x)] = "ai"
    BY <1>1, <1>5 DEF Finish, At
  <2> QED BY <1>3, <1>4, <1>5, <2>1, <2>2 DEF Finish
<1>6. CASE Wait(x)
  <2>1. Written(Waiting(Job(x)), "waiting", job[Job(x)].attempts, "none", job[Job(x)].res)
    BY <1>0, <1>1, WaitingRow
  <2>2. job[Job(x)].res \in Maybe
    BY <1>0, <1>1 DEF JobRows, Shapes
  <2> QED BY <1>1, <1>4, <1>6, <2>1, <2>2 DEF Wait
<1>7. CASE GiveUp(x)
  <2>1. Written(Settled(Job(x), "failed"), "failed", job[Job(x)].attempts, "none", job[Job(x)].res)
    BY <1>0, <1>1, SettledRow
  <2>2. job[Job(x)].res \in Maybe
    BY <1>0, <1>1 DEF JobRows, Shapes
  <2> QED BY <1>1, <1>4, <1>7, <2>1, <2>2 DEF GiveUp
<1>8. CASE Accepted(x)
  <2>1. Written(Done(Job(x), Nothing), "done", job[Job(x)].attempts, "none", Nothing)
    BY <1>0, <1>1, <1>3, DoneRow
  <2> QED BY <1>3, <1>4, <1>8, <2>1 DEF Accepted
<1>9. CASE LeaveOpenClaw(x)
  <2>1. Ended(x) /\ UNCHANGED <<job, calls>>
    BY <1>0, <1>9, EndsEnded DEF LeaveOpenClaw
  <2> QED BY <2>1, EndingKeepsJobs
<1>10. CASE Retry(x)
  <2>1. CASE job[Job(x)].attempts < MaxAttempts
    <3>1. Written(Settled(Job(x), "waiting"), "waiting", job[Job(x)].attempts, "none", job[Job(x)].res)
      BY <1>0, <1>1, SettledRow
    <3>2. job[Job(x)].res \in Maybe
      BY <1>0, <1>1 DEF JobRows, Shapes
    <3> QED BY <1>1, <1>4, <1>10, <2>1, <3>1, <3>2 DEF Retry
  <2>2. CASE ~(job[Job(x)].attempts < MaxAttempts)
    <3>1. Goto(x, "dead") /\ UNCHANGED <<job, calls>> /\ run[x].pc = "retry"
      BY <1>10, <2>2 DEF Retry, At
    <3>2. Becomes(x, "dead", run[x].res, run[x].left, run[x].fixed)
      BY <1>0, <3>1, GotoBecomes
    <3>3. \A q : Fields(q, Job(x), "dead", run[x].res, run[x].left, run[x].fixed)
                   => RunFits(q, job[Job(x)], overran)
      BY <1>1, <3>1
    <3> QED BY <3>1, <3>2, <3>3, BecomingKeepsJobs
  <2> QED BY <2>1, <2>2
<1>11. CASE Call(x)
  <2> DEFINE w == [Called(Job(x), run[x].res) EXCEPT !.attempts = @ + 1]
  <2>1. Written(w, job[Job(x)].status, job[Job(x)].attempts + 1, "live", run[x].res)
    BY <1>0, <1>1, <1>3, CalledRow
  <2>2. Update(Job(x), w) /\ run[x].pc = "claimed"
    BY <1>11 DEF Call, At
  <2> HIDE DEF w
  <2>3. Becomes(x, "calling", run[x].res, run[x].left, run[x].fixed)
    BY <1>0, <1>11, GotoBecomes DEF Call
  <2>4. RowFits(Job(x), w, calls[Job(x)] + 1, overran)
    BY <1>1, <1>2, <2>1, <2>2
  <2>7. Job(x) \notin overran => calls[Job(x)] + 1 < 2 * w.attempts
    BY <1>1, <2>1, <2>2
  <2>5. \A q : Fields(q, Job(x), "calling", run[x].res, run[x].left, run[x].fixed)
                 => RunFits(q, w, overran)
    BY <1>1, <1>2, <2>1, <2>2
  <2>6. /\ calls'[Job(x)] = calls[Job(x)] + 1
        /\ \A i \in Jobs \ {Job(x)} : calls'[i] = calls[i]
    BY <1>0, <1>1, <1>11 DEF Call, Shapes
  <2> QED BY <2>1, <2>2, <2>3, <2>4, <2>5, <2>6, <2>7, WritingOnKeepsJobs
<1>12. CASE GatewayDown(x)
  <2> DEFINE w == Tried(Job(x))
  <2>1. Written(w, job[Job(x)].status, job[Job(x)].attempts + 1, job[Job(x)].lease, job[Job(x)].res)
    BY <1>0, <1>1, TriedRow
  <2>2. /\ Update(Job(x), w) /\ run[x].pc = "start" /\ UNCHANGED calls
        /\ Kind[Job(x)] = "openclaw"
    BY <1>12 DEF GatewayDown, At
  <2> HIDE DEF w
  <2>3. Becomes(x, "retry", Nothing, 0, FALSE)
    BY <1>0, <1>12, LeavesBecomes DEF GatewayDown
  <2>4. RowFits(Job(x), w, calls[Job(x)], overran)
    BY <1>1, <1>2, <2>1, <2>2
  <2>5. \A q : Fields(q, Job(x), "retry", Nothing, 0, FALSE) => RunFits(q, w, overran)
    BY <1>1, <1>2, <2>1, <2>2
  <2> QED BY <2>1, <2>2, <2>3, <2>4, <2>5, WritingOnKeepsJobs
<1>13. CASE Admit(x)
  <2> DEFINE w == Tried(Job(x))
  <2>1. Written(w, job[Job(x)].status, job[Job(x)].attempts + 1, job[Job(x)].lease, job[Job(x)].res)
    BY <1>0, <1>1, TriedRow
  <2>2. PICK pc \in {"fencing", "acting"} : Goto(x, pc) /\ (pc = "fencing" => Job(x) \in Holders)
    BY <1>13 DEF Admit, Fenced
  <2>3. /\ Update(Job(x), w) /\ run[x].pc = "start" /\ UNCHANGED calls
        /\ Kind[Job(x)] = "direct"
    BY <1>13 DEF Admit, At
  <2> HIDE DEF w
  <2>4. Becomes(x, pc, run[x].res, run[x].left, run[x].fixed)
    BY <1>0, <2>2, GotoBecomes
  <2>5. job[Job(x)].status # "queued"
    BY <1>1, <2>3 DEF JobsInv, IInv, QueuedIsFresh, Direct, Busy
  <2>6. RowFits(Job(x), w, calls[Job(x)], overran)
    BY <1>1, <1>2, <2>1, <2>3, <2>5
  <2>7. \A q : Fields(q, Job(x), pc, run[x].res, run[x].left, run[x].fixed) => RunFits(q, w, overran)
    BY <1>1, <1>2, <2>1, <2>2, <2>3
  <2> QED BY <2>1, <2>3, <2>4, <2>6, <2>7, WritingOnKeepsJobs
<1>14. CASE Dispatched(x)
  <2> DEFINE w == Done(Job(x), OpenClaw)
  <2>1. Written(w, "done", job[Job(x)].attempts, "none", OpenClaw)
    BY <1>0, <1>1, <1>3, DoneRow
  <2>2. /\ Update(Job(x), w) /\ run[x].pc = "calling" /\ UNCHANGED calls
        /\ Kind[Job(x)] = "openclaw"
    BY <1>14 DEF Dispatched, At
  <2> HIDE DEF w
  <2>3. Becomes(x, "leaving", run[x].res, run[x].left, run[x].fixed)
    BY <1>0, <1>14, GotoBecomes DEF Dispatched
  <2>4. RowFits(Job(x), w, calls[Job(x)], overran)
    BY <1>1, <1>2, <2>1, <2>2
  <2>5. \A q : Fields(q, Job(x), "leaving", run[x].res, run[x].left, run[x].fixed)
                 => RunFits(q, w, overran)
    BY <1>1, <1>2, <2>1, <2>2
  <2> QED BY <2>1, <2>2, <2>3, <2>4, <2>5, WritingOnKeepsJobs
<1> QED BY <1>5, <1>6, <1>7, <1>8, <1>9, <1>10, <1>11, <1>12, <1>13, <1>14

\* claimJob: nobody is at the job, or it outlasted its lease; and there is an
\* attempt left.
LEMMA ClaimKeepsJobs ==
  ASSUME JobsInv, IInv', NEW x \in Runs, NEW j \in Jobs, Claim(x, j)
  PROVE  JobsInv'
<1> DEFINE n == IF Kind[j] = "ai" THEN Budget(j) ELSE 0
           w == [job[j] EXCEPT !.status = "running", !.lease = "live"]
<1>1. /\ Shapes /\ job[j] \in JobRows /\ job[j].attempts \in Int /\ x \notin Busy
      /\ job[j].status \in {"queued", "waiting"} /\ job[j].attempts < MaxAttempts
      /\ RowFits(j, job[j], calls[j], overran)
      /\ phase = "up" /\ sweep = Idle
      /\ UNCHANGED <<sweep, phase, calls, overran, crashes>>
  BY DEF JobsInv, IInv, Shapes, RowsFit, Claim, JobRows
<1>2. MaxAttempts \in Nat
  BY AttemptsAreCounted
<1>3. n \in Int /\ (Kind[j] = "ai" => n = MaxAttempts - job[j].attempts)
  BY <1>1, <1>2 DEF Budget
<1>4. Written(w, "running", job[j].attempts, "live", job[j].res)
  BY <1>1 DEF Written, JobRows, Statuses
<1>5. run' = [run EXCEPT ![x] = Fresh(j, n)] /\ Update(j, w)
  BY DEF Claim
<1> HIDE DEF n, w
<1>6. Fields(Fresh(j, n), j, "start", Nothing, n, FALSE)
  BY <1>3, FreshFields, Zenon
<1>7. /\ run'[x] = Fresh(j, n) /\ \A y \in Runs \ {x} : run'[y] = run[y]
      /\ job'[j] = w /\ \A i \in Jobs \ {j} : job'[i] = job[i]
  BY <1>1, <1>5 DEF Shapes, Update
<1>8. Phases' /\ SweepKnows'
  BY <1>1 DEF JobsInv, Phases, SweepKnows, Idle
<1>9. RowFits(j, w, calls[j], overran)
  BY <1>1, <1>4 DEF RowFits, Written
<1>10. RowsFit'
  BY <1>1, <1>7, <1>9 DEF JobsInv, RowsFit
<1>11. j \notin overran => \A y \in Runs : run[y] # Nothing => run[y].job # j
  BY <1>1 DEF JobsInv, RunsFit, RunFits
<1>12. RunFits(Fresh(j, n), w, overran) /\ Fresh(j, n).job = j
  BY <1>1, <1>2, <1>3, <1>4, <1>6 DEF Fields, Written, RunFits, KindFits, Within, Extra
<1>13. RunsFit'
  <2> SUFFICES ASSUME NEW y \in Runs, run'[y] # Nothing
               PROVE  RunFits(run'[y], job'[run'[y].job], overran)
    BY <1>1 DEF RunsFit
  <2>1. CASE y = x
    BY <1>7, <1>12, <2>1
  <2>2. CASE y # x
    <3>1. run'[y] = run[y] /\ run[y].job \in Jobs /\ RunFits(run[y], job[run[y].job], overran)
      BY <1>1, <1>7, <2>2 DEF JobsInv, RunsFit, Shapes, RunRecs
    <3>2. run[y].job = j => j \in overran
      BY <1>7, <1>11, <2>2
    <3> QED BY <1>7, <3>1, <3>2 DEF RunFits
  <2> QED BY <2>1, <2>2
<1>14. OneRunOfEach'
  BY <1>1, <1>7, <1>11, <1>12 DEF JobsInv, OneRunOfEach
<1>15. CallsLeft'
  BY <1>1, <1>6, <1>7, <1>11 DEF JobsInv, CallsLeft, Spent, Fields, IInv, Shapes, RunRecs
<1> QED BY <1>8, <1>10, <1>13, <1>14, <1>15 DEF JobsInv

\* Steps that leave the runs alone, or end them all, and change the rows of jobs
\* that nobody is at, or that outlasted their lease.
LEMMA RowsKeepJobs ==
  ASSUME JobsInv, IInv', Phases', SweepKnows',
         UNCHANGED run \/ run' = [x \in Runs |-> Nothing],
         UNCHANGED calls, overran \subseteq overran',
         \A j \in Jobs : \/ job'[j] = job[j]
                         \/ /\ RowFits(j, job'[j], calls[j], overran')
                            /\ \/ j \in overran'
                               \/ \A y \in Runs : run'[y] # Nothing => run[y].job # j
  PROVE  JobsInv'
<1>1. RowsFit'
  <2> SUFFICES ASSUME NEW j \in Jobs PROVE RowFits(j, job'[j], calls[j], overran')
    BY DEF RowsFit
  <2>1. RowFits(j, job[j], calls[j], overran) => RowFits(j, job[j], calls[j], overran')
    BY DEF RowFits
  <2> QED BY <2>1 DEF JobsInv, RowsFit
<1>2. RunsFit'
  <2> SUFFICES ASSUME NEW y \in Runs, run'[y] # Nothing
               PROVE  RunFits(run'[y], job'[run'[y].job], overran')
    BY DEF RunsFit
  <2>1. run'[y] = run[y] /\ run[y].job \in Jobs /\ RunFits(run[y], job[run[y].job], overran)
    BY DEF JobsInv, RunsFit, IInv, Shapes, RunRecs
  <2>2. job'[run[y].job] = job[run[y].job] \/ run[y].job \in overran'
    BY <2>1
  <2> QED BY <2>1, <2>2 DEF RunFits
<1>3. OneRunOfEach'
  BY DEF JobsInv, OneRunOfEach
<1>4. CallsLeft'
  <2> SUFFICES ASSUME NEW y \in Runs, run'[y] # Nothing
               PROVE  Spent(run'[y], job'[run'[y].job], calls[run'[y].job], overran')
    BY DEF CallsLeft
  <2>1. /\ run'[y] = run[y] /\ run[y].job \in Jobs
        /\ Spent(run[y], job[run[y].job], calls[run[y].job], overran)
    BY DEF JobsInv, CallsLeft, IInv, Shapes, RunRecs
  <2>2. job'[run[y].job] = job[run[y].job] \/ run[y].job \in overran'
    BY <2>1
  <2> QED BY <2>1, <2>2 DEF Spent
<1> QED BY <1>1, <1>2, <1>3, <1>4 DEF JobsInv

\* The sweep of recoverStale.
LEMMA SweepKeepsJobs ==
  ASSUME JobsInv, IInv',
         \/ FailExhausted \/ \E j \in Jobs : ReleaseExhausted(j)
         \/ ReadStale \/ \E w \in sweep.rows : RecoverStaleRow(w)
         \/ FreeNamedSlot \/ SweepFails
  PROVE  JobsInv'
<1>1. Shapes /\ MaxAttempts \in Nat /\ MaxAttempts > 0
  BY AttemptsAreCounted DEF JobsInv, IInv
<1>2. \A j \in Jobs : job[j] \in JobRows /\ job[j].attempts \in Int /\ RowFits(j, job[j], calls[j], overran)
  BY <1>1 DEF Shapes, JobRows, JobsInv, RowsFit
<1>3. CASE FailExhausted
  <2>1. /\ phase = "up" /\ sweep = Idle /\ UNCHANGED <<run, phase, calls, overran, crashes>>
        /\ \A j \in Jobs : job'[j] = IF Exhausted(j) THEN Settled(j, "failed") ELSE job[j]
        /\ sweep'.release = {j \in Jobs : Exhausted(j)}
        /\ sweep'.rows = {} /\ sweep'.free = Nothing
    BY <1>3 DEF FailExhausted, Idle
  <2>2. ASSUME NEW j \in Jobs, Exhausted(j)
        PROVE  /\ Kind[j] # "direct" /\ RowFits(j, job'[j], calls[j], overran)
               /\ job'[j].status = "failed"
               /\ j \in overran \/ \A y \in Runs : run[y] # Nothing => run[y].job # j
    <3>1. job'[j] = Settled(j, "failed") /\ "failed" \in Statuses
      BY <2>1, <2>2 DEF Statuses
    <3>2. Written(job'[j], "failed", job[j].attempts, "none", job[j].res)
      BY <1>1, <3>1, SettledRow
    <3>3. job[j].status \in {"queued", "waiting"} /\ job[j].attempts >= MaxAttempts
      BY <2>2 DEF Exhausted
    <3>4. Kind[j] # "direct"
      BY <1>1, <1>2, <3>3 DEF JobsInv, IInv, NeverWaits, Direct, RowFits
    <3>5. j \in overran \/ \A y \in Runs : run[y] # Nothing => run[y].job # j
      BY <3>3 DEF JobsInv, RunsFit, RunFits
    <3> QED BY <1>2, <3>2, <3>4, <3>5 DEF RowFits, Written
  <2>3. Phases' /\ SweepKnows'
    BY <2>1, <2>2 DEF JobsInv, Phases, SweepKnows
  <2> QED BY <2>1, <2>2, <2>3, RowsKeepJobs
<1>4. ASSUME NEW j \in Jobs, ReleaseExhausted(j) PROVE JobsInv'
  <2>1. /\ UNCHANGED <<run, job, phase, calls, overran, crashes, freed>>
        /\ j \in sweep.release /\ sweep'.release \subseteq sweep.release
        /\ sweep'.rows = sweep.rows /\ sweep'.free = sweep.free
    BY <1>1, <1>4 DEF ReleaseExhausted, Shapes, faultVars
  <2>2. Phases' /\ SweepKnows'
    BY <2>1 DEF JobsInv, Phases, SweepKnows, Idle
  <2> QED BY <2>1, <2>2, RowsKeepJobs
<1>5. CASE ReadStale
  <2>1. /\ phase = "up" /\ UNCHANGED <<run, job, phase, calls, overran, crashes>>
        /\ sweep'.release = {} /\ sweep'.free = Nothing
        /\ sweep'.rows = {Row(j) : j \in {i \in Jobs : Stale(i)}}
    BY <1>5 DEF ReadStale, Idle
  <2>2. \A w \in sweep'.rows : w.job \in overran
    BY <1>2, <2>1 DEF Row, Stale, RowFits
  <2>3. Phases' /\ SweepKnows'
    BY <2>1, <2>2 DEF JobsInv, Phases, SweepKnows
  <2> QED BY <2>1, <2>3, RowsKeepJobs
<1>6. ASSUME NEW w \in sweep.rows, RecoverStaleRow(w) PROVE JobsInv'
  <2>1. /\ phase = "up" /\ UNCHANGED <<run, phase, calls, overran, crashes>>
        /\ w.job \in overran /\ w.job \in Jobs /\ w.attempts \in Int
    BY <1>1, <1>6 DEF RecoverStaleRow, JobsInv, SweepKnows, Shapes, Rows
  <2>2. /\ sweep'.release = sweep.release /\ sweep'.rows \subseteq sweep.rows
    BY <1>1, <1>6 DEF RecoverStaleRow, Shapes
  <2>3. PICK st \in Statuses, n \in Int :
          Update(w.job, Recovered(w.job, st, n)) /\ (Kind[w.job] = "direct" => st = "failed")
    <3>1. CASE Kind[w.job] = "direct"
      BY <1>2, <1>6, <2>1, <3>1 DEF RecoverStaleRow, Update, Statuses
    <3>2. CASE Kind[w.job] # "direct"
      <4>1. PICK st \in {"failed", "queued"} : Update(w.job, Recovered(w.job, st, w.attempts + 1))
        BY <1>6, <3>2 DEF RecoverStaleRow, Update
      <4> QED BY <2>1, <3>2, <4>1 DEF Statuses
    <3> QED BY <3>1, <3>2
  <2>4. Written(Recovered(w.job, st, n), st, n, "none", Nothing)
    BY <1>1, <2>1, RecoveredRow
  <2>5. /\ \A j \in Jobs \ {w.job} : job'[j] = job[j]
        /\ RowFits(w.job, job'[w.job], calls[w.job], overran)
    BY <1>1, <2>1, <2>3, <2>4 DEF Update, Shapes, RowFits, Written
  <2>6. \A j \in sweep.release : j \in Jobs
    BY <1>1 DEF Shapes
  <2>7. Phases' /\ SweepKnows'
    BY <2>1, <2>2, <2>5, <2>6 DEF JobsInv, Phases, SweepKnows
  <2> QED BY <2>1, <2>5, <2>7, RowsKeepJobs
<1>7. CASE FreeNamedSlot
  <2>1. /\ UNCHANGED <<run, job, phase, calls, overran, crashes, freed>>
        /\ sweep.free # Nothing /\ sweep'.release = sweep.release
        /\ sweep'.rows = sweep.rows /\ sweep'.free = Nothing
    BY <1>1, <1>7 DEF FreeNamedSlot, Shapes, faultVars
  <2>2. Phases' /\ SweepKnows'
    BY <2>1 DEF JobsInv, Phases, SweepKnows, Idle
  <2> QED BY <2>1, <2>2, RowsKeepJobs
<1>8. CASE SweepFails
  <2>1. /\ UNCHANGED <<run, job, phase, calls, overran, crashes>>
        /\ phase \in {"up", "boot"} /\ sweep' = Idle
    BY <1>8 DEF SweepFails
  <2>2. Phases' /\ SweepKnows'
    BY <2>1 DEF JobsInv, Phases, SweepKnows, Idle
  <2> QED BY <2>1, <2>2, RowsKeepJobs
<1> QED BY <1>3, <1>4, <1>5, <1>6, <1>7, <1>8

\* A crash, and the restart.
LEMMA RestartKeepsJobs ==
  ASSUME JobsInv, IInv',
         Crash \/ Boot \/ (\E w \in sweep.rows : RecoverBootRow(w)) \/ Booted \/ BootFails
  PROVE  JobsInv'
<1>1. Shapes /\ MaxAttempts \in Nat /\ MaxAttempts > 0
  BY AttemptsAreCounted DEF JobsInv, IInv
<1>2. \A j \in Jobs : job[j] \in JobRows /\ job[j].attempts \in Int /\ RowFits(j, job[j], calls[j], overran)
  BY <1>1 DEF Shapes, JobRows, JobsInv, RowsFit
<1>3. CASE Crash
  <2>1. /\ UNCHANGED <<job, calls, overran>> /\ phase' = "down" /\ sweep' = Idle
        /\ run' = [x \in Runs |-> Nothing] /\ crashes' = crashes + 1
    BY <1>3 DEF Crash
  <2>2. Phases' /\ SweepKnows'
    BY <2>1 DEF JobsInv, Phases, SweepKnows, Idle
  <2> QED BY <2>1, <2>2, RowsKeepJobs
<1>4. CASE Boot
  <2>1. /\ UNCHANGED <<run, calls, overran, crashes>> /\ phase = "down" /\ phase' = "boot"
        /\ \A j \in Jobs : job'[j] = IF job[j].status = "running" /\ Kind[j] = "ai"
                                     THEN Settled(j, "failed") ELSE job[j]
        /\ sweep'.release = {} /\ sweep'.free = Nothing
        /\ sweep'.rows = {Row(j) : j \in {i \in Jobs : job[i].status = "running" /\ Kind[i] # "ai"}}
    BY <1>4 DEF Boot, FailCutOff, CutOff, Idle
  <2>2. \A j \in Jobs : job'[j] = job[j] \/ RowFits(j, job'[j], calls[j], overran)
    <3>1. \A j \in Jobs : Written(Settled(j, "failed"), "failed", job[j].attempts, "none", job[j].res)
      BY <1>1, SettledRow DEF Statuses
    <3> QED BY <1>2, <2>1, <3>1 DEF RowFits, Written
  <2>3. \A y \in Runs : run[y] = Nothing
    BY <2>1 DEF JobsInv, Phases
  <2>4. \A w \in sweep'.rows : /\ Kind[w.job] # "ai" /\ w.res \in {OpenClaw, Nothing}
                               /\ w.attempts = job'[w.job].attempts
    BY <1>2, <2>1 DEF Row, RowFits
  <2>5. Phases' /\ SweepKnows'
    BY <2>1, <2>3, <2>4 DEF JobsInv, Phases, SweepKnows
  <2> QED BY <2>1, <2>2, <2>3, <2>5, RowsKeepJobs
<1>5. ASSUME NEW w \in sweep.rows, RecoverBootRow(w) PROVE JobsInv'
  <2>1. /\ phase \in {"boot", "late"} /\ UNCHANGED <<run, phase, calls, overran, crashes, freed>>
        /\ w.job \in Jobs /\ w.attempts = job[w.job].attempts
        /\ phase = "boot" => Kind[w.job] # "ai" /\ w.res \in {OpenClaw, Nothing}
        /\ phase = "late" => Kind[w.job] = "ai" /\ freed # {}
    <3>1. sweep # Idle
      BY DEF Idle
    <3>2. w.job \in Jobs /\ UNCHANGED <<run, phase, calls, overran, crashes, freed>>
      BY <1>1, <1>5 DEF RecoverBootRow, Shapes, Rows, faultVars
    <3>3. phase \in {"boot", "late"}
      BY <1>5 DEF RecoverBootRow
    <3> QED BY <3>1, <3>2, <3>3 DEF JobsInv, SweepKnows
  <2>2. /\ sweep'.release = sweep.release /\ sweep'.rows \subseteq sweep.rows
        /\ sweep'.free = w.res
    BY <1>1, <1>5 DEF RecoverBootRow, Shapes
  <2>3. PICK st \in Statuses :
          /\ Update(w.job, Recovered(w.job, st, w.attempts))
          /\ Kind[w.job] = "direct" => st = "failed"
    BY <1>5 DEF RecoverBootRow, Update, Statuses
  <2>4. Written(Recovered(w.job, st, w.attempts), st, w.attempts, "none", Nothing)
    BY <1>1, <1>2, <2>1, RecoveredRow
  <2>5. /\ \A j \in Jobs : job'[j].attempts = job[j].attempts
        /\ \A j \in Jobs \ {w.job} : job'[j] = job[j]
        /\ RowFits(w.job, job'[w.job], calls[w.job], overran)
    BY <1>1, <1>2, <2>1, <2>3, <2>4 DEF Update, Shapes, RowFits, Written
  <2>6. \A y \in Runs : run[y] = Nothing
    BY <2>1 DEF JobsInv, Phases
  <2>7. \A v \in sweep.rows : v.job \in Jobs
    BY <1>1 DEF Shapes, Rows
  <2>8. Phases' /\ SweepKnows'
    BY <2>1, <2>2, <2>5, <2>6, <2>7 DEF JobsInv, Phases, SweepKnows
  <2> QED BY <2>1, <2>5, <2>6, <2>8, RowsKeepJobs
<1>6. CASE Booted
  <2>1. UNCHANGED <<job, run, sweep, calls, overran, crashes>> /\ phase' = "up" /\ sweep = Idle
    BY <1>6 DEF Booted
  <2>2. Phases' /\ SweepKnows'
    BY <2>1 DEF JobsInv, Phases, SweepKnows, Idle
  <2> QED BY <2>1, <2>2, RowsKeepJobs
<1>7. CASE BootFails
  <2>1. /\ UNCHANGED <<run, calls, overran, crashes>> /\ phase = "down" /\ phase' = "late"
        /\ sweep = Idle
    BY <1>7 DEF BootFails, JobsInv, Phases
  <2>2. \A j \in Jobs : job'[j] = job[j] \/ RowFits(j, job'[j], calls[j], overran)
    <3>1. \A j \in Jobs : Written(Settled(j, "failed"), "failed", job[j].attempts, "none", job[j].res)
      BY <1>1, SettledRow DEF Statuses
    <3> QED BY <1>2, <1>7, <3>1 DEF BootFails, FailCutOff, RowFits, Written
  <2>3. \A y \in Runs : run[y] = Nothing
    BY <2>1 DEF JobsInv, Phases
  <2>4. Phases'
    BY <2>1, <2>3 DEF JobsInv, Phases
  <2>5. CASE UNCHANGED sweep
    BY <2>1, <2>2, <2>3, <2>4, <2>5, RowsKeepJobs DEF SweepKnows, Idle
  <2>6. ASSUME NEW S \in SUBSET CutOff, sweep' = [sweep EXCEPT !.rows = {Row(j) : j \in S}],
               freed' = freed \cup S, UNCHANGED job
        PROVE  JobsInv'
    <3>1. /\ sweep'.release = {} /\ sweep'.free = Nothing
          /\ sweep'.rows = {Row(j) : j \in S} /\ (S = {} => sweep' = Idle)
      BY <2>1, <2>6 DEF Idle
    <3>2. \A w \in sweep'.rows : Kind[w.job] = "ai" /\ w.attempts = job'[w.job].attempts
      BY <2>6, <3>1 DEF Row, CutOff
    <3>3. SweepKnows'
      BY <2>1, <2>6, <3>1, <3>2 DEF SweepKnows
    <3> QED BY <2>1, <2>2, <2>3, <2>4, <3>3, RowsKeepJobs
  <2> QED BY <1>7, <2>5, <2>6 DEF BootFails
<1> QED BY <1>3, <1>4, <1>5, <1>6, <1>7

LEMMA JobsStep == JobsInv /\ [Next]_vars => JobsInv'
<1> SUFFICES ASSUME JobsInv, [Next]_vars PROVE JobsInv'
  OBVIOUS
<1>0. IInv'
  BY StepOK DEF JobsInv
<1>1. ASSUME NEW x \in Runs, RunNext(x) PROVE JobsInv'
  <2>1. x \in Busy /\ InRun(x)
    BY <1>1, RunNextRuns
  <2> QED BY <1>0, <1>1, <2>1, RoutedKeepsJobs, WritingKeepsJobs, CallAgainKeepsJobs DEF RunNext
<1>2. ASSUME NEW x \in Runs, NEW j \in Jobs, Claim(x, j) PROVE JobsInv'
  BY <1>0, <1>2, ClaimKeepsJobs
<1>3. CASE \/ FailExhausted \/ \E j \in Jobs : ReleaseExhausted(j)
           \/ ReadStale \/ \E w \in sweep.rows : RecoverStaleRow(w)
           \/ FreeNamedSlot \/ SweepFails
  BY <1>0, <1>3, SweepKeepsJobs
<1>4. CASE Crash \/ Boot \/ (\E w \in sweep.rows : RecoverBootRow(w)) \/ Booted \/ BootFails
  BY <1>0, <1>4, RestartKeepsJobs
<1>5. ASSUME NEW j \in Jobs, LeaseOver(j) PROVE JobsInv'
  <2> DEFINE w == [job[j] EXCEPT !.lease = "over"]
  <2>1. job[j] \in JobRows /\ RowFits(j, job[j], calls[j], overran)
    BY DEF JobsInv, IInv, Shapes, RowsFit
  <2>2. Written(w, job[j].status, job[j].attempts, "over", job[j].res)
    BY <2>1 DEF Written, JobRows
  <2>3. /\ Update(j, w) /\ UNCHANGED <<run, sweep, phase, calls, crashes>>
        /\ overran' = overran \cup {j} /\ phase = "up"
    BY <1>5 DEF LeaseOver
  <2> HIDE DEF w
  <2>4. /\ job'[j] = w /\ \A i \in Jobs \ {j} : job'[i] = job[i]
        /\ RowFits(j, w, calls[j], overran')
    BY <2>1, <2>2, <2>3 DEF JobsInv, IInv, Shapes, Update, RowFits, Written
  <2>5. \A i \in sweep.release : i \in Jobs
    BY DEF JobsInv, IInv, Shapes
  <2>6. Phases' /\ SweepKnows'
    BY <2>3, <2>4, <2>5 DEF JobsInv, Phases, SweepKnows
  <2> QED BY <1>0, <2>3, <2>4, <2>6, RowsKeepJobs
<1>6. CASE OthersNext \/ UNCHANGED vars
  <2>1. UNCHANGED <<job, run, sweep, phase, calls, overran, crashes, freed>>
    BY <1>6 DEF OthersNext, vars, jobVars, faultVars
  <2>2. Phases' /\ SweepKnows'
    BY <2>1 DEF JobsInv, Phases, SweepKnows
  <2> QED BY <1>0, <2>1, <2>2, RowsKeepJobs
<1>7. ASSUME NEW x \in Runs, (\E r \in Resources : Unlisted(x, r)) \/ SlotLeft(x) \/ HalfAnswered(x)
      PROVE  JobsInv'
  <2>1. x \in Busy /\ InRun(x)
    BY <1>7 DEF Unlisted, SlotLeft, HalfAnswered, InRun
  <2> QED BY <1>0, <1>7, <2>1, RoutedKeepsJobs
<1> QED BY <1>1, <1>2, <1>3, <1>4, <1>5, <1>6, <1>7 DEF Next, FaultNext

LEMMA JobsAlways == Spec => []JobsInv
BY JobsInit, JobsStep, PTL DEF Spec

\* The attempts of all runs of a job stay within its budget, one correction aside, and
\* an attempt is started twice at most, for any number of attempts, resources, waits, overlapping runs and crashes.
THEOREM BudgetHolds == Spec => []RetryBudget
<1>1. JobsInv => RetryBudget
  <2> SUFFICES ASSUME JobsInv, NEW j \in Jobs, j \notin overran
               PROVE  calls[j] <= 2 * (MaxAttempts + 1)
    BY DEF RetryBudget
  <2>1. calls[j] \in Nat /\ job[j].attempts \in Int /\ MaxAttempts \in Nat
    BY AttemptsAreCounted DEF JobsInv, IInv, Shapes, JobRows
  <2>2. CASE Kind[j] = "direct"
    BY <2>1, <2>2 DEF JobsInv, IInv, StartedOnce, Direct
  <2>3. CASE Kind[j] # "direct"
    BY <2>1, <2>3 DEF JobsInv, RowsFit, RowFits
  <2> QED BY <2>2, <2>3
<1> QED BY <1>1, JobsAlways, PTL
-----------------------------------------------------------------------------
(***************************************************************************)
(* The resources: whoever uses one occupies its slot, and what occupies a  *)
(* slot uses its resource.                                                 *)
(***************************************************************************)

UsingPcs == {"claimed", "calling", "recalling"}
Uses(q, r)     == q # Nothing /\ q.res = r /\ q.pc \in UsingPcs
Occupies(q, r) == q # Nothing /\ q.res = r /\ q.pc \in UsingPcs \cup {"leaving"}

LeaseRows == [work : Holders, live : BOOLEAN]
OfDirect(l) == l # Nothing /\ l.work \in Jobs => l.work \in Direct

\* The only jobs that hold leases are direct actions, which never claim a slot.
Tables ==
  /\ LeaseTypeOK(Jobs \cup Holders)
  /\ \A r \in Resources : OfDirect(lease[r])

Exclusion ==
  overran \cup freed = {} =>
    \A r \in Resources : Reliable(r) =>
      /\ \A x \in Runs : Uses(run[x], r) => slot[r] = run[x].job
      /\ IsLive(r) => slot[r] = lease[r].work

SlotKinds ==
  \A r \in Resources : slot[r] \in Jobs \ Holders =>
    (Kind[slot[r]] = "ai" /\ r # OpenClaw) \/ (Kind[slot[r]] = "openclaw" /\ r = OpenClaw)

\* Also while recoverStale and the restart are under way.
InUse ==
  phase # "down" =>
    \A r \in Resources :
      Reliable(r) /\ slot[r] \in Jobs \ (Holders \cup overran \cup struck) =>
        \E x \in Runs : Occupies(run[x], r) /\ run[x].job = slot[r]

SlotsInv == JobsInv /\ Tables /\ Exclusion /\ SlotKinds /\ InUse

LEMMA SlotsInit == Init => SlotsInv
<1> SUFFICES ASSUME Init PROVE SlotsInv
  OBVIOUS
<1>1. JobsInv
  BY JobsInit
<1>2. Tables
  BY DEF Init, LeaseInit, Tables, LeaseTypeOK, OfDirect
<1>3. Exclusion /\ SlotKinds /\ InUse
  BY NullIsNoJob DEF Init, LeaseInit, Exclusion, SlotKinds, InUse, Uses, UsingPcs, IsLive, Leased
<1> QED BY <1>1, <1>2, <1>3 DEF SlotsInv

\* A run that uses a resource is of a job that holds no lease.
LEMMA UsersHoldNoLease ==
  ASSUME SlotsInv, NEW x \in Runs, NEW r \in Resources, Occupies(run[x], r)
  PROVE  /\ run[x].job \in Jobs \ Direct
         /\ Leased(r) => run[x].job # lease[r].work
<1>1. run[x].job \in Jobs \ Direct
  BY DEF SlotsInv, JobsInv, IInv, Shapes, RunRecs, RunsFit, RunFits, KindFits, Occupies, UsingPcs, Direct
<1> QED BY <1>1 DEF SlotsInv, Tables, OfDirect, Leased

\* The runs go on without taking a resource or leaving one.
Steady ==
  \A y \in Runs, r \in Resources :
    /\ Uses(run'[y], r) => Uses(run[y], r) /\ run'[y].job = run[y].job
    /\ Occupies(run[y], r) => Occupies(run'[y], r) /\ run'[y].job = run[y].job

\* The histories grow.
HistoryGrows == overran \subseteq overran' /\ freed \subseteq freed' /\ struck \subseteq struck'

\* What the operations of the leases do to one resource: work enters a slot that
\* is free, or leaves with its lease.
LeaseOp(r, s, l) ==
  /\ slot' = [slot EXCEPT ![r] = s] /\ lease' = [lease EXCEPT ![r] = l]
  /\ hand' \in [Holders -> Resources \cup {Nothing}]
  /\ s \in Holders \cup {Nothing, slot[r]}
  /\ l \in LeaseRows \cup {Nothing} /\ OfDirect(l)
  /\ s # slot[r] => slot[r] = Nothing \/ (Leased(r) /\ slot[r] = lease[r].work)
  /\ l # Nothing /\ l.live => s = l.work \/ (l = lease[r] /\ s = slot[r])

LEMMA LeaseOpKeepsSlots ==
  ASSUME SlotsInv, JobsInv', Steady, HistoryGrows,
         UNCHANGED crashes, (phase = "down") <=> (phase' = "down"),
         NEW r \in Resources, NEW s, NEW l, LeaseOp(r, s, l)
  PROVE  SlotsInv'
<1>1. LeaseTypeOK(Jobs \cup Holders) /\ \A i \in Resources : OfDirect(lease[i])
  BY DEF SlotsInv, Tables
<1>2. /\ slot'[r] = s /\ \A i \in Resources \ {r} : slot'[i] = slot[i]
      /\ lease'[r] = l /\ \A i \in Resources \ {r} : lease'[i] = lease[i]
  BY <1>1 DEF LeaseOp, LeaseTypeOK
<1>3. Tables'
  BY <1>1, <1>2 DEF Tables, LeaseTypeOK, LeaseOp, LeaseRows, OfDirect
<1>4. Exclusion'
  <2> SUFFICES ASSUME overran \cup freed = {}, NEW i \in Resources, Reliable(i)
               PROVE  /\ \A y \in Runs : Uses(run'[y], i) => slot'[i] = run'[y].job
                      /\ lease'[i] # Nothing /\ lease'[i].live => slot'[i] = lease'[i].work
    BY DEF Exclusion, HistoryGrows, Reliable, IsLive, Leased
  <2>1. /\ \A y \in Runs : Uses(run'[y], i) => slot[i] = run'[y].job /\ Occupies(run[y], i)
                                               /\ run'[y].job = run[y].job
        /\ lease[i] # Nothing /\ lease[i].live => slot[i] = lease[i].work
    BY DEF SlotsInv, Exclusion, Steady, IsLive, Leased, Uses, Occupies
  <2>2. CASE i # r
    BY <1>2, <2>1, <2>2
  <2>3. CASE i = r
    <3>1. ASSUME NEW y \in Runs, Uses(run'[y], r) PROVE s = run'[y].job
      <4>1. slot[r] = run[y].job /\ run'[y].job = run[y].job /\ Occupies(run[y], r)
        BY <2>1, <2>3, <3>1
      <4>2. slot[r] # Nothing /\ (Leased(r) => slot[r] # lease[r].work)
        BY <4>1, UsersHoldNoLease, NullIsNoJob
      <4> QED BY <4>1, <4>2 DEF LeaseOp
    <3> QED BY <1>2, <2>1, <2>3, <3>1 DEF LeaseOp
  <2> QED BY <2>2, <2>3
<1>5. SlotKinds'
  BY <1>1, <1>2, NullIsNoJob DEF SlotsInv, SlotKinds, LeaseOp
<1>6. InUse'
  <2> SUFFICES ASSUME phase' # "down", NEW i \in Resources, Reliable(i),
                      slot'[i] \in Jobs \ (Holders \cup overran' \cup struck')
               PROVE  \E y \in Runs : Occupies(run'[y], i) /\ run'[y].job = slot'[i]
    BY DEF InUse, Reliable
  <2>1. slot'[i] = slot[i]
    BY <1>2, NullIsNoJob DEF LeaseOp
  <2> QED BY <2>1 DEF SlotsInv, InUse, Steady, HistoryGrows
<1> QED BY <1>3, <1>4, <1>5, <1>6 DEF SlotsInv

\* The tables stand as they are.
LEMMA SteadyKeepsSlots ==
  ASSUME SlotsInv, JobsInv', Steady, HistoryGrows,
         UNCHANGED <<leaseVars, crashes>>, (phase = "down") <=> (phase' = "down")
  PROVE  SlotsInv'
<1>1. LeaseTypeOK(Jobs \cup Holders) /\ OfDirect(lease[OpenClaw]) /\ OpenClaw \in Resources
  BY OpenClawIsResource DEF SlotsInv, Tables
<1>2. LeaseOp(OpenClaw, slot[OpenClaw], lease[OpenClaw])
  BY <1>1 DEF LeaseOp, leaseVars, LeaseTypeOK, LeaseRows
<1> QED BY <1>1, <1>2, LeaseOpKeepsSlots

\* claimResource and claimOpenClawLease: the run has the slot, or leaves it behind.
LEMMA TakingKeepsSlots ==
  ASSUME SlotsInv, JobsInv', NEW x \in Busy, NEW r \in Resources, InRun(x), slot[r] = Nothing,
         slot' = [slot EXCEPT ![r] = Job(x)], UNCHANGED <<lease, hand, freed>>,
         run[x].pc = "start", Alone(x), run'[x] # Nothing /\ run'[x].job = Job(x),
         \/ run'[x].res = r /\ run'[x].pc = "claimed" /\ UNCHANGED struck
         \/ run'[x].pc = "start" /\ struck' = struck \cup {Job(x)},
         (Kind[Job(x)] = "ai" /\ r # OpenClaw) \/ (Kind[Job(x)] = "openclaw" /\ r = OpenClaw)
  PROVE  SlotsInv'
<1>1. LeaseTypeOK(Jobs \cup Holders) /\ \A i \in Resources : OfDirect(lease[i])
  BY DEF SlotsInv, Tables
<1>2. /\ x \in Runs /\ Job(x) \in Jobs /\ Job(x) = run[x].job
      /\ UNCHANGED <<lease, hand, overran, crashes, phase>> /\ phase = "up"
      /\ slot[r] = Nothing
  BY RunIsFit DEF SlotsInv, InRun
<1>3. slot'[r] = Job(x) /\ \A i \in Resources \ {r} : slot'[i] = slot[i]
  BY <1>1 DEF LeaseTypeOK
<1>4. UNCHANGED freed /\ struck \subseteq struck'
  OBVIOUS
<1>5. \A y \in Runs \ {x} : run'[y] = run[y]
  BY DEF Alone
<1>6. Tables'
  BY <1>1, <1>2, <1>3 DEF Tables, LeaseTypeOK
<1>7. Exclusion'
  <2> SUFFICES ASSUME overran \cup freed = {}, NEW i \in Resources, Reliable(i)
               PROVE  /\ \A y \in Runs : Uses(run'[y], i) => slot'[i] = run'[y].job
                      /\ IsLive(i) => slot'[i] = lease[i].work
    BY <1>2, <1>4 DEF Exclusion, Reliable, IsLive, Leased
  <2>1. /\ \A y \in Runs : Uses(run[y], i) => slot[i] = run[y].job /\ run[y].job # Nothing
        /\ IsLive(i) => slot[i] = lease[i].work /\ lease[i].work # Nothing
    BY <1>1, UsersHoldNoLease, NullIsNoJob, NothingIsNothing
       DEF SlotsInv, Exclusion, Uses, Occupies, UsingPcs, IsLive, Leased, LeaseTypeOK
  <2>2. CASE i # r
    BY <1>3, <1>5, <2>1, <2>2 DEF Uses, UsingPcs
  <2>3. CASE i = r
    BY <1>2, <1>3, <1>5, <2>1, <2>3 DEF Uses, UsingPcs
  <2> QED BY <2>2, <2>3
<1>8. SlotKinds'
  BY <1>3 DEF SlotsInv, SlotKinds
<1>9. InUse'
  <2> SUFFICES ASSUME NEW i \in Resources, Reliable(i), slot'[i] \in Jobs \ (Holders \cup overran \cup struck')
               PROVE  \E y \in Runs : Occupies(run'[y], i) /\ run'[y].job = slot'[i]
    BY <1>2 DEF InUse, Reliable
  <2>1. CASE i = r
    BY <1>2, <1>3, <2>1 DEF Occupies, UsingPcs
  <2>2. CASE i # r
    <3>1. PICK y \in Runs : Occupies(run[y], i) /\ run[y].job = slot[i]
      BY <1>2, <1>3, <1>4, <2>2 DEF SlotsInv, InUse
    <3>2. y # x
      BY <3>1 DEF Occupies, UsingPcs
    <3> QED BY <1>3, <1>5, <2>2, <3>1, <3>2
  <2> QED BY <2>1, <2>2
<1> QED BY <1>6, <1>7, <1>8, <1>9 DEF SlotsInv

\* Slots are cleared: of work that is not using them, unless it outlasted its
\* lease, and so that nobody who uses one loses it.
LEMMA ClearingKeepsSlots ==
  ASSUME SlotsInv, JobsInv',
         UNCHANGED lease, overran \subseteq overran', freed \subseteq freed', crashes' \in {crashes, crashes + 1},
         hand' \in [Holders -> Resources \cup {Nothing}],
         slot' \in [Resources -> Jobs \cup Holders \cup {Nothing}],
         \A r \in Resources : slot'[r] \in {slot[r], Nothing},
         \A y \in Runs, r \in Resources :
           Uses(run'[y], r) => Uses(run[y], r) /\ run'[y].job = run[y].job,
         \A r \in Resources : slot'[r] # slot[r] /\ overran' \cup freed' = {} /\ Reliable(r)' =>
           /\ ~(IsLive(r) /\ slot[r] = lease[r].work)
           /\ \A y \in Runs : ~(Uses(run'[y], r) /\ run'[y].job = slot[r]),
         \A r \in Resources :
           phase' # "down" /\ slot'[r] = slot[r] /\ Reliable(r)'
           /\ slot[r] \in Jobs \ (Holders \cup overran' \cup struck') =>
             \E y \in Runs : Occupies(run'[y], r) /\ run'[y].job = slot[r]
  PROVE  SlotsInv'
<1>1. Tables'
  BY DEF SlotsInv, Tables, LeaseTypeOK
<1>2. \A r \in Resources : Reliable(r)' => Reliable(r)
  BY DEF SlotsInv, JobsInv, Phases, Reliable
<1>3. Exclusion'
  <2> SUFFICES ASSUME overran' \cup freed' = {}, NEW r \in Resources, Reliable(r)'
               PROVE  /\ \A y \in Runs : Uses(run'[y], r) => slot'[r] = run'[y].job
                      /\ IsLive(r) => slot'[r] = lease[r].work
    BY DEF Exclusion, IsLive, Leased
  <2>1. /\ \A y \in Runs : Uses(run'[y], r) => slot[r] = run'[y].job
        /\ IsLive(r) => slot[r] = lease[r].work
    <3>1. overran \cup freed = {}
      OBVIOUS
    <3> QED BY <1>2, <3>1 DEF SlotsInv, Exclusion
  <2> QED BY <2>1
<1>4. SlotKinds'
  BY NullIsNoJob DEF SlotsInv, SlotKinds
<1>5. InUse'
  BY NullIsNoJob DEF InUse
<1> QED BY <1>1, <1>3, <1>4, <1>5 DEF SlotsInv

-----------------------------------------------------------------------------
(* The steps of the leases. *)

LEMMA AcquiringOp ==
  ASSUME Tables, NEW h \in Holders, h \in Jobs => h \in Direct, NEW r \in Resources, Acquire(h, r)
  PROVE  \E s, l : LeaseOp(r, s, l)
<1> DEFINE s0 == SlotAfterClearing(r)
           l0 == LeaseAfterClearing(r)
           new == [work |-> h, live |-> TRUE]
<1>1. /\ s0 \in {slot[r], Nothing} /\ l0 \in {lease[r], Nothing}
      /\ s0 # slot[r] => Leased(r) /\ slot[r] = lease[r].work
      /\ l0 # Nothing /\ l0.live => l0 = lease[r] /\ s0 = slot[r]
      /\ l0 \in LeaseRows \cup {Nothing} /\ OfDirect(l0)
  BY DEF Tables, LeaseTypeOK, SlotAfterClearing, LeaseAfterClearing, IsExpired, Vacated, Leased,
         LeaseRows, OfDirect
<1>2. hand' \in [Holders -> Resources \cup {Nothing}]
  BY DEF Tables, LeaseTypeOK, Acquire
<1>3. new \in LeaseRows /\ new.work = h
  BY DEF LeaseRows
<1>4. CASE s0 = Nothing /\ l0 = Nothing
  <2>1. slot' = [slot EXCEPT ![r] = h] /\ lease' = [lease EXCEPT ![r] = new]
    BY <1>4 DEF Acquire
  <2> HIDE DEF s0, l0, new
  <2>2. LeaseOp(r, h, new)
    BY <1>1, <1>2, <1>3, <1>4, <2>1 DEF LeaseOp, OfDirect
  <2> QED BY <2>2
<1>5. CASE ~(s0 = Nothing /\ l0 = Nothing)
  <2>1. slot' = [slot EXCEPT ![r] = s0] /\ lease' = [lease EXCEPT ![r] = l0]
    BY <1>5 DEF Acquire
  <2> HIDE DEF s0, l0, new
  <2>2. LeaseOp(r, s0, l0)
    BY <1>1, <1>2, <2>1 DEF LeaseOp
  <2> QED BY <2>2
<1> QED BY <1>4, <1>5

\* The row goes, and its work leaves the slot.
LEMMA VacatingOp ==
  ASSUME Tables, NEW r \in Resources,
         slot' = [slot EXCEPT ![r] = Vacated(r)], lease' = [lease EXCEPT ![r] = Nothing],
         hand' \in [Holders -> Resources \cup {Nothing}]
  PROVE  \E s, l : LeaseOp(r, s, l)
<1>1. LeaseOp(r, Vacated(r), Nothing)
  BY DEF LeaseOp, OfDirect, Vacated
<1> QED BY <1>1

\* Only the token goes.
LEMMA ForgettingOp ==
  ASSUME Tables, NEW r \in Resources, UNCHANGED <<slot, lease>>,
         hand' \in [Holders -> Resources \cup {Nothing}]
  PROVE  \E s, l : LeaseOp(r, s, l)
<1>1. LeaseOp(r, slot[r], lease[r])
  BY DEF Tables, LeaseTypeOK, LeaseOp, LeaseRows
<1> QED BY <1>1

LEMMA ReleasingOp ==
  ASSUME Tables, NEW h \in Holders, Release(h)
  PROVE  \E r \in Resources : \E s, l : LeaseOp(r, s, l)
<1>1. hand[h] \in Resources /\ hand' \in [Holders -> Resources \cup {Nothing}]
  BY DEF Tables, LeaseTypeOK, Release
<1>2. CASE Leased(hand[h]) /\ lease[hand[h]].work = h
  BY <1>1, <1>2, VacatingOp DEF Release
<1>3. CASE ~(Leased(hand[h]) /\ lease[hand[h]].work = h)
  BY <1>1, <1>3, ForgettingOp DEF Release
<1> QED BY <1>2, <1>3

LEMMA RunningOutOp ==
  ASSUME Tables, NEW r \in Resources, RunOut(r)
  PROVE  \E s, l : LeaseOp(r, s, l)
<1> DEFINE l == [work |-> lease[r].work, live |-> FALSE]
<1>1. lease[r] \in LeaseRows /\ lease[r] # Nothing /\ lease' = [lease EXCEPT ![r] = l]
  BY DEF Tables, LeaseTypeOK, RunOut, IsLive, Leased, LeaseRows
<1>2. l \in LeaseRows /\ l.work = lease[r].work /\ ~l.live
  BY <1>1 DEF LeaseRows
<1> HIDE DEF l
<1>3. UNCHANGED <<slot, hand>> /\ slot' = [slot EXCEPT ![r] = slot[r]]
  BY DEF Tables, LeaseTypeOK, RunOut
<1>4. LeaseOp(r, slot[r], l)
  BY <1>1, <1>2, <1>3 DEF Tables, LeaseTypeOK, LeaseOp, OfDirect
<1> QED BY <1>4

\* The users of leases that are not jobs.
LEMMA OthersKeepSlots == ASSUME SlotsInv, JobsInv', OthersNext PROVE SlotsInv'
<1>1. Tables /\ UNCHANGED <<run, crashes, phase>> /\ HistoryGrows
  BY DEF SlotsInv, OthersNext, jobVars, faultVars, HistoryGrows
<1>2. Steady
  BY <1>1 DEF Steady
<1>3. (\E r \in Resources : \E s, l : LeaseOp(r, s, l)) => SlotsInv'
  BY <1>1, <1>2, LeaseOpKeepsSlots
<1>4. ASSUME NEW h \in Holders \ Jobs, NEW r \in Resources, Acquire(h, r) PROVE SlotsInv'
  BY <1>1, <1>3, <1>4, AcquiringOp
<1>5. ASSUME NEW h \in Holders, Release(h) PROVE SlotsInv'
  BY <1>1, <1>3, <1>5, ReleasingOp
<1>6. ASSUME NEW h \in Holders, HolderDies(h) PROVE SlotsInv'
  <2>1. hand' \in [Holders -> Resources \cup {Nothing}] /\ UNCHANGED <<slot, lease>>
    BY <1>1, <1>6 DEF HolderDies, Tables, LeaseTypeOK
  <2> QED BY <1>1, <1>3, <2>1, ForgettingOp, OpenClawIsResource
<1>7. ASSUME NEW r \in Resources, RecoverLease(r) PROVE SlotsInv'
  <2>1. hand' \in [Holders -> Resources \cup {Nothing}]
    BY <1>1, <1>7 DEF RecoverLease, Tables, LeaseTypeOK
  <2> QED BY <1>1, <1>3, <1>7, <2>1, VacatingOp DEF RecoverLease
<1>8. ASSUME NEW r \in Resources, RunOut(r) PROVE SlotsInv'
  BY <1>1, <1>3, <1>8, RunningOutOp
<1> QED BY <1>4, <1>5, <1>6, <1>7, <1>8, OpenClawIsResource DEF OthersNext

-----------------------------------------------------------------------------
(* The steps of a run. *)

LEMMA OffTheSlots ==
  ASSUME NEW x \in Busy, Alone(x), run[x].pc \notin UsingPcs \cup {"leaving"},
         run'[x] = Nothing \/ run'[x].pc \notin UsingPcs
  PROVE  Steady
<1> SUFFICES ASSUME NEW y \in Runs, NEW r \in Resources
             PROVE  /\ Uses(run'[y], r) => Uses(run[y], r) /\ run'[y].job = run[y].job
                    /\ Occupies(run[y], r) => Occupies(run'[y], r) /\ run'[y].job = run[y].job
  BY DEF Steady
<1>1. CASE y = x
  BY <1>1 DEF Uses, Occupies
<1>2. CASE y # x
  BY <1>2 DEF Alone, Uses, Occupies
<1> QED BY <1>1, <1>2

\* The ways a run moves on.
LEMMA MovesOffTheSlots ==
  ASSUME Shapes, NEW x \in Busy, run[x].pc \notin UsingPcs \cup {"leaving"},
         \/ Ends(x)
         \/ \E pc \in Pcs \ UsingPcs : Goto(x, pc) \/ Leaves(x, pc)
         \/ run' = [run EXCEPT ![x] = [Fresh(Job(x), 1) EXCEPT !.fixed = TRUE]]
  PROVE  Steady
<1>1. Alone(x) /\ (run'[x] = Nothing \/ run'[x].pc \notin UsingPcs)
  <2>1. CASE Ends(x)
    BY <2>1, EndsEnded DEF Ended
  <2>2. ASSUME NEW pc \in Pcs \ UsingPcs, Goto(x, pc)
        PROVE  Alone(x) /\ run'[x].pc \notin UsingPcs
    BY <2>2, GotoBecomes DEF Becomes, Fields
  <2>3. ASSUME NEW pc \in Pcs \ UsingPcs, Leaves(x, pc)
        PROVE  Alone(x) /\ run'[x].pc \notin UsingPcs
    BY <2>3, LeavesBecomes DEF Becomes, Fields
  <2>4. CASE run' = [run EXCEPT ![x] = [Fresh(Job(x), 1) EXCEPT !.fixed = TRUE]]
    BY <2>4, CorrectBecomes DEF Becomes, Fields, UsingPcs
  <2> QED BY <2>1, <2>2, <2>3, <2>4
<1> QED BY <1>1, OffTheSlots

\* A run goes on with its resource.
LEMMA GoesOnSteady ==
  ASSUME Shapes, NEW x \in Busy, NEW pc \in {"calling", "recalling", "leaving"}, Goto(x, pc),
         run[x].pc \in UsingPcs
  PROVE  Steady
<1>1. Becomes(x, pc, run[x].res, run[x].left, run[x].fixed)
  BY GotoBecomes DEF Pcs
<1>2. /\ run'[x] # Nothing /\ run'[x].job = run[x].job /\ run'[x].res = run[x].res
      /\ run'[x].pc = pc /\ \A y \in Runs \ {x} : run'[y] = run[y]
  BY <1>1 DEF Becomes, Fields, Alone, Job
<1> SUFFICES ASSUME NEW y \in Runs, NEW r \in Resources
             PROVE  /\ Uses(run'[y], r) => Uses(run[y], r) /\ run'[y].job = run[y].job
                    /\ Occupies(run[y], r) => Occupies(run'[y], r) /\ run'[y].job = run[y].job
  BY DEF Steady
<1>3. CASE y = x
  BY <1>2, <1>3 DEF Uses, Occupies, UsingPcs, Busy
<1>4. CASE y # x
  BY <1>2, <1>4
<1> QED BY <1>3, <1>4

LEMMA QuietRunsKeepSlots ==
  ASSUME SlotsInv, JobsInv', NEW x \in Busy, RunStep(x),
         \/ Call(x) \/ CallAgain(x) \/ Breaks(x) \/ NoResource(x) \/ Correct(x) \/ Finish(x) \/ Wait(x) \/ GiveUp(x)
         \/ GatewayDown(x) \/ OpenClawBusy(x) \/ Dispatched(x) \/ Retry(x)
         \/ Admit(x) \/ Act(x) \/ Accepted(x)
  PROVE  SlotsInv'
<1>1. Shapes /\ UNCHANGED <<phase, crashes>> /\ HistoryGrows
  BY DEF SlotsInv, JobsInv, IInv, RunStep, InRun, faultVars, HistoryGrows
<1>2. UNCHANGED leaseVars
  BY DEF Call, CallAgain, Breaks, NoResource, Correct, Finish, Wait, GiveUp, GatewayDown, OpenClawBusy, Dispatched,
         Retry, Admit, Act, Accepted
<1>3. Steady
  <2>1. CASE Call(x) \/ CallAgain(x)
    BY <1>1, <2>1, GoesOnSteady DEF Call, CallAgain, At, UsingPcs
  <2>2. CASE Dispatched(x)
    BY <1>1, <2>2, GoesOnSteady DEF Dispatched, At, UsingPcs
  <2>3. CASE Finish(x) \/ Wait(x) \/ GiveUp(x) \/ Accepted(x)
    <3>1. Ends(x) /\ run[x].pc \notin UsingPcs \cup {"leaving"}
      BY <2>3 DEF Finish, Wait, GiveUp, Accepted, At, UsingPcs
    <3> QED BY <1>1, <3>1, MovesOffTheSlots
  <2>4. CASE NoResource(x) \/ GatewayDown(x) \/ OpenClawBusy(x) \/ Breaks(x)
    <3>1. Leaves(x, "refused") \/ Leaves(x, "retry") \/ Leaves(x, "dead")
      BY <2>4 DEF NoResource, GatewayDown, OpenClawBusy, Breaks
    <3>2. run[x].pc \in {"start", "marking", "fencing", "accepted"}
      BY <2>4 DEF NoResource, GatewayDown, OpenClawBusy, Breaks, At
    <3> QED BY <1>1, <3>1, <3>2, MovesOffTheSlots DEF Pcs, UsingPcs
  <2>5. CASE Correct(x)
    BY <1>1, <2>5, MovesOffTheSlots DEF Correct, At, UsingPcs
  <2>6. CASE Retry(x)
    <3>1. (Ends(x) \/ Goto(x, "dead")) /\ run[x].pc = "retry"
      BY <2>6 DEF Retry, At
    <3> QED BY <1>1, <3>1, MovesOffTheSlots DEF Pcs, UsingPcs
  <2>7. CASE Admit(x) \/ Act(x)
    <3>1. \E pc \in {"fencing", "acting", "acted"} : Goto(x, pc)
      BY <2>7 DEF Admit, Act
    <3>2. run[x].pc \in {"start", "acting"}
      BY <2>7 DEF Admit, Act, At
    <3> QED BY <1>1, <3>1, <3>2, MovesOffTheSlots DEF Pcs, UsingPcs
  <2> QED BY <2>1, <2>2, <2>3, <2>4, <2>5, <2>6, <2>7
<1> QED BY <1>1, <1>2, <1>3, SteadyKeepsSlots

\* executeFencedPaperclipAction: the lease of a direct action, taken and given back.
LEMMA FencedKeepSlots ==
  ASSUME SlotsInv, JobsInv', NEW x \in Busy, RunStep(x), Fence(x) \/ Acted(x)
  PROVE  SlotsInv'
<1>1. Tables /\ Shapes /\ UNCHANGED <<phase, crashes>> /\ HistoryGrows
  BY DEF SlotsInv, JobsInv, IInv, RunStep, InRun, faultVars, HistoryGrows
<1>2. (\E r \in Resources : \E s, l : LeaseOp(r, s, l)) /\ Steady => SlotsInv'
  BY <1>1, LeaseOpKeepsSlots
<1>3. CASE Fence(x)
  <2>1. Job(x) \in Holders /\ Job(x) \in Direct
    <3>1. run[x].pc = "fencing" /\ RunFits(run[x], job[Job(x)], overran)
          /\ run[x].job = Job(x) /\ Job(x) \in Jobs
      BY <1>3, RunIsFit DEF SlotsInv, Fence, At
    <3> QED BY <3>1 DEF RunFits, KindFits, Direct
  <2>2. \E s, l : LeaseOp(OpenClaw, s, l)
    BY <1>1, <1>3, <2>1, AcquiringOp, OpenClawIsResource DEF Fence
  <2>3. Steady
    <3>1. PICK pc \in {"acting", "dead"} : Goto(x, pc)
      BY <1>3 DEF Fence
    <3> QED BY <1>1, <1>3, <3>1, MovesOffTheSlots DEF Fence, At, Pcs, UsingPcs
  <2> QED BY <1>2, <2>2, <2>3, OpenClawIsResource
<1>4. CASE Acted(x)
  <2>1. Steady
    <3>1. PICK pc \in {"accepted", "dead"} : Goto(x, pc)
      BY <1>4 DEF Acted
    <3> QED BY <1>1, <1>4, <3>1, MovesOffTheSlots DEF Acted, Pcs, UsingPcs
  <2>2. CASE Fenced(Job(x))
    <3>1. Job(x) \in Holders /\ (Release(Job(x)) \/ HolderDies(Job(x)))
      BY <1>4, <2>2 DEF Acted, Fenced
    <3>2. CASE HolderDies(Job(x))
      <4>1. hand' \in [Holders -> Resources \cup {Nothing}] /\ UNCHANGED <<slot, lease>>
        BY <1>1, <3>2 DEF HolderDies, Tables, LeaseTypeOK
      <4> QED BY <1>1, <1>2, <2>1, <4>1, ForgettingOp, OpenClawIsResource
    <3> QED BY <1>1, <1>2, <2>1, <3>1, <3>2, ReleasingOp
  <2>3. CASE ~Fenced(Job(x))
    BY <1>1, <1>4, <2>1, <2>3, SteadyKeepsSlots DEF Acted
  <2> QED BY <2>2, <2>3
<1> QED BY <1>3, <1>4

\* A run that is through with its resource gives it back.
LEMMA GivingBackKeepsSlots ==
  ASSUME SlotsInv, JobsInv', NEW x \in Busy, InRun(x), UNCHANGED <<lease, hand, struck, freed>>,
         NEW r \in Resources, Occupies(run[x], r),
         Alone(x), run'[x] = Nothing \/ run'[x].pc \notin UsingPcs,
         \/ slot' = Cleared(r) /\ (Uses(run[x], r) \/ slot[r] = Job(x))
         \/ slot' = slot /\ slot[r] # Job(x)
  PROVE  SlotsInv'
<1>1. /\ x \in Runs /\ run[x] # Nothing /\ run[x].job = Job(x) /\ Job(x) \in Jobs
      /\ UNCHANGED <<overran, struck, freed, crashes, phase>> /\ phase = "up"
      /\ LeaseTypeOK(Jobs \cup Holders)
  BY RunIsFit DEF SlotsInv, Tables, Busy, InRun
<1>2. /\ \A i \in Resources \ {r} : slot'[i] = slot[i]
      /\ slot'[r] \in {slot[r], Nothing}
      /\ slot'[r] # slot[r] => Uses(run[x], r) \/ slot[r] = Job(x)
      /\ slot[r] = Job(x) => slot'[r] = Nothing
      /\ slot' \in [Resources -> Jobs \cup Holders \cup {Nothing}]
  BY <1>1 DEF Cleared, LeaseTypeOK
<1>3. \A y \in Runs, i \in Resources :
        Uses(run'[y], i) => y # x /\ Uses(run[y], i) /\ run'[y] = run[y]
  BY DEF Uses, Alone
<1>4. ASSUME NEW i \in Resources, slot'[i] # slot[i], overran \cup freed = {}, Reliable(i)
      PROVE  /\ ~(IsLive(i) /\ slot[i] = lease[i].work)
             /\ \A y \in Runs : ~(Uses(run'[y], i) /\ run'[y].job = slot[i])
  <2>1. i = r
    BY <1>2, <1>4
  <2>2. slot[r] = Job(x)
    BY <1>1, <1>2, <1>4, <2>1 DEF SlotsInv, Exclusion
  <2>3. ~(IsLive(r) /\ slot[r] = lease[r].work)
    BY <1>1, <2>2, UsersHoldNoLease DEF IsLive
  <2>4. ASSUME NEW y \in Runs, Uses(run'[y], r), run'[y].job = slot[r] PROVE FALSE
    <3>1. y # x /\ run[y] # Nothing /\ run[y].job = run[x].job
      BY <1>1, <1>3, <2>2, <2>4 DEF Uses
    <3> QED BY <1>1, <1>4, <3>1 DEF SlotsInv, JobsInv, OneRunOfEach
  <2> QED BY <2>1, <2>3, <2>4
<1>5. ASSUME NEW i \in Resources, slot'[i] = slot[i], Reliable(i),
             slot[i] \in Jobs \ (Holders \cup overran \cup struck)
      PROVE  \E y \in Runs : Occupies(run'[y], i) /\ run'[y].job = slot[i]
  <2>1. PICK y \in Runs : Occupies(run[y], i) /\ run[y].job = slot[i]
    BY <1>1, <1>5 DEF SlotsInv, InUse
  <2>2. y # x
    BY <1>1, <1>2, <1>5, <2>1, NullIsNoJob DEF Occupies
  <2> QED BY <2>1, <2>2 DEF Alone
<1>6. \A i \in Resources : Reliable(i)' <=> Reliable(i)
  BY <1>1 DEF Reliable
<1>7. hand' \in [Holders -> Resources \cup {Nothing}]
  BY <1>1 DEF LeaseTypeOK
<1>8. \A i \in Resources : slot'[i] \in {slot[i], Nothing}
  BY <1>2
<1> QED BY <1>1, <1>2, <1>3, <1>4, <1>5, <1>6, <1>7, <1>8, ClearingKeepsSlots

LEMMA ReturningKeepsSlots ==
  ASSUME SlotsInv, JobsInv', NEW x \in Busy, InRun(x), UNCHANGED <<struck, freed>>,
         Answered(x) \/ HalfAnswered(x) \/ Unanswered(x) \/ Contended(x) \/ LeaveOpenClaw(x) \/ DispatchFails(x)
  PROVE  SlotsInv'
<1> USE DEF Pcs, UsingPcs
<1>0. Shapes
  BY DEF SlotsInv, JobsInv, IInv
<1>1. run[x] # Nothing /\ run[x].job = Job(x) /\ RunFits(run[x], job[Job(x)], overran)
  BY RunIsFit DEF SlotsInv, Busy
<1>2. UNCHANGED <<lease, hand>>
  BY DEF Answered, HalfAnswered, Unanswered, Contended, LeaveOpenClaw, DispatchFails
<1>3. Alone(x) /\ (run'[x] = Nothing \/ run'[x].pc \notin UsingPcs)
  <2>1. CASE Answered(x) \/ HalfAnswered(x)
    BY <1>0, <2>1, GotoBecomes DEF Answered, HalfAnswered, Becomes, Fields
  <2>2. CASE run' = [run EXCEPT ![x] = [Again(x) EXCEPT !.left = @ - 1]]
    BY <1>0, <2>2, AgainBecomes DEF Becomes, Fields
  <2>3. ASSUME NEW pc \in {"refused", "retry", "dead"}, Leaves(x, pc)
        PROVE  Alone(x) /\ run'[x].pc \notin UsingPcs
    BY <1>0, <2>3, LeavesBecomes DEF Becomes, Fields
  <2>4. CASE LeaveOpenClaw(x)
    BY <1>0, <2>4, EndsEnded DEF LeaveOpenClaw, Ended
  <2> QED BY <2>1, <2>2, <2>3, <2>4 DEF Unanswered, FailsOver, Contended, DispatchFails
<1>4. CASE Answered(x) \/ HalfAnswered(x) \/ Unanswered(x) \/ Contended(x)
  <2>1. run[x].pc \in {"calling", "recalling"} /\ Kind[Job(x)] = "ai" /\ slot' = Cleared(run[x].res)
    BY <1>4 DEF Answered, HalfAnswered, Unanswered, Contended, Calling, At
  <2>2. run[x].res \in Resources /\ Occupies(run[x], run[x].res) /\ Uses(run[x], run[x].res)
    BY <1>1, <2>1 DEF RunFits, KindFits, Occupies, Uses
  <2> QED BY <1>2, <1>3, <2>1, <2>2, GivingBackKeepsSlots
<1>5. CASE LeaveOpenClaw(x) \/ DispatchFails(x)
  <2>1. /\ run[x].pc = "leaving" \/ (run[x].pc \in {"claimed", "calling"} /\ Kind[Job(x)] = "openclaw")
        /\ slot' = OpenClawReleased(x)
    BY <1>5 DEF LeaveOpenClaw, DispatchFails, At
  <2>2. Occupies(run[x], OpenClaw)
    BY <1>1, <2>1 DEF RunFits, KindFits, Occupies
  <2>3. \/ slot' = Cleared(OpenClaw) /\ slot[OpenClaw] = Job(x)
        \/ slot' = slot /\ slot[OpenClaw] # Job(x)
    BY <2>1 DEF OpenClawReleased
  <2> QED BY <1>2, <1>3, <2>2, <2>3, GivingBackKeepsSlots, OpenClawIsResource
<1> QED BY <1>4, <1>5

\* A slot that is cleared for the second time, whoever occupies it.
LEMMA ClearingTwiceKeepsSlots ==
  ASSUME SlotsInv, JobsInv', NEW x \in Busy, ClearedTwice(x)
  PROVE  SlotsInv'
<1>1. /\ Shapes /\ UNCHANGED <<lease, hand, overran, struck, crashes, phase>> /\ phase = "up"
      /\ run[x].pc = "marking" /\ LeaseTypeOK(Jobs \cup Holders)
      /\ freed' = freed \cup {Job(x)} /\ slot' = Cleared(run[x].res)
  BY DEF ClearedTwice, InRun, At, SlotsInv, JobsInv, IInv, Tables
<1>2. Steady
  <2>1. CASE run' = [run EXCEPT ![x] = [Again(x) EXCEPT !.left = @ - 1]]
    <3>1. Alone(x) /\ run'[x].pc = "start"
      BY <1>1, <2>1, AgainBecomes DEF Becomes, Fields
    <3> QED BY <1>1, <3>1, OffTheSlots DEF UsingPcs
  <2>2. CASE Leaves(x, "refused")
    BY <1>1, <2>2, MovesOffTheSlots DEF Pcs, UsingPcs
  <2> QED BY <2>1, <2>2 DEF ClearedTwice, FailsOver
<1>3. /\ slot' \in [Resources -> Jobs \cup Holders \cup {Nothing}]
      /\ \A r \in Resources : slot'[r] \in {slot[r], Nothing}
      /\ \A r \in Resources : Reliable(r)' <=> Reliable(r)
      /\ hand' \in [Holders -> Resources \cup {Nothing}]
  BY <1>1 DEF Cleared, LeaseTypeOK, Reliable
<1>4. freed' # {}
  BY <1>1
<1> QED BY <1>1, <1>2, <1>3, <1>4, ClearingKeepsSlots DEF SlotsInv, InUse, Steady

\* A run that leaves a slot behind: its job is among those that may have.
LEMMA LeavingBehindKeepsSlots ==
  ASSUME SlotsInv, JobsInv', NEW x \in Busy, SlotLeft(x)
  PROVE  SlotsInv'
<1>1. /\ Shapes /\ UNCHANGED <<leaseVars, overran, freed, crashes, phase>> /\ phase = "up"
      /\ struck' = struck \cup {Job(x)} /\ LeaseTypeOK(Jobs \cup Holders)
  BY DEF SlotLeft, InRun, SlotsInv, JobsInv, IInv, Tables
<1>2. Alone(x) /\ (run'[x] = Nothing \/ run'[x].pc \notin UsingPcs)
  <2>1. CASE Ends(x)
    BY <1>1, <2>1, EndsEnded DEF Ended
  <2>2. ASSUME NEW pc \in {"retry", "dead"}, Leaves(x, pc)
        PROVE  Alone(x) /\ run'[x].pc \notin UsingPcs
    BY <1>1, <2>2, LeavesBecomes DEF Becomes, Fields, Pcs, UsingPcs
  <2> QED BY <2>1, <2>2 DEF SlotLeft
<1>3. \A y \in Runs, i \in Resources : Uses(run'[y], i) => y # x /\ Uses(run[y], i) /\ run'[y] = run[y]
  BY <1>2 DEF Uses, Alone
<1>4. ASSUME NEW i \in Resources, Reliable(i), slot[i] \in Jobs \ (Holders \cup overran \cup struck')
      PROVE  \E y \in Runs : Occupies(run'[y], i) /\ run'[y].job = slot[i]
  <2>1. PICK y \in Runs : Occupies(run[y], i) /\ run[y].job = slot[i]
    BY <1>1, <1>4 DEF SlotsInv, InUse
  <2>2. y # x
    BY <1>1, <1>4, <2>1 DEF Job
  <2> QED BY <1>2, <2>1, <2>2 DEF Alone
<1>5. /\ slot' \in [Resources -> Jobs \cup Holders \cup {Nothing}] /\ UNCHANGED <<slot, lease>>
      /\ \A r \in Resources : Reliable(r)' <=> Reliable(r)
      /\ hand' \in [Holders -> Resources \cup {Nothing}]
  BY <1>1 DEF leaseVars, LeaseTypeOK, Reliable
<1> QED BY <1>1, <1>3, <1>4, <1>5, ClearingKeepsSlots

-----------------------------------------------------------------------------
(* Claims, the sweep and the restart. *)

LEMMA ClaimKeepsSlots ==
  ASSUME SlotsInv, JobsInv', NEW x \in Runs, NEW j \in Jobs, Claim(x, j)
  PROVE  SlotsInv'
<1>1. /\ x \notin Busy /\ UNCHANGED <<leaseVars, phase, crashes>> /\ HistoryGrows
      /\ \A y \in Runs \ {x} : run'[y] = run[y]
      /\ run'[x].pc = "start"
  BY DEF SlotsInv, JobsInv, IInv, Shapes, Claim, Fresh, faultVars, HistoryGrows
<1>2. Steady
  BY <1>1 DEF Steady, Uses, Occupies, UsingPcs, Busy
<1> QED BY <1>1, <1>2, SteadyKeepsSlots

LEMMA RowsKeepSlots ==
  ASSUME SlotsInv, JobsInv',
         \/ FailExhausted \/ ReadStale \/ (\E w \in sweep.rows : RecoverStaleRow(w) \/ RecoverBootRow(w))
         \/ Booted \/ (\E j \in Jobs : LeaseOver(j)) \/ SweepFails
         \/ UNCHANGED vars
  PROVE  SlotsInv'
<1>1. /\ UNCHANGED <<leaseVars, run, crashes>> /\ HistoryGrows
      /\ (phase = "down") <=> (phase' = "down")
  BY DEF FailExhausted, ReadStale, RecoverStaleRow, RecoverBootRow, Booted, LeaseOver, SweepFails, vars, jobVars,
         faultVars, HistoryGrows
<1>2. Steady
  BY <1>1 DEF Steady
<1> QED BY <1>1, <1>2, SteadyKeepsSlots

\* A job that was failed for its attempts has no run, and holds no lease.
LEMMA ReleaseKeepsSlots ==
  ASSUME SlotsInv, JobsInv', NEW j \in Jobs, ReleaseExhausted(j)
  PROVE  SlotsInv'
<1>1. /\ UNCHANGED <<lease, hand, run, phase, overran, struck, freed, crashes>>
      /\ slot' = [r \in Resources |-> IF slot[r] = j THEN Nothing ELSE slot[r]]
      /\ LeaseTypeOK(Jobs \cup Holders)
      /\ j \in Jobs \ Direct /\ (j \in overran \/ job[j].status = "failed")
      /\ phase # "down"
  BY DEF SlotsInv, Tables, ReleaseExhausted, JobsInv, SweepKnows, Phases, Direct, Idle, faultVars
<1>2. \A y \in Runs, r \in Resources : Occupies(run[y], r) /\ run[y].job = j => j \in overran
  BY <1>1 DEF SlotsInv, JobsInv, RunsFit, RunFits, Occupies
<1>3. /\ slot' \in [Resources -> Jobs \cup Holders \cup {Nothing}]
      /\ \A r \in Resources : slot'[r] \in {slot[r], Nothing} /\ (slot'[r] # slot[r] => slot[r] = j)
      /\ \A r \in Resources : Reliable(r)' <=> Reliable(r)
      /\ hand' \in [Holders -> Resources \cup {Nothing}]
  BY <1>1 DEF LeaseTypeOK, Reliable
<1>4. \A r \in Resources : ~(IsLive(r) /\ j = lease[r].work)
  BY <1>1 DEF SlotsInv, Tables, OfDirect, IsLive, Leased
<1>5. \A y \in Runs, r \in Resources : Uses(run[y], r) => Occupies(run[y], r)
  BY DEF Uses, Occupies
<1> QED BY <1>1, <1>2, <1>3, <1>4, <1>5, ClearingKeepsSlots DEF SlotsInv, InUse

\* The slot a row named is freed whoever occupies it: after a lease that ran out,
\* or for OpenClaw's after a crash.
LEMMA FreeingKeepsSlots ==
  ASSUME SlotsInv, JobsInv', FreeNamedSlot
  PROVE  SlotsInv'
<1>1. /\ UNCHANGED <<lease, hand, run, phase, overran, struck, freed, crashes>> /\ sweep.free # Nothing
      /\ slot' = [slot EXCEPT ![sweep.free] = Nothing] /\ sweep.free \in Maybe
      /\ LeaseTypeOK(Jobs \cup Holders)
  BY DEF SlotsInv, Tables, FreeNamedSlot, Cleared, JobsInv, IInv, Shapes, faultVars
<1>2. phase # "down" /\ (overran \cup freed # {} \/ ~Reliable(sweep.free))
  BY <1>1 DEF SlotsInv, JobsInv, SweepKnows, Phases, Reliable, Idle
<1>3. /\ slot' \in [Resources -> Jobs \cup Holders \cup {Nothing}]
      /\ \A r \in Resources : slot'[r] \in {slot[r], Nothing} /\ (slot'[r] # slot[r] => r = sweep.free)
      /\ \A r \in Resources : Reliable(r)' <=> Reliable(r)
      /\ hand' \in [Holders -> Resources \cup {Nothing}]
  BY <1>1 DEF LeaseTypeOK, Reliable
<1> QED BY <1>1, <1>2, <1>3, ClearingKeepsSlots DEF SlotsInv, InUse

LEMMA CrashKeepsSlots == ASSUME SlotsInv, JobsInv', Crash PROVE SlotsInv'
<1>1. /\ UNCHANGED <<slot, lease, overran, freed>> /\ crashes' = crashes + 1 /\ phase' = "down"
      /\ run' = [x \in Runs |-> Nothing]
      /\ LeaseTypeOK(Jobs \cup Holders)
  BY DEF SlotsInv, Tables, Crash, faultVars
<1>2. hand' \in [Holders -> Resources \cup {Nothing}]
  BY <1>1 DEF LeaseTypeOK, Crash
<1> QED BY <1>1, <1>2, ClearingKeepsSlots DEF LeaseTypeOK, Uses

\* What the restart leaves in a slot is a lease's, or a pc operator's.
LEMMA BootKeepsSlots == ASSUME SlotsInv, JobsInv', Boot PROVE SlotsInv'
<1>1. /\ UNCHANGED <<lease, hand, run, overran, freed, crashes>> /\ phase = "down"
      /\ slot' = [r \in Resources |-> IF Orphaned(r) THEN Nothing ELSE slot[r]]
      /\ LeaseTypeOK(Jobs \cup Holders)
      /\ crashes > 0 /\ crashes \in Nat /\ \A x \in Runs : run[x] = Nothing
  BY DEF SlotsInv, Tables, Boot, JobsInv, Phases
<1>2. /\ slot' \in [Resources -> Jobs \cup Holders \cup {Nothing}]
      /\ \A r \in Resources : slot'[r] \in {slot[r], Nothing} /\ (slot'[r] # slot[r] => Orphaned(r))
      /\ \A r \in Resources : Reliable(r)' <=> Reliable(r)
      /\ hand' \in [Holders -> Resources \cup {Nothing}]
  BY <1>1 DEF LeaseTypeOK, Reliable
<1>3. \A r \in Resources : Reliable(r) => r # OpenClaw
  BY <1>1 DEF Reliable
<1>4. \A r \in Resources : Reliable(r) /\ slot[r] \in Jobs \ Holders => Orphaned(r) /\ slot[r] # Nothing
  BY <1>1, <1>3, NullIsNoJob DEF SlotsInv, SlotKinds, Orphaned, LeaseTypeOK, IsLive, Leased
<1>5. \A r \in Resources : Orphaned(r) => slot'[r] = Nothing
  BY <1>1
<1>6. \A r \in Resources : Orphaned(r) => ~(IsLive(r) /\ slot[r] = lease[r].work)
  BY DEF Orphaned
<1> QED BY <1>1, <1>2, <1>4, <1>5, <1>6, ClearingKeepsSlots DEF Uses

\* A restart that could not take the slots back: all who occupy one may have left it behind.
LEMMA BootFailingKeepsSlots == ASSUME SlotsInv, JobsInv', BootFails PROVE SlotsInv'
<1>1. /\ UNCHANGED <<slot, lease, hand, run, overran, crashes>> /\ phase = "down"
      /\ freed \subseteq freed' /\ LeaseTypeOK(Jobs \cup Holders)
      /\ \A x \in Runs : run[x] = Nothing
      /\ \A r \in Resources : slot[r] \in Jobs => slot[r] \in struck'
  BY DEF SlotsInv, Tables, BootFails, leaseVars, JobsInv, Phases
<1>2. \A r \in Resources : Reliable(r)' <=> Reliable(r)
  BY <1>1 DEF Reliable
<1> QED BY <1>1, <1>2, ClearingKeepsSlots DEF LeaseTypeOK, Uses

LEMMA SlotsStep == SlotsInv /\ [Next]_vars => SlotsInv'
<1> SUFFICES ASSUME SlotsInv, [Next]_vars PROVE SlotsInv'
  OBVIOUS
<1>0. JobsInv'
  BY JobsStep DEF SlotsInv
<1>1. ASSUME NEW x \in Runs, RunNext(x) PROVE SlotsInv'
  <2>1. x \in Busy /\ InRun(x)
    BY <1>1, RunNextRuns
  <2>2. ASSUME NEW r \in Resources, Route(x, r) \/ (ClaimOpenClaw(x) /\ r = OpenClaw) PROVE SlotsInv'
    <3>1. /\ TakeSlot(x, r) /\ run[x].pc = "start" /\ UNCHANGED <<struck, freed>>
          /\ (Kind[Job(x)] = "ai" /\ r # OpenClaw) \/ (Kind[Job(x)] = "openclaw" /\ r = OpenClaw)
      BY <2>2 DEF Route, ClaimOpenClaw, RunStep, faultVars, At
    <3>2. Becomes(x, "claimed", r, run[x].left, run[x].fixed)
      BY <2>1, <3>1, TakeSlotBecomes DEF SlotsInv, JobsInv, IInv
    <3> QED BY <1>0, <2>1, <3>1, <3>2, TakingKeepsSlots DEF TakeSlot, Becomes, Fields
  <2>3. CASE ClearedTwice(x)
    BY <1>0, <2>1, <2>3, ClearingTwiceKeepsSlots
  <2>4. CASE RunStep(x)
    <3>1. UNCHANGED <<struck, freed>>
      BY <2>4 DEF RunStep, faultVars
    <3> QED BY <1>0, <1>1, <2>1, <2>2, <2>3, <2>4, <3>1, QuietRunsKeepSlots, FencedKeepSlots,
               ReturningKeepsSlots, OpenClawIsResource DEF RunNext
  <2> QED BY <1>1, <2>3, <2>4, RunNextRuns
<1>2. ASSUME NEW x \in Runs, NEW j \in Jobs, Claim(x, j) PROVE SlotsInv'
  BY <1>0, <1>2, ClaimKeepsSlots
<1>3. ASSUME NEW j \in Jobs, ReleaseExhausted(j) PROVE SlotsInv'
  BY <1>0, <1>3, ReleaseKeepsSlots
<1>4. CASE \/ FailExhausted \/ ReadStale \/ (\E w \in sweep.rows : RecoverStaleRow(w) \/ RecoverBootRow(w))
           \/ Booted \/ (\E j \in Jobs : LeaseOver(j)) \/ SweepFails
           \/ UNCHANGED vars
  BY <1>0, <1>4, RowsKeepSlots
<1>5. CASE FreeNamedSlot \/ Crash \/ Boot \/ BootFails \/ OthersNext
  BY <1>0, <1>5, FreeingKeepsSlots, CrashKeepsSlots, BootKeepsSlots, BootFailingKeepsSlots,
     OthersKeepSlots
<1>6. ASSUME NEW x \in Runs, SlotLeft(x) \/ HalfAnswered(x) PROVE SlotsInv'
  <2>1. x \in Busy /\ InRun(x)
    BY <1>6 DEF SlotLeft, HalfAnswered, InRun
  <2> QED BY <1>0, <1>6, <2>1, LeavingBehindKeepsSlots, ReturningKeepsSlots DEF HalfAnswered
<1>7. ASSUME NEW x \in Runs, NEW r \in Resources, Unlisted(x, r) PROVE SlotsInv'
  <2>1. /\ x \in Busy /\ InRun(x) /\ At(x, "start") /\ run[x].pc = "start"
        /\ Kind[Job(x)] = "ai" /\ r # OpenClaw /\ run' = [run EXCEPT ![x] = Skipping(x, r)]
    BY <1>7 DEF Unlisted, InRun, At
  <2>2. Becomes(x, "start", run[x].res, run[x].left - 1, run[x].fixed)
    BY <2>1, SkipBecomes DEF SlotsInv, JobsInv, IInv
  <2> QED BY <1>0, <1>7, <2>1, <2>2, TakingKeepsSlots DEF Unlisted, Becomes, Fields
<1> QED BY <1>1, <1>2, <1>3, <1>4, <1>5, <1>6, <1>7 DEF Next, FaultNext

LEMMA SlotsAlways == Spec => []SlotsInv
BY SlotsInit, SlotsStep, PTL DEF Spec

\* A set without two members has at most one.
LEMMA AtMostOne ==
  ASSUME NEW S, \A a, b \in S : a = b
  PROVE  Cardinality(S) <= 1
<1>1. CASE S = {}
  BY <1>1, FS_EmptySet
<1>2. CASE S # {}
  <2>1. PICK a \in S : S = {a}
    BY <1>2
  <2> QED BY <2>1, FS_Singleton
<1> QED BY <1>1, <1>2

\* Slots and leases together exclude, for any jobs, resources, holders, processes,
\* overlapping runs, crashes and failed statements: while no job has outlasted its
\* lease and no failure made Core free a slot twice, a resource has one user (claimResource looks at the slot only, acquireSharedResourceLease
\* at both, and no recovery takes a slot from a user).
THEOREM SlotsExclude == Spec => []SlotExclusive
<1>1. SlotsInv => SlotExclusive
  <2> SUFFICES ASSUME SlotsInv, overran \cup freed = {}, NEW r \in Resources, Reliable(r)
               PROVE  Cardinality(Users(r)) <= 1
    BY DEF SlotExclusive
  <2>1. \A x \in Runs : UsedByRun(x, r) => Uses(run[x], r) /\ Occupies(run[x], r)
    BY DEF UsedByRun, Uses, Occupies, UsingPcs, Busy
  <2>2. \A x \in Runs : UsedByRun(x, r) =>
          /\ run[x] # Nothing /\ slot[r] = run[x].job
          /\ Leased(r) => slot[r] # lease[r].work
    BY <2>1, UsersHoldNoLease DEF SlotsInv, Exclusion, Uses
  <2>3. \A h \in Holders : UsedByHolder(h, r) => Leased(r) /\ slot[r] = lease[r].work /\ lease[r].work = h
    BY DEF SlotsInv, Exclusion, UsedByHolder, IsLive
  <2>4. \A x, y \in Runs : UsedByRun(x, r) /\ UsedByRun(y, r) => x = y
    BY <2>2 DEF SlotsInv, JobsInv, OneRunOfEach
  <2>5. \A a, b \in Users(r) : a = b
    BY <2>2, <2>3, <2>4 DEF Users
  <2> QED BY <2>5, AtMostOne
<1> QED BY <1>1, SlotsAlways, PTL

\* Only a failed statement loses a slot: what any other job occupies is in use by a
\* run of it, whichever way its runs end (markResourceSuccess, markResourceFailure,
\* releaseLocalInferenceContention, releaseOpenClawLease) and whatever recovers.
THEOREM NoSlotIsLost == Spec => []NoLostSlot
<1>1. SlotsInv => NoLostSlot
  BY DEF SlotsInv, InUse, NoLostSlot, Occupies, UsingPcs, Busy, Job
<1> QED BY <1>1, SlotsAlways, PTL

=============================================================================
