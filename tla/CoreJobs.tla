------------------------------- MODULE CoreJobs -------------------------------
(***************************************************************************)
(* apps/tigeriq-core/core.mjs: jobs taken from a table, run by one process *)
(* that may die at any point, on resources whose slots it shares with the  *)
(* leases of SharedResourceLease.  A run is one call of runJob; between    *)
(* two of its awaits the other runs, the sweep of recoverStale and other   *)
(* processes take steps.  Every update of a job is "where id=$1": nothing  *)
(* ties it to the run that makes it.                                       *)
(***************************************************************************)
EXTENDS SharedResourceLease

CONSTANTS
  Jobs,         \* ids of jobs
  Kind,         \* job -> "ai", "direct" or "openclaw"
  OpenClaw,     \* the resource of the pc operator; the others serve ai jobs
  Outside,      \* the holders in other processes: they survive Core
  MaxAttempts,  \* max_attempts of every job
  MaxWaits,     \* RESOURCE_WAIT_MAX_RETRIES
  Runs,         \* bound: how many calls of runJob overlap
  Loads         \* bound: which jobs are queued together, which other users of leases there
                \* are, how often Core dies, how many jobs outlast their lease, and how many
                \* statements fail: [jobs, others, crashes, overruns, faults]

ASSUME KindsAreKnown == Kind \in [Jobs -> {"ai", "direct", "openclaw"}]
ASSUME OpenClawIsResource == OpenClaw \in Resources /\ Outside \subseteq Holders \ Jobs
ASSUME NullIsNoJob == Nothing \notin Jobs
ASSUME AttemptsAreCounted == MaxAttempts \in Nat \ {0} /\ MaxWaits \in Nat

\* A call of runJob under way: at which await, on which resource, with what is
\* left of its attempts, the resources it tried and whether it made its correction.
Pcs == {"start", "claimed", "calling", "recalling", "marking", "answered", "refused", "retry",
        "leaving", "fencing", "acting", "acted", "accepted", "dead"}
RunRecs == [job : Jobs, pc : Pcs, res : Resources \cup {Nothing}, left : Int,
            tried : SUBSET Resources, fixed : BOOLEAN]

ASSUME NullIsNoRun == Nothing \notin RunRecs

VARIABLES
  job,      \* job -> its row in tigeriq_jobs
  run,      \* the calls of runJob under way
  sweep,    \* what recoverStale, or the recovery of a restart, has read and has still to do
  phase,    \* "up", "down", "boot" while the recovery of a restart runs, or "late"
            \* in what it still does after a statement of it failed
  calls,    \* history: how often each job's work was started outside
  overran,  \* history: the jobs whose lease ran out under a run
  crashes,  \* history: how often Core died
  faults,   \* history: how many statements failed
  struck,   \* history, since Core last recovered: the jobs of which one may have
            \* left a slot occupied
  freed,    \* history: the jobs for which a slot was freed, or is to be, after it was
            \* given back and perhaps taken by others, because one failed
  load      \* the load of this behaviour; it never changes

faultVars == <<faults, struck, freed>>
jobVars == <<job, run, sweep, phase, calls, overran, crashes, faultVars, load>>
vars == <<leaseVars, jobVars>>

Idle == [release |-> {}, rows |-> {}, free |-> Nothing]
Busy == {x \in Runs : run[x] # Nothing}
At(x, pc) == x \in Busy /\ run[x].pc = pc
Job(x) == run[x].job
Fenced(j) == Kind[j] = "direct" /\ j \in Holders  \* paperclip actions run under a lease

Init ==
  /\ LeaseInit
  /\ load \in Loads
  /\ job = [j \in Jobs |-> [status |-> IF j \in load.jobs THEN "queued" ELSE "done",
                            attempts |-> 0, waits |-> 0, lease |-> "none", res |-> Nothing]]
  /\ run = [x \in Runs |-> Nothing]
  /\ sweep = Idle /\ phase = "up"
  /\ calls = [j \in Jobs |-> 0] /\ overran = {} /\ crashes = 0
  /\ faults = 0 /\ struck = {} /\ freed = {}

-----------------------------------------------------------------------------
(* The steps of a run. *)

Goto(x, pc) == run' = [run EXCEPT ![x].pc = pc]
Fresh(j, n) == [job |-> j, pc |-> "start", res |-> Nothing, left |-> n, tried |-> {}, fixed |-> FALSE]
\* Out of invokeRouted, its locals are gone.
Leaves(x, pc) == run' = [run EXCEPT ![x] = [Fresh(Job(x), 0) EXCEPT !.pc = pc]]
\* Within it, the next resource is looked for.
Again(x)    == [run[x] EXCEPT !.pc = "start", !.res = Nothing]
Ends(x)     == run' = [run EXCEPT ![x] = Nothing]

\* An update of a job: its row, as the statement leaves it.
Update(j, row) == job' = [job EXCEPT ![j] = row]
Settled(j, st) == [job[j] EXCEPT !.status = st, !.lease = "none"]
Done(j, r)     == [Settled(j, "done") EXCEPT !.waits = 0, !.res = r]
Called(j, r)   == [job[j] EXCEPT !.res = r, !.lease = "live"]
Tried(j)       == [job[j] EXCEPT !.attempts = @ + 1]
Waiting(j)     == [Settled(j, "waiting") EXCEPT !.waits = @ + 1]
\* A slot is cleared by its resource's id, whoever occupies it.
Cleared(r)  == [slot EXCEPT ![r] = Nothing]

\* What most steps of a run leave alone.
InRun(x) ==
  x \in Busy /\ phase = "up" /\ UNCHANGED <<sweep, phase, overran, crashes, load>>
RunStep(x) == InRun(x) /\ UNCHANGED faultVars

\* What is left of the attempts, as invokeRouted gets it.
Budget(j) == MaxAttempts - job[j].attempts

\* claimJob, in the same loop as recoverStale, so never while that is under way.
Claim(x, j) ==
  /\ phase = "up" /\ sweep = Idle
  /\ x \notin Busy /\ \A y \in Runs : y < x => y \in Busy
  /\ job[j].status \in {"queued", "waiting"}
  /\ job[j].attempts < MaxAttempts
  /\ Update(j, [job[j] EXCEPT !.status = "running", !.lease = "live"])
  /\ run' = [run EXCEPT ![x] = Fresh(j, IF Kind[j] = "ai" THEN Budget(j) ELSE 0)]
  /\ UNCHANGED <<leaseVars, sweep, phase, calls, overran, crashes, faultVars, load>>

\* With the resource, which is not tried again.
Holding(x, r) == [[run[x] EXCEPT !.pc = "claimed", !.res = r] EXCEPT !.tried = @ \cup {r}]

\* claimResource and claimOpenClawLease look at the slot, not at the lease.
TakeSlot(x, r) ==
  /\ slot[r] = Nothing
  /\ slot' = [slot EXCEPT ![r] = Job(x)]
  /\ run' = [run EXCEPT ![x] = Holding(x, r)]
  /\ UNCHANGED <<lease, hand, job, calls>>

\* invokeRouted: the next resource that was not tried yet.
Route(x, r) ==
  /\ RunStep(x)
  /\ At(x, "start") /\ Kind[Job(x)] = "ai"
  /\ run[x].left > 0 /\ r \notin run[x].tried \cup {OpenClaw}
  /\ TakeSlot(x, r)

\* runOpenClawOperatorJob, when its gateway answers.
ClaimOpenClaw(x) ==
  /\ RunStep(x)
  /\ At(x, "start") /\ Kind[Job(x)] = "openclaw"
  /\ TakeSlot(x, OpenClaw)

\* Mutated: the attempt is not counted.
CallUncounted(x) ==
  /\ RunStep(x)
  /\ At(x, "claimed") /\ Goto(x, "calling")
  /\ Update(Job(x), Called(Job(x), run[x].res))
  /\ calls' = [calls EXCEPT ![Job(x)] = @ + 1]
  /\ UNCHANGED leaseVars

\* The job's row learns of the resource, and the provider is called.
Call(x) ==
  /\ RunStep(x)
  /\ At(x, "claimed") /\ Goto(x, "calling")
  /\ Update(Job(x), [Called(Job(x), run[x].res) EXCEPT !.attempts = @ + 1])
  /\ calls' = [calls EXCEPT ![Job(x)] = @ + 1]
  /\ UNCHANGED leaseVars

\* invokeRouted: after a timeout the same resource is called once more, which
\* counts as the same attempt.
CallAgain(x) ==
  /\ RunStep(x)
  /\ At(x, "calling") /\ Kind[Job(x)] = "ai" /\ Goto(x, "recalling")
  /\ calls' = [calls EXCEPT ![Job(x)] = @ + 1]
  /\ UNCHANGED <<leaseVars, job>>

\* A provider is being called, for an ai job.
Calling(x) == x \in Busy /\ run[x].pc \in {"calling", "recalling"} /\ Kind[Job(x)] = "ai"

\* markResourceSuccess
Answered(x) ==
  /\ RunStep(x)
  /\ Calling(x) /\ Goto(x, "answered")
  /\ slot' = Cleared(run[x].res)
  /\ UNCHANGED <<lease, hand, job, calls>>

\* Mutated: the slot is given back only when the run goes on.
UnansweredKeepsSlot(x) ==
  /\ RunStep(x)
  /\ Calling(x)
  /\ \/ /\ run' = [run EXCEPT ![x] = [Again(x) EXCEPT !.left = @ - 1]]
        /\ slot' = Cleared(run[x].res)
     \/ Leaves(x, "refused") /\ UNCHANGED slot
  /\ UNCHANGED <<lease, hand, job, calls>>

\* The next resource is tried, unless the failure forbids it.
FailsOver(x) ==
  \/ run' = [run EXCEPT ![x] = [Again(x) EXCEPT !.left = @ - 1]]
  \/ Leaves(x, "refused")

\* markResourceFailure
Unanswered(x) ==
  /\ RunStep(x)
  /\ Calling(x) /\ FailsOver(x)
  /\ slot' = Cleared(run[x].res)
  /\ UNCHANGED <<lease, hand, job, calls>>

\* markResourceFailure, after HalfAnswered: whoever took the slot since then loses it.
ClearedTwice(x) ==
  /\ InRun(x)
  /\ At(x, "marking") /\ FailsOver(x)
  /\ slot' = Cleared(run[x].res)
  /\ freed' = freed \cup {Job(x)}
  /\ UNCHANGED <<lease, hand, job, calls, faults, struck>>

\* releaseLocalInferenceContention: the local model was busy for too long, at the first call.
Contended(x) ==
  /\ RunStep(x)
  /\ At(x, "calling") /\ Kind[Job(x)] = "ai" /\ Leaves(x, "refused")
  /\ slot' = Cleared(run[x].res)
  /\ UNCHANGED <<lease, hand, job, calls>>

\* No resource left, or none that is fit: NO_AI_RESOURCE_AVAILABLE.
NoResource(x) ==
  /\ RunStep(x)
  /\ At(x, "start") /\ Kind[Job(x)] = "ai" /\ Leaves(x, "refused")
  /\ UNCHANGED <<leaseVars, job, calls>>

\* The answer fails its gate: one correction, with a budget of its own.
Correct(x) ==
  /\ RunStep(x)
  /\ At(x, "answered") /\ ~run[x].fixed
  /\ run' = [run EXCEPT ![x] = [Fresh(Job(x), 1) EXCEPT !.fixed = TRUE]]
  /\ UNCHANGED <<leaseVars, job, calls>>

\* runJob, at its end.
Finish(x) ==
  /\ RunStep(x)
  /\ At(x, "answered") /\ Ends(x)
  /\ Update(Job(x), Done(Job(x), run[x].res))
  /\ UNCHANGED <<leaseVars, calls>>

\* The catch of runJob: wait for a resource (the row keeps its resource_id),
\* as long as resourceWaitPlan allows.
Wait(x) ==
  /\ RunStep(x)
  /\ At(x, "refused") /\ Ends(x)
  /\ job[Job(x)].waits < MaxWaits
  /\ Update(Job(x), Waiting(Job(x)))
  /\ UNCHANGED <<leaseVars, calls>>

\* ... or fail: nothing to wait for, or an answer refused twice.
GiveUp(x) ==
  /\ RunStep(x)
  /\ run[x].pc \in {"refused", "answered", "dead"} /\ Ends(x)
  /\ Update(Job(x), Settled(Job(x), "failed"))
  /\ UNCHANGED <<leaseVars, calls>>

\* runOpenClawOperatorJob: the gateway does not answer, which counts as an attempt.
GatewayDown(x) ==
  /\ RunStep(x)
  /\ At(x, "start") /\ Kind[Job(x)] = "openclaw" /\ Leaves(x, "retry")
  /\ Update(Job(x), Tried(Job(x)))
  /\ UNCHANGED <<leaseVars, calls>>

\* claimOpenClawLease finds the slot occupied, which does not.
OpenClawBusy(x) ==
  /\ RunStep(x)
  /\ At(x, "start") /\ Kind[Job(x)] = "openclaw" /\ Leaves(x, "retry")
  /\ slot[OpenClaw] # Nothing
  /\ UNCHANGED <<leaseVars, job, calls>>

\* releaseOpenClawLease clears the slot only of its own job.
OpenClawReleased(x) == IF slot[OpenClaw] = Job(x) THEN Cleared(OpenClaw) ELSE slot

Dispatched(x) ==
  /\ RunStep(x)
  /\ At(x, "calling") /\ Kind[Job(x)] = "openclaw" /\ Goto(x, "leaving")
  /\ Update(Job(x), Done(Job(x), OpenClaw))
  /\ UNCHANGED <<leaseVars, calls>>

LeaveOpenClaw(x) ==
  /\ RunStep(x)
  /\ At(x, "leaving") /\ Ends(x)
  /\ slot' = OpenClawReleased(x)
  /\ UNCHANGED <<lease, hand, job, calls>>

\* The dispatch fails, or a statement before or after it: some failures of the
\* dispatch are worth a retry.
DispatchFails(x) ==
  /\ RunStep(x)
  /\ Kind[Job(x)] = "openclaw"
  /\ \/ At(x, "calling") /\ Leaves(x, "retry")
     \/ run[x].pc \in {"claimed", "calling"} /\ Leaves(x, "dead")
  /\ slot' = OpenClawReleased(x)
  /\ UNCHANGED <<lease, hand, job, calls>>

\* The catch of runJob, for pc operators.
Retry(x) ==
  /\ RunStep(x)
  /\ At(x, "retry")
  /\ IF job[Job(x)].attempts < MaxAttempts
     THEN Update(Job(x), Settled(Job(x), "waiting")) /\ Ends(x)
     ELSE UNCHANGED job /\ Goto(x, "dead")
  /\ UNCHANGED <<leaseVars, calls>>

\* runDirectPcOperatorJob: a fenced action takes the lease of OpenClaw's resource first.
Admit(x) ==
  /\ RunStep(x)
  /\ At(x, "start") /\ Kind[Job(x)] = "direct"
  /\ Goto(x, IF Fenced(Job(x)) THEN "fencing" ELSE "acting")
  /\ Update(Job(x), Tried(Job(x)))
  /\ UNCHANGED <<leaseVars, calls>>

Fence(x) ==
  /\ RunStep(x)
  /\ At(x, "fencing")
  /\ Acquire(Job(x), OpenClaw)
  /\ Goto(x, IF hand'[Job(x)] = OpenClaw THEN "acting" ELSE "dead")
  /\ UNCHANGED <<job, calls>>

Act(x) ==
  /\ RunStep(x)
  /\ At(x, "acting") /\ Goto(x, "acted")
  /\ calls' = [calls EXCEPT ![Job(x)] = @ + 1]
  /\ UNCHANGED <<leaseVars, job>>

\* executeFencedPaperclipAction: a last heartbeat, then the release, and success
\* only if the lease was still held.  Any action may also fail by itself, or before
\* it starts, and so may the release, which leaves the lease to run out.
Acted(x) ==
  /\ RunStep(x)
  /\ run[x].pc \in {"acting", "acted"}
  /\ \/ /\ At(x, "acted") /\ Goto(x, "accepted")
        /\ IF Fenced(Job(x)) THEN HeartbeatAccepted(Job(x)) /\ Release(Job(x))
                             ELSE UNCHANGED leaseVars
     \/ /\ Goto(x, "dead")
        /\ IF Fenced(Job(x)) THEN Release(Job(x)) \/ HolderDies(Job(x)) ELSE UNCHANGED leaseVars
  /\ UNCHANGED <<job, calls>>

Accepted(x) ==
  /\ RunStep(x)
  /\ At(x, "accepted") /\ Ends(x)
  /\ Update(Job(x), Done(Job(x), Nothing))
  /\ UNCHANGED <<leaseVars, calls>>

\* A statement fails where the run has no slot to give back: the job fails.
Breaks(x) ==
  /\ RunStep(x)
  /\ run[x].pc \in {"start", "marking", "fencing", "accepted"} /\ Leaves(x, "dead")
  /\ UNCHANGED <<leaseVars, job, calls>>

RunNext(x) ==
  \/ \E r \in Resources : Route(x, r)
  \/ Call(x) \/ CallAgain(x) \/ Answered(x) \/ Unanswered(x) \/ ClearedTwice(x)
  \/ Contended(x) \/ NoResource(x) \/ Correct(x) \/ Finish(x) \/ Wait(x) \/ GiveUp(x)
  \/ ClaimOpenClaw(x) \/ GatewayDown(x) \/ OpenClawBusy(x) \/ Dispatched(x)
  \/ LeaveOpenClaw(x) \/ DispatchFails(x) \/ Retry(x)
  \/ Admit(x) \/ Fence(x) \/ Act(x) \/ Acted(x) \/ Accepted(x) \/ Breaks(x)

-----------------------------------------------------------------------------
(* Recovery. *)

Stale(j)     == job[j].status = "running" /\ job[j].lease = "over"
Exhausted(j) == job[j].status \in {"queued", "waiting"} /\ job[j].attempts >= MaxAttempts
Row(j)       == [job |-> j, res |-> job[j].res, attempts |-> job[j].attempts]

\* What both recoveries do to a job: they forget its resource, too.
Recovered(j, st, n) ==
  [Settled(j, st) EXCEPT !.res = Nothing, !.attempts = n]

\* reconcileExhaustedQueuedJobs, one statement for all of them.
FailExhausted ==
  /\ phase = "up" /\ sweep = Idle
  /\ \E j \in Jobs : Exhausted(j)
  /\ job' = [j \in Jobs |-> IF Exhausted(j) THEN Settled(j, "failed") ELSE job[j]]
  /\ sweep' = [sweep EXCEPT !.release = {j \in Jobs : Exhausted(j)}]
  /\ UNCHANGED <<leaseVars, run, phase, calls, overran, crashes, faultVars, load>>

\* Then the slots each of them occupies, one statement per job.
ReleaseExhausted(j) ==
  /\ j \in sweep.release
  /\ slot' = [r \in Resources |-> IF slot[r] = j THEN Nothing ELSE slot[r]]
  /\ sweep' = [sweep EXCEPT !.release = @ \ {j}]
  /\ UNCHANGED <<lease, hand, job, run, phase, calls, overran, crashes, faultVars, load>>

\* recoverStale reads the running jobs whose lease is over.
ReadStale ==
  /\ phase = "up" /\ sweep = Idle
  /\ \E j \in Jobs : Stale(j)
  /\ sweep' = [sweep EXCEPT !.rows = {Row(j) : j \in {i \in Jobs : Stale(i)}}]
  /\ UNCHANGED <<leaseVars, job, run, phase, calls, overran, crashes, faultVars, load>>

\* Mutated: a direct action goes back to the queue like any other job.
RecoverStaleAlike(w) ==
  /\ phase = "up" /\ w \in sweep.rows /\ sweep.free = Nothing
  /\ Update(w.job, Recovered(w.job, IF w.attempts + 1 >= MaxAttempts THEN "failed" ELSE "queued",
                             job[w.job].attempts))
  /\ sweep' = [sweep EXCEPT !.rows = @ \ {w}, !.free = w.res]
  /\ UNCHANGED <<leaseVars, run, phase, calls, overran, crashes, faultVars, load>>

\* recoverStale, for one row read: a direct action is never repeated; the rest
\* go back to the queue while staleLeaseRecoveryPlan leaves them an attempt.
RecoverStaleRow(w) ==
  /\ phase = "up" /\ w \in sweep.rows /\ sweep.free = Nothing
  /\ Update(w.job, IF Kind[w.job] = "direct"
                    THEN Recovered(w.job, "failed", job[w.job].attempts)
                    ELSE Recovered(w.job, IF w.attempts + 1 >= MaxAttempts THEN "failed" ELSE "queued",
                                   w.attempts + 1))
  /\ sweep' = [sweep EXCEPT !.rows = @ \ {w},
                            !.free = IF Kind[w.job] = "direct" THEN Nothing ELSE w.res]
  /\ UNCHANGED <<leaseVars, run, phase, calls, overran, crashes, faultVars, load>>

\* Both recoveries then free the slot of the resource the row named, whoever occupies it.
FreeNamedSlot ==
  /\ sweep.free # Nothing
  /\ slot' = Cleared(sweep.free)
  /\ sweep' = [sweep EXCEPT !.free = Nothing]
  /\ UNCHANGED <<lease, hand, job, run, phase, calls, overran, crashes, faultVars, load>>

\* Core dies, with its runs, its sweep and the tokens it holds.
Crash ==
  /\ phase # "down" /\ crashes < load.crashes
  /\ crashes' = crashes + 1
  /\ phase' = "down" /\ sweep' = Idle
  /\ run' = [x \in Runs |-> Nothing]
  /\ hand' = [h \in Holders |-> IF h \in Outside THEN hand[h] ELSE Nothing]
  /\ UNCHANGED <<slot, lease, job, calls, overran, faultVars, load>>

\* Mutated: a lease of another process does not count.
OrphanedWithoutJob(r) ==
  /\ slot[r] # Nothing
  /\ slot[r] \in Jobs => job[slot[r]].status # "running" \/ Kind[slot[r]] = "ai"

\* Which slots the restart takes back: those without a running job and without a
\* live lease of the work that occupies them.
Orphaned(r) ==
  /\ slot[r] # Nothing
  /\ slot[r] \in Jobs => job[slot[r]].status # "running" \/ Kind[slot[r]] = "ai"
  /\ ~(IsLive(r) /\ lease[r].work = slot[r])

\* The ai jobs that were running when Core died; the restart fails them.
CutOff == {j \in Jobs : job[j].status = "running" /\ Kind[j] = "ai"}
FailCutOff == job' = [j \in Jobs |-> IF j \in CutOff THEN Settled(j, "failed") ELSE job[j]]

\* recoverAfterCoreRestart: two statements, and the read of the pc operators'
\* jobs; only Core writes jobs, and only the slots see other processes.
Boot ==
  /\ phase = "down" /\ phase' = "boot"
  /\ FailCutOff
  /\ slot' = [r \in Resources |-> IF Orphaned(r) THEN Nothing ELSE slot[r]]
  /\ sweep' = [Idle EXCEPT !.rows = {Row(j) : j \in
                 {i \in Jobs : job[i].status = "running" /\ Kind[i] # "ai"}}]
  /\ struck' = {}
  /\ UNCHANGED <<lease, hand, run, calls, overran, crashes, faults, freed, load>>

\* recoverAfterCoreRestart, its loops: the outcome of a direct action is unknown.
RecoverBootRow(w) ==
  /\ phase \in {"boot", "late"} /\ w \in sweep.rows /\ sweep.free = Nothing
  /\ Update(w.job, Recovered(w.job, IF Kind[w.job] = "direct" THEN "failed" ELSE "queued", w.attempts))
  /\ sweep' = [sweep EXCEPT !.rows = @ \ {w}, !.free = w.res]
  /\ UNCHANGED <<leaseVars, run, phase, calls, overran, crashes, faultVars, load>>

Booted ==
  /\ phase \in {"boot", "late"} /\ sweep = Idle
  /\ phase' = "up"
  /\ UNCHANGED <<leaseVars, job, run, sweep, calls, overran, crashes, faultVars, load>>

-----------------------------------------------------------------------------
(* Statements that fail where it matters to the slots.  Every other failure *)
(* is among the steps above: it ends the call, the run or, in the catch of  *)
(* runJob, whose promise nobody awaits, Core (Crash).                       *)

Fault == faults < load.faults /\ faults' = faults + 1

\* Without it: the resource is not tried again, either.
Skipping(x, r) == [[run[x] EXCEPT !.left = @ - 1] EXCEPT !.tried = @ \cup {r}]

\* invokeRouted: the row that was claimed is of no resource Core has in memory;
\* it goes on to the next, and the slot stays.
Unlisted(x, r) ==
  /\ InRun(x) /\ Fault
  /\ At(x, "start") /\ Kind[Job(x)] = "ai"
  /\ run[x].left > 0 /\ r \notin run[x].tried \cup {OpenClaw}
  /\ slot[r] = Nothing /\ slot' = [slot EXCEPT ![r] = Job(x)]
  /\ run' = [run EXCEPT ![x] = Skipping(x, r)]
  /\ struck' = struck \cup {Job(x)}
  /\ UNCHANGED <<lease, hand, job, calls, freed>>

\* A statement fails between the claim of a slot and the try of invokeRouted, or in
\* its catch, or the one of releaseOpenClawLease: the run leaves the slot behind.
SlotLeft(x) ==
  /\ InRun(x) /\ Fault
  /\ \/ run[x].pc \in {"claimed", "calling", "recalling"} /\ Leaves(x, "dead")
     \/ At(x, "calling") /\ Kind[Job(x)] = "openclaw" /\ Leaves(x, "retry")
     \/ At(x, "leaving") /\ Ends(x)
  /\ struck' = struck \cup {Job(x)}
  /\ UNCHANGED <<leaseVars, job, calls, freed>>

\* markResourceSuccess has given the slot back and fails: the catch takes it for a
\* failure of the provider, and will clear the slot again.
HalfAnswered(x) ==
  /\ InRun(x) /\ Fault
  /\ Calling(x) /\ Goto(x, "marking")
  /\ slot' = Cleared(run[x].res)
  /\ UNCHANGED <<lease, hand, job, calls, struck, freed>>

\* A statement of recoverStale, or of the loop over the pc operators' jobs in
\* recoverAfterCoreRestart: what was still to do is dropped.
SweepFails ==
  /\ phase \in {"up", "boot"} /\ sweep # Idle /\ Fault
  /\ sweep' = Idle
  /\ struck' = struck \cup sweep.release \cup {j \in Jobs : \E r \in {sweep.free} : r # Nothing /\ slot[r] = j}
  /\ UNCHANGED <<leaseVars, job, run, phase, calls, overran, crashes, freed, load>>

\* One of the two statements of recoverAfterCoreRestart: its catch lets Core go on.
\* Jobs that were not failed before, those of one sort among them, are then queued
\* again, and the slots freed that their rows name.
BootFails ==
  /\ phase = "down" /\ phase' = "late" /\ Fault
  /\ \/ \E S \in SUBSET CutOff : /\ sweep' = [sweep EXCEPT !.rows = {Row(j) : j \in S}]
                                 /\ freed' = freed \cup S
        /\ UNCHANGED job
     \/ FailCutOff /\ UNCHANGED <<sweep, freed>>
  /\ struck' = struck \cup {j \in Jobs : \E r \in Resources : slot[r] = j}
  /\ UNCHANGED <<leaseVars, run, calls, overran, crashes, load>>

FaultNext ==
  \/ \E x \in Runs : (\E r \in Resources : Unlisted(x, r)) \/ SlotLeft(x) \/ HalfAnswered(x)
  \/ SweepFails \/ BootFails

-----------------------------------------------------------------------------
\* Five minutes pass under a run.
LeaseOver(j) ==
  /\ job[j].lease = "live" /\ job[j].status = "running"
  /\ phase = "up" /\ Cardinality(overran) < load.overruns /\ j \notin overran
  /\ Update(j, [job[j] EXCEPT !.lease = "over"])
  /\ overran' = overran \cup {j}
  /\ UNCHANGED <<leaseVars, run, sweep, phase, calls, crashes, faultVars, load>>

\* The users of leases that are not jobs.
OthersNext ==
  /\ \/ \E h \in Holders \ Jobs : /\ h \in load.others /\ (h \in Outside \/ phase = "up")
                                  /\ (\E r \in Resources : Acquire(h, r)) \/ Release(h)
     \/ \E h \in Outside : HolderDies(h)
     \/ \E r \in Resources : RecoverLease(r) \/ RunOut(r)
  /\ UNCHANGED jobVars

Next ==
  \/ \E x \in Runs : RunNext(x) \/ \E j \in Jobs : Claim(x, j)
  \/ FailExhausted \/ \E j \in Jobs : ReleaseExhausted(j)
  \/ ReadStale \/ \E w \in sweep.rows : RecoverStaleRow(w) \/ RecoverBootRow(w)
  \/ FreeNamedSlot
  \/ Crash \/ Boot \/ Booted
  \/ FaultNext
  \/ \E j \in Jobs : LeaseOver(j)
  \/ OthersNext

Spec == Init /\ [][Next]_vars

\* Every await of a run, of the sweep and of the restart ends (fetches, waits and
\* dispatches have timeouts), and a dead holder's lease runs out.
Fairness ==
  /\ \A x \in Runs : WF_vars(RunNext(x))
  /\ WF_vars(\/ FailExhausted \/ \E j \in Jobs : ReleaseExhausted(j)
             \/ ReadStale \/ \E w \in sweep.rows : RecoverStaleRow(w) \/ RecoverBootRow(w)
             \/ FreeNamedSlot \/ Boot \/ Booted)
  /\ \A r \in Resources : WF_vars(RecoverLease(r) /\ UNCHANGED jobVars)
  /\ \A r \in Resources : WF_vars(IsLive(r) /\ hand[lease[r].work] # r /\ RunOut(r) /\ UNCHANGED jobVars)
  /\ \A h \in Holders \ Jobs : WF_vars((Release(h) \/ HolderDies(h)) /\ UNCHANGED jobVars)

FairSpec == Spec /\ Fairness

-----------------------------------------------------------------------------
(* Properties. *)

\* A direct local action is started at most once, through crashes at any await,
\* leases that run out under it and every recovery (recoverStale and
\* recoverAfterCoreRestart fail it closed).
DirectActsOnce == \A j \in Jobs : Kind[j] = "direct" => calls[j] <= 1

\* Who uses a resource now: runs that took it, and holders whose lease is live.
UsedByRun(x, r)    == x \in Busy /\ run[x].res = r /\ run[x].pc \in {"claimed", "calling", "recalling"}
UsedByHolder(h, r) == hand[h] = r /\ IsLive(r) /\ lease[r].work = h
Users(r) == {x \in Runs : UsedByRun(x, r)} \cup {h \in Holders : UsedByHolder(h, r)}

\* After a crash, OpenClaw's slot is a case of its own.  The restart keeps a slot
\* whose job is running and later frees the one the job's row names; a job that
\* died between claiming the slot and noting it names none, so its slot stays
\* occupied, by a job that then finds it occupied each time it is claimed.
Reliable(r) == r # OpenClaw \/ crashes = 0

\* Slots and leases together exclude: while no job has outlasted its lease, and no
\* failed statement made Core free a slot twice, a resource has one user, across
\* crashes; for OpenClaw's, while Core did not crash.
SlotExclusive ==
  overran \cup freed = {} =>
    \A r \in Resources :
      Reliable(r) => Cardinality(Users(r)) <= 1

\* The attempts of all runs of a job stay within its budget, one correction
\* aside (invokeRouted's budgets, the waits and the recoveries that requeue).  An
\* attempt that times out is started twice on its resource.
RetryBudget == \A j \in Jobs : j \notin overran => calls[j] <= 2 * (MaxAttempts + 1)

\* A slot that a job occupies is in use by a run of it, unless a failed statement
\* left it behind: no other way out of a run loses a slot, and after a crash none
\* is lost once recovery is through.
NoLostSlot ==
  phase = "up" /\ sweep = Idle =>
    \A r \in Resources :
      Reliable(r) /\ slot[r] \in Jobs \ (Holders \cup overran \cup struck) =>
        \E x \in Busy : /\ Job(x) = slot[r] /\ run[x].res = r
                        /\ run[x].pc \in {"claimed", "calling", "recalling", "leaving"}

\* No job keeps a slot for good, however its run, its lease or Core ends; one that a
\* failed statement left behind comes back when Core has restarted (OpenClaw's come
\* back as long as Core itself lives).
SlotsComeBack ==
  \A r \in Resources, j \in Jobs : []<>(slot[r] # j \/ ~Reliable(r) \/ j \in struck)
=============================================================================
