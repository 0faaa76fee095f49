# TLA+ models of TigerIQ AI Lab

This directory holds TLA+ specifications of the control logic of `newsdayads/tigeriq-ai-lab`, the
TLC configurations that check them on small instances, and TLAPS proofs about them for every value of
their constants. `PROJECT.json` is the index: which definition models which lines, which run checks which
property, which mutated definition shows that a property can fail, and which hazards of the code each
property is for.

Run a model: `tlc -config MCControlPlane.cfg MCControlPlane.tla`. Check a proof: `tlapm ControlPlane_proofs.tla`.

## 1. Inventory

The repository is an "evidence-gated multi-agent control plane": work orders go through a lifecycle in
which only evidence, judged by somebody other than the implementer, makes an order *verified*; workers
(model providers, phones, browsers, coding agents) do the work under leases. "Core" is the process of
`apps/tigeriq-core`, "App Chrome" the one of `apps/chrome-controller`, and the "bridge" the latter's script that drives
the browser.

| Component | State | Operations | Interacts with | Hard part |
|---|---|---|---|---|
| `packages/control-plane`, `work-orders` | map of order snapshots (status, implementer, evidence, decisions, audit) | create, transition, recordEvidence, recordGateDecision, updateProjectionMetadata | called by the API, the worker and the durable plane | protocol: legal calls in an order nobody tested; roles and identities |
| `packages/event-store` | JSONL file, lock file | append, readAll, readStream | every durable store | crashes, partial writes, lock, stale versions |
| `packages/durable-control-plane` | one journal stream per order | load - mutate - append | control plane rules over the journal | read and append are apart |
| `packages/idempotency`, `apps/api` | cache of responses, in-flight requests, limiter, rate buckets, drain flag | HTTP mutations with an idempotency key | durable plane, a second journal | mutation and cache write are two steps; retries |
| `packages/runtime` | counters, buckets | acquire/release, consume | API | leaked slots, window boundaries |
| `packages/worker` | none of its own | run: start, route, evidence, review, judge | durable plane, model router | other actors act between its awaits |
| `packages/model-router` | circuit per provider | execute with failover | worker | stale circuit state across awaits |
| `packages/workforce` index/runtime/journal-store | nodes, employees, tasks, attempts, checkpoints | register, heartbeat, assign, start, complete, fail, requeue, restore | scheduler, checkpoint store | concurrent execute, failed checkpoints, restart |
| `packages/workforce` task-mailbox, remote-task-broker | leases of each task, accepted results | enqueue, poll, lease, acceptResult, expire | phones, the runtime's queue and checkpoints | duplicate and late results, expiry, polls that overlap |
| `packages/workforce` pairing, node-credentials | one-time challenges, credential journal | challenge, pair, issue, revoke, authenticate | phones | check before an await, use after |
| `apps/workforce-controller`, `farm-gateway` | HTTP front of the above | routes | workforce | composition |
| `apps/tigeriq-core` shared-resource-lease | PostgreSQL rows: resources, leases | acquire, heartbeat, release, recover | core jobs, probes, other processes | leases against clocks, who may clear a slot |
| `apps/tigeriq-core` core.mjs | jobs, attempts, resource slots | claim, route, run, retry, recover, restart | PostgreSQL, providers, leases | crashes in mid job, updates by id alone |
| `apps/tigeriq-core` core-ui-assignment | objectives, jobs, issues and comments on GitHub | GET /api/ui-assignment, POST .../terminal | App Chrome, GitHub | stale rows across awaits, effects outside the transaction |
| `apps/chrome-controller` server, job-ledger, direct-cdp-bridge | job ledger on disk; heartbeats, commands and waiters in memory; browser pages | transport tick, dispatch, commands, heartbeat, result | Core, bridge, the assistant's pages | at-most-once delivery of a prompt through lost results |
| `apps/tigeriq-core` mobile-worker-api, github intake, campaign runner, release approval | task leases, issue ledger, claims | poll, intake, claim, close | phones, GitHub | retries, duplicates |
| `apps/tigeriq-coding-lane`, `apps/openclaw-tigeriq-runtime` | run ledgers, sessions | claim, execute, reconcile | core, GitHub, agents | long-running external effects |
| `apps/android-worker` | worker state on a phone | poll, run, report | mailbox | offline, restart |
| dashboards, camera, games, revenue lab, showcases, vendored tools | none that matters here | | | |

What makes each correct is the list of properties of its module below; for the parts not modelled, section 5.

## 2. What is modelled

Every definition that stands for code is in the `map` of `PROJECT.json` with the lines it stands for. A definition
whose comment begins with "Mutated:" is not part of a model: it is a plausible bug, kept beside the definition it
would replace, to show that a property can fail.

```
WorkOrders ── ControlPlane ─────── ControlPlane_proofs
     │             ▲ implemented by (CommandsAreAtomic)
     ├── DurableControlPlane ─ over the promise of ─ VersionedLog
     │        │                                          ▲ implemented by (AppendsAreAtomic)
     │        ├── Journal_proofs ────────────────── FileJournal
     └── ApiMutations ── Api_proofs ── ApiAdmission

TaskRecords ─┬─ WorkforceRuntime ── WorkforceRuntime_proofs ─┬─ TaskRecords_proofs
             └─ RemoteTasks ─────── RemoteTasks_proofs ──────┘

SharedResourceLease ── CoreJobs ── CoreJobs_proofs

UiAssignment ── UiTransport ── UiTransport_proofs
```

A line is EXTENDS. Each composition is of components that really share state: `RemoteTasks` and `WorkforceRuntime`
the queue's records, `CoreJobs` the resource slots with the leases, `UiTransport` the calls its client makes of `UiAssignment`.

### WorkOrders, ControlPlane (`packages/control-plane`, `packages/work-orders`)

`WorkOrders` has the rules of one snapshot as pairs of operators: `CanTransition`/`Transitioned`,
`CanRecordEvidence`/`EvidenceRecorded`, `CanDecide`/`Decided`, `CanUpdateMetadata`/`MetadataUpdated`,
`CanCreate`/`Created`. The guard is the conjunction of the method's early `throw`s, negated; the result is the
snapshot the method saves, with the audit entry it appends. `ControlPlane` is the class: a map of orders and
one action per public method. The methods are synchronous, so each is atomic.

Data: a person is an id, an actor is an id with a role (one person may hold several tokens); evidence is its id
and whether it is "pass with exit code 0"; of the thirteen gates only DONE is told apart, since the code asks
for no other; projection metadata is one opaque value. The audit hash is a function of the trail and left out.

Properties: every decision is backed by evidence the order holds (`EvidenceBacksDecisions`); a verified
order was judged by somebody who is not its implementer (`VerifiedMeansJudged`); status and implementer can be
recomputed from the audit trail alone (`AuditExplainsState`), although gate decisions move the status past the
transition table. `implementerId` is only the *last* coder, so nothing here says that a former one never judges.

### FileJournal, VersionedLog (`packages/event-store`)

One action per stretch of `append()` between awaits; `pc[w]` is the await the writer is suspended at:
`opening` (`open 'wx'`), `reading` (`readAll`), `writing`/`finishing`/`flushing` (`appendFile`), `closing` (the
`finally`). A line keeps sequence, stream, version, previous hash and its `form`: whole, cut inside its JSON,
cut exactly before its newline (`open`), or glued to another (`merged`). Reading and building are one action
because only the holder of the lock changes the file, which `LockExcludes` confirms. Every I/O call may fail:
`LockFails`, `Refuse` (error), `WriteFails` (before the first byte, after some, at the flush), `ReleaseFails`;
and the process may die at any await (`Crash`), which undoes nothing on disk. Reads from outside `append()`
take no lock and may meet a line in the making; they change nothing and are part of their callers' models, where a read
may always fail. The
directory is assumed to exist (`mkdir -p` has no effect after the first call), and a crash of the *operating system*,
which could undo acknowledged writes, is not modelled.

`VersionedLog` is what a caller may rely on: an append takes effect at most once, atomically, between call and
return, at the expected version; an answer other than "ok" says nothing. `FileJournal` implements it with the
mapping at the end of the module (whole lines are the log; an append has taken effect once its own line is whole),
except in a step that glues a line to one cut exactly before its newline: until then such a line reads back as an
entry, and that step takes it away (`Glued`). An entry lost that way was never acknowledged (`ReadableMeansComplete`).

### DurableControlPlane (`packages/durable-control-plane`)

A client's command is read (`StartMutate`, `StartCreate`), then stored (`Store`) if the stream still has the length it
read, then answered. `Abandon` covers every way to get no answer: a refused append, a failure, a crash, before or after
the entry is stored. The journal is taken at the promise of `VersionedLog`. `CommandsAreAtomic` says that the whole
implements `ControlPlane` under the mapping "an order is the last snapshot of its stream"; `ReturnedIsDurable` that a
snapshot a caller was given stays in the journal at its version.

### ApiMutations, ApiAdmission (`apps/api`, `packages/idempotency`, `packages/runtime`)

`ApiMutations` is the POST branch of `route()`: look up the response under actor and key, apply the mutation, record
the response, send it. Each is an await and each may fail; `Crash` restarts the server on the same two journals. A
second holder of a journal's lock is refused, so `Refused` and `RecordRefused` are possible whenever another request
is at a place where it may hold that lock. `orders` and `cache` are taken at the promises above. Bodies are members of a
set of requests; a response is the snapshot it carries.

`ApiAdmission` is what comes before the route, one step of the event loop: the concurrency limiter, the drain flag,
the fixed-window quota; and what comes after: the `finish` listener. `Disconnect` is a client that leaves before its
response is written: Node discards the response and emits no `finish`. Time is a clock in ticks that only moves
forward. `Drain` stops admission as `drain()` and `close()` do; the closing of the socket is not modelled.

### TaskRecords, WorkforceRuntime (`packages/workforce`)

`TaskRecords` is `TaskQueue`'s record with its operations as guard and result, and `Replayed`, the replay by
`restoreTaskRecord` of a stored record. `WorkforceRuntime` is `DurableWorkforceRuntime.execute`: `call[c].pc`
names the await a call is suspended at and `saved` whether the checkpoint it waits for is written, waiting or failed;
the chain of checkpoints is a queue whose snapshot is taken when its turn comes, and a failed one rejects everything
behind it until a restart, as the promise chain does. `Restart` restores the stored snapshot in a new process.
The environment registers employees (idle, as the controller's route does), reports node health, makes adapters
succeed, fail finally, fail retriably or throw, and makes one save fail. Scores only order the eligible employees,
so any eligible employee may be chosen; provider exclusions are covered by that choice and by `Capable`. Every
node's kind has an adapter. Not modelled: `executeBatchWithAssurance`, the in-memory `WorkforceOrchestrator`, node
registration, and a torn journal at restart (that is `FileJournal`'s subject).

`CountsAreTrue` and `InFlightIsHeld` are stated for histories in which no two calls for one task overlapped
(`overlapped`), and name what a failed checkpoint before the adapter strands (`stranded`), since the code gives neither
the employee nor the task back in that case. `NoSecondExecution` shows what overlapping calls can do.

### RemoteTasks (`packages/workforce` remote-task-broker, task-mailbox)

The same queue and checkpoints, but the work is pulled: a node polls (`Poll`), which first recovers what has expired
(`Recover`, `Expire`, `FailExpired`) and then takes a task, checkpoints it and leases it (`TakeTask`, `LookForLease`,
`GrantLease`), or delivers a result (`Deliver`, `CheckLease`, `AppendResult`, then `Settle` and `Tell`, or `Repeat` for a task
that was completed already, or `Reject`). `mail[t]` is the
task's stream in the mailbox as its leases; only the last one counts, and `over` says that its time has run out. The
mailbox is written event by event and never restored, the queue is restored from the last checkpoint, and a restart
may fall between the two. An append to the mailbox may be refused, before or after it is written (`Refuses`).
Each node has one employee with one task at a time, so both go by one name.

Properties: over everything, a task is leased at most `maxAttempts` times (`LeaseBudget`); a completion that was told stays
(`CompletionIsFinal`), with one exception that the code has: a repeated delivery is answered from memory
(remote-task-broker.ts:78), before the checkpoint of the first one is stored or although it failed, and that answer
stands only until the process dies; a restart may then run the task again. `told` says of each answer whether it was
stored by then; counts are true and a running task has a lease or somebody about to make it, unless a node has two
calls in flight (`CountsAreTrue`, `RunningIsLeased`); every stored task ends while its nodes poll (`EveryTaskEnds`).
`AcceptedIsAuthoritative` fails without any failure.

### SharedResourceLease, CoreJobs (`apps/tigeriq-core`)

`SharedResourceLease` has the two tables through which several processes share a provider: `slot[r]` is
`current_job_id`, `lease[r]` the lease's row, `hand[h]` the token a holder has. Each operation is one transaction that
locks the resource's row first, so each is one action. A lease that has run out stays in its row until somebody
clears it, and its holder may come back late.

`CoreJobs` extends it with the jobs of one process: claiming, routing over resources with a budget of attempts, waiting,
retrying, giving up, a direct local action, the OpenClaw operator, and both recoveries: `recoverStale` in the running
loop and `recoverAfterCoreRestart`, each as the steps between its statements, because every update is
"where id=$1" and nothing ties it to the run that makes it. `LeaseOver` is a run that outlasts its job's lease,
`Crash` the death of Core at any await. Jobs of one kind differ only in what they share, so a job is its id and its
kind; the ranking of resources is a choice of any resource not yet tried.

A statement on the database may fail wherever it matters to a slot: between the claim of a slot and the `try` of
`invokeRouted`, in its `catch` and in `releaseOpenClawLease` (`SlotLeft`); in `markResourceSuccess` after the slot was
given back, so that the `catch` clears it again, whoever took it since (`HalfAnswered`, `ClearedTwice`); in `recoverStale`
(`SweepFails`) and in `recoverAfterCoreRestart`, whose `catch` lets Core go on (`BootFails`). `Unlisted` is the
`if(!r)continue` of `invokeRouted`: the row claimed is of a resource that memory does not list. Elsewhere a failed statement
ends the run (`Breaks`, `DispatchFails`), or, in the catch of `runJob`, whose promise has no handler, or in the loop after the
`catch` of `recoverAfterCoreRestart`, Core itself, which is `Crash`. A failed event after a job's last update is left
out: it marks a finished job failed or queues it again, which no property here tells apart.

Properties: a direct action starts at most once (`DirectActsOnce`); a resource has one user (`SlotExclusive`); a job's work
is started at most twice per attempt of its budget, one correction aside, because a call that times out is made once more
within its attempt (`CallAgain`, `RetryBudget`); no slot is lost (`NoLostSlot`) and each is given back (`SlotsComeBack`). What
the code does not give is in their conditions: a job that outlasted its lease may run twice (`overran`); after a crash
OpenClaw's slot may stay occupied (`Reliable`), because the slot is claimed in one transaction and noted in the job's
row in another; a slot that a failed statement or an unlisted row left behind stays occupied until Core restarts (`struck`);
and a slot cleared twice may be another's (`freed`).

### UiAssignment, UiTransport (`apps/tigeriq-core/core-ui-assignment.mjs`, `apps/chrome-controller`)

`UiAssignment` is the server: the handlers of GET (reconcile what workers hold with the issues on GitHub,
acknowledge, find the next issue for a worker without one, insert its objective and job) and POST terminal (one transaction
under an advisory lock: evidence comment, close, commit). `call[c]` is a handler; one action per statement or GitHub call,
with the row it read kept in its record, so what it goes by may be out of date. A handler whose client is gone runs on
(`heard`). An insert with its `NOT EXISTS` is two actions, `TrySpec` where its snapshot is taken and `InsertObjective`
after it has waited for the advisory lock. What is written to GitHub survives the rollback. Any call to GitHub and any
statement on Postgres may fail and end its handler (`CallFails`): inside the transaction that is a rollback; between the
two statements that insert an objective and its job, or that end them (`Halfway`), it leaves an active objective that no
handler ends, and `cut` is the history of the jobs this happened to, by a failure or by a restart of Core. Of an issue's comments only the
first page is read, the oldest hundred: `FirstPageFills` is the people who fill it, and a comment written later (`late`) is
seen by nobody. That a comment is deleted is not modelled.

`UiTransport` is the client: the tick that reports answers, asks for work and dispatches it; the job ledger on disk;
the command queue and its waiter; the bridge that takes one command per tick after a heartbeat, types into the page
and posts the result; the assistant that answers. Before a command is queued the tick waits in `send`, for its turn
or for the backoff of a retry, and `SendNavigate` then asks whether the worker is blocked. A heartbeat of a page that
asks for a login or a captcha is a security stop (`SecurityStop`): the worker is blocked (`barred`), its active job is BLOCKED in
the ledger and Core is not told, whatever the tick is doing with that job (`stopped`, a history); what the tick has to record
of it is then refused (`Recorded`). A BLOCKED result blocks the worker too; the owner unblocks it (`Unblock`). Lost: calls, results, heartbeats, the answer to a poll; dying: Core, App
Chrome. `delivered` and `shown` are histories that only properties read.

Abstractions: reading a row and then its issue is one step (the later steps use both as read); the ledger's stages
SUBMITTED to VERIFY are one stage `sent`; EXTERNAL_WAIT goes the way of BLOCKED. Left out: owner pauses, the kill switch
and disabled workers, which do not touch the ledger by themselves (they keep the tick from acting, or fail a command as any
other error does); what else changes the ledger, namely the owner's manual dispatch and stage endpoint (server.ts:1523) and
the reconciliation of the autopilot's snapshot (server.ts:903-937, 972), which is switched off; the bridge's own "continue"
prompts, the idle audit and the final review, and the fail-over of a stale assignment, whose flag nothing sets.

Properties: a prompt is submitted at most once (`DeliveredOnce`); a job's evidence is posted once on the first page of its
issue, plus once for every time the comments could not be read (`EvidenceOnce`), and is the answer its worker gave
(`EvidenceIsTheAnswer`); an objective is without a live job only while a handler is about to give it one or to end it, or
because a handler for that very job was cut off between its two statements (`OrphansWereCutOff`); a job App Chrome
released is over at Core, but for a late acknowledgement and for security stops (`ReleasedIsSettled`); an answer on the page
reaches Core (`AnswersReachCore`). Conditions in them are what the code does not give: on an issue whose first page is full
every report cut short after its comment leaves one more; an orphan stays active, and its scope taken, for good; with a
restart of App Chrome or a lost heartbeat a job may inherit an earlier page's terminal; a delivery recorded as failed is
never reported, nor is the answer to a job that a security stop has ended, which Core keeps current until its issue
changes. `ScopeExclusive` fails.

## 3. Runs

| Run | Instance | Shows | Why the bound is enough |
|---|---|---|---|
| `control_plane` | 1 order, 2 evidence ids, 2 metadata values, 3 people in 6 roles-with-person, 6 mutations | the three invariants above | orders do not interact; 6 mutations reach verification and one more step after it, a failure with a re-run, and a takeover |
| `journal` | 3 writers, 2 streams, no append called on 2 lines or more, both cut forms | lock, order, loss, release, atomic appends | in-flight writers take the file past the bound; two lines show the chain and a torn line followed by another |
| `durable_plane` | 2 clients, 1 order, 3 actors, 5 mutations | racing commands | conflicts need two clients; 5 mutations reach a gate decision |
| `api_mutations` | 2 handlers, 5 requests, 4 sends | retries, reuse, overlap, restart | a key sent up to four times, before, during and after its first attempt |
| `api_admission` | 3 requests, 2 slots, 2 actors, quota 1, window 2, clock to 6 | slots, quotas, guidance | more requests than slots, three windows per actor |
| `workforce` | 2 tasks, 2 employees on 1 node, 2 calls, 2 attempts, 1 bounded event (crash, failed save or health report) | attempts, completion, counts, restart | two calls for one task or for two tasks; the event may fall at any await |
| `workforce_second_execution` | 1 task, 3 calls, 4 attempts, no event | violation | the duplicate, the call it disturbs, and the one that runs beside it |
| `core_jobs` | 4 jobs of three kinds, 2 resources, another process's lease, 2 runs, 2 attempts, 1 wait; 8 loads of one or two jobs, with a crash, a job that outlasts its lease, a failing statement, or these together | exclusion, budgets, recovery | two jobs meet on the resource they share; a job that outlasts its lease meets itself, then a crash; a failed statement meets a recovery, and a lease |
| `remote_tasks` | 1 task, 2 nodes, 2 calls in flight, 2 attempts, 1 restart or refused write | leases, completion, liveness | a delivery and a poll, two deliveries or two polls overlap; the event may fall at any await |
| `remote_accepted_lost` | as above, no event | violation | one delivery and one poll |
| `ui_assignment` | 1 worker, 1 issue with two revisions (two jobs), 2 handlers, at most 2 bounded events of any kind | the six properties above | two jobs share the worker and its page; a client that gave up and asks again makes two handlers; any two of a failure, a restart, a security stop, a revision and a full page meet |
| `ui_scope_twice` | 2 issues of one scope, 2 handlers, 2 failing calls | violation | a call not waited for, and an issue passed over |

Bounds are constants whose names begin with `Max` (`MaxAudit`, `MaxLines`, `MaxSends`, `MaxTime`, `MaxEvents`,
`MaxCalls`, `MaxRevision`), `EventBound`, `Loads` and `Runs`; `MaxAttempts`, `MaxWaits` and `MaxRetries` are the code's own.
Symmetry is used over model values that the specification only compares, and only in runs without liveness. `remote_tasks`,
which has a liveness property, keeps instead of two behaviours that are each other's mirror image the one in which the
first lease is the first node's (`FirstLeaseIsHers`, a CONSTRAINT): the nodes differ by their names only, and what is left
out is left out from its first lease to its end.

Deadlock is checked in the two `ui` runs: there somebody can always take a step. It is not
(`CHECK_DEADLOCK FALSE`) where the system really may stop, because clients may stop calling, or, in `core_jobs`, because
all jobs are settled and nobody else uses the leases, or where a model stops at its bounds.

**Fairness.** Only what an event loop, a timer or a polling loop of the code gives.
- `journal`: weak fairness of each writer's `Step(w)`, the completion of the I/O operation it waits for: a pending promise
  settles. Nothing is assumed of callers, and a process may crash at any await.
- `core_jobs`: weak fairness of each run's steps (its fetches and dispatches have timeouts), of the recovery sweeps of
  the loop, of the recovery and the expiry of leases, and of other holders ending.
- `remote_tasks`: weak fairness of steps of a call, of the journal's answers, checkpoints and lease expiry; strong fairness of
  each node's `Poll` (a phone polls again and again; that a call is free each time it does is not continuous) and of
  `TakeTask` (a poll that finds the task sometimes takes it: the scheduler does not pass over one forever). No `Deliver` is
  assumed: a phone may never answer.
- `ui_assignment`: weak fairness of each handler at Core, of the tick's steps, of the timer of a lost command, and
  of each worker's heartbeat and bridge. Neither GitHub's failures nor the assistant's answers are owed.

**Disagreements with the documents** (the runs that end in a violation; the quoted lines are in `findings`):
- a duplicate `execute()` that arrives while a failure is being checkpointed leads to two executions of one task at
  once (WO-024, line 20);
- a poll that found a lease expired fails the attempt whose completion is accepted while the poll awaits `expire()`,
  and the task is leased again (WO-026, line 11);
- two requests that overlap may both make an objective of one resource scope active, because the insert's snapshot is older
  than its lock (`tests/core-ui-assignment.test.mjs`, line 206).

The models also contain, without a run of their own: a former implementer may judge its own evidence after a
takeover (WO-PHASE1, line 25); one append that fails inside its line makes the whole journal unreadable (WO-PHASE2, line 15);
a completed mutation's response is lost when two requests contend for the response journal (ADR 0006; it is why
`AppliedOnceUnlessLost` has its exception); a client that disconnects takes a slot of the limiter for good (ADR 0008;
`SlotsAreCounted` counts those slots and says that nothing else loses one); a job that App Chrome has released may be set running again. For the last, three
handlers have to meet: a GET whose client gave up stands before its acknowledgement
(`core-ui-assignment.mjs:487`), on the strength of the row it read at line 480; another GET finds the issue revised, cancels
the job and stands before its update of the objective (lines 335-337); the terminal report is answered because the job is over
(lines 560-563), so App Chrome releases it; then the first one acknowledges by id. The job is current again until the
second GET ends the objective or, if that one is cut off, until the next reconciliation. Two handlers do not
reach it; the proof of `ReleasedIsSettled` did, which is why it says what it says.

## 4. What is proved

For every value of the constants, by TLAPS. Each proof has the same shape: an invariant that the first state has and every
action keeps (one lemma per action or family of actions), from which the property follows.

- `ControlPlane_proofs`: `TypeCorrect`, `DecisionsStayBacked`, `VerifiedIsJudged`, `AuditExplains`. The invariant is
  `Sound` of every snapshot: well-formedness with `DecisionsAreBacked` and `IndependentlyVerified`, with one lemma
  per operation of a snapshot. Two facts carry the proof: a new record's id is new, so it cannot spoil a past decision;
  and an order leaves `verified` only by a failing decision and reaches `running`, the only place its implementer
  changes, only afterwards. `AuditExplains` is about a function defined by recursion over the trail (`Replay`): that a longer
  trail replays to the same up to its old length is shown by a least counterexample, since the induction rule of the
  library cannot be used here; then each operation appends the entry that explains it. Assumptions: `NobodyIsNotAPerson`,
  `CallersAreActors`, `MaxAuditIsNat`.
- `Journal_proofs`, of `FileJournal`: `TypeCorrect`, `LockIsSafe`, `VersionsAreDense`, `LossIsNeverSilent`, and the
  refinement `ImplementsVersionedLog` (`Spec => AppendsAreAtomic`), for any number of writers, streams and lines and
  both cut forms. The invariant `JournalInv` adds to the checked properties what each writer knows at each await
  (`WriterKnows`: the holder's draft is the next line of a readable file; the part it wrote ends the file; an answer
  "ok" means that its line is in the file) and `NothingLost` (every acknowledged hash is the hash of a line of the
  file), the last two unless two entries were glued into one line, after which nothing is ever written. It is needed
  because `StoredInOrder` alone does not say why the line about to be written fits, and `ReadableMeansComplete` alone
  says nothing of a file that is unreadable now and might be readable later: the proof shows that a glued line is
  never repaired. The refinement needs `DraftsInv`: a draft is the entry its caller asked for; a line not yet whole is
  the last of the file and its writer's; and an append told ok has its whole line in the file. The step that makes the
  line whole (`Write` in one piece, or `WriteRest`) is then the promise's append, at the length the stream has at that
  instant (`StoreRefines`); returns, refusals and crashes are its returns (`LeaveRefines`); all else is unseen.
  Assumptions: `CutFormsAreForms`, `MaxLinesIsNat`.
- `Journal_proofs`, of `DurableControlPlane`: `ImplementsControlPlane` (the refinement, `Spec => CommandsAreAtomic`),
  `AnswersStayDurable` and `StoredStaysTrusted`. The invariant `DurableInv` says of a command that waits to be stored
  (`ReadyIsLegal`): if it still holds the stream's length then its snapshot is what the rules allow on the order *as
  it is now*, so storing it is one atomic operation; an append to the order makes every other such command stale. The
  CHOOSE of `Latest` needs that a stream with entries has a last one (`HasLast`); durability that ranks in the stream
  are distinct and that an append keeps the ranks below it (`RankIsInjective`, `AtStays`). What the refinement is for:
  `Memory` is `ControlPlane_proofs` with the map read off the journal in the place of its map, so its theorems hold of
  the latest snapshots; what is stored was the latest once, what is told was stored, hence `StoredStaysTrusted`: each
  of them is `Trusted` (`WorkOrders`: decisions backed, verified by somebody else than the implementer, explained by
  the trail). Assumptions: those of `ControlPlane`.
- `Api_proofs`, of `ApiMutations`: `RepliesAlwaysAgree`, `RetriesAreInert`, `AppliedOnce`, `RepliesStayDurable`,
  `RepliesStayTrusted`, for any handlers, keys and requests. The invariant `RetryInv`: what was replied is on record
  under its key; so is what a handler is about to send; a handler that started after its key was answered never
  reaches the mutation; and a key whose attempts never overlapped and whose record was never lost is applied at most
  once, not yet while its only handler is before the mutation. `RepliesStayDurable` follows a snapshot from the
  mutation through the handler and the record to the reply: an order's trail only grows at its end. Along the same
  way, `RepliesStayTrusted` joins the API to the plane below it: started on a journal of trusted snapshots, it never
  tells anything else. That they are trusted (`StoredOrdersAreTrusted`) is what `StoredStaysTrusted` says of every
  journal; TLC checks it of the order its run starts with. Assumptions: `RequestsAreRequests`,
  `StoredOrdersAreSnapshots`, `StoredOrdersAreTrusted`, `NobodyIsNotAPerson`.
- `Api_proofs`, of `ApiAdmission`: `SlotsStayCounted`, `QuotaAlwaysHolds`, `GuidanceStaysHonest`, for any limits, actors and
  times. `LimiterInv` keeps every working request on a slot of its own. `WindowInv` says why a fixed window bounds
  the admissions: the last `count` requests of an actor are those of its open window, and those before are at least a window
  older than its end (`Fits`, `Spaced`); and that the time a refused caller was told is the end of a full window,
  now or earlier (`Promises`). Assumption: `LimitsArePositive`.
- `CoreJobs_proofs`, for any jobs, resources, runs, crashes, failing statements and budgets, over `CoreJobs` with the leases
  of `SharedResourceLease` in it. `DirectOnce`: a direct job that is queued was never started and has no run; a job in hand
  has one run; a run before its action has not started it; a direct job never waits. It is the absence of a way back to the
  queue that makes the action happen once. `BudgetHolds`: the starts of a job are counted against the attempts on its row and
  what its run has left, wherever the run stands, twice for each, as a timed-out call is made once more (`Spent`: a
  run that may still repeat its call has not used both starts). `SlotsExclude` and `NoSlotIsLost`: an occupied slot has
  one owner among the runs, the leases, and the two recoveries, each of which may stand between its statements, or it is on
  record as left behind by a failed statement. Assumptions: `NothingIsNothing`, `NullIsNoRow` and the ones of the kinds and bounds.
- `WorkforceRuntime_proofs`, for any tasks, employees, nodes, calls (finitely many), attempts and events:
  `RestartStaysHonest`, `ExecutionsStayBounded`, `CompletionStaysFinal`, `CountsStayTrue`, `InFlightStaysHeld`. `BaseInv` says
  who waits in the chain of checkpoints, that the head of the chain is the one a save is for, and that the stored, the
  saved and the present queue are `InOrder`: attempts only grow, and a completion stays. A restart is understood by
  `ReplayedIs`: `restoreTaskRecord`, which repeats the stored attempts, gives `Recovered(r)`, a record written without
  recursion (again by a least counterexample). `SpentInv` then counts: executions and the calls before their adapter
  together never exceed the attempts on record, in memory, in the snapshot being saved and in the store; without the last two, a
  crash would give an attempt back. `PromiseInv`: what a call is about to return is recorded, and stored once its checkpoint is.
  `AloneInv`: while no two calls for one task have overlapped, a task is at the stage its call left it, so the
  catch block finds the task running only when it comes from the adapter. Assumptions: `MaxAttemptsIsPositive`,
  `LimitIsPositive`, `CapableIsKnown`, `ControllerIsNoCall`, `CallsAreFinite`.
- `RemoteTasks_proofs`, for any tasks, nodes, calls (finitely many), attempts and events: `LeasesStayBudgeted`,
  `ToldStaysFinal`, `ActiveStaysTrue`, `RunningStaysLeased`. Whatever a call does is one of five forms (`StepForms`): it
  passes on with the records as they were, leaves, ends a task, takes one, or starts; each layer of the invariant then has a
  lemma per form, and one per step outside a call (`Outside`, the save, a restart). `BaseInv` is as for the runtime.
  `LeaseInv` counts: the leases of a task, and the polls that took it and are before their lease, are together
  never more than the attempts on record, in memory, in the snapshot being saved and in the store: the lease comes after the
  checkpoint, so that a restart, which reads the stored attempts, cannot give one back. `ToldInv`: a completion a
  call has settled is recorded, stored once its checkpoint is, and so is what a node was told after it; a task that a
  delivery found completed still is (`RecFits`), which is what a repeated delivery is told. `HandsInv`: while no node
  has two calls in flight, what a call took runs on its own node and nobody else has it in hand, so an expiry, a
  refusal and a late delivery release an employee exactly once. Assumptions: `MaxAttemptsIsPositive`, `BoundsAreNat`.
- `TaskRecords_proofs` has what the two proofs share: what a later snapshot keeps of an earlier one (`Precedes`), who
  waits in the chain of checkpoints, what a replay of the stored records gives (`ReplayedIs`), and counting.
- `UiTransport_proofs`, for any issues, revisions, workers, handlers and events: `PromptOnce`, `NoOrphans`,
  `ReleasedStaysSettled`, `OneComment`, `EvidenceIsTrue`. `TransportInv`: a ledger record from which the tick may
  dispatch again is *fresh* (its prompt never went to a page); a tick waits for a command nobody took only while its
  record is fresh; the command awaited is the tick's own; and what the bridge holds is what it took. `AssignInv` is
  about the rows of Core and the handlers between their statements: an active objective has a live job or a handler
  that is about to give or end it, or is on record as cut off. `ReportInv` joins it to the tick and the ledger: a tick that
  reports waits for a handler of that report, and what the ledger calls done is excused at Core. `EvidenceInv`: two
  handlers that hold a terminal key hold different ones, and a handler that is about to comment found none on the first
  page, or could not read it. `AnswerInv` follows an answer from the page to the comment: a delivery starts on an emptied
  page, the page of a job that was sent shows that job, and the heartbeats, the ledger and the reports tell what the
  page showed for it. Assumptions: `UiConstants`, `MaxRetriesIsNat`.

Every invariant and every action property of the passing runs is the conclusion of a theorem. Only model-checked is
liveness, and whatever needs ENABLED, out of this prover's reach: `LockReleased`, `SlotsComeBack`, `EveryTaskEnds`,
`AnswersReachCore`. The three claims that the runs refute stay with TLC too.

## 5. Plan

What is left, in the order of importance:

1. `WorkOrderWorker` (`packages/worker`): `run()` over the durable control plane, other actors between its awaits;
   what a finished run may claim of the order. `ModelRouter` (`packages/model-router`): circuits read
   before and written after the provider's await.
2. `NodePairing` (`pairing`, `node-credentials`): a challenge pairs at most one node, a revoked credential
   authenticates nobody; `mobile-worker-api` and `nv02-local-self-pull` over the leases of `SharedResourceLease`.
3. GitHub intake, the release approval and the coding lane's run ledger; App Chrome's dispatch and mutation leases.

## 6. Not modelled

- Code switched off in this commit: App Chrome's autopilot, self-run and terminal reconciliation
  (`apps/chrome-controller/src/server.ts:130` and the constants after it are `false`), and the worker NV03, fenced by default.
- The parts section 5 plans: `packages/worker`, `model-router`, pairing and credentials, mobile workers, intake, campaign
  runner, release approval and the coding lane, and App Chrome's manual dispatch, pauses and window recovery.
- `core.mjs` beyond its jobs: the manager, the API doctor, the probes and the recovery of their occupancies, and the ranking
  of resources.
- Long-running external agents (`openclaw-tigeriq-runtime`): mostly process and file input and output.
- Applications without part in the control plane (camera, games, web sites, demos), dashboards and read-only
  projections, text parsing, HTTP framing, token parsing, hashing and digests, metrics.

`PROJECT.json` lists every component with the reason, and under `hazards` what is hard to test in it, covered or not.
