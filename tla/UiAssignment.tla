----------------------------- MODULE UiAssignment ------------------------------
(***************************************************************************)
(* How Core hands GitHub issues to its two browser workers and takes their *)
(* answers back (apps/tigeriq-core/core-ui-assignment.mjs): the handlers   *)
(* of GET /api/ui-assignment and POST /api/ui-assignment/terminal, over    *)
(* the objectives and jobs in Postgres and the issues and comments on      *)
(* GitHub.  A handler runs from one await to the next, every statement     *)
(* outside a transaction commits by itself, and a handler whose client     *)
(* has gone away runs on.  UiTransport composes it with its client.        *)
(***************************************************************************)
EXTENDS Integers, Sequences, FiniteSets, Functions

CONSTANTS Issues,       \* issue numbers, in the order of their priority
          Workers,      \* WORKERS: the order in which they are served
          WorkerOf,     \* the one worker an issue is eligible for
          ScopeOf,      \* RESOURCE_SCOPE of each issue
          KeptOpen,     \* the jobs whose issue says it stays open when they end
          MaxRevision,  \* bound: revisions of an issue
          MaxCalls,     \* bound: handlers running at the same time
          EventBound,   \* bound: events of each kind
          MaxEvents     \* bound: events of all kinds

EventKinds == {"core",  \* Core restarts
               "edit",  \* somebody revises or closes an issue
               "crowd", \* people's comments fill the first page of an issue
               "blind", \* the comments of an issue cannot be read
               "net",   \* another call or statement fails or is not waited for
               "app",   \* App Chrome restarts
               "beat",  \* a heartbeat is lost
               "stop"}  \* a page asks its worker to prove who it is

ASSUME UiConstants ==
  /\ Issues \subseteq Nat /\ MaxRevision \in Nat \ {0} /\ MaxCalls \in Nat
  /\ Workers \in Seq(STRING)
  /\ WorkerOf \in [Issues -> {Workers[n] : n \in DOMAIN Workers}]
  /\ EventBound \in [EventKinds -> Nat] /\ MaxEvents \in Nat

\* A job, like its objective, is for one revision of an issue.
Jobs  == Issues \X (1 .. MaxRevision)
None  == << >>
Calls == 1 .. MaxCalls

\* The answers a worker can end with; EXTERNAL_WAIT goes the way of BLOCKED.
Terminals == {"DONE", "BLOCKED"}

VARIABLES issue,      \* GitHub: state, revision and terminal comments, and
                      \* whether the first page of its comments is full
          objective,  \* status of each objective
          job,        \* status of each job
          rows,       \* the jobs in the order they were inserted
          plain,      \* per issue, the job that has the plain id GH-n
          call,       \* the handlers
          cut,        \* history: the jobs between whose two statements a handler ended
          events      \* what happened so far that is bounded, by kind

coreVars == <<issue, objective, job, rows, plain, call, cut, events>>

Idle == [pc |-> "idle"]

CoreInit ==
  /\ issue = [i \in Issues |-> [state |-> "open", rev |-> 1,
                                comments |-> << >>, full |-> FALSE]]
  /\ objective = [j \in Jobs |-> "none"]
  /\ job = [j \in Jobs |-> "none"]
  /\ rows = << >>
  /\ plain = [i \in Issues |-> None]
  /\ call = [c \in Calls |-> Idle]
  /\ cut = {}
  /\ events = [k \in EventKinds |-> 0]

-----------------------------------------------------------------------------
(***************************************************************************)
(* What the rows and the issues say.                                       *)
(***************************************************************************)
Live(j)    == job[j] \in {"assigned", "running"}
Current(j) == Live(j) /\ objective[j] = "active"

\* The rows of the jobs worker w holds, and the oldest of them.
Held(w)   == {n \in DOMAIN rows : WorkerOf[rows[n][1]] = w /\ Current(rows[n])}
Least(S)  == CHOOSE n \in S : \A m \in S : n <= m
Oldest(w) == rows[Least(Held(w))]

Unchanged(j) == issue[j[1]].state = "open" /\ issue[j[1]].rev = j[2]

\* What became of a job whose issue is closed, dropped or revised.
Settled(j) == IF issue[j[1]].state = "closed" THEN "done" ELSE "cancelled"

ScopeTaken(j) ==
  \E k \in Jobs : ScopeOf[k[1]] = ScopeOf[j[1]] /\ objective[k] = "active"

At(c, pc)   == call[c].pc = pc
Goto(c, g)  == call' = [call EXCEPT ![c] = g]
Event(kind) ==
  /\ events[kind] < EventBound[kind] /\ SumFunction(events) < MaxEvents
  /\ events' = [events EXCEPT ![kind] = @ + 1]

\* Nobody is left to tell when the client of a handler has gone away.
Answer(c, reply) == Goto(c, IF call[c].heard THEN reply ELSE Idle)
Refusal == [pc |-> "failed", heard |-> TRUE]

-----------------------------------------------------------------------------
(***************************************************************************)
(* GET /api/ui-assignment: buildCoreUiAssignmentSnapshot.  "seen" are the  *)
(* jobs it found current, with the ones still to be started in "fresh";    *)
(* "missing" are the workers without one.  No statement after the read of  *)
(* a row reads it again: what the handler goes by may be out of date.      *)
(***************************************************************************)
Get(prev) ==
  [pc |-> IF prev = None THEN "worker" ELSE "previous", heard |-> TRUE, prev |-> prev,
   n |-> IF prev = None THEN 1 ELSE 0, seen |-> {},
   fresh |-> {}, missing |-> << >>, listed |-> {}, target |-> None,
   verdict |-> "none", free |-> FALSE, first |-> FALSE]

\* On to the next worker, and after the last one to the open issues.
NextWorker(g) ==
  LET n == g.n + 1
  IN  [g EXCEPT !.n = n, !.target = None, !.verdict = "none",
                !.pc = IF n <= Len(Workers) THEN "worker"
                       ELSE IF g.missing = << >> THEN "reply" ELSE "list"]

\* reconcile of the row j: g1 when the issue stands, else two updates follow.
Reconcile(c, j, g1) ==
  Goto(c, IF Unchanged(j) THEN g1
          ELSE [call[c] EXCEPT !.pc = "settle", !.target = j,
                               !.verdict = Settled(j)])

\* The job the client was given last: its row and its issue.
ReadPrevious(c) ==
  /\ At(c, "previous")
  /\ LET g == call[c]
     IN  Reconcile(c, g.prev, IF job[g.prev] = "assigned"
                              THEN [g EXCEPT !.pc = "acknowledge"]
                              ELSE NextWorker(g))
  /\ UNCHANGED <<issue, objective, job, rows, plain, cut, events>>

\* The update names the id alone: the status was read before the issue was.
Acknowledge(c) ==
  /\ At(c, "acknowledge")
  /\ job' = [job EXCEPT ![call[c].prev] = "running"]
  /\ Goto(c, NextWorker(call[c]))
  /\ UNCHANGED <<issue, objective, rows, plain, cut, events>>

ReadWorker(c) ==
  /\ At(c, "worker")
  /\ LET g    == call[c]
         w    == Workers[g.n]
     IN  IF Held(w) = {}
         THEN Goto(c, NextWorker([g EXCEPT !.missing = Append(@, w)]))
         ELSE LET j == Oldest(w)
              IN  Reconcile(c, j, NextWorker(
                    [g EXCEPT !.seen = @ \cup {j},
                              !.fresh = IF job[j] = "assigned" THEN @ \cup {j} ELSE @]))
  /\ UNCHANGED <<issue, objective, job, rows, plain, cut, events>>

SettleJob(c) ==
  /\ At(c, "settle")
  /\ LET j == call[c].target
     IN  job' = IF Live(j) THEN [job EXCEPT ![j] = call[c].verdict] ELSE job
  /\ Goto(c, [call[c] EXCEPT !.pc = "settleObjective"])
  /\ UNCHANGED <<issue, objective, rows, plain, cut, events>>

SettleObjective(c) ==
  /\ At(c, "settleObjective")
  /\ LET g == call[c]
         j == g.target
     IN  /\ objective' =
              IF objective[j] # "active" THEN objective
              ELSE [objective EXCEPT ![j] =
                     IF g.verdict = "done" THEN "completed" ELSE "blocked"]
         /\ Goto(c, IF g.n = 0 THEN NextWorker(g)
                    ELSE NextWorker([g EXCEPT !.missing = Append(@, Workers[g.n])]))
  /\ UNCHANGED <<issue, job, rows, plain, cut, events>>

ListIssues(c) ==
  /\ At(c, "list")
  /\ Goto(c, [call[c] EXCEPT !.pc = "select",
                 !.listed = {<<i, issue[i].rev>> : i \in
                               {i \in Issues : issue[i].state = "open"}}])
  /\ UNCHANGED <<issue, objective, job, rows, plain, cut, events>>

\* Without the list, the workers that have a job are still answered for.
ListFails(c) ==
  /\ At(c, "list") /\ Event("net")
  /\ IF call[c].seen = {} THEN Answer(c, Refusal)
     ELSE Goto(c, [call[c] EXCEPT !.pc = "reply"])
  /\ UNCHANGED <<issue, objective, job, rows, plain, cut>>

\* materializeForWorker: whether the worker has a job is asked here only.
SelectWorker(c) ==
  /\ At(c, "select")
  /\ LET g == call[c]
     IN  Goto(c, IF g.missing = << >> THEN [g EXCEPT !.pc = "reply"]
                 ELSE IF Held(g.missing[1]) # {}
                 THEN [g EXCEPT !.missing = Tail(@)]
                 ELSE [g EXCEPT !.pc = "spec"])
  /\ UNCHANGED <<issue, objective, job, rows, plain, cut, events>>

\* The listed revisions of the worker's issues that have no objective yet.
Candidates(g) == {j \in g.listed : /\ WorkerOf[j[1]] = g.missing[1]
                                   /\ objective[j] = "none"}
Foremost(js)  == CHOOSE j \in js : \A k \in js : j[1] <= k[1]

\* The insert starts: its NOT EXISTS is answered from the snapshot taken
\* now, before it waits for the advisory lock of the scope.
TrySpec(c) ==
  /\ At(c, "spec")
  /\ LET g  == call[c]
         js == Candidates(g)
     IN  Goto(c, IF js = {} THEN [g EXCEPT !.pc = "select", !.missing = Tail(@)]
                 ELSE LET j == Foremost(js)
                      IN  [g EXCEPT !.pc = "insert", !.target = j,
                                    !.free = ~ScopeTaken(j),
                                    !.first = plain[j[1]] = None])
  /\ UNCHANGED <<issue, objective, job, rows, plain, cut, events>>

\* The exact context of an issue cannot be loaded: it is passed over.
ContextFails(c) ==
  /\ At(c, "spec") /\ Candidates(call[c]) # {} /\ Event("net")
  /\ Goto(c, [call[c] EXCEPT !.listed = @ \ {Foremost(Candidates(call[c]))}])
  /\ UNCHANGED <<issue, objective, job, rows, plain, cut>>

\* The insert ends: only a conflict of ids is seen as of now.
InsertObjective(c) ==
  /\ At(c, "insert")
  /\ LET g     == call[c]
         j     == g.target
         taken == objective[j] # "none" \/ (g.first /\ plain[j[1]] # None)
     IN  IF g.free /\ ~taken
         THEN /\ objective' = [objective EXCEPT ![j] = "active"]
              /\ plain' = IF g.first THEN [plain EXCEPT ![j[1]] = j] ELSE plain
              /\ Goto(c, [g EXCEPT !.pc = "job", !.free = FALSE, !.first = FALSE])
         ELSE /\ Goto(c, [g EXCEPT !.pc = "spec", !.listed = @ \ {j},
                                   !.target = None, !.free = FALSE, !.first = FALSE])
              /\ UNCHANGED <<objective, plain>>
  /\ UNCHANGED <<issue, job, rows, cut, events>>

InsertJob(c) ==
  /\ At(c, "job")
  /\ LET j == call[c].target
     IN  /\ job' = [job EXCEPT ![j] = "assigned"]
         /\ rows' = Append(rows, j)
         /\ Goto(c, [call[c] EXCEPT !.pc = "select", !.missing = Tail(@),
                       !.target = None, !.seen = @ \cup {j}, !.fresh = @ \cup {j}])
  /\ UNCHANGED <<issue, objective, plain, cut, events>>

\* nextJobs: what has not been started, except what was asked about.
Reply(c) ==
  /\ At(c, "reply")
  /\ Answer(c, [pc |-> "answered", heard |-> TRUE,
                offers |-> call[c].fresh \ {call[c].prev}])
  /\ UNCHANGED <<issue, objective, job, rows, plain, cut, events>>

-----------------------------------------------------------------------------
(***************************************************************************)
(* POST /api/ui-assignment/terminal: completeCoreUiAssignment, one         *)
(* transaction under the advisory lock of the job's terminal key.  What it *)
(* writes to GitHub is not undone when the transaction is.                 *)
(***************************************************************************)
Post(j, t) == [pc |-> "lock", heard |-> TRUE, job |-> j, terminal |-> t,
               open |-> FALSE]  \* to be closed if it ends DONE
Locked(j)  == \E c \in Calls : /\ call[c].pc \in {"evidence", "comment", "close", "commit"}
                               /\ call[c].job = j

Accepted(t) == [pc |-> "answered", heard |-> TRUE, offers |-> {}]

\* Mutated: the advisory lock of the terminal key is not taken.
TakeLockFreely(c) ==
  /\ At(c, "lock")
  /\ IF Live(call[c].job) THEN Goto(c, [call[c] EXCEPT !.pc = "evidence"])
     ELSE Answer(c, Accepted(call[c].terminal))
  /\ UNCHANGED <<issue, objective, job, rows, plain, cut, events>>

TakeLock(c) ==
  /\ At(c, "lock") /\ ~Locked(call[c].job)
  /\ IF Live(call[c].job) THEN Goto(c, [call[c] EXCEPT !.pc = "evidence"])
     ELSE Answer(c, Accepted(call[c].terminal))
  /\ UNCHANGED <<issue, objective, job, rows, plain, cut, events>>

\* The text of a comment is searched for the key, and the key of the plain
\* id GH-n is the beginning of the key of every other job of the issue.  Only
\* the first page of the comments is read, the oldest hundred.
Evidence(j) == {n \in DOMAIN issue[j[1]].comments :
                  LET m == issue[j[1]].comments[n]
                  IN  ~m.late /\ (m.job = j \/ plain[j[1]] = j)}

\* With the evidence at hand: a finished issue is closed, unless it says
\* that it stays open, or said so when the job was assigned.
Commented(g) ==
  [g EXCEPT !.pc = IF g.terminal = "DONE" /\ g.open THEN "close" ELSE "commit"]

\* The issue and its comments; an earlier comment decides the outcome.
ReadEvidence(c) ==
  /\ At(c, "evidence")
  /\ LET i    == call[c].job[1]
         g    == [call[c] EXCEPT !.open =
                    /\ issue[i].state = "open"
                    /\ {call[c].job, <<i, issue[i].rev>>} \cap KeptOpen = {}]
         past == Evidence(g.job)
     IN  \/ /\ Goto(c, IF past = {} THEN [g EXCEPT !.pc = "comment"]
                       ELSE Commented([g EXCEPT !.terminal =
                              issue[i].comments[Least(past)].terminal]))
            /\ UNCHANGED events
         \/ Event("blind") /\ Goto(c, [g EXCEPT !.pc = "comment"])
  /\ UNCHANGED <<issue, objective, job, rows, plain, cut>>

WithComment(g) ==
  [issue EXCEPT ![g.job[1]].comments =
     Append(@, [job |-> g.job, terminal |-> g.terminal,
                late |-> issue[g.job[1]].full])]

PostComment(c) ==
  /\ At(c, "comment")
  /\ issue' = WithComment(call[c])
  /\ Goto(c, Commented(call[c]))
  /\ UNCHANGED <<objective, job, rows, plain, cut, events>>

WithClosed(g) == [issue EXCEPT ![g.job[1]].state = "closed"]

\* Whatever the revision of the issue is by now.
CloseIssue(c) ==
  /\ At(c, "close")
  /\ issue' = WithClosed(call[c])
  /\ Goto(c, [call[c] EXCEPT !.pc = "commit"])
  /\ UNCHANGED <<objective, job, rows, plain, cut, events>>

Commit(c) ==
  /\ At(c, "commit")
  /\ LET g == call[c]
     IN  /\ job' = IF ~Live(g.job) THEN job
                   ELSE [job EXCEPT ![g.job] =
                          IF g.terminal = "DONE" THEN "done" ELSE "failed"]
         /\ objective' =
              IF objective[g.job] # "active" THEN objective
              ELSE [objective EXCEPT ![g.job] =
                     IF g.terminal = "DONE" THEN "completed" ELSE "blocked"]
         /\ Answer(c, Accepted(g.terminal))
  /\ UNCHANGED <<issue, rows, plain, cut, events>>

-----------------------------------------------------------------------------
(***************************************************************************)
(* What goes wrong, and what people do on GitHub.                          *)
(***************************************************************************)
\* Between two statements that belong together and commit one by one.
Halfway(c) == call[c].pc \in {"job", "settleObjective"}

\* A call or a statement fails, or GitHub does what it is asked and the answer
\* is lost (a statement whose answer is lost is done, and the handler fails
\* right after it); the list of the issues has a failure of its own.  An open
\* transaction is rolled back, the statements before are not.
CallFails(c) ==
  /\ call[c].pc \notin {"idle", "list", "answered", "failed"} /\ Event("net")
  /\ issue' \in {issue} \cup (IF At(c, "comment") THEN {WithComment(call[c])}
                             ELSE IF At(c, "close") THEN {WithClosed(call[c])}
                             ELSE {})
  /\ cut' = cut \cup (IF Halfway(c) THEN {call[c].target} ELSE {})
  /\ Answer(c, Refusal)
  /\ UNCHANGED <<objective, job, rows, plain>>

\* The process dies; the rows and the open transaction's locks are Postgres's.
CoreRestarts ==
  /\ Event("core")
  /\ call' = [c \in Calls |-> IF call[c].pc # "idle" /\ call[c].heard
                             THEN Refusal ELSE Idle]
  /\ cut' = cut \cup {call[c].target : c \in {d \in Calls : Halfway(d)}}
  /\ UNCHANGED <<issue, objective, job, rows, plain>>

IssueChanges(i) ==
  /\ issue[i].state = "open" /\ Event("edit")
  /\ \/ issue[i].rev < MaxRevision /\ issue' = [issue EXCEPT ![i].rev = @ + 1]
     \/ issue' = [issue EXCEPT ![i].state = "dropped"]
     \/ issue' = [issue EXCEPT ![i].state = "closed"]
  /\ UNCHANGED <<objective, job, rows, plain, cut, call>>

\* Comments written from now on are on a later page.
FirstPageFills(i) ==
  /\ ~issue[i].full /\ Event("crowd")
  /\ issue' = [issue EXCEPT ![i].full = TRUE]
  /\ UNCHANGED <<objective, job, rows, plain, cut, call>>

GetStep(c) ==
  \/ ReadPrevious(c) \/ Acknowledge(c) \/ ReadWorker(c)
  \/ SettleJob(c) \/ SettleObjective(c) \/ ListIssues(c) \/ SelectWorker(c)
  \/ TrySpec(c) \/ InsertObjective(c) \/ InsertJob(c) \/ Reply(c)
PostStep(c) ==
  TakeLock(c) \/ ReadEvidence(c) \/ PostComment(c) \/ CloseIssue(c) \/ Commit(c)
CoreFault(c) == ListFails(c) \/ ContextFails(c) \/ CallFails(c)

CoreNext ==
  \/ \E c \in Calls : GetStep(c) \/ PostStep(c) \/ CoreFault(c)
  \/ CoreRestarts
  \/ \E i \in Issues : IssueChanges(i) \/ FirstPageFills(i)
=============================================================================
