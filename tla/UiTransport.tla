------------------------------ MODULE UiTransport ------------------------------
(***************************************************************************)
(* App Chrome as the client of UiAssignment (apps/chrome-controller): the  *)
(* tick that reports finished answers to Core, asks for work and delivers  *)
(* it, the durable job ledger, the commands it leaves for the bridge, and  *)
(* the bridge that types into one chat per worker and sends heartbeats.    *)
(*                                                                         *)
(* A record of the ledger is "sent" in the stages SUBMITTED to VERIFY,     *)
(* which a heartbeat moves it through and nothing here tells apart; it is  *)
(* "retry" in the stage ERROR when the blocker says that nothing was       *)
(* delivered.  A page that asks for a login or a captcha stops its worker; *)
(* the job it had is BLOCKED here and Core is not told.  Pauses, the kill  *)
(* switch and disabled workers are left out: they keep the tick from       *)
(* acting, or fail a command as any other error does.                      *)
(***************************************************************************)
EXTENDS UiAssignment

CONSTANT MaxRetries   \* config.pacing.maxRetries

ASSUME MaxRetriesIsNat == MaxRetries \in Nat

VARIABLES tick,       \* coreUiTransportTick: where it waits
          ledger,     \* stage of each job's record
          hand,       \* bridge: the command it is executing, per worker
          due,        \* bridge: its next tick begins with a heartbeat
          chat,       \* what the page of each worker shows
          beat,       \* the last heartbeat of each worker
          barred,     \* the workers whose state is blocked
          stopped,    \* history: the jobs a security stop has ended
          delivered,  \* history: how often each job's prompt was submitted
          shown       \* history: the answers each job was given

appVars  == <<tick, ledger, hand, due, chat, beat, barred, stopped, delivered, shown>>
restVars == <<hand, due, chat, barred, stopped, delivered, shown>>
vars == <<coreVars, appVars>>

WorkerSet == {Workers[n] : n \in DOMAIN Workers}
Resting   == [pc |-> "report", n |-> 1, call |-> 0, offers |-> {}, job |-> None,
              terminal |-> "none", tries |-> 0, taken |-> FALSE]
Empty     == [job |-> None, phase |-> "empty"]
NoCommand == [act |-> "none"]

Init ==
  /\ CoreInit
  /\ tick = Resting
  /\ ledger = [j \in Jobs |-> "none"]
  /\ hand = [w \in WorkerSet |-> NoCommand]
  /\ due = [w \in WorkerSet |-> TRUE]
  /\ chat = [w \in WorkerSet |-> Empty]
  /\ beat = [w \in WorkerSet |-> "unknown"]
  /\ barred = {} /\ stopped = {}
  /\ delivered = [j \in Jobs |-> 0]
  /\ shown = [j \in Jobs |-> "none"]

Active(w) == {j \in Jobs : WorkerOf[j[1]] = w /\ ledger[j] \in {"dispatching", "sent"}}

-----------------------------------------------------------------------------
(***************************************************************************)
(* The tick: coreUiTransportTick.                                          *)
(***************************************************************************)
Ticking(pc) == tick.pc = pc
Start(c, request) == /\ At(c, "idle") /\ Goto(c, request)
                     /\ \A k \in Calls : k < c => ~At(k, "idle")
\* Mutated: a handler ends with its connection.
HangUpForGood(c) == Goto(c, Idle)
HangUp(c) == Goto(c, IF call[c].pc \in {"answered", "failed"} THEN Idle
                     ELSE [call[c] EXCEPT !.heard = FALSE])
CoreKept == UNCHANGED <<issue, objective, job, rows, plain, cut>>
StopKept == UNCHANGED <<barred, stopped>>

\* Mutated: only what is known to be delivered can be answered.
AnsweredIfSent(w) == beat[w] \in Terminals /\ \E j \in Active(w) : ledger[j] = "sent"

\* The last heartbeat says that the worker's active job is answered.
Answered(w) == Active(w) # {} /\ beat[w] \in Terminals

\* The workers are scanned up to one with an answer; else work is asked for.
ReportOrFetch ==
  /\ Ticking("report")
  /\ \E c \in Calls :
       LET due_ == {n \in tick.n .. Len(Workers) : Answered(Workers[n])}
       IN  \/ /\ due_ = {} /\ Start(c, Get(None))
              /\ tick' = [tick EXCEPT !.pc = "fetching", !.call = c]
           \/ \E n \in due_ :
                LET w == Workers[n]
                    j == CHOOSE k \in Active(w) : TRUE
                IN  /\ \A k \in due_ : n <= k
                    /\ Start(c, Post(j, beat[w]))
                    /\ tick' = [tick EXCEPT !.pc = "reporting", !.n = n, !.call = c,
                                            !.job = j, !.terminal = beat[w]]
  /\ CoreKept /\ UNCHANGED <<events, ledger, beat, restVars>>

\* reconcileAuthoritativeTerminal: what has ended stays as it is, and from
\* "dispatching" there is no way to DONE.
Released(j, t) ==
  IF ledger[j] \notin {"dispatching", "sent"} THEN ledger[j]
  ELSE IF t = "BLOCKED" THEN "blocked"
  ELSE IF ledger[j] = "sent" THEN "done" ELSE ledger[j]

\* Mutated: whether the reply is a refusal is not looked at.
ReportAcceptedUnchecked ==
  /\ Ticking("reporting") /\ call[tick.call].pc \in {"answered", "failed"}
  /\ ledger' = [ledger EXCEPT ![tick.job] = Released(tick.job, tick.terminal)]
  /\ tick' = [Resting EXCEPT !.n = tick.n + 1]
  /\ Goto(tick.call, Idle)
  /\ CoreKept /\ UNCHANGED <<events, beat, restVars>>

\* Core has taken the answer: only now is the job released.
ReportAccepted ==
  /\ Ticking("reporting") /\ At(tick.call, "answered")
  /\ ledger' = [ledger EXCEPT ![tick.job] = Released(tick.job, tick.terminal)]
  /\ tick' = [Resting EXCEPT !.n = tick.n + 1]
  /\ Goto(tick.call, Idle)
  /\ CoreKept /\ UNCHANGED <<events, beat, restVars>>

Fetched ==
  /\ Ticking("fetching") /\ At(tick.call, "answered")
  /\ tick' = [Resting EXCEPT !.pc = "offer", !.n = 1, !.offers = call[tick.call].offers]
  /\ Goto(tick.call, Idle)
  /\ CoreKept /\ UNCHANGED <<events, ledger, beat, restVars>>

\* A refused call is thrown and ends the tick, whatever was left to do.
CallRefused ==
  /\ tick.pc \in {"reporting", "fetching", "acknowledging"}
  /\ At(tick.call, "failed")
  /\ tick' = Resting
  /\ Goto(tick.call, Idle)
  /\ CoreKept /\ UNCHANGED <<events, ledger, beat, restVars>>

\* So does a call that takes too long; its handler at Core runs on.
CallAborted ==
  /\ tick.pc \in {"reporting", "fetching", "acknowledging"}
  /\ Event("net")
  /\ tick' = Resting
  /\ HangUp(tick.call)
  /\ CoreKept /\ UNCHANGED <<ledger, beat, restVars>>

\* The worker may work, is idle, as far as its last heartbeat tells, and has
\* an offer.
OffersFor(w) == {j \in Jobs : j \in tick.offers /\ WorkerOf[j[1]] = w}
Ready(w) == /\ Active(w) = {} /\ w \notin barred
            /\ beat[w] \notin {"unknown", "working", "stopped"}
            /\ OffersFor(w) # {}

\* The first worker in line that is ready gets one of its offers.  dispatch:
\* a job that is on record, and not to be retried, is thrown back.
Offered(n, j) ==
  /\ n \in tick.n .. Len(Workers) /\ Ready(Workers[n])
  /\ \A k \in tick.n .. n - 1 : ~Ready(Workers[k])
  /\ j \in OffersFor(Workers[n])

Dispatch(n, j) ==
  /\ Offered(n, j) /\ ledger[j] \in {"none", "retry"}
  /\ ledger' = [ledger EXCEPT ![j] = "dispatching"]
  /\ tick' = [tick EXCEPT !.pc = "send", !.n = n, !.job = j]

OfferOrRest ==
  /\ Ticking("offer")
  /\ \/ \E n \in DOMAIN Workers, j \in Jobs : Dispatch(n, j)
     \/ /\ \/ \A n \in DOMAIN Workers, j \in Jobs : ~Offered(n, j)
           \/ \E n \in DOMAIN Workers, j \in Jobs :
                Offered(n, j) /\ ledger[j] \notin {"none", "retry"}
        /\ tick' = Resting /\ UNCHANGED ledger
  /\ CoreKept /\ UNCHANGED <<call, events, beat, restVars>>

\* After a delivery Core is asked again, naming the job if its id is plain.
AskAgain ==
  /\ Ticking("delivered")
  /\ \E c \in Calls :
       /\ Start(c, Get(IF plain[tick.job[1]] = tick.job THEN tick.job ELSE None))
       /\ tick' = [tick EXCEPT !.pc = "acknowledging", !.call = c]
  /\ CoreKept /\ UNCHANGED <<events, ledger, beat, restVars>>

Acknowledged ==
  /\ Ticking("acknowledging") /\ At(tick.call, "answered")
  /\ tick' = [Resting EXCEPT !.pc = "offer", !.n = tick.n + 1, !.offers = tick.offers]
  /\ Goto(tick.call, Idle)
  /\ CoreKept /\ UNCHANGED <<events, ledger, beat, restVars>>

-----------------------------------------------------------------------------
(***************************************************************************)
(* Commands: sendCommand, runWithRetry and the catch of dispatch.  The     *)
(* tick waits in "send" for its turn in uiQueue, or for the backoff before *)
(* a retry; while it waits in "navigate" or "deliver" its command is in    *)
(* the queue, or "taken" by the bridge.                                    *)
(***************************************************************************)
Commanding == tick.pc \in {"navigate", "deliver"}
Act        == IF Ticking("navigate") THEN "NAVIGATE" ELSE "DISPATCH"

Barred     == WorkerOf[tick.job[1]] \in barred

\* A job that a stop has ended takes no other stage: the transition throws.
Recorded(stage) == IF ledger[tick.job] = "blocked" THEN ledger
                   ELSE [ledger EXCEPT ![tick.job] = stage]

\* After the navigation the prompt is sent at once, if the worker may work; a
\* delivery that cannot be recorded ends the tick.
CommandSucceeds ==
  IF Ticking("navigate") /\ ~Barred
  THEN /\ tick' = [tick EXCEPT !.pc = "deliver", !.taken = FALSE, !.tries = 0]
       /\ UNCHANGED ledger
  ELSE /\ tick' = IF Ticking("navigate") \/ ledger[tick.job] = "blocked" THEN Resting
                  ELSE [tick EXCEPT !.pc = "delivered", !.taken = FALSE]
       /\ ledger' = Recorded(IF Ticking("navigate") THEN "error" ELSE "sent")

\* Mutated: every failed delivery is taken for one that may be repeated.
CommandFailsSafely(blocker) ==
  IF ~Ticking("deliver") /\ tick.tries < MaxRetries
  THEN /\ tick' = [tick EXCEPT !.pc = "send", !.tries = @ + 1, !.taken = FALSE]
       /\ UNCHANGED ledger
  ELSE /\ tick' = Resting
       /\ ledger' = Recorded("retry")

\* "retry" for the errors classifyAutoContinueDispatchFailure calls safe.
CommandFails(blocker) ==
  IF ~Ticking("deliver") /\ tick.tries < MaxRetries
  THEN /\ tick' = [tick EXCEPT !.pc = "send", !.tries = @ + 1, !.taken = FALSE]
       /\ UNCHANGED ledger
  ELSE /\ tick' = Resting
       /\ ledger' = Recorded(blocker)

\* WORKER_BLOCKED, or into the queue.
SendNavigate ==
  /\ Ticking("send")
  /\ IF Barred THEN CommandFails("error")
     ELSE tick' = [tick EXCEPT !.pc = "navigate"] /\ UNCHANGED ledger
  /\ CoreKept /\ UNCHANGED <<call, events, beat, restVars>>

\* A command nobody took is removed from the queue; one that was taken may
\* still be carried out.
CommandTimesOut ==
  /\ Commanding
  /\ LET w     == WorkerOf[tick.job[1]]
         alone == tick.taken /\ ~(hand[w] # NoCommand /\ hand[w].awaited)
     IN  /\ IF alone THEN UNCHANGED events ELSE Event("net")
         /\ CommandFails(IF tick.taken THEN "error" ELSE "retry")
         /\ hand' = IF hand[w] = NoCommand THEN hand
                    ELSE [hand EXCEPT ![w].awaited = FALSE]
  /\ CoreKept /\ StopKept /\ UNCHANGED <<call, beat, due, chat, delivered, shown>>

-----------------------------------------------------------------------------
(***************************************************************************)
(* The bridge: tickWorker, one worker at a time.  Each of its ticks sends  *)
(* a heartbeat and then takes at most one command.                         *)
(***************************************************************************)
\* heartbeatStopReason: the worker is blocked and the job it has is ended; of
\* the answer on its page nothing is looked at until a heartbeat is clean.
SecurityStop(w) ==
  /\ Event("stop")
  /\ beat' = [beat EXCEPT ![w] = "stopped"]
  /\ barred' = barred \cup {w}
  /\ stopped' = stopped \cup Active(w)
  /\ ledger' = [j \in Jobs |-> IF j \in Active(w) THEN "blocked" ELSE ledger[j]]

Heartbeat(w) ==
  /\ hand[w] = NoCommand
  /\ due' = [due EXCEPT ![w] = FALSE]
  /\ \/ /\ beat' = [beat EXCEPT ![w] = chat[w].phase]
        /\ StopKept /\ UNCHANGED <<ledger, events>>
     \/ SecurityStop(w)
     \/ due[w] /\ Event("beat") /\ StopKept /\ UNCHANGED <<ledger, beat>>
  /\ CoreKept /\ UNCHANGED <<call, tick, hand, chat, delivered, shown>>

\* The owner lets a blocked worker go on.
Unblock(w) ==
  /\ w \in barred /\ barred' = barred \ {w}
  /\ CoreKept
  /\ UNCHANGED <<call, events, tick, ledger, hand, due, chat, beat, stopped, delivered, shown>>

\* Mutated: the commands are polled before the heartbeat is sent.
TakeCommandFirst(w) ==
  /\ Commanding /\ ~tick.taken /\ w = WorkerOf[tick.job[1]]
  /\ hand[w] = NoCommand
  /\ tick' = [tick EXCEPT !.taken = TRUE]
  /\ \/ /\ hand' = [hand EXCEPT ![w] = [act |-> Act, job |-> tick.job,
                                       awaited |-> TRUE, result |-> "none"]]
        /\ UNCHANGED <<due, events>>
     \/ Event("net") /\ due' = [due EXCEPT ![w] = TRUE] /\ UNCHANGED hand
  /\ CoreKept /\ StopKept /\ UNCHANGED <<call, ledger, beat, chat, delivered, shown>>

\* The answer to the poll may be lost: the command has left the queue.
TakeCommand(w) ==
  /\ Commanding /\ ~tick.taken /\ w = WorkerOf[tick.job[1]]
  /\ hand[w] = NoCommand /\ ~due[w]
  /\ tick' = [tick EXCEPT !.taken = TRUE]
  /\ \/ /\ hand' = [hand EXCEPT ![w] = [act |-> Act, job |-> tick.job,
                                       awaited |-> TRUE, result |-> "none"]]
        /\ UNCHANGED <<due, events>>
     \/ Event("net") /\ due' = [due EXCEPT ![w] = TRUE] /\ UNCHANGED hand
  /\ CoreKept /\ StopKept /\ UNCHANGED <<call, ledger, beat, chat, delivered, shown>>

Executing(w, act) == /\ hand[w] # NoCommand /\ hand[w].act = act
                     /\ hand[w].result = "none"
Result(w, r) == hand' = [hand EXCEPT ![w].result = r]

Navigate(w) ==
  /\ Executing(w, "NAVIGATE")
  /\ \/ Result(w, "ok") /\ chat' = [chat EXCEPT ![w] = Empty] /\ UNCHANGED events
     \/ Result(w, "error") /\ chat' \in {chat, [chat EXCEPT ![w] = Empty]} /\ Event("net")
  /\ CoreKept /\ StopKept /\ UNCHANGED <<call, tick, ledger, beat, due, delivered, shown>>

\* The prompt is submitted, and seen to be or not.
Submit(w) ==
  /\ Executing(w, "DISPATCH")
  /\ \/ Result(w, "ok") /\ UNCHANGED events
     \/ Result(w, "error") /\ Event("net")
  /\ chat' = [chat EXCEPT ![w] = [job |-> hand[w].job, phase |-> "working"]]
  /\ delivered' = [delivered EXCEPT ![hand[w].job] = @ + 1]
  /\ CoreKept /\ StopKept /\ UNCHANGED <<call, tick, ledger, beat, due, shown>>

\* COMPOSER_NOT_FOUND before anything is typed, or an error that says less.
SubmitFails(w) ==
  /\ Executing(w, "DISPATCH") /\ Event("net")
  /\ \E r \in {"retry", "error"} : Result(w, r)
  /\ CoreKept /\ StopKept /\ UNCHANGED <<call, tick, ledger, beat, due, chat, delivered, shown>>

\* An error may be a BLOCKED status, which blocks the worker; for the rest a
\* result nobody waits for is only logged.
PostResult(w) ==
  /\ hand[w] # NoCommand /\ hand[w].result # "none"
  /\ hand' = [hand EXCEPT ![w] = NoCommand]
  /\ due' = [due EXCEPT ![w] = TRUE]
  /\ barred' \in {barred} \cup (IF hand[w].result = "error" THEN {barred \cup {w}}
                               ELSE {})
  /\ IF ~hand[w].awaited THEN UNCHANGED <<tick, ledger>>
     ELSE IF hand[w].result = "ok" THEN CommandSucceeds
     ELSE CommandFails(hand[w].result)
  /\ CoreKept /\ UNCHANGED <<call, events, beat, stopped, chat, delivered, shown>>

\* The result does not arrive, or a success arrives as the error of posting it.
ResultIsLost(w) ==
  /\ hand[w] # NoCommand /\ hand[w].result # "none" /\ hand[w].awaited
  /\ Event("net")
  /\ hand' = [hand EXCEPT ![w] = NoCommand]
  /\ due' = [due EXCEPT ![w] = TRUE]
  /\ \/ UNCHANGED <<tick, ledger>>
     \/ CommandFails("error")
  /\ CoreKept /\ StopKept /\ UNCHANGED <<call, beat, chat, delivered, shown>>

\* The assistant in the page ends its answer with a terminal.
AssistantAnswers(w) ==
  /\ chat[w].phase = "working"
  /\ \E t \in Terminals : /\ chat' = [chat EXCEPT ![w].phase = t]
                          /\ shown' = [shown EXCEPT ![chat[w].job] = t]
  /\ CoreKept /\ StopKept /\ UNCHANGED <<call, events, tick, ledger, hand, due, beat, delivered>>

\* The ledger is on disk; queue, waiters, heartbeats and
\* what blocks a worker are in memory.
AppRestarts ==
  /\ Event("app")
  /\ tick' = Resting
  /\ beat' = [w \in WorkerSet |-> "unknown"]
  /\ barred' = {}
  /\ hand' = [w \in WorkerSet |-> IF hand[w] = NoCommand THEN NoCommand
                                  ELSE [hand[w] EXCEPT !.awaited = FALSE]]
  /\ IF tick.call = 0 THEN UNCHANGED call ELSE HangUp(tick.call)
  /\ CoreKept /\ UNCHANGED <<ledger, due, chat, stopped, delivered, shown>>

-----------------------------------------------------------------------------
TickStep ==
  \/ ReportOrFetch \/ ReportAccepted \/ Fetched \/ CallRefused
  \/ OfferOrRest \/ SendNavigate \/ AskAgain \/ Acknowledged
BridgeStep(w) ==
  TakeCommand(w) \/ Navigate(w) \/ Submit(w) \/ PostResult(w)
AppFault ==
  \/ CallAborted \/ AppRestarts
  \/ \E w \in WorkerSet : SubmitFails(w) \/ ResultIsLost(w)
Core == CoreNext /\ UNCHANGED appVars

Next ==
  \/ Core
  \/ TickStep \/ CommandTimesOut \/ AppFault
  \/ \E w \in WorkerSet : \/ Heartbeat(w) \/ BridgeStep(w)
                            \/ AssistantAnswers(w) \/ Unblock(w)

Spec == Init /\ [][Next]_vars

(***************************************************************************)
(* Fairness: the event loops of Core and App Chrome run, the interval of   *)
(* the tick and the timer of a lost command fire, and the bridge polls.    *)
(* Neither GitHub's calls nor the assistant's answers are owed.            *)
(***************************************************************************)
Fairness ==
  /\ \A c \in Calls :
       WF_vars((GetStep(c) \/ PostStep(c)) /\ UNCHANGED appVars)
  /\ WF_vars(TickStep) /\ WF_vars(CommandTimesOut)
  /\ \A w \in WorkerSet : WF_vars(Heartbeat(w)) /\ WF_vars(BridgeStep(w))
FairSpec == Spec /\ Fairness

-----------------------------------------------------------------------------
(***************************************************************************)
(* Properties.                                                             *)
(***************************************************************************)

\* The prompt of a job is submitted to a worker's page at most once, however
\* often Core offers the job again and whatever restarts, times out or is
\* lost on the way (dispatch, classifyAutoContinueDispatchFailure).
DeliveredOnce == \A j \in Jobs : delivered[j] <= 1

\* Repeated and concurrent reports leave one comment of evidence for a job on
\* the first page of its issue, and one more for every time the comments could
\* not be read.  What is written after people have filled that page no later
\* report sees, and a report cut short then leaves its comment behind.
EvidenceOf(j) == {n \in DOMAIN issue[j[1]].comments :
                    LET m == issue[j[1]].comments[n] IN m.job = j /\ ~m.late}
EvidenceOnce  == \A j \in Jobs : Cardinality(EvidenceOf(j)) <= 1 + events["blind"]

\* An active objective, and with it its scope, has a live job, or a handler
\* is about to give it one or to end it, unless a failed statement or a
\* restart of Core has cut a handler off between its two statements for that
\* very job: then nothing will ever end the objective.
Handled(j) == \E c \in Calls : Halfway(c) /\ call[c].target = j
OrphansWereCutOff ==
  \A j \in Jobs : objective[j] = "active" => Live(j) \/ Handled(j) \/ j \in cut

\* A job that App Chrome has released is not a current one at Core: the
\* report comes before the release.  A security stop releases a job without
\* one.  Else only a handler that read the job before, its client gone, can
\* make it current again, by acknowledging a job that another one has meanwhile
\* cancelled because its issue changed; then that other one is about to end
\* the objective too, unless it was cut off.
ReleasedIsSettled ==
  \A j \in Jobs : ledger[j] \in {"done", "blocked"} /\ Current(j) =>
     j \in stopped \/ (~Unchanged(j) /\ (Handled(j) \/ j \in cut))

\* What is posted as the outcome of a job is the answer its worker gave,
\* not what is left on the page of an earlier job, as long as App Chrome is
\* not restarted and no heartbeat is lost.
EvidenceIsTheAnswer ==
  events["app"] + events["beat"] = 0 =>
     \A i \in Issues : \A n \in DOMAIN issue[i].comments :
        LET m == issue[i].comments[n] IN shown[m.job] = m.terminal

\* An answer on the page of the worker's active job gets to Core, unless the
\* delivery was recorded as failed or a security stop ended the job here.
IsAnswered(j) == \E w \in WorkerSet : /\ j \in Active(w) /\ chat[w].job = j
                                     /\ chat[w].phase \in Terminals
AnswersReachCore ==
  \A j \in Jobs : IsAnswered(j) ~> (~Current(j) \/ ledger[j] = "error" \/ j \in stopped)

\* What a test says of the advisory-lock insert: a scope is never assigned
\* twice.
ScopeExclusive ==
  \A j, k \in Jobs :
     j # k /\ objective[j] = "active" /\ objective[k] = "active"
       => ScopeOf[j[1]] # ScopeOf[k[1]]
=============================================================================
