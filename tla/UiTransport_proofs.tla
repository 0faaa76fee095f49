--------------------------- MODULE UiTransport_proofs ---------------------------
(***************************************************************************)
(* For any number of issues, revisions, workers, handlers and events: the  *)
(* prompt of a job is submitted at most once (PromptOnce); only a handler  *)
(* cut off leaves an active objective without a live job (NoOrphans); a    *)
(* released job is settled at Core, unless a security stop released it     *)
(* (ReleasedStaysSettled); its evidence is posted once on the first page   *)
(* (OneComment) and says what the worker answered (EvidenceIsTrue).  TransportInv is about App Chrome and its bridge;     *)
(* AssignInv about the rows and handlers of Core, which ReportInv joins to *)
(* the tick and the ledger; EvidenceInv about the comments and the         *)
(* handlers that hold a terminal key; AnswerInv about the pages, the       *)
(* heartbeats and what is told of them.                                    *)
(***************************************************************************)
EXTENDS UiTransport, FiniteSetTheorems, WellFoundedInduction, TLAPS

Stages == {"none", "retry", "dispatching", "sent", "error", "done", "blocked"}
Commands == [act : {"NAVIGATE", "DISPATCH"}, job : Jobs, awaited : BOOLEAN,
             result : {"none", "ok", "retry", "error"}]

AppTypes ==
  /\ DOMAIN tick = {"pc", "n", "call", "offers", "job", "terminal", "tries", "taken"}
  /\ ledger \in [Jobs -> Stages]
  /\ hand \in [WorkerSet -> {NoCommand} \cup Commands]
  /\ delivered \in [Jobs -> Nat]

\* Nobody has submitted the prompt of j, or is about to.
Holds(w)       == hand[w] # NoCommand
Unsubmitted(j) ==
  /\ delivered[j] = 0
  /\ \A w \in WorkerSet :
       Holds(w) /\ hand[w].job = j /\ hand[w].act = "DISPATCH" =>
         hand[w].result # "none"

\* Only such a job may be offered to a worker: none without a record, and
\* none whose record says that nothing was delivered.
RepeatableIsFresh ==
  \A j \in Jobs : ledger[j] \in {"none", "retry"} => Unsubmitted(j)

\* A tick that waits for its turn, or for a command to be taken, has not
\* delivered its job.
Sending == Ticking("send") \/ Commanding
TickIsFresh ==
  Sending =>
    /\ tick.job \in Jobs /\ ledger[tick.job] \in {"dispatching", "blocked"}
    /\ ~Ticking("deliver") \/ ~tick.taken => Unsubmitted(tick.job)

\* A command that is waited for is the one the tick waits for.
AwaitedIsTheTicks(w) ==
  hand[w].awaited => /\ Commanding /\ tick.taken
                     /\ hand[w].job = tick.job /\ hand[w].act = Act

\* A bridge executes commands for its own worker, and has not submitted the
\* prompt while it executes the command or when it says so.
HandIsHonest ==
  \A w \in WorkerSet : Holds(w) =>
    /\ WorkerOf[hand[w].job[1]] = w
    /\ AwaitedIsTheTicks(w)
    /\ hand[w].act = "DISPATCH" /\ hand[w].result \in {"none", "retry"} =>
         delivered[hand[w].job] = 0

TransportInv ==
  /\ AppTypes /\ DeliveredOnce
  /\ RepeatableIsFresh /\ TickIsFresh /\ HandIsHonest

-----------------------------------------------------------------------------
LEMMA InitHolds == Init => TransportInv
<1> SUFFICES ASSUME Init PROVE TransportInv
  OBVIOUS
<1>1. AppTypes
  BY DEF Init, AppTypes, Resting, Stages
<1>2. \A w \in WorkerSet : ~Holds(w)
  BY DEF Init, Holds
<1>3. ~Sending
  BY DEF Init, Sending, Commanding, Ticking, Resting
<1> QED
  BY <1>1, <1>2, <1>3 DEF Init, TransportInv, DeliveredOnce, RepeatableIsFresh,
     Unsubmitted, TickIsFresh, HandIsHonest

\* Only the tick, the ledger, the hands and the deliveries matter.
LEMMA ElsewhereHolds ==
  ASSUME TransportInv, UNCHANGED <<tick, ledger, hand, delivered>>
  PROVE  TransportInv'
BY DEF TransportInv, AppTypes, DeliveredOnce, RepeatableIsFresh, TickIsFresh,
   HandIsHonest, AwaitedIsTheTicks, Unsubmitted, Holds, Sending, Commanding,
   Ticking, Act

\* A security stop ends a job that is under way, and nothing else.
LEMMA StopHolds ==
  ASSUME TransportInv, UNCHANGED <<tick, hand, delivered>>,
         ledger' \in [Jobs -> Stages],
         \A j \in Jobs : ledger'[j] \in {ledger[j], "blocked"}
  PROVE  TransportInv'
BY DEF TransportInv, AppTypes, DeliveredOnce, RepeatableIsFresh, TickIsFresh,
   HandIsHonest, AwaitedIsTheTicks, Unsubmitted, Holds, Sending, Commanding,
   Ticking, Act

\* A tick that neither waits for a command nor begins to.
LEMMA QuietTickHolds ==
  ASSUME TransportInv, ~Commanding, ~Sending', UNCHANGED <<hand, delivered>>,
         DOMAIN tick' = DOMAIN tick, ledger' \in [Jobs -> Stages],
         \A j \in Jobs : ledger'[j] \in {"none", "retry"} => ledger[j] = ledger'[j]
  PROVE  TransportInv'
BY DEF TransportInv, AppTypes, DeliveredOnce, RepeatableIsFresh, TickIsFresh,
   HandIsHonest, AwaitedIsTheTicks, Unsubmitted, Holds, Sending

-----------------------------------------------------------------------------
\* What the end of a command does to the ledger.  A tick that gives up, or
\* says that the delivery may be repeated, is right about it.
LEMMA FailedCommandHolds ==
  ASSUME TransportInv, Sending, NEW blocker \in {"retry", "error"},
         CommandFails(blocker), UNCHANGED delivered,
         hand' \in [WorkerSet -> {NoCommand} \cup Commands],
         \* no hand begins anything, and none is waited for any more
         \A w \in WorkerSet : Holds(w)' =>
            /\ Holds(w) /\ ~hand'[w].awaited
            /\ hand'[w].job = hand[w].job /\ hand'[w].act = hand[w].act
            /\ hand'[w].result = hand[w].result,
         blocker = "retry" => Unsubmitted(tick.job)
  PROVE  TransportInv'
<1> USE DEF Sending, Commanding, Ticking
<1>a. /\ DOMAIN tick = {"pc", "n", "call", "offers", "job", "terminal", "tries", "taken"}
      /\ ledger \in [Jobs -> Stages] /\ delivered \in [Jobs -> Nat]
  BY DEF TransportInv, AppTypes
<1>b. tick.job \in Jobs /\ ledger[tick.job] \in {"dispatching", "blocked"}
  BY DEF TransportInv, TickIsFresh
<1>c. \A j \in Jobs : Unsubmitted(j) => Unsubmitted(j)'
  BY DEF Unsubmitted
<1>1. HandIsHonest'
  BY DEF TransportInv, HandIsHonest, AwaitedIsTheTicks
<1>2. CASE ~Ticking("deliver") /\ tick.tries < MaxRetries
  <2>1. /\ tick' = [tick EXCEPT !.pc = "send", !.tries = @ + 1, !.taken = FALSE]
        /\ UNCHANGED ledger
    BY <1>2 DEF CommandFails
  <2>2. tick'.job = tick.job /\ DOMAIN tick' = DOMAIN tick
    BY <2>1, <1>a
  <2>3. AppTypes'
    BY <1>a, <2>1, <2>2 DEF AppTypes
  <2>4. RepeatableIsFresh'
    BY <2>1, <1>c DEF TransportInv, RepeatableIsFresh
  <2>5. TickIsFresh'
    BY <1>2, <2>1, <2>2, <1>b, <1>c DEF TransportInv, TickIsFresh
  <2> QED BY <1>1, <2>3, <2>4, <2>5 DEF TransportInv, DeliveredOnce
<1>3. CASE ~(~Ticking("deliver") /\ tick.tries < MaxRetries)
  <2>1. /\ tick' = Resting
        /\ ledger' = ledger \/ ledger' = [ledger EXCEPT ![tick.job] = blocker]
    BY <1>3 DEF CommandFails, Recorded
  <2>2. AppTypes' /\ ~Sending'
    BY <1>a, <2>1 DEF AppTypes, Resting, Stages
  <2>3. RepeatableIsFresh'
    BY <1>a, <1>b, <1>c, <2>1 DEF TransportInv, RepeatableIsFresh
  <2>4. TickIsFresh'
    BY <2>2 DEF TickIsFresh
  <2> QED BY <1>1, <2>2, <2>3, <2>4 DEF TransportInv, DeliveredOnce
<1> QED BY <1>2, <1>3

\* A command that succeeds: on to the delivery, or done with it.
LEMMA SucceededCommandHolds ==
  ASSUME TransportInv, Commanding, CommandSucceeds, UNCHANGED delivered,
         hand' \in [WorkerSet -> {NoCommand} \cup Commands],
         \A w \in WorkerSet : Holds(w)' =>
            /\ Holds(w) /\ ~hand'[w].awaited
            /\ hand'[w].job = hand[w].job /\ hand'[w].act = hand[w].act
            /\ hand'[w].result = hand[w].result
  PROVE  TransportInv'
<1> USE DEF Sending, Commanding, Ticking
<1>a. /\ DOMAIN tick = {"pc", "n", "call", "offers", "job", "terminal", "tries", "taken"}
      /\ ledger \in [Jobs -> Stages] /\ delivered \in [Jobs -> Nat]
  BY DEF TransportInv, AppTypes
<1>b. tick.job \in Jobs /\ ledger[tick.job] \in {"dispatching", "blocked"}
  BY DEF TransportInv, TickIsFresh
<1>c. \A j \in Jobs : Unsubmitted(j) => Unsubmitted(j)'
  BY DEF Unsubmitted
<1>1. HandIsHonest'
  BY DEF TransportInv, HandIsHonest, AwaitedIsTheTicks
<1>2. CASE Ticking("navigate") /\ ~Barred
  <2>1. /\ tick' = [tick EXCEPT !.pc = "deliver", !.taken = FALSE, !.tries = 0]
        /\ UNCHANGED ledger
    BY <1>2 DEF CommandSucceeds
  <2>2. tick'.job = tick.job /\ DOMAIN tick' = DOMAIN tick
    BY <2>1, <1>a
  <2>3. AppTypes'
    BY <1>a, <2>1, <2>2 DEF AppTypes
  <2>4. RepeatableIsFresh'
    BY <2>1, <1>c DEF TransportInv, RepeatableIsFresh
  <2>5. TickIsFresh'
    BY <1>2, <2>1, <2>2, <1>b, <1>c DEF TransportInv, TickIsFresh
  <2> QED BY <1>1, <2>3, <2>4, <2>5 DEF TransportInv, DeliveredOnce
<1>3. CASE ~(Ticking("navigate") /\ ~Barred)
  <2>1. /\ tick' = Resting \/ tick' = [tick EXCEPT !.pc = "delivered", !.taken = FALSE]
        /\ \/ ledger' = ledger
           \/ \E stage \in {"error", "sent"} : ledger' = [ledger EXCEPT ![tick.job] = stage]
    BY <1>3 DEF CommandSucceeds, Recorded
  <2>2. tick'.pc \in {"report", "delivered"} /\ DOMAIN tick' = DOMAIN tick
    <3>1. Resting.pc = "report" /\ DOMAIN Resting = DOMAIN tick
      BY <1>a DEF Resting
    <3>2. CASE tick' = Resting
      BY <3>1, <3>2
    <3>3. CASE tick' = [tick EXCEPT !.pc = "delivered", !.taken = FALSE]
      BY <1>a, <3>3
    <3> QED BY <2>1, <3>2, <3>3
  <2>3. AppTypes' /\ ~Sending'
    BY <1>a, <2>1, <2>2 DEF AppTypes, Stages
  <2>4. RepeatableIsFresh'
    BY <1>a, <1>b, <1>c, <2>1 DEF TransportInv, RepeatableIsFresh
  <2>5. TickIsFresh'
    BY <2>3 DEF TickIsFresh
  <2> QED BY <1>1, <2>3, <2>4, <2>5 DEF TransportInv, DeliveredOnce
<1> QED BY <1>2, <1>3

LEMMA TickHolds == TransportInv /\ (TickStep \/ CallAborted) => TransportInv'
<1> SUFFICES ASSUME TransportInv, TickStep \/ CallAborted PROVE TransportInv'
  OBVIOUS
<1> USE DEF Sending, Commanding, Ticking, Resting, restVars
<1>a. /\ DOMAIN tick = {"pc", "n", "call", "offers", "job", "terminal", "tries", "taken"}
      /\ ledger \in [Jobs -> Stages]
  BY DEF TransportInv, AppTypes
<1>1. CASE ReportOrFetch
  <2>1. ~Commanding /\ ~Sending' /\ DOMAIN tick' = DOMAIN tick
    BY <1>1, <1>a DEF ReportOrFetch
  <2> QED BY <1>1, <1>a, <2>1, QuietTickHolds DEF ReportOrFetch
<1>2. CASE ReportAccepted
  <2>1. /\ ~Commanding /\ ~Sending' /\ DOMAIN tick' = DOMAIN tick
        /\ UNCHANGED <<hand, delivered>>
    BY <1>2, <1>a DEF ReportAccepted
  <2>2. /\ ledger' \in [Jobs -> Stages]
        /\ \A j \in Jobs : ledger'[j] \in {"none", "retry"} => ledger[j] = ledger'[j]
    BY <1>2, <1>a DEF ReportAccepted, Released, Stages
  <2> QED BY <2>1, <2>2, QuietTickHolds
<1>3. CASE Fetched
  <2>1. ~Commanding /\ ~Sending' /\ DOMAIN tick' = DOMAIN tick
    BY <1>3, <1>a DEF Fetched
  <2> QED BY <1>3, <1>a, <2>1, QuietTickHolds DEF Fetched
<1>4. CASE CallRefused
  <2>1. ~Commanding /\ ~Sending' /\ DOMAIN tick' = DOMAIN tick
    BY <1>4, <1>a DEF CallRefused
  <2> QED BY <1>4, <1>a, <2>1, QuietTickHolds DEF CallRefused
<1>5. CASE OfferOrRest
  <2> DEFINE Rest == tick' = Resting /\ UNCHANGED ledger
  <2>1. Ticking("offer") /\ UNCHANGED <<hand, delivered>>
    BY <1>5 DEF OfferOrRest
  <2>2. Rest \/ \E n \in DOMAIN Workers, j \in Jobs : Dispatch(n, j)
    BY <1>5 DEF OfferOrRest
  <2>3. CASE Rest
    <3>1. ~Commanding /\ ~Sending' /\ DOMAIN tick' = DOMAIN tick
      BY <2>1, <2>3, <1>a
    <3> QED BY <1>a, <2>1, <2>3, <3>1, QuietTickHolds
  <2>4. ASSUME NEW n \in DOMAIN Workers, NEW j \in Jobs, Dispatch(n, j)
        PROVE  TransportInv'
    <3>1. j \in Jobs /\ Unsubmitted(j)
      BY <2>4 DEF Dispatch, TransportInv, RepeatableIsFresh
    <3>2. AppTypes' /\ tick'.job = j /\ tick'.pc = "send" /\ ~Commanding'
      BY <2>1, <2>4, <3>1, <1>a DEF Dispatch, TransportInv, AppTypes, Stages
    <3>3. Unsubmitted(j)'
      BY <2>1, <3>1 DEF Unsubmitted, Holds
    <3>4. RepeatableIsFresh'
      BY <2>1, <2>4, <3>1, <1>a
         DEF Dispatch, TransportInv, RepeatableIsFresh, Unsubmitted, Holds
    <3>5. TickIsFresh'
      BY <2>4, <3>1, <3>2, <3>3, <1>a DEF Dispatch, TickIsFresh
    <3>6. HandIsHonest'
      BY <2>1 DEF TransportInv, HandIsHonest, AwaitedIsTheTicks, Holds
    <3> QED BY <2>1, <3>2, <3>4, <3>5, <3>6 DEF TransportInv, DeliveredOnce
  <2> QED BY <2>2, <2>3, <2>4
<1>6. CASE AskAgain
  <2>1. ~Commanding /\ ~Sending' /\ DOMAIN tick' = DOMAIN tick
    BY <1>6, <1>a DEF AskAgain
  <2> QED BY <1>6, <1>a, <2>1, QuietTickHolds DEF AskAgain
<1>7. CASE Acknowledged
  <2>1. ~Commanding /\ ~Sending' /\ DOMAIN tick' = DOMAIN tick
    BY <1>7, <1>a DEF Acknowledged
  <2> QED BY <1>7, <1>a, <2>1, QuietTickHolds DEF Acknowledged
<1>8. CASE CallAborted
  <2>1. ~Commanding /\ ~Sending' /\ DOMAIN tick' = DOMAIN tick
    BY <1>8, <1>a DEF CallAborted
  <2> QED BY <1>8, <1>a, <2>1, QuietTickHolds DEF CallAborted
<1>9. CASE SendNavigate
  <2>1. /\ Sending /\ ~Commanding /\ UNCHANGED <<hand, delivered>>
    BY <1>9 DEF SendNavigate
  <2>2. \A w \in WorkerSet : Holds(w) => ~hand[w].awaited
    BY <2>1 DEF TransportInv, HandIsHonest, AwaitedIsTheTicks
  <2>3. CASE CommandFails("error")
    <3>1. /\ hand' \in [WorkerSet -> {NoCommand} \cup Commands]
          /\ \A w \in WorkerSet : Holds(w)' =>
               /\ Holds(w) /\ ~hand'[w].awaited
               /\ hand'[w].job = hand[w].job /\ hand'[w].act = hand[w].act
               /\ hand'[w].result = hand[w].result
      BY <2>1, <2>2 DEF TransportInv, AppTypes, Holds
    <3> QED BY <2>1, <2>3, <3>1, FailedCommandHolds
  <2>4. CASE tick' = [tick EXCEPT !.pc = "navigate"] /\ UNCHANGED ledger
    <3>1. /\ tick'.pc = "navigate" /\ tick'.job = tick.job
          /\ DOMAIN tick' = DOMAIN tick
      BY <1>a, <2>4
    <3>2. AppTypes'
      BY <1>a, <2>1, <2>4, <3>1 DEF TransportInv, AppTypes
    <3>3. RepeatableIsFresh'
      BY <2>1, <2>4 DEF TransportInv, RepeatableIsFresh, Unsubmitted, Holds
    <3>4. TickIsFresh'
      BY <1>9, <2>1, <2>4, <3>1
         DEF SendNavigate, TransportInv, TickIsFresh, Unsubmitted, Holds
    <3>5. HandIsHonest'
      BY <2>1, <2>2 DEF TransportInv, HandIsHonest, AwaitedIsTheTicks, Holds
    <3> QED BY <2>1, <3>2, <3>3, <3>4, <3>5 DEF TransportInv, DeliveredOnce
  <2> QED BY <1>9, <2>3, <2>4 DEF SendNavigate
<1> QED BY <1>1, <1>2, <1>3, <1>4, <1>5, <1>6, <1>7, <1>8, <1>9 DEF TickStep

-----------------------------------------------------------------------------
\* The steps of the commands, with the types they all need.
LEMMA WhatIsHeld ==
  ASSUME TransportInv, NEW w \in WorkerSet, Holds(w)
  PROVE  /\ hand[w] \in Commands /\ WorkerOf[hand[w].job[1]] = w
         /\ AwaitedIsTheTicks(w)
BY DEF TransportInv, AppTypes, HandIsHonest, Holds

\* Another worker's command is never the one that is waited for.
LEMMA OnlyTheTicksWorker ==
  ASSUME TransportInv, NEW w \in WorkerSet, Holds(w), hand[w].awaited
  PROVE  Commanding /\ w = WorkerOf[tick.job[1]]
BY WhatIsHeld DEF AwaitedIsTheTicks

LEMMA TimeoutHolds == TransportInv /\ CommandTimesOut => TransportInv'
<1> SUFFICES ASSUME TransportInv, CommandTimesOut PROVE TransportInv'
  OBVIOUS
<1> DEFINE w == WorkerOf[tick.job[1]]
           blocker == IF tick.taken THEN "error" ELSE "retry"
<1>1. /\ Commanding /\ CommandFails(blocker) /\ UNCHANGED delivered
      /\ hand' = IF hand[w] = NoCommand THEN hand
                 ELSE [hand EXCEPT ![w].awaited = FALSE]
  BY DEF CommandTimesOut
<1>2. hand \in [WorkerSet -> {NoCommand} \cup Commands]
  BY DEF TransportInv, AppTypes
<1>3. hand' \in [WorkerSet -> {NoCommand} \cup Commands]
  BY <1>1, <1>2 DEF Commands
<1>4. ASSUME NEW x \in WorkerSet, Holds(x)'
      PROVE  /\ Holds(x) /\ ~hand'[x].awaited
             /\ hand'[x].job = hand[x].job /\ hand'[x].act = hand[x].act
             /\ hand'[x].result = hand[x].result
  <2>1. CASE x = w /\ hand[w] # NoCommand
    BY <1>1, <1>2, <2>1 DEF Holds, Commands
  <2>2. CASE x # w \/ hand[w] = NoCommand
    <3>1. hand'[x] = hand[x] /\ Holds(x)
      BY <1>1, <1>2, <1>4, <2>2 DEF Holds
    <3>2. x # w
      BY <2>2, <3>1 DEF Holds
    <3> QED BY <3>1, <3>2, OnlyTheTicksWorker
  <2> QED BY <2>1, <2>2
<1>5. blocker \in {"retry", "error"}
  OBVIOUS
<1>6. Sending /\ (blocker = "retry" => Unsubmitted(tick.job))
  BY <1>1 DEF TransportInv, TickIsFresh, Sending
<1> HIDE DEF blocker
<1> QED BY <1>1, <1>3, <1>4, <1>5, <1>6, FailedCommandHolds

\* A result is posted, or lost: the hand is empty and the tick goes on.
LEMMA ResultHolds ==
  ASSUME TransportInv, NEW w \in WorkerSet, PostResult(w) \/ ResultIsLost(w)
  PROVE  TransportInv'
<1>1. /\ Holds(w) /\ hand[w].result # "none"
      /\ hand' = [hand EXCEPT ![w] = NoCommand] /\ UNCHANGED delivered
  BY DEF PostResult, ResultIsLost, Holds
<1>2. hand \in [WorkerSet -> {NoCommand} \cup Commands]
  BY DEF TransportInv, AppTypes
<1>3. hand' \in [WorkerSet -> {NoCommand} \cup Commands]
  BY <1>1, <1>2
<1>4. \A x \in WorkerSet : Holds(x)' => x # w /\ Holds(x) /\ hand'[x] = hand[x]
  BY <1>1, <1>2 DEF Holds
<1>5. CASE UNCHANGED <<tick, ledger>>
  <2>1. /\ AppTypes' /\ DeliveredOnce'
        /\ Commanding' = Commanding /\ Sending' = Sending
    BY <1>1, <1>3, <1>5
       DEF TransportInv, AppTypes, DeliveredOnce, Sending, Commanding, Ticking
  <2>2. \A j \in Jobs : Unsubmitted(j) => Unsubmitted(j)'
    BY <1>1, <1>4 DEF Unsubmitted
  <2>3. RepeatableIsFresh' /\ TickIsFresh'
    BY <1>5, <2>1, <2>2 DEF TransportInv, RepeatableIsFresh, TickIsFresh, Ticking
  <2>4. HandIsHonest'
    BY <1>1, <1>4, <1>5, <2>1
       DEF TransportInv, HandIsHonest, AwaitedIsTheTicks, Act, Ticking
  <2> QED BY <2>1, <2>3, <2>4 DEF TransportInv
<1>6. CASE hand[w].awaited /\ ~UNCHANGED <<tick, ledger>>
  <2>1. /\ Commanding /\ w = WorkerOf[tick.job[1]]
        /\ hand[w].job = tick.job /\ hand[w].act = Act
    BY <1>1, <1>6, OnlyTheTicksWorker, WhatIsHeld DEF AwaitedIsTheTicks
  <2>0. Sending
    BY <2>1 DEF Sending
  <2>2. \A x \in WorkerSet : Holds(x)' =>
            /\ Holds(x) /\ ~hand'[x].awaited
            /\ hand'[x].job = hand[x].job /\ hand'[x].act = hand[x].act
            /\ hand'[x].result = hand[x].result
    BY <1>4, <2>1, OnlyTheTicksWorker
  <2>3. CASE CommandSucceeds
    BY <1>1, <1>3, <2>1, <2>2, <2>3, SucceededCommandHolds
  <2>4. CASE CommandFails("error")
    BY <1>1, <1>3, <2>0, <2>2, <2>4, FailedCommandHolds
  <2>5. CASE CommandFails("retry") /\ hand[w].result = "retry"
    <3>1. tick.job \in Jobs
      BY <2>1, <2>0 DEF TransportInv, TickIsFresh
    <3>2. CASE Ticking("navigate")
      <4>1. Unsubmitted(tick.job)
        BY <2>0, <3>2 DEF TransportInv, TickIsFresh, Ticking
      <4> QED BY <1>1, <1>3, <2>0, <2>2, <2>5, <4>1, FailedCommandHolds
    <3>3. CASE ~Ticking("navigate")
      <4>1. hand[w].act = "DISPATCH" /\ delivered[tick.job] = 0
        BY <1>1, <2>1, <2>5, <3>3 DEF Act, Ticking, TransportInv, HandIsHonest
      <4>2. \A x \in WorkerSet : Holds(x) /\ hand[x].job = tick.job => x = w
        BY <2>1 DEF TransportInv, HandIsHonest
      <4>3. Unsubmitted(tick.job)
        BY <1>1, <4>1, <4>2 DEF Unsubmitted
      <4> QED BY <1>1, <1>3, <2>0, <2>2, <2>5, <4>3, FailedCommandHolds
    <3> QED BY <3>2, <3>3
  <2>6. hand[w].result \in {"ok", "retry", "error"}
    BY <1>1, WhatIsHeld DEF Commands
  <2> QED BY <1>6, <2>3, <2>4, <2>5, <2>6 DEF PostResult, ResultIsLost
<1> QED BY <1>5, <1>6 DEF PostResult, ResultIsLost

\* The bridge takes the command of a job that has not been submitted.
LEMMA TakeHolds ==
  ASSUME TransportInv, NEW w \in WorkerSet, TakeCommand(w)
  PROVE  TransportInv'
<1> DEFINE command == [act |-> Act, job |-> tick.job, awaited |-> TRUE,
                       result |-> "none"]
<1>1. /\ Commanding /\ ~tick.taken /\ w = WorkerOf[tick.job[1]] /\ ~Holds(w)
      /\ tick' = [tick EXCEPT !.taken = TRUE] /\ UNCHANGED <<ledger, delivered>>
      /\ hand' = [hand EXCEPT ![w] = command] \/ UNCHANGED hand
  BY DEF TakeCommand, Holds
<1>2. /\ DOMAIN tick = {"pc", "n", "call", "offers", "job", "terminal", "tries", "taken"}
      /\ hand \in [WorkerSet -> {NoCommand} \cup Commands]
      /\ ledger \in [Jobs -> Stages] /\ delivered \in [Jobs -> Nat]
  BY DEF TransportInv, AppTypes
<1>3. /\ tick.job \in Jobs /\ ledger[tick.job] \in {"dispatching", "blocked"}
      /\ Unsubmitted(tick.job)
  BY <1>1 DEF TransportInv, TickIsFresh, Sending
<1>4. /\ tick'.pc = tick.pc /\ tick'.job = tick.job /\ tick'.taken
      /\ DOMAIN tick' = DOMAIN tick
  BY <1>1, <1>2
<1>5. /\ Commanding' /\ Act' = Act /\ Act \in {"NAVIGATE", "DISPATCH"}
      /\ Ticking("navigate")' <=> Act = "NAVIGATE"
  BY <1>1, <1>4 DEF Commanding, Ticking, Act
<1>6. command \in Commands
  BY <1>3, <1>5 DEF Commands
<1>7. AppTypes'
  BY <1>1, <1>2, <1>4, <1>6 DEF AppTypes
<1>8. \A x \in WorkerSet : x # w => hand'[x] = hand[x]
  BY <1>1, <1>2
<1>9. \A x \in WorkerSet : Holds(x) /\ x # w => ~hand[x].awaited
  BY <1>1, OnlyTheTicksWorker
<1>10. hand'[w] = command \/ ~Holds(w)'
  BY <1>1, <1>2 DEF Holds
<1>11. HandIsHonest'
  <2> SUFFICES ASSUME NEW x \in WorkerSet, Holds(x)'
               PROVE  /\ WorkerOf[hand'[x].job[1]] = x
                      /\ AwaitedIsTheTicks(x)'
                      /\ hand'[x].act = "DISPATCH" /\ hand'[x].result \in {"none", "retry"} =>
                           delivered'[hand'[x].job] = 0
    BY DEF HandIsHonest
  <2>1. CASE x = w
    BY <2>1, <1>1, <1>3, <1>4, <1>5, <1>10 DEF AwaitedIsTheTicks, Unsubmitted
  <2>2. CASE x # w
    BY <2>2, <1>1, <1>8, <1>9 DEF TransportInv, HandIsHonest, AwaitedIsTheTicks, Holds
  <2> QED BY <2>1, <2>2
<1>12. \A j \in Jobs : Unsubmitted(j) /\ j # tick.job => Unsubmitted(j)'
  BY <1>1, <1>8, <1>10 DEF Unsubmitted, Holds
<1>13. RepeatableIsFresh'
  BY <1>1, <1>3, <1>12 DEF TransportInv, RepeatableIsFresh
<1>14. Act = "NAVIGATE" => Unsubmitted(tick.job)'
  <2> SUFFICES ASSUME Act = "NAVIGATE", NEW x \in WorkerSet, Holds(x)',
                      hand'[x].job = tick.job, hand'[x].act = "DISPATCH"
               PROVE  hand'[x].result # "none"
    BY <1>1, <1>3, <1>4 DEF Unsubmitted
  <2>1. x # w
    BY <1>10
  <2> QED BY <2>1, <1>3, <1>8 DEF Unsubmitted, Holds
<1>15. TickIsFresh'
  BY <1>1, <1>3, <1>4, <1>5, <1>14 DEF TickIsFresh, Sending, Commanding, Ticking, Act
<1> QED BY <1>1, <1>7, <1>11, <1>13, <1>15 DEF TransportInv, DeliveredOnce

\* The bridge carries a command out: what it submits is submitted for the
\* first time.
LEMMA ExecuteHolds ==
  ASSUME TransportInv, NEW w \in WorkerSet,
         Navigate(w) \/ Submit(w) \/ SubmitFails(w)
  PROVE  TransportInv'
<1> DEFINE j == hand[w].job
<1>1. PICK r \in {"ok", "retry", "error"} :
        /\ Holds(w) /\ hand[w].result = "none" /\ UNCHANGED <<tick, ledger>>
        /\ hand' = [hand EXCEPT ![w].result = r]
        /\ \/ UNCHANGED delivered
           \/ /\ hand[w].act = "DISPATCH" /\ r # "retry"
              /\ delivered' = [delivered EXCEPT ![j] = @ + 1]
  BY DEF Navigate, Submit, SubmitFails, Executing, Result, Holds
<1>2. /\ hand \in [WorkerSet -> {NoCommand} \cup Commands]
      /\ delivered \in [Jobs -> Nat] /\ hand[w] \in Commands
      /\ WorkerOf[j[1]] = w /\ AwaitedIsTheTicks(w)
  BY <1>1, WhatIsHeld DEF TransportInv, AppTypes
<1>3. j \in Jobs /\ hand[w].act = "DISPATCH" => delivered[j] = 0 /\ ~Unsubmitted(j)
  BY <1>1, <1>2 DEF TransportInv, HandIsHonest, Unsubmitted
<1>4. /\ hand'[w].result = r /\ hand'[w].job = j
      /\ hand'[w].act = hand[w].act /\ hand'[w].awaited = hand[w].awaited
      /\ hand' \in [WorkerSet -> {NoCommand} \cup Commands]
      /\ \A x \in WorkerSet : x # w => hand'[x] = hand[x]
  BY <1>1, <1>2 DEF Commands
<1>5. j \in Jobs
  BY <1>2 DEF Commands
<1>6. AppTypes' /\ DeliveredOnce'
  BY <1>1, <1>2, <1>3, <1>4 DEF TransportInv, AppTypes, DeliveredOnce
<1>7. \A i \in Jobs : Unsubmitted(i) => Unsubmitted(i)'
  <2> SUFFICES ASSUME NEW i \in Jobs, Unsubmitted(i) PROVE Unsubmitted(i)'
    OBVIOUS
  <2>1. delivered'[i] = 0
    BY <1>1, <1>2, <1>3 DEF Unsubmitted
  <2> QED BY <2>1, <1>1, <1>4 DEF Unsubmitted, Holds
<1>8. RepeatableIsFresh' /\ TickIsFresh'
  BY <1>1, <1>7
     DEF TransportInv, RepeatableIsFresh, TickIsFresh, Sending, Commanding, Ticking
<1>9. HandIsHonest'
  <2> SUFFICES ASSUME NEW x \in WorkerSet, Holds(x)'
               PROVE  /\ WorkerOf[hand'[x].job[1]] = x
                      /\ AwaitedIsTheTicks(x)'
                      /\ hand'[x].act = "DISPATCH" /\ hand'[x].result \in {"none", "retry"} =>
                           delivered'[hand'[x].job] = 0
    BY DEF HandIsHonest
  <2>1. CASE x = w
    BY <2>1, <1>1, <1>2, <1>3, <1>4, <1>5
       DEF AwaitedIsTheTicks, Commanding, Ticking, Act
  <2>2. CASE x # w
    <3>1. Holds(x) /\ hand'[x] = hand[x] /\ hand[x] \in Commands
      BY <2>2, <1>4, <1>2 DEF Holds
    <3>2. WorkerOf[hand[x].job[1]] = x /\ AwaitedIsTheTicks(x)'
      BY <3>1, <1>1, WhatIsHeld DEF AwaitedIsTheTicks, Commanding, Ticking, Act
    <3>3. delivered'[hand[x].job] = delivered[hand[x].job]
      <4>1. hand[x].job \in Jobs /\ hand[x].job # j
        BY <2>2, <3>1, <3>2, <1>2 DEF Commands
      <4> QED BY <4>1, <1>1, <1>2
    <3> QED BY <3>1, <3>2, <3>3 DEF TransportInv, HandIsHonest
  <2> QED BY <2>1, <2>2
<1> QED BY <1>6, <1>8, <1>9 DEF TransportInv

\* A restart waits for nothing any more; the bridge works on.
LEMMA RestartHolds == TransportInv /\ AppRestarts => TransportInv'
<1> SUFFICES ASSUME TransportInv, AppRestarts PROVE TransportInv'
  OBVIOUS
<1>1. /\ tick' = Resting /\ UNCHANGED <<ledger, delivered>>
      /\ hand' = [w \in WorkerSet |-> IF hand[w] = NoCommand THEN NoCommand
                                      ELSE [hand[w] EXCEPT !.awaited = FALSE]]
  BY DEF AppRestarts
<1>2. hand \in [WorkerSet -> {NoCommand} \cup Commands]
  BY DEF TransportInv, AppTypes
<1>3. AppTypes' /\ DeliveredOnce' /\ ~Sending'
  BY <1>1, <1>2
     DEF TransportInv, AppTypes, DeliveredOnce, Commands, Sending, Commanding,
         Ticking, Resting
<1>4. \A w \in WorkerSet : Holds(w)' =>
        /\ Holds(w) /\ ~hand'[w].awaited
        /\ hand'[w].job = hand[w].job /\ hand'[w].act = hand[w].act
        /\ hand'[w].result = hand[w].result
  BY <1>1, <1>2 DEF Holds, Commands
<1>5. RepeatableIsFresh' /\ TickIsFresh'
  BY <1>1, <1>3, <1>4 DEF TransportInv, RepeatableIsFresh, TickIsFresh, Unsubmitted
<1>6. HandIsHonest'
  BY <1>1, <1>4 DEF TransportInv, HandIsHonest, AwaitedIsTheTicks
<1> QED BY <1>3, <1>5, <1>6 DEF TransportInv

-----------------------------------------------------------------------------
\* Every step keeps the invariant of the delivery.
LEMMA TransportKept == TransportInv /\ [Next]_vars => TransportInv'
<1> SUFFICES ASSUME TransportInv, [Next]_vars PROVE TransportInv'
  OBVIOUS
<1>1. CASE Core
  BY <1>1, ElsewhereHolds DEF Core, appVars
<1>2. CASE TickStep \/ CallAborted
  BY <1>2, TickHolds
<1>3. CASE CommandTimesOut
  BY <1>3, TimeoutHolds
<1>4. CASE AppRestarts
  BY <1>4, RestartHolds
<1>5. ASSUME NEW w \in WorkerSet, SubmitFails(w) \/ Navigate(w) \/ Submit(w)
      PROVE  TransportInv'
  BY <1>5, ExecuteHolds
<1>6. ASSUME NEW w \in WorkerSet, ResultIsLost(w) \/ PostResult(w)
      PROVE  TransportInv'
  BY <1>6, ResultHolds
<1>7. ASSUME NEW w \in WorkerSet, TakeCommand(w) PROVE TransportInv'
  BY <1>7, TakeHolds
<1>8. ASSUME NEW w \in WorkerSet, AssistantAnswers(w) \/ Unblock(w)
      PROVE  TransportInv'
  BY <1>8, ElsewhereHolds DEF AssistantAnswers, Unblock
<1>10. ASSUME NEW w \in WorkerSet, Heartbeat(w) PROVE TransportInv'
  <2>1. ledger' = ledger \/ SecurityStop(w)
    BY <1>10 DEF Heartbeat
  <2>2. ledger \in [Jobs -> Stages]
    BY DEF TransportInv, AppTypes
  <2>3. /\ ledger' \in [Jobs -> Stages]
        /\ \A j \in Jobs : ledger'[j] \in {ledger[j], "blocked"}
    BY <2>1, <2>2 DEF SecurityStop, Stages
  <2> QED BY <1>10, <2>3, StopHolds DEF Heartbeat
<1>9. CASE UNCHANGED vars
  BY <1>9, ElsewhereHolds DEF vars, appVars
<1> QED BY <1>1, <1>2, <1>3, <1>4, <1>5, <1>6, <1>7, <1>8, <1>9, <1>10
           DEF Next, AppFault, BridgeStep

\* The prompt of a job is submitted at most once, whatever is offered again,
\* restarts, times out or is lost.
THEOREM PromptOnce == Spec => []DeliveredOnce
<1>1. TransportInv => DeliveredOnce
  BY DEF TransportInv
<1> QED BY <1>1, InitHolds, TransportKept, PTL DEF Spec

-----------------------------------------------------------------------------
(***************************************************************************)
(* What Core's rows and handlers are, and what of them lasts.              *)
(***************************************************************************)
GetPcs    == {"previous", "acknowledge", "worker", "settle", "settleObjective",
              "list", "select", "spec", "insert", "job", "reply"}
GetFields == {"pc", "heard", "prev", "n", "seen", "fresh", "missing", "listed",
              "target", "verdict", "free", "first"}
PostPcs    == {"lock", "evidence", "comment", "close", "commit"}
PostFields == {"pc", "heard", "job", "terminal", "open"}

\* A job that has been inserted, and one of a revision the issue has had.
Placed(j) == j \in Jobs /\ job[j] # "none"
Known(j)  == j \in Jobs /\ j[2] <= issue[j[1]].rev

\* A handler goes by jobs that were inserted and revisions that were read; it
\* settles what is no longer the issue's revision, and inserts no job twice.
GetFits(q) ==
  /\ DOMAIN q = GetFields /\ q.pc \in GetPcs
  /\ q.prev = None \/ Placed(q.prev)
  /\ \A j \in q.listed : Known(j)
  /\ \A j \in q.fresh : Placed(j)
  /\ q.pc \in {"previous", "acknowledge"} => Placed(q.prev)
  /\ q.pc \in {"settle", "settleObjective"} => Placed(q.target) /\ ~Unchanged(q.target)
  /\ q.pc = "settle" => q.verdict # "none"
  /\ q.pc = "insert" => Known(q.target)
  /\ q.pc = "job" => /\ q.target \in Jobs /\ job[q.target] = "none"
                     /\ objective[q.target] # "none"
PostFits(q) == DOMAIN q = PostFields /\ q.pc \in PostPcs /\ Placed(q.job)
DoneFits(q) ==
  /\ "pc" \in DOMAIN q /\ q.pc \in {"idle", "failed", "answered"}
  /\ q.pc = "answered" => \A j \in q.offers : Placed(j)
CallFits(q) == GetFits(q) \/ PostFits(q) \/ DoneFits(q)

IssueTypes ==
  /\ DOMAIN issue = Issues
  /\ \A i \in Issues : /\ DOMAIN issue[i] = {"state", "rev", "comments", "full"}
                       /\ issue[i].rev \in 1 .. MaxRevision
                       /\ issue[i].full \in BOOLEAN

CoreTypes ==
  /\ DOMAIN call = Calls /\ DOMAIN job = Jobs /\ DOMAIN objective = Jobs
  /\ events \in [EventKinds -> Nat]
  /\ rows \in Seq(Jobs) /\ \A n \in DOMAIN rows : Placed(rows[n])
  /\ IssueTypes

\* The row of a job and of its objective: an active objective whose job is no
\* longer live belongs to an issue that has changed.
RowFits(j) ==
  /\ job[j] # "none" => objective[j] # "none"
  /\ objective[j] # "none" => j[2] <= issue[j[1]].rev
  /\ objective[j] = "active" => Live(j) \/ Handled(j) \/ j \in cut
  /\ objective[j] = "active" /\ job[j] # "none" /\ ~Live(j) => ~Unchanged(j)

\* Two handlers are never about to insert the same job.
OneInserts ==
  \A c, d \in Calls : /\ c # d /\ call[c].pc = "job" /\ call[d].pc = "job"
                     => call[c].target # call[d].target

AssignInv ==
  /\ CoreTypes /\ OneInserts
  /\ \A c \in Calls : CallFits(call[c])
  /\ \A j \in Jobs : RowFits(j)

\* What may be current although its outcome has been taken.
Excused(j) ==
  Current(j) => ~Unchanged(j) /\ (Handled(j) \/ j \in cut)

\* What the tick goes by, and the handler it waits for with a report.
ReportFits(q) ==
  \/ q.pc \in PostPcs /\ q.job = tick.job
  \/ q.pc \in {"failed", "idle"}
  \/ q.pc = "answered" /\ Excused(tick.job)
TickFits ==
  /\ tick.call \in Calls \cup {0}
  /\ tick.pc \in {"reporting", "fetching", "acknowledging"} => tick.call \in Calls
  /\ \A j \in tick.offers : Placed(j)
  /\ tick.pc \in {"send", "navigate", "deliver", "delivered", "reporting"} => Placed(tick.job)
  /\ tick.pc = "reporting" => ReportFits(call[tick.call])
LedgerFits ==
  \A j \in Jobs : /\ ledger[j] # "none" => Placed(j)
                  /\ ledger[j] \in {"done", "blocked"} => Excused(j) \/ j \in stopped

ReportInv == AssignInv /\ TickFits /\ LedgerFits

-----------------------------------------------------------------------------
(***************************************************************************)
(* Lemmas about the operators.                                             *)
(***************************************************************************)
LessThan == OpToRel(<, Nat)

\* A set of numbers that is not empty has a least one.
LEMMA LeastIsIn ==
  ASSUME NEW S \in SUBSET Nat, S # {}
  PROVE  Least(S) \in S /\ \A m \in S : Least(S) <= m
<1>1. IsWellFoundedOn(LessThan, Nat)
  BY NatLessThanWellFounded, Zenon DEF LessThan
<1>2. PICK n \in S : \A m \in S : <<m, n>> \notin LessThan
  BY <1>1, WFMin
<1>3. \A x, y \in Nat : x < y => <<x, y>> \in LessThan
  BY Zenon DEF LessThan, OpToRel
<1>4. ASSUME NEW m \in S PROVE n <= m
  <2>1. m \in Nat /\ n \in Nat
    OBVIOUS
  <2>2. ~(m < n)
    BY <1>2, <1>3, <2>1, Zenon
  <2> QED BY <2>1, <2>2
<1> QED BY <1>4 DEF Least

\* The first in line of a set of jobs is one of them.
LEMMA ForemostIsIn ==
  ASSUME NEW js \in SUBSET Jobs, js # {}
  PROVE  Foremost(js) \in js
<1> DEFINE S == {j[1] : j \in js}
<1>1. S \in SUBSET Nat /\ S # {}
  BY UiConstants DEF Jobs
<1>2. Least(S) \in S /\ \A m \in S : Least(S) <= m
  <2> HIDE DEF S
  <2> QED BY <1>1, LeastIsIn
<1>3. PICK j \in js : j[1] = Least(S)
  BY <1>2
<1>4. \A k \in js : j[1] <= k[1]
  BY <1>2, <1>3
<1> QED BY <1>4 DEF Foremost

\* The oldest job a worker holds is one it holds.
LEMMA OldestIsHeld ==
  ASSUME rows \in Seq(Jobs), NEW w, Held(w) # {}
  PROVE  /\ Oldest(w) \in Jobs /\ Current(Oldest(w))
         /\ \E n \in DOMAIN rows : Oldest(w) = rows[n]
<1>1. Held(w) \in SUBSET Nat
  BY DEF Held
<1>2. Least(Held(w)) \in Held(w)
  BY <1>1, LeastIsIn
<1>3. Oldest(w) = rows[Least(Held(w))]
  BY DEF Oldest
<1>4. Least(Held(w)) \in DOMAIN rows /\ Current(rows[Least(Held(w))])
  BY <1>2 DEF Held
<1> QED BY <1>3, <1>4

\* An event of one kind leaves the others alone.
LEMMA EventCounts ==
  ASSUME events \in [EventKinds -> Nat], NEW kind \in EventKinds, Event(kind)
  PROVE  /\ events' \in [EventKinds -> Nat] /\ events'[kind] = events[kind] + 1
         /\ \A k \in EventKinds \ {kind} : events'[k] = events[k]
BY DEF Event

\* The next worker, the list or the reply: what was found stays.
LEMMA NextWorkerFits ==
  ASSUME NEW g, DOMAIN g = GetFields, g.prev = None \/ Placed(g.prev),
         \A j \in g.listed : Known(j), \A j \in g.fresh : Placed(j)
  PROVE  /\ GetFits(NextWorker(g)) /\ NextWorker(g).pc \in {"worker", "reply", "list"}
         /\ NextWorker(g).heard = g.heard
<1> DEFINE h == NextWorker(g)
<1>1. /\ DOMAIN h = GetFields /\ h.prev = g.prev /\ h.listed = g.listed
      /\ h.fresh = g.fresh /\ h.pc \in {"worker", "reply", "list"} /\ h.heard = g.heard
  BY DEF NextWorker, GetFields
<1> HIDE DEF h
<1>2. GetFits(h)
  BY <1>1 DEF GetFits, GetPcs
<1> QED BY <1>1, <1>2 DEF h
-----------------------------------------------------------------------------
(***************************************************************************)
(* What a step leaves standing.                                            *)
(***************************************************************************)
\* An issue gets newer revisions and is not opened again.
Ages == \A j \in Jobs : Known(j) => Known(j)' /\ (~Unchanged(j) => ~Unchanged(j)')

LEMMA SameIssueAges ==
  ASSUME IssueTypes, UNCHANGED issue
  PROVE  Ages /\ IssueTypes'
BY DEF Ages, Known, Unchanged, IssueTypes

LEMMA CommentedIssueAges ==
  ASSUME IssueTypes, NEW g, issue' = WithComment(g)
  PROVE  Ages /\ IssueTypes'
<1>1. \A i \in Issues : /\ DOMAIN issue'[i] = DOMAIN issue[i]
                        /\ issue'[i].rev = issue[i].rev /\ issue'[i].state = issue[i].state
                        /\ issue'[i].full = issue[i].full
  BY DEF WithComment, IssueTypes
<1>2. DOMAIN issue' = DOMAIN issue
  BY DEF WithComment
<1> QED BY <1>1, <1>2 DEF Ages, Known, Unchanged, IssueTypes, Jobs

LEMMA ClosedIssueAges ==
  ASSUME IssueTypes, NEW g, issue' = WithClosed(g)
  PROVE  Ages /\ IssueTypes'
<1>1. \A i \in Issues : /\ DOMAIN issue'[i] = DOMAIN issue[i]
                        /\ issue'[i].rev = issue[i].rev
                        /\ issue'[i].state \in {issue[i].state, "closed"}
                        /\ issue'[i].full = issue[i].full
  BY DEF WithClosed, IssueTypes
<1>2. DOMAIN issue' = DOMAIN issue
  BY DEF WithClosed
<1> QED BY <1>1, <1>2 DEF Ages, Known, Unchanged, IssueTypes, Jobs

LEMMA ChangedIssueAges ==
  ASSUME IssueTypes, NEW i \in Issues, IssueChanges(i)
  PROVE  Ages /\ IssueTypes'
<1>1. issue[i].state = "open"
  BY DEF IssueChanges
<1>2. /\ DOMAIN issue' = Issues
      /\ \A k \in Issues \ {i} : issue'[k] = issue[k]
      /\ DOMAIN issue'[i] = {"state", "rev", "comments", "full"}
      /\ issue'[i].full = issue[i].full
  BY DEF IssueChanges, IssueTypes
<1>3. \/ issue'[i].rev = issue[i].rev + 1 /\ issue[i].rev < MaxRevision
      \/ issue'[i].rev = issue[i].rev /\ issue'[i].state # "open"
  BY DEF IssueChanges, IssueTypes
<1>4. issue[i].rev \in 1 .. MaxRevision /\ MaxRevision \in Nat
  BY UiConstants DEF IssueTypes
<1>5. IssueTypes'
  BY <1>2, <1>3, <1>4 DEF IssueTypes
<1>6. ASSUME NEW j \in Jobs, Known(j)
      PROVE  Known(j)' /\ (~Unchanged(j) => ~Unchanged(j)')
  <2>1. j[1] \in Issues /\ j[2] \in Nat
    BY UiConstants DEF Jobs
  <2>2. CASE j[1] = i
    <3>1. j[2] <= issue[i].rev
      BY <1>6, <2>2 DEF Known
    <3>2. Known(j)'
      BY <1>3, <1>4, <2>1, <2>2, <3>1 DEF Known
    <3>3. ~Unchanged(j) => ~Unchanged(j)'
      BY <1>1, <1>3, <1>4, <2>1, <2>2, <3>1 DEF Unchanged
    <3> QED BY <3>2, <3>3
  <2>3. CASE j[1] # i
    BY <1>2, <1>6, <2>1, <2>3 DEF Known, Unchanged
  <2> QED BY <2>2, <2>3
<1> QED BY <1>5, <1>6 DEF Ages

LEMMA FilledIssueAges ==
  ASSUME IssueTypes, NEW i \in Issues, FirstPageFills(i)
  PROVE  Ages /\ IssueTypes'
<1>1. \A k \in Issues : /\ DOMAIN issue'[k] = DOMAIN issue[k]
                        /\ issue'[k].rev = issue[k].rev /\ issue'[k].state = issue[k].state
                        /\ issue'[k].full \in BOOLEAN
  BY DEF FirstPageFills, IssueTypes
<1>2. DOMAIN issue' = DOMAIN issue
  BY DEF FirstPageFills
<1> QED BY <1>1, <1>2 DEF Ages, Known, Unchanged, IssueTypes, Jobs

\* What fits a handler fits it after a step that keeps the rows.
LEMMA CallFitsKept ==
  ASSUME NEW q, CallFits(q), Ages,
         \A j \in Jobs : Placed(j) => Placed(j)' /\ Known(j),
         GetFits(q) /\ q.pc = "job" =>
            job'[q.target] = "none" /\ objective'[q.target] # "none"
  PROVE  CallFits(q)'
<1>1. ASSUME GetFits(q) PROVE GetFits(q)'
  <2>1. /\ q.prev = None \/ Placed(q.prev)'
        /\ \A j \in q.listed : Known(j)'
        /\ \A j \in q.fresh : Placed(j)'
    BY <1>1 DEF GetFits, Ages, Placed, Known
  <2>2. /\ q.pc \in {"previous", "acknowledge"} => Placed(q.prev)'
        /\ q.pc = "insert" => Known(q.target)'
    BY <1>1 DEF GetFits, Ages, Placed, Known
  <2>3. q.pc \in {"settle", "settleObjective"} =>
          Placed(q.target)' /\ ~Unchanged(q.target)'
    BY <1>1 DEF GetFits, Ages, Placed
  <2>4. q.pc = "job" => /\ q.target \in Jobs /\ job'[q.target] = "none"
                        /\ objective'[q.target] # "none"
    BY <1>1 DEF GetFits
  <2> QED BY <1>1, <2>1, <2>2, <2>3, <2>4 DEF GetFits
<1>2. PostFits(q) => PostFits(q)'
  BY DEF PostFits, Placed
<1>3. DoneFits(q) => DoneFits(q)'
  BY DEF DoneFits, Placed
<1> QED BY <1>1, <1>2, <1>3 DEF CallFits

\* Events are counted, and a handler once cut off stays so.
CoreCount == events' \in [EventKinds -> Nat] /\ cut \subseteq cut'

\* A step of one handler that changes no row; it leaves the place between two
\* statements by being cut off only.
CallStep(c, q) ==
  /\ Goto(c, q) /\ UNCHANGED <<objective, job, rows>>
  /\ Ages /\ IssueTypes' /\ CoreCount
  /\ Halfway(c) => \/ q.pc = call[c].pc /\ q.target = call[c].target
                   \/ call[c].target \in cut'
  /\ q.pc = "job" => call[c].pc = "job" /\ q.target = call[c].target

LEMMA PlacedIsKnown ==
  ASSUME AssignInv, NEW j \in Jobs, Placed(j)
  PROVE  Known(j)
BY DEF AssignInv, RowFits, Placed, Known

LEMMA CallStepKeeps ==
  ASSUME AssignInv, NEW c \in Calls, NEW q, CallStep(c, q), CallFits(q)'
  PROVE  AssignInv' /\ \A j \in Jobs : Excused(j) => Excused(j)'
<1>1. /\ DOMAIN call' = Calls /\ call'[c] = q
      /\ \A d \in Calls \ {c} : call'[d] = call[d]
  BY DEF AssignInv, CoreTypes, CallStep, Goto
<1>2. \A j \in Jobs : Placed(j) => Placed(j)' /\ Known(j)
  BY PlacedIsKnown DEF CallStep, Placed
<1>3. CoreTypes'
  BY <1>1, <1>2 DEF AssignInv, CoreTypes, CallStep, CoreCount, Placed
<1>4. ASSUME NEW d \in Calls PROVE CallFits(call[d])'
  <2>1. CASE d = c
    BY <1>1, <2>1
  <2>2. CASE d # c
    <3>1. PICK p : p = call[d]
      OBVIOUS
    <3>2. CallFits(p) /\ p = call'[d]
      BY <1>1, <2>2, <3>1 DEF AssignInv
    <3>3. GetFits(p) /\ p.pc = "job" =>
            job'[p.target] = "none" /\ objective'[p.target] # "none"
      BY DEF GetFits, CallStep
    <3>4. CallFits(p)'
      BY <1>2, <3>2, <3>3, CallFitsKept DEF CallStep
    <3> QED BY <3>2, <3>4
  <2> QED BY <2>1, <2>2
<1>5. OneInserts'
  BY <1>1 DEF AssignInv, OneInserts, CallStep
<1>6. \A j \in Jobs : Handled(j) \/ j \in cut => Handled(j)' \/ j \in cut'
  BY <1>1 DEF Handled, Halfway, CallStep, CoreCount
<1>7. \A j \in Jobs : RowFits(j)'
  BY <1>6 DEF AssignInv, RowFits, CallStep, Ages, Known, Live
<1>8. ASSUME NEW j \in Jobs, Excused(j) PROVE Excused(j)'
  <2>1. Current(j)' => Current(j) /\ Known(j)
    BY DEF CallStep, Current, Live, AssignInv, RowFits, Known
  <2> QED BY <1>6, <1>8, <2>1 DEF Excused, CallStep, Ages
<1> QED BY <1>3, <1>4, <1>5, <1>7, <1>8 DEF AssignInv

\* What App Chrome may count on of a step of Core: what was inserted stays,
\* what is excused stays so, and a report is answered for a settled job only.
Follows(c) ==
  \/ call'[c] = call[c]
  \/ call[c].pc \in GetPcs /\ call'[c].pc \notin PostPcs
  \/ call'[c].pc \in {"failed", "idle"}
  \/ /\ call[c].pc \in PostPcs /\ call'[c].pc \in PostPcs
     /\ call'[c].job = call[c].job
  \/ /\ call[c].pc \in PostPcs /\ call'[c].pc = "answered"
     /\ \A j \in Jobs : j = call[c].job => ~Current(j)'
CoreKeeps ==
  /\ AssignInv'
  /\ \A j \in Jobs : Placed(j) => Placed(j)' /\ (Excused(j) => Excused(j)')
  /\ \A c \in Calls : Follows(c)

LEMMA EventsKeepCoreCount ==
  ASSUME AssignInv, UNCHANGED events \/ \E k \in EventKinds : Event(k),
         CoreKept \/ cut \subseteq cut'
  PROVE  CoreCount
<1>1. events \in [EventKinds -> Nat] /\ cut \subseteq cut'
  BY DEF AssignInv, CoreTypes, CoreKept
<1>2. ASSUME NEW k \in EventKinds, Event(k) PROVE CoreCount
  BY <1>1, <1>2, EventCounts DEF CoreCount
<1> QED BY <1>1, <1>2 DEF CoreCount

\* A handler that only reads goes on to what fits the rows as they are.
LEMMA ReadKeeps ==
  ASSUME AssignInv, NEW c \in Calls, NEW q, Goto(c, q), CoreCount,
         GetFits(q) \/ DoneFits(q),
         UNCHANGED <<issue, objective, job, rows>>,
         call[c].pc \in GetPcs, Halfway(c) => call[c].target \in cut', q.pc # "job"
  PROVE  CoreKeeps
<1>1. IssueTypes
  BY DEF AssignInv, CoreTypes
<1>2. Ages /\ IssueTypes'
  BY <1>1, SameIssueAges
<1>3. CallStep(c, q)
  BY <1>2 DEF CallStep, CoreCount
<1>4. \A j \in Jobs : Placed(j) => Placed(j)' /\ Known(j)
  BY PlacedIsKnown DEF Placed
<1>5. CallFits(q)'
  BY <1>2, <1>4, CallFitsKept DEF CallFits
<1>6. \A d \in Calls : Follows(d)
  BY DEF Follows, Goto, AssignInv, CoreTypes, GetFits, DoneFits, GetPcs, PostPcs
<1> QED BY <1>3, <1>4, <1>5, <1>6, CallStepKeeps DEF CoreKeeps

\* The handler of a GET, where it is.
LEMMA AtGet ==
  ASSUME AssignInv, NEW c \in Calls, NEW pc \in GetPcs, At(c, pc)
  PROVE  GetFits(call[c])
BY DEF AssignInv, At, CallFits, PostFits, DoneFits, GetPcs, PostPcs

\* Found current, or to be settled because its issue has changed.
LEMMA ReconcileKeeps ==
  ASSUME AssignInv, NEW c \in Calls, NEW j, Placed(j), NEW g1,
         Reconcile(c, j, g1), GetFits(g1), g1.pc # "job", CoreCount,
         UNCHANGED <<issue, objective, job, rows>>,
         GetFits(call[c]), ~Halfway(c)
  PROVE  CoreKeeps
<1>1. CASE Unchanged(j)
  <2>1. Goto(c, g1) /\ call[c].pc \in GetPcs
    BY <1>1 DEF Reconcile, GetFits
  <2> QED BY <2>1, ReadKeeps DEF CallFits
<1>2. CASE ~Unchanged(j)
  <2> DEFINE q == [call[c] EXCEPT !.pc = "settle", !.target = j, !.verdict = Settled(j)]
  <2>1. Goto(c, q) /\ call[c].pc \in GetPcs
    BY <1>2 DEF Reconcile, GetFits
  <2>2. /\ DOMAIN q = GetFields /\ q.pc = "settle" /\ q.target = j
        /\ q.verdict = Settled(j) /\ q.prev = call[c].prev /\ q.fresh = call[c].fresh
        /\ q.listed = call[c].listed
    BY DEF GetFits, GetFields
  <2> HIDE DEF q
  <2>3. GetFits(q)
    BY <1>2, <2>2 DEF GetFits, GetPcs, Settled
  <2> QED BY <2>1, <2>2, <2>3, ReadKeeps DEF CallFits
<1> QED BY <1>1, <1>2

LEMMA ReadPreviousKeeps ==
  ASSUME AssignInv, NEW c \in Calls, ReadPrevious(c)
  PROVE  CoreKeeps
<1> DEFINE g == call[c]
           g1 == IF job[g.prev] = "assigned" THEN [g EXCEPT !.pc = "acknowledge"]
                 ELSE NextWorker(g)
<1>1. GetFits(g) /\ g.pc = "previous" /\ CoreCount
  BY AtGet, EventsKeepCoreCount DEF ReadPrevious, At, GetPcs
<1>2. Placed(g.prev)
  BY <1>1 DEF GetFits
<1>3. GetFits(g1) /\ g1.pc # "job"
  <2>1. CASE job[g.prev] = "assigned"
    <3>1. g1 = [g EXCEPT !.pc = "acknowledge"]
      BY <2>1
    <3>2. /\ DOMAIN g1 = GetFields /\ g1.pc = "acknowledge" /\ g1.prev = g.prev
          /\ g1.fresh = g.fresh /\ g1.listed = g.listed
      BY <1>1, <3>1 DEF GetFits, GetFields
    <3> HIDE DEF g1
    <3> QED BY <1>1, <1>2, <3>2 DEF GetFits, GetPcs
  <2>2. CASE job[g.prev] # "assigned"
    <3>1. g1 = NextWorker(g)
      BY <2>2
    <3> QED BY <1>1, <3>1, NextWorkerFits DEF GetFits
  <2> QED BY <2>1, <2>2
<1>4. Reconcile(c, g.prev, g1) /\ UNCHANGED <<issue, objective, job, rows>>
  BY DEF ReadPrevious
<1> HIDE DEF g1
<1> QED BY <1>1, <1>2, <1>3, <1>4, ReconcileKeeps DEF Halfway

LEMMA ReadWorkerKeeps ==
  ASSUME AssignInv, NEW c \in Calls, ReadWorker(c)
  PROVE  CoreKeeps
<1> DEFINE g == call[c]
           w == Workers[g.n]
           j == Oldest(w)
           h0 == [g EXCEPT !.missing = Append(@, w)]
           h1 == [g EXCEPT !.seen = @ \cup {j},
                           !.fresh = IF job[j] = "assigned" THEN @ \cup {j} ELSE @]
<1>1. GetFits(g) /\ g.pc = "worker" /\ CoreCount
  BY AtGet, EventsKeepCoreCount DEF ReadWorker, At, GetPcs
<1>2. UNCHANGED <<issue, objective, job, rows>>
  BY DEF ReadWorker
<1>3. CASE Held(w) = {}
  <2>1. /\ DOMAIN h0 = GetFields /\ h0.prev = g.prev /\ h0.listed = g.listed
        /\ h0.fresh = g.fresh
    BY <1>1 DEF GetFits, GetFields
  <2>2. Goto(c, NextWorker(h0))
    BY <1>3 DEF ReadWorker
  <2> HIDE DEF h0
  <2>3. GetFits(NextWorker(h0)) /\ NextWorker(h0).pc # "job"
    BY <1>1, <2>1, NextWorkerFits DEF GetFits
  <2> QED BY <1>1, <1>2, <2>2, <2>3, ReadKeeps DEF CallFits, GetPcs, Halfway
<1>4. CASE Held(w) # {}
  <2>1. Placed(j)
    BY <1>4, OldestIsHeld DEF AssignInv, CoreTypes, Placed
  <2>2. Reconcile(c, j, NextWorker(h1))
    BY <1>4 DEF ReadWorker
  <2>3. /\ DOMAIN h1 = GetFields /\ h1.prev = g.prev /\ h1.listed = g.listed
        /\ \A k \in h1.fresh : k \in g.fresh \/ k = j
    BY <1>1 DEF GetFits, GetFields
  <2> HIDE DEF h1, j
  <2>4. GetFits(NextWorker(h1)) /\ NextWorker(h1).pc # "job"
    BY <1>1, <2>1, <2>3, NextWorkerFits DEF GetFits
  <2> QED BY <1>1, <1>2, <2>1, <2>2, <2>4, ReconcileKeeps DEF Halfway
<1> QED BY <1>3, <1>4

LEMMA ListKeeps ==
  ASSUME AssignInv, NEW c \in Calls, ListIssues(c) \/ ListFails(c)
  PROVE  CoreKeeps
<1> DEFINE g == call[c]
           L == {<<i, issue[i].rev>> : i \in {i \in Issues : issue[i].state = "open"}}
           q == [g EXCEPT !.pc = "select", !.listed = L]
           r == [g EXCEPT !.pc = "reply"]
<1>1. GetFits(g) /\ g.pc = "list" /\ CoreCount
  BY AtGet, EventsKeepCoreCount DEF ListIssues, ListFails, At, GetPcs, EventKinds
<1>2. UNCHANGED <<issue, objective, job, rows>>
  BY DEF ListIssues, ListFails
<1>3. ASSUME NEW j \in L PROVE Known(j)
  <2>1. PICK i \in Issues : j = <<i, issue[i].rev>>
    OBVIOUS
  <2>2. issue[i].rev \in 1 .. MaxRevision
    BY DEF AssignInv, CoreTypes, IssueTypes
  <2>3. issue[j[1]].rev \in Nat /\ j[2] = issue[j[1]].rev /\ j \in Jobs
    BY <2>1, <2>2, UiConstants DEF Jobs
  <2> QED BY <2>3 DEF Known
<1>4. GetFits(q) /\ GetFits(r) /\ q.pc # "job" /\ r.pc # "job"
  <2> HIDE DEF L
  <2>1. /\ DOMAIN q = GetFields /\ q.pc = "select" /\ q.prev = g.prev /\ q.fresh = g.fresh
        /\ q.listed = L
    BY <1>1 DEF GetFits, GetFields
  <2>2. /\ DOMAIN r = GetFields /\ r.pc = "reply" /\ r.prev = g.prev /\ r.fresh = g.fresh
        /\ r.listed = g.listed
    BY <1>1 DEF GetFits, GetFields
  <2> HIDE DEF q, r
  <2> QED BY <1>1, <1>3, <2>1, <2>2 DEF GetFits, GetPcs
<1>5. DoneFits(Idle) /\ DoneFits(Refusal)
  BY DEF DoneFits, Idle, Refusal
<1>6. \E p \in {q, r, Idle, Refusal} : Goto(c, p)
  BY DEF ListIssues, ListFails, Answer
<1>7. Idle.pc # "job" /\ Refusal.pc # "job"
  BY DEF Idle, Refusal
<1> HIDE DEF q, r
<1> QED BY <1>1, <1>2, <1>4, <1>5, <1>6, <1>7, ReadKeeps DEF CallFits, GetPcs, Halfway

LEMMA SelectKeeps ==
  ASSUME AssignInv, NEW c \in Calls, SelectWorker(c)
  PROVE  CoreKeeps
<1> DEFINE g == call[c]
           q1 == [g EXCEPT !.pc = "reply"]
           q2 == [g EXCEPT !.missing = Tail(@)]
           q3 == [g EXCEPT !.pc = "spec"]
<1>1. GetFits(g) /\ g.pc = "select" /\ CoreCount
  BY AtGet, EventsKeepCoreCount DEF SelectWorker, At, GetPcs
<1>2. UNCHANGED <<issue, objective, job, rows>>
  BY DEF SelectWorker
<1>3. ASSUME NEW q \in {q1, q2, q3} PROVE GetFits(q) /\ q.pc # "job"
  <2>1. /\ DOMAIN q = GetFields /\ q.pc \in {"select", "reply", "spec"} /\ q.prev = g.prev
        /\ q.fresh = g.fresh /\ q.listed = g.listed
    BY <1>1 DEF GetFits, GetFields
  <2> QED BY <1>1, <2>1 DEF GetFits, GetPcs
<1>4. \E q \in {q1, q2, q3} : Goto(c, q)
  BY DEF SelectWorker
<1> HIDE DEF q1, q2, q3
<1> QED BY <1>1, <1>2, <1>3, <1>4, ReadKeeps DEF CallFits, GetPcs, Halfway

LEMMA SpecKeeps ==
  ASSUME AssignInv, NEW c \in Calls, TrySpec(c) \/ ContextFails(c)
  PROVE  CoreKeeps
<1> DEFINE g  == call[c]
           js == Candidates(g)
           j  == Foremost(js)
           q1 == [g EXCEPT !.pc = "select", !.missing = Tail(@)]
           q2 == [g EXCEPT !.pc = "insert", !.target = j, !.free = ~ScopeTaken(j),
                           !.first = plain[j[1]] = None]
           q3 == [g EXCEPT !.listed = @ \ {j}]
<1>1. GetFits(g) /\ g.pc = "spec" /\ CoreCount
  BY AtGet, EventsKeepCoreCount DEF TrySpec, ContextFails, At, GetPcs, EventKinds
<1>2. UNCHANGED <<issue, objective, job, rows>>
  BY DEF TrySpec, ContextFails
<1>3. js # {} => Known(j)
  <2>1. js \in SUBSET Jobs /\ \A k \in js : Known(k)
    BY <1>1 DEF Candidates, GetFits, Known
  <2> QED BY <2>1, ForemostIsIn
<1>4. \/ Goto(c, q1)
      \/ js # {} /\ Goto(c, q2)
      \/ Goto(c, q3)
  BY DEF TrySpec, ContextFails
<1> HIDE DEF j, js
<1>5. GetFits(q1) /\ q1.pc # "job"
  <2>1. /\ DOMAIN q1 = GetFields /\ q1.pc = "select" /\ q1.prev = g.prev
        /\ q1.fresh = g.fresh /\ q1.listed = g.listed
    BY <1>1 DEF GetFits, GetFields
  <2> QED BY <1>1, <2>1 DEF GetFits, GetPcs
<1>6. js # {} => GetFits(q2) /\ q2.pc # "job"
  <2>1. /\ DOMAIN q2 = GetFields /\ q2.pc = "insert" /\ q2.prev = g.prev
        /\ q2.fresh = g.fresh /\ q2.listed = g.listed /\ q2.target = j
    BY <1>1 DEF GetFits, GetFields
  <2> HIDE DEF q2
  <2> QED BY <1>1, <1>3, <2>1 DEF GetFits, GetPcs
<1>7. GetFits(q3) /\ q3.pc # "job"
  <2>1. /\ DOMAIN q3 = GetFields /\ q3.pc = "spec" /\ q3.prev = g.prev
        /\ q3.fresh = g.fresh /\ \A k \in q3.listed : k \in g.listed
    BY <1>1 DEF GetFits, GetFields
  <2> QED BY <1>1, <2>1 DEF GetFits, GetPcs
<1> HIDE DEF q1, q2, q3
<1> QED BY <1>1, <1>2, <1>4, <1>5, <1>6, <1>7, ReadKeeps DEF CallFits, GetPcs, Halfway

\* The reply offers what the handler has found or inserted.
LEMMA ReplyKeeps ==
  ASSUME AssignInv, NEW c \in Calls, Reply(c)
  PROVE  CoreKeeps
<1> DEFINE g == call[c]
           q == [pc |-> "answered", heard |-> TRUE, offers |-> g.fresh \ {g.prev}]
<1>1. GetFits(g) /\ g.pc = "reply" /\ CoreCount
  BY AtGet, EventsKeepCoreCount DEF Reply, At, GetPcs
<1>2. UNCHANGED <<issue, objective, job, rows>>
  BY DEF Reply
<1>3. DoneFits(q) /\ DoneFits(Idle) /\ q.pc # "job" /\ Idle.pc # "job"
  BY <1>1 DEF DoneFits, Idle, GetFits
<1>4. Goto(c, q) \/ Goto(c, Idle)
  BY DEF Reply, Answer
<1> HIDE DEF q
<1> QED BY <1>1, <1>2, <1>3, <1>4, ReadKeeps DEF CallFits, GetPcs, Halfway

-----------------------------------------------------------------------------
(***************************************************************************)
(* The handlers of a report.                                               *)
(***************************************************************************)
LEMMA AtPost ==
  ASSUME AssignInv, NEW c \in Calls, NEW pc \in PostPcs, At(c, pc)
  PROVE  PostFits(call[c])
BY DEF AssignInv, At, CallFits, GetFits, DoneFits, GetPcs, PostPcs

\* What a handler of a report goes on to: another stage of it, or an answer.
PostGoesOn(q, g) ==
  \/ DOMAIN q = PostFields /\ q.pc \in PostPcs /\ q.job = g.job
  \/ "pc" \in DOMAIN q /\ q.pc \in {"failed", "idle"}

LEMMA PostKeeps ==
  ASSUME AssignInv, NEW c \in Calls, NEW q, Goto(c, q), PostFits(call[c]),
         \/ PostGoesOn(q, call[c])
         \/ q = Accepted(call[c].terminal) /\ ~Live(call[c].job),
         Ages, IssueTypes', CoreCount, UNCHANGED <<objective, job, rows>>
  PROVE  CoreKeeps
<1> DEFINE g == call[c]
<1>1. g.pc \in PostPcs /\ Placed(g.job)
  BY DEF PostFits
<1>3. ASSUME q = Accepted(g.terminal)
      PROVE  "pc" \in DOMAIN q /\ q.pc = "answered" /\ q.offers = {}
  BY <1>3 DEF Accepted
<1>4. CallFits(q)'
  <2>1. PICK k : k = g.job
    OBVIOUS
  <2>2. Placed(k)
    BY <1>1, <2>1
  <2>3. Placed(k)'
    BY <2>2 DEF Placed
  <2>4. CASE PostGoesOn(q, g)
    BY <2>1, <2>3, <2>4 DEF PostGoesOn, CallFits, PostFits, DoneFits
  <2>5. CASE q = Accepted(g.terminal)
    BY <1>3, <2>5 DEF CallFits, DoneFits
  <2> QED BY <2>4, <2>5
<1>5. CallStep(c, q)
  BY <1>1, <1>3 DEF CallStep, Halfway, PostPcs, PostGoesOn
<1>6. \A j \in Jobs : Placed(j) => Placed(j)'
  BY DEF Placed
<1>7. call'[c] = q /\ \A d \in Calls \ {c} : call'[d] = call[d]
  BY DEF Goto, AssignInv, CoreTypes
<1>8. Follows(c)
  <2>1. CASE PostGoesOn(q, g)
    BY <1>1, <1>7, <2>1 DEF Follows, PostGoesOn
  <2>2. CASE q = Accepted(g.terminal) /\ ~Live(g.job)
    <3>1. \A j \in Jobs : j = call[c].job => ~Current(j)'
      BY <2>2 DEF Current, Live
    <3> QED BY <1>1, <1>3, <1>7, <2>2, <3>1 DEF Follows
  <2> QED BY <2>1, <2>2
<1>9. \A d \in Calls : Follows(d)
  BY <1>7, <1>8 DEF Follows
<1> QED BY <1>4, <1>5, <1>6, <1>9, CallStepKeeps DEF CoreKeeps

LEMMA DoneGoesOn ==
  ASSUME NEW g
  PROVE  PostGoesOn(Idle, g) /\ PostGoesOn(Refusal, g)
BY DEF PostGoesOn, Idle, Refusal

LEMMA LockKeeps ==
  ASSUME AssignInv, NEW c \in Calls, TakeLock(c)
  PROVE  CoreKeeps
<1> DEFINE g == call[c]
           q == [g EXCEPT !.pc = "evidence"]
<1>1. PostFits(g) /\ CoreCount /\ IssueTypes
  BY AtPost, EventsKeepCoreCount DEF TakeLock, PostPcs, AssignInv, CoreTypes
<1>2. UNCHANGED <<issue, objective, job, rows>> /\ Ages /\ IssueTypes'
  BY <1>1, SameIssueAges DEF TakeLock
<1>3. PostGoesOn(q, g)
  BY <1>1 DEF PostFits, PostFields, PostGoesOn, PostPcs
<1>4. \/ Goto(c, q) \/ Goto(c, Idle)
      \/ ~Live(g.job) /\ Goto(c, Accepted(g.terminal))
  BY DEF TakeLock, Answer
<1> HIDE DEF q
<1> QED BY <1>1, <1>2, <1>3, <1>4, DoneGoesOn, PostKeeps

LEMMA EvidenceKeeps ==
  ASSUME AssignInv, NEW c \in Calls, ReadEvidence(c)
  PROVE  CoreKeeps
<1>1. PostFits(call[c]) /\ CoreCount /\ IssueTypes
  BY AtPost, EventsKeepCoreCount
     DEF ReadEvidence, PostPcs, AssignInv, CoreTypes, EventKinds
<1>2. UNCHANGED <<issue, objective, job, rows>> /\ Ages /\ IssueTypes'
  BY <1>1, SameIssueAges DEF ReadEvidence
<1>3. PICK q : Goto(c, q) /\ PostGoesOn(q, call[c])
  <2>1. PICK g, t : /\ DOMAIN g = PostFields /\ g.job = call[c].job
                    /\ \/ Goto(c, [g EXCEPT !.pc = "comment"])
                       \/ Goto(c, Commented([g EXCEPT !.terminal = t]))
    <3> DEFINE i == call[c].job[1]
               g == [call[c] EXCEPT !.open =
                      /\ issue[i].state = "open"
                      /\ {call[c].job, <<i, issue[i].rev>>} \cap KeptOpen = {}]
               t == issue[i].comments[Least(Evidence(g.job))].terminal
    <3>1. DOMAIN g = PostFields /\ g.job = call[c].job
      BY <1>1 DEF PostFits, PostFields
    <3>2. \/ Goto(c, [g EXCEPT !.pc = "comment"])
          \/ Goto(c, Commented([g EXCEPT !.terminal = t]))
      BY DEF ReadEvidence
    <3> HIDE DEF g, t
    <3> QED BY <3>1, <3>2
  <2>2. PostGoesOn([g EXCEPT !.pc = "comment"], call[c])
    BY <2>1 DEF PostGoesOn, PostFields, PostPcs
  <2>3. PostGoesOn(Commented([g EXCEPT !.terminal = t]), call[c])
    BY <2>1 DEF PostGoesOn, PostFields, PostPcs, Commented
  <2> QED BY <2>1, <2>2, <2>3
<1> QED BY <1>1, <1>2, <1>3, PostKeeps

LEMMA CommentKeeps ==
  ASSUME AssignInv, NEW c \in Calls, PostComment(c) \/ CloseIssue(c)
  PROVE  CoreKeeps
<1> DEFINE g == call[c]
           q == [g EXCEPT !.pc = "commit"]
<1>1. PostFits(g) /\ CoreCount /\ IssueTypes
  BY AtPost, EventsKeepCoreCount
     DEF PostComment, CloseIssue, PostPcs, AssignInv, CoreTypes
<1>2. Ages /\ IssueTypes' /\ UNCHANGED <<objective, job, rows>>
  BY <1>1, CommentedIssueAges, ClosedIssueAges DEF PostComment, CloseIssue
<1>3. PostGoesOn(q, g) /\ PostGoesOn(Commented(g), g)
  BY <1>1 DEF PostFits, PostFields, PostGoesOn, PostPcs, Commented
<1>4. Goto(c, q) \/ Goto(c, Commented(g))
  BY DEF PostComment, CloseIssue
<1> HIDE DEF q
<1> QED BY <1>1, <1>2, <1>3, <1>4, PostKeeps

LEMMA FailedCallKeeps ==
  ASSUME AssignInv, NEW c \in Calls, CallFails(c)
  PROVE  CoreKeeps
<1>1. /\ UNCHANGED <<objective, job, rows>> /\ CoreCount /\ IssueTypes
      /\ call[c].pc \notin {"idle", "list", "answered", "failed"}
  BY EventsKeepCoreCount DEF CallFails, EventKinds, AssignInv, CoreTypes
<1>2. Goto(c, Idle) \/ Goto(c, Refusal)
  BY DEF CallFails, Answer
<1>3. CASE call[c].pc \in GetPcs
  <2>1. UNCHANGED issue /\ (Halfway(c) => call[c].target \in cut')
    BY <1>1, <1>3 DEF CallFails, At, GetPcs
  <2>2. /\ DoneFits(Idle) /\ DoneFits(Refusal)
        /\ Idle.pc # "job" /\ Refusal.pc # "job"
    BY DEF DoneFits, Idle, Refusal
  <2> QED BY <1>1, <1>2, <1>3, <2>1, <2>2, ReadKeeps
<1>4. CASE call[c].pc \notin GetPcs
  <2>1. PostFits(call[c])
    BY <1>1, <1>4 DEF AssignInv, CallFits, GetFits, DoneFits
  <2>2. Ages /\ IssueTypes'
    BY <1>1, SameIssueAges, CommentedIssueAges, ClosedIssueAges DEF CallFails
  <2> QED BY <1>1, <1>2, <2>1, <2>2, DoneGoesOn, PostKeeps
<1> QED BY <1>3, <1>4

-----------------------------------------------------------------------------
(***************************************************************************)
(* The statements that change a row.                                       *)
(***************************************************************************)
LEMMA WriteKeepsTheRest ==
  ASSUME AssignInv, NEW c \in Calls, NEW q, Goto(c, q), CallFits(q)',
         UNCHANGED <<issue, events>>, DOMAIN job' = Jobs, DOMAIN objective' = Jobs,
         rows' \in Seq(Jobs), (\A n \in DOMAIN rows : Placed(rows[n]))',
         \A j \in Jobs : Placed(j) => Placed(j)',
         \A j \in Jobs : objective[j] # "none" => objective'[j] # "none",
         \A d \in Calls \ {c} : call[d].pc = "job" => job'[call[d].target] = "none",
         q.pc = "job" => \A d \in Calls \ {c} : call[d].pc = "job" => call[d].target # q.target
  PROVE  /\ CoreTypes' /\ OneInserts' /\ \A d \in Calls : CallFits(call[d])'
         /\ Ages /\ call'[c] = q /\ \A d \in Calls \ {c} : call'[d] = call[d]
<1>1. /\ DOMAIN call' = Calls /\ call'[c] = q
      /\ \A d \in Calls \ {c} : call'[d] = call[d]
  BY DEF AssignInv, CoreTypes, Goto
<1>2. IssueTypes /\ CoreTypes
  BY DEF AssignInv, CoreTypes
<1>3. Ages /\ IssueTypes'
  BY <1>2, SameIssueAges
<1>4. CoreTypes'
  BY <1>1, <1>2, <1>3 DEF CoreTypes
<1>5. ASSUME NEW d \in Calls PROVE CallFits(call[d])'
  <2>1. CASE d = c
    BY <1>1, <2>1
  <2>2. CASE d # c
    <3>1. PICK p : p = call[d]
      OBVIOUS
    <3>2. CallFits(p) /\ p = call'[d]
      BY <1>1, <2>2, <3>1 DEF AssignInv
    <3>3. GetFits(p) /\ p.pc = "job" =>
            job'[p.target] = "none" /\ objective'[p.target] # "none"
      BY <2>2, <3>1 DEF GetFits
    <3>4. \A j \in Jobs : Placed(j) => Placed(j)' /\ Known(j)
      BY PlacedIsKnown
    <3>5. CallFits(p)'
      BY <1>3, <3>2, <3>3, <3>4, CallFitsKept
    <3> QED BY <3>2, <3>5
  <2> QED BY <2>1, <2>2
<1>6. OneInserts'
  BY <1>1 DEF AssignInv, OneInserts
<1> QED BY <1>1, <1>3, <1>4, <1>5, <1>6

\* The handler that is about to insert a job is the only one, and the others
\* are about to insert jobs that are not on record.
LEMMA ToBeInserted ==
  ASSUME AssignInv, NEW d \in Calls, call[d].pc = "job"
  PROVE  /\ call[d].target \in Jobs /\ job[call[d].target] = "none"
         /\ objective[call[d].target] # "none"
<1>1. GetFits(call[d])
  BY AtGet DEF GetPcs, At
<1> QED BY <1>1 DEF GetFits

LEMMA SettleJobKeeps ==
  ASSUME AssignInv, NEW c \in Calls, SettleJob(c)
  PROVE  CoreKeeps
<1> DEFINE g == call[c]
<1>q. PICK q : q = [g EXCEPT !.pc = "settleObjective"]
  OBVIOUS
<1>1. GetFits(g) /\ g.pc = "settle"
  BY AtGet DEF SettleJob, At, GetPcs
<1>2. PICK j : j = g.target
  OBVIOUS
<1>3. Placed(j) /\ ~Unchanged(j) /\ g.verdict # "none"
  BY <1>1, <1>2 DEF GetFits
<1>4. /\ Goto(c, q) /\ UNCHANGED <<issue, objective, rows, cut, events>>
      /\ job' = IF Live(j) THEN [job EXCEPT ![j] = g.verdict] ELSE job
  BY <1>q, <1>2 DEF SettleJob
<1>5. /\ DOMAIN q = GetFields /\ q.pc = "settleObjective" /\ q.target = j
      /\ q.prev = g.prev /\ q.fresh = g.fresh /\ q.listed = g.listed
  BY <1>q, <1>1, <1>2 DEF GetFits, GetFields
<1>6. CoreTypes /\ DOMAIN job = Jobs /\ DOMAIN objective = Jobs
  BY DEF AssignInv, CoreTypes
<1>7. /\ DOMAIN job' = Jobs /\ \A k \in Jobs : Placed(k) => Placed(k)'
      /\ \A k \in Jobs \ {j} : job'[k] = job[k]
  BY <1>3, <1>4, <1>6 DEF Placed
<1>8. GetFits(q)
  BY <1>1, <1>3, <1>5 DEF GetFits, GetPcs
<1>9. CallFits(q)'
  <2>1. Ages
    BY <1>4, <1>6, SameIssueAges DEF CoreTypes
  <2>2. \A k \in Jobs : Placed(k) => Placed(k)' /\ Known(k)
    BY <1>7, PlacedIsKnown
  <2> QED BY <1>5, <1>8, <2>1, <2>2, CallFitsKept DEF CallFits
<1>10. /\ CoreTypes' /\ OneInserts' /\ \A d \in Calls : CallFits(call[d])'
       /\ Ages /\ call'[c] = q /\ \A d \in Calls \ {c} : call'[d] = call[d]
  <2>1. rows' \in Seq(Jobs) /\ (\A n \in DOMAIN rows : Placed(rows[n]))'
    BY <1>4, <1>6, <1>7 DEF CoreTypes, Placed
  <2>2. \A d \in Calls \ {c} : call[d].pc = "job" => job'[call[d].target] = "none"
    BY <1>3, <1>7, ToBeInserted DEF Placed
  <2> QED BY <1>4, <1>5, <1>6, <1>7, <1>9, <2>1, <2>2, WriteKeepsTheRest
<1>11. Handled(j)' /\ \A k \in Jobs : Handled(k) => Handled(k)'
  BY <1>1, <1>2, <1>5, <1>10 DEF Handled, Halfway
<1>12. \A k \in Jobs : RowFits(k)'
  BY <1>3, <1>4, <1>6, <1>7, <1>11 DEF RowFits, AssignInv, Live, Unchanged, Placed
<1>13. \A k \in Jobs : Excused(k) => Excused(k)'
  BY <1>3, <1>4, <1>7, <1>11 DEF Excused, Current, Live, Unchanged
<1>14. \A d \in Calls : Follows(d)
  BY <1>1, <1>5, <1>10 DEF Follows, GetPcs, PostPcs
<1> QED BY <1>7, <1>10, <1>12, <1>13, <1>14 DEF CoreKeeps, AssignInv

\* A job that is acknowledged was inserted; if it was no longer live, it is
\* being settled.
LEMMA AcknowledgeKeeps ==
  ASSUME AssignInv, NEW c \in Calls, Acknowledge(c)
  PROVE  CoreKeeps
<1> DEFINE g == call[c]
<1>q. PICK q : q = NextWorker(g)
  OBVIOUS
<1>1. GetFits(g) /\ g.pc = "acknowledge"
  BY AtGet DEF Acknowledge, At, GetPcs
<1>2. PICK j : j = g.prev
  OBVIOUS
<1>3. Placed(j)
  BY <1>1, <1>2 DEF GetFits
<1>4. /\ Goto(c, q) /\ UNCHANGED <<issue, objective, rows, cut, events>>
      /\ job' = [job EXCEPT ![j] = "running"]
  BY <1>q, <1>2 DEF Acknowledge
<1>5. GetFits(q) /\ q.pc # "job"
  BY <1>q, <1>1, NextWorkerFits DEF GetFits
<1>6. CoreTypes /\ DOMAIN job = Jobs /\ DOMAIN objective = Jobs
  BY DEF AssignInv, CoreTypes
<1>7. /\ DOMAIN job' = Jobs /\ \A k \in Jobs : Placed(k) => Placed(k)'
      /\ \A k \in Jobs \ {j} : job'[k] = job[k]
  BY <1>3, <1>4, <1>6 DEF Placed
<1>9. CallFits(q)'
  <2>1. Ages
    BY <1>4, <1>6, SameIssueAges DEF CoreTypes
  <2>2. \A k \in Jobs : Placed(k) => Placed(k)' /\ Known(k)
    BY <1>7, PlacedIsKnown
  <2> QED BY <1>5, <2>1, <2>2, CallFitsKept DEF CallFits
<1>10. /\ CoreTypes' /\ OneInserts' /\ \A d \in Calls : CallFits(call[d])'
       /\ Ages /\ call'[c] = q /\ \A d \in Calls \ {c} : call'[d] = call[d]
  <2>1. rows' \in Seq(Jobs) /\ (\A n \in DOMAIN rows : Placed(rows[n]))'
    BY <1>4, <1>6, <1>7 DEF CoreTypes, Placed
  <2>2. \A d \in Calls \ {c} : call[d].pc = "job" => job'[call[d].target] = "none"
    BY <1>3, <1>7, ToBeInserted DEF Placed
  <2> QED BY <1>4, <1>5, <1>6, <1>7, <1>9, <2>1, <2>2, WriteKeepsTheRest
<1>11. \A k \in Jobs : Handled(k) => Handled(k)'
  BY <1>1, <1>10 DEF Handled, Halfway
<1>12. Live(j)' /\ j \in Jobs /\ job[j] # "none"
  BY <1>3, <1>4, <1>6 DEF Live, Placed
<1>13. \A k \in Jobs : RowFits(k)'
  BY <1>4, <1>6, <1>7, <1>11, <1>12 DEF RowFits, AssignInv, Live, Unchanged
<1>14. ASSUME NEW k \in Jobs, Excused(k) PROVE Excused(k)'
  <2>1. CASE k = j
    BY <1>4, <1>11, <1>12, <1>14, <2>1
       DEF Excused, Current, Unchanged, AssignInv, RowFits
  <2>2. CASE k # j
    BY <1>4, <1>7, <1>11, <1>14, <2>2 DEF Excused, Current, Live, Unchanged
  <2> QED BY <2>1, <2>2
<1>15. \A d \in Calls : Follows(d)
  BY <1>1, <1>5, <1>10 DEF Follows, GetFits, GetPcs, PostPcs
<1> QED BY <1>7, <1>10, <1>13, <1>14, <1>15 DEF CoreKeeps, AssignInv

LEMMA SettleObjectiveKeeps ==
  ASSUME AssignInv, NEW c \in Calls, SettleObjective(c)
  PROVE  CoreKeeps
<1> DEFINE g == call[c]
           h == [g EXCEPT !.missing = Append(@, Workers[g.n])]
<1>1. GetFits(g) /\ g.pc = "settleObjective"
  BY AtGet DEF SettleObjective, At, GetPcs
<1>2. PICK j : j = g.target
  OBVIOUS
<1>3. Placed(j) /\ ~Unchanged(j)
  BY <1>1, <1>2 DEF GetFits
<1>4. PICK q : Goto(c, q) /\ q \in {NextWorker(g), NextWorker(h)}
  BY DEF SettleObjective
<1>5. GetFits(q) /\ q.pc \notin {"job", "settleObjective"}
  <2>1. /\ DOMAIN h = GetFields /\ h.prev = g.prev /\ h.listed = g.listed
        /\ h.fresh = g.fresh
    BY <1>1 DEF GetFits, GetFields
  <2> HIDE DEF h
  <2>2. /\ GetFits(NextWorker(g)) /\ NextWorker(g).pc \in {"worker", "reply", "list"}
        /\ GetFits(NextWorker(h)) /\ NextWorker(h).pc \in {"worker", "reply", "list"}
    BY <1>1, <2>1, NextWorkerFits DEF GetFits
  <2> QED BY <1>4, <2>2
<1>6. UNCHANGED <<issue, job, rows, cut, events>>
  BY DEF SettleObjective
<1>7. CoreTypes /\ DOMAIN job = Jobs /\ DOMAIN objective = Jobs
  BY DEF AssignInv, CoreTypes
<1>8. /\ DOMAIN objective' = Jobs /\ objective'[j] # "active"
      /\ objective[j] # "none" => objective'[j] # "none"
      /\ \A k \in Jobs \ {j} : objective'[k] = objective[k]
  BY <1>2, <1>3, <1>7 DEF SettleObjective, Placed
<1>9. \A k \in Jobs : Placed(k) => Placed(k)' /\ Known(k)
  BY <1>6, PlacedIsKnown DEF Placed
<1>10. CallFits(q)'
  <2>1. Ages
    BY <1>6, <1>7, SameIssueAges DEF CoreTypes
  <2> QED BY <1>5, <1>9, <2>1, CallFitsKept DEF CallFits
<1>11. /\ CoreTypes' /\ OneInserts' /\ \A d \in Calls : CallFits(call[d])'
       /\ Ages /\ call'[c] = q /\ \A d \in Calls \ {c} : call'[d] = call[d]
  <2>1. rows' \in Seq(Jobs) /\ (\A n \in DOMAIN rows : Placed(rows[n]))'
    BY <1>6, <1>7 DEF CoreTypes, Placed
  <2>2. \A d \in Calls \ {c} : call[d].pc = "job" => job'[call[d].target] = "none"
    BY <1>6, ToBeInserted
  <2> QED BY <1>4, <1>5, <1>6, <1>7, <1>8, <1>9, <1>10, <2>1, <2>2, WriteKeepsTheRest
<1>12. \A k \in Jobs \ {j} : Handled(k) => Handled(k)'
  BY <1>1, <1>2, <1>11 DEF Handled, Halfway
<1>13. \A k \in Jobs : RowFits(k)'
  BY <1>3, <1>6, <1>8, <1>12 DEF RowFits, AssignInv, Live, Unchanged, Placed
<1>14. \A k \in Jobs : Excused(k) => Excused(k)'
  BY <1>6, <1>8, <1>12 DEF Excused, Current, Live, Unchanged
<1>15. \A d \in Calls : Follows(d)
  BY <1>1, <1>5, <1>11 DEF Follows, GetFits, GetPcs, PostPcs
<1> QED BY <1>9, <1>11, <1>13, <1>14, <1>15 DEF CoreKeeps, AssignInv

LEMMA InsertObjectiveKeeps ==
  ASSUME AssignInv, NEW c \in Calls, InsertObjective(c)
  PROVE  CoreKeeps
<1> DEFINE g == call[c]
<1>1. GetFits(g) /\ g.pc = "insert"
  BY AtGet DEF InsertObjective, At, GetPcs
<1>2. PICK j : j = g.target
  OBVIOUS
<1>3. Known(j)
  BY <1>1, <1>2 DEF GetFits
<1>4. UNCHANGED <<issue, job, rows, cut, events>>
  BY DEF InsertObjective
<1>5. CoreTypes /\ DOMAIN job = Jobs /\ DOMAIN objective = Jobs
  BY DEF AssignInv, CoreTypes
<1>6. PICK q : q \in {[g EXCEPT !.pc = "job", !.free = FALSE, !.first = FALSE],
                     [g EXCEPT !.pc = "spec", !.listed = @ \ {j}, !.target = None,
                               !.free = FALSE, !.first = FALSE]} /\ Goto(c, q)
                /\ \/ /\ q.pc = "job" /\ objective[j] = "none"
                      /\ objective' = [objective EXCEPT ![j] = "active"]
                   \/ q.pc = "spec" /\ UNCHANGED objective
  <2> DEFINE q1 == [g EXCEPT !.pc = "job", !.free = FALSE, !.first = FALSE]
             q2 == [g EXCEPT !.pc = "spec", !.listed = @ \ {j}, !.target = None,
                             !.free = FALSE, !.first = FALSE]
  <2>1. \/ /\ Goto(c, q1) /\ objective[j] = "none"
           /\ objective' = [objective EXCEPT ![j] = "active"]
        \/ Goto(c, q2) /\ UNCHANGED objective
    BY <1>2 DEF InsertObjective
  <2>2. q1.pc = "job" /\ q2.pc = "spec"
    BY <1>1 DEF GetFits, GetFields
  <2> HIDE DEF q1, q2
  <2> QED BY <2>1, <2>2 DEF q1, q2
<1>7. /\ DOMAIN q = GetFields /\ q.pc \in {"job", "spec"} /\ q.prev = g.prev
      /\ q.fresh = g.fresh /\ \A k \in q.listed : k \in g.listed
      /\ q.pc = "job" => q.target = j
  <2>1. CASE q = [g EXCEPT !.pc = "job", !.free = FALSE, !.first = FALSE]
    BY <1>1, <1>2, <2>1 DEF GetFits, GetFields
  <2>2. CASE q = [g EXCEPT !.pc = "spec", !.listed = @ \ {j}, !.target = None,
                           !.free = FALSE, !.first = FALSE]
    BY <1>1, <2>2 DEF GetFits, GetFields
  <2> QED BY <1>6, <2>1, <2>2
<1>8. j \in Jobs /\ (objective[j] = "none" => job[j] = "none")
  BY <1>3 DEF Known, AssignInv, RowFits
<1>9. /\ DOMAIN objective' = Jobs
      /\ \A k \in Jobs : objective[k] # "none" => objective'[k] # "none"
      /\ \A k \in Jobs \ {j} : objective'[k] = objective[k]
      /\ q.pc = "job" => objective'[j] = "active"
  BY <1>5, <1>6, <1>8
<1>10. \A k \in Jobs : Placed(k) => Placed(k)' /\ Known(k)
  BY <1>4, PlacedIsKnown DEF Placed
<1>11. CallFits(q)'
  <2>1. Ages
    BY <1>4, <1>5, SameIssueAges DEF CoreTypes
  <2>2. /\ q.prev = None \/ Placed(q.prev)'
        /\ \A k \in q.listed : Known(k)'
        /\ \A k \in q.fresh : Placed(k)'
    BY <1>1, <1>4, <1>7, <2>1 DEF GetFits, Ages, Placed, Known
  <2>3. q.pc = "job" => /\ q.target \in Jobs /\ job'[q.target] = "none"
                        /\ objective'[q.target] # "none"
    BY <1>4, <1>6, <1>7, <1>8, <1>9
  <2> QED BY <1>7, <2>2, <2>3 DEF CallFits, GetFits, GetPcs
<1>12. /\ CoreTypes' /\ OneInserts' /\ \A d \in Calls : CallFits(call[d])'
       /\ Ages /\ call'[c] = q /\ \A d \in Calls \ {c} : call'[d] = call[d]
  <2>1. rows' \in Seq(Jobs) /\ (\A n \in DOMAIN rows : Placed(rows[n]))'
    BY <1>4, <1>5 DEF CoreTypes, Placed
  <2>2. \A d \in Calls \ {c} : call[d].pc = "job" => job'[call[d].target] = "none"
    BY <1>4, ToBeInserted
  <2>3. q.pc = "job" => \A d \in Calls \ {c} : call[d].pc = "job" => call[d].target # q.target
    BY <1>6, <1>7, ToBeInserted
  <2> QED BY <1>4, <1>5, <1>6, <1>9, <1>10, <1>11, <2>1, <2>2, <2>3, WriteKeepsTheRest
<1>13. /\ \A k \in Jobs : Handled(k) => Handled(k)'
       /\ q.pc = "job" => Handled(j)'
  BY <1>1, <1>7, <1>12 DEF Handled, Halfway
<1>14. \A k \in Jobs : RowFits(k)'
  BY <1>3, <1>4, <1>6, <1>8, <1>9, <1>13 DEF RowFits, AssignInv, Live, Unchanged, Known
<1>15. \A k \in Jobs : Placed(k) /\ Excused(k) => Excused(k)'
  BY <1>4, <1>6, <1>8, <1>9, <1>13 DEF Excused, Current, Live, Unchanged, Placed
<1>16. \A d \in Calls : Follows(d)
  BY <1>1, <1>7, <1>12 DEF Follows, GetPcs, PostPcs
<1> QED BY <1>10, <1>12, <1>14, <1>15, <1>16 DEF CoreKeeps, AssignInv

LEMMA InsertJobKeeps ==
  ASSUME AssignInv, NEW c \in Calls, InsertJob(c)
  PROVE  CoreKeeps
<1> DEFINE g == call[c]
<1>1. GetFits(g) /\ g.pc = "job"
  BY AtGet DEF InsertJob, At, GetPcs
<1>2. PICK j : j = g.target
  OBVIOUS
<1>3. j \in Jobs /\ job[j] = "none" /\ objective[j] # "none"
  BY <1>1, <1>2 DEF GetFits
<1>4. /\ UNCHANGED <<issue, objective, cut, events>> /\ rows' = Append(rows, j)
      /\ job' = [job EXCEPT ![j] = "assigned"]
  BY <1>2 DEF InsertJob
<1>5. CoreTypes /\ DOMAIN job = Jobs /\ DOMAIN objective = Jobs
  BY DEF AssignInv, CoreTypes
<1>6. PICK q : /\ q = [g EXCEPT !.pc = "select", !.missing = Tail(@), !.target = None,
                              !.seen = @ \cup {j}, !.fresh = @ \cup {j}]
               /\ Goto(c, q)
  BY <1>2 DEF InsertJob
<1>7. /\ DOMAIN q = GetFields /\ q.pc = "select" /\ q.prev = g.prev
      /\ q.listed = g.listed /\ \A k \in q.fresh : k \in g.fresh \/ k = j
  BY <1>1, <1>6 DEF GetFits, GetFields
<1>8. /\ DOMAIN job' = Jobs /\ job'[j] = "assigned"
      /\ \A k \in Jobs \ {j} : job'[k] = job[k]
  BY <1>3, <1>4, <1>5
<1>9. Placed(j)' /\ \A k \in Jobs : Placed(k) => Placed(k)' /\ Known(k)
  BY <1>3, <1>8, PlacedIsKnown DEF Placed
<1>10. CallFits(q)'
  <2>1. Ages
    BY <1>4, <1>5, SameIssueAges DEF CoreTypes
  <2>2. /\ q.prev = None \/ Placed(q.prev)'
        /\ \A k \in q.listed : Known(k)'
        /\ \A k \in q.fresh : Placed(k)'
    BY <1>1, <1>7, <1>9, <2>1 DEF GetFits, Ages, Placed, Known
  <2> QED BY <1>7, <2>2 DEF CallFits, GetFits, GetPcs
<1>11. /\ CoreTypes' /\ OneInserts' /\ \A d \in Calls : CallFits(call[d])'
       /\ Ages /\ call'[c] = q /\ \A d \in Calls \ {c} : call'[d] = call[d]
  <2>1. rows' \in Seq(Jobs) /\ (\A n \in DOMAIN rows : Placed(rows[n]))'
    <3>1. \A n \in DOMAIN rows : rows[n] \in Jobs /\ Placed(rows[n])
      BY <1>5 DEF CoreTypes
    <3>2. rows \in Seq(Jobs)
      BY <1>5 DEF CoreTypes
    <3>3. rows' \in Seq(Jobs)
      BY <1>3, <1>4, <3>2
    <3>4. ASSUME NEW n \in DOMAIN rows' PROVE Placed(rows[n])'
      BY <1>3, <1>4, <1>8, <3>1, <3>2, <3>4 DEF Placed
    <3> QED BY <3>3, <3>4
  <2>2. \A d \in Calls \ {c} : call[d].pc = "job" => job'[call[d].target] = "none"
    BY <1>1, <1>2, <1>8, ToBeInserted DEF AssignInv, OneInserts
  <2> QED BY <1>4, <1>5, <1>6, <1>7, <1>8, <1>9, <1>10, <2>1, <2>2, WriteKeepsTheRest
<1>12. \A k \in Jobs \ {j} : Handled(k) => Handled(k)'
  BY <1>1, <1>2, <1>11 DEF Handled, Halfway
<1>13. \A k \in Jobs : RowFits(k)'
  BY <1>3, <1>4, <1>8, <1>12 DEF RowFits, AssignInv, Live, Unchanged, Placed
<1>14. \A k \in Jobs : Placed(k) /\ Excused(k) => Excused(k)'
  BY <1>3, <1>4, <1>8, <1>12 DEF Excused, Current, Live, Unchanged, Placed
<1>15. \A d \in Calls : Follows(d)
  BY <1>1, <1>7, <1>11 DEF Follows, GetPcs, PostPcs
<1> QED BY <1>9, <1>11, <1>13, <1>14, <1>15 DEF CoreKeeps, AssignInv

\* The transaction of a report ends the objective with the job.
LEMMA CommitKeeps ==
  ASSUME AssignInv, NEW c \in Calls, Commit(c)
  PROVE  CoreKeeps
<1> DEFINE g == call[c]
<1>1. PostFits(g) /\ g.pc = "commit"
  BY AtPost DEF Commit, At, PostPcs
<1>2. PICK j : j = g.job
  OBVIOUS
<1>3. Placed(j)
  BY <1>1, <1>2 DEF PostFits
<1>4. PICK q : Goto(c, q) /\ (q = Idle \/ q = Accepted(g.terminal))
  BY DEF Commit, Answer
<1>5. UNCHANGED <<issue, rows, cut, events>>
  BY DEF Commit
<1>6. CoreTypes /\ DOMAIN job = Jobs /\ DOMAIN objective = Jobs
  BY DEF AssignInv, CoreTypes
<1>7. /\ DOMAIN job' = Jobs /\ job'[j] # "none" /\ \A k \in Jobs \ {j} : job'[k] = job[k]
  BY <1>2, <1>3, <1>6 DEF Commit, Placed
<1>8. /\ DOMAIN objective' = Jobs /\ objective'[j] # "active"
      /\ objective[j] # "none" => objective'[j] # "none"
      /\ \A k \in Jobs \ {j} : objective'[k] = objective[k]
  BY <1>2, <1>3, <1>6 DEF Commit, Placed
<1>9. \A k \in Jobs : Placed(k) => Placed(k)' /\ Known(k)
  BY <1>7, PlacedIsKnown DEF Placed
<1>10. "pc" \in DOMAIN q /\ q.pc \in {"idle", "answered"} /\ CallFits(q)'
  BY <1>4 DEF Idle, Accepted, CallFits, DoneFits
<1>11. /\ CoreTypes' /\ OneInserts' /\ \A d \in Calls : CallFits(call[d])'
       /\ Ages /\ call'[c] = q /\ \A d \in Calls \ {c} : call'[d] = call[d]
  <2>1. rows' \in Seq(Jobs) /\ (\A n \in DOMAIN rows : Placed(rows[n]))'
    BY <1>5, <1>6, <1>9 DEF CoreTypes, Placed
  <2>2. \A d \in Calls \ {c} : call[d].pc = "job" => job'[call[d].target] = "none"
    BY <1>3, <1>7, ToBeInserted DEF Placed
  <2> QED BY <1>4, <1>5, <1>7, <1>8, <1>9, <1>10, <2>1, <2>2, WriteKeepsTheRest
<1>12. \A k \in Jobs : Handled(k) => Handled(k)'
  BY <1>1, <1>11 DEF Handled, Halfway
<1>13. \A k \in Jobs : RowFits(k)'
  BY <1>3, <1>5, <1>7, <1>8, <1>12 DEF RowFits, AssignInv, Live, Unchanged, Placed
<1>14. \A k \in Jobs : Excused(k) => Excused(k)'
  BY <1>5, <1>7, <1>8, <1>12 DEF Excused, Current, Live, Unchanged
<1>15. \A d \in Calls : Follows(d)
  <2>1. ~Current(j)'
    BY <1>8 DEF Current
  <2>2. \A k \in Jobs : k = call[c].job => ~Current(k)'
    BY <1>2, <2>1
  <2> QED BY <1>1, <1>10, <1>11, <2>2 DEF Follows, PostPcs
<1> QED BY <1>9, <1>11, <1>13, <1>14, <1>15 DEF CoreKeeps, AssignInv

LEMMA CoreRestartKeeps ==
  ASSUME AssignInv, CoreRestarts
  PROVE  CoreKeeps
<1>1. CoreTypes /\ IssueTypes /\ UNCHANGED <<issue, objective, job, rows>>
  BY DEF AssignInv, CoreTypes, CoreRestarts
<1>2. events' \in [EventKinds -> Nat] /\ cut \subseteq cut'
  BY <1>1, EventCounts DEF CoreTypes, CoreRestarts, EventKinds
<1>c. \A j \in Jobs : Handled(j) \/ j \in cut => j \in cut'
  BY DEF CoreRestarts, Handled, Halfway
<1>3. Ages /\ IssueTypes'
  BY <1>1, SameIssueAges
<1>4. /\ DOMAIN call' = Calls
      /\ \A c \in Calls : "pc" \in DOMAIN call'[c] /\ call'[c].pc \in {"failed", "idle"}
  BY DEF CoreRestarts, Refusal, Idle
<1>5. \A c \in Calls : CallFits(call[c])'
  BY <1>4 DEF CallFits, DoneFits
<1>6. CoreTypes' /\ OneInserts'
  BY <1>1, <1>2, <1>3, <1>4 DEF CoreTypes, OneInserts, Placed
<1>7. \A j \in Jobs : RowFits(j)'
  BY <1>1, <1>c DEF AssignInv, RowFits, Live, Unchanged
<1>8. \A j \in Jobs : Placed(j) => Placed(j)' /\ (Excused(j) => Excused(j)')
  BY <1>1, <1>c DEF Placed, Excused, Current, Live, Unchanged
<1>9. \A c \in Calls : Follows(c)
  BY <1>4 DEF Follows
<1> QED BY <1>5, <1>6, <1>7, <1>8, <1>9 DEF CoreKeeps, AssignInv

LEMMA IssueChangeKeeps ==
  ASSUME AssignInv, NEW i \in Issues, IssueChanges(i) \/ FirstPageFills(i)
  PROVE  CoreKeeps
<1>1. CoreTypes /\ IssueTypes /\ UNCHANGED <<objective, job, rows, call>>
  BY DEF AssignInv, CoreTypes, IssueChanges, FirstPageFills
<1>2. CoreCount
  BY EventsKeepCoreCount DEF IssueChanges, FirstPageFills, EventKinds
<1>3. Ages /\ IssueTypes'
  BY <1>1, ChangedIssueAges, FilledIssueAges
<1>4. \A j \in Jobs : Placed(j) => Placed(j)' /\ Known(j)
  BY <1>1, PlacedIsKnown DEF Placed
<1>5. ASSUME NEW c \in Calls PROVE CallFits(call[c])'
  <2>1. PICK p : p = call[c]
    OBVIOUS
  <2>2. CallFits(p) /\ p = call'[c]
    BY <1>1, <2>1 DEF AssignInv
  <2>3. GetFits(p) /\ p.pc = "job" => job'[p.target] = "none" /\ objective'[p.target] # "none"
    BY <1>1 DEF GetFits
  <2>4. CallFits(p)'
    BY <1>3, <1>4, <2>2, <2>3, CallFitsKept
  <2> QED BY <2>2, <2>4
<1>6. CoreTypes' /\ OneInserts'
  BY <1>1, <1>2, <1>3 DEF CoreTypes, OneInserts, Placed, AssignInv, CoreCount
<1>7. \A j \in Jobs : RowFits(j)'
  BY <1>1, <1>2, <1>3 DEF AssignInv, RowFits, Live, Handled, Halfway, Ages, Known, CoreCount
<1>8. ASSUME NEW j \in Jobs, Excused(j) PROVE Excused(j)'
  <2>1. Current(j)' => Current(j) /\ Known(j)
    BY <1>1 DEF Current, Live, AssignInv, RowFits, Known
  <2> QED BY <1>1, <1>2, <1>3, <1>8, <2>1 DEF Excused, Ages, Handled, Halfway, CoreCount
<1>9. \A c \in Calls : Follows(c)
  BY <1>1 DEF Follows
<1> QED BY <1>4, <1>5, <1>6, <1>7, <1>8, <1>9 DEF CoreKeeps, AssignInv

LEMMA CoreKeepsAll == AssignInv /\ CoreNext => CoreKeeps
<1> SUFFICES ASSUME AssignInv, CoreNext PROVE CoreKeeps
  OBVIOUS
<1>1. ASSUME NEW c \in Calls, GetStep(c) PROVE CoreKeeps
  BY <1>1, ReadPreviousKeeps, AcknowledgeKeeps, ReadWorkerKeeps, SettleJobKeeps,
     SettleObjectiveKeeps, ListKeeps, SelectKeeps, SpecKeeps, InsertObjectiveKeeps,
     InsertJobKeeps, ReplyKeeps DEF GetStep
<1>2. ASSUME NEW c \in Calls, PostStep(c) PROVE CoreKeeps
  BY <1>2, LockKeeps, EvidenceKeeps, CommentKeeps, CommitKeeps DEF PostStep
<1>3. ASSUME NEW c \in Calls, CoreFault(c) PROVE CoreKeeps
  BY <1>3, ListKeeps, SpecKeeps, FailedCallKeeps DEF CoreFault
<1> QED BY <1>1, <1>2, <1>3, CoreRestartKeeps, IssueChangeKeeps DEF CoreNext

-----------------------------------------------------------------------------
(***************************************************************************)
(* App Chrome: what it offers, reports and releases.                       *)
(***************************************************************************)
Lasts == \A j \in Jobs : Placed(j) => Placed(j)' /\ (Excused(j) => Excused(j)')

LEMMA CoreStepReports ==
  ASSUME ReportInv, CoreKeeps, UNCHANGED appVars
  PROVE  ReportInv'
<1>1. AssignInv' /\ Lasts /\ \A c \in Calls : Follows(c)
  BY DEF CoreKeeps, Lasts
<1>2. UNCHANGED <<tick, ledger, stopped>>
  BY DEF appVars
<1>3. LedgerFits'
  BY <1>1, <1>2 DEF ReportInv, LedgerFits, Lasts
<1>4. ASSUME tick.pc = "reporting" PROVE ReportFits(call[tick.call])'
  <2>1. PICK c, j : c = tick.call /\ j = tick.job
    OBVIOUS
  <2>2. /\ c \in Calls /\ Placed(j) /\ j \in Jobs /\ ReportFits(call[c])
        /\ c = tick'.call /\ j = tick'.job
    BY <1>2, <1>4, <2>1 DEF ReportInv, TickFits, Placed
  <2>3. PICK q : q = call'[c]
    OBVIOUS
  <2>4. \/ q = call[c]
        \/ q.pc \in {"failed", "idle"}
        \/ q.pc \in PostPcs /\ call[c].pc \in PostPcs /\ q.job = call[c].job
        \/ q.pc = "answered" /\ call[c].pc \in PostPcs /\ (call[c].job = j => ~Current(j)')
    BY <1>1, <2>1, <2>2, <2>3 DEF Follows, ReportFits, GetPcs, PostPcs
  <2>5. \/ q.pc \in PostPcs /\ q.job = j
        \/ q.pc \in {"failed", "idle"}
        \/ q.pc = "answered" /\ Excused(j)'
    BY <1>1, <2>1, <2>2, <2>4 DEF ReportFits, Lasts, PostPcs, Excused
  <2> QED BY <2>2, <2>3, <2>5 DEF ReportFits
<1>5. TickFits'
  BY <1>1, <1>2, <1>4 DEF ReportInv, TickFits, Lasts, Placed
<1> QED BY <1>1, <1>3, <1>5 DEF ReportInv

\* What App Chrome does to a handler: it starts one, or takes note of its
\* answer, or hangs up; one that is about to insert or to settle goes on.
Touches(c, q) ==
  /\ Goto(c, q) /\ CallFits(q)
  /\ Halfway(c) => q.pc = call[c].pc /\ q.target = call[c].target
  /\ q.pc = "job" => call[c].pc = "job"

LEMMA AppLasts ==
  ASSUME AssignInv, CoreKept, CoreCount,
         UNCHANGED call \/ \E c \in Calls : \E q : Touches(c, q)
  PROVE  AssignInv' /\ Lasts
<1>1. IssueTypes /\ UNCHANGED <<issue, objective, job, rows>>
  BY DEF AssignInv, CoreTypes, CoreKept
<1>2. Ages /\ IssueTypes'
  BY <1>1, SameIssueAges
<1>3. \A j \in Jobs : Placed(j) => Placed(j)' /\ Known(j)
  BY <1>1, PlacedIsKnown DEF Placed
<1>4. ASSUME NEW c \in Calls, NEW q, CallFits(q), Goto(c, q),
             Halfway(c) => q.pc = call[c].pc /\ q.target = call[c].target,
             q.pc = "job" => call[c].pc = "job"
      PROVE  AssignInv' /\ Lasts
  <2>1. CallStep(c, q)
    BY <1>1, <1>2, <1>4 DEF CallStep, Halfway
  <2>2. CallFits(q)'
    <3>1. GetFits(q) /\ q.pc = "job" =>
            job'[q.target] = "none" /\ objective'[q.target] # "none"
      BY <1>1 DEF GetFits
    <3> QED BY <1>2, <1>3, <1>4, <3>1, CallFitsKept
  <2> QED BY <1>3, <2>1, <2>2, CallStepKeeps DEF Lasts
<1>5. CASE UNCHANGED call
  <2>1. \A c \in Calls : CallFits(call[c])'
    <3> TAKE c \in Calls
    <3>1. PICK q : q = call[c]
      OBVIOUS
    <3>2. CallFits(q) /\ q = call'[c]
      BY <1>5, <3>1 DEF AssignInv
    <3>3. GetFits(q) /\ q.pc = "job" =>
            job'[q.target] = "none" /\ objective'[q.target] # "none"
      BY <1>1 DEF GetFits
    <3>4. CallFits(q)'
      BY <1>2, <1>3, <3>2, <3>3, CallFitsKept
    <3> QED BY <3>2, <3>4
  <2>2. CoreTypes' /\ OneInserts'
    BY <1>1, <1>2, <1>5 DEF AssignInv, CoreTypes, CoreCount, OneInserts, Placed
  <2>3. \A j \in Jobs : RowFits(j)'
    BY <1>1, <1>5 DEF AssignInv, RowFits, Live, Unchanged, Handled, Halfway, CoreCount
  <2>4. \A j \in Jobs : Excused(j) => Excused(j)'
    BY <1>1, <1>5 DEF Excused, Current, Live, Unchanged, Handled, Halfway, CoreCount
  <2> QED BY <1>3, <2>1, <2>2, <2>3, <2>4 DEF AssignInv, Lasts
<1> QED BY <1>4, <1>5 DEF Touches

LEMMA StartTouches ==
  ASSUME AssignInv, NEW c \in Calls, NEW q, Start(c, q), CallFits(q), q.pc # "job"
  PROVE  Touches(c, q)
BY DEF Start, Touches, At, Halfway

\* A record changes for a job that has been inserted.
LEMMA LedgerGoes ==
  ASSUME TransportInv, LedgerFits, Lasts, NEW j, NEW x,
         ledger' = [ledger EXCEPT ![j] = x], Placed(j), stopped \subseteq stopped',
         x \in {"done", "blocked"} => Excused(j) \/ j \in stopped
  PROVE  LedgerFits'
<1>1. DOMAIN ledger = Jobs /\ j \in Jobs
  BY DEF TransportInv, AppTypes, Placed
<1>2. \A k \in Jobs : ledger'[k] = IF k = j THEN x ELSE ledger[k]
  BY <1>1
<1> QED BY <1>1, <1>2 DEF LedgerFits, Lasts

LEMMA LedgerStays ==
  ASSUME LedgerFits, Lasts, UNCHANGED ledger, stopped \subseteq stopped'
  PROVE  LedgerFits'
BY DEF LedgerFits, Lasts

\* A tick that waits for no handler and is at no job.
LEMMA RestingFits ==
  ASSUME tick'.call = 0, tick'.pc \in {"report", "offer"},
         \A j \in tick'.offers : Placed(j) /\ Placed(j)'
  PROVE  TickFits'
BY DEF TickFits

LEMMA RestingTick ==
  ASSUME tick' = Resting \/ \E n : tick' = [Resting EXCEPT !.n = n]
  PROVE  tick'.call = 0 /\ tick'.pc = "report" /\ tick'.offers = {}
BY DEF Resting

LEMMA NewGetFits ==
  ASSUME NEW j, j = None \/ Placed(j)
  PROVE  CallFits(Get(j)) /\ Get(j).pc \in {"worker", "previous"}
<1> DEFINE q == Get(j)
<1>1. /\ DOMAIN q = GetFields /\ q.pc = IF j = None THEN "worker" ELSE "previous"
      /\ q.prev = j /\ q.fresh = {} /\ q.listed = {}
  BY DEF Get, GetFields
<1> HIDE DEF q
<1>2. GetFits(q) /\ q.pc \in {"worker", "previous"}
  BY <1>1 DEF GetFits, GetPcs
<1> QED BY <1>2 DEF CallFits, q

LEMMA NewPostFits ==
  ASSUME NEW j, NEW t, Placed(j)
  PROVE  CallFits(Post(j, t)) /\ Post(j, t).pc = "lock" /\ Post(j, t).job = j
<1> DEFINE q == Post(j, t)
<1>1. DOMAIN q = PostFields /\ q.pc = "lock" /\ q.job = j
  BY DEF Post, PostFields
<1> HIDE DEF q
<1>2. PostFits(q)
  BY <1>1 DEF PostFits, PostPcs
<1> QED BY <1>1, <1>2 DEF CallFits, q

\* The worker's answer is reported for a job it holds, or work is asked for.
LEMMA ReportOrFetchReports ==
  ASSUME ReportInv, TransportInv, ReportOrFetch
  PROVE  ReportInv'
<1>1. /\ CoreKept /\ UNCHANGED <<ledger, stopped>> /\ CoreCount /\ tick.pc = "report"
      /\ AssignInv /\ TickFits /\ LedgerFits
  BY EventsKeepCoreCount DEF ReportOrFetch, ReportInv, Ticking, restVars
<1>2. /\ DOMAIN tick = {"pc", "n", "call", "offers", "job", "terminal", "tries", "taken"}
      /\ \A j \in tick.offers : Placed(j)
  BY <1>1 DEF TransportInv, AppTypes, TickFits
<1>3. PICK c \in Calls :
        \/ /\ Start(c, Get(None))
           /\ tick' = [tick EXCEPT !.pc = "fetching", !.call = c]
        \/ \E n, w : /\ Answered(w)
                     /\ Start(c, Post(CHOOSE k \in Active(w) : TRUE, beat[w]))
                     /\ tick' = [tick EXCEPT !.pc = "reporting", !.n = n, !.call = c,
                                             !.job = CHOOSE k \in Active(w) : TRUE,
                                             !.terminal = beat[w]]
  BY DEF ReportOrFetch
<1>4. CASE /\ Start(c, Get(None))
           /\ tick' = [tick EXCEPT !.pc = "fetching", !.call = c]
  <2>1. AssignInv' /\ Lasts
    BY <1>1, <1>4, NewGetFits, StartTouches, AppLasts
  <2>2. /\ tick'.pc = "fetching" /\ tick'.call = c /\ tick'.offers = tick.offers
    BY <1>2, <1>4
  <2>3. TickFits'
    BY <1>2, <2>1, <2>2 DEF TickFits, Lasts, Placed
  <2> QED BY <1>1, <2>1, <2>3, LedgerStays DEF ReportInv
<1>5. ASSUME NEW n, NEW w, NEW j, j = CHOOSE k \in Active(w) : TRUE, Answered(w),
             Start(c, Post(j, beat[w])),
             tick' = [tick EXCEPT !.pc = "reporting", !.n = n, !.call = c,
                                  !.job = j, !.terminal = beat[w]]
      PROVE  ReportInv'
  <2>1. j \in Active(w)
    BY <1>5 DEF Answered
  <2>2. Placed(j)
    BY <1>1, <2>1 DEF LedgerFits, Active
  <2>3. AssignInv' /\ Lasts
    BY <1>1, <1>5, <2>2, NewPostFits, StartTouches, AppLasts
  <2>4. /\ tick'.pc = "reporting" /\ tick'.call = c /\ tick'.offers = tick.offers
        /\ tick'.job = j
    BY <1>2, <1>5
  <2>5. call'[c].pc = "lock" /\ call'[c].job = j
    BY <1>1, <1>5, <2>2, NewPostFits DEF Start, Goto, AssignInv, CoreTypes
  <2>6. TickFits'
    BY <1>2, <2>2, <2>3, <2>4, <2>5
       DEF TickFits, Lasts, Placed, ReportFits, PostPcs
  <2> QED BY <1>1, <2>3, <2>6, LedgerStays DEF ReportInv
<1> QED BY <1>3, <1>4, <1>5

LEMMA IdleTouches ==
  ASSUME AssignInv, NEW c \in Calls, call[c].pc \in {"answered", "failed"}, Goto(c, Idle)
  PROVE  Touches(c, Idle)
BY DEF Touches, CallFits, DoneFits, Idle, Halfway

LEMMA HangUpTouches ==
  ASSUME AssignInv, NEW c \in Calls, HangUp(c)
  PROVE  \E q : Touches(c, q)
<1>1. CASE call[c].pc \in {"answered", "failed"}
  BY <1>1, IdleTouches DEF HangUp
<1>2. CASE call[c].pc \notin {"answered", "failed"}
  <2>1. PICK g, q : g = call[c] /\ q = [g EXCEPT !.heard = FALSE]
    OBVIOUS
  <2>2. Goto(c, q) /\ CallFits(g)
    BY <1>2, <2>1 DEF HangUp, AssignInv
  <2>3. CASE GetFits(g)
    <3>1. /\ DOMAIN q = GetFields /\ q.pc = g.pc /\ q.prev = g.prev /\ q.fresh = g.fresh
          /\ q.listed = g.listed /\ q.target = g.target /\ q.verdict = g.verdict
      BY <2>1, <2>3 DEF GetFits, GetFields
    <3>2. GetFits(q)
      BY <2>3, <3>1 DEF GetFits
    <3> QED BY <2>1, <2>2, <3>1, <3>2 DEF Touches, CallFits, Halfway
  <2>4. CASE PostFits(g)
    <3>1. DOMAIN q = PostFields /\ q.pc = g.pc /\ q.job = g.job
      BY <2>1, <2>4 DEF PostFits, PostFields
    <3>2. PostFits(q)
      BY <2>4, <3>1 DEF PostFits
    <3> QED BY <2>1, <2>2, <2>4, <3>1, <3>2 DEF Touches, CallFits, PostFits, PostPcs, Halfway
  <2>5. CASE DoneFits(g)
    <3>1. q.pc = g.pc /\ DOMAIN q = DOMAIN g /\ g.pc = "idle"
      BY <1>2, <2>1, <2>5 DEF DoneFits
    <3>2. DoneFits(q)
      BY <2>5, <3>1 DEF DoneFits
    <3> QED BY <2>1, <2>2, <3>1, <3>2 DEF Touches, CallFits, Halfway
  <2> QED BY <2>2, <2>3, <2>4, <2>5 DEF CallFits
<1> QED BY <1>1, <1>2

\* The job is released only when Core has answered the report of it.
LEMMA ReportAcceptedReports ==
  ASSUME ReportInv, TransportInv, ReportAccepted
  PROVE  ReportInv'
<1>1. /\ AssignInv /\ TickFits /\ LedgerFits /\ CoreKept /\ CoreCount
      /\ tick.pc = "reporting" /\ call[tick.call].pc = "answered" /\ tick.call \in Calls
  BY EventsKeepCoreCount DEF ReportAccepted, ReportInv, Ticking, At, TickFits
<1>2. PICK j : j = tick.job
  OBVIOUS
<1>3. Placed(j) /\ Excused(j)
  BY <1>1, <1>2 DEF TickFits, ReportFits, PostPcs
<1>4. AssignInv' /\ Lasts
  BY <1>1, IdleTouches, AppLasts DEF ReportAccepted
<1>5. LedgerFits'
  <2>1. j \in Jobs /\ Placed(j)' /\ Excused(j)'
    BY <1>3, <1>4 DEF Lasts, Placed
  <2>2. PICK x : x = Released(j, tick.terminal)
    OBVIOUS
  <2>3. ledger' = [ledger EXCEPT ![j] = x]
    BY <1>2, <2>2 DEF ReportAccepted
  <2>4. UNCHANGED stopped
    BY DEF ReportAccepted, restVars
  <2> QED BY <1>1, <1>3, <1>4, <2>3, <2>4, LedgerGoes
<1>6. TickFits'
  BY RestingTick, RestingFits DEF ReportAccepted
<1> QED BY <1>4, <1>5, <1>6 DEF ReportInv

LEMMA FetchedReports ==
  ASSUME ReportInv, Fetched \/ CallRefused \/ Acknowledged
  PROVE  ReportInv'
<1>1. /\ AssignInv /\ TickFits /\ LedgerFits /\ CoreKept /\ CoreCount
      /\ UNCHANGED <<ledger, stopped>>
      /\ tick.call \in Calls /\ Goto(tick.call, Idle)
      /\ call[tick.call].pc \in {"answered", "failed"}
  BY EventsKeepCoreCount
     DEF Fetched, CallRefused, Acknowledged, ReportInv, Ticking, At, TickFits, restVars
<1>2. AssignInv' /\ Lasts
  BY <1>1, IdleTouches, AppLasts
<1>3. TickFits'
  <2>1. CASE CallRefused
    BY <2>1, RestingTick, RestingFits DEF CallRefused
  <2>2. CASE Fetched
    <3>1. PICK q : q = call[tick.call]
      OBVIOUS
    <3>2. q.pc = "answered" /\ CallFits(q)
      BY <1>1, <2>2, <3>1 DEF Fetched, At, AssignInv
    <3>3. \A j \in q.offers : Placed(j)
      BY <3>2 DEF CallFits, GetFits, PostFits, DoneFits, GetPcs, PostPcs
    <3>4. tick'.call = 0 /\ tick'.pc = "offer" /\ tick'.offers = q.offers
      BY <2>2, <3>1 DEF Fetched, Resting
    <3> QED BY <1>2, <3>3, <3>4, RestingFits DEF Lasts, Placed
  <2>3. CASE Acknowledged
    <3>1. tick'.call = 0 /\ tick'.pc = "offer" /\ tick'.offers = tick.offers
      BY <2>3 DEF Acknowledged, Resting
    <3>2. \A j \in tick.offers : Placed(j)
      BY <1>1 DEF TickFits
    <3> QED BY <1>2, <3>1, <3>2, RestingFits DEF Lasts, Placed
  <2> QED BY <2>1, <2>2, <2>3
<1> QED BY <1>1, <1>2, <1>3, LedgerStays DEF ReportInv

\* Core and the tick go on as they were.
LEMMA TickStays ==
  ASSUME ReportInv, CoreKept, CoreCount, UNCHANGED call,
         UNCHANGED tick \/ /\ tick'.call = tick.call /\ tick'.offers = tick.offers
                           /\ tick'.job = tick.job /\ tick'.pc = tick.pc
  PROVE  AssignInv' /\ Lasts /\ TickFits'
<1>1. AssignInv' /\ Lasts /\ TickFits
  BY AppLasts DEF ReportInv
<1>2. ASSUME tick.pc = "reporting" PROVE ReportFits(call[tick.call])'
  <2>1. PICK j, q : j = tick.job /\ q = call[tick.call]
    OBVIOUS
  <2>2. Placed(j) /\ ReportFits(q) /\ j = tick'.job /\ q = call'[tick'.call]
    BY <1>1, <1>2, <2>1 DEF TickFits
  <2>3. Excused(j) => Excused(j)'
    BY <1>1, <2>2 DEF Lasts, Placed
  <2> QED BY <2>1, <2>2, <2>3 DEF ReportFits
<1>3. TickFits'
  BY <1>1, <1>2 DEF TickFits, Lasts, Placed
<1> QED BY <1>1, <1>3

LEMMA OfferReports ==
  ASSUME ReportInv, TransportInv, OfferOrRest
  PROVE  ReportInv'
<1>1. /\ AssignInv /\ TickFits /\ LedgerFits /\ CoreKept /\ CoreCount
      /\ UNCHANGED <<call, stopped>> /\ tick.pc = "offer"
  BY EventsKeepCoreCount DEF OfferOrRest, ReportInv, Ticking, restVars
<1>2. AssignInv' /\ Lasts
  BY <1>1, AppLasts
<1>3. CASE tick' = Resting /\ UNCHANGED ledger
  BY <1>1, <1>2, <1>3, RestingTick, RestingFits, LedgerStays DEF ReportInv
<1>4. ASSUME NEW n \in DOMAIN Workers, NEW j \in Jobs, Dispatch(n, j)
      PROVE  ReportInv'
  <2>1. j \in tick.offers
    BY <1>4 DEF Dispatch, Offered, OffersFor
  <2>2. Placed(j)
    BY <1>1, <2>1 DEF TickFits
  <2>3. LedgerFits'
    BY <1>1, <1>2, <1>4, <2>2, LedgerGoes DEF Dispatch
  <2>4. /\ DOMAIN tick = {"pc", "n", "call", "offers", "job", "terminal", "tries", "taken"}
        /\ tick' = [tick EXCEPT !.pc = "send", !.n = n, !.job = j]
    BY <1>4 DEF Dispatch, TransportInv, AppTypes
  <2>5. /\ tick'.pc = "send" /\ tick'.call = tick.call /\ tick'.offers = tick.offers
        /\ tick'.job = j
    BY <2>4
  <2>6. TickFits'
    BY <1>1, <1>2, <2>2, <2>5 DEF TickFits, Lasts, Placed
  <2> QED BY <1>2, <2>3, <2>6 DEF ReportInv
<1> QED BY <1>3, <1>4 DEF OfferOrRest

LEMMA AskAgainReports ==
  ASSUME ReportInv, TransportInv, AskAgain
  PROVE  ReportInv'
<1>1. /\ AssignInv /\ TickFits /\ LedgerFits /\ CoreKept /\ CoreCount
      /\ UNCHANGED <<ledger, stopped>> /\ tick.pc = "delivered"
  BY EventsKeepCoreCount DEF AskAgain, ReportInv, Ticking, restVars
<1>2. PICK c \in Calls, j \in {tick.job, None} :
        /\ Start(c, Get(j)) /\ tick' = [tick EXCEPT !.pc = "acknowledging", !.call = c]
  BY DEF AskAgain
<1>3. j = None \/ Placed(j)
  BY <1>1, <1>2 DEF TickFits
<1>4. AssignInv' /\ Lasts
  BY <1>1, <1>2, <1>3, NewGetFits, StartTouches, AppLasts
<1>5. DOMAIN tick = {"pc", "n", "call", "offers", "job", "terminal", "tries", "taken"}
  BY DEF TransportInv, AppTypes
<1>6. tick'.pc = "acknowledging" /\ tick'.call = c /\ tick'.offers = tick.offers
  BY <1>2, <1>5
<1>7. TickFits'
  BY <1>1, <1>4, <1>6 DEF TickFits, Lasts, Placed
<1> QED BY <1>1, <1>4, <1>7, LedgerStays DEF ReportInv

LEMMA AbortReports ==
  ASSUME ReportInv, CallAborted \/ AppRestarts
  PROVE  ReportInv'
<1>1. /\ AssignInv /\ TickFits /\ LedgerFits /\ CoreKept /\ CoreCount
      /\ UNCHANGED <<ledger, stopped>> /\ tick' = Resting
  BY EventsKeepCoreCount DEF CallAborted, AppRestarts, ReportInv, EventKinds, restVars
<1>2. UNCHANGED call \/ \E c \in Calls : HangUp(c)
  BY <1>1 DEF CallAborted, AppRestarts, TickFits
<1>3. AssignInv' /\ Lasts
  BY <1>1, <1>2, HangUpTouches, AppLasts
<1>4. TickFits'
  BY <1>1, RestingTick, RestingFits
<1> QED BY <1>1, <1>3, <1>4, LedgerStays DEF ReportInv

\* The end of a command: of a job on record, which it does not release.
LEMMA CommandReports ==
  ASSUME ReportInv, TransportInv, CoreKept, CoreCount, UNCHANGED <<call, stopped>>, Sending,
         CommandSucceeds \/ CommandFails("error") \/ CommandFails("retry")
  PROVE  ReportInv'
<1>1. AssignInv /\ TickFits /\ LedgerFits
  BY DEF ReportInv
<1>2. AssignInv' /\ Lasts
  BY <1>1, AppLasts
<1>3. PICK j : j = tick.job
  OBVIOUS
<1>4. Placed(j) /\ tick.pc \in {"send", "navigate", "deliver"}
  BY <1>1, <1>3 DEF TickFits, Sending, Commanding, Ticking
<1>5. LedgerFits'
  <2>1. \/ UNCHANGED ledger
        \/ \E x \in {"sent", "error", "retry"} : ledger' = [ledger EXCEPT ![j] = x]
    BY <1>3 DEF CommandSucceeds, CommandFails, Recorded
  <2>2. \A x \in {"sent", "error", "retry"} : x \notin {"done", "blocked"}
    OBVIOUS
  <2> QED BY <1>1, <1>2, <1>4, <2>1, <2>2, LedgerGoes, LedgerStays
<1>6. TickFits'
  <2>1. CASE tick' = Resting
    BY <2>1, RestingTick, RestingFits
  <2>2. CASE tick' # Resting
    <3>1. DOMAIN tick = {"pc", "n", "call", "offers", "job", "terminal", "tries", "taken"}
      BY DEF TransportInv, AppTypes
    <3>2. /\ tick'.pc \in {"send", "navigate", "deliver", "delivered"} /\ tick'.job = j
          /\ tick'.call = tick.call /\ tick'.offers = tick.offers
      BY <1>3, <1>4, <2>2, <3>1 DEF CommandSucceeds, CommandFails, Ticking
    <3> QED BY <1>1, <1>2, <1>4, <3>2 DEF TickFits, Lasts, Placed
  <2> QED BY <2>1, <2>2
<1> QED BY <1>2, <1>5, <1>6 DEF ReportInv

LEMMA SendNavigateReports ==
  ASSUME ReportInv, TransportInv, SendNavigate
  PROVE  ReportInv'
<1>1. /\ CoreKept /\ CoreCount /\ UNCHANGED <<call, stopped>> /\ Sending
      /\ AssignInv /\ TickFits /\ LedgerFits
  BY EventsKeepCoreCount DEF SendNavigate, ReportInv, Sending, restVars
<1>2. CASE CommandFails("error")
  BY <1>1, <1>2, CommandReports
<1>3. CASE tick' = [tick EXCEPT !.pc = "navigate"] /\ UNCHANGED ledger
  <2>1. AssignInv' /\ Lasts
    BY <1>1, AppLasts
  <2>2. PICK j : j = tick.job
    OBVIOUS
  <2>3. Placed(j)
    BY <1>1, <2>2 DEF TickFits, SendNavigate, Ticking
  <2>4. /\ tick'.pc = "navigate" /\ tick'.job = j
        /\ tick'.call = tick.call /\ tick'.offers = tick.offers
    BY <1>3, <2>2 DEF TransportInv, AppTypes
  <2>5. TickFits'
    BY <1>1, <2>1, <2>3, <2>4 DEF TickFits, Lasts, Placed
  <2> QED BY <1>1, <1>3, <2>1, <2>5, LedgerStays DEF ReportInv
<1> QED BY <1>2, <1>3 DEF SendNavigate

\* A security stop ends jobs that were inserted, and is remembered for them.
LEMMA StopReports ==
  ASSUME ReportInv, TransportInv, NEW w \in WorkerSet, Heartbeat(w), SecurityStop(w)
  PROVE  ReportInv'
<1>1. CoreKept /\ CoreCount /\ UNCHANGED <<call, tick>> /\ LedgerFits
  BY EventsKeepCoreCount DEF Heartbeat, SecurityStop, ReportInv, EventKinds
<1>2. AssignInv' /\ Lasts /\ TickFits'
  BY <1>1, TickStays
<1>3. ASSUME NEW j \in Jobs
      PROVE  (\/ j \in Active(w) /\ ledger[j] # "none" /\ ledger'[j] = "blocked" /\ j \in stopped'
              \/ ledger'[j] = ledger[j]) /\ (j \in stopped => j \in stopped')
  BY DEF SecurityStop, Active
<1>4. LedgerFits'
  BY <1>1, <1>2, <1>3 DEF LedgerFits, Lasts
<1> QED BY <1>2, <1>4 DEF ReportInv

LEMMA BridgeReports ==
  ASSUME ReportInv, TransportInv, NEW w \in WorkerSet,
         \/ Heartbeat(w) \/ BridgeStep(w) \/ AssistantAnswers(w)
         \/ SubmitFails(w) \/ ResultIsLost(w) \/ Unblock(w)
  PROVE  ReportInv'
<1>1. CoreKept /\ CoreCount /\ UNCHANGED call /\ LedgerFits
  BY EventsKeepCoreCount
     DEF Heartbeat, SecurityStop, Unblock, BridgeStep, TakeCommand, Navigate, Submit, PostResult, SubmitFails,
         ResultIsLost, AssistantAnswers, EventKinds, ReportInv
<1>2. CASE PostResult(w) \/ ResultIsLost(w)
  <2>1. hand \in [WorkerSet -> {NoCommand} \cup Commands] /\ HandIsHonest
    BY DEF TransportInv, AppTypes
  <2>2. hand[w].result \in {"none", "ok", "retry", "error"} /\ Holds(w)
    BY <1>2, <2>1 DEF PostResult, ResultIsLost, Commands, Holds
  <2>3. \/ UNCHANGED <<tick, ledger>>
        \/ /\ hand[w].awaited
           /\ CommandSucceeds \/ CommandFails("error") \/ CommandFails("retry")
    BY <1>2, <2>2 DEF PostResult, ResultIsLost
  <2>4. hand[w].awaited => Commanding
    BY <2>1, <2>2 DEF HandIsHonest, AwaitedIsTheTicks
  <2>5. UNCHANGED stopped
    BY <1>2 DEF PostResult, ResultIsLost, StopKept
  <2>6. CASE UNCHANGED <<tick, ledger>>
    BY <1>1, <2>5, <2>6, TickStays, LedgerStays DEF ReportInv
  <2> QED BY <1>1, <2>3, <2>4, <2>5, <2>6, CommandReports DEF Sending
<1>3. CASE TakeCommand(w)
  <2>1. DOMAIN tick = {"pc", "n", "call", "offers", "job", "terminal", "tries", "taken"}
    BY DEF TransportInv, AppTypes
  <2>2. /\ tick'.call = tick.call /\ tick'.offers = tick.offers
        /\ tick'.job = tick.job /\ tick'.pc = tick.pc 
        /\ UNCHANGED <<ledger, stopped>>
    BY <1>3, <2>1 DEF TakeCommand, StopKept
  <2> QED BY <1>1, <2>2, TickStays, LedgerStays DEF ReportInv
<1>4. CASE \/ Heartbeat(w) /\ UNCHANGED ledger /\ StopKept
           \/ Navigate(w) \/ Submit(w) \/ AssistantAnswers(w) \/ SubmitFails(w) \/ Unblock(w)
  <2>1. UNCHANGED <<tick, ledger, stopped>>
    BY <1>4 DEF Heartbeat, Navigate, Submit, AssistantAnswers, SubmitFails, Unblock, StopKept
  <2> QED BY <1>1, <2>1, TickStays, LedgerStays DEF ReportInv
<1>5. CASE Heartbeat(w) /\ SecurityStop(w)
  BY <1>5, StopReports
<1> QED BY <1>2, <1>3, <1>4, <1>5 DEF BridgeStep, Heartbeat

LEMMA TimeoutReports ==
  ASSUME ReportInv, TransportInv, CommandTimesOut
  PROVE  ReportInv'
<1>1. CoreKept /\ UNCHANGED <<call, stopped>> /\ Sending
  BY DEF CommandTimesOut, StopKept, Sending
<1>2. /\ CommandFails("error") \/ CommandFails("retry")
      /\ UNCHANGED events \/ Event("net")
  BY DEF CommandTimesOut
<1>3. CoreCount
  BY <1>1, <1>2, EventsKeepCoreCount DEF ReportInv, EventKinds
<1> QED BY <1>1, <1>2, <1>3, CommandReports

LEMMA ReportInit == Init => ReportInv
<1> SUFFICES ASSUME Init PROVE ReportInv
  OBVIOUS
<1>1. CoreInit /\ tick = Resting /\ ledger = [j \in Jobs |-> "none"]
  BY DEF Init
<1>2. IssueTypes
  <2>1. \A i \in Issues : issue[i] = [state |-> "open", rev |-> 1, comments |-> << >>, full |-> FALSE]
    BY <1>1 DEF CoreInit
  <2>2. DOMAIN issue = Issues /\ 1 \in 1 .. MaxRevision
    BY <1>1, UiConstants DEF CoreInit
  <2>3. ASSUME NEW i \in Issues
        PROVE  /\ DOMAIN issue[i] = {"state", "rev", "comments", "full"}
               /\ issue[i].rev = 1 /\ issue[i].full = FALSE
    BY <2>1, <2>3
  <2>4. \A i \in Issues : issue[i].full \in BOOLEAN
    BY <2>3, Zenon
  <2> QED BY <2>2, <2>3, <2>4 DEF IssueTypes
<1>3. CoreTypes
  BY <1>1, <1>2 DEF CoreInit, CoreTypes
<1>4. \A c \in Calls : call[c] = Idle
  BY <1>1 DEF CoreInit
<1>5. OneInserts /\ \A c \in Calls : CallFits(call[c])
  BY <1>4 DEF OneInserts, CallFits, DoneFits, Idle
<1>6. \A j \in Jobs : RowFits(j)
  BY <1>1 DEF CoreInit, RowFits
<1>7. TickFits /\ LedgerFits
  BY <1>1 DEF TickFits, LedgerFits, Resting
<1> QED BY <1>3, <1>5, <1>6, <1>7 DEF ReportInv, AssignInv

LEMMA ReportsKept == ReportInv /\ TransportInv /\ [Next]_vars => ReportInv'
<1> SUFFICES ASSUME ReportInv, TransportInv, [Next]_vars PROVE ReportInv'
  OBVIOUS
<1>1. CASE Core
  <2>1. CoreKeeps
    BY <1>1, CoreKeepsAll DEF Core, ReportInv
  <2> QED BY <1>1, <2>1, CoreStepReports DEF Core
<1>2. CASE TickStep
  BY <1>2, ReportOrFetchReports, ReportAcceptedReports, FetchedReports, OfferReports,
     SendNavigateReports, AskAgainReports DEF TickStep
<1>3. CASE CommandTimesOut
  BY <1>3, TimeoutReports
<1>4. CASE CallAborted \/ AppRestarts
  BY <1>4, AbortReports
<1>5. ASSUME NEW w \in WorkerSet,
             \/ Heartbeat(w) \/ BridgeStep(w) \/ AssistantAnswers(w)
             \/ SubmitFails(w) \/ ResultIsLost(w) \/ Unblock(w)
      PROVE  ReportInv'
  BY <1>5, BridgeReports
<1>6. CASE UNCHANGED vars
  <2>1. CoreKept /\ UNCHANGED <<call, events, tick, ledger, stopped>>
    BY <1>6 DEF vars, coreVars, appVars, CoreKept
  <2> QED BY <2>1, TickStays, LedgerStays, EventsKeepCoreCount DEF ReportInv
<1> QED BY <1>1, <1>2, <1>3, <1>4, <1>5, <1>6 DEF Next, AppFault

\* Only a handler cut off between its two statements for a job, by a failed
\* one or by a restart of Core, leaves an active objective without a live job
\* and without a handler that gives it one or ends it.
THEOREM NoOrphans == Spec => []OrphansWereCutOff
<1>1. ReportInv => OrphansWereCutOff
  BY DEF ReportInv, AssignInv, RowFits, OrphansWereCutOff
<1> QED BY <1>1, InitHolds, TransportKept, ReportInit, ReportsKept, PTL DEF Spec

\* A job that App Chrome has released is settled at Core, or about to be, if
\* it was not a security stop that released it.
THEOREM ReleasedStaysSettled == Spec => []ReleasedIsSettled
<1>1. ReportInv => ReleasedIsSettled
  BY DEF ReportInv, LedgerFits, Excused, ReleasedIsSettled
<1> QED BY <1>1, InitHolds, TransportKept, ReportInit, ReportsKept, PTL DEF Spec

-----------------------------------------------------------------------------
(***************************************************************************)
(* The evidence on GitHub.                                                 *)
(***************************************************************************)
Holder(c)     == call[c].pc \in {"evidence", "comment", "close", "commit"}
Commenting(j) == \E c \in Calls : call[c].pc = "comment" /\ call[c].job = j
Comments      == [job : Jobs, terminal : Terminals, late : BOOLEAN]

\* The handlers that hold the terminal key of a job exclude each other, and the
\* one that is about to comment has found no comment, unless it was blind.
EvidenceFits(j) ==
  Cardinality(EvidenceOf(j)) + (IF Commenting(j) THEN 1 ELSE 0) <= 1 + events["blind"]
EvidenceInv ==
  /\ \A i \in Issues : issue[i].comments \in Seq(Comments)
  /\ \A c \in Calls : call[c].pc \in PostPcs => call[c].terminal \in Terminals
  /\ \A c, d \in Calls : c # d /\ Holder(c) /\ Holder(d) => call[c].job # call[d].job
  /\ \A j \in Jobs : EvidenceFits(j)

LEMMA EvidenceIsCounted ==
  ASSUME EvidenceInv, NEW j \in Jobs
  PROVE  IsFiniteSet(EvidenceOf(j)) /\ Cardinality(EvidenceOf(j)) \in Nat
<1>1. PICK s \in Seq(Comments) : s = issue[j[1]].comments
  BY DEF EvidenceInv, Jobs
<1>2. EvidenceOf(j) \subseteq 1 .. Len(s)
  BY <1>1 DEF EvidenceOf
<1>3. IsFiniteSet(1 .. Len(s))
  BY FS_Interval
<1> QED BY <1>2, <1>3, FS_Subset, FS_CardinalityType

\* One more comment is evidence of its own job only, and of that only on the
\* first page.
LEMMA CommentIsEvidence ==
  ASSUME EvidenceInv, IssueTypes, NEW g, g.job \in Jobs, g.terminal \in Terminals,
         issue' = WithComment(g)
  PROVE  /\ \A i \in Issues : issue'[i].comments \in Seq(Comments)
         /\ \A j \in Jobs :
              \/ Cardinality(EvidenceOf(j))' = Cardinality(EvidenceOf(j))
              \/ j = g.job /\ Cardinality(EvidenceOf(j))' = Cardinality(EvidenceOf(j)) + 1
<1>1. PICK i \in Issues, m \in Comments :
        i = g.job[1] /\ m = [job |-> g.job, terminal |-> g.terminal, late |-> issue[i].full]
  BY DEF Jobs, Comments, IssueTypes
<1>2. issue[i].comments \in Seq(Comments)
  BY DEF EvidenceInv
<1>3. /\ issue'[i].comments = Append(issue[i].comments, m)
      /\ \A k \in Issues \ {i} : issue'[k].comments = issue[k].comments
  BY <1>1 DEF WithComment, IssueTypes
<1>4. \A k \in Issues : issue'[k].comments \in Seq(Comments)
  <2>1. PICK s \in Seq(Comments) : s = issue[i].comments
    BY <1>2
  <2>2. Append(s, m) \in Seq(Comments)
    OBVIOUS
  <2> QED BY <1>3, <2>1, <2>2 DEF EvidenceInv
<1>5. ASSUME NEW j \in Jobs
      PROVE  \/ Cardinality(EvidenceOf(j))' = Cardinality(EvidenceOf(j))
             \/ j = g.job /\ Cardinality(EvidenceOf(j))' = Cardinality(EvidenceOf(j)) + 1
  <2>1. j[1] \in Issues
    BY DEF Jobs
  <2>2. CASE j[1] # i
    <3>1. EvidenceOf(j)' = EvidenceOf(j)
      BY <1>1, <1>3, <2>1, <2>2 DEF EvidenceOf
    <3> QED BY <3>1
  <2>3. CASE j[1] = i
    <3>1. PICK s \in Seq(Comments) : s = issue[i].comments
      BY <1>2
    <3>2. EvidenceOf(j) = {n \in 1 .. Len(s) : s[n].job = j /\ ~s[n].late}
      BY <2>3, <3>1 DEF EvidenceOf
    <3>3. EvidenceOf(j)' = {n \in 1 .. Len(s) + 1 :
                             Append(s, m)[n].job = j /\ ~Append(s, m)[n].late}
      <4>1. PICK t : t = Append(s, m)
        OBVIOUS
      <4>2. DOMAIN t = 1 .. Len(s) + 1
        BY <3>1, <4>1
      <4>3. issue'[j[1]].comments = t
        BY <1>3, <2>3, <3>1, <4>1
      <4>4. EvidenceOf(j)' = {n \in DOMAIN t : t[n].job = j /\ ~t[n].late}
        BY <4>3 DEF EvidenceOf
      <4> QED BY <4>1, <4>2, <4>4
    <3>4. m.job = g.job /\ Len(s) \in Nat
      BY <1>1, <3>1
    <3>5. CASE j = g.job /\ ~m.late
      <4>1. EvidenceOf(j)' = EvidenceOf(j) \cup {Len(s) + 1} /\ Len(s) + 1 \notin EvidenceOf(j)
        BY <3>1, <3>2, <3>3, <3>4, <3>5
      <4>2. Cardinality(EvidenceOf(j)') = Cardinality(EvidenceOf(j)) + 1
        BY <4>1, EvidenceIsCounted, FS_AddElement
      <4> QED BY <3>5, <4>2
    <3>6. CASE j # g.job \/ m.late
      <4>1. EvidenceOf(j)' = EvidenceOf(j)
        BY <3>1, <3>2, <3>3, <3>4, <3>6
      <4> QED BY <4>1
    <3> QED BY <3>5, <3>6
  <2> QED BY <2>2, <2>3
<1> QED BY <1>4, <1>5

\* A handler that neither takes the key nor decides to comment.
MovesOn(c) ==
  \/ call'[c].pc \notin PostPcs
  \/ call'[c].pc = "lock" /\ call'[c].terminal \in Terminals
  \/ /\ call[c].pc \in PostPcs /\ call'[c].job = call[c].job
     /\ call'[c].terminal \in Terminals
     /\ Holder(c)' => Holder(c)
     /\ call'[c].pc = "comment" => call[c].pc = "comment"
BlindCount == events'["blind"] \in Nat /\ events'["blind"] >= events["blind"]

LEMMA EvidenceStays ==
  ASSUME EvidenceInv, CoreTypes, BlindCount,
         \A i \in Issues : issue'[i].comments = issue[i].comments,
         \A c \in Calls : MovesOn(c)
  PROVE  EvidenceInv'
<1>1. \A j \in Jobs : EvidenceOf(j)' = EvidenceOf(j)
  BY DEF EvidenceOf, Jobs
<1>2. \A j \in Jobs : Commenting(j)' => Commenting(j)
  BY DEF Commenting, MovesOn, PostPcs
<1>3. ASSUME NEW j \in Jobs PROVE EvidenceFits(j)'
  <2>1. Cardinality(EvidenceOf(j)) \in Nat /\ events["blind"] \in Nat
    BY EvidenceIsCounted DEF CoreTypes, EventKinds
  <2>2. Cardinality(EvidenceOf(j))' = Cardinality(EvidenceOf(j))
    BY <1>1
  <2> QED BY <1>2, <2>1, <2>2 DEF EvidenceInv, EvidenceFits, BlindCount
<1>4. \A c \in Calls : call'[c].pc \in PostPcs => call'[c].terminal \in Terminals
  BY DEF MovesOn, PostPcs
<1>5. \A c, d \in Calls : c # d /\ Holder(c)' /\ Holder(d)' => call'[c].job # call'[d].job
  BY DEF MovesOn, Holder, PostPcs, EvidenceInv
<1> QED BY <1>3, <1>4, <1>5 DEF EvidenceInv

\* It is enough that the one handler that moves moves on.
LEMMA OneMovesOn ==
  ASSUME EvidenceInv, CoreTypes, NEW c \in Calls, NEW q, Goto(c, q),
         \/ q.pc \notin PostPcs
         \/ q.pc = "lock" /\ q.terminal \in Terminals
         \/ /\ call[c].pc \in PostPcs /\ q.job = call[c].job
            /\ q.terminal \in Terminals
            /\ q.pc \in {"evidence", "comment", "close", "commit"} => Holder(c)
            /\ q.pc = "comment" => call[c].pc = "comment"
  PROVE  \A d \in Calls : MovesOn(d)
<1>1. call'[c] = q /\ \A d \in Calls \ {c} : call'[d] = call[d]
  BY DEF CoreTypes, Goto
<1>2. MovesOn(c)
  BY <1>1 DEF MovesOn, Holder
<1>3. \A d \in Calls \ {c} : MovesOn(d)
  BY <1>1 DEF MovesOn, Holder, EvidenceInv
<1> QED BY <1>2, <1>3

LEMMA EventsKeepBlindCount ==
  ASSUME CoreTypes,
         UNCHANGED events \/ \E k \in EventKinds : Event(k)
  PROVE  BlindCount
<1>1. events \in [EventKinds -> Nat] /\ "blind" \in EventKinds
  BY DEF CoreTypes, EventKinds
<1>2. ASSUME NEW k \in EventKinds, Event(k) PROVE BlindCount
  <2>1. events' \in [EventKinds -> Nat] /\ events'["blind"] \in {events["blind"], events["blind"] + 1}
    BY <1>1, <1>2, EventCounts
  <2> QED BY <1>1, <2>1 DEF BlindCount
<1> QED BY <1>1, <1>2 DEF BlindCount

\* The handler of a GET leaves the comments alone, and never becomes a report's.
LEMMA GetGoesOn ==
  ASSUME AssignInv, CoreKeeps, NEW c \in Calls,
         GetStep(c) \/ ListFails(c) \/ ContextFails(c)
  PROVE  /\ UNCHANGED issue /\ (UNCHANGED events \/ Event("net"))
         /\ \E q : Goto(c, q) /\ q.pc \notin PostPcs
<1>1. CoreTypes
  BY DEF AssignInv
<1>2. UNCHANGED issue /\ (UNCHANGED events \/ Event("net")) /\ call[c].pc \in GetPcs
  BY DEF GetStep, ReadPrevious, Acknowledge, ReadWorker, SettleJob, SettleObjective,
     ListIssues, SelectWorker, TrySpec, InsertObjective, InsertJob, Reply, ListFails,
     ContextFails, At, GetPcs
<1>3. \E q : Goto(c, q)
  BY DEF GetStep, ReadPrevious, Acknowledge, ReadWorker, SettleJob, SettleObjective,
     ListIssues, SelectWorker, TrySpec, InsertObjective, InsertJob, Reply, ListFails,
     ContextFails, Reconcile, Answer
<1>4. PICK q : Goto(c, q)
  BY <1>3
<1>5. q = call'[c]
  BY <1>1, <1>4 DEF CoreTypes, Goto
<1>6. q.pc \notin PostPcs
  BY <1>2, <1>5 DEF CoreKeeps, Follows, GetPcs, PostPcs
<1> QED BY <1>2, <1>4, <1>6

LEMMA GetEvidence ==
  ASSUME AssignInv, EvidenceInv, CoreKeeps, NEW c \in Calls,
         GetStep(c) \/ ListFails(c) \/ ContextFails(c)
  PROVE  EvidenceInv'
<1>1. CoreTypes
  BY DEF AssignInv
<1>2. PICK q : /\ Goto(c, q) /\ q.pc \notin PostPcs
               /\ UNCHANGED issue /\ (UNCHANGED events \/ Event("net"))
  BY GetGoesOn
<1>3. BlindCount
  BY <1>1, <1>2, EventsKeepBlindCount DEF EventKinds
<1> QED BY <1>1, <1>2, <1>3, OneMovesOn, EvidenceStays

LEMMA OutsideEvidence ==
  ASSUME AssignInv, EvidenceInv,
         CoreRestarts \/ \E i \in Issues : IssueChanges(i) \/ FirstPageFills(i)
  PROVE  EvidenceInv'
<1>1. CoreTypes /\ IssueTypes
  BY DEF AssignInv, CoreTypes
<1>2. BlindCount
  BY <1>1, EventsKeepBlindCount DEF CoreRestarts, IssueChanges, FirstPageFills, EventKinds
<1>3. CASE CoreRestarts
  <2>1. \A c \in Calls : MovesOn(c)
    BY <1>3 DEF CoreRestarts, MovesOn, Refusal, Idle, PostPcs
  <2> QED BY <1>1, <1>2, <1>3, <2>1, EvidenceStays DEF CoreRestarts
<1>4. ASSUME NEW i \in Issues, IssueChanges(i) \/ FirstPageFills(i) PROVE EvidenceInv'
  <2>1. \A k \in Issues : issue'[k].comments = issue[k].comments
    BY <1>1, <1>4 DEF IssueChanges, FirstPageFills, IssueTypes
  <2>2. \A c \in Calls : MovesOn(c)
    BY <1>4 DEF IssueChanges, FirstPageFills, MovesOn, Holder, EvidenceInv
  <2> QED BY <1>1, <1>2, <2>1, <2>2, EvidenceStays
<1> QED BY <1>3, <1>4

\* The handler that takes the key of a job is the only one that holds it.
LEMMA LockEvidence ==
  ASSUME AssignInv, EvidenceInv, NEW c \in Calls, TakeLock(c)
  PROVE  EvidenceInv'
<1>1. /\ PostFits(call[c]) /\ CoreTypes /\ call[c].pc = "lock" /\ ~Locked(call[c].job)
      /\ call[c].terminal \in Terminals
  BY AtPost DEF TakeLock, PostPcs, AssignInv, At, EvidenceInv
<1>2. UNCHANGED <<issue, events>>
  BY DEF TakeLock
<1>3. PICK q : /\ Goto(c, q)
               /\ q = [call[c] EXCEPT !.pc = "evidence"] \/ q.pc \notin PostPcs
  BY DEF TakeLock, Answer, Accepted, Idle, PostPcs
<1>4. CASE q.pc \notin PostPcs
  BY <1>1, <1>2, <1>3, <1>4, OneMovesOn, EvidenceStays, EventsKeepBlindCount
<1>5. CASE q = [call[c] EXCEPT !.pc = "evidence"]
  <2>1. /\ q.pc = "evidence" /\ q.job = call[c].job /\ q.terminal = call[c].terminal
    BY <1>1, <1>5 DEF PostFits, PostFields
  <2>2. call'[c] = q /\ \A d \in Calls \ {c} : call'[d] = call[d]
    BY <1>1, <1>3 DEF CoreTypes, Goto
  <2>3. \A d \in Calls : call'[d].pc \in PostPcs => call'[d].terminal \in Terminals
    BY <1>1, <2>1, <2>2 DEF EvidenceInv
  <2>4. \A d, e \in Calls : d # e /\ Holder(d)' /\ Holder(e)' => call'[d].job # call'[e].job
    BY <1>1, <2>1, <2>2 DEF EvidenceInv, Holder, Locked
  <2>5. \A j \in Jobs : EvidenceFits(j)'
    <3>1. \A j \in Jobs : Commenting(j)' <=> Commenting(j)
      BY <1>1, <2>1, <2>2 DEF Commenting
    <3>2. \A j \in Jobs : EvidenceOf(j)' = EvidenceOf(j)
      BY <1>2 DEF EvidenceOf
    <3> QED BY <1>2, <3>1, <3>2 DEF EvidenceInv, EvidenceFits
  <2> QED BY <1>2, <2>3, <2>4, <2>5 DEF EvidenceInv
<1> QED BY <1>3, <1>4, <1>5

\* Who holds the key of a job and reads its evidence is alone with it.
LEMMA NobodyElseComments ==
  ASSUME EvidenceInv, NEW c \in Calls, Holder(c), NEW d \in Calls, d # c,
         call[d].pc = "comment"
  PROVE  call[d].job # call[c].job
BY DEF EvidenceInv, Holder

\* It decides to comment when there is no evidence, or when it was blind.
LEMMA DecideEvidence ==
  ASSUME AssignInv, EvidenceInv, NEW c \in Calls, ReadEvidence(c), NEW q, Goto(c, q),
         q.pc = "comment", q.job = call[c].job, q.terminal \in Terminals
  PROVE  EvidenceInv'
<1>1. CoreTypes /\ call[c].pc = "evidence" /\ UNCHANGED issue /\ Holder(c)
  BY DEF ReadEvidence, AssignInv, At, Holder
<1>2. call'[c] = q /\ \A d \in Calls \ {c} : call'[d] = call[d]
  BY <1>1 DEF CoreTypes, Goto
<1>3. PICK j \in Jobs : j = call[c].job
  BY <1>1, AtPost DEF PostPcs, At, PostFits, Placed
<1>4. \/ Evidence(j) = {} /\ UNCHANGED events
      \/ Event("blind")
  <2> DEFINE i == call[c].job[1]
             g == [call[c] EXCEPT !.open =
                    /\ issue[i].state = "open"
                    /\ {call[c].job, <<i, issue[i].rev>>} \cap KeptOpen = {}]
  <2>0. PostFits(call[c])
    BY <1>1, AtPost DEF PostPcs, At
  <2>1. g.job = j /\ DOMAIN g = PostFields
    BY <1>3, <2>0 DEF PostFits, PostFields
  <2>2. CASE Event("blind")
    BY <2>2
  <2>3. CASE ~Event("blind")
    <3>1. /\ UNCHANGED events
          /\ Goto(c, IF Evidence(g.job) = {} THEN [g EXCEPT !.pc = "comment"]
                     ELSE Commented([g EXCEPT !.terminal =
                            issue[i].comments[Least(Evidence(g.job))].terminal]))
      BY <2>3 DEF ReadEvidence
    <3> HIDE DEF g
    <3>2. ASSUME NEW t PROVE Commented([g EXCEPT !.terminal = t]).pc # "comment"
      BY <2>1 DEF Commented, PostFields
    <3>3. CASE Evidence(g.job) # {}
      <4>1. PICK t : Goto(c, Commented([g EXCEPT !.terminal = t]))
        BY <3>1, <3>3
      <4>2. PICK p : p = Commented([g EXCEPT !.terminal = t])
        OBVIOUS
      <4>3. p.pc # "comment"
        BY <3>2, <4>2
      <4>4. call'[c] = p
        BY <1>1, <4>1, <4>2 DEF Goto, CoreTypes
      <4> QED BY <1>2, <4>3, <4>4
    <3> QED BY <2>1, <3>1, <3>3
  <2> QED BY <2>2, <2>3
<1>5. /\ \A k \in Jobs \ {j} : Commenting(k)' => Commenting(k)
      /\ ~Commenting(j)
  BY <1>1, <1>2, <1>3, NobodyElseComments DEF Commenting
<1>6. \A k \in Jobs : EvidenceOf(k)' = EvidenceOf(k)
  BY <1>1 DEF EvidenceOf
<1>7. ASSUME NEW k \in Jobs PROVE EvidenceFits(k)'
  <2>1. Cardinality(EvidenceOf(k)) \in Nat /\ events["blind"] \in Nat
    BY <1>1, EvidenceIsCounted DEF CoreTypes, EventKinds
  <2>2. EvidenceFits(k)
    BY DEF EvidenceInv
  <2>3. Cardinality(EvidenceOf(k))' = Cardinality(EvidenceOf(k))
    BY <1>6
  <2>4. CASE Event("blind")
    <3>1. events'["blind"] = events["blind"] + 1
      BY <1>1, <2>4, EventCounts DEF CoreTypes, EventKinds
    <3> QED BY <1>5, <2>1, <2>2, <2>3, <3>1 DEF EvidenceFits
  <2>5. CASE Evidence(j) = {} /\ UNCHANGED events
    <3>1. EvidenceOf(j) = {}
      BY <2>5 DEF Evidence, EvidenceOf
    <3>2. Cardinality(EvidenceOf(j)) = 0
      BY <3>1, FS_EmptySet
    <3> QED BY <1>5, <2>1, <2>2, <2>3, <2>5, <3>2 DEF EvidenceFits
  <2> QED BY <1>4, <2>4, <2>5
<1>8. \A d, e \in Calls : d # e /\ Holder(d)' /\ Holder(e)' => call'[d].job # call'[e].job
  BY <1>1, <1>2 DEF EvidenceInv, Holder
<1>9. \A d \in Calls : call'[d].pc \in PostPcs => call'[d].terminal \in Terminals
  BY <1>2 DEF EvidenceInv
<1> QED BY <1>1, <1>7, <1>8, <1>9 DEF EvidenceInv

LEMMA ReadEvidenceEvidence ==
  ASSUME AssignInv, EvidenceInv, NEW c \in Calls, ReadEvidence(c)
  PROVE  EvidenceInv'
<1>1. /\ PostFits(call[c]) /\ CoreTypes /\ call[c].pc = "evidence" /\ UNCHANGED issue
      /\ call[c].terminal \in Terminals
  BY AtPost DEF ReadEvidence, PostPcs, AssignInv, At, EvidenceInv
<1>2. BlindCount
  BY <1>1, EventsKeepBlindCount DEF ReadEvidence, EventKinds
<1>3. PICK q : /\ Goto(c, q) /\ q.pc \in {"comment", "close", "commit"}
               /\ q.job = call[c].job /\ q.terminal \in Terminals
  <2> DEFINE i == call[c].job[1]
             g == [call[c] EXCEPT !.open =
                    /\ issue[i].state = "open"
                    /\ {call[c].job, <<i, issue[i].rev>>} \cap KeptOpen = {}]
             past == Evidence(g.job)
             t == issue[i].comments[Least(past)].terminal
  <2>1. /\ g.job = call[c].job /\ g.terminal \in Terminals /\ DOMAIN g = PostFields
    BY <1>1 DEF PostFits, PostFields
  <2>2. \/ Goto(c, [g EXCEPT !.pc = "comment"])
        \/ past # {} /\ Goto(c, Commented([g EXCEPT !.terminal = t]))
    BY DEF ReadEvidence
  <2>3. past # {} => t \in Terminals
    <3>1. PICK s \in Seq(Comments) : s = issue[i].comments
      BY <1>1 DEF EvidenceInv, PostFits, Placed, Jobs
    <3>2. past \subseteq 1 .. Len(s)
      BY <2>1, <3>1 DEF Evidence
    <3>3. past # {} => Least(past) \in 1 .. Len(s)
      <4>1. past \in SUBSET Nat
        BY <3>1, <3>2
      <4> HIDE DEF past
      <4> QED BY <3>2, <4>1, LeastIsIn
    <3>4. past # {} => s[Least(past)] \in Comments
      BY <3>1, <3>3
    <3> QED BY <3>1, <3>4 DEF Comments
  <2> HIDE DEF g, past, t
  <2>4. ASSUME NEW p, p = [g EXCEPT !.pc = "comment"]
        PROVE  p.pc = "comment" /\ p.job = call[c].job /\ p.terminal \in Terminals
    BY <2>1, <2>4 DEF PostFields
  <2>5. ASSUME NEW p, p = Commented([g EXCEPT !.terminal = t]), past # {}
        PROVE  p.pc \in {"close", "commit"} /\ p.job = call[c].job /\ p.terminal \in Terminals
    BY <2>1, <2>3, <2>5 DEF PostFields, Commented
  <2> QED BY <2>2, <2>4, <2>5
<1>4. CASE q.pc = "comment"
  BY <1>3, <1>4, DecideEvidence
<1>5. CASE q.pc # "comment"
  BY <1>1, <1>2, <1>3, <1>5, OneMovesOn, EvidenceStays DEF PostPcs, Holder
<1> QED BY <1>4, <1>5

\* A comment is posted by the one handler that had decided to.
LEMMA CommentEvidence ==
  ASSUME AssignInv, EvidenceInv, NEW c \in Calls, At(c, "comment"), NEW q, Goto(c, q),
         \/ q.pc \notin PostPcs
         \/ /\ q.pc \in {"close", "commit"} /\ q.job = call[c].job
            /\ q.terminal = call[c].terminal,
         issue' = WithComment(call[c]), BlindCount
  PROVE  EvidenceInv'
<1>1. /\ PostFits(call[c]) /\ CoreTypes /\ IssueTypes /\ call[c].pc = "comment" /\ Holder(c)
      /\ call[c].terminal \in Terminals
  BY AtPost DEF PostPcs, AssignInv, At, EvidenceInv, Holder, CoreTypes
<1>2. call'[c] = q /\ \A d \in Calls \ {c} : call'[d] = call[d]
  BY <1>1 DEF CoreTypes, Goto
<1>3. PICK j \in Jobs : j = call[c].job
  BY <1>1 DEF PostFits, Placed
<1>4. /\ \A i \in Issues : issue'[i].comments \in Seq(Comments)
      /\ \A k \in Jobs :
           \/ Cardinality(EvidenceOf(k))' = Cardinality(EvidenceOf(k))
           \/ k = j /\ Cardinality(EvidenceOf(k))' = Cardinality(EvidenceOf(k)) + 1
  BY <1>1, <1>3, CommentIsEvidence
<1>5. /\ \A k \in Jobs \ {j} : Commenting(k)' => Commenting(k)
      /\ Commenting(j) /\ ~Commenting(j)'
  BY <1>1, <1>2, <1>3, NobodyElseComments DEF Commenting, PostPcs
<1>6. ASSUME NEW k \in Jobs PROVE EvidenceFits(k)'
  <2>1. Cardinality(EvidenceOf(k)) \in Nat /\ events["blind"] \in Nat
    BY <1>1, EvidenceIsCounted DEF CoreTypes, EventKinds
  <2>2. EvidenceFits(k)
    BY DEF EvidenceInv
  <2> QED BY <1>4, <1>5, <2>1, <2>2 DEF EvidenceFits, BlindCount
<1>7. \A d, e \in Calls : d # e /\ Holder(d)' /\ Holder(e)' => call'[d].job # call'[e].job
  BY <1>1, <1>2 DEF EvidenceInv, Holder, PostPcs
<1>8. \A d \in Calls : call'[d].pc \in PostPcs => call'[d].terminal \in Terminals
  BY <1>1, <1>2 DEF EvidenceInv
<1> QED BY <1>4, <1>6, <1>7, <1>8 DEF EvidenceInv

LEMMA PostEvidence ==
  ASSUME AssignInv, EvidenceInv, NEW c \in Calls,
         PostComment(c) \/ CloseIssue(c) \/ Commit(c) \/ CallFails(c)
  PROVE  EvidenceInv'
<1>1. CoreTypes /\ IssueTypes
  BY DEF AssignInv, CoreTypes
<1>2. BlindCount
  BY <1>1, EventsKeepBlindCount DEF PostComment, CloseIssue, Commit, CallFails, EventKinds
<1>3. CASE PostComment(c)
  <2>1. PostFits(call[c]) /\ At(c, "comment") /\ issue' = WithComment(call[c])
    BY <1>3, AtPost DEF PostComment, PostPcs
  <2>2. PICK q : q = Commented(call[c]) /\ Goto(c, q)
    BY <1>3 DEF PostComment
  <2>3. /\ q.pc \in {"close", "commit"} /\ q.job = call[c].job
        /\ q.terminal = call[c].terminal
    BY <2>1, <2>2 DEF Commented, PostFits, PostFields
  <2> QED BY <1>2, <2>1, <2>2, <2>3, CommentEvidence
<1>4. CASE \/ CloseIssue(c) \/ Commit(c)
           \/ CallFails(c) /\ issue' # WithComment(call[c])
  <2>1. \A i \in Issues : issue'[i].comments = issue[i].comments
    BY <1>1, <1>4 DEF CloseIssue, Commit, CallFails, WithClosed, IssueTypes
  <2>2. PICK q : /\ Goto(c, q)
                 /\ \/ q.pc \notin PostPcs
                    \/ q = [call[c] EXCEPT !.pc = "commit"] /\ call[c].pc = "close"
    BY <1>4 DEF CloseIssue, Commit, CallFails, Answer, Refusal, Idle, Accepted, PostPcs, At
  <2>3. ASSUME q = [call[c] EXCEPT !.pc = "commit"], call[c].pc = "close"
        PROVE  /\ q.pc = "commit" /\ q.job = call[c].job /\ q.terminal \in Terminals
               /\ Holder(c) /\ call[c].pc \in PostPcs
    <3>1. PostFits(call[c]) /\ call[c].terminal \in Terminals
      BY <2>3, AtPost DEF PostPcs, At, EvidenceInv
    <3> QED BY <2>3, <3>1 DEF PostFits, PostFields, Holder, PostPcs
  <2>4. \A d \in Calls : MovesOn(d)
    BY <1>1, <2>2, <2>3, OneMovesOn
  <2> QED BY <1>1, <1>2, <2>1, <2>4, EvidenceStays
<1>5. CASE CallFails(c) /\ issue' = WithComment(call[c])
  <2>1. PICK q : Goto(c, q) /\ q.pc \notin PostPcs
    BY <1>5 DEF CallFails, Answer, Refusal, Idle, PostPcs
  <2>2. CASE At(c, "comment")
    BY <1>2, <1>5, <2>1, <2>2, CommentEvidence
  <2>3. CASE ~At(c, "comment")
    <3>1. \A i \in Issues : issue'[i].comments = issue[i].comments
      BY <1>1, <1>5, <2>3 DEF CallFails, WithClosed, IssueTypes
    <3> QED BY <1>1, <1>2, <2>1, <3>1, OneMovesOn, EvidenceStays
  <2> QED BY <2>2, <2>3
<1> QED BY <1>3, <1>4, <1>5

\* What App Chrome does to a handler, and with which report it starts one.
AppCall(c) ==
  \/ HangUp(c) \/ Goto(c, Idle)
  \/ \E j \in Jobs \cup {None} : Start(c, Get(j))
  \/ \E w \in WorkerSet : \E j \in Active(w) :
       /\ Ticking("report") /\ Answered(w) /\ j = CHOOSE k \in Active(w) : TRUE
       /\ Start(c, Post(j, beat[w]))
AppStep ==
  \/ TickStep \/ CommandTimesOut \/ AppFault
  \/ \E w \in WorkerSet :
       Heartbeat(w) \/ BridgeStep(w) \/ AssistantAnswers(w) \/ Unblock(w)

LEMMA AppCalls ==
  ASSUME ReportInv, AppStep
  PROVE  CoreKept /\ (UNCHANGED call \/ \E c \in Calls : AppCall(c))
<1>1. CASE ReportOrFetch
  <2>1. PICK c \in Calls :
         \/ Start(c, Get(None))
         \/ \E n \in tick.n .. Len(Workers) :
              /\ Answered(Workers[n]) /\ Ticking("report")
              /\ Start(c, Post(CHOOSE k \in Active(Workers[n]) : TRUE, beat[Workers[n]]))
    BY <1>1 DEF ReportOrFetch
  <2>2. ASSUME NEW n \in tick.n .. Len(Workers), Answered(Workers[n]), Ticking("report"),
               Start(c, Post(CHOOSE k \in Active(Workers[n]) : TRUE, beat[Workers[n]]))
        PROVE  AppCall(c)
    <3>1. PICK w, j : w = Workers[n] /\ j = CHOOSE k \in Active(w) : TRUE
      OBVIOUS
    <3>2. j \in Active(w)
      BY <2>2, <3>1 DEF Answered
    <3>3. w \in WorkerSet
      <4>1. w = WorkerOf[j[1]] /\ j[1] \in Issues
        BY <3>2 DEF Active, Jobs
      <4> QED BY <4>1, UiConstants DEF WorkerSet
    <3> QED BY <2>2, <3>1, <3>2, <3>3 DEF AppCall
  <2> QED BY <1>1, <2>1, <2>2 DEF AppCall, ReportOrFetch
<1>2. CASE ReportAccepted \/ Fetched \/ CallRefused \/ Acknowledged
  BY <1>2 DEF ReportAccepted, Fetched, CallRefused, Acknowledged, AppCall, ReportInv,
     TickFits, Ticking
<1>3. CASE OfferOrRest \/ SendNavigate
  BY <1>3 DEF OfferOrRest, SendNavigate
<1>4. CASE AskAgain
  <2>1. tick.job \in Jobs
    BY <1>4 DEF AskAgain, ReportInv, TickFits, Ticking, Placed
  <2> QED BY <1>4, <2>1 DEF AskAgain, AppCall
<1>5. CASE CommandTimesOut
  BY <1>5 DEF CommandTimesOut
<1>6. CASE CallAborted \/ AppRestarts
  BY <1>6 DEF CallAborted, AppRestarts, AppCall, ReportInv, TickFits
<1>7. ASSUME NEW w \in WorkerSet,
             \/ Heartbeat(w) \/ BridgeStep(w) \/ AssistantAnswers(w)
             \/ SubmitFails(w) \/ ResultIsLost(w) \/ Unblock(w)
      PROVE  CoreKept /\ UNCHANGED call
  BY <1>7
     DEF Heartbeat, BridgeStep, TakeCommand, Navigate, Submit, PostResult, SubmitFails,
         ResultIsLost, AssistantAnswers, Unblock
<1> QED BY <1>1, <1>2, <1>3, <1>4, <1>5, <1>6, <1>7 DEF AppStep, TickStep, AppFault

LEMMA AppEvents ==
  ASSUME AppStep
  PROVE  UNCHANGED events \/ \E k \in {"net", "app", "beat", "stop"} : Event(k)
<1>1. TickStep => UNCHANGED events
  BY DEF TickStep, ReportOrFetch, ReportAccepted, Fetched, CallRefused, OfferOrRest,
     SendNavigate, AskAgain, Acknowledged
<1>2. \A w \in WorkerSet :
        \/ Heartbeat(w) \/ BridgeStep(w) \/ AssistantAnswers(w)
        \/ SubmitFails(w) \/ ResultIsLost(w) \/ Unblock(w)
        => UNCHANGED events \/ \E k \in {"net", "beat", "stop"} : Event(k)
  BY DEF Heartbeat, SecurityStop, Unblock, BridgeStep, TakeCommand, Navigate, Submit, PostResult, SubmitFails,
     ResultIsLost, AssistantAnswers
<1>3. CommandTimesOut \/ CallAborted \/ AppRestarts
      => UNCHANGED events \/ \E k \in {"net", "app"} : Event(k)
  BY DEF CommandTimesOut, CallAborted, AppRestarts
<1> QED BY <1>1, <1>2, <1>3 DEF AppStep, AppFault

LEMMA HungUp ==
  ASSUME AssignInv, NEW c \in Calls, HangUp(c)
  PROVE  \E q : /\ Goto(c, q)
                /\ q.pc \notin PostPcs \/ /\ q.pc = call[c].pc /\ q.job = call[c].job
                                          /\ q.terminal = call[c].terminal
<1>1. PICK g : g = call[c]
  OBVIOUS
<1>2. CallFits(g)
  BY <1>1 DEF AssignInv
<1>3. CASE PostFits(g)
  BY <1>1, <1>3 DEF HangUp, PostFits, PostFields, PostPcs
<1>4. CASE GetFits(g) \/ DoneFits(g)
  <2>1. "pc" \in DOMAIN g /\ g.pc \notin PostPcs
    BY <1>4 DEF GetFits, GetFields, DoneFits, GetPcs, PostPcs
  <2> QED BY <1>1, <2>1 DEF HangUp, Idle, PostPcs
<1> QED BY <1>2, <1>3, <1>4 DEF CallFits

LEMMA AppEvidence ==
  ASSUME ReportInv, EvidenceInv, AppStep
  PROVE  EvidenceInv'
<1>1. AssignInv /\ CoreTypes /\ UNCHANGED issue
  BY AppCalls DEF ReportInv, AssignInv, CoreKept
<1>2. BlindCount
  BY <1>1, AppEvents, EventsKeepBlindCount DEF EventKinds
<1>3. CASE UNCHANGED call
  <2>1. \A c \in Calls : MovesOn(c)
    BY <1>3 DEF MovesOn, Holder, EvidenceInv
  <2> QED BY <1>1, <1>2, <2>1, EvidenceStays
<1>4. ASSUME NEW c \in Calls, AppCall(c) PROVE EvidenceInv'
  <2>1. CASE HangUp(c)
    <3>1. PICK q : /\ Goto(c, q)
                   /\ q.pc \notin PostPcs \/ /\ q.pc = call[c].pc /\ q.job = call[c].job
                                             /\ q.terminal = call[c].terminal
      BY <1>1, <2>1, HungUp
    <3>2. \A d \in Calls : MovesOn(d)
      BY <1>1, <3>1, OneMovesOn DEF EvidenceInv, Holder, PostPcs
    <3> QED BY <1>1, <1>2, <3>2, EvidenceStays
  <2>2. CASE Goto(c, Idle)
    <3>1. Idle.pc \notin PostPcs
      BY DEF Idle, PostPcs
    <3> QED BY <1>1, <1>2, <2>2, <3>1, OneMovesOn, EvidenceStays
  <2>3. ASSUME NEW j \in Jobs \cup {None}, Start(c, Get(j)) PROVE EvidenceInv'
    <3>1. Get(j).pc \notin PostPcs
      BY DEF Get, PostPcs
    <3> QED BY <1>1, <1>2, <2>3, <3>1, OneMovesOn, EvidenceStays DEF Start
  <2>4. ASSUME NEW w \in WorkerSet, NEW j \in Active(w), Answered(w),
               Start(c, Post(j, beat[w]))
        PROVE  EvidenceInv'
    <3>1. /\ Post(j, beat[w]).pc = "lock" /\ Post(j, beat[w]).terminal \in Terminals
      BY <2>4 DEF Post, Answered
    <3> QED BY <1>1, <1>2, <2>4, <3>1, OneMovesOn, EvidenceStays DEF Start
  <2> QED BY <1>4, <2>1, <2>2, <2>3, <2>4 DEF AppCall
<1> QED BY <1>1, <1>2, <1>3, <1>4, AppCalls

LEMMA EvidenceKept ==
  ReportInv /\ EvidenceInv /\ [Next]_vars => EvidenceInv'
<1> SUFFICES ASSUME ReportInv, EvidenceInv, [Next]_vars PROVE EvidenceInv'
  OBVIOUS
<1>1. CASE Core
  <2>1. AssignInv /\ CoreNext /\ CoreKeeps
    BY <1>1, CoreKeepsAll DEF Core, ReportInv
  <2>2. ASSUME NEW c \in Calls, GetStep(c) \/ PostStep(c) \/ CoreFault(c)
        PROVE  EvidenceInv'
    BY <2>1, <2>2, GetEvidence, LockEvidence, ReadEvidenceEvidence, PostEvidence
       DEF PostStep, CoreFault
  <2> QED BY <2>1, <2>2, OutsideEvidence DEF CoreNext
<1>2. CASE AppStep
  BY <1>2, AppEvidence
<1>3. CASE UNCHANGED vars
  <2>1. /\ CoreTypes /\ BlindCount /\ UNCHANGED <<issue, call>>
    BY <1>3, EventsKeepBlindCount DEF vars, coreVars, ReportInv, AssignInv
  <2>2. \A c \in Calls : MovesOn(c)
    BY <2>1 DEF MovesOn, Holder, EvidenceInv
  <2> QED BY <2>1, <2>2, EvidenceStays
<1> QED BY <1>1, <1>2, <1>3 DEF Next, AppStep

LEMMA EvidenceInit == Init => EvidenceInv
<1> SUFFICES ASSUME Init PROVE EvidenceInv
  OBVIOUS
<1>1. CoreInit
  BY DEF Init
<1>2. \A c \in Calls : call[c].pc = "idle"
  BY <1>1 DEF CoreInit, Idle
<1>3. \A j \in Jobs : EvidenceFits(j)
  <2> TAKE j \in Jobs
  <2>1. EvidenceOf(j) = {}
    BY <1>1 DEF CoreInit, EvidenceOf, Jobs
  <2>2. Cardinality(EvidenceOf(j)) = 0
    BY <2>1, FS_EmptySet
  <2>3. ~Commenting(j) /\ events["blind"] = 0
    BY <1>1, <1>2 DEF Commenting, CoreInit, EventKinds
  <2> QED BY <2>2, <2>3 DEF EvidenceFits
<1>4. \A i \in Issues : issue[i].comments \in Seq(Comments)
  <2> TAKE i \in Issues
  <2>1. issue[i].comments = << >>
    BY <1>1 DEF CoreInit
  <2>2. << >> \in Seq(Comments)
    OBVIOUS
  <2> QED BY <2>1, <2>2
<1> QED BY <1>2, <1>3, <1>4 DEF EvidenceInv, Holder, PostPcs

\* Repeated and concurrent reports leave one comment of evidence for a job on the
\* first page of its issue, and one more at most for every time the comments
\* could not be read.
THEOREM OneComment == Spec => []EvidenceOnce
<1>1. ReportInv /\ EvidenceInv => EvidenceOnce
  <2> SUFFICES ASSUME ReportInv, EvidenceInv, NEW j \in Jobs
               PROVE  Cardinality(EvidenceOf(j)) <= 1 + events["blind"]
    BY DEF EvidenceOnce
  <2>1. Cardinality(EvidenceOf(j)) \in Nat /\ events["blind"] \in Nat
    BY EvidenceIsCounted DEF ReportInv, AssignInv, CoreTypes, EventKinds
  <2> QED BY <2>1 DEF EvidenceInv, EvidenceFits
<1> QED BY <1>1, InitHolds, TransportKept, ReportInit, ReportsKept, EvidenceInit,
           EvidenceKept, PTL DEF Spec

-----------------------------------------------------------------------------
(***************************************************************************)
(* The answers: what the pages show, what the bridge says of them, and     *)
(* what the tick reports.                                                  *)
(***************************************************************************)
Pages == {Empty} \cup [job : Jobs, phase : {"working"} \cup Terminals]

\* A page at work or with an answer is its worker's, and shows a job that was
\* submitted; the answer on it is the one the job was given.
PageFits(w) ==
  chat[w].phase # "empty" =>
    /\ WorkerOf[chat[w].job[1]] = w /\ delivered[chat[w].job] # 0
    /\ chat[w].phase = "working" => shown[chat[w].job] = "none"
    /\ chat[w].phase \in Terminals => shown[chat[w].job] = chat[w].phase
PageInv ==
  /\ chat \in [WorkerSet -> Pages] /\ DOMAIN beat = WorkerSet /\ DOMAIN due = WorkerSet
  /\ shown \in [Jobs -> {"none"} \cup Terminals]
  /\ \A j \in Jobs : delivered[j] = 0 => shown[j] = "none"
  /\ \A w \in WorkerSet : PageFits(w)

\* Without a restart of App Chrome and a lost heartbeat, a worker that is sent a
\* job has no other; its page shows a job once it counts as sent, and the last
\* heartbeat no other job's answer.
Steady == events["app"] = 0 /\ events["beat"] = 0
SentFits(w, j) ==
  /\ ~Holds(w) /\ chat[w].phase # "empty" /\ chat[w].job = j
  /\ beat[w] \in Terminals => shown[j] = beat[w]
AwaitedFits(w) ==
  Holds(w) /\ hand[w].awaited =>
    /\ hand[w].act = "NAVIGATE" /\ hand[w].result = "ok" => chat[w].phase = "empty"
    /\ hand[w].act = "DISPATCH" => beat[w] \notin Terminals
    /\ hand[w].act = "DISPATCH" /\ hand[w].result = "ok" =>
         chat[w].phase # "empty" /\ chat[w].job = hand[w].job
\* The page a delivery goes to has been emptied, and the heartbeat knows.
FreshPage(w) ==
  ~Holds(w) /\ chat[w].phase = "empty" /\ (~due[w] => beat[w] \notin Terminals)
SteadyInv ==
  /\ Sending => \A j \in Active(WorkerOf[tick.job[1]]) : j = tick.job
  /\ \A j \in Jobs : ledger[j] = "dispatching" => Sending /\ tick.job = j
  /\ \A j \in Jobs : ledger[j] = "sent" => SentFits(WorkerOf[j[1]], j)
  /\ \A w \in WorkerSet : AwaitedFits(w)
  /\ Ticking("deliver") /\ ~tick.taken => FreshPage(WorkerOf[tick.job[1]])

\* A report, and the comment it leads to, tell the answer the job was given.
Reporting == {"lock", "evidence", "comment"}
ToldRight ==
  /\ \A c \in Calls : call[c].pc \in Reporting => shown[call[c].job] = call[c].terminal
  /\ \A i \in Issues : \A n \in DOMAIN issue[i].comments :
        shown[issue[i].comments[n].job] = issue[i].comments[n].terminal

AnswerInv == PageInv /\ (Steady => SteadyInv /\ ToldRight)

-----------------------------------------------------------------------------
ShownLasts == \A j \in Jobs : shown[j] \in Terminals => shown'[j] = shown[j]

LEMMA PageStays ==
  ASSUME PageInv, UNCHANGED <<chat, shown>>, DOMAIN beat' = WorkerSet,
         DOMAIN due' = WorkerSet, UNCHANGED delivered
  PROVE  PageInv' /\ ShownLasts
BY DEF PageInv, PageFits, ShownLasts

LEMMA JobOfHand ==
  ASSUME TransportInv, NEW w \in WorkerSet, Holds(w)
  PROVE  /\ hand[w].job \in Jobs /\ WorkerOf[hand[w].job[1]] = w
         /\ hand[w].act = "DISPATCH" /\ hand[w].result = "none" => delivered[hand[w].job] = 0
BY DEF TransportInv, HandIsHonest, AppTypes, Holds, Commands

LEMMA PageOfWorker ==
  ASSUME PageInv, NEW w \in WorkerSet
  PROVE  /\ chat[w].phase \in {"empty", "working"} \cup Terminals
         /\ chat[w].phase = "empty" <=> chat[w] = Empty
         /\ chat[w].phase # "empty" => chat[w].job \in Jobs /\ WorkerOf[chat[w].job[1]] = w
BY DEF PageInv, PageFits, Pages, Empty, Terminals

LEMMA NavigatePage ==
  ASSUME PageInv, NEW w \in WorkerSet, Navigate(w)
  PROVE  PageInv' /\ ShownLasts
<1>1. /\ \A x \in WorkerSet : chat'[x] = chat[x] \/ chat'[x] = Empty
      /\ chat' \in [WorkerSet -> Pages] /\ UNCHANGED <<beat, due, shown, delivered>>
  BY DEF Navigate, PageInv, Pages
<1>2. \A x \in WorkerSet : PageFits(x)'
  BY <1>1 DEF PageInv, PageFits, Empty
<1> QED BY <1>1, <1>2 DEF PageInv, ShownLasts

LEMMA SubmitPage ==
  ASSUME TransportInv, PageInv, NEW w \in WorkerSet, Submit(w)
  PROVE  PageInv' /\ ShownLasts
<1>1. PICK j \in Jobs : j = hand[w].job /\ WorkerOf[j[1]] = w /\ delivered[j] = 0
  BY JobOfHand DEF Submit, Executing, Holds
<1>2. PICK p : p = [job |-> j, phase |-> "working"]
  OBVIOUS
<1>3. p \in Pages /\ p.job = j /\ p.phase = "working"
  BY <1>2 DEF Pages
<1>4. /\ chat' = [chat EXCEPT ![w] = p] /\ delivered' = [delivered EXCEPT ![j] = @ + 1]
      /\ UNCHANGED <<beat, due, shown>>
  BY <1>1, <1>2 DEF Submit
<1>5. delivered \in [Jobs -> Nat]
  BY DEF TransportInv, AppTypes
<1>6. /\ chat' \in [WorkerSet -> Pages] /\ chat'[w] = p
      /\ \A x \in WorkerSet \ {w} : chat'[x] = chat[x]
      /\ \A k \in Jobs \ {j} : delivered'[k] = delivered[k]
      /\ delivered'[j] = 1 /\ shown[j] = "none"
  BY <1>1, <1>3, <1>4, <1>5 DEF PageInv
<1>7. PageFits(w)'
  BY <1>1, <1>3, <1>4, <1>6 DEF PageFits, Terminals
<1>8. ASSUME NEW x \in WorkerSet \ {w} PROVE PageFits(x)'
  <2>1. PageFits(x) /\ chat'[x] = chat[x]
    BY <1>6 DEF PageInv
  <2>2. chat[x].phase # "empty" => chat[x].job \in Jobs /\ chat[x].job # j
    BY <1>1, PageOfWorker
  <2> QED BY <1>4, <1>6, <2>1, <2>2 DEF PageFits
<1> QED BY <1>4, <1>6, <1>7, <1>8 DEF PageInv, ShownLasts

LEMMA AnswerPage ==
  ASSUME TransportInv, PageInv, NEW w \in WorkerSet, AssistantAnswers(w)
  PROVE  PageInv' /\ ShownLasts
<1>1. PICK j \in Jobs : j = chat[w].job /\ WorkerOf[j[1]] = w
  BY PageOfWorker DEF AssistantAnswers
<1>2. PICK t \in Terminals : /\ chat' = [chat EXCEPT ![w].phase = t]
                             /\ shown' = [shown EXCEPT ![j] = t]
                             /\ UNCHANGED <<beat, due, delivered>>
  BY <1>1 DEF AssistantAnswers
<1>3. chat[w] \in [job : Jobs, phase : {"working"} \cup Terminals] /\ shown[j] = "none"
      /\ delivered[j] # 0
  BY <1>1 DEF AssistantAnswers, PageInv, Pages, Empty, PageFits
<1>4. /\ chat' \in [WorkerSet -> Pages] /\ chat'[w].phase = t /\ chat'[w].job = j
      /\ \A x \in WorkerSet \ {w} : chat'[x] = chat[x]
      /\ \A k \in Jobs \ {j} : shown'[k] = shown[k]
      /\ shown'[j] = t /\ shown' \in [Jobs -> {"none"} \cup Terminals]
  BY <1>1, <1>2, <1>3 DEF PageInv, Pages
<1>5. PageFits(w)'
  BY <1>1, <1>2, <1>3, <1>4 DEF PageFits, Terminals
<1>6. ASSUME NEW x \in WorkerSet \ {w} PROVE PageFits(x)'
  <2>1. PageFits(x) /\ chat'[x] = chat[x]
    BY <1>4 DEF PageInv
  <2>2. chat[x].phase # "empty" => chat[x].job \in Jobs /\ chat[x].job # j
    BY <1>1, PageOfWorker
  <2> QED BY <1>2, <1>4, <2>1, <2>2 DEF PageFits
<1>7. ShownLasts
  BY <1>3, <1>4 DEF ShownLasts, Terminals
<1> QED BY <1>2, <1>3, <1>4, <1>5, <1>6, <1>7 DEF PageInv

LEMMA PageKept ==
  TransportInv /\ PageInv /\ [Next]_vars => PageInv' /\ ShownLasts
<1> SUFFICES ASSUME TransportInv, PageInv, [Next]_vars PROVE PageInv' /\ ShownLasts
  OBVIOUS
<1>0. DOMAIN beat = WorkerSet /\ DOMAIN due = WorkerSet
  BY DEF PageInv
<1>1. CASE Core \/ UNCHANGED vars
  BY <1>0, <1>1, PageStays DEF Core, appVars, vars
<1>2. CASE TickStep \/ CallAborted \/ CommandTimesOut \/ AppRestarts
  BY <1>0, <1>2, PageStays
     DEF TickStep, ReportOrFetch, ReportAccepted, Fetched, CallRefused, OfferOrRest,
         SendNavigate, AskAgain, Acknowledged, CallAborted, CommandTimesOut, AppRestarts,
         restVars
<1>3. ASSUME NEW w \in WorkerSet,
             \/ SubmitFails(w) \/ ResultIsLost(w) \/ Heartbeat(w) \/ Unblock(w)
             \/ TakeCommand(w) \/ PostResult(w)
      PROVE  PageInv' /\ ShownLasts
  BY <1>0, <1>3, PageStays
     DEF SubmitFails, ResultIsLost, Heartbeat, SecurityStop, Unblock, TakeCommand, PostResult
<1> QED BY <1>1, <1>2, <1>3, NavigatePage, SubmitPage, AnswerPage
           DEF Next, AppFault, BridgeStep

-----------------------------------------------------------------------------
\* A tick that is not about a command leaves the workers' pages alone.
LEMMA QuietSteady ==
  ASSUME SteadyInv, UNCHANGED <<hand, chat, beat, due, shown>>,
         \/ UNCHANGED tick \/ ~Sending'
         \/ Sending /\ tick'.job = tick.job /\ ~Ticking("deliver")',
         \A j \in Jobs : ledger'[j] = "sent" => ledger[j] = "sent",
         \A j \in Jobs : ledger'[j] = "dispatching" => Sending' /\ ledger[j] = "dispatching"
  PROVE  SteadyInv'
<1>0. Sending' => Sending /\ tick'.job = tick.job
  BY DEF Sending, Commanding, Ticking
<1>1. \A w \in WorkerSet : Active(w)' \subseteq Active(w)
  BY DEF Active
<1>2. Sending' => \A j \in Active(WorkerOf[tick.job[1]])' : j = tick'.job
  <2> SUFFICES ASSUME Sending', NEW j \in Jobs, j \in Active(WorkerOf[tick.job[1]])'
               PROVE  j = tick'.job
    BY DEF Active
  <2>1. WorkerOf[j[1]] = WorkerOf[tick.job[1]] /\ ledger[j] \in {"dispatching", "sent"}
    BY <1>0 DEF Active
  <2> QED BY <1>0, <2>1 DEF SteadyInv, Active
<1>3. \A j \in Jobs : ledger'[j] = "dispatching" => Sending' /\ tick'.job = j
  BY <1>0 DEF SteadyInv
<1>4. \A w \in WorkerSet : AwaitedFits(w)'
  BY DEF SteadyInv, AwaitedFits, Holds
<1>5. \A j \in Jobs : ledger'[j] = "sent" => SentFits(WorkerOf[j[1]], j)'
  BY DEF SteadyInv, SentFits, Holds
<1>6. (Ticking("deliver") /\ ~tick.taken => FreshPage(WorkerOf[tick.job[1]]))'
  <2>1. CASE ~Ticking("deliver")'
    BY <2>1
  <2>2. CASE UNCHANGED tick
    BY <2>2 DEF SteadyInv, FreshPage, Holds, Ticking
  <2>3. ~Sending' => ~Ticking("deliver")'
    BY DEF Sending, Commanding, Ticking
  <2> QED BY <2>1, <2>2, <2>3
<1> QED BY <1>2, <1>3, <1>4, <1>5, <1>6 DEF SteadyInv

LEMMA DispatchSteady ==
  ASSUME TransportInv, SteadyInv, NEW n \in DOMAIN Workers, NEW j \in Jobs, Dispatch(n, j),
         Ticking("offer"), UNCHANGED <<hand, chat, beat, due, shown>>
  PROVE  SteadyInv'
<1>1. /\ WorkerOf[j[1]] = Workers[n] /\ Active(Workers[n]) = {}
      /\ ledger' = [ledger EXCEPT ![j] = "dispatching"]
      /\ tick' = [tick EXCEPT !.pc = "send", !.n = n, !.job = j]
  BY DEF Dispatch, Offered, Ready, OffersFor
<1>2. DOMAIN ledger = Jobs /\ {"pc", "job", "n"} \subseteq DOMAIN tick
  BY DEF TransportInv, AppTypes
<1>3. /\ tick'.pc = "send" /\ tick'.job = j /\ ledger'[j] = "dispatching"
      /\ \A k \in Jobs \ {j} : ledger'[k] = ledger[k]
  BY <1>1, <1>2
<1>4. Sending' /\ ~Ticking("deliver")' /\ ~Sending
  BY <1>3 DEF Sending, Commanding, Ticking
<1>5. \A k \in Jobs \ {j} : ledger'[k] # "dispatching"
  BY <1>3, <1>4 DEF SteadyInv
<1>6. \A k \in Active(WorkerOf[tick.job[1]])' : k = j
  BY <1>1, <1>3 DEF Active
<1>7. \A k \in Jobs : ledger'[k] = "sent" => SentFits(WorkerOf[k[1]], k)'
  BY <1>3 DEF SteadyInv, SentFits, Holds
<1>8. \A w \in WorkerSet : AwaitedFits(w)'
  BY DEF SteadyInv, AwaitedFits, Holds
<1> QED BY <1>3, <1>4, <1>5, <1>6, <1>7, <1>8 DEF SteadyInv

LEMMA TickSteady ==
  ASSUME TransportInv, SteadyInv, TickStep \/ CallAborted, ~SendNavigate
  PROVE  SteadyInv'
<1>0. ledger \in [Jobs -> Stages] /\ {"pc", "job", "call", "n"} \subseteq DOMAIN tick
  BY DEF TransportInv, AppTypes
<1> USE DEF restVars, Sending, Commanding, Ticking
<1>1. CASE ReportOrFetch
  <2>1. ~Sending /\ ~Sending' /\ UNCHANGED <<hand, chat, beat, due, shown, ledger>>
    BY <1>0, <1>1 DEF ReportOrFetch
  <2> QED BY <2>1, QuietSteady DEF SteadyInv
<1>2. CASE ReportAccepted
  <2>1. ~Sending /\ ~Sending' /\ UNCHANGED <<hand, chat, beat, due, shown>>
    BY <1>0, <1>2 DEF ReportAccepted, Resting
  <2>2. \A j \in Jobs : ledger'[j] \in {"sent", "dispatching"} => ledger'[j] = ledger[j]
    BY <1>0, <1>2 DEF ReportAccepted, Released
  <2> QED BY <2>1, <2>2, QuietSteady DEF SteadyInv
<1>3. CASE Fetched \/ CallRefused \/ Acknowledged \/ CallAborted
  <2>1. ~Sending /\ UNCHANGED <<hand, chat, beat, due, shown, ledger>>
    BY <1>3 DEF Fetched, CallRefused, Acknowledged, CallAborted
  <2>2. \/ tick' = Resting
        \/ \E n, o : tick' = [Resting EXCEPT !.pc = "offer", !.n = n, !.offers = o]
    BY <1>3 DEF Fetched, CallRefused, Acknowledged, CallAborted
  <2>3. tick'.pc \in {"report", "offer"}
    <3>1. ASSUME NEW n, NEW o, tick' = [Resting EXCEPT !.pc = "offer", !.n = n, !.offers = o]
          PROVE  tick'.pc = "offer"
      BY <3>1 DEF Resting
    <3>2. tick' = Resting => tick'.pc = "report"
      BY DEF Resting
    <3> QED BY <2>2, <3>1, <3>2
  <2> QED BY <2>1, <2>3, QuietSteady DEF SteadyInv
<1>4. CASE AskAgain
  <2>1. ~Sending /\ ~Sending' /\ UNCHANGED <<hand, chat, beat, due, shown, ledger>>
    BY <1>0, <1>4 DEF AskAgain
  <2> QED BY <2>1, QuietSteady DEF SteadyInv
<1>5. CASE OfferOrRest
  <2>1. Ticking("offer") /\ UNCHANGED <<hand, chat, beat, due, shown>>
    BY <1>5 DEF OfferOrRest
  <2>2. CASE tick' = Resting /\ UNCHANGED ledger
    <3>1. ~Sending /\ ~Sending'
      BY <2>1, <2>2 DEF Resting
    <3> QED BY <2>1, <2>2, <3>1, QuietSteady DEF SteadyInv
  <2>3. ASSUME NEW n \in DOMAIN Workers, NEW j \in Jobs, Dispatch(n, j) PROVE SteadyInv'
    BY <2>1, <2>3, DispatchSteady
  <2> QED BY <1>5, <2>2, <2>3 DEF OfferOrRest
<1> QED BY <1>1, <1>2, <1>3, <1>4, <1>5 DEF TickStep

\* A command that is given up gives its worker up as well, or is tried again.
LEMMA FailedSteady ==
  ASSUME TransportInv, SteadyInv, Sending, NEW blocker \in {"retry", "error"},
         CommandFails(blocker), UNCHANGED <<chat, beat, shown>>,
         \A w \in WorkerSet : Holds(w)' => Holds(w) /\ ~hand'[w].awaited
  PROVE  SteadyInv'
<1>1. /\ ledger \in [Jobs -> Stages] /\ {"pc", "job", "tries", "taken"} \subseteq DOMAIN tick
      /\ tick.job \in Jobs /\ ledger[tick.job] \in {"dispatching", "blocked"}
  BY DEF TransportInv, AppTypes, TickIsFresh
<1>2. \/ tick'.pc = "send" /\ tick'.job = tick.job /\ UNCHANGED ledger
      \/ tick'.pc = "report" /\ ledger' = Recorded(blocker)
  <2>1. CASE ~Ticking("deliver") /\ tick.tries < MaxRetries
    <3>1. tick' = [tick EXCEPT !.pc = "send", !.tries = @ + 1, !.taken = FALSE]
          /\ UNCHANGED ledger
      BY <2>1 DEF CommandFails
    <3>2. tick'.pc = "send" /\ tick'.job = tick.job
      BY <1>1, <3>1
    <3> QED BY <3>1, <3>2
  <2>2. CASE ~(~Ticking("deliver") /\ tick.tries < MaxRetries)
    <3>1. tick' = Resting /\ ledger' = Recorded(blocker)
      BY <2>2 DEF CommandFails
    <3>2. Resting.pc = "report"
      BY DEF Resting
    <3> QED BY <3>1, <3>2
  <2> QED BY <2>1, <2>2
<1>3. ~Ticking("deliver")' /\ (Sending' => tick'.job = tick.job)
  BY <1>2 DEF Sending, Commanding, Ticking
<1>4. /\ \A j \in Jobs : ledger'[j] \in {"sent", "dispatching"} => ledger'[j] = ledger[j]
      /\ \A j \in Jobs : ledger'[j] = "dispatching" => Sending' /\ tick'.job = j
  <2>1. CASE tick'.pc = "send" /\ tick'.job = tick.job /\ UNCHANGED ledger
    <3>1. Sending'
      BY <2>1 DEF Sending, Ticking
    <3> QED BY <2>1, <3>1 DEF SteadyInv
  <2>2. CASE ledger' = Recorded(blocker)
    <3>1. \A j \in Jobs : ledger[j] = "dispatching" => j = tick.job
      BY DEF SteadyInv
    <3> QED BY <1>1, <2>2, <3>1 DEF Recorded
  <2> QED BY <1>2, <2>1, <2>2
<1>5. Sending' => \A j \in Active(WorkerOf[tick.job[1]])' : j = tick'.job
  BY <1>3, <1>4 DEF SteadyInv, Active
<1>6. \A w \in WorkerSet : AwaitedFits(w)'
  BY DEF AwaitedFits
<1>7. \A j \in Jobs : ledger'[j] = "sent" => SentFits(WorkerOf[j[1]], j)'
  <2> SUFFICES ASSUME NEW j \in Jobs, ledger'[j] = "sent" PROVE SentFits(WorkerOf[j[1]], j)'
    OBVIOUS
  <2>1. SentFits(WorkerOf[j[1]], j)
    BY <1>4 DEF SteadyInv
  <2>2. WorkerOf[j[1]] \in WorkerSet
    BY UiConstants DEF Jobs, WorkerSet
  <2> QED BY <2>1, <2>2 DEF SentFits
<1> QED BY <1>3, <1>4, <1>5, <1>6, <1>7 DEF SteadyInv

\* Off to the queue, or not.
LEMMA SendSteady ==
  ASSUME TransportInv, SteadyInv, SendNavigate
  PROVE  SteadyInv'
<1>1. Sending /\ ~Commanding /\ UNCHANGED <<hand, chat, beat, due, shown>>
  BY DEF SendNavigate, Sending, Commanding, Ticking, restVars
<1>2. CASE CommandFails("error")
  <2>1. \A w \in WorkerSet : Holds(w)' => Holds(w) /\ ~hand'[w].awaited
    BY <1>1 DEF TransportInv, HandIsHonest, AwaitedIsTheTicks, Holds
  <2> QED BY <1>1, <1>2, <2>1, FailedSteady
<1>3. CASE tick' = [tick EXCEPT !.pc = "navigate"] /\ UNCHANGED ledger
  <2>1. tick'.pc = "navigate" /\ tick'.job = tick.job
    BY <1>3 DEF TransportInv, AppTypes
  <2>2. Sending' /\ ~Ticking("deliver")'
    BY <2>1 DEF Sending, Commanding, Ticking
  <2> QED BY <1>1, <1>3, <2>1, <2>2, QuietSteady
<1> QED BY <1>2, <1>3 DEF SendNavigate

\* A delivery starts on an empty page, and ends on the page of the job.
LEMMA SucceededSteady ==
  ASSUME TransportInv, SteadyInv, CommandSucceeds, UNCHANGED <<chat, beat, shown>>,
         NEW w \in WorkerSet, Holds(w), hand[w].awaited, hand[w].result = "ok",
         ~Holds(w)', due'[w] = TRUE,
         \A x \in WorkerSet : Holds(x)' => Holds(x) /\ ~hand'[x].awaited
  PROVE  SteadyInv'
<1>1. /\ ledger \in [Jobs -> Stages] /\ {"pc", "job", "tries", "taken"} \subseteq DOMAIN tick
      /\ Commanding /\ w = WorkerOf[tick.job[1]] /\ tick.job \in Jobs
      /\ hand[w].job = tick.job /\ hand[w].act = Act
      /\ ledger[tick.job] \in {"dispatching", "blocked"}
  BY OnlyTheTicksWorker, WhatIsHeld
     DEF TransportInv, AppTypes, TickIsFresh, AwaitedIsTheTicks, Sending
<1>2. AwaitedFits(w)
  BY DEF SteadyInv
<1>3. \A x \in WorkerSet : AwaitedFits(x)'
  BY DEF AwaitedFits
<1>4. ASSUME NEW j \in Jobs, ledger[j] = "sent" PROVE SentFits(WorkerOf[j[1]], j)'
  <2>1. SentFits(WorkerOf[j[1]], j)
    BY <1>4 DEF SteadyInv
  <2>2. WorkerOf[j[1]] \in WorkerSet
    BY UiConstants DEF Jobs, WorkerSet
  <2> QED BY <2>1, <2>2 DEF SentFits
<1>5. CASE Ticking("navigate") /\ ~Barred
  <2>1. /\ tick'.pc = "deliver" /\ tick'.job = tick.job /\ UNCHANGED ledger
    BY <1>1, <1>5 DEF CommandSucceeds
  <2>2. Sending' /\ Sending
    BY <1>1, <2>1 DEF Sending, Commanding, Ticking
  <2>3. FreshPage(w)'
    BY <1>1, <1>2, <1>5 DEF AwaitedFits, Act, FreshPage
  <2>4. \A j \in Active(WorkerOf[tick.job[1]])' : j = tick'.job
    BY <2>1, <2>2 DEF Active, SteadyInv
  <2> QED BY <1>1, <1>3, <1>4, <2>1, <2>2, <2>3, <2>4 DEF SteadyInv
<1>6. CASE ~(Ticking("navigate") /\ ~Barred)
  <2>1. /\ tick'.pc \in {"report", "delivered"}
        /\ ledger' = Recorded(IF Ticking("navigate") THEN "error" ELSE "sent")
    <3>1. /\ tick' = Resting \/ tick' = [tick EXCEPT !.pc = "delivered", !.taken = FALSE]
          /\ ledger' = Recorded(IF Ticking("navigate") THEN "error" ELSE "sent")
      BY <1>6 DEF CommandSucceeds
    <3>2. Resting.pc = "report"
      BY DEF Resting
    <3>3. [tick EXCEPT !.pc = "delivered", !.taken = FALSE].pc = "delivered"
      BY <1>1
    <3> QED BY <3>1, <3>2, <3>3
  <2>2. ~Sending' /\ ~Ticking("deliver")'
    BY <2>1 DEF Sending, Commanding, Ticking
  <2>3. /\ \A j \in Jobs \ {tick.job} : ledger'[j] = ledger[j]
        /\ ledger'[tick.job] # "dispatching"
        /\ ledger'[tick.job] = "sent" => ~Ticking("navigate")
    BY <1>1, <2>1 DEF Recorded
  <2>4. \A j \in Jobs : ledger'[j] # "dispatching"
    BY <2>3 DEF SteadyInv
  <2>5. ASSUME NEW j \in Jobs, j = tick.job, ~Ticking("navigate")
        PROVE  SentFits(WorkerOf[j[1]], j)'
    BY <1>1, <1>2, <2>5 DEF AwaitedFits, Act, SentFits
  <2>6. \A j \in Jobs : ledger'[j] = "sent" => SentFits(WorkerOf[j[1]], j)'
    BY <1>4, <2>3, <2>5
  <2> QED BY <1>3, <2>2, <2>4, <2>6 DEF SteadyInv
<1> QED BY <1>5, <1>6

LEMMA TicksWorker ==
  ASSUME TransportInv, Commanding
  PROVE  WorkerOf[tick.job[1]] \in WorkerSet
BY UiConstants DEF TransportInv, TickIsFresh, Sending, Jobs, WorkerSet

LEMMA ResultSteady ==
  ASSUME TransportInv, SteadyInv, PageInv, NEW w \in WorkerSet,
         PostResult(w) \/ ResultIsLost(w)
  PROVE  SteadyInv'
<1>1. /\ Holds(w) /\ hand[w].result # "none" /\ hand' = [hand EXCEPT ![w] = NoCommand]
      /\ due' = [due EXCEPT ![w] = TRUE] /\ UNCHANGED <<chat, beat, shown>>
  BY DEF PostResult, ResultIsLost, Holds
<1>2. hand \in [WorkerSet -> {NoCommand} \cup Commands] /\ DOMAIN due = WorkerSet
  BY DEF TransportInv, AppTypes, PageInv
<1>3. /\ ~Holds(w)' /\ due'[w] = TRUE
      /\ \A x \in WorkerSet : Holds(x)' => x # w /\ Holds(x) /\ hand'[x] = hand[x]
      /\ \A x \in WorkerSet \ {w} : due'[x] = due[x]
  BY <1>1, <1>2 DEF Holds
<1>4. CASE UNCHANGED <<tick, ledger>>
  <2>2. Sending' = Sending
    BY <1>4 DEF Sending, Commanding, Ticking
  <2>3. \A x \in WorkerSet : AwaitedFits(x)'
    BY <1>1, <1>3 DEF SteadyInv, AwaitedFits
  <2>4. \A j \in Jobs : WorkerOf[j[1]] \in WorkerSet
    BY UiConstants DEF Jobs, WorkerSet
  <2>5. \A j \in Jobs : ledger'[j] = "sent" => SentFits(WorkerOf[j[1]], j)'
    BY <1>1, <1>3, <1>4, <2>4 DEF SteadyInv, SentFits
  <2>6. (Ticking("deliver") /\ ~tick.taken => FreshPage(WorkerOf[tick.job[1]]))'
    <3>1. SUFFICES ASSUME Ticking("deliver"), ~tick.taken
                   PROVE  FreshPage(WorkerOf[tick.job[1]])'
      BY <1>4 DEF Ticking
    <3>2. PICK x \in WorkerSet : x = WorkerOf[tick.job[1]]
      BY <3>1, TicksWorker DEF Commanding, Ticking
    <3>3. FreshPage(x) /\ x # w
      BY <1>1, <3>1, <3>2 DEF SteadyInv, FreshPage
    <3> QED BY <1>1, <1>3, <1>4, <3>2, <3>3 DEF FreshPage
  <2>7. Sending' => \A j \in Active(WorkerOf[tick.job[1]])' : j = tick'.job
    BY <1>4, <2>2 DEF SteadyInv, Active
  <2> QED BY <1>4, <2>2, <2>3, <2>5, <2>6, <2>7 DEF SteadyInv
<1>5. CASE hand[w].awaited /\ ~UNCHANGED <<tick, ledger>>
  <2>1. Commanding /\ w = WorkerOf[tick.job[1]]
    BY <1>1, <1>5, OnlyTheTicksWorker
  <2>2. \A x \in WorkerSet : Holds(x)' => Holds(x) /\ ~hand'[x].awaited
    BY <1>3, <2>1, OnlyTheTicksWorker
  <2>3. CASE CommandSucceeds /\ hand[w].result = "ok"
    BY <1>1, <1>3, <1>5, <2>2, <2>3, SucceededSteady
  <2>4. ASSUME NEW b \in {"retry", "error"}, CommandFails(b) PROVE SteadyInv'
    BY <1>1, <2>1, <2>2, <2>4, FailedSteady DEF Sending
  <2>5. hand[w].result \in {"ok", "retry", "error"}
    BY <1>1, WhatIsHeld DEF Commands
  <2> QED BY <1>5, <2>3, <2>4, <2>5 DEF PostResult, ResultIsLost
<1> QED BY <1>4, <1>5 DEF PostResult, ResultIsLost

LEMMA TimeoutSteady ==
  ASSUME TransportInv, SteadyInv, CommandTimesOut
  PROVE  SteadyInv'
<1>1. PICK w : w = WorkerOf[tick.job[1]]
  OBVIOUS
<1>2. PICK b \in {"retry", "error"} : CommandFails(b)
  BY DEF CommandTimesOut
<1>3. /\ Commanding /\ UNCHANGED <<chat, beat, shown>>
      /\ hand' = IF hand[w] = NoCommand THEN hand
                 ELSE [hand EXCEPT ![w].awaited = FALSE]
  BY <1>1 DEF CommandTimesOut
<1>4. hand \in [WorkerSet -> {NoCommand} \cup Commands]
  BY DEF TransportInv, AppTypes
<1>5. ASSUME NEW x \in WorkerSet, Holds(x)' PROVE Holds(x) /\ ~hand'[x].awaited
  <2>1. CASE x = w /\ hand[w] # NoCommand
    BY <1>3, <1>4, <2>1 DEF Holds, Commands
  <2>2. CASE x # w \/ hand[w] = NoCommand
    <3>1. hand'[x] = hand[x] /\ Holds(x) /\ x # w
      BY <1>3, <1>4, <1>5, <2>2 DEF Holds
    <3> QED BY <1>1, <3>1, OnlyTheTicksWorker
  <2> QED BY <2>1, <2>2
<1> QED BY <1>2, <1>3, <1>5, FailedSteady DEF Sending

\* A worker whose command waits, or is at work, has nothing sent.
LEMMA NothingIsSent ==
  ASSUME TransportInv, SteadyInv, Commanding, NEW j \in Jobs,
         WorkerOf[j[1]] = WorkerOf[tick.job[1]]
  PROVE  ledger[j] # "sent"
<1>1. Sending /\ ledger[tick.job] \in {"dispatching", "blocked"}
  BY DEF TransportInv, TickIsFresh, Sending
<1>2. ledger[j] = "sent" => j \in Active(WorkerOf[tick.job[1]])
  BY DEF Active
<1> QED BY <1>1, <1>2 DEF SteadyInv

LEMMA TakeSteady ==
  ASSUME TransportInv, SteadyInv, PageInv, NEW w \in WorkerSet, TakeCommand(w)
  PROVE  SteadyInv'
<1> DEFINE command == [act |-> Act, job |-> tick.job, awaited |-> TRUE, result |-> "none"]
<1>1. /\ Commanding /\ ~tick.taken /\ w = WorkerOf[tick.job[1]] /\ ~Holds(w) /\ ~due[w]
      /\ tick' = [tick EXCEPT !.taken = TRUE] /\ UNCHANGED <<ledger, chat, beat, shown>>
      /\ hand' = [hand EXCEPT ![w] = command] \/ UNCHANGED hand
  BY DEF TakeCommand, Holds
<1>2. /\ {"pc", "job", "taken"} \subseteq DOMAIN tick
      /\ hand \in [WorkerSet -> {NoCommand} \cup Commands]
  BY DEF TransportInv, AppTypes
<1>3. /\ tick'.pc = tick.pc /\ tick'.job = tick.job /\ tick'.taken
      /\ \A x \in WorkerSet \ {w} : hand'[x] = hand[x]
      /\ hand'[w] = command \/ ~Holds(w)'
  BY <1>1, <1>2 DEF Holds
<1>4. Sending' = Sending
  BY <1>3 DEF Sending, Commanding, Ticking
<1>5. Sending' => \A j \in Active(WorkerOf[tick.job[1]])' : j = tick'.job
  BY <1>1, <1>3, <1>4 DEF SteadyInv, Active
<1>6. \A j \in Jobs : ledger[j] = "sent" => WorkerOf[j[1]] # w /\ WorkerOf[j[1]] \in WorkerSet
  BY <1>1, NothingIsSent, UiConstants DEF Jobs, WorkerSet
<1>7. \A j \in Jobs : ledger'[j] = "sent" => SentFits(WorkerOf[j[1]], j)'
  BY <1>1, <1>3, <1>6 DEF SteadyInv, SentFits, Holds
<1>8. \A x \in WorkerSet \ {w} : AwaitedFits(x)'
  BY <1>1, <1>3 DEF SteadyInv, AwaitedFits, Holds
<1>9. AwaitedFits(w)'
  <2>1. CASE hand'[w] = command
    <3>1. command.act = "DISPATCH" => Ticking("deliver")
      BY <1>1 DEF Act, Commanding, Ticking
    <3>2. command.act = "DISPATCH" => beat[w] \notin Terminals
      BY <1>1, <3>1 DEF SteadyInv, FreshPage
    <3> QED BY <1>1, <2>1, <3>2 DEF AwaitedFits
  <2>2. CASE ~Holds(w)'
    BY <2>2 DEF AwaitedFits
  <2> QED BY <1>3, <2>1, <2>2
<1> QED BY <1>1, <1>3, <1>4, <1>5, <1>7, <1>8, <1>9 DEF SteadyInv

\* The bridge works at the page of its worker, which has nothing sent.
LEMMA ExecuteSteady ==
  ASSUME TransportInv, SteadyInv, PageInv, NEW w \in WorkerSet,
         Navigate(w) \/ Submit(w) \/ SubmitFails(w)
  PROVE  SteadyInv'
<1>1. PICK r \in {"ok", "retry", "error"} :
        /\ Holds(w) /\ hand[w].result = "none" /\ hand' = [hand EXCEPT ![w].result = r]
        /\ UNCHANGED <<tick, ledger, beat, due, shown>>
        /\ \A x \in WorkerSet \ {w} : chat'[x] = chat[x]
  BY DEF Navigate, Submit, SubmitFails, Executing, Result, Holds, PageInv
<1>2. /\ hand \in [WorkerSet -> {NoCommand} \cup Commands] /\ hand[w] \in Commands
      /\ hand[w].job \in Jobs
  BY <1>1, WhatIsHeld DEF TransportInv, AppTypes, Commands
<1>3. /\ \A x \in WorkerSet \ {w} : hand'[x] = hand[x]
      /\ hand'[w].result = r /\ hand'[w].job = hand[w].job /\ hand'[w].act = hand[w].act
      /\ hand'[w].awaited = hand[w].awaited
  BY <1>1, <1>2 DEF Commands
<1>4. hand[w].act = "NAVIGATE" /\ r = "ok" => chat'[w].phase = "empty"
  BY <1>1, <1>2, <1>3
     DEF Navigate, Submit, SubmitFails, Executing, Empty, PageInv, Result, Commands
<1>5. hand[w].act = "DISPATCH" /\ r = "ok" =>
        chat'[w].phase # "empty" /\ chat'[w].job = hand[w].job
  BY <1>1, <1>2, <1>3 DEF Navigate, Submit, SubmitFails, Executing, PageInv, Result, Commands
<1>6. Sending' => \A j \in Active(WorkerOf[tick.job[1]])' : j = tick'.job
  BY <1>1 DEF SteadyInv, Active, Sending, Commanding, Ticking
<1>7. Sending' = Sending
  BY <1>1 DEF Sending, Commanding, Ticking
<1>8. \A j \in Jobs : WorkerOf[j[1]] \in WorkerSet
  BY UiConstants DEF Jobs, WorkerSet
<1>9. \A j \in Jobs : ledger'[j] = "sent" => SentFits(WorkerOf[j[1]], j)'
  BY <1>1, <1>3, <1>8 DEF SteadyInv, SentFits, Holds
<1>10. \A x \in WorkerSet \ {w} : AwaitedFits(x)'
  BY <1>1, <1>3 DEF SteadyInv, AwaitedFits, Holds
<1>11. AwaitedFits(w)'
  BY <1>1, <1>3, <1>4, <1>5 DEF SteadyInv, AwaitedFits
<1>12. (Ticking("deliver") /\ ~tick.taken => FreshPage(WorkerOf[tick.job[1]]))'
  <2>1. SUFFICES ASSUME Ticking("deliver"), ~tick.taken
                 PROVE  FreshPage(WorkerOf[tick.job[1]])'
    BY <1>1 DEF Ticking
  <2>2. PICK x \in WorkerSet : x = WorkerOf[tick.job[1]]
    BY <2>1, TicksWorker DEF Commanding, Ticking
  <2>3. FreshPage(x) /\ x # w
    BY <1>1, <2>1, <2>2 DEF SteadyInv, FreshPage
  <2> QED BY <1>1, <1>3, <2>2, <2>3 DEF FreshPage, Holds
<1> QED BY <1>1, <1>6, <1>7, <1>9, <1>10, <1>11, <1>12 DEF SteadyInv

\* A heartbeat tells what is on the page: the answer of the job, if any.
LEMMA HeartbeatSteady ==
  ASSUME SteadyInv, PageInv, TransportInv, NEW w \in WorkerSet, Heartbeat(w),
         events'["beat"] = events["beat"], CoreTypes
  PROVE  SteadyInv'
<1>1. /\ ~Holds(w) /\ UNCHANGED <<tick, hand, chat, shown>>
      /\ due' = [due EXCEPT ![w] = FALSE]
  BY DEF Heartbeat, Holds
<1>2. \/ beat' = [beat EXCEPT ![w] = chat[w].phase] /\ UNCHANGED ledger
      \/ /\ beat' = [beat EXCEPT ![w] = "stopped"]
         /\ ledger' = [j \in Jobs |-> IF j \in Active(w) THEN "blocked" ELSE ledger[j]]
  <2>1. Event("beat") => events'["beat"] = events["beat"] + 1 /\ events["beat"] \in Nat
    BY EventCounts DEF CoreTypes, EventKinds
  <2> QED BY <2>1 DEF Heartbeat, SecurityStop
<1>11. \A j \in Jobs : ledger'[j] \in {"sent", "dispatching"} => ledger'[j] = ledger[j]
  BY <1>2
<1>3. /\ beat'[w] \in {chat[w].phase, "stopped"} /\ \A x \in WorkerSet \ {w} : beat'[x] = beat[x]
      /\ ~due'[w] /\ \A x \in WorkerSet \ {w} : due'[x] = due[x]
  BY <1>1, <1>2 DEF PageInv
<1>4. Sending' => \A j \in Active(WorkerOf[tick.job[1]])' : j = tick'.job
  BY <1>1, <1>11 DEF SteadyInv, Active, Sending, Commanding, Ticking
<1>5. Sending' = Sending
  BY <1>1 DEF Sending, Commanding, Ticking
<1>6. \A j \in Jobs : WorkerOf[j[1]] \in WorkerSet
  BY UiConstants DEF Jobs, WorkerSet
<1>7. ASSUME NEW j \in Jobs, ledger'[j] = "sent" PROVE SentFits(WorkerOf[j[1]], j)'
  <2>1. PICK x \in WorkerSet : x = WorkerOf[j[1]]
    BY <1>6
  <2>2. SentFits(x, j)
    BY <1>11, <1>7, <2>1 DEF SteadyInv
  <2>3. PageFits(x)
    BY DEF PageInv
  <2> QED BY <1>1, <1>3, <2>1, <2>2, <2>3 DEF SentFits, PageFits, Holds, Terminals
<1>8. \A x \in WorkerSet : AwaitedFits(x)'
  BY <1>1, <1>3 DEF SteadyInv, AwaitedFits, Holds, Terminals
<1>9. (Ticking("deliver") /\ ~tick.taken => FreshPage(WorkerOf[tick.job[1]]))'
  <2>1. SUFFICES ASSUME Ticking("deliver"), ~tick.taken
                 PROVE  FreshPage(WorkerOf[tick.job[1]])'
    BY <1>1 DEF Ticking
  <2>2. PICK x \in WorkerSet : x = WorkerOf[tick.job[1]]
    BY <2>1, TicksWorker DEF Commanding, Ticking
  <2>3. FreshPage(x)
    BY <2>1, <2>2 DEF SteadyInv
  <2> QED BY <1>1, <1>3, <2>2, <2>3 DEF FreshPage, Holds, Terminals
<1>10. \A j \in Jobs : ledger'[j] = "dispatching" => Sending' /\ tick'.job = j
  BY <1>1, <1>11, <1>5 DEF SteadyInv
<1> QED BY <1>10, <1>4, <1>5, <1>7, <1>8, <1>9 DEF SteadyInv

LEMMA UnblockSteady ==
  ASSUME SteadyInv, NEW w \in WorkerSet, Unblock(w)
  PROVE  SteadyInv'
BY QuietSteady DEF Unblock, SteadyInv, Sending, Commanding, Ticking

\* An answer comes to a page at work, of which no answer has been told.
LEMMA AnswerSteady ==
  ASSUME SteadyInv, PageInv, TransportInv, NEW w \in WorkerSet, AssistantAnswers(w)
  PROVE  SteadyInv'
<1>1. PICK k \in Jobs : /\ k = chat[w].job /\ WorkerOf[k[1]] = w /\ shown[k] = "none"
                        /\ chat[w].phase = "working"
  BY PageOfWorker DEF AssistantAnswers, PageInv, PageFits
<1>2. PICK t \in Terminals : /\ chat' = [chat EXCEPT ![w].phase = t]
                             /\ shown' = [shown EXCEPT ![k] = t]
                             /\ UNCHANGED <<tick, ledger, hand, beat, due>>
  BY <1>1 DEF AssistantAnswers
<1>3. chat[w] \in [job : Jobs, phase : {"working"} \cup Terminals]
  BY <1>1 DEF PageInv, Pages, Empty
<1>4. /\ chat'[w].phase = t /\ chat'[w].job = k /\ t # "empty"
      /\ \A x \in WorkerSet \ {w} : chat'[x] = chat[x]
      /\ \A j \in Jobs \ {k} : shown'[j] = shown[j]
  BY <1>2, <1>3, <1>1 DEF PageInv, Terminals
<1>5. Sending' => \A j \in Active(WorkerOf[tick.job[1]])' : j = tick'.job
  BY <1>2 DEF SteadyInv, Active, Sending, Commanding, Ticking
<1>6. Sending' = Sending
  BY <1>2 DEF Sending, Commanding, Ticking
<1>7. \A j \in Jobs : WorkerOf[j[1]] \in WorkerSet
  BY UiConstants DEF Jobs, WorkerSet
<1>8. ASSUME NEW j \in Jobs, ledger'[j] = "sent" PROVE SentFits(WorkerOf[j[1]], j)'
  <2>1. PICK x \in WorkerSet : x = WorkerOf[j[1]]
    BY <1>7
  <2>2. SentFits(x, j)
    BY <1>2, <1>8, <2>1 DEF SteadyInv
  <2>3. CASE x = w
    <3>1. j = k /\ beat[x] \notin Terminals
      BY <1>1, <2>2, <2>3 DEF SentFits, Terminals
    <3> QED BY <1>2, <1>4, <2>1, <2>2, <2>3, <3>1 DEF SentFits, Holds
  <2>4. CASE x # w
    <3>1. j # k
      BY <1>1, <2>1, <2>4
    <3> QED BY <1>2, <1>4, <2>1, <2>2, <2>4, <3>1 DEF SentFits, Holds
  <2> QED BY <2>3, <2>4
<1>9. \A x \in WorkerSet : AwaitedFits(x)'
  BY <1>1, <1>2, <1>4 DEF SteadyInv, AwaitedFits, Holds
<1>10. (Ticking("deliver") /\ ~tick.taken => FreshPage(WorkerOf[tick.job[1]]))'
  <2>1. SUFFICES ASSUME Ticking("deliver"), ~tick.taken
                 PROVE  FreshPage(WorkerOf[tick.job[1]])'
    BY <1>2 DEF Ticking
  <2>2. PICK x \in WorkerSet : x = WorkerOf[tick.job[1]]
    BY <2>1, TicksWorker DEF Commanding, Ticking
  <2>3. FreshPage(x) /\ x # w
    BY <1>1, <2>1, <2>2 DEF SteadyInv, FreshPage
  <2> QED BY <1>2, <1>4, <2>2, <2>3 DEF FreshPage, Holds
<1> QED BY <1>2, <1>5, <1>6, <1>8, <1>9, <1>10 DEF SteadyInv

-----------------------------------------------------------------------------
(***************************************************************************)
(* From the report to the comment.                                         *)
(***************************************************************************)
\* A handler that reports goes on with what it reports, or tells the truth.
TellsOn(c) ==
  call'[c].pc \in Reporting =>
    \/ /\ call[c].pc \in Reporting
       /\ call'[c].job = call[c].job /\ call'[c].terminal = call[c].terminal
    \/ /\ shown[call'[c].job] = call'[c].terminal /\ call'[c].job \in Jobs
       /\ call'[c].terminal \in Terminals

LEMMA ReportsStayTrue ==
  ASSUME AssignInv, EvidenceInv, ToldRight, ShownLasts, NEW c \in Calls, TellsOn(c)
  PROVE  call'[c].pc \in Reporting => shown'[call'[c].job] = call'[c].terminal
<1>1. CASE call[c].pc \in Reporting
  <2>1. call[c].pc \in PostPcs /\ PostFits(call[c])
    BY <1>1, AtPost DEF Reporting, PostPcs, At
  <2>2. /\ call[c].job \in Jobs /\ call[c].terminal \in Terminals
        /\ shown[call[c].job] = call[c].terminal
    BY <1>1, <2>1 DEF PostFits, Placed, EvidenceInv, ToldRight
  <2> QED BY <2>2 DEF TellsOn, ShownLasts
<1> QED BY <1>1 DEF TellsOn, ShownLasts

LEMMA ToldStays ==
  ASSUME AssignInv, EvidenceInv, ToldRight, ShownLasts, \A c \in Calls : TellsOn(c),
         \A i \in Issues : issue'[i].comments = issue[i].comments
  PROVE  ToldRight'
<1>1. ASSUME NEW i \in Issues, NEW n \in DOMAIN issue[i].comments
      PROVE  shown'[issue[i].comments[n].job] = issue[i].comments[n].terminal
  <2>1. PICK s \in Seq(Comments) : s = issue[i].comments
    BY DEF EvidenceInv
  <2>2. s[n] \in Comments
    BY <1>1, <2>1
  <2>3. shown[s[n].job] = s[n].terminal
    BY <1>1, <2>1 DEF ToldRight
  <2> QED BY <2>1, <2>2, <2>3 DEF ShownLasts, Comments
<1> QED BY <1>1, ReportsStayTrue DEF ToldRight

LEMMA OneTellsOn ==
  ASSUME AssignInv, NEW c \in Calls, NEW q, Goto(c, q),
         \/ q.pc \notin Reporting
         \/ /\ call[c].pc \in Reporting /\ q.job = call[c].job
            /\ q.terminal = call[c].terminal
         \/ shown[q.job] = q.terminal /\ q.job \in Jobs /\ q.terminal \in Terminals
  PROVE  \A d \in Calls : TellsOn(d)
<1>1. call'[c] = q /\ \A d \in Calls \ {c} : call'[d] = call[d]
  BY DEF AssignInv, CoreTypes, Goto
<1>2. TellsOn(c)
  BY <1>1 DEF TellsOn
<1> QED BY <1>1, <1>2 DEF TellsOn

\* The comment tells what its handler reports.
LEMMA CommentTold ==
  ASSUME AssignInv, EvidenceInv, ToldRight, UNCHANGED shown, NEW c \in Calls,
         At(c, "comment"), \A d \in Calls : TellsOn(d), issue' = WithComment(call[c])
  PROVE  ToldRight'
<1>1. PostFits(call[c]) /\ call[c].terminal \in Terminals
  BY AtPost DEF PostPcs, At, EvidenceInv
<1>2. PICK i \in Issues, m \in Comments :
        i = call[c].job[1] /\ m = [job |-> call[c].job, terminal |-> call[c].terminal,
                                  late |-> issue[i].full]
  BY <1>1 DEF PostFits, Placed, Jobs, Comments, AssignInv, CoreTypes, IssueTypes
<1>3. m.job = call[c].job /\ m.terminal = call[c].terminal /\ shown[m.job] = m.terminal
  BY <1>2 DEF ToldRight, At, Reporting
<1>4. /\ issue'[i].comments = Append(issue[i].comments, m)
      /\ \A k \in Issues \ {i} : issue'[k].comments = issue[k].comments
  BY <1>2 DEF WithComment, AssignInv, CoreTypes, IssueTypes
<1>5. ASSUME NEW n \in DOMAIN issue'[i].comments
      PROVE  shown[issue'[i].comments[n].job] = issue'[i].comments[n].terminal
  <2>1. PICK s \in Seq(Comments) : s = issue[i].comments
    BY DEF EvidenceInv
  <2>2. n \in 1 .. Len(s) + 1 /\ Append(s, m)[n] = IF n = Len(s) + 1 THEN m ELSE s[n]
    BY <1>4, <1>5, <2>1
  <2>3. n # Len(s) + 1 => shown[s[n].job] = s[n].terminal
    BY <2>1, <2>2 DEF ToldRight
  <2> QED BY <1>3, <1>4, <2>1, <2>2, <2>3
<1>6. \A k \in Issues : \A n \in DOMAIN issue'[k].comments :
        shown[issue'[k].comments[n].job] = issue'[k].comments[n].terminal
  <2> TAKE k \in Issues
  <2>1. CASE k = i
    BY <1>5, <2>1
  <2>2. CASE k # i
    <3>1. issue'[k].comments = issue[k].comments
      BY <1>4, <2>2
    <3> QED BY <3>1 DEF ToldRight
  <2> QED BY <2>1, <2>2
<1>7. ShownLasts
  BY DEF ShownLasts
<1>8. \A d \in Calls : call'[d].pc \in Reporting => shown'[call'[d].job] = call'[d].terminal
  BY <1>7, ReportsStayTrue
<1> QED BY <1>6, <1>8 DEF ToldRight

\* A handler that decides to comment reports what it was told.
LEMMA ReadEvidenceTells ==
  ASSUME AssignInv, NEW c \in Calls, ReadEvidence(c)
  PROVE  \A d \in Calls : TellsOn(d)
<1> DEFINE i == call[c].job[1]
           g == [call[c] EXCEPT !.open =
                  /\ issue[i].state = "open"
                  /\ {call[c].job, <<i, issue[i].rev>>} \cap KeptOpen = {}]
           past == Evidence(g.job)
           t == issue[i].comments[Least(past)].terminal
<1>1. PostFits(call[c]) /\ call[c].pc = "evidence"
  BY AtPost DEF ReadEvidence, PostPcs, At
<1>2. /\ g.job = call[c].job /\ g.terminal = call[c].terminal /\ DOMAIN g = PostFields
  BY <1>1 DEF PostFits, PostFields
<1>3. \/ Goto(c, [g EXCEPT !.pc = "comment"])
      \/ Goto(c, Commented([g EXCEPT !.terminal = t]))
  BY DEF ReadEvidence
<1> HIDE DEF g, past, t
<1>4. ASSUME NEW q, q = [g EXCEPT !.pc = "comment"], Goto(c, q)
      PROVE  \A d \in Calls : TellsOn(d)
  <2>1. q.job = call[c].job /\ q.terminal = call[c].terminal
    BY <1>2, <1>4 DEF PostFields
  <2> QED BY <1>1, <1>4, <2>1, OneTellsOn DEF Reporting
<1>5. ASSUME NEW q, q = Commented([g EXCEPT !.terminal = t]), Goto(c, q)
      PROVE  \A d \in Calls : TellsOn(d)
  <2>1. q.pc \in {"close", "commit"}
    BY <1>2, <1>5 DEF Commented, PostFields
  <2> QED BY <1>5, <2>1, OneTellsOn DEF Reporting
<1> QED BY <1>3, <1>4, <1>5

LEMMA CoreTold ==
  ASSUME AssignInv, EvidenceInv, ToldRight, CoreNext, UNCHANGED shown
  PROVE  ToldRight'
<1>0. ShownLasts /\ CoreTypes /\ IssueTypes /\ CoreKeeps
  BY CoreKeepsAll DEF ShownLasts, AssignInv, CoreTypes
<1>1. ASSUME NEW c \in Calls, GetStep(c) \/ ListFails(c) \/ ContextFails(c)
      PROVE  ToldRight'
  <2>1. PICK q : Goto(c, q) /\ q.pc \notin PostPcs /\ UNCHANGED issue
    BY <1>0, <1>1, GetGoesOn
  <2>2. \A d \in Calls : TellsOn(d)
    BY <2>1, OneTellsOn DEF PostPcs, Reporting
  <2> QED BY <1>0, <2>1, <2>2, ToldStays
<1>2. ASSUME NEW c \in Calls, TakeLock(c) PROVE ToldRight'
  <2>1. PostFits(call[c]) /\ call[c].pc = "lock" /\ UNCHANGED issue
    BY <1>2, AtPost DEF TakeLock, PostPcs, At
  <2>2. PICK q : /\ Goto(c, q)
                 /\ q = [call[c] EXCEPT !.pc = "evidence"] \/ q.pc \notin PostPcs
    BY <1>2 DEF TakeLock, Answer, Accepted, Idle, PostPcs
  <2>3. q.pc \notin Reporting \/ /\ q.job = call[c].job /\ q.terminal = call[c].terminal
    BY <2>1, <2>2 DEF PostFits, PostFields, PostPcs, Reporting
  <2>4. \A d \in Calls : TellsOn(d)
    BY <2>1, <2>2, <2>3, OneTellsOn DEF Reporting
  <2> QED BY <1>0, <2>1, <2>4, ToldStays
<1>3. ASSUME NEW c \in Calls, ReadEvidence(c) PROVE ToldRight'
  BY <1>0, <1>3, ReadEvidenceTells, ToldStays DEF ReadEvidence
<1>4. ASSUME NEW c \in Calls, PostComment(c) \/ CloseIssue(c) \/ Commit(c) \/ CallFails(c)
      PROVE  ToldRight'
  <2>1. PICK q : Goto(c, q) /\ q.pc \notin Reporting
    <3>1. CASE PostComment(c) \/ CloseIssue(c)
      <4>1. PostFits(call[c])
        BY <3>1, AtPost DEF PostComment, CloseIssue, PostPcs, At
      <4>2. PICK q : q = call'[c] /\ Goto(c, q)
        BY <1>0, <3>1 DEF PostComment, CloseIssue, Goto, CoreTypes
      <4>3. q = Commented(call[c]) \/ q = [call[c] EXCEPT !.pc = "commit"]
        BY <1>0, <3>1, <4>2 DEF PostComment, CloseIssue, Goto, CoreTypes
      <4>4. q.pc \in {"close", "commit"}
        BY <4>1, <4>3 DEF Commented, PostFits, PostFields
      <4> QED BY <4>2, <4>4 DEF Reporting
    <3>2. CASE Commit(c) \/ CallFails(c)
      BY <3>2 DEF Commit, CallFails, Answer, Accepted, Refusal, Idle, Reporting
    <3> QED BY <1>4, <3>1, <3>2
  <2>2. \A d \in Calls : TellsOn(d)
    BY <2>1, OneTellsOn
  <2>3. CASE At(c, "comment") /\ issue' = WithComment(call[c])
    BY <2>2, <2>3, CommentTold
  <2>4. CASE ~(At(c, "comment") /\ issue' = WithComment(call[c]))
    <3>1. \A i \in Issues : issue'[i].comments = issue[i].comments
      BY <1>0, <1>4, <2>4
         DEF PostComment, CloseIssue, Commit, CallFails, WithClosed, IssueTypes
    <3> QED BY <1>0, <2>2, <3>1, ToldStays
  <2> QED BY <2>3, <2>4
<1>5. CASE CoreRestarts
  <2>1. \A d \in Calls : TellsOn(d)
    BY <1>5 DEF CoreRestarts, TellsOn, Refusal, Idle, Reporting
  <2> QED BY <1>0, <1>5, <2>1, ToldStays DEF CoreRestarts
<1>6. ASSUME NEW i \in Issues, IssueChanges(i) \/ FirstPageFills(i) PROVE ToldRight'
  <2>1. \A k \in Issues : issue'[k].comments = issue[k].comments
    BY <1>0, <1>6 DEF IssueChanges, FirstPageFills, IssueTypes
  <2>2. \A d \in Calls : TellsOn(d)
    BY <1>6 DEF IssueChanges, FirstPageFills, TellsOn
  <2> QED BY <1>0, <2>1, <2>2, ToldStays
<1> QED BY <1>1, <1>2, <1>3, <1>4, <1>5, <1>6 DEF CoreNext, PostStep, CoreFault

\* What is reported is the answer of the one job its worker has.
LEMMA AppTold ==
  ASSUME ReportInv, TransportInv, EvidenceInv, PageInv, SteadyInv, ToldRight, AppStep,
         ShownLasts
  PROVE  ToldRight'
<1>1. AssignInv /\ UNCHANGED issue
  BY AppCalls DEF ReportInv, CoreKept
<1>2. CASE UNCHANGED call
  <2>1. \A c \in Calls : TellsOn(c)
    BY <1>2 DEF TellsOn
  <2> QED BY <1>1, <2>1, ToldStays
<1>3. ASSUME NEW c \in Calls, AppCall(c) PROVE \A d \in Calls : TellsOn(d)
  <2>1. CASE HangUp(c)
    <3>1. PICK q : /\ Goto(c, q)
                   /\ q.pc \notin PostPcs \/ /\ q.pc = call[c].pc /\ q.job = call[c].job
                                             /\ q.terminal = call[c].terminal
      BY <1>1, <2>1, HungUp
    <3>2. \/ q.pc \notin Reporting
          \/ /\ call[c].pc \in Reporting /\ q.job = call[c].job
             /\ q.terminal = call[c].terminal
      BY <3>1 DEF PostPcs, Reporting
    <3> QED BY <1>1, <3>1, <3>2, OneTellsOn
  <2>2. CASE Goto(c, Idle)
    <3>1. Idle.pc \notin Reporting
      BY DEF Idle, Reporting
    <3> QED BY <1>1, <2>2, <3>1, OneTellsOn
  <2>3. ASSUME NEW j \in Jobs \cup {None}, Start(c, Get(j)) PROVE \A d \in Calls : TellsOn(d)
    <3>1. Get(j).pc \notin Reporting
      BY DEF Get, Reporting
    <3> QED BY <1>1, <2>3, <3>1, OneTellsOn DEF Start
  <2>4. ASSUME NEW w \in WorkerSet, NEW j \in Active(w), Ticking("report"), Answered(w),
               Start(c, Post(j, beat[w]))
        PROVE  \A d \in Calls : TellsOn(d)
    <3>1. j \in Jobs /\ WorkerOf[j[1]] = w /\ ledger[j] \in {"dispatching", "sent"}
      BY DEF Active
    <3>2. ledger[j] = "sent"
      BY <2>4, <3>1 DEF SteadyInv, Sending, Commanding, Ticking
    <3>3. shown[j] = beat[w] /\ beat[w] \in Terminals
      BY <2>4, <3>1, <3>2 DEF SteadyInv, SentFits, Answered
    <3>4. PICK q : q = Post(j, beat[w])
      OBVIOUS
    <3>5. q.job = j /\ q.terminal = beat[w] /\ Goto(c, q)
      BY <2>4, <3>4 DEF Post, Start
    <3> QED BY <1>1, <3>1, <3>3, <3>5, OneTellsOn
  <2> QED BY <1>3, <2>1, <2>2, <2>3, <2>4 DEF AppCall
<1> QED BY <1>1, <1>2, <1>3, AppCalls, ToldStays

\* What happened once stays counted.
LEMMA WasSteady ==
  ASSUME CoreTypes, Steady', UNCHANGED events \/ \E k \in EventKinds : Event(k)
  PROVE  /\ Steady /\ UNCHANGED <<events["app"], events["beat"]>>
         /\ ~Event("app")
<1>1. events \in [EventKinds -> Nat] /\ {"app", "beat"} \subseteq EventKinds
  BY DEF CoreTypes, EventKinds
<1>2. ASSUME NEW k \in EventKinds, Event(k)
      PROVE  /\ k \notin {"app", "beat"}
             /\ \A e \in EventKinds \ {k} : events'[e] = events[e]
  <2>1. events' = [events EXCEPT ![k] = @ + 1] /\ events[k] \in Nat
    BY <1>1, <1>2 DEF Event
  <2>2. events'[k] = events[k] + 1 /\ \A e \in EventKinds \ {k} : events'[e] = events[e]
    BY <1>1, <2>1
  <2> QED BY <2>1, <2>2 DEF Steady
<1> QED BY <1>1, <1>2 DEF Steady

LEMMA AnswerKept ==
  ReportInv /\ TransportInv /\ EvidenceInv /\ AnswerInv /\ [Next]_vars => AnswerInv'
<1> SUFFICES ASSUME ReportInv, TransportInv, EvidenceInv, AnswerInv, [Next]_vars
             PROVE  AnswerInv'
  OBVIOUS
<1>1. AssignInv /\ CoreTypes /\ PageInv
  BY DEF ReportInv, AssignInv, AnswerInv
<1>2. PageInv' /\ ShownLasts
  BY <1>1, PageKept
<1> SUFFICES ASSUME Steady' PROVE SteadyInv' /\ ToldRight'
  BY <1>2 DEF AnswerInv
<1>3. CASE Core
  <2>1. CoreNext /\ UNCHANGED appVars
    BY <1>3 DEF Core
  <2>2. UNCHANGED events \/ \E k \in EventKinds : Event(k)
    BY <2>1
       DEF CoreNext, GetStep, ReadPrevious, Acknowledge, ReadWorker, SettleJob,
           SettleObjective, ListIssues, SelectWorker, TrySpec, InsertObjective, InsertJob,
           Reply, PostStep, TakeLock, ReadEvidence, PostComment, CloseIssue, Commit,
           CoreFault, ListFails, ContextFails, CallFails, CoreRestarts, IssueChanges,
           FirstPageFills, EventKinds
  <2>3. SteadyInv /\ ToldRight
    BY <1>1, <2>2, WasSteady DEF AnswerInv
  <2>4. SteadyInv'
    BY <2>1, <2>3, QuietSteady DEF appVars, SteadyInv, Sending, Commanding, Ticking
  <2> QED BY <1>1, <2>1, <2>3, <2>4, CoreTold DEF appVars
<1>4. CASE AppStep
  <2>1. UNCHANGED events \/ \E k \in EventKinds : Event(k)
    BY <1>4, AppEvents DEF EventKinds
  <2>2. /\ SteadyInv /\ ToldRight /\ events'["beat"] = events["beat"] /\ ~Event("app")
    BY <1>1, <2>1, WasSteady DEF AnswerInv
  <2>3. ToldRight'
    BY <1>1, <1>2, <1>4, <2>2, AppTold
  <2>4. SteadyInv'
    BY <1>1, <1>4, <2>2, TickSteady, SendSteady, TimeoutSteady, TakeSteady, ExecuteSteady,
       ResultSteady, HeartbeatSteady, UnblockSteady, AnswerSteady
       DEF AppStep, AppFault, BridgeStep, AppRestarts
  <2> QED BY <2>3, <2>4
<1>5. CASE UNCHANGED vars
  <2>1. UNCHANGED <<coreVars, appVars>>
    BY <1>5 DEF vars
  <2>2. SteadyInv /\ ToldRight
    BY <1>1, <2>1, WasSteady DEF AnswerInv, coreVars
  <2>3. SteadyInv'
    BY <2>1, <2>2, QuietSteady DEF appVars, SteadyInv, Sending, Commanding, Ticking
  <2>4. ToldRight'
    BY <2>1, <2>2 DEF ToldRight, coreVars, appVars
  <2> QED BY <2>3, <2>4
<1> QED BY <1>3, <1>4, <1>5 DEF Next, AppStep

LEMMA AnswerInit == Init => AnswerInv
<1> SUFFICES ASSUME Init PROVE AnswerInv
  OBVIOUS
<1>1. \A w \in WorkerSet : chat[w].phase = "empty" /\ ~Holds(w)
  BY DEF Init, Empty, Holds
<1>2. PageInv
  BY <1>1 DEF Init, PageInv, Pages, PageFits
<1>3. ~Sending /\ ~Ticking("deliver")
  BY DEF Init, Sending, Commanding, Ticking, Resting
<1>4. SteadyInv
  BY <1>1, <1>3 DEF Init, SteadyInv, AwaitedFits, Active
<1>5. ToldRight
  BY DEF Init, CoreInit, ToldRight, Reporting, Idle
<1> QED BY <1>2, <1>4, <1>5 DEF AnswerInv

\* What is posted as the outcome of a job is the answer its worker gave, as long
\* as App Chrome is not restarted and no heartbeat is lost.
THEOREM EvidenceIsTrue == Spec => []EvidenceIsTheAnswer
<1>1. ReportInv /\ AnswerInv => EvidenceIsTheAnswer
  <2> SUFFICES ASSUME ReportInv, AnswerInv, events["app"] + events["beat"] = 0
               PROVE  \A i \in Issues : \A n \in DOMAIN issue[i].comments :
                        shown[issue[i].comments[n].job] = issue[i].comments[n].terminal
    BY DEF EvidenceIsTheAnswer
  <2>1. events["app"] \in Nat /\ events["beat"] \in Nat
    BY DEF ReportInv, AssignInv, CoreTypes, EventKinds
  <2>2. Steady
    BY <2>1 DEF Steady
  <2> QED BY <2>2 DEF AnswerInv, ToldRight
<1> QED BY <1>1, InitHolds, TransportKept, ReportInit, ReportsKept, EvidenceInit,
           EvidenceKept, AnswerInit, AnswerKept, PTL DEF Spec
=============================================================================
