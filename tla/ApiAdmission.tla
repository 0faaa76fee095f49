----------------------------- MODULE ApiAdmission -----------------------------
(***************************************************************************)
(* What a request passes before its route runs (apps/api, packages/        *)
(* runtime): the concurrency limiter, the drain flag, the actor's          *)
(* fixed-window quota; and the listener that gives the slot back.  All of  *)
(* it up to the first await is one step of the event loop (Arrive).        *)
(*                                                                         *)
(* Node emits 'finish' when a response was handed to the operating system; *)
(* a response written to a connection that is gone by then is discarded    *)
(* and never finishes.                                                     *)
(***************************************************************************)
EXTENDS Integers, Sequences, FiniteSets

CONSTANTS RequestIds,    \* requests in flight at the same time
          ActorIds,
          Limit,       \* maxConcurrentRequests
          Quota,       \* actorRequestLimit
          Window,      \* actorRateWindowMs, in ticks
          MaxTime      \* bound: the clock

ASSUME LimitsArePositive ==
  Limit \in Nat \ {0} /\ Quota \in Nat \ {0} /\ Window \in Nat \ {0}

ASSUME MaxTimeIsNat == MaxTime \in Nat

VARIABLES now,       \* Date.now()
          active,    \* ConcurrencyLimiter.#active
          draining,
          buckets,   \* FixedWindowRateLimiter.#buckets
          request,   \* per request in flight, where it is
          gone,      \* history: slots taken by requests whose connection went
          granted,   \* history: per actor, when its requests were let in
          promised   \* history: per actor, when its last 429 said to retry

admissionVars == <<now, active, draining, buckets, request, gone, granted, promised>>

NoBucket == [start |-> 0, count |-> -1]
NoPromise == -1
NoRequest == [state |-> "free"]

AdmissionInit ==
  /\ now = 0
  /\ active = 0
  /\ draining = FALSE
  /\ buckets = [a \in ActorIds |-> NoBucket]
  /\ request = [r \in RequestIds |-> NoRequest]
  /\ gone = 0
  /\ granted = [a \in ActorIds |-> << >>]
  /\ promised = [a \in ActorIds |-> NoPromise]

\* consume: the bucket after looking at the clock ...
Bucket(a) ==
  IF buckets[a] = NoBucket \/ now - buckets[a].start >= Window
  THEN [start |-> now, count |-> 0] ELSE buckets[a]

\* Mutated: one request more than the limit.
HasQuotaOffByOne(a) == Bucket(a).count <= Quota

\* ... whether it has room ...
HasQuota(a) == Bucket(a).count < Quota

\* Mutated: the current millisecond is counted as over.
RetryTooEarly(a) == buckets[a].start + Window - now - 1

\* ... and, if not, when it will (a full bucket was not started just now).
RetryAfter(a) ==
  IF buckets[a].start + Window - now > 1 THEN buckets[a].start + Window - now
  ELSE 1

Taken(r, state) ==
  /\ active < Limit
  /\ active' = active + 1
  /\ request' = [request EXCEPT ![r] = [state |-> state, acquired |-> TRUE]]

\* No slot is free: 503 "overloaded".
Overloaded(r) ==
  /\ request[r] = NoRequest
  /\ active >= Limit
  /\ request' = [request EXCEPT ![r] = [state |-> "answered", acquired |-> FALSE]]
  /\ UNCHANGED <<now, active, draining, buckets, gone, granted, promised>>

\* A public probe (/health, /ready), or a request without a valid token, is
\* answered at once; so is any other while the server drains (503).
AnswerAtOnce(r) ==
  /\ request[r] = NoRequest
  /\ Taken(r, "answered")
  /\ UNCHANGED <<now, draining, buckets, gone, granted, promised>>

\* The actor's quota has room: the route goes to work.
Arrive(r, a) ==
  /\ request[r] = NoRequest
  /\ ~draining
  /\ HasQuota(a)
  /\ Taken(r, "working")
  /\ buckets' = [buckets EXCEPT ![a] =
                   [start |-> Bucket(a).start, count |-> Bucket(a).count + 1]]
  /\ granted' = [granted EXCEPT ![a] = Append(@, now)]
  /\ UNCHANGED <<now, draining, gone, promised>>

\* It has none: 429 with retry guidance.
OverQuota(r, a) ==
  /\ request[r] = NoRequest
  /\ ~draining
  /\ ~HasQuota(a)
  /\ Taken(r, "answered")
  /\ promised' = [promised EXCEPT ![a] = now + RetryAfter(a)]
  /\ UNCHANGED <<now, draining, buckets, gone, granted>>

\* The route, or the catch around it, sends its response.
Send(r) ==
  /\ request[r].state = "working"
  /\ request' = [request EXCEPT ![r].state = "answered"]
  /\ UNCHANGED <<now, active, draining, buckets, gone, granted, promised>>

\* Mutated: the slot is given back whether or not it was taken.
ReleaseAlways(r) ==
  /\ request[r].state = "answered"
  /\ active' = active - 1
  /\ request' = [request EXCEPT ![r] = NoRequest]
  /\ UNCHANGED <<now, draining, buckets, gone, granted, promised>>

\* 'finish': the listener gives the slot back.
Finish(r) ==
  /\ request[r].state = "answered"
  /\ active' = IF request[r].acquired THEN active - 1 ELSE active
  /\ request' = [request EXCEPT ![r] = NoRequest]
  /\ UNCHANGED <<now, draining, buckets, gone, granted, promised>>

\* The connection is gone before the response is sent (the client left, or the
\* request timed out): what the route sends is discarded, nothing finishes,
\* and the listener never runs.
Disconnect(r) ==
  /\ request[r].state = "working"
  /\ request' = [request EXCEPT ![r] = NoRequest]
  /\ gone' = gone + 1
  /\ UNCHANGED <<now, active, draining, buckets, granted, promised>>

Drain ==
  /\ ~draining
  /\ draining' = TRUE
  /\ UNCHANGED <<now, active, buckets, request, gone, granted, promised>>

Tick ==
  /\ now < MaxTime
  /\ now' = now + 1
  /\ UNCHANGED <<active, draining, buckets, request, gone, granted, promised>>

AdmissionNext ==
  \/ \E r \in RequestIds :
       \/ Overloaded(r) \/ AnswerAtOnce(r) \/ Send(r) \/ Finish(r) \/ Disconnect(r)
       \/ \E a \in ActorIds : Arrive(r, a) \/ OverQuota(r, a)
  \/ Drain
  \/ Tick

AdmissionSpec == AdmissionInit /\ [][AdmissionNext]_admissionVars

-----------------------------------------------------------------------------
(***************************************************************************)
(* Properties that hold.                                                   *)
(***************************************************************************)
Holders == {r \in RequestIds : request[r] # NoRequest /\ request[r].acquired}

\* The limiter counts one slot for every request let in and still in flight
\* and one for every client that vanished (its 'finish' never comes), and
\* never more than Limit: no other way through the server leaks a slot, gives
\* one back twice or lets in one request too many.
SlotsAreCounted ==
  /\ active = Cardinality(Holders) + gone
  /\ active <= Limit

\* In any span of Window ticks an actor is let in at most twice its quota:
\* what the fixed windows promise across their boundary.
QuotaHolds ==
  \A a \in ActorIds : \A i \in DOMAIN granted[a] :
    i + 2 * Quota \in DOMAIN granted[a] =>
      granted[a][i + 2 * Quota] - granted[a][i] >= Window

\* An actor that waits as long as its 429 said is turned away again only
\* after it used up its whole quota since then (ADR 0009 "429 with retry
\* guidance").
GuidanceIsHonest ==
  [][\A r \in RequestIds, a \in ActorIds :
       OverQuota(r, a) /\ promised[a] # NoPromise /\ now >= promised[a] =>
       Cardinality({i \in DOMAIN granted[a] : granted[a][i] >= promised[a]})
         >= Quota]_admissionVars

=============================================================================
