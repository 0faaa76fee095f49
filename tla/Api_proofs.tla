----------------------------- MODULE Api_proofs -----------------------------
(***************************************************************************)
(* The API, for any orders, keys, requests, handlers, actors and limits, and *)
(* any sequence of refusals, failures and crashes.  Of its mutations: a    *)
(* success reply is stable and is never followed by a second effect, a key is *)
(* applied once unless its requests overlapped or a response was lost, and *)
(* what a client was told stays in the order's history and can be relied   *)
(* on.  Of its admission:                                                  *)
(* the limiter never admits more than it counts, no actor is let in more than *)
(* twice its quota in any span of a window, and the delay a 429 announces is *)
(* honest.                                                                 *)
(***************************************************************************)
EXTENDS ApiMutations, ApiAdmission, FiniteSetTheorems, SequenceTheorems, TLAPS

Busy(h) == handler[h] # Free
IdOf(h) == Id(handler[h].request)
Is(h, state) == Busy(h) /\ handler[h].state = state

HandlerOK(g) ==
  g = Free \/ /\ DOMAIN g \in {{"state", "request", "late"},
                               {"state", "request", "late", "response"}}
              /\ g.state \in {"lookup", "mutate", "record", "reply"}
              /\ g.request \in Requests
              /\ g.state \in {"record", "reply"} => "response" \in DOMAIN g

Shapes ==
  /\ handler = [h \in Handlers |-> handler[h]]
  /\ \A h \in Handlers : HandlerOK(handler[h])
  /\ applied \in [Ids -> Nat]

\* What a client was told is what is recorded of its key.
ReplyOf(id) == [id |-> id, fingerprint |-> cache[id].fingerprint,
                order |-> cache[id].fingerprint[2], response |-> cache[id].response]
RepliesAreRecorded ==
  \A r \in replied : r.id \in DOMAIN cache /\ r = ReplyOf(r.id)

\* What is about to be told is recorded.
ReadyIsRecorded ==
  \A h \in Handlers : Is(h, "reply") =>
    IdOf(h) \in DOMAIN cache /\ cache[IdOf(h)] = RecordOf(h)

\* A retry of an answered key finds the record, so it never gets past looking.
LateIsInert ==
  \A h \in Handlers : Busy(h) /\ handler[h].late =>
    IdOf(h) \in DOMAIN cache /\ handler[h].state = "lookup"

\* A key whose requests never overlapped and that lost nothing: one handler at
\* most is at it; what was applied is recorded, or that handler is about to.
OnceEach ==
  \A id \in Ids \ (overlapped \cup lost) :
    /\ \A g, h \in Handlers : Busy(g) /\ Busy(h) /\ IdOf(g) = id /\ IdOf(h) = id => g = h
    /\ applied[id] <= 1
    /\ applied[id] = 1 => \/ id \in DOMAIN cache
                          \/ \E h \in Handlers : Is(h, "record") /\ IdOf(h) = id
    /\ \A h \in Handlers : Is(h, "mutate") /\ IdOf(h) = id => applied[id] = 0

RetryInv == Shapes /\ RepliesAreRecorded /\ ReadyIsRecorded /\ LateIsInert /\ OnceEach

-----------------------------------------------------------------------------
LEMMA IdsAreIds == ASSUME NEW q \in Requests PROVE Id(q) \in Ids
BY RequestsAreRequests DEF Id, Ids, Actors

LEMMA RetryInit == Init => RetryInv
BY DEF Init, RetryInv, Shapes, HandlerOK, RepliesAreRecorded, ReadyIsRecorded,
   LateIsInert, OnceEach, Busy, Is

\* A handler that is in some state is not free, and has a request.
LEMMA BusyHandler ==
  ASSUME Shapes, NEW h \in Handlers,
         handler[h].state \in {"lookup", "mutate", "record", "reply"}
  PROVE  /\ Busy(h) /\ handler[h].request \in Requests /\ IdOf(h) \in Ids
         /\ DOMAIN handler[h] \in {{"state", "request", "late"},
                                   {"state", "request", "late", "response"}}
         /\ handler[h].state \in {"record", "reply"} => "response" \in DOMAIN handler[h]
<1>1. Busy(h)
  BY DEF Busy, Free
<1>2. /\ handler[h].request \in Requests
      /\ DOMAIN handler[h] \in {{"state", "request", "late"},
                                {"state", "request", "late", "response"}}
      /\ handler[h].state \in {"record", "reply"} => "response" \in DOMAIN handler[h]
  BY <1>1 DEF Shapes, HandlerOK, Busy
<1> QED
  BY <1>1, <1>2, IdsAreIds DEF IdOf

\* Leaving: every other handler stays as it is.
LEMMA LeaveShapes ==
  ASSUME Shapes, NEW h \in Handlers, Leave(h)
  PROVE  /\ handler' = [g \in Handlers |-> handler'[g]]
         /\ \A g \in Handlers : HandlerOK(handler'[g])
         /\ ~Busy(h)' /\ \A g \in Handlers \ {h} : handler'[g] = handler[g]
BY DEF Shapes, HandlerOK, Leave, Busy

LEMMA GotoShapes ==
  ASSUME Shapes, NEW h \in Handlers, NEW state \in {"lookup", "mutate", "record", "reply"},
         Busy(h), state \in {"record", "reply"} => "response" \in DOMAIN handler[h],
         Goto(h, state)
  PROVE  /\ handler' = [g \in Handlers |-> handler'[g]]
         /\ \A g \in Handlers : HandlerOK(handler'[g])
         /\ Busy(h)' /\ handler'[h].state = state
         /\ handler'[h].request = handler[h].request
         /\ handler'[h].late = handler[h].late
         /\ "response" \in DOMAIN handler[h] => handler'[h].response = handler[h].response
         /\ \A g \in Handlers \ {h} : handler'[g] = handler[g]
<1>1. /\ handler' = [handler EXCEPT ![h] = [handler[h] EXCEPT !.state = state]]
      /\ handler = [g \in Handlers |-> handler[g]]
  BY DEF Goto, Shapes
<1>2. /\ handler'[h] = [handler[h] EXCEPT !.state = state]
      /\ \A g \in Handlers \ {h} : handler'[g] = handler[g]
      /\ handler' = [g \in Handlers |-> handler'[g]]
  BY <1>1
<1>3. /\ DOMAIN handler[h] \in {{"state", "request", "late"},
                                {"state", "request", "late", "response"}}
      /\ handler[h].request \in Requests
  BY DEF Shapes, HandlerOK, Busy
<1>4. /\ DOMAIN handler'[h] = DOMAIN handler[h]
      /\ handler'[h].state = state
      /\ handler'[h].request = handler[h].request
      /\ handler'[h].late = handler[h].late
      /\ "response" \in DOMAIN handler[h] => handler'[h].response = handler[h].response
  BY <1>2, <1>3
<1>5. HandlerOK(handler'[h])
  BY <1>3, <1>4 DEF HandlerOK
<1>6. Busy(h)'
  BY <1>4 DEF Busy, Free
<1> QED
  BY <1>2, <1>4, <1>5, <1>6 DEF Shapes

\* A record is never replaced: what was said of the cache stays true.
Grows == \A id \in DOMAIN cache : id \in DOMAIN cache' /\ cache'[id] = cache[id]

LEMMA GrowsKeeps ==
  ASSUME RepliesAreRecorded, Grows, replied' = replied
  PROVE  RepliesAreRecorded'
BY DEF RepliesAreRecorded, Grows, ReplyOf

LEMMA PutGrows ==
  ASSUME NEW id, NEW record, id \notin DOMAIN cache, cache' = Put(cache, id, record)
  PROVE  Grows /\ id \in DOMAIN cache' /\ cache'[id] = record
BY DEF Put, Grows

\* A handler that leaves disturbs nothing, unless it leaves what it applied
\* behind unrecorded; then its key has lost something.
LEMMA LeaveKeeps ==
  ASSUME RetryInv, NEW h \in Handlers, Leave(h), UNCHANGED <<overlapped, applied>>, Grows,
         lost \subseteq lost',
         Is(h, "record") => IdOf(h) \in DOMAIN cache' \/ IdOf(h) \in lost'
  PROVE  Shapes' /\ ReadyIsRecorded' /\ LateIsInert' /\ OnceEach'
<1>1. /\ Shapes' /\ ~Busy(h)'
      /\ \A g \in Handlers \ {h} : handler'[g] = handler[g]
  BY LeaveShapes DEF RetryInv, Shapes
<1>2. ReadyIsRecorded'
  BY <1>1 DEF RetryInv, ReadyIsRecorded, Is, Busy, IdOf, RecordOf, Grows
<1>3. LateIsInert'
  BY <1>1 DEF RetryInv, LateIsInert, Busy, IdOf, Grows
<1>4. OnceEach'
  <2> SUFFICES ASSUME NEW id \in Ids \ (overlapped' \cup lost')
      PROVE  /\ \A g, f \in Handlers : Busy(g)' /\ Busy(f)' /\ IdOf(g)' = id /\ IdOf(f)' = id => g = f
             /\ applied'[id] <= 1
             /\ applied'[id] = 1 => \/ id \in DOMAIN cache'
                                    \/ \E g \in Handlers : Is(g, "record")' /\ IdOf(g)' = id
             /\ \A g \in Handlers : Is(g, "mutate")' /\ IdOf(g)' = id => applied'[id] = 0
    BY DEF OnceEach
  <2>1. \A g \in Handlers : Busy(g)' => g # h /\ Busy(g) /\ IdOf(g)' = IdOf(g)
                                        /\ handler'[g].state = handler[g].state
    BY <1>1 DEF Busy, IdOf
  <2>2. /\ \A g, f \in Handlers : Busy(g) /\ Busy(f) /\ IdOf(g) = id /\ IdOf(f) = id => g = f
        /\ applied[id] <= 1
        /\ applied[id] = 1 => \/ id \in DOMAIN cache
                              \/ \E g \in Handlers : Is(g, "record") /\ IdOf(g) = id
        /\ \A g \in Handlers : Is(g, "mutate") /\ IdOf(g) = id => applied[id] = 0
    BY DEF RetryInv, OnceEach
  <2>3. applied[id] = 1 => \/ id \in DOMAIN cache'
                           \/ \E g \in Handlers : Is(g, "record")' /\ IdOf(g)' = id
    <3> SUFFICES ASSUME applied[id] = 1, id \notin DOMAIN cache'
                 PROVE  \E g \in Handlers : Is(g, "record")' /\ IdOf(g)' = id
      OBVIOUS
    <3>1. PICK g \in Handlers : Is(g, "record") /\ IdOf(g) = id
      BY <2>2 DEF Grows
    <3>2. g # h
      BY <3>1
    <3> QED
      BY <1>1, <3>1, <3>2 DEF Is, Busy, IdOf
  <2> QED
    BY <2>1, <2>2, <2>3 DEF Is
<1> QED
  BY <1>1, <1>2, <1>3, <1>4

LEMMA ReceiveKeeps ==
  ASSUME RetryInv, NEW h \in Handlers, NEW q \in Requests, Receive(h, q)
  PROVE  RetryInv'
<1>1. /\ ~Busy(h) /\ UNCHANGED <<cache, replied, applied, lost>>
      /\ handler' = [handler EXCEPT ![h] =
           [state |-> "lookup", request |-> q, late |-> \E r \in replied : r.id = Id(q)]]
  BY DEF Receive, Busy
<1>2. /\ handler'[h] = [state |-> "lookup", request |-> q,
                        late |-> \E r \in replied : r.id = Id(q)]
      /\ \A g \in Handlers \ {h} : handler'[g] = handler[g]
      /\ handler' = [g \in Handlers |-> handler'[g]]
  BY <1>1 DEF RetryInv, Shapes
<1>3. /\ handler'[h].state = "lookup" /\ handler'[h].request = q /\ Busy(h)'
      /\ handler'[h].late <=> \E r \in replied : r.id = Id(q)
      /\ DOMAIN handler'[h] = {"state", "request", "late"}
  BY <1>2 DEF Busy, Free
<1>4. Shapes'
  BY <1>1, <1>2, <1>3 DEF RetryInv, Shapes, HandlerOK
<1>5. RepliesAreRecorded' /\ ReadyIsRecorded'
  BY <1>1, <1>2, <1>3 DEF RetryInv, RepliesAreRecorded, ReplyOf, ReadyIsRecorded, Is, Busy,
     IdOf, RecordOf
<1>6. LateIsInert'
  <2>1. handler'[h].late => Id(q) \in DOMAIN cache
    BY <1>3 DEF RetryInv, RepliesAreRecorded
  <2> QED
    BY <1>1, <1>2, <1>3, <2>1 DEF RetryInv, LateIsInert, Busy, IdOf
<1>7. OnceEach'
  <2> SUFFICES ASSUME NEW id \in Ids \ (overlapped' \cup lost')
      PROVE  /\ \A g, f \in Handlers : Busy(g)' /\ Busy(f)' /\ IdOf(g)' = id /\ IdOf(f)' = id => g = f
             /\ applied'[id] <= 1
             /\ applied'[id] = 1 => \/ id \in DOMAIN cache'
                                    \/ \E g \in Handlers : Is(g, "record")' /\ IdOf(g)' = id
             /\ \A g \in Handlers : Is(g, "mutate")' /\ IdOf(g)' = id => applied'[id] = 0
    BY DEF OnceEach
  <2>1. id \in Ids \ (overlapped \cup lost)
    BY <1>1 DEF Receive
  <2>2. \A g \in Handlers \ {h} : /\ Busy(g)' <=> Busy(g)
                                  /\ IdOf(g)' = IdOf(g) /\ handler'[g].state = handler[g].state
    BY <1>2 DEF Busy, IdOf
  <2>3. id = Id(q) => \A g \in Handlers \ {h} : ~(Busy(g) /\ IdOf(g) = id)
    BY DEF Receive, Busy, IdOf
  <2>4. IdOf(h)' = Id(q) /\ ~Is(h, "mutate")' /\ ~Is(h, "record")
    BY <1>1, <1>3 DEF IdOf, Is
  <2>5. /\ \A g, f \in Handlers : Busy(g) /\ Busy(f) /\ IdOf(g) = id /\ IdOf(f) = id => g = f
        /\ applied[id] <= 1
        /\ applied[id] = 1 => \/ id \in DOMAIN cache
                              \/ \E g \in Handlers : Is(g, "record") /\ IdOf(g) = id
        /\ \A g \in Handlers : Is(g, "mutate") /\ IdOf(g) = id => applied[id] = 0
    BY <2>1 DEF RetryInv, OnceEach
  <2> QED
    BY <1>1, <2>2, <2>3, <2>4, <2>5 DEF Is
<1> QED
  BY <1>4, <1>5, <1>6, <1>7 DEF RetryInv

LEMMA FoundKeeps ==
  ASSUME RetryInv, NEW h \in Handlers, Found(h) PROVE RetryInv'
<1> DEFINE q == handler[h].request
<1>1. /\ handler[h].state = "lookup" /\ Leave(h) /\ Grows
      /\ UNCHANGED <<cache, applied, overlapped, lost>>
      /\ Id(q) \in DOMAIN cache /\ cache[Id(q)].fingerprint = Fingerprint(q)
      /\ replied' = replied \cup {Answer(q, cache[Id(q)].response)}
  BY DEF Found, Grows
<1>2. Shapes' /\ ReadyIsRecorded' /\ LateIsInert' /\ OnceEach'
  BY <1>1, LeaveKeeps DEF Is
<1>3. Answer(q, cache[Id(q)].response) = ReplyOf(Id(q))
  BY <1>1 DEF Answer, ReplyOf, Fingerprint
<1>4. Answer(q, cache[Id(q)].response).id = Id(q)
  BY DEF Answer
<1>5. RepliesAreRecorded'
  BY <1>1, <1>3, <1>4 DEF RetryInv, RepliesAreRecorded, ReplyOf
<1> QED
  BY <1>2, <1>5 DEF RetryInv

LEMMA MissedKeeps ==
  ASSUME RetryInv, NEW h \in Handlers, Missed(h) PROVE RetryInv'
<1>1. /\ handler[h].state = "lookup" /\ Goto(h, "mutate") /\ IdOf(h) \notin DOMAIN cache
      /\ UNCHANGED <<cache, replied, applied, overlapped, lost>>
  BY DEF Missed, IdOf
<1>2. Shapes /\ Busy(h) /\ IdOf(h) \in Ids
  BY <1>1, BusyHandler DEF RetryInv
<1>3. /\ Shapes'
      /\ Busy(h)' /\ handler'[h].state = "mutate"
      /\ handler'[h].request = handler[h].request /\ handler'[h].late = handler[h].late
      /\ \A g \in Handlers \ {h} : handler'[g] = handler[g]
  BY <1>1, <1>2, GotoShapes DEF Shapes
<1>4. RepliesAreRecorded' /\ ReadyIsRecorded'
  BY <1>1, <1>3 DEF RetryInv, RepliesAreRecorded, ReplyOf, ReadyIsRecorded, Is, Busy, IdOf, RecordOf
<1>5. LateIsInert'
  BY <1>1, <1>2, <1>3 DEF RetryInv, LateIsInert, Busy, IdOf
<1>6. OnceEach'
  <2> SUFFICES ASSUME NEW id \in Ids \ (overlapped \cup lost)
      PROVE  /\ \A g, f \in Handlers : Busy(g)' /\ Busy(f)' /\ IdOf(g)' = id /\ IdOf(f)' = id => g = f
             /\ applied'[id] <= 1
             /\ applied'[id] = 1 => \/ id \in DOMAIN cache'
                                    \/ \E g \in Handlers : Is(g, "record")' /\ IdOf(g)' = id
             /\ \A g \in Handlers : Is(g, "mutate")' /\ IdOf(g)' = id => applied'[id] = 0
    BY <1>1 DEF OnceEach
  <2>1. /\ \A g, f \in Handlers : Busy(g) /\ Busy(f) /\ IdOf(g) = id /\ IdOf(f) = id => g = f
        /\ applied[id] \in Nat /\ applied[id] <= 1
        /\ applied[id] = 1 => \/ id \in DOMAIN cache
                              \/ \E g \in Handlers : Is(g, "record") /\ IdOf(g) = id
        /\ \A g \in Handlers : Is(g, "mutate") /\ IdOf(g) = id => applied[id] = 0
    BY DEF RetryInv, OnceEach, Shapes
  <2>2. \A g \in Handlers : (Busy(g)' <=> Busy(g)) /\ IdOf(g)' = IdOf(g)
    BY <1>2, <1>3 DEF Busy, IdOf
  <2>3. \A g \in Handlers \ {h} : handler'[g].state = handler[g].state
    BY <1>3
  <2>4. IdOf(h) = id => applied[id] = 0
    BY <1>1, <1>2, <2>1 DEF Is
  <2>5. \A g \in Handlers : Is(g, "record") => Is(g, "record")'
    BY <1>1, <2>2, <2>3 DEF Is
  <2> QED
    BY <1>1, <2>1, <2>2, <2>3, <2>4, <2>5 DEF Is
<1> QED
  BY <1>3, <1>4, <1>5, <1>6 DEF RetryInv

LEMMA MutateKeeps ==
  ASSUME RetryInv, NEW h \in Handlers, Mutate(h) PROVE RetryInv'
<1> DEFINE q == handler[h].request
<1>1. /\ handler[h].state = "mutate"
      /\ handler' = [handler EXCEPT ![h] = [state |-> "record", request |-> q,
                                            late |-> handler[h].late, response |-> Result(q)]]
      /\ applied' = [applied EXCEPT ![Id(q)] = @ + 1]
      /\ UNCHANGED <<cache, replied, overlapped, lost>>
  BY DEF Mutate
<1>2. Shapes /\ Busy(h) /\ IdOf(h) \in Ids /\ q \in Requests
  BY <1>1, BusyHandler DEF RetryInv
<1>3. /\ handler'[h] = [state |-> "record", request |-> q,
                        late |-> handler[h].late, response |-> Result(q)]
      /\ \A g \in Handlers \ {h} : handler'[g] = handler[g]
      /\ handler' = [g \in Handlers |-> handler'[g]]
  BY <1>1, <1>2 DEF Shapes
<1>4. /\ handler'[h].state = "record" /\ handler'[h].request = q
      /\ handler'[h].late = handler[h].late /\ Busy(h)'
      /\ DOMAIN handler'[h] = {"state", "request", "late", "response"}
  BY <1>3 DEF Busy, Free
<1>5. HandlerOK(handler'[h])
  BY <1>2, <1>4 DEF HandlerOK
<1>6. applied' \in [Ids -> Nat]
  BY <1>1, <1>2 DEF Shapes, IdOf
<1>7. Shapes'
  BY <1>2, <1>3, <1>5, <1>6 DEF Shapes
<1>8. RepliesAreRecorded' /\ ReadyIsRecorded'
  BY <1>1, <1>3, <1>4 DEF RetryInv, RepliesAreRecorded, ReplyOf, ReadyIsRecorded, Is, Busy, IdOf, RecordOf
<1>9. LateIsInert'
  BY <1>1, <1>2, <1>3, <1>4 DEF RetryInv, LateIsInert, Busy, IdOf
<1>10. OnceEach'
  <2> SUFFICES ASSUME NEW id \in Ids \ (overlapped \cup lost)
      PROVE  /\ \A g, f \in Handlers : Busy(g)' /\ Busy(f)' /\ IdOf(g)' = id /\ IdOf(f)' = id => g = f
             /\ applied'[id] <= 1
             /\ applied'[id] = 1 => \/ id \in DOMAIN cache'
                                    \/ \E g \in Handlers : Is(g, "record")' /\ IdOf(g)' = id
             /\ \A g \in Handlers : Is(g, "mutate")' /\ IdOf(g)' = id => applied'[id] = 0
    BY <1>1 DEF OnceEach
  <2>1. /\ \A g, f \in Handlers : Busy(g) /\ Busy(f) /\ IdOf(g) = id /\ IdOf(f) = id => g = f
        /\ applied[id] \in Nat /\ applied[id] <= 1
        /\ applied[id] = 1 => \/ id \in DOMAIN cache
                              \/ \E g \in Handlers : Is(g, "record") /\ IdOf(g) = id
        /\ \A g \in Handlers : Is(g, "mutate") /\ IdOf(g) = id => applied[id] = 0
    BY DEF RetryInv, OnceEach, Shapes
  <2>2. \A g \in Handlers : (Busy(g)' <=> Busy(g)) /\ IdOf(g)' = IdOf(g)
    BY <1>2, <1>3, <1>4 DEF Busy, IdOf
  <2>3. \A g \in Handlers \ {h} : handler'[g].state = handler[g].state
    BY <1>3
  <2>4. CASE IdOf(h) = id
    <3>1. applied[id] = 0
      BY <1>1, <1>2, <2>1, <2>4 DEF Is
    <3>2. applied'[id] = 1
      BY <1>1, <1>2, <2>4, <3>1 DEF Shapes, IdOf
    <3>3. Is(h, "record")' /\ IdOf(h)' = id
      BY <1>4, <2>2, <2>4 DEF Is
    <3>4. \A g \in Handlers : ~(Is(g, "mutate")' /\ IdOf(g)' = id)
      BY <1>2, <1>4, <2>1, <2>2, <2>4 DEF Is
    <3> QED
      BY <2>1, <2>2, <3>2, <3>3, <3>4
  <2>5. CASE IdOf(h) # id
    <3>1. applied'[id] = applied[id]
      BY <1>1, <2>5 DEF IdOf
    <3>2. \A g \in Handlers : IdOf(g) = id => (Is(g, "record")' <=> Is(g, "record"))
                                             /\ (Is(g, "mutate")' <=> Is(g, "mutate"))
      BY <2>2, <2>3, <2>5 DEF Is
    <3> QED
      BY <1>1, <2>1, <2>2, <3>1, <3>2
  <2> QED
    BY <2>4, <2>5
<1> QED
  BY <1>7, <1>8, <1>9, <1>10 DEF RetryInv

\* An attempt that fails after it took effect has lost its response.
LEMMA MutateFailsKeeps ==
  ASSUME RetryInv, NEW h \in Handlers, MutateFails(h) PROVE RetryInv'
<1>1. /\ handler[h].state = "mutate" /\ Leave(h) /\ Grows
      /\ UNCHANGED <<cache, replied, overlapped>>
      /\ \/ UNCHANGED <<applied, lost>>
         \/ /\ applied' = [applied EXCEPT ![IdOf(h)] = @ + 1]
            /\ lost' = lost \cup {IdOf(h)}
  BY DEF MutateFails, Grows, IdOf
<1>2. RepliesAreRecorded'
  BY <1>1, GrowsKeeps DEF RetryInv
<1>3. CASE UNCHANGED <<applied, lost>>
  <2>1. Shapes' /\ ReadyIsRecorded' /\ LateIsInert' /\ OnceEach'
    BY <1>1, <1>3, LeaveKeeps DEF Is
  <2> QED
    BY <1>2, <2>1 DEF RetryInv
<1>4. CASE applied' = [applied EXCEPT ![IdOf(h)] = @ + 1] /\ lost' = lost \cup {IdOf(h)}
  <2>1. IdOf(h) \in Ids /\ Shapes
    BY <1>1, BusyHandler DEF RetryInv
  <2>2. /\ handler' = [g \in Handlers |-> handler'[g]]
        /\ \A g \in Handlers : HandlerOK(handler'[g])
        /\ ~Busy(h)' /\ \A g \in Handlers \ {h} : handler'[g] = handler[g]
    BY <1>1, <2>1, LeaveShapes
  <2>3. applied' \in [Ids -> Nat]
    BY <1>4, <2>1 DEF Shapes
  <2>4. Shapes'
    BY <2>2, <2>3 DEF Shapes
  <2>5. ReadyIsRecorded' /\ LateIsInert'
    BY <1>1, <2>2 DEF RetryInv, ReadyIsRecorded, LateIsInert, Is, Busy, IdOf, RecordOf
  <2>6. OnceEach'
    <3> SUFFICES ASSUME NEW id \in Ids \ (overlapped' \cup lost')
        PROVE  /\ \A g, f \in Handlers : Busy(g)' /\ Busy(f)' /\ IdOf(g)' = id /\ IdOf(f)' = id => g = f
               /\ applied'[id] <= 1
               /\ applied'[id] = 1 => \/ id \in DOMAIN cache'
                                      \/ \E g \in Handlers : Is(g, "record")' /\ IdOf(g)' = id
               /\ \A g \in Handlers : Is(g, "mutate")' /\ IdOf(g)' = id => applied'[id] = 0
      BY DEF OnceEach
    <3>1. id \in Ids \ (overlapped \cup lost) /\ id # IdOf(h) /\ applied'[id] = applied[id]
      BY <1>1, <1>4 DEF Shapes
    <3>2. /\ \A g, f \in Handlers : Busy(g) /\ Busy(f) /\ IdOf(g) = id /\ IdOf(f) = id => g = f
          /\ applied[id] <= 1
          /\ applied[id] = 1 => \/ id \in DOMAIN cache
                                \/ \E g \in Handlers : Is(g, "record") /\ IdOf(g) = id
          /\ \A g \in Handlers : Is(g, "mutate") /\ IdOf(g) = id => applied[id] = 0
      BY <3>1 DEF RetryInv, OnceEach
    <3>3. \A g \in Handlers : Busy(g)' => /\ Busy(g) /\ IdOf(g)' = IdOf(g)
                                          /\ handler'[g].state = handler[g].state
      BY <2>2 DEF Busy, IdOf
    <3>4. \A g \in Handlers : IdOf(g) = id /\ Is(g, "record") => Is(g, "record")' /\ IdOf(g)' = id
      BY <2>2, <3>1 DEF Is, Busy, IdOf
    <3> QED
      BY <1>1, <3>1, <3>2, <3>3, <3>4 DEF Is
  <2> QED
    BY <1>2, <2>4, <2>5, <2>6 DEF RetryInv
<1> QED
  BY <1>1, <1>3, <1>4

LEMMA RecordedKeeps ==
  ASSUME RetryInv, NEW h \in Handlers, Recorded(h) PROVE RetryInv'
<1>1. /\ handler[h].state = "record" /\ Goto(h, "reply") /\ IdOf(h) \notin DOMAIN cache
      /\ cache' = Put(cache, IdOf(h), RecordOf(h))
      /\ UNCHANGED <<replied, applied, overlapped, lost>>
  BY DEF Recorded, IdOf
<1>2. /\ Shapes /\ Busy(h) /\ IdOf(h) \in Ids /\ "response" \in DOMAIN handler[h]
  BY <1>1, BusyHandler DEF RetryInv
<1>3. /\ handler' = [g \in Handlers |-> handler'[g]]
      /\ \A g \in Handlers : HandlerOK(handler'[g])
      /\ Busy(h)' /\ handler'[h].state = "reply"
      /\ handler'[h].request = handler[h].request /\ handler'[h].late = handler[h].late
      /\ handler'[h].response = handler[h].response
      /\ \A g \in Handlers \ {h} : handler'[g] = handler[g]
  BY <1>1, <1>2, GotoShapes
<1>4. Grows /\ IdOf(h) \in DOMAIN cache' /\ cache'[IdOf(h)] = RecordOf(h)
  BY <1>1, PutGrows
<1>5. Shapes' /\ RepliesAreRecorded'
  BY <1>1, <1>3, <1>4, GrowsKeeps DEF RetryInv, Shapes
<1>6. ReadyIsRecorded'
  <2>1. IdOf(h)' = IdOf(h) /\ RecordOf(h)' = RecordOf(h)
    BY <1>3 DEF IdOf, RecordOf
  <2>2. ASSUME NEW g \in Handlers \ {h}, Is(g, "reply")'
        PROVE  IdOf(g)' \in DOMAIN cache' /\ cache'[IdOf(g)'] = RecordOf(g)'
    <3>1. Is(g, "reply") /\ IdOf(g)' = IdOf(g) /\ RecordOf(g)' = RecordOf(g)
      BY <1>3, <2>2 DEF Is, Busy, IdOf, RecordOf
    <3> QED
      BY <1>4, <3>1 DEF RetryInv, ReadyIsRecorded, Grows
  <2> QED
    BY <1>4, <2>1, <2>2 DEF ReadyIsRecorded
<1>7. LateIsInert'
  BY <1>1, <1>2, <1>3, <1>4 DEF RetryInv, LateIsInert, Busy, IdOf, Grows
<1>8. OnceEach'
  <2> SUFFICES ASSUME NEW id \in Ids \ (overlapped \cup lost)
      PROVE  /\ \A g, f \in Handlers : Busy(g)' /\ Busy(f)' /\ IdOf(g)' = id /\ IdOf(f)' = id => g = f
             /\ applied'[id] <= 1
             /\ applied'[id] = 1 => \/ id \in DOMAIN cache'
                                    \/ \E g \in Handlers : Is(g, "record")' /\ IdOf(g)' = id
             /\ \A g \in Handlers : Is(g, "mutate")' /\ IdOf(g)' = id => applied'[id] = 0
    BY <1>1 DEF OnceEach
  <2>1. /\ \A g, f \in Handlers : Busy(g) /\ Busy(f) /\ IdOf(g) = id /\ IdOf(f) = id => g = f
        /\ applied[id] <= 1
        /\ applied[id] = 1 => \/ id \in DOMAIN cache
                              \/ \E g \in Handlers : Is(g, "record") /\ IdOf(g) = id
        /\ \A g \in Handlers : Is(g, "mutate") /\ IdOf(g) = id => applied[id] = 0
    BY DEF RetryInv, OnceEach
  <2>2. \A g \in Handlers : (Busy(g)' <=> Busy(g)) /\ IdOf(g)' = IdOf(g)
    BY <1>2, <1>3 DEF Busy, IdOf
  <2>3. \A g \in Handlers : Is(g, "mutate")' => Is(g, "mutate")
    BY <1>3 DEF Is, Busy
  <2>4. applied[id] = 1 => \/ id \in DOMAIN cache'
                           \/ \E g \in Handlers : Is(g, "record")' /\ IdOf(g)' = id
    <3> SUFFICES ASSUME applied[id] = 1, id \notin DOMAIN cache'
                 PROVE  \E g \in Handlers : Is(g, "record")' /\ IdOf(g)' = id
      OBVIOUS
    <3>1. PICK g \in Handlers : Is(g, "record") /\ IdOf(g) = id
      BY <1>4, <2>1 DEF Grows
    <3>2. g # h
      BY <1>4, <3>1
    <3> QED
      BY <1>3, <3>1, <3>2 DEF Is, Busy, IdOf
  <2> QED
    BY <1>1, <2>1, <2>2, <2>3, <2>4
<1> QED
  BY <1>5, <1>6, <1>7, <1>8 DEF RetryInv

LEMMA RecordFailsKeeps ==
  ASSUME RetryInv, NEW h \in Handlers, RecordRefused(h) \/ RecordFails(h) PROVE RetryInv'
<1>1. /\ Leave(h) /\ UNCHANGED <<replied, applied, overlapped>>
      /\ \/ UNCHANGED cache /\ lost' = lost \cup {IdOf(h)}
         \/ /\ IdOf(h) \notin DOMAIN cache
            /\ cache' = Put(cache, IdOf(h), RecordOf(h))
            /\ UNCHANGED lost
  BY DEF RecordRefused, RecordFails, IdOf
<1>2. Grows /\ lost \subseteq lost' /\ (IdOf(h) \in DOMAIN cache' \/ IdOf(h) \in lost')
  <2>1. CASE UNCHANGED cache /\ lost' = lost \cup {IdOf(h)}
    BY <2>1 DEF Grows
  <2>2. CASE /\ IdOf(h) \notin DOMAIN cache
             /\ cache' = Put(cache, IdOf(h), RecordOf(h))
             /\ UNCHANGED lost
    BY <2>2, PutGrows
  <2> QED
    BY <1>1, <2>1, <2>2
<1> QED
  BY <1>1, <1>2, LeaveKeeps, GrowsKeeps DEF RetryInv

LEMMA ReplyKeeps ==
  ASSUME RetryInv, NEW h \in Handlers, Reply(h) PROVE RetryInv'
<1> DEFINE q == handler[h].request
<1>1. /\ handler[h].state = "reply" /\ Leave(h) /\ Grows
      /\ UNCHANGED <<cache, applied, overlapped, lost>>
      /\ replied' \subseteq replied \cup {Answer(q, handler[h].response)}
  BY DEF Reply, Grows
<1>2. Shapes' /\ ReadyIsRecorded' /\ LateIsInert' /\ OnceEach'
  BY <1>1, LeaveKeeps DEF Is
<1>3. IdOf(h) \in DOMAIN cache /\ cache[IdOf(h)] = RecordOf(h)
  BY <1>1, BusyHandler DEF RetryInv, ReadyIsRecorded, Is
<1>4. Answer(q, handler[h].response) = ReplyOf(Id(q)) /\ Answer(q, handler[h].response).id = Id(q)
  BY <1>3 DEF Answer, ReplyOf, Fingerprint, RecordOf, IdOf
<1>5. RepliesAreRecorded'
  BY <1>1, <1>3, <1>4 DEF RetryInv, RepliesAreRecorded, ReplyOf, IdOf
<1> QED
  BY <1>2, <1>5 DEF RetryInv

\* What a crash finds applied and not recorded is lost; nothing else is.
LEMMA CrashKeeps == ASSUME RetryInv, Crash PROVE RetryInv'
<1>1. /\ handler' = [h \in Handlers |-> Free]
      /\ UNCHANGED <<cache, replied, applied, overlapped>>
      /\ lost' = lost \cup {Id(handler[h].request) :
                              h \in {x \in Handlers : handler[x].state = "record"}}
  BY DEF Crash
<1>2. Shapes' /\ \A h \in Handlers : ~Busy(h)'
  BY <1>1 DEF RetryInv, Shapes, HandlerOK, Busy
<1>3. RepliesAreRecorded' /\ ReadyIsRecorded' /\ LateIsInert'
  BY <1>1, <1>2 DEF RetryInv, RepliesAreRecorded, ReplyOf, ReadyIsRecorded, LateIsInert, Is
<1>4. \A h \in Handlers : Is(h, "record") => IdOf(h) \in lost'
  BY <1>1 DEF Is, IdOf
<1>5. OnceEach'
  BY <1>1, <1>2, <1>4 DEF RetryInv, OnceEach, Is
<1> QED
  BY <1>2, <1>3, <1>5 DEF RetryInv

LEMMA RetryStep == RetryInv /\ [Next]_vars => RetryInv'
<1> SUFFICES ASSUME RetryInv, [Next]_vars PROVE RetryInv'
  OBVIOUS
<1>1. ASSUME NEW h \in Handlers, NEW q \in Requests, Receive(h, q) PROVE RetryInv'
  BY <1>1, ReceiveKeeps
<1>2. ASSUME NEW h \in Handlers, Found(h) PROVE RetryInv'
  BY <1>2, FoundKeeps
<1>3. ASSUME NEW h \in Handlers, Rejected(h) \/ Refused(h) PROVE RetryInv'
  <2>1. /\ handler[h].state \in {"lookup", "mutate"} /\ Leave(h) /\ Grows
        /\ UNCHANGED <<cache, replied, applied, overlapped, lost>>
    BY <1>3 DEF Rejected, Refused, Grows
  <2> QED
    BY <2>1, LeaveKeeps, GrowsKeeps DEF RetryInv, Is
<1>4. ASSUME NEW h \in Handlers, Missed(h) PROVE RetryInv'
  BY <1>4, MissedKeeps
<1>5. ASSUME NEW h \in Handlers, Mutate(h) PROVE RetryInv'
  BY <1>5, MutateKeeps
<1>6. ASSUME NEW h \in Handlers, MutateFails(h) PROVE RetryInv'
  BY <1>6, MutateFailsKeeps
<1>7. ASSUME NEW h \in Handlers, Recorded(h) PROVE RetryInv'
  BY <1>7, RecordedKeeps
<1>8. ASSUME NEW h \in Handlers, RecordRefused(h) \/ RecordFails(h) PROVE RetryInv'
  BY <1>8, RecordFailsKeeps
<1>9. ASSUME NEW h \in Handlers, Reply(h) PROVE RetryInv'
  BY <1>9, ReplyKeeps
<1>10. CASE Crash
  BY <1>10, CrashKeeps
<1>11. CASE UNCHANGED vars
  BY <1>11 DEF vars, RetryInv, Shapes, RepliesAreRecorded, ReplyOf, ReadyIsRecorded,
     LateIsInert, OnceEach, Is, Busy, IdOf, RecordOf
<1> QED
  BY <1>1, <1>2, <1>3, <1>4, <1>5, <1>6, <1>7, <1>8, <1>9, <1>10, <1>11 DEF Next

LEMMA RetryAlways == Spec => []RetryInv
BY RetryInit, RetryStep, PTL DEF Spec

\* All success replies to one key are one and the same (cache.put appends at
\* version 0 of the key's stream, and the reply comes after it).
THEOREM RepliesAlwaysAgree == Spec => []RepliesAgree
<1>1. RetryInv => RepliesAgree
  BY DEF RetryInv, RepliesAreRecorded, RepliesAgree
<1> QED
  BY <1>1, RetryAlways, PTL

\* A request sent after its key was answered applies nothing.
THEOREM RetriesAreInert == Spec => []RetryAfterSuccessIsInert
<1>1. RetryInv => RetryAfterSuccessIsInert
  BY DEF RetryInv, LateIsInert, RetryAfterSuccessIsInert, Busy
<1> QED
  BY <1>1, RetryAlways, PTL

\* Retries one after the other are safe as long as no response is lost.
THEOREM AppliedOnce == Spec => []AppliedOnceUnlessLost
<1>1. RetryInv => AppliedOnceUnlessLost
  <2> SUFFICES ASSUME RetryInv, NEW id \in Ids, applied[id] > 1
               PROVE  id \in overlapped \cup lost
    BY DEF AppliedOnceUnlessLost
  <2>1. applied[id] \in Nat
    BY DEF RetryInv, Shapes
  <2> QED
    BY <2>1 DEF RetryInv, OnceEach
<1> QED
  BY <1>1, RetryAlways, PTL

-----------------------------------------------------------------------------
(***************************************************************************)
(* What a client was told stays in the order's history.  A snapshot is     *)
(* told to a client long after it was stored, by Reply or, after any       *)
(* number of retries and restarts, by Found; by then others have changed   *)
(* the order.  So the claim is carried by every snapshot that may still be *)
(* told: those that a handler holds and those that are recorded.           *)
(***************************************************************************)
Begins(a, b) == Len(a) <= Len(b) /\ \A i \in 1 .. Len(a) : b[i] = a[i]

StoredAreSnapshots == \A o \in DOMAIN orders : orders[o] \in Snapshots

\* The snapshot is one, and the order's trail still begins with its own.
Tells(o, s) ==
  o \in DOMAIN orders /\ s \in Snapshots /\ Begins(s.audit, orders[o].audit)

HeldIsTold ==
  \A h \in Handlers : Is(h, "record") \/ Is(h, "reply") =>
    Tells(handler[h].request.order, handler[h].response)

RecordedIsTold ==
  \A id \in DOMAIN cache : Tells(cache[id].fingerprint[2], cache[id].response)

TrailInv == RetryInv /\ StoredAreSnapshots /\ HeldIsTold /\ RecordedIsTold

\* What a step may do to the orders: each keeps its trail, or continues it.
TrailsGrow ==
  \A o \in DOMAIN orders : /\ o \in DOMAIN orders'
                           /\ Begins(orders[o].audit, orders'[o].audit)

LEMMA AuditIsSeq ==
  ASSUME NEW s \in Snapshots
  PROVE  s.audit \in Seq(AuditEntries) /\ Len(s.audit) \in Nat /\ "audit" \in DOMAIN s
BY DEF Snapshots

LEMMA TellsOn ==
  ASSUME StoredAreSnapshots, StoredAreSnapshots', TrailsGrow, NEW o, NEW s, Tells(o, s)
  PROVE  Tells(o, s)'
<1>1. /\ o \in DOMAIN orders /\ s \in Snapshots /\ Begins(s.audit, orders[o].audit)
      /\ o \in DOMAIN orders' /\ Begins(orders[o].audit, orders'[o].audit)
  BY DEF Tells, TrailsGrow
<1>2. Len(s.audit) \in Nat /\ Len(orders[o].audit) \in Nat /\ Len(orders'[o].audit) \in Nat
  BY <1>1, AuditIsSeq DEF StoredAreSnapshots
<1>3. Begins(s.audit, orders'[o].audit)
  BY <1>1, <1>2 DEF Begins
<1> QED
  BY <1>1, <1>3 DEF Tells

\* #withAudit: one entry more, and nothing before it changes.
LEMMA WithAuditContinues ==
  ASSUME NEW s \in Snapshots, NEW a, NEW action, NEW subject,
         Entry(a, action, subject) \in AuditEntries
  PROVE  /\ WithAudit(s, a, action, subject) \in Snapshots
         /\ Begins(s.audit, WithAudit(s, a, action, subject).audit)
<1> DEFINE e == Entry(a, action, subject)
<1>1. s.audit \in Seq(AuditEntries) /\ e \in AuditEntries
  BY DEF Snapshots
<1> HIDE DEF e
<1>2. /\ Append(s.audit, e) \in Seq(AuditEntries)
      /\ Begins(s.audit, Append(s.audit, e))
  BY <1>1 DEF Begins
<1>3. [s EXCEPT !.audit = Append(s.audit, e)].audit = Append(s.audit, e)
  BY DEF Snapshots
<1>4. [s EXCEPT !.audit = Append(s.audit, e)] \in Snapshots
  BY <1>2 DEF Snapshots
<1> QED
  BY <1>2, <1>3, <1>4 DEF WithAudit, e

\* The rules make a snapshot of what they accept, and continue the trail.
LEMMA ResultContinues ==
  ASSUME StoredAreSnapshots, NEW q \in Requests, Accepts(q)
  PROVE  /\ Result(q) \in Snapshots
         /\ q.order \in DOMAIN orders => Begins(orders[q.order].audit, Result(q).audit)
<1>0. q.actor.id \in People /\ q.actor.role \in Roles
  BY RequestsAreRequests DEF Actors
<1> DEFINE a == q.actor
           s == orders[q.order]
<1>1. CASE q.op = "create"
  <2> DEFINE t == [status |-> "draft", implementerId |-> Nobody, metadata |-> q.arg,
                   evidence |-> {}, decisions |-> << >>, audit |-> << >>]
  <2>1. q.arg \in Metadata /\ q.order \notin DOMAIN orders
    BY <1>1, RequestsAreRequests DEF Accepts
  <2>2. t \in Snapshots
    BY <2>1 DEF Snapshots, Statuses
  <2>3. Entry(a, "work-order.created", "-") \in AuditEntries
    BY <1>0 DEF Entry, AuditEntries
  <2> HIDE DEF t
  <2>4. WithAudit(t, a, "work-order.created", "-") \in Snapshots
    BY <2>2, <2>3, WithAuditContinues
  <2>5. Result(q) = Created(q.arg, a)
    BY <1>1 DEF Result
  <2> QED
    BY <2>1, <2>4, <2>5 DEF Created, t
<1>2. CASE q.op = "transition"
  <2> DEFINE t == [s EXCEPT !.status = q.arg,
                            !.implementerId = IF q.arg = "running" THEN a.id ELSE @]
  <2>1. q.arg \in Statuses /\ s \in Snapshots /\ CanTransition(s, q.arg, a)
    BY <1>2, RequestsAreRequests DEF Accepts, StoredAreSnapshots
  <2>2. q.arg \in {"approved", "running", "failed", "blocked"}
    BY <2>1 DEF CanTransition, AllowedTransitions, Snapshots, Statuses
  <2>3. t \in Snapshots /\ t.audit = s.audit
    BY <1>0, <2>1 DEF Snapshots
  <2>4. Entry(a, ActionFor(q.arg), "-") \in AuditEntries
    BY <1>0, <2>2 DEF Entry, ActionFor, AuditEntries
  <2> HIDE DEF t
  <2>5. /\ WithAudit(t, a, ActionFor(q.arg), "-") \in Snapshots
        /\ Begins(s.audit, WithAudit(t, a, ActionFor(q.arg), "-").audit)
    BY <2>3, <2>4, WithAuditContinues
  <2>6. Result(q) = Transitioned(s, q.arg, a)
    BY <1>2 DEF Result
  <2> QED
    BY <2>5, <2>6 DEF Transitioned, t
<1>3. CASE q.op = "evidence"
  <2> DEFINE t == [s EXCEPT !.evidence = @ \cup {q.arg}]
  <2>1. q.arg \in Evidence /\ s \in Snapshots
    BY <1>3, RequestsAreRequests DEF Accepts, StoredAreSnapshots
  <2>2. t \in Snapshots /\ t.audit = s.audit
    BY <2>1 DEF Snapshots
  <2>3. Entry(a, "evidence.recorded", q.arg.id) \in AuditEntries
    BY <1>0, <2>1 DEF Entry, AuditEntries, Evidence
  <2> HIDE DEF t
  <2>4. /\ WithAudit(t, a, "evidence.recorded", q.arg.id) \in Snapshots
        /\ Begins(s.audit, WithAudit(t, a, "evidence.recorded", q.arg.id).audit)
    BY <2>2, <2>3, WithAuditContinues
  <2>5. Result(q) = EvidenceRecorded(s, q.arg, a)
    BY <1>3 DEF Result
  <2> QED
    BY <2>4, <2>5 DEF EvidenceRecorded, t
<1>4. CASE q.op = "gate"
  <2> DEFINE d == q.arg
             t == [s EXCEPT !.status = StatusAfterDecision(s, d),
                            !.decisions = Append(@, d)]
  <2>1. d \in Decisions /\ s \in Snapshots
    BY <1>4, RequestsAreRequests DEF Accepts, StoredAreSnapshots
  <2>2. StatusAfterDecision(s, d) \in Statuses
    BY <2>1 DEF StatusAfterDecision, Statuses, Snapshots
  <2>3. Append(s.decisions, d) \in Seq(Decisions)
    BY <2>1 DEF Snapshots
  <2>4. t \in Snapshots /\ t.audit = s.audit
    BY <2>1, <2>2, <2>3 DEF Snapshots
  <2>5. Entry(a, GateAction(d.status), d.gate) \in AuditEntries
    BY <1>0, <2>1 DEF Entry, GateAction, AuditEntries, Decisions, Verdicts
  <2> HIDE DEF t
  <2>6. /\ WithAudit(t, a, GateAction(d.status), d.gate) \in Snapshots
        /\ Begins(s.audit, WithAudit(t, a, GateAction(d.status), d.gate).audit)
    BY <2>4, <2>5, WithAuditContinues
  <2>7. Result(q) = Decided(s, d, a)
    BY <1>4 DEF Result
  <2> QED
    BY <2>6, <2>7 DEF Decided, t
<1>5. CASE q.op = "metadata"
  <2> DEFINE t == [s EXCEPT !.metadata = q.arg]
  <2>1. q.arg \in Metadata /\ s \in Snapshots
    BY <1>5, RequestsAreRequests DEF Accepts, StoredAreSnapshots
  <2>2. t \in Snapshots /\ t.audit = s.audit
    BY <2>1 DEF Snapshots
  <2>3. Entry(a, "projection-metadata.updated", "-") \in AuditEntries
    BY <1>0 DEF Entry, AuditEntries
  <2> HIDE DEF t
  <2>4. /\ WithAudit(t, a, "projection-metadata.updated", "-") \in Snapshots
        /\ Begins(s.audit, WithAudit(t, a, "projection-metadata.updated", "-").audit)
    BY <2>2, <2>3, WithAuditContinues
  <2>5. Begins(s.audit, s.audit)
    BY <2>1, AuditIsSeq DEF Begins
  <2>6. Result(q) = IF CanUpdateMetadata(s, q.arg, a) THEN MetadataUpdated(s, q.arg, a) ELSE s
    BY <1>5 DEF Result
  <2> QED
    BY <2>1, <2>4, <2>5, <2>6 DEF MetadataUpdated, t
<1> QED
  BY <1>1, <1>2, <1>3, <1>4, <1>5 DEF Accepts

\* The control plane stores what the rules made of the order; from then on the
\* order tells it.
LEMMA PutContinues ==
  ASSUME StoredAreSnapshots, NEW q \in Requests, Accepts(q),
         NEW result, result = Result(q), orders' = Put(orders, q.order, result)
  PROVE  StoredAreSnapshots' /\ TrailsGrow /\ Tells(q.order, result)'
<1>1. /\ result \in Snapshots
      /\ q.order \in DOMAIN orders => Begins(orders[q.order].audit, result.audit)
  BY ResultContinues
<1>2. /\ DOMAIN orders' = DOMAIN orders \cup {q.order}
      /\ orders'[q.order] = result
      /\ \A o \in DOMAIN orders : o # q.order => orders'[o] = orders[o]
  BY DEF Put
<1>3. \A s \in Snapshots : Begins(s.audit, s.audit)
  BY AuditIsSeq DEF Begins
<1>4. StoredAreSnapshots'
  BY <1>1, <1>2 DEF StoredAreSnapshots
<1>5. TrailsGrow
  BY <1>1, <1>2, <1>3 DEF TrailsGrow, StoredAreSnapshots
<1>6. Tells(q.order, result)'
  BY <1>1, <1>2, <1>3 DEF Tells
<1> QED
  BY <1>4, <1>5, <1>6

LEMMA TrailInit == Init => TrailInv
BY RetryInit, StoredOrdersAreSnapshots
   DEF Init, TrailInv, StoredAreSnapshots, HeldIsTold, RecordedIsTold, Is, Busy

\* The steps that store nothing; what may still be told after one, could before.
QuietStep ==
  /\ UNCHANGED orders
  /\ \A h \in Handlers : Is(h, "record")' \/ Is(h, "reply")' =>
       \/ handler'[h] = handler[h]
       \/ /\ Is(h, "record") \/ Is(h, "reply")
          /\ handler'[h].request = handler[h].request
          /\ handler'[h].response = handler[h].response
  /\ \A id \in DOMAIN cache' :
       \/ id \in DOMAIN cache /\ cache'[id] = cache[id]
       \/ \E h \in Handlers : Is(h, "record") /\ cache'[id] = RecordOf(h)

\* The steps that store a result, which is from now on the handler's to tell.
Stores(h, result) ==
  /\ handler[h].state = "mutate"
  /\ Accepts(handler[h].request)
  /\ result = Result(handler[h].request)
  /\ orders' = Put(orders, handler[h].request.order, result)
  /\ UNCHANGED cache
  /\ \A g \in Handlers \ {h} : handler'[g] = handler[g]
  /\ Is(h, "record")' \/ Is(h, "reply")' =>
       /\ handler'[h].request = handler[h].request
       /\ handler'[h].response = result

StepForm == QuietStep \/ \E h \in Handlers : \E result : Stores(h, result)

LEMMA QuietKeeps ==
  ASSUME TrailInv, QuietStep
  PROVE  StoredAreSnapshots' /\ HeldIsTold' /\ RecordedIsTold'
<1> USE DEF QuietStep
<1>1. \A o, s : Tells(o, s)' <=> Tells(o, s)
  BY DEF Tells
<1>2. HeldIsTold'
  BY <1>1 DEF TrailInv, HeldIsTold, Is, Busy
<1>3. \A h \in Handlers :
        /\ RecordOf(h).fingerprint[2] = handler[h].request.order
        /\ RecordOf(h).response = handler[h].response
  BY DEF RecordOf, Fingerprint
<1>4. RecordedIsTold'
  BY <1>1, <1>3 DEF TrailInv, HeldIsTold, RecordedIsTold
<1> QED
  BY <1>2, <1>4 DEF TrailInv, StoredAreSnapshots

\* What was told before a result is stored still is.
LEMMA StoringKeeps ==
  ASSUME TrailInv, NEW h \in Handlers, NEW result, Stores(h, result)
  PROVE  StoredAreSnapshots' /\ HeldIsTold' /\ RecordedIsTold'
<1> USE DEF Stores
<1> DEFINE q == handler[h].request
<1>1. q \in Requests
  BY BusyHandler DEF TrailInv, RetryInv
<1>2. StoredAreSnapshots /\ Accepts(q) /\ result = Result(q) /\ orders' = Put(orders, q.order, result)
  BY DEF TrailInv
<1>3. StoredAreSnapshots' /\ TrailsGrow /\ (\A r \in Requests : r = q => Tells(r.order, result)')
  <2> SUFFICES ASSUME NEW r \in Requests, r = q
               PROVE  StoredAreSnapshots' /\ TrailsGrow /\ Tells(r.order, result)'
    BY <1>1
  <2>1. Accepts(r) /\ result = Result(r) /\ orders' = Put(orders, r.order, result)
    BY <1>2
  <2> QED
    BY <1>2, <2>1, PutContinues
<1>4. \A o, s : Tells(o, s) => Tells(o, s)'
  BY <1>2, <1>3, TellsOn
<1>5. HeldIsTold'
  <2> SUFFICES ASSUME NEW g \in Handlers, Is(g, "record")' \/ Is(g, "reply")'
               PROVE  Tells(handler[g].request.order, handler[g].response)'
    BY DEF HeldIsTold
  <2>1. CASE g = h
    <3>1. PICK r \in Requests : r = handler[h].request
      BY <1>1
    <3>2. Tells(r.order, result)'
      BY <1>3, <3>1
    <3>3. handler'[g].request = r /\ handler'[g].response = result
      BY <2>1, <3>1
    <3> QED
      BY <3>2, <3>3 DEF Tells
  <2>2. CASE g # h
    <3>1. handler'[g] = handler[g] /\ (Is(g, "record") \/ Is(g, "reply"))
      BY <2>2 DEF Is, Busy
    <3>2. PICK o, s : o = handler[g].request.order /\ s = handler[g].response
      OBVIOUS
    <3>3. Tells(o, s)'
      BY <1>4, <3>1, <3>2 DEF TrailInv, HeldIsTold
    <3> QED
      BY <3>1, <3>2, <3>3 DEF Tells
  <2> QED
    BY <2>1, <2>2
<1>6. RecordedIsTold'
  <2> SUFFICES ASSUME NEW id \in DOMAIN cache
               PROVE  Tells(cache[id].fingerprint[2], cache[id].response)'
    BY DEF RecordedIsTold
  <2>1. PICK o, s : o = cache[id].fingerprint[2] /\ s = cache[id].response
    OBVIOUS
  <2>2. Tells(o, s)'
    BY <1>4, <2>1 DEF TrailInv, RecordedIsTold
  <2> QED
    BY <2>1, <2>2 DEF Tells
<1> QED
  BY <1>3, <1>5, <1>6

LEMMA EveryStepForms ==
  ASSUME RetryInv, [Next]_vars
  PROVE  StepForm
<1>0. handler = [h \in Handlers |-> handler[h]]
  BY DEF RetryInv, Shapes
<1>1. ASSUME NEW h \in Handlers, NEW q \in Requests, Receive(h, q)
      PROVE  StepForm
  <2>1. /\ UNCHANGED <<orders, cache>>
        /\ handler' = [handler EXCEPT ![h] =
             [state |-> "lookup", request |-> q, late |-> \E r \in replied : r.id = Id(q)]]
    BY <1>1 DEF Receive
  <2>2. /\ handler'[h].state = "lookup"
        /\ \A g \in Handlers \ {h} : handler'[g] = handler[g]
    BY <1>0, <2>1
  <2> QED
    BY <2>1, <2>2 DEF StepForm, QuietStep, Is
<1>2. ASSUME NEW h \in Handlers, Leave(h), UNCHANGED <<orders, cache>>
      PROVE  StepForm
  <2>1. ~Busy(h)' /\ \A g \in Handlers \ {h} : handler'[g] = handler[g]
    BY <1>0, <1>2 DEF Leave, Busy
  <2> QED
    BY <1>2, <2>1 DEF StepForm, QuietStep, Is
<1>3. ASSUME NEW h \in Handlers, Missed(h)
      PROVE  StepForm
  <2>1. handler[h].state = "lookup" /\ Goto(h, "mutate") /\ UNCHANGED <<orders, cache>>
    BY <1>3 DEF Missed
  <2>2. Shapes /\ Busy(h)
    BY <2>1, BusyHandler DEF RetryInv
  <2>3. /\ handler'[h].state = "mutate"
        /\ \A g \in Handlers \ {h} : handler'[g] = handler[g]
    BY <2>1, <2>2, GotoShapes
  <2> QED
    BY <2>1, <2>3 DEF StepForm, QuietStep, Is
<1>4. ASSUME NEW h \in Handlers, Mutate(h)
      PROVE  StepForm
  <2> DEFINE q == handler[h].request
  <2>1. PICK result : result = Result(q)
    OBVIOUS
  <2>2. /\ handler[h].state = "mutate" /\ Accepts(q) /\ UNCHANGED cache
        /\ orders' = Put(orders, q.order, result)
        /\ handler' = [handler EXCEPT ![h] = [state |-> "record", request |-> q,
                                              late |-> handler[h].late, response |-> result]]
    BY <1>4, <2>1 DEF Mutate
  <2>3. /\ handler'[h].request = q /\ handler'[h].response = result
        /\ \A g \in Handlers \ {h} : handler'[g] = handler[g]
    BY <1>0, <2>2
  <2> QED
    BY <2>1, <2>2, <2>3 DEF StepForm, Stores
<1>5. ASSUME NEW h \in Handlers, MutateFails(h)
      PROVE  StepForm
  <2>1. CASE UNCHANGED orders
    BY <1>2, <1>5, <2>1 DEF MutateFails
  <2>2. CASE ~UNCHANGED orders
    <3>1. PICK result : result = Result(handler[h].request)
      OBVIOUS
    <3>2. /\ handler[h].state = "mutate" /\ Accepts(handler[h].request) /\ UNCHANGED cache
          /\ orders' = Put(orders, handler[h].request.order, result) /\ Leave(h)
      BY <1>5, <2>2, <3>1 DEF MutateFails
    <3>3. ~Busy(h)' /\ \A g \in Handlers \ {h} : handler'[g] = handler[g]
      BY <1>0, <3>2 DEF Leave, Busy
    <3> QED
      BY <3>1, <3>2, <3>3 DEF StepForm, Stores, Is
  <2> QED
    BY <2>1, <2>2
<1>6. ASSUME NEW h \in Handlers, Recorded(h) \/ RecordFails(h)
      PROVE  StepForm
  <2>1. /\ handler[h].state = "record" /\ UNCHANGED orders
        /\ Goto(h, "reply") \/ Leave(h)
        /\ cache' = cache \/ cache' = Put(cache, IdOf(h), RecordOf(h))
    BY <1>6 DEF Recorded, RecordFails, IdOf
  <2>2. Shapes /\ Busy(h) /\ Is(h, "record") /\ "response" \in DOMAIN handler[h]
    BY <2>1, BusyHandler DEF RetryInv, Is
  <2>3. /\ \/ ~Busy(h)'
           \/ /\ handler'[h].request = handler[h].request
              /\ handler'[h].response = handler[h].response
        /\ \A g \in Handlers \ {h} : handler'[g] = handler[g]
    BY <2>1, <2>2, GotoShapes, LeaveShapes
  <2>4. \A id \in DOMAIN cache' : \/ id \in DOMAIN cache /\ cache'[id] = cache[id]
                                  \/ cache'[id] = RecordOf(h)
    BY <2>1 DEF Put
  <2> QED
    BY <2>1, <2>2, <2>3, <2>4 DEF StepForm, QuietStep, Is
<1>7. CASE Crash
  <2>1. UNCHANGED <<orders, cache>> /\ \A h \in Handlers : ~Busy(h)'
    BY <1>7 DEF Crash, Busy
  <2> QED
    BY <2>1 DEF StepForm, QuietStep, Is
<1>8. CASE UNCHANGED vars
  BY <1>8 DEF vars, StepForm, QuietStep, Is, Busy
<1>9. ASSUME NEW h \in Handlers,
             Found(h) \/ Rejected(h) \/ Refused(h) \/ RecordRefused(h) \/ Reply(h)
      PROVE  Leave(h) /\ UNCHANGED <<orders, cache>>
  BY <1>9 DEF Found, Rejected, Refused, RecordRefused, Reply
<1> QED
  BY <1>1, <1>2, <1>3, <1>4, <1>5, <1>6, <1>7, <1>8, <1>9 DEF Next

LEMMA TrailStep == TrailInv /\ [Next]_vars => TrailInv'
<1> SUFFICES ASSUME TrailInv, [Next]_vars
             PROVE  StoredAreSnapshots' /\ HeldIsTold' /\ RecordedIsTold'
  BY RetryStep DEF TrailInv
<1>1. StepForm
  BY EveryStepForms DEF TrailInv
<1> QED
  BY <1>1, QuietKeeps, StoringKeeps DEF StepForm

\* What a client was told of an order remains the beginning of its history,
\* however often the order changes, a reply is repeated, or the server restarts.
THEOREM RepliesStayDurable == Spec => []RepliesAreDurable
<1>1. TrailInv => RepliesAreDurable
  <2> SUFFICES ASSUME TrailInv, NEW r \in replied
      PROVE  /\ r.order \in DOMAIN orders
             /\ Len(r.response.audit) <= Len(orders[r.order].audit)
             /\ SubSeq(orders[r.order].audit, 1, Len(r.response.audit)) = r.response.audit
    BY DEF RepliesAreDurable
  <2>1. /\ r.id \in DOMAIN cache
        /\ r.order = cache[r.id].fingerprint[2] /\ r.response = cache[r.id].response
    BY DEF TrailInv, RetryInv, RepliesAreRecorded, ReplyOf
  <2>2. Tells(r.order, r.response)
    BY <2>1 DEF TrailInv, RecordedIsTold
  <2> DEFINE told == r.response.audit
             trail == orders[r.order].audit
  <2>3. told \in Seq(AuditEntries) /\ trail \in Seq(AuditEntries)
    BY <2>2, AuditIsSeq DEF Tells, TrailInv, StoredAreSnapshots
  <2>4. r.order \in DOMAIN orders /\ Begins(told, trail)
    BY <2>2 DEF Tells
  <2> HIDE DEF told, trail
  <2>5. Len(told) \in Nat /\ Len(trail) \in Nat /\ Len(told) <= Len(trail)
        /\ \A i \in 1 .. Len(told) : trail[i] = told[i] /\ trail[i] \in AuditEntries
    BY <2>3, <2>4, LenProperties, ElementOfSeq DEF Begins
  <2>6. /\ SubSeq(trail, 1, Len(told)) \in Seq(AuditEntries)
        /\ Len(SubSeq(trail, 1, Len(told))) = Len(told)
        /\ \A i \in 1 .. Len(told) : SubSeq(trail, 1, Len(told))[i] = trail[i]
    BY <2>5, SubSeqProperties
  <2>7. SubSeq(trail, 1, Len(told)) = told
    BY <2>3, <2>5, <2>6, SeqEqual
  <2> QED
    BY <2>4, <2>5, <2>7 DEF told, trail
<1>2. TrailInv /\ [Next]_vars => TrailInv'
  BY TrailStep
<1> QED
  BY <1>1, <1>2, TrailInit, PTL DEF Spec

-----------------------------------------------------------------------------
(***************************************************************************)
(* What a client is told can be relied on.  The rules of the control plane *)
(* make of a snapshot that does one that does (ControlPlane_proofs); the   *)
(* claim is carried by the orders, by the snapshots that may still be told *)
(* and by those that were.                                                 *)
(***************************************************************************)
Rules == INSTANCE ControlPlane_proofs WITH Callers <- {}, MaxAudit <- 0

LEMMA TrustedIs ==
  ASSUME NEW s \in Snapshots
  PROVE  Trusted(s) <=> Rules!Sound(s) /\ Rules!Explained(s)
<1>1. s \in Rules!Snapshots
  BY DEF Snapshots, Rules!Snapshots, Statuses, Rules!Statuses, Evidence, Rules!Evidence,
         Decisions, Rules!Decisions, Gates, Rules!Gates, Verdicts, Rules!Verdicts,
         AuditEntries, Rules!AuditEntries, Roles, Rules!Roles
<1>2. Rules!Sound(s) <=> DecisionsAreBacked(s) /\ IndependentlyVerified(s)
  BY <1>1 DEF Rules!Sound, DecisionsAreBacked, Rules!DecisionsAreBacked, KnownIds, Rules!KnownIds,
         IndependentlyVerified, Rules!IndependentlyVerified
<1>3. Rules!Replay(s.audit) = Replay(s.audit)
  BY DEF Replay, Rules!Replay, Understood, Rules!Understood, Unknown, Rules!Unknown
<1> QED
  BY <1>2, <1>3 DEF Trusted, Rules!Explained, Rules!Told

\* What the rules make of an order that can be trusted can be trusted.
LEMMA ResultIsTrusted ==
  ASSUME NEW q \in Requests, Accepts(q), StoredAreSnapshots,
         q.order \in DOMAIN orders => Trusted(orders[q.order])
  PROVE  Trusted(Result(q))
<1> DEFINE a == q.actor
           s == orders[q.order]
<1>0. Nobody \notin People /\ {} \subseteq Rules!Actors /\ 0 \in Nat
  BY NobodyIsNotAPerson
<1>1. a \in Actors /\ a \in Rules!Actors
  BY RequestsAreRequests DEF Actors, Rules!Actors, Roles, Rules!Roles
<1>2. Result(q) \in Snapshots
  BY ResultContinues
<1>3. \A t \in Snapshots : t \in Rules!Snapshots
  BY DEF Snapshots, Rules!Snapshots, Statuses, Rules!Statuses, Evidence, Rules!Evidence,
         Decisions, Rules!Decisions, Gates, Rules!Gates, Verdicts, Rules!Verdicts,
         AuditEntries, Rules!AuditEntries, Roles, Rules!Roles
<1>4. q.order \in DOMAIN orders =>
        s \in Snapshots /\ s \in Rules!Snapshots /\ Rules!Sound(s) /\ Rules!Explained(s)
  BY <1>3, TrustedIs DEF StoredAreSnapshots
<1>5. ASSUME Rules!Sound(Result(q)), Rules!Explained(Result(q)) PROVE Trusted(Result(q))
  BY <1>2, <1>5, TrustedIs
<1>6. CASE q.op = "create"
  <2>1. q.arg \in Metadata
    BY <1>6, RequestsAreRequests
  <2>2. Result(q) = Rules!Created(q.arg, a)
    BY <1>6 DEF Result, Created, Rules!Created, WithAudit, Rules!WithAudit, Entry, Rules!Entry
  <2> QED
    BY <1>0, <1>1, <1>5, <2>1, <2>2, Rules!CreatedSound, Rules!CreatedExplained
<1>7. CASE q.op = "transition"
  <2>1. q.arg \in Rules!Statuses /\ Rules!CanTransition(s, q.arg, a) /\ q.order \in DOMAIN orders
    BY <1>7, RequestsAreRequests DEF Accepts, Statuses, Rules!Statuses,
       CanTransition, Rules!CanTransition, AllowedTransitions, Rules!AllowedTransitions
  <2>2. Result(q) = Rules!Transitioned(s, q.arg, a)
    BY <1>7 DEF Result, Transitioned, Rules!Transitioned, ActionFor, Rules!ActionFor,
       WithAudit, Rules!WithAudit, Entry, Rules!Entry
  <2> QED
    BY <1>0, <1>1, <1>4, <1>5, <2>1, <2>2, Rules!TransitionedSound, Rules!TransitionedExplained
<1>8. CASE q.op = "evidence"
  <2>1. q.arg \in Rules!Evidence /\ Rules!CanRecordEvidence(s, q.arg) /\ q.order \in DOMAIN orders
    BY <1>8, RequestsAreRequests DEF Accepts, Evidence, Rules!Evidence,
       CanRecordEvidence, Rules!CanRecordEvidence, KnownIds, Rules!KnownIds
  <2>2. Result(q) = Rules!EvidenceRecorded(s, q.arg, a)
    BY <1>8 DEF Result, EvidenceRecorded, Rules!EvidenceRecorded,
       WithAudit, Rules!WithAudit, Entry, Rules!Entry
  <2> QED
    BY <1>0, <1>1, <1>4, <1>5, <2>1, <2>2,
       Rules!EvidenceRecordedSound, Rules!EvidenceRecordedExplained
<1>9. CASE q.op = "gate"
  <2>1. q.arg \in Rules!Decisions /\ Rules!CanDecide(s, q.arg, a) /\ q.order \in DOMAIN orders
    BY <1>9, RequestsAreRequests DEF Accepts, Decisions, Rules!Decisions, Gates, Rules!Gates,
       Verdicts, Rules!Verdicts, CanDecide, Rules!CanDecide, KnownIds, Rules!KnownIds,
       Selected, Rules!Selected
  <2>2. Result(q) = Rules!Decided(s, q.arg, a)
    BY <1>9 DEF Result, Decided, Rules!Decided, StatusAfterDecision, Rules!StatusAfterDecision,
       GateAction, Rules!GateAction, WithAudit, Rules!WithAudit, Entry, Rules!Entry
  <2> QED
    BY <1>0, <1>1, <1>4, <1>5, <2>1, <2>2, Rules!DecidedSound, Rules!DecidedExplained
<1>10. CASE q.op = "metadata"
  <2>1. q.arg \in Metadata /\ q.order \in DOMAIN orders
    BY <1>10, RequestsAreRequests DEF Accepts
  <2>2. Result(q) = s \/ Result(q) = Rules!MetadataUpdated(s, q.arg, a)
    BY <1>10 DEF Result, MetadataUpdated, Rules!MetadataUpdated,
       WithAudit, Rules!WithAudit, Entry, Rules!Entry
  <2> QED
    BY <1>0, <1>1, <1>4, <1>5, <2>1, <2>2,
       Rules!MetadataUpdatedSound, Rules!MetadataUpdatedExplained
<1> QED
  BY <1>6, <1>7, <1>8, <1>9, <1>10 DEF Accepts

\* Every snapshot that is kept, may still be told, or was told.
TrustInv ==
  /\ \A o \in DOMAIN orders : Trusted(orders[o])
  /\ \A h \in Handlers : Is(h, "record") \/ Is(h, "reply") => Trusted(handler[h].response)
  /\ \A id \in DOMAIN cache : Trusted(cache[id].response)

LEMMA TrustStep ==
  ASSUME TrailInv, TrailInv', TrustInv, [Next]_vars
  PROVE  TrustInv'
<1>1. StepForm
  BY EveryStepForms DEF TrailInv
<1>2. CASE QuietStep
  <2>1. \A h \in Handlers : RecordOf(h).response = handler[h].response
    BY DEF RecordOf
  <2> QED
    BY <1>2, <2>1 DEF QuietStep, TrustInv, Is, Busy
<1>3. ASSUME NEW h \in Handlers, NEW result, Stores(h, result)
      PROVE  TrustInv'
  <2>1. handler[h].request \in Requests /\ Accepts(handler[h].request) /\ StoredAreSnapshots
    BY <1>3, BusyHandler DEF Stores, TrailInv, RetryInv
  <2>2. Trusted(result)
    BY <1>3, <2>1, ResultIsTrusted DEF Stores, TrustInv
  <2>3. \A o \in DOMAIN orders' : Trusted(orders'[o])
    BY <1>3, <2>2 DEF Stores, Put, TrustInv
  <2>4. \A g \in Handlers : Is(g, "record")' \/ Is(g, "reply")' => Trusted(handler'[g].response)
    BY <1>3, <2>2 DEF Stores, TrustInv, Is, Busy
  <2> QED
    BY <1>3, <2>3, <2>4 DEF Stores, TrustInv
<1> QED
  BY <1>1, <1>2, <1>3 DEF StepForm

\* Every reply, computed, repeated from its record or raced, can be relied on:
\* its decisions are backed by its evidence, it was verified by somebody else
\* than its implementer, and its audit trail explains it.  The server is
\* started on a journal whose orders can (Journal_proofs, StoredStaysTrusted).
THEOREM RepliesStayTrusted == Spec => [](\A r \in replied : Trusted(r.response))
<1>1. Init => TrustInv
  BY StoredOrdersAreTrusted DEF Init, TrustInv, Is, Busy
<1>2. TrailInv /\ TrustInv => \A r \in replied : Trusted(r.response)
  BY DEF TrailInv, RetryInv, RepliesAreRecorded, ReplyOf, TrustInv
<1>3. Spec => []TrailInv
  BY TrailInit, TrailStep, PTL DEF Spec
<1>4. TrailInv /\ TrailInv' /\ TrustInv /\ [Next]_vars => TrustInv'
  BY TrustStep
<1> QED
  BY <1>1, <1>2, <1>3, <1>4, PTL DEF Spec

-----------------------------------------------------------------------------
(***************************************************************************)
(* Admission: the slots and the quotas.                                    *)
(***************************************************************************)
Requested == [state : {"working", "answered"}, acquired : BOOLEAN] \cup {NoRequest}

\* What is being worked on took a slot, and every slot taken is counted.
LimiterInv ==
  /\ active \in 0 .. Limit
  /\ gone \in Nat
  /\ request \in [RequestIds -> Requested]
  /\ IsFiniteSet(Holders)
  /\ \A r \in RequestIds : request[r] # NoRequest /\ request[r].state = "working" => request[r].acquired
  /\ SlotsAreCounted

-----------------------------------------------------------------------------
\* Adding and removing one element, whichever side it is on.
LEMMA OneMore ==
  ASSUME NEW S, IsFiniteSet(S), NEW x, x \notin S
  PROVE  /\ IsFiniteSet(S \cup {x}) /\ Cardinality(S \cup {x}) = Cardinality(S) + 1
         /\ Cardinality(S) \in Nat /\ Cardinality(S \cup {x}) \in Nat
BY FS_AddElement, FS_CardinalityType

LEMMA OneLess ==
  ASSUME NEW S, IsFiniteSet(S), NEW x \in S
  PROVE  /\ IsFiniteSet(S \ {x}) /\ Cardinality(S \ {x}) = Cardinality(S) - 1
         /\ Cardinality(S) \in Nat /\ Cardinality(S \ {x}) \in Nat
BY FS_RemoveElement, FS_CardinalityType

LEMMA InitHolds == AdmissionInit => LimiterInv
<1> SUFFICES ASSUME AdmissionInit PROVE LimiterInv
  OBVIOUS
<1>1. Holders = {}
  BY DEF AdmissionInit, Holders
<1>2. IsFiniteSet(Holders) /\ Cardinality(Holders) = 0
  BY <1>1, FS_EmptySet
<1> QED
  BY <1>2, LimitsArePositive DEF AdmissionInit, LimiterInv, SlotsAreCounted, Requested

\* A request that is let in is one holder more, and one more is counted.
LEMMA TakenHolds ==
  ASSUME LimiterInv, NEW r \in RequestIds, NEW state \in {"working", "answered"},
         request[r] = NoRequest, Taken(r, state), gone' = gone
  PROVE  LimiterInv'
<1>1. Holders' = Holders \cup {r} /\ r \notin Holders
  BY DEF LimiterInv, Requested, Holders, Taken, NoRequest
<1>2. Cardinality(Holders') = Cardinality(Holders) + 1 /\ IsFiniteSet(Holders')
      /\ Cardinality(Holders) \in Nat /\ Cardinality(Holders') \in Nat
  BY <1>1, OneMore DEF LimiterInv
<1>3. request' \in [RequestIds -> Requested]
  BY DEF LimiterInv, Requested, Taken
<1>4. active' \in 0 .. Limit /\ active' = active + 1
  BY LimitsArePositive DEF LimiterInv, Taken
<1>5. \A q \in RequestIds : request'[q] # NoRequest /\ request'[q].state = "working"
                            => request'[q].acquired
  BY DEF LimiterInv, Requested, Taken, NoRequest
<1>6. active' = Cardinality(Holders') + gone'
  BY <1>2, <1>4, LimitsArePositive DEF LimiterInv, SlotsAreCounted
<1> QED
  BY <1>2, <1>3, <1>4, <1>5, <1>6 DEF LimiterInv, SlotsAreCounted

\* One that is turned away holds nothing.
LEMMA TurnedAwayHolds ==
  ASSUME LimiterInv, NEW r \in RequestIds, Overloaded(r)
  PROVE  LimiterInv'
<1>1. Holders' = Holders
  BY DEF LimiterInv, Requested, Holders, Overloaded, NoRequest
<1>2. request' \in [RequestIds -> Requested]
  BY DEF LimiterInv, Requested, Overloaded
<1>3. \A q \in RequestIds : request'[q] # NoRequest /\ request'[q].state = "working"
                            => request'[q].acquired
  BY DEF LimiterInv, Requested, Overloaded, NoRequest
<1> QED
  BY <1>1, <1>2, <1>3 DEF LimiterInv, SlotsAreCounted, Overloaded

LEMMA SendHolds ==
  ASSUME LimiterInv, NEW r \in RequestIds, request[r] # NoRequest, Send(r)
  PROVE  LimiterInv'
<1>1. Holders' = Holders
  BY DEF LimiterInv, Requested, Holders, Send, NoRequest
<1>2. request' \in [RequestIds -> Requested]
  BY DEF LimiterInv, Requested, Send, NoRequest
<1>3. \A q \in RequestIds : request'[q] # NoRequest /\ request'[q].state = "working"
                            => request'[q].acquired
  BY DEF LimiterInv, Requested, Send, NoRequest
<1> QED
  BY <1>1, <1>2, <1>3 DEF LimiterInv, SlotsAreCounted, Send

\* The slot of a finished request was counted, so the counter stays above the
\* holders that are left, and above zero.
LEMMA FinishHolds ==
  ASSUME LimiterInv, NEW r \in RequestIds, request[r] # NoRequest, Finish(r)
  PROVE  LimiterInv'
<1>1. request' \in [RequestIds -> Requested]
  BY DEF LimiterInv, Requested, Finish
<1>2. \A q \in RequestIds : request'[q] # NoRequest /\ request'[q].state = "working"
                            => request'[q].acquired
  BY DEF LimiterInv, Requested, Finish, NoRequest
<1>3. CASE request[r].acquired
  <2>1. r \in Holders /\ Holders' = Holders \ {r}
    BY <1>3 DEF LimiterInv, Requested, Holders, Finish, NoRequest
  <2>2. /\ IsFiniteSet(Holders') /\ Cardinality(Holders') = Cardinality(Holders) - 1
        /\ Cardinality(Holders) \in Nat /\ Cardinality(Holders') \in Nat
    BY <2>1, OneLess DEF LimiterInv
  <2>3. active' = active - 1
    BY <1>3 DEF Finish
  <2>4. active' \in 0 .. Limit /\ active' = Cardinality(Holders') + gone'
    BY <2>2, <2>3, LimitsArePositive DEF LimiterInv, SlotsAreCounted, Finish
  <2> QED
    BY <1>1, <1>2, <2>2, <2>4 DEF LimiterInv, SlotsAreCounted, Finish
<1>4. CASE ~request[r].acquired
  <2>1. Holders' = Holders
    BY <1>4 DEF LimiterInv, Requested, Holders, Finish, NoRequest
  <2>2. active' = active
    BY <1>4 DEF Finish
  <2> QED
    BY <1>1, <1>2, <2>1, <2>2 DEF LimiterInv, SlotsAreCounted, Finish
<1> QED
  BY <1>3, <1>4

\* A client that leaves takes its slot along: one holder less, none given back.
LEMMA DisconnectHolds ==
  ASSUME LimiterInv, NEW r \in RequestIds, request[r] # NoRequest, Disconnect(r)
  PROVE  LimiterInv'
<1>1. request' \in [RequestIds -> Requested]
  BY DEF LimiterInv, Requested, Disconnect
<1>2. \A q \in RequestIds : request'[q] # NoRequest /\ request'[q].state = "working"
                            => request'[q].acquired
  BY DEF LimiterInv, Requested, Disconnect, NoRequest
<1>3. r \in Holders /\ Holders' = Holders \ {r}
  BY DEF LimiterInv, Requested, Holders, Disconnect, NoRequest
<1>4. /\ IsFiniteSet(Holders') /\ Cardinality(Holders') = Cardinality(Holders) - 1
      /\ Cardinality(Holders) \in Nat /\ Cardinality(Holders') \in Nat
  BY <1>3, OneLess DEF LimiterInv
<1>5. active' = Cardinality(Holders') + gone' /\ gone' \in Nat
  BY <1>4, LimitsArePositive DEF LimiterInv, SlotsAreCounted, Disconnect
<1> QED
  BY <1>1, <1>2, <1>4, <1>5 DEF LimiterInv, SlotsAreCounted, Disconnect

LEMMA ElsewhereHolds ==
  ASSUME LimiterInv, UNCHANGED <<active, request, gone>> PROVE LimiterInv'
BY DEF LimiterInv, SlotsAreCounted, Holders

LEMMA StepHolds == LimiterInv /\ [AdmissionNext]_admissionVars => LimiterInv'
<1> SUFFICES ASSUME LimiterInv, [AdmissionNext]_admissionVars PROVE LimiterInv'
  OBVIOUS
<1>1. ASSUME NEW r \in RequestIds, Overloaded(r) PROVE LimiterInv'
  BY <1>1, TurnedAwayHolds
<1>2. ASSUME NEW r \in RequestIds, AnswerAtOnce(r) PROVE LimiterInv'
  BY <1>2, TakenHolds DEF AnswerAtOnce
<1>3. ASSUME NEW r \in RequestIds, NEW a \in ActorIds, Arrive(r, a) PROVE LimiterInv'
  BY <1>3, TakenHolds DEF Arrive
<1>4. ASSUME NEW r \in RequestIds, NEW a \in ActorIds, OverQuota(r, a) PROVE LimiterInv'
  BY <1>4, TakenHolds DEF OverQuota
<1>5. ASSUME NEW r \in RequestIds, Send(r) PROVE LimiterInv'
  <2>1. request[r] # NoRequest
    BY <1>5 DEF Send, NoRequest
  <2> QED
    BY <1>5, <2>1, SendHolds
<1>6. ASSUME NEW r \in RequestIds, Finish(r) PROVE LimiterInv'
  <2>1. request[r] # NoRequest
    BY <1>6 DEF Finish, NoRequest
  <2> QED
    BY <1>6, <2>1, FinishHolds
<1>7. ASSUME NEW r \in RequestIds, Disconnect(r) PROVE LimiterInv'
  <2>1. request[r] # NoRequest
    BY <1>7 DEF Disconnect, NoRequest
  <2> QED
    BY <1>7, <2>1, DisconnectHolds
<1>8. CASE Drain \/ Tick \/ UNCHANGED admissionVars
  BY <1>8, ElsewhereHolds DEF Drain, Tick, admissionVars
<1> QED
  BY <1>1, <1>2, <1>3, <1>4, <1>5, <1>6, <1>7, <1>8 DEF AdmissionNext

\* However many clients come, finish or vanish, the limiter counts the
\* requests it let in and those that vanished and nothing else, and it never
\* admits more than Limit at once (ConcurrencyLimiter, the 'finish' listener).
THEOREM SlotsStayCounted == AdmissionSpec => []SlotsAreCounted
<1>1. LimiterInv => SlotsAreCounted
  BY DEF LimiterInv
<1> QED
  BY InitHolds, StepHolds, <1>1, PTL DEF AdmissionSpec

-----------------------------------------------------------------------------
(***************************************************************************)
(* The fixed windows.                                                      *)
(***************************************************************************)

\* What a bucket begun at s with c requests says of the times g of an actor's
\* requests up to t: it let the last c in, and those before the ones of the
\* window before it were let in at least a window ago.
Fits(g, s, c, t) ==
  /\ s \in 0 .. t /\ c \in 0 .. Quota /\ c <= Len(g)
  /\ \A i \in 1 .. Len(g) :
       /\ g[i] <= t
       /\ i <= Len(g) - c => g[i] <= s
       /\ i >  Len(g) - c => g[i] >= s
       /\ i <= Len(g) - c - Quota => g[i] + Window <= s

Spaced(g) == \A i \in 1 .. Len(g) :
               i + 2 * Quota <= Len(g) => g[i + 2 * Quota] - g[i] >= Window

\* A promise is the end of a full bucket, or of an earlier one.
Promises(p, s, c) ==
  p # NoPromise => (c = Quota /\ p = s + Window) \/ p <= s

BucketFits(a) ==
  IF buckets[a] = NoBucket THEN granted[a] = << >> /\ promised[a] = NoPromise
  ELSE /\ Fits(granted[a], buckets[a].start, buckets[a].count, now)
       /\ Promises(promised[a], buckets[a].start, buckets[a].count)

WindowInv ==
  /\ now \in Nat
  /\ buckets \in [ActorIds -> [start : Nat, count : Nat] \cup {NoBucket}]
  /\ granted \in [ActorIds -> Seq(Nat)]
  /\ promised \in [ActorIds -> Nat \cup {NoPromise}]
  /\ \A a \in ActorIds : BucketFits(a) /\ Spaced(granted[a])

LEMMA Limits == Quota \in Nat /\ Quota >= 1 /\ Window \in Nat /\ Window >= 1
BY LimitsArePositive

LEMMA WindowInit == AdmissionInit => WindowInv
BY Limits DEF AdmissionInit, WindowInv, BucketFits, Spaced, NoBucket, NoPromise

\* Time passes.
LEMMA LaterFits ==
  ASSUME NEW g \in Seq(Nat), NEW s, NEW c, NEW t \in Nat, Fits(g, s, c, t)
  PROVE  Fits(g, s, c, t + 1)
<1>1. s \in 0 .. t + 1
  BY DEF Fits
<1>2. \A i \in 1 .. Len(g) : g[i] \in Nat /\ g[i] <= t
  BY DEF Fits
<1>3. \A i \in 1 .. Len(g) : g[i] <= t + 1
  BY <1>2
<1> QED
  BY <1>1, <1>3 DEF Fits

\* A window is over: the next bucket is empty.
LEMMA NextBucketFits ==
  ASSUME NEW g \in Seq(Nat), NEW s, NEW c, NEW t \in Nat, Fits(g, s, c, t),
         t - s >= Window
  PROVE  Fits(g, t, 0, t)
<1>1. Len(g) \in Nat /\ s \in 0 .. t /\ c \in 0 .. Quota /\ Quota \in Nat /\ Window \in Nat
  BY Limits DEF Fits
<1> SUFFICES ASSUME NEW i \in 1 .. Len(g)
             PROVE  /\ g[i] <= t /\ ~(i > Len(g))
                    /\ i <= Len(g) - Quota => g[i] + Window <= t
  BY <1>1 DEF Fits
<1>2. g[i] \in Nat /\ g[i] <= t /\ (i <= Len(g) - c => g[i] <= s)
  BY DEF Fits
<1> QED
  BY <1>1, <1>2

LEMMA OneMoreFits ==
  ASSUME NEW g \in Seq(Nat), NEW s, NEW c, NEW t \in Nat, Fits(g, s, c, t), c < Quota
  PROVE  Fits(Append(g, t), s, c + 1, t)
<1> DEFINE h == Append(g, t)
<1>1. /\ Len(g) \in Nat /\ s \in 0 .. t /\ c \in 0 .. Quota /\ Quota \in Nat /\ Window \in Nat
      /\ c <= Len(g)
  BY Limits DEF Fits
<1>2. /\ Len(h) = Len(g) + 1 /\ h[Len(g) + 1] = t
      /\ \A i \in 1 .. Len(g) : h[i] = g[i]
  OBVIOUS
<1> HIDE DEF h
<1>3. ASSUME NEW i \in 1 .. Len(h)
      PROVE  /\ h[i] <= t
             /\ i <= Len(h) - (c + 1) => h[i] <= s
             /\ i >  Len(h) - (c + 1) => h[i] >= s
             /\ i <= Len(h) - (c + 1) - Quota => h[i] + Window <= s
  <2>1. CASE i = Len(g) + 1
    BY <1>1, <1>2, <2>1
  <2>2. CASE i # Len(g) + 1
    <3>1. i \in 1 .. Len(g) /\ h[i] = g[i]
      BY <1>1, <1>2, <2>2
    <3>2. /\ g[i] <= t
          /\ i <= Len(g) - c => g[i] <= s
          /\ i >  Len(g) - c => g[i] >= s
          /\ i <= Len(g) - c - Quota => g[i] + Window <= s
      BY <3>1 DEF Fits
    <3>3. Len(h) - (c + 1) = Len(g) - c /\ Len(h) - (c + 1) - Quota = Len(g) - c - Quota
      BY <1>1, <1>2
    <3> QED
      BY <3>1, <3>2, <3>3
  <2> QED
    BY <2>1, <2>2
<1>4. c + 1 \in 0 .. Quota /\ c + 1 <= Len(h)
  BY <1>1, <1>2
<1> QED
  BY <1>1, <1>3, <1>4 DEF Fits, h

\* Twice the quota back is before the window before the current one.
LEMMA OneMoreIsSpaced ==
  ASSUME NEW g \in Seq(Nat), NEW s, NEW c, NEW t \in Nat, Fits(g, s, c, t), c < Quota,
         Spaced(g)
  PROVE  Spaced(Append(g, t))
<1> DEFINE h == Append(g, t)
<1>1. /\ Len(g) \in Nat /\ s \in 0 .. t /\ c \in 0 .. Quota /\ Quota \in Nat /\ Quota >= 1
      /\ Window \in Nat
  BY Limits DEF Fits
<1>2. /\ Len(h) = Len(g) + 1 /\ h[Len(g) + 1] = t
      /\ \A i \in 1 .. Len(g) : h[i] = g[i] /\ g[i] \in Nat
  OBVIOUS
<1> HIDE DEF h
<1>3. ASSUME NEW i \in 1 .. Len(h), i + 2 * Quota <= Len(h)
      PROVE  h[i + 2 * Quota] - h[i] >= Window
  <2>1. i \in 1 .. Len(g) /\ i \in Int
    BY <1>1, <1>2, <1>3
  <2>2. CASE i + 2 * Quota = Len(g) + 1
    <3>1. i <= Len(g) - c - Quota
      BY <1>1, <2>1, <2>2
    <3>2. g[i] + Window <= s
      BY <2>1, <3>1 DEF Fits
    <3> QED
      BY <1>1, <1>2, <2>1, <2>2, <3>2
  <2>3. CASE i + 2 * Quota # Len(g) + 1
    <3>1. i + 2 * Quota \in 1 .. Len(g)
      BY <1>1, <1>2, <1>3, <2>1, <2>3
    <3>2. g[i + 2 * Quota] - g[i] >= Window
      BY <2>1, <3>1 DEF Spaced
    <3> QED
      BY <1>2, <2>1, <3>1, <3>2
  <2> QED
    BY <2>2, <2>3
<1> QED
  BY <1>3 DEF Spaced, h

LEMMA WindowTick == ASSUME WindowInv, Tick PROVE WindowInv'
<1>1. now \in Nat /\ now' = now + 1 /\ UNCHANGED <<buckets, granted, promised>>
  BY DEF WindowInv, Tick
<1>2. ASSUME NEW a \in ActorIds PROVE BucketFits(a)'
  BY <1>1, LaterFits DEF WindowInv, BucketFits
<1> QED
  BY <1>1, <1>2 DEF WindowInv

\* The bucket a request finds, before it is counted.
LEMMA FoundBucketFits ==
  ASSUME WindowInv, NEW a \in ActorIds, Bucket(a).count < Quota
  PROVE  /\ Fits(granted[a], Bucket(a).start, Bucket(a).count, now)
         /\ promised[a] # NoPromise => promised[a] <= Bucket(a).start
<1>1. /\ now \in Nat /\ granted[a] \in Seq(Nat) /\ BucketFits(a)
      /\ promised[a] \in Nat \cup {NoPromise} /\ Quota \in Nat /\ Window \in Nat
  BY Limits DEF WindowInv
<1>2. CASE buckets[a] = NoBucket
  <2>1. Bucket(a) = [start |-> now, count |-> 0] /\ granted[a] = << >> /\ promised[a] = NoPromise
    BY <1>1, <1>2 DEF Bucket, BucketFits
  <2> QED
    BY <1>1, <2>1 DEF Fits
<1>3. CASE buckets[a] # NoBucket /\ now - buckets[a].start >= Window
  <2>1. Bucket(a) = [start |-> now, count |-> 0]
    BY <1>3 DEF Bucket
  <2>2. /\ Fits(granted[a], buckets[a].start, buckets[a].count, now)
        /\ Promises(promised[a], buckets[a].start, buckets[a].count)
    BY <1>1, <1>3 DEF BucketFits
  <2>3. Fits(granted[a], now, 0, now)
    BY <1>1, <1>3, <2>2, NextBucketFits
  <2>4. buckets[a].start \in 0 .. now
    BY <2>2 DEF Fits
  <2>5. promised[a] # NoPromise => promised[a] <= now
    BY <1>1, <1>3, <2>2, <2>4 DEF Promises
  <2> QED
    BY <2>1, <2>3, <2>5
<1>4. CASE buckets[a] # NoBucket /\ ~(now - buckets[a].start >= Window)
  <2>1. Bucket(a) = buckets[a]
    BY <1>4 DEF Bucket
  <2>2. /\ Fits(granted[a], buckets[a].start, buckets[a].count, now)
        /\ Promises(promised[a], buckets[a].start, buckets[a].count)
    BY <1>1, <1>4 DEF BucketFits
  <2>3. buckets[a].count # Quota
    BY <1>1, <2>1
  <2> QED
    BY <2>1, <2>2, <2>3 DEF Promises
<1> QED
  BY <1>2, <1>3, <1>4

LEMMA WindowArrive ==
  ASSUME WindowInv, NEW r \in RequestIds, NEW a \in ActorIds, Arrive(r, a)
  PROVE  WindowInv'
<1> DEFINE s == Bucket(a).start
           c == Bucket(a).count
<1>1. /\ now \in Nat /\ granted[a] \in Seq(Nat) /\ Spaced(granted[a])
      /\ promised[a] \in Nat \cup {NoPromise}
  BY DEF WindowInv
<1>2. now' = now /\ promised' = promised /\ c < Quota
  BY DEF Arrive, HasQuota
<1>3. Fits(granted[a], s, c, now) /\ (promised[a] # NoPromise => promised[a] <= s)
  BY <1>2, FoundBucketFits
<1>4. s \in Nat /\ c \in Nat
  BY <1>1, <1>3, Limits DEF Fits
<1>5. /\ granted' = [granted EXCEPT ![a] = Append(@, now)]
      /\ buckets' = [buckets EXCEPT ![a] = [start |-> s, count |-> c + 1]]
  BY DEF Arrive
<1> HIDE DEF s, c
<1>6. Fits(Append(granted[a], now), s, c + 1, now) /\ Spaced(Append(granted[a], now))
  BY <1>1, <1>2, <1>3, OneMoreFits, OneMoreIsSpaced
<1>7. /\ granted'[a] = Append(granted[a], now)
      /\ buckets'[a] = [start |-> s, count |-> c + 1]
  BY <1>5 DEF WindowInv
<1>8. BucketFits(a)' /\ Spaced(granted[a])'
  BY <1>2, <1>3, <1>4, <1>6, <1>7 DEF BucketFits, Promises, NoBucket
<1>9. ASSUME NEW d \in ActorIds \ {a} PROVE BucketFits(d)' /\ Spaced(granted[d])'
  <2>1. granted'[d] = granted[d] /\ buckets'[d] = buckets[d]
    BY <1>5 DEF WindowInv
  <2> QED
    BY <1>2, <2>1 DEF WindowInv, BucketFits
<1>10. /\ granted' \in [ActorIds -> Seq(Nat)]
       /\ buckets' \in [ActorIds -> [start : Nat, count : Nat] \cup {NoBucket}]
  BY <1>1, <1>4, <1>5 DEF WindowInv
<1> QED
  BY <1>2, <1>8, <1>9, <1>10 DEF WindowInv

\* Whoever is turned away meets a full bucket, whose end is what it is told.
LEMMA FullBucket ==
  ASSUME WindowInv, NEW r \in RequestIds, NEW a \in ActorIds, OverQuota(r, a)
  PROVE  /\ buckets[a] # NoBucket /\ buckets[a].count = Quota
         /\ buckets[a].start \in Nat
         /\ Fits(granted[a], buckets[a].start, Quota, now)
         /\ Promises(promised[a], buckets[a].start, Quota)
         /\ now - buckets[a].start < Window
         /\ now + RetryAfter(a) = buckets[a].start + Window
<1>1. /\ now \in Nat /\ Quota \in Nat /\ Quota >= 1 /\ Window \in Nat
      /\ BucketFits(a) /\ ~(Bucket(a).count < Quota)
  BY Limits DEF WindowInv, OverQuota, HasQuota
<1>2. Bucket(a) = buckets[a] /\ buckets[a] # NoBucket /\ ~(now - buckets[a].start >= Window)
  BY <1>1 DEF Bucket
<1>3. /\ Fits(granted[a], buckets[a].start, buckets[a].count, now)
      /\ Promises(promised[a], buckets[a].start, buckets[a].count)
  BY <1>1, <1>2 DEF BucketFits
<1>4. buckets[a].start \in 0 .. now /\ buckets[a].count \in 0 .. Quota
  BY <1>3 DEF Fits
<1>5. buckets[a].count = Quota
  BY <1>1, <1>2, <1>4
<1>6. now + RetryAfter(a) = buckets[a].start + Window
  BY <1>1, <1>2, <1>4 DEF RetryAfter
<1> QED
  BY <1>1, <1>2, <1>3, <1>4, <1>5, <1>6

LEMMA WindowOverQuota ==
  ASSUME WindowInv, NEW r \in RequestIds, NEW a \in ActorIds, OverQuota(r, a)
  PROVE  WindowInv'
<1>1. UNCHANGED <<now, buckets, granted>>
  BY DEF OverQuota
<1>2. /\ buckets[a] # NoBucket /\ buckets[a].count = Quota /\ buckets[a].start \in Nat
      /\ now + RetryAfter(a) = buckets[a].start + Window
  BY FullBucket
<1>3. promised' = [promised EXCEPT ![a] = buckets[a].start + Window]
  <2>1. promised' = [promised EXCEPT ![a] = now + RetryAfter(a)]
    BY DEF OverQuota
  <2> QED
    BY <1>2, <2>1
<1>4. promised' \in [ActorIds -> Nat \cup {NoPromise}]
  BY <1>2, <1>3, Limits DEF WindowInv
<1>5. ASSUME NEW d \in ActorIds PROVE BucketFits(d)'
  <2>1. CASE d # a
    <3>1. promised'[d] = promised[d]
      BY <1>3, <2>1 DEF WindowInv
    <3> QED
      BY <1>1, <3>1 DEF WindowInv, BucketFits
  <2>2. CASE d = a
    <3>1. promised'[a] = buckets[a].start + Window
      BY <1>3 DEF WindowInv
    <3>2. Promises(promised'[a], buckets[a].start, buckets[a].count)
      BY <1>2, <3>1 DEF Promises
    <3> QED
      BY <1>1, <1>2, <2>2, <3>2 DEF WindowInv, BucketFits
  <2> QED
    BY <2>1, <2>2
<1> QED
  BY <1>1, <1>4, <1>5 DEF WindowInv

LEMMA WindowStep == WindowInv /\ [AdmissionNext]_admissionVars => WindowInv'
<1> SUFFICES ASSUME WindowInv, [AdmissionNext]_admissionVars PROVE WindowInv'
  OBVIOUS
<1>1. ASSUME NEW r \in RequestIds, NEW a \in ActorIds, Arrive(r, a) PROVE WindowInv'
  BY <1>1, WindowArrive
<1>2. ASSUME NEW r \in RequestIds, NEW a \in ActorIds, OverQuota(r, a) PROVE WindowInv'
  BY <1>2, WindowOverQuota
<1>3. CASE Tick
  BY <1>3, WindowTick
<1>4. CASE UNCHANGED <<now, buckets, granted, promised>>
  BY <1>4 DEF WindowInv, BucketFits
<1>5. ASSUME NEW r \in RequestIds,
             Overloaded(r) \/ AnswerAtOnce(r) \/ Send(r) \/ Finish(r) \/ Disconnect(r)
      PROVE  UNCHANGED <<now, buckets, granted, promised>>
  BY <1>5 DEF Overloaded, AnswerAtOnce, Send, Finish, Disconnect
<1>6. Drain \/ UNCHANGED admissionVars => UNCHANGED <<now, buckets, granted, promised>>
  BY DEF Drain, admissionVars
<1> QED
  BY <1>1, <1>2, <1>3, <1>4, <1>5, <1>6 DEF AdmissionNext

\* In any span of a window an actor is let in at most twice its quota, for any
\* quota and window (FixedWindowRateLimiter.consume).
THEOREM QuotaAlwaysHolds == AdmissionSpec => []QuotaHolds
<1>1. WindowInv => QuotaHolds
  <2> SUFFICES ASSUME WindowInv, NEW a \in ActorIds, NEW i \in DOMAIN granted[a],
                      i + 2 * Quota \in DOMAIN granted[a]
               PROVE  granted[a][i + 2 * Quota] - granted[a][i] >= Window
    BY DEF QuotaHolds
  <2>1. Spaced(granted[a]) /\ granted[a] \in Seq(Nat)
    BY DEF WindowInv
  <2>2. i \in 1 .. Len(granted[a]) /\ i + 2 * Quota \in 1 .. Len(granted[a])
    BY <2>1
  <2> QED
    BY <2>1, <2>2 DEF Spaced
<1> QED
  BY WindowInit, WindowStep, <1>1, PTL DEF AdmissionSpec

\* Who waited as long as a 429 said meets a bucket that began after the promise;
\* if it is turned away again, the whole of it was used since then.
LEMMA PromiseIsKept ==
  ASSUME WindowInv, NEW r \in RequestIds, NEW a \in ActorIds, OverQuota(r, a),
         promised[a] # NoPromise, now >= promised[a]
  PROVE  Cardinality({i \in DOMAIN granted[a] : granted[a][i] >= promised[a]}) >= Quota
<1> DEFINE g == granted[a]
           s == buckets[a].start
           late == {i \in DOMAIN g : g[i] >= promised[a]}
           last == Len(g) - Quota + 1 .. Len(g)
<1>1. /\ now \in Nat /\ Quota \in Nat /\ Window \in Nat /\ g \in Seq(Nat) /\ Len(g) \in Nat
      /\ promised[a] \in Nat /\ DOMAIN g = 1 .. Len(g)
  BY Limits DEF WindowInv
<1>2. s \in Nat /\ now - s < Window /\ Fits(g, s, Quota, now) /\ Promises(promised[a], s, Quota)
  BY FullBucket
<1>3. promised[a] <= s /\ Quota <= Len(g)
  BY <1>1, <1>2 DEF Promises, Fits
<1>4. ASSUME NEW i \in last PROVE i \in late
  <2> HIDE DEF g, s
  <2>1. i \in 1 .. Len(g) /\ i > Len(g) - Quota
    BY <1>1, <1>3
  <2>2. g[i] >= s /\ g[i] \in Nat
    BY <1>1, <1>2, <2>1 DEF Fits
  <2> QED
    BY <1>1, <1>2, <1>3, <2>1, <2>2
<1> HIDE DEF g, s
<1>5. IsFiniteSet(late)
  <2>1. IsFiniteSet(1 .. Len(g))
    BY <1>1, FS_Interval
  <2>2. late \subseteq 1 .. Len(g)
    BY <1>1
  <2> QED
    BY <2>1, <2>2, FS_Subset
<1>6. Cardinality(last) = Quota
  <2>1. Len(g) - Quota + 1 \in Int /\ Len(g) \in Int
    BY <1>1
  <2>2. Cardinality(last) = IF Len(g) - Quota + 1 > Len(g) THEN 0
                           ELSE Len(g) - (Len(g) - Quota + 1) + 1
    BY <2>1, FS_Interval
  <2> QED
    BY <1>1, <2>2
<1>7. last \subseteq late
  BY <1>4
<1>8. Cardinality(last) <= Cardinality(late) /\ Cardinality(late) \in Nat
  BY <1>5, <1>7, FS_Subset, FS_CardinalityType
<1> USE DEF g
<1> QED
  BY <1>1, <1>6, <1>8

\* The delay a 429 announces is honest, for any quota and window
\* (FixedWindowRateLimiter.consume, retryAfterMs).
THEOREM GuidanceStaysHonest == AdmissionSpec => GuidanceIsHonest
<1>1. WindowInv /\ [AdmissionNext]_admissionVars =>
        [\A r \in RequestIds, a \in ActorIds :
           OverQuota(r, a) /\ promised[a] # NoPromise /\ now >= promised[a] =>
           Cardinality({i \in DOMAIN granted[a] : granted[a][i] >= promised[a]})
             >= Quota]_admissionVars
  BY PromiseIsKept
<1> QED
  BY WindowInit, WindowStep, <1>1, PTL DEF AdmissionSpec, GuidanceIsHonest
=============================================================================
