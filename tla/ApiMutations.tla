----------------------------- MODULE ApiMutations -----------------------------
(***************************************************************************)
(* The POST routes of apps/api over a durable control plane and a journal  *)
(* of idempotency responses.  A request is looked up under its actor and   *)
(* key; if nothing is recorded its mutation is applied, the response is    *)
(* recorded, and only then sent.  Each of these is an await: requests      *)
(* overlap, the process may die between them, and each may fail.           *)
(*                                                                         *)
(* The control plane is taken at its promise, that a command takes effect  *)
(* atomically or not at all (DurableControlPlane), and so is the journal   *)
(* of responses (VersionedLog): put() appends at version 0.                *)
(***************************************************************************)
EXTENDS WorkOrders

CONSTANTS Orders, Keys,
          Requests,   \* what clients send: actor, key, order, op, arg
          Handlers,   \* requests in flight at the same time
          Stored,     \* the orders in the journal when the server starts
          MaxSends    \* bound: requests sent

ASSUME MaxSendsIsNat == MaxSends \in Nat
ASSUME StoredOrdersAreSnapshots ==
  DOMAIN Stored \subseteq Orders /\ \A o \in DOMAIN Stored : Stored[o] \in Snapshots
ASSUME StoredOrdersAreTrusted ==   \* what a control plane stores always is
  \A o \in DOMAIN Stored : Trusted(Stored[o])
ASSUME RequestsAreRequests ==
  \A q \in Requests :
    /\ q.actor \in Actors /\ q.key \in Keys /\ q.order \in Orders
    /\ \/ q.op \in {"create", "metadata"} /\ q.arg \in Metadata
       \/ q.op = "transition" /\ q.arg \in Statuses
       \/ q.op = "evidence" /\ q.arg \in Evidence
       \/ q.op = "gate" /\ q.arg \in Decisions

VARIABLES orders,     \* the durable control plane
          cache,      \* the journal of responses
          handler,    \* per request in flight, where route() is suspended
          sends,      \* requests sent so far
          replied,    \* history: the successful replies
          applied,    \* history: per actor and key, mutations applied
          overlapped, \* history: keys sent again while in flight
          lost        \* history: keys applied whose response was not recorded

vars == <<orders, cache, handler, sends, replied, applied, overlapped, lost>>

-----------------------------------------------------------------------------
\* What a response is recorded under, and what it is compared by.
Id(q)          == <<q.actor.id, q.key>>
Fingerprint(q) == <<q.op, q.order, q.arg>>

Ids == People \X Keys

\* The control plane's rules for the request ...
Accepts(q) ==
  \/ q.op = "create" /\ CanCreate(q.actor) /\ q.order \notin DOMAIN orders
  \/ /\ q.order \in DOMAIN orders
     /\ \/ q.op = "transition" /\ CanTransition(orders[q.order], q.arg, q.actor)
        \/ q.op = "evidence" /\ CanRecordEvidence(orders[q.order], q.arg)
        \/ q.op = "gate" /\ CanDecide(orders[q.order], q.arg, q.actor)
        \/ q.op = "metadata" /\ MayUpdateMetadata(q.actor)

\* ... and the snapshot they lead to.
Result(q) ==
  CASE q.op = "create"     -> Created(q.arg, q.actor)
    [] q.op = "transition" -> Transitioned(orders[q.order], q.arg, q.actor)
    [] q.op = "evidence"   -> EvidenceRecorded(orders[q.order], q.arg, q.actor)
    [] q.op = "gate"       -> Decided(orders[q.order], q.arg, q.actor)
    [] q.op = "metadata"   ->
         IF CanUpdateMetadata(orders[q.order], q.arg, q.actor)
         THEN MetadataUpdated(orders[q.order], q.arg, q.actor)
         ELSE orders[q.order]

Put(f, x, y) == [z \in DOMAIN f \cup {x} |-> IF z = x THEN y ELSE f[z]]

Free == [state |-> "free"]

\* The handler is done with its request: an error goes out, or a reply did.
Leave(h) == handler' = [handler EXCEPT ![h] = Free]

\* What a client is told, and what is recorded of it.
Answer(q, response) == [id |-> Id(q), fingerprint |-> Fingerprint(q),
                        order |-> q.order, response |-> response]

RecordOf(h) == [fingerprint |-> Fingerprint(handler[h].request),
                response |-> handler[h].response]

Goto(h, state) == handler' = [handler EXCEPT ![h].state = state]

Init ==
  /\ orders = Stored
  /\ cache = [id \in {} |-> {}]
  /\ handler = [h \in Handlers |-> Free]
  /\ sends = 0
  /\ replied = {}
  /\ applied = [id \in Ids |-> 0]
  /\ overlapped = {}
  /\ lost = {}

\* A client sends a request, for the first time or again, whatever it has
\* heard of it, on a connection of its own.  late: its key was already
\* answered successfully.
Receive(h, q) ==
  /\ handler[h] = Free
  /\ sends < MaxSends
  /\ sends' = sends + 1
  /\ handler' = [handler EXCEPT ![h] =
       [state |-> "lookup", request |-> q,
        late |-> \E r \in replied : r.id = Id(q)]]
  /\ overlapped' = IF \E g \in Handlers :
                        handler[g] # Free /\ Id(handler[g].request) = Id(q)
                   THEN overlapped \cup {Id(q)} ELSE overlapped
  /\ UNCHANGED <<orders, cache, replied, applied, lost>>

\* cache.get finds a response to this very request: it is sent.
Found(h) ==
  LET q == handler[h].request IN
  /\ handler[h].state = "lookup"
  /\ Id(q) \in DOMAIN cache
  /\ cache[Id(q)].fingerprint = Fingerprint(q)
  /\ replied' = replied \cup {Answer(q, cache[Id(q)].response)}
  /\ Leave(h)
  /\ UNCHANGED <<orders, cache, sends, applied, overlapped, lost>>

\* It finds one to another request (409), or cannot read the journal (500),
\* which may happen whatever is recorded.
Rejected(h) ==
  /\ handler[h].state = "lookup"
  /\ Leave(h)
  /\ UNCHANGED <<orders, cache, sends, replied, applied, overlapped, lost>>

\* Mutated: what is recorded is ignored.
AlwaysMissed(h) ==
  /\ handler[h].state = "lookup"
  /\ Goto(h, "mutate")
  /\ UNCHANGED <<orders, cache, sends, replied, applied, overlapped, lost>>

Missed(h) ==
  /\ handler[h].state = "lookup"
  /\ Id(handler[h].request) \notin DOMAIN cache
  /\ Goto(h, "mutate")
  /\ UNCHANGED <<orders, cache, sends, replied, applied, overlapped, lost>>

\* Mutated: the response is made from a snapshot that was not stored.
AnsweredUnsaved(h) ==
  LET q == handler[h].request IN
  /\ handler[h].state = "mutate"
  /\ Accepts(q)
  /\ handler' = [handler EXCEPT ![h] =
       [state |-> "record", request |-> q, late |-> @.late,
        response |-> Result(q)]]
  /\ applied' = [applied EXCEPT ![Id(q)] = @ + 1]
  /\ UNCHANGED <<orders, cache, sends, replied, overlapped, lost>>

\* The control plane accepts and stores the mutation.
Mutate(h) ==
  LET q == handler[h].request IN
  /\ handler[h].state = "mutate"
  /\ Accepts(q)
  /\ orders' = Put(orders, q.order, Result(q))
  /\ handler' = [handler EXCEPT ![h] =
       [state |-> "record", request |-> q, late |-> @.late,
        response |-> Result(q)]]
  /\ applied' = [applied EXCEPT ![Id(q)] = @ + 1]
  /\ UNCHANGED <<cache, sends, replied, overlapped, lost>>

\* The control plane throws: the rules refuse, or a concurrent command does
\* (a stale version or a held lock), and nothing is recorded.
Refused(h) ==
  LET q == handler[h].request IN
  /\ handler[h].state = "mutate"
  /\ \/ ~Accepts(q)
     \/ \E g \in Handlers \ {h} : handler[g] # Free
  /\ Leave(h)
  /\ UNCHANGED <<orders, cache, sends, replied, applied, overlapped, lost>>

\* The plane's journal fails, before or after the entry reached the disk.
MutateFails(h) ==
  LET q == handler[h].request IN
  /\ handler[h].state = "mutate"
  /\ Leave(h)
  /\ \/ UNCHANGED <<orders, applied, lost>>
     \/ /\ Accepts(q)
        /\ orders' = Put(orders, q.order, Result(q))
        /\ applied' = [applied EXCEPT ![Id(q)] = @ + 1]
        /\ lost' = lost \cup {Id(q)}
  /\ UNCHANGED <<cache, sends, replied, overlapped>>

\* Mutated: the last response recorded under a key wins.
RecordedOver(h) ==
  LET q == handler[h].request IN
  /\ handler[h].state = "record"
  /\ cache' = Put(cache, Id(q), RecordOf(h))
  /\ Goto(h, "reply")
  /\ UNCHANGED <<orders, sends, replied, applied, overlapped, lost>>

\* cache.put: the append at version 0 of the key's stream succeeds.
Recorded(h) ==
  LET q == handler[h].request IN
  /\ handler[h].state = "record"
  /\ Id(q) \notin DOMAIN cache
  /\ cache' = Put(cache, Id(q), RecordOf(h))
  /\ Goto(h, "reply")
  /\ UNCHANGED <<orders, sends, replied, applied, overlapped, lost>>

\* It is refused: the stream is not empty any more, or another request holds
\* the lock of the journal.  The client is told 409, the mutation stays.
RecordRefused(h) ==
  LET q == handler[h].request IN
  /\ handler[h].state = "record"
  /\ \/ Id(q) \in DOMAIN cache
     \/ \E g \in Handlers \ {h} : handler[g].state = "record"
  /\ lost' = lost \cup {Id(q)}
  /\ Leave(h)
  /\ UNCHANGED <<orders, cache, sends, replied, applied, overlapped>>

\* It fails, before or after the entry reached the disk: 500.
RecordFails(h) ==
  LET q == handler[h].request IN
  /\ handler[h].state = "record"
  /\ \/ UNCHANGED cache /\ lost' = lost \cup {Id(q)}
     \/ /\ Id(q) \notin DOMAIN cache
        /\ cache' = Put(cache, Id(q), RecordOf(h))
        /\ UNCHANGED lost
  /\ Leave(h)
  /\ UNCHANGED <<orders, sends, replied, applied, overlapped>>

\* Mutated: the reply is sent before it is recorded.
ReplyBeforeRecord(h) ==
  LET q == handler[h].request IN
  /\ handler[h].state \in {"record", "reply"}
  /\ replied' = replied \cup {Answer(q, handler[h].response)}
  /\ Leave(h)
  /\ UNCHANGED <<orders, cache, sends, applied, overlapped, lost>>

\* send: the reply reaches the client, or its connection is gone.
Reply(h) ==
  LET q == handler[h].request IN
  /\ handler[h].state = "reply"
  /\ \/ UNCHANGED replied
     \/ replied' = replied \cup {Answer(q, handler[h].response)}
  /\ Leave(h)
  /\ UNCHANGED <<orders, cache, sends, applied, overlapped, lost>>

\* The server dies and is started again on the same journals.
Crash ==
  /\ \E h \in Handlers : handler[h] # Free
  /\ handler' = [h \in Handlers |-> Free]
  /\ lost' = lost \cup {Id(handler[h].request) :
                          h \in {x \in Handlers : handler[x].state = "record"}}
  /\ UNCHANGED <<orders, cache, sends, replied, applied, overlapped>>

Next ==
  \/ \E h \in Handlers :
       \/ \E q \in Requests : Receive(h, q)
       \/ Found(h) \/ Rejected(h) \/ Missed(h)
       \/ Mutate(h) \/ Refused(h) \/ MutateFails(h)
       \/ Recorded(h) \/ RecordRefused(h) \/ RecordFails(h)
       \/ Reply(h)
  \/ Crash

Spec == Init /\ [][Next]_vars

-----------------------------------------------------------------------------
(***************************************************************************)
(* Properties that hold.                                                   *)
(***************************************************************************)
\* Successful replies to one actor and key are the same reply to the same
\* request, whether they were computed, replayed, raced or replayed after a
\* restart (WO-PHASE3 acceptance 4 "identical replay is stable and
\* conflicting reuse is rejected"; apps/api/src/server.ts:148-175).
RepliesAgree == \A r, s \in replied : r.id = s.id => r = s

\* A request sent after its key was answered successfully applies nothing any
\* more, whatever crashed or failed in between (ADR 0006).
RetryAfterSuccessIsInert ==
  \A h \in Handlers :
    handler[h] # Free /\ handler[h].late => handler[h].state = "lookup"

\* A key is applied twice only if its requests overlapped or the response to
\* an earlier one was lost: retries one after the other are safe otherwise.
AppliedOnceUnlessLost ==
  \A id \in Ids : applied[id] > 1 => id \in overlapped \cup lost

\* What a client was told is part of the order's history, and stays so: its
\* audit trail begins with the trail of the reply.
RepliesAreDurable ==
  \A r \in replied :
    /\ r.order \in DOMAIN orders
    /\ Len(r.response.audit) <= Len(orders[r.order].audit)
    /\ SubSeq(orders[r.order].audit, 1, Len(r.response.audit)) = r.response.audit

=============================================================================
