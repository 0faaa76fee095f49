----------------------------- MODULE VersionedLog -----------------------------
(***************************************************************************)
(* What an append-only log with optimistic concurrency promises, whatever  *)
(* holds it: an append takes effect at most once, atomically, between its  *)
(* call and its return, and only if its stream has exactly the expected    *)
(* number of entries at that instant.  A caller told "ok" has its entry in *)
(* the log; a caller told anything else knows nothing.                     *)
(* FileJournal.tla is the file-backed implementation; the durable control  *)
(* plane is modelled over this promise.                                    *)
(***************************************************************************)
EXTENDS Naturals, Sequences, FiniteSets

CONSTANTS Writers, Streams,
          Versions   \* the expected versions callers may pass

VARIABLES log,     \* entries [streamId, version, writer], oldest first
          call,    \* per writer, the append under way
          answer   \* per writer, what its last append returned

vars == <<log, call, answer>>

Idle == [state |-> "idle"]

\* How many of the entries belong to one stream.
StreamLength(entries, s) ==
  Cardinality({i \in DOMAIN entries : entries[i].streamId = s})

Init ==
  /\ log = << >>
  /\ call = [w \in Writers |-> Idle]
  /\ answer = [w \in Writers |-> "none"]

Invoke(w, s, v) ==
  /\ call[w] = Idle
  /\ call' = [call EXCEPT ![w] = [state |-> "pending", streamId |-> s,
                                  expectedVersion |-> v]]
  /\ answer' = [answer EXCEPT ![w] = "none"]
  /\ UNCHANGED log

Store(w) ==
  /\ call[w].state = "pending"
  /\ StreamLength(log, call[w].streamId) = call[w].expectedVersion
  /\ log' = Append(log, [streamId |-> call[w].streamId,
                         version |-> call[w].expectedVersion, writer |-> w])
  /\ call' = [call EXCEPT ![w].state = "stored"]
  /\ UNCHANGED answer

Return(w, result) ==
  /\ call[w].state # "idle"
  /\ result = "ok" => call[w].state = "stored"
  /\ answer' = [answer EXCEPT ![w] = result]
  /\ call' = [call EXCEPT ![w] = Idle]
  /\ UNCHANGED log

Next ==
  \E w \in Writers :
    \/ \E s \in Streams, v \in Versions : Invoke(w, s, v)
    \/ Store(w)
    \/ \E result \in {"ok", "ConcurrencyError", "IntegrityError", "error",
                      "crash"} : Return(w, result)

Spec == Init /\ [][Next]_vars
=============================================================================
