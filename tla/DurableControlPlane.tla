-------------------------- MODULE DurableControlPlane --------------------------
(***************************************************************************)
(* Class DurableControlPlane over the promise of the journal               *)
(* (VersionedLog).  A command reads the latest snapshot of its order and   *)
(* the stream's length, applies the domain rules to a fresh ControlPlane,  *)
(* and appends the result at that length.  Between the read and the append *)
(* any number of other commands run; the append may be refused, or take    *)
(* effect without its caller learning it (a crash, a failed flush).        *)
(***************************************************************************)
EXTENDS WorkOrders

CONSTANTS Orders, Callers,
          Clients,   \* commands under way at the same time
          MaxAudit   \* bound: mutations of one order

ASSUME CallersAreActors == Callers \subseteq Actors
ASSUME MaxAuditIsNat    == MaxAudit \in Nat

VARIABLES journal,   \* entries [streamId, payload], oldest first
          command,   \* per client: the command between its read and its end
          returned   \* history: [order, version, snapshot], the last one told
                     \* to a caller

durableVars == <<journal, command, returned>>

NoCommand == [state |-> "none"]
NoAnswer  == << >>

-----------------------------------------------------------------------------
\* #load: the stream's length is the version, its last payload the snapshot.
Positions(o) == {i \in DOMAIN journal : journal[i].streamId = o}
Version(o)   == Cardinality(Positions(o))
Exists(o)    == Positions(o) # {}
Latest(o)    ==
  journal[CHOOSE i \in Positions(o) : \A j \in Positions(o) : j <= i].payload

\* What the domain rules make of one snapshot, for one actor.
Successors(s, a) ==
       {Transitioned(s, to, a) : to \in {x \in Statuses : CanTransition(s, x, a)}}
  \cup {EvidenceRecorded(s, e, a) : e \in {x \in Evidence : CanRecordEvidence(s, x)}}
  \cup {Decided(s, d, a) : d \in {x \in Decisions : CanDecide(s, x, a)}}
  \cup {MetadataUpdated(s, m, a) : m \in {x \in Metadata : CanUpdateMetadata(s, x, a)}}

DurableInit ==
  /\ journal = << >>
  /\ command = [c \in Clients |-> NoCommand]
  /\ returned = NoAnswer

\* create: nothing is read; the append expects an empty stream.
StartCreate(c, o, m, a) ==
  /\ command[c] = NoCommand
  /\ CanCreate(a)
  /\ command' = [command EXCEPT ![c] =
       [state |-> "ready", order |-> o, version |-> 0, next |-> Created(m, a)]]
  /\ UNCHANGED <<journal, returned>>

\* #mutate up to the append.  A refused command throws and changes nothing;
\* so does one that changes nothing.
StartMutate(c, o, a) ==
  /\ command[c] = NoCommand
  /\ Exists(o)
  /\ Len(Latest(o).audit) < MaxAudit
  /\ \E next \in Successors(Latest(o), a) :
       command' = [command EXCEPT ![c] =
         [state |-> "ready", order |-> o, version |-> Version(o), next |-> next]]
  /\ UNCHANGED <<journal, returned>>

\* Mutated: the append expects whatever length the stream has by now.
StoreAnyway(c) ==
  /\ command[c].state = "ready"
  /\ journal' = Append(journal, [streamId |-> command[c].order,
                                 payload |-> command[c].next])
  /\ command' = [command EXCEPT ![c].state = "stored"]
  /\ UNCHANGED returned

\* The journal stores the snapshot at the expected version.
Store(c) ==
  /\ command[c].state = "ready"
  /\ Version(command[c].order) = command[c].version
  /\ journal' = Append(journal, [streamId |-> command[c].order,
                                 payload |-> command[c].next])
  /\ command' = [command EXCEPT ![c].state = "stored"]
  /\ UNCHANGED returned

\* Mutated: the snapshot is handed out before it is stored.
AnswerBeforeStore(c) ==
  /\ command[c].state \in {"ready", "stored"}
  /\ returned' = [order |-> command[c].order, version |-> command[c].version,
                  snapshot |-> command[c].next]
  /\ command' = [command EXCEPT ![c] = NoCommand]
  /\ UNCHANGED journal

\* append() returns and the caller gets the snapshot.
Answer(c) ==
  /\ command[c].state = "stored"
  /\ returned' = [order |-> command[c].order, version |-> command[c].version,
                  snapshot |-> command[c].next]
  /\ command' = [command EXCEPT ![c] = NoCommand]
  /\ UNCHANGED journal

\* The append is refused (stale version, lock held, I/O), or the process dies
\* before or after it took effect.
Abandon(c) ==
  /\ command[c] # NoCommand
  /\ command' = [command EXCEPT ![c] = NoCommand]
  /\ UNCHANGED <<journal, returned>>

DurableNext ==
  \E c \in Clients :
    \/ \E a \in Callers, o \in Orders :
         \/ \E m \in Metadata : StartCreate(c, o, m, a)
         \/ StartMutate(c, o, a)
    \/ Store(c)
    \/ Answer(c)
    \/ Abandon(c)

DurableSpec == DurableInit /\ [][DurableNext]_durableVars

-----------------------------------------------------------------------------
(***************************************************************************)
(* Properties.                                                             *)
(***************************************************************************)
\* The n-th snapshot of an order's stream.
Nth(o, n) ==
  journal[CHOOSE i \in Positions(o) :
            Cardinality({j \in Positions(o) : j <= i}) = n].payload

\* A snapshot a caller was given is in the journal at its version, and stays
\* there whatever is stored later (ADR 0005 "Work Orders and audit history
\* survive process restart").
ReturnedIsDurable ==
  returned # NoAnswer =>
    /\ returned.version < Version(returned.order)
    /\ Nth(returned.order, returned.version + 1) = returned.snapshot

-----------------------------------------------------------------------------
(***************************************************************************)
(* The durable control plane implements ControlPlane: its callers see one  *)
(* lifecycle authority whose operations are atomic.                        *)
(***************************************************************************)
Authority == INSTANCE ControlPlane WITH
  orders <- [o \in {x \in Orders : Exists(x)} |-> Latest(o)]

\* Each stored snapshot is one operation of the in-memory control plane on
\* the snapshot stored before it.
CommandsAreAtomic == Authority!Init /\ [][Authority!Next]_(Authority!vars)
=============================================================================
