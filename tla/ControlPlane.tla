----------------------------- MODULE ControlPlane -----------------------------
(***************************************************************************)
(* Class ControlPlane (packages/control-plane): the lifecycle authority,   *)
(* with its map of orders held in memory.  Each public method runs to its  *)
(* end without yielding, so each is one action.  It is also the abstract   *)
(* specification of the durable control plane: what DurableControlPlane    *)
(* must look like to its callers.                                          *)
(***************************************************************************)
EXTENDS WorkOrders

CONSTANTS Orders,   \* work order ids
          Callers,  \* the actors the API's tokens map to
          MaxAudit  \* bound: mutations of one order

ASSUME CallersAreActors == Callers \subseteq Actors
ASSUME MaxAuditIsNat    == MaxAudit \in Nat

VARIABLE orders     \* #orders: a map from the ids created so far to snapshots

vars == <<orders>>

Init == orders = [o \in {} |-> {}]

\* The order exists, and is still within the bound.
Open(o) == o \in DOMAIN orders /\ Len(orders[o].audit) < MaxAudit

\* #save
Save(o, snapshot) == orders' = [orders EXCEPT ![o] = snapshot]

Create(o, m, a) ==
  /\ CanCreate(a)
  /\ o \notin DOMAIN orders
  /\ orders' = [x \in DOMAIN orders \cup {o} |->
                  IF x = o THEN Created(m, a) ELSE orders[x]]

Transition(o, to, a) ==
  /\ Open(o)
  /\ CanTransition(orders[o], to, a)
  /\ Save(o, Transitioned(orders[o], to, a))

RecordEvidence(o, e, a) ==
  /\ Open(o)
  /\ CanRecordEvidence(orders[o], e)
  /\ Save(o, EvidenceRecorded(orders[o], e, a))

RecordGateDecision(o, d, a) ==
  /\ Open(o)
  /\ CanDecide(orders[o], d, a)
  /\ Save(o, Decided(orders[o], d, a))

UpdateProjectionMetadata(o, m, a) ==
  /\ Open(o)
  /\ CanUpdateMetadata(orders[o], m, a)
  /\ Save(o, MetadataUpdated(orders[o], m, a))

Next ==
  \E a \in Callers, o \in Orders :
    \/ \E m \in Metadata : Create(o, m, a)
    \/ \E to \in Statuses : Transition(o, to, a)
    \/ \E e \in Evidence : RecordEvidence(o, e, a)
    \/ \E d \in Decisions : RecordGateDecision(o, d, a)
    \/ \E m \in Metadata : UpdateProjectionMetadata(o, m, a)

Spec == Init /\ [][Next]_vars

-----------------------------------------------------------------------------
(***************************************************************************)
(* Properties that hold.                                                   *)
(***************************************************************************)

\* The map holds well-formed snapshots of known orders.
TypeOK ==
  /\ DOMAIN orders \subseteq Orders
  /\ orders \in [DOMAIN orders -> Snapshots]

\* Every decision ever recorded, of any gate and any run, still cites known
\* evidence, and a passing one only good evidence (WO-PHASE1 invariant
\* "missing, unknown, or failing evidence cannot produce a passing decision";
\* control-plane/src/index.ts:121 and 135-141 together).
EvidenceBacksDecisions == \A o \in DOMAIN orders : DecisionsAreBacked(orders[o])

\* An order is verified only with a passing DONE decision by an actor other
\* than its implementer, whatever was blocked, failed, re-run or re-judged
\* before (control-plane/src/index.ts:134,142).
VerifiedMeansJudged == \A o \in DOMAIN orders : IndependentlyVerified(orders[o])

\* Status and implementer can be recomputed from the audit trail alone: no
\* mutation changes them without leaving the entry that explains the change
\* (WO-PHASE1: "every accepted mutation appends an audit event").
AuditExplainsState ==
  \A o \in DOMAIN orders :
    Replay(orders[o].audit) = [status |-> orders[o].status,
                               implementerId |-> orders[o].implementerId]

=============================================================================
