------------------------------ MODULE WorkOrders ------------------------------
(***************************************************************************)
(* The work-order snapshot and the domain rules that produce the next one  *)
(* (packages/work-orders, packages/control-plane).  Nothing here is a      *)
(* state machine: each operation of class ControlPlane is a pair, Can...   *)
(* (the conjunction of its early throws, negated) and the snapshot it      *)
(* saves.  ControlPlane.tla applies them to a map held in memory,          *)
(* DurableControlPlane.tla to snapshots read back from a journal.          *)
(*                                                                         *)
(* Data kept: the status, the implementer, the evidence (identity and      *)
(* whether it is "pass with exit code 0"), the decisions, the projection   *)
(* metadata as one opaque value, the audit trail.  Data dropped: texts,    *)
(* timestamps, digests and the audit hash, which is a function of the      *)
(* trail itself.                                                           *)
(***************************************************************************)
EXTENDS Naturals, Sequences, FiniteSets

CONSTANTS People,       \* actor ids
          EvidenceIds,  \* ids an evidence record may carry
          Metadata,     \* values of the projection metadata fields
          Nobody        \* implementerId is undefined

ASSUME NobodyIsNotAPerson == Nobody \notin People

Roles    == {"planner", "approver", "coder", "reviewer", "judge", "operator"}
Statuses == {"draft", "approved", "running", "failed", "blocked", "verified"}
Gates    == {"REVIEW", "DONE"}      \* of the 13 gates only DONE is told apart
Verdicts == {"pass", "fail", "blocked"}

Actors    == [id : People, role : Roles]
Evidence  == [id : EvidenceIds, good : BOOLEAN]
Decisions == [gate : Gates, status : Verdicts, evaluatorId : People,
              evidenceIds : SUBSET EvidenceIds]

\* One audit entry: who, as what, did what, about which evidence or gate.
AuditEntries ==
  [actor : People, role : Roles, subject : EvidenceIds \cup Gates \cup {"-"},
   action : {"work-order.created", "evidence.recorded",
             "projection-metadata.updated"}
            \cup {"work-order.approved", "work-order.running",
                  "work-order.failed", "work-order.blocked"}
            \cup {"gate.pass", "gate.fail", "gate.blocked"}]

Snapshots ==
  [status : Statuses, implementerId : People \cup {Nobody},
   metadata : Metadata, evidence : SUBSET Evidence,
   decisions : Seq(Decisions), audit : Seq(AuditEntries)]

-----------------------------------------------------------------------------
\* #withAudit: every accepted mutation appends exactly one entry.
Entry(a, action, subject) ==
  [actor |-> a.id, role |-> a.role, action |-> action, subject |-> subject]

WithAudit(snapshot, a, action, subject) ==
  [snapshot EXCEPT !.audit = Append(@, Entry(a, action, subject))]

-----------------------------------------------------------------------------
\* create
CanCreate(a) == a.role = "planner"

Created(m, a) ==
  WithAudit([status |-> "draft", implementerId |-> Nobody, metadata |-> m,
             evidence |-> {}, decisions |-> << >>, audit |-> << >>],
            a, "work-order.created", "-")

-----------------------------------------------------------------------------
\* transition
AllowedTransitions ==
  [draft    |-> {"approved", "blocked"},
   approved |-> {"running", "blocked"},
   running  |-> {"failed", "blocked", "verified"},
   failed   |-> {"running", "blocked"},
   blocked  |-> {"approved", "running"},
   verified |-> {}]

CanTransition(snapshot, to, a) ==
  /\ to \in AllowedTransitions[snapshot.status]
  /\ to = "approved" => a.role = "approver"
  /\ to = "running"  => a.role = "coder"
  /\ to # "verified"

ActionFor(to) ==
  CASE to = "approved" -> "work-order.approved"
    [] to = "running"  -> "work-order.running"
    [] to = "failed"   -> "work-order.failed"
    [] to = "blocked"  -> "work-order.blocked"

\* Mutated: whoever causes a transition becomes the implementer.
AlwaysReassigned(snapshot, to, a) ==
  WithAudit([snapshot EXCEPT !.status = to, !.implementerId = a.id],
            a, ActionFor(to), "-")

\* Mutated: the implementer is recorded by role instead of by id.
ImplementerByRole(snapshot, to, a) ==
  WithAudit([snapshot EXCEPT
               !.status = to,
               !.implementerId = IF to = "running" THEN a.role ELSE @],
            a, ActionFor(to), "-")

Transitioned(snapshot, to, a) ==
  WithAudit([snapshot EXCEPT
               !.status = to,
               !.implementerId = IF to = "running" THEN a.id ELSE @],
            a, ActionFor(to), "-")

-----------------------------------------------------------------------------
\* recordEvidence
KnownIds(snapshot) == {e.id : e \in snapshot.evidence}

\* Mutated: a second record under an identity already used is accepted.
AnyWhileRunning(snapshot, e) == snapshot.status = "running"

CanRecordEvidence(snapshot, e) ==
  /\ snapshot.status = "running"
  /\ e.id \notin KnownIds(snapshot)

EvidenceRecorded(snapshot, e, a) ==
  WithAudit([snapshot EXCEPT !.evidence = @ \cup {e}],
            a, "evidence.recorded", e.id)

-----------------------------------------------------------------------------
\* recordGateDecision
Selected(snapshot, ids) == {e \in snapshot.evidence : e.id \in ids}

\* Mutated: the implementer may judge its own work.
IndependenceDropped(snapshot, d, a) ==
  /\ a.role \in {"reviewer", "judge"}
  /\ d.evaluatorId = a.id
  /\ d.evidenceIds # {}
  /\ d.evidenceIds \subseteq KnownIds(snapshot)
  /\ d.status = "pass" => \A e \in Selected(snapshot, d.evidenceIds) : e.good

CanDecide(snapshot, d, a) ==
  /\ a.role \in {"reviewer", "judge"}
  /\ d.evaluatorId = a.id
  /\ a.id # snapshot.implementerId
  /\ d.evidenceIds # {}
  /\ d.evidenceIds \subseteq KnownIds(snapshot)
  /\ d.status = "pass" => \A e \in Selected(snapshot, d.evidenceIds) : e.good

StatusAfterDecision(snapshot, d) ==
  IF d.status = "pass" /\ d.gate = "DONE" THEN "verified"
  ELSE IF d.status = "fail" THEN "failed" ELSE snapshot.status

GateAction(verdict) ==
  CASE verdict = "pass"    -> "gate.pass"
    [] verdict = "fail"    -> "gate.fail"
    [] verdict = "blocked" -> "gate.blocked"

Decided(snapshot, d, a) ==
  WithAudit([snapshot EXCEPT !.status = StatusAfterDecision(snapshot, d),
                             !.decisions = Append(@, d)],
            a, GateAction(d.status), d.gate)

-----------------------------------------------------------------------------
\* updateProjectionMetadata (a patch that changes nothing saves nothing)
MayUpdateMetadata(a) == a.role \in {"planner", "coder", "reviewer", "operator"}

CanUpdateMetadata(snapshot, m, a) ==
  /\ MayUpdateMetadata(a)
  /\ m # snapshot.metadata

MetadataUpdated(snapshot, m, a) ==
  WithAudit([snapshot EXCEPT !.metadata = m],
            a, "projection-metadata.updated", "-")

-----------------------------------------------------------------------------
(***************************************************************************)
(* What a snapshot must always tell.                                       *)
(***************************************************************************)

\* Every decision cites evidence the order holds, and a passing one cites
\* only good evidence (no record of a cited id is bad).
DecisionsAreBacked(snapshot) ==
  \A i \in DOMAIN snapshot.decisions :
    LET d == snapshot.decisions[i] IN
      /\ d.evidenceIds # {}
      /\ d.evidenceIds \subseteq KnownIds(snapshot)
      /\ d.status = "pass" =>
           \A e \in snapshot.evidence : e.id \in d.evidenceIds => e.good

\* A verified order carries a passing DONE decision of someone who is not
\* its implementer.
IndependentlyVerified(snapshot) ==
  snapshot.status = "verified" =>
    \E i \in DOMAIN snapshot.decisions :
      /\ snapshot.decisions[i].gate = "DONE"
      /\ snapshot.decisions[i].status = "pass"
      /\ snapshot.decisions[i].evaluatorId # snapshot.implementerId

\* What a reader of the audit trail takes an entry for, given what the entries
\* before it said of the order's status and implementer.
Understood(known, e) ==
  CASE e.action = "work-order.created" -> [known EXCEPT !.status = "draft"]
    [] e.action = "work-order.approved" -> [known EXCEPT !.status = "approved"]
    [] e.action = "work-order.running" ->
         [status |-> "running", implementerId |-> e.actor]
    [] e.action \in {"work-order.failed", "gate.fail"} ->
         [known EXCEPT !.status = "failed"]
    [] e.action = "work-order.blocked" -> [known EXCEPT !.status = "blocked"]
    [] e.action = "gate.pass" /\ e.subject = "DONE" ->
         [known EXCEPT !.status = "verified"]
    [] OTHER -> known

\* What is known of an order from its audit trail alone, entry by entry.
Unknown == [status |-> "none", implementerId |-> Nobody]
Replay(audit) ==
  LET f[n \in 0 .. Len(audit)] ==
        IF n = 0 THEN Unknown ELSE Understood(f[n - 1], audit[n])
  IN f[Len(audit)]

\* A reader may rely on the snapshot: all of the above.
Trusted(snapshot) ==
  /\ DecisionsAreBacked(snapshot)
  /\ IndependentlyVerified(snapshot)
  /\ Replay(snapshot.audit) = [status |-> snapshot.status,
                               implementerId |-> snapshot.implementerId]
=============================================================================
