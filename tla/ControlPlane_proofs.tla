-------------------------- MODULE ControlPlane_proofs --------------------------
(***************************************************************************)
(* Proofs about ControlPlane, for any people, orders, evidence ids,        *)
(* metadata and callers, and any bound on the audit trail.                 *)
(***************************************************************************)
EXTENDS ControlPlane, WellFoundedInduction, TLAPS

-----------------------------------------------------------------------------
(***************************************************************************)
(* The strengthening of one snapshot: well-formedness with the properties  *)
(* that speak of the decisions.  DecisionsAreBacked is needed beside       *)
(* IndependentlyVerified only for itself; the type is needed by both.      *)
(***************************************************************************)
Sound(s) ==
  /\ s \in Snapshots
  /\ DecisionsAreBacked(s)
  /\ IndependentlyVerified(s)

AuditActions ==
  {"work-order.created", "evidence.recorded", "projection-metadata.updated",
   "work-order.approved", "work-order.running", "work-order.failed",
   "work-order.blocked", "gate.pass", "gate.fail", "gate.blocked"}

Subjects == EvidenceIds \cup Gates \cup {"-"}

\* Appending an audit entry changes nothing else and keeps the snapshot well
\* formed.
LEMMA WithAuditSound ==
  ASSUME NEW s, Sound(s), NEW a \in Actors,
         NEW action \in AuditActions, NEW subject \in Subjects
  PROVE  Sound(WithAudit(s, a, action, subject))
<1>1. Entry(a, action, subject) \in AuditEntries
  BY DEF Entry, AuditEntries, Actors, AuditActions, Subjects
<1>2. Append(s.audit, Entry(a, action, subject)) \in Seq(AuditEntries)
  BY <1>1 DEF Sound, Snapshots
<1>3. WithAudit(s, a, action, subject) \in Snapshots
  BY <1>2 DEF WithAudit, Snapshots, Sound
<1>4. /\ WithAudit(s, a, action, subject).status = s.status
      /\ WithAudit(s, a, action, subject).implementerId = s.implementerId
      /\ WithAudit(s, a, action, subject).evidence = s.evidence
      /\ WithAudit(s, a, action, subject).decisions = s.decisions
  BY DEF WithAudit, Sound, Snapshots
<1> QED
  BY <1>3, <1>4
  DEF Sound, DecisionsAreBacked, IndependentlyVerified, KnownIds

-----------------------------------------------------------------------------
(***************************************************************************)
(* The operations of one snapshot.                                         *)
(***************************************************************************)

\* create makes a sound draft.
LEMMA CreatedSound ==
  ASSUME NEW m \in Metadata, NEW a \in Actors
  PROVE  Sound(Created(m, a))
<1> DEFINE s == [status |-> "draft", implementerId |-> Nobody, metadata |-> m,
                 evidence |-> {}, decisions |-> << >>, audit |-> << >>]
<1>1. s \in Snapshots
  BY DEF Snapshots, Statuses
<1>2. Sound(s)
  BY <1>1 DEF Sound, DecisionsAreBacked, IndependentlyVerified
<1> QED
  BY <1>2, WithAuditSound DEF Created, AuditActions, Subjects

\* A transition never verifies, and leaves evidence and decisions alone.
LEMMA TransitionedSound ==
  ASSUME NEW s, Sound(s), NEW a \in Actors, NEW to \in Statuses,
         CanTransition(s, to, a)
  PROVE  Sound(Transitioned(s, to, a))
<1> DEFINE t == [s EXCEPT !.status = to,
                          !.implementerId = IF to = "running" THEN a.id ELSE @]
<1>1. t \in Snapshots
  BY DEF Sound, Snapshots, Actors
<1>2. /\ t.status = to
      /\ t.evidence = s.evidence
      /\ t.decisions = s.decisions
  BY DEF Sound, Snapshots
<1>3. to # "verified"
  BY DEF CanTransition
<1>4. Sound(t)
  BY <1>1, <1>2, <1>3
  DEF Sound, DecisionsAreBacked, IndependentlyVerified, KnownIds
<1>5. to \in {"approved", "running", "failed", "blocked"}
  BY DEF CanTransition, AllowedTransitions, Sound, Snapshots, Statuses
<1>6. ActionFor(to) \in AuditActions /\ "-" \in Subjects
  BY <1>5 DEF ActionFor, AuditActions, Subjects
<1> HIDE DEF t
<1>7. Sound(WithAudit(t, a, ActionFor(to), "-"))
  BY <1>4, <1>6, WithAuditSound
<1> QED
  BY <1>7 DEF Transitioned, t

\* New evidence has a new identity, so no decision of before cites it.
LEMMA EvidenceRecordedSound ==
  ASSUME NEW s, Sound(s), NEW a \in Actors, NEW e \in Evidence,
         CanRecordEvidence(s, e)
  PROVE  Sound(EvidenceRecorded(s, e, a))
<1> DEFINE t == [s EXCEPT !.evidence = @ \cup {e}]
<1>1. t \in Snapshots
  BY DEF Sound, Snapshots
<1>2. /\ t.status = s.status
      /\ t.implementerId = s.implementerId
      /\ t.evidence = s.evidence \cup {e}
      /\ t.decisions = s.decisions
  BY DEF Sound, Snapshots
<1>3. DecisionsAreBacked(t)
  <2> SUFFICES ASSUME NEW i \in DOMAIN t.decisions
               PROVE  /\ t.decisions[i].evidenceIds # {}
                      /\ t.decisions[i].evidenceIds \subseteq KnownIds(t)
                      /\ t.decisions[i].status = "pass" =>
                           \A x \in t.evidence :
                             x.id \in t.decisions[i].evidenceIds => x.good
    BY DEF DecisionsAreBacked
  <2>1. /\ s.decisions[i].evidenceIds # {}
        /\ s.decisions[i].evidenceIds \subseteq KnownIds(s)
        /\ s.decisions[i].status = "pass" =>
             \A x \in s.evidence : x.id \in s.decisions[i].evidenceIds => x.good
    BY <1>2 DEF Sound, DecisionsAreBacked
  <2>2. e.id \notin s.decisions[i].evidenceIds
    BY <2>1 DEF CanRecordEvidence
  <2> QED
    BY <1>2, <2>1, <2>2 DEF KnownIds
<1>4. Sound(t)
  BY <1>1, <1>2, <1>3 DEF Sound, IndependentlyVerified
<1>5. e.id \in Subjects /\ "evidence.recorded" \in AuditActions
  BY DEF Evidence, Subjects, AuditActions
<1> HIDE DEF t
<1>6. Sound(WithAudit(t, a, "evidence.recorded", e.id))
  BY <1>4, <1>5, WithAuditSound
<1> QED
  BY <1>6 DEF EvidenceRecorded, t

\* An accepted decision is backed by the evidence known now; if it verifies
\* the order, it is itself the passing DONE decision of somebody else.
LEMMA DecidedSound ==
  ASSUME NEW s, Sound(s), NEW a \in Actors, NEW d \in Decisions,
         CanDecide(s, d, a)
  PROVE  Sound(Decided(s, d, a))
<1> DEFINE t == [s EXCEPT !.status = StatusAfterDecision(s, d),
                          !.decisions = Append(@, d)]
<1>1. StatusAfterDecision(s, d) \in Statuses
  BY DEF StatusAfterDecision, Statuses, Sound, Snapshots
<1>2. s.decisions \in Seq(Decisions)
  BY DEF Sound, Snapshots
<1>3. t \in Snapshots
  <2>1. Append(s.decisions, d) \in Seq(Decisions)
    BY <1>2
  <2> QED
    BY <1>1, <2>1 DEF Sound, Snapshots
<1>4. /\ t.status = StatusAfterDecision(s, d)
      /\ t.implementerId = s.implementerId
      /\ t.evidence = s.evidence
      /\ t.decisions = Append(s.decisions, d)
  BY DEF Sound, Snapshots
<1>5. /\ DOMAIN t.decisions = 1 .. Len(s.decisions) + 1
      /\ \A i \in DOMAIN s.decisions : t.decisions[i] = s.decisions[i]
      /\ DOMAIN s.decisions = 1 .. Len(s.decisions)
      /\ t.decisions[Len(s.decisions) + 1] = d
      /\ Len(s.decisions) \in Nat
  BY <1>2, <1>4
<1>6. DecisionsAreBacked(t)
  <2> SUFFICES ASSUME NEW i \in DOMAIN t.decisions
               PROVE  /\ t.decisions[i].evidenceIds # {}
                      /\ t.decisions[i].evidenceIds \subseteq KnownIds(t)
                      /\ t.decisions[i].status = "pass" =>
                           \A x \in t.evidence :
                             x.id \in t.decisions[i].evidenceIds => x.good
    BY DEF DecisionsAreBacked
  <2>1. CASE i \in DOMAIN s.decisions
    BY <1>4, <1>5, <2>1 DEF Sound, DecisionsAreBacked, KnownIds
  <2>2. CASE i = Len(s.decisions) + 1
    BY <1>4, <1>5, <2>2 DEF CanDecide, KnownIds, Selected
  <2> QED
    BY <1>5, <2>1, <2>2
<1>7. IndependentlyVerified(t)
  <2> SUFFICES ASSUME t.status = "verified"
               PROVE  \E i \in DOMAIN t.decisions :
                        /\ t.decisions[i].gate = "DONE"
                        /\ t.decisions[i].status = "pass"
                        /\ t.decisions[i].evaluatorId # t.implementerId
    BY DEF IndependentlyVerified
  <2>1. CASE d.status = "pass" /\ d.gate = "DONE"
    <3>1. d.evaluatorId # t.implementerId
      BY <1>4 DEF CanDecide
    <3>2. Len(s.decisions) + 1 \in DOMAIN t.decisions
      BY <1>5
    <3> QED
      BY <1>5, <2>1, <3>1, <3>2
  <2>2. CASE ~ (d.status = "pass" /\ d.gate = "DONE")
    <3>1. s.status = "verified"
      BY <1>4, <2>2 DEF StatusAfterDecision
    <3>2. PICK i \in DOMAIN s.decisions :
            /\ s.decisions[i].gate = "DONE"
            /\ s.decisions[i].status = "pass"
            /\ s.decisions[i].evaluatorId # s.implementerId
      BY <3>1 DEF Sound, IndependentlyVerified
    <3>3. i \in DOMAIN t.decisions /\ t.decisions[i] = s.decisions[i]
      BY <1>5
    <3> QED
      BY <1>4, <3>2, <3>3
  <2> QED
    BY <2>1, <2>2
<1>8. Sound(t)
  BY <1>3, <1>6, <1>7 DEF Sound
<1>9. /\ GateAction(d.status) \in AuditActions
      /\ d.gate \in Subjects
  BY DEF GateAction, Decisions, Verdicts, AuditActions, Subjects
<1> HIDE DEF t
<1>10. Sound(WithAudit(t, a, GateAction(d.status), d.gate))
  BY <1>8, <1>9, WithAuditSound
<1> QED
  BY <1>10 DEF Decided, t

\* The projection metadata says nothing about evidence or decisions.
LEMMA MetadataUpdatedSound ==
  ASSUME NEW s, Sound(s), NEW a \in Actors, NEW m \in Metadata
  PROVE  Sound(MetadataUpdated(s, m, a))
<1> DEFINE t == [s EXCEPT !.metadata = m]
<1>1. t \in Snapshots
  BY DEF Sound, Snapshots
<1>2. /\ t.status = s.status
      /\ t.implementerId = s.implementerId
      /\ t.evidence = s.evidence
      /\ t.decisions = s.decisions
  BY DEF Sound, Snapshots
<1>3. Sound(t)
  BY <1>1, <1>2 DEF Sound, DecisionsAreBacked, IndependentlyVerified, KnownIds
<1> HIDE DEF t
<1>4. Sound(WithAudit(t, a, "projection-metadata.updated", "-"))
  BY <1>3, WithAuditSound DEF AuditActions, Subjects
<1> QED
  BY <1>4 DEF MetadataUpdated, t

-----------------------------------------------------------------------------
(***************************************************************************)
(* The state machine.                                                      *)
(***************************************************************************)

\* The inductive invariant: a map from known ids to sound snapshots.
SoundInv ==
  /\ DOMAIN orders \subseteq Orders
  /\ orders = [o \in DOMAIN orders |-> orders[o]]
  /\ \A o \in DOMAIN orders : Sound(orders[o])

\* #save puts a sound snapshot in the place of a sound snapshot.
LEMMA SaveSound ==
  ASSUME SoundInv, NEW o \in DOMAIN orders, NEW s, Sound(s), Save(o, s)
  PROVE  SoundInv'
BY DEF SoundInv, Save

LEMMA SoundStep ==
  ASSUME SoundInv, [Next]_vars
  PROVE  SoundInv'
<1> USE CallersAreActors
<1>1. ASSUME NEW a \in Callers, NEW o \in Orders, NEW m \in Metadata,
             Create(o, m, a)
      PROVE  SoundInv'
  BY <1>1, CreatedSound DEF Create, SoundInv
<1>2. ASSUME NEW a \in Callers, NEW o \in Orders, NEW to \in Statuses,
             Transition(o, to, a)
      PROVE  SoundInv'
  BY <1>2, TransitionedSound, SaveSound DEF Transition, Open, SoundInv
<1>3. ASSUME NEW a \in Callers, NEW o \in Orders, NEW e \in Evidence,
             RecordEvidence(o, e, a)
      PROVE  SoundInv'
  BY <1>3, EvidenceRecordedSound, SaveSound DEF RecordEvidence, Open, SoundInv
<1>4. ASSUME NEW a \in Callers, NEW o \in Orders, NEW d \in Decisions,
             RecordGateDecision(o, d, a)
      PROVE  SoundInv'
  BY <1>4, DecidedSound, SaveSound DEF RecordGateDecision, Open, SoundInv
<1>5. ASSUME NEW a \in Callers, NEW o \in Orders, NEW m \in Metadata,
             UpdateProjectionMetadata(o, m, a)
      PROVE  SoundInv'
  BY <1>5, MetadataUpdatedSound, SaveSound DEF UpdateProjectionMetadata, Open, SoundInv
<1>6. CASE UNCHANGED vars
  BY <1>6 DEF vars, SoundInv
<1> QED
  BY <1>1, <1>2, <1>3, <1>4, <1>5, <1>6 DEF Next

LEMMA SoundAlways == Spec => []SoundInv
<1>1. Init => SoundInv
  BY DEF Init, SoundInv
<1> QED
  BY <1>1, SoundStep, PTL DEF Spec

\* The map always holds well-formed snapshots of known orders.
THEOREM TypeCorrect == Spec => []TypeOK
<1>1. SoundInv => TypeOK
  BY DEF SoundInv, Sound, TypeOK
<1> QED
  BY <1>1, SoundAlways, PTL

\* No decision is ever left without the evidence it cites, and no passing one
\* is contradicted by a bad record of the same identity.
THEOREM DecisionsStayBacked == Spec => []EvidenceBacksDecisions
<1>1. SoundInv => EvidenceBacksDecisions
  BY DEF SoundInv, Sound, EvidenceBacksDecisions
<1> QED
  BY <1>1, SoundAlways, PTL

\* A verified order has been judged DONE by someone other than its
\* implementer.
THEOREM VerifiedIsJudged == Spec => []VerifiedMeansJudged
<1>1. SoundInv => VerifiedMeansJudged
  BY DEF SoundInv, Sound, VerifiedMeansJudged
<1> QED
  BY <1>1, SoundAlways, PTL

-----------------------------------------------------------------------------
(***************************************************************************)
(* Replay is defined by recursion.  That a function with its equation      *)
(* exists, and that there is one only, are proved by a least               *)
(* counterexample.                                                         *)
(***************************************************************************)
\* f tells what is known after each of the first m entries.
Reads(f, audit, m) ==
  f = [n \in 0 .. m |-> IF n = 0 THEN Unknown ELSE Understood(f[n - 1], audit[n])]

\* A set of naturals that is not empty has a least element.
LEMMA LeastExists ==
  ASSUME NEW S \in SUBSET Nat, S # {}
  PROVE  \E n \in S : \A m \in S : n <= m
<1> DEFINE R == OpToRel(<, Nat)
<1>1. PICK n \in S : \A m \in S : <<m, n>> \notin R
  BY NatLessThanWellFounded, WFMin
<1>2. \A x, y \in Nat : x < y => <<x, y>> \in R
  BY Zenon DEF OpToRel
<1>3. ASSUME NEW m \in S PROVE n <= m
  <2>1. m \in Nat /\ n \in Nat
    OBVIOUS
  <2>2. ~(m < n)
    BY <1>1, <1>2, <2>1, Zenon
  <2> QED BY <2>1, <2>2
<1> QED BY <1>3

LEMMA AnyTrailIsRead ==
  ASSUME NEW audit, NEW m \in Nat
  PROVE  \E f : Reads(f, audit, m)
<1> DEFINE Bad == {n \in Nat : ~ \E f : Reads(f, audit, n)}
<1> SUFFICES ASSUME Bad # {} PROVE FALSE
  OBVIOUS
<1>1. PICK n \in Bad : \A k \in Bad : n <= k
  BY LeastExists
<1>2. CASE n = 0
  <2> DEFINE f == [k \in 0 .. 0 |-> Unknown]
  <2>1. Reads(f, audit, 0)
    BY DEF Reads
  <2> QED BY <1>1, <1>2, <2>1
<1>3. CASE n # 0
  <2>1. n - 1 \in Nat /\ n - 1 \notin Bad
    BY <1>1, <1>3
  <2>2. PICK f : Reads(f, audit, n - 1)
    BY <2>1
  <2> DEFINE g == [k \in 0 .. n |-> IF k = n THEN Understood(f[n - 1], audit[n]) ELSE f[k]]
  <2>3. \A k \in 0 .. n - 1 :
          f[k] = IF k = 0 THEN Unknown ELSE Understood(f[k - 1], audit[k])
    BY <2>2 DEF Reads
  <2>4. ASSUME NEW k \in 0 .. n
        PROVE  g[k] = IF k = 0 THEN Unknown ELSE Understood(g[k - 1], audit[k])
    <3>1. CASE k = n
      <4>1. g[k] = Understood(f[n - 1], audit[n])
        BY <3>1
      <4>2. n - 1 \in 0 .. n /\ n - 1 # n
        BY <2>1, <1>1
      <4>3. g[n - 1] = f[n - 1]
        BY <4>2
      <4> QED BY <4>1, <4>3, <3>1, <1>3
    <3>2. CASE k # n
      <4>1. k \in 0 .. n - 1
        BY <3>2, <1>1
      <4>2. g[k] = f[k]
        BY <3>2
      <4>3. k # 0 => k - 1 \in 0 .. n /\ k - 1 # n
        BY <4>1
      <4>4. k # 0 => g[k - 1] = f[k - 1]
        BY <4>3
      <4> QED BY <4>1, <4>2, <4>4, <2>3
    <3> QED BY <3>1, <3>2
  <2>5. g = [k \in 0 .. n |-> g[k]]
    OBVIOUS
  <2> HIDE DEF g
  <2>6. Reads(g, audit, n)
    BY <2>4, <2>5 DEF Reads
  <2> QED BY <2>6, <1>1
<1> QED BY <1>2, <1>3

\* Two trails that begin alike are understood alike so far.
LEMMA ReadAlike ==
  ASSUME NEW a, NEW b, NEW m \in Nat, NEW n \in Nat, m <= n,
         \A k \in 1 .. m : a[k] = b[k],
         NEW f, Reads(f, a, m), NEW g, Reads(g, b, n)
  PROVE  f[m] = g[m]
<1> DEFINE Bad == {k \in 0 .. m : f[k] # g[k]}
<1> SUFFICES ASSUME Bad # {} PROVE FALSE
  OBVIOUS
<1>1. PICK k \in Bad : \A i \in Bad : k <= i
  <2>1. Bad \in SUBSET Nat
    OBVIOUS
  <2> HIDE DEF Bad
  <2> QED BY <2>1, LeastExists
<1>2. /\ f[k] = IF k = 0 THEN Unknown ELSE Understood(f[k - 1], a[k])
      /\ g[k] = IF k = 0 THEN Unknown ELSE Understood(g[k - 1], b[k])
  <2>1. k \in 0 .. m /\ k \in 0 .. n
    OBVIOUS
  <2> QED BY <2>1 DEF Reads
<1>3. CASE k = 0
  BY <1>2, <1>3
<1>4. CASE k # 0
  <2>1. k - 1 \in 0 .. m /\ k - 1 \notin Bad
    BY <1>1, <1>4
  <2>2. f[k - 1] = g[k - 1] /\ a[k] = b[k]
    BY <2>1, <1>4
  <2> QED BY <1>2, <1>4, <2>2
<1> QED BY <1>3, <1>4

LEMMA ReplayReads ==
  ASSUME NEW audit, Len(audit) \in Nat
  PROVE  \E f : Reads(f, audit, Len(audit)) /\ Replay(audit) = f[Len(audit)]
<1> DEFINE f == CHOOSE g : g = [n \in 0 .. Len(audit) |->
                  IF n = 0 THEN Unknown ELSE Understood(g[n - 1], audit[n])]
<1>1. Replay(audit) = f[Len(audit)]
  BY DEF Replay
<1>2. \E g : Reads(g, audit, Len(audit))
  BY AnyTrailIsRead
<1>3. Reads(f, audit, Len(audit))
  BY <1>2 DEF Reads
<1> HIDE DEF f
<1> QED BY <1>1, <1>3

\* One more entry is understood after all the others.
LEMMA ReplayAppended ==
  ASSUME NEW audit \in Seq(AuditEntries), NEW e \in AuditEntries
  PROVE  Replay(Append(audit, e)) = Understood(Replay(audit), e)
<1> DEFINE n    == Len(audit)
           more == Append(audit, e)
<1>1. /\ n \in Nat /\ Len(more) = n + 1 /\ more[n + 1] = e
      /\ \A k \in 1 .. n : audit[k] = more[k]
  OBVIOUS
<1> HIDE DEF n, more
<1>2. PICK f : Reads(f, audit, n) /\ Replay(audit) = f[n]
  BY <1>1, ReplayReads DEF n
<1>3. PICK g : Reads(g, more, n + 1) /\ Replay(more) = g[n + 1]
  BY <1>1, ReplayReads
<1>4. f[n] = g[n]
  <2>1. n + 1 \in Nat /\ n <= n + 1
    BY <1>1
  <2> QED BY <1>1, <1>2, <1>3, <2>1, ReadAlike
<1>5. g[n + 1] = Understood(g[n], more[n + 1])
  <2>1. n + 1 \in 0 .. n + 1 /\ n + 1 # 0 /\ (n + 1) - 1 = n
    BY <1>1
  <2> QED BY <1>3, <2>1 DEF Reads
<1> QED BY <1>1, <1>2, <1>3, <1>4, <1>5 DEF more

LEMMA ReplayOfNothing == Replay(<< >>) = Unknown
<1>1. Len(<< >>) = 0
  OBVIOUS
<1>2. PICK f : Reads(f, << >>, Len(<< >>)) /\ Replay(<< >>) = f[Len(<< >>)]
  BY <1>1, ReplayReads
<1> QED BY <1>1, <1>2 DEF Reads

-----------------------------------------------------------------------------
(***************************************************************************)
(* The audit trail explains the order.                                     *)
(***************************************************************************)
Told(s)      == [status |-> s.status, implementerId |-> s.implementerId]
Explained(s) == Replay(s.audit) = Told(s)

\* The entry of an operation tells what the operation changed.
LEMMA WithAuditExplained ==
  ASSUME NEW s \in Snapshots, Explained(s), NEW t \in Snapshots, t.audit = s.audit,
         NEW a \in Actors, NEW action \in AuditActions, NEW subject \in Subjects,
         Understood(Told(s), Entry(a, action, subject)) = Told(t)
  PROVE  Explained(WithAudit(t, a, action, subject))
<1> DEFINE e == Entry(a, action, subject)
<1>1. e \in AuditEntries
  BY DEF Entry, AuditEntries, Actors, AuditActions, Subjects
<1>2. s.audit \in Seq(AuditEntries)
  BY DEF Snapshots
<1>3. /\ WithAudit(t, a, action, subject).audit = Append(s.audit, e)
      /\ Told(WithAudit(t, a, action, subject)) = Told(t)
  BY DEF WithAudit, Snapshots, Told
<1> HIDE DEF e
<1>4. Replay(Append(s.audit, e)) = Understood(Told(s), e)
  BY <1>1, <1>2, ReplayAppended DEF Explained
<1> QED BY <1>3, <1>4 DEF Explained, e

LEMMA CreatedExplained ==
  ASSUME NEW m \in Metadata, NEW a \in Actors
  PROVE  Explained(Created(m, a))
<1> DEFINE s == [status |-> "draft", implementerId |-> Nobody, metadata |-> m,
                 evidence |-> {}, decisions |-> << >>, audit |-> << >>]
           e == Entry(a, "work-order.created", "-")
<1>1. e \in AuditEntries /\ e.action = "work-order.created"
  BY DEF Entry, AuditEntries, Actors
<1>2. /\ Created(m, a).audit = Append(<< >>, e)
      /\ Told(Created(m, a)) = [status |-> "draft", implementerId |-> Nobody]
  BY DEF Created, WithAudit, Told
<1> HIDE DEF e
<1>3. << >> \in Seq(AuditEntries)
  OBVIOUS
<1>4. Replay(Append(<< >>, e)) = Understood(Unknown, e)
  BY <1>1, <1>3, ReplayAppended, ReplayOfNothing
<1>5. Understood(Unknown, e) = [status |-> "draft", implementerId |-> Nobody]
  BY <1>1 DEF Understood, Unknown
<1> QED BY <1>2, <1>4, <1>5 DEF Explained

LEMMA TransitionedExplained ==
  ASSUME NEW s \in Snapshots, Explained(s), NEW a \in Actors, NEW to \in Statuses,
         CanTransition(s, to, a)
  PROVE  Explained(Transitioned(s, to, a))
<1> DEFINE t == [s EXCEPT !.status = to,
                          !.implementerId = IF to = "running" THEN a.id ELSE @]
<1>1. t \in Snapshots /\ t.audit = s.audit
  BY DEF Snapshots, Actors
<1>2. /\ t.status = to
      /\ t.implementerId = IF to = "running" THEN a.id ELSE s.implementerId
  BY DEF Snapshots
<1>3. to \in {"approved", "running", "failed", "blocked"}
  BY DEF CanTransition, AllowedTransitions, Snapshots, Statuses
<1>4. ActionFor(to) \in AuditActions /\ "-" \in Subjects
  BY <1>3 DEF ActionFor, AuditActions, Subjects
<1> HIDE DEF t
<1>5. Understood(Told(s), Entry(a, ActionFor(to), "-")) = Told(t)
  BY <1>2, <1>3 DEF Understood, Told, Entry, ActionFor
<1>6. Explained(WithAudit(t, a, ActionFor(to), "-"))
  BY <1>1, <1>4, <1>5, WithAuditExplained
<1> QED BY <1>6 DEF Transitioned, t

LEMMA EvidenceRecordedExplained ==
  ASSUME NEW s \in Snapshots, Explained(s), NEW a \in Actors, NEW e \in Evidence
  PROVE  Explained(EvidenceRecorded(s, e, a))
<1> DEFINE t == [s EXCEPT !.evidence = @ \cup {e}]
<1>1. t \in Snapshots /\ t.audit = s.audit /\ Told(t) = Told(s)
  BY DEF Snapshots, Told
<1>2. e.id \in Subjects /\ "evidence.recorded" \in AuditActions
  BY DEF Evidence, Subjects, AuditActions
<1> HIDE DEF t
<1>3. Understood(Told(s), Entry(a, "evidence.recorded", e.id)) = Told(t)
  BY <1>1 DEF Understood, Entry
<1>4. Explained(WithAudit(t, a, "evidence.recorded", e.id))
  BY <1>1, <1>2, <1>3, WithAuditExplained
<1> QED BY <1>4 DEF EvidenceRecorded, t

\* A DONE pass verifies, any fail fails, and nothing else is told of a decision.
LEMMA DecidedExplained ==
  ASSUME NEW s \in Snapshots, Explained(s), NEW a \in Actors, NEW d \in Decisions
  PROVE  Explained(Decided(s, d, a))
<1> DEFINE t == [s EXCEPT !.status = StatusAfterDecision(s, d),
                          !.decisions = Append(@, d)]
<1>1. t \in Snapshots /\ t.audit = s.audit
  <2>1. StatusAfterDecision(s, d) \in Statuses
    BY DEF StatusAfterDecision, Statuses, Snapshots
  <2>2. Append(s.decisions, d) \in Seq(Decisions)
    BY DEF Snapshots
  <2> QED BY <2>1, <2>2 DEF Snapshots
<1>2. Told(t) = [status |-> StatusAfterDecision(s, d), implementerId |-> s.implementerId]
  BY DEF Snapshots, Told
<1>3. /\ GateAction(d.status) \in AuditActions
      /\ d.gate \in Subjects
  BY DEF GateAction, Decisions, Verdicts, AuditActions, Subjects
<1> HIDE DEF t
<1>4. Understood(Told(s), Entry(a, GateAction(d.status), d.gate)) = Told(t)
  <2>1. d.status \in {"pass", "fail", "blocked"} /\ d.gate \in {"REVIEW", "DONE"}
    BY DEF Decisions, Verdicts, Gates
  <2> QED BY <1>2, <2>1 DEF Understood, Told, Entry, GateAction, StatusAfterDecision
<1>5. Explained(WithAudit(t, a, GateAction(d.status), d.gate))
  BY <1>1, <1>3, <1>4, WithAuditExplained
<1> QED BY <1>5 DEF Decided, t

LEMMA MetadataUpdatedExplained ==
  ASSUME NEW s \in Snapshots, Explained(s), NEW a \in Actors, NEW m \in Metadata
  PROVE  Explained(MetadataUpdated(s, m, a))
<1> DEFINE t == [s EXCEPT !.metadata = m]
<1>1. t \in Snapshots /\ t.audit = s.audit /\ Told(t) = Told(s)
  BY DEF Snapshots, Told
<1> HIDE DEF t
<1>2. Understood(Told(s), Entry(a, "projection-metadata.updated", "-")) = Told(t)
  BY <1>1 DEF Understood, Entry
<1>3. Explained(WithAudit(t, a, "projection-metadata.updated", "-"))
  BY <1>1, <1>2, WithAuditExplained DEF AuditActions, Subjects
<1> QED BY <1>3 DEF MetadataUpdated, t

\* Whatever is saved is explained by its own trail.
AllExplained == \A o \in DOMAIN orders : Explained(orders[o])

LEMMA SaveExplained ==
  ASSUME AllExplained, NEW o \in DOMAIN orders, NEW s, Explained(s), Save(o, s)
  PROVE  AllExplained'
<1>1. DOMAIN orders' = DOMAIN orders /\ orders'[o] = s
  BY DEF Save
<1>2. \A x \in DOMAIN orders : x # o => orders'[x] = orders[x]
  BY DEF Save
<1>3. \A x \in DOMAIN orders : Explained(orders'[x])
  BY <1>1, <1>2 DEF AllExplained
<1> QED BY <1>1, <1>3 DEF AllExplained, Explained, Told

LEMMA ExplainedStep ==
  ASSUME SoundInv, AllExplained, [Next]_vars
  PROVE  AllExplained'
<1> USE CallersAreActors
<1>1. \A o \in DOMAIN orders : orders[o] \in Snapshots
  BY DEF SoundInv, Sound
<1>2. ASSUME NEW a \in Callers, NEW o \in Orders, NEW m \in Metadata,
             Create(o, m, a)
      PROVE  AllExplained'
  <2>1. Explained(Created(m, a))
    BY CreatedExplained
  <2>2. \A x \in DOMAIN orders' : Explained(orders'[x])
    BY <1>2, <2>1 DEF Create, AllExplained
  <2> QED BY <2>2 DEF AllExplained, Explained, Told
<1>3. ASSUME NEW a \in Callers, NEW o \in Orders, NEW to \in Statuses,
             Transition(o, to, a)
      PROVE  AllExplained'
  BY <1>1, <1>3, TransitionedExplained, SaveExplained DEF Transition, Open, AllExplained
<1>4. ASSUME NEW a \in Callers, NEW o \in Orders, NEW e \in Evidence,
             RecordEvidence(o, e, a)
      PROVE  AllExplained'
  BY <1>1, <1>4, EvidenceRecordedExplained, SaveExplained
     DEF RecordEvidence, Open, AllExplained
<1>5. ASSUME NEW a \in Callers, NEW o \in Orders, NEW d \in Decisions,
             RecordGateDecision(o, d, a)
      PROVE  AllExplained'
  BY <1>1, <1>5, DecidedExplained, SaveExplained
     DEF RecordGateDecision, Open, AllExplained
<1>6. ASSUME NEW a \in Callers, NEW o \in Orders, NEW m \in Metadata,
             UpdateProjectionMetadata(o, m, a)
      PROVE  AllExplained'
  BY <1>1, <1>6, MetadataUpdatedExplained, SaveExplained
     DEF UpdateProjectionMetadata, Open, AllExplained
<1>7. CASE UNCHANGED vars
  BY <1>7 DEF vars, AllExplained
<1> QED BY <1>2, <1>3, <1>4, <1>5, <1>6, <1>7 DEF Next

\* The audit trail of an order explains its status and its implementer, for
\* trails of any length: no operation changes either without the entry that
\* tells of it.
THEOREM AuditExplains == Spec => []AuditExplainsState
<1>1. Init => AllExplained
  BY DEF Init, AllExplained
<1>2. SoundInv /\ AllExplained => AuditExplainsState
  BY DEF AllExplained, Explained, Told, AuditExplainsState
<1>3. Init => SoundInv
  BY DEF Init, SoundInv
<1> QED BY <1>1, <1>2, <1>3, SoundStep, ExplainedStep, PTL DEF Spec
=============================================================================
