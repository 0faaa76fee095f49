--------------------------- MODULE TaskRecords_proofs ---------------------------
(***************************************************************************)
(* What the proofs about the workforce share: which records a queue can    *)
(* hold, that every operation lets a record grow, what a restart makes of  *)
(* it, whom a chain of checkpoints holds, and how some calls are counted.  *)
(***************************************************************************)
EXTENDS TaskRecords, Sequences, FiniteSets, FiniteSetTheorems, WellFoundedInduction, TLAPS

\* Of a stored record a restart can tell what it was: one that was ever
\* assigned has attempts, one that is queued has attempts left, and only one
\* that is completed has a completed result.
TaskFits(r) ==
  /\ r \in Records
  /\ r.stage # "queued" => r.attempts >= 1
  /\ r.stage = "queued" => r.attempts < MaxAttempts
  /\ r.stage = "completed" <=> r.result.status = "completed"
  /\ r.stage = "failed" => r.result.status \in Failures

QueueFits(q) == /\ q \in [DOMAIN q -> Records] /\ DOMAIN q \subseteq Tasks
                /\ \A t \in DOMAIN q : TaskFits(q[t])
\* A later queue has the tasks of an earlier one, with no fewer attempts, and
\* what was completed is completed with the same result.
Precedes(p, q) ==
  \A t \in DOMAIN p :
    /\ t \in DOMAIN q /\ p[t].attempts <= q[t].attempts
    /\ p[t].stage = "completed" =>
         q[t].stage = "completed" /\ q[t].result = p[t].result

-----------------------------------------------------------------------------
(***************************************************************************)
(* What a restart makes of a stored record.  Replayed is defined by        *)
(* recursion: the function of its equation is written down, and there is   *)
(* no other by a least counterexample.                                     *)
(***************************************************************************)
LEMMA LeastExists ==
  ASSUME NEW S \in SUBSET Nat, S # {}
  PROVE  \E n \in S : \A m \in S : n <= m
<1> DEFINE R == OpToRel(<, Nat)
<1>1. PICK n \in S : \A m \in S : <<m, n>> \notin R
  BY NatLessThanWellFounded, WFMin
<1>2. \A x, y \in Nat : x < y => <<x, y>> \in R
  BY Zenon DEF OpToRel
<1>3. ASSUME NEW m \in S PROVE n <= m
  <2>1. m \in Nat /\ n \in Nat
    OBVIOUS
  <2>2. ~(m < n)
    BY <1>1, <1>2, <2>1, Zenon
  <2> QED BY <2>1, <2>2
<1> QED BY <1>3

\* What the operations make of a record.
Row(s, k, x) == [stage |-> s, attempts |-> k, result |-> x]

LEMMA RecordIsRow ==
  ASSUME NEW r \in Records
  PROVE  r = Row(r.stage, r.attempts, r.result)
BY DEF Records, Row

LEMMA RowMoves ==
  ASSUME NEW s, NEW k, NEW x, NEW y
  PROVE  /\ Assigned(Row(s, k, x)) = Row("assigned", k + 1, x)
         /\ Started(Row(s, k, x)) = Row("running", k, x)
         /\ Completed(Row(s, k, x), y) = Row("completed", k, y)
         /\ Failed(Row(s, k, x), y) = Row("failed", k, y)
         /\ Requeued(Row(s, k, x)) = Row(IF k < MaxAttempts THEN "queued" ELSE s, k, x)
<1>1. /\ \A t : [Row(s, k, x) EXCEPT !.stage = t] = Row(t, k, x)
      /\ \A t, i : [Row(t, k, x) EXCEPT !.attempts = i] = Row(t, i, x)
      /\ \A t : [Row(t, k, x) EXCEPT !.result = y] = Row(t, k, y)
  BY DEF Row
<1>2. Row(s, k, x).attempts = k
  BY DEF Row
<1>3. /\ Assigned(Row(s, k, x)) = [[Row(s, k, x) EXCEPT !.stage = "assigned"] EXCEPT !.attempts = k + 1]
      /\ Completed(Row(s, k, x), y) = [[Row(s, k, x) EXCEPT !.stage = "completed"] EXCEPT !.result = y]
      /\ Failed(Row(s, k, x), y) = [[Row(s, k, x) EXCEPT !.stage = "failed"] EXCEPT !.result = y]
  BY DEF Assigned, Completed, Failed, Row
<1>4. /\ Started(Row(s, k, x)) = [Row(s, k, x) EXCEPT !.stage = "running"]
      /\ Requeued(Row(s, k, x)) =
           IF k < MaxAttempts THEN [Row(s, k, x) EXCEPT !.stage = "queued"] ELSE Row(s, k, x)
  BY <1>2 DEF Started, Requeued
<1> QED BY <1>1, <1>3, <1>4

\* The attempts before the last one all end as failures that are queued again.
Retried(k) == Row("queued", k, IF k = 0 THEN NoResult ELSE Failure("retriable"))

\* What a restart makes of a record, by the stage it was stored in.
Recovered(r) ==
  IF r.attempts = 0 THEN Enqueued
  ELSE IF r.stage \in {"completed", "failed"} THEN r
  ELSE Row(IF r.attempts < MaxAttempts THEN "queued" ELSE "failed",
           r.attempts, Failure("retriable"))

LEMMA TriedAgain ==
  ASSUME NEW k \in Nat, k # 0
  PROVE  \E x : Started(Assigned(Retried(k - 1))) = Row("running", k, x)
<1> DEFINE x == IF k - 1 = 0 THEN NoResult ELSE Failure("retriable")
<1>1. Assigned(Retried(k - 1)) = Row("assigned", (k - 1) + 1, x)
  BY RowMoves DEF Retried
<1>2. (k - 1) + 1 = k
  OBVIOUS
<1>3. Started(Row("assigned", k, x)) = Row("running", k, x)
  BY RowMoves
<1> QED BY <1>1, <1>2, <1>3

LEMMA RepeatedAgain ==
  ASSUME NEW r, TaskFits(r), NEW k \in Nat, k # 0, k < r.attempts
  PROVE  Repeated(Retried(k - 1), r, FALSE) = Retried(k)
<1>1. r.attempts <= MaxAttempts /\ r.attempts \in Nat /\ MaxAttempts \in Nat
  BY MaxAttemptsIsPositive DEF TaskFits, Records
<1> DEFINE again == Started(Assigned(Retried(k - 1)))
           ended == Row("failed", k, Failure("retriable"))
<1>2. PICK x : again = Row("running", k, x)
  BY TriedAgain
<1>3. Ended(again, r, FALSE) = ended
  <2> HIDE DEF again
  <2> QED BY <1>2, RowMoves DEF Ended
<1>4. Repeated(Retried(k - 1), r, FALSE) = Requeued(ended)
  <2>1. ended.stage = "failed"
    BY DEF Row
  <2> HIDE DEF ended
  <2> QED BY <1>3, <2>1 DEF Repeated
<1>5. Requeued(ended) = Row(IF k < MaxAttempts THEN "queued" ELSE "failed", k, Failure("retriable"))
  BY RowMoves
<1>6. (IF k < MaxAttempts THEN "queued" ELSE "failed") = "queued"
  BY <1>1
<1>7. Retried(k) = Row("queued", k, Failure("retriable"))
  BY DEF Retried
<1> QED BY <1>4, <1>5, <1>6, <1>7

LEMMA RepeatedAtLast ==
  ASSUME NEW r, TaskFits(r), r.attempts # 0
  PROVE  Repeated(Retried(r.attempts - 1), r, TRUE) = Recovered(r)
<1> DEFINE k     == r.attempts
           again == Started(Assigned(Retried(k - 1)))
<1>1. k <= MaxAttempts /\ k \in Nat /\ MaxAttempts \in Nat /\ k # 0
  BY MaxAttemptsIsPositive DEF TaskFits, Records
<1>2. PICK x : again = Row("running", k, x)
  BY <1>1, TriedAgain
<1> HIDE DEF again
<1>3. r = Row(r.stage, k, r.result)
  BY RecordIsRow DEF TaskFits
<1>4. Repeated(Retried(k - 1), r, TRUE) =
        IF Ended(again, r, TRUE).stage = "failed"
           /\ r.stage \in {"queued", "assigned", "running"}
        THEN Requeued(Ended(again, r, TRUE)) ELSE Ended(again, r, TRUE)
  BY DEF Repeated, again
<1>5. CASE r.stage = "completed"
  <2>1. Completed(again, r.result) = r
    BY <1>2, <1>3, <1>5, RowMoves
  <2>2. Ended(again, r, TRUE) = r
    BY <1>5, <2>1 DEF Ended
  <2> QED BY <1>1, <1>4, <1>5, <2>2 DEF Recovered
<1>6. CASE r.stage = "failed"
  <2>1. r.result # NoResult
    BY <1>6 DEF TaskFits, NoResult, Failures
  <2>2. Failed(again, r.result) = r
    BY <1>2, <1>3, <1>6, RowMoves
  <2>3. Ended(again, r, TRUE) = r
    BY <1>6, <2>1, <2>2 DEF Ended
  <2> QED BY <1>1, <1>4, <1>6, <2>3 DEF Recovered
<1>7. CASE r.stage \in {"queued", "assigned", "running"}
  <2> DEFINE ended == Row("failed", k, Failure("retriable"))
  <2>1. Failed(again, Failure("retriable")) = ended
    BY <1>2, RowMoves
  <2>2. Ended(again, r, TRUE) = ended
    BY <1>7, <2>1 DEF Ended
  <2>3. Requeued(ended) = Recovered(r)
    BY <1>1, <1>7, RowMoves DEF Recovered
  <2>4. ended.stage = "failed"
    BY DEF Row
  <2> HIDE DEF ended
  <2> QED BY <1>4, <1>7, <2>2, <2>3, <2>4
<1>8. r.stage \in Stages
  BY DEF TaskFits, Records
<1> QED BY <1>5, <1>6, <1>7, <1>8 DEF Stages

\* restoreTaskRecord, whatever the number of attempts it repeats.
LEMMA ReplayedIs ==
  ASSUME NEW r, TaskFits(r)
  PROVE  Replayed(r) = Recovered(r)
<1> DEFINE n    == r.attempts
           g(k) == IF k = n THEN Recovered(r) ELSE Retried(k)
           f    == CHOOSE h : h = [k \in 0 .. n |->
                     IF k = 0 THEN Enqueued ELSE Repeated(h[k - 1], r, k = r.attempts)]
<1>1. n \in Nat
  BY MaxAttemptsIsPositive DEF TaskFits, Records
<1>2. Replayed(r) = f[n]
  BY DEF Replayed
<1>3. g(0) = Enqueued
  BY DEF Enqueued, Retried, Recovered, Row
<1>4. ASSUME NEW k \in 1 .. n PROVE g(k) = Repeated(g(k - 1), r, k = n)
  <2>1. k \in Nat /\ k # 0 /\ k - 1 # n /\ g(k - 1) = Retried(k - 1)
    BY <1>1
  <2>2. CASE k = n
    BY <1>1, <2>1, <2>2, RepeatedAtLast
  <2>3. CASE k # n
    <3>1. k < r.attempts /\ (k = n) = FALSE
      BY <1>1, <2>1, <2>3
    <3>2. Repeated(Retried(k - 1), r, FALSE) = Retried(k)
      BY <2>1, <3>1, RepeatedAgain
    <3> QED BY <2>1, <3>1, <3>2, <2>3
  <2> QED BY <2>2, <2>3
<1> DEFINE G == [k \in 0 .. n |-> g(k)]
<1> HIDE DEF g
<1>5. G = [k \in 0 .. n |-> IF k = 0 THEN Enqueued ELSE Repeated(G[k - 1], r, k = r.attempts)]
  <2>1. ASSUME NEW k \in 0 .. n
        PROVE  G[k] = IF k = 0 THEN Enqueued ELSE Repeated(G[k - 1], r, k = r.attempts)
    <3>1. k # 0 => k \in 1 .. n /\ k - 1 \in 0 .. n
      BY <1>1
    <3>2. G[k] = g(k) /\ (k # 0 => G[k - 1] = g(k - 1))
      BY <3>1
    <3> QED BY <3>1, <3>2, <1>3, <1>4
  <2> QED BY <2>1
<1>6. f = [k \in 0 .. n |-> IF k = 0 THEN Enqueued ELSE Repeated(f[k - 1], r, k = r.attempts)]
  BY <1>5
<1> HIDE DEF f
<1>7. \A k \in 0 .. n : f[k] = G[k]
  <2> DEFINE Bad == {k \in 0 .. n : f[k] # G[k]}
  <2> SUFFICES ASSUME Bad # {} PROVE FALSE
    OBVIOUS
  <2>1. PICK k \in Bad : \A i \in Bad : k <= i
    <3>1. Bad \in SUBSET Nat
      OBVIOUS
    <3> HIDE DEF Bad
    <3> QED BY <3>1, LeastExists
  <2>2. /\ f[k] = IF k = 0 THEN Enqueued ELSE Repeated(f[k - 1], r, k = r.attempts)
        /\ G[k] = IF k = 0 THEN Enqueued ELSE Repeated(G[k - 1], r, k = r.attempts)
    <3>1. k \in 0 .. n
      OBVIOUS
    <3> HIDE DEF G
    <3> QED BY <3>1, <1>5, <1>6
  <2>3. k # 0 => f[k - 1] = G[k - 1]
    <3>1. k # 0 => k - 1 \in 0 .. n /\ k - 1 \notin Bad
      BY <2>1, <1>1
    <3> QED BY <3>1
  <2> QED BY <2>2, <2>3
<1>8. G[n] = g(n) /\ n \in 0 .. n
  BY <1>1
<1> QED BY <1>2, <1>7, <1>8 DEF g

-----------------------------------------------------------------------------
(***************************************************************************)
(* The operations on a record, and on the queue.                           *)
(***************************************************************************)
Grown(r, s) == /\ TaskFits(s) /\ r.stage # "completed"
               /\ s.attempts >= r.attempts

LEMMA RowFields ==
  ASSUME NEW s, NEW k, NEW x
  PROVE  Row(s, k, x).stage = s /\ Row(s, k, x).attempts = k /\ Row(s, k, x).result = x
BY DEF Row

LEMMA RowFits ==
  ASSUME NEW s \in Stages, NEW k \in 0 .. MaxAttempts, NEW x \in Results,
         s # "queued" => k >= 1, s = "queued" => k < MaxAttempts,
         s = "completed" <=> x.status = "completed", s = "failed" => x.status \in Failures
  PROVE  TaskFits(Row(s, k, x))
BY DEF TaskFits, Row, Records

LEMMA AssignGrows ==
  ASSUME NEW r, TaskFits(r), CanAssign(r)
  PROVE  /\ Grown(r, Assigned(r)) /\ Grown(r, Started(Assigned(r)))
         /\ Assigned(r).stage = "assigned" /\ Started(Assigned(r)).stage = "running"
         /\ Started(Assigned(r)).attempts = r.attempts + 1
<1>1. /\ r = Row(r.stage, r.attempts, r.result) /\ r.result \in Results
      /\ r.attempts \in 0 .. MaxAttempts /\ MaxAttempts \in Nat
  BY RecordIsRow, MaxAttemptsIsPositive DEF TaskFits, Records
<1>2. r.attempts < MaxAttempts /\ r.stage \in {"queued", "failed"}
  BY DEF CanAssign
<1>3. r.attempts + 1 \in 0 .. MaxAttempts /\ r.attempts + 1 >= 1
  BY <1>1, <1>2
<1>4. r.result.status # "completed"
  BY <1>2 DEF TaskFits
<1>5. /\ Assigned(r) = Row("assigned", r.attempts + 1, r.result)
      /\ Started(Assigned(r)) = Row("running", r.attempts + 1, r.result)
  <2>1. Assigned(r) = Row("assigned", r.attempts + 1, r.result)
    BY <1>1, RowMoves
  <2>2. Started(Row("assigned", r.attempts + 1, r.result)) = Row("running", r.attempts + 1, r.result)
    BY RowMoves
  <2> QED BY <2>1, <2>2
<1>6. TaskFits(Row("assigned", r.attempts + 1, r.result))
  BY <1>1, <1>3, <1>4, RowFits DEF Stages
<1>7. TaskFits(Row("running", r.attempts + 1, r.result))
  BY <1>1, <1>3, <1>4, RowFits DEF Stages
<1>8. r.attempts + 1 >= r.attempts
  BY <1>1
<1> QED BY <1>2, <1>5, <1>6, <1>7, <1>8, RowFields DEF Grown

LEMMA FinishGrows ==
  ASSUME NEW r, TaskFits(r), CanFinish(r)
  PROVE  /\ \A e \in Employees : /\ Grown(r, Completed(r, Success(e)))
                                 /\ Completed(r, Success(e)).stage = "completed"
                                 /\ Completed(r, Success(e)).result = Success(e)
         /\ \A s \in Failures : /\ Grown(r, Failed(r, Failure(s)))
                                /\ Failed(r, Failure(s)).stage = "failed"
<1>1. /\ r = Row(r.stage, r.attempts, r.result)
      /\ r.attempts \in 0 .. MaxAttempts /\ MaxAttempts \in Nat
  BY RecordIsRow, MaxAttemptsIsPositive DEF TaskFits, Records
<1>2. r.stage = "running" /\ r.attempts >= 1
  BY DEF CanFinish, TaskFits
<1>3. ASSUME NEW e \in Employees
      PROVE  /\ Grown(r, Completed(r, Success(e)))
             /\ Completed(r, Success(e)).stage = "completed"
             /\ Completed(r, Success(e)).result = Success(e)
  <2>1. Success(e) \in Results /\ Success(e).status = "completed"
    BY DEF Success, Results
  <2>2. Completed(r, Success(e)) = Row("completed", r.attempts, Success(e))
    BY <1>1, RowMoves
  <2>3. TaskFits(Row("completed", r.attempts, Success(e)))
    BY <1>1, <1>2, <2>1, RowFits DEF Stages
  <2> QED BY <1>1, <1>2, <2>2, <2>3, RowFields DEF Grown
<1>4. ASSUME NEW s \in Failures
      PROVE  Grown(r, Failed(r, Failure(s))) /\ Failed(r, Failure(s)).stage = "failed"
  <2>1. Failure(s) \in Results /\ Failure(s).status \in Failures /\ Failure(s).status # "completed"
    BY DEF Failure, Results, Failures
  <2>2. Failed(r, Failure(s)) = Row("failed", r.attempts, Failure(s))
    BY <1>1, RowMoves
  <2>3. TaskFits(Row("failed", r.attempts, Failure(s)))
    BY <1>1, <1>2, <2>1, RowFits DEF Stages
  <2> QED BY <1>1, <1>2, <2>2, <2>3, RowFields DEF Grown
<1> QED BY <1>3, <1>4

LEMMA RequeueGrows ==
  ASSUME NEW r, TaskFits(r), CanRequeue(r)
  PROVE  Grown(r, Requeued(r)) /\ Requeued(r).stage \in {"queued", "failed"}
<1>1. /\ r = Row(r.stage, r.attempts, r.result) /\ r.result \in Results
      /\ r.attempts \in 0 .. MaxAttempts /\ MaxAttempts \in Nat
  BY RecordIsRow, MaxAttemptsIsPositive DEF TaskFits, Records
<1>2. r.stage = "failed" /\ r.result.status # "completed"
  BY DEF CanRequeue, TaskFits
<1>3. CASE r.attempts < MaxAttempts
  <2>1. Requeued(r) = Row("queued", r.attempts, r.result)
    BY <1>1, <1>3, RowMoves
  <2>2. TaskFits(Row("queued", r.attempts, r.result))
    BY <1>1, <1>2, <1>3, RowFits DEF Stages
  <2> QED BY <1>1, <1>2, <2>1, <2>2, RowFields DEF Grown
<1>4. CASE ~(r.attempts < MaxAttempts)
  <2>1. Requeued(r) = r
    BY <1>4 DEF Requeued
  <2> QED BY <1>1, <1>2, <2>1 DEF Grown
<1> QED BY <1>3, <1>4

LEMMA PrecedesItself == ASSUME NEW q, QueueFits(q) PROVE Precedes(q, q)
BY DEF QueueFits, Precedes, Records

LEMMA PrecedesOn ==
  ASSUME NEW p, NEW q, NEW r, QueueFits(p), QueueFits(q), QueueFits(r),
         Precedes(p, q), Precedes(q, r)
  PROVE  Precedes(p, r)
<1> SUFFICES ASSUME NEW t \in DOMAIN p
    PROVE  /\ t \in DOMAIN r /\ p[t].attempts <= r[t].attempts
           /\ p[t].stage = "completed" =>
                r[t].stage = "completed" /\ r[t].result = p[t].result
  BY DEF Precedes
<1>1. t \in DOMAIN q /\ t \in DOMAIN r
  BY DEF Precedes
<1>2. p[t].attempts \in Nat /\ q[t].attempts \in Nat /\ r[t].attempts \in Nat
  BY <1>1, MaxAttemptsIsPositive DEF QueueFits, Records
<1> QED BY <1>1, <1>2 DEF Precedes

LEMMA QueueGrows ==
  ASSUME NEW q, QueueFits(q), NEW t \in DOMAIN q, NEW r, Grown(q[t], r)
  PROVE  LET p == [q EXCEPT ![t] = r] IN
         /\ QueueFits(p) /\ Precedes(q, p) /\ DOMAIN p = DOMAIN q
         /\ p[t] = r /\ \A u \in DOMAIN q : u # t => p[u] = q[u]
<1> DEFINE p == [q EXCEPT ![t] = r]
<1>1. r \in Records /\ TaskFits(r)
  BY DEF Grown, TaskFits
<1>2. /\ DOMAIN p = DOMAIN q /\ p \in [DOMAIN q -> Records]
      /\ p[t] = r /\ \A u \in DOMAIN q : u # t => p[u] = q[u]
  BY <1>1 DEF QueueFits
<1> HIDE DEF p
<1>3. QueueFits(p)
  BY <1>1, <1>2 DEF QueueFits
<1>4. ASSUME NEW u \in DOMAIN q
      PROVE  /\ q[u].attempts <= p[u].attempts
             /\ q[u].stage = "completed" =>
                  p[u].stage = "completed" /\ p[u].result = q[u].result
  <2>1. CASE u = t
    BY <1>2, <2>1 DEF Grown, QueueFits, Records
  <2>2. CASE u # t
    BY <1>2, <2>2 DEF QueueFits, Records
  <2> QED BY <2>1, <2>2
<1> QED BY <1>2, <1>3, <1>4 DEF Precedes, p

\* A restart makes a record of the stored one that is neither assigned nor
\* running, with the attempts and, if there was one, the outcome it had.
LEMMA RecoveredFits ==
  ASSUME NEW r, TaskFits(r)
  PROVE  /\ TaskFits(Recovered(r)) /\ Recovered(r).attempts = r.attempts
         /\ r.stage \in {"completed", "failed"} =>
              Recovered(r).stage = r.stage /\ Recovered(r).result = r.result
         /\ r.stage \notin {"completed", "failed"} =>
              Recovered(r).stage = IF r.attempts < MaxAttempts THEN "queued" ELSE "failed"
<1>1. /\ r.attempts \in 0 .. MaxAttempts /\ MaxAttempts \in Nat /\ MaxAttempts > 0
      /\ r.stage \in Stages
  BY MaxAttemptsIsPositive DEF TaskFits, Records
<1>2. CASE r.attempts = 0
  <2>1. Recovered(r) = Row("queued", 0, NoResult)
    BY <1>2 DEF Recovered, Enqueued, Row
  <2>2. NoResult \in Results /\ NoResult.status # "completed"
    BY DEF NoResult, Results
  <2>3. TaskFits(Row("queued", 0, NoResult))
    BY <1>1, <2>2, RowFits DEF Stages
  <2>4. r.stage = "queued"
    BY <1>2 DEF TaskFits
  <2> QED BY <1>1, <1>2, <2>1, <2>3, <2>4, RowFields
<1>3. CASE r.attempts # 0 /\ r.stage \in {"completed", "failed"}
  BY <1>3 DEF Recovered
<1>4. CASE r.attempts # 0 /\ r.stage \notin {"completed", "failed"}
  <2> DEFINE s == IF r.attempts < MaxAttempts THEN "queued" ELSE "failed"
             x == Failure("retriable")
  <2>1. Recovered(r) = Row(s, r.attempts, x)
    BY <1>4 DEF Recovered
  <2>2. x \in Results /\ x.status \in Failures /\ x.status # "completed"
    BY DEF Failure, Results, Failures
  <2>3. s \in Stages /\ s # "completed" /\ (s = "queued" => r.attempts < MaxAttempts)
    BY DEF Stages
  <2> HIDE DEF x
  <2>4. TaskFits(Row(s, r.attempts, x))
    BY <1>1, <1>4, <2>2, <2>3, RowFits
  <2> QED BY <1>4, <2>1, <2>4, RowFields
<1> QED BY <1>2, <1>3, <1>4

\* A restart makes a queue of the stored one.
LEMMA QueueRecovers ==
  ASSUME NEW s, QueueFits(s), NEW q, q = [t \in DOMAIN s |-> Replayed(s[t])]
  PROVE  /\ DOMAIN q = DOMAIN s /\ QueueFits(q) /\ Precedes(s, q)
         /\ \A t \in DOMAIN s : TaskFits(s[t]) /\ q[t] = Recovered(s[t])
<1>1. \A t \in DOMAIN s : TaskFits(s[t])
  BY DEF QueueFits
<1>2. \A t \in DOMAIN s : q[t] = Recovered(s[t])
  BY <1>1, ReplayedIs
<1>3. \A t \in DOMAIN s : TaskFits(q[t]) /\ q[t] \in Records
  BY <1>1, <1>2, RecoveredFits DEF TaskFits
<1>4. QueueFits(q)
  BY <1>3 DEF QueueFits
<1>5. ASSUME NEW t \in DOMAIN s
      PROVE  /\ t \in DOMAIN q /\ s[t].attempts <= q[t].attempts
             /\ s[t].stage = "completed" =>
                  q[t].stage = "completed" /\ q[t].result = s[t].result
  <2>1. s[t].attempts \in Nat
    BY <1>1, MaxAttemptsIsPositive DEF TaskFits, Records
  <2> QED BY <1>1, <1>2, <2>1, RecoveredFits
<1> QED BY <1>1, <1>2, <1>4, <1>5 DEF Precedes

\* The attempts of a task, if it is there.
Attempts(q, t) == IF t \in DOMAIN q THEN q[t].attempts ELSE 0

LEMMA AttemptsGrow ==
  ASSUME NEW p, NEW q, QueueFits(p), QueueFits(q), Precedes(p, q), NEW t
  PROVE  /\ Attempts(p, t) \in Nat /\ Attempts(q, t) \in Nat
         /\ Attempts(p, t) <= Attempts(q, t)
         /\ Attempts(q, t) <= MaxAttempts
BY MaxAttemptsIsPositive DEF Attempts, Precedes, QueueFits, Records

-----------------------------------------------------------------------------
(***************************************************************************)
(* The chain of checkpoints, as a sequence in which a call waits once.     *)
(***************************************************************************)
InLine(s, c) == \E i \in DOMAIN s : s[i] = c
Once(s, C)  == \A i, j \in DOMAIN s : s[i] = s[j] /\ s[i] \in C => i = j

LEMMA Appended ==
  ASSUME NEW S, NEW C, NEW s \in Seq(S), NEW x \in S,
         Once(s, C), x \in C => ~InLine(s, x)
  PROVE  LET r == Append(s, x) IN
         /\ r \in Seq(S) /\ r # << >> /\ Once(r, C)
         /\ \A d : InLine(r, d) <=> InLine(s, d) \/ d = x
         /\ s # << >> => Head(r) = Head(s)
<1> DEFINE n == Len(s)
<1>0. PICK r : r = Append(s, x)
  OBVIOUS
<1>1. /\ r \in Seq(S) /\ r # << >> /\ n \in Nat
      /\ DOMAIN s = 1 .. n /\ DOMAIN r = 1 .. n + 1 /\ r[n + 1] = x
      /\ \A i \in DOMAIN s : r[i] = s[i]
      /\ s # << >> => Head(r) = Head(s)
  BY <1>0
<1> HIDE DEF n
<1>2. \A i \in DOMAIN r : i \in DOMAIN s \/ i = n + 1
  BY <1>1
<1>3. DOMAIN s \subseteq DOMAIN r /\ n + 1 \in DOMAIN r
  BY <1>1
<1>4. \A d : InLine(r, d) <=> InLine(s, d) \/ d = x
  BY <1>1, <1>2, <1>3 DEF InLine
<1>5. Once(r, C)
  BY <1>1, <1>2 DEF Once, InLine
<1> QED BY <1>0, <1>1, <1>4, <1>5

LEMMA Removed ==
  ASSUME NEW S, NEW C, NEW s \in Seq(S), s # << >>, Once(s, C)
  PROVE  LET r == Tail(s) IN
         /\ r \in Seq(S) /\ Once(r, C) /\ InLine(s, Head(s))
         /\ \A d \in C : InLine(r, d) <=> InLine(s, d) /\ d # Head(s)
<1> DEFINE n == Len(s)
           r == Tail(s)
<1>1. /\ r \in Seq(S) /\ n \in Nat /\ n # 0 /\ DOMAIN s = 1 .. n /\ Head(s) = s[1]
      /\ Len(r) = n - 1 /\ DOMAIN r = 1 .. n - 1 /\ \A i \in 1 .. n - 1 : r[i] = s[i + 1]
  OBVIOUS
<1> HIDE DEF n, r
<1>2. InLine(s, Head(s))
  BY <1>1 DEF InLine
<1>3. ASSUME NEW d \in C PROVE InLine(r, d) <=> InLine(s, d) /\ d # Head(s)
  <2>1. ASSUME InLine(r, d) PROVE InLine(s, d) /\ d # Head(s)
    <3>1. PICK i \in 1 .. n - 1 : r[i] = d
      BY <1>1, <2>1 DEF InLine
    <3>2. s[i + 1] = d /\ i + 1 \in 1 .. n /\ 1 \in 1 .. n /\ i + 1 # 1
      BY <1>1, <3>1
    <3> QED BY <1>1, <3>2 DEF Once, InLine
  <2>2. ASSUME InLine(s, d), d # Head(s) PROVE InLine(r, d)
    <3>1. PICK i \in 1 .. n : s[i] = d
      BY <1>1, <2>2 DEF InLine
    <3>2. i # 1
      BY <1>1, <2>2, <3>1
    <3>3. i - 1 \in 1 .. n - 1 /\ (i - 1) + 1 = i
      BY <1>1, <3>1, <3>2
    <3> QED BY <1>1, <3>1, <3>3 DEF InLine
  <2> QED BY <2>1, <2>2
<1>4. ASSUME NEW i \in DOMAIN r, NEW j \in DOMAIN r, r[i] = r[j], r[i] \in C
      PROVE  i = j
  <2>1. /\ i + 1 \in DOMAIN s /\ j + 1 \in DOMAIN s /\ r[i] = s[i + 1] /\ r[j] = s[j + 1]
    BY <1>1
  <2>2. i + 1 = j + 1
    BY <1>4, <2>1 DEF Once
  <2> QED BY <1>1, <2>2
<1> QED BY <1>1, <1>2, <1>3, <1>4 DEF Once, r

-----------------------------------------------------------------------------
(***************************************************************************)
(* Counting some of finitely many calls, or tasks.                         *)
(***************************************************************************)
LEMMA SomeOf ==
  ASSUME NEW S, IsFiniteSet(S), NEW T \in SUBSET S
  PROVE  /\ IsFiniteSet(T) /\ Cardinality(S) \in Nat /\ Cardinality(T) \in Nat
         /\ Cardinality(T) <= Cardinality(S)
BY FS_Subset, FS_CardinalityType

LEMMA OneLessOf ==
  ASSUME NEW S, IsFiniteSet(S), NEW c \in S, NEW T \in SUBSET S, c \notin T
  PROVE  Cardinality(T) \in Nat /\ Cardinality(T) + 1 <= Cardinality(S)
<1>1. T \in SUBSET (S \ {c}) /\ IsFiniteSet(S \ {c})
  BY FS_RemoveElement
<1>2. Cardinality(S \ {c}) = Cardinality(S) - 1 /\ Cardinality(S) \in Nat
  BY FS_RemoveElement, FS_CardinalityType
<1>3. Cardinality(T) \in Nat /\ Cardinality(T) <= Cardinality(S \ {c})
  BY <1>1, SomeOf
<1> QED BY <1>2, <1>3

LEMMA OneMoreOf ==
  ASSUME NEW S, IsFiniteSet(S), NEW c, NEW T \in SUBSET (S \cup {c})
  PROVE  Cardinality(S) \in Nat /\ Cardinality(T) \in Nat /\ Cardinality(T) <= Cardinality(S) + 1
<1>1. IsFiniteSet(S \cup {c}) /\ Cardinality(S) \in Nat
      /\ Cardinality(S \cup {c}) <= Cardinality(S) + 1
  BY FS_AddElement, FS_CardinalityType
<1>2. Cardinality(T) \in Nat /\ Cardinality(T) <= Cardinality(S \cup {c}) /\ Cardinality(S \cup {c}) \in Nat
  BY <1>1, SomeOf
<1> QED BY <1>1, <1>2
=============================================================================
