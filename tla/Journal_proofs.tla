--------------------------- MODULE Journal_proofs ---------------------------
(***************************************************************************)
(* The journal and the control plane that is kept in it.  Of FileJournal, for *)
(* any writers and streams, any places where a write may stop and any length *)
(* of the file: its lock, its order, and that it implements VersionedLog.  Of *)
(* DurableControlPlane, for any people, orders, evidence ids, metadata and *)
(* clients: each stored snapshot is one operation of the control plane in  *)
(* memory, what a caller was told stays in the journal, and it can be      *)
(* relied on.                                                              *)
(***************************************************************************)
EXTENDS FileJournal, DurableControlPlane, FiniteSetTheorems, TLAPS

\* The last line is two entries in one: nothing is ever written after it.
Ruined == file # << >> /\ file[Len(file)].form = "merged"

Kept(hash) == hash[2] \in DOMAIN file /\ Hash(file[hash[2]]) = hash

(***************************************************************************)
(* What a writer between its awaits relies on: while it holds the lock,    *)
(* nobody else writes, so what it read and what it wrote are still there.  *)
(***************************************************************************)
WriterKnows(w) ==
  /\ pc[w] = "writing" =>
       /\ Readable(file)
       /\ draft[w] = Built(w)
       /\ StreamLength(file, request[w].streamId) = request[w].expectedVersion
  /\ pc[w] = "finishing" =>
       /\ file # << >>
       /\ Ruined \/ Hash(file[Len(file)]) = Hash(draft[w])
  /\ pc[w] = "flushing" \/ (pc[w] = "closing" /\ answer[w] = "ok") =>
       /\ draft[w] \in Lines
       /\ Ruined \/ Kept(Hash(draft[w]))

NothingLost == Ruined \/ \A h \in acked : Kept(h)

Ordered(lines) == \A i \in 1 .. Len(lines) : InOrder(lines, i)

JournalInv ==
  /\ TypeOK
  /\ LockExcludes
  /\ LockHasAnOwner
  /\ Ordered(file)
  /\ \A w \in Writers : WriterKnows(w)
  /\ NothingLost

-----------------------------------------------------------------------------
(***************************************************************************)
(* The two ways a file changes.                                            *)
(***************************************************************************)
Forms == {"ok", "cut", "open", "merged"}

\* What a line says of itself, whatever its form.
SameEntry(x, y) ==
  /\ x.sequence = y.sequence
  /\ x.streamId = y.streamId
  /\ x.version = y.version
  /\ x.previousHash = y.previousHash
  /\ x.writer = y.writer

\* Whether a line is in order depends on the entries up to it, and its form.
LEMMA OrderKept ==
  ASSUME NEW a \in Seq(Lines), NEW b \in Seq(Lines),
         NEW i \in 1 .. Len(a), i \in 1 .. Len(b), InOrder(a, i),
         \A j \in 1 .. i : SameEntry(b[j], a[j]),
         i < Len(b) => b[i].form = "ok"
  PROVE  InOrder(b, i)
<1>1. i \in 1 .. i /\ i \in Nat \ {0} /\ (i # 1 => i - 1 \in 1 .. i)
  OBVIOUS
<1>2. SameEntry(b[i], a[i])
  BY <1>1
<1>3. i # 1 => Hash(b[i - 1]) = Hash(a[i - 1])
  BY <1>1 DEF SameEntry, Hash
<1>4. \A j \in 1 .. i - 1 : b[j].streamId = a[j].streamId
  BY <1>1 DEF SameEntry
<1>5. Earlier(b, i) = Earlier(a, i)
  BY <1>2, <1>4 DEF Earlier, SameEntry
<1> QED
  BY <1>2, <1>3, <1>5 DEF InOrder, SameEntry

\* The form of the last line changes: every line keeps its place and entry.
LEMMA FormChanged ==
  ASSUME NEW a \in Seq(Lines), a # << >>, Ordered(a), NEW f \in Forms,
         NEW b, b = [a EXCEPT ![Len(a)].form = f]
  PROVE  /\ b \in Seq(Lines)
         /\ Len(b) = Len(a)
         /\ \A i \in 1 .. Len(a) : SameEntry(b[i], a[i])
         /\ b[Len(a)].form = f
         /\ Ordered(b)
<1>1. Len(a) \in Nat \ {0} /\ Len(a) \in 1 .. Len(a)
  OBVIOUS
<1>2. \A i \in 1 .. Len(a) : a[i] \in Lines
  OBVIOUS
<1> DEFINE last == [a[Len(a)] EXCEPT !.form = f]
<1>3. b = [a EXCEPT ![Len(a)] = last]
  OBVIOUS
<1>4. last \in Lines /\ SameEntry(last, a[Len(a)]) /\ last.form = f
  BY <1>1, <1>2 DEF Lines, Forms, SameEntry
<1> HIDE DEF last
<1>5. /\ b \in Seq(Lines)
      /\ Len(b) = Len(a)
      /\ \A i \in 1 .. Len(a) : b[i] = IF i = Len(a) THEN last ELSE a[i]
  BY <1>1, <1>2, <1>3, <1>4
<1>6. \A i \in 1 .. Len(a) : SameEntry(b[i], a[i])
  BY <1>4, <1>5 DEF SameEntry
<1>7. ASSUME NEW i \in 1 .. Len(b) PROVE InOrder(b, i)
  <2>1. i \in 1 .. Len(a) /\ InOrder(a, i)
    BY <1>5 DEF Ordered
  <2>2. i < Len(b) => b[i].form = "ok"
    BY <1>1, <1>5, <2>1 DEF InOrder
  <2>3. \A j \in 1 .. i : SameEntry(b[j], a[j])
    BY <1>1, <1>6, <2>1
  <2> QED
    BY <1>5, <2>1, <2>2, <2>3, OrderKept
<1>8. b[Len(a)].form = f
  BY <1>1, <1>4, <1>5
<1> QED
  BY <1>5, <1>6, <1>7, <1>8 DEF Ordered

\* A line with the entry that comes next is appended to a readable file.
LEMMA LineAppended ==
  ASSUME NEW a \in Seq(Lines), Ordered(a), NEW line \in Lines,
         \A i \in 1 .. Len(a) : a[i].form = "ok",
         line.sequence = Len(a) + 1,
         line.previousHash = IF a = << >> THEN NoHash ELSE Hash(a[Len(a)]),
         line.version = StreamLength(a, line.streamId),
         NEW b, b = Append(a, line)
  PROVE  /\ b \in Seq(Lines)
         /\ Len(b) = Len(a) + 1
         /\ \A i \in 1 .. Len(a) : b[i] = a[i]
         /\ b[Len(a) + 1] = line
         /\ Ordered(b)
<1>1. Len(a) \in Nat /\ (a = << >> <=> Len(a) = 0)
  OBVIOUS
<1>2. /\ b \in Seq(Lines)
      /\ Len(b) = Len(a) + 1
      /\ \A i \in 1 .. Len(a) : b[i] = a[i]
      /\ b[Len(a) + 1] = line
  BY <1>1
<1>3. ASSUME NEW i \in 1 .. Len(a) PROVE InOrder(b, i)
  <2>1. InOrder(a, i) /\ i \in 1 .. Len(b) /\ b[i].form = "ok"
    BY <1>1, <1>2 DEF Ordered
  <2>2. \A j \in 1 .. i : SameEntry(b[j], a[j])
    BY <1>1, <1>2 DEF SameEntry
  <2> QED
    BY <1>2, <2>1, <2>2, OrderKept
<1> DEFINE n == Len(a) + 1
<1>4. InOrder(b, n)
  <2>1. \A j \in 1 .. Len(a) : b[j].streamId = a[j].streamId
    BY <1>2
  <2>2. Earlier(b, Len(a) + 1)
          = {j \in 1 .. Len(a) : b[j].streamId = line.streamId}
    BY <1>1, <1>2 DEF Earlier
  <2>3. {j \in 1 .. Len(a) : b[j].streamId = line.streamId}
          = {j \in DOMAIN a : a[j].streamId = line.streamId}
    BY <2>1
  <2>4. line.version = Cardinality(Earlier(b, n))
    BY <2>2, <2>3 DEF StreamLength
  <2>5. n # 1 => n - 1 = Len(a) /\ b[n - 1] = a[Len(a)]
    BY <1>1, <1>2
  <2>6. line.previousHash = IF n = 1 THEN NoHash ELSE Hash(b[n - 1])
    BY <1>1, <2>5
  <2>7. b[n] = line /\ line.sequence = n /\ ~(n < Len(b))
    BY <1>1, <1>2
  <2> HIDE DEF n
  <2> QED
    BY <2>4, <2>6, <2>7 DEF InOrder
<1>5. ASSUME NEW i \in 1 .. Len(b) PROVE InOrder(b, i)
  <2>1. i \in 1 .. Len(a) \/ i = Len(a) + 1
    BY <1>1, <1>2
  <2> QED
    BY <1>3, <1>4, <2>1
<1> QED
  BY <1>2, <1>5 DEF Ordered

-----------------------------------------------------------------------------
(***************************************************************************)
(* Facts about one state.                                                  *)
(***************************************************************************)

\* A writer outside the critical section relies on nothing.
LEMMA OutsideKnowsNothing ==
  ASSUME NEW w \in Writers, pc[w] \notin Critical
  PROVE  WriterKnows(w)
BY DEF WriterKnows, Critical

\* A file that ends in two merged entries cannot be read.
LEMMA RuinedIsUnreadable ==
  ASSUME file \in Seq(Lines), Ruined
  PROVE  ~Readable(file)
<1>1. Len(file) \in DOMAIN file
  BY DEF Ruined
<1> QED
  BY <1>1 DEF Ruined, Readable, Parses

\* The lines of a readable file are whole, the last perhaps but for its newline.
LEMMA ReadableIsWhole ==
  ASSUME file \in Seq(Lines), Ordered(file), Readable(file),
         file # << >> => file[Len(file)].form # "open"
  PROVE  \A i \in 1 .. Len(file) : file[i].form = "ok"
<1> SUFFICES ASSUME NEW i \in 1 .. Len(file)
             PROVE  file[i].form = "ok"
  OBVIOUS
<1>1. CASE i < Len(file)
  BY <1>1 DEF Ordered, InOrder
<1>2. CASE i = Len(file)
  <2>1. file # << >> /\ i \in DOMAIN file
    BY <1>2
  <2> QED
    BY <1>2, <2>1 DEF Readable, Parses
<1> QED
  BY <1>1, <1>2

\* What a writer builds is the entry that comes next.
LEMMA BuiltIsNext ==
  ASSUME NEW w \in Writers, file \in Seq(Lines),
         request[w] \in [streamId : Streams, expectedVersion : Nat]
  PROVE  Built(w) \in Lines /\ Built(w).form = "ok"
<1>1. /\ Len(file) + 1 \in Nat \ {0}
      /\ file # << >> => file[Len(file)] \in Lines
  OBVIOUS
<1>2. (IF file = << >> THEN NoHash ELSE Hash(file[Len(file)])) \in Hashes
  BY <1>1 DEF Hashes, Hash, Lines
<1> QED
  BY <1>1, <1>2 DEF Built, Lines

-----------------------------------------------------------------------------
(***************************************************************************)
(* What a step leaves alone.                                               *)
(***************************************************************************)

\* A writer that does not take the step knows what it knew, if the file is as
\* it was.
LEMMA Untouched ==
  ASSUME NEW x \in Writers, WriterKnows(x), file' = file,
         pc'[x] = pc[x], request'[x] = request[x], draft'[x] = draft[x],
         answer'[x] = answer[x]
  PROVE  WriterKnows(x)'
BY DEF WriterKnows, Built, Ruined, Kept

\* While one is in the critical section, it alone relies on the file.
LEMMA OthersKnowNothing ==
  ASSUME NEW w \in Writers, pc[w] \in Critical, LockExcludes,
         NEW x \in Writers \ {w}, pc'[x] = pc[x]
  PROVE  WriterKnows(x)'
BY DEF LockExcludes, WriterKnows, Critical

\* What was acknowledged is kept, if the file and the acknowledgements are as
\* they were.
LEMMA FileUntouched ==
  ASSUME JournalInv, file' = file, acked' = acked
  PROVE  Ordered(file)' /\ NothingLost'
BY DEF JournalInv, NothingLost, Ruined, Kept

\* One writer moves on in its critical section, or out of it to the lock's
\* release: who holds the lock does not change.
LEMMA HolderMoves ==
  ASSUME LockExcludes, LockHasAnOwner, NEW w \in Writers, pc[w] \in Critical,
         NEW to \in Critical, pc' = [pc EXCEPT ![w] = to],
         pc \in [Writers -> {"idle", "opening"} \cup Critical],
         lock' = lock, abandoned' = abandoned
  PROVE  LockExcludes' /\ LockHasAnOwner'
BY DEF LockExcludes, LockHasAnOwner

-----------------------------------------------------------------------------
(***************************************************************************)
(* The actions.                                                            *)
(***************************************************************************)
LEMMA InvokeKeeps ==
  ASSUME JournalInv, NEW w \in Writers, NEW s \in Streams, NEW v \in Nat,
         Invoke(w, s, v)
  PROVE  JournalInv'
<1>1. TypeOK'
  BY DEF JournalInv, TypeOK, Invoke, Critical, Results
<1>2. LockExcludes' /\ LockHasAnOwner'
  BY DEF JournalInv, TypeOK, LockExcludes, LockHasAnOwner, Invoke, Critical
<1>3. ASSUME NEW x \in Writers PROVE WriterKnows(x)'
  <2>1. CASE x = w
    BY <2>1 DEF Invoke, WriterKnows, JournalInv, TypeOK
  <2>2. CASE x # w
    BY <2>2, Untouched DEF Invoke, JournalInv, TypeOK
  <2> QED
    BY <2>1, <2>2
<1>4. Ordered(file)' /\ NothingLost'
  BY FileUntouched DEF Invoke
<1> QED
  BY <1>1, <1>2, <1>3, <1>4 DEF JournalInv

LEMMA AcquireLockKeeps ==
  ASSUME JournalInv, NEW w \in Writers, AcquireLock(w)
  PROVE  JournalInv'
<1>1. TypeOK'
  BY DEF JournalInv, TypeOK, AcquireLock, Critical
<1>2. LockExcludes' /\ LockHasAnOwner'
  BY DEF JournalInv, TypeOK, LockExcludes, LockHasAnOwner, AcquireLock, Critical
<1>3. ASSUME NEW x \in Writers PROVE WriterKnows(x)'
  <2>1. CASE x = w
    BY <2>1 DEF AcquireLock, WriterKnows, JournalInv, TypeOK
  <2>2. CASE x # w
    BY <2>2, Untouched DEF AcquireLock, JournalInv, TypeOK
  <2> QED
    BY <2>1, <2>2
<1>4. Ordered(file)' /\ NothingLost'
  BY FileUntouched DEF AcquireLock
<1> QED
  BY <1>1, <1>2, <1>3, <1>4 DEF JournalInv

\* A call ends without having changed the file: LockFails, ReleaseFails and
\* Crash.
LEMMA LeaveKeeps ==
  ASSUME JournalInv, NEW w \in Writers, Leave(w),
         NEW result \in Results, answer' = [answer EXCEPT ![w] = result],
         file' = file, lock' = lock, acked' = acked,
         abandoned' \in BOOLEAN, abandoned => abandoned',
         pc[w] \in Critical => abandoned'
  PROVE  JournalInv'
<1>1. TypeOK'
  BY DEF JournalInv, TypeOK, Leave, Critical
<1>2. LockExcludes' /\ LockHasAnOwner'
  BY DEF JournalInv, TypeOK, LockExcludes, LockHasAnOwner, Leave, Critical
<1>3. ASSUME NEW x \in Writers PROVE WriterKnows(x)'
  <2>1. CASE x = w
    BY <2>1 DEF Leave, WriterKnows, JournalInv, TypeOK
  <2>2. CASE x # w
    BY <2>2, Untouched DEF Leave, JournalInv, TypeOK
  <2> QED
    BY <2>1, <2>2
<1>4. Ordered(file)' /\ NothingLost'
  BY FileUntouched
<1> QED
  BY <1>1, <1>2, <1>3, <1>4 DEF JournalInv

LEMMA BuildKeeps ==
  ASSUME JournalInv, NEW w \in Writers, Build(w)
  PROVE  JournalInv'
<1>1. Built(w) \in Lines
  BY BuiltIsNext DEF JournalInv, TypeOK, Build
<1>2. TypeOK'
  BY <1>1 DEF JournalInv, TypeOK, Build, Critical
<1>3. LockExcludes' /\ LockHasAnOwner'
  BY HolderMoves DEF JournalInv, TypeOK, Build, Critical
<1>4. ASSUME NEW x \in Writers PROVE WriterKnows(x)'
  <2>1. CASE x = w
    <3>1. Built(w)' = Built(w)
      BY DEF Build, Built
    <3>2. /\ pc'[w] = "writing" /\ file' = file /\ request' = request
          /\ draft'[w] = Built(w)
      BY DEF Build, JournalInv, TypeOK
    <3> QED
      BY <2>1, <3>1, <3>2 DEF Build, WriterKnows
  <2>2. CASE x # w
    BY <2>2, Untouched DEF Build, JournalInv, TypeOK
  <2> QED
    BY <2>1, <2>2
<1>5. Ordered(file)' /\ NothingLost'
  BY FileUntouched DEF Build
<1> QED
  BY <1>2, <1>3, <1>4, <1>5 DEF JournalInv

\* The call goes to its finally with an error: Refuse and WriteFails.
LEMMA ErrorKeeps ==
  ASSUME JournalInv, NEW w \in Writers, pc[w] \in Critical,
         NEW result \in Results \ {"ok"},
         answer' = [answer EXCEPT ![w] = result],
         pc' = [pc EXCEPT ![w] = "closing"],
         UNCHANGED <<file, lock, request, draft, acked, abandoned>>
  PROVE  JournalInv'
<1>1. TypeOK'
  BY DEF JournalInv, TypeOK, Critical
<1>2. LockExcludes' /\ LockHasAnOwner'
  BY HolderMoves DEF JournalInv, TypeOK, Critical
<1>3. ASSUME NEW x \in Writers PROVE WriterKnows(x)'
  <2>1. CASE x = w
    BY <2>1 DEF WriterKnows, JournalInv, TypeOK
  <2>2. CASE x # w
    BY <2>2, Untouched DEF JournalInv, TypeOK
  <2> QED
    BY <2>1, <2>2
<1>4. Ordered(file)' /\ NothingLost'
  BY FileUntouched
<1> QED
  BY <1>1, <1>2, <1>3, <1>4 DEF JournalInv

LEMMA FlushedKeeps ==
  ASSUME JournalInv, NEW w \in Writers, Flushed(w)
  PROVE  JournalInv'
<1>1. TypeOK'
  BY DEF JournalInv, TypeOK, Flushed, Critical, Results
<1>2. LockExcludes' /\ LockHasAnOwner'
  BY HolderMoves DEF JournalInv, TypeOK, Flushed, Critical
<1>3. ASSUME NEW x \in Writers PROVE WriterKnows(x)'
  <2>1. CASE x = w
    BY <2>1 DEF Flushed, WriterKnows, JournalInv, TypeOK, Ruined, Kept
  <2>2. CASE x # w
    BY <2>2, Untouched DEF Flushed, JournalInv, TypeOK
  <2> QED
    BY <2>1, <2>2
<1>4. Ordered(file)' /\ NothingLost'
  BY FileUntouched DEF Flushed
<1> QED
  BY <1>1, <1>2, <1>3, <1>4 DEF JournalInv

\* What is acknowledged on release is what the writer knows to be kept.
LEMMA ReleaseKeeps ==
  ASSUME JournalInv, NEW w \in Writers, Release(w)
  PROVE  JournalInv'
<1>1. answer[w] = "ok" => Hash(draft[w]) \in Hashes
  <2>1. answer[w] = "ok" => draft[w] \in Lines
    BY DEF JournalInv, WriterKnows, Release
  <2> QED
    BY <2>1 DEF Hash, Hashes, Lines
<1>2. TypeOK'
  BY <1>1 DEF JournalInv, TypeOK, Release, Leave, Critical
<1>3. LockExcludes' /\ LockHasAnOwner'
  BY DEF JournalInv, TypeOK, LockExcludes, LockHasAnOwner, Release, Leave,
         Critical
<1>4. ASSUME NEW x \in Writers PROVE WriterKnows(x)'
  <2>1. CASE x = w
    BY <2>1 DEF Release, Leave, WriterKnows, JournalInv, TypeOK
  <2>2. CASE x # w
    BY <2>2, Untouched DEF Release, Leave, JournalInv, TypeOK
  <2> QED
    BY <2>1, <2>2
<1>5. Ordered(file)'
  BY DEF JournalInv, Release
<1>6. NothingLost'
  BY DEF JournalInv, Release, WriterKnows, NothingLost, Ruined, Kept
<1> QED
  BY <1>2, <1>3, <1>4, <1>5, <1>6 DEF JournalInv

\* What writing the built entry, or a part of it, makes of the file.
LEMMA WrittenFile ==
  ASSUME JournalInv, NEW w \in Writers, pc[w] = "writing",
         NEW f \in {"ok", "cut", "open"},
         file' = Written([draft[w] EXCEPT !.form = f]),
         acked' = acked, draft' = draft
  PROVE  /\ file' \in Seq(Lines) /\ file' # << >>
         /\ Ordered(file)'
         /\ Ruined' \/ /\ Hash(file'[Len(file')]) = Hash(draft[w])
                       /\ Kept(Hash(draft[w]))'
         /\ NothingLost'
<1>0. file \in Seq(Lines) /\ Ordered(file)
  BY DEF JournalInv, TypeOK
<1>1. /\ Readable(file)
      /\ draft[w] = Built(w) /\ draft[w] \in Lines
      /\ request[w] \in [streamId : Streams, expectedVersion : Nat]
      /\ StreamLength(file, request[w].streamId) = request[w].expectedVersion
  BY DEF JournalInv, TypeOK, WriterKnows
<1>2. CASE file # << >> /\ file[Len(file)].form = "open"
  <2> DEFINE form == "merged"
  <2>1. file' = [file EXCEPT ![Len(file)].form = form] /\ form \in Forms
    BY <1>2 DEF Written, Forms
  <2> HIDE DEF form
  <2>2. /\ file' \in Seq(Lines) /\ Len(file') = Len(file)
        /\ file'[Len(file)].form = form
        /\ Ordered(file')
    <3>1. file # << >>
      BY <1>2
    <3> QED
      BY <1>0, <2>1, <3>1, FormChanged, Zenon
  <2>3. file' # << >>
    BY <1>0, <1>1, <1>2, <2>2
  <2>4. Ruined'
    BY <2>2, <2>3 DEF Ruined, form
  <2> QED
    BY <2>2, <2>3, <2>4 DEF NothingLost
<1>3. CASE ~(file # << >> /\ file[Len(file)].form = "open")
  <2> DEFINE line == [draft[w] EXCEPT !.form = f]
  <2>1. file' = Append(file, line)
    BY <1>3 DEF Written
  <2>2. /\ line \in Lines
        /\ line.sequence = draft[w].sequence /\ line.writer = draft[w].writer
        /\ line.streamId = draft[w].streamId
        /\ line.version = draft[w].version
        /\ line.previousHash = draft[w].previousHash
    BY <1>0, <1>1 DEF Lines
  <2> HIDE DEF line
  <2>3. /\ line.sequence = Len(file) + 1
        /\ line.previousHash =
             IF file = << >> THEN NoHash ELSE Hash(file[Len(file)])
        /\ line.version = StreamLength(file, line.streamId)
    BY <1>0, <1>1, <2>2 DEF Built
  <2>4. \A i \in 1 .. Len(file) : file[i].form = "ok"
    BY <1>0, <1>1, <1>3, ReadableIsWhole
  <2>5. /\ file' \in Seq(Lines) /\ Len(file') = Len(file) + 1
        /\ \A i \in 1 .. Len(file) : file'[i] = file[i]
        /\ file'[Len(file) + 1] = line
        /\ Ordered(file')
    BY <1>0, <2>1, <2>2, <2>3, <2>4, LineAppended, Zenon
  <2>6. Len(file) \in Nat /\ file' # << >> /\ DOMAIN file' = 1 .. Len(file) + 1
    BY <1>0, <1>1, <2>5
  <2>7. Hash(line) = Hash(draft[w]) /\ Hash(draft[w])[2] = Len(file) + 1
    BY <2>2, <2>3 DEF Hash
  <2>8. Kept(Hash(draft[w]))'
    BY <2>5, <2>6, <2>7 DEF Kept
  <2>9. ASSUME NEW h \in acked PROVE Kept(h)'
    <3>1. ~Ruined
      BY <1>0, <1>1, RuinedIsUnreadable
    <3>2. Kept(h)
      BY <3>1 DEF JournalInv, NothingLost
    <3>3. h[2] \in 1 .. Len(file) /\ h[2] \in DOMAIN file'
      BY <1>0, <1>1, <2>6, <3>2 DEF Kept
    <3> QED
      BY <2>5, <3>2, <3>3 DEF Kept
  <2> QED
    BY <2>5, <2>6, <2>7, <2>8, <2>9 DEF NothingLost
<1> QED
  BY <1>2, <1>3

LEMMA WriteKeeps ==
  ASSUME JournalInv, NEW w \in Writers, NEW f \in {"ok", "cut", "open"},
         NEW to \in {"flushing", "finishing"},
         pc[w] = "writing", pc' = [pc EXCEPT ![w] = to],
         file' = Written([draft[w] EXCEPT !.form = f]),
         UNCHANGED <<lock, request, draft, answer, acked, abandoned>>
  PROVE  JournalInv'
<1>1. /\ file' \in Seq(Lines) /\ file' # << >>
      /\ Ordered(file)'
      /\ Ruined' \/ /\ Hash(file'[Len(file')]) = Hash(draft[w])
                    /\ Kept(Hash(draft[w]))'
      /\ NothingLost'
  BY WrittenFile
<1>2. TypeOK'
  BY <1>1 DEF JournalInv, TypeOK, Critical
<1>3. LockExcludes' /\ LockHasAnOwner'
  BY HolderMoves DEF JournalInv, TypeOK, Critical
<1>4. ASSUME NEW x \in Writers PROVE WriterKnows(x)'
  <2>1. CASE x = w
    BY <1>1, <2>1 DEF WriterKnows, JournalInv, TypeOK
  <2>2. CASE x # w
    BY <2>2, OthersKnowNothing DEF JournalInv, TypeOK, Critical
  <2> QED
    BY <2>1, <2>2
<1> QED
  BY <1>1, <1>2, <1>3, <1>4 DEF JournalInv

LEMMA WriteRestKeeps ==
  ASSUME JournalInv, NEW w \in Writers, WriteRest(w)
  PROVE  JournalInv'
<1>0. file \in Seq(Lines) /\ Ordered(file)
  BY DEF JournalInv, TypeOK
<1>1. /\ file # << >> /\ draft[w] \in Lines
      /\ Ruined \/ Hash(file[Len(file)]) = Hash(draft[w])
  BY DEF JournalInv, TypeOK, WriterKnows, WriteRest
<1> DEFINE f == IF Hash(file[Len(file)]) = Hash(draft[w])
                   /\ file[Len(file)].form # "merged" THEN "ok" ELSE "merged"
<1>2. file' = [file EXCEPT ![Len(file)].form = f]
  BY DEF WriteRest
<1>3. /\ f \in Forms
      /\ f = "merged" \/ Hash(file[Len(file)]) = Hash(draft[w])
      /\ Ruined => f = "merged"
  BY <1>1 DEF Forms, Ruined
<1> HIDE DEF f
<1>4. /\ file' \in Seq(Lines) /\ Len(file') = Len(file)
      /\ \A i \in 1 .. Len(file) : SameEntry(file'[i], file[i])
      /\ file'[Len(file)].form = f
      /\ Ordered(file')
  <2>1. file # << >>
    BY <1>1
  <2> QED
    BY <1>0, <1>2, <1>3, <2>1, FormChanged, Zenon
<1>5. Len(file) \in 1 .. Len(file) /\ file' # << >>
      /\ DOMAIN file' = DOMAIN file /\ DOMAIN file = 1 .. Len(file)
  BY <1>0, <1>1, <1>4
<1>6. \A i \in DOMAIN file : Hash(file'[i]) = Hash(file[i])
  BY <1>4, <1>5 DEF SameEntry, Hash
<1>7. TypeOK'
  BY <1>4 DEF JournalInv, TypeOK, Critical, WriteRest
<1>8. LockExcludes' /\ LockHasAnOwner'
  BY HolderMoves DEF JournalInv, TypeOK, Critical, WriteRest
<1>9. f = "merged" => Ruined'
  BY <1>4, <1>5 DEF Ruined
<1>10. ASSUME f # "merged" PROVE Kept(Hash(draft[w]))'
  <2>1. file[Len(file)].sequence = Len(file)
    BY <1>0, <1>5 DEF Ordered, InOrder
  <2>2. Hash(draft[w])[2] = Len(file)
    BY <1>3, <1>10, <2>1 DEF Hash
  <2>3. draft' = draft
    BY DEF WriteRest
  <2> QED
    BY <1>3, <1>5, <1>6, <1>10, <2>2, <2>3 DEF Kept, Hash
<1>11. ASSUME NEW x \in Writers PROVE WriterKnows(x)'
  <2>1. CASE x = w
    BY <1>1, <1>9, <1>10, <2>1 DEF WriterKnows, JournalInv, TypeOK, WriteRest
  <2>2. CASE x # w
    BY <2>2, OthersKnowNothing DEF JournalInv, TypeOK, Critical, WriteRest
  <2> QED
    BY <2>1, <2>2
<1>12. NothingLost'
  <2>1. CASE f = "merged"
    BY <1>9, <2>1 DEF NothingLost
  <2>2. CASE f # "merged"
    <3>1. \A h \in acked : Kept(h)
      BY <1>3, <2>2 DEF JournalInv, NothingLost
    <3>2. acked' = acked
      BY DEF WriteRest
    <3>3. \A h \in acked : Kept(h)'
      BY <1>5, <1>6, <3>1 DEF Kept
    <3> QED
      BY <3>2, <3>3 DEF NothingLost
  <2> QED
    BY <2>1, <2>2
<1> QED
  BY <1>4, <1>7, <1>8, <1>11, <1>12 DEF JournalInv

-----------------------------------------------------------------------------
(***************************************************************************)
(* The specification.                                                      *)
(***************************************************************************)
LEMMA InitHolds == Init => JournalInv
<1> SUFFICES ASSUME Init PROVE JournalInv
  OBVIOUS
<1>1. TypeOK
  <2>1. /\ << >> \in Seq(Lines)
        /\ "idle" \notin {"writing", "finishing", "flushing"}
    OBVIOUS
  <2> QED
    BY <2>1 DEF Init, TypeOK
<1>2. Ordered(file) /\ NothingLost
  <2>1. file = << >> /\ acked = {} /\ 1 .. Len(file) = {}
    BY DEF Init
  <2> QED
    BY <2>1 DEF Ordered, NothingLost
<1>3. LockExcludes /\ LockHasAnOwner
  BY DEF Init, LockExcludes, LockHasAnOwner, Critical
<1>4. \A w \in Writers : WriterKnows(w)
  BY OutsideKnowsNothing DEF Init, Critical
<1> QED
  BY <1>1, <1>2, <1>3, <1>4 DEF JournalInv

LEMMA StepKeeps == JournalInv /\ [Next]_vars => JournalInv'
<1> SUFFICES ASSUME JournalInv, [Next]_vars
             PROVE  JournalInv'
  OBVIOUS
<1>1. CASE UNCHANGED vars
  <2>1. TypeOK' /\ LockExcludes' /\ LockHasAnOwner'
    BY <1>1 DEF vars, JournalInv, TypeOK, LockExcludes, LockHasAnOwner
  <2>2. \A x \in Writers : WriterKnows(x)'
    BY <1>1, Untouched DEF vars, JournalInv
  <2> QED
    BY <1>1, <2>1, <2>2, FileUntouched DEF vars, JournalInv
<1>2. ASSUME NEW w \in Writers, NEW s \in Streams, NEW v \in 0 .. MaxLines,
             Invoke(w, s, v)
      PROVE  JournalInv'
  <2>1. v \in Nat
    BY MaxLinesIsNat
  <2> QED
    BY <1>2, <2>1, InvokeKeeps
<1>3. ASSUME NEW w \in Writers, AcquireLock(w) PROVE JournalInv'
  BY <1>3, AcquireLockKeeps
<1>4. ASSUME NEW w \in Writers, LockFails(w) PROVE JournalInv'
  <2>1. PICK result \in {"ConcurrencyError", "error"} :
          answer' = [answer EXCEPT ![w] = result]
    BY <1>4 DEF LockFails
  <2>2. result \in Results /\ pc[w] \notin Critical
    BY <1>4 DEF Results, LockFails, Critical
  <2> QED
    BY <1>4, <2>1, <2>2, LeaveKeeps DEF LockFails, JournalInv, TypeOK
<1>5. ASSUME NEW w \in Writers, Build(w) PROVE JournalInv'
  BY <1>5, BuildKeeps
<1>6. ASSUME NEW w \in Writers, Refuse(w) PROVE JournalInv'
  <2>1. PICK result \in {"IntegrityError", "ConcurrencyError", "error"} :
          answer' = [answer EXCEPT ![w] = result]
    BY <1>6 DEF Refuse
  <2>2. result \in Results \ {"ok"} /\ pc[w] \in Critical
    BY <1>6 DEF Results, Refuse, Critical
  <2> QED
    BY <1>6, <2>1, <2>2, ErrorKeeps DEF Refuse
<1>7. ASSUME NEW w \in Writers, Write(w) PROVE JournalInv'
  <2>1. draft[w] = [draft[w] EXCEPT !.form = "ok"]
    <3>1. draft[w] = Built(w) /\ Built(w) \in Lines /\ Built(w).form = "ok"
      BY <1>7, BuiltIsNext DEF JournalInv, TypeOK, WriterKnows, Write
    <3> QED
      BY <3>1 DEF Lines
  <2>2. file' = Written([draft[w] EXCEPT !.form = "ok"])
    BY <1>7, <2>1 DEF Write
  <2> QED
    BY <1>7, <2>2, WriteKeeps DEF Write
<1>8. ASSUME NEW w \in Writers, NEW form \in CutForms, WritePart(w, form)
      PROVE  JournalInv'
  <2>1. form \in {"ok", "cut", "open"}
    BY CutFormsAreForms
  <2> QED
    BY <1>8, <2>1, WriteKeeps DEF WritePart
<1>9. ASSUME NEW w \in Writers, WriteRest(w) PROVE JournalInv'
  BY <1>9, WriteRestKeeps
<1>10. ASSUME NEW w \in Writers, WriteFails(w) PROVE JournalInv'
  <2>1. "error" \in Results \ {"ok"} /\ pc[w] \in Critical
    BY <1>10 DEF Results, WriteFails, Critical
  <2> QED
    BY <1>10, <2>1, ErrorKeeps DEF WriteFails
<1>11. ASSUME NEW w \in Writers, Flushed(w) PROVE JournalInv'
  BY <1>11, FlushedKeeps
<1>12. ASSUME NEW w \in Writers, Release(w) PROVE JournalInv'
  BY <1>12, ReleaseKeeps
<1>13. ASSUME NEW w \in Writers, ReleaseFails(w) PROVE JournalInv'
  <2>1. "error" \in Results
    BY DEF Results
  <2> QED
    BY <1>13, <2>1, LeaveKeeps DEF ReleaseFails
<1>14. ASSUME NEW w \in Writers, Crash(w) PROVE JournalInv'
  <2>1. "crash" \in Results
    BY DEF Results
  <2>2. abandoned' \in BOOLEAN /\ (abandoned => abandoned')
        /\ (pc[w] \in Critical => abandoned')
    BY <1>14 DEF Crash, JournalInv, TypeOK
  <2> QED
    BY <1>14, <2>1, <2>2, LeaveKeeps DEF Crash
<1> QED
  BY <1>1, <1>2, <1>3, <1>4, <1>5, <1>6, <1>7, <1>8, <1>9, <1>10, <1>11, <1>12,
     <1>13, <1>14
  DEF Next, Step

\* JournalInv is inductive; the theorems below read off what it contains.
LEMMA Inductive == Spec => []JournalInv
BY InitHolds, StepKeeps, PTL DEF Spec

\* Every variable keeps its type (packages/event-store).
THEOREM TypeCorrect == Spec => []TypeOK
<1>1. JournalInv => TypeOK
  BY DEF JournalInv
<1> QED
  BY <1>1, Inductive, PTL

\* Two writers are never both between taking and removing the lock file, and
\* the lock file never outlives its owner unless the owner died or could not
\* remove it (FileJournal.append's try and finally).
THEOREM LockIsSafe == Spec => [](LockExcludes /\ LockHasAnOwner)
<1>1. JournalInv => LockExcludes /\ LockHasAnOwner
  BY DEF JournalInv
<1> QED
  BY <1>1, Inductive, PTL

\* Damage is confined to the last line, and the versions of each stream are
\* dense: no stale append is ever stored, however many writers and streams.
THEOREM VersionsAreDense == Spec => []StoredInOrder
<1>1. JournalInv => StoredInOrder
  <2> SUFFICES ASSUME JournalInv PROVE StoredInOrder
    OBVIOUS
  <2>1. DOMAIN file = 1 .. Len(file)
    BY DEF JournalInv, TypeOK
  <2> QED
    BY <2>1 DEF JournalInv, Ordered, StoredInOrder
<1> QED
  BY <1>1, Inductive, PTL

\* A journal that can be read at all contains every entry whose append()
\* returned, whatever writers crashed or failed on the way.
THEOREM LossIsNeverSilent == Spec => []ReadableMeansComplete
<1>1. JournalInv => ReadableMeansComplete
  BY RuinedIsUnreadable
  DEF JournalInv, TypeOK, ReadableMeansComplete, NothingLost, Kept
<1> QED
  BY <1>1, Inductive, PTL

-----------------------------------------------------------------------------
(***************************************************************************)
(* The refinement needs more of what a writer knows: that its draft is the *)
(* entry its caller asked for, what its line looks like before it is       *)
(* whole, and that it is in the file when the caller will be told so.      *)
(***************************************************************************)
Unfinished(w) ==
  /\ file # << >>
  /\ file[Len(file)].form \in {"cut", "open"}
  /\ SameEntry(file[Len(file)], draft[w])

DraftKnown(w) ==
  /\ pc[w] \in {"idle", "opening", "reading"} => draft[w] = << >>
  /\ draft[w] # << >> =>
       /\ draft[w] \in Lines
       /\ draft[w].writer = w
       /\ draft[w].form = "ok"
       /\ draft[w].streamId = request[w].streamId
       /\ draft[w].version = request[w].expectedVersion
  /\ pc[w] \in {"writing", "finishing", "flushing"} => draft[w] # << >>
  /\ pc[w] = "finishing" => Ruined \/ Unfinished(w)
  /\ pc[w] = "flushing" \/ (pc[w] = "closing" /\ answer[w] = "ok") =>
       Ruined \/ HasStored(w)
  /\ pc[w] = "closing" => answer[w] \in Results

DraftsInv == JournalInv /\ \A w \in Writers : DraftKnown(w)

LEMMA LineIsNotEmpty == \A line \in Lines : line # << >>
BY DEF Lines

LEMMA DraftUntouched ==
  ASSUME NEW x \in Writers, DraftKnown(x), file' = file,
         pc'[x] = pc[x], request'[x] = request[x], draft'[x] = draft[x],
         answer'[x] = answer[x]
  PROVE  DraftKnown(x)'
BY DEF DraftKnown, Ruined, Unfinished, HasStored, Whole

LEMMA OtherDraftsKnown ==
  ASSUME NEW w \in Writers, pc[w] \in Critical, LockExcludes,
         NEW x \in Writers \ {w}, DraftKnown(x), pc'[x] = pc[x],
         request'[x] = request[x], draft'[x] = draft[x]
  PROVE  DraftKnown(x)'
<1>1. pc[x] \notin Critical
  BY DEF LockExcludes
<1> QED
  BY <1>1 DEF DraftKnown, Critical

\* A line is written after whole ones, unless it is glued to one cut exactly
\* before its newline.
LEMMA WrittenLine ==
  ASSUME DraftsInv, NEW w \in Writers, pc[w] = "writing",
         NEW f \in {"ok", "cut", "open"},
         file' = Written([draft[w] EXCEPT !.form = f])
  PROVE  Ruined' \/
         /\ file' \in Seq(Lines) /\ Len(file') = Len(file) + 1
         /\ \A i \in 1 .. Len(file) : file[i].form = "ok" /\ file'[i] = file[i]
         /\ file'[Len(file) + 1].form = f
         /\ SameEntry(file'[Len(file) + 1], draft[w])
<1>0. file \in Seq(Lines) /\ Ordered(file) /\ Readable(file) /\ draft[w] \in Lines
  BY DEF DraftsInv, JournalInv, TypeOK, WriterKnows
<1>1. CASE file # << >> /\ file[Len(file)].form = "open"
  <2> DEFINE form == "merged"
  <2>1. file' = [file EXCEPT ![Len(file)].form = form] /\ form \in Forms
    BY <1>1 DEF Written, Forms
  <2> HIDE DEF form
  <2>2. file' \in Seq(Lines) /\ Len(file') = Len(file) /\ file'[Len(file)].form = form
    <3>1. file # << >>
      BY <1>1
    <3> QED
      BY <1>0, <2>1, <3>1, FormChanged, Zenon
  <2>3. file' # << >>
    BY <1>0, <1>1, <2>2
  <2> QED
    BY <2>2, <2>3 DEF Ruined, form
<1>2. CASE ~(file # << >> /\ file[Len(file)].form = "open")
  <2> DEFINE line == [draft[w] EXCEPT !.form = f]
  <2>1. file' = Append(file, line)
    BY <1>2 DEF Written
  <2>2. line \in Lines /\ line.form = f /\ SameEntry(line, draft[w])
    BY <1>0 DEF Lines, SameEntry
  <2> HIDE DEF line
  <2>3. \A i \in 1 .. Len(file) : file[i].form = "ok"
    BY <1>0, <1>2, ReadableIsWhole
  <2> QED
    BY <1>0, <2>1, <2>2, <2>3
<1> QED
  BY <1>1, <1>2

\* The rest of a line makes it whole, unless it was glued meanwhile.
LEMMA FinishedLine ==
  ASSUME DraftsInv, NEW w \in Writers, WriteRest(w)
  PROVE  Ruined' \/
         /\ file' \in Seq(Lines) /\ Len(file') = Len(file) /\ Len(file) \in Nat \ {0}
         /\ \A i \in 1 .. Len(file) - 1 : file[i].form = "ok" /\ file'[i] = file[i]
         /\ file[Len(file)].form # "ok"
         /\ file'[Len(file)].form = "ok"
         /\ SameEntry(file'[Len(file)], draft[w])
<1>0. file \in Seq(Lines) /\ Ordered(file) /\ file # << >> /\ draft[w] \in Lines
  BY DEF DraftsInv, JournalInv, TypeOK, WriterKnows, WriteRest
<1>1. Len(file) \in Nat \ {0} /\ Len(file) \in 1 .. Len(file)
  BY <1>0
<1>2. Ruined \/ Unfinished(w)
  BY DEF DraftsInv, DraftKnown, WriteRest
<1> DEFINE f == IF Hash(file[Len(file)]) = Hash(draft[w])
                   /\ file[Len(file)].form # "merged" THEN "ok" ELSE "merged"
<1>3. file' = [file EXCEPT ![Len(file)].form = f] /\ f \in Forms
  BY DEF WriteRest, Forms
<1>4. (Ruined => f = "merged") /\ (Unfinished(w) => f = "ok")
  BY DEF Ruined, Unfinished, SameEntry, Hash
<1> HIDE DEF f
<1>5. /\ file' \in Seq(Lines) /\ Len(file') = Len(file)
      /\ \A i \in 1 .. Len(file) : SameEntry(file'[i], file[i])
      /\ file'[Len(file)].form = f
  BY <1>0, <1>3, FormChanged, Zenon
<1>6. CASE Ruined
  <2>1. file' # << >>
    BY <1>1, <1>5
  <2> QED
    BY <1>4, <1>5, <1>6, <2>1 DEF Ruined
<1>7. CASE Unfinished(w)
  <2>1. \A i \in 1 .. Len(file) - 1 : file[i].form = "ok"
    BY <1>0, <1>1 DEF Ordered, InOrder
  <2>2. \A i \in 1 .. Len(file) - 1 : file'[i] = file[i]
    BY <1>0, <1>1, <1>3
  <2>3. SameEntry(file'[Len(file)], draft[w])
    BY <1>1, <1>5, <1>7 DEF SameEntry, Unfinished
  <2> QED
    BY <1>1, <1>4, <1>5, <1>7, <2>1, <2>2, <2>3 DEF Unfinished
<1> QED
  BY <1>2, <1>6, <1>7

\* A writer moves without the file: the others know what they knew.
LEMMA DraftsWithoutFile ==
  ASSUME DraftsInv, NEW w \in Writers, file' = file,
         \A x \in Writers \ {w} : /\ pc'[x] = pc[x] /\ request'[x] = request[x]
                                  /\ draft'[x] = draft[x] /\ answer'[x] = answer[x],
         DraftKnown(w)'
  PROVE  \A x \in Writers : DraftKnown(x)'
BY DraftUntouched DEF DraftsInv

LEMMA DraftsKept ==
  ASSUME DraftsInv, [Next]_vars
  PROVE  \A x \in Writers : DraftKnown(x)'
<1>0. /\ pc \in [Writers -> {"idle", "opening"} \cup Critical]
      /\ DOMAIN request = Writers /\ DOMAIN draft = Writers
      /\ answer \in [Writers -> Results \cup {"none"}]
      /\ LockExcludes
  BY DEF DraftsInv, JournalInv, TypeOK
<1>1. CASE UNCHANGED vars
  BY <1>1, DraftUntouched DEF vars, DraftsInv
<1> SUFFICES ASSUME NEW w \in Writers,
                    \/ \E s \in Streams, v \in 0 .. MaxLines : Invoke(w, s, v)
                    \/ Step(w)
                    \/ Crash(w)
             PROVE  \A x \in Writers : DraftKnown(x)'
  BY <1>1 DEF Next
<1>2. DraftKnown(w)
  BY DEF DraftsInv
<1>3. ASSUME NEW s \in Streams, NEW v \in 0 .. MaxLines, Invoke(w, s, v)
      PROVE  \A x \in Writers : DraftKnown(x)'
  BY <1>0, <1>2, <1>3, DraftsWithoutFile DEF Invoke, DraftKnown, Critical
<1>4. CASE Leave(w) /\ file' = file /\ (\E r : answer' = [answer EXCEPT ![w] = r])
  BY <1>0, <1>2, <1>4, DraftsWithoutFile DEF Leave, DraftKnown, Critical
<1>5. CASE AcquireLock(w)
  BY <1>0, <1>2, <1>5, DraftsWithoutFile DEF AcquireLock, DraftKnown, Critical
<1>6. CASE Build(w)
  <2>1. Built(w) \in Lines /\ Built(w).form = "ok"
    BY <1>6, BuiltIsNext DEF DraftsInv, JournalInv, TypeOK, Build
  <2>2. /\ Built(w).writer = w
        /\ Built(w).streamId = request[w].streamId
        /\ Built(w).version = request[w].expectedVersion
    BY DEF Built
  <2> QED
    BY <1>0, <1>2, <1>6, <2>1, <2>2, LineIsNotEmpty, DraftsWithoutFile
    DEF Build, DraftKnown, Critical
<1>7. CASE Refuse(w)
  BY <1>0, <1>2, <1>7, DraftsWithoutFile DEF Refuse, DraftKnown, Critical, Results
<1>8. CASE WriteFails(w)
  BY <1>0, <1>2, <1>8, DraftsWithoutFile
  DEF WriteFails, DraftKnown, Critical, Results
<1>9. CASE Flushed(w)
  BY <1>0, <1>2, <1>9, DraftsWithoutFile
  DEF Flushed, DraftKnown, Critical, Results, Ruined, HasStored, Whole
<1>10. ASSUME NEW f \in {"ok", "cut", "open"}, NEW to \in {"flushing", "finishing"},
              f = "ok" <=> to = "flushing",
              pc[w] = "writing", pc' = [pc EXCEPT ![w] = to],
              file' = Written([draft[w] EXCEPT !.form = f]),
              UNCHANGED <<request, draft, answer>>
       PROVE  \A x \in Writers : DraftKnown(x)'
  <2>1. \/ Ruined'
        \/ /\ file' \in Seq(Lines) /\ Len(file') = Len(file) + 1 /\ Len(file) \in Nat
           /\ file'[Len(file')].form = f
           /\ SameEntry(file'[Len(file')], draft[w])
    <3>1. Len(file) \in Nat
      BY DEF DraftsInv, JournalInv, TypeOK
    <3> QED
      BY <1>10, <3>1, WrittenLine
  <2>2. to = "finishing" => Ruined' \/ Unfinished(w)'
    <3>1. (file' \in Seq(Lines) /\ Len(file') = Len(file) + 1 /\ Len(file) \in Nat)
            => file' # << >>
      OBVIOUS
    <3> QED
      BY <1>10, <2>1, <3>1 DEF Unfinished
  <2>3. to = "flushing" => Ruined' \/ HasStored(w)'
    <3>1. (file' \in Seq(Lines) /\ Len(file') = Len(file) + 1 /\ Len(file) \in Nat)
            => Len(file') \in DOMAIN file'
      OBVIOUS
    <3>2. draft'[w] # << >> /\ pc'[w] = to
      BY <1>0, <1>2, <1>10 DEF DraftKnown
    <3> QED
      BY <1>10, <2>1, <3>1, <3>2 DEF HasStored, Whole, SameEntry, Hash
  <2>4. DraftKnown(w)'
    BY <1>0, <1>2, <1>10, <2>2, <2>3 DEF DraftKnown
  <2> QED
    BY <1>0, <1>10, <2>4, OtherDraftsKnown DEF DraftsInv, Critical
<1>11. CASE WriteRest(w)
  <2>1. Ruined' \/ HasStored(w)'
    <3>1. CASE Ruined'
      BY <3>1
    <3>2. CASE ~Ruined'
      <4>1. /\ file' \in Seq(Lines) /\ Len(file') = Len(file) /\ Len(file) \in Nat \ {0}
            /\ file'[Len(file)].form = "ok"
            /\ SameEntry(file'[Len(file)], draft[w])
        BY <1>11, <3>2, FinishedLine
      <4>2. Len(file) \in DOMAIN file'
        BY <4>1
      <4>3. draft'[w] = draft[w] /\ draft[w] # << >> /\ pc'[w] = "flushing"
        BY <1>0, <1>2, <1>11 DEF DraftKnown, WriteRest
      <4> QED
        BY <4>1, <4>2, <4>3 DEF HasStored, Whole, SameEntry, Hash
    <3> QED
      BY <3>1, <3>2
  <2>2. DraftKnown(w)'
    BY <1>0, <1>2, <1>11, <2>1 DEF DraftKnown, WriteRest
  <2> QED
    BY <1>0, <1>11, <2>2, OtherDraftsKnown DEF DraftsInv, WriteRest, Critical
<1>12. CASE Write(w)
  <2>1. [draft[w] EXCEPT !.form = "ok"] = draft[w]
    BY <1>2, <1>12 DEF Write, DraftKnown, Lines
  <2>2. file' = Written([draft[w] EXCEPT !.form = "ok"])
    BY <1>12, <2>1 DEF Write
  <2> QED
    BY <1>10, <1>12, <2>2 DEF Write
<1>13. ASSUME NEW f \in CutForms, WritePart(w, f)
       PROVE  \A x \in Writers : DraftKnown(x)'
  BY <1>10, <1>13, CutFormsAreForms DEF WritePart
<1>14. CASE LockFails(w) \/ Release(w) \/ ReleaseFails(w) \/ Crash(w)
  <2>1. answer \in [Writers -> Results \cup {"none"}] => answer = [answer EXCEPT ![w] = answer[w]]
    OBVIOUS
  <2>2. file' = file /\ Leave(w)
    BY <1>14 DEF LockFails, Release, ReleaseFails, Crash
  <2>3. \E r : answer' = [answer EXCEPT ![w] = r]
    BY <1>0, <1>14, <2>1 DEF LockFails, Release, ReleaseFails, Crash
  <2> QED
    BY <1>4, <2>2, <2>3
<1> QED
  BY <1>3, <1>5, <1>6, <1>7, <1>8, <1>9, <1>11, <1>12, <1>13, <1>14 DEF Step

LEMMA DraftsInductive == Spec => []DraftsInv
<1>1. Init => DraftsInv
  <2>1. Init => \A w \in Writers : DraftKnown(w)
    BY DEF Init, DraftKnown
  <2> QED
    BY <2>1, InitHolds DEF DraftsInv
<1>2. DraftsInv /\ [Next]_vars => DraftsInv'
  BY StepKeeps, DraftsKept DEF DraftsInv
<1> QED
  BY <1>1, <1>2, PTL DEF Spec

-----------------------------------------------------------------------------
(***************************************************************************)
(* The refinement.  What a caller of VersionedLog sees of a state.         *)
(***************************************************************************)
Item(line) == [streamId |-> line.streamId, version |-> line.version,
               writer |-> line.writer]
Items == [streamId : Streams, version : Nat, writer : Writers]

Log   == [i \in Whole |-> [streamId |-> file[i].streamId,
                           version |-> file[i].version,
                           writer |-> file[i].writer]]
Calls == [w \in Writers |-> CallOf(w)]
Told  == [w \in Writers |-> IF pc[w] = "idle" THEN answer[w] ELSE "none"]

LEMMA LogIsItems == Log = [i \in Whole |-> Item(file[i])]
BY DEF Log, Item

\* A writer moves without the file, and the others not at all.
LEMMA OneMoves ==
  ASSUME NEW w \in Writers, file' = file,
         \A x \in Writers \ {w} : /\ pc'[x] = pc[x] /\ request'[x] = request[x]
                                  /\ draft'[x] = draft[x] /\ answer'[x] = answer[x]
  PROVE  /\ Log' = Log
         /\ Calls' = [Calls EXCEPT ![w] = CallOf(w)']
         /\ Told' = [Told EXCEPT ![w] = IF pc'[w] = "idle" THEN answer'[w] ELSE "none"]
<1>1. Log' = Log
  BY DEF Log, Whole
<1>2. \A x \in Writers \ {w} : CallOf(x)' = CallOf(x)
  BY DEF CallOf, HasStored, Whole
<1>3. Calls' = [Calls EXCEPT ![w] = CallOf(w)']
  BY <1>2 DEF Calls
<1>4. Told' = [Told EXCEPT ![w] = IF pc'[w] = "idle" THEN answer'[w] ELSE "none"]
  BY DEF Told
<1> QED
  BY <1>1, <1>3, <1>4

\* A step inside a call that writes nothing is not seen.
LEMMA Unseen ==
  ASSUME NEW w \in Writers, file' = file,
         \A x \in Writers \ {w} : /\ pc'[x] = pc[x] /\ request'[x] = request[x]
                                  /\ draft'[x] = draft[x] /\ answer'[x] = answer[x],
         pc[w] # "idle", pc'[w] # "idle", request'[w] = request[w],
         HasStored(w)' <=> HasStored(w)
  PROVE  UNCHANGED Promise!vars
<1>1. CallOf(w)' = CallOf(w)
  BY DEF CallOf
<1>2. Calls' = Calls
  BY <1>1, OneMoves DEF Calls
<1>3. Told' = Told
  BY OneMoves DEF Told
<1> QED
  BY <1>2, <1>3, OneMoves DEF Promise!vars, Log, Calls, Told

LEMMA InvokeRefines ==
  ASSUME DraftsInv, NEW w \in Writers, NEW s \in Streams, NEW v \in 0 .. MaxLines,
         Invoke(w, s, v)
  PROVE  Promise!Next
<1>1. /\ pc \in [Writers -> {"idle", "opening"} \cup Critical]
      /\ DOMAIN request = Writers /\ answer \in [Writers -> Results \cup {"none"}]
  BY DEF DraftsInv, JournalInv, TypeOK
<1>2. /\ pc[w] = "idle" /\ pc'[w] = "opening" /\ file' = file
      /\ request'[w] = [streamId |-> s, expectedVersion |-> v]
      /\ answer'[w] = "none"
      /\ \A x \in Writers \ {w} : /\ pc'[x] = pc[x] /\ request'[x] = request[x]
                                  /\ draft'[x] = draft[x] /\ answer'[x] = answer[x]
  BY <1>1 DEF Invoke
<1>3. CallOf(w) = [state |-> "idle"]
  BY <1>2 DEF CallOf
<1>4. CallOf(w)' = [state |-> "pending", streamId |-> s, expectedVersion |-> v]
  BY <1>2 DEF CallOf, HasStored
<1>5. /\ Log' = Log
      /\ Calls' = [Calls EXCEPT ![w] = [state |-> "pending", streamId |-> s,
                                        expectedVersion |-> v]]
      /\ Told' = [Told EXCEPT ![w] = "none"]
  BY <1>2, <1>4, OneMoves
<1>6. Calls[w] = [state |-> "idle"]
  BY <1>3 DEF Calls
<1>7. Promise!Invoke(w, s, v)
  BY <1>5, <1>6 DEF Promise!Invoke, Promise!Idle, Log, Calls, Told
<1> QED
  BY <1>7 DEF Promise!Next

\* The call ends: "ok" is told only of what is in the log.
LEMMA LeaveRefines ==
  ASSUME DraftsInv, NEW w \in Writers, pc[w] # "idle", Leave(w), file' = file,
         NEW result \in Results, answer' = [answer EXCEPT ![w] = result],
         result = "ok" => HasStored(w)
  PROVE  Promise!Next
<1>1. /\ pc \in [Writers -> {"idle", "opening"} \cup Critical]
      /\ DOMAIN request = Writers /\ DOMAIN draft = Writers
      /\ answer \in [Writers -> Results \cup {"none"}]
  BY DEF DraftsInv, JournalInv, TypeOK
<1>2. /\ pc'[w] = "idle" /\ answer'[w] = result
      /\ \A x \in Writers \ {w} : /\ pc'[x] = pc[x] /\ request'[x] = request[x]
                                  /\ draft'[x] = draft[x] /\ answer'[x] = answer[x]
  BY <1>1 DEF Leave
<1>3. CallOf(w)' = [state |-> "idle"]
  BY <1>2 DEF CallOf
<1>4. /\ Log' = Log
      /\ Calls' = [Calls EXCEPT ![w] = [state |-> "idle"]]
      /\ Told' = [Told EXCEPT ![w] = result]
  BY <1>2, <1>3, OneMoves
<1>5. Calls[w].state # "idle" /\ (result = "ok" => Calls[w].state = "stored")
  BY DEF Calls, CallOf
<1>6. Promise!Return(w, result)
  BY <1>4, <1>5 DEF Promise!Return, Promise!Idle, Log, Calls, Told
<1> QED
  BY <1>6 DEF Promise!Next, Results

\* The log of a file whose whole lines are its first n.
LEMMA LogOfPrefix ==
  ASSUME NEW n \in Nat, file \in Seq(Lines), Whole = 1 .. n, n <= Len(file)
  PROVE  /\ Log \in Seq(Items) /\ Len(Log) = n
         /\ \A s : Promise!StreamLength(Log, s)
                     = Cardinality({i \in 1 .. n : file[i].streamId = s})
<1>1. Log = [i \in 1 .. n |-> Item(file[i])]
  BY LogIsItems
<1>2. \A i \in 1 .. n : Item(file[i]) \in Items /\ Item(file[i]).streamId = file[i].streamId
  <2>1. \A i \in 1 .. n : file[i] \in Lines
    OBVIOUS
  <2> QED
    BY <2>1 DEF Item, Items, Lines
<1>3. /\ Log \in Seq(Items) /\ Len(Log) = n
      /\ DOMAIN Log = 1 .. n /\ \A i \in 1 .. n : Log[i].streamId = file[i].streamId
  BY <1>1, <1>2
<1>4. ASSUME NEW s
      PROVE  Promise!StreamLength(Log, s)
               = Cardinality({i \in 1 .. n : file[i].streamId = s})
  <2>1. {i \in DOMAIN Log : Log[i].streamId = s} = {i \in 1 .. n : file[i].streamId = s}
    BY <1>3
  <2> QED
    BY <2>1 DEF Promise!StreamLength, Promise!Cardinality, Cardinality
<1> QED
  BY <1>3, <1>4

\* The line of w becomes whole: the append takes effect, at the version the
\* stream has at that instant.
LEMMA StoreRefines ==
  ASSUME DraftsInv, NEW w \in Writers, NEW n \in Nat,
         pc[w] \in {"writing", "finishing"},
         pc' = [pc EXCEPT ![w] = "flushing"], UNCHANGED <<request, draft, answer>>,
         file' \in Seq(Lines), Len(file') = n + 1, Ordered(file)', n <= Len(file),
         Whole = 1 .. n,
         \A i \in 1 .. n : file[i].form = "ok" /\ file'[i] = file[i],
         file'[n + 1].form = "ok",
         SameEntry(file'[n + 1], draft[w])
  PROVE  Promise!Next
<1>1. /\ pc \in [Writers -> {"idle", "opening"} \cup Critical]
      /\ file \in Seq(Lines) /\ LockExcludes /\ DraftKnown(w)
  BY DEF DraftsInv, JournalInv, TypeOK
<1>2. /\ draft[w] # << >> /\ draft[w].writer = w
      /\ draft[w].streamId = request[w].streamId
      /\ draft[w].version = request[w].expectedVersion
  BY <1>1 DEF DraftKnown
<1>3. Whole' = 1 .. n + 1
  BY DEF Whole
<1>4. \A x \in Writers \ {w} : CallOf(x)' = CallOf(x)
  <2>1. \A x \in Writers \ {w} : pc'[x] = pc[x] /\ pc[x] \notin {"flushing", "closing"}
    BY <1>1 DEF LockExcludes, Critical
  <2> QED
    BY <2>1 DEF CallOf, HasStored
<1>5. /\ Calls[w] = [state |-> "pending", streamId |-> request[w].streamId,
                     expectedVersion |-> request[w].expectedVersion]
      /\ CallOf(w)' = [state |-> "stored", streamId |-> request[w].streamId,
                       expectedVersion |-> request[w].expectedVersion]
  <2>1. ~HasStored(w)
    BY DEF HasStored
  <2>2. HasStored(w)'
    BY <1>1, <1>2, <1>3 DEF HasStored, SameEntry, Hash
  <2>3. pc'[w] = "flushing"
    BY <1>1
  <2> QED
    BY <2>1, <2>2, <2>3 DEF Calls, CallOf
<1>6. Calls' = [Calls EXCEPT ![w].state = "stored"]
  <2>1. Calls' = [x \in Writers |-> IF x = w THEN CallOf(w)' ELSE Calls[x]]
    BY <1>4 DEF Calls
  <2>2. CallOf(w)' = [Calls[w] EXCEPT !.state = "stored"]
    BY <1>5
  <2> QED
    BY <2>1, <2>2 DEF Calls
<1>7. Told' = Told
  BY <1>1 DEF Told
<1>8. /\ Log \in Seq(Items) /\ Len(Log) = n
      /\ \A s : Promise!StreamLength(Log, s)
                  = Cardinality({i \in 1 .. n : file[i].streamId = s})
  BY <1>1, LogOfPrefix
<1>9. Promise!StreamLength(Log, request[w].streamId) = request[w].expectedVersion
  <2>1. InOrder(file', n + 1)
    BY DEF Ordered
  <2>2. Earlier(file', n + 1) = {i \in 1 .. n : file[i].streamId = request[w].streamId}
    BY <1>2 DEF Earlier, SameEntry
  <2>3. file'[n + 1].version = request[w].expectedVersion
    BY <1>2 DEF SameEntry
  <2> QED
    BY <1>8, <2>1, <2>2, <2>3 DEF InOrder
<1>10. Log' = Append(Log, [streamId |-> request[w].streamId,
                           version |-> request[w].expectedVersion, writer |-> w])
  <2> DEFINE item == [streamId |-> request[w].streamId,
                      version |-> request[w].expectedVersion, writer |-> w]
  <2>1. Item(file'[n + 1]) = item
    BY <1>2 DEF Item, SameEntry
  <2>2. Log = [i \in 1 .. n |-> Item(file[i])]
    BY LogIsItems
  <2>3. Log' = [i \in 1 .. n + 1 |-> Item(file'[i])]
    BY <1>3 DEF Log, Item
  <2>4. item \in Items
    <3>1. file'[n + 1] \in Lines
      OBVIOUS
    <3> QED
      BY <2>1, <3>1 DEF Item, Items, Lines
  <2> HIDE DEF item
  <2>5. Append(Log, item) = [i \in 1 .. n + 1 |-> IF i = n + 1 THEN item ELSE Log[i]]
    <3>1. PICK log \in Seq(Items) : log = Log
      BY <1>8
    <3>2. PICK longer \in Seq(Items) : longer = Append(log, item)
      <4>1. Append(log, item) \in Seq(Items)
        BY <2>4
      <4> QED
        BY <4>1, Zenon
    <3>3. /\ Len(longer) = n + 1
          /\ \A i \in 1 .. n + 1 : longer[i] = IF i = n + 1 THEN item ELSE log[i]
      BY <1>8, <2>4, <3>1, <3>2
    <3>4. longer = [i \in 1 .. Len(longer) |-> longer[i]]
      OBVIOUS
    <3>5. longer = [i \in 1 .. n + 1 |-> IF i = n + 1 THEN item ELSE log[i]]
      BY <3>3, <3>4
    <3> QED
      BY <3>1, <3>2, <3>5
  <2>6. \A i \in 1 .. n + 1 : Item(file'[i]) = IF i = n + 1 THEN item ELSE Log[i]
    BY <2>1, <2>2
  <2>7. Log' = Append(Log, item)
    BY <2>3, <2>5, <2>6
  <2> QED
    BY <2>7 DEF item
<1>11. Promise!Store(w)
  BY <1>5, <1>6, <1>7, <1>9, <1>10 DEF Promise!Store, Log, Calls, Told
<1> QED
  BY <1>11 DEF Promise!Next

\* A line cut short is not in the log yet.
LEMMA PartUnseen ==
  ASSUME DraftsInv, NEW w \in Writers, pc[w] = "writing",
         pc' = [pc EXCEPT ![w] = "finishing"], UNCHANGED <<request, draft, answer>>,
         file' \in Seq(Lines), Len(file') = Len(file) + 1,
         \A i \in 1 .. Len(file) : file[i].form = "ok" /\ file'[i] = file[i],
         file'[Len(file) + 1].form # "ok"
  PROVE  UNCHANGED Promise!vars
<1>1. /\ pc \in [Writers -> {"idle", "opening"} \cup Critical]
      /\ file \in Seq(Lines) /\ LockExcludes
  BY DEF DraftsInv, JournalInv, TypeOK
<1>2. Whole = 1 .. Len(file) /\ Whole' = 1 .. Len(file)
  BY <1>1 DEF Whole
<1>3. Log' = Log
  BY <1>2 DEF Log
<1>4. \A x \in Writers : /\ pc'[x] = "idle" <=> pc[x] = "idle"
                         /\ pc[x] \notin {"flushing", "closing"}
                         /\ pc'[x] \notin {"flushing", "closing"}
  BY <1>1 DEF LockExcludes, Critical
<1>5. \A x \in Writers : CallOf(x)' = CallOf(x)
  BY <1>4 DEF CallOf, HasStored
<1>6. Calls' = Calls /\ Told' = Told
  BY <1>4, <1>5 DEF Calls, Told
<1> QED
  BY <1>3, <1>6 DEF Promise!vars, Log, Calls, Told

\* While a writer's line is not whole, no line of the file has its hash.
LEMMA NotStoredYet ==
  ASSUME DraftsInv, NEW w \in Writers, pc[w] \in {"writing", "finishing"}, ~Ruined
  PROVE  \A i \in Whole : Hash(file[i]) # Hash(draft[w])
<1> SUFFICES ASSUME NEW i \in Whole, Hash(file[i]) = Hash(draft[w])
             PROVE  FALSE
  OBVIOUS
<1>1. /\ file \in Seq(Lines) /\ i \in 1 .. Len(file) /\ file[i].form = "ok"
      /\ file[i].sequence = i
  BY DEF Whole, DraftsInv, JournalInv, TypeOK, Ordered, InOrder
<1>2. draft[w].sequence = i
  BY <1>1 DEF Hash
<1>3. CASE pc[w] = "writing"
  <2>1. draft[w] = Built(w)
    BY <1>3 DEF DraftsInv, JournalInv, WriterKnows
  <2>2. draft[w].sequence = Len(file) + 1
    BY <2>1 DEF Built
  <2> QED
    BY <1>1, <1>2, <2>2
<1>4. CASE pc[w] = "finishing"
  <2>1. Unfinished(w)
    BY <1>4 DEF DraftsInv, DraftKnown
  <2>2. Len(file) \in 1 .. Len(file)
    BY <1>1
  <2>3. file[Len(file)].sequence = Len(file)
    BY <2>2 DEF DraftsInv, JournalInv, Ordered, InOrder
  <2>4. i = Len(file)
    BY <1>2, <2>1, <2>3 DEF Unfinished, SameEntry
  <2> QED
    BY <1>1, <2>1, <2>4 DEF Unfinished
<1> QED
  BY <1>3, <1>4

\* Each step of a writer is a step of the promise, or is not seen, or leaves
\* two entries glued.
LEMMA StepRefines ==
  ASSUME DraftsInv, DraftsInv', NEW w \in Writers, Step(w), ~Ruined'
  PROVE  Promise!Next \/ UNCHANGED Promise!vars
<1>1. /\ pc \in [Writers -> {"idle", "opening"} \cup Critical]
      /\ file \in Seq(Lines) /\ Len(file) \in Nat
      /\ DOMAIN request = Writers /\ DOMAIN draft = Writers
      /\ answer \in [Writers -> Results \cup {"none"}]
      /\ DraftKnown(w)
  BY DEF DraftsInv, JournalInv, TypeOK
<1>2. CASE AcquireLock(w)
  <2>1. ~HasStored(w) /\ ~HasStored(w)'
    BY <1>1, <1>2 DEF AcquireLock, HasStored
  <2> QED
    BY <1>1, <1>2, <2>1, Unseen DEF AcquireLock
<1>3. CASE LockFails(w)
  BY <1>1, <1>3, LeaveRefines DEF LockFails, Results
<1>4. CASE Build(w)
  <2>1. ~HasStored(w) /\ ~HasStored(w)'
    BY <1>1, <1>4 DEF Build, HasStored
  <2> QED
    BY <1>1, <1>4, <2>1, Unseen DEF Build
<1>5. CASE Refuse(w)
  <2>1. ~HasStored(w) /\ ~HasStored(w)'
    BY <1>1, <1>5 DEF Refuse, HasStored, DraftKnown
  <2> QED
    BY <1>1, <1>5, <2>1, Unseen DEF Refuse
<1>6. CASE Write(w)
  <2>1. [draft[w] EXCEPT !.form = "ok"] = draft[w]
    BY <1>1, <1>6 DEF Write, DraftKnown, Lines
  <2>2. file' = Written([draft[w] EXCEPT !.form = "ok"])
    BY <1>6, <2>1 DEF Write
  <2>3. /\ file' \in Seq(Lines) /\ Len(file') = Len(file) + 1
        /\ \A i \in 1 .. Len(file) : file[i].form = "ok" /\ file'[i] = file[i]
        /\ file'[Len(file) + 1].form = "ok"
        /\ SameEntry(file'[Len(file) + 1], draft[w])
    BY <1>6, <2>2, WrittenLine DEF Write
  <2>4. Whole = 1 .. Len(file)
    BY <1>1, <2>3 DEF Whole
  <2>5. Ordered(file)'
    BY DEF DraftsInv, JournalInv
  <2>6. PICK n \in Nat : n = Len(file)
    BY <1>1, Zenon
  <2>7. n <= Len(file)
    BY <2>6
  <2> QED
    BY <1>1, <1>6, <2>3, <2>4, <2>5, <2>6, <2>7, StoreRefines DEF Write
<1>7. CASE WriteRest(w)
  <2>1. /\ file' \in Seq(Lines) /\ Len(file') = Len(file) /\ Len(file) \in Nat \ {0}
        /\ \A i \in 1 .. Len(file) - 1 : file[i].form = "ok" /\ file'[i] = file[i]
        /\ file[Len(file)].form # "ok"
        /\ file'[Len(file)].form = "ok"
        /\ SameEntry(file'[Len(file)], draft[w])
    BY <1>7, FinishedLine
  <2>a. Len(file) - 1 \in Nat
    BY <2>1
  <2>b. PICK n \in Nat : n = Len(file) - 1
    BY <2>a, Zenon
  <2>2. n = Len(file) - 1 /\ n + 1 = Len(file) /\ n <= Len(file)
    BY <2>1, <2>b
  <2>3. Whole = 1 .. n
    BY <1>1, <2>1, <2>2 DEF Whole
  <2>4. Ordered(file)'
    BY DEF DraftsInv, JournalInv
  <2> QED
    BY <1>1, <1>7, <2>1, <2>2, <2>3, <2>4, StoreRefines DEF WriteRest
<1>8. CASE WriteFails(w)
  <2>1. file' = file /\ draft' = draft /\ ~Ruined
    BY <1>8 DEF WriteFails, Ruined
  <2>2. CASE pc[w] = "flushing"
    BY <1>1, <1>8, <2>2, Unseen DEF WriteFails, HasStored, Whole
  <2>3. CASE pc[w] \in {"writing", "finishing"}
    <3>1. ~HasStored(w) /\ ~HasStored(w)'
      BY <2>1, <2>3, NotStoredYet DEF HasStored, Whole
    <3> QED
      BY <1>1, <1>8, <3>1, Unseen DEF WriteFails
  <2> QED
    BY <1>8, <2>2, <2>3 DEF WriteFails
<1>9. CASE Flushed(w)
  BY <1>1, <1>9, Unseen DEF Flushed, HasStored, Whole
<1>10. CASE Release(w)
  <2>1. file' = file /\ ~Ruined
    BY <1>10 DEF Release, Ruined
  <2>2. answer[w] = "ok" => HasStored(w)
    BY <1>1, <1>10, <2>1 DEF Release, DraftKnown
  <2>3. pc[w] = "closing" /\ answer' = [answer EXCEPT ![w] = answer[w]]
    BY <1>1, <1>10 DEF Release
  <2>4. answer[w] \in Results
    BY <1>1, <1>10 DEF Release, DraftKnown
  <2> QED
    BY <1>10, <2>1, <2>2, <2>3, <2>4, LeaveRefines DEF Release
<1>11. CASE ReleaseFails(w)
  BY <1>1, <1>11, LeaveRefines DEF ReleaseFails, Results
<1>12. ASSUME NEW f \in CutForms, WritePart(w, f)
       PROVE  UNCHANGED Promise!vars
  <2>1. /\ file' \in Seq(Lines) /\ Len(file') = Len(file) + 1
        /\ \A i \in 1 .. Len(file) : file[i].form = "ok" /\ file'[i] = file[i]
        /\ file'[Len(file) + 1].form = f /\ f # "ok"
    BY <1>12, WrittenLine, CutFormsAreForms DEF WritePart
  <2> QED
    BY <1>12, <2>1, PartUnseen DEF WritePart
<1> QED
  BY <1>2, <1>3, <1>4, <1>5, <1>6, <1>7, <1>8, <1>9, <1>10, <1>11, <1>12 DEF Step

\* The file journal keeps the promise of a versioned log: every append takes
\* effect at most once, atomically, at the expected version, between its call
\* and its return, and "ok" is told only of what took effect, unless two
\* entries are glued into one line.
THEOREM ImplementsVersionedLog == Spec => AppendsAreAtomic
<1>1. Init => Promise!Init
  <2> SUFFICES ASSUME Init PROVE Promise!Init
    OBVIOUS
  <2>1. Log = << >>
    BY DEF Init, Log, Whole
  <2>2. Calls = [w \in Writers |-> [state |-> "idle"]]
    BY DEF Init, Calls, CallOf
  <2>3. Told = [w \in Writers |-> "none"]
    BY DEF Init, Told
  <2> QED
    BY <2>1, <2>2, <2>3 DEF Promise!Init, Promise!Idle, Log, Calls, Told
<1>2. ASSUME DraftsInv, DraftsInv', [Next]_vars
      PROVE  [Glued' \/ Promise!Next]_(Promise!vars)
  <2>1. CASE UNCHANGED vars
    <3>1. Log' = Log
      BY <2>1 DEF vars, Log, Whole
    <3>2. Calls' = Calls
      BY <2>1 DEF vars, Calls, CallOf, HasStored, Whole
    <3>3. Told' = Told
      BY <2>1 DEF vars, Told
    <3> QED
      BY <3>1, <3>2, <3>3 DEF Promise!vars, Log, Calls, Told
  <2>2. CASE Ruined'
    <3>1. file' \in Seq(Lines)
      BY <1>2 DEF DraftsInv, JournalInv, TypeOK
    <3>2. file' # << >> => Len(file') \in DOMAIN file'
      BY <3>1
    <3> QED
      BY <2>2, <3>2 DEF Ruined, Glued
  <2>3. ASSUME NEW w \in Writers, Step(w), ~Ruined'
        PROVE  Promise!Next \/ UNCHANGED Promise!vars
    BY <1>2, <2>3, StepRefines
  <2>4. ASSUME NEW w \in Writers, Crash(w) PROVE Promise!Next
    BY <1>2, <2>4, LeaveRefines DEF Crash, Results
  <2>5. ASSUME NEW w \in Writers, NEW s \in Streams, NEW v \in 0 .. MaxLines,
               Invoke(w, s, v)
        PROVE  Promise!Next
    BY <1>2, <2>5, InvokeRefines
  <2> QED
    BY <1>2, <2>1, <2>2, <2>3, <2>4, <2>5 DEF Next
<1> QED
  BY <1>1, <1>2, DraftsInductive, PTL DEF Spec, AppendsAreAtomic

-----------------------------------------------------------------------------
(***************************************************************************)
(* DurableControlPlane, over the promise of the journal.                   *)
(***************************************************************************)

(***************************************************************************)
(* The invariant.                                                          *)
(***************************************************************************)
Entries  == [streamId : Orders, payload : Snapshots]
Commands == [state : {"ready", "stored"}, order : Orders, version : Nat,
             next : Snapshots]
Answers  == [order : Orders, version : Nat, snapshot : Snapshots]

Shapes ==
  /\ journal \in Seq(Entries)
  /\ command \in [Clients -> {NoCommand} \cup Commands]
  /\ returned \in {NoAnswer} \cup Answers

IsLast(o, i) == i \in Positions(o) /\ \A j \in Positions(o) : j <= i

\* The CHOOSE of Latest has something to choose.
HasLast == \A o \in Orders : Exists(o) => \E i \in DOMAIN journal : IsLast(o, i)

\* What the rules allow on the order as it is now.
Legal(o, next) ==
  \E a \in Callers :
    \/ /\ ~Exists(o)
       /\ CanCreate(a)
       /\ \E m \in Metadata : next = Created(m, a)
    \/ /\ Exists(o)
       /\ Len(Latest(o).audit) < MaxAudit
       /\ next \in Successors(Latest(o), a)

\* A command that still holds the current version was computed from the
\* current snapshot: the order has not moved since it was read.
ReadyIsLegal ==
  \A c \in Clients, k \in Commands :
    command[c] = k /\ k.state = "ready" =>
      /\ k.version <= Version(k.order)
      /\ k.version = Version(k.order) => Legal(k.order, k.next)

\* How many entries of the stream there are up to position i.
Rank(o, i) == Cardinality({j \in Positions(o) : j <= i})

\* The snapshot is in the journal, right after `version` others of its order.
At(o, version, snapshot) ==
  \E i \in DOMAIN journal :
    /\ i \in Positions(o)
    /\ Rank(o, i) = version + 1
    /\ journal[i].payload = snapshot

StoredIsThere ==
  \A c \in Clients, k \in Commands :
    command[c] = k /\ k.state = "stored" => At(k.order, k.version, k.next)

ReturnedIsThere ==
  \A k \in Answers : returned = k => At(k.order, k.version, k.snapshot)

DurableInv == Shapes /\ HasLast /\ ReadyIsLegal /\ StoredIsThere /\ ReturnedIsThere

-----------------------------------------------------------------------------
(***************************************************************************)
(* Positions, versions and ranks, and what one append does to them.        *)
(***************************************************************************)
LEMMA PositionsFinite ==
  ASSUME Shapes, NEW o
  PROVE  /\ Positions(o) \subseteq 1..Len(journal)
         /\ Len(journal) \in Nat
         /\ \A S \in SUBSET Positions(o) : IsFiniteSet(S) /\ Cardinality(S) \in Nat
         /\ Version(o) \in Nat
         /\ Version(o) = 0 <=> ~Exists(o)
<1>1. Positions(o) \subseteq 1..Len(journal) /\ Len(journal) \in Nat
  BY DEF Shapes, Positions
<1>2. IsFiniteSet(1..Len(journal))
  BY <1>1, FS_Interval
<1>3. ASSUME NEW S \in SUBSET Positions(o)
      PROVE  IsFiniteSet(S) /\ Cardinality(S) \in Nat
  <2>1. IsFiniteSet(S)
    BY <1>1, <1>2, FS_Subset
  <2> QED
    BY <2>1, FS_CardinalityType
<1>4. IsFiniteSet(Positions(o)) /\ Version(o) \in Nat
  BY <1>3 DEF Version
<1>5. Version(o) = 0 <=> ~Exists(o)
  BY <1>4, FS_EmptySet DEF Version, Exists
<1> QED
  BY <1>1, <1>3, <1>4, <1>5

\* Two entries of one order never have the same rank.
LEMMA RankIsInjective ==
  ASSUME Shapes, NEW o, NEW i \in Positions(o), NEW k \in Positions(o), i < k
  PROVE  Rank(o, i) < Rank(o, k)
<1> DEFINE S == {j \in Positions(o) : j <= i}
           T == {j \in Positions(o) : j <= k}
<1>1. /\ Positions(o) \subseteq Nat
      /\ IsFiniteSet(T) /\ Cardinality(S) \in Nat /\ Cardinality(T) \in Nat
  BY PositionsFinite
<1>2. S \in SUBSET T /\ k \in T /\ k \notin S
  BY <1>1
<1>3. Cardinality(S) <= Cardinality(T) /\ (Cardinality(S) = Cardinality(T) => T = S)
  BY <1>1, <1>2, FS_Subset
<1>4. Cardinality(S) < Cardinality(T)
  BY <1>1, <1>2, <1>3
<1> QED
  BY <1>4 DEF Rank

LEMMA AtIsNth ==
  ASSUME Shapes, NEW o, NEW version \in Nat, NEW snapshot,
         At(o, version, snapshot)
  PROVE  version < Version(o) /\ Nth(o, version + 1) = snapshot
<1>1. PICK i \in DOMAIN journal : /\ i \in Positions(o)
                                  /\ Rank(o, i) = version + 1
                                  /\ journal[i].payload = snapshot
  BY DEF At
<1>2. \A k \in Positions(o) : Rank(o, k) = version + 1 => k = i
  <2> SUFFICES ASSUME NEW k \in Positions(o), Rank(o, k) = version + 1, k # i
               PROVE  FALSE
    OBVIOUS
  <2>1. k \in Nat /\ i \in Nat
    BY <1>1, PositionsFinite
  <2>2. CASE k < i
    BY <1>1, <2>2, RankIsInjective
  <2>3. CASE i < k
    BY <1>1, <2>3, RankIsInjective
  <2> QED
    BY <2>1, <2>2, <2>3
<1>3. (CHOOSE k \in Positions(o) :
         Cardinality({j \in Positions(o) : j <= k}) = version + 1) = i
  BY <1>1, <1>2 DEF Rank
<1>4. Nth(o, version + 1) = snapshot
  BY <1>1, <1>3 DEF Nth
<1>5. IsFiniteSet(Positions(o)) /\ Version(o) \in Nat
  BY PositionsFinite
<1>6. {j \in Positions(o) : j <= i} \in SUBSET Positions(o)
  OBVIOUS
<1>7. Rank(o, i) <= Version(o)
  BY <1>5, <1>6, FS_Subset DEF Rank, Version
<1> QED
  BY <1>1, <1>4, <1>5, <1>7

\* An append adds one position to its own order and none to the others.
LEMMA AppendMoves ==
  ASSUME Shapes, NEW e \in Entries, journal' = Append(journal, e), NEW o
  PROVE  /\ journal' \in Seq(Entries)
         /\ Len(journal) + 1 \in DOMAIN journal'
         /\ journal'[Len(journal) + 1] = e
         /\ \A i \in DOMAIN journal : i \in DOMAIN journal' /\ journal'[i] = journal[i]
         /\ Len(journal) + 1 \notin Positions(o)
         /\ Positions(o)' = IF e.streamId = o
                            THEN Positions(o) \cup {Len(journal) + 1}
                            ELSE Positions(o)
         /\ Version(o)' = IF e.streamId = o THEN Version(o) + 1 ELSE Version(o)
         /\ Exists(o)' <=> (e.streamId = o \/ Exists(o))
<1>1. /\ journal \in Seq(Entries) /\ Len(journal) \in Nat
      /\ DOMAIN journal = 1..Len(journal)
  BY DEF Shapes
<1>2. /\ journal' \in Seq(Entries)
      /\ DOMAIN journal' = 1..(Len(journal) + 1)
      /\ journal'[Len(journal) + 1] = e
      /\ \A i \in DOMAIN journal : journal'[i] = journal[i]
  BY <1>1
<1>3. Len(journal) + 1 \notin Positions(o)
  BY <1>1 DEF Positions
<1>4. Positions(o)' = IF e.streamId = o
                      THEN Positions(o) \cup {Len(journal) + 1}
                      ELSE Positions(o)
  BY <1>1, <1>2 DEF Positions
<1>5. IsFiniteSet(Positions(o))
  BY PositionsFinite
<1>6. Version(o)' = IF e.streamId = o THEN Version(o) + 1 ELSE Version(o)
  BY <1>3, <1>4, <1>5, FS_AddElement DEF Version
<1> QED
  BY <1>1, <1>2, <1>3, <1>4, <1>6 DEF Exists

\* What is in the journal stays, at its rank.
LEMMA AtStays ==
  ASSUME Shapes, NEW e \in Entries, journal' = Append(journal, e),
         NEW o, NEW version, NEW snapshot, At(o, version, snapshot)
  PROVE  At(o, version, snapshot)'
<1>1. PICK i \in DOMAIN journal : /\ i \in Positions(o)
                                  /\ Rank(o, i) = version + 1
                                  /\ journal[i].payload = snapshot
  BY DEF At
<1>2. i \in Nat /\ i < Len(journal) + 1 /\ Len(journal) + 1 \in Nat
  BY <1>1, PositionsFinite
<1>3. /\ i \in DOMAIN journal' /\ journal'[i] = journal[i]
      /\ Positions(o)' = Positions(o) \/ Positions(o)' = Positions(o) \cup {Len(journal) + 1}
  BY AppendMoves
<1>4. {j \in Positions(o) : j <= i}' = {j \in Positions(o) : j <= i}
  BY <1>2, <1>3
<1>5. Rank(o, i)' = Rank(o, i)
  BY <1>4 DEF Rank
<1> QED
  BY <1>1, <1>3, <1>5 DEF At

-----------------------------------------------------------------------------
(***************************************************************************)
(* The latest snapshot.                                                    *)
(***************************************************************************)
LEMMA LatestIsSnapshot ==
  ASSUME Shapes, HasLast, NEW o \in Orders, Exists(o)
  PROVE  Latest(o) \in Snapshots
<1> DEFINE i == CHOOSE k \in Positions(o) : \A j \in Positions(o) : j <= k
<1>1. i \in Positions(o)
  BY DEF HasLast, IsLast
<1>2. i \in DOMAIN journal
  BY <1>1 DEF Positions
<1>3. journal[i] \in Entries
  BY <1>2 DEF Shapes
<1> QED
  BY <1>3 DEF Latest, Entries

\* After an append its own order has the new snapshot, every other its old one.
LEMMA AppendLatest ==
  ASSUME Shapes, HasLast, NEW e \in Entries, journal' = Append(journal, e),
         NEW o \in Orders
  PROVE  /\ (Exists(o) => \E i \in DOMAIN journal : IsLast(o, i))'
         /\ e.streamId = o => Latest(o)' = e.payload
         /\ e.streamId # o /\ Exists(o) => Latest(o)' = Latest(o)
<1> DEFINE n == Len(journal) + 1
<1>1. Positions(o) \subseteq 1..Len(journal) /\ Len(journal) \in Nat
  BY PositionsFinite
<1>2. /\ n \in DOMAIN journal' /\ journal'[n] = e
      /\ \A i \in DOMAIN journal : i \in DOMAIN journal' /\ journal'[i] = journal[i]
      /\ Exists(o)' <=> (e.streamId = o \/ Exists(o))
  BY AppendMoves
<1>3. CASE e.streamId = o
  <2>1. Positions(o)' = Positions(o) \cup {n}
    BY <1>3, AppendMoves
  <2>2. n \in Positions(o)' /\ \A j \in Positions(o)' : j <= n
    BY <1>1, <2>1
  <2>3. \A k \in Positions(o)' : (\A j \in Positions(o)' : j <= k) => k = n
    BY <1>1, <2>1
  <2>4. (CHOOSE k \in Positions(o)' : \A j \in Positions(o)' : j <= k) = n
    BY <2>2, <2>3
  <2>5. Latest(o)' = e.payload
    BY <1>2, <2>4 DEF Latest
  <2> QED
    BY <1>2, <1>3, <2>2, <2>5 DEF IsLast
<1>4. CASE e.streamId # o
  <2>1. Positions(o)' = Positions(o)
    BY <1>4, AppendMoves
  <2>2. Exists(o) => Latest(o)' = Latest(o)
    <3> SUFFICES ASSUME Exists(o) PROVE Latest(o)' = Latest(o)
      OBVIOUS
    <3>1. PICK i \in DOMAIN journal : IsLast(o, i)
      BY DEF HasLast
    <3>2. \A k \in Positions(o) : (\A j \in Positions(o) : j <= k) => k = i
      BY <1>1, <3>1 DEF IsLast
    <3>3. (CHOOSE k \in Positions(o) : \A j \in Positions(o) : j <= k) = i
      BY <3>1, <3>2 DEF IsLast
    <3>4. (CHOOSE k \in Positions(o)' : \A j \in Positions(o)' : j <= k) = i
      BY <2>1, <3>1, <3>2 DEF IsLast
    <3> QED
      BY <1>2, <3>1, <3>3, <3>4 DEF Latest
  <2>3. (Exists(o) => \E i \in DOMAIN journal : IsLast(o, i))'
    BY <1>2, <1>4, <2>1 DEF HasLast, IsLast
  <2> QED
    BY <1>4, <2>2, <2>3
<1> QED
  BY <1>3, <1>4

-----------------------------------------------------------------------------
(***************************************************************************)
(* What the rules make of a snapshot is a snapshot.                        *)
(***************************************************************************)
LEMMA WithAuditIsSnapshot ==
  ASSUME NEW s \in Snapshots, NEW a \in Callers,
         NEW action, NEW subject, Entry(a, action, subject) \in AuditEntries
  PROVE  WithAudit(s, a, action, subject) \in Snapshots
<1>1. Append(s.audit, Entry(a, action, subject)) \in Seq(AuditEntries)
  BY DEF Snapshots
<1> QED
  BY <1>1 DEF WithAudit, Snapshots

LEMMA CreatedIsSnapshot ==
  ASSUME NEW m \in Metadata, NEW a \in Callers
  PROVE  Created(m, a) \in Snapshots
<1> DEFINE s == [status |-> "draft", implementerId |-> Nobody, metadata |-> m,
                 evidence |-> {}, decisions |-> << >>, audit |-> << >>]
<1>1. s \in Snapshots
  BY DEF Snapshots, Statuses
<1>2. Entry(a, "work-order.created", "-") \in AuditEntries
  BY CallersAreActors DEF Entry, AuditEntries, Actors
<1> HIDE DEF s
<1>3. WithAudit(s, a, "work-order.created", "-") \in Snapshots
  BY <1>1, <1>2, WithAuditIsSnapshot
<1> QED
  BY <1>3 DEF Created, s

LEMMA SuccessorsAreSnapshots ==
  ASSUME NEW s \in Snapshots, NEW a \in Callers, NEW next \in Successors(s, a)
  PROVE  next \in Snapshots
<1>1. a.id \in People /\ a.role \in Roles
  BY CallersAreActors DEF Actors
<1>2. ASSUME NEW to \in Statuses, CanTransition(s, to, a)
      PROVE  Transitioned(s, to, a) \in Snapshots
  <2> DEFINE t == [s EXCEPT !.status = to,
                            !.implementerId = IF to = "running" THEN a.id ELSE @]
  <2>1. t \in Snapshots
    BY <1>1 DEF Snapshots
  <2>2. to \in {"approved", "running", "failed", "blocked"}
    BY <1>2 DEF CanTransition, AllowedTransitions, Snapshots, Statuses
  <2>3. Entry(a, ActionFor(to), "-") \in AuditEntries
    BY <1>1, <2>2 DEF Entry, ActionFor, AuditEntries
  <2> HIDE DEF t
  <2>4. WithAudit(t, a, ActionFor(to), "-") \in Snapshots
    BY <2>1, <2>3, WithAuditIsSnapshot
  <2> QED
    BY <2>4 DEF Transitioned, t
<1>3. ASSUME NEW e \in Evidence
      PROVE  EvidenceRecorded(s, e, a) \in Snapshots
  <2> DEFINE t == [s EXCEPT !.evidence = @ \cup {e}]
  <2>1. t \in Snapshots
    BY DEF Snapshots
  <2>2. Entry(a, "evidence.recorded", e.id) \in AuditEntries
    BY <1>1 DEF Entry, AuditEntries, Evidence
  <2> HIDE DEF t
  <2>3. WithAudit(t, a, "evidence.recorded", e.id) \in Snapshots
    BY <2>1, <2>2, WithAuditIsSnapshot
  <2> QED
    BY <2>3 DEF EvidenceRecorded, t
<1>4. ASSUME NEW d \in Decisions
      PROVE  Decided(s, d, a) \in Snapshots
  <2> DEFINE t == [s EXCEPT !.status = StatusAfterDecision(s, d),
                            !.decisions = Append(@, d)]
  <2>1. StatusAfterDecision(s, d) \in Statuses
    BY DEF StatusAfterDecision, Statuses, Snapshots
  <2>2. Append(s.decisions, d) \in Seq(Decisions)
    BY DEF Snapshots
  <2>3. t \in Snapshots
    BY <2>1, <2>2 DEF Snapshots
  <2>4. Entry(a, GateAction(d.status), d.gate) \in AuditEntries
    BY <1>1 DEF Entry, GateAction, AuditEntries, Decisions, Verdicts
  <2> HIDE DEF t
  <2>5. WithAudit(t, a, GateAction(d.status), d.gate) \in Snapshots
    BY <2>3, <2>4, WithAuditIsSnapshot
  <2> QED
    BY <2>5 DEF Decided, t
<1>5. ASSUME NEW m \in Metadata
      PROVE  MetadataUpdated(s, m, a) \in Snapshots
  <2> DEFINE t == [s EXCEPT !.metadata = m]
  <2>1. t \in Snapshots
    BY DEF Snapshots
  <2>2. Entry(a, "projection-metadata.updated", "-") \in AuditEntries
    BY <1>1 DEF Entry, AuditEntries
  <2> HIDE DEF t
  <2>3. WithAudit(t, a, "projection-metadata.updated", "-") \in Snapshots
    BY <2>1, <2>2, WithAuditIsSnapshot
  <2> QED
    BY <2>3 DEF MetadataUpdated, t
<1> QED
  BY <1>2, <1>3, <1>4, <1>5 DEF Successors

-----------------------------------------------------------------------------
(***************************************************************************)
(* Every step keeps the invariant.                                         *)
(***************************************************************************)

LEMMA JournalStays ==
  ASSUME DurableInv, UNCHANGED journal
  PROVE  /\ HasLast'
         /\ \A o : Version(o)' = Version(o)
         /\ \A o, next : Legal(o, next) => Legal(o, next)'
         /\ \A o, v, s : At(o, v, s) => At(o, v, s)'
<1>1. \A o : Positions(o)' = Positions(o)
  BY DEF Positions
<1>2. \A o : /\ Version(o)' = Version(o)
             /\ Exists(o)' <=> Exists(o)
             /\ Latest(o)' = Latest(o)
  BY DEF Version, Exists, Latest, Positions
<1>3. HasLast'
  BY <1>1, <1>2 DEF DurableInv, HasLast, IsLast
<1>4. \A o, next : Legal(o, next) => Legal(o, next)'
  BY <1>2 DEF Legal
<1>5. \A o, v, s : At(o, v, s) => At(o, v, s)'
  BY DEF At, Rank, Positions
<1> QED
  BY <1>2, <1>3, <1>4, <1>5

\* A command gets ready, or ends: the journal does not move.
LEMMA CommandMoves ==
  ASSUME DurableInv, NEW c \in Clients, NEW new \in {NoCommand} \cup Commands,
         command' = [command EXCEPT ![c] = new], UNCHANGED journal,
         returned' \in {NoAnswer} \cup Answers, ReturnedIsThere',
         new = NoCommand \/ (/\ new.state = "ready"
                             /\ new.version <= Version(new.order)
                             /\ new.version = Version(new.order) =>
                                  Legal(new.order, new.next))
  PROVE  DurableInv'
<1>1. Shapes'
  BY DEF DurableInv, Shapes
<1>2. command'[c] = new /\ \A x \in Clients \ {c} : command'[x] = command[x]
  BY DEF DurableInv, Shapes
<1>3. \A k \in Commands : k # NoCommand
  BY DEF Commands, NoCommand
<1>4. ReadyIsLegal'
  BY <1>2, <1>3, JournalStays DEF DurableInv, ReadyIsLegal
<1>5. StoredIsThere'
  BY <1>2, <1>3, JournalStays DEF DurableInv, StoredIsThere
<1> QED
  BY <1>1, <1>4, <1>5, JournalStays DEF DurableInv

\* ... and what was told to the last caller is still there.
LEMMA ReturnedStays ==
  ASSUME DurableInv, UNCHANGED <<journal, returned>>
  PROVE  returned' \in {NoAnswer} \cup Answers /\ ReturnedIsThere'
BY JournalStays DEF DurableInv, Shapes, ReturnedIsThere

LEMMA StartCreateKeeps ==
  ASSUME DurableInv, NEW c \in Clients, NEW o \in Orders, NEW m \in Metadata,
         NEW a \in Callers, StartCreate(c, o, m, a)
  PROVE  DurableInv'
<1> DEFINE new == [state |-> "ready", order |-> o, version |-> 0, next |-> Created(m, a)]
<1>1. /\ CanCreate(a)
      /\ command' = [command EXCEPT ![c] = new]
      /\ UNCHANGED <<journal, returned>>
  BY DEF StartCreate
<1>2. new \in Commands
  BY CreatedIsSnapshot DEF Commands
<1>3. Version(o) \in Nat /\ (Version(o) = 0 <=> ~Exists(o))
  BY PositionsFinite DEF DurableInv
<1>4. new.version <= Version(o) /\ (new.version = Version(o) => Legal(o, new.next))
  BY <1>1, <1>3 DEF Legal
<1>5. returned' \in {NoAnswer} \cup Answers /\ ReturnedIsThere'
  BY <1>1, ReturnedStays
<1> HIDE DEF new
<1> QED
  BY <1>1, <1>2, <1>4, <1>5, CommandMoves DEF new

LEMMA StartMutateKeeps ==
  ASSUME DurableInv, NEW c \in Clients, NEW o \in Orders, NEW a \in Callers,
         StartMutate(c, o, a)
  PROVE  DurableInv'
<1>1. Exists(o) /\ Len(Latest(o).audit) < MaxAudit /\ UNCHANGED <<journal, returned>>
  BY DEF StartMutate
<1>2. PICK next \in Successors(Latest(o), a) :
        command' = [command EXCEPT ![c] =
          [state |-> "ready", order |-> o, version |-> Version(o), next |-> next]]
  BY DEF StartMutate
<1>3. Version(o) \in Nat
  BY PositionsFinite DEF DurableInv
<1>4. next \in Snapshots
  BY <1>1, LatestIsSnapshot, SuccessorsAreSnapshots DEF DurableInv
<1>5. PICK new \in Commands :
        new = [state |-> "ready", order |-> o, version |-> Version(o), next |-> next]
  BY <1>3, <1>4 DEF Commands
<1>6. /\ new.state = "ready" /\ new.version <= Version(new.order)
      /\ new.version = Version(new.order) => Legal(new.order, new.next)
  BY <1>1, <1>3, <1>5 DEF Legal
<1>7. returned' \in {NoAnswer} \cup Answers /\ ReturnedIsThere'
  BY <1>1, ReturnedStays
<1> QED
  BY <1>1, <1>2, <1>5, <1>6, <1>7, CommandMoves

LEMMA AnswerKeeps ==
  ASSUME DurableInv, NEW c \in Clients, Answer(c)
  PROVE  DurableInv'
<1>1. /\ command[c].state = "stored"
      /\ returned' = [order |-> command[c].order, version |-> command[c].version,
                      snapshot |-> command[c].next]
      /\ command' = [command EXCEPT ![c] = NoCommand]
      /\ UNCHANGED journal
  BY DEF Answer
<1>2. PICK k \in Commands : command[c] = k
  BY <1>1 DEF DurableInv, Shapes, NoCommand
<1>3. returned' \in Answers
  BY <1>1, <1>2 DEF Commands, Answers
<1>4. At(k.order, k.version, k.next)'
  BY <1>1, <1>2, JournalStays DEF DurableInv, StoredIsThere
<1>5. ReturnedIsThere'
  BY <1>1, <1>2, <1>4 DEF ReturnedIsThere
<1> QED
  BY <1>1, <1>3, <1>5, CommandMoves

LEMMA AbandonKeeps ==
  ASSUME DurableInv, NEW c \in Clients, Abandon(c)
  PROVE  DurableInv'
<1>1. command' = [command EXCEPT ![c] = NoCommand] /\ UNCHANGED <<journal, returned>>
  BY DEF Abandon
<1>2. returned' \in {NoAnswer} \cup Answers /\ ReturnedIsThere'
  BY <1>1, ReturnedStays
<1> QED
  BY <1>1, <1>2, CommandMoves

\* The append moves every command that was computed for the same version of
\* the same order out of date: none of them can be stored any more.
LEMMA StoreKeeps ==
  ASSUME DurableInv, NEW c \in Clients, NEW q \in Commands, command[c] = q, Store(c)
  PROVE  DurableInv'
<1> DEFINE e == [streamId |-> q.order, payload |-> q.next]
           r == [q EXCEPT !.state = "stored"]
<1>1. /\ q.state = "ready" /\ Version(q.order) = q.version
      /\ journal' = Append(journal, e)
      /\ command' = [command EXCEPT ![c] = r]
      /\ UNCHANGED returned
  BY DEF Store
<1>2. Shapes /\ HasLast
  BY DEF DurableInv
<1>3. /\ e \in Entries /\ e.streamId = q.order /\ e.payload = q.next
      /\ q.order \in Orders
      /\ r \in Commands /\ r.state = "stored"
      /\ r.order = q.order /\ r.version = q.version /\ r.next = q.next
  BY DEF Commands, Entries
<1> HIDE DEF e, r
<1>4. command'[c] = r /\ \A x \in Clients \ {c} : command'[x] = command[x]
  BY <1>1, <1>2 DEF Shapes
<1>5. Shapes'
  BY <1>1, <1>2, <1>3, AppendMoves DEF Shapes
<1>6. HasLast'
  BY <1>1, <1>2, <1>3, AppendLatest DEF HasLast
<1>7. \A x : /\ Version(x) \in Nat
             /\ Version(x)' = IF x = q.order THEN Version(x) + 1 ELSE Version(x)
  BY <1>1, <1>2, <1>3, AppendMoves, PositionsFinite
<1>8. ASSUME NEW x \in Orders, x # q.order, NEW next, Legal(x, next)
      PROVE  Legal(x, next)'
  <2>1. Exists(x)' <=> Exists(x)
    BY <1>1, <1>2, <1>3, <1>8, AppendMoves
  <2>2. Exists(x) => Latest(x)' = Latest(x)
    BY <1>1, <1>2, <1>3, <1>8, AppendLatest
  <2> QED
    BY <1>8, <2>1, <2>2 DEF Legal
<1>9. ReadyIsLegal'
  <2> SUFFICES ASSUME NEW x \in Clients, NEW k \in Commands,
                      command'[x] = k, k.state = "ready"
               PROVE  /\ k.version <= Version(k.order)'
                      /\ k.version = Version(k.order)' => Legal(k.order, k.next)'
    BY DEF ReadyIsLegal
  <2>1. command[x] = k
    BY <1>3, <1>4
  <2>2. /\ k.order \in Orders /\ k.version \in Nat /\ k.version <= Version(k.order)
        /\ k.version = Version(k.order) => Legal(k.order, k.next)
    BY <2>1 DEF Commands, DurableInv, ReadyIsLegal
  <2>3. CASE k.order = q.order
    BY <1>7, <2>2, <2>3
  <2>4. CASE k.order # q.order
    BY <1>7, <1>8, <2>2, <2>4
  <2> QED
    BY <2>3, <2>4
<1>10. At(q.order, q.version, q.next)'
  <2>1. PICK n : n = Len(journal) + 1
    OBVIOUS
  <2>2. /\ n \in DOMAIN journal' /\ journal'[n] = e
        /\ Positions(q.order)' = Positions(q.order) \cup {n}
    BY <1>1, <1>2, <1>3, <2>1, AppendMoves
  <2>3. Positions(q.order) \subseteq 1..Len(journal) /\ Len(journal) \in Nat
    BY <1>2, PositionsFinite
  <2>4. {j \in Positions(q.order) : j <= n}' = Positions(q.order)'
    BY <2>1, <2>2, <2>3
  <2>5. Rank(q.order, n)' = Version(q.order)'
    BY <2>4 DEF Rank, Version
  <2>6. Version(q.order)' = q.version + 1
    BY <1>1, <1>7
  <2> QED
    BY <1>3, <2>2, <2>5, <2>6 DEF At
<1>11. StoredIsThere'
  <2> SUFFICES ASSUME NEW x \in Clients, NEW k \in Commands,
                      command'[x] = k, k.state = "stored"
               PROVE  At(k.order, k.version, k.next)'
    BY DEF StoredIsThere
  <2>1. CASE x = c
    BY <1>3, <1>4, <1>10, <2>1
  <2>2. CASE x # c
    <3>1. At(k.order, k.version, k.next)
      BY <1>4, <2>2 DEF DurableInv, StoredIsThere
    <3> QED
      BY <1>1, <1>2, <1>3, <3>1, AtStays
  <2> QED
    BY <2>1, <2>2
<1>12. ReturnedIsThere'
  BY <1>1, <1>2, <1>3, AtStays DEF DurableInv, ReturnedIsThere
<1> QED
  BY <1>5, <1>6, <1>9, <1>11, <1>12 DEF DurableInv

LEMMA InvStep ==
  ASSUME DurableInv, [DurableNext]_durableVars
  PROVE  DurableInv'
<1>1. CASE UNCHANGED durableVars
  <2>1. UNCHANGED <<journal, command, returned>>
    BY <1>1 DEF durableVars
  <2>2. Shapes'
    BY <2>1 DEF DurableInv, Shapes
  <2>3. ReadyIsLegal' /\ StoredIsThere'
    BY <2>1, JournalStays DEF DurableInv, ReadyIsLegal, StoredIsThere
  <2> QED
    BY <2>1, <2>2, <2>3, JournalStays, ReturnedStays DEF DurableInv
<1>2. CASE DurableNext
  <2>1. ASSUME NEW c \in Clients, Store(c) PROVE DurableInv'
    <3>1. command[c] \in Commands
      BY <2>1 DEF Store, DurableInv, Shapes, NoCommand
    <3> QED
      BY <2>1, <3>1, StoreKeeps
  <2> QED
    BY <1>2, <2>1, StartCreateKeeps, StartMutateKeeps, AnswerKeeps, AbandonKeeps
    DEF DurableNext
<1> QED
  BY <1>1, <1>2

LEMMA InvAlways == DurableSpec => []DurableInv
<1>1. DurableInit => DurableInv
  <2> SUFFICES ASSUME DurableInit PROVE DurableInv
    OBVIOUS
  <2>1. /\ journal = << >> /\ returned = NoAnswer
        /\ command = [c \in Clients |-> NoCommand]
    BY DEF DurableInit
  <2>2. Shapes
    BY <2>1 DEF Shapes
  <2>3. HasLast
    BY <2>1 DEF HasLast, Exists, Positions
  <2>4. \A k \in Commands : k # NoCommand
    BY DEF Commands, NoCommand
  <2>5. \A k \in Answers : k # NoAnswer
    BY DEF Answers, NoAnswer
  <2> QED
    BY <2>1, <2>2, <2>3, <2>4, <2>5 DEF DurableInv, ReadyIsLegal, StoredIsThere, ReturnedIsThere
<1> QED
  BY <1>1, InvStep, PTL DEF DurableSpec

\* What a caller was given is in the journal at its version, for good.
THEOREM AnswersStayDurable == DurableSpec => []ReturnedIsDurable
<1>1. DurableInv => ReturnedIsDurable
  <2> SUFFICES ASSUME DurableInv, returned # NoAnswer
               PROVE  /\ returned.version < Version(returned.order)
                      /\ Nth(returned.order, returned.version + 1) = returned.snapshot
    BY DEF ReturnedIsDurable
  <2>1. Shapes /\ returned \in Answers /\ returned.version \in Nat
    BY DEF DurableInv, Shapes, Answers
  <2>2. At(returned.order, returned.version, returned.snapshot)
    BY <2>1 DEF DurableInv, ReturnedIsThere
  <2> QED
    BY <2>1, <2>2, AtIsNth
<1> QED
  BY <1>1, InvAlways, PTL

-----------------------------------------------------------------------------
(***************************************************************************)
(* The refinement.  The abstract map is read off the journal.              *)
(***************************************************************************)
Map == [o \in {x \in Orders : Exists(x)} |-> Latest(o)]

LEMMA InitRefines == DurableInit => Authority!Init
<1> SUFFICES ASSUME DurableInit PROVE Authority!Init
  OBVIOUS
<1>1. \A o : ~Exists(o)
  BY DEF DurableInit, Exists, Positions
<1>2. {x \in Orders : Exists(x)} = {}
  BY <1>1
<1>3. Map = [o \in {} |-> {}]
  BY <1>2 DEF Map
<1> QED
  BY <1>3 DEF Authority!Init, Map

\* The journal does not move, nor does the map.
LEMMA MapStays ==
  ASSUME UNCHANGED journal
  PROVE  UNCHANGED Authority!vars
BY DEF Authority!vars, Latest, Exists, Positions

\* The rules are the same operators on both sides.
LEMMA SameRules ==
  ASSUME NEW s \in Snapshots, NEW a \in Callers
  PROVE  /\ Authority!CanCreate(a) <=> CanCreate(a)
         /\ \A m \in Metadata : Authority!Created(m, a) = Created(m, a)
         /\ \A to \in Statuses :
              /\ Authority!CanTransition(s, to, a) <=> CanTransition(s, to, a)
              /\ Authority!Transitioned(s, to, a) = Transitioned(s, to, a)
         /\ \A e \in Evidence :
              /\ Authority!CanRecordEvidence(s, e) <=> CanRecordEvidence(s, e)
              /\ Authority!EvidenceRecorded(s, e, a) = EvidenceRecorded(s, e, a)
         /\ \A d \in Decisions :
              /\ Authority!CanDecide(s, d, a) <=> CanDecide(s, d, a)
              /\ Authority!Decided(s, d, a) = Decided(s, d, a)
         /\ \A m \in Metadata :
              /\ Authority!CanUpdateMetadata(s, m, a) <=> CanUpdateMetadata(s, m, a)
              /\ Authority!MetadataUpdated(s, m, a) = MetadataUpdated(s, m, a)
<1>1. Authority!CanCreate(a) <=> CanCreate(a)
  BY DEF Authority!CanCreate, CanCreate
<1>2. \A m \in Metadata : Authority!Created(m, a) = Created(m, a)
  BY DEF Authority!Created, Created, Authority!WithAudit, WithAudit,
         Authority!Entry, Entry
<1>3. ASSUME NEW to \in Statuses
      PROVE  /\ Authority!CanTransition(s, to, a) <=> CanTransition(s, to, a)
             /\ Authority!Transitioned(s, to, a) = Transitioned(s, to, a)
  BY DEF Authority!CanTransition, CanTransition, Authority!AllowedTransitions,
         AllowedTransitions, Authority!Transitioned, Transitioned,
         Authority!WithAudit, WithAudit, Authority!Entry, Entry,
         Authority!ActionFor, ActionFor
<1>4. ASSUME NEW e \in Evidence
      PROVE  /\ Authority!CanRecordEvidence(s, e) <=> CanRecordEvidence(s, e)
             /\ Authority!EvidenceRecorded(s, e, a) = EvidenceRecorded(s, e, a)
  BY DEF Authority!CanRecordEvidence, CanRecordEvidence, Authority!KnownIds, KnownIds,
         Authority!EvidenceRecorded, EvidenceRecorded,
         Authority!WithAudit, WithAudit, Authority!Entry, Entry
<1>5. ASSUME NEW d \in Decisions
      PROVE  /\ Authority!CanDecide(s, d, a) <=> CanDecide(s, d, a)
             /\ Authority!Decided(s, d, a) = Decided(s, d, a)
  BY DEF Authority!CanDecide, CanDecide, Authority!KnownIds, KnownIds,
         Authority!Selected, Selected, Authority!Decided, Decided,
         Authority!StatusAfterDecision, StatusAfterDecision,
         Authority!GateAction, GateAction,
         Authority!WithAudit, WithAudit, Authority!Entry, Entry
<1>6. ASSUME NEW m \in Metadata
      PROVE  /\ Authority!CanUpdateMetadata(s, m, a) <=> CanUpdateMetadata(s, m, a)
             /\ Authority!MetadataUpdated(s, m, a) = MetadataUpdated(s, m, a)
  BY DEF Authority!CanUpdateMetadata, CanUpdateMetadata,
         Authority!MayUpdateMetadata, MayUpdateMetadata,
         Authority!MetadataUpdated, MetadataUpdated,
         Authority!WithAudit, WithAudit, Authority!Entry, Entry
<1> QED
  BY <1>1, <1>2, <1>3, <1>4, <1>5, <1>6

\* Storing a command is the operation it was computed by, taken at once on the
\* snapshot the order has at that instant.
LEMMA StoredRefines ==
  ASSUME DurableInv, NEW c \in Clients, NEW q \in Commands, command[c] = q, Store(c)
  PROVE  Authority!Next
<1>1. PICK o \in Orders : o = q.order
  BY DEF Commands
<1>2. PICK next \in Snapshots : next = q.next
  BY DEF Commands
<1>3. PICK e \in Entries : e = [streamId |-> o, payload |-> next]
  BY DEF Entries
<1>4. /\ q.state = "ready" /\ Version(o) = q.version
      /\ journal' = Append(journal, e)
  BY <1>1, <1>2, <1>3 DEF Store
<1>5. Shapes /\ HasLast /\ Legal(o, next)
  BY <1>1, <1>2, <1>4 DEF DurableInv, ReadyIsLegal
<1>6. /\ \A x \in Orders : Exists(x)' <=> (x = o \/ Exists(x))
      /\ Latest(o)' = next
      /\ \A x \in Orders : x # o /\ Exists(x) => Latest(x)' = Latest(x)
  BY <1>3, <1>4, <1>5, AppendMoves, AppendLatest
<1>7. {x \in Orders : Exists(x)}' = {x \in Orders : Exists(x)} \cup {o}
  BY <1>6
<1>8. Map' = [x \in {y \in Orders : Exists(y)} \cup {o} |->
                IF x = o THEN next ELSE Latest(x)]
  BY <1>6, <1>7 DEF Map
<1>9. DOMAIN Map = {x \in Orders : Exists(x)} /\ \A x \in DOMAIN Map : Map[x] = Latest(x)
  BY DEF Map
<1>10. PICK a \in Callers :
         \/ /\ ~Exists(o)
            /\ CanCreate(a)
            /\ \E m \in Metadata : next = Created(m, a)
         \/ /\ Exists(o)
            /\ Len(Latest(o).audit) < MaxAudit
            /\ next \in Successors(Latest(o), a)
  BY <1>5 DEF Legal
<1>11. CASE ~Exists(o)
  <2>1. PICK m \in Metadata : next = Created(m, a)
    BY <1>10, <1>11
  <2>2. Authority!CanCreate(a) /\ Authority!Created(m, a) = next
    BY <1>2, <1>10, <1>11, <2>1, SameRules
  <2>3. o \notin DOMAIN Map
    BY <1>9, <1>11
  <2>4. Map' = [x \in DOMAIN Map \cup {o} |-> IF x = o THEN next ELSE Map[x]]
    BY <1>8, <1>9
  <2>5. Authority!Create(o, m, a)
    BY <2>2, <2>3, <2>4 DEF Authority!Create, Map
  <2> QED
    BY <2>5 DEF Authority!Next
<1>12. CASE Exists(o)
  <2>1. PICK s \in Snapshots : s = Latest(o)
    BY <1>5, <1>12, LatestIsSnapshot
  <2>2. o \in DOMAIN Map /\ Map[o] = s /\ Len(s.audit) < MaxAudit
    BY <1>9, <1>10, <1>12, <2>1
  <2>3. Authority!Open(o)
    BY <2>2 DEF Authority!Open, Map
  <2>4. Map' = [Map EXCEPT ![o] = next]
    <3>1. {y \in Orders : Exists(y)} \cup {o} = DOMAIN Map
      BY <1>9, <2>2
    <3> QED
      BY <1>8, <1>9, <3>1
  <2>5. Authority!Save(o, next)
    BY <2>4 DEF Authority!Save, Map
  <2>6. next \in Successors(s, a)
    BY <1>10, <1>12, <2>1
  <2>7. CASE \E to \in Statuses : CanTransition(s, to, a) /\ next = Transitioned(s, to, a)
    <3>1. PICK to \in Statuses : Authority!CanTransition(s, to, a)
                                 /\ next = Authority!Transitioned(s, to, a)
      BY <2>7, SameRules
    <3>2. Authority!Transition(o, to, a)
      BY <2>2, <2>3, <2>5, <3>1 DEF Authority!Transition, Map
    <3> QED
      BY <3>2 DEF Authority!Next, Authority!Statuses, Statuses
  <2>8. CASE \E e1 \in Evidence : CanRecordEvidence(s, e1) /\ next = EvidenceRecorded(s, e1, a)
    <3>1. PICK e1 \in Evidence : Authority!CanRecordEvidence(s, e1)
                                 /\ next = Authority!EvidenceRecorded(s, e1, a)
      BY <2>8, SameRules
    <3>2. Authority!RecordEvidence(o, e1, a)
      BY <2>2, <2>3, <2>5, <3>1 DEF Authority!RecordEvidence, Map
    <3> QED
      BY <3>2 DEF Authority!Next, Authority!Evidence, Evidence
  <2>9. CASE \E d \in Decisions : CanDecide(s, d, a) /\ next = Decided(s, d, a)
    <3>1. PICK d \in Decisions : Authority!CanDecide(s, d, a)
                                 /\ next = Authority!Decided(s, d, a)
      BY <2>9, SameRules
    <3>2. Authority!RecordGateDecision(o, d, a)
      BY <2>2, <2>3, <2>5, <3>1 DEF Authority!RecordGateDecision, Map
    <3> QED
      BY <3>2 DEF Authority!Next, Authority!Decisions, Decisions, Authority!Gates,
                  Gates, Authority!Verdicts, Verdicts
  <2>10. CASE \E m \in Metadata : CanUpdateMetadata(s, m, a) /\ next = MetadataUpdated(s, m, a)
    <3>1. PICK m \in Metadata : Authority!CanUpdateMetadata(s, m, a)
                                /\ next = Authority!MetadataUpdated(s, m, a)
      BY <2>10, SameRules
    <3>2. Authority!UpdateProjectionMetadata(o, m, a)
      BY <2>2, <2>3, <2>5, <3>1 DEF Authority!UpdateProjectionMetadata, Map
    <3> QED
      BY <3>2 DEF Authority!Next
  <2> QED
    BY <2>6, <2>7, <2>8, <2>9, <2>10 DEF Successors
<1> QED
  BY <1>11, <1>12

LEMMA CommandRefines ==
  ASSUME DurableInv, [DurableNext]_durableVars
  PROVE  [Authority!Next]_(Authority!vars)
<1>1. ASSUME NEW c \in Clients, Store(c) PROVE Authority!Next
  <2>1. command[c] \in Commands
    BY <1>1 DEF Store, DurableInv, Shapes, NoCommand
  <2> QED
    BY <1>1, <2>1, StoredRefines
<1>2. (\A c \in Clients : ~Store(c)) => UNCHANGED journal
  BY DEF DurableNext, durableVars, StartCreate, StartMutate, Answer, Abandon
<1> QED
  BY <1>1, <1>2, MapStays

\* The durable control plane implements the one in memory: whatever commands
\* overlap, are refused or are cut short by a crash, each stored snapshot is
\* one operation of the lifecycle authority on the snapshot before it.
THEOREM ImplementsControlPlane == DurableSpec => CommandsAreAtomic
<1>1. DurableInv /\ [DurableNext]_durableVars => [Authority!Next]_(Authority!vars)
  BY CommandRefines
<1> QED
  BY <1>1, InitRefines, InvAlways, PTL DEF DurableSpec, CommandsAreAtomic

-----------------------------------------------------------------------------
(***************************************************************************)
(* What the refinement is for: the theorems of the control plane in memory *)
(* hold of what is stored, with Map in the place of its map.               *)
(***************************************************************************)
Memory == INSTANCE ControlPlane_proofs WITH orders <- Map

\* Memory is the Authority of the refinement.
LEMMA MapIsAuthoritys == CommandsAreAtomic => Memory!Spec
<1>1. Authority!Init => Memory!Init
  BY DEF Authority!Init, Memory!Init, Map
<1>2. UNCHANGED Authority!vars => UNCHANGED Memory!vars
  BY DEF Authority!vars, Memory!vars, Map
<1>3. Authority!Next => Memory!Next
  <2> SUFFICES ASSUME NEW a \in Callers, NEW o \in Orders
               PROVE  /\ \A m \in Metadata :
                           Authority!Create(o, m, a) => Memory!Create(o, m, a)
                      /\ \A to :
                           Authority!Transition(o, to, a) => Memory!Transition(o, to, a)
                      /\ \A e :
                           Authority!RecordEvidence(o, e, a) => Memory!RecordEvidence(o, e, a)
                      /\ \A d :
                           Authority!RecordGateDecision(o, d, a) =>
                           Memory!RecordGateDecision(o, d, a)
                      /\ \A m \in Metadata :
                           Authority!UpdateProjectionMetadata(o, m, a) =>
                           Memory!UpdateProjectionMetadata(o, m, a)
    BY DEF Authority!Next, Memory!Next, Authority!Statuses, Memory!Statuses,
           Authority!Evidence, Memory!Evidence, Authority!Decisions, Memory!Decisions,
           Authority!Gates, Memory!Gates, Authority!Verdicts, Memory!Verdicts
  <2> USE DEF Map, Authority!Open, Memory!Open, Authority!Save, Memory!Save,
           Authority!WithAudit, Memory!WithAudit, Authority!Entry, Memory!Entry
  <2>1. ASSUME NEW m \in Metadata, Authority!Create(o, m, a) PROVE Memory!Create(o, m, a)
    BY <2>1 DEF Authority!Create, Memory!Create, Authority!CanCreate, Memory!CanCreate,
                Authority!Created, Memory!Created
  <2>2. ASSUME NEW to, Authority!Transition(o, to, a) PROVE Memory!Transition(o, to, a)
    BY <2>2 DEF Authority!Transition, Memory!Transition,
       Authority!CanTransition, Memory!CanTransition,
       Authority!AllowedTransitions, Memory!AllowedTransitions,
       Authority!Transitioned, Memory!Transitioned, Authority!ActionFor, Memory!ActionFor
  <2>3. ASSUME NEW e, Authority!RecordEvidence(o, e, a) PROVE Memory!RecordEvidence(o, e, a)
    BY <2>3 DEF Authority!RecordEvidence, Memory!RecordEvidence,
       Authority!CanRecordEvidence, Memory!CanRecordEvidence,
       Authority!KnownIds, Memory!KnownIds,
       Authority!EvidenceRecorded, Memory!EvidenceRecorded
  <2>4. ASSUME NEW d, Authority!RecordGateDecision(o, d, a) PROVE Memory!RecordGateDecision(o, d, a)
    BY <2>4 DEF Authority!RecordGateDecision, Memory!RecordGateDecision,
       Authority!CanDecide, Memory!CanDecide, Authority!KnownIds, Memory!KnownIds,
       Authority!Selected, Memory!Selected, Authority!Decided, Memory!Decided,
       Authority!StatusAfterDecision, Memory!StatusAfterDecision,
       Authority!GateAction, Memory!GateAction
  <2>5. ASSUME NEW m \in Metadata, Authority!UpdateProjectionMetadata(o, m, a)
        PROVE  Memory!UpdateProjectionMetadata(o, m, a)
    BY <2>5 DEF Authority!UpdateProjectionMetadata, Memory!UpdateProjectionMetadata,
       Authority!CanUpdateMetadata, Memory!CanUpdateMetadata,
       Authority!MayUpdateMetadata, Memory!MayUpdateMetadata,
       Authority!MetadataUpdated, Memory!MetadataUpdated
  <2> QED
    BY <2>1, <2>2, <2>3, <2>4, <2>5
<1>4. [Authority!Next]_(Authority!vars) => [Memory!Next]_(Memory!vars)
  BY <1>2, <1>3
<1> QED
  BY <1>1, <1>4, PTL DEF CommandsAreAtomic, Memory!Spec

\* So the theorems of ControlPlane_proofs hold of the map read off the journal.
LEMMA MapIsSound ==
  DurableSpec => [](/\ Memory!EvidenceBacksDecisions
                    /\ Memory!VerifiedMeansJudged
                    /\ Memory!AuditExplainsState)
<1>1. Callers \subseteq Memory!Actors
  BY CallersAreActors DEF Actors, Roles, Memory!Actors, Memory!Roles
<1>2. Memory!Spec => []Memory!EvidenceBacksDecisions
  BY <1>1, Memory!DecisionsStayBacked, NobodyIsNotAPerson, MaxAuditIsNat, PTL
<1>3. Memory!Spec => []Memory!VerifiedMeansJudged
  BY <1>1, Memory!VerifiedIsJudged, NobodyIsNotAPerson, MaxAuditIsNat, PTL
<1>4. Memory!Spec => []Memory!AuditExplainsState
  BY <1>1, Memory!AuditExplains, NobodyIsNotAPerson, MaxAuditIsNat, PTL
<1> QED
  BY <1>2, <1>3, <1>4, MapIsAuthoritys, ImplementsControlPlane, PTL

LatestIsTrusted  == \A o \in Orders : Exists(o) => Trusted(Latest(o))
JournalIsTrusted == \A i \in DOMAIN journal : Trusted(journal[i].payload)

LEMMA LatestStaysTrusted == DurableSpec => []LatestIsTrusted
<1>1. /\ Memory!EvidenceBacksDecisions
      /\ Memory!VerifiedMeansJudged
      /\ Memory!AuditExplainsState
      => LatestIsTrusted
  <2> SUFFICES ASSUME Memory!EvidenceBacksDecisions, Memory!VerifiedMeansJudged,
                      Memory!AuditExplainsState, NEW o \in Orders, Exists(o)
               PROVE  Trusted(Latest(o))
    BY DEF LatestIsTrusted
  <2>1. o \in DOMAIN Map /\ Map[o] = Latest(o)
    BY DEF Map
  <2>2. DecisionsAreBacked(Latest(o))
    BY <2>1 DEF Memory!EvidenceBacksDecisions,
                Memory!DecisionsAreBacked, DecisionsAreBacked, Memory!KnownIds, KnownIds
  <2>3. IndependentlyVerified(Latest(o))
    BY <2>1 DEF Memory!VerifiedMeansJudged, Memory!IndependentlyVerified, IndependentlyVerified
  <2>4. \A audit : Memory!Replay(audit) = Replay(audit)
    BY DEF Memory!Replay, Replay, Memory!Understood, Understood, Memory!Unknown, Unknown
  <2>5. Replay(Latest(o).audit) = [status |-> Latest(o).status,
                                   implementerId |-> Latest(o).implementerId]
    BY <2>1, <2>4 DEF Memory!AuditExplainsState
  <2> QED
    BY <2>2, <2>3, <2>5 DEF Trusted
<1> QED
  BY <1>1, MapIsSound, PTL

\* What is stored was the latest of its order once; what was told is stored.
LEMMA StoredWasLatest ==
  ASSUME DurableInv, DurableInv', JournalIsTrusted, LatestIsTrusted',
         [DurableNext]_durableVars
  PROVE  JournalIsTrusted'
<1>1. CASE UNCHANGED journal
  BY <1>1 DEF JournalIsTrusted
<1>2. ASSUME NEW c \in Clients, NEW q \in Commands, command[c] = q, Store(c)
      PROVE  JournalIsTrusted'
  <2>1. PICK e \in Entries : /\ e.streamId = q.order /\ e.payload = q.next
                             /\ journal' = Append(journal, e)
    BY <1>2 DEF Store, Commands, Entries
  <2>2. q.order \in Orders /\ Shapes /\ HasLast
    BY DEF Commands, DurableInv
  <2>3. /\ DOMAIN journal' = DOMAIN journal \cup {Len(journal) + 1}
        /\ journal'[Len(journal) + 1] = e
        /\ \A i \in DOMAIN journal : journal'[i] = journal[i]
    BY <2>1, <2>2 DEF Shapes
  <2>4. Exists(q.order)' /\ Latest(q.order)' = e.payload
    BY <2>1, <2>2, AppendMoves, AppendLatest
  <2>5. Trusted(e.payload)
    BY <2>2, <2>4 DEF LatestIsTrusted
  <2> QED
    BY <2>3, <2>5 DEF JournalIsTrusted
<1>3. (\A c \in Clients : ~Store(c)) => UNCHANGED journal
  BY DEF DurableNext, durableVars, StartCreate, StartMutate, Answer, Abandon
<1>4. \A c \in Clients : Store(c) => command[c] \in Commands
  BY DEF Store, DurableInv, Shapes, NoCommand
<1> QED
  BY <1>1, <1>2, <1>3, <1>4

\* Whatever commands overlap, are refused or are cut short by a crash: every
\* snapshot in the journal, and the one a caller was given, has decisions
\* backed by its evidence, was verified by somebody else than its implementer,
\* and is explained by its audit trail (durable-control-plane, over the rules
\* of control-plane).
THEOREM StoredStaysTrusted ==
  DurableSpec => [](JournalIsTrusted /\ (returned # NoAnswer => Trusted(returned.snapshot)))
<1>1. DurableInit => JournalIsTrusted
  BY DEF DurableInit, JournalIsTrusted
<1>2. DurableInv /\ JournalIsTrusted => (returned # NoAnswer => Trusted(returned.snapshot))
  <2> SUFFICES ASSUME DurableInv, JournalIsTrusted, returned # NoAnswer
               PROVE  Trusted(returned.snapshot)
    OBVIOUS
  <2>1. returned \in Answers
    BY DEF DurableInv, Shapes
  <2>2. At(returned.order, returned.version, returned.snapshot)
    BY <2>1 DEF DurableInv, ReturnedIsThere
  <2> QED
    BY <2>2 DEF At, JournalIsTrusted
<1>3. DurableSpec => []JournalIsTrusted
  BY <1>1, StoredWasLatest, InvAlways, LatestStaysTrusted, PTL DEF DurableSpec
<1> QED
  BY <1>2, <1>3, InvAlways, PTL
=============================================================================
