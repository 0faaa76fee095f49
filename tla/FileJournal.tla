----------------------------- MODULE FileJournal -----------------------------
(***************************************************************************)
(* Class FileJournal (packages/event-store): a JSONL file shared by the    *)
(* journals opened on its path.  append() takes an exclusive lock file,    *)
(* reads and verifies the whole file, compares the stream's length with    *)
(* the expected version, writes one line, and removes the lock in a        *)
(* finally.  Each await is a point where other writers run, where the      *)
(* process may die, and where the file system may refuse.                  *)
(*                                                                         *)
(* A line keeps its sequence, stream, version and previous hash.  Its hash *)
(* is <<writer, sequence>>: the random eventId makes no two entries hash   *)
(* alike.  A write may stop part way; CutForms says where:                 *)
(*   "cut"   somewhere inside the JSON text: the line does not parse;      *)
(*   "open"  exactly before the newline: the line parses, and the next     *)
(*           append lands on the same line.                                *)
(***************************************************************************)
EXTENDS Naturals, Sequences, FiniteSets

CONSTANTS Writers,   \* processes, or calls within one, that append
          Streams,
          CutForms,  \* subset of {"cut", "open"}
          MaxLines   \* bound: no append is called on a file this long

ASSUME CutFormsAreForms == CutForms \subseteq {"cut", "open"}
ASSUME MaxLinesIsNat    == MaxLines \in Nat

NoHash == <<>>

VARIABLES file,      \* the lines on disk
          lock,      \* does the lock file exist
          pc,        \* per writer, where append() is suspended
          request,   \* per writer, the arguments of append()
          draft,     \* per writer, the entry it built
          answer,    \* per writer, how its last append ended
          acked,     \* history: hashes of the entries append() returned
          abandoned  \* history: a process died holding the lock, or could not
                     \* remove it

vars == <<file, lock, pc, request, draft, answer, acked, abandoned>>

Results  == {"ok", "ConcurrencyError", "IntegrityError", "error", "crash"}
Critical == {"reading", "writing", "finishing", "flushing", "closing"}

Hashes == (Writers \X (Nat \ {0})) \cup {NoHash}
Lines  == [sequence : Nat \ {0}, streamId : Streams, version : Nat,
           writer : Writers, previousHash : Hashes,
           form : {"ok", "cut", "open", "merged"}]

Hash(line) == <<line.writer, line.sequence>>

-----------------------------------------------------------------------------
\* readAll: the lines that parse, if all do and the chain verifies.
Parses(line) == line.form \in {"ok", "open"}

Readable(lines) ==
  \A i \in DOMAIN lines :
    /\ Parses(lines[i])
    /\ lines[i].sequence = i
    /\ lines[i].previousHash = IF i = 1 THEN NoHash ELSE Hash(lines[i - 1])

StreamLength(lines, s) ==
  Cardinality({i \in DOMAIN lines : lines[i].streamId = s})

\* appendFile: bytes land after whatever the file ends with.
Written(line) ==
  IF file # <<>> /\ file[Len(file)].form = "open"
  THEN [file EXCEPT ![Len(file)].form = "merged"]
  ELSE Append(file, line)

\* The call is over: its local variables are gone.
Leave(w) ==
  /\ pc' = [pc EXCEPT ![w] = "idle"]
  /\ request' = [request EXCEPT ![w] = <<>>]
  /\ draft' = [draft EXCEPT ![w] = <<>>]

-----------------------------------------------------------------------------
Init ==
  /\ file = <<>>
  /\ lock = FALSE
  /\ pc = [w \in Writers |-> "idle"]
  /\ request = [w \in Writers |-> <<>>]
  /\ draft = [w \in Writers |-> <<>>]
  /\ answer = [w \in Writers |-> "none"]
  /\ acked = {}
  /\ abandoned = FALSE

\* A caller that has at some time seen some prefix of the stream calls append().
Invoke(w, s, v) ==
  /\ pc[w] = "idle"
  /\ Len(file) < MaxLines
  /\ v \in 0 .. StreamLength(file, s)
  /\ pc' = [pc EXCEPT ![w] = "opening"]
  /\ request' = [request EXCEPT ![w] = [streamId |-> s, expectedVersion |-> v]]
  /\ answer' = [answer EXCEPT ![w] = "none"]
  /\ UNCHANGED <<file, lock, draft, acked, abandoned>>

\* Mutated: the lock file is opened with 'w' instead of 'wx'.
OpenAnyway(w) ==
  /\ pc[w] = "opening"
  /\ lock' = TRUE
  /\ pc' = [pc EXCEPT ![w] = "reading"]
  /\ UNCHANGED <<file, request, draft, answer, acked, abandoned>>

\* #acquireLock succeeds: open(path, 'wx') creates the file.
AcquireLock(w) ==
  /\ pc[w] = "opening"
  /\ ~lock
  /\ lock' = TRUE
  /\ pc' = [pc EXCEPT ![w] = "reading"]
  /\ UNCHANGED <<file, request, draft, answer, acked, abandoned>>

\* #acquireLock fails, with EEXIST or for a reason of the file system's:
\* nothing to undo, the caller is told.
LockFails(w) ==
  /\ pc[w] = "opening"
  /\ \/ lock /\ answer' = [answer EXCEPT ![w] = "ConcurrencyError"]
     \/ answer' = [answer EXCEPT ![w] = "error"]
  /\ Leave(w)
  /\ UNCHANGED <<file, lock, acked, abandoned>>

\* Mutated: the sequence starts at all.length instead of all.length + 1.
BuiltOffByOne(w) ==
  [sequence |-> Len(file), streamId |-> request[w].streamId,
   version |-> request[w].expectedVersion, writer |-> w, form |-> "ok",
   previousHash |-> IF file = <<>> THEN NoHash ELSE Hash(file[Len(file)])]

\* The entry built from what was read.
Built(w) ==
  [sequence |-> Len(file) + 1, streamId |-> request[w].streamId,
   version |-> request[w].expectedVersion, writer |-> w, form |-> "ok",
   previousHash |-> IF file = <<>> THEN NoHash ELSE Hash(file[Len(file)])]

\* Mutated: the expected version is not compared.
BuildBlindly(w) ==
  /\ pc[w] = "reading"
  /\ Readable(file)
  /\ draft' = [draft EXCEPT ![w] = Built(w)]
  /\ pc' = [pc EXCEPT ![w] = "writing"]
  /\ UNCHANGED <<file, lock, request, answer, acked, abandoned>>

\* readAll verifies, the stream has the expected length, the entry is built.
Build(w) ==
  /\ pc[w] = "reading"
  /\ Readable(file)
  /\ StreamLength(file, request[w].streamId) = request[w].expectedVersion
  /\ draft' = [draft EXCEPT ![w] = Built(w)]
  /\ pc' = [pc EXCEPT ![w] = "writing"]
  /\ UNCHANGED <<file, lock, request, answer, acked, abandoned>>

\* readAll throws, or the version is stale: on to the finally.
Refuse(w) ==
  /\ pc[w] = "reading"
  /\ \/ /\ ~Readable(file)
        /\ answer' = [answer EXCEPT ![w] = "IntegrityError"]
     \/ /\ Readable(file)
        /\ StreamLength(file, request[w].streamId)
             # request[w].expectedVersion
        /\ answer' = [answer EXCEPT ![w] = "ConcurrencyError"]
     \/ answer' = [answer EXCEPT ![w] = "error"]
  /\ pc' = [pc EXCEPT ![w] = "closing"]
  /\ UNCHANGED <<file, lock, request, draft, acked, abandoned>>

\* appendFile writes in one piece ...
Write(w) ==
  /\ pc[w] = "writing"
  /\ file' = Written(draft[w])
  /\ pc' = [pc EXCEPT ![w] = "flushing"]
  /\ UNCHANGED <<lock, request, draft, answer, acked, abandoned>>

\* ... or only a part of the line for now ...
WritePart(w, form) ==
  /\ pc[w] = "writing"
  /\ file' = Written([draft[w] EXCEPT !.form = form])
  /\ pc' = [pc EXCEPT ![w] = "finishing"]
  /\ UNCHANGED <<lock, request, draft, answer, acked, abandoned>>

\* ... and then the rest: if its part still ends the file, the line is whole.
WriteRest(w) ==
  /\ pc[w] = "finishing"
  /\ file' = [file EXCEPT ![Len(file)].form =
                IF Hash(file[Len(file)]) = Hash(draft[w]) /\ @ # "merged"
                THEN "ok" ELSE "merged"]
  /\ pc' = [pc EXCEPT ![w] = "flushing"]
  /\ UNCHANGED <<lock, request, draft, answer, acked, abandoned>>

\* Mutated: the error of appendFile is swallowed.
ErrorsSwallowed(w) ==
  /\ pc[w] \in {"writing", "finishing", "flushing"}
  /\ answer' = [answer EXCEPT ![w] = "ok"]
  /\ pc' = [pc EXCEPT ![w] = "closing"]
  /\ UNCHANGED <<file, lock, request, draft, acked, abandoned>>

\* The file system refuses before the first, or after some of the bytes, or
\* at the flush: append() throws, the finally still runs.
WriteFails(w) ==
  /\ pc[w] \in {"writing", "finishing", "flushing"}
  /\ answer' = [answer EXCEPT ![w] = "error"]
  /\ pc' = [pc EXCEPT ![w] = "closing"]
  /\ UNCHANGED <<file, lock, request, draft, acked, abandoned>>

Flushed(w) ==
  /\ pc[w] = "flushing"
  /\ answer' = [answer EXCEPT ![w] = "ok"]
  /\ pc' = [pc EXCEPT ![w] = "closing"]
  /\ UNCHANGED <<file, lock, request, draft, acked, abandoned>>

\* Mutated: the lock is removed on success only, not in a finally.
ReleaseOnSuccess(w) ==
  /\ pc[w] = "closing"
  /\ lock' = (answer[w] # "ok")
  /\ acked' = IF answer[w] = "ok" THEN acked \cup {Hash(draft[w])} ELSE acked
  /\ Leave(w)
  /\ UNCHANGED <<file, answer, abandoned>>

\* The finally: close and remove the lock file; append() returns or throws.
Release(w) ==
  /\ pc[w] = "closing"
  /\ lock' = FALSE
  /\ acked' = IF answer[w] = "ok" THEN acked \cup {Hash(draft[w])} ELSE acked
  /\ Leave(w)
  /\ UNCHANGED <<file, answer, abandoned>>

\* close or rm throws: so does append(), whatever was stored, and the lock file
\* stays.
ReleaseFails(w) ==
  /\ pc[w] = "closing"
  /\ Leave(w)
  /\ answer' = [answer EXCEPT ![w] = "error"]
  /\ abandoned' = TRUE
  /\ UNCHANGED <<file, lock, acked>>

\* The writer's process dies.  Nothing on disk is undone.
Crash(w) ==
  /\ pc[w] # "idle"
  /\ Leave(w)
  /\ answer' = [answer EXCEPT ![w] = "crash"]
  /\ abandoned' = (abandoned \/ pc[w] \in Critical)
  /\ UNCHANGED <<file, lock, acked>>

Step(w) ==
  \/ AcquireLock(w) \/ LockFails(w) \/ Build(w) \/ Refuse(w)
  \/ Write(w) \/ WriteRest(w) \/ WriteFails(w) \/ Flushed(w) \/ Release(w)
  \/ ReleaseFails(w)
  \/ \E form \in CutForms : WritePart(w, form)

Next ==
  \E w \in Writers :
    \/ \E s \in Streams, v \in 0 .. MaxLines : Invoke(w, s, v)
    \/ Step(w)
    \/ Crash(w)

Spec == Init /\ [][Next]_vars

\* A live process's pending I/O completes, one way or another; nobody is
\* obliged to call append().
FairSpec == Spec /\ \A w \in Writers : WF_vars(Step(w))

-----------------------------------------------------------------------------
(***************************************************************************)
(* Properties.                                                             *)
(***************************************************************************)
TypeOK ==
  /\ file \in Seq(Lines)
  /\ lock \in BOOLEAN
  /\ pc \in [Writers -> {"idle", "opening"} \cup Critical]
  /\ DOMAIN request = Writers /\ DOMAIN draft = Writers
  /\ \A w \in Writers :
       /\ pc[w] # "idle" =>
            request[w] \in [streamId : Streams, expectedVersion : Nat]
       /\ pc[w] \in {"writing", "finishing", "flushing"} => draft[w] \in Lines
  /\ answer \in [Writers -> Results \cup {"none"}]
  /\ acked \subseteq Hashes
  /\ abandoned \in BOOLEAN

\* Two writers are never both between open('wx') and rm (WO-PHASE2
\* acceptance 5), and never while the lock file is missing.
LockExcludes ==
  /\ \A v, w \in Writers : pc[v] \in Critical /\ pc[w] \in Critical => v = w
  /\ (\E w \in Writers : pc[w] \in Critical) => lock

\* No refusal, integrity error or I/O error leaves the lock behind: if it
\* exists, a live writer will remove it, or one died with it or failed to.
LockHasAnOwner ==
  lock => abandoned \/ \E w \in Writers : pc[w] \in Critical

\* Line i follows the lines before it.
Earlier(lines, i) == {j \in 1 .. i - 1 : lines[j].streamId = lines[i].streamId}

InOrder(lines, i) ==
  /\ i < Len(lines) => lines[i].form = "ok"
  /\ lines[i].sequence = i
  /\ lines[i].previousHash = IF i = 1 THEN NoHash ELSE Hash(lines[i - 1])
  /\ lines[i].version = Cardinality(Earlier(lines, i))

\* Whatever happened, damage is confined to the last line, and each stream's
\* entries carry the versions 0, 1, 2, ... their writers had seen: no stale
\* append was stored, no update was lost (WO-PHASE2 acceptance 4).
StoredInOrder ==
  \A i \in DOMAIN file : InOrder(file, i)

\* A journal that reads back contains every entry an append() returned: loss
\* is never silent.
ReadableMeansComplete ==
  Readable(file) =>
    \A h \in acked : h[2] \in DOMAIN file /\ Hash(file[h[2]]) = h

\* The lock is always released again, unless a process died holding it or
\* could not remove it.
LockReleased == lock ~> (~lock \/ abandoned)

-----------------------------------------------------------------------------
(***************************************************************************)
(* The journal implements VersionedLog, except in the step that glues a    *)
(* line to one that was cut exactly before its newline: until then such a  *)
(* line reads back as an entry, and that step takes it away again.         *)
(***************************************************************************)
\* The whole lines come first (StoredInOrder): they are the log.
Whole == {i \in DOMAIN file : file[i].form = "ok"}

HasStored(w) ==
  /\ pc[w] \in {"flushing", "closing"}
  /\ draft[w] # <<>>
  /\ \E i \in Whole : Hash(file[i]) = Hash(draft[w])

CallOf(w) ==
  IF pc[w] = "idle" THEN [state |-> "idle"]
  ELSE [state |-> IF HasStored(w) THEN "stored" ELSE "pending",
        streamId |-> request[w].streamId,
        expectedVersion |-> request[w].expectedVersion]

Promise == INSTANCE VersionedLog WITH
  Versions <- 0 .. MaxLines,
  log    <- [i \in Whole |-> [streamId |-> file[i].streamId,
                              version |-> file[i].version,
                              writer |-> file[i].writer]],
  call   <- [w \in Writers |-> CallOf(w)],
  answer <- [w \in Writers |-> IF pc[w] = "idle" THEN answer[w] ELSE "none"]

Glued == \E i \in DOMAIN file : file[i].form = "merged"

\* Every append takes effect at most once, atomically, at the expected
\* version, between its call and its return, unless it glues two lines.
AppendsAreAtomic == Promise!Init /\ [][Glued' \/ Promise!Next]_(Promise!vars)
=============================================================================
