--------------------------- MODULE DesktopProofs ---------------------------
(***************************************************************************)
(* Theorems about FastApply, PhantomScheduler, AuditSync and KanbanBoard   *)
(* for every number of changes, loops, tasks, events, dispatches, cards    *)
(* and hand-offs, and for every order in which writes land.                *)
(***************************************************************************)
EXTENDS FastApply, PhantomScheduler, AuditSync, KanbanBoard, FiniteSetTheorems,
        SequenceTheorems, TLAPS

USE RevertsAssumption, HandoffsAssumption, SizesAssumption
-----------------------------------------------------------------------------
(* Changes written before they are reviewed.                               *)

LEMMA FileInitInv == FileInit => FileIndInv
<1> SUFFICES ASSUME FileInit PROVE FileIndInv
  OBVIOUS
<1>1. FileTypeOK
  BY DEF FileInit, FileTypeOK, Contents, Writes
<1>2. NotYetListed /\ RevertsAreBounded /\ LastIsOnDisk
  BY DEF FileInit, NotYetListed, RevertsAreBounded, LastIsOnDisk
<1>3. QED
  BY <1>1, <1>2 DEF FileIndInv

\* What a write of a change leaves behind, whether it lands or fails.
LEMMA FileOutcomes ==
  ASSUME NEW c \in Changes, NEW content \in Contents
  PROVE  /\ Lands(c, "apply", content) => disk' \in Contents /\ last' \in Writes
         /\ Lands(c, "revert", content) => disk' \in Contents /\ last' \in Writes
         /\ FileTypeOK /\ Fails(content) => disk' \in Contents /\ last' \in Writes
BY DEF Lands, Fails, Writes, FileTypeOK

LEMMA ReadInv ==
  ASSUME FileIndInv, NEW c \in Changes, Read(c)
  PROVE  FileIndInv'
<1>1. FileTypeOK'
  BY DEF FileIndInv, FileTypeOK, Read
<1>2. NotYetListed' /\ RevertsAreBounded'
  BY DEF FileIndInv, FileTypeOK, NotYetListed, RevertsAreBounded, Read
<1>3. LastIsOnDisk'
  BY DEF FileIndInv, FileTypeOK, LastIsOnDisk, Read
<1>4. QED
  BY <1>1, <1>2, <1>3 DEF FileIndInv

LEMMA WriteInv ==
  ASSUME FileIndInv, NEW c \in Changes, Write(c)
  PROVE  FileIndInv'
<1>1. c \in Contents
  BY DEF Contents
<1>2. FileTypeOK'
  BY <1>1, FileOutcomes DEF FileIndInv, FileTypeOK, Write
<1>3. NotYetListed' /\ RevertsAreBounded'
  BY DEF FileIndInv, FileTypeOK, NotYetListed, RevertsAreBounded, Write
<1>4. review[c] = "none" /\ reverts[c].written = 0
  BY DEF FileIndInv, NotYetListed, Write
<1>5. LastIsOnDisk'
  <2>1. CASE Lands(c, "apply", c) /\ applyPc' = [applyPc EXCEPT ![c] = "written"]
    BY <1>4, <2>1 DEF FileIndInv, FileTypeOK, LastIsOnDisk, Lands, Write
  <2>2. CASE Fails(c) /\ applyPc' = [applyPc EXCEPT ![c] = "done"]
    BY <2>2 DEF FileIndInv, FileTypeOK, LastIsOnDisk, Fails, Write
  <2>3. QED
    BY <2>1, <2>2 DEF Write
<1>6. QED
  BY <1>2, <1>3, <1>5 DEF FileIndInv

LEMMA RegisterInv ==
  ASSUME FileIndInv, NEW c \in Changes, Register(c)
  PROVE  FileIndInv'
<1>1. FileTypeOK'
  BY DEF FileIndInv, FileTypeOK, Register
<1>2. NotYetListed' /\ RevertsAreBounded'
  BY DEF FileIndInv, FileTypeOK, NotYetListed, RevertsAreBounded, Register
<1>3. LastIsOnDisk'
  <2>1. review[c] = "none" /\ reverts[c].written = 0
    BY DEF FileIndInv, NotYetListed, Register
  <2>2. QED
    BY <2>1 DEF FileIndInv, FileTypeOK, LastIsOnDisk, Register
<1>4. QED
  BY <1>1, <1>2, <1>3 DEF FileIndInv

\* A change the panel lists is registered.
LEMMA ListedIsDone ==
  ASSUME FileIndInv, NEW c \in Changes,
         Listed(c) \/ reverts[c].writing > 0 \/ reverts[c].written > 0
  PROVE  applyPc[c] = "done"
BY DEF FileIndInv, NotYetListed, Listed

LEMMA AcceptInv ==
  ASSUME FileIndInv, NEW c \in Changes, Accept(c)
  PROVE  FileIndInv'
<1>1. FileTypeOK'
  BY DEF FileIndInv, FileTypeOK, Accept, Resolved
<1>2. NotYetListed' /\ RevertsAreBounded'
  BY ListedIsDone DEF FileIndInv, FileTypeOK, NotYetListed, RevertsAreBounded, Accept, Resolved
<1>3. LastIsOnDisk'
  BY DEF FileIndInv, FileTypeOK, LastIsOnDisk, Accept, Resolved, Listed
<1>4. QED
  BY <1>1, <1>2, <1>3 DEF FileIndInv

LEMMA RevertInv ==
  ASSUME FileIndInv, NEW c \in Changes, Revert(c)
  PROVE  FileIndInv'
<1>1. /\ reverts[c].writing \in 0 .. MaxReverts /\ reverts[c].written \in 0 .. MaxReverts
      /\ reverts[c].writing + reverts[c].written < MaxReverts
      /\ reverts' = [reverts EXCEPT ![c].writing = @ + 1]
      /\ UNCHANGED <<disk, original, applyPc, review, last>>
  BY DEF FileIndInv, FileTypeOK, Revert
<1>2. FileTypeOK'
  BY <1>1 DEF FileIndInv, FileTypeOK
<1>3. NotYetListed' /\ RevertsAreBounded'
  BY <1>1, ListedIsDone DEF FileIndInv, FileTypeOK, NotYetListed, RevertsAreBounded, Revert
<1>4. LastIsOnDisk'
  BY <1>1 DEF FileIndInv, FileTypeOK, LastIsOnDisk
<1>5. QED
  BY <1>2, <1>3, <1>4 DEF FileIndInv

LEMMA RestoreInv ==
  ASSUME FileIndInv, NEW c \in Changes, Restore(c)
  PROVE  FileIndInv'
<1>1. /\ reverts[c].writing \in 0 .. MaxReverts /\ reverts[c].written \in 0 .. MaxReverts
      /\ reverts[c].writing + reverts[c].written <= MaxReverts
      /\ reverts[c].writing > 0 /\ original[c] \in Contents
      /\ UNCHANGED <<original, applyPc, review>>
  BY DEF FileIndInv, FileTypeOK, RevertsAreBounded, Restore
<1>2. applyPc[c] = "done"
  BY <1>1, ListedIsDone
<1>3. CASE /\ Lands(c, "revert", original[c])
           /\ reverts' = [reverts EXCEPT ![c].writing = @ - 1, ![c].written = @ + 1]
  <2>1. FileTypeOK'
    BY <1>1, <1>3, FileOutcomes DEF FileIndInv, FileTypeOK
  <2>2. NotYetListed' /\ RevertsAreBounded'
    BY <1>1, <1>2, <1>3 DEF FileIndInv, FileTypeOK, NotYetListed, RevertsAreBounded
  <2>3. LastIsOnDisk'
    BY <1>1, <1>2, <1>3 DEF FileIndInv, FileTypeOK, LastIsOnDisk, Lands
  <2>4. QED
    BY <2>1, <2>2, <2>3 DEF FileIndInv
<1>4. CASE Fails(original[c]) /\ reverts' = [reverts EXCEPT ![c].writing = @ - 1]
  <2>1. FileTypeOK'
    BY <1>1, <1>4, FileOutcomes DEF FileIndInv, FileTypeOK
  <2>2. NotYetListed' /\ RevertsAreBounded'
    BY <1>1, <1>2, <1>4 DEF FileIndInv, FileTypeOK, NotYetListed, RevertsAreBounded
  <2>3. LastIsOnDisk'
    BY <1>1, <1>4 DEF FileIndInv, FileTypeOK, LastIsOnDisk, Fails
  <2>4. QED
    BY <2>1, <2>2, <2>3 DEF FileIndInv
<1>5. QED
  BY <1>3, <1>4 DEF Restore

LEMMA SettleInv ==
  ASSUME FileIndInv, NEW c \in Changes, Settle(c)
  PROVE  FileIndInv'
<1>1. /\ reverts[c].writing \in 0 .. MaxReverts /\ reverts[c].written \in 0 .. MaxReverts
      /\ reverts[c].writing + reverts[c].written <= MaxReverts /\ reverts[c].written > 0
      /\ reverts' = [reverts EXCEPT ![c].written = @ - 1]
      /\ review' = [review EXCEPT ![c] = "reverted"]
      /\ UNCHANGED <<disk, original, applyPc, last>>
  BY DEF FileIndInv, FileTypeOK, RevertsAreBounded, Settle, Resolved
<1>2. applyPc[c] = "done"
  BY <1>1, ListedIsDone
<1>3. FileTypeOK'
  BY <1>1 DEF FileIndInv, FileTypeOK
<1>4. NotYetListed' /\ RevertsAreBounded'
  BY <1>1, <1>2 DEF FileIndInv, FileTypeOK, NotYetListed, RevertsAreBounded
<1>5. LastIsOnDisk'
  BY <1>1 DEF FileIndInv, FileTypeOK, LastIsOnDisk
<1>6. QED
  BY <1>3, <1>4, <1>5 DEF FileIndInv

LEMMA FileNextInv == FileIndInv /\ [FileNext]_fileVars => FileIndInv'
<1> SUFFICES ASSUME FileIndInv, [FileNext]_fileVars
             PROVE  FileIndInv'
  OBVIOUS
<1>1. ASSUME NEW c \in Changes,
             \/ Read(c) \/ Write(c) \/ Register(c)
             \/ Accept(c) \/ Revert(c) \/ Restore(c) \/ Settle(c)
      PROVE  FileIndInv'
  BY <1>1, ReadInv, WriteInv, RegisterInv, AcceptInv, RevertInv, RestoreInv, SettleInv
<1>2. CASE UNCHANGED fileVars
  BY <1>2 DEF fileVars, FileIndInv, FileTypeOK, NotYetListed, RevertsAreBounded, LastIsOnDisk
<1>3. QED
  BY <1>1, <1>2 DEF FileNext

\* Every variable of the changes keeps its type.
THEOREM FileTypeCorrect == FileSpec => []FileTypeOK
<1>1. FileIndInv => FileTypeOK
  BY DEF FileIndInv
<1>2. QED
  BY <1>1, FileInitInv, FileNextInv, PTL DEF FileSpec

\* Once nothing of a change is under way, and a write of its own reached the
\* file last, the file holds what its status says. (revertFile)
THEOREM ReviewsMatchDisk == FileSpec => []ReviewMatchesDisk
<1>1. FileIndInv => ReviewMatchesDisk
  BY DEF FileIndInv, FileTypeOK, Writes, LastIsOnDisk, ReviewMatchesDisk, AtRest
<1>2. QED
  BY <1>1, FileInitInv, FileNextInv, PTL DEF FileSpec
-----------------------------------------------------------------------------
(* The phantom scheduler.                                                  *)

LEMMA PhantomInitInv == PhantomInit => PhantomIndInv
<1> SUFFICES ASSUME PhantomInit PROVE PhantomIndInv
  OBVIOUS
<1>1. PhantomTypeOK
  BY EmptySeq DEF PhantomInit, PhantomTypeOK
<1>2. TakenIsUnderway
  <2>1. Cardinality({}) <= 1
    <3>1. Cardinality({}) = 0
      BY FS_EmptySet
    <3>2. QED
      BY <3>1
  <2>2. \A t \in Tasks : takers[t] = {}
    BY DEF PhantomInit
  <2>3. QED
    BY <2>1, <2>2, Zenon DEF TakenIsUnderway
<1>3. WorkIsTaken
  BY DEF PhantomInit, WorkIsTaken
<1>4. QED
  BY <1>1, <1>2, <1>3 DEF PhantomIndInv

\* A step that leaves the work of the loops alone leaves what was taken alone,
\* if it begins no task and gives up none.
LEMMA WorkIsKept ==
  ASSUME PhantomIndInv, UNCHANGED <<work, takers>>,
         NEW l \in PhantomSessions, NEW p \in {"none", "between", "over"},
         loopPc' = loopPc \/ loopPc' = [loopPc EXCEPT ![l] = p],
         \A t \in Tasks : taskState[t] \in BegunStates => taskState'[t] \in BegunStates
  PROVE  TakenIsUnderway' /\ WorkIsTaken'
<1>1. TakenIsUnderway'
  BY Zenon DEF PhantomIndInv, TakenIsUnderway
<1>2. WorkIsTaken'
  BY DEF PhantomIndInv, PhantomTypeOK, WorkIsTaken
<1>3. QED
  BY <1>1, <1>2

LEMMA StartSessionInv ==
  ASSUME PhantomIndInv, NEW s \in PhantomSessions, StartSession(s)
  PROVE  PhantomIndInv'
<1>1. PhantomTypeOK'
  BY DEF PhantomIndInv, PhantomTypeOK, StartSession
<1>2. TakenIsUnderway' /\ WorkIsTaken'
  BY WorkIsKept DEF StartSession
<1>3. QED
  BY <1>1, <1>2 DEF PhantomIndInv

LEMMA EndSessionInv ==
  ASSUME PhantomIndInv, EndSession
  PROVE  PhantomIndInv'
<1>1. PhantomTypeOK'
  BY DEF PhantomIndInv, PhantomTypeOK, EndSession
<1>2. activeSession \in PhantomSessions
  BY DEF PhantomIndInv, PhantomTypeOK, EndSession
<1>3. TakenIsUnderway' /\ WorkIsTaken'
  BY <1>2, WorkIsKept DEF EndSession
<1>4. QED
  BY <1>1, <1>3 DEF PhantomIndInv

LEMMA QueueTaskInv ==
  ASSUME PhantomIndInv, NEW t \in Tasks, QueueTask(t)
  PROVE  PhantomIndInv'
<1>1. activeSession \in PhantomSessions /\ tasks[activeSession] \in Seq(Tasks)
  BY DEF PhantomIndInv, PhantomTypeOK, QueueTask
<1>2. Append(tasks[activeSession], t) \in Seq(Tasks)
  BY <1>1, AppendProperties
<1>3. PhantomTypeOK'
  BY <1>1, <1>2 DEF PhantomIndInv, PhantomTypeOK, QueueTask
<1>4. \A u \in Tasks : taskState[u] \in BegunStates => taskState'[u] \in BegunStates
  BY DEF PhantomIndInv, PhantomTypeOK, QueueTask, BegunStates
<1>5. TakenIsUnderway' /\ WorkIsTaken'
  BY <1>1, <1>4, WorkIsKept DEF QueueTask
<1>6. QED
  BY <1>3, <1>5 DEF PhantomIndInv

\* A queued task was taken by nobody, so that the loop that takes it is its
\* only one.
LEMMA TakeInv ==
  ASSUME PhantomIndInv, NEW l \in PhantomSessions, Take(l)
  PROVE  PhantomIndInv'
<1> PICK t \in Tasks : /\ Found(t)
                       /\ taskState' = [taskState EXCEPT ![t] = "building"]
                       /\ work' = [work EXCEPT ![l] = t]
                       /\ takers' = [takers EXCEPT ![t] = @ \cup {l}]
  BY DEF Take, Claimed
<1>1. loopPc' = [loopPc EXCEPT ![l] = "building"] /\ UNCHANGED <<activeSession, status, tasks>>
  BY DEF Take
<1>2. taskState[t] = "queued"
  BY DEF Found
<1>3. takers[t] = {}
  BY <1>2 DEF PhantomIndInv, TakenIsUnderway, BegunStates
<1>4. takers'[t] = {l} /\ \A u \in Tasks \ {t} : takers'[u] = takers[u]
  BY <1>3 DEF PhantomIndInv, PhantomTypeOK
<1>5. PhantomTypeOK'
  BY <1>1 DEF PhantomIndInv, PhantomTypeOK
<1>6. TakenIsUnderway'
  <2>1. Cardinality({l}) <= 1
    <3>1. Cardinality({l}) = 1
      BY FS_Singleton
    <3>2. QED
      BY <3>1
  <2>2. Cardinality(takers'[t]) <= 1
    BY <1>4, <2>1, Zenon
  <2>3. \A u \in Tasks \ {t} : Cardinality(takers'[u]) <= 1
    BY <1>4, Zenon DEF PhantomIndInv, TakenIsUnderway
  <2>4. \A u \in Tasks : takers'[u] # {} => taskState'[u] \in BegunStates
    BY <1>4 DEF PhantomIndInv, PhantomTypeOK, TakenIsUnderway, BegunStates
  <2>5. QED
    BY <2>2, <2>3, <2>4, Zenon DEF TakenIsUnderway
<1>7. WorkIsTaken'
  <2>1. work'[l] = t /\ takers'[t] # {}
    BY <1>4 DEF PhantomIndInv, PhantomTypeOK
  <2>2. \A m \in PhantomSessions \ {l} : loopPc'[m] = loopPc[m] /\ work'[m] = work[m]
    BY <1>1 DEF PhantomIndInv, PhantomTypeOK
  <2>3. \A u \in Tasks : takers[u] # {} => takers'[u] # {}
    BY <1>4
  <2>4. QED
    BY <2>1, <2>2, <2>3 DEF PhantomIndInv, WorkIsTaken
<1>8. QED
  BY <1>5, <1>6, <1>7 DEF PhantomIndInv

LEMMA SleepInv ==
  ASSUME PhantomIndInv, NEW l \in PhantomSessions, Sleep(l) \/ Leave(l)
  PROVE  PhantomIndInv'
<1>1. PhantomTypeOK'
  <2>1. CASE Sleep(l)
    BY <2>1 DEF PhantomIndInv, PhantomTypeOK, Sleep, Idle
  <2>2. CASE Leave(l)
    BY <2>2 DEF PhantomIndInv, PhantomTypeOK, Leave, Idle
  <2>3. QED
    BY <2>1, <2>2
<1>2. TakenIsUnderway' /\ WorkIsTaken'
  BY WorkIsKept DEF Sleep, Leave, Idle
<1>3. QED
  BY <1>1, <1>2 DEF PhantomIndInv

\* The task moves on, and its only loop with it.
LEMMA BuiltInv ==
  ASSUME PhantomIndInv, NEW l \in PhantomSessions, Built(l) \/ Broken(l)
  PROVE  PhantomIndInv'
<1>1. work[l] \in Tasks /\ takers' = takers
  BY DEF PhantomIndInv, WorkIsTaken, Built, Broken
<1>2. PhantomTypeOK'
  <2>1. CASE Built(l)
    BY <1>1, <2>1 DEF PhantomIndInv, PhantomTypeOK, Built
  <2>2. CASE Broken(l)
    BY <1>1, <2>2 DEF PhantomIndInv, PhantomTypeOK, Broken
  <2>3. QED
    BY <2>1, <2>2
<1>3. \A t \in Tasks : taskState[t] \in BegunStates => taskState'[t] \in BegunStates
  BY <1>1 DEF PhantomIndInv, PhantomTypeOK, Built, Broken, BegunStates
<1>4. TakenIsUnderway'
  BY <1>1, <1>3, Zenon DEF PhantomIndInv, TakenIsUnderway
<1>5. WorkIsTaken'
  BY <1>1 DEF PhantomIndInv, PhantomTypeOK, WorkIsTaken, Built, Broken
<1>6. QED
  BY <1>2, <1>4, <1>5 DEF PhantomIndInv

LEMMA PhantomNextInv == PhantomIndInv /\ [PhantomNext]_phantomVars => PhantomIndInv'
<1> SUFFICES ASSUME PhantomIndInv, [PhantomNext]_phantomVars
             PROVE  PhantomIndInv'
  OBVIOUS
<1>1. ASSUME NEW s \in PhantomSessions, StartSession(s) \/ Loop(s)
      PROVE  PhantomIndInv'
  BY <1>1, StartSessionInv, TakeInv, SleepInv, BuiltInv DEF Loop
<1>2. CASE EndSession
  BY <1>2, EndSessionInv
<1>3. ASSUME NEW t \in Tasks, QueueTask(t)
      PROVE  PhantomIndInv'
  BY <1>3, QueueTaskInv
<1>4. CASE UNCHANGED phantomVars
  <2>1. PhantomTypeOK' /\ WorkIsTaken'
    BY <1>4 DEF phantomVars, PhantomIndInv, PhantomTypeOK, WorkIsTaken
  <2>2. TakenIsUnderway'
    BY <1>4, Zenon DEF phantomVars, PhantomIndInv, TakenIsUnderway
  <2>3. QED
    BY <2>1, <2>2 DEF PhantomIndInv
<1>5. QED
  BY <1>1, <1>2, <1>3, <1>4 DEF PhantomNext

\* Every variable of the scheduler keeps its type.
THEOREM PhantomTypeCorrect == PhantomSpec => []PhantomTypeOK
<1>1. PhantomIndInv => PhantomTypeOK
  BY DEF PhantomIndInv
<1>2. QED
  BY <1>1, PhantomInitInv, PhantomNextInv, PTL DEF PhantomSpec

\* However sessions end and begin while loops sleep or work, no task is
\* executed twice. (runQueue, executeTask)
THEOREM TasksExecuteOnce == PhantomSpec => []ExecutedOnce
<1>1. PhantomIndInv => ExecutedOnce
  BY Zenon DEF PhantomIndInv, TakenIsUnderway, ExecutedOnce
<1>2. QED
  BY <1>1, PhantomInitInv, PhantomNextInv, PTL DEF PhantomSpec
-----------------------------------------------------------------------------
(* The audit log.                                                          *)

Entries == [id : Events, status : SyncStatuses]

\* What the invariant says of each log.
OnlyAccepted(log) == \A i \in DOMAIN log : log[i].status = "synced" => log[i].id \in accepted
Good(log) ==
  /\ log \in Logs /\ Len(log) <= LogSize
  /\ \A i \in DOMAIN log : log[i].id \in recorded
  /\ OnlyAccepted(log)

\* Recording keeps of the new log what it has room for.
LEMMA NewestAreKept ==
  ASSUME NEW log \in Logs
  PROVE  LET kept == SubSeq(log, 1, Min({LogSize, Len(log)}))
         IN  /\ kept \in Logs /\ Len(kept) <= LogSize
             /\ \A i \in DOMAIN kept : i \in DOMAIN log /\ kept[i] = log[i]
<1> DEFINE n == Min({LogSize, Len(log)})
           kept == SubSeq(log, 1, n)
<1>1. log \in Seq(Entries) /\ Len(log) \in Nat
  BY LenProperties DEF Logs, Entries
<1>2. n \in {LogSize, Len(log)} /\ n <= LogSize /\ n <= Len(log)
  <2>1. \E x \in {LogSize, Len(log)} : \A y \in {LogSize, Len(log)} : x <= y
    BY <1>1
  <2>2. n \in {LogSize, Len(log)} /\ \A y \in {LogSize, Len(log)} : n <= y
    BY <2>1, Zenon DEF Min
  <2>3. QED
    BY <2>2
<1>3. n \in Nat /\ n \in Int
  BY <1>1, <1>2
<1>4. \A i \in 1 .. n : i \in DOMAIN log /\ log[i] \in Entries
  BY <1>1, <1>2, <1>3, ElementOfSeq, LenProperties
<1> HIDE DEF n
<1>5. /\ kept \in Seq(Entries)
      /\ Len(kept) = IF 1 <= n THEN n - 1 + 1 ELSE 0
      /\ \A i \in 1 .. n - 1 + 1 : kept[i] = log[1 + i - 1]
  BY <1>3, <1>4, SubSeqProperties
<1>6. Len(kept) = n /\ DOMAIN kept = 1 .. n /\ \A i \in 1 .. n : kept[i] = log[i]
  BY <1>3, <1>4, <1>5, LenProperties
<1>7. QED
  BY <1>2, <1>4, <1>5, <1>6 DEF n, Logs, Entries

\* Marking touches the status of some entries and nothing else.
LEMMA MarkedLog ==
  ASSUME events \in Logs, NEW ids, NEW status_ \in SyncStatuses
  PROVE  /\ Marked(ids, status_) \in Logs
         /\ DOMAIN Marked(ids, status_) = DOMAIN events
         /\ Len(Marked(ids, status_)) = Len(events)
         /\ \A i \in DOMAIN events :
              /\ Marked(ids, status_)[i].id = events[i].id
              /\ IF events[i].id \in ids
                 THEN Marked(ids, status_)[i].status = status_
                 ELSE Marked(ids, status_)[i] = events[i]
<1> DEFINE n == Len(events)
           new == Marked(ids, status_)
<1>1. events \in Seq(Entries) /\ n \in Nat /\ DOMAIN events = 1 .. n
  BY LenProperties DEF Logs, Entries
<1>2. \A i \in 1 .. n : events[i] \in Entries
  BY <1>1, ElementOfSeq
<1>3. /\ DOMAIN new = 1 .. n
      /\ new = [i \in 1 .. n |->
                  IF events[i].id \in ids THEN [events[i] EXCEPT !.status = status_] ELSE events[i]]
  BY <1>1 DEF Marked
<1>4. \A i \in 1 .. n : new[i] \in Entries
  BY <1>2, <1>3 DEF Entries
<1>5. new \in Seq(Entries) /\ Len(new) = n
  <2>1. new \in [1 .. n -> Entries]
    BY <1>3, <1>4
  <2>2. QED
    BY <1>1, <2>1, IsASeq, LenProperties
<1>6. \A i \in 1 .. n : /\ new[i].id = events[i].id
                        /\ IF events[i].id \in ids THEN new[i].status = status_
                                                   ELSE new[i] = events[i]
  BY <1>2, <1>3 DEF Entries
<1>7. QED
  BY <1>1, <1>3, <1>5, <1>6 DEF Logs, Entries

\* What is sent, at once or in batches, is a sequence of sets of recorded events.
LEMMA BatchesAreRecorded ==
  ASSUME AuditIndInv
  PROVE  <<Ids(Pending)>> \in Seq(SUBSET recorded) /\ Batches \in Seq(SUBSET recorded)
<1>1. \A i \in DOMAIN events : events[i].id \in recorded
  BY DEF AuditIndInv, LogsOK
<1>2. ASSUME NEW places \in SUBSET Pending PROVE Ids(places) \in SUBSET recorded
  BY <1>1 DEF Ids, Pending
<1>3. <<Ids(Pending)>> \in Seq(SUBSET recorded)
  BY <1>2
<1>4. IsFiniteSet(Pending)
  <2>1. DOMAIN events = 1 .. Len(events) /\ Len(events) \in Nat
    BY LenProperties DEF AuditIndInv, LogsOK, Logs
  <2>2. IsFiniteSet(1 .. Len(events))
    BY <2>1, FS_Interval
  <2>3. QED
    BY <2>1, <2>2, FS_Subset DEF Pending
<1>5. Cardinality(Pending) \in Nat
  BY <1>4, FS_CardinalityType
<1> DEFINE n == (Cardinality(Pending) + BatchSize - 1) \div BatchSize
           batch(b) == Ids({i \in Pending : PendingBefore(i) \div BatchSize = b - 1})
<1>6. n \in Nat
  <2>1. Cardinality(Pending) + BatchSize - 1 \in Nat
    BY <1>5
  <2>2. \A x \in Nat, y \in Nat \ {0} : x \div y \in Nat
    OBVIOUS
  <2>3. QED
    BY <2>1, <2>2
<1>7. \A b \in 1 .. n : batch(b) \in SUBSET recorded
  BY <1>2
<1>8. Batches = [b \in 1 .. n |-> batch(b)]
  BY DEF Batches
<1> HIDE DEF n, batch
<1>9. Batches \in [1 .. n -> SUBSET recorded]
  BY <1>7, <1>8
<1>10. QED
  BY <1>3, <1>6, <1>9, IsASeq

\* The first of the batches, and those after it.
LEMMA FirstAndRest ==
  ASSUME AuditIndInv, NEW d \in Dispatches, todo[d] # <<>>
  PROVE  Head(todo[d]) \subseteq recorded /\ Tail(todo[d]) \in Seq(SUBSET recorded)
<1>1. todo[d] \in Seq(SUBSET recorded)
  BY DEF AuditIndInv, SentIsRecorded
<1>2. QED
  BY <1>1, HeadTailProperties

LEMMA AuditInitInv == AuditInit => AuditIndInv
<1> SUFFICES ASSUME AuditInit PROVE AuditIndInv
  OBVIOUS
<1>1. <<>> \in Logs /\ DOMAIN <<>> = {} /\ Len(<<>>) = 0
  BY EmptySeq DEF Logs
<1>2. LogsOK /\ SyncedIsAccepted
  BY <1>1 DEF AuditInit, LogsOK, SyncedIsAccepted
<1>3. SentIsRecorded /\ TakenIsAccepted
  BY DEF AuditInit, SentIsRecorded, TakenIsAccepted
<1>4. QED
  BY <1>2, <1>3 DEF AuditIndInv

\* The logs of the next state are those of this one, or the new log.
LEMMA LogsAreGood ==
  ASSUME AuditIndInv, accepted \subseteq accepted',
         recorded \subseteq recorded', recorded' \subseteq Events,
         NEW new, Good(new)', events' \in {events, stored, new}, stored' \in {stored} \cup writes,
         writes' \subseteq writes \cup {new}
  PROVE  LogsOK' /\ SyncedIsAccepted'
<1>1. \A log \in {events, stored} \cup writes : Good(log)'
  BY DEF AuditIndInv, LogsOK, SyncedIsAccepted, Good, OnlyAccepted
<1>2. \A log \in {events', stored'} \cup writes' : log \in {events, stored, new} \cup writes
  OBVIOUS
<1>3. \A log \in {events', stored'} \cup writes' : Good(log)'
  BY <1>1, <1>2
<1>4. QED
  BY <1>3 DEF LogsOK, SyncedIsAccepted, Good, OnlyAccepted

\* Steps after which every log is one that was there.
LEMMA LogsAreKept ==
  ASSUME AuditIndInv, accepted \subseteq accepted', recorded' = recorded,
         events' \in {events, stored}, stored' \in {stored} \cup writes, writes' \subseteq writes
  PROVE  LogsOK' /\ SyncedIsAccepted'
<1> SUFFICES ASSUME NEW log, log = stored
             PROVE  LogsOK' /\ SyncedIsAccepted'
  OBVIOUS
<1>1. recorded' \subseteq Events /\ recorded \subseteq recorded'
  BY DEF AuditIndInv, LogsOK
<1>2. Good(log)'
  BY <1>1 DEF AuditIndInv, LogsOK, SyncedIsAccepted, Good, OnlyAccepted
<1>3. QED
  BY <1>1, <1>2, LogsAreGood

LEMMA RecordInv ==
  ASSUME AuditIndInv, NEW e \in Events, NEW s \in {"pending", "local_only"}, Record(e, s)
  PROVE  AuditIndInv'
<1> DEFINE entry == [id |-> e, status |-> s]
           log == <<entry>> \o events
<1> SUFFICES ASSUME NEW kept, kept = SubSeq(log, 1, Min({LogSize, Len(log)}))
             PROVE  AuditIndInv'
  OBVIOUS
<1>1. /\ events' = kept /\ recorded' = recorded \cup {e}
      /\ accepted' = accepted /\ stored' = stored
      /\ writes' = writes \cup {kept} /\ todo' = todo /\ taken' = taken
  BY DEF Record, Persist
<1>2. entry \in Entries /\ events \in Seq(Entries)
  BY DEF Entries, SyncStatuses, AuditIndInv, LogsOK, Logs
<1>3. <<entry>> \in Seq(Entries) /\ Len(<<entry>>) = 1
  BY <1>2
<1>4. /\ log \in Seq(Entries) /\ Len(log) = 1 + Len(events)
      /\ \A i \in 1 .. Len(log) : log[i] = IF i = 1 THEN entry ELSE events[i - 1]
  BY <1>2, <1>3, ConcatProperties
<1>5. DOMAIN log = 1 .. Len(log) /\ DOMAIN events = 1 .. Len(events) /\ Len(events) \in Nat
  BY <1>2, <1>4, LenProperties
<1>6. \A i \in DOMAIN events : /\ events[i].id \in recorded
                               /\ events[i].status = "synced" => events[i].id \in accepted
  BY DEF AuditIndInv, LogsOK, SyncedIsAccepted
<1>7. \A i \in DOMAIN log : /\ log[i].id \in recorded'
                            /\ log[i].status = "synced" => log[i].id \in accepted
  <2> SUFFICES ASSUME NEW i \in 1 .. Len(log)
               PROVE  /\ log[i].id \in recorded'
                      /\ log[i].status = "synced" => log[i].id \in accepted
    BY <1>5
  <2>1. CASE i = 1
    BY <1>1, <1>4, <2>1
  <2>2. CASE i # 1
    <3>1. i - 1 \in DOMAIN events /\ log[i] = events[i - 1]
      BY <1>4, <1>5, <2>2
    <3>2. QED
      BY <1>1, <1>6, <3>1
  <2>3. QED
    BY <2>1, <2>2
<1>8. /\ kept \in Logs /\ Len(kept) <= LogSize
      /\ \A i \in DOMAIN kept : i \in DOMAIN log /\ kept[i] = log[i]
  BY <1>4, NewestAreKept DEF Logs, Entries
<1>9. Good(kept)'
  BY <1>1, <1>7, <1>8 DEF Good, OnlyAccepted
<1>10. LogsOK' /\ SyncedIsAccepted'
  <2>1. recorded \subseteq recorded' /\ recorded' \subseteq Events
    BY <1>1 DEF AuditIndInv, LogsOK
  <2>2. QED
    BY <1>1, <1>9, <2>1, LogsAreGood
<1>11. SentIsRecorded'
  BY <1>1 DEF AuditIndInv, SentIsRecorded
<1>12. TakenIsAccepted'
  BY <1>1 DEF AuditIndInv, TakenIsAccepted
<1>13. QED
  BY <1>10, <1>11, <1>12 DEF AuditIndInv

LEMMA DispatchInv ==
  ASSUME AuditIndInv, NEW d \in Dispatches, DispatchForPlan(d) \/ Flush(d)
  PROVE  AuditIndInv'
<1>1. LogsOK' /\ SyncedIsAccepted'
  BY LogsAreKept DEF DispatchForPlan, Flush
<1>2. PICK batches \in Seq(SUBSET recorded) : todo' = [todo EXCEPT ![d] = batches]
  BY BatchesAreRecorded DEF DispatchForPlan, Flush
<1>3. d \notin taken /\ UNCHANGED <<recorded, taken, accepted>>
  BY DEF AuditIndInv, TakenIsAccepted, DispatchForPlan, Flush
<1>4. SentIsRecorded'
  BY <1>2, <1>3 DEF AuditIndInv, SentIsRecorded
<1>5. TakenIsAccepted'
  BY <1>2, <1>3 DEF AuditIndInv, SentIsRecorded, TakenIsAccepted
<1>6. QED
  BY <1>1, <1>4, <1>5 DEF AuditIndInv

LEMMA ServerTakesInv ==
  ASSUME AuditIndInv, NEW d \in Dispatches, ServerTakes(d)
  PROVE  AuditIndInv'
<1>1. LogsOK' /\ SyncedIsAccepted'
  BY LogsAreKept DEF ServerTakes
<1>2. SentIsRecorded'
  BY FirstAndRest DEF AuditIndInv, SentIsRecorded, ServerTakes
<1>3. TakenIsAccepted'
  BY DEF AuditIndInv, TakenIsAccepted, ServerTakes
<1>4. QED
  BY <1>1, <1>2, <1>3 DEF AuditIndInv

\* A log with other statuses is as good, if only what the server took is synced.
LEMMA MarkedIsGood ==
  ASSUME AuditIndInv, NEW ids, NEW status_ \in SyncStatuses,
         status_ = "synced" => ids \subseteq accepted
  PROVE  Good(Marked(ids, status_))
<1>1. events \in Logs /\ Good(events)
  BY DEF AuditIndInv, LogsOK, SyncedIsAccepted, Good, OnlyAccepted
<1>2. QED
  BY <1>1, MarkedLog DEF Good, OnlyAccepted

\* Only what the server took is marked as synced.
LEMMA SucceedInv ==
  ASSUME AuditIndInv, NEW d \in Dispatches, Succeed(d)
  PROVE  AuditIndInv'
<1> SUFFICES ASSUME NEW ids, ids = Head(todo[d]), NEW new, new = Marked(ids, "synced")
             PROVE  AuditIndInv'
  OBVIOUS
<1>1. /\ d \in taken /\ events' = new /\ taken' = taken \ {d}
      /\ recorded' = recorded /\ accepted' = accepted /\ stored' = stored
      /\ todo' = [todo EXCEPT ![d] = Tail(todo[d])]
  BY DEF Succeed
<1>2. writes' \subseteq writes \cup {new}
  BY <1>1 DEF Succeed, Persist
<1>3. todo[d] # <<>> /\ ids \subseteq accepted
  BY <1>1 DEF AuditIndInv, TakenIsAccepted
<1>4. Good(new)
  BY <1>3, MarkedIsGood DEF SyncStatuses
<1>5. LogsOK' /\ SyncedIsAccepted'
  <2>1. Good(new)' /\ recorded' \subseteq Events
    BY <1>1, <1>4 DEF Good, OnlyAccepted, AuditIndInv, LogsOK
  <2>2. QED
    BY <1>1, <1>2, <2>1, LogsAreGood
<1>6. SentIsRecorded'
  BY <1>1, <1>3, FirstAndRest DEF AuditIndInv, SentIsRecorded
<1>7. TakenIsAccepted'
  BY <1>1 DEF AuditIndInv, SentIsRecorded, TakenIsAccepted
<1>8. QED
  BY <1>5, <1>6, <1>7 DEF AuditIndInv

\* A batch that failed is marked so, and nothing is synced by it.
LEMMA ThrowInv ==
  ASSUME AuditIndInv, NEW d \in Dispatches, Throw(d)
  PROVE  AuditIndInv'
<1> SUFFICES ASSUME NEW new, new = Marked(Head(todo[d]), "failed")
             PROVE  AuditIndInv'
  OBVIOUS
<1>1. /\ events' = new /\ taken' = taken \ {d} /\ writes' = writes \cup {new}
      /\ recorded' = recorded /\ accepted' = accepted /\ stored' = stored
      /\ todo' = [todo EXCEPT ![d] = <<>>]
  BY DEF Throw, Persist
<1>2. Good(new)
  BY MarkedIsGood DEF SyncStatuses
<1>3. LogsOK' /\ SyncedIsAccepted'
  <2>1. Good(new)' /\ recorded' \subseteq Events
    BY <1>1, <1>2 DEF Good, OnlyAccepted, AuditIndInv, LogsOK
  <2>2. QED
    BY <1>1, <2>1, LogsAreGood
<1>4. SentIsRecorded'
  <2>1. <<>> \in Seq(SUBSET recorded)
    BY EmptySeq
  <2>2. QED
    BY <1>1, <2>1 DEF AuditIndInv, SentIsRecorded
<1>5. TakenIsAccepted'
  BY <1>1 DEF AuditIndInv, SentIsRecorded, TakenIsAccepted
<1>6. QED
  BY <1>3, <1>4, <1>5 DEF AuditIndInv

\* A write lands or is lost, or the application is opened again.
LEMMA StoreInv ==
  ASSUME AuditIndInv, (\E w \in writes : Land(w) \/ Drop(w)) \/ Restart
  PROVE  AuditIndInv'
<1>1. /\ recorded' = recorded /\ accepted' = accepted /\ events' \in {events, stored}
      /\ stored' \in {stored} \cup writes /\ writes' \subseteq writes
  BY DEF Land, Drop, Restart
<1>2. LogsOK' /\ SyncedIsAccepted'
  BY <1>1, LogsAreKept
<1>3. SentIsRecorded' /\ TakenIsAccepted'
  BY EmptySeq DEF AuditIndInv, SentIsRecorded, TakenIsAccepted, Land, Drop, Restart
<1>4. QED
  BY <1>2, <1>3 DEF AuditIndInv

LEMMA AuditNextInv == AuditIndInv /\ [AuditNext]_auditVars => AuditIndInv'
<1> SUFFICES ASSUME AuditIndInv, [AuditNext]_auditVars
             PROVE  AuditIndInv'
  OBVIOUS
<1>1. ASSUME NEW e \in Events, NEW s \in {"pending", "local_only"}, Record(e, s)
      PROVE  AuditIndInv'
  BY <1>1, RecordInv
<1>2. ASSUME NEW d \in Dispatches,
             DispatchForPlan(d) \/ Flush(d) \/ ServerTakes(d) \/ Succeed(d) \/ Throw(d)
      PROVE  AuditIndInv'
  BY <1>2, DispatchInv, ServerTakesInv, SucceedInv, ThrowInv
<1>3. CASE (\E w \in writes : Land(w) \/ Drop(w)) \/ Restart
  BY <1>3, StoreInv
<1>4. CASE UNCHANGED auditVars
  BY <1>4, LogsAreKept DEF auditVars, AuditIndInv, SentIsRecorded, TakenIsAccepted
<1>5. QED
  BY <1>1, <1>2, <1>3, <1>4 DEF AuditNext

\* Every variable of the audit log keeps its type: no log outgrows its size, and
\* only recorded events are sent and accepted.
THEOREM AuditTypeCorrect == AuditSpec => []AuditTypeOK
<1>1. AuditIndInv => AuditTypeOK
  <2> SUFFICES ASSUME AuditIndInv PROVE AuditTypeOK
    OBVIOUS
  <2>1. todo \in [Dispatches -> Seq(SUBSET Events)]
    <3>1. \A d \in Dispatches : todo[d] \in Seq(SUBSET Events)
      <4> SUFFICES ASSUME NEW d \in Dispatches PROVE todo[d] \in Seq(SUBSET Events)
        OBVIOUS
      <4>1. todo[d] \in Seq(SUBSET recorded)
        BY DEF AuditIndInv, SentIsRecorded
      <4>2. \A i \in 1 .. Len(todo[d]) : todo[d][i] \in SUBSET Events
        BY <4>1, ElementOfSeq DEF AuditIndInv, LogsOK
      <4>3. QED
        BY <4>1, <4>2, IsASeq, LenProperties
    <3>2. QED
      BY <3>1 DEF AuditIndInv, SentIsRecorded
  <2>2. QED
    BY <2>1 DEF AuditIndInv, LogsOK, SentIsRecorded, AuditTypeOK
<1>2. QED
  BY <1>1, AuditInitInv, AuditNextInv, PTL DEF AuditSpec

\* An event shown as synced, now or after any restart, is at the server.
\* (flushPendingEvents, dispatchForPlan)
THEOREM SyncedEventsAreAccepted == AuditSpec => []SyncedIsAccepted
<1>1. AuditIndInv => SyncedIsAccepted
  BY DEF AuditIndInv
<1>2. QED
  BY <1>1, AuditInitInv, AuditNextInv, PTL DEF AuditSpec

\* What the logs name and what was sent was recorded.
LEMMA KnownIsRecorded ==
  ASSUME AuditIndInv
  PROVE  LocalIds \cup OtherIds \cup SentIds \subseteq recorded
<1>1. LocalIds \cup OtherIds \subseteq recorded
  BY DEF AuditIndInv, LogsOK, LocalIds, OtherIds
<1>2. ASSUME NEW d \in Dispatches, NEW i \in DOMAIN todo[d] PROVE todo[d][i] \subseteq recorded
  <2>1. todo[d] \in Seq(SUBSET recorded)
    BY DEF AuditIndInv, SentIsRecorded
  <2>2. QED
    BY <2>1, ElementOfSeq, LenProperties
<1>3. SentIds \subseteq recorded
  BY <1>2 DEF AuditIndInv, SentIsRecorded, SentIds
<1>4. QED
  BY <1>1, <1>3

\* Local events stay apart if the new log shows as local, or otherwise, what some log
\* showed so or what was not recorded before, and if nothing is sent but what was sent
\* or shown otherwise.
LEMMA ApartIsKept ==
  ASSUME LocalIsApart, AuditIndInv, NEW new, NEW local, NEW other,
         local \cap other = {}, (local \cup other) \cap recorded = {},
         events' \in {events, stored, new}, stored' \in {stored} \cup writes,
         writes' \subseteq writes \cup {new},
         \A i \in DOMAIN new :
           IF new[i].status = "local_only" THEN new[i].id \in LocalIds \cup local
                                           ELSE new[i].id \in OtherIds \cup other,
         SentIds' \subseteq SentIds \cup OtherIds
  PROVE  LocalIsApart'
<1>1. \A log \in {events', stored'} \cup writes' :
        log = new \/ log \in {events, stored} \cup writes
  OBVIOUS
<1>2. LocalIds' \subseteq LocalIds \cup local
  <2> SUFFICES ASSUME NEW log \in {events', stored'} \cup writes', NEW i \in DOMAIN log,
                      log[i].status = "local_only"
               PROVE  log[i].id \in LocalIds \cup local
    BY DEF LocalIds
  <2>1. QED
    BY <1>1 DEF LocalIds
<1>3. OtherIds' \subseteq OtherIds \cup other
  <2> SUFFICES ASSUME NEW log \in {events', stored'} \cup writes', NEW i \in DOMAIN log,
                      log[i].status # "local_only"
               PROVE  log[i].id \in OtherIds \cup other
    BY DEF OtherIds
  <2>1. QED
    BY <1>1 DEF OtherIds
<1>4. QED
  BY <1>2, <1>3, KnownIsRecorded DEF LocalIsApart

\* The batch a dispatch is at is to be sent.
LEMMA FirstIsSent ==
  ASSUME AuditIndInv, NEW d \in Dispatches, todo[d] # <<>>
  PROVE  Head(todo[d]) \subseteq SentIds
<1>1. todo[d] \in Seq(SUBSET recorded)
  BY DEF AuditIndInv, SentIsRecorded
<1>2. Len(todo[d]) \in Nat \ {0} /\ DOMAIN todo[d] = 1 .. Len(todo[d])
  BY <1>1, EmptySeq, LenProperties
<1>3. Head(todo[d]) = todo[d][1] /\ 1 \in DOMAIN todo[d]
  BY <1>1, <1>2, HeadTailProperties
<1>4. QED
  BY <1>3 DEF SentIds

\* What is to be sent was to be sent before, or was pending.
LEMMA SentWasPending ==
  ASSUME AuditIndInv, NEW d \in Dispatches,
         DispatchForPlan(d) \/ Flush(d) \/ ServerTakes(d) \/ Succeed(d) \/ Throw(d)
  PROVE  SentIds' \subseteq SentIds \cup OtherIds
<1>1. todo[d] \in Seq(SUBSET recorded)
  BY DEF AuditIndInv, SentIsRecorded
<1>2. todo[d] # <<>> => Head(todo[d]) \subseteq SentIds
  BY FirstIsSent
<1>3. accepted' \subseteq SentIds
  BY <1>2 DEF SentIds, DispatchForPlan, Flush, ServerTakes, Succeed, Throw
<1>4. PICK batches : /\ todo' = [todo EXCEPT ![d] = batches]
                     /\ \A i \in DOMAIN batches : batches[i] \subseteq SentIds \cup OtherIds
  <2>1. \A places \in SUBSET Pending : Ids(places) \subseteq OtherIds
    BY DEF Pending, Ids, OtherIds
  <2>2. CASE DispatchForPlan(d)
    <3>1. \A i \in DOMAIN <<Ids(Pending)>> : <<Ids(Pending)>>[i] \subseteq OtherIds
      BY <2>1
    <3>2. QED
      BY <2>2, <3>1 DEF DispatchForPlan
  <2>3. CASE Flush(d)
    <3>1. \A i \in DOMAIN Batches : Batches[i] \subseteq OtherIds
      BY <2>1 DEF Batches
    <3>2. QED
      BY <2>3, <3>1 DEF Flush
  <2>4. CASE ServerTakes(d)
    <3>1. \A i \in DOMAIN todo[d] : todo[d][i] \subseteq SentIds
      BY DEF SentIds
    <3>2. todo' = [todo EXCEPT ![d] = todo[d]]
      BY <2>4 DEF ServerTakes, AuditIndInv, SentIsRecorded
    <3>3. QED
      BY <3>1, <3>2
  <2>5. CASE Succeed(d)
    <3>1. todo[d] # <<>>
      BY <2>5 DEF Succeed, AuditIndInv, TakenIsAccepted
    <3>2. /\ DOMAIN Tail(todo[d]) = 1 .. Len(todo[d]) - 1
          /\ \A i \in 1 .. Len(todo[d]) - 1 : Tail(todo[d])[i] = todo[d][i + 1]
      BY <1>1, <3>1, HeadTailProperties, LenProperties
    <3>3. \A i \in DOMAIN Tail(todo[d]) : Tail(todo[d])[i] \subseteq SentIds
      <4> SUFFICES ASSUME NEW i \in 1 .. Len(todo[d]) - 1
                   PROVE  Tail(todo[d])[i] \subseteq SentIds
        BY <3>2
      <4>1. i + 1 \in DOMAIN todo[d]
        BY <1>1, LenProperties
      <4>2. QED
        BY <3>2, <4>1 DEF SentIds
    <3>4. QED
      BY <2>5, <3>3 DEF Succeed
  <2>6. CASE Throw(d)
    <3>1. DOMAIN <<>> = {}
      OBVIOUS
    <3>2. QED
      BY <2>6, <3>1 DEF Throw
  <2>7. QED
    BY <2>2, <2>3, <2>4, <2>5, <2>6
<1>5. ASSUME NEW c \in Dispatches, NEW i \in DOMAIN todo'[c]
      PROVE  todo'[c][i] \subseteq SentIds \cup OtherIds
  <2>1. CASE c = d
    BY <1>4, <2>1 DEF AuditIndInv, SentIsRecorded
  <2>2. CASE c # d
    BY <1>4, <2>2 DEF SentIds
  <2>3. QED
    BY <2>1, <2>2
<1>6. QED
  BY <1>3, <1>5 DEF SentIds

\* A new event is in no log yet, and the log is cut behind it.
LEMMA RecordKeepsApart ==
  ASSUME LocalIsApart, AuditIndInv,
         NEW e \in Events, NEW s \in {"pending", "local_only"}, Record(e, s)
  PROVE  LocalIsApart'
<1> DEFINE entry == [id |-> e, status |-> s]
           log == <<entry>> \o events
<1> SUFFICES ASSUME NEW kept, kept = SubSeq(log, 1, Min({LogSize, Len(log)})),
                    NEW local, local = IF s = "local_only" THEN {e} ELSE {},
                    NEW other, other = IF s = "local_only" THEN {} ELSE {e}
             PROVE  LocalIsApart'
  OBVIOUS
<1>1. /\ e \notin recorded /\ events' = kept /\ stored' = stored
      /\ writes' = writes \cup {kept} /\ accepted' = accepted /\ todo' = todo
  BY DEF Record, Persist
<1>2. /\ entry \in Entries /\ events \in Seq(Entries)
      /\ entry.id = e /\ entry.status = s
  BY DEF Entries, SyncStatuses, AuditIndInv, LogsOK, Logs
<1>3. <<entry>> \in Seq(Entries) /\ Len(<<entry>>) = 1
  BY <1>2
<1>4. /\ log \in Seq(Entries) /\ Len(log) = 1 + Len(events)
      /\ \A i \in 1 .. Len(log) : log[i] = IF i = 1 THEN entry ELSE events[i - 1]
  BY <1>2, <1>3, ConcatProperties
<1>5. DOMAIN log = 1 .. Len(log) /\ DOMAIN events = 1 .. Len(events) /\ Len(events) \in Nat
  BY <1>2, <1>4, LenProperties
<1>6. \A i \in DOMAIN log : log[i] = entry \/ \E j \in DOMAIN events : log[i] = events[j]
  <2> SUFFICES ASSUME NEW i \in 1 .. Len(log), i # 1
               PROVE  \E j \in DOMAIN events : log[i] = events[j]
    BY <1>4, <1>5
  <2>1. i - 1 \in DOMAIN events /\ log[i] = events[i - 1]
    BY <1>4, <1>5
  <2>2. QED
    BY <2>1
<1>7. \A i \in DOMAIN kept : kept[i] = entry \/ \E j \in DOMAIN events : kept[i] = events[j]
  <2>1. \A i \in DOMAIN kept : i \in DOMAIN log /\ kept[i] = log[i]
    BY <1>4, NewestAreKept DEF Logs, Entries
  <2>2. QED
    BY <1>6, <2>1
<1>8. \A i \in DOMAIN kept :
        IF kept[i].status = "local_only" THEN kept[i].id \in LocalIds \cup local
                                         ELSE kept[i].id \in OtherIds \cup other
  <2>1. \A j \in DOMAIN events : IF events[j].status = "local_only" THEN events[j].id \in LocalIds
                                                                    ELSE events[j].id \in OtherIds
    BY DEF LocalIds, OtherIds
  <2> SUFFICES ASSUME NEW i \in DOMAIN kept
               PROVE  IF kept[i].status = "local_only" THEN kept[i].id \in LocalIds \cup local
                                                       ELSE kept[i].id \in OtherIds \cup other
    OBVIOUS
  <2>2. CASE kept[i] = entry
    BY <1>2, <2>2
  <2>3. ASSUME NEW j \in DOMAIN events, kept[i] = events[j]
        PROVE  IF kept[i].status = "local_only" THEN kept[i].id \in LocalIds
                                                ELSE kept[i].id \in OtherIds
    BY <2>1, <2>3
  <2>4. QED
    BY <1>7, <2>2, <2>3
<1>9. SentIds' = SentIds
  BY <1>1 DEF SentIds
<1>10. local \cap other = {} /\ (local \cup other) \cap recorded = {}
  BY <1>1
<1> HIDE DEF log
<1>11. QED
  BY <1>1, <1>8, <1>9, <1>10, ApartIsKept

\* Only entries that were not local are marked, and never as local.
LEMMA MarkKeepsApart ==
  ASSUME LocalIsApart, AuditIndInv, NEW d \in Dispatches, Succeed(d) \/ Throw(d)
  PROVE  LocalIsApart'
<1> SUFFICES ASSUME NEW ids, ids = Head(todo[d]), NEW st \in {"synced", "failed"},
                    NEW new, new = Marked(ids, st), events' = new
             PROVE  LocalIsApart'
  BY DEF Succeed, Throw
<1>1. /\ stored' = stored /\ writes' \subseteq writes \cup {new} /\ todo[d] # <<>>
  BY DEF Succeed, Throw, Persist, AuditIndInv, TakenIsAccepted
<1>2. ids \subseteq SentIds
  BY <1>1, FirstIsSent
<1>3. \A i \in DOMAIN events : IF events[i].status = "local_only" THEN events[i].id \in LocalIds
                                                                  ELSE events[i].id \in OtherIds
  BY DEF LocalIds, OtherIds
<1>4. /\ DOMAIN new = DOMAIN events
      /\ \A i \in DOMAIN events :
           /\ new[i].id = events[i].id
           /\ IF events[i].id \in ids THEN new[i].status = st ELSE new[i] = events[i]
  BY MarkedLog DEF SyncStatuses, AuditIndInv, LogsOK
<1>5. \A i \in DOMAIN new : IF new[i].status = "local_only" THEN new[i].id \in LocalIds
                                                            ELSE new[i].id \in OtherIds
  BY <1>2, <1>3, <1>4 DEF LocalIsApart
<1>6. SentIds' \subseteq SentIds \cup OtherIds
  BY SentWasPending
<1>7. ASSUME NEW none, none = {} PROVE LocalIsApart'
  <2>1. none \cap none = {} /\ (none \cup none) \cap recorded = {}
    BY <1>7
  <2>2. \A i \in DOMAIN new :
          IF new[i].status = "local_only" THEN new[i].id \in LocalIds \cup none
                                          ELSE new[i].id \in OtherIds \cup none
    BY <1>5
  <2>3. events' \in {events, stored, new} /\ stored' \in {stored} \cup writes
    BY <1>1
  <2>4. QED
    BY <1>1, <1>6, <2>1, <2>2, <2>3, ApartIsKept
<1>8. QED
  BY <1>7

LEMMA AuditNextApart == LocalIsApart /\ AuditIndInv /\ [AuditNext]_auditVars => LocalIsApart'
<1> SUFFICES ASSUME LocalIsApart, AuditIndInv, [AuditNext]_auditVars
             PROVE  LocalIsApart'
  OBVIOUS
<1>1. ASSUME events' \in {events, stored}, stored' \in {stored} \cup writes,
             writes' \subseteq writes, SentIds' \subseteq SentIds \cup OtherIds
      PROVE  LocalIsApart'
  <2> SUFFICES ASSUME NEW log, log = events, NEW none, none = {}
               PROVE  LocalIsApart'
    OBVIOUS
  <2>1. \A i \in DOMAIN log : IF log[i].status = "local_only" THEN log[i].id \in LocalIds
                                                              ELSE log[i].id \in OtherIds
    BY DEF LocalIds, OtherIds
  <2>2. /\ none \cap none = {} /\ (none \cup none) \cap recorded = {}
        /\ events' \in {events, stored, log} /\ writes' \subseteq writes \cup {log}
    BY <1>1
  <2>3. \A i \in DOMAIN log :
          IF log[i].status = "local_only" THEN log[i].id \in LocalIds \cup none
                                          ELSE log[i].id \in OtherIds \cup none
    BY <2>1
  <2>4. QED
    BY <1>1, <2>2, <2>3, ApartIsKept
<1>2. ASSUME NEW e \in Events, NEW s \in {"pending", "local_only"}, Record(e, s)
      PROVE  LocalIsApart'
  BY <1>2, RecordKeepsApart
<1>3. ASSUME NEW d \in Dispatches, DispatchForPlan(d) \/ Flush(d) \/ ServerTakes(d)
      PROVE  LocalIsApart'
  BY <1>1, <1>3, SentWasPending DEF DispatchForPlan, Flush, ServerTakes
<1>4. ASSUME NEW d \in Dispatches, Succeed(d) \/ Throw(d)
      PROVE  LocalIsApart'
  BY <1>4, MarkKeepsApart
<1>5. CASE \E w \in writes : Land(w) \/ Drop(w)
  <2>1. SentIds' = SentIds
    BY <1>5 DEF SentIds, Land, Drop
  <2>2. QED
    BY <1>1, <1>5, <2>1 DEF Land, Drop
<1>6. CASE Restart
  <2>1. \A d \in Dispatches : DOMAIN todo'[d] = {}
    BY <1>6 DEF Restart
  <2>2. SentIds' \subseteq SentIds
    BY <1>6, <2>1 DEF SentIds, Restart
  <2>3. QED
    BY <1>1, <1>6, <2>2 DEF Restart
<1>7. CASE UNCHANGED auditVars
  BY <1>1, <1>7 DEF auditVars, SentIds
<1>8. QED
  BY <1>2, <1>3, <1>4, <1>5, <1>6, <1>7 DEF AuditNext

\* An event recorded under a plan that is not synchronized never reaches the server,
\* whichever plan the program has when it dispatches and whichever log it was opened
\* with. (record, isCloudPlan, dispatchForPlan, flushPendingEvents)
THEOREM LocalEventsStayLocal == AuditSpec => []LocalStaysLocal
<1>1. AuditInit => LocalIsApart
  BY DEF AuditInit, LocalIsApart, LocalIds
<1>2. LocalIsApart => LocalStaysLocal
  BY DEF LocalIsApart, LocalStaysLocal, LocalIds, SentIds
<1>3. QED
  BY <1>1, <1>2, AuditInitInv, AuditNextInv, AuditNextApart, PTL DEF AuditSpec
-----------------------------------------------------------------------------
(* The Kanban board.                                                       *)

Saves == [by : Handoffs \cup {NoHandoff}, image : Boards, overtaken : BOOLEAN]

\* A hand-off that began has a card.
CardsKnown == \A h \in Handoffs : handoffPc[h] # "new" => task[h] \in Cards

\* RemoveAt takes one element out and closes the gap.
LEMMA RemoveAtElements ==
  ASSUME NEW S, NEW s \in Seq(S), NEW i \in 1 .. Len(s)
  PROVE  /\ RemoveAt(s, i) \in Seq(S)
         /\ Len(RemoveAt(s, i)) = Len(s) - 1
         /\ \A j \in 1 .. Len(s) - 1 : RemoveAt(s, i)[j] = IF j < i THEN s[j] ELSE s[j + 1]
<1> DEFINE n == Len(s)
           a == SubSeq(s, 1, i - 1)
           b == SubSeq(s, i + 1, n)
<1>1. n \in Nat /\ \A j \in 1 .. n : s[j] \in S
  BY ElementOfSeq, LenProperties
<1>2. /\ a \in Seq(S) /\ Len(a) = IF 1 <= i - 1 THEN i - 1 - 1 + 1 ELSE 0
      /\ \A j \in 1 .. i - 1 - 1 + 1 : a[j] = s[1 + j - 1]
  <2>1. i - 1 \in Int /\ \A j \in 1 .. i - 1 : s[j] \in S
    BY <1>1
  <2>2. QED
    BY <2>1, SubSeqProperties
<1>3. /\ b \in Seq(S) /\ Len(b) = IF i + 1 <= n THEN n - (i + 1) + 1 ELSE 0
      /\ \A j \in 1 .. n - (i + 1) + 1 : b[j] = s[i + 1 + j - 1]
  <2>1. i + 1 \in Int /\ \A j \in i + 1 .. n : s[j] \in S
    BY <1>1
  <2>2. QED
    BY <1>1, <2>1, SubSeqProperties
<1>4. Len(a) = i - 1 /\ Len(b) = n - i
  BY <1>1, <1>2, <1>3
<1>5. /\ a \o b \in Seq(S) /\ Len(a \o b) = Len(a) + Len(b)
      /\ \A j \in 1 .. Len(a) + Len(b) : (a \o b)[j] = IF j <= Len(a) THEN a[j] ELSE b[j - Len(a)]
  BY <1>2, <1>3, ConcatProperties
<1>6. RemoveAt(s, i) = a \o b
  BY DEF RemoveAt
<1> HIDE DEF n, a, b
<1>7. \A j \in 1 .. n - 1 : (a \o b)[j] = IF j < i THEN s[j] ELSE s[j + 1]
  <2> SUFFICES ASSUME NEW j \in 1 .. n - 1
               PROVE  (a \o b)[j] = IF j < i THEN s[j] ELSE s[j + 1]
    OBVIOUS
  <2>1. (a \o b)[j] = IF j <= i - 1 THEN a[j] ELSE b[j - (i - 1)]
    BY <1>1, <1>4, <1>5
  <2>2. CASE j < i
    <3>1. a[j] = s[1 + j - 1]
      BY <1>2, <2>2
    <3>2. QED
      BY <2>1, <2>2, <3>1
  <2>3. CASE j >= i
    <3>1. j - (i - 1) \in 1 .. n - (i + 1) + 1
      BY <1>1, <2>3
    <3>2. b[j - (i - 1)] = s[i + 1 + (j - (i - 1)) - 1]
      BY <1>3, <3>1
    <3>3. i + 1 + (j - (i - 1)) - 1 = j + 1
      OBVIOUS
    <3>4. QED
      BY <2>1, <2>3, <3>2, <3>3
  <2>4. j \in Int /\ i \in Int
    BY <1>1 DEF n
  <2>5. j < i \/ j >= i
    BY <2>4
  <2>6. QED
    BY <2>2, <2>3, <2>5
<1>8. Len(a \o b) = n - 1
  BY <1>1, <1>4, <1>5
<1>9. QED
  BY <1>5, <1>6, <1>7, <1>8 DEF n

\* What is left under way when a write settles: the others, the older ones
\* overtaken.
LEMMA OthersLeft ==
  ASSUME saves \in Seq(Saves), NEW i \in DOMAIN saves
  PROVE  LET left == RemoveAt(Others(i), i)
             from(j) == IF j < i THEN j ELSE j + 1
         IN  /\ left \in Seq(Saves) /\ Len(left) = Len(saves) - 1
             /\ DOMAIN left = 1 .. Len(saves) - 1
             /\ \A j \in DOMAIN left :
                  /\ from(j) \in DOMAIN saves /\ from(j) # i
                  /\ left[j].by = saves[from(j)].by
                  /\ left[j].image = saves[from(j)].image
                  /\ left[j].overtaken <=> saves[from(j)].overtaken \/ from(j) < i
<1> DEFINE n == Len(saves)
           all == Others(i)
           left == RemoveAt(all, i)
           from(j) == IF j < i THEN j ELSE j + 1
<1>1. n \in Nat /\ DOMAIN saves = 1 .. n /\ \A j \in 1 .. n : saves[j] \in Saves
  BY ElementOfSeq, LenProperties
<1>2. all = [j \in 1 .. n |-> [saves[j] EXCEPT !.overtaken = @ \/ j < i]]
  BY <1>1 DEF Others
<1>3. \A j \in 1 .. n :
        /\ all[j] \in Saves /\ all[j].by = saves[j].by /\ all[j].image = saves[j].image
        /\ all[j].overtaken <=> saves[j].overtaken \/ j < i
  <2> SUFFICES ASSUME NEW j \in 1 .. n
               PROVE  /\ all[j] \in Saves /\ all[j].by = saves[j].by
                      /\ all[j].image = saves[j].image
                      /\ all[j].overtaken <=> saves[j].overtaken \/ j < i
    OBVIOUS
  <2>1. all[j] = [saves[j] EXCEPT !.overtaken = @ \/ j < i] /\ saves[j] \in Saves
    BY <1>1, <1>2
  <2>2. QED
    BY <2>1 DEF Saves
<1>4. all \in Seq(Saves) /\ Len(all) = n
  <2>1. all \in [1 .. n -> Saves]
    BY <1>2, <1>3
  <2>2. QED
    BY <1>1, <2>1, IsASeq, LenProperties
<1> HIDE DEF all
<1>5. /\ left \in Seq(Saves) /\ Len(left) = n - 1
      /\ \A j \in 1 .. n - 1 : left[j] = IF j < i THEN all[j] ELSE all[j + 1]
  BY <1>1, <1>4, RemoveAtElements
<1> HIDE DEF left
<1>6. DOMAIN left = 1 .. n - 1
  BY <1>5, LenProperties
<1>7. ASSUME NEW j \in 1 .. n - 1
      PROVE  from(j) \in 1 .. n /\ from(j) # i /\ left[j] = all[from(j)]
  BY <1>1, <1>5
<1> HIDE DEF from, n
<1>8. \A j \in DOMAIN left :
        /\ from(j) \in DOMAIN saves /\ from(j) # i
        /\ left[j].by = saves[from(j)].by
        /\ left[j].image = saves[from(j)].image
        /\ left[j].overtaken <=> saves[from(j)].overtaken \/ from(j) < i
  BY <1>1, <1>3, <1>6, <1>7
<1>9. QED
  BY <1>5, <1>6, <1>8 DEF left, all, from, n

LEMMA BoardInitInv == BoardInit => BoardIndInv
<1> SUFFICES ASSUME BoardInit PROVE BoardIndInv
  OBVIOUS
<1>1. saves = <<>> /\ saves \in Seq(Saves) /\ DOMAIN saves = {}
  BY EmptySeq DEF BoardInit
<1>2. BoardTypeOK
  BY <1>1 DEF BoardInit, BoardTypeOK, Boards, HandoffSteps, Saves
<1>3. CardsKnown /\ SharedIsDisturbed /\ SentIsShown
  BY DEF BoardInit, CardsKnown, SharedIsDisturbed, SentIsShown, Underway
<1>4. WritersWait /\ NewestIsBoard
  BY <1>1 DEF BoardInit, WritersWait, NewestIsBoard
<1>5. QED
  BY <1>2, <1>3, <1>4 DEF BoardIndInv, CardsKnown

\* A change of the board adds a write that is the newest. Its hand-off, if it
\* has one, did not wait for a write and does now.
LEMMA NewWrite ==
  ASSUME BoardTypeOK, WritersWait, NEW t \in Cards, NEW c \in Columns,
         NEW by \in Handoffs \cup {NoHandoff}, Update(by, t, c),
         IF by = NoHandoff THEN handoffPc' = handoffPc
         ELSE /\ handoffPc[by] \notin Storing
              /\ \E next \in Storing : handoffPc' = [handoffPc EXCEPT ![by] = next]
  PROVE  /\ column' \in Boards /\ saves' \in Seq(Saves)
         /\ WritersWait' /\ NewestIsBoard'
<1> DEFINE w == [by |-> by, image |-> column', overtaken |-> FALSE]
<1>1. column' = [column EXCEPT ![t] = c] /\ saves' = Append(saves, w)
  BY DEF Update, Changed, Saved
<1>2. column' \in Boards
  BY <1>1 DEF BoardTypeOK, Boards
<1>3. w \in Saves /\ w.by = by /\ w.image = column' /\ w.overtaken = FALSE
  BY <1>2 DEF Saves
<1>4. saves \in Seq(Saves)
  BY DEF BoardTypeOK, Saves
<1> HIDE DEF w
<1>5. /\ saves' \in Seq(Saves) /\ Len(saves') = Len(saves) + 1
      /\ \A j \in 1 .. Len(saves) : saves'[j] = saves[j]
      /\ saves'[Len(saves) + 1] = w
  BY <1>1, <1>3, <1>4, AppendProperties
<1>6. /\ Len(saves) \in Nat /\ DOMAIN saves = 1 .. Len(saves)
      /\ DOMAIN saves' = 1 .. Len(saves) + 1 /\ saves' # <<>>
  BY <1>4, <1>5, LenProperties, EmptySeq
<1>7. NewestIsBoard'
  BY <1>3, <1>5, <1>6 DEF NewestIsBoard
<1>8. by # NoHandoff => \A j \in DOMAIN saves : saves[j].by # by
  BY DEF WritersWait
<1>9. /\ by # NoHandoff => handoffPc'[by] \in Storing
      /\ \A h \in Handoffs : h # by => handoffPc'[h] = handoffPc[h]
  BY DEF BoardTypeOK
<1>10. \A j \in DOMAIN saves' : \/ j \in DOMAIN saves /\ saves'[j] = saves[j]
                                \/ j = Len(saves) + 1 /\ saves'[j].by = by
  BY <1>3, <1>5, <1>6
<1>11. \A j \in DOMAIN saves : saves[j].by \in Handoffs \cup {NoHandoff}
  <2>1. \A j \in DOMAIN saves : saves[j] \in Saves
    BY <1>4, <1>6, ElementOfSeq
  <2>2. QED
    BY <2>1 DEF Saves
<1>12. WritersWait'
  <2>1. \A j \in DOMAIN saves' : saves'[j].by # NoHandoff => handoffPc'[saves'[j].by] \in Storing
    BY <1>8, <1>9, <1>10, <1>11 DEF WritersWait
  <2>2. \A i, j \in DOMAIN saves' :
          saves'[i].by = saves'[j].by /\ saves'[i].by # NoHandoff => i = j
    BY <1>8, <1>10 DEF WritersWait
  <2>3. QED
    BY <2>1, <2>2 DEF WritersWait
<1>13. QED
  BY <1>2, <1>5, <1>7, <1>12

LEMMA CreateInv ==
  ASSUME BoardIndInv, NEW t \in Cards, Create(t)
  PROVE  BoardIndInv'
<1>1. /\ Update(NoHandoff, t, "todo") /\ column[t] = "none"
      /\ column' = [column EXCEPT ![t] = "todo"]
      /\ UNCHANGED <<savedBoard, stale, plan, handoffPc, task, disturbed>>
  BY DEF Create, Update, Changed
<1>2. column' \in Boards /\ saves' \in Seq(Saves) /\ WritersWait' /\ NewestIsBoard'
  BY <1>1, NewWrite DEF BoardIndInv, Columns
<1>3. BoardTypeOK' /\ CardsKnown'
  BY <1>1, <1>2 DEF BoardIndInv, BoardTypeOK, CardsKnown, Saves
<1>4. SharedIsDisturbed'
  BY <1>1 DEF BoardIndInv, SharedIsDisturbed, Underway
<1>5. SentIsShown'
  BY <1>1 DEF BoardIndInv, BoardTypeOK, Boards, SentIsShown
<1>6. QED
  BY <1>2, <1>3, <1>4, <1>5 DEF BoardIndInv, CardsKnown

\* Whoever has the card that is moved is disturbed.
LEMMA MoveInv ==
  ASSUME BoardIndInv, NEW t \in Cards, NEW c \in Columns, Move(t, c)
  PROVE  BoardIndInv'
<1>1. /\ Update(NoHandoff, t, c)
      /\ column' = [column EXCEPT ![t] = c]
      /\ disturbed' = disturbed \cup {h \in Handoffs : Underway(h) /\ task[h] = t}
      /\ UNCHANGED <<savedBoard, stale, plan, handoffPc, task>>
  BY DEF Move, Update, Changed, WorkOn
<1>2. column' \in Boards /\ saves' \in Seq(Saves) /\ WritersWait' /\ NewestIsBoard'
  BY <1>1, NewWrite DEF BoardIndInv
<1>3. BoardTypeOK' /\ CardsKnown'
  BY <1>1, <1>2 DEF BoardIndInv, BoardTypeOK, CardsKnown, Saves
<1>4. SharedIsDisturbed'
  BY <1>1 DEF BoardIndInv, SharedIsDisturbed, Underway
<1>5. SentIsShown'
  BY <1>1 DEF BoardIndInv, BoardTypeOK, Boards, SentIsShown, Underway
<1>6. QED
  BY <1>2, <1>3, <1>4, <1>5 DEF BoardIndInv, CardsKnown

LEMMA SendToAgentsInv ==
  ASSUME BoardIndInv, NEW h \in Handoffs, NEW t \in Cards, SendToAgents(h, t)
  PROVE  BoardIndInv'
<1> DEFINE others == {g \in Handoffs : Underway(g) /\ task[g] = t}
<1>1. /\ Update(h, t, "ai-builder") /\ handoffPc[h] = "new"
      /\ column' = [column EXCEPT ![t] = "ai-builder"]
      /\ handoffPc' = [handoffPc EXCEPT ![h] = "storing"]
      /\ task' = [task EXCEPT ![h] = t]
      /\ disturbed' = disturbed \cup others \cup {g \in {h} : others # {}}
      /\ UNCHANGED <<savedBoard, stale, plan>>
  BY DEF SendToAgents, Update, Changed, WorkOn
<1>2. column' \in Boards /\ saves' \in Seq(Saves) /\ WritersWait' /\ NewestIsBoard'
  <2>1. "storing" \in Storing /\ handoffPc[h] \notin Storing /\ "ai-builder" \in Columns
    BY <1>1 DEF Storing, Columns
  <2>2. QED
    BY <1>1, <2>1, NewWrite DEF BoardIndInv
<1>3. BoardTypeOK' /\ CardsKnown'
  BY <1>1, <1>2 DEF BoardIndInv, BoardTypeOK, CardsKnown, Saves, HandoffSteps
<1>4. /\ task'[h] = t /\ handoffPc'[h] = "storing"
      /\ \A g \in Handoffs \ {h} : task'[g] = task[g] /\ handoffPc'[g] = handoffPc[g]
  BY <1>1 DEF BoardIndInv, BoardTypeOK
<1>5. SharedIsDisturbed'
  BY <1>1, <1>4 DEF BoardIndInv, SharedIsDisturbed, Underway
<1>6. SentIsShown'
  <2> SUFFICES ASSUME NEW g \in Handoffs, handoffPc'[g] \in {"storing", "calling", "running"},
                      g \notin disturbed'
               PROVE  column'[task'[g]] = "ai-builder"
    BY DEF SentIsShown
  <2>1. CASE task'[g] = t
    BY <1>1, <2>1 DEF BoardIndInv, BoardTypeOK, Boards
  <2>2. CASE task'[g] # t
    <3>1. g # h /\ task'[g] = task[g] /\ handoffPc'[g] = handoffPc[g] /\ g \notin disturbed
      BY <1>1, <1>4, <2>2
    <3>2. column[task[g]] = "ai-builder" /\ task[g] \in Cards
      BY <3>1 DEF BoardIndInv, SentIsShown
    <3>3. QED
      BY <1>1, <2>2, <3>1, <3>2 DEF BoardIndInv, BoardTypeOK, Boards
  <2>3. QED
    BY <2>1, <2>2
<1>7. QED
  BY <1>2, <1>3, <1>5, <1>6 DEF BoardIndInv, CardsKnown

\* The agents give a card back, or it is taken back: nobody undisturbed has
\* the same card.
LEMMA ToReviewInv ==
  ASSUME BoardIndInv, NEW h \in Handoffs, NEW next \in {"settling", "catching"},
         handoffPc[h] \in {"calling", "running"}, ToReview(h, next),
         plan' \in Handoffs \cup {NoHandoff},
         UNCHANGED <<savedBoard, stale, task, disturbed>>
  PROVE  BoardIndInv'
<1>1. /\ Update(h, task[h], "review")
      /\ column' = [column EXCEPT ![task[h]] = "review"]
      /\ handoffPc' = [handoffPc EXCEPT ![h] = next]
  BY DEF ToReview, Update, Changed
<1>2. task[h] \in Cards
  BY DEF BoardIndInv
<1>3. column' \in Boards /\ saves' \in Seq(Saves) /\ WritersWait' /\ NewestIsBoard'
  <2>1. next \in Storing /\ handoffPc[h] \notin Storing /\ "review" \in Columns
    BY DEF Storing, Columns
  <2>2. QED
    BY <1>1, <1>2, <2>1, NewWrite DEF BoardIndInv
<1>4. BoardTypeOK' /\ CardsKnown'
  BY <1>1, <1>3 DEF BoardIndInv, BoardTypeOK, CardsKnown, Saves, HandoffSteps
<1>5. handoffPc'[h] = next /\ \A g \in Handoffs \ {h} : handoffPc'[g] = handoffPc[g]
  BY <1>1 DEF BoardIndInv, BoardTypeOK
<1>6. SharedIsDisturbed'
  BY <1>5 DEF BoardIndInv, SharedIsDisturbed, Underway
<1>7. SentIsShown'
  <2> SUFFICES ASSUME NEW g \in Handoffs, handoffPc'[g] \in {"storing", "calling", "running"},
                      g \notin disturbed
               PROVE  column'[task[g]] = "ai-builder"
    BY DEF SentIsShown
  <2>1. g # h /\ handoffPc[g] \in {"storing", "calling", "running"}
    BY <1>5
  <2>2. column[task[g]] = "ai-builder" /\ task[g] \in Cards
    BY <2>1 DEF BoardIndInv, SentIsShown
  <2>3. task[g] # task[h]
    BY <2>1 DEF BoardIndInv, SharedIsDisturbed, Underway
  <2>4. QED
    BY <1>1, <2>2, <2>3 DEF BoardIndInv, BoardTypeOK, Boards
<1>8. QED
  BY <1>3, <1>4, <1>6, <1>7 DEF BoardIndInv, CardsKnown

LEMMA AgentsInv ==
  ASSUME BoardIndInv, NEW h \in Handoffs, AcceptCard(h) \/ Refuse(h) \/ Return(h)
  PROVE  BoardIndInv'
<1>1. CASE AcceptCard(h)
  <2>1. BoardTypeOK' /\ CardsKnown'
    BY <1>1 DEF AcceptCard, BoardIndInv, BoardTypeOK, CardsKnown, HandoffSteps
  <2>2. SharedIsDisturbed' /\ SentIsShown'
    BY <1>1 DEF AcceptCard, BoardIndInv, BoardTypeOK, SharedIsDisturbed, SentIsShown, Underway
  <2>3. NewestIsBoard'
    BY <1>1 DEF AcceptCard, BoardIndInv, NewestIsBoard
  <2>4. WritersWait'
    <3>1. \A g \in Handoffs : handoffPc[g] \in Storing => handoffPc'[g] = handoffPc[g]
      BY <1>1 DEF AcceptCard, BoardIndInv, BoardTypeOK, Storing
    <3>2. \A j \in DOMAIN saves : saves[j] \in Saves
      BY ElementOfSeq, LenProperties DEF BoardIndInv, BoardTypeOK, Saves
    <3>3. \A j \in DOMAIN saves : saves[j].by \in Handoffs \cup {NoHandoff}
      BY <3>2 DEF Saves
    <3>4. QED
      BY <1>1, <3>1, <3>3 DEF AcceptCard, BoardIndInv, WritersWait
  <2>5. QED
    BY <2>1, <2>2, <2>3, <2>4 DEF BoardIndInv, CardsKnown
<1>2. CASE Refuse(h)
  BY <1>2, ToReviewInv DEF Refuse, Caught, BoardIndInv, BoardTypeOK
<1>3. CASE Return(h)
  BY <1>3, ToReviewInv DEF Return, Caught
<1>4. QED
  BY <1>1, <1>2, <1>3

\* The writes that are left when one settles, and who waits for them.
LEMMA LeftInv ==
  ASSUME BoardIndInv, NEW i \in DOMAIN saves, NEW left, left = RemoveAt(Others(i), i)
  PROVE  /\ left \in Seq(Saves)
         /\ \A j \in DOMAIN left :
              /\ left[j].by \in Handoffs \cup {NoHandoff}
              /\ left[j].by # NoHandoff =>
                   handoffPc[left[j].by] \in Storing /\ left[j].by # saves[i].by
         /\ \A j, k \in DOMAIN left :
              left[j].by = left[k].by /\ left[j].by # NoHandoff => j = k
         /\ \/ /\ left # <<>>
               /\ left[Len(left)].image = column /\ ~left[Len(left)].overtaken
            \/ /\ \A j \in DOMAIN left : left[j].overtaken
               /\ ~saves[i].overtaken => saves[i].image = column
<1> DEFINE n == Len(saves)
           from(j) == IF j < i THEN j ELSE j + 1
<1>1. saves \in Seq(Saves) /\ DOMAIN saves = 1 .. n /\ n \in Nat
  BY LenProperties DEF BoardIndInv, BoardTypeOK, Saves
<1>2. /\ left \in Seq(Saves) /\ Len(left) = n - 1 /\ DOMAIN left = 1 .. n - 1
      /\ \A j \in DOMAIN left :
           /\ from(j) \in DOMAIN saves /\ from(j) # i
           /\ left[j].by = saves[from(j)].by
           /\ left[j].image = saves[from(j)].image
           /\ left[j].overtaken <=> saves[from(j)].overtaken \/ from(j) < i
  BY <1>1, OthersLeft, ZenonT(60)
<1>3. \A j, k \in DOMAIN left : from(j) = from(k) => j = k
  BY <1>1, <1>2
<1>4. \A j \in DOMAIN saves : saves[j].by \in Handoffs \cup {NoHandoff}
  <2>1. \A j \in DOMAIN saves : saves[j] \in Saves
    BY <1>1, ElementOfSeq
  <2>2. QED
    BY <2>1 DEF Saves
<1>5. WritersWait
  BY DEF BoardIndInv
<1>6. i \in 1 .. n /\ DOMAIN left = 1 .. n - 1
  BY <1>1, <1>2
<1>7. \/ /\ left # <<>>
         /\ left[Len(left)].image = column /\ ~left[Len(left)].overtaken
      \/ /\ \A j \in DOMAIN left : left[j].overtaken
         /\ ~saves[i].overtaken => saves[i].image = column
  <2>1. CASE saves[n].image = column /\ ~saves[n].overtaken /\ i # n
    <3>1. n - 1 \in DOMAIN left /\ from(n - 1) = n
      <4>1. i < n
        BY <1>1, <1>6, <2>1
      <4>2. n - 1 \in 1 .. n - 1 /\ ~(n - 1 < i) /\ n - 1 + 1 = n
        BY <1>1, <1>6, <4>1
      <4>3. QED
        BY <1>6, <4>2
    <3>2. left[n - 1].image = column /\ (left[n - 1].overtaken <=> saves[n].overtaken \/ n < i)
      BY <1>2, <2>1, <3>1
    <3>3. left # <<>>
      BY <1>2, <3>1, EmptySeq
    <3>4. QED
      BY <1>1, <1>2, <2>1, <3>2, <3>3
  <2>2. CASE saves[n].image = column /\ ~saves[n].overtaken /\ i = n
    <3>1. \A j \in DOMAIN left : from(j) < i
      BY <1>1, <1>6, <2>2
    <3>2. QED
      BY <1>2, <2>2, <3>1
  <2>3. CASE \A j \in DOMAIN saves : saves[j].overtaken
    BY <1>2, <2>3
  <2>4. QED
    BY <2>1, <2>2, <2>3 DEF BoardIndInv, NewestIsBoard
<1> HIDE DEF from, n
<1>8. QED
  BY <1>2, <1>3, <1>4, <1>5, <1>7 DEF WritersWait

\* A write that lands was the newest, or leaves the board to one that is not
\* overtaken, or was itself overtaken.
LEMMA LandBoardInv ==
  ASSUME BoardIndInv, NEW i \in DOMAIN saves, LandBoard(i)
  PROVE  BoardIndInv'
<1> SUFFICES ASSUME NEW left, left = RemoveAt(Others(i), i), NEW h, h = saves[i].by
             PROVE  BoardIndInv'
  OBVIOUS
<1>1. /\ savedBoard' = saves[i].image /\ stale' = saves[i].overtaken /\ saves' = left
      /\ handoffPc' = [g \in Handoffs |-> IF g = h THEN Resumed(g) ELSE handoffPc[g]]
      /\ UNCHANGED <<column, plan, task, disturbed>>
  BY DEF LandBoard
<1>2. saves[i] \in Saves
  BY ElementOfSeq, LenProperties DEF BoardIndInv, BoardTypeOK, Saves
<1>3. h \in Handoffs \cup {NoHandoff} /\ saves[i].image \in Boards /\ saves[i].overtaken \in BOOLEAN
  BY <1>2 DEF Saves
<1>4. h # NoHandoff => /\ handoffPc[h] = "storing" /\ handoffPc'[h] = "calling"
                       \/ /\ handoffPc[h] \in {"settling", "catching"} /\ handoffPc'[h] = "done"
  BY <1>1, <1>3 DEF BoardIndInv, WritersWait, Resumed, Storing
<1>5. \A g \in Handoffs : g # h => handoffPc'[g] = handoffPc[g]
  BY <1>1
<1>6. handoffPc' \in [Handoffs -> HandoffSteps]
  <2>1. \A g \in Handoffs : handoffPc'[g] \in HandoffSteps
    BY <1>3, <1>4, <1>5 DEF BoardIndInv, BoardTypeOK, HandoffSteps
  <2>2. QED
    BY <1>1, <2>1
<1>7. left \in Seq(Saves)
  BY LeftInv
<1>8. BoardTypeOK'
  BY <1>1, <1>3, <1>6, <1>7 DEF BoardIndInv, BoardTypeOK, Saves
<1>9. CardsKnown'
  BY <1>1, <1>3, <1>4, <1>5 DEF BoardIndInv, CardsKnown
<1>10. SharedIsDisturbed' /\ SentIsShown'
  <2>1. \A g \in Handoffs : /\ Underway(g)' => Underway(g)
                            /\ handoffPc'[g] \in {"storing", "calling", "running"}
                               => handoffPc[g] \in {"storing", "calling", "running"}
    BY <1>3, <1>4, <1>5 DEF Underway
  <2>2. QED
    BY <1>1, <2>1 DEF BoardIndInv, SharedIsDisturbed, SentIsShown
<1>11. WritersWait'
  BY <1>1, <1>5, LeftInv DEF WritersWait
<1>12. NewestIsBoard'
  BY <1>1, LeftInv DEF NewestIsBoard
<1>13. QED
  BY <1>8, <1>9, <1>10, <1>11, <1>12 DEF BoardIndInv, CardsKnown

\* A write that fails is followed by another, or its hand-off gives up.
LEMMA DropBoardInv ==
  ASSUME BoardIndInv, NEW i \in DOMAIN saves, DropBoard(i)
  PROVE  BoardIndInv'
<1> SUFFICES ASSUME NEW left, left = RemoveAt(Others(i), i), NEW h, h = saves[i].by
             PROVE  BoardIndInv'
  OBVIOUS
<1>1. stale' = TRUE /\ UNCHANGED <<savedBoard, plan, task, disturbed>>
  BY DEF DropBoard
<1>2. saves[i] \in Saves
  BY ElementOfSeq, LenProperties DEF BoardIndInv, BoardTypeOK, Saves
<1>3. h \in Handoffs \cup {NoHandoff}
  BY <1>2 DEF Saves
<1>4. left \in Seq(Saves)
  BY LeftInv
<1>5. h # NoHandoff => handoffPc[h] \in Storing
  BY DEF BoardIndInv, WritersWait
<1>6. CASE h # NoHandoff /\ handoffPc[h] \in {"storing", "settling"}
  <2> DEFINE w == [by |-> h, image |-> column', overtaken |-> FALSE]
  <2>1. /\ column' = [column EXCEPT ![task[h]] = "review"]
        /\ saves' = Append(left, w)
        /\ handoffPc' = [handoffPc EXCEPT ![h] = "catching"]
    BY <1>6 DEF DropBoard, Saved
  <2>2. task[h] \in Cards /\ h \in Handoffs
    BY <1>3, <1>6 DEF BoardIndInv
  <2>3. column' \in Boards
    BY <2>1, <2>2 DEF BoardIndInv, BoardTypeOK, Boards, Columns
  <2>4. w \in Saves /\ w.by = h /\ w.image = column' /\ w.overtaken = FALSE
    BY <1>3, <2>3 DEF Saves
  <2> HIDE DEF w
  <2>5. /\ saves' \in Seq(Saves) /\ Len(saves') = Len(left) + 1
        /\ \A j \in 1 .. Len(left) : saves'[j] = left[j]
        /\ saves'[Len(left) + 1] = w
    BY <1>4, <2>1, <2>4, AppendProperties
  <2>6. /\ Len(left) \in Nat /\ DOMAIN left = 1 .. Len(left)
        /\ DOMAIN saves' = 1 .. Len(left) + 1 /\ saves' # <<>>
    BY <1>4, <2>5, LenProperties, EmptySeq
  <2>7. BoardTypeOK'
    BY <1>1, <2>1, <2>3, <2>5 DEF BoardIndInv, BoardTypeOK, HandoffSteps, Saves
  <2>8. handoffPc'[h] = "catching" /\ \A g \in Handoffs \ {h} : handoffPc'[g] = handoffPc[g]
    BY <2>1, <2>2 DEF BoardIndInv, BoardTypeOK
  <2>9. CardsKnown'
    BY <1>1, <1>6, <2>8 DEF BoardIndInv, CardsKnown
  <2>10. SharedIsDisturbed'
    BY <1>1, <1>6, <2>8 DEF BoardIndInv, SharedIsDisturbed, Underway
  <2>11. SentIsShown'
    <3> SUFFICES ASSUME NEW g \in Handoffs, handoffPc'[g] \in {"storing", "calling", "running"},
                        g \notin disturbed
                 PROVE  column'[task[g]] = "ai-builder"
      BY <1>1 DEF SentIsShown
    <3>1. g # h /\ handoffPc[g] \in {"storing", "calling", "running"}
      BY <2>8
    <3>2. column[task[g]] = "ai-builder" /\ task[g] \in Cards
      BY <3>1 DEF BoardIndInv, SentIsShown
    <3>3. task[g] # task[h]
      BY <1>6, <2>2, <3>1 DEF BoardIndInv, SharedIsDisturbed, Underway
    <3>4. QED
      BY <2>1, <3>2, <3>3 DEF BoardIndInv, BoardTypeOK, Boards
  <2>12. NewestIsBoard'
    BY <2>4, <2>5, <2>6 DEF NewestIsBoard
  <2>13. \A j \in DOMAIN saves' : \/ j \in DOMAIN left /\ saves'[j] = left[j]
                                  \/ j = Len(left) + 1 /\ saves'[j].by = h
    BY <2>4, <2>5, <2>6
  <2>14. \A j \in DOMAIN left : left[j].by # NoHandoff =>
            /\ left[j].by # h /\ left[j].by \in Handoffs /\ handoffPc[left[j].by] \in Storing
    BY LeftInv
  <2>15. WritersWait'
    <3>1. \A j \in DOMAIN saves' : saves'[j].by # NoHandoff => handoffPc'[saves'[j].by] \in Storing
      BY <2>8, <2>13, <2>14 DEF Storing
    <3>2. \A j, k \in DOMAIN saves' :
            saves'[j].by = saves'[k].by /\ saves'[j].by # NoHandoff => j = k
      BY <2>13, <2>14, LeftInv
    <3>3. QED
      BY <3>1, <3>2 DEF WritersWait
  <2>16. QED
    BY <2>7, <2>9, <2>10, <2>11, <2>12, <2>15 DEF BoardIndInv, CardsKnown
<1>7. CASE ~(h # NoHandoff /\ handoffPc[h] \in {"storing", "settling"})
  <2>1. /\ saves' = left /\ column' = column
        /\ handoffPc' = IF h = NoHandoff THEN handoffPc ELSE [handoffPc EXCEPT ![h] = "done"]
    BY <1>7, Zenon DEF DropBoard
  <2>2. \A g \in Handoffs : /\ g # h => handoffPc'[g] = handoffPc[g]
                            /\ g = h => handoffPc'[g] = "done" /\ handoffPc[g] # "new"
    BY <1>5, <2>1 DEF BoardIndInv, BoardTypeOK, Storing
  <2>3. BoardTypeOK'
    BY <1>1, <1>4, <2>1 DEF BoardIndInv, BoardTypeOK, HandoffSteps, Saves
  <2>4. CardsKnown'
    BY <1>1, <2>2 DEF BoardIndInv, CardsKnown
  <2>5. SharedIsDisturbed' /\ SentIsShown'
    BY <1>1, <2>1, <2>2 DEF BoardIndInv, SharedIsDisturbed, SentIsShown, Underway
  <2>6. WritersWait'
    BY <2>1, <2>2, LeftInv DEF WritersWait
  <2>7. NewestIsBoard'
    BY <1>1, <2>1, LeftInv DEF NewestIsBoard
  <2>8. QED
    BY <2>3, <2>4, <2>5, <2>6, <2>7 DEF BoardIndInv, CardsKnown
<1>8. QED
  BY <1>6, <1>7

LEMMA ReopenBoardInv ==
  ASSUME BoardIndInv, ReopenBoard
  PROVE  BoardIndInv'
<1>1. saves' = <<>> /\ saves' \in Seq(Saves) /\ DOMAIN saves' = {}
  BY EmptySeq DEF ReopenBoard
<1>2. BoardTypeOK'
  BY <1>1 DEF ReopenBoard, BoardIndInv, BoardTypeOK, HandoffSteps, Saves, Underway
<1>3. \A h \in Handoffs : /\ handoffPc'[h] \in {"new", "done", "killed"}
                          /\ handoffPc'[h] # "new" => handoffPc[h] # "new"
  BY DEF ReopenBoard, Underway
<1>4. CardsKnown'
  BY <1>3 DEF ReopenBoard, BoardIndInv, CardsKnown
<1>5. SharedIsDisturbed' /\ SentIsShown'
  BY <1>3 DEF SharedIsDisturbed, SentIsShown, Underway
<1>6. WritersWait' /\ NewestIsBoard'
  BY <1>1 DEF ReopenBoard, WritersWait, NewestIsBoard
<1>7. QED
  BY <1>2, <1>4, <1>5, <1>6 DEF BoardIndInv, CardsKnown

\* The board does not depend on which plan is active.
LEMMA PlanOnlyInv ==
  ASSUME BoardIndInv, plan' \in Handoffs \cup {NoHandoff},
         UNCHANGED <<column, savedBoard, saves, stale, handoffPc, task, disturbed>>
  PROVE  BoardIndInv'
<1>1. BoardTypeOK' /\ CardsKnown'
  BY DEF BoardIndInv, BoardTypeOK, CardsKnown
<1>2. SharedIsDisturbed' /\ SentIsShown'
  BY DEF BoardIndInv, SharedIsDisturbed, SentIsShown, Underway
<1>3. WritersWait' /\ NewestIsBoard'
  BY DEF BoardIndInv, WritersWait, NewestIsBoard
<1>4. QED
  BY <1>1, <1>2, <1>3 DEF BoardIndInv, CardsKnown

LEMMA BoardNextInv == BoardIndInv /\ [BoardNext]_boardVars => BoardIndInv'
<1> SUFFICES ASSUME BoardIndInv, [BoardNext]_boardVars
             PROVE  BoardIndInv'
  OBVIOUS
<1>1. ASSUME NEW t \in Cards, Create(t) \/ \E c \in Columns : Move(t, c)
      PROVE  BoardIndInv'
  BY <1>1, CreateInv, MoveInv
<1>2. ASSUME NEW by, SettleBoard(by)
      PROVE  BoardIndInv'
  BY <1>2, LandBoardInv, DropBoardInv DEF SettleBoard
<1>3. ASSUME NEW h \in Handoffs, HandoffProceeds(h)
      PROVE  BoardIndInv'
  BY <1>2, <1>3, AgentsInv DEF HandoffProceeds
<1>4. ASSUME NEW h \in Handoffs, NEW t \in Cards, SendToAgents(h, t)
      PROVE  BoardIndInv'
  BY <1>4, SendToAgentsInv
<1>5. CASE CancelPlan
  BY <1>5, PlanOnlyInv DEF CancelPlan
<1>6. CASE ReopenBoard
  BY <1>6, ReopenBoardInv
<1>7. CASE UNCHANGED boardVars
  BY <1>7, PlanOnlyInv DEF boardVars, BoardIndInv, BoardTypeOK
<1>8. QED
  BY <1>1, <1>2, <1>3, <1>4, <1>5, <1>6, <1>7 DEF BoardNext

\* Every variable of the board keeps its type.
THEOREM BoardTypeCorrect == BoardSpec => []BoardTypeOK
<1>1. BoardIndInv => BoardTypeOK
  BY DEF BoardIndInv
<1>2. QED
  BY <1>1, BoardInitInv, BoardNextInv, PTL DEF BoardSpec

\* While agents work on a card nobody else touched it is shown with them.
\* (updateTask)
THEOREM WorkIsShown == BoardSpec => []AtWorkIsShown
<1>1. BoardIndInv => AtWorkIsShown
  BY DEF BoardIndInv, SentIsShown, AtWorkIsShown
<1>2. QED
  BY <1>1, BoardInitInv, BoardNextInv, PTL DEF BoardSpec

\* When nothing is under way the store holds the board, unless a write failed
\* or was overtaken by a later one. (persist)
THEOREM StoreCatchesUp == BoardSpec => []StoredCatchesUp
<1>1. BoardIndInv => StoredCatchesUp
  BY DEF BoardIndInv, NewestIsBoard, StoredCatchesUp
<1>2. QED
  BY <1>1, BoardInitInv, BoardNextInv, PTL DEF BoardSpec
=============================================================================
