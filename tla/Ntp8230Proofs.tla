---------------------------- MODULE Ntp8230Proofs ----------------------------
(***************************************************************************)
(* Proofs about Ntp8230, for any finite set of tasks, any initial count of *)
(* the semaphore, and a bus that may or may not fail.                      *)
(***************************************************************************)
EXTENDS Ntp8230, FiniteSetTheorems, SequenceTheorems, TLAPS

QueueThms == INSTANCE WorkQueueProofs WITH NoWork <- "none"

-----------------------------------------------------------------------------
(***************************************************************************)
(* The queue, for the items of this driver.                                *)
(***************************************************************************)

LEMMA QueueUntouched ==
  ASSUME Queue!QueueTypeOK, UNCHANGED <<pending, running>>
  PROVE  Queue!QueueTypeOK' /\ \A w : Busy(w)' = Busy(w)
BY DEF Queue!QueueTypeOK, Queue!IsPending, Busy

\* An item that starts was pending.
LEMMA StartItem ==
  ASSUME NEW w, Queue!QueueTypeOK, Queue!StartWork(w)
  PROVE  /\ Queue!QueueTypeOK'
         /\ running' = w
         /\ \A v : Busy(v)' => Busy(v)
<1>1. /\ Queue!QueueTypeOK'
      /\ running' = w
      /\ \A v : Queue!IsPending(v)' => Queue!IsPending(v)
  BY QueueThms!StartWorkKeepsType
  DEF Queue!QueueTypeOK, QueueThms!QueueTypeOK, Queue!IsPending,
      QueueThms!IsPending, Queue!StartWork, QueueThms!StartWork
<1>2. Queue!IsPending(w)
  BY HeadTailProperties, LenProperties, EmptySeq
  DEF Queue!StartWork, Queue!QueueTypeOK, Queue!IsPending
<1> QED
  BY <1>1, <1>2 DEF Busy

LEMMA EndItem ==
  ASSUME Queue!QueueTypeOK, Queue!FinishWork, running # "none"
  PROVE  /\ Queue!QueueTypeOK'
         /\ running' = "none"
         /\ \A v \in Works : Busy(v)' => Busy(v)
BY DEF Queue!QueueTypeOK, Queue!IsPending, Queue!FinishWork, Busy, Works

LEMMA CancelItem ==
  ASSUME NEW w, Queue!QueueTypeOK, Queue!GrabPending(w), running' = running
  PROVE  /\ Queue!QueueTypeOK'
         /\ \A v : Busy(v)' => Busy(v)
<1>1. /\ Queue!QueueTypeOK'
      /\ \A v : Queue!IsPending(v)' => Queue!IsPending(v)
  BY QueueThms!GrabPendingKeepsType
  DEF Queue!QueueTypeOK, QueueThms!QueueTypeOK, Queue!IsPending,
      QueueThms!IsPending, Queue!GrabPending, QueueThms!GrabPending
<1> QED
  BY <1>1 DEF Busy

\* After a flush, the item that is queued is the only one.
LEMMA QueueOnEmpty ==
  ASSUME NEW w \in Works, Queue!QueueTypeOK, Queue!Flushed, Queue!QueueWork(w),
         running' = running
  PROVE  /\ Queue!QueueTypeOK'
         /\ \A v \in Works : Busy(v)' => v = w
<1>1. /\ Queue!QueueTypeOK'
      /\ \A v : Queue!IsPending(v)' => Queue!IsPending(v) \/ v = w
  BY QueueThms!QueueWorkKeepsType
  DEF Queue!QueueTypeOK, QueueThms!QueueTypeOK, Queue!IsPending,
      QueueThms!IsPending, Queue!QueueWork, QueueThms!QueueWork
<1>2. \A v : ~Queue!IsPending(v)
  BY DEF Queue!Flushed, Queue!IsPending
<1>3. running' = "none"
  BY DEF Queue!Flushed
<1> QED
  BY <1>1, <1>2, <1>3 DEF Busy, Works

-----------------------------------------------------------------------------
(***************************************************************************)
(* The semaphore.                                                          *)
(***************************************************************************)
Holders == {t \in Tasks : pc[t] = "up"}

SemAccounting == sem + Cardinality(Holders) = SemInit

TaskType == pc \in [Tasks -> {"closed", "open", "down", "up"}] /\ sem \in Nat

LEMMA HoldersFinite ==
  /\ IsFiniteSet(Holders) /\ Cardinality(Holders) \in Nat
  /\ Cardinality(Holders') \in Nat
<1>1. Holders \in SUBSET Tasks /\ Holders' \in SUBSET Tasks
  BY DEF Holders
<1> QED
  BY <1>1, NtpAssumption, FS_Subset, FS_CardinalityType DEF NtpAssumption

LEMMA SemBound ==
  ASSUME TaskType, SemAccounting
  PROVE  sem \in 0..SemInit
<1> DEFINE n == Cardinality(Holders)
<1>1. n \in Nat /\ sem \in Nat /\ SemInit \in Nat /\ sem + n = SemInit
  BY HoldersFinite, NtpAssumption DEF TaskType, SemAccounting, NtpAssumption
<1> HIDE DEF n
<1> QED
  BY ONLY <1>1

LEMMA SemStep ==
  ASSUME TaskType, SemAccounting, [Next]_vars
  PROVE  TaskType' /\ SemAccounting'
<1>0. /\ sem \in Nat /\ SemInit \in Int /\ sem + Cardinality(Holders) = SemInit
      /\ pc \in [Tasks -> {"closed", "open", "down", "up"}]
  BY NtpAssumption DEF TaskType, SemAccounting, NtpAssumption
<1>1. ASSUME NEW t \in Tasks, Down(t)
      PROVE  TaskType' /\ SemAccounting'
  <2>1. Holders' = Holders \cup {t} /\ t \notin Holders
    BY <1>0, <1>1 DEF Down, Goto, Holders
  <2>2. Cardinality(Holders \cup {t}) = Cardinality(Holders) + 1
    BY <2>1, HoldersFinite, FS_AddElement
  <2>3. sem' = sem - 1 /\ sem > 0 /\ pc' \in [Tasks -> {"closed", "open", "down", "up"}]
    BY <1>0, <1>1 DEF Down, Goto
  <2> QED
    BY <1>0, <2>1, <2>2, <2>3, HoldersFinite DEF TaskType, SemAccounting
<1>2. ASSUME NEW t \in Tasks, Up(t)
      PROVE  TaskType' /\ SemAccounting'
  <2>1. Holders' = Holders \ {t} /\ t \in Holders
    BY <1>0, <1>2 DEF Up, Goto, Holders
  <2>2. Cardinality(Holders \ {t}) = Cardinality(Holders) - 1
    BY <2>1, HoldersFinite, FS_RemoveElement
  <2>3. sem' = sem + 1 /\ pc' \in [Tasks -> {"closed", "open", "down", "up"}]
    BY <1>0, <1>2 DEF Up, Goto
  <2> QED
    BY <1>0, <2>1, <2>2, <2>3, HoldersFinite DEF TaskType, SemAccounting
<1>3. ASSUME NEW t \in Tasks, Open(t) \/ Release(t) \/ Call(t) \/ Interrupt(t)
      PROVE  TaskType' /\ SemAccounting'
  <2>1. Holders' = Holders /\ sem' = sem
    BY <1>0, <1>3 DEF Open, Release, Call, Interrupt, Goto, Holders
  <2>2. pc' \in [Tasks -> {"closed", "open", "down", "up"}]
    BY <1>0, <1>3 DEF Open, Release, Call, Interrupt, Goto
  <2> QED
    BY <1>0, <2>1, <2>2 DEF TaskType, SemAccounting
<1>4. CASE UNCHANGED taskVars
  BY <1>0, <1>4 DEF taskVars, TaskType, SemAccounting, Holders
<1>5. CASE Npca110Switches \/ WorkerNext \/ PMNext \/ UNCHANGED vars
  BY <1>4, <1>5
  DEF Npca110Switches, WorkerNext, StartInit, StartResume, StartSuspend, Program,
      WriteWord, WriteFails, EndWork, otherThanWorker, PMNext, SuspendNext,
      ResumeNext, Freeze, FreezeAborted, AllFrozen, CancelResume,
      ResumeCancelled, QueueSuspend, Sleep, Wake, CancelSuspend,
      SuspendCancelled, QueueResume, Thaw, otherThanPM, vars
<1> QED
  BY <1>1, <1>2, <1>3, <1>4, <1>5 DEF Next, TaskNext

-----------------------------------------------------------------------------
(***************************************************************************)
(* The programs: lists of tables with no empty table in them.              *)
(***************************************************************************)
Table == Seq(WordSet) \ {<<>>}

LEMMA WordTypes ==
  ASSUME NEW p \in {0, 3, 4}
  PROVE  /\ Select(p) \in WordSet
         /\ Write(p, "other", "any") \in WordSet
         /\ \A r \in AmpRegs : \A v \in {"play", "quiet"} : Write(p, r, v) \in WordSet
BY DEF WordSet

LEMMA WordShape ==
  ASSUME NEW w \in WordSet
  PROVE  /\ w.page \in {0, 3, 4}
         /\ w.kind = "write" /\ w.reg \in AmpRegs => w.val \in {"play", "quiet"}
<1>1. CASE w \in {Select(p) : p \in {0, 3, 4}}
  BY <1>1 DEF Select
<1>2. CASE w \in {Write(p, "other", "any") : p \in {0, 3, 4}}
  BY <1>2 DEF Write, AmpRegs
<1>3. ASSUME NEW p \in {0, 3, 4}, NEW r \in AmpRegs, NEW v \in {"play", "quiet"},
             w = Write(p, r, v)
      PROVE  w.page \in {0, 3, 4} /\ w.val \in {"play", "quiet"}
  BY <1>3 DEF Write
<1> QED
  BY <1>1, <1>2, <1>3 DEF WordSet

LEMMA TableTypes ==
  /\ \A p \in {0, 3, 4} : << Select(p) >> \in Table /\ Untracked(p) \in Table
  /\ ntp8230_init_part4 \in Table
  /\ \A r \in AmpRegs : << Write(0, r, "quiet") >> \in Table
<1>1. ASSUME NEW p \in {0, 3, 4}
      PROVE  << Select(p) >> \in Table /\ Untracked(p) \in Table
  <2>1. Select(p) \in WordSet /\ Write(p, "other", "any") \in WordSet
    BY WordTypes
  <2> QED
    BY <2>1 DEF Table, Untracked
<1>2. \A r \in AmpRegs : \A v \in {"play", "quiet"} : Write(0, r, v) \in WordSet
  BY WordTypes
<1>3. ntp8230_init_part4 \in Table
  BY <1>2 DEF ntp8230_init_part4, AmpRegs, Table
<1>4. \A r \in AmpRegs : << Write(0, r, "quiet") >> \in Table
  BY <1>2 DEF Table
<1> QED
  BY <1>1, <1>3, <1>4

LEMMA ProgramTypes == InitTables \in Seq(Table) /\ MuteTables \in Seq(Table) /\ <<>> \in Seq(Table)
<1>1. MuteTables \in Seq(Table)
  BY TableTypes DEF MuteTables, AmpRegs
<1>2. InitTables \in Seq(Table)
  BY TableTypes
  DEF InitTables, ntp8230_init_part1, ntp8230_drc_part0, ntp8230_drc_part1,
      ntp8230_highfreq_div, ntp8230_lowfreq_div
<1> QED
  BY <1>1, <1>2

\* The first word of the first table goes, the rest of the list stays one.
LEMMA WriteWordType ==
  ASSUME todo \in Seq(Table), chip \in ChipSet, stray \in BOOLEAN, WriteWord
  PROVE  todo' \in Seq(Table) /\ chip' \in ChipSet /\ stray' \in BOOLEAN
<1> DEFINE table == Head(todo)
           w     == Head(table)
<1>1. /\ todo # <<>> /\ chip' = ChipAfter(chip, w)
      /\ stray' = (stray \/ (w.kind = "write" /\ w.page # chip.page))
      /\ todo' = IF Len(table) = 1 THEN Tail(todo)
                 ELSE << Tail(table) >> \o Tail(todo)
  BY DEF WriteWord
<1>2. table \in Table /\ Tail(todo) \in Seq(Table)
  BY <1>1, HeadTailProperties DEF Table
<1>3. w \in WordSet /\ Tail(table) \in Seq(WordSet) /\ Len(Tail(table)) = Len(table) - 1
  BY <1>2, HeadTailProperties DEF Table
<1>4. todo' \in Seq(Table)
  <2>1. CASE Len(table) = 1
    BY <1>1, <1>2, <2>1
  <2>2. CASE Len(table) # 1
    <3> HIDE DEF table
    <3>0. Len(table) \in Nat /\ Len(table) # 0
      BY <1>2, EmptySeq, LenProperties DEF Table
    <3>1. Tail(table) \in Table
      <4>1. Len(Tail(table)) # 0
        BY <1>3, <2>2, <3>0
      <4>2. Tail(table) # <<>>
        BY <4>1, EmptySeq
      <4> QED
        BY <1>3, <4>2 DEF Table
    <3>2. << Tail(table) >> \in Seq(Table)
      BY <3>1
    <3>3. << Tail(table) >> \o Tail(todo) \in Seq(Table)
      BY <1>2, <3>2, ConcatProperties
    <3> QED
      BY <1>1, <2>2, <3>3
  <2> QED
    BY <2>1, <2>2
<1>5. ChipAfter(chip, w) \in ChipSet
  <2> HIDE DEF w
  <2>0. /\ w.page \in {0, 3, 4}
        /\ w.kind = "write" /\ w.reg \in AmpRegs => w.val \in {"play", "quiet"}
    BY <1>3, WordShape
  <2>1. CASE w.kind = "select"
    BY <2>0, <2>1 DEF ChipAfter, ChipSet
  <2>2. CASE w.kind = "write" /\ w.page = chip.page /\ w.reg \in AmpRegs
    <3> DEFINE c == [chip EXCEPT !.regs[w.reg] = w.val]
    <3>1. ChipAfter(chip, w) = c
      BY <2>2 DEF ChipAfter
    <3>2. c \in ChipSet
      BY <2>0, <2>2 DEF ChipSet
    <3> QED
      BY <3>1, <3>2
  <2>3. CASE ~(w.kind = "select")
               /\ ~(w.kind = "write" /\ w.page = chip.page /\ w.reg \in AmpRegs)
    BY <2>3 DEF ChipAfter
  <2> QED
    BY <2>1, <2>2, <2>3
<1> QED
  BY <1>1, <1>4, <1>5

-----------------------------------------------------------------------------
(***************************************************************************)
(* The inductive invariant.  MutesOnlyAsleep is inductive beside the types *)
(* of the queue: what it needs of a step is which items the step can make  *)
(* busy, and that is what the lemmas about the queue say.                  *)
(***************************************************************************)
ProgramType ==
  /\ Queue!QueueTypeOK
  /\ todo \in Seq(Table)
  /\ chip \in ChipSet
  /\ stray \in BOOLEAN

FlagType == earInject \in BOOLEAN /\ clean \in BOOLEAN /\ pm \in PMStates

Safe8 == TaskType /\ SemAccounting /\ ProgramType /\ FlagType /\ MutesOnlyAsleep

LEMMA InitSafe == Init => Safe8
<1> SUFFICES ASSUME Init PROVE Safe8
  OBVIOUS
<1>1. TaskType /\ SemAccounting
  <2>1. Holders = {}
    BY DEF Init, Holders
  <2>2. Cardinality(Holders) = 0
    BY <2>1, FS_EmptySet
  <2> QED
    BY <2>2, NtpAssumption DEF Init, TaskType, SemAccounting, NtpAssumption
<1>2. pending = <<"init">> /\ running = "none" /\ Len(pending) = 1 /\ pending[1] = "init"
  BY DEF Init
<1>3. Queue!QueueTypeOK
  <2>1. pending \in Seq(Works)
    BY <1>2 DEF Works
  <2> QED
    BY <1>2, <2>1 DEF Queue!QueueTypeOK
<1>4. ~Busy("suspend")
  BY <1>2 DEF Busy, Queue!IsPending
<1>5. chip \in ChipSet
  BY DEF Init, ChipSet
<1> QED
  BY <1>1, <1>3, <1>4, <1>5, ProgramTypes
  DEF Init, Safe8, ProgramType, FlagType, MutesOnlyAsleep, PMStates

\* Fewer items are busy after the step, and pm is what it was.
LEMMA LessBusy ==
  ASSUME MutesOnlyAsleep, pm' = pm, \A w \in Works : Busy(w)' => Busy(w)
  PROVE  MutesOnlyAsleep'
BY DEF MutesOnlyAsleep, Works

LEMMA ProgramStep ==
  ASSUME Safe8, NEW w \in Works, NEW tables \in Seq(Table), Program(w, tables)
  PROVE  ProgramType' /\ FlagType' /\ MutesOnlyAsleep'
<1>1. /\ Queue!QueueTypeOK'
      /\ \A v : Busy(v)' => Busy(v)
  BY StartItem DEF Program, Safe8, ProgramType
<1>2. /\ todo' = tables /\ clean' = (chip.page = 0) /\ stray' = FALSE
      /\ earInject' = earInject /\ pm' = pm /\ chip' = chip
  BY DEF Program, otherThanWorker
<1>3. MutesOnlyAsleep'
  BY <1>1, <1>2, LessBusy DEF Safe8
<1> QED
  BY <1>1, <1>2, <1>3 DEF Safe8, ProgramType, FlagType

LEMMA WorkerStep ==
  ASSUME Safe8, WorkerNext
  PROVE  ProgramType' /\ FlagType' /\ MutesOnlyAsleep'
<1>1. CASE StartInit \/ StartResume \/ StartSuspend
  BY <1>1, ProgramStep, ProgramTypes
  DEF StartInit, StartResume, StartSuspend, Works
<1>2. CASE WriteWord
  <2>1. todo' \in Seq(Table) /\ chip' \in ChipSet /\ stray' \in BOOLEAN
    BY <1>2, WriteWordType DEF Safe8, ProgramType
  <2>2. /\ UNCHANGED <<pending, running>>
        /\ earInject' = earInject /\ pm' = pm /\ clean' = clean
    BY <1>2 DEF WriteWord, otherThanWorker
  <2>3. Queue!QueueTypeOK' /\ \A w : Busy(w)' = Busy(w)
    BY <2>2, QueueUntouched DEF Safe8, ProgramType
  <2>4. MutesOnlyAsleep'
    BY <2>2, <2>3, LessBusy DEF Safe8
  <2> QED
    BY <2>1, <2>2, <2>3, <2>4 DEF Safe8, ProgramType, FlagType
<1>3. CASE WriteFails
  <2>1. /\ UNCHANGED <<pending, running>> /\ todo # <<>> /\ todo' = Tail(todo)
        /\ chip' = chip /\ stray' = stray
        /\ earInject' = earInject /\ pm' = pm /\ clean' = FALSE
    BY <1>3 DEF WriteFails, otherThanWorker
  <2>2. todo' \in Seq(Table)
    BY <2>1, HeadTailProperties DEF Safe8, ProgramType
  <2>3. Queue!QueueTypeOK' /\ \A w : Busy(w)' = Busy(w)
    BY <2>1, QueueUntouched DEF Safe8, ProgramType
  <2>4. MutesOnlyAsleep'
    BY <2>1, <2>3, LessBusy DEF Safe8
  <2> QED
    BY <2>1, <2>2, <2>3, <2>4 DEF Safe8, ProgramType, FlagType
<1>4. CASE EndWork
  <2>1. /\ todo' = todo /\ chip' = chip /\ stray' = stray
        /\ earInject' = earInject /\ pm' = pm /\ clean' = clean
    BY <1>4 DEF EndWork, otherThanWorker, chipVars
  <2>2. Queue!QueueTypeOK' /\ \A w \in Works : Busy(w)' => Busy(w)
    BY <1>4, EndItem DEF EndWork, Safe8, ProgramType
  <2>3. MutesOnlyAsleep'
    BY <2>1, <2>2, LessBusy DEF Safe8
  <2> QED
    BY <2>1, <2>2, <2>3 DEF Safe8, ProgramType, FlagType
<1> QED
  BY <1>1, <1>2, <1>3, <1>4 DEF WorkerNext

LEMMA PMStep ==
  ASSUME Safe8, PMNext
  PROVE  ProgramType' /\ FlagType' /\ MutesOnlyAsleep'
<1>1. /\ running' = running /\ todo' = todo /\ chip' = chip
      /\ stray' = stray /\ clean' = clean /\ earInject' = earInject
      /\ pm' \in PMStates
  BY DEF PMNext, SuspendNext, ResumeNext, Freeze, FreezeAborted, AllFrozen,
         CancelResume, ResumeCancelled, QueueSuspend, Sleep, Wake,
         CancelSuspend, SuspendCancelled, QueueResume, Thaw, otherThanPM,
         chipVars, PMGoto, PMStates
<1>2. CASE QueueSuspend
  <2>1. Queue!QueueTypeOK' /\ \A v \in Works : Busy(v)' => v = "suspend"
    BY <1>1, <1>2, QueueOnEmpty DEF QueueSuspend, Safe8, ProgramType, Works
  <2>2. pm' = "suspended"
    BY <1>2 DEF QueueSuspend, PMGoto
  <2> QED
    BY <1>1, <2>1, <2>2 DEF Safe8, ProgramType, FlagType, MutesOnlyAsleep, Works
<1>3. CASE QueueResume
  <2>1. Queue!QueueTypeOK' /\ \A v \in Works : Busy(v)' => v = "resume"
    BY <1>1, <1>3, QueueOnEmpty DEF QueueResume, Safe8, ProgramType, Works
  <2>2. pm' = "resumed"
    BY <1>3 DEF QueueResume, PMGoto
  <2> QED
    BY <1>1, <2>1, <2>2 DEF Safe8, ProgramType, FlagType, MutesOnlyAsleep, Works
<1>4. CASE CancelResume \/ CancelSuspend
  <2>1. Queue!QueueTypeOK' /\ \A v : Busy(v)' => Busy(v)
    BY <1>1, <1>4, CancelItem DEF CancelResume, CancelSuspend, Safe8, ProgramType
  <2>2. \/ pm = "frozen" /\ pm' = "cancelled"
        \/ pm = "waking" /\ pm' = "uncancelled"
    BY <1>4 DEF CancelResume, CancelSuspend, PMGoto
  <2> QED
    BY <1>1, <2>1, <2>2 DEF Safe8, ProgramType, FlagType, MutesOnlyAsleep
<1>5. CASE SuspendCancelled \/ ResumeCancelled \/ Freeze \/ FreezeAborted
             \/ AllFrozen \/ Sleep \/ Wake \/ Thaw
  <2>1. pending' = pending
    BY <1>5 DEF SuspendCancelled, ResumeCancelled, Freeze, FreezeAborted,
                AllFrozen, Sleep, Wake, Thaw
  <2>2. Queue!QueueTypeOK' /\ \A v : Busy(v)' = Busy(v)
    BY <1>1, <2>1, QueueUntouched DEF Safe8, ProgramType
  <2>3. \/ pm = "uncancelled" /\ pm' = "unflush"
        \/ pm = "cancelled" /\ pm' = "flush"
        \/ pm = "on" /\ pm' = "freezing"
        \/ pm = "freezing" /\ pm' \in {"on", "frozen"}
        \/ pm = "suspended" /\ pm' = "asleep"
        \/ pm \in {"suspended", "asleep"} /\ pm' = "waking"
        \/ pm = "resumed" /\ pm' = "on"
    BY <1>5 DEF SuspendCancelled, ResumeCancelled, Freeze, FreezeAborted,
                AllFrozen, Sleep, Wake, Thaw, PMGoto
  <2>4. MutesOnlyAsleep'
    BY <2>2, <2>3 DEF Safe8, MutesOnlyAsleep
  <2> QED
    BY <1>1, <2>2, <2>4 DEF Safe8, ProgramType, FlagType
<1> QED
  BY <1>2, <1>3, <1>4, <1>5 DEF PMNext, SuspendNext, ResumeNext

LEMMA NextSafe == Safe8 /\ [Next]_vars => Safe8'
<1> SUFFICES ASSUME Safe8, [Next]_vars PROVE Safe8'
  OBVIOUS
<1>1. TaskType' /\ SemAccounting'
  BY SemStep DEF Safe8
<1>2. ProgramType' /\ FlagType' /\ MutesOnlyAsleep'
  <2>1. CASE WorkerNext
    BY <2>1, WorkerStep
  <2>2. CASE PMNext
    BY <2>2, PMStep
  <2>3. CASE (\E t \in Tasks : TaskNext(t)) \/ Npca110Switches \/ UNCHANGED vars
    <3>1. /\ UNCHANGED <<pending, running>> /\ todo' = todo /\ pm' = pm
          /\ chip' = chip /\ clean' = clean /\ stray' = stray
          /\ earInject' \in BOOLEAN
      BY <2>3
      DEF TaskNext, Open, Release, Call, Down, Interrupt, Up, Npca110Switches,
          otherThanTask, workVars, chipVars, vars, Safe8, FlagType
    <3>2. Queue!QueueTypeOK' /\ \A w : Busy(w)' = Busy(w)
      BY <3>1, QueueUntouched DEF Safe8, ProgramType
    <3>3. MutesOnlyAsleep'
      BY <3>1, <3>2, LessBusy DEF Safe8
    <3> QED
      BY <3>1, <3>2, <3>3 DEF Safe8, ProgramType, FlagType
  <2> QED
    BY <2>1, <2>2, <2>3 DEF Next
<1> QED
  BY <1>1, <1>2 DEF Safe8

LEMMA AlwaysSafe == Spec => []Safe8
BY InitSafe, NextSafe, PTL DEF Spec

\* The variables of the driver and the amplifier keep their types; with them
\* goes that the semaphore never rises over its initial count.
THEOREM TypeCorrect == Spec => []TypeOK
<1>1. Safe8 => TypeOK
  BY SemBound
  DEF Safe8, TypeOK, TaskType, ProgramType, FlagType, Table
<1> QED
  BY <1>1, AlwaysSafe, PTL

\* The mute and the un-mute of a suspend/resume cycle never overlap: the
\* cancel_work_sync and flush_workqueue of each side keep them apart.
THEOREM MutesAndUnmutesApart == Spec => []MutesOnlyAsleep
<1>1. Safe8 => MutesOnlyAsleep
  BY DEF Safe8
<1> QED
  BY <1>1, AlwaysSafe, PTL

\* While the mute runs the tasks are frozen, so the flag it read at its start
\* holds for all of its writes.
THEOREM MuteActsOnOneFlag == Spec => MuteSeesOneFlag
<1>1. MutesOnlyAsleep /\ [Next]_vars => [running = "suspend" => UNCHANGED earInject]_vars
  <2> SUFFICES ASSUME MutesOnlyAsleep, [Next]_vars, running = "suspend"
               PROVE  UNCHANGED earInject
    OBVIOUS
  <2>1. pm \notin {"on", "freezing"}
    BY DEF MutesOnlyAsleep, Busy
  <2>2. CASE \E t \in Tasks : TaskNext(t)
    BY <2>2 DEF TaskNext, Open, Release, Call, Down, Interrupt, Up, otherThanTask
  <2>3. CASE Npca110Switches
    BY <2>1, <2>3 DEF Npca110Switches
  <2>4. CASE WorkerNext
    BY <2>4 DEF WorkerNext, StartInit, StartResume, StartSuspend, Program, WriteWord,
                WriteFails, EndWork, otherThanWorker
  <2>5. CASE PMNext
    BY <2>5 DEF PMNext, SuspendNext, ResumeNext, Freeze, FreezeAborted, AllFrozen,
                CancelResume, ResumeCancelled, QueueSuspend, Sleep, Wake, CancelSuspend,
                SuspendCancelled, QueueResume, Thaw, otherThanPM
  <2>6. CASE UNCHANGED vars
    BY <2>6 DEF vars
  <2> QED
    BY <2>2, <2>3, <2>4, <2>5, <2>6 DEF Next
<1> QED
  BY <1>1, MutesAndUnmutesApart, PTL DEF Spec, MuteSeesOneFlag

-----------------------------------------------------------------------------
(***************************************************************************)
(* Where the words of a program land.  Every table is for one page, and a  *)
(* table that does not begin with a page selection is for the page the     *)
(* table before it was for; the first one, for the page selected now.      *)
(***************************************************************************)
OnPages(list, page) ==
  /\ \A i \in 1..Len(list) : \A j \in 1..Len(list[i]) :
       list[i][j].page = list[i][1].page
  /\ list # <<>> /\ list[1][1].kind = "write" => list[1][1].page = page
  /\ \A i \in 2..Len(list) :
       list[i][1].kind = "write" => list[i][1].page = list[i-1][1].page

Landing == clean => OnPages(todo, chip.page) /\ ~stray

Occurs(w, list) ==
  \E i \in 1..Len(list) : \E j \in 1..Len(list[i]) : list[i][j] = w

\* What list still holds will leave every register that decides whether the
\* amplifier sounds at v.
Settles(list, regs, v) ==
  \A r \in AmpRegs :
    /\ \A w \in WordSet : Occurs(w, list) /\ w.reg = r => w.val = v
    /\ regs[r] = v \/ \E w \in WordSet : Occurs(w, list) /\ w.reg = r

\* What is left of todo when its first word has gone: the words that follow
\* move up by one place, within their table or with their table.
LEMMA RestOfTodo ==
  ASSUME ProgramType, WriteWord
  PROVE  /\ Len(todo) \in Nat \ {0} /\ Len(todo[1]) \in Nat \ {0}
         /\ Head(todo) = todo[1] /\ Head(Head(todo)) = todo[1][1]
         /\ todo[1][1] \in WordSet
         /\ \/ /\ Len(todo[1]) = 1
               /\ Len(todo') = Len(todo) - 1
               /\ \A i \in 1..Len(todo') : todo'[i] = todo[i+1]
            \/ /\ Len(todo[1]) # 1
               /\ Len(todo') = Len(todo)
               /\ Len(todo'[1]) = Len(todo[1]) - 1
               /\ \A j \in 1..Len(todo'[1]) : todo'[1][j] = todo[1][j+1]
               /\ \A i \in 2..Len(todo') : todo'[i] = todo[i]
<1> DEFINE table == Head(todo)
           rest  == Tail(todo)
           first == Tail(table)
<1>1. /\ todo \in Seq(Table) /\ todo # <<>>
      /\ Len(table) = 1 => todo' = rest
      /\ Len(table) # 1 => todo' = << first >> \o rest
  BY DEF WriteWord, ProgramType
<1>2. /\ Len(todo) \in Nat \ {0} /\ table = todo[1] /\ table \in Table
      /\ rest \in Seq(Table) /\ Len(rest) = Len(todo) - 1
      /\ \A i \in 1..Len(rest) : rest[i] = todo[i+1]
  BY <1>1, HeadTailProperties, LenProperties, EmptySeq
<1>3. /\ Len(table) \in Nat \ {0} /\ Head(table) = table[1]
      /\ table[1] \in WordSet
      /\ first \in Seq(WordSet) /\ Len(first) = Len(table) - 1
      /\ \A j \in 1..Len(first) : first[j] = table[j+1]
  BY <1>2, HeadTailProperties, LenProperties, EmptySeq DEF Table
<1>4. rest \in Seq(Seq(WordSet)) /\ << first >> \in Seq(Seq(WordSet))
  BY <1>2, <1>3 DEF Table
<1>5. Head(todo) = todo[1] /\ Head(Head(todo)) = todo[1][1]
  BY <1>2, <1>3
<1> HIDE DEF table, rest, first
<1>6. CASE Len(table) = 1
  <2>1. todo' = rest
    BY <1>1, <1>6
  <2> QED
    BY <1>2, <1>3, <1>5, <1>6, <2>1
<1>7. CASE Len(table) # 1
  <2>1. todo' = << first >> \o rest
    BY <1>1, <1>7
  <2>2. Len(<< first >>) = 1 /\ << first >>[1] = first
    OBVIOUS
  <2>3. /\ Len(todo') = 1 + Len(rest)
        /\ \A i \in 1..1 + Len(rest) :
             todo'[i] = IF i <= 1 THEN << first >>[i] ELSE rest[i-1]
    BY <1>4, <2>1, <2>2, ConcatProperties
  <2>4. Len(todo') = Len(todo) /\ todo'[1] = first
    BY <1>2, <2>2, <2>3
  <2>5. \A i \in 2..Len(todo') : todo'[i] = todo[i]
    <3> TAKE i \in 2..Len(todo')
    <3>1. todo'[i] = rest[i-1] /\ i-1 \in 1..Len(rest) /\ (i-1)+1 = i
      BY <1>2, <2>3, <2>4
    <3> QED
      BY <1>2, <3>1
  <2> QED
    BY <1>2, <1>3, <1>5, <1>7, <2>4, <2>5
<1> QED
  BY <1>6, <1>7

LEMMA WordKinds ==
  ASSUME NEW w \in WordSet
  PROVE  /\ w.kind \in {"select", "write"}
         /\ w.reg \in AmpRegs => w.kind = "write"
<1>1. CASE w \in {Select(p) : p \in {0, 3, 4}}
  BY <1>1 DEF Select, AmpRegs
<1>2. CASE w \in {Write(p, "other", "any") : p \in {0, 3, 4}}
  BY <1>2 DEF Write, AmpRegs
<1>3. ASSUME NEW p \in {0, 3, 4}, NEW r \in AmpRegs, NEW v \in {"play", "quiet"},
             w = Write(p, r, v)
      PROVE  w.kind = "write"
  BY <1>3 DEF Write
<1> QED
  BY <1>1, <1>2, <1>3 DEF WordSet

\* The effect of a word that lands.
LEMMA WordLands ==
  ASSUME ProgramType, WriteWord, OnPages(todo, chip.page)
  PROVE  /\ todo[1][1].kind = "write" => todo[1][1].page = chip.page
         /\ chip'.page = todo[1][1].page
         /\ stray' = stray
         /\ \A r \in AmpRegs :
              chip'.regs[r] = IF todo[1][1].reg = r THEN todo[1][1].val
                              ELSE chip.regs[r]
<1> DEFINE w == todo[1][1]
<1>1. /\ w \in WordSet /\ todo # <<>>
      /\ chip' = ChipAfter(chip, w)
      /\ stray' = (stray \/ (w.kind = "write" /\ w.page # chip.page))
  BY RestOfTodo DEF WriteWord
<1>2. w.kind = "write" => w.page = chip.page
  BY <1>1 DEF OnPages
<1>3. /\ w.kind \in {"select", "write"} /\ (w.reg \in AmpRegs => w.kind = "write")
  BY <1>1, WordKinds
<1>4. stray' = stray
  <2>1. stray' <=> stray
    BY <1>1, <1>2
  <2>2. stray' \in BOOLEAN /\ stray \in BOOLEAN
    BY <1>1 DEF ProgramType
  <2> QED
    BY <2>1, <2>2
<1> HIDE DEF w
<1>5. chip \in ChipSet
  BY DEF ProgramType
<1>6. CASE w.kind = "select"
  <2>1. chip' = [chip EXCEPT !.page = w.page] /\ w.reg \notin AmpRegs
    BY <1>1, <1>3, <1>6 DEF ChipAfter
  <2> QED
    BY <1>2, <1>4, <1>5, <1>6, <2>1 DEF ChipSet, w
<1>7. CASE w.kind = "write" /\ w.reg \in AmpRegs
  <2>1. chip' = [chip EXCEPT !.regs[w.reg] = w.val] /\ w.page = chip.page
    BY <1>1, <1>2, <1>7 DEF ChipAfter
  <2> QED
    BY <1>4, <1>5, <1>7, <2>1 DEF ChipSet, w
<1>8. CASE w.kind = "write" /\ w.reg \notin AmpRegs
  <2>1. chip' = chip /\ w.page = chip.page
    BY <1>1, <1>2, <1>8 DEF ChipAfter
  <2> QED
    BY <1>4, <1>8, <2>1 DEF w
<1> QED
  BY <1>3, <1>6, <1>7, <1>8

LEMMA RestLands ==
  ASSUME ProgramType, WriteWord, OnPages(todo, chip.page)
  PROVE  OnPages(todo', chip'.page)
<1>1. chip'.page = todo[1][1].page
  BY WordLands
<1>2. CASE Len(todo[1]) = 1
  <2>1. /\ Len(todo) \in Nat \ {0} /\ Len(todo') = Len(todo) - 1
        /\ \A i \in 1..Len(todo') : todo'[i] = todo[i+1]
    BY <1>2, RestOfTodo
  <2>2. \A i \in 1..Len(todo') : i+1 \in 2..Len(todo) /\ (i+1)-1 = i
    BY <2>1
  <2>3. todo' # <<>> => 1 \in 1..Len(todo')
    <3>1. todo' \in Seq(Table)
      BY WriteWordType DEF ProgramType
    <3> QED
      BY <3>1, EmptySeq, LenProperties
  <2>4. \A i \in 1..Len(todo') : \A j \in 1..Len(todo'[i]) :
          todo'[i][j].page = todo'[i][1].page
    BY <2>1, <2>2 DEF OnPages
  <2>5. todo' # <<>> /\ todo'[1][1].kind = "write" => todo'[1][1].page = chip'.page
    BY <1>1, <2>1, <2>2, <2>3 DEF OnPages
  <2>6. \A i \in 2..Len(todo') :
          todo'[i][1].kind = "write" => todo'[i][1].page = todo'[i-1][1].page
    <3> TAKE i \in 2..Len(todo')
    <3>1. /\ i \in 1..Len(todo') /\ i-1 \in 1..Len(todo')
          /\ (i-1)+1 = i /\ i+1 \in 2..Len(todo) /\ (i+1)-1 = i
      BY <2>1
    <3>2. todo'[i] = todo[i+1] /\ todo'[i-1] = todo[i]
      BY <2>1, <3>1
    <3> QED
      BY <3>1, <3>2 DEF OnPages
  <2> QED
    BY <2>4, <2>5, <2>6 DEF OnPages
<1>3. CASE Len(todo[1]) # 1
  <2>1. /\ Len(todo) \in Nat \ {0} /\ Len(todo[1]) \in Nat \ {0}
        /\ Len(todo') = Len(todo) /\ Len(todo'[1]) = Len(todo[1]) - 1
        /\ \A j \in 1..Len(todo'[1]) : todo'[1][j] = todo[1][j+1]
        /\ \A i \in 2..Len(todo') : todo'[i] = todo[i]
    BY <1>3, RestOfTodo
  <2>2. \A j \in 1..Len(todo'[1]) : todo'[1][j].page = todo[1][1].page
    <3> TAKE j \in 1..Len(todo'[1])
    <3>1. 1 \in 1..Len(todo) /\ j+1 \in 1..Len(todo[1])
      BY <2>1
    <3> QED
      BY <2>1, <3>1 DEF OnPages
  <2>3. 1 \in 1..Len(todo'[1])
    <3> DEFINE n == Len(todo[1])
    <3>1. n \in Nat \ {0} /\ n # 1 /\ Len(todo'[1]) = n - 1
      BY <1>3, <2>1
    <3> HIDE DEF n
    <3>2. 1 \in 1..(n - 1)
      BY <3>1
    <3> QED
      BY <3>1, <3>2
  <2>4. \A i \in 1..Len(todo') : \A j \in 1..Len(todo'[i]) :
          todo'[i][j].page = todo'[i][1].page
    <3> TAKE i \in 1..Len(todo')
    <3>1. CASE i = 1
      BY <2>2, <2>3, <3>1
    <3>2. CASE i # 1
      BY <2>1, <3>2 DEF OnPages
    <3> QED
      BY <3>1, <3>2
  <2>5. \A i \in 2..Len(todo') :
          todo'[i][1].kind = "write" => todo'[i][1].page = todo'[i-1][1].page
    <3> TAKE i \in 2..Len(todo')
    <3>1. i \in 2..Len(todo) /\ todo'[i] = todo[i] /\ (i-1 = 1 \/ i-1 \in 2..Len(todo'))
      BY <2>1
    <3>2. todo'[i-1][1].page = todo[i-1][1].page
      BY <2>1, <2>2, <2>3, <3>1
    <3> QED
      BY <3>1, <3>2 DEF OnPages
  <2> QED
    BY <1>1, <2>2, <2>3, <2>4, <2>5 DEF OnPages
<1> QED
  BY <1>2, <1>3, RestOfTodo

\* A word of the rest was there before, and one that was there before is in
\* the rest or has just been written.
LEMMA RestOccurs ==
  ASSUME ProgramType, WriteWord, NEW w
  PROVE  /\ Occurs(w, todo') => Occurs(w, todo)
         /\ Occurs(w, todo) => w = todo[1][1] \/ Occurs(w, todo')
<1>0. Len(todo) \in Nat \ {0} /\ Len(todo[1]) \in Nat \ {0}
  BY RestOfTodo
<1>1. CASE Len(todo[1]) = 1
  <2>1. /\ Len(todo') = Len(todo) - 1
        /\ \A i \in 1..Len(todo') : todo'[i] = todo[i+1]
    BY <1>1, RestOfTodo
  <2>2. ASSUME NEW i \in 1..Len(todo'), NEW j \in 1..Len(todo'[i]), todo'[i][j] = w
        PROVE  Occurs(w, todo)
    <3>1. i+1 \in 1..Len(todo) /\ todo'[i] = todo[i+1]
      BY <1>0, <2>1
    <3> QED
      BY <2>2, <3>1 DEF Occurs
  <2>3. ASSUME NEW i \in 1..Len(todo), NEW j \in 1..Len(todo[i]), todo[i][j] = w
        PROVE  w = todo[1][1] \/ Occurs(w, todo')
    <3>1. CASE i = 1
      <4>1. j \in 1..1
        BY <1>1, <3>1
      <4> QED
        BY <2>3, <3>1, <4>1
    <3>2. CASE i # 1
      <4>1. i-1 \in 1..Len(todo') /\ (i-1)+1 = i
        BY <1>0, <2>1, <3>2
      <4>2. todo'[i-1] = todo[i]
        BY <2>1, <4>1
      <4> QED
        BY <2>3, <4>1, <4>2 DEF Occurs
    <3> QED
      BY <3>1, <3>2
  <2> QED
    BY <2>2, <2>3 DEF Occurs
<1>2. CASE Len(todo[1]) # 1
  <2>1. /\ Len(todo') = Len(todo) /\ Len(todo'[1]) = Len(todo[1]) - 1
        /\ \A j \in 1..Len(todo'[1]) : todo'[1][j] = todo[1][j+1]
        /\ \A i \in 2..Len(todo') : todo'[i] = todo[i]
    BY <1>2, RestOfTodo
  <2>2. ASSUME NEW i \in 1..Len(todo'), NEW j \in 1..Len(todo'[i]), todo'[i][j] = w
        PROVE  Occurs(w, todo)
    <3>1. CASE i = 1
      <4>1. j+1 \in 1..Len(todo[1]) /\ todo'[1][j] = todo[1][j+1] /\ 1 \in 1..Len(todo)
        BY <1>0, <2>1, <3>1
      <4> QED
        BY <2>2, <3>1, <4>1 DEF Occurs
    <3>2. CASE i # 1
      <4>1. i \in 1..Len(todo) /\ todo'[i] = todo[i]
        BY <1>0, <2>1, <3>2
      <4> QED
        BY <2>2, <4>1 DEF Occurs
    <3> QED
      BY <3>1, <3>2
  <2>3. ASSUME NEW i \in 1..Len(todo), NEW j \in 1..Len(todo[i]), todo[i][j] = w
        PROVE  w = todo[1][1] \/ Occurs(w, todo')
    <3>1. CASE i = 1 /\ j = 1
      BY <2>3, <3>1
    <3>2. CASE i = 1 /\ j # 1
      <4>1. j-1 \in 1..Len(todo'[1]) /\ (j-1)+1 = j /\ 1 \in 1..Len(todo')
        BY <1>0, <2>1, <3>2
      <4>2. todo'[1][j-1] = w
        BY <2>1, <2>3, <3>2, <4>1
      <4> QED
        BY <4>1, <4>2 DEF Occurs
    <3>3. CASE i # 1
      <4>1. i \in 1..Len(todo') /\ todo'[i] = todo[i]
        BY <1>0, <2>1, <3>3
      <4> QED
        BY <2>3, <4>1 DEF Occurs
    <3> QED
      BY <3>1, <3>2, <3>3
  <2> QED
    BY <2>2, <2>3 DEF Occurs
<1> QED
  BY <1>1, <1>2, RestOfTodo

LEMMA RestSettles ==
  ASSUME ProgramType, WriteWord, OnPages(todo, chip.page),
         NEW v, Settles(todo, chip.regs, v)
  PROVE  Settles(todo', chip'.regs, v)
<1> SUFFICES ASSUME NEW r \in AmpRegs
             PROVE  /\ \A w \in WordSet : Occurs(w, todo') /\ w.reg = r => w.val = v
                    /\ \/ chip'.regs[r] = v
                       \/ \E w \in WordSet : Occurs(w, todo') /\ w.reg = r
  BY DEF Settles
<1>1. /\ \A w \in WordSet : Occurs(w, todo) /\ w.reg = r => w.val = v
      /\ chip.regs[r] = v \/ \E w \in WordSet : Occurs(w, todo) /\ w.reg = r
  BY DEF Settles
<1>2. todo[1][1] \in WordSet /\ Occurs(todo[1][1], todo)
  <2>1. /\ Len(todo) \in Nat \ {0} /\ Len(todo[1]) \in Nat \ {0}
        /\ todo[1][1] \in WordSet
    BY RestOfTodo
  <2>2. 1 \in 1..Len(todo) /\ 1 \in 1..Len(todo[1])
    BY <2>1
  <2> QED
    BY <2>1, <2>2 DEF Occurs
<1>3. chip'.regs[r] = IF todo[1][1].reg = r THEN todo[1][1].val ELSE chip.regs[r]
  BY WordLands
<1>4. CASE todo[1][1].reg = r
  <2>1. chip'.regs[r] = v
    BY <1>1, <1>2, <1>3, <1>4
  <2> QED
    BY <1>1, <2>1, RestOccurs
<1>5. CASE todo[1][1].reg # r
  <2>1. chip'.regs[r] = chip.regs[r]
    BY <1>3, <1>5
  <2> QED
    BY <1>1, <1>5, <2>1, RestOccurs
<1> QED
  BY <1>4, <1>5

-----------------------------------------------------------------------------
(***************************************************************************)
(* The programs of the driver begin on page 0, land, and settle the        *)
(* registers.                                                              *)
(***************************************************************************)
OnePage(table, page) == table # <<>> /\ \A j \in 1..Len(table) : table[j].page = page

LEMMA TablesHaveOnePage ==
  /\ \A p \in {0, 3, 4} : /\ OnePage(<< Select(p) >>, p)
                         /\ << Select(p) >>[1].kind = "select"
                         /\ OnePage(Untracked(p), p)
  /\ OnePage(ntp8230_init_part4, 0)
  /\ \A r \in AmpRegs : OnePage(<< Write(0, r, "quiet") >>, 0)
BY DEF OnePage, Select, Untracked, Write, ntp8230_init_part4, AmpRegs

LEMMA InitTablesLand == OnPages(InitTables, 0)
<1> DEFINE pages == << 0, 3, 3, 0, 0, 3, 3, 4, 4, 0, 0 >>
<1>1. /\ Len(InitTables) = 11
      /\ \A i \in 1..11 : OnePage(InitTables[i], pages[i])
      /\ \A i \in {2, 4, 6, 8, 10} : InitTables[i][1].kind = "select"
  <2>1. Len(InitTables) = 11
    BY DEF InitTables
  <2>2. /\ OnePage(InitTables[1], 0) /\ OnePage(InitTables[2], 3)
        /\ OnePage(InitTables[3], 3) /\ OnePage(InitTables[4], 0)
        /\ OnePage(InitTables[5], 0) /\ OnePage(InitTables[6], 3)
        /\ OnePage(InitTables[7], 3) /\ OnePage(InitTables[8], 4)
        /\ OnePage(InitTables[9], 4) /\ OnePage(InitTables[10], 0)
        /\ OnePage(InitTables[11], 0)
    BY TablesHaveOnePage
    DEF InitTables, ntp8230_init_part1, ntp8230_drc_part0, ntp8230_drc_part1,
        ntp8230_highfreq_div, ntp8230_lowfreq_div
  <2>3. \A i \in {2, 4, 6, 8, 10} : InitTables[i][1].kind = "select"
    BY TablesHaveOnePage DEF InitTables
  <2> HIDE DEF pages
  <2>4. /\ pages[1] = 0 /\ pages[2] = 3 /\ pages[3] = 3 /\ pages[4] = 0
        /\ pages[5] = 0 /\ pages[6] = 3 /\ pages[7] = 3 /\ pages[8] = 4
        /\ pages[9] = 4 /\ pages[10] = 0 /\ pages[11] = 0
    BY DEF pages
  <2> QED
    BY <2>1, <2>2, <2>3, <2>4
<1>2. /\ \A i \in {1, 3, 5, 7, 9, 11} : i \in 2..11 => pages[i] = pages[i-1]
      /\ pages[1] = 0
  OBVIOUS
<1> HIDE DEF pages
<1>3. ASSUME NEW i \in 1..11
      PROVE  /\ \A j \in 1..Len(InitTables[i]) : InitTables[i][j].page = pages[i]
             /\ InitTables[i][1].page = pages[i]
  <2>1. InitTables[i] \in Table
    <3>1. InitTables \in Seq(Table) /\ i \in 1..Len(InitTables)
      BY <1>1, ProgramTypes
    <3> QED
      BY ONLY <3>1, ElementOfSeq
  <2>2. 1 \in 1..Len(InitTables[i])
    BY <2>1, EmptySeq, LenProperties DEF Table
  <2> QED
    BY <1>1, <2>2 DEF OnePage
<1>4. \A i \in 1..11 : i \in {1, 3, 5, 7, 9, 11} \/ i \in {2, 4, 6, 8, 10}
  OBVIOUS
<1>5. \A i \in 2..11 : InitTables[i][1].kind = "write" =>
                       InitTables[i][1].page = InitTables[i-1][1].page
  <2> TAKE i \in 2..11
  <2>1. i \in 1..11 /\ i-1 \in 1..11
    OBVIOUS
  <2>2. CASE i \in {2, 4, 6, 8, 10}
    BY <1>1, <2>2
  <2>3. CASE i \in {1, 3, 5, 7, 9, 11}
    BY <1>2, <1>3, <2>1, <2>3
  <2> QED
    BY <1>4, <2>1, <2>2, <2>3
<1>6. \A i \in 1..11 : \A j \in 1..Len(InitTables[i]) :
        InitTables[i][j].page = InitTables[i][1].page
  BY <1>3
<1>7. InitTables[1][1].page = 0
  BY <1>2, <1>3
<1> QED
  BY <1>1, <1>5, <1>6, <1>7 DEF OnPages

LEMMA MuteTablesLand == OnPages(MuteTables, 0) /\ OnPages(<<>>, 0)
<1>1. /\ Len(MuteTables) = 3
      /\ \A i \in 1..3 : Len(MuteTables[i]) = 1 /\ MuteTables[i][1].page = 0
  BY DEF MuteTables, Write
<1> QED
  BY <1>1 DEF OnPages

\* The values that the words of the two programs give to the registers.
LEMMA ProgramsSettle ==
  ASSUME NEW regs
  PROVE  Settles(InitTables, regs, "play") /\ Settles(MuteTables, regs, "quiet")
<1>1. /\ Len(InitTables) = 11 /\ Len(InitTables[11]) = 3
      /\ InitTables[11] = ntp8230_init_part4
  BY DEF InitTables, ntp8230_init_part4
<1>2. \A i \in 1..10 : \A j \in 1..Len(InitTables[i]) : InitTables[i][j].reg \notin AmpRegs
  <2>1. \A p \in {0, 3, 4} :
          /\ \A j \in 1..Len(<< Select(p) >>) : << Select(p) >>[j].reg \notin AmpRegs
          /\ \A j \in 1..Len(Untracked(p)) : Untracked(p)[j].reg \notin AmpRegs
    BY DEF Select, Untracked, Write, AmpRegs
  <2>2. \A i \in 1..10 : \E p \in {0, 3, 4} :
          InitTables[i] = << Select(p) >> \/ InitTables[i] = Untracked(p)
    BY DEF InitTables, ntp8230_init_part1, ntp8230_drc_part0, ntp8230_drc_part1,
           ntp8230_highfreq_div, ntp8230_lowfreq_div
  <2> SUFFICES ASSUME NEW i \in 1..10
               PROVE  \A j \in 1..Len(InitTables[i]) : InitTables[i][j].reg \notin AmpRegs
    OBVIOUS
  <2>3. PICK p \in {0, 3, 4} :
          InitTables[i] = << Select(p) >> \/ InitTables[i] = Untracked(p)
    BY <2>2
  <2> QED
    BY <2>1, <2>3
<1>3. \A j \in 1..3 : ntp8230_init_part4[j].val = "play"
  BY DEF ntp8230_init_part4, Write
<1>4. ASSUME NEW r \in AmpRegs
      PROVE  \E w \in WordSet : Occurs(w, InitTables) /\ w.reg = r
  <2>1. PICK j \in 1..3 : ntp8230_init_part4[j] = Write(0, r, "play")
    <3>1. r = "mask" \/ r = "pwm" \/ r = "mute"
      BY DEF AmpRegs
    <3>2. /\ ntp8230_init_part4[1] = Write(0, "mask", "play")
          /\ ntp8230_init_part4[2] = Write(0, "pwm", "play")
          /\ ntp8230_init_part4[3] = Write(0, "mute", "play")
      BY DEF ntp8230_init_part4
    <3> QED
      BY <3>1, <3>2
  <2>2. Occurs(Write(0, r, "play"), InitTables)
    BY SMTT(30), <1>1, <2>1 DEF Occurs
  <2> QED
    BY <2>2, WordTypes DEF Write
<1>5. ASSUME NEW w \in WordSet, Occurs(w, InitTables), w.reg \in AmpRegs
      PROVE  w.val = "play"
  <2>1. PICK i \in 1..11 : \E j \in 1..Len(InitTables[i]) : InitTables[i][j] = w
    BY <1>1, <1>5 DEF Occurs
  <2>2. i \notin 1..10
    BY <1>2, <1>5, <2>1
  <2>3. i = 11
    BY <2>2
  <2> QED
    BY <1>1, <1>3, <2>1, <2>3
<1>6. /\ Len(MuteTables) = 3
      /\ \A i \in 1..3 : Len(MuteTables[i]) = 1 /\ MuteTables[i][1].val = "quiet"
  BY DEF MuteTables, Write
<1>7. ASSUME NEW r \in AmpRegs
      PROVE  \E w \in WordSet : Occurs(w, MuteTables) /\ w.reg = r
  <2>1. PICK i \in 1..3 : MuteTables[i] = << Write(0, r, "quiet") >>
    BY DEF MuteTables, AmpRegs
  <2>2. MuteTables[i][1] = Write(0, r, "quiet") /\ 1 \in 1..Len(MuteTables[i])
    BY <1>6, <2>1
  <2>3. Occurs(Write(0, r, "quiet"), MuteTables)
    BY <1>6, <2>2 DEF Occurs
  <2> QED
    BY <2>3, WordTypes DEF Write
<1>8. ASSUME NEW w \in WordSet, Occurs(w, MuteTables)
      PROVE  w.val = "quiet"
  <2>1. PICK i \in 1..3 : \E j \in 1..Len(MuteTables[i]) : MuteTables[i][j] = w
    BY <1>6, <1>8 DEF Occurs
  <2>2. MuteTables[i][1] = w
    BY <1>6, <2>1
  <2> QED
    BY <1>6, <2>2
<1> QED
  BY <1>4, <1>5, <1>7, <1>8 DEF Settles

-----------------------------------------------------------------------------
(***************************************************************************)
(* The invariant behind AmpFollowsPower.  It speaks of programs half sent: *)
(* what is left of a clean one will settle the registers the way the state *)
(* of the system asks for.  While an item is pending and none runs nothing *)
(* is claimed, for the amplifier is as the cycle before has left it.       *)
(***************************************************************************)
Heading ==
  clean /\ (running # "none" \/ pending = <<>>) =>
    /\ pm \in {"on", "freezing", "resumed"} => Settles(todo, chip.regs, "play")
    /\ pm \in {"suspended", "asleep"} /\ ~earInject => Settles(todo, chip.regs, "quiet")

Sounding == (running = "none" => todo = <<>>) /\ Landing /\ Heading

LEMMA InitSounding == Init => Sounding
BY DEF Init, Sounding, Landing, Heading

LEMMA ProgramSounding ==
  ASSUME Safe8, Sounding, NEW w \in Works, NEW tables, Program(w, tables),
         OnPages(tables, 0),
         w \in {"init", "resume"} => tables = InitTables,
         w = "suspend" /\ ~earInject => tables = MuteTables
  PROVE  Sounding'
<1>1. /\ running' = w /\ todo' = tables /\ clean' = (chip.page = 0)
      /\ stray' = FALSE /\ earInject' = earInject /\ pm' = pm /\ chip' = chip
  BY StartItem DEF Program, otherThanWorker, Safe8, ProgramType
<1>2. Busy(w)
  <2>1. Busy(w)'
    BY <1>1 DEF Busy
  <2> QED
    BY <2>1, StartItem DEF Program, Safe8, ProgramType
<1>3. Landing'
  BY <1>1 DEF Landing
<1>4. Heading'
  <2>1. CASE w = "suspend"
    <3>1. pm \notin {"on", "freezing", "resumed"}
      BY <1>2, <2>1 DEF Safe8, MutesOnlyAsleep
    <3>2. ~earInject => Settles(tables, chip.regs, "quiet")
      BY <2>1, ProgramsSettle
    <3> QED
      BY <1>1, <3>1, <3>2 DEF Heading
  <2>2. CASE w \in {"init", "resume"}
    <3>1. pm \notin {"suspended", "asleep"}
      BY <1>2, <2>2 DEF Safe8, MutesOnlyAsleep
    <3>2. Settles(tables, chip.regs, "play")
      BY <2>2, ProgramsSettle
    <3> QED
      BY <1>1, <3>1, <3>2 DEF Heading
  <2> QED
    BY <2>1, <2>2 DEF Works
<1> QED
  BY <1>1, <1>3, <1>4 DEF Sounding, Works

LEMMA WorkerSounding ==
  ASSUME Safe8, Sounding, WorkerNext
  PROVE  Sounding'
<1>1. CASE StartInit \/ StartResume
  BY <1>1, ProgramSounding, InitTablesLand DEF StartInit, StartResume, Works
<1>2. CASE StartSuspend
  BY <1>2, ProgramSounding, MuteTablesLand DEF StartSuspend, Works
<1>3. CASE WriteWord
  <2>1. /\ running' = running /\ pending' = pending /\ clean' = clean /\ todo # <<>>
        /\ earInject' = earInject /\ pm' = pm
    BY <1>3 DEF WriteWord, otherThanWorker
  <2>2. CASE clean
    <3>1. OnPages(todo, chip.page) /\ ~stray
      BY <2>2 DEF Sounding, Landing
    <3>2. OnPages(todo', chip'.page) /\ stray' = stray
      BY <1>3, <3>1, RestLands, WordLands DEF Safe8
    <3>3. \A v : Settles(todo, chip.regs, v) => Settles(todo', chip'.regs, v)
      BY <1>3, <3>1, RestSettles DEF Safe8
    <3>4. Landing'
      BY <3>1, <3>2 DEF Landing
    <3>5. Heading'
      BY <2>1, <3>3 DEF Sounding, Heading
    <3> QED
      BY <2>1, <3>4, <3>5 DEF Sounding
  <2>3. CASE ~clean
    BY <2>1, <2>3 DEF Sounding, Landing, Heading
  <2> QED
    BY <2>2, <2>3
<1>4. CASE WriteFails
  BY <1>4 DEF WriteFails, otherThanWorker, Sounding, Landing, Heading
<1>5. CASE EndWork
  BY <1>5 DEF EndWork, Queue!FinishWork, otherThanWorker, chipVars,
              Sounding, Landing, Heading
<1> QED
  BY <1>1, <1>2, <1>3, <1>4, <1>5 DEF WorkerNext

LEMMA PMSounding ==
  ASSUME Safe8, Sounding, PMNext
  PROVE  Sounding'
<1>1. /\ running' = running /\ todo' = todo /\ chip' = chip
      /\ stray' = stray /\ clean' = clean /\ earInject' = earInject
  BY DEF PMNext, SuspendNext, ResumeNext, Freeze, FreezeAborted, AllFrozen,
         CancelResume, ResumeCancelled, QueueSuspend, Sleep, Wake,
         CancelSuspend, SuspendCancelled, QueueResume, Thaw, otherThanPM, chipVars
<1>2. (running' = "none" => todo' = <<>>) /\ Landing'
  BY <1>1 DEF Sounding, Landing
<1>3. CASE QueueSuspend \/ QueueResume
  <2>1. running = "none" /\ pending = <<>>
    BY <1>3 DEF QueueSuspend, QueueResume, Queue!Flushed
  <2>2. pending' # <<>>
    <3>1. \E w : pending' = Append(<<>>, w)
      BY <1>3, <2>1 DEF QueueSuspend, QueueResume, Queue!QueueWork, Queue!IsPending
    <3> QED
      BY <3>1
  <2> QED
    BY <1>1, <1>2, <2>1, <2>2 DEF Sounding, Heading
<1>4. CASE CancelResume \/ ResumeCancelled \/ CancelSuspend \/ SuspendCancelled
             \/ AllFrozen \/ Wake
  <2>1. pm' \notin {"on", "freezing", "resumed", "suspended", "asleep"}
    BY <1>4 DEF CancelResume, ResumeCancelled, CancelSuspend, SuspendCancelled,
                AllFrozen, Wake, PMGoto
  <2> QED
    BY <1>2, <2>1 DEF Sounding, Heading
<1>5. CASE Freeze \/ FreezeAborted \/ Sleep \/ Thaw
  <2>1. /\ pending' = pending
        /\ \/ pm \in {"on", "freezing", "resumed"} /\ pm' \in {"on", "freezing", "resumed"}
           \/ pm \in {"suspended", "asleep"} /\ pm' \in {"suspended", "asleep"}
    BY <1>5 DEF Freeze, FreezeAborted, Sleep, Thaw, PMGoto
  <2> QED
    BY <1>1, <1>2, <2>1 DEF Sounding, Heading
<1> QED
  BY <1>3, <1>4, <1>5 DEF PMNext, SuspendNext, ResumeNext

LEMMA NextSounding == Safe8 /\ Sounding /\ [Next]_vars => Sounding'
<1> SUFFICES ASSUME Safe8, Sounding, [Next]_vars PROVE Sounding'
  OBVIOUS
<1>1. CASE WorkerNext
  BY <1>1, WorkerSounding
<1>2. CASE PMNext
  BY <1>2, PMSounding
<1>3. CASE (\E t \in Tasks : TaskNext(t)) \/ Npca110Switches \/ UNCHANGED vars
  <2>1. /\ pending' = pending /\ running' = running /\ todo' = todo
        /\ pm' = pm /\ chip' = chip /\ clean' = clean /\ stray' = stray
        /\ earInject' = earInject \/ pm \in {"on", "freezing"}
    BY <1>3
    DEF TaskNext, Open, Release, Call, Down, Interrupt, Up, Npca110Switches,
        otherThanTask, workVars, chipVars, vars
  <2> QED
    BY <2>1 DEF Sounding, Landing, Heading
<1> QED
  BY <1>1, <1>2, <1>3 DEF Next

LEMMA AlwaysSounding == Spec => []Sounding
BY InitSafe, NextSafe, InitSounding, NextSounding, PTL DEF Spec

\* A program that began on page 0 and has lost no word writes every word on
\* the page it is for, in whatever state the one before has left the chip.
THEOREM CleanProgramsReachTheirPages == Spec => []CleanProgramsLand
<1>1. Sounding => CleanProgramsLand
  BY DEF Sounding, Landing, CleanProgramsLand
<1> QED
  BY <1>1, AlwaysSounding, PTL

\* An idle amplifier whose last program went through plays while the system is
\* up, and is mute while it is suspended with no input injected.
THEOREM AmplifierFollowsPower == Spec => []AmpFollowsPower
<1>1. ASSUME NEW regs, NEW v, Settles(<<>>, regs, v)
      PROVE  \A r \in AmpRegs : regs[r] = v
  <2>1. \A w : ~Occurs(w, <<>>)
    BY DEF Occurs
  <2> QED
    BY <1>1, <2>1 DEF Settles
<1>2. Sounding => AmpFollowsPower
  BY <1>1 DEF Sounding, Heading, AmpFollowsPower, Playing, Muted
<1> QED
  BY <1>2, AlwaysSounding, PTL

==============================================================================
