---------------------------- MODULE Npca110Proofs ----------------------------
(***************************************************************************)
(* Proofs about Npca110, for any finite set of tasks, any initial count of *)
(* the semaphore, and a bus that may or may not fail.                      *)
(***************************************************************************)
EXTENDS Npca110, FiniteSetTheorems, SequenceTheorems, TLAPS

QueueThms == INSTANCE WorkQueueProofs
               WITH Works <- {"init", "sure"}, NoWork <- "none"

-----------------------------------------------------------------------------
(***************************************************************************)
(* The command tables.                                                     *)
(***************************************************************************)

\* An ADC table is eight words long.
LEMMA AdcWayType ==
  ASSUME NEW line \in {"LIN1", "LIN2"}
  PROVE  AdcWay(line) \in Seq(WordSet) /\ Len(AdcWay(line)) = 8
<1>1. Len(AdcWay(line)) = 8
  BY DEF AdcWay
<1>2. \A k \in 1..8 : AdcWay(line)[k] \in WordSet
  <2> SUFFICES ASSUME NEW k \in 1..8
               PROVE  AdcWay(line)[k] \in WordSet
    OBVIOUS
  <2>1. k = 1 \/ k = 2 \/ k = 3 \/ k = 4 \/ k = 5 \/ k = 6 \/ k = 7 \/ k = 8
    OBVIOUS
  <2> QED
    BY <2>1 DEF AdcWay, Index, Data, WordSet, Registers, Values
<1>3. AdcWay(line) = [k \in 1..8 |-> AdcWay(line)[k]]
  BY DEF AdcWay
<1> QED
  BY <1>1, <1>2, <1>3, IsASeq

LEMMA ConcatWords ==
  ASSUME NEW a \in Seq(WordSet), NEW b \in Seq(WordSet)
  PROVE  a \o b \in Seq(WordSet) /\ Len(a \o b) = Len(a) + Len(b)
BY ConcatProperties

\* The start-up table is a sequence of words, longer than an ADC table.
LEMMA StartupTableType ==
  MaxxAudio_Cmd_music1_FULL \in Seq(WordSet) /\ Len(MaxxAudio_Cmd_music1_FULL) = 12
<1> DEFINE way == AdcWay("LIN1")
           other == OtherWrite
<1>1. other \in Seq(WordSet) /\ Len(other) = 2
  BY DEF OtherWrite, Index, Data, WordSet, Registers, Values
<1>2. way \in Seq(WordSet) /\ Len(way) = 8
  BY AdcWayType
<1>3. MaxxAudio_Cmd_music1_FULL = (other \o way) \o other
  BY DEF MaxxAudio_Cmd_music1_FULL
<1> HIDE DEF way, other
<1>4. other \o way \in Seq(WordSet) /\ Len(other \o way) = 10
  <2>1. /\ other \o way \in Seq(WordSet)
        /\ Len(other \o way) = Len(other) + Len(way)
    BY ONLY <1>1, <1>2, ConcatWords
  <2> QED
    BY <1>1, <1>2, <2>1
<1>5. /\ (other \o way) \o other \in Seq(WordSet)
      /\ Len((other \o way) \o other) = 12
  <2> DEFINE front == other \o way
  <2>1. front \in Seq(WordSet) /\ Len(front) = 10
    BY <1>4
  <2> HIDE DEF front
  <2>2. /\ front \o other \in Seq(WordSet)
        /\ Len(front \o other) = Len(front) + Len(other)
    BY ONLY <1>1, <2>1, ConcatWords
  <2>3. front \o other \in Seq(WordSet) /\ Len(front \o other) = 12
    BY <1>1, <2>1, <2>2
  <2> QED
    BY <2>3 DEF front
<1> QED
  BY <1>3, <1>5

\* Every table is a non-empty sequence of words, no longer than Positions.
LEMMA TableType ==
  ASSUME NEW table \in Tables
  PROVE  /\ Words(table) \in Seq(WordSet)
         /\ Len(Words(table)) \in 1..12
         /\ \A k \in 1..Len(Words(table)) : Words(table)[k] \in WordSet
<1>1. CASE table = "AdcWay1to2"
  BY <1>1, AdcWayType, ElementOfSeq DEF Words, AdcWay1to2
<1>2. CASE table = "AdcWay2to1"
  BY <1>2, AdcWayType, ElementOfSeq DEF Words, AdcWay2to1
<1>3. CASE table = "music1_FULL"
  BY <1>3, StartupTableType, ElementOfSeq DEF Words
<1> QED
  BY <1>1, <1>2, <1>3 DEF Tables

LEMMA PositionsIs == Positions = 0..12
BY StartupTableType DEF Positions

\* A word takes the codec from one known state to another.
LEMMA ChipAfterType ==
  ASSUME NEW c \in ChipSet, NEW w \in WordSet
  PROVE  ChipAfter(c, w) \in ChipSet
<1>1. TornChip \in ChipSet
  BY DEF TornChip, ChipInReset, ChipSet
<1>2. CASE c.expect = "index" /\ w.kind = "index"
  BY <1>2 DEF ChipAfter, ChipSet, WordSet, Registers
<1>3. CASE c.expect \in Registers /\ w.kind = "data"
  <2>1. w.arg \in Values
    BY <1>3 DEF WordSet
  <2>2. WriteRegister(c, c.expect, w.arg) \in ChipSet
    BY <2>1 DEF WriteRegister, ChipSet
  <2> QED
    BY <1>3, <2>2 DEF ChipAfter, Registers
<1>4. CASE ~(c.expect = "index" /\ w.kind = "index")
           /\ ~(c.expect \in Registers /\ w.kind = "data")
  BY <1>1, <1>4 DEF ChipAfter
<1> QED
  BY <1>2, <1>3, <1>4

-----------------------------------------------------------------------------
(***************************************************************************)
(* The queue, for the items of this driver.                                *)
(***************************************************************************)

LEMMA QueueUntouched ==
  ASSUME Queue!QueueTypeOK, UNCHANGED <<pending, running>>
  PROVE  Queue!QueueTypeOK' /\ \A w : Queue!IsPending(w)' = Queue!IsPending(w)
BY DEF Queue!QueueTypeOK, Queue!IsPending

LEMMA StartItem ==
  ASSUME NEW w, Queue!QueueTypeOK, Queue!StartWork(w)
  PROVE  /\ Queue!QueueTypeOK'
         /\ running = "none" /\ running' = w
         /\ \A v : Queue!IsPending(v)' => Queue!IsPending(v)
         /\ pending # <<>>
BY QueueThms!StartWorkKeepsType
DEF Queue!QueueTypeOK, QueueThms!QueueTypeOK, Queue!IsPending, QueueThms!IsPending,
    Queue!StartWork, QueueThms!StartWork

LEMMA EndItem ==
  ASSUME Queue!QueueTypeOK, Queue!FinishWork
  PROVE  /\ Queue!QueueTypeOK'
         /\ running' = "none"
         /\ \A v : Queue!IsPending(v)' = Queue!IsPending(v)
BY DEF Queue!QueueTypeOK, Queue!IsPending, Queue!FinishWork

LEMMA CancelItem ==
  ASSUME Queue!QueueTypeOK, Queue!GrabPending("sure"), running' = running
  PROVE  Queue!QueueTypeOK' /\ ~Queue!IsPending("sure")'
BY QueueThms!GrabPendingKeepsType
DEF Queue!QueueTypeOK, QueueThms!QueueTypeOK, Queue!IsPending, QueueThms!IsPending,
    Queue!GrabPending, QueueThms!GrabPending

LEMMA QueueItem ==
  ASSUME Queue!QueueTypeOK, Queue!QueueWork("sure"), running' = running
  PROVE  Queue!QueueTypeOK'
BY QueueThms!QueueWorkKeepsType
DEF Queue!QueueTypeOK, QueueThms!QueueTypeOK, Queue!IsPending, QueueThms!IsPending,
    Queue!QueueWork, QueueThms!QueueWork

-----------------------------------------------------------------------------
(***************************************************************************)
(* The semaphore.  Up() cannot exceed the initial count only because every *)
(* task that gives a permit back holds one, so the count is part of the    *)
(* induction for TypeOK.                                                   *)
(***************************************************************************)
Holders == {t \in Tasks : Holds(t)}

LEMMA HoldersFinite ==
  /\ IsFiniteSet(Holders) /\ Cardinality(Holders) \in Nat
  /\ Cardinality(Holders') \in Nat
<1>1. Holders \in SUBSET Tasks /\ Holders' \in SUBSET Tasks
  BY DEF Holders
<1> QED
  BY <1>1, NpcaAssumption, FS_Subset, FS_CardinalityType DEF NpcaAssumption

\* Down adds the task to the holders, Up removes it, nothing else moves a
\* task in or out.
LEMMA SemStep ==
  ASSUME TypeOK, SemAccounting, [Next]_vars
  PROVE  SemAccounting'
<1>0. /\ sem + Cardinality(Holders) = SemInit
      /\ sem \in Int /\ SemInit \in Int
      /\ pc \in [Tasks -> {"closed", "open", "down", "send", "flag", "up"}]
  BY NpcaAssumption DEF SemAccounting, Holders, TypeOK, NpcaAssumption
<1>S. SUFFICES sem' + Cardinality(Holders') = SemInit
  BY DEF SemAccounting, Holders
<1>1. ASSUME NEW t \in Tasks, Down(t)
      PROVE  sem' + Cardinality(Holders') = SemInit
  <2>1. Holders' = Holders \cup {t} /\ t \notin Holders
    BY <1>0, <1>1 DEF Down, Goto, Holders, Holds
  <2>2. Cardinality(Holders \cup {t}) = Cardinality(Holders) + 1
    BY <2>1, HoldersFinite, FS_AddElement
  <2>3. sem' = sem - 1
    BY <1>1 DEF Down
  <2> QED
    BY <1>0, <2>1, <2>2, <2>3, HoldersFinite
<1>2. ASSUME NEW t \in Tasks, Up(t)
      PROVE  sem' + Cardinality(Holders') = SemInit
  <2>1. Holders' = Holders \ {t} /\ t \in Holders
    BY <1>0, <1>2 DEF Up, Goto, Holders, Holds
  <2>2. Cardinality(Holders \ {t}) = Cardinality(Holders) - 1
    BY <2>1, HoldersFinite, FS_RemoveElement
  <2>3. sem' = sem + 1
    BY <1>2 DEF Up
  <2> QED
    BY <1>0, <2>1, <2>2, <2>3, HoldersFinite
<1>3. ASSUME NEW t \in Tasks,
             \/ Open(t) \/ Release(t) \/ Call(t) \/ Interrupt(t)
             \/ RaisePs(t) \/ SetEarInject(t) \/ ClearEarInject(t)
      PROVE  sem' + Cardinality(Holders') = SemInit
  <2>1. Holders' = Holders /\ sem' = sem
    BY <1>0, <1>3
    DEF Open, Release, Call, Interrupt, RaisePs, SetEarInject, ClearEarInject,
        Goto, Holders, Holds
  <2> QED
    BY <1>0, <2>1
<1>4. CASE UNCHANGED <<pc, sem>>
  <2>1. Holders' = Holders /\ sem' = sem
    BY <1>4 DEF Holders, Holds
  <2> QED
    BY <1>0, <2>1
<1>5. ASSUME NEW s \in Senders, SendNext(s)
      PROVE  UNCHANGED <<pc, sem>>
  BY <1>5 DEF SendNext, Transfer, AttemptFails, otherThanSender, taskVars
<1>6. CASE WorkerNext
  BY <1>4, <1>6
  DEF WorkerNext, StartInit, StartSure, ReleaseReset, ChooseTable, EndWork,
      otherThanWorker, taskVars
<1>7. CASE PMNext
  BY <1>4, <1>7
  DEF PMNext, SuspendNext, Freeze, FreezeAborted, AllFrozen, SuspendPins,
      CancelSure, SureCancelled, FlushQueue, Resume, Thaw, otherThanPM, taskVars
<1>8. CASE UNCHANGED vars
  BY <1>4, <1>8 DEF vars, taskVars
<1> QED
  BY <1>1, <1>2, <1>3, <1>4, <1>5, <1>6, <1>7, <1>8
  DEF Next, TaskNext, TaskProceeds

-----------------------------------------------------------------------------
(***************************************************************************)
(* Type correctness.                                                       *)
(***************************************************************************)

\* A sender between tables starts the next one at its first word.
IdleWords == \A s \in Senders : cmd[s] = "idle" => word[s] = 0

LEMMA InitType == Init => TypeOK /\ SemAccounting /\ IdleWords
<1> SUFFICES ASSUME Init PROVE TypeOK /\ SemAccounting /\ IdleWords
  OBVIOUS
<1>1. Queue!QueueTypeOK
  BY DEF Init, Queue!QueueTypeOK
<1>2. TypeOK
  <2>1. /\ cmd \in [Senders -> Tables \cup {"idle"}]
        /\ word \in [Senders -> Positions]
        /\ retry \in [Senders -> 1..Attempts]
        /\ \A s \in Senders : cmd[s] = "idle"
    BY PositionsIs DEF Init, Attempts
  <2>2. chip \in ChipSet
    BY DEF Init, ChipInReset, ChipSet
  <2>3. /\ pc \in [Tasks -> {"closed", "open", "down", "send", "flag", "up"}]
        /\ op \in [Tasks -> Calls \cup {"none"}]
        /\ sem \in 0..SemInit
    BY NpcaAssumption DEF Init, NpcaAssumption
  <2> QED
    BY <1>1, <2>1, <2>2, <2>3 DEF Init, TypeOK
<1>3. SemAccounting
  <2>1. {t \in Tasks : Holds(t)} = {}
    BY DEF Init, Holds
  <2> QED
    BY <2>1, FS_EmptySet, NpcaAssumption DEF Init, SemAccounting, NpcaAssumption
<1> QED
  BY <1>2, <1>3 DEF Init, IdleWords

\* The sends: what every change of cmd and word keeps.
SendType ==
  /\ cmd \in [Senders -> Tables \cup {"idle"}]
  /\ word \in [Senders -> Positions]
  /\ retry \in [Senders -> 1..Attempts]
  /\ \A s \in Senders : cmd[s] # "idle" => word[s] < Len(Words(cmd[s]))
  /\ IdleWords

LEMMA StartSendType ==
  ASSUME SendType, NEW s \in Senders, cmd[s] = "idle", NEW table \in Tables,
         StartSendCmd(s, table)
  PROVE  SendType'
<1>1. Len(Words(table)) \in 1..12
  BY TableType
<1>2. word[s] = 0 /\ word' = word /\ retry' = retry
  BY DEF SendType, IdleWords, StartSendCmd
<1>3. cmd' = [cmd EXCEPT ![s] = table] /\ table # "idle"
  BY DEF StartSendCmd, Tables
<1>4. /\ cmd' \in [Senders -> Tables \cup {"idle"}]
      /\ word' \in [Senders -> Positions]
      /\ retry' \in [Senders -> 1..Attempts]
  BY <1>2, <1>3 DEF SendType, Attempts
<1>5. ASSUME NEW u \in Senders, cmd'[u] # "idle"
      PROVE  word'[u] < Len(Words(cmd'[u]))
  <2>1. CASE u = s
    <3>1. cmd'[u] = table /\ word'[u] = 0
      BY <1>2, <1>3, <2>1 DEF SendType
    <3> DEFINE len == Len(Words(table))
    <3>2. len \in 1..12 /\ Len(Words(cmd'[u])) = len
      BY <1>1, <3>1
    <3> HIDE DEF len
    <3> QED
      BY ONLY <3>1, <3>2
  <2>2. CASE u # s
    <3>1. cmd'[u] = cmd[u] /\ word'[u] = word[u]
      BY <1>2, <1>3, <2>2 DEF SendType
    <3> QED
      BY <1>5, <3>1 DEF SendType
  <2> QED
    BY <2>1, <2>2
<1>6. ASSUME NEW u \in Senders, cmd'[u] = "idle"
      PROVE  word'[u] = 0
  BY <1>2, <1>3, <1>6 DEF SendType, IdleWords
<1> QED
  BY <1>4, <1>5, <1>6 DEF SendType, IdleWords

\* The next word of the table is a word.
LEMMA NextWordType ==
  ASSUME SendType, NEW s \in Senders, cmd[s] # "idle"
  PROVE  /\ cmd[s] \in Tables /\ word[s] \in 0..12
         /\ Len(Words(cmd[s])) \in 1..12 /\ word[s] < Len(Words(cmd[s]))
         /\ NextWord(s) \in WordSet
<1>1. cmd[s] \in Tables /\ word[s] \in 0..12 /\ word[s] < Len(Words(cmd[s]))
  BY PositionsIs DEF SendType
<1>2. Len(Words(cmd[s])) \in 1..12
  BY <1>1, TableType
<1>3. word[s] + 1 \in 1..Len(Words(cmd[s]))
  BY SMTT(30), <1>1, <1>2
<1> QED
  BY <1>1, <1>2, <1>3, TableType DEF NextWord

\* An acknowledged attempt: the table goes on, or it ends and the sender is
\* idle again.
LEMMA TransferType ==
  ASSUME SendType, chip \in ChipSet, NEW s \in Senders, Transfer(s)
  PROVE  SendType' /\ chip' \in ChipSet
<1>1. cmd[s] # "idle"
  BY DEF Transfer
<1>2. retry' \in [Senders -> 1..Attempts]
  BY DEF Transfer, Advance, SendType, Attempts
<1>4. chip' \in ChipSet
  BY <1>1, NextWordType, ChipAfterType DEF Transfer
<1>5. CASE word[s] + 1 = Len(Words(cmd[s]))
  <2>1. cmd' = [cmd EXCEPT ![s] = "idle"] /\ word' = [word EXCEPT ![s] = 0]
    BY <1>5 DEF Transfer, Advance
  <2> QED
    BY <1>2, <1>4, <2>1, PositionsIs DEF SendType, IdleWords
<1>6. CASE word[s] + 1 # Len(Words(cmd[s]))
  <2>1. cmd' = cmd /\ word' = [word EXCEPT ![s] = word[s] + 1]
    BY <1>6 DEF Transfer, Advance
  <2>2. word[s] + 1 \in 0..12 /\ word[s] + 1 < Len(Words(cmd[s]))
    <3> DEFINE len == Len(Words(cmd[s]))
               k == word[s]
    <3>1. len \in 1..12 /\ k \in 0..12 /\ k < len /\ k + 1 # len
      BY <1>1, <1>6, NextWordType
    <3> HIDE DEF len, k
    <3>2. k + 1 \in 0..12 /\ k + 1 < len
      BY ONLY <3>1
    <3> QED
      BY <3>2 DEF len, k
  <2>3. word' \in [Senders -> Positions]
    BY <2>1, <2>2, PositionsIs DEF SendType
  <2>4. ASSUME NEW u \in Senders, cmd'[u] # "idle"
        PROVE  word'[u] < Len(Words(cmd'[u]))
    BY <2>1, <2>2, <2>4 DEF SendType
  <2>5. ASSUME NEW u \in Senders, cmd'[u] = "idle"
        PROVE  word'[u] = 0
    BY <1>1, <2>1, <2>5 DEF SendType, IdleWords
  <2> QED
    BY <1>2, <1>4, <2>1, <2>3, <2>4, <2>5 DEF SendType, IdleWords
<1> QED
  BY <1>5, <1>6

\* An attempt that fails: the word is tried again, or the table is given up.
LEMMA AttemptFailsType ==
  ASSUME SendType, chip \in ChipSet, NEW s \in Senders, AttemptFails(s)
  PROVE  SendType' /\ chip' \in ChipSet
<1>1. chip' \in ChipSet
  <2>1. cmd[s] # "idle" /\ (chip' = chip \/ chip' = ChipAfter(chip, NextWord(s)))
    BY DEF AttemptFails
  <2> QED
    BY <2>1, NextWordType, ChipAfterType
<1>2. CASE retry[s] > 1
  <2>1. UNCHANGED <<cmd, word>> /\ retry' \in [Senders -> 1..Attempts]
    BY <1>2 DEF AttemptFails, SendType, Attempts
  <2> QED
    BY <1>1, <2>1 DEF SendType, IdleWords
<1>3. CASE ~(retry[s] > 1)
  <2>1. /\ cmd' = [cmd EXCEPT ![s] = "idle"]
        /\ word' = [word EXCEPT ![s] = 0]
        /\ retry' = [retry EXCEPT ![s] = Attempts]
    BY <1>3 DEF AttemptFails, GiveUp
  <2>2. retry' \in [Senders -> 1..Attempts]
    BY <2>1 DEF SendType, Attempts
  <2> QED
    BY <1>1, <2>1, <2>2, PositionsIs DEF SendType, IdleWords
<1> QED
  BY <1>2, <1>3

-----------------------------------------------------------------------------
(***************************************************************************)
(* The inductive invariant: which combinations of control states occur.    *)
(***************************************************************************)

\* A task sends the table of its call, and only between Down and the flag.
TaskShape ==
  \A t \in Tasks :
    /\ pc[t] \in {"send", "flag"} => op[t] \in Switching
    /\ pc[t] = "flag" => op[t] = "AUX1_TO_AUX2"
    /\ cmd[t] # "idle" => pc[t] = "send" /\ cmd[t] = TableOf(op[t])

\* The worker sends only at the end of an item, and the reset pin is low only
\* at the start of a restore.
WorkerShape ==
  /\ wpc = "idle" <=> running = "none"
  /\ cmd[Worker] # "idle" => wpc = "send"
  /\ rs = 0 <=> wpc = "low"
  /\ wpc \in {"low", "choose"} => running = "sure"

\* From AllFrozen to Thaw no task is inside a call; the restore work is gone
\* once it is cancelled, everything else once the queue is flushed.
PMShape ==
  /\ pm \notin {"on", "freezing"} => \A t \in Tasks : ~InKernel(t)
  /\ pm \in {"cancelled", "flush", "suspended"} => ~Queue!IsPending("sure")
  /\ pm \in {"flush", "suspended"} => running # "sure"
  /\ pm = "suspended" => pending = <<>> /\ running = "none"

\* InjectPower, one step ahead: ps_pin is up before the flag is set.
PowerShape ==
  /\ InjectPower
  /\ \A t \in Tasks : pc[t] = "flag" => ps = 1

Safe ==
  /\ TypeOK
  /\ SemAccounting
  /\ IdleWords
  /\ TaskShape
  /\ WorkerShape
  /\ PMShape
  /\ PowerShape

LEMMA InitSafe == Init => Safe
<1> SUFFICES ASSUME Init PROVE Safe
  OBVIOUS
<1>1. TypeOK /\ SemAccounting /\ IdleWords
  BY InitType
<1>2. TaskShape /\ WorkerShape /\ PMShape /\ PowerShape
  BY DEF Init, TaskShape, WorkerShape, PMShape, PowerShape, InjectPower, Senders
<1> QED
  BY <1>1, <1>2 DEF Safe

\* TypeOK and IdleWords, the two that are about the values of the variables.
LEMMA TypeStep ==
  ASSUME Safe, [Next]_vars
  PROVE  TypeOK' /\ IdleWords'
<1> DEFINE TaskType ==
      /\ pc \in [Tasks -> {"closed", "open", "down", "send", "flag", "up"}]
      /\ op \in [Tasks -> Calls \cup {"none"}]
      /\ sem \in Nat
    PinType ==
      /\ earInject \in BOOLEAN
      /\ ps \in {0, 1} /\ pa \in {0, 1} /\ rs \in {0, 1}
    RestType ==
      /\ wpc \in {"idle", "low", "choose", "send"}
      /\ pm \in {"on", "freezing", "frozen", "cancel", "cancelled", "flush",
                 "suspended", "resumed"}
      /\ solo \in BOOLEAN
    Type == /\ TaskType /\ PinType /\ SendType /\ Queue!QueueTypeOK
            /\ RestType /\ chip \in ChipSet
<1>0. Type /\ SemAccounting /\ SemInit \in Nat
  BY NpcaAssumption DEF Safe, TypeOK, SendType, NpcaAssumption
<1>S. SUFFICES Type'
  <2>1. Cardinality(Holders') \in Nat
    BY HoldersFinite
  <2>2. Type' => sem' \in 0..SemInit
    <3>1. sem' + Cardinality(Holders') = SemInit
      BY SemStep DEF Safe, SemAccounting, Holders
    <3> DEFINE n == Cardinality(Holders')
    <3>2. /\ n \in Nat /\ SemInit \in Nat /\ sem' + n = SemInit
          /\ Type' => sem' \in Nat
      BY <1>0, <2>1, <3>1
    <3> HIDE DEF n, Type
    <3> QED
      BY ONLY <3>2
  <2> QED
    BY <2>2 DEF TypeOK, SendType
<1>U. ASSUME UNCHANGED <<pending, running>>
      PROVE  Queue!QueueTypeOK'
  BY <1>0, <1>U, QueueUntouched
<1>1. ASSUME NEW t \in Tasks, TaskNext(t)
      PROVE  Type'
  <2>1. CASE \/ Open(t) \/ Release(t) \/ Call(t) \/ Interrupt(t)
             \/ RaisePs(t) \/ SetEarInject(t) \/ ClearEarInject(t) \/ Up(t)
    <3>1. UNCHANGED <<sendVars, workVars, pm, chip, solo>>
      BY <2>1
      DEF Open, Release, Call, Interrupt, RaisePs, SetEarInject,
          ClearEarInject, Up, otherThanTask
    <3>2. TaskType'
      BY <1>0, <2>1
      DEF Open, Release, Call, Interrupt, RaisePs, SetEarInject,
          ClearEarInject, Up, Goto, otherThanTask
    <3>3. PinType'
      BY <1>0, <2>1
      DEF Open, Release, Call, Interrupt, RaisePs, SetEarInject,
          ClearEarInject, Up, otherThanTask, pinVars
    <3> QED
      BY <1>0, <1>U, <3>1, <3>2, <3>3 DEF sendVars, workVars, SendType, IdleWords
  <2>2. CASE Down(t)
    <3>0. solo' \in BOOLEAN
      BY <1>0, <2>2 DEF Down, Begin
    <3>1. TaskType' /\ PinType' /\ RestType'
      BY <1>0, <2>2, <3>0 DEF Down, Goto, pinVars, workVars
    <3>2. SendType'
      <4>1. CASE op[t] \in Switching
        <5>1. cmd[t] = "idle" /\ t \in Senders
          BY <2>2, <4>1 DEF Down, Goto, Safe, TaskShape, Senders
        <5>2. TableOf(op[t]) \in Tables
          BY DEF TableOf, Tables
        <5>3. StartSendCmd(t, TableOf(op[t]))
          BY <2>2, <4>1 DEF Down
        <5> QED
          BY <1>0, <5>1, <5>2, <5>3, StartSendType
      <4>2. CASE op[t] \notin Switching
        BY <1>0, <2>2, <4>2 DEF Down, sendVars, SendType, IdleWords
      <4> QED
        BY <4>1, <4>2
    <3> QED
      BY <1>0, <1>U, <2>2, <3>1, <3>2 DEF Down, workVars
  <2> QED
    BY <1>1, <2>1, <2>2 DEF TaskNext, TaskProceeds
<1>2. ASSUME NEW s \in Senders, SendNext(s)
      PROVE  Type'
  <2>1. CASE Transfer(s)
    <3>1. SendType' /\ chip' \in ChipSet
      BY <1>0, <2>1, TransferType
    <3> QED
      BY <1>0, <1>U, <2>1, <3>1 DEF Transfer, otherThanSender, taskVars, pinVars, workVars
  <2>2. CASE AttemptFails(s)
    <3>1. SendType' /\ chip' \in ChipSet
      BY <1>0, <2>2, AttemptFailsType
    <3>2. solo' \in BOOLEAN
      BY <1>0, <2>2 DEF AttemptFails
    <3> QED
      BY <1>0, <1>U, <2>2, <3>1, <3>2
      DEF AttemptFails, otherThanSender, taskVars, pinVars, workVars
  <2> QED
    BY <1>2, <2>1, <2>2 DEF SendNext
<1>3. CASE WorkerNext
  <2>0. /\ Worker \in Senders
        /\ cmd[Worker] # "idle" => wpc = "send"
        /\ wpc = "idle" <=> running = "none"
    BY DEF Senders, Safe, WorkerShape
  <2>1. TaskType' /\ pm' = pm /\ UNCHANGED <<earInject, ps, pa>>
    BY <1>0, <1>3
    DEF WorkerNext, StartInit, StartSure, ReleaseReset, ChooseTable, EndWork,
        otherThanWorker, taskVars
  <2>2. CASE StartInit
    <3>1. cmd[Worker] = "idle" /\ Queue!QueueTypeOK'
      BY <1>0, <2>0, <2>2, StartItem DEF StartInit
    <3>2. SendType'
      BY <1>0, <2>0, <2>2, <3>1, StartSendType DEF StartInit, Tables
    <3> QED
      BY <1>0, <2>1, <2>2, <3>1, <3>2 DEF StartInit
  <2>3. CASE StartSure
    <3>1. Queue!QueueTypeOK'
      BY <1>0, <2>3, StartItem DEF StartSure
    <3>2. chip' \in ChipSet
      BY <2>3 DEF StartSure, ChipInReset, ChipSet
    <3> QED
      BY <1>0, <2>1, <2>3, <3>1, <3>2
      DEF StartSure, sendVars, SendType, IdleWords, Begin
  <2>4. CASE ReleaseReset
    BY <1>0, <1>U, <2>1, <2>4 DEF ReleaseReset, sendVars, SendType, IdleWords
  <2>5. CASE ChooseTable
    <3>1. cmd[Worker] = "idle"
      BY <2>0, <2>5 DEF ChooseTable
    <3>2. PICK table \in Tables : StartSendCmd(Worker, table)
      BY <2>5 DEF ChooseTable, Tables
    <3>3. SendType'
      BY <1>0, <2>0, <3>1, <3>2, StartSendType
    <3> QED
      BY <1>0, <1>U, <2>1, <2>5, <3>3 DEF ChooseTable
  <2>6. CASE EndWork
    <3>1. Queue!QueueTypeOK'
      BY <1>0, <2>6, EndItem DEF EndWork
    <3> QED
      BY <1>0, <2>1, <2>6, <3>1 DEF EndWork, sendVars, SendType, IdleWords
  <2> QED
    BY <1>3, <2>2, <2>3, <2>4, <2>5, <2>6 DEF WorkerNext
<1>4. CASE PMNext
  <2>1. /\ UNCHANGED <<taskVars, earInject, rs, sendVars, wpc, chip, solo>>
        /\ running' = running
    BY <1>4
    DEF PMNext, SuspendNext, Freeze, FreezeAborted, AllFrozen, SuspendPins,
        CancelSure, SureCancelled, FlushQueue, Resume, Thaw, otherThanPM
  <2>2. PinType' /\ RestType'
    BY <1>0, <1>4, <2>1
    DEF PMNext, SuspendNext, Freeze, FreezeAborted, AllFrozen, SuspendPins,
        CancelSure, SureCancelled, FlushQueue, Resume, Thaw, PMGoto
  <2>3. Queue!QueueTypeOK'
    <3>1. CASE CancelSure
      BY <1>0, <2>1, <3>1, CancelItem DEF CancelSure
    <3>2. CASE Resume
      BY <1>0, <2>1, <3>2, QueueItem DEF Resume
    <3>3. CASE UNCHANGED pending
      BY <1>U, <2>1, <3>3
    <3> QED
      BY <1>4, <3>1, <3>2, <3>3
      DEF PMNext, SuspendNext, Freeze, FreezeAborted, AllFrozen, SuspendPins,
          SureCancelled, FlushQueue, Thaw
  <2> QED
    BY <1>0, <2>1, <2>2, <2>3 DEF taskVars, sendVars, SendType, IdleWords
<1>5. CASE UNCHANGED vars
  BY <1>0, <1>U, <1>5
  DEF vars, taskVars, pinVars, sendVars, workVars, SendType, IdleWords
<1> QED
  BY <1>1, <1>2, <1>3, <1>4, <1>5 DEF Next

\* What Safe says of the types the following lemmas need.
LEMMA SafeTypes ==
  ASSUME Safe
  PROVE  /\ pc \in [Tasks -> {"closed", "open", "down", "send", "flag", "up"}]
         /\ op \in [Tasks -> Calls \cup {"none"}]
         /\ cmd \in [Senders -> Tables \cup {"idle"}]
         /\ Queue!QueueTypeOK
         /\ Tasks \subseteq Senders /\ Worker \in Senders /\ Worker \notin Tasks
         /\ earInject \in BOOLEAN /\ ps \in {0, 1} /\ pa \in {0, 1}
         /\ rs \in {0, 1}
BY WorkerAssumption DEF Safe, TypeOK, Senders, WorkerAssumption

\* What the steps of each actor leave alone.
LEMMA TaskFrame ==
  ASSUME NEW t \in Tasks, TaskNext(t)
  PROVE  UNCHANGED <<pa, rs, workVars, pm, chip>>
BY DEF TaskNext, TaskProceeds, Open, Release, Call, Down, Interrupt, RaisePs,
       SetEarInject, ClearEarInject, Up, otherThanTask, pinVars

LEMMA SendFrame ==
  ASSUME NEW s \in Senders, SendNext(s)
  PROVE  UNCHANGED <<taskVars, earInject, pinVars, workVars, pm>>
BY DEF SendNext, Transfer, AttemptFails, otherThanSender

LEMMA WorkerFrame ==
  ASSUME WorkerNext
  PROVE  UNCHANGED <<taskVars, earInject, ps, pa, pm>>
BY DEF WorkerNext, StartInit, StartSure, ReleaseReset, ChooseTable, EndWork,
       otherThanWorker

LEMMA PMFrame ==
  ASSUME PMNext
  PROVE  UNCHANGED <<taskVars, earInject, rs, sendVars, running, wpc, chip, solo>>
BY DEF PMNext, SuspendNext, Freeze, FreezeAborted, AllFrozen, SuspendPins,
       CancelSure, SureCancelled, FlushQueue, Resume, Thaw, otherThanPM

LEMMA TaskShapeStep ==
  ASSUME Safe, [Next]_vars
  PROVE  TaskShape'
<1>0. TaskShape
  BY DEF Safe
<1>1. ASSUME NEW t \in Tasks, TaskNext(t)
      PROVE  TaskShape'
  <2> SUFFICES ASSUME NEW u \in Tasks
               PROVE  /\ pc'[u] \in {"send", "flag"} => op'[u] \in Switching
                      /\ pc'[u] = "flag" => op'[u] = "AUX1_TO_AUX2"
                      /\ cmd'[u] # "idle" => pc'[u] = "send" /\ cmd'[u] = TableOf(op'[u])
    BY DEF TaskShape
  <2>1. CASE u = t
    BY <1>0, <1>1, <2>1, SafeTypes
    DEF TaskShape, TaskNext, TaskProceeds, Open, Release, Call, Down, Interrupt,
        RaisePs, SetEarInject, ClearEarInject, Up, Goto, StartSendCmd,
        otherThanTask, sendVars, Switching
  <2>2. CASE u # t
    <3>1. pc'[u] = pc[u] /\ op'[u] = op[u] /\ cmd'[u] = cmd[u]
      BY <1>1, <2>2, SafeTypes
      DEF TaskNext, TaskProceeds, Open, Release, Call, Down, Interrupt,
          RaisePs, SetEarInject, ClearEarInject, Up, Goto, StartSendCmd,
          otherThanTask, sendVars
    <3> QED
      BY <1>0, <3>1 DEF TaskShape
  <2> QED
    BY <2>1, <2>2
<1>2. ASSUME NEW s \in Senders, SendNext(s)
      PROVE  TaskShape'
  <2>1. \A u \in Senders : cmd'[u] # "idle" => cmd'[u] = cmd[u]
    BY <1>2, SafeTypes DEF SendNext, Transfer, AttemptFails, Advance, GiveUp
  <2> QED
    BY <1>0, <1>2, <2>1, SendFrame, SafeTypes DEF TaskShape, taskVars
<1>3. CASE WorkerNext
  <2>1. \A u \in Tasks : cmd'[u] = cmd[u]
    BY <1>3, SafeTypes
    DEF WorkerNext, StartInit, StartSure, ReleaseReset, ChooseTable, EndWork,
        StartSendCmd, sendVars
  <2> QED
    BY <1>0, <1>3, <2>1, WorkerFrame DEF TaskShape, taskVars
<1>4. CASE PMNext
  BY <1>0, <1>4, PMFrame DEF TaskShape, taskVars, sendVars
<1>5. CASE UNCHANGED vars
  BY <1>0, <1>5 DEF vars, TaskShape, taskVars, sendVars
<1> QED
  BY <1>1, <1>2, <1>3, <1>4, <1>5 DEF Next

LEMMA WorkerShapeStep ==
  ASSUME Safe, [Next]_vars
  PROVE  WorkerShape'
<1>0. WorkerShape
  BY DEF Safe
<1>1. ASSUME NEW t \in Tasks, TaskNext(t)
      PROVE  WorkerShape'
  <2>1. cmd'[Worker] = cmd[Worker]
    BY <1>1, SafeTypes
    DEF TaskNext, TaskProceeds, Open, Release, Call, Down, Interrupt, RaisePs,
        SetEarInject, ClearEarInject, Up, StartSendCmd, otherThanTask, sendVars
  <2> QED
    BY <1>0, <1>1, <2>1, TaskFrame DEF WorkerShape, workVars
<1>2. ASSUME NEW s \in Senders, SendNext(s)
      PROVE  WorkerShape'
  <2>1. cmd'[Worker] # "idle" => cmd[Worker] # "idle"
    BY <1>2, SafeTypes DEF SendNext, Transfer, AttemptFails, Advance, GiveUp
  <2> QED
    BY <1>0, <1>2, <2>1, SendFrame DEF WorkerShape, workVars, pinVars
<1>3. CASE WorkerNext
  <2>1. CASE StartInit
    BY <1>0, <2>1, StartItem, SafeTypes DEF WorkerShape, StartInit
  <2>2. CASE StartSure
    BY <1>0, <2>2, StartItem, SafeTypes DEF WorkerShape, StartSure, sendVars
  <2>3. CASE ReleaseReset
    BY <1>0, <2>3 DEF WorkerShape, ReleaseReset, sendVars
  <2>4. CASE ChooseTable
    BY <1>0, <2>4 DEF WorkerShape, ChooseTable
  <2>5. CASE EndWork
    BY <1>0, <2>5, EndItem, SafeTypes DEF WorkerShape, EndWork, sendVars
  <2> QED
    BY <1>3, <2>1, <2>2, <2>3, <2>4, <2>5 DEF WorkerNext
<1>4. CASE PMNext
  BY <1>0, <1>4, PMFrame DEF WorkerShape, sendVars
<1>5. CASE UNCHANGED vars
  BY <1>0, <1>5 DEF vars, WorkerShape, sendVars, workVars, pinVars
<1> QED
  BY <1>1, <1>2, <1>3, <1>4, <1>5 DEF Next

LEMMA PMShapeStep ==
  ASSUME Safe, [Next]_vars
  PROVE  PMShape'
<1>0. PMShape
  BY DEF Safe
<1>1. ASSUME NEW t \in Tasks, TaskNext(t)
      PROVE  PMShape'
  <2>1. pm \in {"on", "freezing"}
    BY <1>0, <1>1
    DEF PMShape, InKernel, Holds, TaskNext, TaskProceeds, Open, Release, Call,
        Down, Interrupt, RaisePs, SetEarInject, ClearEarInject, Up, Goto
  <2> QED
    BY <1>1, <2>1, TaskFrame DEF PMShape
<1>2. ASSUME NEW s \in Senders, SendNext(s)
      PROVE  PMShape'
  <2>1. UNCHANGED <<pc, pending, running, pm>>
    BY <1>2, SendFrame DEF taskVars, workVars
  <2> QED
    BY <1>0, <2>1, SafeTypes, QueueUntouched DEF PMShape, InKernel, Holds
<1>3. CASE WorkerNext
  <2>1. UNCHANGED <<pc, pm>>
    BY <1>3, WorkerFrame DEF taskVars
  <2>2. CASE StartInit
    BY <1>0, <2>1, <2>2, StartItem, SafeTypes
    DEF PMShape, InKernel, Holds, StartInit
  <2>3. CASE StartSure
    <3>1. Queue!IsPending("sure") /\ running' = "sure" /\ pending # <<>>
      BY <2>3, SafeTypes, StartItem, HeadTailProperties, EmptySeq, LenProperties
      DEF StartSure, Queue!StartWork, Queue!IsPending, Queue!QueueTypeOK
    <3> QED
      BY <1>0, <2>1, <3>1 DEF PMShape, InKernel, Holds
  <2>4. CASE ReleaseReset \/ ChooseTable
    <3>1. UNCHANGED <<pending, running>>
      BY <2>4 DEF ReleaseReset, ChooseTable
    <3> QED
      BY <1>0, <2>1, <3>1, SafeTypes, QueueUntouched DEF PMShape, InKernel, Holds
  <2>5. CASE EndWork
    BY <1>0, <2>1, <2>5, EndItem, SafeTypes
    DEF PMShape, InKernel, Holds, EndWork, Queue!FinishWork
  <2> QED
    BY <1>3, <2>2, <2>3, <2>4, <2>5 DEF WorkerNext
<1>4. CASE PMNext
  <2>1. UNCHANGED <<pc, running>>
    BY <1>4, PMFrame DEF taskVars
  <2>2. CASE Freeze \/ FreezeAborted \/ Thaw
    BY <2>1, <2>2 DEF PMShape, Freeze, FreezeAborted, Thaw, PMGoto
  <2>3. CASE AllFrozen
    BY <2>1, <2>3 DEF PMShape, AllFrozen, PMGoto, InKernel, Holds
  <2>4. CASE SuspendPins
    BY <1>0, <2>1, <2>4 DEF PMShape, SuspendPins, PMGoto, InKernel, Holds
  <2>5. CASE CancelSure
    BY <1>0, <2>1, <2>5, CancelItem, SafeTypes
    DEF PMShape, CancelSure, PMGoto, InKernel, Holds
  <2>6. CASE SureCancelled
    BY <1>0, <2>1, <2>6, QueueUntouched, SafeTypes
    DEF PMShape, SureCancelled, PMGoto, InKernel, Holds, Queue!NotExecuting
  <2>7. CASE FlushQueue
    BY <1>0, <2>1, <2>7, QueueUntouched, SafeTypes
    DEF PMShape, FlushQueue, PMGoto, InKernel, Holds, Queue!Flushed
  <2>8. CASE Resume
    BY <1>0, <2>1, <2>8 DEF PMShape, Resume, PMGoto, InKernel, Holds
  <2> QED
    BY <1>4, <2>2, <2>3, <2>4, <2>5, <2>6, <2>7, <2>8 DEF PMNext, SuspendNext
<1>5. CASE UNCHANGED vars
  BY <1>0, <1>5, QueueUntouched, SafeTypes
  DEF vars, taskVars, workVars, PMShape, InKernel, Holds
<1> QED
  BY <1>1, <1>2, <1>3, <1>4, <1>5 DEF Next

LEMMA PowerShapeStep ==
  ASSUME Safe, [Next]_vars
  PROVE  PowerShape'
<1>0. PowerShape /\ PMShape
  BY DEF Safe
<1>1. ASSUME NEW t \in Tasks, TaskNext(t)
      PROVE  PowerShape'
  <2>1. pm \in {"on", "freezing"} /\ pm' = pm
    BY <1>0, <1>1, TaskFrame
    DEF PMShape, InKernel, Holds, TaskNext, TaskProceeds, Open, Release, Call,
        Down, Interrupt, RaisePs, SetEarInject, ClearEarInject, Up, Goto
  <2>2. CASE RaisePs(t)
    BY <1>0, <2>1, <2>2 DEF PowerShape, InjectPower, RaisePs
  <2>3. CASE SetEarInject(t)
    BY <1>0, <2>1, <2>3, SafeTypes
    DEF PowerShape, InjectPower, SetEarInject, Goto, pinVars
  <2>4. CASE ClearEarInject(t)
    BY <1>0, <2>1, <2>4, SafeTypes
    DEF PowerShape, InjectPower, ClearEarInject, Goto, pinVars
  <2>5. CASE Open(t) \/ Release(t) \/ Call(t) \/ Down(t) \/ Interrupt(t) \/ Up(t)
    BY <1>0, <2>1, <2>5, SafeTypes
    DEF PowerShape, InjectPower, Open, Release, Call, Down, Interrupt, Up,
        Goto, otherThanTask, pinVars
  <2> QED
    BY <1>1, <2>2, <2>3, <2>4, <2>5 DEF TaskNext, TaskProceeds
<1>2. ASSUME NEW s \in Senders, SendNext(s)
      PROVE  PowerShape'
  BY <1>0, <1>2, SendFrame DEF PowerShape, InjectPower, taskVars, pinVars
<1>3. CASE WorkerNext
  BY <1>0, <1>3, WorkerFrame DEF PowerShape, InjectPower, taskVars
<1>4. CASE PMNext
  <2>1. UNCHANGED <<pc, earInject>>
    BY <1>4, PMFrame DEF taskVars
  <2>2. CASE SuspendPins
    BY <1>0, <2>1, <2>2 DEF PowerShape, InjectPower, SuspendPins, PMGoto
  <2>3. CASE ~SuspendPins
    BY <1>0, <1>4, <2>1, <2>3
    DEF PowerShape, InjectPower, PMNext, SuspendNext, Freeze, FreezeAborted,
        AllFrozen, CancelSure, SureCancelled, FlushQueue, Resume, Thaw, PMGoto
  <2> QED
    BY <2>2, <2>3
<1>5. CASE UNCHANGED vars
  BY <1>0, <1>5 DEF vars, taskVars, pinVars, PowerShape, InjectPower
<1> QED
  BY <1>1, <1>2, <1>3, <1>4, <1>5 DEF Next

LEMMA SafeStep == Safe /\ [Next]_vars => Safe'
BY SemStep, TypeStep, TaskShapeStep, WorkerShapeStep, PMShapeStep, PowerShapeStep
DEF Safe

LEMMA SafeAlways == Spec => []Safe
BY InitSafe, SafeStep, PTL DEF Spec

\* Every variable holds a value of its kind, however many tasks there are.
THEOREM TypeCorrect == Spec => []TypeOK
<1>1. Safe => TypeOK
  BY DEF Safe
<1> QED
  BY <1>1, SafeAlways, PTL

\* No path through the file operations loses a permit of dev->sem or makes one
\* up.
THEOREM PermitsConserved == Spec => []SemAccounting
<1>1. Safe => SemAccounting
  BY DEF Safe
<1> QED
  BY <1>1, SafeAlways, PTL

\* The flag never says injected while ps_pin is down, nor across a sleep while
\* pa_pin is down.
THEOREM InjectedIsPowered == Spec => []InjectPower
<1>1. Safe => InjectPower
  BY DEF Safe, PowerShape
<1> QED
  BY <1>1, SafeAlways, PTL

\* Nothing is half-done when npca110_suspend has returned.
THEOREM SuspendIsQuiet == Spec => []QuietWhenSuspended
<1>1. ASSUME Safe, pm = "suspended"
      PROVE  /\ Idle
             /\ pending = <<>>
             /\ rs = 1
             /\ \A s \in Senders : cmd[s] = "idle"
             /\ sem = SemInit
  <2>1. /\ pending = <<>> /\ running = "none"
        /\ \A t \in Tasks : ~InKernel(t)
    BY <1>1 DEF Safe, PMShape
  <2>2. Idle
    BY <2>1 DEF Idle, Active, InKernel, Holds, Senders
  <2>3. rs = 1
    BY <1>1, <2>1, SafeTypes DEF Safe, WorkerShape
  <2>4. \A s \in Senders : cmd[s] = "idle"
    BY <1>1, <2>1 DEF Safe, WorkerShape, TaskShape, InKernel, Holds, Senders
  <2>5. sem = SemInit
    <3>1. {t \in Tasks : Holds(t)} = {}
      BY <2>1 DEF InKernel
    <3>2. sem + Cardinality({t \in Tasks : Holds(t)}) = SemInit /\ sem \in 0..SemInit
      BY <1>1 DEF Safe, SemAccounting, TypeOK
    <3>3. Cardinality({t \in Tasks : Holds(t)}) = 0
      BY <3>1, FS_EmptySet
    <3> QED
      BY <3>2, <3>3, NpcaAssumption DEF NpcaAssumption
  <2> QED
    BY <2>1, <2>2, <2>3, <2>4, <2>5
<1>2. Safe => QuietWhenSuspended
  BY <1>1 DEF QuietWhenSuspended
<1> QED
  BY <1>2, SafeAlways, PTL

-----------------------------------------------------------------------------
(***************************************************************************)
(* RouteMatchesFlag.  While solo holds, one sender at most is at work, and *)
(* the codec is exactly where the words that sender has written take it.   *)
(***************************************************************************)

\* The codec after the first k words of the ADC table for line.
Sent(c, k, line) ==
  /\ c.expect = IF k = 1 THEN "AdcInput"
                ELSE IF k \in {3, 5, 7} THEN "CodecLatch" ELSE "index"
  /\ k >= 2 => c.adc = line
  /\ k >= 6 => c.route = line

\* A sender that is at work but idle has written the whole table.
Progress(s) == IF cmd[s] = "idle" THEN 8 ELSE word[s]

LineOf(call) == IF call = "AUX1_TO_AUX2" THEN "LIN2" ELSE "LIN1"

SoloShape ==
  solo =>
    /\ \A s, u \in Senders : Active(s) /\ Active(u) => s = u
    /\ Idle => Sent(chip, 8, InputOf(earInject))
    /\ \A t \in Tasks : Active(t) => Sent(chip, Progress(t), LineOf(op[t]))
    /\ Active(Worker) =>
         /\ running = "sure"
         /\ wpc # "send" => Sent(chip, 0, InputOf(earInject))
         /\ wpc = "send" => Sent(chip, Progress(Worker), InputOf(earInject))
         /\ cmd[Worker] # "idle" =>
              cmd[Worker] = IF earInject THEN "AdcWay1to2" ELSE "AdcWay2to1"

\* The next word of the table takes the codec one step further.
LEMMA SentNext ==
  ASSUME NEW c \in ChipSet, NEW k \in 0..7, NEW line \in {"LIN1", "LIN2"},
         Sent(c, k, line)
  PROVE  Sent(ChipAfter(c, AdcWay(line)[k + 1]), k + 1, line)
<1> DEFINE w == AdcWay(line)[k + 1]
<1>1. k \in {0, 2, 4, 6} \/ k = 1 \/ k \in {3, 5, 7}
  OBVIOUS
<1>2. CASE k \in {0, 2, 4, 6}
  <2>1. /\ w.kind = "index"
        /\ w.arg = IF k = 0 THEN "AdcInput" ELSE "CodecLatch"
    BY <1>2 DEF AdcWay, Index, Data
  <2> HIDE DEF w
  <2>2. ChipAfter(c, w) = [c EXCEPT !.expect = w.arg]
    BY <1>2, <2>1 DEF ChipAfter, Sent
  <2> QED
    BY <1>2, <2>1, <2>2 DEF Sent, ChipSet, w
<1>3. CASE k = 1
  <2>1. w.kind = "data" /\ w.arg = line
    BY <1>3 DEF AdcWay, Index, Data
  <2> HIDE DEF w
  <2>2. ChipAfter(c, w) = WriteRegister(c, "AdcInput", line)
    BY <1>3, <2>1 DEF ChipAfter, Sent, Registers
  <2> QED
    BY <1>3, <2>1, <2>2 DEF Sent, ChipSet, WriteRegister, w
<1>4. CASE k \in {3, 5, 7}
  <2>1. /\ w.kind = "data"
        /\ w.arg = IF k = 5 THEN "high" ELSE "low"
    BY <1>4 DEF AdcWay, Index, Data
  <2> HIDE DEF w
  <2>2. ChipAfter(c, w) = WriteRegister(c, "CodecLatch", w.arg)
    BY <1>4, <2>1 DEF ChipAfter, Sent, Registers
  <2> QED
    BY <1>4, <2>1, <2>2 DEF Sent, ChipSet, WriteRegister, w
<1> QED
  BY <1>1, <1>2, <1>3, <1>4

\* One word of a sender that has the codec to itself.
LEMMA TransferSent ==
  ASSUME TypeOK, NEW s \in Senders, Transfer(s), NEW line \in {"LIN1", "LIN2"},
         Words(cmd[s]) = AdcWay(line), Sent(chip, Progress(s), line)
  PROVE  Sent(chip', Progress(s)', line)
<1>1. /\ cmd[s] # "idle" /\ word[s] \in 0..12 /\ chip \in ChipSet
      /\ word[s] < Len(Words(cmd[s]))
  BY PositionsIs DEF TypeOK, Transfer
<1>2. Len(Words(cmd[s])) = 8
  BY AdcWayType
<1>3. word[s] \in 0..7
  <2> DEFINE len == Len(Words(cmd[s]))
             k == word[s]
  <2>1. len = 8 /\ k \in 0..12 /\ k < len
    BY <1>1, <1>2
  <2> HIDE DEF len, k
  <2>2. k \in 0..7
    BY ONLY <2>1
  <2> QED
    BY <2>2 DEF k
<1>4. Sent(chip, word[s], line)
  BY <1>1 DEF Progress
<1>5. Sent(chip', word[s] + 1, line)
  <2>1. chip' = ChipAfter(chip, AdcWay(line)[word[s] + 1])
    BY DEF Transfer, NextWord
  <2> QED
    BY <1>1, <1>3, <1>4, <2>1, SentNext
<1>6. Progress(s)' = word[s] + 1
  <2>1. CASE word[s] + 1 = Len(Words(cmd[s]))
    BY <1>2, <2>1 DEF Transfer, Advance, Progress, TypeOK
  <2>2. CASE word[s] + 1 # Len(Words(cmd[s]))
    BY <1>1, <2>2 DEF Transfer, Advance, Progress, TypeOK
  <2> QED
    BY <2>1, <2>2
<1> QED
  BY <1>5, <1>6
LEMMA ActiveIs ==
  /\ \A t \in Tasks : Active(t) <=> pc[t] \in {"send", "flag"}
  /\ \A t \in Tasks : Active(t)' <=> pc'[t] \in {"send", "flag"}
  /\ Active(Worker) <=> running # "none"
  /\ Active(Worker)' <=> running' # "none"
  /\ \A t \in Tasks : t \in Senders /\ t # Worker
  /\ Worker \in Senders
  /\ \A s \in Senders : s = Worker \/ s \in Tasks
BY WorkerAssumption DEF Active, Senders, WorkerAssumption

\* A step that neither starts nor ends an activity, and leaves the codec, the
\* flag and the sends alone.
LEMMA SoloUntouched ==
  ASSUME SoloShape,
         UNCHANGED <<chip, earInject, solo, running, cmd, word>>,
         wpc' = wpc \/ (wpc # "send" /\ wpc' # "send"),
         \A s \in Senders : Active(s)' <=> Active(s),
         \A t \in Tasks : Active(t) => op'[t] = op[t]
  PROVE  SoloShape'
<1> SUFFICES ASSUME solo PROVE SoloShape'
  BY DEF SoloShape
<1>1. \A s, u \in Senders : Active(s)' /\ Active(u)' => s = u
  BY DEF SoloShape
<1>2. Idle' => Sent(chip, 8, InputOf(earInject))'
  BY DEF SoloShape, Idle, Sent, InputOf
<1>3. ASSUME NEW t \in Tasks, Active(t)'
      PROVE  Sent(chip, Progress(t), LineOf(op[t]))'
  <2>1. Active(t)
    BY <1>3, ActiveIs
  <2>2. Sent(chip, Progress(t), LineOf(op[t])) /\ op'[t] = op[t]
    BY <2>1 DEF SoloShape
  <2> QED
    BY <2>2 DEF Sent, LineOf, Progress
<1>4. ASSUME Active(Worker)'
      PROVE  /\ running' = "sure"
             /\ wpc' # "send" => Sent(chip, 0, InputOf(earInject))'
             /\ wpc' = "send" => Sent(chip, Progress(Worker), InputOf(earInject))'
             /\ cmd'[Worker] # "idle" =>
                  cmd'[Worker] = IF earInject' THEN "AdcWay1to2" ELSE "AdcWay2to1"
  BY <1>4, ActiveIs DEF SoloShape, Sent, InputOf, Progress
<1> QED
  BY <1>1, <1>2, <1>3, <1>4 DEF SoloShape

\* A switch begins.
LEMMA SoloDown ==
  ASSUME Safe, SoloShape, NEW t \in Tasks, Down(t)
  PROVE  SoloShape'
<1>1. CASE op[t] \notin Switching
  <2>1. \A s \in Senders : Active(s)' <=> Active(s)
    BY <1>1, ActiveIs, SafeTypes DEF Down, Goto, workVars
  <2> QED
    BY <1>1, <2>1, SoloUntouched DEF Down, workVars, sendVars
<1>2. CASE op[t] \in Switching
  <2> SUFFICES ASSUME solo' PROVE SoloShape'
    BY DEF SoloShape
  <2>1. /\ chip.expect = "index"
        /\ \A o \in Senders \ {t} : ~Active(o)
    BY <1>2 DEF Down, Begin
  <2>2. /\ Active(t)'
        /\ \A o \in Senders \ {t} : ~Active(o)'
    BY <1>2, <2>1, ActiveIs, SafeTypes DEF Down, Goto, workVars
  <2>3. /\ cmd' = [cmd EXCEPT ![t] = TableOf(op[t])] /\ word' = word
        /\ chip' = chip /\ op' = op
    BY <1>2 DEF Down, StartSendCmd
  <2>4. word[t] = 0
    BY SafeTypes DEF Safe, TaskShape, IdleWords, Down, Goto
  <2>5. Progress(t)' = 0
    BY <2>3, <2>4, SafeTypes DEF Progress, TableOf
  <2>6. Sent(chip, Progress(t), LineOf(op[t]))'
    BY <2>1, <2>3, <2>5 DEF Sent
  <2>7. ~Idle' /\ ~Active(Worker)' /\ \A u \in Tasks : Active(u)' => u = t
    BY <2>2, ActiveIs DEF Idle
  <2> QED
    BY <2>2, <2>6, <2>7 DEF SoloShape
<1> QED
  BY <1>1, <1>2

\* A switch ends: the flag changes to what the codec was given.
LEMMA SoloFlag ==
  ASSUME Safe, SoloShape, NEW t \in Tasks, SetEarInject(t) \/ ClearEarInject(t)
  PROVE  SoloShape'
<1> SUFFICES ASSUME solo PROVE SoloShape'
  BY DEF SoloShape, SetEarInject, ClearEarInject
<1>1. /\ pc[t] \in {"send", "flag"} /\ pc' = [pc EXCEPT ![t] = "up"]
      /\ running' = running /\ chip' = chip
  BY DEF SetEarInject, ClearEarInject, Goto, workVars
<1>2. Active(t) /\ \A s \in Senders \ {t} : ~Active(s)
  BY <1>1, ActiveIs DEF SoloShape
<1>3. \A s \in Senders : ~Active(s)'
  BY <1>1, <1>2, ActiveIs, SafeTypes
<1>4. cmd[t] = "idle"
  BY SafeTypes DEF Safe, TaskShape, SetEarInject, ClearEarInject, Goto
<1>5. Sent(chip, 8, LineOf(op[t]))
  BY <1>2, <1>4 DEF SoloShape, Progress
<1>6. LineOf(op[t]) = InputOf(earInject')
  BY DEF LineOf, InputOf, Safe, TaskShape, SetEarInject, ClearEarInject, Goto
<1>7. Sent(chip, 8, InputOf(earInject))'
  BY <1>1, <1>5, <1>6 DEF Sent, InputOf
<1> QED
  BY <1>3, <1>7, ActiveIs DEF SoloShape

LEMMA SoloTask ==
  ASSUME Safe, SoloShape, NEW t \in Tasks, TaskNext(t)
  PROVE  SoloShape'
<1>1. CASE \/ Open(t) \/ Release(t) \/ Call(t) \/ Interrupt(t)
           \/ RaisePs(t) \/ Up(t)
  <2>1. \A s \in Senders : Active(s)' <=> Active(s)
    BY <1>1, ActiveIs, SafeTypes
    DEF Open, Release, Call, Interrupt, RaisePs, Up, Goto, otherThanTask, workVars
  <2>2. \A u \in Tasks : Active(u) => op'[u] = op[u]
    BY <1>1, ActiveIs, SafeTypes DEF Open, Release, Call, Interrupt, RaisePs, Up, Goto
  <2>3. UNCHANGED <<chip, earInject, solo, running, wpc, cmd, word>>
    BY <1>1
    DEF Open, Release, Call, Interrupt, RaisePs, Up, otherThanTask, workVars, sendVars
  <2> QED
    BY <2>1, <2>2, <2>3, SoloUntouched
<1> QED
  BY <1>1, SoloDown, SoloFlag DEF TaskNext, TaskProceeds

\* An attempt of the one sender at work.  One that fails leaves solo only if
\* the chip did not get the word and there is another attempt.
LEMMA SoloSend ==
  ASSUME Safe, SoloShape, NEW s \in Senders, SendNext(s)
  PROVE  SoloShape'
<1>1. CASE AttemptFails(s)
  <2> SUFFICES ASSUME solo' PROVE SoloShape'
    BY DEF SoloShape
  <2>1. /\ UNCHANGED <<pc, op, earInject, running, wpc, pending>>
        /\ UNCHANGED <<cmd, word, chip, solo>>
    BY <1>1 DEF AttemptFails, otherThanSender, taskVars, workVars, Safe, TypeOK
  <2>2. \A u \in Senders : Active(u)' <=> Active(u)
    BY <2>1, ActiveIs
  <2> QED
    BY <2>1, <2>2, SoloUntouched
<1>2. CASE Transfer(s)
  <2> SUFFICES ASSUME solo PROVE SoloShape'
    BY <1>2 DEF SoloShape, Transfer
  <2>1. UNCHANGED <<pc, op, earInject, running, wpc, pending>> /\ cmd[s] # "idle"
    BY <1>2 DEF Transfer, otherThanSender, taskVars, workVars
  <2>2. \A u \in Senders : Active(u)' <=> Active(u)
    BY <2>1, ActiveIs
  <2>3. Active(s)
    BY <2>1, ActiveIs, SafeTypes DEF Safe, TaskShape, WorkerShape
  <2>4. /\ \A u \in Senders \ {s} : ~Active(u) /\ ~Active(u)'
        /\ ~Idle'
        /\ \A v, u \in Senders : Active(v)' /\ Active(u)' => v = u
    BY <2>2, <2>3 DEF SoloShape, Idle
  <2>5. CASE s = Worker
    <3>1. /\ running = "sure" /\ wpc = "send"
          /\ Sent(chip, Progress(s), InputOf(earInject))
          /\ cmd[s] = IF earInject THEN "AdcWay1to2" ELSE "AdcWay2to1"
      BY <2>1, <2>3, <2>5 DEF SoloShape, Safe, WorkerShape
    <3>2. Words(cmd[s]) = AdcWay(InputOf(earInject))
      BY <3>1 DEF Words, AdcWay1to2, AdcWay2to1, InputOf
    <3>3. Sent(chip', Progress(s)', InputOf(earInject))
      BY <1>2, <3>1, <3>2, TransferSent DEF Safe, InputOf
    <3>4. Sent(chip, Progress(Worker), InputOf(earInject))'
      BY <2>1, <2>5, <3>3 DEF Sent, InputOf
    <3>5. cmd'[s] # "idle" => cmd'[s] = cmd[s]
      BY <1>2, SafeTypes DEF Transfer, Advance
    <3> QED
      BY <2>1, <2>4, <2>5, <3>1, <3>4, <3>5, ActiveIs DEF SoloShape
  <2>6. CASE s \in Tasks
    <3>1. /\ cmd[s] = TableOf(op[s]) /\ op[s] \in Switching
          /\ Sent(chip, Progress(s), LineOf(op[s]))
      BY <2>1, <2>3, <2>6 DEF SoloShape, Safe, TaskShape
    <3>2. Words(cmd[s]) = AdcWay(LineOf(op[s]))
      BY <3>1 DEF Words, AdcWay1to2, AdcWay2to1, LineOf, TableOf, Switching
    <3>3. Sent(chip', Progress(s)', LineOf(op[s]))
      BY <1>2, <3>1, <3>2, TransferSent DEF Safe, LineOf
    <3>4. Sent(chip, Progress(s), LineOf(op[s]))'
      BY <2>1, <3>3 DEF Sent, LineOf
    <3> QED
      BY <2>4, <2>6, <3>4, ActiveIs DEF SoloShape
  <2> QED
    BY <2>5, <2>6, ActiveIs
<1> QED
  BY <1>1, <1>2 DEF SendNext

\* The restore, from the reset to its last word.
LEMMA SoloWorker ==
  ASSUME Safe, SoloShape, WorkerNext
  PROVE  SoloShape'
<1>1. CASE StartInit
  BY <1>1 DEF StartInit, SoloShape
<1>2. CASE StartSure
  <2> SUFFICES ASSUME solo' PROVE SoloShape'
    BY DEF SoloShape
  <2>1. /\ running = "none" /\ running' = "sure" /\ wpc' = "low"
        /\ chip'.expect = "index" /\ cmd' = cmd
        /\ pc' = pc /\ op' = op
    BY <1>2 DEF StartSure, Queue!StartWork, ChipInReset, sendVars, otherThanWorker, taskVars
  <2>2. \A u \in Senders \ {Worker} : ~Active(u)
    BY <1>2 DEF StartSure, Begin
  <2>3. Active(Worker)' /\ \A u \in Senders \ {Worker} : ~Active(u)'
    BY <2>1, <2>2, ActiveIs
  <2>4. cmd'[Worker] = "idle"
    BY <2>1 DEF Safe, WorkerShape
  <2>5. Sent(chip, 0, InputOf(earInject))'
    BY <2>1 DEF Sent
  <2>6. ~Idle' /\ \A u \in Tasks : ~Active(u)'
    BY <2>3, ActiveIs DEF Idle
  <2> QED
    BY <2>1, <2>3, <2>4, <2>5, <2>6 DEF SoloShape
<1>3. CASE ReleaseReset
  <2>1. \A s \in Senders : Active(s)' <=> Active(s)
    BY <1>3, ActiveIs DEF ReleaseReset, otherThanWorker, taskVars
  <2> QED
    BY <1>3, <2>1, SoloUntouched DEF ReleaseReset, otherThanWorker, taskVars, sendVars
<1>4. CASE ChooseTable
  <2> SUFFICES ASSUME solo PROVE SoloShape'
    BY <1>4 DEF SoloShape, ChooseTable
  <2> DEFINE table == IF earInject THEN "AdcWay1to2" ELSE "AdcWay2to1"
  <2>1. /\ wpc = "choose" /\ wpc' = "send" /\ running' = running
        /\ cmd' = [cmd EXCEPT ![Worker] = table] /\ word' = word
        /\ chip' = chip /\ earInject' = earInject /\ pc' = pc
    BY <1>4 DEF ChooseTable, StartSendCmd, otherThanWorker, taskVars
  <2>2. \A u \in Senders : Active(u)' <=> Active(u)
    BY <2>1, ActiveIs
  <2>3. Active(Worker) /\ running = "sure"
    BY <2>1, ActiveIs DEF Safe, WorkerShape
  <2>4. /\ \A u \in Tasks : ~Active(u)'
        /\ ~Idle'
        /\ \A v, u \in Senders : Active(v)' /\ Active(u)' => v = u
    BY <2>2, <2>3, ActiveIs DEF SoloShape, Idle
  <2>5. cmd'[Worker] = table /\ word'[Worker] = 0
    BY <2>1, SafeTypes DEF Safe, WorkerShape, IdleWords
  <2>6. Progress(Worker)' = 0
    BY <2>5 DEF Progress
  <2>7. Sent(chip, 0, InputOf(earInject))
    BY <2>1, <2>3 DEF SoloShape
  <2>8. Sent(chip, Progress(Worker), InputOf(earInject))'
    BY <2>1, <2>6, <2>7 DEF Sent
  <2> QED
    BY <2>1, <2>3, <2>4, <2>5, <2>8 DEF SoloShape
<1>5. CASE EndWork
  <2> SUFFICES ASSUME solo PROVE SoloShape'
    BY <1>5 DEF SoloShape, EndWork
  <2>1. /\ wpc = "send" /\ cmd[Worker] = "idle" /\ running' = "none"
        /\ chip' = chip /\ earInject' = earInject /\ pc' = pc
    BY <1>5 DEF EndWork, Queue!FinishWork, otherThanWorker, taskVars
  <2>2. Active(Worker) /\ \A u \in Tasks : ~Active(u)
    BY <2>1, ActiveIs DEF SoloShape, Safe, WorkerShape
  <2>3. \A u \in Senders : ~Active(u)'
    BY <2>1, <2>2, ActiveIs
  <2>4. Sent(chip, 8, InputOf(earInject))
    BY <2>1, <2>2 DEF SoloShape, Progress
  <2>5. Sent(chip, 8, InputOf(earInject))'
    BY <2>1, <2>4 DEF Sent, InputOf
  <2> QED
    BY <2>3, <2>5, ActiveIs DEF SoloShape
<1> QED
  BY <1>1, <1>2, <1>3, <1>4, <1>5 DEF WorkerNext

LEMMA SoloShapeStep ==
  ASSUME Safe, SoloShape, [Next]_vars
  PROVE  SoloShape'
<1>1. CASE PMNext
  <2>1. UNCHANGED <<pc, op, earInject, cmd, word, running, wpc, chip, solo>>
    BY <1>1, PMFrame DEF taskVars, sendVars
  <2>2. \A s \in Senders : Active(s)' <=> Active(s)
    BY <2>1, ActiveIs
  <2> QED
    BY <2>1, <2>2, SoloUntouched
<1>2. CASE UNCHANGED vars
  <2>1. UNCHANGED <<pc, op, earInject, cmd, word, running, wpc, chip, solo>>
    BY <1>2 DEF vars, taskVars, sendVars, workVars
  <2>2. \A s \in Senders : Active(s)' <=> Active(s)
    BY <2>1, ActiveIs
  <2> QED
    BY <2>1, <2>2, SoloUntouched
<1> QED
  BY <1>1, <1>2, SoloTask, SoloSend, SoloWorker DEF Next

\* A switch or a restore that had the bus to itself and gave the codec each of
\* its words exactly once leaves it on the input the flag stands for, for any
\* number of tasks, whatever came before and however many attempts did not
\* reach the chip.
THEOREM UndisturbedSwitchRoutes == Spec => []RouteMatchesFlag
<1>1. Init => SoloShape
  BY DEF Init, SoloShape
<1>2. Spec => []SoloShape
  BY <1>1, SoloShapeStep, SafeAlways, PTL DEF Spec
<1>3. SoloShape => RouteMatchesFlag
  BY DEF SoloShape, RouteMatchesFlag, Sent
<1> QED
  BY <1>2, <1>3, PTL

==============================================================================
