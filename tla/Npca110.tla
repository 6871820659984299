------------------------------- MODULE Npca110 -------------------------------
(***************************************************************************)
(* The driver of the npca110 audio DSP: its character device, its two work *)
(* items and its power-management callbacks, from the end of a successful  *)
(* probe on.                                                               *)
(*                                                                         *)
(* Three kinds of actors reach the chip.  User tasks call ioctl to switch  *)
(* the codec between its two analogue inputs.  The worker of npca110_wq    *)
(* runs npca110_init_work (queued by probe) and npca110_sure_work (queued  *)
(* by every resume).  The power-management core freezes the user tasks and *)
(* calls npca110_suspend and npca110_resume.  A command table is sent one  *)
(* three-byte word at a time, so two actors that send at the same time     *)
(* interleave their words on the bus.                                      *)
(***************************************************************************)
EXTENDS Integers, Sequences, FiniteSets

CONSTANTS
  Tasks,        \* user tasks that use /dev/npca110_sound
  SemInit,      \* initial count of dev->sem: sema_init(&dev->sem, 6)
  I2cMayFail    \* may the bus lose a word, or the acknowledgement of one?

ASSUME NpcaAssumption ==
  /\ IsFiniteSet(Tasks)
  /\ SemInit \in Nat \ {0}
  /\ I2cMayFail \in BOOLEAN

Worker == "npca110_wq"
Senders == Tasks \cup {Worker}

ASSUME WorkerAssumption == Worker \notin Tasks

VARIABLES
  pc,           \* where each task is in the file operations
  op,           \* the call each task is making
  sem,          \* count of npca110_dev->sem
  earInject,    \* npca110_dev->earInject
  ps, pa, rs,   \* levels of ps_pin, pa_pin and the chip reset pin rs_pin
  cmd,          \* the table each sender is passing to Npca110_SendCmd
  word,         \* how many words of that table it has written
  retry,        \* attempts npca110_i2c_write has left for the next one
  pending,      \* npca110_wq: queued work items
  running,      \* npca110_wq: the executing work item
  wpc,          \* where the worker is in that item's function
  pm,           \* where the system is in a suspend/resume cycle
  chip,         \* the codec registers, as the words written so far left them
  solo          \* history variable, not in the code: the last switch or
                \* restore had the bus to itself, started from a codec that
                \* could take it, and gave it every word exactly once

taskVars == <<pc, op, sem>>
pinVars  == <<ps, pa, rs>>
sendVars == <<cmd, word, retry>>
workVars == <<pending, running, wpc>>
vars == <<taskVars, earInject, pinVars, sendVars, workVars, pm, chip, solo>>

Queue == INSTANCE WorkQueue
           WITH Works <- {"init", "sure"}, NoWork <- "none"

-----------------------------------------------------------------------------
(***************************************************************************)
(* Command tables and the codec.  A register write is two words: the index *)
(* word selects the register, the next word on the bus is its data.  A     *)
(* word that arrives out of that alternation leaves the codec "torn": the  *)
(* repository does not say what the chip makes of it, only the reset pin   *)
(* is sure to clear it.                                                    *)
(***************************************************************************)
Registers == {"AdcInput", "CodecLatch", "Other"}

Values    == {"LIN1", "LIN2", "low", "high", "any"}

Index(r) == [kind |-> "index", arg |-> r]
Data(v)  == [kind |-> "data",  arg |-> v]

WordSet == [kind : {"index"}, arg : Registers] \cup [kind : {"data"}, arg : Values]

\* "Set ADC Input Control" and the three "CODEC Latch" writes.
AdcWay(line) ==
  << Index("AdcInput"),   Data(line),
     Index("CodecLatch"), Data("low"),
     Index("CodecLatch"), Data("high"),
     Index("CodecLatch"), Data("low") >>

AdcWay1to2 == AdcWay("LIN2")
AdcWay2to1 == AdcWay("LIN1")

\* The start-up table selects LIN1 and latches it in the middle of writes to
\* registers the model does not track, which are one "Other" at each end.
OtherWrite == << Index("Other"), Data("any") >>

MaxxAudio_Cmd_music1_FULL == OtherWrite \o AdcWay("LIN1") \o OtherWrite

Tables == {"AdcWay1to2", "AdcWay2to1", "music1_FULL"}

Words(table) ==
  CASE table = "AdcWay1to2"  -> AdcWay1to2
    [] table = "AdcWay2to1"  -> AdcWay2to1
    [] table = "music1_FULL" -> MaxxAudio_Cmd_music1_FULL

ChipSet == [expect : Registers \cup {"index", "torn"},
            adc    : Values \cup {"unset"},
            route  : Values \cup {"unset"}]

ChipInReset ==
  [expect |-> "index", adc |-> "unset", route |-> "unset"]

TornChip == [ChipInReset EXCEPT !.expect = "torn"]

\* The raising edge of the latch puts the ADC input into effect.
WriteRegister(c, r, v) ==
  [c EXCEPT !.expect = "index",
            !.adc    = IF r = "AdcInput" THEN v ELSE @,
            !.route  = IF r = "CodecLatch" /\ v = "high" THEN c.adc ELSE @]

ChipAfter(c, w) ==
  CASE c.expect = "index" /\ w.kind = "index" ->
         [c EXCEPT !.expect = w.arg]
    [] c.expect \in Registers /\ w.kind = "data" ->
         WriteRegister(c, c.expect, w.arg)
    [] OTHER -> TornChip

\* The input the flag stands for.
InputOf(injected) == IF injected THEN "LIN2" ELSE "LIN1"

-----------------------------------------------------------------------------
\* read, write and an ioctl with any other command take the semaphore and give
\* it back: "other".
Calls     == {"AUX1_TO_AUX2", "AUX2_TO_AUX1", "other"}
Switching == {"AUX1_TO_AUX2", "AUX2_TO_AUX1"}

TableOf(call) == IF call = "AUX1_TO_AUX2" THEN "AdcWay1to2" ELSE "AdcWay2to1"

\* The task holds one unit of dev->sem.
Holds(t) == pc[t] \in {"send", "flag", "up"}

\* The task is inside the system call; a frozen task is not.
InKernel(t) == pc[t] = "down" \/ Holds(t)

\* The sender is in the middle of a switch, a start-up or a restore.
Active(s) ==
  IF s = Worker THEN running # "none" ELSE pc[s] \in {"send", "flag"}

Idle == \A s \in Senders : ~Active(s)

\* Bookkeeping for solo: s starts an activity, which is orderly only if the
\* codec can take it from the state it is in.
Begin(s, orderly) ==
  solo' = (orderly /\ \A o \in Senders \ {s} : ~Active(o))

StartSendCmd(s, table) ==
  /\ cmd' = [cmd EXCEPT ![s] = table]
  /\ UNCHANGED <<word, retry>>

Goto(t, from, to) ==
  /\ pc[t] = from
  /\ pc' = [pc EXCEPT ![t] = to]

-----------------------------------------------------------------------------
(***************************************************************************)
(* Npca110_SendCmd, run by any sender with an unfinished table: attempt by *)
(* attempt, three for each word.                                           *)
(***************************************************************************)
otherThanSender == <<taskVars, earInject, pinVars, workVars, pm>>

Attempts == 3

NextWord(s) == Words(cmd[s])[word[s] + 1]

\* Mutant: behind its last word the table begins again.
AdvanceRestarts(s) ==
  /\ retry' = [retry EXCEPT ![s] = Attempts]
  /\ word' = [word EXCEPT ![s] = (@ + 1) % Len(Words(cmd[s]))]
  /\ UNCHANGED cmd

\* The next word, if there is one, gets all its attempts.
Advance(s) ==
  /\ retry' = [retry EXCEPT ![s] = Attempts]
  /\ IF word[s] + 1 = Len(Words(cmd[s]))
       THEN /\ cmd'  = [cmd  EXCEPT ![s] = "idle"]
            /\ word' = [word EXCEPT ![s] = 0]
       ELSE /\ word' = [word EXCEPT ![s] = @ + 1]
            /\ UNCHANGED cmd

\* SendCmd returns -1 and leaves the rest of the table unsent.  No caller
\* looks at the result.
GiveUp(s) ==
  /\ cmd'   = [cmd   EXCEPT ![s] = "idle"]
  /\ word'  = [word  EXCEPT ![s] = 0]
  /\ retry' = [retry EXCEPT ![s] = Attempts]

\* Mutant: the loop of SendCmd runs one word too far.
TransferPastEnd(s) ==
  /\ cmd[s] # "idle"
  /\ rs = 1
  /\ chip' = ChipAfter(chip, NextWord(s))
  /\ word' = [word EXCEPT ![s] = @ + 1]
  /\ UNCHANGED <<cmd, retry, otherThanSender, solo>>

\* An attempt is acknowledged, which a chip held in reset does not do.
Transfer(s) ==
  /\ cmd[s] # "idle"
  /\ rs = 1
  /\ chip' = ChipAfter(chip, NextWord(s))
  /\ Advance(s)
  /\ UNCHANGED <<otherThanSender, solo>>

\* i2c_transfer returns an error: the word did not reach the chip, or it did
\* and the acknowledgement was lost.  In both cases the same word is sent
\* again 30 ms later, or given up after the last attempt.  On a bus that works
\* only a reset makes an attempt fail, one at most: its pulse is 5 ms long.
AttemptFails(s) ==
  /\ cmd[s] # "idle"
  /\ I2cMayFail \/ (rs = 0 /\ retry[s] = Attempts)
  /\ \/ /\ chip' = chip
        /\ solo' = (solo /\ retry[s] > 1)
     \/ /\ rs = 1
        /\ chip' = ChipAfter(chip, NextWord(s))
        /\ solo' = FALSE
  /\ IF retry[s] > 1
       THEN /\ retry' = [retry EXCEPT ![s] = @ - 1]
            /\ UNCHANGED <<cmd, word>>
       ELSE GiveUp(s)
  /\ UNCHANGED otherThanSender

-----------------------------------------------------------------------------
(***************************************************************************)
(* File operations.                                                        *)
(***************************************************************************)
otherThanTask == <<earInject, pinVars, sendVars, workVars, pm, chip, solo>>

Open(t) ==
  /\ pm = "on"
  /\ Goto(t, "closed", "open")
  /\ UNCHANGED <<op, sem, otherThanTask>>

Release(t) ==
  /\ pm = "on"
  /\ Goto(t, "open", "closed")
  /\ UNCHANGED <<op, sem, otherThanTask>>

\* npca110_ioctl, npca110_read or npca110_write is entered.
Call(t) ==
  /\ pm = "on"
  /\ Goto(t, "open", "down")
  /\ \E call \in Calls : op' = [op EXCEPT ![t] = call]
  /\ UNCHANGED <<sem, otherThanTask>>

\* down_interruptible returns 0.  Only the two switching commands go on to
\* SendCmd; the others have nothing to do under the semaphore.
Down(t) ==
  /\ sem > 0
  /\ sem' = sem - 1
  /\ IF op[t] \in Switching
       THEN /\ Goto(t, "down", "send")
            /\ StartSendCmd(t, TableOf(op[t]))
            /\ Begin(t, chip.expect = "index")
       ELSE /\ Goto(t, "down", "up")
            /\ UNCHANGED <<sendVars, solo>>
  /\ UNCHANGED <<op, earInject, pinVars, workVars, pm, chip>>

\* Mutant: the interrupted path calls up() too.
InterruptUps(t) ==
  /\ Goto(t, "down", "open")
  /\ op' = [op EXCEPT ![t] = "none"]
  /\ sem' = sem + 1
  /\ UNCHANGED otherThanTask

\* down_interruptible is interrupted, by a signal or by the freezer: the call
\* returns -ERESTARTSYS without the semaphore.
Interrupt(t) ==
  /\ Goto(t, "down", "open")
  /\ op' = [op EXCEPT ![t] = "none"]
  /\ UNCHANGED <<sem, otherThanTask>>

\* Mutant: ps_pin is not raised, as pa_pin is not (npca110.c:282).
RaisePsForgotten(t) ==
  /\ op[t] = "AUX1_TO_AUX2"
  /\ cmd[t] = "idle"
  /\ Goto(t, "send", "flag")
  /\ UNCHANGED <<op, sem, otherThanTask>>

\* AUX1_TO_AUX2, SendCmd has returned: raise ps_pin, then set the flag.
RaisePs(t) ==
  /\ op[t] = "AUX1_TO_AUX2"
  /\ cmd[t] = "idle"
  /\ Goto(t, "send", "flag")
  /\ ps' = 1
  /\ UNCHANGED <<op, sem, earInject, pa, rs, sendVars, workVars, pm, chip, solo>>

SetEarInject(t) ==
  /\ Goto(t, "flag", "up")
  /\ earInject' = TRUE
  /\ UNCHANGED <<op, sem, pinVars, sendVars, workVars, pm, chip, solo>>

\* AUX2_TO_AUX1, SendCmd has returned: clear the flag.
ClearEarInject(t) ==
  /\ op[t] = "AUX2_TO_AUX1"
  /\ cmd[t] = "idle"
  /\ Goto(t, "send", "up")
  /\ earInject' = FALSE
  /\ UNCHANGED <<op, sem, pinVars, sendVars, workVars, pm, chip, solo>>

\* Mutant: a return that skips up().
UpForgotten(t) ==
  /\ Goto(t, "up", "open")
  /\ op' = [op EXCEPT ![t] = "none"]
  /\ UNCHANGED <<sem, otherThanTask>>

\* up(&dev->sem) and the return to the caller.
Up(t) ==
  /\ Goto(t, "up", "open")
  /\ op' = [op EXCEPT ![t] = "none"]
  /\ sem' = sem + 1
  /\ UNCHANGED otherThanTask

-----------------------------------------------------------------------------
(***************************************************************************)
(* The worker of npca110_wq.                                               *)
(***************************************************************************)
otherThanWorker == <<taskVars, earInject, ps, pa, pm>>

\* npca110_init_events sends the start-up table.  It does not look at the
\* flag, so solo does not claim anything of it.
StartInit ==
  /\ Queue!StartWork("init")
  /\ wpc' = "send"
  /\ StartSendCmd(Worker, "music1_FULL")
  /\ solo' = FALSE
  /\ UNCHANGED <<otherThanWorker, rs, chip>>

\* npca110_suspend_resume pulls the reset pin low, ...
StartSure ==
  /\ Queue!StartWork("sure")
  /\ wpc' = "low"
  /\ rs' = 0
  /\ chip' = ChipInReset
  /\ Begin(Worker, TRUE)
  /\ UNCHANGED <<otherThanWorker, sendVars>>

\* ... releases it 5 ms later, ...
ReleaseReset ==
  /\ wpc = "low"
  /\ wpc' = "choose"
  /\ rs' = 1
  /\ UNCHANGED <<otherThanWorker, sendVars, pending, running, chip, solo>>

\* Mutant: the restore does not look at the flag.
ChooseTableBlindly ==
  /\ wpc = "choose"
  /\ wpc' = "send"
  /\ StartSendCmd(Worker, "AdcWay2to1")
  /\ UNCHANGED <<otherThanWorker, rs, pending, running, chip, solo>>

\* ... reads the flag another 5 ms later and sends the table it calls for.
ChooseTable ==
  /\ wpc = "choose"
  /\ wpc' = "send"
  /\ StartSendCmd(Worker, IF earInject THEN "AdcWay1to2" ELSE "AdcWay2to1")
  /\ UNCHANGED <<otherThanWorker, rs, pending, running, chip, solo>>

\* SendCmd has returned to either function, which returns too.
EndWork ==
  /\ wpc = "send"
  /\ cmd[Worker] = "idle"
  /\ wpc' = "idle"
  /\ Queue!FinishWork
  /\ UNCHANGED <<otherThanWorker, rs, sendVars, chip, solo>>

-----------------------------------------------------------------------------
(***************************************************************************)
(* Power management.  The core freezes the user tasks, which leaves them   *)
(* outside the kernel, before it calls npca110_suspend, and thaws them     *)
(* after npca110_resume.  The workqueue is not frozen.                     *)
(***************************************************************************)
otherThanPM == <<taskVars, earInject, rs, sendVars, running, wpc, chip, solo>>

PMGoto(from, to) ==
  /\ pm = from
  /\ pm' = to

Freeze ==
  /\ PMGoto("on", "freezing")
  /\ UNCHANGED <<otherThanPM, ps, pa, pending>>

FreezeAborted ==
  /\ PMGoto("freezing", "on")
  /\ UNCHANGED <<otherThanPM, ps, pa, pending>>

AllFrozen ==
  /\ PMGoto("freezing", "frozen")
  /\ \A t \in Tasks : ~InKernel(t)
  /\ UNCHANGED <<otherThanPM, ps, pa, pending>>

\* npca110_suspend: keep both supplies up for an injected input, ...
SuspendPins ==
  /\ PMGoto("frozen", "cancel")
  /\ IF earInject THEN ps' = 1 /\ pa' = 1 ELSE UNCHANGED <<ps, pa>>
  /\ UNCHANGED <<otherThanPM, pending>>

\* ... cancel_work_sync(&npca110_sure_work), ...
CancelSure ==
  /\ PMGoto("cancel", "cancelled")
  /\ Queue!GrabPending("sure")
  /\ UNCHANGED <<otherThanPM, ps, pa>>

SureCancelled ==
  /\ PMGoto("cancelled", "flush")
  /\ Queue!NotExecuting("sure")
  /\ UNCHANGED <<otherThanPM, ps, pa, pending>>

\* Mutant: the suspend does not wait for the queue.
FlushForgotten ==
  /\ PMGoto("flush", "suspended")
  /\ UNCHANGED <<otherThanPM, ps, pa, pending>>

\* ... flush_workqueue(npca110_wq).
FlushQueue ==
  /\ PMGoto("flush", "suspended")
  /\ Queue!Flushed
  /\ UNCHANGED <<otherThanPM, ps, pa, pending>>

\* Mutant: the resume does not queue the restore.
ResumeForgetsWork ==
  /\ PMGoto("suspended", "resumed")
  /\ UNCHANGED <<otherThanPM, ps, pa, pending>>

\* npca110_resume
Resume ==
  /\ PMGoto("suspended", "resumed")
  /\ Queue!QueueWork("sure")
  /\ UNCHANGED <<otherThanPM, ps, pa>>

Thaw ==
  /\ PMGoto("resumed", "on")
  /\ UNCHANGED <<otherThanPM, ps, pa, pending>>

-----------------------------------------------------------------------------
\* The end of a successful npca110_probe: the flag is cleared, the start-up
\* work is queued.  Nothing has driven ps_pin and pa_pin yet.
Init ==
  /\ pc = [t \in Tasks |-> "closed"]
  /\ op = [t \in Tasks |-> "none"]
  /\ sem = SemInit
  /\ earInject = FALSE
  /\ ps \in {0, 1}
  /\ pa \in {0, 1}
  /\ rs = 1
  /\ cmd = [s \in Senders |-> "idle"]
  /\ word = [s \in Senders |-> 0]
  /\ retry = [s \in Senders |-> Attempts]
  /\ pending = <<"init">>
  /\ running = "none"
  /\ wpc = "idle"
  /\ pm = "on"
  /\ chip = ChipInReset
  /\ solo = FALSE

\* What a task does on its own once it has called the driver.
TaskProceeds(t) == RaisePs(t) \/ SetEarInject(t) \/ ClearEarInject(t) \/ Up(t)

TaskNext(t) ==
  \/ Open(t) \/ Release(t) \/ Call(t)
  \/ Down(t) \/ Interrupt(t)
  \/ TaskProceeds(t)

SendNext(s) == Transfer(s) \/ AttemptFails(s)

WorkerNext ==
  StartInit \/ StartSure \/ ReleaseReset \/ ChooseTable \/ EndWork

\* npca110_suspend, and what the core does after npca110_resume.  Resume is
\* neither: nothing has to wake the system up.
SuspendNext == SuspendPins \/ CancelSure \/ SureCancelled \/ FlushQueue

PMNext ==
  Freeze \/ FreezeAborted \/ AllFrozen \/ SuspendNext \/ Resume \/ Thaw

Next ==
  \/ \E t \in Tasks : TaskNext(t)
  \/ \E s \in Senders : SendNext(s)
  \/ WorkerNext
  \/ PMNext

Spec == Init /\ [][Next]_vars

(***************************************************************************)
(* Fairness: the scheduler runs every runnable thread, the I2C core ends   *)
(* every attempt, up() hands the semaphore to the longest waiter (so a     *)
(* task that keeps finding it free gets it), and the core goes on with a   *)
(* suspend that has frozen the tasks and with a resume it has begun.  No   *)
(* task has to make a call or to be interrupted, no suspend has to start,  *)
(* a freeze may fail, and a sleep may last for ever.                       *)
(***************************************************************************)
Fairness ==
  /\ \A t \in Tasks : SF_vars(Down(t)) /\ WF_vars(TaskProceeds(t))
  /\ \A s \in Senders : WF_vars(SendNext(s))
  /\ WF_vars(WorkerNext)
  /\ WF_vars(AllFrozen \/ FreezeAborted)
  /\ WF_vars(SuspendNext)
  /\ WF_vars(Thaw)

FairSpec == Spec /\ Fairness

-----------------------------------------------------------------------------
Positions == 0..Len(MaxxAudio_Cmd_music1_FULL)

\* Every variable holds a value of its kind, and a sender is never past the
\* end of its table.
TypeOK ==
  /\ pc \in [Tasks -> {"closed", "open", "down", "send", "flag", "up"}]
  /\ op \in [Tasks -> Calls \cup {"none"}]
  /\ sem \in 0..SemInit
  /\ earInject \in BOOLEAN
  /\ ps \in {0, 1} /\ pa \in {0, 1} /\ rs \in {0, 1}
  /\ cmd \in [Senders -> Tables \cup {"idle"}]
  /\ word \in [Senders -> Positions]
  /\ retry \in [Senders -> 1..Attempts]
  /\ \A s \in Senders : cmd[s] # "idle" => word[s] < Len(Words(cmd[s]))
  /\ Queue!QueueTypeOK
  /\ wpc \in {"idle", "low", "choose", "send"}
  /\ pm \in {"on", "freezing", "frozen", "cancel", "cancelled", "flush",
             "suspended", "resumed"}
  /\ chip \in ChipSet
  /\ solo \in BOOLEAN

\* Every path through read, write and ioctl takes dev->sem once and gives it
\* back once, interrupted calls included: no permit is lost or made up.
SemAccounting ==
  sem + Cardinality({t \in Tasks : Holds(t)}) = SemInit

\* Once npca110_suspend has returned, no call is in flight, the queue is
\* empty, the bus is silent and the chip is out of reset: cancelling the
\* restore and flushing the queue leaves nothing half-done across the sleep.
QuietWhenSuspended ==
  pm = "suspended" =>
    /\ Idle
    /\ pending = <<>>
    /\ rs = 1
    /\ \A s \in Senders : cmd[s] = "idle"
    /\ sem = SemInit

\* While the flag says that aux2 is injected, ps_pin is up; after a suspend
\* that found it so, pa_pin is up as well.
InjectPower ==
  /\ earInject => ps = 1
  /\ pm \in {"cancel", "cancelled", "flush", "suspended", "resumed"} /\ earInject => pa = 1

\* A switch or a restore that had the bus to itself, started from a codec in
\* step, lost no word and got every acknowledgement leaves the codec on the
\* input the flag stands for.  Attempts that did not reach the chip do no harm,
\* nor does what ran, failed or was interleaved before; a word that came twice
\* does, although SendCmd returns 0 for it.
RouteMatchesFlag ==
  Idle /\ solo => chip.route = InputOf(earInject) /\ chip.expect = "index"

\* Every call that waits for the semaphore returns to its caller.
CallsReturn == \A t \in Tasks : pc[t] = "down" ~> pc[t] = "open"

\* A suspend that has frozen the tasks gets through the cancel and the flush
\* to its end, whatever the worker was doing.
SuspendReturns == pm = "frozen" ~> pm = "suspended"

\* If every sleep ends, the restore work gets to choose a table after each of
\* them, unless the next suspend starts to cancel it first.
RestoreRuns ==
  []<>(pm # "suspended") => (pm = "suspended" ~> wpc = "choose" \/ pm = "cancel")

==============================================================================
