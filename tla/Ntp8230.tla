------------------------------- MODULE Ntp8230 -------------------------------
(***************************************************************************)
(* The driver of the ntp8230 amplifier, from the end of a successful probe *)
(* on.                                                                     *)
(*                                                                         *)
(* Three work items of ntp8230_wq write to the chip: init (queued by       *)
(* probe) and resume (queued by ntp8230_resume) program and un-mute it,    *)
(* suspend (queued by ntp8230_suspend) mutes it unless the npca110 driver  *)
(* says that an input is injected.  Queueing an item does not wait for it: *)
(* the system may go to sleep before the mute has run, and wake up with    *)
(* the mute still to come.  The file operations never touch the chip.      *)
(***************************************************************************)
EXTENDS Integers, Sequences, FiniteSets

CONSTANTS
  Tasks,        \* user tasks that use /dev/ntp8230_sound
  SemInit,      \* initial count of dev->sem: sema_init(&dev->sem, 6)
  I2cMayFail    \* may ntp8230_i2c_write exhaust its three attempts?

ASSUME NtpAssumption ==
  /\ IsFiniteSet(Tasks)
  /\ SemInit \in Nat \ {0}
  /\ I2cMayFail \in BOOLEAN

VARIABLES
  pc,           \* where each task is in the file operations
  sem,          \* count of ntp8230_dev->sem
  earInject,    \* npca110_dev->earInject, read with getEarInjectFlag()
  pending,      \* ntp8230_wq: queued work items
  running,      \* ntp8230_wq: the executing work item
  todo,         \* the tables that item has still to send, first one first
  pm,           \* where the system is in a suspend/resume cycle
  chip,         \* the amplifier, as the words written so far left it
  clean,        \* history variable, not in the code: the last program sent
                \* to the chip began on page 0 and lost no word
  stray         \* history variable: a word of the last program was written
                \* while another page was selected than the one it is for

taskVars == <<pc, sem>>
workVars == <<pending, running, todo>>
chipVars == <<chip, clean, stray>>
vars == <<taskVars, earInject, workVars, pm, chipVars>>

Works == {"init", "suspend", "resume"}

Queue == INSTANCE WorkQueue WITH NoWork <- "none"

-----------------------------------------------------------------------------
(***************************************************************************)
(* The tables.  Register 0x7E selects a page; the coefficients of the DRC  *)
(* and of the frequency dividers are on pages 3 and 4, everything else is  *)
(* on page 0.  Three registers decide whether the amplifier sounds: 0x28   *)
(* (PWM mask), 0x27 (PWM) and 0x26 (mute).  A table of registers the model *)
(* does not track is two words long.                                       *)
(***************************************************************************)
AmpRegs == {"mask", "pwm", "mute"}

Select(p)      == [kind |-> "select", page |-> p, reg |-> "page", val |-> "any"]
Write(p, r, v) == [kind |-> "write",  page |-> p, reg |-> r,      val |-> v]

Untracked(p) == << Write(p, "other", "any"), Write(p, "other", "any") >>

ntp8230_init_part1   == Untracked(0)
ntp8230_drc_part0    == Untracked(3)
ntp8230_drc_part1    == Untracked(0)
ntp8230_highfreq_div == Untracked(3)
ntp8230_lowfreq_div  == Untracked(4)
ntp8230_init_part4   ==
  << Write(0, "mask", "play"), Write(0, "pwm", "play"), Write(0, "mute", "play") >>

\* Mutant: the low-pass divider is sent without selecting its page.
InitTablesOnePage ==
  << ntp8230_init_part1,
     << Select(3) >>, ntp8230_drc_part0,
     << Select(0) >>, ntp8230_drc_part1,
     << Select(3) >>, ntp8230_highfreq_div, ntp8230_lowfreq_div,
     << Select(0) >>, ntp8230_init_part4 >>

\* What ntp8230_init sends.  A page selection is one ntp8230_i2c_write.
InitTables ==
  << ntp8230_init_part1,
     << Select(3) >>, ntp8230_drc_part0,
     << Select(0) >>, ntp8230_drc_part1,
     << Select(3) >>, ntp8230_highfreq_div,
     << Select(4) >>, ntp8230_lowfreq_div,
     << Select(0) >>, ntp8230_init_part4 >>

\* What ntp8230_suspend_event sends: three single writes.
MuteTables ==
  << << Write(0, "mute", "quiet") >>,
     << Write(0, "mask", "quiet") >>,
     << Write(0, "pwm", "quiet") >> >>

ChipSet == [page : {0, 3, 4}, regs : [AmpRegs -> {"unset", "play", "quiet"}]]

ChipAfter(c, w) ==
  CASE w.kind = "select" -> [c EXCEPT !.page = w.page]
    [] w.kind = "write" /\ w.page = c.page /\ w.reg \in AmpRegs ->
         [c EXCEPT !.regs[w.reg] = w.val]
    [] OTHER -> c

Playing == \A r \in AmpRegs : chip.regs[r] = "play"
Muted   == \A r \in AmpRegs : chip.regs[r] = "quiet"

-----------------------------------------------------------------------------
(***************************************************************************)
(* File operations.  ioctl returns at once; read and write take the        *)
(* semaphore and give it back.                                             *)
(***************************************************************************)
otherThanTask == <<earInject, workVars, pm, chipVars>>

Goto(t, from, to) ==
  /\ pc[t] = from
  /\ pc' = [pc EXCEPT ![t] = to]

Open(t) ==
  /\ pm = "on"
  /\ Goto(t, "closed", "open")
  /\ UNCHANGED <<sem, otherThanTask>>

Release(t) ==
  /\ pm = "on"
  /\ Goto(t, "open", "closed")
  /\ UNCHANGED <<sem, otherThanTask>>

Call(t) ==
  /\ pm = "on"
  /\ Goto(t, "open", "down")
  /\ UNCHANGED <<sem, otherThanTask>>

Down(t) ==
  /\ sem > 0
  /\ sem' = sem - 1
  /\ Goto(t, "down", "up")
  /\ UNCHANGED otherThanTask

\* Mutant: the interrupted path calls up() too.
InterruptUps(t) ==
  /\ Goto(t, "down", "open")
  /\ sem' = sem + 1
  /\ UNCHANGED otherThanTask

Interrupt(t) ==
  /\ Goto(t, "down", "open")
  /\ UNCHANGED <<sem, otherThanTask>>

Up(t) ==
  /\ Goto(t, "up", "open")
  /\ sem' = sem + 1
  /\ UNCHANGED otherThanTask

\* A task that is not frozen switches the npca110, whose driver sets or clears
\* the flag.
Npca110Switches ==
  /\ pm \in {"on", "freezing"}
  /\ earInject' = ~earInject
  /\ UNCHANGED <<taskVars, workVars, pm, chipVars>>

-----------------------------------------------------------------------------
(***************************************************************************)
(* The worker of ntp8230_wq; nothing runs while the system is asleep.      *)
(***************************************************************************)
otherThanWorker == <<taskVars, earInject, pm>>

\* The function of w begins to send tables.
Program(w, tables) ==
  /\ pm # "asleep"
  /\ Queue!StartWork(w)
  /\ todo' = tables
  /\ clean' = (chip.page = 0)
  /\ stray' = FALSE
  /\ UNCHANGED <<otherThanWorker, chip>>

StartInit == Program("init", InitTables)

StartResume == Program("resume", InitTables)

\* Mutant: the flag is read the other way round.
StartSuspendInverted == Program("suspend", IF earInject THEN MuteTables ELSE <<>>)

\* getEarInjectFlag() keeps an amplifier with an injected input sounding.
StartSuspend == Program("suspend", IF earInject THEN <<>> ELSE MuteTables)

\* One word reaches the chip.
WriteWord ==
  /\ todo # <<>>
  /\ pm # "asleep"
  /\ LET table == Head(todo)
         w     == Head(table)
     IN  /\ chip' = ChipAfter(chip, w)
         /\ stray' = (stray \/ (w.kind = "write" /\ w.page # chip.page))
         /\ todo' = IF Len(table) = 1 THEN Tail(todo)
                    ELSE << Tail(table) >> \o Tail(todo)
  /\ UNCHANGED <<otherThanWorker, pending, running, clean>>

\* Mutant: a lost word starts the whole program again.
WriteFailsRestarts ==
  /\ I2cMayFail
  /\ todo # <<>>
  /\ pm # "asleep"
  /\ todo' = InitTables
  /\ clean' = FALSE
  /\ UNCHANGED <<otherThanWorker, pending, running, chip, stray>>

\* All three attempts fail: the rest of this table is not sent, the tables
\* after it are, for no result is looked at.
WriteFails ==
  /\ I2cMayFail
  /\ todo # <<>>
  /\ pm # "asleep"
  /\ todo' = Tail(todo)
  /\ clean' = FALSE
  /\ UNCHANGED <<otherThanWorker, pending, running, chip, stray>>

EndWork ==
  /\ running # "none"
  /\ todo = <<>>
  /\ pm # "asleep"
  /\ Queue!FinishWork
  /\ UNCHANGED <<otherThanWorker, todo, chipVars>>

-----------------------------------------------------------------------------
(***************************************************************************)
(* Power management.                                                       *)
(***************************************************************************)
otherThanPM == <<taskVars, earInject, running, todo, chipVars>>

PMGoto(from, to) ==
  /\ pm = from
  /\ pm' = to

Freeze ==
  /\ PMGoto("on", "freezing")
  /\ UNCHANGED <<otherThanPM, pending>>

FreezeAborted ==
  /\ PMGoto("freezing", "on")
  /\ UNCHANGED <<otherThanPM, pending>>

AllFrozen ==
  /\ PMGoto("freezing", "frozen")
  /\ \A t \in Tasks : pc[t] \in {"closed", "open"}
  /\ UNCHANGED <<otherThanPM, pending>>

\* ntp8230_suspend: cancel_work_sync(&ntp8230_resume_work), ...
CancelResume ==
  /\ PMGoto("frozen", "cancelled")
  /\ Queue!GrabPending("resume")
  /\ UNCHANGED otherThanPM

ResumeCancelled ==
  /\ PMGoto("cancelled", "flush")
  /\ Queue!NotExecuting("resume")
  /\ UNCHANGED <<otherThanPM, pending>>

\* ... flush_workqueue(ntp8230_wq), queue_work(&ntp8230_suspend_work).
QueueSuspend ==
  /\ PMGoto("flush", "suspended")
  /\ Queue!Flushed
  /\ Queue!QueueWork("suspend")
  /\ UNCHANGED otherThanPM

\* The rest of the system follows and the machine stops ...
Sleep ==
  /\ PMGoto("suspended", "asleep")
  /\ UNCHANGED <<otherThanPM, pending>>

\* ... until it is woken up, or the suspend fails in another driver.
Wake ==
  /\ pm \in {"suspended", "asleep"}
  /\ pm' = "waking"
  /\ UNCHANGED <<otherThanPM, pending>>

\* Mutant: the resume neither cancels the mute nor waits for it.
CancelSuspendForgotten ==
  /\ PMGoto("waking", "resumed")
  /\ Queue!QueueWork("resume")
  /\ UNCHANGED otherThanPM

\* ntp8230_resume: cancel_work_sync(&ntp8230_suspend_work), ...
CancelSuspend ==
  /\ PMGoto("waking", "uncancelled")
  /\ Queue!GrabPending("suspend")
  /\ UNCHANGED otherThanPM

SuspendCancelled ==
  /\ PMGoto("uncancelled", "unflush")
  /\ Queue!NotExecuting("suspend")
  /\ UNCHANGED <<otherThanPM, pending>>

\* Mutant: the resume queues nothing.
QueueResumeForgotten ==
  /\ PMGoto("unflush", "resumed")
  /\ Queue!Flushed
  /\ UNCHANGED <<otherThanPM, pending>>

\* ... flush_workqueue(ntp8230_wq), queue_work(&ntp8230_resume_work).
QueueResume ==
  /\ PMGoto("unflush", "resumed")
  /\ Queue!Flushed
  /\ Queue!QueueWork("resume")
  /\ UNCHANGED otherThanPM

Thaw ==
  /\ PMGoto("resumed", "on")
  /\ UNCHANGED <<otherThanPM, pending>>

-----------------------------------------------------------------------------
\* The end of a successful ntp8230_probe.
Init ==
  /\ pc = [t \in Tasks |-> "closed"]
  /\ sem = SemInit
  /\ earInject = FALSE
  /\ pending = <<"init">>
  /\ running = "none"
  /\ todo = <<>>
  /\ pm = "on"
  /\ chip = [page |-> 0, regs |-> [r \in AmpRegs |-> "unset"]]
  /\ clean = FALSE
  /\ stray = FALSE

TaskNext(t) ==
  Open(t) \/ Release(t) \/ Call(t) \/ Down(t) \/ Interrupt(t) \/ Up(t)

WorkerNext ==
  \/ StartInit \/ StartResume \/ StartSuspend
  \/ WriteWord \/ WriteFails \/ EndWork

SuspendNext == CancelResume \/ ResumeCancelled \/ QueueSuspend

ResumeNext == CancelSuspend \/ SuspendCancelled \/ QueueResume \/ Thaw

PMNext ==
  \/ Freeze \/ FreezeAborted \/ AllFrozen
  \/ SuspendNext \/ Sleep \/ Wake \/ ResumeNext

Next ==
  \/ \E t \in Tasks : TaskNext(t)
  \/ Npca110Switches
  \/ WorkerNext
  \/ PMNext

Spec == Init /\ [][Next]_vars

(***************************************************************************)
(* Fairness: the worker is scheduled, and a suspend or a resume that has   *)
(* begun goes on by itself.  Nothing makes the system sleep or wake up.    *)
(***************************************************************************)
Fairness ==
  /\ WF_vars(WorkerNext)
  /\ WF_vars(SuspendNext)
  /\ WF_vars(ResumeNext)

FairSpec == Spec /\ Fairness

-----------------------------------------------------------------------------
WordSet ==
  {Select(p) : p \in {0, 3, 4}}
    \cup {Write(p, "other", "any") : p \in {0, 3, 4}}
    \cup {Write(p, r, v) : p \in {0, 3, 4}, r \in AmpRegs, v \in {"play", "quiet"}}

PMStates == {"on", "freezing", "frozen", "cancelled", "flush", "suspended",
             "asleep", "waking", "uncancelled", "unflush", "resumed"}

\* Every variable holds a value of its kind, and no call gives back a permit
\* it did not take.
TypeOK ==
  /\ pc \in [Tasks -> {"closed", "open", "down", "up"}]
  /\ sem \in 0..SemInit
  /\ earInject \in BOOLEAN
  /\ Queue!QueueTypeOK
  /\ todo \in Seq(Seq(WordSet) \ {<<>>})
  /\ pm \in PMStates
  /\ chip \in ChipSet
  /\ clean \in BOOLEAN
  /\ stray \in BOOLEAN

Busy(w) == Queue!IsPending(w) \/ running = w

\* The mute of a suspend is over, or cancelled, before the resume lets anything
\* else run: it never silences an amplifier the resume has un-muted.  And the
\* un-mute of a resume is over before the next suspend queues the mute: it
\* never undoes it.
MutesOnlyAsleep ==
  /\ Busy("suspend") => pm \in {"suspended", "asleep", "waking", "uncancelled", "unflush"}
  /\ pm \in {"suspended", "asleep"} => ~Busy("init") /\ ~Busy("resume")

\* The flag getEarInjectFlag() gave to the mute of a suspend still stands at
\* its last write: no switch comes between, though nothing locks the flag.
MuteSeesOneFlag == [][running = "suspend" => UNCHANGED earInject]_vars

\* When the queue has run dry, an amplifier whose last program went through
\* plays if the system is up, and is mute if the system is suspended with no
\* input injected.
AmpFollowsPower ==
  clean /\ running = "none" /\ pending = <<>> =>
    /\ pm \in {"on", "freezing"} => Playing
    /\ pm \in {"suspended", "asleep"} /\ ~earInject => Muted

\* A program that began on page 0 and has lost no word so far has written
\* every word on the page it is for.
CleanProgramsLand == clean => ~stray

\* ntp8230_suspend returns: cancelling and flushing cannot block it for good.
SuspendReturns == pm = "frozen" ~> pm = "suspended"

\* Every wake-up ends in a complete run of the resume work, unless the next
\* suspend comes first.
ResumeProgramsAmp ==
  pm = "waking" ~> (running = "resume" /\ todo = <<>>) \/ pm = "cancelled"

==============================================================================
