# A TLA+ model of the sounder stack

PartCode is the audio-switch part of an Android 5.1 device (Allwinner A33):
two Linux character drivers for an audio DSP (npca110) and a class-D amplifier
(ntp8230), a HAL module, the framework service above it, and a small test
application. The core of the code is not large, but nearly everything that can
go wrong in it goes wrong *between* two of its parts: a user task and a work
item on the same bus, a suspend and the work it left behind, a bus error and
the state kept about the chip, a failed `open()` and a mutex.

This directory models that core: TLA+ modules that follow the code, TLC
configurations that check them on small instances, and TLAPS proofs of what
holds for every instance. Paths below are relative to `src/oasis/`; the two
drivers are in `lichee/linux-3.4/drivers/sounder/`.

* [Inventory](#inventory)
* [The modules](#the-modules)
* [What the runs show](#what-the-runs-show)
* [Fairness](#fairness)
* [What is proved](#what-is-proved)
* [Where code and comments disagree](#where-code-and-comments-disagree)
* [What is not modelled, and what is left](#what-is-not-modelled-and-what-is-left)

## Inventory

    SoundSetting app          aux_switch(0 | 1)
        |  in-process
    SoundManager              cached per Context by SystemServiceRegistry
        |  binder
    SoundService              in system_server, registered by SystemServer
        |  JNI                sound_init, AuxSwitch
    HAL: sound.c              SoundWaySwitch: lock, open, ioctl, close, unlock
        |  system call
    npca110 driver            ioctl, work items, suspend/resume ---> codec, DSP
        |  getEarInjectFlag()
    ntp8230 driver            work items, suspend/resume ----------> amplifier

| component | state it keeps | operations | what makes it correct |
|---|---|---|---|
| **npca110 driver** (`npca110/npca110.c`) | `sem`, `earInject`, the levels of `ps_pin`, `pa_pin`, `rs_pin`, the queue of `npca110_wq`; the codec registers in the chip | open, release, read, write, ioctl; `npca110_init_events`, `npca110_suspend_resume` (work items); suspend, resume | permits are conserved; flag, pins and codec agree; nothing is under way while the system sleeps; calls return; a resume restores the input |
| **npca110 command sender** (`Npca110_SendCmd`, `npca110_i2c_write`, tables of `npca110.h`) | loop index, attempts left, `pll_cmd_done`; the DSP's place in its command stream, its clocks and what it has been given | send a table, one three-byte word after the other, three attempts each | words arrive in order, none left out; the DSP never takes data for a command; PLL commands are 250 us apart; its clock runs; it is set to work only when configured; the call ends |
| **ntp8230 driver** (`ntp8230/ntp8230.c`, tables of `ntp8230.h`) | `sem`, the queue of `ntp8230_wq`; page and registers in the chip | open, release, read, write, ioctl; `ntp8230_init_events`, `ntp8230_suspend_event`, `ntp8230_resume_event`; suspend, resume | every table goes to its page; a mute never follows an un-mute; the amplifier plays when awake and is mute when asleep |
| **loading of both drivers** (`*_i2c_init`, `*_detect`, `*_probe`, `*_i2c_remove`, `*_i2c_exit`) | `npca110_dev`, `npca110_class`, `client`, work queue, the return value `ret`; what of region, memory, cdev, class, node and driver is held | load, probe, unload; the pins of `sys_config` | a resource is held once and released once; a failed init is reported; what is gone is not used |
| **sound HAL** (`hardware/libhardware/modules/sound/sound.c`) | mutex `s_lock`, global `fd` | `sound_open`, `sound_close`, `SoundWaySwitch` | one switch at a time; every file closed by the call that opened it; the mutex given back |
| **JNI** (`com_android_server_sound_SoundService.cpp`, `onload.cpp` in `services/core/jni/`) | `sound_device` | `JNI_OnLoad`, `sound_init`, `AuxSwitch` (clamps the way) | answers -1 without effect, or the result of the switch |
| **SoundService, SoundManager, ISoundService** | `mService` | construct, `AuxSwitch`, `aux_switch` | a call switches once or is refused |
| **SystemServer, SystemServiceRegistry** | table of services; the cached manager of each context | construct and publish the service; register, look up and cache | one manager per context; a manager made is a manager that works |
| **SoundSetting** | none of its own | two buttons: `aux_switch(1)`, `aux_switch(0)` | - |
| **sounder_config** | the pins a board must name | - | `sounder_config.c` is not compiled: no Makefile names it |
| **sepolicy, `ueventd.rc`, makefiles, Kconfig** | static | - | `ueventd.rc:16-17` gives the nodes mode 0666: any process may call the drivers |

How they interact, and what is hard about it:

* *Shared bus.* A table is up to 1797 I2C messages; the I2C core makes one
  message atomic, nothing makes a table atomic. `dev->sem` is initialised to 6,
  so it does not keep two ioctls apart, and the work items do not take it.
* *Deferred work.* Both drivers own a single-thread workqueue that is not
  frozen with the tasks. What a suspend or a resume queues runs later, next to
  whatever comes then.
* *Shared flag.* `earInject` is written by ioctl, read by the npca110 worker
  and suspend, and read by the ntp8230 worker through `getEarInjectFlag()`;
  nothing locks it.
* *Failures.* A word is tried three times 30 ms apart; a failure ends the
  table. Hardly any caller looks at the result.
* *Locks across returns.* `SoundWaySwitch` has a return between lock and
  unlock.
* *Half-done set-up and tear-down.* Init takes seven things in turn and may
  fail at each; files may be open and work queued while it, or exit, goes on.
  Three of its failure paths report success.
* *Modules of modules.* `ntp8230.ko` calls a function exported by
  `npca110.ko`, which pins the module but not what the module has allocated.
* *Caches.* A context asks for the service once, whenever that is, and keeps
  the manager it made.

The list of hazards, each at its line and with the properties that watch it,
is in `PROJECT.json`.

## The modules

| module | models | composed of |
|---|---|---|
| `WorkQueue` | the kernel's single-thread workqueue, as the drivers use it (external) | - |
| `TableTransfer` | abstract: a table is sent word by word, in order, then the next | - |
| `Npca110` | the npca110 driver from the end of a successful probe on | `WorkQueue` |
| `CommandTables` | the tables of `npca110.h` that the driver's code names, word by word | - |
| `SendCmd` | `Npca110_SendCmd` with every attempt and delay, its callers one after the other, the DSP that parses the words | `CommandTables`; implements `TableTransfer` |
| `Ntp8230` | the ntp8230 driver from the end of a successful probe on | `WorkQueue` |
| `DriverLifecycle` | module init, detect, probe, remove and exit of both drivers, with what uses them meanwhile | - |
| `AuxSwitchService` | abstract: a call switches at one instant, or is refused | - |
| `SoundHal` | JNI and HAL under several binder threads | implements `AuxSwitchService` |
| `SoundBoot` | how the service comes up and how a context gets its manager | - |
| `MC...` | instances for TLC, and the properties that quote a comment | the module of that name |
| `...Proofs` | theorems and lemmas | the module of that name |

Some operators are variants of the one below them and say so ("Mutant: ...").
No specification uses them. Each is a plausible slip in the code, kept to show
that a property notices it: with the variant put in the place of the operator,
the property fails.

**`Npca110`.** Three kinds of actors: user tasks (`Open`, `Call`, `Down`,
`Interrupt`, ... `Up`), the worker (`StartInit`, `StartSure`, `ReleaseReset`,
`ChooseTable`, `EndWork`) and the power-management core (`Freeze` ... `Thaw`).
An ioctl is cut where another actor can get in between: at
`down_interruptible`, after each word, between raising `ps_pin` and setting the
flag, before `up`. Read, write and unknown commands do nothing but take and
return the semaphore and are one kind of call, `"other"`. `npca110_suspend` is
cut at each thing it waits for; user tasks are frozen outside the kernel before
it starts, which is how Linux suspends. The codec is a small automaton: a
register index, then a datum; a word out of turn leaves it `"torn"`, and what
the chip does then is not in the repository, so nothing but the reset pin
brings it back. Of the start-up table the model keeps the write that selects
the input and the three latch writes, between two untracked registers.

A word has three attempts (`retry`). `Transfer` is one that is acknowledged,
`AttemptFails` one that is not: the word did not reach the chip, or it did and
only the acknowledgement was lost, and then the next attempt brings it a second
time. `SendCmd` returns 0 all the same, and the codec has taken an index for a
datum. A chip held in reset acknowledges nothing; its pulse of 5 ms is shorter
than the 30 ms between two attempts, so on a bus that works it costs one
attempt. `solo` is a history variable; it says that the last switch or restore
had the bus to itself, started on a codec in step, lost no word and sent none
twice.

**`CommandTables`.** A table is a sequence of sections, a section a sequence of
commands with the number of data words each announces, transcribed from
`npca110.h`. Settings whose bits go to parts of the chip no property looks at
are one command, `"Set"`. `MaxxAudio_Cmd_music1_FULL` is 1797 words when
`PatchWords = 1250` and `XWrites = 136`.

**`SendCmd`.** Calls of `Npca110_SendCmd` one after the other, as the work
items and ioctl make them (`SendStartUp`, `ResetChip` and `SendRestore`,
`SendSwitch`), in any order and any number; calls that overlap are the subject
of `Npca110`. `npca110_init_events` spells out three start-ups, the one in
force and two that are commented out. The constant `StartUps` says which are
considered: `AsCompiled` is the one in force, `AnyStartUp` all three, so that
what is shown survives the edit the comments offer; nothing is called a
violation of the code on account of a line that is commented out. A failed
attempt may or may not have reached the chip (a lost acknowledgement), so a
word may arrive up to three times. `pll_cmd_done` and the delay it causes
follow the loop body line by line; `pause` is the time the driver has let pass
since a word arrived, in the three sizes the code makes. `lost` and `twice` are
history variables. What the DSP makes of the words (`DspAfter`) is what the
header says of its commands; a word taken for what it is not garbles it until
its reset.

**`Ntp8230`.** The work items are lists of tables (`todo`). A failed write
drops the rest of its table and goes on with the next, as the ignored results
in `ntp8230_init` do; page selections are tables of one word. Of the registers
the three that decide whether the amplifier sounds are kept, and for all of
them the page they belong to. `earInject` belongs to the other driver and
changes whenever tasks may run. A resume can start before the machine has slept
(another driver refused to suspend), and the worker stops while it sleeps.
`clean` and `stray` are history variables.

**`DriverLifecycle`.** One set of actions, parameterised by the driver, for the
two init functions, which are the same code but for names; where they differ
(`Works`, `FirstUses`, `npca110_detect`, `npca110_Misused`, ...) the operator
says so. `phase` is a place in the code: the resource init takes next
(`Following`), a label, a step of exit. `Label` names the label a failure jumps
to, `Released` what each label gives back, `Below` the one it falls through to;
`held` is what has been acquired and not given back, and none of the three
looks at it. To give back what is not held is an invalid use (`Release`). Exit
gives back piece by piece too. `ret` is the C variable. Pointers are `"null"`,
`"live"` or `"freed"`. The first invalid use (a NULL or freed pointer, a
semaphore that is not initialised, a release of what is not held) is recorded
in `oops` and ends the behaviour: the code promises nothing after it. A module
that is being loaded can be opened by a user as soon as its node exists, one
that is going cannot; an open file, and ntp8230 for npca110, keep a module from
being unloaded. At most one work item per driver is not idle, since suspend and
resume flush the queue before they queue the next. The drivers can only be
modules: both `.c` files include `sounder_config.h`, which defines
`config_info`, so they cannot be linked into one kernel. `i2c_add_driver`
returns 0 whether or not a probe succeeds, and detect finds a client only on
adapter 1.

**`SoundHal`.** A binder thread goes through JNI and `SoundWaySwitch`, cut at
lock, open, entry and return of ioctl, close and unlock. `open` and `ioctl` are
retried while interrupted (`TEMP_FAILURE_RETRY`), which changes nothing here.
`fd` is the global it is in the code and holds the thread whose `open()`
produced the number.

**`SoundBoot`.** The main thread of system_server loads the library, makes its
context, constructs `SoundService` (which opens the HAL), publishes it and lets
applications start. The `try` block in which it does so starts many other
services; the `RuntimeException` of any of them, before or after the sound
service, is caught and skips the rest of the block (`RuntimeException`). The
boot then goes on to `systemReady`, which stops it if the window manager was
among what was skipped; it is the last service the model needs of that block.
Threads ask contexts for a `SoundManager` under the lock of the cache (`Enter`,
then `Cached` or `GetService` and `Store`) and use it. `SoundNativeInit`
answers 0, which is `false`, when it succeeds and -1, which is `true`, when it
does not; nobody looks at it, so only `sound_device` is kept. A context of
system_server itself may ask before the service is published.

**Types of the code that became sets.** A work item, a table, a register and a
value are names; times are the three delays that matter; the semaphore's count,
word positions and the data counts of commands are numbers. Nothing in the
modelled code is near the width of its integers.

## What the runs show

| run | instance | checks |
|---|---|---|
| `npca110_two_tasks` | 2 tasks, 6 permits, a bus that may fail the restore, any number of calls and of suspends | `TypeOK`, `SemAccounting`, `QuietWhenSuspended`, `InjectPower`, `RouteMatchesFlag` |
| `npca110_live` | 2 tasks, 1 permit, a bus that works | `CallsReturn`, `SuspendReturns`, `RestoreRuns` |
| `ntp8230_power` | 2 tasks, failing bus | `TypeOK`, `MutesOnlyAsleep`, `MuteSeesOneFlag`, `AmpFollowsPower`, `CleanProgramsLand`, `SuspendReturns`, `ResumeProgramsAmp` |
| `sendcmd_failures` | all start-ups and switches, patch and generic writes shortened, failing bus | `TypeOK`, `PLLCommandsSpaced`, `ClockSourceRuns`, `StartsConfigured`, `StartUpCompletes`, `CallShortens`, `CallReturns`, `TransferSpec` |
| `sendcmd_compiled` | the start-up in force and all tables at full length, failing bus | `FramingKept`, `StartsConfigured`, `StartUpCompletes` |
| `lifecycle_modules` | both drivers, every acquisition may fail, pins and chips may be missing | `TypeOK`, `AllOrNothing`, `WorkNeedsQueue`, `InvalidUsesExplained` |
| `soundhal_calls` | 3 binder threads, ways -1..2, failing open | `TypeOK`, `OneAtATime`, `FilesReturned`, `LockAccounted`, `SwitchSpec`, `LockReleased` |
| `soundboot_contexts` | 2 threads, a context of system_server and one of an application | `TypeOK`, `OneManager`, `AppsHaveTheService`, `ServiceIsConstructed` |
| `npca110_race_callers` | 2 tasks | `InjectedMeansAux2`: violated |
| `ntp8230_page_lost` | 1 task, failing bus | `TablesOnTheirPage`: violated |
| `lifecycle_failed_init` | as `lifecycle_modules` | `LoadedIsWhole`: violated |
| `soundhal_lock_lost` | 1 thread, failing open | `CallsAnswered`: violated |

In words:

* `SemAccounting`: no path through read, write and ioctl loses or invents a
  permit, the interrupted ones included.
* `QuietWhenSuspended`: when `npca110_suspend` has returned, no call, no work
  item, no transfer and no reset is under way. That takes all of freeze, cancel
  and flush.
* `InjectPower`: the flag never says "injected" while `ps_pin` is down, and
  never, from a suspend on, while `pa_pin` is. The order of the two writes in
  ioctl and the read in suspend matter.
* `RouteMatchesFlag`: a switch or restore that had the bus to itself, started
  on a codec in step and got each word across exactly once leaves the codec on
  the input of the flag, whatever happened before it. Attempts that did not
  reach the chip do not matter. None of the conditions can be dropped: the
  violated run shows it of "to itself", and a lost acknowledgement tears the
  codec in a call that returns 0.
* `TransferSpec`: a table gets to the bus in order with no word left out,
  however often a word is retried.
* `SuspendReturns`: a suspend gets through cancel and flush, whatever the worker
  has still to send.
* `RestoreRuns`, `ResumeProgramsAmp`: no resume is forgotten; once the system is
  awake its work runs, unless the next suspend comes first.
* `MutesOnlyAsleep`: a mute is over or cancelled before anything un-mutes, and
  an un-mute is over before the next mute is queued. `MuteSeesOneFlag`: hence
  the flag a mute has read still holds at its last write, though nothing locks
  it. `AmpFollowsPower`: hence an idle amplifier plays when the system is up and
  is mute when it is down, unless an input is injected or a word was lost.
* `CleanProgramsLand`: a program that began on page 0 and lost nothing has
  written every word on its page.
* `PLLCommandsSpaced`: the delay that `npca110.h:2990` asks for is made after
  every PLL setting, over failed attempts and lost acknowledgements too.
  `FramingKept`: data is never taken for a command. `ClockSourceRuns`: wherever
  a start-up breaks off and whatever is sent next, the DSP is never clocked by
  a PLL in reset.
* `StartsConfigured`: a start-up of one table never sets the DSP to work half
  configured, wherever it breaks off and whatever words come twice;
  `StartUpCompletes`: result 0 for each table
  means it is at work, wholly configured, with no command unfinished.
  `sendcmd_compiled` shows this of the program as compiled, word by word.
* `CallShortens`: every step of a call brings its end nearer, for a table of n
  words after at most 4 n steps; with fairness that is `CallReturns`.
* `AllOrNothing`, `WorkNeedsQueue`: a failure of init jumps to the label that
  releases exactly what was taken, so that when the labels, or exit, are
  through nothing is left and the pointers say so; and no work outlives its
  queue. `InvalidUsesExplained`: the ways in
  which the drivers use what is not there are those the property lists, all
  on failure paths, during loading or in exit; every other order of load,
  probe, use, suspend and unload is free of them.
* `FilesReturned`, `LockAccounted`, `LockReleased`, `SwitchSpec`: JNI and HAL
  together are an atomic switch, and a failed open is the only way to lose the
  mutex.
* `OneManager`, `AppsHaveTheService`, `ServiceIsConstructed`: a context makes one
  manager for all its threads; an application never caches one without the
  service, though an exception of another service can leave it unpublished,
  while a context of system_server can; who holds the service finds it
  constructed.

Bounds. `Tasks` is two because every conflict in the driver is between two
senders, and with the worker there are three; both the six permits of the code
and a single one are used, the latter so that callers wait at all. There is no
bound on the number of calls, suspends or failures: the states are finite
because the semaphore, the tables and the queue are. In both npca110 runs the
two supply pins start low, the levels under which an injected input could be
without power. In `npca110_two_tasks` (`SafetySpec`) attempts of the restore
may fail in both ways and every other table gets through, and the tasks make
switching calls only, the `"other"` calls being part of `npca110_live`; the
proofs of the same invariants are about `Spec`, where any sender may lose words
and acknowledgements. In `npca110_live` one task calls AUX1_TO_AUX2 and the
other AUX2_TO_AUX1, and the only attempts that fail are those on a chip in
reset: a failure ends a table early or after three attempts, and that these end
is `CallShortens` and `CallReturns`. In `sendcmd_failures` the patch has 6
words and the generic writes are 4: with lost acknowledgements each of 1250
patch words may be taken up to three times and the states multiply, while a
word of the patch is like the next; the proofs are for every length.
`sendcmd_compiled` has the tables at their full length, with the start-up in
force. In the lifecycle runs any set of the entries of `sys_config` may be
missing; nothing is bounded there. Three threads in `soundhal_calls` are one
that works, one that waits and one that overtakes it; in `soundboot_contexts`
two threads are enough for a race in one cache, and the two kinds of contexts
differ only in when they may ask. Symmetry is used in `npca110_two_tasks`,
which has no liveness property. `CHECK_DEADLOCK FALSE` stands where the system
really may stop: after a failed open the threads of `SoundHal` wait for ever,
an invalid use ends `DriverLifecycle`, and an exception may end system_server
in `SoundBoot`.

## Fairness

* Threads that can run are scheduled: weak fairness of the steps a task, the
  worker or a binder thread takes on its own, and of the steps of a suspend or
  resume under way. A transfer ends: the I2C core has a timeout.
* `Down` is strongly fair: `up()` gives the semaphore to the longest waiter, so
  a caller is not passed by for ever.
* Taking `s_lock`, or the lock of a cache, is weakly fair only: a mutex may be
  taken by others again and again. So `SoundHal` claims `LockReleased` and no
  more.
* No task must make a call or be interrupted, no suspend must start, a freeze
  may be aborted, and nothing wakes the system up: `Resume` is under no
  fairness. `RestoreRuns` and `ResumeProgramsAmp` are about a system that does
  wake up, which the first states as a hypothesis.
* `DriverLifecycle` and `SoundBoot` claim safety only and assume no fairness.

## What is proved

Every invariant of every passing run is a theorem, and so are the two
refinements. The theorems hold for any finite set of tasks or threads, any
positive number of permits, any length of the patch and of the generic writes,
a bus that fails or not. The assumptions are those of the modules
(`NpcaAssumption`, `WorkerAssumption`, `NtpAssumption`, `TableAssumption`,
`SendAssumption`, `HalAssumption`, `BootAssumption`). In general a theorem
about `Spec` needs an invariant that says more than the property; what it says
is given here.

* `WorkQueueProofs`: queueing, grabbing and starting an item keep every item
  pending at most once; grabbing removes the item; starting takes it off.
* `Npca110Proofs`
  * `TypeCorrect`, `PermitsConserved`: `sem` is a count of permits, so
    `sem \in 0..SemInit` needs `SemAccounting`, and both go together with the
    place of each task and its call. Cardinalities of the set of holders change
    by one: `FS_AddElement` and `FS_RemoveElement`.
  * `InjectedIsPowered`: a task past `RaisePs` has `ps = 1`, and nothing takes
    the pin down.
  * `SuspendIsQuiet`: the inductive part is what each stage of a suspend has
    established: tasks out of the kernel from `"frozen"` on, the restore no
    longer pending from `"cancelled"` on, and, since the worker may still have
    to run the start-up work, an empty queue from the flush on only. The
    worker's place, the reset pin and its table are tied to the running item.
  * `UndisturbedSwitchRoutes`: the strengthening says, for a `solo` sender and
    each word of its table, what the codec holds; `Begin` and the idleness of
    all others give the base case. Of the attempts only an acknowledged one
    and one that did not reach the chip keep `solo`, and the second leaves the
    codec as it is.
* `CommandTablesProofs`
  * `TablesWellFormed`: a sequence of words is `WellFormed` when each command is
    followed by as many data words as it announces, none is cut off at the end,
    and the clock settings come in an order that is safe: "pll" is chosen right
    behind the setting that makes the PLL run, and the PLL is reset right behind
    the choice of the crystal. Each section is well formed, and well-formed
    sequences put together are; so every table is, however long its patch.
  * `WholeStartUps`: each start-up of one table has a position such that what
    stands before it gives every part of the configuration and has chosen the
    PLL for good, and the end of the set-up comes after it (`ConfiguredBefore`);
    nothing in the table begins a set-up again (`CompletedAt`). Of the start-up of three tables
    `PartStartUp` says which part each contributes. Both are put together from
    what the sections name, give and leave the clock at.
* `SendCmdProofs`
  * `TypeCorrect`: `Inv1` ties the loop index, the attempts left, the table and
    the newest word in the chip to the place in the loop.
  * `SettingsAreSpaced`: `Delays` says, of the round after a PLL setting, that
    `pll_cmd_done` is set or the delay has been made, in both places of the
    loop and whether or not the acknowledgement was lost.
  * `FramingIsKept`: as long as no word was lost or came twice, the data words
    the DSP still waits for are those the table has due at the newest word that
    arrived (`Framing`), by `TablesWellFormed`.
  * `ClockSourceAlwaysRuns` does not assume that: `Remembered` says what a DSP
    in step keeps of the last three words of the table, and a DSP out of step
    is garbled and back on its crystal.
  * `StartsOnlyConfigured` and `CompleteStartUpConfigures`: each word of a
    start-up table has an effect on a DSP that is in step, and keeps it
    whatever the driver sends after it (`Effect`): its part of the
    configuration is given or still coming in, the clock is the PLL, the set-up
    is over. `SoFar` says so of all words of the start-up that are known to
    have arrived: those of the tables that returned 0 and those of the table
    being sent. `Order` ties the table to its place in the start-up. `AtWork`
    then says of a DSP that works: the word that ends the set-up is among
    those that arrived, and with it, by `WholeStartUps`, all that comes before.
  * `EveryStepShortensTheCall`: `StepsLeft` counts the words to come and the
    attempts left for this one. The number is finite for every length of the
    table, so all that `CallReturns` adds is that the loop is executed.
  * `TablesAreTransferred`: the refinement. The abstract table ends when the
    last word is in the chip, before the call returns.
* `Ntp8230Proofs`
  * `TypeCorrect`; `MutesAndUnmutesApart`, whose inductive invariant `Safe8`
    says at which stages of the cycle which items may be pending or running;
    `MuteActsOnOneFlag` follows from it, since a task that could switch is
    frozen in all these stages.
  * `CleanProgramsReachTheirPages`: `OnPages` says of the tables left to send
    that each is for one page, and that one which does not begin with a page
    selection is for the page selected before it. The two programs have it on
    page 0, and a word that lands leaves the rest with it.
  * `AmplifierFollowsPower`: `Settles` says of the words left to send that they
    will leave each of the three registers at one value. `Heading` ties the
    value to the stage of the suspend/resume cycle while an item runs, and when
    the queue is empty; while an item is only pending nothing is claimed. Which
    item may run in which stage is `MutesOnlyAsleep`.
* `DriverLifecycleProofs`: `TypeCorrect`, `LabelsReleaseAllOrNothing`,
  `WorkHasItsQueue` and `UsesAreExplained`, from one invariant, `Places`, kept
  by every action for the driver that acts (`StepInPlace` deals with the
  other). For each place of init and exit it says which resources are held
  (`HeldInPhase`): during init, what comes before the resource it takes next
  (`Before`); at a label, what that label and those below it release
  (`HeldAt`). `LabelFacts` says that each failure jumps to the label for which
  the two agree, `BelowFacts` that each label hands the one below it what that
  one releases; a label that was one off would break the first, a release left
  out the second. The semaphore counts as held until its memory goes. The
  memory and class pointers are live exactly while what they point to is held
  (`PointersFollow`); an open file came by a node, so the semaphore is set up
  unless init is just about to do it (`FileHolds`); a queue is a probed
  driver's and its work is in it (`QueueHolds`); and npca110 is loaded as long
  as ntp8230 is (`LoadOrder`). What a use finds missing is then one of the
  explained cases, by `OwnMemory` and `FlagMemory` for a work item that reaches
  for its own driver's memory or for the flag in npca110's.
* `SoundHalProofs`: `TypeCorrect`; `LockIsAccounted` and
  `SwitchesOneAtATime` from "a thread between lock and unlock is the holder";
  `FilesAreReturned` from that and "its `fd` is its own"; `CallsAreSwitches`,
  the refinement: only `IoctlReturns`, `NoDevice` and `OpenFails` move the
  abstract call.

* `SoundBootProofs`: `TypeCorrect`; `OneManagerPerContext`, since a thread
  between the look at the cache and the store holds the lock of its context
  (`Locked`), finds the cache as empty as before (`Stored`) and so makes the
  manager number one (`Numbered`); `AppsAreServed` and
  `ServiceComesConstructed` from the order of the boot (`BootOrder`: the window
  manager is started after the service is published, and a boot without it
  does not get ready) and from "who asks for an application asks when the boot
  is over" (`Served`).

Only model-checked: all liveness properties and everything under fairness (the
proof system has no rules for `ENABLED` here), and the violated properties,
which are counterexamples. `DriverLifecycle` has no parameters but the choice of
its initial state, and `lifecycle_modules` begins in each of them: there the run
is exhaustive too, and what the proof adds is the reason.

## Where code and comments disagree

Found while modelling; each is a run TLC ends with a counterexample.

1. `npca110.c:279` says of AUX1_TO_AUX2 "audio input from aux1 to aux2 ,
   connect , injected". The flag and the codec part company when two ioctls
   interleave their words, since `dev->sem` is initialised to 6
   (`npca110_race_callers`). That needs a caller other than system_server,
   whose calls `OneAtATime` keeps apart. The same property fails for two more
   reasons, for which no run is kept: the worker sends the start-up or the
   restore table without the semaphore, and ioctl sets pin and flag when the
   transfers have failed.
2. `ntp8230_init` ignores failed page selections: coefficient tables then go to
   another page than `ntp8230.h` names over them (`ntp8230_page_lost`).
3. Three failure paths of `npca110_i2c_init`, and of `ntp8230_i2c_init`, return
   the 0 of their last success: `npca110.c:593` announces the failure, and the
   module stays loaded with nothing (`lifecycle_failed_init`).
4. `SoundWaySwitch` returns with `s_lock` held when `open()` fails
   (`sound.c:52`): from then on no call is answered (`soundhal_lock_lost`).

Not runs, since they can be read off the code: the un-mute word asks for a fade
delay (`npca110.h:3068`) that `Npca110_SendCmd` does not make; and under a
`//TODO` `npca110_resume` lists "power on", "reset" and "init" (504-508), where
its work item resets the chip and sends one of the two converter tables, never
the start-up table again. Whether the chip keeps its configuration through
sleep and reset is not in the repository; the DSP of `SendCmd` is assumed to
lose it with the reset.

## What is not modelled, and what is left

Not modelled:

* the tables of `npca110.h` that no code names: the Standard, Resounding and
  Relaxing algorithms (lines 1857-2236), and `bMaxxDSPCommands` (2240-2963),
  which is not compiled;
* `sounder_config.c`, which no Makefile names;
* `sound_close`, which nothing calls;
* the user interface of SoundSetting, and Android's own part of SystemServer
  and SystemServiceRegistry; a crash and restart of system_server;
* sepolicy, makefiles and Kconfig, which have no behaviour;
* what the coefficients of both chips mean for the sound.

Left for the future, in this order:

1. `SounderSystem`: both drivers under one power-management core and one flag,
   to state that an injected input sounds through a sleep whatever the order in
   which the core visits the drivers. `Ntp8230` takes the flag from an
   environment that may change it whenever tasks run, so what is shown of the
   amplifier holds in the composition too.
2. For a suspend under way what `CallShortens` is for a call: a measure that
   every step of it lowers, so that only fairness is left to TLC. The worker
   of `Npca110` and of `Ntp8230` may finish an item before it, which the
   measure has to count.

Read the modules in this order: `WorkQueue`, `Npca110`, `TableTransfer`,
`CommandTables`, `SendCmd`, `Ntp8230`, `DriverLifecycle`, `AuxSwitchService`,
`SoundHal`, `SoundBoot`, and the proofs beside each.
