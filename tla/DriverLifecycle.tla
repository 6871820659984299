-------------------------- MODULE DriverLifecycle --------------------------
(***************************************************************************)
(* The two sound drivers as kernel modules: how npca110.ko and ntp8230.ko  *)
(* take what they need when they are loaded, give it back when something   *)
(* fails or when they are unloaded, and who uses it meanwhile: the probe,  *)
(* the work items, the power-management callbacks, a file that a user has  *)
(* open, and ntp8230's look at npca110's flag.                             *)
(*                                                                         *)
(* The first use of something that is not there (memory already freed, a   *)
(* NULL client) ends the behaviour: the code promises nothing beyond it.   *)
(***************************************************************************)
EXTENDS Integers, Sequences

VARIABLES
  fex,       \* the entries of the sound section of sys_config
  phase,     \* how far the module of a driver is: Phases
  ret,       \* the local ret of the driver's init function
  held,      \* what the driver has acquired and not released: Resources
  devptr,    \* npca110_dev, ntp8230_dev: "null", "live" or "freed"
  classptr,  \* npca110_class, ntp8230_class: also "error", the ERR_PTR
  client,    \* is dev->client set?
  wq,        \* does the work queue exist?
  pending,   \* the work item that is queued, or "none"
  running,   \* the work item the worker executes, or "none"
  file,      \* a user's file of the driver: "closed", "open", or "stale" when
             \* what it refers to is gone
  asleep,    \* is the system suspended?
  oops       \* the first invalid use: its kind and the driver that makes it

moduleVars == <<phase, ret, held, devptr, classptr>>
workVars   == <<pending, running>>
probeVars  == <<client, wq>>
vars == <<fex, moduleVars, probeVars, workVars, file, asleep, oops>>

Drivers == {"npca110", "ntp8230"}

\* ntp8230 calls getEarInjectFlag of npca110: it is loaded after and unloaded
\* before it.
FlagOwner == "npca110"

-----------------------------------------------------------------------------
(***************************************************************************)
(* The sys_config entries, sound_fetch_sys_config.                         *)
(***************************************************************************)
Npca110Pins == {"sound_used", "aux_pa_ctrl", "reset_pin", "ps_pin"}

Ntp8230Pins == {"sound_used", "ntp_pa_ctrl"}

Pins == [d \in Drivers |-> IF d = "npca110" THEN Npca110Pins ELSE Ntp8230Pins]

AllPins == Npca110Pins \cup Ntp8230Pins

Configured(d) == Pins[d] \subseteq fex

-----------------------------------------------------------------------------
(***************************************************************************)
(* The resources of a driver, in the order its init function takes them.   *)
(* The semaphore is part of the memory and goes with it.                   *)
(***************************************************************************)
Resources == {"region", "memory", "cdev", "class", "node", "sem", "driver"}

\* What init takes next.
Following ==
  [region |-> "memory", memory |-> "cdev", cdev |-> "class", class |-> "node",
   node |-> "sem", sem |-> "driver"]

\* The labels that give back what was taken, and the one each releases.
Labels == {"FAIL5", "FAIL4", "FAIL3", "FAIL2", "FAIL1", "FAIL"}

Released ==
  [FAIL5 |-> "node", FAIL4 |-> "class", FAIL3 |-> "cdev", FAIL2 |-> "memory", FAIL1 |-> "region"]

\* A label falls through to the one below it.
Below ==
  [FAIL5 |-> "FAIL4", FAIL4 |-> "FAIL3", FAIL3 |-> "FAIL2", FAIL2 |-> "FAIL1", FAIL1 |-> "FAIL"]

\* Mutant: a failing class_create goes one label too far.
LabelSkipsCdev ==
  [region |-> "FAIL", memory |-> "FAIL1", cdev |-> "FAIL2", class |-> "FAIL2", node |-> "FAIL4",
   driver |-> "FAIL5"]

\* Where init goes when it cannot take a resource.
Label ==
  [region |-> "FAIL", memory |-> "FAIL1", cdev |-> "FAIL2", class |-> "FAIL3", node |-> "FAIL4",
   driver |-> "FAIL5"]

Exiting == {"exit_class", "exit_memory", "exit_region", "exit_driver", "remove"}

\* Init is at the resource it takes next, or at a label.
Phases == {"off", "loaded"} \cup Resources \cup Labels \cup Exiting

\* The work items: those of the probe, of suspend and of resume.
Npca110Works == {"init", "sure"}

Ntp8230Works == {"init", "suspend", "resume"}

Works == [d \in Drivers |-> IF d = "npca110" THEN Npca110Works ELSE Ntp8230Works]

\* Mutant: npca110's resume was copied from ntp8230's.
RestoreCopied == [d \in Drivers |-> "resume"]

\* What a resume queues, and what the next suspend cancels.
Restore == [d \in Drivers |-> IF d = "npca110" THEN "sure" ELSE "resume"]

Fine == [kind |-> "none", driver |-> "none"]

Oops(d, kind) == oops' = [kind |-> kind, driver |-> d]

\* To release what is not held is an invalid use.
Release(d, resources) ==
  /\ held' = [held EXCEPT ![d] =
                @ \ IF "memory" \in resources THEN resources \cup {"sem"} ELSE resources]
  /\ IF resources \subseteq held[d] THEN UNCHANGED oops ELSE Oops(d, "release")

-----------------------------------------------------------------------------
(***************************************************************************)
(* npca110_i2c_init and ntp8230_i2c_init.                                  *)
(***************************************************************************)

\* A driver without its pins returns 0 at once.
Load(d) ==
  /\ phase[d] = "off"
  /\ d # FlagOwner => phase[FlagOwner] = "loaded"
  /\ ~asleep
  /\ phase' = [phase EXCEPT ![d] = IF Configured(d) THEN "region" ELSE "loaded"]
  /\ UNCHANGED <<fex, ret, held, devptr, classptr, probeVars, workVars, file, asleep, oops>>

Acquire(d) ==
  \E r \in Resources \ {"driver"} :
    /\ phase[d] = r
    /\ phase' = [phase EXCEPT ![d] = Following[r]]
    /\ held' = [held EXCEPT ![d] = @ \cup {r}]
    /\ ret' = [ret EXCEPT ![d] = IF r \in {"region", "cdev"} THEN 0 ELSE @]
    /\ devptr' = [devptr EXCEPT ![d] = IF r = "memory" THEN "live" ELSE @]
    /\ classptr' = [classptr EXCEPT ![d] = IF r = "class" THEN "live" ELSE @]
    /\ UNCHANGED <<fex, probeVars, workVars, file, asleep, oops>>

\* kmalloc, class_create and device_create leave no error in ret.
AcquireFails(d) ==
  \E r \in Resources \ {"sem"} :
    /\ phase[d] = r
    /\ phase' = [phase EXCEPT ![d] = Label[r]]
    /\ ret' = [ret EXCEPT ![d] = IF r \in {"region", "cdev", "driver"} THEN -1 ELSE @]
    /\ classptr' = [classptr EXCEPT ![d] = IF r = "class" THEN "error" ELSE @]
    /\ UNCHANGED <<fex, held, devptr, probeVars, workVars, file, asleep, oops>>

\* Memory that is freed takes a file that refers to it along.
Free(d) ==
  /\ devptr' = [devptr EXCEPT ![d] = "freed"]
  /\ file' = [file EXCEPT ![d] = IF @ = "open" THEN "stale" ELSE @]

\* The labels FAIL5 to FAIL1.
Undo(d) ==
  \E label \in Labels \ {"FAIL"} :
    /\ phase[d] = label
    /\ phase' = [phase EXCEPT ![d] = Below[label]]
    /\ Release(d, {Released[label]})
    /\ classptr' = [classptr EXCEPT ![d] = IF Released[label] = "class" THEN "freed" ELSE @]
    /\ IF Released[label] = "memory" THEN Free(d) ELSE UNCHANGED <<devptr, file>>
    /\ UNCHANGED <<fex, ret, probeVars, workVars, asleep>>

\* With the module go its variables.
Gone(d) ==
  /\ phase' = [phase EXCEPT ![d] = "off"]
  /\ ret' = [ret EXCEPT ![d] = -1]
  /\ devptr' = [devptr EXCEPT ![d] = "null"]
  /\ classptr' = [classptr EXCEPT ![d] = "null"]
  /\ client' = [client EXCEPT ![d] = FALSE]

\* The label FAIL: with 0 in ret the module stays.
Undone(d) ==
  /\ phase[d] = "FAIL"
  /\ \/ /\ ret[d] = 0
        /\ phase' = [phase EXCEPT ![d] = "loaded"]
        /\ UNCHANGED <<ret, devptr, classptr, client>>
     \/ ret[d] # 0 /\ Gone(d)
  /\ UNCHANGED <<fex, held, wq, workVars, file, asleep, oops>>

-----------------------------------------------------------------------------
(***************************************************************************)
(* i2c_add_driver: detect on every adapter, probe where a chip may be.     *)
(***************************************************************************)
Adapters == [nr : 0..1, smbus : BOOLEAN, i2c : BOOLEAN]

twi_id == 1

npca110_detect(adapter) == adapter.smbus /\ adapter.nr = twi_id

ntp8230_detect(adapter) == adapter.smbus /\ adapter.nr = twi_id

\* What a read over the bus gives: i2c_transfer's result and whether the bytes
\* are those of the chip; they are not when the transfer fails.
I2cReads == {[ret |-> 2, ours |-> TRUE], [ret |-> 2, ours |-> FALSE], [ret |-> -1, ours |-> FALSE]}

npca110_i2c_check(version) == IF version.ours THEN 1 ELSE version.ret

\* The test read before the chip id decides nothing.
ntp8230_i2c_check(test, id) == IF id.ours THEN 1 ELSE id.ret

Detects(d, adapter) ==
  IF d = "npca110" THEN npca110_detect(adapter) ELSE ntp8230_detect(adapter)

Checks(d) ==
  IF d = "npca110" THEN {npca110_i2c_check(read) : read \in I2cReads}
                   ELSE {ntp8230_i2c_check(test, id) : test, id \in I2cReads}

Registered(d) ==
  /\ phase[d] = "driver"
  /\ held' = [held EXCEPT ![d] = @ \cup {"driver"}]
  /\ phase' = [phase EXCEPT ![d] = "loaded"]
  /\ ret' = [ret EXCEPT ![d] = 0]
  /\ UNCHANGED <<fex, devptr, classptr, running, file, asleep, oops>>

\* Nothing to probe, or a probe that returns before it sets the client;
\* i2c_add_driver returns 0 all the same.
NoChip(d) ==
  /\ \E adapter \in Adapters, check \in Checks(d) :
       ~Detects(d, adapter) \/ ~adapter.i2c \/ check # 1
  /\ Registered(d)
  /\ UNCHANGED <<client, wq, pending>>

\* The probe sets the client and cannot create its work queue.
NoQueue(d) ==
  /\ Registered(d)
  /\ client' = [client EXCEPT ![d] = TRUE]
  /\ UNCHANGED <<wq, pending>>

\* Mutant: the probe does not keep its client.
ProbeForgetsClient(d) ==
  /\ Registered(d)
  /\ wq' = [wq EXCEPT ![d] = TRUE]
  /\ pending' = [pending EXCEPT ![d] = "init"]
  /\ UNCHANGED client

Probe(d) ==
  /\ \E adapter \in Adapters, check \in Checks(d) :
       Detects(d, adapter) /\ adapter.i2c /\ check = 1
  /\ Registered(d)
  /\ client' = [client EXCEPT ![d] = TRUE]
  /\ wq' = [wq EXCEPT ![d] = TRUE]
  /\ pending' = [pending EXCEPT ![d] = "init"]

-----------------------------------------------------------------------------
(***************************************************************************)
(* npca110_i2c_exit and ntp8230_i2c_exit.  The kernel lets nobody unload a *)
(* module that a file or another module refers to.                         *)
(***************************************************************************)
EnterExit(d) ==
  /\ phase[d] = "loaded"
  /\ file[d] # "open"
  /\ d = FlagOwner => phase["ntp8230"] = "off"
  /\ ~asleep
  /\ phase' = [phase EXCEPT ![d] = "exit_class"]
  /\ UNCHANGED <<fex, ret, held, devptr, classptr, probeVars, workVars, file, asleep, oops>>

\* device_destroy and class_destroy, of whatever pointer is not NULL.
ExitClass(d) ==
  /\ phase[d] = "exit_class"
  /\ phase' = [phase EXCEPT ![d] = "exit_memory"]
  /\ IF classptr[d] = "null"
     THEN UNCHANGED <<held, classptr, oops>>
     ELSE Release(d, {"node", "class"}) /\ classptr' = [classptr EXCEPT ![d] = "freed"]
  /\ UNCHANGED <<fex, ret, devptr, probeVars, workVars, file, asleep>>

\* cdev_del and kfree, if the pointer is not NULL.
ExitMemory(d) ==
  /\ phase[d] = "exit_memory"
  /\ phase' = [phase EXCEPT ![d] = "exit_region"]
  /\ IF devptr[d] = "null"
     THEN UNCHANGED <<held, devptr, file, oops>>
     ELSE Release(d, {"cdev", "memory"}) /\ Free(d)
  /\ UNCHANGED <<fex, ret, classptr, probeVars, workVars, asleep>>

\* The kernel ignores a region that nobody registered.
ExitRegion(d) ==
  /\ phase[d] = "exit_region"
  /\ phase' = [phase EXCEPT ![d] = "exit_driver"]
  /\ held' = [held EXCEPT ![d] = @ \ {"region"}]
  /\ UNCHANGED <<fex, ret, devptr, classptr, probeVars, workVars, file, asleep, oops>>

\* i2c_del_driver, which calls remove when the probe had succeeded.
ExitDriver(d) ==
  /\ phase[d] = "exit_driver"
  /\ Release(d, {"driver"})
  /\ \/ /\ wq[d]
        /\ phase' = [phase EXCEPT ![d] = "remove"]
        /\ UNCHANGED <<ret, devptr, classptr, client>>
     \/ ~wq[d] /\ Gone(d)
  /\ UNCHANGED <<fex, wq, workVars, file, asleep>>

(***************************************************************************)
(* npca110_i2c_remove and ntp8230_i2c_remove: cancel_work_sync of one item *)
(* after the other, then destroy_workqueue.  Nothing is queued meanwhile.  *)
(***************************************************************************)
Cancel(d) ==
  /\ phase[d] = "remove"
  /\ pending[d] # "none"
  /\ pending' = [pending EXCEPT ![d] = "none"]
  /\ UNCHANGED <<fex, moduleVars, probeVars, running, file, asleep, oops>>

\* Mutant: the work queue is not destroyed.
RemoveKeepsQueue(d) ==
  /\ phase[d] = "remove"
  /\ pending[d] = "none"
  /\ running[d] = "none"
  /\ Gone(d)
  /\ UNCHANGED <<fex, held, wq, workVars, file, asleep, oops>>

DestroyQueue(d) ==
  /\ phase[d] = "remove"
  /\ pending[d] = "none"
  /\ running[d] = "none"
  /\ wq' = [wq EXCEPT ![d] = FALSE]
  /\ Gone(d)
  /\ UNCHANGED <<fex, held, workVars, file, asleep, oops>>

-----------------------------------------------------------------------------
(***************************************************************************)
(* The workers.  A work item looks at the memory of a driver when it       *)
(* starts, or later, between its waits: the restore of npca110 after the   *)
(* reset, the programs of ntp8230 at every write.                          *)
(***************************************************************************)
FirstUses(d, w) ==
  CASE w = "sure"                     -> {}
    [] w = "suspend"                  -> {FlagOwner}
    [] w \in {"init", "resume"}       -> {d}

\* The mute makes its writes only if the flag says so.
LaterUses(d, w) ==
  CASE w = "init" /\ d = "npca110"    -> {{}}
    [] w = "suspend"                  -> {{}, {d}}
    [] w = "sure"                     -> {{d}}
    [] w \in {"init", "resume"} /\ d = "ntp8230" -> {{d}}

Use(d, uses) ==
  \/ (\A o \in uses : devptr[o] = "live") /\ UNCHANGED oops
  \/ \E o \in uses : devptr[o] # "live" /\ Oops(d, devptr[o])

StartWork(d) ==
  /\ pending[d] # "none"
  /\ running[d] = "none"
  /\ Use(d, FirstUses(d, pending[d]))
  /\ running' = [running EXCEPT ![d] = pending[d]]
  /\ pending' = [pending EXCEPT ![d] = "none"]
  /\ UNCHANGED <<fex, moduleVars, probeVars, file, asleep>>

EndWork(d) ==
  /\ running[d] # "none"
  /\ \E uses \in LaterUses(d, running[d]) : Use(d, uses)
  /\ running' = [running EXCEPT ![d] = "none"]
  /\ UNCHANGED <<fex, moduleVars, probeVars, pending, file, asleep>>

-----------------------------------------------------------------------------
(***************************************************************************)
(* Files.  A node can be opened as soon as it is there, the module may     *)
(* still be in its init function.                                          *)
(***************************************************************************)
Open(d) ==
  /\ file[d] = "closed"
  /\ "node" \in held[d]
  /\ phase[d] \in Resources \cup Labels \cup {"loaded"}
  /\ ~asleep
  /\ file' = [file EXCEPT ![d] = "open"]
  /\ UNCHANGED <<fex, moduleVars, probeVars, workVars, asleep, oops>>

Close(d) ==
  /\ file[d] = "open"
  /\ ~asleep
  /\ file' = [file EXCEPT ![d] = "closed"]
  /\ UNCHANGED <<fex, moduleVars, probeVars, workVars, asleep, oops>>

\* read, write and ioctl: a call on a driver that is whole changes nothing
\* here.  Only the ioctl of npca110 needs the client.
npca110_Misused ==
  CASE file["npca110"] = "stale"          -> {"freed"}
    [] file["npca110"] = "open"           ->
         (IF "sem" \in held["npca110"] THEN {} ELSE {"semaphore"})
           \cup (IF "sem" \in held["npca110"] /\ ~client["npca110"] THEN {"client"} ELSE {})
    [] file["npca110"] = "closed"         -> {}

ntp8230_Misused ==
  CASE file["ntp8230"] = "stale"          -> {"freed"}
    [] file["ntp8230"] = "open"           ->
         IF "sem" \in held["ntp8230"] THEN {} ELSE {"semaphore"}
    [] file["ntp8230"] = "closed"         -> {}

Call(d) ==
  /\ ~asleep
  /\ \E kind \in IF d = "npca110" THEN npca110_Misused ELSE ntp8230_Misused : Oops(d, kind)
  /\ UNCHANGED <<fex, moduleVars, probeVars, workVars, file, asleep>>

-----------------------------------------------------------------------------
(***************************************************************************)
(* Power management of the drivers that are bound.  No module is loaded or *)
(* unloaded meanwhile.  A suspend cancels the restore that has not run and *)
(* waits for all other work; ntp8230 then queues its mute.                 *)
(***************************************************************************)
Settled == \A d \in Drivers : phase[d] \in {"off", "loaded"}

Sleep ==
  /\ Settled
  /\ ~asleep
  /\ \A d \in Drivers : running[d] = "none" /\ pending[d] \in {"none", Restore[d]}
  /\ asleep' = TRUE
  /\ pending' = [d \in Drivers |-> IF d = "ntp8230" /\ wq[d] THEN "suspend" ELSE "none"]
  /\ UNCHANGED <<fex, moduleVars, probeVars, running, file, oops>>

\* ntp8230_resume cancels the mute or waits for it; both drivers queue their
\* restore.
Wake ==
  /\ asleep
  /\ running["ntp8230"] = "none"
  /\ asleep' = FALSE
  /\ pending' = [d \in Drivers |-> IF wq[d] THEN Restore[d] ELSE "none"]
  /\ UNCHANGED <<fex, moduleVars, probeVars, running, file, oops>>

-----------------------------------------------------------------------------
Init ==
  /\ fex \in SUBSET AllPins
  /\ phase = [d \in Drivers |-> "off"]
  /\ ret = [d \in Drivers |-> -1]
  /\ held = [d \in Drivers |-> {}]
  /\ devptr = [d \in Drivers |-> "null"]
  /\ classptr = [d \in Drivers |-> "null"]
  /\ client = [d \in Drivers |-> FALSE]
  /\ wq = [d \in Drivers |-> FALSE]
  /\ pending = [d \in Drivers |-> "none"]
  /\ running = [d \in Drivers |-> "none"]
  /\ file = [d \in Drivers |-> "closed"]
  /\ asleep = FALSE
  /\ oops = Fine

InitStep(d) == Acquire(d) \/ AcquireFails(d) \/ Undo(d) \/ Undone(d)

ProbeStep(d) == NoChip(d) \/ NoQueue(d) \/ Probe(d)

ExitStep(d) == ExitClass(d) \/ ExitMemory(d) \/ ExitRegion(d) \/ ExitDriver(d)

RemoveStep(d) == Cancel(d) \/ DestroyQueue(d)

npca110_i2c_init == Load("npca110") \/ InitStep("npca110")

ntp8230_i2c_init == Load("ntp8230") \/ InitStep("ntp8230")

npca110_probe == ProbeStep("npca110")

ntp8230_probe == ProbeStep("ntp8230")

npca110_i2c_exit == EnterExit("npca110") \/ ExitStep("npca110")

ntp8230_i2c_exit == EnterExit("ntp8230") \/ ExitStep("ntp8230")

npca110_i2c_remove == RemoveStep("npca110")

ntp8230_i2c_remove == RemoveStep("ntp8230")

Worker(d) == StartWork(d) \/ EndWork(d)

User(d) == Open(d) \/ Close(d) \/ Call(d)

Next ==
  /\ oops = Fine
  /\ \/ npca110_i2c_init \/ npca110_probe \/ npca110_i2c_exit \/ npca110_i2c_remove
     \/ ntp8230_i2c_init \/ ntp8230_probe \/ ntp8230_i2c_exit \/ ntp8230_i2c_remove
     \/ \E d \in Drivers : Worker(d) \/ User(d)
     \/ Sleep
     \/ Wake

Spec == Init /\ [][Next]_vars

-----------------------------------------------------------------------------
\* Every variable holds a value of its kind.
TypeOK ==
  /\ fex \subseteq AllPins
  /\ phase \in [Drivers -> Phases]
  /\ ret \in [Drivers -> {-1, 0}]
  /\ held \in [Drivers -> SUBSET Resources]
  /\ devptr \in [Drivers -> {"null", "live", "freed"}]
  /\ classptr \in [Drivers -> {"null", "live", "freed", "error"}]
  /\ client \in [Drivers -> BOOLEAN]
  /\ wq \in [Drivers -> BOOLEAN]
  /\ pending \in [Drivers -> {"none", "init", "sure", "suspend", "resume"}]
  /\ running \in [Drivers -> {"none", "init", "sure", "suspend", "resume"}]
  /\ \A d \in Drivers : {pending[d], running[d]} \subseteq Works[d] \cup {"none"}
  /\ file \in [Drivers -> {"closed", "open", "stale"}]
  /\ asleep \in BOOLEAN
  /\ oops \in [kind : {"none", "null", "freed", "semaphore", "client", "release"},
                driver : Drivers \cup {"none"}]

\* Wherever init breaks off, its labels release exactly what it had taken: a
\* module that is gone, or still waits in remove, holds nothing, one that stays
\* holds all or nothing; and the two pointers say throughout init, its labels
\* and exit whether what they refer to is there.
AllOrNothing ==
  \A d \in Drivers :
    /\ phase[d] \in {"off", "remove"} => held[d] = {}
    /\ phase[d] = "loaded" => held[d] \in {{}, Resources}
    /\ devptr[d] = "live" <=> "memory" \in held[d]
    /\ classptr[d] = "live" <=> "class" \in held[d]

\* Work is queued and executed only while the module and its work queue are
\* there: remove leaves nothing behind that could run in code that is gone.
WorkNeedsQueue ==
  \A d \in Drivers :
    /\ pending[d] # "none" \/ running[d] # "none" => wq[d]
    /\ wq[d] => phase[d] \in Exiting \cup {"loaded"}

\* The init function returned 0 although it had released everything.
FailedQuietly(d) == phase[d] = "loaded" /\ held[d] = {} /\ Configured(d)

\* The invalid uses these drivers make are the following, and no other: exit
\* releases what a failed init had released or never taken; exit frees the
\* memory that remove has still to wait for; the mute asks an npca110 that has
\* no memory for its flag; a file opened during init meets a semaphore that is
\* not initialised, no client, or memory that the undoing of init freed; and
\* the ioctl has no client when the probe had found no chip.
InvalidUsesExplained ==
  \A d \in Drivers :
    LET uses(kind) == oops = [kind |-> kind, driver |-> d] IN
      /\ uses("release") => phase[d] \in Exiting \cup {"off"} /\ held[d] = {}
      /\ uses("freed") =>
           \/ phase[d] \in {"exit_region", "exit_driver", "remove"}
           \/ file[d] = "stale"
           \/ d = "ntp8230" /\ FailedQuietly("npca110")
      /\ uses("null") =>
           d = "ntp8230" /\ phase["npca110"] = "loaded" /\ held["npca110"] = {}
      /\ uses("semaphore") => phase[d] = "sem" /\ file[d] = "open"
      /\ uses("client") => ~wq[d] /\ file[d] = "open"

=============================================================================
