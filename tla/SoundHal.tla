------------------------------ MODULE SoundHal ------------------------------
(***************************************************************************)
(* The path of aux_switch through system_server: the binder threads that   *)
(* run SoundService.AuxSwitch, the JNI function behind it, and the HAL     *)
(* function SoundWaySwitch, which opens the driver's node, makes one ioctl *)
(* and closes it, under a mutex and through a global descriptor.           *)
(*                                                                         *)
(* open and ioctl are repeated as long as they are interrupted             *)
(* (TEMP_FAILURE_RETRY): an interrupted attempt changes nothing here.      *)
(***************************************************************************)
EXTENDS Integers, FiniteSets

CONSTANTS
  Callers,      \* binder threads of system_server
  Ways,         \* what their clients pass to aux_switch
  OpenMayFail   \* may open("/dev/npca110_sound") fail?

ASSUME HalAssumption ==
  /\ IsFiniteSet(Callers) /\ "free" \notin Callers
  /\ Callers \cap {"unset", "failed"} = {}
  /\ Ways \subseteq Int
  /\ OpenMayFail \in BOOLEAN

VARIABLES
  sound_device, \* what SoundNativeInit made of it: "unset", "null", "device"
  pc,           \* where each thread is
  request,      \* the way its client asked for
  auxWay,       \* the way JNI passes on, the ioctl command
  ret,          \* the value AuxSwitch returns to it
  s_lock,       \* the thread that holds the mutex, or "free"
  fd,           \* the global descriptor: the thread whose open() gave it,
                \* "failed" for -1, "unset" for 0
  files,        \* threads whose descriptor is still open in the process
  inDriver,     \* threads inside npca110_ioctl
  earInject     \* npca110_dev->earInject, where the ioctl leaves it

callVars == <<pc, request, auxWay, ret>>
halVars  == <<s_lock, fd, files>>
vars == <<sound_device, callVars, halVars, inDriver, earInject>>

Goto(c, from, to) ==
  /\ pc[c] = from
  /\ pc' = [pc EXCEPT ![c] = to]

-----------------------------------------------------------------------------
\* SoundService is constructed, before it is published: no module, or no
\* memory for its device, leaves sound_device NULL, and nobody looks.
SoundInit ==
  /\ sound_device = "unset"
  /\ sound_device' \in {"null", "device"}
  /\ UNCHANGED <<callVars, halVars, inDriver, earInject>>

\* Mutant: the ways above 1 are passed on.
AuxSwitchUnclamped(c, way) ==
  /\ sound_device # "unset"
  /\ Goto(c, "idle", "called")
  /\ request' = [request EXCEPT ![c] = way]
  /\ auxWay' = [auxWay EXCEPT ![c] = way]
  /\ UNCHANGED <<sound_device, ret, halVars, inDriver, earInject>>

\* The JNI function AuxSwitch: a way above 1 counts as 1, ...
AuxSwitch(c, way) ==
  /\ sound_device # "unset"
  /\ Goto(c, "idle", "called")
  /\ request' = [request EXCEPT ![c] = way]
  /\ auxWay' = [auxWay EXCEPT ![c] = IF way > 1 THEN 1 ELSE way]
  /\ UNCHANGED <<sound_device, ret, halVars, inDriver, earInject>>

\* ... and without a device it returns -1.
NoDevice(c) ==
  /\ sound_device = "null"
  /\ Goto(c, "called", "return")
  /\ ret' = [ret EXCEPT ![c] = -1]
  /\ UNCHANGED <<sound_device, request, auxWay, halVars, inDriver, earInject>>

-----------------------------------------------------------------------------
(***************************************************************************)
(* SoundWaySwitch.                                                         *)
(***************************************************************************)

\* Mutant: the mutex is not taken.
LockForgotten(c) ==
  /\ sound_device = "device"
  /\ Goto(c, "called", "open")
  /\ UNCHANGED <<sound_device, request, auxWay, ret, s_lock, fd, files, inDriver, earInject>>

Lock(c) ==
  /\ sound_device = "device"
  /\ s_lock = "free"
  /\ Goto(c, "called", "open")
  /\ s_lock' = c
  /\ UNCHANGED <<sound_device, request, auxWay, ret, fd, files, inDriver, earInject>>

Open(c) ==
  /\ Goto(c, "open", "ioctl")
  /\ fd' = c
  /\ files' = files \cup {c}
  /\ UNCHANGED <<sound_device, request, auxWay, ret, s_lock, inDriver, earInject>>

\* open() fails: the function returns -1, the mutex stays locked.
OpenFails(c) ==
  /\ OpenMayFail
  /\ Goto(c, "open", "return")
  /\ fd' = "failed"
  /\ ret' = [ret EXCEPT ![c] = -1]
  /\ UNCHANGED <<sound_device, request, auxWay, s_lock, files, inDriver, earInject>>

\* ioctl(fd, ...): fd is open, the mutex keeps other threads from changing it.
IoctlEnters(c) ==
  /\ Goto(c, "ioctl", "driver")
  /\ inDriver' = inDriver \cup {c}
  /\ UNCHANGED <<sound_device, request, auxWay, ret, halVars, earInject>>

\* npca110_ioctl returns 0 whatever it did: AUX1_TO_AUX2 (0) sets the flag,
\* AUX2_TO_AUX1 (1) clears it, any other command leaves it.
IoctlReturns(c) ==
  /\ Goto(c, "driver", "close")
  /\ inDriver' = inDriver \ {c}
  /\ earInject' = CASE auxWay[c] = 0 -> TRUE
                    [] auxWay[c] = 1 -> FALSE
                    [] OTHER         -> earInject
  /\ ret' = [ret EXCEPT ![c] = 0]
  /\ UNCHANGED <<sound_device, request, auxWay, halVars>>

\* Mutant: a return that skips close().
CloseForgotten(c) ==
  /\ Goto(c, "close", "unlock")
  /\ UNCHANGED <<sound_device, request, auxWay, ret, halVars, inDriver, earInject>>

\* close(fd); the global keeps the stale number.
Close(c) ==
  /\ Goto(c, "close", "unlock")
  /\ files' = files \ {fd}
  /\ UNCHANGED <<sound_device, request, auxWay, ret, s_lock, fd, inDriver, earInject>>

\* Mutant: a return that skips the unlock.
UnlockForgotten(c) ==
  /\ Goto(c, "unlock", "return")
  /\ UNCHANGED <<sound_device, request, auxWay, ret, halVars, inDriver, earInject>>

Unlock(c) ==
  /\ Goto(c, "unlock", "return")
  /\ s_lock' = "free"
  /\ UNCHANGED <<sound_device, request, auxWay, ret, fd, files, inDriver, earInject>>

\* The result goes back through SoundService and the binder.
Return(c) ==
  /\ Goto(c, "return", "idle")
  /\ UNCHANGED <<sound_device, request, auxWay, ret, halVars, inDriver, earInject>>

-----------------------------------------------------------------------------
Init ==
  /\ sound_device = "unset"
  /\ pc = [c \in Callers |-> "idle"]
  /\ request = [c \in Callers |-> 0]
  /\ auxWay = [c \in Callers |-> 0]
  /\ ret = [c \in Callers |-> 0]
  /\ s_lock = "free"
  /\ fd = "unset"
  /\ files = {}
  /\ inDriver = {}
  /\ earInject = FALSE

\* What a thread does once it has the mutex, or no need of it.
Proceed(c) ==
  \/ NoDevice(c)
  \/ Open(c) \/ OpenFails(c) \/ IoctlEnters(c) \/ IoctlReturns(c)
  \/ Close(c) \/ Unlock(c) \/ Return(c)

Next ==
  \/ SoundInit
  \/ \E c \in Callers :
       (\E way \in Ways : AuxSwitch(c, way)) \/ Lock(c) \/ Proceed(c)

Spec == Init /\ [][Next]_vars

(***************************************************************************)
(* Fairness: the threads are scheduled and the driver returns (CallsReturn *)
(* of Npca110).  A mutex that is free again and again may still pass a     *)
(* waiting thread by; one that stays free does not.                        *)
(***************************************************************************)
Fairness == \A c \in Callers : WF_vars(Lock(c)) /\ WF_vars(Proceed(c))

FairSpec == Spec /\ Fairness

-----------------------------------------------------------------------------
\* Every variable holds a value of its kind.
TypeOK ==
  /\ sound_device \in {"unset", "null", "device"}
  /\ pc \in [Callers -> {"idle", "called", "open", "ioctl", "driver", "close",
                         "unlock", "return"}]
  /\ request \in [Callers -> Ways \cup {0}]
  /\ auxWay \in [Callers -> {way \in Ways : way <= 1} \cup {0, 1}]
  /\ ret \in [Callers -> {-1, 0}]
  /\ s_lock \in Callers \cup {"free"}
  /\ fd \in Callers \cup {"unset", "failed"}
  /\ files \subseteq Callers
  /\ inDriver \subseteq Callers
  /\ earInject \in BOOLEAN

\* The threads of system_server enter the driver one at a time: two switches
\* never meet there, although its semaphore would let six in.
OneAtATime == Cardinality(inDriver) <= 1

\* The global descriptor serves the call that opened it: no call ends with its
\* file still open, and none closes the file of another.
FilesReturned == files = {c \in Callers : pc[c] \in {"ioctl", "driver", "close"}}

\* The mutex is held by a thread inside SoundWaySwitch; only a failed open,
\* after which fd stays -1, leaves it to a thread that is not.
LockAccounted ==
  s_lock # "free" =>
    \/ pc[s_lock] \in {"open", "ioctl", "driver", "close", "unlock"}
    \/ fd = "failed"

\* A thread that holds the mutex gives it back, unless its open fails.
LockReleased ==
  \A c \in Callers : s_lock = c ~> s_lock # c \/ fd = "failed"

\* Each call is answered for what it did: it switches once, at the moment its
\* ioctl returns, or answers -1 and has changed nothing.
Stage(p) ==
  CASE p = "idle"                                  -> "idle"
    [] p \in {"called", "open", "ioctl", "driver"} -> "asked"
    [] p \in {"close", "unlock", "return"}         -> "done"

Switches ==
  INSTANCE AuxSwitchService
    WITH stage <- [c \in Callers |-> Stage(pc[c])], answer <- ret

SwitchSpec == Switches!Spec

=============================================================================
