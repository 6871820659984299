--------------------------- MODULE SoundHalProofs ---------------------------
(***************************************************************************)
(* Proofs about SoundHal, for any finite set of threads, any ways and an   *)
(* open() that may or may not fail.                                        *)
(***************************************************************************)
EXTENDS SoundHal, FiniteSetTheorems, TLAPS

-----------------------------------------------------------------------------
(***************************************************************************)
(* The inductive invariant: the mutex belongs to the thread inside         *)
(* SoundWaySwitch, and what that function shares, the descriptor and its   *)
(* place in the driver, belongs to the holder of the mutex.                *)
(***************************************************************************)
Inside == {"open", "ioctl", "driver", "close", "unlock"}

Clamped(way) == IF way > 1 THEN 1 ELSE way

HolderInside == \A c \in Callers : pc[c] \in Inside => s_lock = c

HolderOwnsFd == \A c \in Callers : pc[c] \in {"ioctl", "driver", "close"} => fd = c

DriverIs == inDriver = {c \in Callers : pc[c] = "driver"}

CommandIs == \A c \in Callers : auxWay[c] = Clamped(request[c])

HalInv ==
  /\ TypeOK
  /\ HolderInside
  /\ HolderOwnsFd
  /\ DriverIs
  /\ CommandIs
  /\ FilesReturned
  /\ LockAccounted

LEMMA InitHal == Init => HalInv
<1> SUFFICES ASSUME Init PROVE HalInv
  OBVIOUS
<1>1. TypeOK
  BY DEF Init, TypeOK
<1>2. CommandIs
  BY DEF Init, CommandIs, Clamped
<1> QED
  BY <1>1, <1>2
  DEF Init, HalInv, HolderInside, HolderOwnsFd, DriverIs, FilesReturned,
      LockAccounted, Inside

\* A thread that is not the one that moved is where it was.
LEMMA OthersStay ==
  ASSUME TypeOK, NEW c \in Callers, NEW from, NEW to, Goto(c, from, to)
  PROVE  /\ pc[c] = from /\ pc'[c] = to
         /\ \A o \in Callers \ {c} : pc'[o] = pc[o]
BY DEF Goto, TypeOK

LEMMA TypeStep ==
  ASSUME TypeOK, [Next]_vars
  PROVE  TypeOK'
<1>1. CASE SoundInit
  BY <1>1 DEF SoundInit, TypeOK, callVars, halVars
<1>2. ASSUME NEW c \in Callers, NEW way \in Ways, AuxSwitch(c, way)
      PROVE  TypeOK'
  <2>1. (IF way > 1 THEN 1 ELSE way) \in {v \in Ways : v <= 1} \cup {0, 1}
    BY HalAssumption DEF HalAssumption
  <2> QED
    BY <1>2, <2>1 DEF AuxSwitch, Goto, TypeOK, halVars
<1>3. ASSUME NEW c \in Callers, Lock(c) \/ Proceed(c)
      PROVE  TypeOK'
  BY <1>3 DEF Lock, Proceed, NoDevice, Open, OpenFails, IoctlEnters, IoctlReturns,
              Close, Unlock, Return, Goto, TypeOK, halVars
<1>4. CASE UNCHANGED vars
  BY <1>4 DEF vars, callVars, halVars, TypeOK
<1> QED
  BY <1>1, <1>2, <1>3, <1>4 DEF Next

\* Nothing that the invariant says changes while threads move outside
\* SoundWaySwitch only.
LEMMA OutsideStep ==
  ASSUME HalInv, UNCHANGED <<s_lock, fd, files, inDriver>>,
         \A c \in Callers : pc[c] = pc'[c] \/ (pc[c] \notin Inside /\ pc'[c] \notin Inside)
  PROVE  /\ HolderInside' /\ HolderOwnsFd' /\ DriverIs'
         /\ FilesReturned' /\ LockAccounted'
<1>1. \A c \in Callers : \A stage \in Inside : pc'[c] = stage <=> pc[c] = stage
  BY DEF Inside
<1>2. HolderInside' /\ HolderOwnsFd'
  BY <1>1 DEF HalInv, HolderInside, HolderOwnsFd, Inside
<1>3. DriverIs'
  BY <1>1 DEF HalInv, DriverIs, Inside
<1>4. FilesReturned'
  BY <1>1 DEF HalInv, FilesReturned, Inside
<1>5. LockAccounted'
  BY <1>1 DEF HalInv, LockAccounted, Inside, TypeOK
<1> QED
  BY <1>2, <1>3, <1>4, <1>5

\* The steps of a thread that holds the mutex, or is about to.
LEMMA HolderStep ==
  ASSUME HalInv, NEW c \in Callers, Lock(c) \/ Proceed(c)
  PROVE  /\ HolderInside' /\ HolderOwnsFd' /\ DriverIs'
         /\ FilesReturned' /\ LockAccounted'
<1> USE DEF Inside
<1>0. TypeOK /\ HolderInside /\ HolderOwnsFd /\ DriverIs /\ FilesReturned /\ LockAccounted
  BY DEF HalInv
<1>f. "free" \notin Callers /\ Callers \cap {"unset", "failed"} = {}
  BY HalAssumption DEF HalAssumption
<1>1. CASE Lock(c)
  <2>1. /\ s_lock = "free" /\ s_lock' = c
        /\ UNCHANGED <<fd, files, inDriver>>
        /\ Goto(c, "called", "open")
    BY <1>1 DEF Lock
  <2>2. pc[c] = "called" /\ pc'[c] = "open" /\ \A o \in Callers \ {c} : pc'[o] = pc[o]
    BY <1>0, <2>1, OthersStay
  <2>3. \A o \in Callers : pc[o] \notin Inside
    BY <1>0, <1>f, <2>1 DEF HolderInside
  <2> QED
    BY <1>0, <2>1, <2>2, <2>3
    DEF HolderInside, HolderOwnsFd, DriverIs, FilesReturned, LockAccounted
<1>2. CASE Open(c)
  <2>1. /\ fd' = c /\ files' = files \cup {c}
        /\ UNCHANGED <<s_lock, inDriver>>
        /\ Goto(c, "open", "ioctl")
    BY <1>2 DEF Open
  <2>2. pc[c] = "open" /\ pc'[c] = "ioctl" /\ \A o \in Callers \ {c} : pc'[o] = pc[o]
    BY <1>0, <2>1, OthersStay
  <2>3. s_lock = c /\ \A o \in Callers \ {c} : pc[o] \notin Inside
    BY <1>0, <2>2 DEF HolderInside
  <2> QED
    BY <1>0, <2>1, <2>2, <2>3
    DEF HolderInside, HolderOwnsFd, DriverIs, FilesReturned, LockAccounted
<1>3. CASE OpenFails(c)
  <2>1. /\ fd' = "failed"
        /\ UNCHANGED <<s_lock, files, inDriver>>
        /\ Goto(c, "open", "return")
    BY <1>3 DEF OpenFails
  <2>2. pc[c] = "open" /\ pc'[c] = "return" /\ \A o \in Callers \ {c} : pc'[o] = pc[o]
    BY <1>0, <2>1, OthersStay
  <2>3. s_lock = c /\ \A o \in Callers \ {c} : pc[o] \notin Inside
    BY <1>0, <2>2 DEF HolderInside
  <2> QED
    BY <1>0, <2>1, <2>2, <2>3
    DEF HolderInside, HolderOwnsFd, DriverIs, FilesReturned, LockAccounted
<1>4. CASE IoctlEnters(c)
  <2>1. /\ inDriver' = inDriver \cup {c}
        /\ UNCHANGED <<s_lock, fd, files>>
        /\ Goto(c, "ioctl", "driver")
    BY <1>4 DEF IoctlEnters, halVars
  <2>2. pc[c] = "ioctl" /\ pc'[c] = "driver" /\ \A o \in Callers \ {c} : pc'[o] = pc[o]
    BY <1>0, <2>1, OthersStay
  <2> QED
    BY <1>0, <2>1, <2>2
    DEF HolderInside, HolderOwnsFd, DriverIs, FilesReturned, LockAccounted
<1>5. CASE IoctlReturns(c)
  <2>1. /\ inDriver' = inDriver \ {c}
        /\ UNCHANGED <<s_lock, fd, files>>
        /\ Goto(c, "driver", "close")
    BY <1>5 DEF IoctlReturns, halVars
  <2>2. pc[c] = "driver" /\ pc'[c] = "close" /\ \A o \in Callers \ {c} : pc'[o] = pc[o]
    BY <1>0, <2>1, OthersStay
  <2> QED
    BY <1>0, <2>1, <2>2
    DEF HolderInside, HolderOwnsFd, DriverIs, FilesReturned, LockAccounted
<1>6. CASE Close(c)
  <2>1. /\ files' = files \ {fd}
        /\ UNCHANGED <<s_lock, fd, inDriver>>
        /\ Goto(c, "close", "unlock")
    BY <1>6 DEF Close
  <2>2. pc[c] = "close" /\ pc'[c] = "unlock" /\ \A o \in Callers \ {c} : pc'[o] = pc[o]
    BY <1>0, <2>1, OthersStay
  <2>3. fd = c
    BY <1>0, <2>2 DEF HolderOwnsFd
  <2> QED
    BY <1>0, <2>1, <2>2, <2>3
    DEF HolderInside, HolderOwnsFd, DriverIs, FilesReturned, LockAccounted
<1>7. CASE Unlock(c)
  <2>1. /\ s_lock' = "free"
        /\ UNCHANGED <<fd, files, inDriver>>
        /\ Goto(c, "unlock", "return")
    BY <1>7 DEF Unlock
  <2>2. pc[c] = "unlock" /\ pc'[c] = "return" /\ \A o \in Callers \ {c} : pc'[o] = pc[o]
    BY <1>0, <2>1, OthersStay
  <2>3. s_lock = c /\ \A o \in Callers \ {c} : pc[o] \notin Inside
    BY <1>0, <2>2 DEF HolderInside
  <2> QED
    BY <1>0, <2>1, <2>2, <2>3
    DEF HolderInside, HolderOwnsFd, DriverIs, FilesReturned, LockAccounted
<1>8. CASE NoDevice(c) \/ Return(c)
  <2>1. /\ UNCHANGED <<s_lock, fd, files, inDriver>>
        /\ Goto(c, "called", "return") \/ Goto(c, "return", "idle")
    BY <1>8 DEF NoDevice, Return, halVars
  <2>2. /\ pc[c] \in {"called", "return"} /\ pc'[c] \in {"return", "idle"}
        /\ \A o \in Callers \ {c} : pc'[o] = pc[o]
    BY <1>0, <2>1, OthersStay
  <2>3. \A o \in Callers : pc[o] = pc'[o] \/ (pc[o] \notin Inside /\ pc'[o] \notin Inside)
    BY <2>2
  <2> QED
    BY <1>0, <2>1, <2>3, OutsideStep
<1> QED
  BY <1>1, <1>2, <1>3, <1>4, <1>5, <1>6, <1>7, <1>8 DEF Proceed

LEMMA NextHal == HalInv /\ [Next]_vars => HalInv'
<1> SUFFICES ASSUME HalInv, [Next]_vars PROVE HalInv'
  OBVIOUS
<1>0. TypeOK'
  BY TypeStep DEF HalInv
<1>1. ASSUME NEW c \in Callers, NEW way \in Ways, AuxSwitch(c, way)
      PROVE  HalInv'
  <2>1. /\ UNCHANGED <<s_lock, fd, files, inDriver>>
        /\ Goto(c, "idle", "called")
        /\ request' = [request EXCEPT ![c] = way]
        /\ auxWay' = [auxWay EXCEPT ![c] = Clamped(way)]
    BY <1>1 DEF AuxSwitch, halVars, Clamped
  <2>2. pc[c] = "idle" /\ pc'[c] = "called" /\ \A o \in Callers \ {c} : pc'[o] = pc[o]
    BY <2>1, OthersStay DEF HalInv
  <2>3. CommandIs'
    BY <2>1 DEF HalInv, CommandIs, TypeOK
  <2>4. \A o \in Callers : pc[o] = pc'[o] \/ (pc[o] \notin Inside /\ pc'[o] \notin Inside)
    BY <2>2 DEF Inside
  <2> QED
    BY <1>0, <2>1, <2>3, <2>4, OutsideStep DEF HalInv
<1>2. ASSUME NEW c \in Callers, Lock(c) \/ Proceed(c)
      PROVE  HalInv'
  <2>1. UNCHANGED <<request, auxWay>>
    BY <1>2 DEF Lock, Proceed, NoDevice, Open, OpenFails, IoctlEnters,
                IoctlReturns, Close, Unlock, Return
  <2>2. CommandIs'
    BY <2>1 DEF HalInv, CommandIs
  <2> QED
    BY <1>0, <1>2, <2>2, HolderStep DEF HalInv
<1>3. CASE SoundInit \/ UNCHANGED vars
  <2>1. UNCHANGED <<pc, request, auxWay, s_lock, fd, files, inDriver>>
    BY <1>3 DEF SoundInit, vars, callVars, halVars
  <2> QED
    BY <1>0, <2>1
    DEF HalInv, HolderInside, HolderOwnsFd, DriverIs, CommandIs, FilesReturned,
        LockAccounted
<1> QED
  BY <1>1, <1>2, <1>3 DEF Next

LEMMA HalAlways == Spec => []HalInv
BY InitHal, NextHal, PTL DEF Spec

-----------------------------------------------------------------------------
\* The variables of JNI and HAL keep their types.
THEOREM TypeCorrect == Spec => []TypeOK
<1>1. HalInv => TypeOK
  BY DEF HalInv
<1> QED
  BY <1>1, HalAlways, PTL

\* However many threads call aux_switch, one of them at most is in the driver.
THEOREM SwitchesOneAtATime == Spec => []OneAtATime
<1>1. ASSUME HalInv PROVE OneAtATime
  <2>1. inDriver \subseteq {s_lock}
    BY <1>1 DEF HalInv, DriverIs, HolderInside, Inside
  <2>2. IsFiniteSet({s_lock}) /\ Cardinality({s_lock}) = 1
    BY FS_Singleton
  <2>3. Cardinality(inDriver) <= Cardinality({s_lock})
    BY <2>1, <2>2, FS_Subset
  <2> QED
    BY <2>2, <2>3 DEF OneAtATime
<1> QED
  BY <1>1, HalAlways, PTL

\* Each call closes the file it opened and no other.
THEOREM FilesAreReturned == Spec => []FilesReturned
<1>1. HalInv => FilesReturned
  BY DEF HalInv
<1> QED
  BY <1>1, HalAlways, PTL

\* Only a failed open leaves the mutex locked behind a call.
THEOREM LockIsAccounted == Spec => []LockAccounted
<1>1. HalInv => LockAccounted
  BY DEF HalInv
<1> QED
  BY <1>1, HalAlways, PTL

-----------------------------------------------------------------------------
(***************************************************************************)
(* Refinement.  A call takes effect when its ioctl returns, or is refused  *)
(* when there is no device or the open fails.                              *)
(***************************************************************************)
Stages == [c \in Callers |-> Stage(pc[c])]

LEMMA StageMoves ==
  ASSUME TypeOK, NEW c \in Callers, NEW from, NEW to, Goto(c, from, to)
  PROVE  Stages[c] = Stage(from) /\ Stages' = [Stages EXCEPT ![c] = Stage(to)]
BY OthersStay DEF Stages

LEMMA StageStays ==
  ASSUME TypeOK, NEW c \in Callers, NEW from, NEW to, Goto(c, from, to),
         Stage(from) = Stage(to)
  PROVE  Stages' = Stages
<1>1. Stages[c] = Stage(from) /\ Stages' = [Stages EXCEPT ![c] = Stage(to)]
  BY StageMoves
<1> QED
  BY <1>1 DEF Stages

LEMMA CommandEffect ==
  ASSUME HalInv, NEW c \in Callers, IoctlReturns(c)
  PROVE  earInject' = (request[c] = 0 \/ (request[c] < 0 /\ earInject))
<1>1. request[c] \in Int /\ earInject \in BOOLEAN
  <2>1. request[c] \in Ways \cup {0} /\ earInject \in BOOLEAN
    BY DEF HalInv, TypeOK
  <2>2. Ways \subseteq Int
    BY HalAssumption DEF HalAssumption
  <2>3. ASSUME NEW r \in Ways \cup {0} PROVE r \in Int
    BY <2>2
  <2> QED
    BY <2>1, <2>3
<1>2. auxWay[c] = IF request[c] > 1 THEN 1 ELSE request[c]
  BY DEF HalInv, CommandIs, Clamped
<1>3. CASE request[c] = 0
  <2>1. earInject' = TRUE
    BY <1>2, <1>3 DEF IoctlReturns
  <2> QED
    BY <1>3, <2>1
<1>4. CASE request[c] > 0
  <2>1. auxWay[c] = 1
    BY <1>1, <1>2, <1>4
  <2>2. earInject' = FALSE
    BY <2>1 DEF IoctlReturns
  <2>3. request[c] # 0 /\ ~(request[c] < 0)
    BY <1>1, <1>4
  <2> QED
    BY <2>2, <2>3
<1>5. CASE request[c] < 0
  <2>1. auxWay[c] # 0 /\ auxWay[c] # 1
    BY <1>1, <1>2, <1>5
  <2>2. earInject' = earInject
    BY <2>1 DEF IoctlReturns
  <2>3. request[c] # 0
    BY <1>1, <1>5
  <2> QED
    BY <1>1, <1>5, <2>2, <2>3
<1> QED
  BY <1>1, <1>3, <1>4, <1>5

LEMMA RefinesStep ==
  ASSUME HalInv, [Next]_vars
  PROVE  [Switches!Next]_(Switches!vars)
<1>0. TypeOK
  BY DEF HalInv
<1>1. ASSUME NEW c \in Callers, NEW way \in Ways, AuxSwitch(c, way)
      PROVE  Switches!Ask(c, way)
  <2>1. Stages[c] = Stage("idle") /\ Stages' = [Stages EXCEPT ![c] = Stage("called")]
    BY <1>0, <1>1, StageMoves DEF AuxSwitch
  <2> QED
    BY <1>1, <2>1 DEF AuxSwitch, Stages, Stage, Switches!Ask, Switches!Move
<1>2. ASSUME NEW c \in Callers, IoctlReturns(c)
      PROVE  Switches!Switch(c)
  <2>1. Stages[c] = Stage("driver") /\ Stages' = [Stages EXCEPT ![c] = Stage("close")]
    BY <1>0, <1>2, StageMoves DEF IoctlReturns
  <2>2. earInject' = (request[c] = 0 \/ (request[c] < 0 /\ earInject))
    BY <1>2, CommandEffect
  <2>3. Switches!Move(c, "asked", "done")
    BY <2>1 DEF Stages, Stage, Switches!Move
  <2>4. ret' = [ret EXCEPT ![c] = 0] /\ UNCHANGED request
    BY <1>2 DEF IoctlReturns
  <2> QED
    BY <2>2, <2>3, <2>4 DEF Switches!Switch
<1>3. ASSUME NEW c \in Callers, NoDevice(c) \/ OpenFails(c)
      PROVE  Switches!Refuse(c)
  <2>1. Switches!Move(c, "asked", "done")
    <3>1. CASE NoDevice(c)
      <4>1. Stages[c] = Stage("called") /\ Stages' = [Stages EXCEPT ![c] = Stage("return")]
        BY <1>0, <3>1, StageMoves DEF NoDevice
      <4> QED
        BY <4>1 DEF Stages, Stage, Switches!Move
    <3>2. CASE OpenFails(c)
      <4>1. Stages[c] = Stage("open") /\ Stages' = [Stages EXCEPT ![c] = Stage("return")]
        BY <1>0, <3>2, StageMoves DEF OpenFails
      <4> QED
        BY <4>1 DEF Stages, Stage, Switches!Move
    <3> QED
      BY <1>3, <3>1, <3>2
  <2> QED
    BY <1>3, <2>1 DEF NoDevice, OpenFails, Switches!Refuse
<1>4. ASSUME NEW c \in Callers, Return(c)
      PROVE  Switches!Answer(c)
  <2>1. Stages[c] = Stage("return") /\ Stages' = [Stages EXCEPT ![c] = Stage("idle")]
    BY <1>0, <1>4, StageMoves DEF Return
  <2> QED
    BY <1>4, <2>1 DEF Return, Stages, Stage, Switches!Answer, Switches!Move
<1>5. ASSUME NEW c \in Callers,
             Lock(c) \/ Open(c) \/ IoctlEnters(c) \/ Close(c) \/ Unlock(c)
      PROVE  UNCHANGED Switches!vars
  <2>1. /\ Stage("called") = Stage("open") /\ Stage("open") = Stage("ioctl")
        /\ Stage("ioctl") = Stage("driver") /\ Stage("close") = Stage("unlock")
        /\ Stage("unlock") = Stage("return")
    BY DEF Stage
  <2>2. Stages' = Stages
    BY <1>0, <1>5, <2>1, StageStays DEF Lock, Open, IoctlEnters, Close, Unlock
  <2> QED
    BY <1>5, <2>2 DEF Lock, Open, IoctlEnters, Close, Unlock, Stages, Switches!vars
<1>6. CASE SoundInit \/ UNCHANGED vars
  BY <1>6 DEF SoundInit, vars, callVars, Switches!vars
<1> QED
  BY <1>1, <1>2, <1>3, <1>4, <1>5, <1>6 DEF Next, Proceed, Switches!Next

\* system_server implements AuxSwitchService: every call of aux_switch is
\* answered for what it did, and switches at one instant or not at all.
THEOREM CallsAreSwitches == Spec => SwitchSpec
<1>1. Init => Switches!Init
  BY DEF Init, Stage, Switches!Init
<1> QED
  BY <1>1, RefinesStep, HalAlways, PTL DEF Spec, SwitchSpec, Switches!Spec

=============================================================================
