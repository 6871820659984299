----------------------------- MODULE MCNpca110 -----------------------------
(***************************************************************************)
(* Instances of Npca110 for TLC.                                           *)
(***************************************************************************)
EXTENDS Npca110, TLC

CONSTANTS t1, t2

TwoTasks == {t1, t2}

TaskSymmetry == Permutations(Tasks)

\* The pins start low: the levels under which an injected input could be
\* without power.
InitPinsLow == Init /\ ps = 0 /\ pa = 0

\* For the safety run: attempts of the restore may fail, every other table
\* gets through; tasks open the node once and make switching calls only.
RestoreMayFail ==
  \/ \E t \in Tasks : TaskNext(t) \/ Transfer(t)
  \/ Transfer(Worker)
  \/ running = "sure" /\ AttemptFails(Worker)
  \/ WorkerNext
  \/ PMNext

SwitchingOnly == \A t \in Tasks : op'[t] # "other" /\ ~Release(t)

SafetySpec == InitPinsLow /\ [][RestoreMayFail /\ SwitchingOnly]_vars

\* For the liveness run: one task is enough for each direction of a switch.
EachItsWay ==
  op'[t1] # "AUX2_TO_AUX1" /\ op'[t2] \notin {"AUX1_TO_AUX2", "other"}

LiveSpec == InitPinsLow /\ [][Next /\ EachItsWay]_vars /\ Fairness

-----------------------------------------------------------------------------
(***************************************************************************)
(* npca110.c:279 says of AUX1_TO_AUX2: "audio input from aux1 to aux2 ,    *)
(* connect , injected".  When nobody is at work on the codec and the flag  *)
(* says injected, aux2 is then the input.  The worker contradicts that as  *)
(* well as a failing bus; the specification below leaves only another task *)
(* to do so.                                                               *)
(***************************************************************************)
InjectedMeansAux2 == Idle /\ earInject /\ chip.route # "unset" => chip.route = "LIN2"

InitWorkDone == running # "init" /\ ~Queue!IsPending("init")

\* Calls are made after the start-up work only, and the system never sleeps.
CallersOnly == Init /\ [][Next /\ pm' = "on" /\ (InitWorkDone \/ UNCHANGED pc)]_vars

=============================================================================
