-------------------------- MODULE AuxSwitchService --------------------------
(***************************************************************************)
(* What SoundManager.aux_switch promises: every call takes effect at one   *)
(* instant between its start and its answer, or not at all.                *)
(***************************************************************************)
EXTENDS Integers

CONSTANTS
  Callers,   \* threads that call aux_switch
  Ways       \* the values they pass

VARIABLES
  stage,     \* per caller: "idle", "asked", "done"
  request,   \* the way it asked for
  answer,    \* the answer on its way to it
  earInject  \* the input that is selected: TRUE is aux2

vars == <<stage, request, answer, earInject>>

Init ==
  /\ stage = [c \in Callers |-> "idle"]
  /\ request = [c \in Callers |-> 0]
  /\ answer = [c \in Callers |-> 0]
  /\ earInject = FALSE

Move(c, from, to) ==
  /\ stage[c] = from
  /\ stage' = [stage EXCEPT ![c] = to]

Ask(c, way) ==
  /\ Move(c, "idle", "asked")
  /\ request' = [request EXCEPT ![c] = way]
  /\ UNCHANGED <<answer, earInject>>

\* Way 0 selects aux2, any positive way aux1; a negative one selects nothing,
\* though its answer is 0 too.
Switch(c) ==
  /\ Move(c, "asked", "done")
  /\ answer' = [answer EXCEPT ![c] = 0]
  /\ earInject' = (request[c] = 0 \/ (request[c] < 0 /\ earInject))
  /\ UNCHANGED request

Refuse(c) ==
  /\ Move(c, "asked", "done")
  /\ answer' = [answer EXCEPT ![c] = -1]
  /\ UNCHANGED <<request, earInject>>

Answer(c) ==
  /\ Move(c, "done", "idle")
  /\ UNCHANGED <<request, answer, earInject>>

Next ==
  \E c \in Callers :
    (\E way \in Ways : Ask(c, way)) \/ Switch(c) \/ Refuse(c) \/ Answer(c)

Spec == Init /\ [][Next]_vars

=============================================================================
