----------------------------- MODULE MCSoundHal -----------------------------
(***************************************************************************)
(* Instances of SoundHal for TLC.                                          *)
(***************************************************************************)
EXTENDS SoundHal

CONSTANTS c1, c2, c3

OneCaller    == {c1}
ThreeCallers == {c1, c2, c3}

\* What the application passes, and one value beyond it on each side.
SampleWays == -1..2

AppWays == {0, 1}

-----------------------------------------------------------------------------
(***************************************************************************)
(* com_android_server_sound_SoundService.cpp:43 reports a negative result  *)
(* of the HAL as "Interface function <AuxSwitch> return error !!!": a call *)
(* that cannot switch is answered with an error.                           *)
(***************************************************************************)
CallsAnswered == \A c \in Callers : pc[c] = "called" ~> pc[c] = "idle"

=============================================================================
