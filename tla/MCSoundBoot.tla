----------------------------- MODULE MCSoundBoot -----------------------------
(***************************************************************************)
(* An instance of SoundBoot for TLC: two threads, which may meet in a      *)
(* context of system_server or of an application.                          *)
(***************************************************************************)
EXTENDS SoundBoot

CONSTANTS t1, t2, server, app

TwoThreads   == {t1, t2}
ServerAlone  == {server}
AppAlone     == {app}

=============================================================================
