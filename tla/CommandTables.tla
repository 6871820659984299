--------------------------- MODULE CommandTables ---------------------------
(***************************************************************************)
(* The command tables of npca110.h, word by word.  A word is a command,    *)
(* which announces how many words of data follow it, or one of these data  *)
(* words.  Commands the models do not tell apart are called "Set" when     *)
(* they carry their value in themselves and "Register" when the value is   *)
(* the next word.                                                          *)
(***************************************************************************)
EXTENDS Integers, Sequences

CONSTANTS
  PatchWords,  \* words of the patch in a start-up table: 1250
  XWrites      \* "Generic Write (X)" commands in it: 136

ASSUME TableAssumption == PatchWords \in Nat \ {0} /\ XWrites \in Nat

CommandNames ==
  {"Set", "Register", "SetupStart", "SetupCompleted", "MixerGains", "SSI", "PEQ",
   "Patch", "Clock", "PLL"}

ClockSources == {"crystal", "pll"}

PLLStates == {"reset", "running"}

Values == {"any"} \cup ClockSources \cup PLLStates

WordSet ==
  [kind : {"command"}, name : CommandNames, data : Nat]
    \cup [kind : {"data"}, name : Values, data : {0}]

Command(name, n) == [kind |-> "command", name |-> name, data |-> n]
Data(value)      == [kind |-> "data", name |-> value, data |-> 0]

\* A command with its n words of data.
Load(name, n) == << Command(name, n) >> \o [i \in 1..n |-> Data("any")]

\* A command whose one word of data matters.
Setting(name, value) == << Command(name, 1), Data(value) >>

\* n commands that carry their value in themselves.
Settings(n) == [i \in 1..n |-> Command("Set", 0)]

\* n writes of a register: the register, then its value.
Registers(n) ==
  [i \in 1..2 * n |-> IF i % 2 = 1 THEN Command("Register", 1) ELSE Data("any")]

-----------------------------------------------------------------------------
(***************************************************************************)
(* What switches the input of the analog-to-digital converter.             *)
(***************************************************************************)
AdcWay == Registers(4)

-----------------------------------------------------------------------------
(***************************************************************************)
(* The sections of a start-up table.                                       *)
(***************************************************************************)
SetupStart == << Command("SetupStart", 0) >> \o Settings(1)

MixerGains == Load("MixerGains", 17) \o Settings(1)

SSIControl == Load("SSI", 1)

\* Mutant: the clocks are taken from the PLL before it leaves its reset.
ClocksTooEarly ==
  Setting("Clock", "crystal") \o Setting("PLL", "reset")
    \o Setting("Clock", "pll") \o Setting("PLL", "running")

\* The clocks come from the crystal while the PLL is reset and set up, and
\* from the PLL after that.
Clocks ==
  Setting("Clock", "crystal") \o Setting("PLL", "reset")
    \o Setting("PLL", "running") \o Setting("Clock", "pll")

Codec == Registers(10)

SubEQ == Settings(1) \o Registers(7) \o Settings(2) \o Registers(7) \o Settings(1)

GPIO == Registers(5)

Algorithm == Settings(23)

PEQ == Load("PEQ", 5) \o Settings(1)

PEQs == PEQ \o PEQ \o PEQ \o PEQ \o PEQ \o PEQ \o PEQ \o PEQ \o PEQ \o PEQ

Intensities == Settings(22)

HWP == Registers(29)

\* Mutant: the patch is one word shorter than its command says.
PatchShort ==
  Settings(1) \o << Command("Patch", PatchWords) >> \o Tail(Load("Patch", PatchWords - 1))

Patch == Settings(1) \o Load("Patch", PatchWords)

GenericWrites == Registers(XWrites)

\* Mutant: the setup is completed before the patch.
SetupEndMissing == Settings(7)

SetupEnd ==
  << Command("SetupCompleted", 0) >> \o Settings(5) \o << Command("SetupCompleted", 0) >>

-----------------------------------------------------------------------------
(***************************************************************************)
(* The start-up tables.  The three FULL parts are to be sent one after the *)
(* other; music1_FULL and movie_FULL are whole.                            *)
(***************************************************************************)
MaxxAudio_Cmd_FULL_Init ==
  SetupStart \o MixerGains \o SSIControl \o Clocks \o Codec \o SubEQ \o GPIO

\* One setting of the algorithm less than the whole tables.
MaxxAudio_Cmd_FULL_Alg == Settings(22) \o PEQs \o Intensities \o HWP

MaxxAudio_Cmd_FULL_Patch == Patch \o GenericWrites \o SetupEnd

MaxxAudio_Cmd_music1_FULL ==
  SetupStart \o MixerGains \o SSIControl \o Clocks \o Codec \o SubEQ \o GPIO
    \o Algorithm \o PEQs \o Intensities \o HWP \o Patch \o GenericWrites \o SetupEnd

\* Other values than music1_FULL, and thirteen more settings at the end.
MaxxAudio_Cmd_movie_FULL == MaxxAudio_Cmd_music1_FULL \o Settings(13)

AdcWays == {"AdcWay1to2", "AdcWay2to1"}

Tables ==
  AdcWays \cup {"FULL_Init", "FULL_Alg", "FULL_Patch", "music1_FULL", "movie_FULL"}

Words ==
  [t \in Tables |->
     CASE t = "FULL_Init"   -> MaxxAudio_Cmd_FULL_Init
       [] t = "FULL_Alg"    -> MaxxAudio_Cmd_FULL_Alg
       [] t = "FULL_Patch"  -> MaxxAudio_Cmd_FULL_Patch
       [] t = "music1_FULL" -> MaxxAudio_Cmd_music1_FULL
       [] t = "movie_FULL"  -> MaxxAudio_Cmd_movie_FULL
       [] t \in AdcWays     -> AdcWay]

Size == [t \in Tables |-> Len(Words[t])]

=============================================================================
