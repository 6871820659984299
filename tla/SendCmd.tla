------------------------------ MODULE SendCmd ------------------------------
(***************************************************************************)
(* Npca110_SendCmd and npca110_i2c_write: how the words of a command table *)
(* get to the DSP, attempt by attempt, and what the DSP makes of them.     *)
(*                                                                         *)
(* The calls are those of the two work items and of ioctl, one after the   *)
(* other in any order; what becomes of calls that overlap is the subject   *)
(* of Npca110.                                                             *)
(***************************************************************************)
EXTENDS CommandTables

CONSTANTS
  I2cMayFail,  \* may an attempt to send a word fail?
  StartUps     \* the start-ups npca110_init_events may be compiled with

\* The one it is compiled with, and those its comments keep for a change.
InForce == << "music1_FULL" >>

CommentedOut == { << "FULL_Init", "FULL_Alg", "FULL_Patch" >>, << "movie_FULL" >> }

ASSUME SendAssumption ==
  /\ I2cMayFail \in BOOLEAN
  /\ StartUps # {} /\ StartUps \subseteq {InForce} \cup CommentedOut

VARIABLES
  startUp,     \* the tables npca110_init_events sends, first one first
  sent,        \* how many of them it has begun to send
  work,        \* the work item that has still to send a table: "init", "sure"
               \* or "none"
  table,       \* the CmdList of the call under way, or "idle"
  index,       \* the loop variable: words done
  retry,       \* attempts npca110_i2c_write has left for the current word
  pc,          \* "write": in npca110_i2c_write; "after": in the rest of the
               \* loop body; "idle": no call under way
  ret,         \* what npca110_i2c_write returned
  pll_cmd_done,
  result,      \* between two calls: what the last one returned, for which table
  arrived,     \* the position in the table of its newest word in the chip
  dsp,         \* the DSP, as the words that reached it left it
  pause,       \* microseconds of delay the driver has made since a word arrived
  lost,        \* history variable, not in the code: a call since the last
               \* reset of the chip has returned -1
  twice        \* history variable: since that reset a word has reached the
               \* chip twice

workVars == <<startUp, sent, work>>
callVars == <<table, index, retry, pc, ret, pll_cmd_done, result>>
chipVars == <<arrived, dsp, pause, lost, twice>>
vars     == <<workVars, callVars, chipVars>>

CurrentWord == Words[table][index + 1]

-----------------------------------------------------------------------------
(***************************************************************************)
(* The DSP: it takes as many words for data as the last command announced, *)
(* and the next one for a command.  A word taken for what it is not        *)
(* garbles it until its next reset.                                        *)
(***************************************************************************)
DspSet ==
  [want : Nat, last : CommandNames \cup {"none"},
   mode : {"reset", "setup", "processing", "garbled"},
   loaded : SUBSET CommandNames, clock : Values, pll : Values]

DspReset ==
  [want |-> 0, last |-> "none", mode |-> "reset", loaded |-> {},
   clock |-> "crystal", pll |-> "reset"]

Garbled ==
  [want |-> 0, last |-> "none", mode |-> "garbled", loaded |-> {},
   clock |-> "crystal", pll |-> "reset"]

TakeData(d, w) ==
  [want   |-> d.want - 1,
   last   |-> d.last,
   mode   |-> d.mode,
   loaded |-> IF d.want = 1 THEN d.loaded \cup {d.last} ELSE d.loaded,
   clock  |-> IF d.last = "Clock" THEN w.name ELSE d.clock,
   pll    |-> IF d.last = "PLL" THEN w.name ELSE d.pll]

ModeAfter(mode, name) ==
  IF name = "SetupStart" THEN "setup"
  ELSE IF name = "SetupCompleted" THEN "processing" ELSE mode

TakeCommand(d, w) ==
  [want |-> w.data, last |-> w.name, mode |-> ModeAfter(d.mode, w.name),
   loaded |-> d.loaded, clock |-> d.clock, pll |-> d.pll]

DspAfter(d, w) ==
  IF d = Garbled \/ (d.want > 0 <=> w.kind = "command") THEN Garbled
  ELSE IF d.want > 0 THEN TakeData(d, w) ELSE TakeCommand(d, w)

\* Everything a start-up has to give the DSP.
Configuration == {"MixerGains", "SSI", "Clock", "PLL", "Register", "PEQ", "Patch"}

Configured(d) == Configuration \subseteq d.loaded /\ d.clock = "pll"

-----------------------------------------------------------------------------
(***************************************************************************)
(* The callers of Npca110_SendCmd.                                         *)
(***************************************************************************)
Attempts == 3

NoResult == [table |-> "none", value |-> 0]

Call(t) ==
  /\ pc = "idle"
  /\ pc' = "write"
  /\ table' = t
  /\ index' = 0
  /\ retry' = Attempts
  /\ pll_cmd_done' = FALSE
  /\ result' = NoResult
  /\ UNCHANGED <<ret, chipVars>>

\* npca110_init_events sends one table after the other and looks at no result.
SendStartUp ==
  /\ work = "init"
  /\ Call(startUp[sent + 1])
  /\ sent' = sent + 1
  /\ work' = IF sent' = Len(startUp) THEN "none" ELSE "init"
  /\ UNCHANGED startUp

\* npca110_suspend_resume pulls the reset pin of the chip down and up ...
ResetChip ==
  /\ pc = "idle"
  /\ work = "none"
  /\ work' = "sure"
  /\ dsp' = DspReset
  /\ pause' = 30000
  /\ lost' = FALSE
  /\ twice' = FALSE
  /\ result' = NoResult
  /\ UNCHANGED <<startUp, sent, table, index, retry, pc, ret, pll_cmd_done, arrived>>

\* ... and sends the table for the flag.
SendRestore ==
  /\ work = "sure"
  /\ \E t \in AdcWays : Call(t)
  /\ work' = "none"
  /\ UNCHANGED <<startUp, sent>>

\* npca110_ioctl sends the table of its command.
SendSwitch ==
  /\ \E t \in AdcWays : Call(t)
  /\ UNCHANGED workVars

-----------------------------------------------------------------------------
(***************************************************************************)
(* Npca110_SendCmd.                                                        *)
(***************************************************************************)

\* The word under way reaches the DSP.
Arrives ==
  /\ dsp' = DspAfter(dsp, CurrentWord)
  /\ arrived' = index + 1
  /\ twice' = (twice \/ arrived = index + 1)

\* i2c_transfer succeeds and npca110_i2c_write returns.
AttemptSucceeds ==
  /\ pc = "write"
  /\ pc' = "after"
  /\ Arrives
  /\ pause' = 0
  /\ ret' = 1
  /\ UNCHANGED <<workVars, table, index, retry, pll_cmd_done, result, lost>>

\* Mutant: the third failure is taken for a success.
AttemptFailsUnnoticed ==
  /\ I2cMayFail
  /\ pc = "write"
  /\ pause' = 30000
  /\ retry' = retry - 1
  /\ ret' = 1
  /\ IF retry = 1 THEN pc' = "after" ELSE UNCHANGED pc
  /\ UNCHANGED <<workVars, table, index, pll_cmd_done, result, arrived, dsp, lost, twice>>

\* Mutant: the attempts are not counted down.
AttemptFailsUncounted ==
  /\ I2cMayFail
  /\ pc = "write"
  /\ Arrives \/ UNCHANGED <<arrived, dsp, twice>>
  /\ pause' = 30000
  /\ ret' = -1
  /\ UNCHANGED <<workVars, table, index, retry, pc, pll_cmd_done, result, lost>>

\* i2c_transfer fails, whether the word got to the chip or not.  After 30 ms
\* the same word is tried again; the third failure is the result.
AttemptFails ==
  /\ I2cMayFail
  /\ pc = "write"
  /\ Arrives \/ UNCHANGED <<arrived, dsp, twice>>
  /\ pause' = 30000
  /\ retry' = retry - 1
  /\ ret' = -1
  /\ IF retry = 1 THEN pc' = "after" ELSE UNCHANGED pc
  /\ UNCHANGED <<workVars, table, index, pll_cmd_done, result, lost>>

Return(r) ==
  /\ result' = [table |-> table, value |-> r]
  /\ table' = "idle"
  /\ pc' = "idle"
  /\ index' = 0
  /\ arrived' = 0
  /\ UNCHANGED retry

NextWord ==
  /\ index' = index + 1
  /\ pc' = "write"
  /\ retry' = Attempts
  /\ UNCHANGED <<table, result, arrived>>

\* Mutant: the loop runs to index <= size / 3.
AfterWriteOneMore ==
  /\ pc = "after"
  /\ pause' = IF pll_cmd_done /\ pause < 250 THEN 250 ELSE pause
  /\ pll_cmd_done' = FALSE
  /\ lost' = (lost \/ ret < 0)
  /\ IF index = Size[table] THEN Return(0) ELSE NextWord
  /\ UNCHANGED <<workVars, ret, dsp, twice>>

\* Mutant: a table that failed is sent again from its start.
AfterWriteRestarts ==
  /\ pc = "after"
  /\ pause' = IF pll_cmd_done /\ pause < 250 THEN 250 ELSE pause
  /\ pll_cmd_done' = FALSE
  /\ lost' = (lost \/ ret < 0)
  /\ \/ /\ ret < 0
        /\ index' = 0 /\ arrived' = 0
        /\ pc' = "write" /\ retry' = Attempts
        /\ UNCHANGED <<table, result>>
     \/ ret >= 0 /\ index + 1 = Size[table] /\ Return(0)
     \/ ret >= 0 /\ index + 1 # Size[table] /\ NextWord
  /\ UNCHANGED <<workVars, ret, dsp, twice>>

\* Mutant: the delay comes after the command word and not after its setting.
AfterWriteDelaysTooEarly ==
  /\ pc = "after"
  /\ pll_cmd_done' = FALSE
  /\ pause' = IF CurrentWord.name \in {"PLL", "Clock"} /\ pause < 250 THEN 250 ELSE pause
  /\ lost' = (lost \/ ret < 0)
  /\ \/ ret < 0 /\ Return(-1)
     \/ ret >= 0 /\ index + 1 = Size[table] /\ Return(0)
     \/ ret >= 0 /\ index + 1 # Size[table] /\ NextWord
  /\ UNCHANGED <<workVars, ret, dsp, twice>>

\* Mutant: a table that failed is closed with its last word.
AfterWriteClosesTable ==
  /\ pc = "after"
  /\ pause' = IF pll_cmd_done /\ pause < 250 THEN 250 ELSE pause
  /\ pll_cmd_done' = (CurrentWord.name \in {"PLL", "Clock"})
  /\ lost' = (lost \/ ret < 0)
  /\ \/ ret < 0 /\ index + 1 = Size[table] /\ Return(-1)
     \/ /\ ret < 0 /\ index + 1 # Size[table]
        /\ index' = Size[table] - 1
        /\ pc' = "write" /\ retry' = Attempts
        /\ UNCHANGED <<table, result, arrived>>
     \/ ret >= 0 /\ index + 1 = Size[table] /\ Return(0)
     \/ ret >= 0 /\ index + 1 # Size[table] /\ NextWord
  /\ UNCHANGED <<workVars, ret, dsp, twice>>

\* The rest of the loop body: the delay that is due, whether the next round
\* has to make one, and the result of the write.
AfterWrite ==
  /\ pc = "after"
  /\ pause' = IF pll_cmd_done /\ pause < 250 THEN 250 ELSE pause
  /\ pll_cmd_done' = (CurrentWord.name \in {"PLL", "Clock"})
  /\ lost' = (lost \/ ret < 0)
  /\ \/ ret < 0 /\ Return(-1)
     \/ ret >= 0 /\ index + 1 = Size[table] /\ Return(0)
     \/ ret >= 0 /\ index + 1 # Size[table] /\ NextWord
  /\ UNCHANGED <<workVars, ret, dsp, twice>>

-----------------------------------------------------------------------------
\* npca110_probe has queued the init work.
Init ==
  /\ startUp \in StartUps
  /\ sent = 0
  /\ work = "init"
  /\ table = "idle"
  /\ index = 0
  /\ retry = Attempts
  /\ pc = "idle"
  /\ ret = 1
  /\ pll_cmd_done = FALSE
  /\ result = NoResult
  /\ arrived = 0
  /\ dsp = DspReset
  /\ pause = 30000
  /\ lost = FALSE
  /\ twice = FALSE

Calling == SendStartUp \/ ResetChip \/ SendRestore \/ SendSwitch

Running == AttemptSucceeds \/ AttemptFails \/ AfterWrite

Next == Calling \/ Running

\* The loop of a call that was made is executed.
Fairness == WF_vars(Running)

Spec     == Init /\ [][Next]_vars
FairSpec == Spec /\ Fairness

-----------------------------------------------------------------------------
\* Every variable holds a value of its kind.
TypeOK ==
  /\ startUp \in StartUps
  /\ sent \in 0..Len(startUp)
  /\ work \in {"init", "sure", "none"}
  /\ work = "init" <=> sent < Len(startUp)
  /\ table \in Tables \cup {"idle"}
  /\ table = "idle" <=> pc = "idle"
  /\ index \in Nat /\ (table # "idle" => index < Size[table])
  /\ retry \in 0..Attempts
  /\ pc \in {"idle", "write", "after"}
  /\ ret \in {-1, 1}
  /\ pll_cmd_done \in BOOLEAN
  /\ result \in [table : Tables \cup {"none"}, value : {-1, 0}]
  /\ arrived \in 0..index + 1
  /\ dsp \in DspSet
  /\ pause \in {0, 250, 30000}
  /\ lost \in BOOLEAN
  /\ twice \in BOOLEAN

\* When a word is sent to a DSP that has just taken a clock or PLL setting, the
\* driver has let at least 250 us pass: npca110.h:2990 asks for it between the
\* PLL commands, and Npca110_SendCmd delays for it after the setting.
PLLCommandsSpaced ==
  pc = "write" /\ dsp.last \in {"PLL", "Clock"} /\ dsp.want = 0 => pause >= 250

\* The tables and SendCmd keep the DSP in step: as long as no call has failed
\* and no word has arrived twice since the reset, it takes no data for a
\* command and no command for data.
FramingKept == ~lost /\ ~twice => dsp # Garbled

\* A DSP that is in step never runs from a PLL that is still in its reset,
\* wherever a start-up breaks off and whatever is sent after that.
ClockSourceRuns == dsp.clock = "pll" => dsp.pll = "running"

\* A start-up of one table, as the one in force is, sets the DSP to work only with
\* the whole configuration, whatever is lost on the bus or comes twice: SendCmd
\* gives up at the first word that fails, so the word that ends the set-up is
\* not sent, and a word too many garbles the DSP or does no harm.
StartsConfigured ==
  Len(startUp) = 1 /\ dsp.mode = "processing" => Configured(dsp)

\* A start-up all of whose tables were sent with result 0 leaves the DSP at
\* work with the whole configuration and no command unfinished.
StartUpCompletes ==
  pc = "idle" /\ ~lost /\ ~twice /\ result = [table |-> startUp[Len(startUp)], value |-> 0] =>
    dsp.mode = "processing" /\ Configured(dsp) /\ dsp.want = 0

\* What a call has left to do at most: for each word of the rest of its table
\* three attempts and the end of the round.
StepsLeft ==
  IF pc = "idle" THEN 0
  ELSE (Attempts + 1) * (Size[table] - (index + 1)) + 1 + (IF pc = "write" THEN retry ELSE 0)

\* While a call is under way every step, a failed attempt as well as a word that
\* went through, brings its return nearer: retries neither start a word or a
\* table afresh nor go on below zero, so a table of n words is over after at
\* most 4 n steps, however long it is and whatever the bus does.
CallShortens ==
  [][pc # "idle" => StepsLeft' \in 0..StepsLeft - 1 /\ StepsLeft <= (Attempts + 1) * Size[table]]_vars

\* Npca110_SendCmd returns, whatever the bus does.
CallReturns == pc # "idle" ~> pc = "idle"

\* The words arrive in the order of the table with none left out, whether a
\* table gets through or not.
Transfer ==
  INSTANCE TableTransfer
    WITH table <- IF table # "idle" /\ arrived = Size[table] THEN "idle" ELSE table,
         sent  <- IF table # "idle" /\ arrived = Size[table] THEN 0 ELSE arrived

TransferSpec == Transfer!Spec

=============================================================================
