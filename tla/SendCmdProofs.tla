--------------------------- MODULE SendCmdProofs ---------------------------
(***************************************************************************)
(* Proofs about SendCmd, for any length of the patch, any number of        *)
(* generic writes, and a bus that may or may not fail.                     *)
(***************************************************************************)
EXTENDS SendCmd, CommandTablesProofs

LEMMA TableFacts ==
  ASSUME NEW t \in Tables
  PROVE  /\ Words[t] \in Seq(WordSet)
         /\ Size[t] \in Nat \ {0}
         /\ Size[t] = Len(Words[t])
         /\ \A i \in 1..Size[t] : Words[t][i] \in WordSet
         /\ Words[t][1].kind = "command"
         /\ SettingsNamed(Words[t])
         /\ ClockOrder(Words[t])
         /\ \E f : IsFraming(Words[t], f)
<1>1. Whole(Words[t])
  BY TablesWellFormed
<1>2. Words[t] \in Seq(WordSet) /\ Len(Words[t]) \in Nat /\ Len(Words[t]) > 0
  BY <1>1, LenProperties DEF Whole, WellFormed
<1>3. Size[t] = Len(Words[t])
  BY DEF Size
<1>4. \A i \in 1..Len(Words[t]) : Words[t][i] \in WordSet
  BY <1>2, ElementOfSeq
<1>5. PICK f : IsFraming(Words[t], f)
  BY <1>1 DEF Whole, WellFormed
<1>6. Words[t][1].kind = "command"
  <2>1. 1 \in 1..Len(Words[t]) /\ f[1 - 1] = 0
    BY <1>2, <1>5 DEF IsFraming
  <2> QED
    BY <2>1, <1>5 DEF IsFraming
<1> QED
  BY <1>1, <1>2, <1>3, <1>4, <1>5, <1>6 DEF Whole, WellFormed

LEMMA StartUpFacts ==
  ASSUME NEW s \in StartUps
  PROVE  /\ Len(s) \in Nat \ {0}
         /\ \A i \in 1..Len(s) : s[i] \in Tables
BY SendAssumption DEF SendAssumption, InForce, CommentedOut, Tables, AdcWays

LEMMA NoResultTyped == NoResult \in [table : Tables \cup {"none"}, value : {-1, 0}]
BY DEF NoResult

LEMMA IdleIsNoTable == "idle" \notin Tables /\ "none" \notin Tables
BY DEF Tables, AdcWays

-----------------------------------------------------------------------------
(***************************************************************************)
(* The DSP.                                                                *)
(***************************************************************************)
DspOK ==
  /\ dsp.last = "none" => dsp.want = 0
  /\ dsp.mode = "garbled" => dsp = Garbled
  /\ dsp.last \in PLLNames => dsp.want <= 1

LEMMA GarbledFacts ==
  /\ Garbled \in DspSet
  /\ Garbled.want = 0 /\ Garbled.last = "none" /\ Garbled.mode = "garbled"
  /\ Garbled.clock = "crystal" /\ Garbled.pll = "reset"
BY DEF Garbled, DspSet, Values, ClockSources, PLLStates

\* A word garbles the DSP, is the data it waits for, or is its next command.
LEMMA DspCases ==
  ASSUME NEW d \in DspSet, NEW w \in WordSet,
         d.last = "none" => d.want = 0,
         d.mode = "garbled" => d = Garbled
  PROVE  \/ /\ DspAfter(d, w) = Garbled
            /\ d.mode = "garbled" \/ (d.want > 0 <=> w.kind = "command")
         \/ /\ d.mode # "garbled" /\ d.want > 0 /\ w.kind = "data"
            /\ DspAfter(d, w) = TakeData(d, w)
         \/ /\ d.mode # "garbled" /\ d.want = 0 /\ w.kind = "command"
            /\ DspAfter(d, w) = TakeCommand(d, w)
<1>1. d.want \in Nat /\ w.kind \in {"command", "data"}
  BY DEF DspSet, WordSet
<1>2. d = Garbled => d.mode = "garbled"
  BY GarbledFacts
<1> QED
  BY <1>1, <1>2 DEF DspAfter

LEMMA TakeDataFacts ==
  ASSUME NEW d \in DspSet, NEW w \in WordSet, d.last # "none", d.want > 0, w.kind = "data",
         NEW e, e = TakeData(d, w)
  PROVE  /\ e \in DspSet
         /\ e.want = d.want - 1 /\ e.last = d.last /\ e.mode = d.mode
         /\ e.clock = IF d.last = "Clock" THEN w.name ELSE d.clock
         /\ e.pll = IF d.last = "PLL" THEN w.name ELSE d.pll
         /\ e.loaded = IF d.want = 1 THEN d.loaded \cup {d.last} ELSE d.loaded
<1>1. w.name \in Values
  BY DEF WordSet
<1>2. d.last \in CommandNames
  BY DEF DspSet
<1> QED
  BY <1>1, <1>2 DEF TakeData, DspSet

LEMMA TakeCommandFacts ==
  ASSUME NEW d \in DspSet, NEW w \in WordSet, w.kind = "command", d.mode # "garbled",
         NEW e, e = TakeCommand(d, w)
  PROVE  /\ e \in DspSet
         /\ e.want = w.data /\ e.last = w.name /\ e.mode # "garbled"
         /\ e.clock = d.clock /\ e.pll = d.pll
         /\ e.mode = ModeAfter(d.mode, w.name) /\ e.loaded = d.loaded
<1>1. w.name \in CommandNames /\ w.data \in Nat
  BY DEF WordSet
<1> QED
  BY <1>1 DEF TakeCommand, ModeAfter, DspSet

-----------------------------------------------------------------------------
(***************************************************************************)
(* The loop of Npca110_SendCmd.                                            *)
(***************************************************************************)

\* Where the newest word in the chip is, seen from the loop.
Place ==
  /\ pc = "write" => retry >= 1
  /\ pc = "idle" => arrived = 0
  /\ pc # "idle" => arrived \in {index, index + 1}
  /\ pc = "after" /\ ret = 1 => arrived = index + 1

Inv1 == TypeOK /\ DspOK /\ Place

LEMMA CurrentFacts ==
  ASSUME TypeOK, pc # "idle"
  PROVE  /\ table \in Tables
         /\ index \in Nat /\ index < Size[table] /\ Size[table] \in Nat
         /\ CurrentWord \in WordSet
         /\ CurrentWord = Words[table][index + 1]
<1>1. table \in Tables /\ index \in Nat /\ index < Size[table]
  BY DEF TypeOK
<1>2. Size[table] \in Nat /\ \A i \in 1..Size[table] : Words[table][i] \in WordSet
  BY <1>1, TableFacts
<1>3. index + 1 \in 1..Size[table]
  BY <1>1, <1>2
<1> QED
  BY <1>1, <1>2, <1>3 DEF CurrentWord

\* A word that arrives leaves a DSP as good as it was.
LEMMA ArrivalTyped ==
  ASSUME Inv1, pc = "write", Arrives
  PROVE  dsp' \in DspSet /\ DspOK' /\ arrived' = index + 1 /\ twice' \in BOOLEAN
<1> DEFINE w == CurrentWord
<1>1. w \in WordSet /\ table \in Tables /\ index \in Nat
      /\ index < Size[table] /\ w = Words[table][index + 1]
  BY CurrentFacts DEF Inv1
<1>2. w.name \in PLLNames => w.data = 1
  <2>1. SettingsNamed(Words[table]) /\ Size[table] = Len(Words[table]) /\ Size[table] \in Nat
    BY <1>1, TableFacts
  <2>2. index + 1 \in 1..Len(Words[table])
    BY <1>1, <2>1
  <2> QED
    BY <1>1, <2>1, <2>2 DEF SettingsNamed
<1>3. dsp' = DspAfter(dsp, w) /\ dsp \in DspSet /\ DspOK
  BY DEF Arrives, Inv1, TypeOK
<1>7. arrived' = index + 1 /\ twice' \in BOOLEAN
  BY DEF Arrives, Inv1, TypeOK
<1> HIDE DEF w
<1>4. CASE dsp' = Garbled
  BY <1>4, <1>7, GarbledFacts DEF DspOK, PLLNames
<1>5. CASE dsp.mode # "garbled" /\ dsp.want > 0 /\ w.kind = "data" /\ dsp' = TakeData(dsp, w)
  <2>1. dsp.last # "none" /\ dsp.want \in Nat
    BY <1>3, <1>5 DEF DspOK, DspSet
  <2>2. /\ dsp' \in DspSet /\ dsp'.want = dsp.want - 1
        /\ dsp'.last = dsp.last /\ dsp'.mode = dsp.mode
    <3>1. dsp \in DspSet /\ w \in WordSet /\ dsp.want > 0 /\ w.kind = "data" /\ dsp.last # "none"
      BY <1>1, <1>3, <1>5, <2>1
    <3>2. \A e : e = TakeData(dsp, w) =>
            /\ e \in DspSet /\ e.want = dsp.want - 1
            /\ e.last = dsp.last /\ e.mode = dsp.mode
      BY <3>1, TakeDataFacts
    <3> QED
      BY <1>5, <3>2
  <2> QED
    BY <1>3, <1>5, <2>1, <2>2, <1>7 DEF DspOK
<1>6. CASE dsp.mode # "garbled" /\ dsp.want = 0 /\ w.kind = "command" /\ dsp' = TakeCommand(dsp, w)
  <2>1. /\ dsp' \in DspSet /\ dsp'.want = w.data
        /\ dsp'.last = w.name /\ dsp'.mode # "garbled"
    BY <1>1, <1>3, <1>6, TakeCommandFacts
  <2>2. w.name # "none"
    BY <1>1, <1>6 DEF WordSet, CommandNames
  <2> QED
    BY <1>2, <2>1, <2>2, <1>7 DEF DspOK
<1>8. \/ dsp' = Garbled
      \/ dsp.mode # "garbled" /\ dsp.want > 0 /\ w.kind = "data" /\ dsp' = TakeData(dsp, w)
      \/ dsp.mode # "garbled" /\ dsp.want = 0 /\ w.kind = "command" /\ dsp' = TakeCommand(dsp, w)
  <2>1. dsp.last = "none" => dsp.want = 0
    BY <1>3 DEF DspOK
  <2>2. dsp.mode = "garbled" => dsp = Garbled
    BY <1>3 DEF DspOK
  <2> QED
    BY <1>1, <1>3, <2>1, <2>2, DspCases
<1> QED
  BY <1>4, <1>5, <1>6, <1>7, <1>8

LEMMA InitInv1 == Init => Inv1
<1> SUFFICES ASSUME Init PROVE Inv1
  OBVIOUS
<1>1. DspReset \in DspSet /\ DspReset.last = "none" /\ DspReset.want = 0 /\ DspReset.mode = "reset"
  BY DEF DspReset, DspSet, Values, ClockSources, PLLStates
<1>2. TypeOK
  <2>1. startUp \in StartUps /\ Len(startUp) \in Nat \ {0}
    BY StartUpFacts DEF Init
  <2>2. pll_cmd_done \in BOOLEAN /\ lost \in BOOLEAN /\ twice \in BOOLEAN
    <3>1. pll_cmd_done = FALSE /\ lost = FALSE /\ twice = FALSE
      BY DEF Init
    <3> QED
      BY <3>1
  <2>3. /\ sent = 0 /\ work = "init" /\ table = "idle" /\ index = 0 /\ retry = Attempts
        /\ pc = "idle" /\ ret = 1 /\ result = NoResult /\ arrived = 0
        /\ dsp = DspReset /\ pause = 30000
    BY DEF Init
  <2>4. /\ sent \in 0..Len(startUp)
        /\ work = "init" <=> sent < Len(startUp)
        /\ index \in Nat /\ retry \in 0..Attempts /\ arrived \in 0..index + 1
    BY <2>1, <2>3 DEF Attempts
  <2>5. /\ dsp \in DspSet
        /\ result \in [table : Tables \cup {"none"}, value : {-1, 0}]
    BY <1>1, <2>3, NoResultTyped
  <2> QED
    BY <2>1, <2>2, <2>3, <2>4, <2>5 DEF TypeOK
<1>3. DspOK /\ Place
  BY <1>1 DEF Init, DspOK, Place, PLLNames
<1> QED
  BY <1>2, <1>3 DEF Inv1

\* What a call that begins establishes.
LEMMA CallInv1 ==
  ASSUME Inv1, NEW t \in Tables, Call(t), startUp' \in StartUps,
         sent' \in 0..Len(startUp'), work' \in {"init", "sure", "none"},
         work' = "init" <=> sent' < Len(startUp')
  PROVE  Inv1'
<1>1. Size[t] \in Nat \ {0} /\ t # "idle"
  BY TableFacts, IdleIsNoTable
<1>2. pll_cmd_done' \in BOOLEAN
  BY Zenon DEF Call
<1>3. TypeOK'
  BY <1>1, <1>2, NoResultTyped DEF Inv1, TypeOK, Call, Attempts, chipVars, Place
<1>4. DspOK' /\ Place'
  BY DEF Inv1, DspOK, Place, TypeOK, Call, Attempts, chipVars
<1> QED
  BY <1>3, <1>4 DEF Inv1

LEMMA NextInv1 == Inv1 /\ [Next]_vars => Inv1'
<1> SUFFICES ASSUME Inv1, [Next]_vars
             PROVE  Inv1'
  OBVIOUS
<1> USE DEF Inv1
<1>1. CASE SendStartUp
  <2>1. startUp \in StartUps /\ Len(startUp) \in Nat \ {0} /\ sent \in 0..Len(startUp)
        /\ sent < Len(startUp)
    BY <1>1, StartUpFacts DEF TypeOK, SendStartUp
  <2>2. startUp[sent + 1] \in Tables
    BY <2>1, StartUpFacts
  <2>3. /\ startUp' \in StartUps /\ sent' \in 0..Len(startUp')
        /\ work' \in {"init", "sure", "none"}
        /\ work' = "init" <=> sent' < Len(startUp')
    BY <1>1, <2>1 DEF SendStartUp
  <2>4. Call(startUp[sent + 1])
    BY <1>1 DEF SendStartUp
  <2> QED
    BY <2>2, <2>3, <2>4, CallInv1
<1>2. CASE ResetChip
  <2>1. DspReset \in DspSet /\ DspReset.last = "none" /\ DspReset.want = 0 /\ DspReset.mode = "reset"
    BY DEF DspReset, DspSet, Values, ClockSources, PLLStates
  <2>2. TypeOK'
    <3>1. /\ startUp' = startUp /\ sent' = sent /\ work' = "sure" /\ work # "init"
          /\ UNCHANGED <<table, index, retry, pc, ret, pll_cmd_done, arrived>>
      BY <1>2 DEF ResetChip
    <3>2. dsp' \in DspSet /\ pause' = 30000 /\ result' = NoResult
      BY <1>2, <2>1 DEF ResetChip
    <3>3. lost' \in BOOLEAN /\ twice' \in BOOLEAN
      <4>1. lost' = FALSE /\ twice' = FALSE
        BY <1>2 DEF ResetChip
      <4> QED
        BY <4>1
    <3>4. pll_cmd_done' \in BOOLEAN
      BY <3>1 DEF TypeOK
    <3> QED
      BY <3>1, <3>2, <3>3, <3>4, NoResultTyped DEF TypeOK
  <2>3. DspOK' /\ Place'
    BY <1>2, <2>1 DEF ResetChip, DspOK, Place, PLLNames
  <2> QED
    BY <2>2, <2>3
<1>3. CASE SendRestore
  <2>1. PICK t \in AdcWays : Call(t)
    BY <1>3 DEF SendRestore
  <2>2. t \in Tables
    BY DEF Tables
  <2>3. /\ startUp' \in StartUps /\ sent' \in 0..Len(startUp')
        /\ work' \in {"init", "sure", "none"}
        /\ work' = "init" <=> sent' < Len(startUp')
    BY <1>3 DEF TypeOK, SendRestore
  <2> QED
    BY <2>1, <2>2, <2>3, CallInv1
<1>4. CASE SendSwitch
  <2>1. PICK t \in AdcWays : Call(t)
    BY <1>4 DEF SendSwitch
  <2>2. t \in Tables
    BY DEF Tables
  <2>3. /\ startUp' \in StartUps /\ sent' \in 0..Len(startUp')
        /\ work' \in {"init", "sure", "none"}
        /\ work' = "init" <=> sent' < Len(startUp')
    BY <1>4 DEF TypeOK, SendSwitch, workVars
  <2> QED
    BY <2>1, <2>2, <2>3, CallInv1
<1>5. CASE AttemptSucceeds
  <2>1. dsp' \in DspSet /\ DspOK' /\ arrived' = index + 1 /\ twice' \in BOOLEAN
    BY <1>5, ArrivalTyped DEF AttemptSucceeds
  <2>2. TypeOK'
    BY <1>5, <2>1 DEF TypeOK, AttemptSucceeds, workVars
  <2>3. Place'
    BY <1>5, <2>1 DEF Place, AttemptSucceeds
  <2> QED
    BY <2>1, <2>2, <2>3
<1>6. CASE AttemptFails
  <2>1. dsp' \in DspSet /\ DspOK' /\ twice' \in BOOLEAN
        /\ arrived' \in {arrived, index + 1}
    <3>1. CASE Arrives
      BY <1>6, <3>1, ArrivalTyped DEF AttemptFails
    <3>2. CASE UNCHANGED <<arrived, dsp, twice>>
      BY <3>2 DEF TypeOK, DspOK
    <3> QED
      BY <1>6, <3>1, <3>2 DEF AttemptFails
  <2>2. arrived' \in 0..index' + 1 /\ arrived' \in {index, index + 1}
    BY <1>6, <2>1 DEF TypeOK, Place, AttemptFails
  <2>3. retry' \in 0..Attempts /\ (pc' = "write" => retry' >= 1) /\ pc' \in {"write", "after"}
    BY <1>6 DEF TypeOK, Place, AttemptFails, Attempts
  <2>4. TypeOK'
    BY <1>6, <2>1, <2>2, <2>3 DEF TypeOK, AttemptFails, workVars
  <2>5. Place'
    BY <1>6, <2>2, <2>3 DEF Place, AttemptFails
  <2> QED
    BY <2>1, <2>4, <2>5
<1>7. CASE AfterWrite
  <2>1. /\ table \in Tables /\ table # "idle" /\ index \in Nat
        /\ index < Size[table] /\ Size[table] \in Nat
    BY <1>7, CurrentFacts, IdleIsNoTable DEF AfterWrite
  <2>2. /\ pause' \in {0, 250, 30000} /\ pll_cmd_done' \in BOOLEAN /\ lost' \in BOOLEAN
        /\ dsp' = dsp
    BY <1>7 DEF TypeOK, AfterWrite
  <2>3. CASE \E r \in {-1, 0} : Return(r)
    <3>1. TypeOK'
      BY <1>7, <2>1, <2>2, <2>3 DEF TypeOK, AfterWrite, Return, workVars
    <3>2. DspOK' /\ Place'
      BY <2>2, <2>3 DEF DspOK, Place, Return
    <3> QED
      BY <3>1, <3>2
  <2>4. CASE ret >= 0 /\ index + 1 # Size[table] /\ NextWord
    <3>1. ret = 1 /\ arrived = index + 1
      BY <1>7, <2>4 DEF TypeOK, Place, AfterWrite
    <3>2. index' < Size[table] /\ index' = index + 1
      BY <2>1, <2>4 DEF NextWord
    <3>3. TypeOK'
      BY <1>7, <2>1, <2>2, <2>4, <3>1, <3>2 DEF TypeOK, AfterWrite, NextWord, workVars, Attempts
    <3>4. DspOK' /\ Place'
      BY <2>2, <2>4, <3>1 DEF DspOK, Place, NextWord, Attempts
    <3> QED
      BY <3>3, <3>4
  <2> QED
    BY <1>7, <2>3, <2>4 DEF AfterWrite
<1>8. CASE UNCHANGED vars
  BY <1>8 DEF vars, workVars, callVars, chipVars, TypeOK, DspOK, Place
<1> QED
  BY <1>1, <1>2, <1>3, <1>4, <1>5, <1>6, <1>7, <1>8 DEF Next, Calling, Running

\* Every variable keeps to its kind, whatever the tables hold.
THEOREM TypeCorrect == Spec => []TypeOK
<1>1. Inv1 => TypeOK
  BY DEF Inv1
<1> QED
  BY InitInv1, NextInv1, <1>1, PTL DEF Spec

-----------------------------------------------------------------------------
(***************************************************************************)
(* What an arriving word is: the cases of DspCases with what they do.      *)
(***************************************************************************)
LEMMA ArrivalCases ==
  ASSUME Inv1, pc = "write", Arrives
  PROVE  LET w == Words[table][index + 1] IN
           \/ /\ dsp'.mode = "garbled" /\ dsp'.want = 0 /\ dsp'.last = "none"
              /\ dsp'.clock = "crystal" /\ dsp'.pll = "reset"
              /\ dsp.mode = "garbled" \/ (dsp.want > 0 <=> w.kind = "command")
           \/ /\ dsp.mode # "garbled" /\ dsp.want > 0 /\ w.kind = "data"
              /\ dsp'.mode # "garbled"
              /\ dsp'.want = dsp.want - 1 /\ dsp'.last = dsp.last
              /\ dsp'.clock = IF dsp.last = "Clock" THEN w.name ELSE dsp.clock
              /\ dsp'.pll = IF dsp.last = "PLL" THEN w.name ELSE dsp.pll
              /\ dsp'.mode = dsp.mode
              /\ dsp'.loaded = IF dsp.want = 1 THEN dsp.loaded \cup {dsp.last} ELSE dsp.loaded
           \/ /\ dsp.mode # "garbled" /\ dsp.want = 0 /\ w.kind = "command"
              /\ dsp'.mode # "garbled"
              /\ dsp'.want = w.data /\ dsp'.last = w.name
              /\ dsp'.clock = dsp.clock /\ dsp'.pll = dsp.pll
              /\ dsp'.mode = ModeAfter(dsp.mode, w.name) /\ dsp'.loaded = dsp.loaded
<1> DEFINE w == Words[table][index + 1]
<1>1. CurrentWord = w /\ w \in WordSet
  BY CurrentFacts DEF Inv1
<1>2. dsp' = DspAfter(dsp, w) /\ dsp \in DspSet
  BY <1>1 DEF Arrives, Inv1, TypeOK
<1>3. (dsp.last = "none" => dsp.want = 0) /\ (dsp.mode = "garbled" => dsp = Garbled)
  BY DEF Inv1, DspOK
<1> HIDE DEF w
<1>4. CASE dsp' = Garbled /\ (dsp.mode = "garbled" \/ (dsp.want > 0 <=> w.kind = "command"))
  BY <1>4, GarbledFacts DEF w
<1>5. CASE dsp.mode # "garbled" /\ dsp.want > 0 /\ w.kind = "data" /\ dsp' = TakeData(dsp, w)
  <2>1. dsp.last # "none"
    BY <1>2, <1>3, <1>5 DEF DspSet
  <2>2. /\ dsp'.want = dsp.want - 1 /\ dsp'.last = dsp.last /\ dsp'.mode = dsp.mode
        /\ dsp'.clock = IF dsp.last = "Clock" THEN w.name ELSE dsp.clock
        /\ dsp'.pll = IF dsp.last = "PLL" THEN w.name ELSE dsp.pll
        /\ dsp'.loaded = IF dsp.want = 1 THEN dsp.loaded \cup {dsp.last} ELSE dsp.loaded
    BY <1>1, <1>2, <1>5, <2>1, TakeDataFacts
  <2> QED
    BY <1>5, <2>2 DEF w
<1>6. CASE dsp.mode # "garbled" /\ dsp.want = 0 /\ w.kind = "command" /\ dsp' = TakeCommand(dsp, w)
  <2>1. /\ dsp'.want = w.data /\ dsp'.last = w.name /\ dsp'.mode # "garbled"
        /\ dsp'.clock = dsp.clock /\ dsp'.pll = dsp.pll
        /\ dsp'.mode = ModeAfter(dsp.mode, w.name) /\ dsp'.loaded = dsp.loaded
    BY <1>1, <1>2, <1>6, TakeCommandFacts
  <2> QED
    BY <1>6, <2>1 DEF w
<1> QED
  BY <1>1, <1>2, <1>3, <1>4, <1>5, <1>6, DspCases

\* What the table says about the word under way and the one before it.
LEMMA SettingFacts ==
  ASSUME TypeOK, pc # "idle", NEW i \in 1..index + 1
  PROVE  /\ Words[table][i].name \in PLLNames =>
              Words[table][i].kind = "command" /\ Words[table][i].data = 1
         /\ Words[table][1].kind = "command"
<1>1. table \in Tables /\ index \in Nat /\ index < Size[table]
  BY CurrentFacts
<1>2. SettingsNamed(Words[table]) /\ Size[table] = Len(Words[table])
      /\ Size[table] \in Nat /\ Words[table][1].kind = "command"
  BY <1>1, TableFacts
<1>3. i \in 1..Len(Words[table])
  BY <1>1, <1>2
<1> QED
  BY <1>2, <1>3 DEF SettingsNamed

-----------------------------------------------------------------------------
(***************************************************************************)
(* The delay between clock and PLL settings.                               *)
(***************************************************************************)

\* pll_cmd_done says that the word before the current one is a clock or PLL
\* command; a DSP that waits for the data of one has just been sent it; and
\* once it has the data, the delay is made or is the next thing to come.
Delays ==
  /\ pc # "idle" =>
       (pll_cmd_done <=> index > 0 /\ Words[table][index].name \in PLLNames)
  /\ dsp.want > 0 /\ dsp.last \in PLLNames /\ arrived > 0 =>
       Words[table][arrived].name = dsp.last
  /\ dsp.want = 0 /\ dsp.last \in PLLNames =>
       pause >= 250 \/ (pc = "after" /\ pll_cmd_done)

LEMMA ArrivalDelays ==
  ASSUME Inv1, Delays, pc = "write", Arrives
  PROVE  /\ dsp'.want > 0 /\ dsp'.last \in PLLNames =>
              Words[table][index + 1].name = dsp'.last
         /\ dsp'.want = 0 /\ dsp'.last \in PLLNames => pll_cmd_done
<1> DEFINE w == Words[table][index + 1]
<1>1. /\ w.name \in PLLNames => w.kind = "command" /\ w.data = 1
      /\ Words[table][1].kind = "command"
      /\ index \in Nat /\ dsp.want \in Nat /\ w.kind \in {"command", "data"}
  BY SettingFacts, CurrentFacts DEF Inv1, TypeOK, DspSet, WordSet
<1>2. CASE dsp'.last = "none"
  BY <1>2 DEF PLLNames
<1>3. CASE /\ dsp.want > 0 /\ w.kind = "data"
           /\ dsp'.want = dsp.want - 1 /\ dsp'.last = dsp.last
  <2>1. dsp.last \in PLLNames => dsp'.want = 0
    BY <1>1, <1>3 DEF Inv1, DspOK
  <2>2. ASSUME dsp.last \in PLLNames
        PROVE  pll_cmd_done
    <3>1. arrived \in {index, index + 1} /\ index > 0
      BY <1>1, <1>3 DEF Inv1, Place
    <3>2. Words[table][arrived].name = dsp.last
      BY <1>3, <2>2, <3>1, <1>1 DEF Delays
    <3>3. arrived = index
      BY <1>1, <1>3, <2>2, <3>1, <3>2
    <3> QED
      BY <2>2, <3>1, <3>2, <3>3 DEF Delays
  <2> QED
    BY <1>3, <2>1, <2>2
<1>4. CASE w.kind = "command" /\ dsp'.want = w.data /\ dsp'.last = w.name
  BY <1>1, <1>4
<1> QED
  BY <1>2, <1>3, <1>4, ArrivalCases

LEMMA InitDelays == Init => Delays
BY DEF Init, Delays, DspReset, PLLNames

LEMMA NextDelays == Inv1 /\ Delays /\ [Next]_vars => Delays'
<1> SUFFICES ASSUME Inv1, Delays, [Next]_vars
             PROVE  Delays'
  OBVIOUS
<1>1. ASSUME NEW t, Call(t)
      PROVE  Delays'
  <2>1. pc = "idle" /\ pc' = "write" /\ pll_cmd_done' = FALSE /\ index' = 0
        /\ UNCHANGED <<arrived, dsp, pause>>
    BY <1>1 DEF Call, chipVars
  <2>2. arrived' = 0
    BY <2>1 DEF Inv1, Place
  <2> QED
    BY <2>1, <2>2 DEF Delays
<1>2. CASE SendStartUp \/ SendRestore \/ SendSwitch
  BY <1>1, <1>2 DEF SendStartUp, SendRestore, SendSwitch
<1>3. CASE ResetChip
  BY <1>3 DEF ResetChip, Delays, DspReset, PLLNames
<1>4. CASE AttemptSucceeds
  <2>1. /\ pc = "write" /\ pc' = "after" /\ Arrives
        /\ UNCHANGED <<table, index, pll_cmd_done>>
    BY <1>4 DEF AttemptSucceeds
  <2>2. arrived' = index + 1
    BY <2>1 DEF Arrives
  <2>3. /\ dsp'.want > 0 /\ dsp'.last \in PLLNames =>
             Words[table][index + 1].name = dsp'.last
        /\ dsp'.want = 0 /\ dsp'.last \in PLLNames => pll_cmd_done
    BY <2>1, ArrivalDelays
  <2> QED
    BY <2>1, <2>2, <2>3 DEF Delays
<1>5. CASE AttemptFails
  <2>1. /\ pc = "write" /\ pc' \in {"write", "after"} /\ pause' = 30000
        /\ UNCHANGED <<table, index, pll_cmd_done>>
    BY <1>5 DEF AttemptFails
  <2>2. CASE Arrives
    <3>1. arrived' = index + 1
      BY <2>2 DEF Arrives
    <3>2. dsp'.want > 0 /\ dsp'.last \in PLLNames => Words[table][index + 1].name = dsp'.last
      BY <2>1, <2>2, ArrivalDelays
    <3> QED
      BY <2>1, <3>1, <3>2 DEF Delays
  <2>3. CASE UNCHANGED <<arrived, dsp, twice>>
    BY <2>1, <2>3 DEF Delays
  <2> QED
    BY <1>5, <2>2, <2>3 DEF AttemptFails
<1>6. CASE AfterWrite
  <2>1. /\ pc = "after" /\ dsp' = dsp
        /\ pause' = IF pll_cmd_done /\ pause < 250 THEN 250 ELSE pause
        /\ pause \in {0, 250, 30000}
    BY <1>6 DEF AfterWrite, Inv1, TypeOK
  <2>2. dsp'.want = 0 /\ dsp'.last \in PLLNames => pause' >= 250
    BY <2>1 DEF Delays
  <2>3. CASE \E r \in {-1, 0} : Return(r)
    BY <2>1, <2>2, <2>3 DEF Return, Delays
  <2>4. CASE ret >= 0 /\ index + 1 # Size[table] /\ NextWord
    <3>1. /\ index' = index + 1 /\ index \in Nat /\ table' = table
          /\ arrived' = arrived /\ pc' = "write"
      BY <2>4 DEF NextWord, Inv1, TypeOK
    <3>2. CurrentWord = Words[table'][index']
      BY <3>1 DEF CurrentWord
    <3>3. pll_cmd_done' <=> CurrentWord.name \in PLLNames
      <4>1. pll_cmd_done' = (CurrentWord.name \in PLLNames)
        BY <1>6 DEF AfterWrite, PLLNames
      <4> QED
        BY <4>1
    <3>4. pll_cmd_done' <=> index' > 0 /\ Words[table'][index'].name \in PLLNames
      BY <3>1, <3>2, <3>3
    <3> QED
      BY <2>1, <2>2, <3>1, <3>4 DEF Delays
  <2> QED
    BY <1>6, <2>3, <2>4 DEF AfterWrite
<1>7. CASE UNCHANGED vars
  BY <1>7 DEF vars, workVars, callVars, chipVars, Delays
<1> QED
  BY <1>2, <1>3, <1>4, <1>5, <1>6, <1>7 DEF Next, Calling, Running

\* Between two clock or PLL settings the driver lets 250 us pass, wherever they
\* stand in a table and whatever fails.
THEOREM SettingsAreSpaced == Spec => []PLLCommandsSpaced
<1>1. Inv1 /\ Delays => PLLCommandsSpaced
  BY DEF Delays, PLLCommandsSpaced, PLLNames
<1> QED
  BY InitInv1, NextInv1, InitDelays, NextDelays, <1>1, PTL DEF Spec

-----------------------------------------------------------------------------
(***************************************************************************)
(* Data for data, commands for commands.                                   *)
(***************************************************************************)

\* Words of data due after each word of table t.
Due(t) == CHOOSE f : IsFraming(Words[t], f)

Framing ==
  ~lost /\ ~twice =>
    /\ dsp.mode # "garbled"
    /\ table = "idle" => dsp.want = 0
    /\ table # "idle" => dsp.want = Due(table)[arrived]

LEMMA DueFacts ==
  ASSUME NEW t \in Tables
  PROVE  /\ Due(t)[0] = 0 /\ Due(t)[Size[t]] = 0
         /\ \A i \in 0..Size[t] - 1 :
              \/ Due(t)[i] = 0 /\ Words[t][i + 1].kind = "command"
                   /\ Due(t)[i + 1] = Words[t][i + 1].data
              \/ Due(t)[i] > 0 /\ Words[t][i + 1].kind = "data"
                   /\ Due(t)[i + 1] = Due(t)[i] - 1
<1>1. IsFraming(Words[t], Due(t))
  BY TableFacts DEF Due
<1>2. Size[t] = Len(Words[t]) /\ Size[t] \in Nat
  BY TableFacts
<1> HIDE DEF Due
<1>3. ASSUME NEW i \in 0..Size[t] - 1
      PROVE  \/ Due(t)[i] = 0 /\ Words[t][i + 1].kind = "command"
                   /\ Due(t)[i + 1] = Words[t][i + 1].data
             \/ Due(t)[i] > 0 /\ Words[t][i + 1].kind = "data"
                   /\ Due(t)[i + 1] = Due(t)[i] - 1
  <2>1. i + 1 \in 1..Len(Words[t]) /\ (i + 1) - 1 = i
    BY <1>2
  <2> QED
    BY <1>1, <2>1 DEF IsFraming
<1> QED
  BY <1>1, <1>2, <1>3 DEF IsFraming

LEMMA ArrivalFraming ==
  ASSUME Inv1, Framing, pc = "write", Arrives, ~lost, ~twice'
  PROVE  dsp'.mode # "garbled" /\ dsp'.want = Due(table)[index + 1]
<1>1. ~twice /\ arrived # index + 1
  BY DEF Arrives
<1>2. arrived = index /\ table # "idle"
  BY <1>1, CurrentFacts, IdleIsNoTable DEF Inv1, Place
<1>3. dsp.mode # "garbled" /\ dsp.want = Due(table)[index]
  BY <1>1, <1>2 DEF Framing
<1>4. table \in Tables /\ index \in 0..Size[table] - 1
  BY CurrentFacts DEF Inv1
<1>5. \/ Due(table)[index] = 0 /\ Words[table][index + 1].kind = "command"
           /\ Due(table)[index + 1] = Words[table][index + 1].data
      \/ Due(table)[index] > 0 /\ Words[table][index + 1].kind = "data"
           /\ Due(table)[index + 1] = Due(table)[index] - 1
  BY <1>4, DueFacts
<1>6. dsp.want \in Nat
  BY DEF Inv1, TypeOK, DspSet
<1> QED
  BY <1>3, <1>5, <1>6, ArrivalCases

LEMMA InitFraming == Init => Framing
BY DEF Init, Framing, DspReset

LEMMA NextFraming == Inv1 /\ Framing /\ [Next]_vars => Framing'
<1> SUFFICES ASSUME Inv1, Framing, [Next]_vars
             PROVE  Framing'
  OBVIOUS
<1>1. ASSUME NEW t \in Tables, Call(t)
      PROVE  Framing'
  <2>1. /\ table' = t /\ t # "idle" /\ table = "idle" /\ arrived = 0
        /\ UNCHANGED <<arrived, dsp, lost, twice>>
    BY <1>1, IdleIsNoTable DEF Call, chipVars, Inv1, TypeOK, Place
  <2>2. Due(t)[0] = 0
    BY DueFacts
  <2> QED
    BY <2>1, <2>2 DEF Framing
<1>2. CASE SendStartUp
  <2>1. startUp \in StartUps /\ sent + 1 \in 1..Len(startUp)
    <3>1. startUp \in StartUps /\ sent \in 0..Len(startUp) /\ sent < Len(startUp)
      BY <1>2 DEF Inv1, TypeOK, SendStartUp
    <3>2. Len(startUp) \in Nat
      BY <3>1, StartUpFacts
    <3> QED
      BY <3>1, <3>2
  <2>2. startUp[sent + 1] \in Tables
    BY <2>1, StartUpFacts
  <2> QED
    BY <1>1, <1>2, <2>2 DEF SendStartUp
<1>3. CASE SendRestore \/ SendSwitch
  BY <1>1, <1>3 DEF SendRestore, SendSwitch, Tables
<1>4. CASE ResetChip
  <2>1. table' = "idle" /\ dsp' = DspReset
    BY <1>4 DEF ResetChip, Inv1, TypeOK
  <2> QED
    BY <2>1 DEF Framing, DspReset
<1>5. CASE AttemptSucceeds
  <2>1. /\ pc = "write" /\ Arrives /\ UNCHANGED <<table, lost>>
        /\ table # "idle"
    BY <1>5 DEF AttemptSucceeds, Inv1, TypeOK
  <2>2. arrived' = index + 1
    BY <2>1 DEF Arrives
  <2>3. ~lost /\ ~twice' => dsp'.mode # "garbled" /\ dsp'.want = Due(table)[index + 1]
    BY <2>1, ArrivalFraming
  <2> QED
    BY <2>1, <2>2, <2>3 DEF Framing
<1>6. CASE AttemptFails
  <2>1. /\ pc = "write" /\ UNCHANGED <<table, lost>>
        /\ table # "idle"
    BY <1>6 DEF AttemptFails, Inv1, TypeOK
  <2>2. CASE Arrives
    <3>1. arrived' = index + 1
      BY <2>2 DEF Arrives
    <3>2. ~lost /\ ~twice' => dsp'.mode # "garbled" /\ dsp'.want = Due(table)[index + 1]
      BY <2>1, <2>2, ArrivalFraming
    <3> QED
      BY <2>1, <3>1, <3>2 DEF Framing
  <2>3. CASE UNCHANGED <<arrived, dsp, twice>>
    BY <2>1, <2>3 DEF Framing
  <2> QED
    BY <1>6, <2>2, <2>3 DEF AttemptFails
<1>7. CASE AfterWrite
  <2>1. /\ table \in Tables /\ table # "idle" /\ index \in Nat
        /\ UNCHANGED <<dsp, twice>> /\ (lost' <=> lost \/ ret < 0)
        /\ (ret >= 0 => arrived = index + 1) /\ ret \in {-1, 1}
    <3>1. table \in Tables /\ table # "idle" /\ index \in Nat
      BY <1>7, CurrentFacts, IdleIsNoTable DEF AfterWrite, Inv1
    <3>2. UNCHANGED <<dsp, twice>> /\ (ret >= 0 => arrived = index + 1) /\ ret \in {-1, 1}
      BY <1>7 DEF AfterWrite, Inv1, TypeOK, Place
    <3>3. lost' = (lost \/ ret < 0)
      BY <1>7 DEF AfterWrite
    <3>4. lost' <=> lost \/ ret < 0
      BY <3>3
    <3> QED
      BY <3>1, <3>2, <3>4
  <2>2. CASE ret < 0
    BY <2>1, <2>2 DEF Framing
  <2>3. CASE ret >= 0 /\ index + 1 = Size[table] /\ Return(0)
    <3>1. Due(table)[Size[table]] = 0
      BY <2>1, DueFacts
    <3> QED
      BY <2>1, <2>3, <3>1 DEF Return, Framing
  <2>4. CASE ret >= 0 /\ NextWord
    BY <2>1, <2>4 DEF NextWord, Framing
  <2> QED
    BY <1>7, <2>2, <2>3, <2>4 DEF AfterWrite
<1>8. CASE UNCHANGED vars
  BY <1>8 DEF vars, workVars, callVars, chipVars, Framing
<1> QED
  BY <1>2, <1>3, <1>4, <1>5, <1>6, <1>7, <1>8 DEF Next, Calling, Running

\* However long the patch is, the DSP takes no data for a command and no
\* command for data until a call has failed or a word has arrived twice.
THEOREM FramingIsKept == Spec => []FramingKept
<1>1. Inv1 /\ Framing => FramingKept
  BY GarbledFacts DEF Framing, FramingKept
<1> QED
  BY InitInv1, NextInv1, InitFraming, NextFraming, <1>1, PTL DEF Spec

-----------------------------------------------------------------------------
(***************************************************************************)
(* The order of the clock settings.                                        *)
(***************************************************************************)

\* What a DSP in step knows of the last three words it was sent.
Remembered ==
  dsp.mode # "garbled" /\ table # "idle" =>
    /\ arrived > 0 /\ Words[table][arrived].name \in PLLNames =>
         dsp.want = 1 /\ dsp.last = Words[table][arrived].name
    /\ arrived > 1 =>
         /\ Words[table][arrived - 1].name = "Clock" => dsp.clock = Words[table][arrived].name
         /\ Words[table][arrived - 1].name = "PLL" => dsp.pll = Words[table][arrived].name
    /\ arrived > 2 /\ Words[table][arrived].name \in PLLNames =>
         /\ Words[table][arrived - 2].name = "Clock" =>
              dsp.clock = Words[table][arrived - 1].name
         /\ Words[table][arrived - 2].name = "PLL" =>
              dsp.pll = Words[table][arrived - 1].name

ClockInv == ClockSourceRuns /\ Remembered

\* The words of the table that Remembered speaks of.
LEMMA OrderFacts ==
  ASSUME TypeOK, pc # "idle", index > 0
  PROVE  /\ Words[table][index].name = "Clock" /\ Words[table][index + 1].name = "pll" =>
              /\ index > 2
              /\ Words[table][index - 2].name = "PLL"
              /\ Words[table][index - 1].name = "running"
         /\ Words[table][index].name = "PLL" /\ Words[table][index + 1].name # "running" =>
              /\ index > 2
              /\ Words[table][index - 2].name = "Clock"
              /\ Words[table][index - 1].name = "crystal"
<1>1. table \in Tables /\ index \in Nat /\ index < Size[table]
  BY CurrentFacts
<1>2. ClockOrder(Words[table]) /\ Size[table] = Len(Words[table]) /\ Size[table] \in Nat
  BY <1>1, TableFacts
<1>3. index \in 1..Len(Words[table]) - 1
  BY <1>1, <1>2
<1> QED
  BY <1>2, <1>3 DEF ClockOrder

\* Where the DSP is when it takes the data of a clock or PLL setting.
LEMMA SettingArrives ==
  ASSUME Inv1, Delays, pc = "write", dsp.want > 0, dsp.last \in PLLNames,
         Words[table][index + 1].kind = "data"
  PROVE  index > 0 /\ arrived = index /\ Words[table][index].name = dsp.last
<1>1. /\ Words[table][index + 1].name \in PLLNames => Words[table][index + 1].kind = "command"
      /\ Words[table][1].kind = "command"
      /\ index \in Nat
  BY SettingFacts, CurrentFacts DEF Inv1
<1>2. index > 0
  BY <1>1
<1>3. arrived \in {index, index + 1}
  BY DEF Inv1, Place
<1>4. Words[table][arrived].name = dsp.last
  BY <1>1, <1>2, <1>3 DEF Delays
<1>5. arrived # index + 1
  BY <1>1, <1>4
<1> QED
  BY <1>2, <1>3, <1>4, <1>5

LEMMA ArrivalClock ==
  ASSUME Inv1, Delays, ClockInv, pc = "write", Arrives, table' = table
  PROVE  ClockInv'
<1> DEFINE W == Words[table]
           w == W[index + 1]
<1>1. /\ arrived' = index + 1 /\ index \in Nat /\ table # "idle"
      /\ arrived \in {index, index + 1} /\ dsp.want \in Nat
  BY CurrentFacts, IdleIsNoTable DEF Arrives, Inv1, Place, TypeOK, DspSet
<1>2. /\ w.name \in PLLNames => w.kind = "command" /\ w.data = 1
      /\ W[1].kind = "command" /\ w.kind \in {"command", "data"}
  BY SettingFacts, CurrentFacts DEF Inv1, WordSet
<1>3. CASE dsp'.mode = "garbled" /\ dsp'.clock = "crystal"
  BY <1>3 DEF ClockInv, ClockSourceRuns, Remembered
<1>4. CASE /\ dsp.mode # "garbled" /\ dsp.want > 0 /\ w.kind = "data"
           /\ dsp'.want = dsp.want - 1 /\ dsp'.last = dsp.last
           /\ dsp'.clock = IF dsp.last = "Clock" THEN w.name ELSE dsp.clock
           /\ dsp'.pll = IF dsp.last = "PLL" THEN w.name ELSE dsp.pll
  <2>1. dsp.last \in PLLNames => index > 0 /\ arrived = index /\ W[index].name = dsp.last
    BY <1>4, SettingArrives
  <2>2. w.name \notin PLLNames
    BY <1>2, <1>4
  <2>3. ClockSourceRuns'
    <3>1. CASE dsp.last = "Clock" /\ w.name = "pll"
      <4>1. index > 0 /\ arrived = index /\ W[index].name = "Clock"
        BY <2>1, <3>1 DEF PLLNames
      <4>2. index > 2 /\ W[index - 2].name = "PLL" /\ W[index - 1].name = "running"
        BY <1>1, <3>1, <4>1, OrderFacts DEF Inv1
      <4>3. dsp.pll = "running"
        BY <1>1, <1>4, <4>1, <4>2 DEF ClockInv, Remembered, PLLNames
      <4> QED
        BY <1>4, <3>1, <4>3 DEF ClockSourceRuns
    <3>2. CASE dsp.last = "Clock" /\ w.name # "pll"
      BY <1>4, <3>2 DEF ClockSourceRuns
    <3>3. CASE dsp.last = "PLL" /\ w.name # "running"
      <4>1. index > 0 /\ arrived = index /\ W[index].name = "PLL"
        BY <2>1, <3>3 DEF PLLNames
      <4>2. index > 2 /\ W[index - 2].name = "Clock" /\ W[index - 1].name = "crystal"
        BY <1>1, <3>3, <4>1, OrderFacts DEF Inv1
      <4>3. dsp.clock = "crystal"
        BY <1>1, <1>4, <4>1, <4>2 DEF ClockInv, Remembered, PLLNames
      <4> QED
        BY <1>4, <3>3, <4>3 DEF ClockSourceRuns
    <3>4. CASE dsp.last = "PLL" /\ w.name = "running"
      BY <1>4, <3>4 DEF ClockSourceRuns
    <3>5. CASE dsp.last \notin PLLNames
      BY <1>4, <3>5 DEF ClockInv, ClockSourceRuns, PLLNames
    <3> QED
      BY <3>1, <3>2, <3>3, <3>4, <3>5 DEF PLLNames
  <2>4. ASSUME index > 0, W[index].name = "Clock"
        PROVE  dsp'.clock = w.name
    <3>1. CASE arrived = index
      BY <1>1, <1>4, <2>4, <3>1 DEF ClockInv, Remembered, PLLNames
    <3>2. CASE arrived = index + 1
      <4>1. dsp.clock = w.name
        BY <1>1, <1>4, <2>4, <3>2 DEF ClockInv, Remembered
      <4> QED
        BY <1>4, <4>1
    <3> QED
      BY <1>1, <3>1, <3>2
  <2>5. ASSUME index > 0, W[index].name = "PLL"
        PROVE  dsp'.pll = w.name
    <3>1. CASE arrived = index
      BY <1>1, <1>4, <2>5, <3>1 DEF ClockInv, Remembered, PLLNames
    <3>2. CASE arrived = index + 1
      <4>1. dsp.pll = w.name
        BY <1>1, <1>4, <2>5, <3>2 DEF ClockInv, Remembered
      <4> QED
        BY <1>4, <4>1
    <3> QED
      BY <1>1, <3>1, <3>2
  <2>6. Remembered'
    BY <1>1, <2>2, <2>4, <2>5 DEF Remembered
  <2> QED
    BY <2>3, <2>6 DEF ClockInv
<1>5. CASE /\ dsp.mode # "garbled" /\ dsp.want = 0 /\ w.kind = "command"
           /\ dsp'.want = w.data /\ dsp'.last = w.name
           /\ dsp'.clock = dsp.clock /\ dsp'.pll = dsp.pll
  <2>1. ClockSourceRuns'
    BY <1>5 DEF ClockInv, ClockSourceRuns
  <2>2. ASSUME index > 0
        PROVE  /\ W[index].name = "Clock" => dsp'.clock = w.name
               /\ W[index].name = "PLL" => dsp'.pll = w.name
    <3>1. CASE arrived = index
      BY <1>1, <1>5, <2>2, <3>1 DEF ClockInv, Remembered, PLLNames
    <3>2. CASE arrived = index + 1
      BY <1>1, <1>5, <2>2, <3>2 DEF ClockInv, Remembered
    <3> QED
      BY <1>1, <3>1, <3>2
  <2>3. ASSUME index > 1, w.name \in PLLNames
        PROVE  /\ W[index - 1].name = "Clock" => dsp'.clock = W[index].name
               /\ W[index - 1].name = "PLL" => dsp'.pll = W[index].name
    <3>1. CASE arrived = index
      BY <1>1, <1>5, <2>3, <3>1 DEF ClockInv, Remembered
    <3>2. CASE arrived = index + 1
      <4>1. arrived > 2 /\ arrived - 2 = index - 1 /\ arrived - 1 = index
        BY <1>1, <2>3, <3>2
      <4> QED
        BY <1>1, <1>5, <2>3, <3>2, <4>1 DEF ClockInv, Remembered
    <3> QED
      BY <1>1, <3>1, <3>2
  <2>4. arrived' > 1 => arrived' - 1 = index /\ index > 0
    BY <1>1
  <2>5. arrived' > 2 => arrived' - 2 = index - 1 /\ index > 1
    BY <1>1
  <2>6. w.name \in PLLNames => dsp'.want = 1 /\ dsp'.last = w.name
    BY <1>2, <1>5
  <2>7. Remembered'
    BY <1>1, <2>2, <2>3, <2>4, <2>5, <2>6 DEF Remembered
  <2> QED
    BY <2>1, <2>7 DEF ClockInv
<1> QED
  BY <1>3, <1>4, <1>5, ArrivalCases

LEMMA InitClock == Init => ClockInv
BY DEF Init, ClockInv, ClockSourceRuns, Remembered, DspReset

LEMMA NextClock == Inv1 /\ Delays /\ ClockInv /\ [Next]_vars => ClockInv'
<1> SUFFICES ASSUME Inv1, Delays, ClockInv, [Next]_vars
             PROVE  ClockInv'
  OBVIOUS
<1>1. ASSUME NEW t, Call(t)
      PROVE  ClockInv'
  <2>1. dsp' = dsp /\ arrived' = 0
    BY <1>1 DEF Call, chipVars, Inv1, Place
  <2> QED
    BY <2>1 DEF ClockInv, ClockSourceRuns, Remembered
<1>2. CASE SendStartUp \/ SendRestore \/ SendSwitch
  BY <1>1, <1>2 DEF SendStartUp, SendRestore, SendSwitch
<1>3. CASE ResetChip
  <2>1. table' = "idle" /\ dsp' = DspReset
    BY <1>3 DEF ResetChip, Inv1, TypeOK
  <2> QED
    BY <2>1 DEF ClockInv, ClockSourceRuns, Remembered, DspReset
<1>4. CASE AttemptSucceeds
  BY <1>4, ArrivalClock DEF AttemptSucceeds
<1>5. CASE AttemptFails
  <2>1. pc = "write" /\ table' = table
    BY <1>5 DEF AttemptFails
  <2>2. CASE Arrives
    BY <2>1, <2>2, ArrivalClock
  <2>3. CASE UNCHANGED <<arrived, dsp, twice>>
    BY <2>1, <2>3 DEF ClockInv, ClockSourceRuns, Remembered
  <2> QED
    BY <1>5, <2>2, <2>3 DEF AttemptFails
<1>6. CASE AfterWrite
  <2>1. dsp' = dsp
    BY <1>6 DEF AfterWrite
  <2>2. CASE \E r \in {-1, 0} : Return(r)
    BY <2>1, <2>2 DEF Return, ClockInv, ClockSourceRuns, Remembered
  <2>3. CASE NextWord
    BY <2>1, <2>3 DEF NextWord, ClockInv, ClockSourceRuns, Remembered
  <2> QED
    BY <1>6, <2>2, <2>3 DEF AfterWrite
<1>7. CASE UNCHANGED vars
  BY <1>7 DEF vars, workVars, callVars, chipVars, ClockInv, ClockSourceRuns, Remembered
<1> QED
  BY <1>2, <1>3, <1>4, <1>5, <1>6, <1>7 DEF Next, Calling, Running

\* The DSP never runs from a PLL in its reset, wherever a table breaks off and
\* whatever is sent after it.
THEOREM ClockSourceAlwaysRuns == Spec => []ClockSourceRuns
<1>1. ClockInv => ClockSourceRuns
  BY DEF ClockInv
<1> QED
  BY InitInv1, NextInv1, InitDelays, NextDelays, InitClock, NextClock, <1>1, PTL DEF Spec

-----------------------------------------------------------------------------
(***************************************************************************)
(* Npca110_SendCmd transfers tables.                                       *)
(***************************************************************************)
BarTable == IF table # "idle" /\ arrived = Size[table] THEN "idle" ELSE table

BarSent == IF table # "idle" /\ arrived = Size[table] THEN 0 ELSE arrived

LEMMA InitTransfer == Init => Transfer!Init
BY DEF Init, Transfer!Init

\* A word that arrives for the first time is a step of the transfer.
LEMMA ArrivalTransfers ==
  ASSUME Inv1, pc = "write", table' = table,
         arrived' \in {arrived, index + 1}
  PROVE  Transfer!Word \/ (BarTable' = BarTable /\ BarSent' = BarSent)
<1>1. /\ table \in Tables /\ table # "idle" /\ index \in Nat /\ index < Size[table]
      /\ Size[table] \in Nat /\ arrived \in {index, index + 1}
  BY CurrentFacts, IdleIsNoTable DEF Inv1, Place
<1>2. CASE arrived' = arrived
  BY <1>2 DEF BarTable, BarSent
<1>3. CASE arrived = index /\ arrived' = index + 1
  BY <1>1, <1>3 DEF Transfer!Word
<1> QED
  BY <1>1, <1>2, <1>3

LEMMA NextTransfer ==
  Inv1 /\ [Next]_vars => [Transfer!Next]_<<BarTable, BarSent>>
<1> SUFFICES ASSUME Inv1, [Next]_vars
             PROVE  Transfer!Next \/ (BarTable' = BarTable /\ BarSent' = BarSent)
  OBVIOUS
<1>1. ASSUME NEW t \in Tables, Call(t)
      PROVE  Transfer!Next
  <2>1. Size[t] \in Nat \ {0} /\ t # "idle"
    BY TableFacts, IdleIsNoTable
  <2>2. table = "idle" /\ table' = t /\ arrived = 0 /\ arrived' = 0
    BY <1>1 DEF Call, chipVars, Inv1, TypeOK, Place
  <2>3. Transfer!Start(t)
    BY <2>1, <2>2 DEF Transfer!Start
  <2> QED
    BY <2>3 DEF Transfer!Next
<1>2. CASE SendStartUp
  <2>1. startUp \in StartUps /\ sent \in 0..Len(startUp) /\ sent < Len(startUp)
    BY <1>2 DEF Inv1, TypeOK, SendStartUp
  <2>2. Len(startUp) \in Nat
    BY <2>1, StartUpFacts
  <2>3. startUp[sent + 1] \in Tables
    BY <2>1, <2>2, StartUpFacts
  <2> QED
    BY <1>1, <1>2, <2>3 DEF SendStartUp
<1>3. CASE SendRestore \/ SendSwitch
  BY <1>1, <1>3 DEF SendRestore, SendSwitch, Tables
<1>4. CASE ResetChip
  <2>1. table = "idle" /\ UNCHANGED <<table, arrived>>
    BY <1>4 DEF ResetChip, Inv1, TypeOK
  <2> QED
    BY <2>1 DEF BarTable, BarSent
<1>5. CASE AttemptSucceeds
  BY <1>5, ArrivalTransfers DEF AttemptSucceeds, Arrives, Transfer!Next
<1>6. CASE AttemptFails
  <2>1. pc = "write" /\ table' = table /\ arrived' \in {arrived, index + 1}
    BY <1>6 DEF AttemptFails, Arrives
  <2> QED
    BY <2>1, ArrivalTransfers DEF Transfer!Next
<1>7. CASE AfterWrite
  <2>1. table \in Tables /\ table # "idle" /\ index \in Nat /\ Size[table] \in Nat \ {0}
    BY <1>7, CurrentFacts, IdleIsNoTable, TableFacts DEF AfterWrite, Inv1
  <2>2. CASE \E r \in {-1, 0} : Return(r)
    <3>1. table' = "idle" /\ arrived' = 0
      BY <2>2 DEF Return
    <3>2. CASE arrived = Size[table]
      BY <2>1, <3>1, <3>2 DEF BarTable, BarSent
    <3>3. CASE arrived # Size[table]
      BY <2>1, <3>1, <3>3 DEF Transfer!Next, Transfer!GiveUp
    <3> QED
      BY <3>2, <3>3
  <2>3. CASE NextWord
    BY <2>3 DEF NextWord, BarTable, BarSent
  <2> QED
    BY <1>7, <2>2, <2>3 DEF AfterWrite
<1>8. CASE UNCHANGED vars
  BY <1>8 DEF vars, workVars, callVars, chipVars, BarTable, BarSent
<1> QED
  BY <1>2, <1>3, <1>4, <1>5, <1>6, <1>7, <1>8 DEF Next, Calling, Running

\* The words of a table reach the DSP in order with none left out, whatever is
\* tried again and wherever the call gives up.
THEOREM TablesAreTransferred == Spec => TransferSpec
BY InitInv1, NextInv1, InitTransfer, NextTransfer, PTL
DEF Spec, TransferSpec, Transfer!Spec, BarTable, BarSent

-----------------------------------------------------------------------------
(***************************************************************************)
(* What a start-up has given the DSP.                                      *)
(***************************************************************************)

\* The last clock setting of the start-up s is at j in its table number k.
ClockSettled(s, k, j) ==
  /\ ClockAt(Words[s[k]], j)
  /\ \A l \in k + 1..Len(s) : "Clock" \notin NamesIn(Words[s[l]])

\* The set-up is completed at q in table number k, and not started again.
SetupEnded(s, k, q) ==
  /\ CompletedAt(Words[s[k]], q)
  /\ \A l \in k + 1..Len(s) : "SetupStart" \notin NamesIn(Words[s[l]])

LastTable == startUp[Len(startUp)]

\* The start-up goes on, or its last table is being sent, or was the last.
InStartUp == work = "init" \/ table = LastTable \/ result.table = LastTable

\* So many words of table number k are known to have reached the DSP.
Reached(k) ==
  IF table = startUp[k] THEN arrived
  ELSE IF lost \/ twice THEN 0 ELSE Size[startUp[k]]

\* Which table is sent when.
Order ==
  /\ table \notin AdcWays \cup {"idle"} => sent \in 1..Len(startUp) /\ table = startUp[sent]
  /\ result.table \notin AdcWays \cup {"none"} =>
       sent \in 1..Len(startUp) /\ result.table = startUp[sent]

\* What word number i of table number k has done to a DSP in step: the command
\* is loaded, or about to be, once its data is there; the clock is that of the
\* last setting; and the end of the set-up has set it to work.
Effect(k, i) ==
  /\ GivesAt(Words[startUp[k]], i) =>
       \/ Words[startUp[k]][i].name \in dsp.loaded
       \/ dsp.last = Words[startUp[k]][i].name /\ dsp.want > 0
  /\ ClockSettled(startUp, k, i - 1) => dsp.clock = "pll"
  /\ SetupEnded(startUp, k, i) => dsp.mode = "processing"

SoFar ==
  InStartUp /\ dsp.mode # "garbled" => \A k \in 1..sent : \A i \in 1..Reached(k) : Effect(k, i)

\* A DSP that a start-up of one table set to work keeps what it has.
AtWork ==
  Len(startUp) = 1 /\ dsp.mode = "processing" =>
    /\ Configured(dsp)
    /\ dsp.last # "Clock"
    /\ sent = 1
    /\ table = startUp[1] => \E p \in 1..arrived : Words[table][p].name = "SetupCompleted"

LEMMA NameInTable ==
  ASSUME NEW t \in Tables, NEW i \in 1..Size[t]
  PROVE  Words[t][i].name \in NamesIn(Words[t])
BY TableFacts DEF NamesIn

LEMMA StartUpWhole ==
  ASSUME NEW s \in StartUps
  PROVE  /\ \A k \in 1..Len(s) : s[k] \in Tables \ AdcWays
         /\ \A k, l \in 1..Len(s) : s[k] = s[l] => k = l
         /\ \A name \in Configuration : \E k \in 1..Len(s) : name \in Given(Words[s[k]])
         /\ \E k \in 1..Len(s) : \E j : ClockSettled(s, k, j)
         /\ \E k \in 1..Len(s) : \E q : SetupEnded(s, k, q)
         /\ Len(s) = 1 => \E m : ConfiguredBefore(Words[s[1]], m, AllGiven)
<1>1. CASE s \in {<< "music1_FULL" >>, << "movie_FULL" >>}
  <2>1. Len(s) = 1 /\ s[1] \in {"music1_FULL", "movie_FULL"}
    BY <1>1
  <2>2. PICK m : ConfiguredBefore(Words[s[1]], m, AllGiven)
    BY <2>1, WholeStartUps
  <2>3. PICK q : CompletedAt(Words[s[1]], q)
    BY <2>1, WholeStartUps
  <2>4. PICK j : ClockAt(Words[s[1]], j)
    BY <2>2 DEF ConfiguredBefore
  <2>5. s[1] \in Tables \ AdcWays /\ Len(Words[s[1]]) \in Nat
    <3>1. s[1] \in Tables \ AdcWays
      BY <2>1 DEF Tables, AdcWays
    <3> QED
      BY <3>1, TableFacts
  <2>6. ASSUME NEW name \in Configuration
        PROVE  name \in Given(Words[s[1]])
    <3>1. PICK i \in 1..m : GivesAt(Words[s[1]], i) /\ Words[s[1]][i].name = name
      BY <2>2 DEF ConfiguredBefore, Configuration, AllGiven
    <3>2. i \in 1..Len(Words[s[1]])
      BY <2>2, <2>5 DEF ConfiguredBefore
    <3> QED
      BY <3>1, <3>2 DEF Given
  <2>7. 1 \in 1..Len(s) /\ \A k \in 1..Len(s) : k = 1
    BY <2>1
  <2>8. \A l \in 1 + 1..Len(s) : FALSE
    BY <2>1
  <2>9. ClockSettled(s, 1, j) /\ SetupEnded(s, 1, q)
    BY <2>3, <2>4, <2>8 DEF ClockSettled, SetupEnded
  <2> QED
    BY <2>2, <2>5, <2>6, <2>7, <2>9
<1>2. CASE s = << "FULL_Init", "FULL_Alg", "FULL_Patch" >>
  <2>1. Len(s) = 3 /\ s[1] = "FULL_Init" /\ s[2] = "FULL_Alg" /\ s[3] = "FULL_Patch"
    BY <1>2
  <2>2. \A k \in 1..Len(s) : k \in {1, 2, 3}
    BY <2>1
  <2>3. 1 \in 1..Len(s) /\ 2 \in 1..Len(s) /\ 3 \in 1..Len(s)
    BY <2>1
  <2>4. /\ \A k \in 1..Len(s) : s[k] \in Tables \ AdcWays
        /\ \A k, l \in 1..Len(s) : s[k] = s[l] => k = l
    BY <2>1, <2>2 DEF Tables, AdcWays
  <2>5. /\ {"MixerGains", "SSI", "Clock", "PLL", "Register"} \subseteq Given(Words[s[1]])
        /\ "PEQ" \in Given(Words[s[2]]) /\ "Patch" \in Given(Words[s[3]])
        /\ "Clock" \notin NamesIn(Words[s[2]]) /\ "Clock" \notin NamesIn(Words[s[3]])
    BY <2>1, PartStartUp DEF Configuring, Section, PlainNames
  <2>6. \A name \in Configuration : \E k \in 1..Len(s) : name \in Given(Words[s[k]])
    BY <2>3, <2>5 DEF Configuration
  <2>7. PICK j : ClockAt(Words[s[1]], j)
    BY <2>1, PartStartUp DEF Configuring
  <2>8. PICK q : CompletedAt(Words[s[3]], q)
    BY <2>1, PartStartUp
  <2>9. \A l \in 1 + 1..Len(s) : l \in {2, 3}
    BY <2>1
  <2>10. \A l \in 3 + 1..Len(s) : FALSE
    BY <2>1
  <2>11. ClockSettled(s, 1, j)
    BY <2>5, <2>7, <2>9 DEF ClockSettled
  <2>12. SetupEnded(s, 3, q)
    BY <2>8, <2>10 DEF SetupEnded
  <2> QED
    BY <2>1, <2>3, <2>4, <2>6, <2>11, <2>12
<1> QED
  BY <1>1, <1>2, SendAssumption DEF SendAssumption, InForce, CommentedOut

\* Tables of the start-up, and the rest.
LEMMA TableCases ==
  ASSUME Inv1, Order, table # "idle"
  PROVE  \/ table \in AdcWays
         \/ sent \in 1..Len(startUp) /\ table = startUp[sent] /\ table \notin AdcWays
BY DEF Order

LEMMA InitOrder == Init => Order
BY DEF Init, Order, NoResult

LEMMA NextOrder == Inv1 /\ Order /\ [Next]_vars => Order'
<1> SUFFICES ASSUME Inv1, Order, [Next]_vars
             PROVE  Order'
  OBVIOUS
<1>1. CASE SendStartUp
  <2>1. startUp \in StartUps /\ sent \in 0..Len(startUp) /\ sent < Len(startUp)
    BY <1>1 DEF Inv1, TypeOK, SendStartUp
  <2>2. Len(startUp) \in Nat
    BY <2>1, StartUpFacts
  <2>3. sent + 1 \in 1..Len(startUp)
    BY <2>1, <2>2
  <2>4. /\ sent' = sent + 1 /\ startUp' = startUp /\ table' = startUp[sent + 1]
        /\ result'.table = "none"
    BY <1>1 DEF SendStartUp, Call, NoResult
  <2> QED
    BY <2>3, <2>4 DEF Order
<1>2. CASE SendRestore \/ SendSwitch
  <2>1. table' \in AdcWays /\ result'.table = "none"
    BY <1>2 DEF SendRestore, SendSwitch, Call, NoResult
  <2> QED
    BY <2>1 DEF Order
<1>3. CASE ResetChip
  <2>1. result'.table = "none" /\ UNCHANGED <<startUp, sent, table>>
    BY <1>3 DEF ResetChip, NoResult
  <2> QED
    BY <2>1 DEF Order
<1>4. CASE AttemptSucceeds \/ AttemptFails \/ UNCHANGED vars
  <2>1. UNCHANGED <<startUp, sent, table, result>>
    BY <1>4 DEF AttemptSucceeds, AttemptFails, vars, workVars, callVars
  <2> QED
    BY <2>1 DEF Order
<1>5. CASE AfterWrite
  <2>1. UNCHANGED <<startUp, sent>> /\ table # "idle" /\ table \in Tables
    BY <1>5 DEF AfterWrite, workVars, Inv1, TypeOK
  <2>2. CASE \E r \in {-1, 0} : Return(r)
    <3>1. table' = "idle" /\ result'.table = table
      BY <2>2 DEF Return
    <3> QED
      BY <2>1, <3>1 DEF Order
  <2>3. CASE NextWord
    BY <2>1, <2>3 DEF NextWord, Order
  <2> QED
    BY <1>5, <2>2, <2>3 DEF AfterWrite
<1> QED
  BY <1>1, <1>2, <1>3, <1>4, <1>5 DEF Next, Calling, Running

-----------------------------------------------------------------------------
\* A step that leaves the DSP alone, and makes none of the words known to have
\* reached it, keeps what they have done.
LEMMA Carried ==
  ASSUME SoFar, UNCHANGED <<dsp, startUp>>, InStartUp' => InStartUp,
         \A k \in 1..sent' : Reached(k)' = 0 \/ (k \in 1..sent /\ Reached(k)' = Reached(k))
  PROVE  SoFar'
<1> SUFFICES ASSUME InStartUp', dsp'.mode # "garbled",
                    NEW k \in 1..sent', NEW i \in 1..Reached(k)'
             PROVE  Effect(k, i)'
  BY DEF SoFar
<1>1. k \in 1..sent /\ i \in 1..Reached(k)
  BY Z3
<1>2. Effect(k, i)
  BY <1>1 DEF SoFar
<1> QED
  BY <1>2 DEF Effect, ClockSettled, SetupEnded

\* The words of the start-up that were known to be in the DSP keep their effect
\* when one more arrives.
LEMMA ArrivalKeeps ==
  ASSUME Inv1, Delays, Order, pc = "write", Arrives, startUp' = startUp,
         dsp'.mode # "garbled",
         NEW k \in 1..sent, NEW i \in 1..Size[startUp[k]],
         table = startUp[k] => i <= arrived, Effect(k, i)
  PROVE  Effect(k, i)'
<1> DEFINE W == Words[table]
           w == W[index + 1]
           v == Words[startUp[k]][i]
<1>1. /\ table \in Tables /\ table # "idle" /\ index \in Nat /\ index + 1 \in 1..Size[table]
      /\ arrived \in {index, index + 1} /\ dsp.want \in Nat
      /\ Size[table] = Len(W)
  <2>1. /\ table \in Tables /\ index \in Nat /\ index < Size[table] /\ Size[table] \in Nat
        /\ arrived \in {index, index + 1} /\ dsp.want \in Nat
    BY CurrentFacts DEF Inv1, Place, TypeOK, DspSet
  <2> QED
    BY <2>1, IdleIsNoTable, TableFacts
<1>2. /\ sent \in Nat /\ Len(startUp) \in Nat /\ sent <= Len(startUp)
  BY StartUpFacts DEF Inv1, TypeOK
<1>3. w.name \in NamesIn(W) /\ (index > 0 => W[index].name \in NamesIn(W))
  <2>1. index > 0 => index \in 1..Size[table]
    BY <1>1, TableFacts
  <2> QED
    BY <1>1, <2>1, NameInTable
<1>4. \/ table \in AdcWays
      \/ k < sent /\ table = startUp[sent] /\ sent \in k + 1..Len(startUp)
      \/ k = sent /\ table = startUp[k] /\ i <= arrived
  BY <1>1, <1>2, TableCases
<1>5. ASSUME ClockSettled(startUp, k, i - 1), index > 0, arrived = index
      PROVE  W[index].name # "Clock"
  <2>1. CASE table \in AdcWays
    BY <1>3, <1>5, <2>1, AdcWayPlain
  <2>2. CASE k < sent /\ table = startUp[sent] /\ sent \in k + 1..Len(startUp)
    BY <1>3, <1>5, <2>2 DEF ClockSettled
  <2>3. CASE k = sent /\ table = startUp[k] /\ i <= arrived
    <3>1. \A l \in (i - 1) + 1..Len(W) : W[l].name # "Clock"
      BY <1>5, <2>3 DEF ClockSettled, ClockAt
    <3>2. index \in (i - 1) + 1..Len(W)
      BY <1>1, <1>5, <2>3
    <3> QED
      BY <3>1, <3>2
  <2> QED
    BY <1>4, <2>1, <2>2, <2>3
<1>6. ASSUME SetupEnded(startUp, k, i)
      PROVE  w.name # "SetupStart"
  <2>1. CASE table \in AdcWays
    BY <1>3, <2>1, AdcWayPlain
  <2>2. CASE k < sent /\ table = startUp[sent] /\ sent \in k + 1..Len(startUp)
    BY <1>3, <1>6, <2>2 DEF SetupEnded
  <2>3. CASE k = sent /\ table = startUp[k] /\ i <= arrived
    <3>1. W[i].name = "SetupCompleted" /\ \A l \in i + 1..Len(W) : W[l].name # "SetupStart"
      BY <1>6, <2>3 DEF SetupEnded, CompletedAt
    <3>2. index + 1 = i \/ index + 1 \in i + 1..Len(W)
      BY <1>1, <2>3
    <3> QED
      BY <3>1, <3>2
  <2> QED
    BY <1>4, <2>1, <2>2, <2>3
<1>7. /\ GivesAt(Words[startUp[k]], i) => v.name \in dsp.loaded \/ (dsp.last = v.name /\ dsp.want > 0)
      /\ ClockSettled(startUp, k, i - 1) => dsp.clock = "pll"
      /\ SetupEnded(startUp, k, i) => dsp.mode = "processing"
  BY DEF Effect
<1>8. SUFFICES
        /\ GivesAt(Words[startUp[k]], i) => v.name \in dsp'.loaded \/ (dsp'.last = v.name /\ dsp'.want > 0)
        /\ ClockSettled(startUp, k, i - 1) => dsp'.clock = "pll"
        /\ SetupEnded(startUp, k, i) => dsp'.mode = "processing"
  BY DEF Effect, ClockSettled, SetupEnded
<1>9. CASE /\ dsp.want > 0 /\ w.kind = "data"
           /\ dsp'.want = dsp.want - 1 /\ dsp'.last = dsp.last
           /\ dsp'.clock = IF dsp.last = "Clock" THEN w.name ELSE dsp.clock
           /\ dsp'.mode = dsp.mode
           /\ dsp'.loaded = IF dsp.want = 1 THEN dsp.loaded \cup {dsp.last} ELSE dsp.loaded
  <2>1. dsp.last = "Clock" => index > 0 /\ arrived = index /\ W[index].name = "Clock"
    BY <1>9, SettingArrives DEF PLLNames
  <2>2. v.name \in dsp.loaded \/ (dsp.last = v.name /\ dsp.want > 0) =>
          v.name \in dsp'.loaded \/ (dsp'.last = v.name /\ dsp'.want > 0)
    BY <1>1, <1>9
  <2>3. ClockSettled(startUp, k, i - 1) => dsp'.clock = dsp.clock
    BY <1>5, <1>9, <2>1
  <2> QED
    BY <1>7, <1>9, <2>2, <2>3
<1>10. CASE /\ dsp.want = 0 /\ w.kind = "command"
            /\ dsp'.clock = dsp.clock
            /\ dsp'.mode = ModeAfter(dsp.mode, w.name) /\ dsp'.loaded = dsp.loaded
  <2>1. SetupEnded(startUp, k, i) => dsp'.mode = "processing"
    BY <1>6, <1>7, <1>10 DEF ModeAfter
  <2> QED
    BY <1>7, <1>10, <2>1
<1> QED
  BY <1>9, <1>10, ArrivalCases

\* The word that arrives has its effect.
LEMMA ArrivalHasEffect ==
  ASSUME Inv1, ClockInv', pc = "write", Arrives, UNCHANGED <<startUp, table, index>>,
         dsp'.mode # "garbled", NEW k, table = startUp[k]
  PROVE  Effect(k, index + 1)'
<1> DEFINE W == Words[table]
           w == W[index + 1]
<1>1. /\ index \in Nat /\ arrived' = index + 1 /\ table # "idle" /\ w \in WordSet
  BY CurrentFacts, IdleIsNoTable DEF Inv1, Arrives
<1>2. ASSUME ClockSettled(startUp, k, index)
      PROVE  dsp'.clock = "pll"
  <2>1. index > 0 /\ W[index].name = "Clock" /\ w.name = "pll"
    BY <1>1, <1>2 DEF ClockSettled, ClockAt
  <2>2. arrived' > 1 /\ arrived' - 1 = index
    BY <1>1, <2>1
  <2> QED
    BY <1>1, <2>1, <2>2 DEF ClockInv, Remembered
<1>3. SetupEnded(startUp, k, index + 1) => w.kind = "command" /\ w.name = "SetupCompleted"
  BY DEF SetupEnded, CompletedAt
<1>4. SUFFICES
        /\ GivesAt(W, index + 1) => dsp'.last = w.name /\ dsp'.want > 0
        /\ ClockSettled(startUp, k, index) => dsp'.clock = "pll"
        /\ SetupEnded(startUp, k, index + 1) => dsp'.mode = "processing"
  <2>1. (index + 1) - 1 = index
    BY <1>1
  <2> QED
    BY <2>1 DEF Effect, ClockSettled, SetupEnded
<1>5. CASE w.kind = "data"
  BY <1>2, <1>3, <1>5 DEF GivesAt
<1>6. CASE /\ w.kind = "command"
           /\ dsp'.want = w.data /\ dsp'.last = w.name
           /\ dsp'.mode = ModeAfter(dsp.mode, w.name)
  BY <1>2, <1>3, <1>6 DEF GivesAt, ModeAfter
<1> QED
  BY <1>5, <1>6, ArrivalCases

LEMMA ArrivalSoFar ==
  ASSUME Inv1, Delays, ClockInv, Order, SoFar, pc = "write", Arrives,
         UNCHANGED <<startUp, sent, work, table, index, result, lost>>
  PROVE  SoFar'
<1> SUFFICES ASSUME InStartUp', dsp'.mode # "garbled",
                    NEW k \in 1..sent, NEW i \in 1..Reached(k)'
             PROVE  Effect(k, i)'
  BY DEF SoFar
<1>1. /\ table \in Tables /\ index \in Nat /\ index < Size[table] /\ Size[table] \in Nat
      /\ arrived \in {index, index + 1} /\ arrived' = index + 1
  BY CurrentFacts DEF Inv1, Place, Arrives
<1>2. startUp[k] \in Tables /\ Size[startUp[k]] \in Nat
  <2>1. startUp \in StartUps /\ sent \in 0..Len(startUp) /\ Len(startUp) \in Nat
    BY StartUpFacts DEF Inv1, TypeOK
  <2>2. k \in 1..Len(startUp)
    BY <2>1
  <2> QED
    BY <2>1, <2>2, StartUpFacts, TableFacts
<1>3. InStartUp /\ dsp.mode # "garbled"
  <2>1. InStartUp
    BY DEF InStartUp, LastTable
  <2>2. dsp.mode # "garbled"
    BY ArrivalCases
  <2> QED
    BY <2>1, <2>2
<1>4. ClockInv'
  BY ArrivalClock
<1>5. ~twice' => ~twice
  BY DEF Arrives
<1>6. CASE table = startUp[k] /\ i = index + 1
  BY <1>4, <1>6, ArrivalHasEffect
<1>7. CASE table = startUp[k] /\ i # index + 1
  <2>1. i \in 1..index + 1
    BY <1>1, <1>7 DEF Reached
  <2>2. i \in 1..Reached(k) /\ i <= arrived /\ i \in 1..Size[startUp[k]]
    BY <1>1, <1>7, <2>1 DEF Reached
  <2>3. Effect(k, i)
    BY <1>3, <2>2 DEF SoFar
  <2> QED
    BY <2>2, <2>3, ArrivalKeeps
<1>8. CASE table # startUp[k]
  <2>1. ~lost /\ ~twice' /\ i \in 1..Size[startUp[k]]
    BY <1>2, <1>8 DEF Reached
  <2>2. i \in 1..Reached(k)
    BY <1>5, <1>8, <2>1 DEF Reached
  <2>3. Effect(k, i)
    BY <1>3, <2>2 DEF SoFar
  <2> QED
    BY <1>8, <2>1, <2>3, ArrivalKeeps
<1> QED
  BY <1>6, <1>7, <1>8

LEMMA InitSoFar == Init => SoFar
BY DEF Init, SoFar

LEMMA NextSoFar ==
  Inv1 /\ Delays /\ ClockInv /\ Order /\ SoFar /\ [Next]_vars => SoFar'
<1> SUFFICES ASSUME Inv1, Delays, ClockInv, Order, SoFar, [Next]_vars
             PROVE  SoFar'
  OBVIOUS
<1> DEFINE Entry(k) == Reached(k)' = 0 \/ (k \in 1..sent /\ Reached(k)' = Reached(k))
<1>1. /\ startUp \in StartUps /\ sent \in 0..Len(startUp) /\ Len(startUp) \in Nat
      /\ \A k \in 1..Len(startUp) : startUp[k] \in Tables \ AdcWays
      /\ \A k, l \in 1..Len(startUp) : startUp[k] = startUp[l] => k = l
  BY StartUpFacts, StartUpWhole DEF Inv1, TypeOK
<1>2. LastTable \in Tables \ AdcWays
  <2>1. Len(startUp) \in 1..Len(startUp)
    BY <1>1, StartUpFacts
  <2> QED
    BY <1>1, <2>1 DEF LastTable
<1>3. CASE SendStartUp
  <2>1. /\ table = "idle" /\ table' = startUp[sent + 1] /\ sent' = sent + 1 /\ work = "init"
        /\ sent < Len(startUp) /\ arrived' = 0
        /\ UNCHANGED <<startUp, dsp, lost, twice>>
    BY <1>3 DEF SendStartUp, Call, chipVars, Inv1, TypeOK, Place
  <2>2. ASSUME NEW k \in 1..sent'
        PROVE  Entry(k)
    <3>1. CASE k = sent + 1
      BY <2>1, <3>1 DEF Reached
    <3>2. CASE k # sent + 1
      <4>1. k \in 1..sent /\ k \in 1..Len(startUp) /\ sent + 1 \in 1..Len(startUp)
        BY <1>1, <2>1, <3>2
      <4>2. startUp[k] # table' /\ startUp[k] # table
        BY <1>1, <2>1, <3>2, <4>1, IdleIsNoTable
      <4> QED
        BY <2>1, <4>1, <4>2 DEF Reached
    <3> QED
      BY <3>1, <3>2
  <2>3. InStartUp
    BY <2>1 DEF InStartUp
  <2> QED
    BY <2>1, <2>2, <2>3, Carried
<1>4. CASE SendRestore \/ SendSwitch
  <2>1. /\ table = "idle" /\ table' \in AdcWays /\ result'.table = "none"
        /\ work' = "init" => work = "init"
        /\ UNCHANGED <<startUp, sent, dsp, lost, twice>>
    BY <1>4 DEF SendRestore, SendSwitch, Call, chipVars, workVars, Inv1, TypeOK, NoResult
  <2>2. ASSUME NEW k \in 1..sent'
        PROVE  Entry(k)
    <3>1. k \in 1..sent /\ k \in 1..Len(startUp)
      BY <1>1, <2>1
    <3>2. startUp[k] # table' /\ startUp[k] # table
      BY <1>1, <2>1, <3>1, IdleIsNoTable
    <3> QED
      BY <2>1, <3>1, <3>2 DEF Reached
  <2>3. InStartUp' => InStartUp
    BY <1>2, <2>1, IdleIsNoTable DEF InStartUp, LastTable
  <2> QED
    BY <2>1, <2>2, <2>3, Carried
<1>5. CASE ResetChip
  <2>1. work' = "sure" /\ table' = "idle" /\ result'.table = "none" /\ startUp' = startUp
    BY <1>5 DEF ResetChip, Inv1, TypeOK, NoResult
  <2>2. ~InStartUp'
    BY <1>2, <2>1, IdleIsNoTable DEF InStartUp, LastTable
  <2> QED
    BY <2>2 DEF SoFar
<1>6. CASE AttemptSucceeds
  BY <1>6, ArrivalSoFar DEF AttemptSucceeds, workVars
<1>7. CASE AttemptFails
  <2>1. CASE Arrives
    BY <1>7, <2>1, ArrivalSoFar DEF AttemptFails, workVars
  <2>2. CASE UNCHANGED <<arrived, dsp, twice>>
    <3>1. UNCHANGED <<startUp, sent, work, table, result, lost, arrived, dsp, twice>>
      BY <1>7, <2>2 DEF AttemptFails, workVars
    <3> QED
      BY <3>1 DEF SoFar, InStartUp, LastTable, Reached, Effect, ClockSettled, SetupEnded
  <2> QED
    BY <1>7, <2>1, <2>2 DEF AttemptFails
<1>8. CASE AfterWrite
  <2>1. /\ table \in Tables /\ table # "idle" /\ index \in Nat
        /\ UNCHANGED <<startUp, sent, work, dsp, twice>>
        /\ ret >= 0 => arrived = index + 1
        /\ ret \in {-1, 1}
    BY <1>8, CurrentFacts, IdleIsNoTable DEF AfterWrite, Inv1, TypeOK, Place, workVars
  <2>2. lost' <=> (lost \/ ret < 0)
    <3>1. lost' = (lost \/ ret < 0)
      BY <1>8 DEF AfterWrite
    <3> QED
      BY <3>1
  <2>3. ASSUME NEW k \in 1..sent'
        PROVE  k \in 1..sent /\ startUp[k] # "idle"
    <3>1. k \in 1..sent /\ k \in 1..Len(startUp)
      BY <1>1, <2>1
    <3> QED
      BY <1>1, <3>1, IdleIsNoTable
  <2>4. CASE \E r \in {-1, 0} : Return(r) /\ (r = 0 => ret >= 0 /\ index + 1 = Size[table])
                                /\ (r = -1 => ret < 0)
    <3>1. table' = "idle" /\ result'.table = table
      BY <2>4 DEF Return
    <3>2. ~lost' => arrived = Size[table]
      BY <2>1, <2>2, <2>4
    <3>3. ASSUME NEW k \in 1..sent'
          PROVE  Entry(k)
      <4>1. CASE lost' \/ twice
        BY <2>1, <2>3, <3>1, <4>1 DEF Reached
      <4>2. CASE ~lost' /\ ~twice
        BY <2>1, <2>2, <2>3, <3>1, <3>2, <4>2 DEF Reached
      <4> QED
        BY <4>1, <4>2
    <3>4. InStartUp' => InStartUp
      BY <1>2, <2>1, <3>1, IdleIsNoTable DEF InStartUp, LastTable
    <3> QED
      BY <2>1, <3>3, <3>4, Carried
  <2>5. CASE ret >= 0 /\ NextWord
    <3>1. UNCHANGED <<table, result, arrived>> /\ (lost' <=> lost)
      BY <2>1, <2>2, <2>5 DEF NextWord
    <3>2. \A k \in 1..sent' : Entry(k)
      BY <2>1, <2>3, <3>1 DEF Reached
    <3>3. InStartUp' => InStartUp
      BY <2>1, <3>1 DEF InStartUp, LastTable
    <3> QED
      BY <2>1, <3>2, <3>3, Carried
  <2> QED
    BY <1>8, <2>4, <2>5 DEF AfterWrite
<1>9. CASE UNCHANGED vars
  BY <1>9 DEF vars, workVars, callVars, chipVars, SoFar, InStartUp, LastTable, Reached,
              Effect, ClockSettled, SetupEnded
<1> QED
  BY <1>3, <1>4, <1>5, <1>6, <1>7, <1>8, <1>9 DEF Next, Calling, Running

-----------------------------------------------------------------------------
(***************************************************************************)
(* At work only with the whole configuration.                              *)
(***************************************************************************)

\* The word that ends the set-up of a start-up of one table comes after all
\* that the start-up has to give.
LEMMA SetupEndsConfigured ==
  ASSUME Inv1, Order, SoFar, pc = "write", Len(startUp) = 1,
         dsp.mode # "garbled", dsp.want = 0,
         Words[table][index + 1].name = "SetupCompleted"
  PROVE  Configured(dsp) /\ sent = 1 /\ table = startUp[1]
<1>1. /\ table \in Tables /\ table # "idle" /\ index \in Nat /\ index + 1 \in 1..Size[table]
      /\ arrived \in {index, index + 1} /\ Size[table] = Len(Words[table])
  <2>1. /\ table \in Tables /\ index \in Nat /\ index < Size[table] /\ Size[table] \in Nat
        /\ arrived \in {index, index + 1}
    BY CurrentFacts DEF Inv1, Place
  <2> QED
    BY <2>1, IdleIsNoTable, TableFacts
<1>2. table \notin AdcWays
  <2>1. "SetupCompleted" \in NamesIn(Words[table])
    BY <1>1, NameInTable
  <2> QED
    BY <2>1, AdcWayPlain
<1>3. sent = 1 /\ table = startUp[1]
  BY <1>1, <1>2, TableCases
<1>4. PICK m : ConfiguredBefore(Words[table], m, AllGiven)
  BY <1>3, StartUpWhole DEF Inv1, TypeOK
<1>5. m \in 1..arrived
  <2>1. m \in 1..Len(Words[table]) /\ \A i \in 1..m : Words[table][i].name # "SetupCompleted"
    BY <1>4 DEF ConfiguredBefore
  <2>2. index + 1 \notin 1..m
    BY <2>1
  <2> QED
    BY <1>1, <2>1, <2>2
<1>6. ASSUME NEW i \in 1..m
      PROVE  Effect(1, i)
  <2>1. Reached(1) = arrived /\ InStartUp
    BY <1>3 DEF Reached, InStartUp, LastTable
  <2>2. 1 \in 1..sent /\ i \in 1..Reached(1)
    BY <1>1, <1>3, <1>5, <2>1
  <2> QED
    BY <2>1, <2>2 DEF SoFar
<1>7. ASSUME NEW name \in Configuration
      PROVE  name \in dsp.loaded
  <2>1. PICK i \in 1..m : GivesAt(Words[table], i) /\ Words[table][i].name = name
    BY <1>4 DEF ConfiguredBefore, Configuration, AllGiven
  <2>2. Effect(1, i)
    BY <1>6
  <2> QED
    BY <1>3, <2>1, <2>2 DEF Effect
<1>8. dsp.clock = "pll"
  <2>1. PICK j \in 1..m - 1 : ClockAt(Words[table], j)
    BY <1>4 DEF ConfiguredBefore
  <2>2. j + 1 \in 1..m /\ (j + 1) - 1 = j
    BY <1>1, <1>5
  <2>3. ClockSettled(startUp, 1, j)
    BY <1>3, <2>1 DEF ClockSettled
  <2>4. Effect(1, j + 1)
    BY <1>6, <2>2
  <2>5. ClockSettled(startUp, 1, (j + 1) - 1) => dsp.clock = "pll"
    BY <2>4 DEF Effect
  <2> QED
    BY <2>2, <2>3, <2>5
<1> QED
  BY <1>3, <1>7, <1>8 DEF Configured

\* No clock setting comes after the end of the set-up.
LEMMA NoClockAfterEnd ==
  ASSUME Inv1, Order, AtWork, pc = "write", Len(startUp) = 1, dsp.mode = "processing"
  PROVE  Words[table][index + 1].name # "Clock"
<1>1. /\ table \in Tables /\ table # "idle" /\ index \in Nat /\ index + 1 \in 1..Size[table]
      /\ arrived \in {index, index + 1} /\ Size[table] = Len(Words[table])
  <2>1. /\ table \in Tables /\ index \in Nat /\ index < Size[table] /\ Size[table] \in Nat
        /\ arrived \in {index, index + 1}
    BY CurrentFacts DEF Inv1, Place
  <2> QED
    BY <2>1, IdleIsNoTable, TableFacts
<1>2. CASE table \in AdcWays
  <2>1. Words[table][index + 1].name \in NamesIn(Words[table])
    BY <1>1, NameInTable
  <2> QED
    BY <1>2, <2>1, AdcWayPlain
<1>3. CASE table = startUp[1]
  <2>1. PICK p \in 1..arrived : Words[table][p].name = "SetupCompleted"
    BY <1>3 DEF AtWork
  <2>2. PICK m : ConfiguredBefore(Words[table], m, AllGiven)
    BY <1>3, StartUpWhole DEF Inv1, TypeOK
  <2>3. m \in 1..Len(Words[table]) /\ \A i \in 1..m : Words[table][i].name # "SetupCompleted"
    BY <2>2 DEF ConfiguredBefore
  <2>4. PICK j \in 1..m - 1 : ClockAt(Words[table], j)
    BY <2>2 DEF ConfiguredBefore
  <2>5. p \notin 1..m
    BY <2>1, <2>3
  <2>6. index + 1 \in j + 1..Len(Words[table])
    BY <1>1, <2>1, <2>3, <2>5
  <2> QED
    BY <2>4, <2>6 DEF ClockAt
<1> QED
  BY <1>1, <1>2, <1>3, TableCases

LEMMA ArrivalAtWork ==
  ASSUME Inv1, Order, SoFar, AtWork, pc = "write", Arrives,
         UNCHANGED <<startUp, sent, table>>
  PROVE  AtWork'
<1> DEFINE w == Words[table][index + 1]
<1> SUFFICES ASSUME Len(startUp) = 1, dsp'.mode = "processing"
             PROVE  /\ Configured(dsp')
                    /\ dsp'.last # "Clock"
                    /\ sent = 1
                    /\ table = startUp[1] =>
                         \E p \in 1..arrived' : Words[table][p].name = "SetupCompleted"
  BY DEF AtWork
<1>1. index \in Nat /\ arrived \in {index, index + 1} /\ arrived' = index + 1
  BY CurrentFacts DEF Inv1, Place, Arrives
<1>2. 1..arrived \subseteq 1..arrived'
  BY <1>1
<1>3. CASE /\ dsp'.last = dsp.last /\ dsp'.mode = dsp.mode
           /\ dsp'.clock = IF dsp.last = "Clock" THEN w.name ELSE dsp.clock
           /\ dsp'.loaded = IF dsp.want = 1 THEN dsp.loaded \cup {dsp.last} ELSE dsp.loaded
  BY <1>2, <1>3 DEF AtWork, Configured
<1>4. CASE /\ dsp.mode # "garbled" /\ dsp.want = 0
           /\ dsp'.last = w.name /\ dsp'.clock = dsp.clock
           /\ dsp'.mode = ModeAfter(dsp.mode, w.name) /\ dsp'.loaded = dsp.loaded
  <2>1. CASE w.name = "SetupCompleted"
    <3>1. Configured(dsp) /\ sent = 1
      BY <1>4, <2>1, SetupEndsConfigured
    <3>2. index + 1 \in 1..arrived'
      BY <1>1
    <3> QED
      BY <1>4, <2>1, <3>1, <3>2 DEF Configured
  <2>2. CASE w.name # "SetupCompleted"
    <3>1. dsp.mode = "processing"
      BY <1>4, <2>2 DEF ModeAfter
    <3>2. w.name # "Clock"
      BY <3>1, NoClockAfterEnd
    <3> QED
      BY <1>2, <1>4, <3>1, <3>2 DEF AtWork, Configured
  <2> QED
    BY <2>1, <2>2
<1> QED
  BY <1>3, <1>4, ArrivalCases

LEMMA InitAtWork == Init => AtWork
BY DEF Init, AtWork, DspReset

LEMMA NextAtWork ==
  Inv1 /\ Order /\ SoFar /\ AtWork /\ [Next]_vars => AtWork'
<1> SUFFICES ASSUME Inv1, Order, SoFar, AtWork, [Next]_vars
             PROVE  AtWork'
  OBVIOUS
<1>1. startUp \in StartUps /\ (Len(startUp) = 1 => startUp[1] \in Tables \ AdcWays)
  BY StartUpWhole DEF Inv1, TypeOK
<1>2. CASE SendStartUp
  <2>1. UNCHANGED <<startUp, dsp>> /\ sent \in Nat /\ sent < Len(startUp)
    BY <1>2 DEF SendStartUp, Call, chipVars, Inv1, TypeOK
  <2>2. Len(startUp) = 1 => dsp.mode # "processing"
    BY <2>1 DEF AtWork
  <2> QED
    BY <2>1, <2>2 DEF AtWork
<1>3. CASE SendRestore \/ SendSwitch
  <2>1. table' \in AdcWays /\ UNCHANGED <<startUp, sent, dsp>>
    BY <1>3 DEF SendRestore, SendSwitch, Call, chipVars, workVars
  <2> QED
    BY <1>1, <2>1 DEF AtWork
<1>4. CASE ResetChip
  BY <1>4 DEF ResetChip, AtWork, DspReset
<1>5. CASE AttemptSucceeds
  BY <1>5, ArrivalAtWork DEF AttemptSucceeds, workVars
<1>6. CASE AttemptFails
  <2>1. CASE Arrives
    BY <1>6, <2>1, ArrivalAtWork DEF AttemptFails, workVars
  <2>2. CASE UNCHANGED <<arrived, dsp, twice>>
    <3>1. UNCHANGED <<startUp, sent, table, arrived, dsp>>
      BY <1>6, <2>2 DEF AttemptFails, workVars
    <3> QED
      BY <3>1 DEF AtWork
  <2> QED
    BY <1>6, <2>1, <2>2 DEF AttemptFails
<1>7. CASE AfterWrite
  <2>1. UNCHANGED <<startUp, sent, dsp>>
    BY <1>7 DEF AfterWrite, workVars
  <2>2. CASE table' = "idle"
    BY <1>1, <2>1, <2>2, IdleIsNoTable DEF AtWork
  <2>3. CASE UNCHANGED <<table, arrived>>
    BY <2>1, <2>3 DEF AtWork
  <2> QED
    BY <1>7, <2>2, <2>3 DEF AfterWrite, Return, NextWord
<1>8. CASE UNCHANGED vars
  BY <1>8 DEF vars, workVars, callVars, chipVars, AtWork
<1> QED
  BY <1>2, <1>3, <1>4, <1>5, <1>6, <1>7, <1>8 DEF Next, Calling, Running

\* A start-up of one table sets the DSP to work only with the whole
\* configuration, and nothing the driver sends later takes any of it away,
\* whatever is lost on the bus or comes twice.
THEOREM StartsOnlyConfigured == Spec => []StartsConfigured
<1>1. AtWork => StartsConfigured
  BY DEF AtWork, StartsConfigured
<1> QED
  BY InitInv1, NextInv1, InitDelays, NextDelays, InitClock, NextClock,
     InitOrder, NextOrder, InitSoFar, NextSoFar, InitAtWork, NextAtWork, <1>1, PTL DEF Spec

\* A start-up whose last table returned 0, when no call has failed and no word
\* has come twice, has given the DSP everything, from whichever of its tables,
\* and has set it to work.
THEOREM CompleteStartUpConfigures == Spec => []StartUpCompletes
<1>1. Inv1 /\ Framing /\ Order /\ SoFar => StartUpCompletes
  <2> SUFFICES ASSUME Inv1, Framing, Order, SoFar, pc = "idle", ~lost, ~twice,
                      result = [table |-> LastTable, value |-> 0]
               PROVE  dsp.mode = "processing" /\ Configured(dsp) /\ dsp.want = 0
    BY DEF StartUpCompletes, LastTable
  <2>1. /\ startUp \in StartUps /\ Len(startUp) \in 1..Len(startUp) /\ table = "idle"
        /\ result.table = LastTable
    BY StartUpFacts DEF Inv1, TypeOK
  <2>2. LastTable \in Tables \ AdcWays
    BY <2>1, StartUpWhole DEF LastTable
  <2>3. sent = Len(startUp)
    <3>1. sent \in 1..Len(startUp) /\ startUp[sent] = startUp[Len(startUp)]
      BY <2>1, <2>2, IdleIsNoTable DEF Order, LastTable
    <3> QED
      BY <2>1, <3>1, StartUpWhole
  <2>4. dsp.mode # "garbled" /\ dsp.want = 0
    BY <2>1 DEF Framing
  <2>5. ASSUME NEW k \in 1..Len(startUp), NEW i \in 1..Len(Words[startUp[k]])
        PROVE  Effect(k, i)
    <3>1. startUp[k] \in Tables
      BY <2>1, StartUpFacts
    <3>2. Reached(k) = Len(Words[startUp[k]])
      BY <2>1, <3>1, IdleIsNoTable, TableFacts DEF Reached
    <3> QED
      BY <2>1, <2>3, <2>4, <3>2 DEF SoFar, InStartUp
  <2>6. ASSUME NEW name \in Configuration
        PROVE  name \in dsp.loaded
    <3>1. PICK k \in 1..Len(startUp) : name \in Given(Words[startUp[k]])
      BY <2>1, StartUpWhole
    <3>2. PICK i \in 1..Len(Words[startUp[k]]) :
            GivesAt(Words[startUp[k]], i) /\ Words[startUp[k]][i].name = name
      BY <3>1 DEF Given
    <3> QED
      BY <2>4, <2>5, <3>2 DEF Effect
  <2>7. dsp.clock = "pll"
    <3>1. PICK k \in 1..Len(startUp) : \E j : ClockSettled(startUp, k, j)
      BY <2>1, StartUpWhole
    <3>2. PICK j : ClockSettled(startUp, k, j)
      BY <3>1
    <3>3. j \in 1..Len(Words[startUp[k]]) - 1 /\ Len(Words[startUp[k]]) \in Nat
      <4>1. startUp[k] \in Tables
        BY <2>1, StartUpFacts
      <4> QED
        BY <3>2, <4>1, TableFacts DEF ClockSettled, ClockAt
    <3>4. j + 1 \in 1..Len(Words[startUp[k]]) /\ (j + 1) - 1 = j
      BY <3>3
    <3>5. Effect(k, j + 1)
      BY <2>5, <3>4
    <3>6. ClockSettled(startUp, k, (j + 1) - 1) => dsp.clock = "pll"
      BY <3>5 DEF Effect
    <3> QED
      BY <3>2, <3>4, <3>6
  <2>8. dsp.mode = "processing"
    <3>1. PICK k \in 1..Len(startUp) : \E q : SetupEnded(startUp, k, q)
      BY <2>1, StartUpWhole
    <3>2. PICK q : SetupEnded(startUp, k, q)
      BY <3>1
    <3>3. q \in 1..Len(Words[startUp[k]])
      BY <3>2 DEF SetupEnded, CompletedAt
    <3> QED
      BY <2>5, <3>2, <3>3 DEF Effect
  <2> QED
    BY <2>4, <2>6, <2>7, <2>8 DEF Configured
<1> QED
  BY InitInv1, NextInv1, InitDelays, NextDelays, InitFraming, NextFraming,
     InitClock, NextClock, InitOrder, NextOrder, InitSoFar, NextSoFar, <1>1, PTL DEF Spec
-----------------------------------------------------------------------------
(***************************************************************************)
(* The end of a call.                                                      *)
(***************************************************************************)
LEMMA StepsLeftFacts ==
  ASSUME Inv1, pc # "idle"
  PROVE  StepsLeft \in 1..(Attempts + 1) * Size[table]
<1>1. /\ index \in Nat /\ Size[table] \in Nat /\ index + 1 <= Size[table]
  BY CurrentFacts DEF Inv1
<1>2. retry \in 0..3 /\ pc \in {"write", "after"}
  BY DEF Inv1, TypeOK, Attempts
<1> QED
  BY <1>1, <1>2 DEF StepsLeft, Attempts

LEMMA RunningShortens ==
  ASSUME Inv1, Running
  PROVE  StepsLeft' \in 0..StepsLeft - 1
<1>1. pc \in {"write", "after"}
  BY DEF Running, AttemptSucceeds, AttemptFails, AfterWrite
<1>2. /\ index \in Nat /\ Size[table] \in Nat /\ index + 1 <= Size[table]
  BY <1>1, CurrentFacts DEF Inv1
<1>3. StepsLeft = 4 * (Size[table] - (index + 1)) + 1 + (IF pc = "write" THEN retry ELSE 0)
  BY <1>1 DEF StepsLeft, Attempts
<1>4. retry \in 0..3 /\ (pc = "write" => retry >= 1)
  BY DEF Inv1, TypeOK, Place, Attempts
<1>5. CASE AttemptSucceeds
  <2>1. pc = "write" /\ pc' = "after" /\ UNCHANGED <<table, index>>
    BY <1>5 DEF AttemptSucceeds
  <2>2. StepsLeft' = 4 * (Size[table] - (index + 1)) + 1
    BY <1>2, <2>1 DEF StepsLeft, Attempts
  <2> QED
    BY <1>2, <1>3, <1>4, <2>1, <2>2
<1>6. CASE AttemptFails
  <2>1. /\ pc = "write" /\ pc' \in {"write", "after"} /\ retry' = retry - 1
        /\ UNCHANGED <<table, index>>
    BY <1>6 DEF AttemptFails
  <2>2. StepsLeft' = 4 * (Size[table] - (index + 1)) + 1 + (IF pc' = "write" THEN retry - 1 ELSE 0)
    BY <2>1 DEF StepsLeft, Attempts
  <2> QED
    BY <1>2, <1>3, <1>4, <2>1, <2>2
<1>7. CASE AfterWrite
  <2>1. pc = "after"
    BY <1>7 DEF AfterWrite
  <2>2. CASE \E r \in {-1, 0} : Return(r)
    <3>1. StepsLeft' = 0
      BY <2>2 DEF Return, StepsLeft
    <3> QED
      BY <1>2, <1>3, <2>1, <3>1
  <2>3. CASE NextWord /\ index + 1 # Size[table]
    <3>1. pc' = "write" /\ retry' = 3 /\ index' = index + 1 /\ table' = table
      BY <2>3 DEF NextWord, Attempts
    <3>2. StepsLeft' = 4 * (Size[table] - (index + 2)) + 4
      BY <1>2, <3>1 DEF StepsLeft, Attempts
    <3> QED
      BY <1>2, <1>3, <2>1, <2>3, <3>2
  <2> QED
    BY <1>7, <2>2, <2>3 DEF AfterWrite
<1> QED
  BY <1>5, <1>6, <1>7 DEF Running

\* A call is over after at most four steps for each word of its table, for any
\* length of the table and any failures.
THEOREM EveryStepShortensTheCall == Spec => CallShortens
<1>1. ASSUME Inv1, [Next]_vars
      PROVE  [pc # "idle" => /\ StepsLeft' \in 0..StepsLeft - 1
                             /\ StepsLeft <= (Attempts + 1) * Size[table]]_vars
  <2> SUFFICES ASSUME Next, pc # "idle"
               PROVE  /\ StepsLeft' \in 0..StepsLeft - 1
                      /\ StepsLeft <= (Attempts + 1) * Size[table]
    BY <1>1
  <2>1. ~Calling
    BY DEF Calling, SendStartUp, ResetChip, SendRestore, SendSwitch, Call
  <2>2. StepsLeft' \in 0..StepsLeft - 1
    BY <1>1, <2>1, RunningShortens DEF Next
  <2>3. StepsLeft \in 1..(Attempts + 1) * Size[table]
    BY <1>1, StepsLeftFacts
  <2>4. Size[table] \in Nat
    BY <1>1, CurrentFacts DEF Inv1
  <2> QED
    BY <2>2, <2>3, <2>4 DEF Attempts
<1> QED
  BY InitInv1, NextInv1, <1>1, PTL DEF Spec, CallShortens

=============================================================================
