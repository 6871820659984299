------------------------ MODULE CommandTablesProofs ------------------------
(***************************************************************************)
(* What every start-up table of npca110.h has in common, whatever the      *)
(* length of its patch and the number of its generic writes: it is a       *)
(* sequence of whole commands, and its clock settings come in an order in  *)
(* which the chip never runs from a PLL that is in its reset.              *)
(*                                                                         *)
(* Each of these is a property of a section that survives putting sections *)
(* one after the other.                                                    *)
(***************************************************************************)
EXTENDS CommandTables, SequenceTheorems, TLAPS

PLLNames == {"PLL", "Clock"}

\* f[i] words of data are due after the i-th word of s.
IsFraming(s, f) ==
  /\ f \in [0..Len(s) -> Nat]
  /\ f[0] = 0
  /\ f[Len(s)] = 0
  /\ \A i \in 1..Len(s) :
       \/ f[i - 1] = 0 /\ s[i].kind = "command" /\ f[i] = s[i].data
       \/ f[i - 1] > 0 /\ s[i].kind = "data" /\ f[i] = f[i - 1] - 1

\* Only the commands bear the names of clock and PLL settings; they have one
\* word of data.
SettingsNamed(s) ==
  \A i \in 1..Len(s) :
    s[i].name \in PLLNames => s[i].kind = "command" /\ s[i].data = 1

\* A clock is taken from the PLL right after the PLL was told to run, and the
\* PLL is told something else right after the crystal was taken.
ClockOrder(s) ==
  \A i \in 1..Len(s) - 1 :
    /\ s[i].name = "Clock" /\ s[i + 1].name = "pll" =>
         i > 2 /\ s[i - 2].name = "PLL" /\ s[i - 1].name = "running"
    /\ s[i].name = "PLL" /\ s[i + 1].name # "running" =>
         i > 2 /\ s[i - 2].name = "Clock" /\ s[i - 1].name = "crystal"

WellFormed(s) ==
  /\ s \in Seq(WordSet)
  /\ \E f : IsFraming(s, f)
  /\ SettingsNamed(s)
  /\ ClockOrder(s)

-----------------------------------------------------------------------------
(***************************************************************************)
(* One section after the other.                                            *)
(***************************************************************************)

\* The end of a section is the end of a command.
LEMMA SettingNotLast ==
  ASSUME NEW s, WellFormed(s), NEW i \in 1..Len(s), s[i].name \in PLLNames
  PROVE  i < Len(s)
<1>1. PICK f : IsFraming(s, f)
  BY DEF WellFormed
<1>2. s[i].kind = "command" /\ s[i].data = 1
  BY DEF WellFormed, SettingsNamed
<1>3. Len(s) \in Nat
  BY LenProperties DEF WellFormed
<1>4. f[i] = 1
  BY <1>1, <1>2 DEF IsFraming
<1> QED
  BY <1>1, <1>3, <1>4 DEF IsFraming

LEMMA FramingConcat ==
  ASSUME NEW s, NEW u, WellFormed(s), WellFormed(u)
  PROVE  \E h : IsFraming(s \o u, h)
<1> DEFINE m == Len(s)
           n == Len(u)
           w == s \o u
<1>1. PICK f : IsFraming(s, f)
  BY DEF WellFormed
<1>2. PICK g : IsFraming(u, g)
  BY DEF WellFormed
<1>3. m \in Nat /\ n \in Nat
  BY LenProperties DEF WellFormed
<1>4. /\ Len(w) = m + n
      /\ \A i \in 1..m + n : w[i] = IF i <= m THEN s[i] ELSE u[i - m]
  BY ConcatProperties DEF WellFormed
<1> DEFINE h == [i \in 0..m + n |-> IF i <= m THEN f[i] ELSE g[i - m]]
<1>5. /\ f \in [0..m -> Nat] /\ f[0] = 0 /\ f[m] = 0
      /\ g \in [0..n -> Nat] /\ g[0] = 0 /\ g[n] = 0
  BY <1>1, <1>2 DEF IsFraming
<1> HIDE DEF w, m, n
<1>6. h \in [0..Len(w) -> Nat] /\ h[0] = 0 /\ h[Len(w)] = 0
  BY SMTT(30), <1>3, <1>4, <1>5
<1>7. ASSUME NEW i \in 1..Len(w)
      PROVE  \/ h[i - 1] = 0 /\ w[i].kind = "command" /\ h[i] = w[i].data
             \/ h[i - 1] > 0 /\ w[i].kind = "data" /\ h[i] = h[i - 1] - 1
  <2>1. CASE i <= m
    <3>1. i \in 1..m /\ w[i] = s[i] /\ h[i] = f[i] /\ h[i - 1] = f[i - 1]
      BY <1>3, <1>4, <2>1
    <3> HIDE DEF h
    <3> QED
      BY <1>1, <3>1 DEF IsFraming, m
  <2>2. CASE i > m
    <3>1. i - m \in 1..n /\ w[i] = u[i - m] /\ h[i] = g[i - m]
      BY <1>3, <1>4, <2>2
    <3>2. h[i - 1] = g[(i - m) - 1]
      <4>1. CASE i - 1 = m
        BY <4>1, <1>3, <1>4, <1>5
      <4>2. CASE i - 1 > m
        <5>1. i - 1 \in 0..m + n /\ (i - 1) - m = (i - m) - 1
          BY <1>3, <1>4, <4>2
        <5> QED
          BY <5>1, <1>3, <4>2
      <4> QED
        BY <4>1, <4>2, <1>3, <2>2
    <3> HIDE DEF h
    <3> QED
      BY <1>2, <3>1, <3>2 DEF IsFraming, n
  <2> QED
    BY <2>1, <2>2, <1>3
<1>8. IsFraming(w, h)
  <2> HIDE DEF h
  <2> QED
    BY <1>6, <1>7 DEF IsFraming
<1> QED
  BY <1>8 DEF w

LEMMA ClockOrderConcat ==
  ASSUME NEW s, NEW u, WellFormed(s), WellFormed(u)
  PROVE  ClockOrder(s \o u)
<1> DEFINE m == Len(s)
           n == Len(u)
           w == s \o u
<1>1. m \in Nat /\ n \in Nat
  BY LenProperties DEF WellFormed
<1>2. /\ Len(w) = m + n
      /\ \A i \in 1..m + n : w[i] = IF i <= m THEN s[i] ELSE u[i - m]
  BY ConcatProperties DEF WellFormed
<1>3. \A i \in 1..m : s[i].name \in PLLNames => i < m
  BY SettingNotLast
<1>4. ClockOrder(s) /\ ClockOrder(u)
  BY DEF WellFormed
<1> SUFFICES ASSUME NEW i \in 1..Len(w) - 1
             PROVE  /\ w[i].name = "Clock" /\ w[i + 1].name = "pll" =>
                         i > 2 /\ w[i - 2].name = "PLL" /\ w[i - 1].name = "running"
                    /\ w[i].name = "PLL" /\ w[i + 1].name # "running" =>
                         i > 2 /\ w[i - 2].name = "Clock" /\ w[i - 1].name = "crystal"
  BY DEF ClockOrder
<1> HIDE DEF w, m, n
<1>5. CASE i < m
  <2>1. /\ i \in 1..m - 1
        /\ w[i] = s[i] /\ w[i + 1] = s[i + 1]
        /\ i > 2 => w[i - 1] = s[i - 1] /\ w[i - 2] = s[i - 2]
    BY <1>1, <1>2, <1>5
  <2> QED
    BY <2>1, <1>4 DEF ClockOrder, m
<1>6. CASE i = m
  BY <1>1, <1>2, <1>3, <1>6 DEF PLLNames
<1>7. CASE i > m
  <2> DEFINE j == i - m
  <2>1. /\ j \in 1..n - 1
        /\ w[i] = u[j] /\ w[i + 1] = u[j + 1]
        /\ j > 2 => i > 2 /\ w[i - 1] = u[j - 1] /\ w[i - 2] = u[j - 2]
    <3>1. j \in 1..n - 1 /\ w[i] = u[j]
      BY <1>1, <1>2, <1>7
    <3>2. (i + 1) - m = j + 1 /\ i + 1 \in 1..m + n /\ i + 1 > m
      BY <1>1, <1>2, <1>7
    <3>3. w[i + 1] = u[j + 1]
      BY <1>1, <1>2, <3>2
    <3>4. ASSUME j > 2
          PROVE  i > 2 /\ w[i - 1] = u[j - 1] /\ w[i - 2] = u[j - 2]
      <4>1. /\ i > 2 /\ i - 1 \in 1..m + n /\ i - 2 \in 1..m + n
            /\ i - 1 > m /\ i - 2 > m
            /\ (i - 1) - m = j - 1 /\ (i - 2) - m = j - 2
        BY <1>1, <1>2, <1>7, <3>4
      <4> QED
        BY SMTT(30), <4>1, <1>1, <1>2
    <3> QED
      BY <3>1, <3>3, <3>4
  <2> HIDE DEF j
  <2> QED
    BY SMTT(30), <2>1, <1>4 DEF ClockOrder, n
<1> QED
  BY <1>5, <1>6, <1>7, <1>1, <1>2

\* Two sections make a section.
LEMMA WellFormedConcat ==
  ASSUME NEW s, NEW u, WellFormed(s), WellFormed(u)
  PROVE  WellFormed(s \o u)
<1>1. s \o u \in Seq(WordSet) /\ \E h : IsFraming(s \o u, h)
  BY FramingConcat, ConcatProperties DEF WellFormed
<1>2. SettingsNamed(s \o u)
  <2>1. /\ Len(s) \in Nat /\ Len(u) \in Nat
        /\ Len(s \o u) = Len(s) + Len(u)
        /\ \A i \in 1..Len(s) + Len(u) :
             (s \o u)[i] = IF i <= Len(s) THEN s[i] ELSE u[i - Len(s)]
    BY ConcatProperties, LenProperties DEF WellFormed
  <2>2. SettingsNamed(s) /\ SettingsNamed(u)
    BY DEF WellFormed
  <2>3. ASSUME NEW i \in 1..Len(s \o u), (s \o u)[i].name \in PLLNames
        PROVE  (s \o u)[i].kind = "command" /\ (s \o u)[i].data = 1
    <3>1. CASE i <= Len(s)
      BY <2>1, <2>2, <2>3, <3>1 DEF SettingsNamed
    <3>2. CASE i > Len(s)
      <4>1. i - Len(s) \in 1..Len(u) /\ (s \o u)[i] = u[i - Len(s)]
        BY <2>1, <3>2
      <4> QED
        BY <4>1, <2>2, <2>3 DEF SettingsNamed
    <3> QED
      BY <3>1, <3>2, <2>1
  <2> QED
    BY <2>3 DEF SettingsNamed
<1> QED
  BY <1>1, <1>2, ClockOrderConcat DEF WellFormed

-----------------------------------------------------------------------------
(***************************************************************************)
(* The kinds of sections.                                                  *)
(***************************************************************************)

LEMMA WordsInSet ==
  /\ \A name \in CommandNames, n \in Nat : Command(name, n) \in WordSet
  /\ \A value \in Values : Data(value) \in WordSet
BY DEF Command, Data, WordSet

LEMMA FunctionIsSequence ==
  ASSUME NEW n \in Nat, NEW s \in [1..n -> WordSet]
  PROVE  s \in Seq(WordSet) /\ Len(s) = n
BY SeqDef, LenProperties

\* Sections without clock settings need only whole commands.
LEMMA PlainSection ==
  ASSUME NEW s \in Seq(WordSet), NEW f, IsFraming(s, f),
         \A i \in 1..Len(s) : s[i].name \notin PLLNames
  PROVE  WellFormed(s)
<1>1. Len(s) \in Nat
  BY LenProperties
<1>2. SettingsNamed(s)
  BY DEF SettingsNamed
<1>3. ClockOrder(s)
  BY <1>1 DEF ClockOrder, PLLNames
<1> QED
  BY <1>2, <1>3 DEF WellFormed

LEMMA SettingsWellFormed ==
  ASSUME NEW n \in Nat
  PROVE  WellFormed(Settings(n))
<1> DEFINE s == Settings(n)
           f == [i \in 0..n |-> 0]
<1>1. Command("Set", 0) \in WordSet
  BY WordsInSet DEF CommandNames, Values
<1>2. s \in [1..n -> WordSet] /\ \A i \in 1..n : s[i] = Command("Set", 0)
  BY <1>1 DEF Settings
<1> HIDE DEF s
<1>3. s \in Seq(WordSet) /\ Len(s) = n
  BY <1>2, FunctionIsSequence
<1>4. IsFraming(s, f)
  BY <1>2, <1>3 DEF IsFraming, Command
<1>5. \A i \in 1..Len(s) : s[i].name \notin PLLNames
  BY <1>2, <1>3 DEF Command, PLLNames
<1>6. WellFormed(s)
  BY <1>3, <1>4, <1>5, PlainSection
<1> QED
  BY <1>6 DEF s

LEMMA RegistersWellFormed ==
  ASSUME NEW n \in Nat
  PROVE  WellFormed(Registers(n))
<1> DEFINE s == Registers(n)
           f == [i \in 0..2 * n |-> i % 2]
<1>1. Command("Register", 1) \in WordSet /\ Data("any") \in WordSet
  BY WordsInSet DEF CommandNames, Values
<1>2. /\ s \in [1..2 * n -> WordSet]
      /\ \A i \in 1..2 * n :
           s[i] = IF i % 2 = 1 THEN Command("Register", 1) ELSE Data("any")
  BY <1>1 DEF Registers
<1> HIDE DEF s
<1>3. s \in Seq(WordSet) /\ Len(s) = 2 * n
  BY <1>2, FunctionIsSequence
<1>4. IsFraming(s, f)
  <2>1. f \in [0..2 * n -> Nat] /\ f[0] = 0 /\ f[2 * n] = 0
    OBVIOUS
  <2>2. ASSUME NEW i \in 1..2 * n
        PROVE  \/ f[i - 1] = 0 /\ s[i].kind = "command" /\ f[i] = s[i].data
               \/ f[i - 1] > 0 /\ s[i].kind = "data" /\ f[i] = f[i - 1] - 1
    <3>1. f[i] = i % 2 /\ f[i - 1] = (i - 1) % 2
      OBVIOUS
    <3>2. CASE i % 2 = 1
      <4>1. (i - 1) % 2 = 0
        BY <3>2
      <4> QED
        BY <1>2, <3>1, <3>2, <4>1 DEF Command
    <3>3. CASE i % 2 = 0
      <4>1. (i - 1) % 2 = 1
        BY <3>3
      <4> QED
        BY <1>2, <3>1, <3>3, <4>1 DEF Data
    <3> QED
      BY <3>2, <3>3
  <2> HIDE DEF f
  <2> QED
    BY <1>3, <2>1, <2>2 DEF IsFraming
<1>5. \A i \in 1..Len(s) : s[i].name \notin PLLNames
  BY <1>2, <1>3 DEF Command, Data, PLLNames
<1> HIDE DEF f
<1>6. WellFormed(s)
  BY <1>3, <1>4, <1>5, PlainSection
<1> QED
  BY <1>6 DEF s

\* The words of a command with its data.
LEMMA LoadWords ==
  ASSUME NEW name \in CommandNames, NEW n \in Nat
  PROVE  LET s == Load(name, n) IN
           /\ s \in Seq(WordSet) /\ Len(s) = n + 1
           /\ s[1] = Command(name, n)
           /\ \A i \in 2..n + 1 : s[i] = Data("any")
<1> DEFINE s == Load(name, n)
           a == << Command(name, n) >>
           b == [i \in 1..n |-> Data("any")]
<1>1. Command(name, n) \in WordSet /\ Data("any") \in WordSet
  BY WordsInSet DEF CommandNames, Values
<1>2. a \in Seq(WordSet) /\ Len(a) = 1 /\ a[1] = Command(name, n)
  BY <1>1
<1>3. b \in Seq(WordSet) /\ Len(b) = n
  <2>1. b \in [1..n -> WordSet]
    BY <1>1
  <2> QED
    BY <2>1, FunctionIsSequence
<1>4. \A i \in 1..n : b[i] = Data("any")
  OBVIOUS
<1>5. s = a \o b
  BY DEF Load
<1> HIDE DEF s, a, b
<1>6. /\ s \in Seq(WordSet) /\ Len(s) = n + 1
      /\ s[1] = Command(name, n)
      /\ \A i \in 2..n + 1 : s[i] = Data("any")
  <2>1. /\ s \in Seq(WordSet) /\ Len(s) = 1 + n
        /\ \A i \in 1..1 + n : s[i] = IF i <= 1 THEN a[i] ELSE b[i - 1]
    <3>1. /\ a \o b \in Seq(WordSet) /\ Len(a \o b) = Len(a) + Len(b)
          /\ \A i \in 1..Len(a) + Len(b) :
               (a \o b)[i] = IF i <= Len(a) THEN a[i] ELSE b[i - Len(a)]
      BY <1>2, <1>3, ConcatProperties
    <3> QED
      BY <1>2, <1>3, <1>5, <3>1
  <2>2. s[1] = Command(name, n)
    BY <1>2, <2>1
  <2>3. \A i \in 2..n + 1 : i - 1 \in 1..n /\ s[i] = b[i - 1]
    BY <2>1
  <2> QED
    BY <1>4, <2>1, <2>2, <2>3
<1> QED
  BY <1>6 DEF s

LEMMA LoadWellFormed ==
  ASSUME NEW name \in CommandNames, name \notin PLLNames, NEW n \in Nat
  PROVE  WellFormed(Load(name, n))
<1> DEFINE s == Load(name, n)
           f == [i \in 0..n + 1 |-> IF i = 0 THEN 0 ELSE n + 1 - i]
<1>1. /\ s \in Seq(WordSet) /\ Len(s) = n + 1
      /\ s[1] = Command(name, n)
      /\ \A i \in 2..n + 1 : s[i] = Data("any")
  BY LoadWords
<1> HIDE DEF s
<1>2. IsFraming(s, f)
  BY <1>1 DEF IsFraming, Command, Data
<1>3. \A i \in 1..Len(s) : s[i].name \notin PLLNames
  BY <1>1 DEF Command, Data, PLLNames
<1> HIDE DEF f
<1>4. WellFormed(s)
  BY <1>1, <1>2, <1>3, PlainSection
<1> QED
  BY <1>4 DEF s

\* One command without data.
LEMMA CommandWellFormed ==
  ASSUME NEW name \in CommandNames, name \notin PLLNames
  PROVE  WellFormed(<< Command(name, 0) >>)
<1> DEFINE s == << Command(name, 0) >>
           f == [i \in 0..1 |-> 0]
<1>1. Command(name, 0) \in WordSet
  BY WordsInSet DEF CommandNames, Values
<1>2. s \in Seq(WordSet) /\ Len(s) = 1 /\ s[1] = Command(name, 0)
  BY <1>1
<1> HIDE DEF s
<1>3. IsFraming(s, f)
  BY <1>2 DEF IsFraming, Command
<1>4. \A i \in 1..Len(s) : s[i].name \notin PLLNames
  BY <1>2 DEF Command
<1>5. WellFormed(s)
  BY <1>2, <1>3, <1>4, PlainSection
<1> QED
  BY <1>5 DEF s

LEMMA SettingWords ==
  ASSUME NEW name \in CommandNames, NEW value \in Values
  PROVE  /\ Setting(name, value) \in Seq(WordSet)
         /\ Len(Setting(name, value)) = 2
         /\ Setting(name, value)[1] = Command(name, 1)
         /\ Setting(name, value)[2] = Data(value)
<1>1. Command(name, 1) \in WordSet /\ Data(value) \in WordSet
  BY WordsInSet DEF CommandNames, Values
<1> QED
  BY <1>1 DEF Setting

LEMMA AfterIt ==
  ASSUME NEW s \in Seq(WordSet), NEW a \in Seq(WordSet), Len(a) = 2
  PROVE  /\ s \o a \in Seq(WordSet)
         /\ Len(s \o a) = Len(s) + 2
         /\ \A i \in 1..Len(s) : (s \o a)[i] = s[i]
         /\ (s \o a)[Len(s) + 1] = a[1]
         /\ (s \o a)[Len(s) + 2] = a[2]
<1>1. Len(s) \in Nat
  BY LenProperties
<1>2. /\ s \o a \in Seq(WordSet)
      /\ Len(s \o a) = Len(s) + Len(a)
      /\ \A i \in 1..Len(s) + Len(a) :
           (s \o a)[i] = IF i <= Len(s) THEN s[i] ELSE a[i - Len(s)]
  BY ConcatProperties
<1>3. /\ (Len(s) + 1) - Len(s) = 1 /\ (Len(s) + 2) - Len(s) = 2
      /\ ~(Len(s) + 1 <= Len(s)) /\ ~(Len(s) + 2 <= Len(s))
      /\ Len(s) + 1 \in 1..Len(s) + Len(a) /\ Len(s) + 2 \in 1..Len(s) + Len(a)
      /\ \A i \in 1..Len(s) : i \in 1..Len(s) + Len(a) /\ i <= Len(s)
  BY <1>1
<1>4. (s \o a)[Len(s) + 1] = a[1] /\ (s \o a)[Len(s) + 2] = a[2]
  BY <1>2, <1>3
<1>5. \A i \in 1..Len(s) : (s \o a)[i] = s[i]
  BY <1>2, <1>3
<1> QED
  BY <1>2, <1>4, <1>5

LEMMA ClocksWords ==
  /\ Clocks \in Seq(WordSet) /\ Len(Clocks) = 8
  /\ Clocks[1] = Command("Clock", 1) /\ Clocks[2] = Data("crystal")
  /\ Clocks[3] = Command("PLL", 1)   /\ Clocks[4] = Data("reset")
  /\ Clocks[5] = Command("PLL", 1)   /\ Clocks[6] = Data("running")
  /\ Clocks[7] = Command("Clock", 1) /\ Clocks[8] = Data("pll")
<1> DEFINE s == Clocks
           a == Setting("Clock", "crystal")
           b == Setting("PLL", "reset")
           c == Setting("PLL", "running")
           d == Setting("Clock", "pll")
           ab == a \o b
           abc == ab \o c
<1>1. /\ a \in Seq(WordSet) /\ Len(a) = 2 /\ a[1] = Command("Clock", 1) /\ a[2] = Data("crystal")
      /\ b \in Seq(WordSet) /\ Len(b) = 2 /\ b[1] = Command("PLL", 1) /\ b[2] = Data("reset")
      /\ c \in Seq(WordSet) /\ Len(c) = 2 /\ c[1] = Command("PLL", 1) /\ c[2] = Data("running")
      /\ d \in Seq(WordSet) /\ Len(d) = 2 /\ d[1] = Command("Clock", 1) /\ d[2] = Data("pll")
  BY SettingWords DEF CommandNames, Values, ClockSources, PLLStates
<1>2. s = abc \o d
  BY DEF Clocks
<1> HIDE DEF s, a, b, c, d
<1>3. /\ ab \in Seq(WordSet) /\ Len(ab) = 4
      /\ ab[1] = a[1] /\ ab[2] = a[2] /\ ab[3] = b[1] /\ ab[4] = b[2]
  <2>1. /\ a \in Seq(WordSet) /\ Len(a) = 2
        /\ b \in Seq(WordSet) /\ Len(b) = 2
    BY <1>1
  <2> QED
    BY SMTT(30), <2>1, AfterIt
<1> HIDE DEF ab
<1>4. /\ abc \in Seq(WordSet) /\ Len(abc) = 6
      /\ \A i \in 1..4 : abc[i] = ab[i]
      /\ abc[5] = c[1] /\ abc[6] = c[2]
  <2>1. /\ abc \in Seq(WordSet) /\ Len(abc) = Len(ab) + 2
        /\ \A i \in 1..Len(ab) : abc[i] = ab[i]
        /\ abc[Len(ab) + 1] = c[1] /\ abc[Len(ab) + 2] = c[2]
    <3>1. ab \in Seq(WordSet) /\ c \in Seq(WordSet) /\ Len(c) = 2
      BY <1>1, <1>3
    <3> QED
      BY <3>1, AfterIt
  <2> HIDE DEF abc
  <2> QED
    BY <1>3, <2>1
<1> HIDE DEF abc
<1>5. /\ s \in Seq(WordSet) /\ Len(s) = 8
      /\ \A i \in 1..6 : s[i] = abc[i]
      /\ s[7] = d[1] /\ s[8] = d[2]
  <2>1. /\ s \in Seq(WordSet) /\ Len(s) = Len(abc) + 2
        /\ \A i \in 1..Len(abc) : s[i] = abc[i]
        /\ s[Len(abc) + 1] = d[1] /\ s[Len(abc) + 2] = d[2]
    <3>1. /\ abc \o d \in Seq(WordSet) /\ Len(abc \o d) = Len(abc) + 2
          /\ \A i \in 1..Len(abc) : (abc \o d)[i] = abc[i]
          /\ (abc \o d)[Len(abc) + 1] = d[1] /\ (abc \o d)[Len(abc) + 2] = d[2]
      <4>1. abc \in Seq(WordSet) /\ d \in Seq(WordSet) /\ Len(d) = 2
        BY <1>1, <1>4
      <4> QED
        BY <4>1, AfterIt
    <3> QED
      BY <1>2, <3>1
  <2> QED
    BY <1>4, <2>1
<1>6. /\ s[1] = Command("Clock", 1) /\ s[2] = Data("crystal")
      /\ s[3] = Command("PLL", 1)   /\ s[4] = Data("reset")
      /\ s[5] = Command("PLL", 1)   /\ s[6] = Data("running")
      /\ s[7] = Command("Clock", 1) /\ s[8] = Data("pll")
  BY <1>1, <1>3, <1>4, <1>5
<1> QED
  BY <1>5, <1>6 DEF s

\* The order of the clock settings themselves.
LEMMA ClocksWellFormed == WellFormed(Clocks)
<1> DEFINE s == Clocks
           f == [i \in 0..8 |-> i % 2]
<1>1. s \in Seq(WordSet) /\ Len(s) = 8
  BY ClocksWords
<1>2. /\ s[1] = Command("Clock", 1) /\ s[2] = Data("crystal")
      /\ s[3] = Command("PLL", 1)   /\ s[4] = Data("reset")
      /\ s[5] = Command("PLL", 1)   /\ s[6] = Data("running")
      /\ s[7] = Command("Clock", 1) /\ s[8] = Data("pll")
  BY ClocksWords
<1> HIDE DEF s
<1>3. \A i \in 1..8 : i \in {1, 2, 3, 4, 5, 6, 7, 8}
  OBVIOUS
<1>4. IsFraming(s, f)
  <2>1. /\ f \in [0..8 -> Nat]
        /\ f[0] = 0 /\ f[1] = 1 /\ f[2] = 0 /\ f[3] = 1 /\ f[4] = 0
        /\ f[5] = 1 /\ f[6] = 0 /\ f[7] = 1 /\ f[8] = 0
    OBVIOUS
  <2> HIDE DEF f
  <2> QED
    BY <1>1, <1>2, <1>3, <2>1 DEF IsFraming, Command, Data
<1>5. SettingsNamed(s)
  BY <1>1, <1>2, <1>3 DEF SettingsNamed, Command, Data, PLLNames
<1>6. ClockOrder(s)
  <2>1. ASSUME NEW i \in 1..7
        PROVE  /\ s[i].name = "Clock" /\ s[i + 1].name = "pll" =>
                    i > 2 /\ s[i - 2].name = "PLL" /\ s[i - 1].name = "running"
               /\ s[i].name = "PLL" /\ s[i + 1].name # "running" =>
                    i > 2 /\ s[i - 2].name = "Clock" /\ s[i - 1].name = "crystal"
    <3>1. i \in {1, 2, 3, 4, 5, 6, 7}
      OBVIOUS
    <3> QED
      BY <1>2, <3>1 DEF Command, Data
  <2> QED
    BY SMTT(30), <1>1, <2>1 DEF ClockOrder
<1>7. WellFormed(s)
  <2> HIDE DEF f
  <2> QED
    BY <1>1, <1>4, <1>5, <1>6 DEF WellFormed
<1> QED
  BY <1>7 DEF s

-----------------------------------------------------------------------------
(***************************************************************************)
(* The sections.                                                           *)
(***************************************************************************)

LEMMA PlainSectionsWellFormed ==
  /\ WellFormed(AdcWay) /\ WellFormed(SSIControl) /\ WellFormed(Codec)
  /\ WellFormed(GPIO) /\ WellFormed(Algorithm) /\ WellFormed(Intensities)
  /\ WellFormed(HWP) /\ WellFormed(GenericWrites)
<1>1. WellFormed(SSIControl)
  BY LoadWellFormed DEF SSIControl, CommandNames, PLLNames
<1>2. WellFormed(Algorithm) /\ WellFormed(Intensities)
  BY SettingsWellFormed DEF Algorithm, Intensities
<1>3. WellFormed(AdcWay) /\ WellFormed(Codec) /\ WellFormed(GPIO) /\ WellFormed(HWP)
  BY RegistersWellFormed DEF AdcWay, Codec, GPIO, HWP
<1>4. WellFormed(GenericWrites)
  BY RegistersWellFormed, TableAssumption DEF GenericWrites
<1> QED
  BY <1>1, <1>2, <1>3, <1>4

LEMMA SetupStartWellFormed == WellFormed(SetupStart)
<1>1. WellFormed(<< Command("SetupStart", 0) >>)
  BY CommandWellFormed DEF CommandNames, PLLNames
<1>2. WellFormed(Settings(1))
  BY SettingsWellFormed
<1> QED
  BY <1>1, <1>2, WellFormedConcat DEF SetupStart

LEMMA MixerGainsWellFormed == WellFormed(MixerGains)
<1>1. WellFormed(Load("MixerGains", 17))
  BY LoadWellFormed DEF CommandNames, PLLNames
<1>2. WellFormed(Settings(1))
  BY SettingsWellFormed
<1> QED
  BY <1>1, <1>2, WellFormedConcat DEF MixerGains

LEMMA SubEQWellFormed == WellFormed(SubEQ)
<1> DEFINE a == Settings(1) \o Registers(7)
           b == a \o Settings(2)
           c == b \o Registers(7)
<1>1. WellFormed(Settings(1)) /\ WellFormed(Settings(2)) /\ WellFormed(Registers(7))
  BY SettingsWellFormed, RegistersWellFormed
<1>2. WellFormed(a)
  BY <1>1, WellFormedConcat
<1>3. WellFormed(b)
  <2> HIDE DEF a
  <2> QED
    BY <1>1, <1>2, WellFormedConcat
<1>4. WellFormed(c)
  <2> HIDE DEF b
  <2> QED
    BY <1>1, <1>3, WellFormedConcat
<1>5. WellFormed(c \o Settings(1))
  <2> HIDE DEF c
  <2> QED
    BY <1>1, <1>4, WellFormedConcat
<1> QED
  BY <1>5 DEF SubEQ

LEMMA PEQsWellFormed == WellFormed(PEQs)
<1> DEFINE two   == PEQ \o PEQ
           three == two \o PEQ
           four  == three \o PEQ
           five  == four \o PEQ
           six   == five \o PEQ
           seven == six \o PEQ
           eight == seven \o PEQ
           nine  == eight \o PEQ
<1>1. WellFormed(PEQ)
  <2>1. WellFormed(Load("PEQ", 5))
    BY LoadWellFormed DEF CommandNames, PLLNames
  <2>2. WellFormed(Settings(1))
    BY SettingsWellFormed
  <2> QED
    BY <2>1, <2>2, WellFormedConcat DEF PEQ
<1>2. PEQs = nine \o PEQ
  BY DEF PEQs
<1>3. ASSUME NEW s, WellFormed(s)
      PROVE  WellFormed(s \o PEQ)
  BY <1>1, <1>3, WellFormedConcat
<1>4. WellFormed(two) /\ WellFormed(three) /\ WellFormed(four)
  BY <1>1, <1>3
<1> HIDE DEF four
<1>5. WellFormed(five) /\ WellFormed(six) /\ WellFormed(seven)
  BY <1>3, <1>4
<1> HIDE DEF seven
<1>6. WellFormed(eight) /\ WellFormed(nine) /\ WellFormed(nine \o PEQ)
  BY <1>3, <1>5
<1> QED
  BY <1>2, <1>6

LEMMA PatchWellFormed == WellFormed(Patch)
<1>1. WellFormed(Load("Patch", PatchWords))
  BY LoadWellFormed, TableAssumption DEF CommandNames, PLLNames
<1>2. WellFormed(Settings(1))
  BY SettingsWellFormed
<1> QED
  BY <1>1, <1>2, WellFormedConcat DEF Patch

LEMMA SetupEndWellFormed == WellFormed(SetupEnd)
<1>1. WellFormed(<< Command("SetupCompleted", 0) >>)
  BY CommandWellFormed DEF CommandNames, PLLNames
<1>2. WellFormed(Settings(5))
  BY SettingsWellFormed
<1>3. WellFormed(<< Command("SetupCompleted", 0) >> \o Settings(5))
  BY <1>1, <1>2, WellFormedConcat
<1> QED
  BY <1>1, <1>3, WellFormedConcat DEF SetupEnd

-----------------------------------------------------------------------------
(***************************************************************************)
(* The tables.                                                             *)
(***************************************************************************)
Whole(s) == WellFormed(s) /\ Len(s) > 0

LEMMA WholeConcat ==
  ASSUME NEW s, NEW u, Whole(s), WellFormed(u)
  PROVE  Whole(s \o u)
<1>1. WellFormed(s \o u)
  BY WellFormedConcat DEF Whole
<1>2. Len(s) \in Nat /\ Len(u) \in Nat /\ Len(s \o u) = Len(s) + Len(u)
  BY ConcatProperties, LenProperties DEF WellFormed, Whole
<1> QED
  BY <1>1, <1>2 DEF Whole

LEMMA ThreeMore ==
  ASSUME NEW s, NEW a, NEW b, NEW c,
         Whole(s), WellFormed(a), WellFormed(b), WellFormed(c)
  PROVE  Whole(((s \o a) \o b) \o c)
<1>1. Whole(s \o a)
  BY WholeConcat
<1>2. Whole((s \o a) \o b)
  BY <1>1, WholeConcat
<1> QED
  BY <1>2, WholeConcat

LEMMA SettingsWhole ==
  ASSUME NEW n \in Nat \ {0}
  PROVE  Whole(Settings(n))
<1>1. Settings(n) \in [1..n -> WordSet]
  BY WordsInSet DEF Settings, CommandNames
<1>2. Len(Settings(n)) = n
  BY <1>1, FunctionIsSequence
<1> QED
  BY <1>2, SettingsWellFormed DEF Whole

\* Every table the code names is a sequence of whole commands, with the clock
\* settings in order.
THEOREM TablesWellFormed == \A t \in Tables : Whole(Words[t])
<1>1. Whole(AdcWay)
  <2>1. Len(AdcWay) = 8
    <3>1. AdcWay \in [1..8 -> WordSet]
      BY WordsInSet DEF AdcWay, Registers, CommandNames, Values
    <3> QED
      BY <3>1, FunctionIsSequence
  <2> QED
    BY <2>1, PlainSectionsWellFormed DEF Whole
<1>2. Whole(SetupStart)
  <2>1. WellFormed(<< Command("SetupStart", 0) >>)
    BY CommandWellFormed DEF CommandNames, PLLNames
  <2>2. Len(<< Command("SetupStart", 0) >>) = 1
    OBVIOUS
  <2>3. Whole(<< Command("SetupStart", 0) >>)
    BY <2>1, <2>2 DEF Whole
  <2> QED
    BY <2>3, WholeConcat, SettingsWellFormed DEF SetupStart
<1>3. Whole(Algorithm) /\ Whole(Settings(22)) /\ WellFormed(Settings(13))
  BY SettingsWhole, SettingsWellFormed DEF Algorithm
<1>4. Whole(Patch)
  <2>1. WellFormed(Load("Patch", PatchWords))
    BY LoadWellFormed, TableAssumption DEF CommandNames, PLLNames
  <2>2. Whole(Settings(1))
    BY SettingsWhole
  <2> QED
    BY <2>1, <2>2, WholeConcat DEF Patch
<1> DEFINE init == SetupStart \o MixerGains \o SSIControl \o Clocks
           alg  == init \o Codec \o SubEQ \o GPIO
           eq   == alg \o Algorithm \o PEQs \o Intensities
           full == eq \o HWP \o Patch \o GenericWrites
<1>5. Whole(init)
  BY <1>2, ThreeMore, MixerGainsWellFormed, PlainSectionsWellFormed, ClocksWellFormed
<1> HIDE DEF init
<1>6. Whole(alg)
  BY <1>5, ThreeMore, SubEQWellFormed, PlainSectionsWellFormed
<1>7. Whole(MaxxAudio_Cmd_FULL_Init)
  BY <1>6 DEF MaxxAudio_Cmd_FULL_Init, init
<1> HIDE DEF alg
<1>8. Whole(eq)
  BY <1>6, ThreeMore, PEQsWellFormed, PlainSectionsWellFormed
<1> HIDE DEF eq
<1>9. Whole(full)
  BY <1>8, ThreeMore, PatchWellFormed, PlainSectionsWellFormed
<1>10. Whole(MaxxAudio_Cmd_music1_FULL)
  <2>1. MaxxAudio_Cmd_music1_FULL = full \o SetupEnd
    BY DEF MaxxAudio_Cmd_music1_FULL, init, alg, eq
  <2> HIDE DEF full
  <2> QED
    BY <1>9, <2>1, WholeConcat, SetupEndWellFormed
<1>11. Whole(MaxxAudio_Cmd_movie_FULL)
  BY <1>3, <1>10, WholeConcat DEF MaxxAudio_Cmd_movie_FULL
<1>12. Whole(MaxxAudio_Cmd_FULL_Alg)
  BY <1>3, ThreeMore, PEQsWellFormed, PlainSectionsWellFormed DEF MaxxAudio_Cmd_FULL_Alg
<1>13. Whole(MaxxAudio_Cmd_FULL_Patch)
  <2>1. Whole(Patch \o GenericWrites)
    BY <1>4, WholeConcat, PlainSectionsWellFormed
  <2> QED
    BY <2>1, WholeConcat, SetupEndWellFormed DEF MaxxAudio_Cmd_FULL_Patch
<1>14. ASSUME NEW t \in Tables
       PROVE  Words[t] \in {AdcWay, MaxxAudio_Cmd_FULL_Init, MaxxAudio_Cmd_FULL_Alg,
                            MaxxAudio_Cmd_FULL_Patch, MaxxAudio_Cmd_music1_FULL,
                            MaxxAudio_Cmd_movie_FULL}
  BY DEF Words, Tables, AdcWays
<1> QED
  BY <1>1, <1>7, <1>10, <1>11, <1>12, <1>13, <1>14


-----------------------------------------------------------------------------
(***************************************************************************)
(* What the tables of a start-up hold, and where.                          *)
(***************************************************************************)
NamesIn(s) == {s[i].name : i \in 1..Len(s)}

\* The command at i announces data.
GivesAt(s, i) == s[i].kind = "command" /\ s[i].data > 0

\* The names of the commands of s that come with data.
Given(s) == {s[i].name : i \in {k \in 1..Len(s) : GivesAt(s, k)}}

\* The last clock setting of s is at j, and takes the clock from the PLL.
ClockAt(s, j) ==
  /\ j \in 1..Len(s) - 1
  /\ s[j].name = "Clock" /\ s[j + 1].name = "pll"
  /\ \A i \in j + 1..Len(s) : s[i].name # "Clock"

\* The set-up is completed at q and not started again.
CompletedAt(s, q) ==
  /\ q \in 1..Len(s)
  /\ s[q].kind = "command" /\ s[q].name = "SetupCompleted"
  /\ \A i \in q + 1..Len(s) : s[i].name # "SetupStart"

LEMMA ConcatFacts ==
  ASSUME NEW s \in Seq(WordSet), NEW u \in Seq(WordSet)
  PROVE  /\ s \o u \in Seq(WordSet)
         /\ Len(s) \in Nat /\ Len(u) \in Nat
         /\ Len(s \o u) = Len(s) + Len(u)
         /\ \A i \in 1..Len(s) : i \in 1..Len(s \o u) /\ (s \o u)[i] = s[i]
         /\ \A i \in 1..Len(u) :
              Len(s) + i \in 1..Len(s \o u) /\ (s \o u)[Len(s) + i] = u[i]
         /\ \A i \in 1..Len(s \o u) :
              i \in 1..Len(s) \/ (i - Len(s) \in 1..Len(u) /\ i = Len(s) + (i - Len(s)))
<1> DEFINE m == Len(s)
           n == Len(u)
           w == s \o u
<1>1. m \in Nat /\ n \in Nat
  BY LenProperties
<1>2. /\ w \in Seq(WordSet) /\ Len(w) = m + n
      /\ \A i \in 1..m + n : w[i] = IF i <= m THEN s[i] ELSE u[i - m]
  BY ConcatProperties
<1> HIDE DEF m, n, w
<1>3. \A i \in 1..m : i \in 1..Len(w) /\ w[i] = s[i]
  BY <1>1, <1>2
<1>4. ASSUME NEW i \in 1..n
      PROVE  m + i \in 1..Len(w) /\ w[m + i] = u[i]
  <2>1. m + i \in 1..m + n /\ ~(m + i <= m) /\ (m + i) - m = i
    BY <1>1
  <2> QED
    BY <1>2, <2>1
<1>5. \A i \in 1..Len(w) : i \in 1..m \/ (i - m \in 1..n /\ i = m + (i - m))
  BY <1>1, <1>2
<1> QED
  BY <1>1, <1>2, <1>3, <1>4, <1>5 DEF m, n, w

LEMMA NamesConcat ==
  ASSUME NEW s \in Seq(WordSet), NEW u \in Seq(WordSet)
  PROVE  /\ NamesIn(s \o u) = NamesIn(s) \cup NamesIn(u)
         /\ Given(s) \cup Given(u) \subseteq Given(s \o u)
<1> DEFINE w == s \o u
<1>1. /\ \A i \in 1..Len(s) : i \in 1..Len(w) /\ w[i] = s[i]
      /\ \A i \in 1..Len(u) : Len(s) + i \in 1..Len(w) /\ w[Len(s) + i] = u[i]
      /\ \A i \in 1..Len(w) :
           i \in 1..Len(s) \/ (i - Len(s) \in 1..Len(u) /\ i = Len(s) + (i - Len(s)))
  BY ConcatFacts
<1> HIDE DEF w
<1>2. NamesIn(w) \subseteq NamesIn(s) \cup NamesIn(u)
  <2>1. ASSUME NEW i \in 1..Len(w)
        PROVE  w[i].name \in NamesIn(s) \cup NamesIn(u)
    <3>1. CASE i \in 1..Len(s)
      <4>1. w[i] = s[i]
        BY <1>1, <3>1
      <4>2. s[i].name \in NamesIn(s)
        BY <3>1 DEF NamesIn
      <4> QED
        BY <4>1, <4>2
    <3>2. CASE i - Len(s) \in 1..Len(u) /\ i = Len(s) + (i - Len(s))
      <4> DEFINE k == i - Len(s)
      <4>1. w[Len(s) + k] = u[k] /\ i = Len(s) + k /\ k \in 1..Len(u)
        BY <1>1, <3>2
      <4> HIDE DEF k
      <4>2. u[k].name \in NamesIn(u) /\ w[i] = u[k]
        BY <4>1 DEF NamesIn
      <4> QED
        BY <4>2
    <3> QED
      BY <1>1, <3>1, <3>2
  <2> QED
    BY <2>1 DEF NamesIn
<1>3. ASSUME NEW i \in 1..Len(s)
      PROVE  s[i].name \in NamesIn(w) /\ (GivesAt(s, i) => s[i].name \in Given(w))
  <2>1. i \in 1..Len(w) /\ w[i] = s[i]
    BY <1>1
  <2>2. w[i].name \in NamesIn(w) /\ (GivesAt(w, i) => w[i].name \in Given(w))
    BY <2>1 DEF NamesIn, Given
  <2> QED
    BY <2>1, <2>2 DEF GivesAt
<1>4. ASSUME NEW i \in 1..Len(u)
      PROVE  u[i].name \in NamesIn(w) /\ (GivesAt(u, i) => u[i].name \in Given(w))
  <2> DEFINE k == Len(s) + i
  <2>1. k \in 1..Len(w) /\ w[k] = u[i]
    BY <1>1
  <2> HIDE DEF k
  <2>2. w[k].name \in NamesIn(w) /\ (GivesAt(w, k) => w[k].name \in Given(w))
    BY <2>1 DEF NamesIn, Given
  <2> QED
    BY <2>1, <2>2 DEF GivesAt
<1>5. /\ NamesIn(s) \subseteq NamesIn(w) /\ NamesIn(u) \subseteq NamesIn(w)
      /\ Given(s) \subseteq Given(w) /\ Given(u) \subseteq Given(w)
  BY <1>3, <1>4 DEF NamesIn, Given
<1> QED
  BY <1>2, <1>5 DEF w

LEMMA ClockConcat ==
  ASSUME NEW s \in Seq(WordSet), NEW u \in Seq(WordSet), NEW j
  PROVE  /\ ClockAt(s, j) /\ "Clock" \notin NamesIn(u) => ClockAt(s \o u, j)
         /\ ClockAt(u, j) => ClockAt(s \o u, Len(s) + j)
<1> DEFINE w == s \o u
           m == Len(s)
           n == Len(u)
<1>1. /\ m \in Nat /\ n \in Nat /\ Len(w) = m + n
      /\ \A i \in 1..m : w[i] = s[i]
      /\ \A i \in 1..n : w[m + i] = u[i]
      /\ \A i \in 1..Len(w) : i \in 1..m \/ (i - m \in 1..n /\ i = m + (i - m))
  BY ConcatFacts
<1>2. ASSUME ClockAt(s, j), "Clock" \notin NamesIn(u)
      PROVE  ClockAt(w, j)
  <2>1. /\ j \in 1..m - 1 /\ s[j].name = "Clock" /\ s[j + 1].name = "pll"
        /\ \A i \in j + 1..m : s[i].name # "Clock"
    BY <1>2 DEF ClockAt
  <2>2. \A i \in 1..n : u[i].name # "Clock"
    BY <1>2 DEF NamesIn
  <2> HIDE DEF w, m, n
  <2>3. j \in 1..m /\ j + 1 \in 1..m /\ j \in 1..Len(w) - 1
    BY <1>1, <2>1
  <2>4. ASSUME NEW i \in j + 1..Len(w)
        PROVE  w[i].name # "Clock"
    <3>1. i \in 1..Len(w)
      BY <2>1, <2>4, <1>1
    <3>2. CASE i \in 1..m
      <4>1. i \in j + 1..m
        BY <2>4, <3>2, <2>1, <1>1
      <4> QED
        BY <4>1, <3>2, <2>1, <1>1
    <3>3. CASE i - m \in 1..n /\ i = m + (i - m)
      BY <3>3, <2>2, <1>1
    <3> QED
      BY <3>1, <3>2, <3>3, <1>1
  <2> QED
    BY <2>1, <2>3, <2>4, <1>1 DEF ClockAt
<1>3. ASSUME ClockAt(u, j)
      PROVE  ClockAt(w, m + j)
  <2>1. /\ j \in 1..n - 1 /\ u[j].name = "Clock" /\ u[j + 1].name = "pll"
        /\ \A i \in j + 1..n : u[i].name # "Clock"
    BY <1>3 DEF ClockAt
  <2> HIDE DEF w, m, n
  <2>2. /\ j \in 1..n /\ j + 1 \in 1..n /\ m + j \in 1..Len(w) - 1
        /\ (m + j) + 1 = m + (j + 1)
    BY <1>1, <2>1
  <2>3. w[m + j] = u[j] /\ w[(m + j) + 1] = u[j + 1]
    <3>1. w[m + j] = u[j] /\ w[m + (j + 1)] = u[j + 1]
      BY <1>1, <2>2
    <3> QED
      BY <2>2, <3>1
  <2>4. ASSUME NEW i \in (m + j) + 1..Len(w)
        PROVE  w[i].name # "Clock"
    <3>1. i - m \in j + 1..n /\ i - m \in 1..n /\ i = m + (i - m)
      BY <1>1, <2>1, <2>4
    <3>2. w[m + (i - m)] = u[i - m]
      BY <1>1, <3>1
    <3> QED
      BY <3>1, <3>2, <2>1
  <2> QED
    BY <2>1, <2>2, <2>3, <2>4 DEF ClockAt
<1> QED
  BY <1>2, <1>3 DEF w, m

LEMMA CompletedConcat ==
  ASSUME NEW s \in Seq(WordSet), NEW u \in Seq(WordSet), NEW q
  PROVE  /\ CompletedAt(s, q) /\ "SetupStart" \notin NamesIn(u) => CompletedAt(s \o u, q)
         /\ CompletedAt(u, q) => CompletedAt(s \o u, Len(s) + q)
<1> DEFINE w == s \o u
           m == Len(s)
           n == Len(u)
<1>1. /\ m \in Nat /\ n \in Nat /\ Len(w) = m + n
      /\ \A i \in 1..m : w[i] = s[i]
      /\ \A i \in 1..n : w[m + i] = u[i]
      /\ \A i \in 1..Len(w) : i \in 1..m \/ (i - m \in 1..n /\ i = m + (i - m))
  BY ConcatFacts
<1>2. ASSUME CompletedAt(s, q), "SetupStart" \notin NamesIn(u)
      PROVE  CompletedAt(w, q)
  <2>1. /\ q \in 1..m /\ s[q].kind = "command" /\ s[q].name = "SetupCompleted"
        /\ \A i \in q + 1..m : s[i].name # "SetupStart"
    BY <1>2 DEF CompletedAt
  <2>2. \A i \in 1..n : u[i].name # "SetupStart"
    BY <1>2 DEF NamesIn
  <2> HIDE DEF w, m, n
  <2>3. ASSUME NEW i \in q + 1..Len(w)
        PROVE  w[i].name # "SetupStart"
    <3>1. i \in 1..Len(w)
      BY <2>1, <2>3, <1>1
    <3>2. CASE i \in 1..m
      <4>1. i \in q + 1..m
        BY <2>3, <3>2, <2>1, <1>1
      <4> QED
        BY <4>1, <3>2, <2>1, <1>1
    <3>3. CASE i - m \in 1..n /\ i = m + (i - m)
      BY <3>3, <2>2, <1>1
    <3> QED
      BY <3>1, <3>2, <3>3, <1>1
  <2> QED
    BY <2>1, <2>3, <1>1 DEF CompletedAt
<1>3. ASSUME CompletedAt(u, q)
      PROVE  CompletedAt(w, m + q)
  <2>1. /\ q \in 1..n /\ u[q].kind = "command" /\ u[q].name = "SetupCompleted"
        /\ \A i \in q + 1..n : u[i].name # "SetupStart"
    BY <1>3 DEF CompletedAt
  <2> HIDE DEF w, m, n
  <2>2. m + q \in 1..Len(w) /\ w[m + q] = u[q]
    BY <1>1, <2>1
  <2>3. ASSUME NEW i \in (m + q) + 1..Len(w)
        PROVE  w[i].name # "SetupStart"
    <3>1. i - m \in q + 1..n /\ i - m \in 1..n /\ i = m + (i - m)
      BY <1>1, <2>1, <2>3
    <3>2. w[m + (i - m)] = u[i - m]
      BY <1>1, <3>1
    <3> QED
      BY <3>1, <3>2, <2>1
  <2> QED
    BY <2>1, <2>2, <2>3 DEF CompletedAt
<1> QED
  BY <1>2, <1>3 DEF w, m

\* Every command or value of the sections but the clocks and the ends of the
\* set-up.
PlainNames == {"Set", "Register", "any", "MixerGains", "SSI", "PEQ", "Patch"}

LEMMA SettingsNames ==
  ASSUME NEW n \in Nat
  PROVE  Settings(n) \in Seq(WordSet) /\ NamesIn(Settings(n)) \subseteq {"Set"}
<1>1. Settings(n) \in [1..n -> WordSet]
  BY WordsInSet DEF Settings, CommandNames
<1>2. Settings(n) \in Seq(WordSet) /\ Len(Settings(n)) = n
  BY <1>1, FunctionIsSequence
<1>3. \A i \in 1..n : Settings(n)[i].name = "Set"
  BY DEF Settings, Command
<1> QED
  BY <1>2, <1>3 DEF NamesIn

LEMMA RegistersNames ==
  ASSUME NEW n \in Nat
  PROVE  /\ Registers(n) \in Seq(WordSet) /\ Len(Registers(n)) = 2 * n
         /\ NamesIn(Registers(n)) \subseteq {"Register", "any"}
         /\ n > 0 => "Register" \in Given(Registers(n))
<1> DEFINE s == Registers(n)
<1>1. /\ s \in [1..2 * n -> WordSet]
      /\ \A i \in 1..2 * n :
           s[i] = IF i % 2 = 1 THEN Command("Register", 1) ELSE Data("any")
  BY WordsInSet DEF Registers, CommandNames, Values
<1> HIDE DEF s
<1>2. s \in Seq(WordSet) /\ Len(s) = 2 * n
  BY <1>1, FunctionIsSequence
<1>3. \A i \in 1..2 * n : s[i].name \in {"Register", "any"}
  BY <1>1 DEF Command, Data
<1>4. NamesIn(s) \subseteq {"Register", "any"}
  BY <1>2, <1>3 DEF NamesIn
<1>5. ASSUME n > 0
      PROVE  "Register" \in Given(s)
  <2>1. 1 \in 1..Len(s) /\ s[1] = Command("Register", 1)
    BY <1>1, <1>2, <1>5
  <2>2. GivesAt(s, 1) /\ s[1].name = "Register"
    BY <2>1 DEF GivesAt, Command
  <2> QED
    BY <2>1, <2>2 DEF Given
<1> QED
  BY <1>2, <1>4, <1>5 DEF s

LEMMA LoadNames ==
  ASSUME NEW name \in CommandNames, NEW n \in Nat \ {0}
  PROVE  /\ Load(name, n) \in Seq(WordSet)
         /\ NamesIn(Load(name, n)) \subseteq {name, "any"}
         /\ name \in Given(Load(name, n))
<1> DEFINE s == Load(name, n)
<1>1. /\ s \in Seq(WordSet) /\ Len(s) = n + 1
      /\ s[1] = Command(name, n)
      /\ \A i \in 2..n + 1 : s[i] = Data("any")
  BY LoadWords
<1> HIDE DEF s
<1>2. s[1].name = name /\ s[1].kind = "command" /\ s[1].data = n
  BY <1>1 DEF Command
<1>3. \A i \in 1..n + 1 : s[i].name \in {name, "any"}
  BY <1>1, <1>2 DEF Data
<1>4. NamesIn(s) \subseteq {name, "any"}
  BY <1>1, <1>3 DEF NamesIn
<1>5. 1 \in 1..Len(s) /\ GivesAt(s, 1)
  BY <1>1, <1>2 DEF GivesAt
<1>6. name \in Given(s)
  BY <1>2, <1>5 DEF Given
<1> QED
  BY <1>1, <1>4, <1>6 DEF s

LEMMA CommandNamed ==
  ASSUME NEW name \in CommandNames
  PROVE  LET s == << Command(name, 0) >> IN
           /\ s \in Seq(WordSet) /\ NamesIn(s) \subseteq {name}
           /\ name = "SetupCompleted" => CompletedAt(s, 1)
<1> DEFINE s == << Command(name, 0) >>
<1>1. Command(name, 0) \in WordSet
  BY WordsInSet
<1>2. s \in Seq(WordSet) /\ Len(s) = 1 /\ s[1] = Command(name, 0)
  BY <1>1
<1> HIDE DEF s
<1>3. s[1].name = name /\ s[1].kind = "command"
  BY <1>2 DEF Command
<1>4. NamesIn(s) \subseteq {name}
  BY <1>2, <1>3 DEF NamesIn
<1>5. name = "SetupCompleted" => CompletedAt(s, 1)
  BY <1>2, <1>3 DEF CompletedAt
<1> QED
  BY <1>2, <1>4, <1>5 DEF s

\* The clocks come last from the PLL.
LEMMA ClocksNames ==
  /\ NamesIn(Clocks) \subseteq {"Clock", "PLL", "crystal", "pll", "reset", "running"}
  /\ {"Clock", "PLL"} \subseteq Given(Clocks)
  /\ ClockAt(Clocks, 7)
<1> DEFINE s == Clocks
<1>1. Len(s) = 8
  BY ClocksWords
<1>2. /\ s[1] = Command("Clock", 1) /\ s[2] = Data("crystal")
      /\ s[3] = Command("PLL", 1)   /\ s[4] = Data("reset")
      /\ s[5] = Command("PLL", 1)   /\ s[6] = Data("running")
      /\ s[7] = Command("Clock", 1) /\ s[8] = Data("pll")
  BY ClocksWords
<1> HIDE DEF s
<1>3. \A i \in 1..8 : i \in {1, 2, 3, 4, 5, 6, 7, 8}
  OBVIOUS
<1>4. \A i \in 1..8 : s[i].name \in {"Clock", "PLL", "crystal", "pll", "reset", "running"}
  BY <1>2, <1>3 DEF Command, Data
<1>5. GivesAt(s, 1) /\ s[1].name = "Clock" /\ GivesAt(s, 3) /\ s[3].name = "PLL"
  BY <1>2 DEF GivesAt, Command
<1>6. "Clock" \in Given(s) /\ "PLL" \in Given(s)
  <2>1. 1 \in 1..Len(s) /\ 3 \in 1..Len(s)
    BY <1>1
  <2> QED
    BY <1>5, <2>1 DEF Given
<1>7. ClockAt(s, 7)
  <2>1. s[7].name = "Clock" /\ s[8].name = "pll"
    BY <1>2 DEF Command, Data
  <2>2. \A i \in 7 + 1..8 : i = 8
    OBVIOUS
  <2> QED
    BY <1>1, <2>1, <2>2 DEF ClockAt
<1> QED
  BY <1>1, <1>4, <1>6, <1>7 DEF NamesIn, s

\* A section that is put together from others: all names it has, and some that
\* it gives.
Section(s, names, given) ==
  s \in Seq(WordSet) /\ NamesIn(s) \subseteq names /\ given \subseteq Given(s)

LEMMA SectionConcat ==
  ASSUME NEW s, NEW u, NEW M, NEW N, NEW G, NEW H,
         Section(s, M, G), Section(u, N, H)
  PROVE  Section(s \o u, M \cup N, G \cup H)
<1>1. s \in Seq(WordSet) /\ u \in Seq(WordSet)
  BY DEF Section
<1>2. s \o u \in Seq(WordSet)
  BY <1>1, ConcatFacts
<1>3. /\ NamesIn(s \o u) = NamesIn(s) \cup NamesIn(u)
      /\ Given(s) \cup Given(u) \subseteq Given(s \o u)
  BY <1>1, NamesConcat
<1> QED
  BY <1>2, <1>3 DEF Section

\* Plain sections stay plain.
LEMMA PlainConcat ==
  ASSUME NEW s, NEW u, NEW G, NEW H,
         Section(s, PlainNames, G), Section(u, PlainNames, H)
  PROVE  Section(s \o u, PlainNames, G \cup H)
<1>1. Section(s \o u, PlainNames \cup PlainNames, G \cup H)
  BY SectionConcat
<1> QED
  BY <1>1 DEF Section

-----------------------------------------------------------------------------
(***************************************************************************)
(* A table up to the end of its set-up.                                    *)
(***************************************************************************)
BeforeEnd ==
  PlainNames \cup {"SetupStart", "Clock", "PLL", "crystal", "pll", "reset", "running"}

\* s gives these commands, and takes the clock from the PLL in the end.
Configuring(s, given) == Section(s, BeforeEnd, given) /\ \E j : ClockAt(s, j)

\* The first m words of s give these commands and take the clock from the PLL
\* for good; the set-up is not completed by then.
ConfiguredBefore(s, m, given) ==
  /\ m \in 1..Len(s)
  /\ \A i \in 1..m : s[i].name # "SetupCompleted"
  /\ \A name \in given : \E i \in 1..m : GivesAt(s, i) /\ s[i].name = name
  /\ \E j \in 1..m - 1 : ClockAt(s, j)

LEMMA ConfiguringConcat ==
  ASSUME NEW s, NEW u, NEW G, NEW H, Configuring(s, G), Section(u, PlainNames, H)
  PROVE  Configuring(s \o u, G \cup H)
<1>1. Section(s \o u, BeforeEnd \cup PlainNames, G \cup H)
  BY SectionConcat DEF Configuring
<1>2. Section(s \o u, BeforeEnd, G \cup H)
  BY <1>1 DEF Section, BeforeEnd
<1>3. PICK j : ClockAt(s, j)
  BY DEF Configuring
<1>4. s \in Seq(WordSet) /\ u \in Seq(WordSet) /\ "Clock" \notin NamesIn(u)
  BY DEF Configuring, Section, PlainNames
<1>5. ClockAt(s \o u, j)
  BY <1>3, <1>4, ClockConcat
<1> QED
  BY <1>2, <1>5 DEF Configuring

LEMMA ConfiguringThenEnd ==
  ASSUME NEW s, NEW u \in Seq(WordSet), NEW G, Configuring(s, G), "Clock" \notin NamesIn(u)
  PROVE  ConfiguredBefore(s \o u, Len(s), G)
<1> DEFINE w == s \o u
           m == Len(s)
<1>1. s \in Seq(WordSet) /\ NamesIn(s) \subseteq BeforeEnd /\ G \subseteq Given(s)
  BY DEF Configuring, Section
<1>2. PICK j : ClockAt(s, j)
  BY DEF Configuring
<1>3. m \in Nat /\ \A i \in 1..m : i \in 1..Len(w) /\ w[i] = s[i]
  BY <1>1, ConcatFacts
<1>4. ClockAt(w, j)
  BY <1>1, <1>2, ClockConcat
<1>5. j \in 1..m - 1
  BY <1>2 DEF ClockAt
<1>6. \A i \in 1..m : s[i].name \in BeforeEnd
  BY <1>1 DEF NamesIn
<1>7. ASSUME NEW name \in G
      PROVE  \E i \in 1..m : GivesAt(s, i) /\ s[i].name = name
  BY <1>1 DEF Given
<1> HIDE DEF w, m
<1>8. m \in 1..Len(w)
  BY <1>3, <1>5
<1>9. \A i \in 1..m : w[i].name # "SetupCompleted"
  BY <1>3, <1>6 DEF BeforeEnd, PlainNames
<1>10. \A name \in G : \E i \in 1..m : GivesAt(w, i) /\ w[i].name = name
  BY <1>3, <1>7 DEF GivesAt
<1>11. ConfiguredBefore(w, m, G)
  BY <1>4, <1>5, <1>8, <1>9, <1>10 DEF ConfiguredBefore
<1> QED
  BY <1>11 DEF w, m

LEMMA ConfiguredConcat ==
  ASSUME NEW s \in Seq(WordSet), NEW u \in Seq(WordSet), NEW G, NEW m,
         ConfiguredBefore(s, m, G), "Clock" \notin NamesIn(u)
  PROVE  ConfiguredBefore(s \o u, m, G)
<1> DEFINE w == s \o u
<1>1. /\ Len(s) \in Nat /\ Len(u) \in Nat /\ Len(w) = Len(s) + Len(u)
      /\ \A i \in 1..Len(s) : i \in 1..Len(w) /\ w[i] = s[i]
  BY ConcatFacts
<1>2. PICK j \in 1..m - 1 : ClockAt(s, j)
  BY DEF ConfiguredBefore
<1>3. ClockAt(w, j)
  BY <1>2, ClockConcat
<1> HIDE DEF w
<1>4. /\ m \in 1..Len(s)
      /\ \A i \in 1..m : s[i].name # "SetupCompleted"
      /\ \A name \in G : \E i \in 1..m : GivesAt(s, i) /\ s[i].name = name
  BY DEF ConfiguredBefore
<1>5. m \in 1..Len(w) /\ \A i \in 1..m : w[i] = s[i]
  BY <1>1, <1>4
<1>6. ConfiguredBefore(w, m, G)
  BY <1>2, <1>3, <1>4, <1>5 DEF ConfiguredBefore, GivesAt
<1> QED
  BY <1>6 DEF w

-----------------------------------------------------------------------------
(***************************************************************************)
(* The sections of the start-up tables.                                    *)
(***************************************************************************)
LEMMA PlainSections ==
  /\ Section(MixerGains, PlainNames, {"MixerGains"})
  /\ Section(SSIControl, PlainNames, {"SSI"})
  /\ Section(Codec, PlainNames, {"Register"})
  /\ Section(SubEQ, PlainNames, {})
  /\ Section(GPIO, PlainNames, {})
  /\ Section(Algorithm, PlainNames, {})
  /\ Section(Settings(22), PlainNames, {})
  /\ Section(PEQs, PlainNames, {"PEQ"})
  /\ Section(Intensities, PlainNames, {})
  /\ Section(HWP, PlainNames, {})
  /\ Section(Patch, PlainNames, {"Patch"})
  /\ Section(GenericWrites, PlainNames, {})
<1>1. \A n \in Nat : Section(Settings(n), PlainNames, {})
  BY SettingsNames DEF Section, PlainNames
<1>2. \A n \in Nat : Section(Registers(n), PlainNames, {})
  BY RegistersNames DEF Section, PlainNames
<1>3. \A name \in CommandNames \cap PlainNames, n \in Nat \ {0} :
        Section(Load(name, n), PlainNames, {name})
  BY LoadNames DEF Section, PlainNames
<1>4. Section(MixerGains, PlainNames, {"MixerGains"})
  <2>1. Section(Load("MixerGains", 17), PlainNames, {"MixerGains"})
    BY <1>3 DEF CommandNames, PlainNames
  <2>2. Section(MixerGains, PlainNames, {"MixerGains"} \cup {})
    BY <2>1, <1>1, PlainConcat DEF MixerGains
  <2> QED
    BY <2>2 DEF Section
<1>5. Section(SSIControl, PlainNames, {"SSI"})
  BY <1>3 DEF SSIControl, CommandNames, PlainNames
<1>6. Section(Codec, PlainNames, {"Register"})
  BY RegistersNames DEF Section, PlainNames, Codec
<1>7. Section(SubEQ, PlainNames, {})
  <2>1. ASSUME NEW s, NEW u, Section(s, PlainNames, {}), Section(u, PlainNames, {})
        PROVE  Section(s \o u, PlainNames, {})
    <3>1. Section(s \o u, PlainNames, {} \cup {})
      BY <2>1, PlainConcat
    <3> QED
      BY <3>1 DEF Section
  <2>2. Section(Settings(1) \o Registers(7), PlainNames, {})
    BY <1>1, <1>2, <2>1
  <2>3. Section((Settings(1) \o Registers(7)) \o Settings(2), PlainNames, {})
    BY <1>1, <2>1, <2>2
  <2>4. Section(((Settings(1) \o Registers(7)) \o Settings(2)) \o Registers(7), PlainNames, {})
    BY <1>2, <2>1, <2>3
  <2> QED
    BY <1>1, <2>1, <2>4 DEF SubEQ
<1>8. Section(PEQs, PlainNames, {"PEQ"})
  <2> DEFINE two   == PEQ \o PEQ
             three == two \o PEQ
             four  == three \o PEQ
             five  == four \o PEQ
             six   == five \o PEQ
             seven == six \o PEQ
             eight == seven \o PEQ
             nine  == eight \o PEQ
  <2>1. Section(PEQ, PlainNames, {"PEQ"})
    <3>1. Section(Load("PEQ", 5), PlainNames, {"PEQ"})
      BY <1>3 DEF CommandNames, PlainNames
    <3>2. Section(PEQ, PlainNames, {"PEQ"} \cup {})
      BY <3>1, <1>1, PlainConcat DEF PEQ
    <3> QED
      BY <3>2 DEF Section
  <2>2. ASSUME NEW s, Section(s, PlainNames, {"PEQ"})
        PROVE  Section(s \o PEQ, PlainNames, {"PEQ"})
    <3>1. Section(s \o PEQ, PlainNames, {"PEQ"} \cup {"PEQ"})
      BY <2>1, <2>2, PlainConcat
    <3> QED
      BY <3>1 DEF Section
  <2>3. PEQs = nine \o PEQ
    BY DEF PEQs
  <2>4. Section(two, PlainNames, {"PEQ"}) /\ Section(three, PlainNames, {"PEQ"})
    BY <2>1, <2>2
  <2> HIDE DEF three
  <2>5. Section(four, PlainNames, {"PEQ"}) /\ Section(five, PlainNames, {"PEQ"})
    BY <2>2, <2>4
  <2> HIDE DEF five
  <2>6. Section(six, PlainNames, {"PEQ"}) /\ Section(seven, PlainNames, {"PEQ"})
    BY <2>2, <2>5
  <2> HIDE DEF seven
  <2>7. Section(eight, PlainNames, {"PEQ"}) /\ Section(nine, PlainNames, {"PEQ"})
    BY <2>2, <2>6
  <2> HIDE DEF nine
  <2> QED
    BY <2>2, <2>3, <2>7
<1>9. Section(Patch, PlainNames, {"Patch"})
  <2>1. Section(Load("Patch", PatchWords), PlainNames, {"Patch"})
    BY <1>3, TableAssumption DEF CommandNames, PlainNames
  <2>2. Section(Patch, PlainNames, {} \cup {"Patch"})
    BY <2>1, <1>1, PlainConcat DEF Patch
  <2> QED
    BY <2>2 DEF Section
<1>10. /\ Section(GPIO, PlainNames, {}) /\ Section(HWP, PlainNames, {})
       /\ Section(GenericWrites, PlainNames, {})
  BY <1>2, TableAssumption DEF GPIO, HWP, GenericWrites
<1>11. /\ Section(Algorithm, PlainNames, {}) /\ Section(Settings(22), PlainNames, {})
       /\ Section(Intensities, PlainNames, {})
  BY <1>1 DEF Algorithm, Intensities
<1> QED
  BY <1>4, <1>5, <1>6, <1>7, <1>8, <1>9, <1>10, <1>11

LEMMA SetupEndNames ==
  /\ SetupEnd \in Seq(WordSet)
  /\ NamesIn(SetupEnd) \subseteq {"SetupCompleted", "Set"}
  /\ \E q : CompletedAt(SetupEnd, q)
<1> DEFINE c == << Command("SetupCompleted", 0) >>
<1>1. c \in Seq(WordSet) /\ NamesIn(c) \subseteq {"SetupCompleted"} /\ CompletedAt(c, 1)
  BY CommandNamed DEF CommandNames
<1>2. SetupEnd = (c \o Settings(5)) \o c
  BY DEF SetupEnd
<1> HIDE DEF c
<1>3. Settings(5) \in Seq(WordSet) /\ NamesIn(Settings(5)) \subseteq {"Set"}
  BY SettingsNames
<1>4. /\ c \o Settings(5) \in Seq(WordSet)
      /\ NamesIn(c \o Settings(5)) \subseteq {"SetupCompleted", "Set"}
  BY <1>1, <1>3, ConcatFacts, NamesConcat
<1> DEFINE s == c \o Settings(5)
<1> HIDE DEF s
<1>5. s \o c \in Seq(WordSet) /\ NamesIn(s \o c) = NamesIn(s) \cup NamesIn(c)
  BY <1>1, <1>4, ConcatFacts, NamesConcat DEF s
<1>6. CompletedAt(s \o c, Len(s) + 1)
  BY <1>1, <1>4, CompletedConcat DEF s
<1>7. SetupEnd = s \o c
  BY <1>2 DEF s
<1>8. NamesIn(SetupEnd) \subseteq {"SetupCompleted", "Set"}
  BY <1>1, <1>4, <1>5, <1>7 DEF s
<1> QED
  BY <1>5, <1>6, <1>7, <1>8

-----------------------------------------------------------------------------
(***************************************************************************)
(* The tables once more.                                                   *)
(***************************************************************************)
AllGiven == {"MixerGains", "SSI", "Clock", "PLL", "Register", "PEQ", "Patch"}

LEMMA MoreGiven ==
  ASSUME NEW s, NEW G, NEW H, Configuring(s, G), H \subseteq G
  PROVE  Configuring(s, H)
BY DEF Configuring, Section

\* The part that all start-ups begin with.
LEMMA InitPart ==
  Configuring(MaxxAudio_Cmd_FULL_Init, {"MixerGains", "SSI", "Clock", "PLL", "Register"})
<1> DEFINE c    == << Command("SetupStart", 0) >>
           head == (SetupStart \o MixerGains) \o SSIControl
           init == head \o Clocks
           a    == init \o Codec
           b    == a \o SubEQ
           G    == {"MixerGains", "SSI", "Clock", "PLL"}
<1>1. Section(SetupStart, PlainNames \cup {"SetupStart"}, {})
  <2>1. c \in Seq(WordSet) /\ NamesIn(c) \subseteq {"SetupStart"}
    BY CommandNamed DEF CommandNames
  <2>2. Settings(1) \in Seq(WordSet) /\ NamesIn(Settings(1)) \subseteq {"Set"}
    BY SettingsNames
  <2> HIDE DEF c
  <2>3. /\ c \o Settings(1) \in Seq(WordSet)
        /\ NamesIn(c \o Settings(1)) = NamesIn(c) \cup NamesIn(Settings(1))
    BY <2>1, <2>2, ConcatFacts, NamesConcat
  <2>4. SetupStart = c \o Settings(1)
    BY DEF SetupStart, c
  <2> QED
    BY <2>1, <2>2, <2>3, <2>4 DEF Section, PlainNames
<1>2. Section(SetupStart \o MixerGains, (PlainNames \cup {"SetupStart"}) \cup PlainNames,
              {} \cup {"MixerGains"})
  BY <1>1, PlainSections, SectionConcat
<1>3. Section(head, ((PlainNames \cup {"SetupStart"}) \cup PlainNames) \cup PlainNames,
              ({} \cup {"MixerGains"}) \cup {"SSI"})
  BY <1>2, PlainSections, SectionConcat
<1>4. head \in Seq(WordSet) /\ Clocks \in Seq(WordSet)
  BY <1>3, ClocksWords DEF Section
<1> HIDE DEF head
<1>5. Section(init, BeforeEnd, G)
  <2>1. /\ init \in Seq(WordSet)
        /\ NamesIn(init) = NamesIn(head) \cup NamesIn(Clocks)
        /\ Given(head) \cup Given(Clocks) \subseteq Given(init)
    BY <1>4, ConcatFacts, NamesConcat
  <2>2. /\ NamesIn(head) \subseteq PlainNames \cup {"SetupStart"}
        /\ {"MixerGains", "SSI"} \subseteq Given(head)
    BY <1>3 DEF Section
  <2> HIDE DEF init
  <2> QED
    BY <2>1, <2>2, ClocksNames DEF Section, BeforeEnd
<1>6. ClockAt(init, Len(head) + 7)
  BY <1>4, ClocksNames, ClockConcat
<1>7. Configuring(init, G)
  BY <1>5, <1>6 DEF Configuring
<1> HIDE DEF init, G
<1>8. Configuring(a, G \cup {"Register"})
  BY <1>7, PlainSections, ConfiguringConcat
<1>9. Configuring(b, (G \cup {"Register"}) \cup {})
  <2> HIDE DEF a
  <2> QED
    BY <1>8, PlainSections, ConfiguringConcat
<1>10. Configuring(b \o GPIO, ((G \cup {"Register"}) \cup {}) \cup {})
  <2> HIDE DEF b
  <2> QED
    BY <1>9, PlainSections, ConfiguringConcat
<1>11. MaxxAudio_Cmd_FULL_Init = b \o GPIO
  BY DEF MaxxAudio_Cmd_FULL_Init, init, head
<1>12. {"MixerGains", "SSI", "Clock", "PLL", "Register"} \subseteq ((G \cup {"Register"}) \cup {}) \cup {}
  BY DEF G
<1> QED
  BY <1>10, <1>11, <1>12, MoreGiven

LEMMA Music1Start ==
  /\ MaxxAudio_Cmd_music1_FULL \in Seq(WordSet)
  /\ \E m : ConfiguredBefore(MaxxAudio_Cmd_music1_FULL, m, AllGiven)
  /\ \E q : CompletedAt(MaxxAudio_Cmd_music1_FULL, q)
<1> DEFINE init == MaxxAudio_Cmd_FULL_Init
           a == init \o Algorithm
           b == a \o PEQs
           c == b \o Intensities
           d == c \o HWP
           e == d \o Patch
           full == e \o GenericWrites
           G == {"MixerGains", "SSI", "Clock", "PLL", "Register"}
           H == ((((((G \cup {}) \cup {"PEQ"}) \cup {}) \cup {}) \cup {"Patch"}) \cup {})
<1>1. MaxxAudio_Cmd_music1_FULL = full \o SetupEnd
  BY DEF MaxxAudio_Cmd_music1_FULL, MaxxAudio_Cmd_FULL_Init
<1>2. Configuring(init, G)
  BY InitPart
<1> HIDE DEF init, G
<1>3. Configuring(a, G \cup {})
  BY <1>2, PlainSections, ConfiguringConcat
<1> HIDE DEF a
<1>4. Configuring(b, (G \cup {}) \cup {"PEQ"})
  BY <1>3, PlainSections, ConfiguringConcat
<1> HIDE DEF b
<1>5. Configuring(c, ((G \cup {}) \cup {"PEQ"}) \cup {})
  BY <1>4, PlainSections, ConfiguringConcat
<1> HIDE DEF c
<1>6. Configuring(d, (((G \cup {}) \cup {"PEQ"}) \cup {}) \cup {})
  BY <1>5, PlainSections, ConfiguringConcat
<1> HIDE DEF d
<1>7. Configuring(e, ((((G \cup {}) \cup {"PEQ"}) \cup {}) \cup {}) \cup {"Patch"})
  BY <1>6, PlainSections, ConfiguringConcat
<1> HIDE DEF e
<1>8. Configuring(full, H)
  BY <1>7, PlainSections, ConfiguringConcat
<1>9. AllGiven \subseteq H
  BY DEF AllGiven, G
<1> HIDE DEF full, H
<1>10. Configuring(full, AllGiven)
  BY <1>8, <1>9, MoreGiven
<1>11. full \in Seq(WordSet)
  BY <1>10 DEF Configuring, Section
<1>12. full \o SetupEnd \in Seq(WordSet)
  BY <1>11, SetupEndNames, ConcatFacts
<1>13. ConfiguredBefore(full \o SetupEnd, Len(full), AllGiven)
  BY <1>10, SetupEndNames, ConfiguringThenEnd
<1>14. \E q : CompletedAt(full \o SetupEnd, q)
  BY <1>11, SetupEndNames, CompletedConcat
<1> QED
  BY <1>1, <1>12, <1>13, <1>14

\* The start-up tables that are whole: every command of the configuration
\* stands before the end of the set-up, which is there.
THEOREM WholeStartUps ==
  ASSUME NEW t \in {"music1_FULL", "movie_FULL"}
  PROVE  /\ \E m : ConfiguredBefore(Words[t], m, AllGiven)
         /\ \E q : CompletedAt(Words[t], q)
<1> DEFINE s == MaxxAudio_Cmd_music1_FULL
<1>1. CASE t = "music1_FULL"
  BY <1>1, Music1Start DEF Words, Tables, AdcWays
<1>2. CASE t = "movie_FULL"
  <2>1. Words[t] = s \o Settings(13)
    BY <1>2 DEF Words, Tables, AdcWays, MaxxAudio_Cmd_movie_FULL
  <2>2. Settings(13) \in Seq(WordSet) /\ NamesIn(Settings(13)) \subseteq {"Set"}
    BY SettingsNames
  <2>3. PICK m : ConfiguredBefore(s, m, AllGiven)
    BY Music1Start
  <2>4. PICK q : CompletedAt(s, q)
    BY Music1Start
  <2>5. s \in Seq(WordSet)
    BY Music1Start
  <2> HIDE DEF s
  <2>6. ConfiguredBefore(s \o Settings(13), m, AllGiven)
    BY <2>2, <2>3, <2>5, ConfiguredConcat
  <2>7. CompletedAt(s \o Settings(13), q)
    BY <2>2, <2>4, <2>5, CompletedConcat
  <2> QED
    BY <2>1, <2>6, <2>7
<1> QED
  BY <1>1, <1>2

\* The three parts of the other start-up: what each gives, and that the clock
\* is left alone after the first and the set-up is not started after it.
LEMMA PartStartUp ==
  /\ Configuring(Words["FULL_Init"], {"MixerGains", "SSI", "Clock", "PLL", "Register"})
  /\ Section(Words["FULL_Alg"], PlainNames, {"PEQ"})
  /\ Section(Words["FULL_Patch"], PlainNames \cup {"SetupCompleted"}, {"Patch"})
  /\ \E q : CompletedAt(Words["FULL_Patch"], q)
<1>1. Configuring(Words["FULL_Init"], {"MixerGains", "SSI", "Clock", "PLL", "Register"})
  BY InitPart DEF Words, Tables, AdcWays
<1>2. Section(Words["FULL_Alg"], PlainNames, {"PEQ"})
  <2> DEFINE a == Settings(22) \o PEQs
             b == a \o Intensities
  <2>1. Section(a, PlainNames, {} \cup {"PEQ"})
    BY PlainSections, PlainConcat
  <2> HIDE DEF a
  <2>2. Section(b, PlainNames, ({} \cup {"PEQ"}) \cup {})
    BY <2>1, PlainSections, PlainConcat
  <2> HIDE DEF b
  <2>3. Section(b \o HWP, PlainNames, (({} \cup {"PEQ"}) \cup {}) \cup {})
    BY <2>2, PlainSections, PlainConcat
  <2>4. MaxxAudio_Cmd_FULL_Alg = b \o HWP
    BY DEF MaxxAudio_Cmd_FULL_Alg, a, b
  <2>5. Words["FULL_Alg"] = MaxxAudio_Cmd_FULL_Alg
    BY DEF Words, Tables, AdcWays
  <2> QED
    BY <2>3, <2>4, <2>5 DEF Section
<1>3. /\ Section(Words["FULL_Patch"], PlainNames \cup {"SetupCompleted"}, {"Patch"})
      /\ \E q : CompletedAt(Words["FULL_Patch"], q)
  <2> DEFINE a == Patch \o GenericWrites
  <2>1. Section(a, PlainNames, {"Patch"} \cup {})
    BY PlainSections, PlainConcat
  <2>2. Words["FULL_Patch"] = a \o SetupEnd
    BY DEF Words, Tables, AdcWays, MaxxAudio_Cmd_FULL_Patch
  <2> HIDE DEF a
  <2>3. /\ a \in Seq(WordSet) /\ NamesIn(a) \subseteq PlainNames /\ "Patch" \in Given(a)
    BY <2>1 DEF Section
  <2>4. /\ a \o SetupEnd \in Seq(WordSet)
        /\ NamesIn(a \o SetupEnd) = NamesIn(a) \cup NamesIn(SetupEnd)
        /\ Given(a) \cup Given(SetupEnd) \subseteq Given(a \o SetupEnd)
    BY <2>3, SetupEndNames, ConcatFacts, NamesConcat
  <2>5. Section(a \o SetupEnd, PlainNames \cup {"SetupCompleted"}, {"Patch"})
    BY <2>3, <2>4, SetupEndNames DEF Section, PlainNames
  <2>6. \E q : CompletedAt(a \o SetupEnd, q)
    BY <2>3, SetupEndNames, CompletedConcat
  <2> QED
    BY <2>2, <2>5, <2>6
<1> QED
  BY <1>1, <1>2, <1>3

\* The switches of the converter leave clock and set-up alone.
LEMMA AdcWayPlain ==
  ASSUME NEW t \in AdcWays
  PROVE  NamesIn(Words[t]) \subseteq {"Register", "any"}
BY RegistersNames DEF Words, Tables, AdcWays, AdcWay

=============================================================================
