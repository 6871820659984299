--------------------------- MODULE TableTransfer ---------------------------
(***************************************************************************)
(* What a caller of Npca110_SendCmd relies on: the words of one table      *)
(* reach the chip in order and with none left out, and the transfer ends   *)
(* with the last word, or earlier, with nothing after that.                *)
(*                                                                         *)
(* Npca110 implements it once for every sender, with one step per word;    *)
(* SendCmd implements it with the attempts and the loops of the code.      *)
(***************************************************************************)
EXTENDS Naturals

CONSTANTS
  Tables,   \* the command tables
  Size      \* the number of words of each

VARIABLES
  table,    \* the table under way, or "idle"
  sent      \* the position in it of the newest word in the chip

Init == table = "idle" /\ sent = 0

Start(t) ==
  /\ table = "idle"
  /\ table' = t
  /\ UNCHANGED sent

\* The last word ends the transfer.
Word ==
  /\ table # "idle"
  /\ IF sent + 1 = Size[table]
       THEN table' = "idle" /\ sent' = 0
       ELSE sent' = sent + 1 /\ UNCHANGED table

GiveUp ==
  /\ table # "idle"
  /\ table' = "idle"
  /\ sent' = 0

Next == (\E t \in Tables : Start(t)) \/ Word \/ GiveUp

Spec == Init /\ [][Next]_<<table, sent>>

=============================================================================
