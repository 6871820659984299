----------------------------- MODULE MCNtp8230 -----------------------------
(***************************************************************************)
(* Instances of Ntp8230 for TLC.                                           *)
(***************************************************************************)
EXTENDS Ntp8230

CONSTANTS t1, t2

OneTask  == {t1}
TwoTasks == {t1, t2}

-----------------------------------------------------------------------------
(***************************************************************************)
(* ntp8230.h:68 puts "//0x7e,0x03" over ntp8230_drc_part0, as ntp8230.h    *)
(* does with the page of every table of coefficients: the words of a table *)
(* go to the page its comment names.                                       *)
(***************************************************************************)
TablesOnTheirPage == ~stray

=============================================================================
