----------------------------- MODULE MCSendCmd -----------------------------
(***************************************************************************)
(* Instances of SendCmd for TLC.                                           *)
(***************************************************************************)
EXTENDS SendCmd

\* The program as it is.
AsCompiled == {InForce}

\* The program as it is, and as it would be with one of the other start-ups.
AnyStartUp == {InForce} \cup CommentedOut

=============================================================================
