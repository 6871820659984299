-------------------------- MODULE MCDriverLifecycle --------------------------
(***************************************************************************)
(* A property of DriverLifecycle that the messages of the drivers state.   *)
(***************************************************************************)
EXTENDS DriverLifecycle

(***************************************************************************)
(* npca110.c:593 says "fail to create npca110_class..." when its init      *)
(* fails there.  A module whose init failed does not stay loaded; one that *)
(* found its pins and stays has everything it needs.                       *)
(***************************************************************************)
LoadedIsWhole ==
  \A d \in Drivers :
    phase[d] = "loaded" /\ Configured(d) => held[d] = Resources

=============================================================================
