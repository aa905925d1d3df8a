----------------------------- MODULE MCDoorLink -----------------------------
(* Model-checking instance of DoorLink: the configuration gives its constants *)
(* their values.                                                              *)
EXTENDS DoorLink
=============================================================================
