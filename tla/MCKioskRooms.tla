----------------------------- MODULE MCKioskRooms -----------------------------
(* Model-checking instance of KioskRooms: the configuration gives its         *)
(* constants their values.                                                    *)
EXTENDS KioskRooms
=============================================================================
