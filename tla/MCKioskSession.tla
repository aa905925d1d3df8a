--------------------------- MODULE MCKioskSession ---------------------------
(* Model-checking instance of KioskSession: the configurations give its       *)
(* constants their values.                                                    *)
EXTENDS KioskSession, TLC

(* The members are alike, and so are the free places one of which Post takes; *)
(* a run without liveness looks at one of the states that differ only by them. *)
Alike == Permutations(Members) \cup Permutations(Slots)
=============================================================================
