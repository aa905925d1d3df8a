-------------------------- MODULE MCDoorController --------------------------
(* Model-checking instance of DoorController: two categories, frames that     *)
(* show either, reject one, or show a rejected item before an accepted one.   *)
EXTENDS DoorController

Sees(item, confidence, passed) == [item |-> item, confidence |-> confidence, passed |-> passed]

SomeFrames == {<<>>, <<Sees("CAN", 1, TRUE)>>, <<Sees("PET", 1, TRUE)>>,
               <<Sees("CAN", 1, TRUE), Sees("PET", 2, FALSE)>>}
=============================================================================
