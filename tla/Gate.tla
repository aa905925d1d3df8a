-------------------------------- MODULE Gate --------------------------------
(***************************************************************************)
(* What the MCU promises of its gate to the other end of the UART: one     *)
(* line at a time, every recycle class opens it, it closes again at its    *)
(* own time, and a change that lasts is reported once.  When and why it    *)
(* closes, and how the servos turn, is McuDoor's business: McuDoor         *)
(* implements this module.                                                 *)
(***************************************************************************)
CONSTANT Types    \* the recycle classes

VARIABLES
  rx,         \* the line mailbox: a class to open for, another line, or nothing
  gate,       \* OPEN or CLOSED
  openType,   \* the class the gate is open for
  prev        \* the state last reported

vars == <<rx, gate, openType, prev>>
Lines == Types \cup {"CLOSE", "OTHER"}

Init == rx = "EMPTY" /\ gate = "CLOSED" /\ openType = "NONE" /\ prev = "CLOSED"

Receive(line) ==
  /\ rx = "EMPTY"
  /\ rx' = line
  /\ UNCHANGED <<gate, openType, prev>>

Open ==
  /\ rx \in Types
  /\ rx' = "EMPTY"
  /\ gate' = "OPEN"
  /\ openType' = rx
  /\ UNCHANGED prev

(* A CLOSE is a request only, any other line is none of the gate's. *)
Skip ==
  /\ rx \in {"CLOSE", "OTHER"}
  /\ rx' = "EMPTY"
  /\ UNCHANGED <<gate, openType, prev>>

Close ==
  /\ gate = "OPEN"
  /\ gate' = "CLOSED"
  /\ openType' = "NONE"
  /\ UNCHANGED <<rx, prev>>

(* Mutant of Report: the reported state is not remembered. *)
ReportAgain ==
  /\ prev # gate
  /\ UNCHANGED vars

Report ==
  /\ prev # gate
  /\ prev' = gate
  /\ UNCHANGED <<rx, gate, openType>>

Next == (\E line \in Lines : Receive(line)) \/ Open \/ Skip \/ Close \/ Report

SafeSpec == Init /\ [][Next]_vars
Spec == SafeSpec /\ WF_vars(Open \/ Skip) /\ WF_vars(Report)
=============================================================================
