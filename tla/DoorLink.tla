------------------------------ MODULE DoorLink ------------------------------
(***************************************************************************)
(* From the gate to the receipt.  The MCU reports the gate's edges over    *)
(* the UART; the Jetson's SerialController caches the state and puts the   *)
(* item of its own last command to it; every video frame carries the cache *)
(* to the kiosk, which counts an item when it sees the door newly open in  *)
(* a session.  Lines are lost, frames are dropped with their connection,   *)
(* the MCU and the Jetson restart.  The gate is the one of Gate, which     *)
(* McuDoor implements.  The simulation without a serial port is left out.  *)
(*                                                                         *)
(* Openings of the gate are numbered for the history, which the programs   *)
(* do not have: a report, the cache and a frame carry the number of the    *)
(* latest opening and its class beside what the program knows.             *)
(***************************************************************************)
EXTENDS Integers, Sequences

CONSTANTS
  Types,        \* the recycle classes
  Tolerance,    \* frames without a detection that keep the last class
  MaxCommands,  \* bound: commands the Jetson sends
  MaxSessions,  \* bound: sessions of the kiosk
  MaxQueue      \* bound: lines and frames on their way

ASSUME LinkAssumption ==
  /\ {"CLOSE", "OTHER", "EMPTY", "NONE", "ALL", "REJECTED"} \cap Types = {}
  /\ Tolerance \in Nat /\ MaxCommands \in Nat /\ MaxSessions \in Nat /\ MaxQueue \in Nat

VARIABLES
  rx, gate, openType, prev,              \* the MCU, see Gate
  toMcu, toJetson,                       \* the UART, both ways
  last_commanded_item, door_status,      \* SerialController
  sending,                               \* the command between its label and its write
  toQt,                                  \* frames on their way to the kiosk
  m_isActive, m_doorWasOpen, m_lastCategory, m_missCount, \* RecycleSessionController
  m_summary,                             \* its counts by class
  commands, sessions,                    \* history: how many so far
  opening,                               \* history: the latest opening's number and class
  seen,                                  \* history: the openings counted in this session
  paid,                                  \* history: those counted in earlier ones
  stale,                                 \* history: still shown open when this session began
  hurried                                \* history: a command, or a restart of the Jetson, came
                                         \* before the last command's edge was read

MCU == INSTANCE Gate

mcu == <<rx, gate, openType, prev>>
uart == <<toMcu, toJetson>>
jetson == <<last_commanded_item, door_status, sending>>
qt == <<m_isActive, m_doorWasOpen, m_lastCategory, m_missCount, m_summary>>
receipts == <<sessions, seen, paid, stale>>
vars == <<mcu, uart, jetson, toQt, qt, receipts, commands, opening, hurried>>

NoOpening == [number |-> 0, type |-> "NONE"]
NoCommand == "NONE"
Commands == Types \cup {"ALL", "CLOSE"}
Shown == Types \cup {"NONE", "REJECTED"}

DoorStatus == [item |-> "ALL", state |-> "CLOSED", of |-> NoOpening]

-----------------------------------------------------------------------------
Init ==
  /\ MCU!Init
  /\ toMcu = <<>> /\ toJetson = <<>>
  /\ last_commanded_item = "ALL" /\ door_status = DoorStatus /\ sending = NoCommand
  /\ toQt = <<>>
  /\ m_isActive = FALSE /\ m_doorWasOpen = FALSE /\ m_lastCategory = "NONE" /\ m_missCount = 0
  /\ m_summary = [t \in Types |-> 0]
  /\ commands = 0 /\ sessions = 0 /\ opening = NoOpening
  /\ seen = {} /\ paid = {} /\ stale = {} /\ hurried = FALSE

-----------------------------------------------------------------------------
(* The MCU at its end of the UART.  "ALL" is no recycle class to it. *)

ReadLine ==
  /\ toMcu # <<>>
  /\ MCU!Receive(IF Head(toMcu) = "ALL" THEN "OTHER" ELSE Head(toMcu))
  /\ toMcu' = Tail(toMcu)
  /\ UNCHANGED <<toJetson, jetson, toQt, qt, receipts, commands, opening, hurried>>

(* A line that comes while the mailbox is full, or damaged. *)
LoseLine ==
  /\ toMcu # <<>>
  /\ toMcu' = Tail(toMcu)
  /\ UNCHANGED <<mcu, toJetson, jetson, toQt, qt, receipts, commands, opening, hurried>>

HandleLine ==
  /\ \/ /\ MCU!Open
        /\ opening' = IF gate = "OPEN" THEN [opening EXCEPT !.type = rx]
                      ELSE [number |-> opening.number + 1, type |-> rx]
     \/ MCU!Skip /\ UNCHANGED opening
  /\ UNCHANGED <<uart, jetson, toQt, qt, receipts, commands, hurried>>

CloseGate ==
  /\ MCU!Close
  /\ UNCHANGED <<uart, jetson, toQt, qt, receipts, commands, opening, hurried>>

ReportGate ==
  /\ MCU!Report
  /\ Len(toJetson) < MaxQueue
  /\ toJetson' = Append(toJetson, [state |-> gate, of |-> opening])
  /\ UNCHANGED <<toMcu, jetson, toQt, qt, receipts, commands, opening, hurried>>

(* A reset of the MCU closes the gate without a word. *)
McuRestarts ==
  /\ rx' = "EMPTY" /\ gate' = "CLOSED" /\ openType' = "NONE" /\ prev' = "CLOSED"
  /\ UNCHANGED <<uart, jetson, toQt, qt, receipts, commands, opening, hurried>>

-----------------------------------------------------------------------------
(* The Jetson. *)

Quiet ==
  /\ toMcu = <<>> /\ rx = "EMPTY" /\ prev = gate /\ toJetson = <<>>

(* Mutant of send_command: the label comes from the write that succeeded. *)
SendUnlabelled(command) ==
  /\ sending = NoCommand /\ commands < MaxCommands
  /\ sending' = command
  /\ commands' = commands + 1
  /\ hurried' = (hurried \/ ~Quiet)
  /\ UNCHANGED <<mcu, uart, last_commanded_item, door_status, toQt, qt, receipts, opening>>

(* send_command labels first and writes then; the receive thread may run     *)
(* in between.                                                               *)
send_command(command) ==
  /\ sending = NoCommand /\ commands < MaxCommands
  /\ sending' = command
  /\ last_commanded_item' = IF command = "CLOSE" THEN "ALL" ELSE command
  /\ commands' = commands + 1
  /\ hurried' = (hurried \/ ~Quiet)
  /\ UNCHANGED <<mcu, uart, door_status, toQt, qt, receipts, opening>>

(* The write, which may fail; the label stays. *)
Write ==
  /\ sending # NoCommand
  /\ sending' = NoCommand
  /\ \/ Len(toMcu) < MaxQueue /\ toMcu' = Append(toMcu, sending)
     \/ UNCHANGED toMcu
  /\ UNCHANGED <<mcu, toJetson, last_commanded_item, door_status, toQt, qt, receipts,
                 commands, opening, hurried>>

(* The receive thread: a line that does not parse changes nothing. *)
rx_loop ==
  /\ toJetson # <<>>
  /\ toJetson' = Tail(toJetson)
  /\ \/ door_status' = [item |-> IF Head(toJetson).state = "OPEN" THEN last_commanded_item ELSE "ALL",
                        state |-> Head(toJetson).state, of |-> Head(toJetson).of]
     \/ UNCHANGED door_status
  /\ UNCHANGED <<mcu, toMcu, last_commanded_item, sending, toQt, qt, receipts,
                 commands, opening, hurried>>

(* The end of an iteration: the frame goes out with the cached status. *)
send_frame(shown) ==
  /\ sending = NoCommand
  /\ Len(toQt) < MaxQueue
  /\ toQt' = Append(toQt, [door |-> door_status, shown |-> shown])
  /\ UNCHANGED <<mcu, uart, jetson, qt, receipts, commands, opening, hurried>>

(* The process starts again: the port's buffers are emptied, the kiosk's     *)
(* connection is gone.                                                       *)
JetsonRestarts ==
  /\ toMcu' = <<>> /\ toJetson' = <<>> /\ toQt' = <<>>
  /\ last_commanded_item' = "ALL" /\ sending' = NoCommand
  /\ door_status' = [DoorStatus EXCEPT !.of = door_status.of]
  /\ hurried' = (hurried \/ sending # NoCommand \/ ~Quiet)
  /\ UNCHANGED <<mcu, qt, receipts, commands, opening>>

-----------------------------------------------------------------------------
(* The kiosk. *)

(* A new connection begins with an empty receive buffer. *)
Reconnect ==
  /\ toQt' = <<>>
  /\ UNCHANGED <<mcu, uart, jetson, qt, receipts, commands, opening, hurried>>

startSession ==
  /\ ~m_isActive /\ sessions < MaxSessions
  /\ m_isActive' = TRUE /\ m_doorWasOpen' = FALSE
  /\ m_lastCategory' = "NONE" /\ m_missCount' = 0
  /\ m_summary' = [t \in Types |-> 0]
  /\ sessions' = sessions + 1
  /\ paid' = paid \cup seen /\ seen' = {}
  /\ stale' = {s.of.number : s \in {d \in {door_status} \cup {toQt[k].door : k \in DOMAIN toQt} :
                                       d.state = "OPEN"}}
  /\ UNCHANGED <<mcu, uart, jetson, toQt, commands, opening, hurried>>

(* finishSession keeps the counts on the receipt, cancelSession drops them. *)
EndSession ==
  /\ m_isActive
  /\ m_isActive' = FALSE /\ m_doorWasOpen' = FALSE /\ m_missCount' = 0
  /\ m_summary' \in {m_summary, [t \in Types |-> 0]}
  /\ UNCHANGED <<mcu, uart, jetson, toQt, m_lastCategory, receipts, commands, opening, hurried>>

Category(status) == IF status.item \in Types THEN status.item ELSE m_lastCategory

Count(status) ==
  IF Category(status) \in Types
  THEN /\ m_summary' = [m_summary EXCEPT ![Category(status)] = @ + 1]
       /\ seen' = seen \cup {status.of.number}
  ELSE UNCHANGED <<m_summary, seen>>

(* Mutant of Recognise: one drop-out more is counted than tolerated. *)
RecogniseLate(shown, last, misses) ==
  CASE shown \in Types -> m_lastCategory' = shown /\ m_missCount' = 0
    [] shown = "NONE" /\ misses <= Tolerance /\ last # "NONE" ->
         m_lastCategory' = last /\ m_missCount' = misses + 1
    [] OTHER -> m_lastCategory' = "NONE" /\ m_missCount' = 0

(* The class on the screen: short drop-outs keep it, a closing door does not. *)
Recognise(shown, last, misses) ==
  CASE shown \in Types -> m_lastCategory' = shown /\ m_missCount' = 0
    [] shown = "NONE" /\ misses < Tolerance /\ last # "NONE" ->
         m_lastCategory' = last /\ m_missCount' = misses + 1
    [] OTHER -> m_lastCategory' = "NONE" /\ m_missCount' = 0

(* Mutant of processFrameMetadata: the interlock returns before it stores    *)
(* the door's state.                                                         *)
CountWhileOpen ==
  /\ toQt # <<>> /\ toQt' = Tail(toQt)
  /\ LET status == Head(toQt).door IN
       IF ~m_isActive THEN UNCHANGED <<qt, seen>>
       ELSE IF status.state = "OPEN"
       THEN Count(status) /\ UNCHANGED <<m_isActive, m_doorWasOpen, m_lastCategory, m_missCount>>
       ELSE /\ m_doorWasOpen' = FALSE
            /\ Recognise(Head(toQt).shown, m_lastCategory, m_missCount)
            /\ UNCHANGED <<m_isActive, m_summary, seen>>
  /\ UNCHANGED <<mcu, uart, jetson, sessions, paid, stale, commands, opening, hurried>>

(* An edge of the door's samples counts; while it is open nothing else happens. *)
processFrameMetadata ==
  /\ toQt # <<>> /\ toQt' = Tail(toQt)
  /\ LET status == Head(toQt).door
         justClosed == m_doorWasOpen
     IN IF ~m_isActive THEN UNCHANGED <<qt, seen>>
        ELSE /\ m_doorWasOpen' = (status.state = "OPEN")
             /\ UNCHANGED m_isActive
             /\ IF status.state = "OPEN"
                THEN /\ UNCHANGED <<m_lastCategory, m_missCount>>
                     /\ IF ~m_doorWasOpen THEN Count(status) ELSE UNCHANGED <<m_summary, seen>>
                ELSE /\ IF justClosed
                        THEN Recognise(Head(toQt).shown, "NONE", 0)
                        ELSE Recognise(Head(toQt).shown, m_lastCategory, m_missCount)
                     /\ UNCHANGED <<m_summary, seen>>
  /\ UNCHANGED <<mcu, uart, jetson, sessions, paid, stale, commands, opening, hurried>>

-----------------------------------------------------------------------------
Mcu == ReadLine \/ LoseLine \/ HandleLine \/ CloseGate \/ ReportGate \/ McuRestarts
Jetson ==
  \/ \E command \in Commands : send_command(command)
  \/ \E shown \in Shown : send_frame(shown)
  \/ Write \/ rx_loop \/ JetsonRestarts
Kiosk == Reconnect \/ startSession \/ EndSession \/ processFrameMetadata

Next == Mcu \/ Jetson \/ Kiosk

Spec == Init /\ [][Next]_vars

-----------------------------------------------------------------------------
(* Properties. *)

Openings == [number : Nat, type : Types \cup {"NONE"}]
Statuses == [item : Types \cup {"ALL"}, state : {"OPEN", "CLOSED"}, of : Openings]

TypeOK ==
  /\ rx \in Types \cup {"EMPTY", "CLOSE", "OTHER"} /\ openType \in Types \cup {"NONE"}
  /\ gate \in {"OPEN", "CLOSED"} /\ prev \in {"OPEN", "CLOSED"}
  /\ toMcu \in Seq(Commands)
  /\ toJetson \in Seq([state : {"OPEN", "CLOSED"}, of : Openings])
  /\ last_commanded_item \in Types \cup {"ALL"} /\ sending \in Commands \cup {NoCommand}
  /\ door_status \in Statuses
  /\ toQt \in Seq([door : Statuses, shown : Shown])
  /\ m_isActive \in BOOLEAN /\ m_doorWasOpen \in BOOLEAN
  /\ m_lastCategory \in Types \cup {"NONE"} /\ m_missCount \in 0..Tolerance
  /\ m_summary \in [Types -> Nat]
  /\ commands \in 0..MaxCommands /\ sessions \in 0..MaxSessions /\ opening \in Openings
  /\ seen \subseteq Nat /\ paid \subseteq Nat /\ stale \subseteq Nat
  /\ hurried \in BOOLEAN

(* A step of the kiosk that adds an item to its counts. *)
Counts == m_isActive /\ m_isActive' /\ m_summary' # m_summary

(* Within a session an opening of the gate is worth one item, however many   *)
(* frames show it, whichever reports are lost, whoever restarts.             *)
CountsNewOpening == [][Counts => seen' # seen]_vars

(* Why: the numbers grow along the way from the kiosk's counts through the    *)
(* frames and the cache to the reports and the gate; a report that shows the  *)
(* gate open carries a number that nothing before it has, and an opening that *)
(* was counted is only shown on without a gap.                                *)
Before(n) ==
  /\ \A s \in seen : s < n
  /\ \A k \in DOMAIN toQt : toQt[k].door.of.number < n
  /\ door_status.of.number < n

NumbersGrow ==
  /\ Before(opening.number + 1)
  /\ \A i \in DOMAIN toJetson : toJetson[i].of.number <= opening.number

UnreportedIsNew ==
  gate = "OPEN" /\ prev = "CLOSED" =>
    /\ Before(opening.number)
    /\ \A i \in DOMAIN toJetson : toJetson[i].of.number < opening.number

ReportIsNew ==
  \A i \in DOMAIN toJetson :
    toJetson[i].state = "OPEN" =>
      /\ Before(toJetson[i].of.number)
      /\ \A j \in DOMAIN toJetson : j < i => toJetson[j].of.number < toJetson[i].of.number

(* The door as the frames show it, the cache being the next one. *)
DoorAt(k) == IF k \in DOMAIN toQt THEN toQt[k].door ELSE door_status
Ahead == DOMAIN toQt \cup {Len(toQt) + 1}

ShownWithoutGap ==
  \A i, k \in Ahead :
    i < k /\ DoorAt(i).state = "OPEN" /\ DoorAt(k).state = "OPEN"
          /\ DoorAt(i).of.number = DoorAt(k).of.number
      => \A j \in Ahead : i < j /\ j < k => DoorAt(j).state = "OPEN"

CountedStaysOpen ==
  m_isActive =>
    \A k \in Ahead :
      DoorAt(k).state = "OPEN" /\ DoorAt(k).of.number \in seen
        => m_doorWasOpen /\ \A j \in Ahead : j < k => DoorAt(j).state = "OPEN"

LinkInv == NumbersGrow /\ UnreportedIsNew /\ ReportIsNew /\ ShownWithoutGap /\ CountedStaysOpen

(* An opening that an earlier session was given is given again only if the   *)
(* door was still shown open when the session began: the first count.        *)
PaidAgainOnlyIfStale == [][Counts => (seen' \ seen) \cap paid \subseteq stale]_vars

(* The interlock's comment read across sessions: no item is counted twice.   *)
(* startSession forgets that the door is open, so it is.                     *)
NotPaidTwice == [][Counts => (seen' \ seen) \cap paid = {}]_vars

(* The item is counted under the class the gate was opened for, if the       *)
(* Jetson neither sends a command nor restarts before the last edge was      *)
(* read: its label is the class of its own last command, whatever the gate   *)
(* is doing.                                                                 *)
CountsRightClass ==
  [][Counts /\ ~hurried =>
       LET of == Head(toQt).door.of IN m_summary' = [m_summary EXCEPT ![of.type] = @ + 1]]_vars
=============================================================================
