-------------------------- MODULE DoorLink_proofs --------------------------
(* What an opening of the gate comes to at the kiosk: one item in a session, *)
(* again only where it was still shown open, of its own class; for any      *)
(* number of classes, commands, sessions, lines and frames.                *)
EXTENDS DoorLink, TLAPS

(* What is left behind the head of a sequence, and what an appended element    *)
(* leaves where it is.                                                         *)
LEMMA TailFacts ==
  ASSUME NEW S, NEW q \in Seq(S), q # <<>>
  PROVE  /\ Head(q) \in S /\ Head(q) = q[1] /\ 1 \in DOMAIN q
         /\ Tail(q) \in Seq(S)
         /\ Len(q) = Len(Tail(q)) + 1
         /\ DOMAIN Tail(q) = 1..Len(Tail(q)) /\ DOMAIN q = 1..(Len(Tail(q)) + 1)
         /\ \A k \in DOMAIN Tail(q) : k + 1 \in DOMAIN q /\ Tail(q)[k] = q[k + 1]
  OBVIOUS

LEMMA AppendFacts ==
  ASSUME NEW S, NEW q \in Seq(S), NEW e \in S
  PROVE  /\ Append(q, e) \in Seq(S)
         /\ Len(Append(q, e)) = Len(q) + 1
         /\ DOMAIN q = 1..Len(q) /\ DOMAIN Append(q, e) = 1..(Len(q) + 1)
         /\ \A k \in DOMAIN q : Append(q, e)[k] = q[k]
         /\ Append(q, e)[Len(q) + 1] = e
  OBVIOUS

LEMMA ElementFacts ==
  ASSUME NEW S, NEW q \in Seq(S)
  PROVE  Len(q) \in Nat /\ DOMAIN q = 1..Len(q) /\ \A k \in DOMAIN q : q[k] \in S
  OBVIOUS

Reports == [state : {"OPEN", "CLOSED"}, of : Openings]
Frames == [door : Statuses, shown : Shown]

(* What the type invariant says of the two queues, their members spelled out. *)
LEMMA QueueFacts ==
  ASSUME TypeOK
  PROVE  /\ toQt \in Seq(Frames) /\ Len(toQt) \in Nat /\ DOMAIN toQt = 1..Len(toQt)
         /\ \A k \in DOMAIN toQt : toQt[k].door \in Statuses
         /\ toJetson \in Seq(Reports) /\ Len(toJetson) \in Nat /\ DOMAIN toJetson = 1..Len(toJetson)
         /\ \A i \in DOMAIN toJetson : toJetson[i] \in Reports
         /\ door_status \in Statuses /\ opening.number \in Nat /\ seen \subseteq Nat
         /\ \A d \in Statuses : d.of.number \in Nat /\ d.state \in {"OPEN", "CLOSED"}
         /\ \A d \in Reports : d.of.number \in Nat /\ d.state \in {"OPEN", "CLOSED"}
<1>1. toQt \in Seq(Frames) /\ toJetson \in Seq(Reports)
  BY DEF TypeOK, Frames, Reports
<1>2. \A k \in DOMAIN toQt : toQt[k] \in Frames
  BY <1>1, ElementFacts
<1>3. \A f \in Frames : f.door \in Statuses
  BY DEF Frames
<1>4. /\ \A d \in Statuses : d.of.number \in Nat /\ d.state \in {"OPEN", "CLOSED"}
      /\ \A d \in Reports : d.of.number \in Nat /\ d.state \in {"OPEN", "CLOSED"}
      /\ \A o \in Openings : o.number \in Nat
  BY DEF Statuses, Reports, Openings
<1>5. Len(toQt) \in Nat /\ DOMAIN toQt = 1..Len(toQt)
  BY <1>1, ElementFacts
<1>6. /\ Len(toJetson) \in Nat /\ DOMAIN toJetson = 1..Len(toJetson)
      /\ \A i \in DOMAIN toJetson : toJetson[i] \in Reports
  BY <1>1, ElementFacts
<1> QED
  BY <1>1, <1>2, <1>3, <1>4, <1>5, <1>6 DEF TypeOK

-----------------------------------------------------------------------------
(* Types. *)

LEMMA NoOpeningType == NoOpening \in Openings /\ DoorStatus \in Statuses
  BY DEF NoOpening, DoorStatus, Openings, Statuses

LEMMA InitType == LinkAssumption /\ Init => TypeOK
<1> SUFFICES ASSUME LinkAssumption, Init PROVE TypeOK
  OBVIOUS
<1>1. /\ rx = "EMPTY" /\ openType = "NONE" /\ gate = "CLOSED" /\ prev = "CLOSED"
      /\ opening \in Openings /\ door_status \in Statuses
  BY NoOpeningType, Zenon DEF Init, MCU!Init
<1>2. m_summary \in [Types -> Nat] /\ m_missCount \in 0..Tolerance
      /\ commands \in 0..MaxCommands /\ sessions \in 0..MaxSessions
  BY DEF Init, LinkAssumption
<1>3. toMcu \in Seq(Commands) /\ toQt \in Seq([door : Statuses, shown : Shown])
      /\ toJetson \in Seq([state : {"OPEN", "CLOSED"}, of : Openings])
  BY DEF Init
<1> QED
  BY <1>1, <1>2, <1>3 DEF Init, TypeOK, NoCommand

LEMMA McuType ==
  ASSUME LinkAssumption, TypeOK, Mcu
  PROVE  TypeOK'
<1> USE DEF TypeOK, uart, jetson, qt, receipts
<1>1. CASE ReadLine
  <2>1. Head(toMcu) \in Commands /\ Tail(toMcu) \in Seq(Commands)
    BY <1>1, TailFacts DEF ReadLine
  <2> QED
    BY <1>1, <2>1 DEF ReadLine, MCU!Receive, Commands
<1>2. CASE LoseLine
  <2>1. Tail(toMcu) \in Seq(Commands)
    BY <1>2, TailFacts DEF LoseLine
  <2> QED
    BY <1>2, <2>1 DEF LoseLine, mcu
<1>3. CASE HandleLine
  <2>1. opening' \in Openings
    <3>1. opening.number \in Nat /\ opening.number + 1 \in Nat
      BY DEF Openings
    <3>2. CASE MCU!Open
      <4>1. rx \in Types
        BY <3>2 DEF MCU!Open
      <4>2. [opening EXCEPT !.type = rx] \in Openings
        BY <4>1 DEF Openings
      <4>3. [number |-> opening.number + 1, type |-> rx] \in Openings
        BY <3>1, <4>1 DEF Openings
      <4> QED
        BY <1>3, <3>2, <4>2, <4>3 DEF HandleLine, MCU!Skip, MCU!Open
    <3>3. CASE MCU!Skip
      BY <1>3, <3>3 DEF HandleLine, MCU!Skip, MCU!Open
    <3> QED
      BY <1>3, <3>2, <3>3 DEF HandleLine
  <2> QED
    BY <1>3, <2>1 DEF HandleLine, MCU!Open, MCU!Skip
<1>4. CASE CloseGate
  BY <1>4 DEF CloseGate, MCU!Close
<1>5. CASE ReportGate
  <2>1. toJetson' \in Seq(Reports)
    BY <1>5, AppendFacts DEF ReportGate, Reports
  <2> QED
    BY <1>5, <2>1 DEF ReportGate, MCU!Report, Reports
<1>6. CASE McuRestarts
  BY <1>6 DEF McuRestarts
<1> QED
  BY <1>1, <1>2, <1>3, <1>4, <1>5, <1>6 DEF Mcu

LEMMA JetsonType ==
  ASSUME LinkAssumption, TypeOK, Jetson
  PROVE  TypeOK'
<1> USE DEF TypeOK, uart, jetson, qt, receipts, mcu
<1>1. ASSUME NEW command \in Commands, send_command(command)
      PROVE  TypeOK'
  <2>1. command # "CLOSE" => command \in Types \cup {"ALL"}
    BY DEF Commands
  <2>2. hurried' \in BOOLEAN
    BY <1>1 DEF send_command
  <2>3. commands' \in 0..MaxCommands
    BY <1>1 DEF send_command, LinkAssumption
  <2> QED
    BY <1>1, <2>1, <2>2, <2>3 DEF send_command
<1>2. ASSUME NEW shown \in Shown, send_frame(shown)
      PROVE  TypeOK'
  <2>1. toQt' \in Seq(Frames)
    BY <1>2, AppendFacts DEF send_frame, Frames
  <2> QED
    BY <1>2, <2>1 DEF send_frame, Frames
<1>3. CASE Write
  <2>1. sending \in Commands
    BY <1>3 DEF Write
  <2>2. Append(toMcu, sending) \in Seq(Commands)
    BY <2>1, AppendFacts
  <2>3. toMcu' \in Seq(Commands)
    BY <1>3, <2>2 DEF Write
  <2> QED
    BY <1>3, <2>3 DEF Write
<1>4. CASE rx_loop
  <2>1. Head(toJetson) \in Reports /\ Tail(toJetson) \in Seq(Reports)
    BY <1>4, TailFacts DEF rx_loop, Reports
  <2>2. door_status' \in Statuses
    BY <1>4, <2>1 DEF rx_loop, Reports, Statuses
  <2> QED
    BY <1>4, <2>1, <2>2 DEF rx_loop, Reports
<1>5. CASE JetsonRestarts
  <2>1. door_status' \in Statuses
    BY <1>5 DEF JetsonRestarts, DoorStatus, Statuses
  <2>2. hurried' \in BOOLEAN
    BY <1>5 DEF JetsonRestarts
  <2> QED
    BY <1>5, <2>1, <2>2 DEF JetsonRestarts, NoCommand
<1> QED
  BY <1>1, <1>2, <1>3, <1>4, <1>5 DEF Jetson

LEMMA CountType ==
  ASSUME TypeOK, NEW status \in Statuses, Count(status)
  PROVE  m_summary' \in [Types -> Nat] /\ seen' \subseteq Nat
<1>1. status.of.number \in Nat
  BY DEF Statuses, Openings
<1>2. CASE Category(status) \in Types
  <2>1. m_summary' \in [Types -> Nat]
    BY <1>2 DEF TypeOK, Count
  <2> QED
    BY <1>1, <1>2, <2>1 DEF TypeOK, Count
<1>3. CASE Category(status) \notin Types
  BY <1>3 DEF TypeOK, Count
<1> QED
  BY <1>2, <1>3

LEMMA RecogniseType ==
  ASSUME LinkAssumption, TypeOK, NEW shown, NEW last \in {m_lastCategory, "NONE"},
         NEW misses \in 0..Tolerance, Recognise(shown, last, misses)
  PROVE  m_lastCategory' \in Types \cup {"NONE"} /\ m_missCount' \in 0..Tolerance
<1>1. CASE shown \in Types
  BY <1>1 DEF Recognise, LinkAssumption
<1>2. CASE shown \notin Types /\ shown = "NONE" /\ misses < Tolerance /\ last # "NONE"
  BY <1>2 DEF Recognise, TypeOK, LinkAssumption
<1>3. CASE shown \notin Types /\ ~(shown = "NONE" /\ misses < Tolerance /\ last # "NONE")
  BY <1>3 DEF Recognise, LinkAssumption
<1> QED
  BY <1>1, <1>2, <1>3

LEMMA KioskType ==
  ASSUME LinkAssumption, TypeOK, Kiosk
  PROVE  TypeOK'
<1> USE DEF TypeOK, uart, jetson, qt, receipts, mcu
<1>1. CASE Reconnect
  BY <1>1 DEF Reconnect
<1>2. CASE startSession
  <2>1. stale' \subseteq Nat
    <3>1. \A d \in Statuses : d.of.number \in Nat
      BY DEF Statuses, Openings
    <3>2. \A k \in DOMAIN toQt : toQt[k].door \in Statuses
      BY QueueFacts
    <3>3. stale' = {s.of.number : s \in {d \in {door_status} \cup {toQt[k].door : k \in DOMAIN toQt} :
                                           d.state = "OPEN"}}
      BY <1>2 DEF startSession
    <3>4. \A d \in {door_status} \cup {toQt[k].door : k \in DOMAIN toQt} : d \in Statuses
      BY <3>2, Zenon DEF TypeOK
    <3> QED
      BY <3>1, <3>3, <3>4, Zenon
  <2>2. m_summary' \in [Types -> Nat] /\ sessions' \in 0..MaxSessions /\ m_missCount' \in 0..Tolerance
    BY <1>2 DEF startSession, LinkAssumption
  <2> QED
    BY <1>2, <2>1, <2>2 DEF startSession
<1>3. CASE EndSession
  <2>1. m_summary' \in [Types -> Nat] /\ m_missCount' \in 0..Tolerance
    BY <1>3 DEF EndSession, LinkAssumption
  <2> QED
    BY <1>3, <2>1 DEF EndSession
<1>4. CASE processFrameMetadata
  <2>1. Head(toQt).door \in Statuses /\ toQt' \in Seq(Frames)
    <3>1. toQt \in Seq(Frames) /\ toQt # <<>> /\ toQt' = Tail(toQt)
      BY <1>4 DEF processFrameMetadata, Frames
    <3>2. Head(toQt) \in Frames /\ Tail(toQt) \in Seq(Frames)
      BY <3>1, TailFacts
    <3> QED
      BY <3>1, <3>2 DEF Frames
  <2>2. m_summary' \in [Types -> Nat] /\ seen' \subseteq Nat
    BY <1>4, <2>1, CountType DEF processFrameMetadata
  <2>3. m_lastCategory' \in Types \cup {"NONE"} /\ m_missCount' \in 0..Tolerance
    <3>1. \/ UNCHANGED <<m_lastCategory, m_missCount>>
          \/ Recognise(Head(toQt).shown, "NONE", 0)
          \/ Recognise(Head(toQt).shown, m_lastCategory, m_missCount)
      BY <1>4 DEF processFrameMetadata
    <3>2. 0 \in 0..Tolerance /\ m_missCount \in 0..Tolerance
      BY DEF LinkAssumption
    <3> QED
      BY <3>1, <3>2, RecogniseType
  <2>4. m_isActive' \in BOOLEAN /\ m_doorWasOpen' \in BOOLEAN
    BY <1>4 DEF processFrameMetadata
  <2> QED
    BY <1>4, <2>1, <2>2, <2>3, <2>4 DEF processFrameMetadata, Frames
<1> QED
  BY <1>1, <1>2, <1>3, <1>4 DEF Kiosk

(* Every variable of the link keeps its type. *)
THEOREM LinkType == Spec => []TypeOK
<1>1. LinkAssumption
  BY LinkAssumption
<1>2. LinkAssumption /\ TypeOK /\ UNCHANGED vars => TypeOK'
  BY DEF TypeOK, vars, mcu, uart, jetson, qt, receipts
<1>3. LinkAssumption /\ TypeOK /\ [Next]_vars => TypeOK'
  BY <1>2, McuType, JetsonType, KioskType DEF Next
<1> QED
  BY <1>1, <1>3, InitType, PTL DEF Spec

-----------------------------------------------------------------------------
(* The invariant.  What it speaks of: *)
seenVars == <<toJetson, door_status, toQt, opening, seen, m_isActive, m_doorWasOpen, gate, prev>>

(* Nothing of the three last parts changes at the kiosk's side of the cache. *)
shownVars == <<door_status, toQt, seen, m_isActive, m_doorWasOpen>>

LEMMA ShownUntouched ==
  ASSUME ShownWithoutGap, CountedStaysOpen, UNCHANGED shownVars
  PROVE  ShownWithoutGap' /\ CountedStaysOpen'
  BY DEF shownVars, ShownWithoutGap, CountedStaysOpen, DoorAt, Ahead

LEMMA Untouched == ASSUME LinkInv, UNCHANGED seenVars PROVE LinkInv'
<1>1. UNCHANGED shownVars
  BY DEF seenVars, shownVars
<1>2. ShownWithoutGap' /\ CountedStaysOpen'
  BY <1>1, ShownUntouched DEF LinkInv
<1>3. NumbersGrow' /\ UnreportedIsNew'
  BY DEF seenVars, LinkInv, Before, NumbersGrow, UnreportedIsNew
<1>4. ReportIsNew'
  BY DEF seenVars, LinkInv, Before, ReportIsNew
<1> QED
  BY <1>2, <1>3, <1>4 DEF LinkInv

LEMMA OpenInv == ASSUME LinkAssumption, TypeOK, LinkInv, HandleLine PROVE LinkInv'
<1> USE DEF uart, jetson, qt, receipts
<1>1. CASE ~MCU!Open
  <2>1. UNCHANGED seenVars
    BY <1>1 DEF HandleLine, MCU!Skip, seenVars
  <2> QED
    BY <2>1, Untouched
<1>2. CASE MCU!Open
  <2>1. /\ UNCHANGED shownVars /\ UNCHANGED <<toJetson, prev>> /\ gate' = "OPEN"
        /\ opening'.number \in Nat /\ opening.number <= opening'.number
        /\ gate # "OPEN" => opening'.number = opening.number + 1
        /\ gate = "OPEN" => opening'.number = opening.number
    <3>1. rx \in Types
      BY <1>2 DEF MCU!Open
    <3>2. ~MCU!Skip
      BY <3>1 DEF MCU!Skip, LinkAssumption
    <3>3. opening' = IF gate = "OPEN" THEN [opening EXCEPT !.type = rx]
                     ELSE [number |-> opening.number + 1, type |-> rx]
      BY <3>2 DEF HandleLine
    <3>4. opening \in Openings
      BY DEF TypeOK
    <3>5. /\ opening.number \in Nat
          /\ [opening EXCEPT !.type = rx].number = opening.number
          /\ [number |-> opening.number + 1, type |-> rx].number = opening.number + 1
      BY <3>4 DEF Openings
    <3> QED
      BY <1>2, <3>3, <3>5 DEF HandleLine, MCU!Open, shownVars
  <2>2. ShownWithoutGap' /\ CountedStaysOpen'
    BY <2>1, ShownUntouched DEF LinkInv
  <2>3. ReportIsNew'
    BY <2>1 DEF LinkInv, ReportIsNew, Before, shownVars
  <2>4. NumbersGrow'
    BY <2>1, QueueFacts DEF LinkInv, NumbersGrow, Before, shownVars
  <2>5. UnreportedIsNew'
    <3>1. CASE gate = "OPEN"
      BY <2>1, <3>1 DEF LinkInv, UnreportedIsNew, Before, shownVars
    <3>2. CASE gate # "OPEN"
      BY <2>1, <3>2, QueueFacts DEF LinkInv, NumbersGrow, UnreportedIsNew, Before, shownVars
    <3> QED
      BY <3>1, <3>2
  <2> QED
    BY <2>2, <2>3, <2>4, <2>5 DEF LinkInv
<1> QED
  BY <1>1, <1>2 DEF HandleLine

LEMMA ReportInv == ASSUME TypeOK, LinkInv, ReportGate PROVE LinkInv'
<1>1. /\ UNCHANGED shownVars /\ UNCHANGED <<gate, opening>> /\ prev' = gate /\ prev # gate
      /\ toJetson' = Append(toJetson, [state |-> gate, of |-> opening])
  BY DEF ReportGate, MCU!Report, jetson, qt, receipts, shownVars
<1>2. [state |-> gate, of |-> opening] \in Reports
  BY DEF TypeOK, Reports
<1>3. /\ DOMAIN toJetson' = 1..(Len(toJetson) + 1)
      /\ \A i \in 1..Len(toJetson) : toJetson'[i] = toJetson[i]
      /\ toJetson'[Len(toJetson) + 1] = [state |-> gate, of |-> opening]
  BY <1>1, <1>2, QueueFacts, AppendFacts
<1>4. ShownWithoutGap' /\ CountedStaysOpen'
  BY <1>1, ShownUntouched DEF LinkInv
<1>5. NumbersGrow'
  BY <1>1, <1>3, QueueFacts DEF LinkInv, NumbersGrow, Before, shownVars
<1>6. UnreportedIsNew'
  BY <1>1 DEF UnreportedIsNew
<1>7. gate = "OPEN" => prev = "CLOSED"
  BY <1>1 DEF TypeOK
<1>8. ReportIsNew'
  <2> SUFFICES ASSUME NEW i \in 1..(Len(toJetson) + 1), toJetson'[i].state = "OPEN"
               PROVE  /\ Before(toJetson[i].of.number)'
                      /\ \A j \in 1..(Len(toJetson) + 1) : j < i =>
                           toJetson'[j].of.number < toJetson'[i].of.number
    BY <1>3 DEF ReportIsNew
  <2>1. CASE i \in 1..Len(toJetson)
    <3>1. /\ toJetson'[i] = toJetson[i] /\ i \in DOMAIN toJetson
          /\ \A j \in 1..(Len(toJetson) + 1) : j < i =>
               j \in DOMAIN toJetson /\ toJetson'[j] = toJetson[j]
      BY <1>3, <2>1, QueueFacts
    <3>2. Before(toJetson[i].of.number)
          /\ \A j \in DOMAIN toJetson : j < i => toJetson[j].of.number < toJetson[i].of.number
      BY <3>1 DEF LinkInv, ReportIsNew
    <3> QED
      BY <1>1, <3>1, <3>2 DEF Before, shownVars
  <2>2. CASE i = Len(toJetson) + 1
    <3>1. /\ toJetson'[i].state = gate /\ toJetson'[i].of.number = opening.number
          /\ \A j \in 1..(Len(toJetson) + 1) : j < i =>
               j \in DOMAIN toJetson /\ toJetson'[j] = toJetson[j]
      BY <1>3, <2>2, QueueFacts
    <3>2. Before(opening.number)
          /\ \A j \in DOMAIN toJetson : toJetson[j].of.number < opening.number
      BY <1>7, <3>1 DEF LinkInv, UnreportedIsNew
    <3> QED
      BY <1>1, <3>1, <3>2 DEF Before, shownVars
  <2> QED
    BY <2>1, <2>2, QueueFacts
<1> QED
  BY <1>4, <1>5, <1>6, <1>8 DEF LinkInv

LEMMA ClosedInv ==
  ASSUME LinkInv, gate' = "CLOSED", UNCHANGED shownVars, UNCHANGED <<toJetson, opening>>
  PROVE  LinkInv'
<1>1. ShownWithoutGap' /\ CountedStaysOpen'
  BY ShownUntouched DEF LinkInv
<1>2. NumbersGrow' /\ UnreportedIsNew'
  BY DEF shownVars, LinkInv, Before, NumbersGrow, UnreportedIsNew
<1>3. ReportIsNew'
  BY DEF shownVars, LinkInv, Before, ReportIsNew
<1> QED
  BY <1>1, <1>2, <1>3 DEF LinkInv

LEMMA McuInv == ASSUME LinkAssumption, TypeOK, LinkInv, Mcu PROVE LinkInv'
<1> USE DEF mcu, uart, jetson, qt, receipts
<1>1. CASE ReadLine
  BY <1>1, Untouched DEF ReadLine, MCU!Receive, seenVars
<1>2. CASE LoseLine
  BY <1>2, Untouched DEF LoseLine, seenVars
<1>3. CASE CloseGate
  BY <1>3, ClosedInv DEF CloseGate, MCU!Close, shownVars
<1>4. CASE McuRestarts
  BY <1>4, ClosedInv DEF McuRestarts, shownVars
<1> QED
  BY <1>1, <1>2, <1>3, <1>4, OpenInv, ReportInv DEF Mcu

-----------------------------------------------------------------------------
(* The doors on their way to the kiosk, the cache being the last. *)
LEMMA Doors ==
  ASSUME TypeOK
  PROVE  /\ Ahead = 1..(Len(toQt) + 1) /\ Len(toQt) \in Nat
         /\ \A k \in 1..Len(toQt) : DoorAt(k) = toQt[k].door
         /\ DoorAt(Len(toQt) + 1) = door_status
<1>1. Len(toQt) \in Nat /\ DOMAIN toQt = 1..Len(toQt)
  BY QueueFacts
<1> QED
  BY <1>1 DEF Ahead, DoorAt

(* Without a frame under way the cache is all there is. *)
LEMMA NoFrames ==
  ASSUME toQt' = <<>>
  PROVE  /\ Ahead' = {1} /\ DoorAt(1)' = door_status'
         /\ ShownWithoutGap'
<1>1. DOMAIN toQt' = {} /\ Len(toQt') = 0
  OBVIOUS
<1>2. Ahead' = {1} /\ DoorAt(1)' = door_status'
  BY <1>1 DEF Ahead, DoorAt
<1>3. ShownWithoutGap'
  BY <1>2 DEF ShownWithoutGap
<1> QED
  BY <1>2, <1>3

LEMMA RxInv == ASSUME TypeOK, LinkInv, rx_loop PROVE LinkInv'
<1>1. /\ UNCHANGED <<toQt, seen, m_isActive, m_doorWasOpen, gate, prev, opening>>
      /\ toJetson # <<>> /\ toJetson' = Tail(toJetson)
  BY DEF rx_loop, mcu, qt, receipts
<1>2. \/ UNCHANGED door_status
      \/ door_status'.of = toJetson[1].of /\ door_status'.state = toJetson[1].state
  BY <1>1, QueueFacts, TailFacts DEF rx_loop
<1>3. /\ 1 \in DOMAIN toJetson
      /\ DOMAIN toJetson' = 1..Len(toJetson') /\ Len(toJetson') \in Nat
      /\ \A i \in DOMAIN toJetson' : i + 1 \in DOMAIN toJetson /\ toJetson'[i] = toJetson[i + 1]
  BY <1>1, QueueFacts, TailFacts, ElementFacts
<1>4. NumbersGrow'
  BY <1>1, <1>2, <1>3, QueueFacts DEF LinkInv, NumbersGrow, Before
<1>5. UnreportedIsNew'
  BY <1>1, <1>2, <1>3 DEF LinkInv, UnreportedIsNew, Before
<1>6. ReportIsNew'
  <2> SUFFICES ASSUME NEW i \in DOMAIN toJetson', toJetson'[i].state = "OPEN"
               PROVE  /\ Before(toJetson[i].of.number)'
                      /\ \A j \in DOMAIN toJetson' : j < i =>
                           toJetson'[j].of.number < toJetson'[i].of.number
    BY DEF ReportIsNew
  <2>1. /\ Before(toJetson[i + 1].of.number)
        /\ \A j \in DOMAIN toJetson : j < i + 1 => toJetson[j].of.number < toJetson[i + 1].of.number
    BY <1>3 DEF LinkInv, ReportIsNew
  <2>2. toJetson[1].of.number < toJetson[i + 1].of.number
    BY <1>3, <2>1
  <2> QED
    BY <1>1, <1>2, <1>3, <2>1, <2>2 DEF Before
<1>7. /\ Ahead' = Ahead /\ Ahead = 1..(Len(toQt) + 1) /\ Len(toQt) \in Nat
      /\ \A k \in 1..Len(toQt) : DoorAt(k)' = DoorAt(k) /\ DoorAt(k) = toQt[k].door
      /\ \A k : k = Len(toQt) + 1 => DoorAt(k)' = door_status'
  BY <1>1, Doors, QueueFacts DEF Ahead, DoorAt
<1>8. CASE UNCHANGED door_status
  <2>1. UNCHANGED shownVars
    BY <1>1, <1>8 DEF shownVars
  <2> QED
    BY <1>4, <1>5, <1>6, <2>1, ShownUntouched DEF LinkInv
<1>9. CASE door_status'.of = toJetson[1].of /\ door_status'.state = toJetson[1].state
  <2>1. door_status'.state = "OPEN" => Before(door_status'.of.number)
    BY <1>3, <1>9 DEF LinkInv, ReportIsNew
  <2>2. ShownWithoutGap'
    <3> SUFFICES ASSUME NEW i \in Ahead, NEW j \in Ahead, NEW k \in Ahead, i < j, j < k,
                        DoorAt(i)'.state = "OPEN", DoorAt(k)'.state = "OPEN",
                        DoorAt(i)'.of.number = DoorAt(k)'.of.number
                 PROVE  DoorAt(j)'.state = "OPEN"
      BY <1>7 DEF ShownWithoutGap
    <3>1. i \in 1..Len(toQt) /\ j \in 1..Len(toQt) /\ i \in DOMAIN toQt
      BY <1>7, QueueFacts
    <3>2. CASE k \in 1..Len(toQt)
      BY <1>7, <3>1, <3>2 DEF LinkInv, ShownWithoutGap
    <3>3. CASE k = Len(toQt) + 1
      <4>1. DoorAt(k)' = door_status'
        BY <1>7, <3>3
      <4>2. toQt[i].door.of.number < door_status'.of.number
        BY <2>1, <3>1, <4>1 DEF Before
      <4>3. toQt[i].door.of.number = door_status'.of.number
        BY <1>7, <3>1, <4>1
      <4>4. door_status'.of.number \in Nat
        BY <1>3, <1>9, QueueFacts
      <4> QED
        BY <4>2, <4>3, <4>4
    <3> QED
      BY <1>7, <3>2, <3>3
  <2>3. CountedStaysOpen'
    <3> SUFFICES ASSUME m_isActive, NEW k \in Ahead, DoorAt(k)'.state = "OPEN",
                        DoorAt(k)'.of.number \in seen
                 PROVE  m_doorWasOpen /\ \A j \in Ahead : j < k => DoorAt(j)'.state = "OPEN"
      BY <1>1, <1>7 DEF CountedStaysOpen
    <3>1. CASE k \in 1..Len(toQt)
      <4>1. m_doorWasOpen /\ \A j \in Ahead : j < k => DoorAt(j).state = "OPEN"
        BY <1>7, <3>1 DEF LinkInv, CountedStaysOpen
      <4>2. \A j \in Ahead : j < k => j \in 1..Len(toQt)
        BY <1>7, <3>1
      <4> QED
        BY <1>7, <4>1, <4>2
    <3>2. CASE k = Len(toQt) + 1
      <4>1. DoorAt(k)' = door_status'
        BY <1>7, <3>2
      <4>2. door_status'.of.number < door_status'.of.number
        BY <2>1, <4>1 DEF Before
      <4>3. door_status'.of.number \in Nat
        BY <1>3, <1>9, QueueFacts
      <4> QED
        BY <4>2, <4>3
    <3> QED
      BY <1>7, <3>1, <3>2
  <2> QED
    BY <1>4, <1>5, <1>6, <2>2, <2>3 DEF LinkInv
<1> QED
  BY <1>2, <1>8, <1>9

LEMMA FrameInv == ASSUME TypeOK, LinkInv, NEW shown \in Shown, send_frame(shown) PROVE LinkInv'
<1>1. /\ UNCHANGED <<toJetson, door_status, seen, m_isActive, m_doorWasOpen, gate, prev, opening>>
      /\ toQt' = Append(toQt, [door |-> door_status, shown |-> shown])
  BY DEF send_frame, mcu, uart, jetson, qt, receipts
<1>2. [door |-> door_status, shown |-> shown] \in Frames
  BY DEF TypeOK, Frames
<1>3. /\ DOMAIN toQt = 1..Len(toQt) /\ DOMAIN toQt' = 1..(Len(toQt) + 1) /\ Len(toQt) \in Nat
      /\ Len(toQt') = Len(toQt) + 1
      /\ \A k \in 1..Len(toQt) : toQt'[k] = toQt[k]
      /\ toQt'[Len(toQt) + 1].door = door_status
  BY <1>1, <1>2, QueueFacts, AppendFacts
<1>4. NumbersGrow'
  BY <1>1, <1>3 DEF LinkInv, NumbersGrow, Before
<1>5. UnreportedIsNew'
  BY <1>1, <1>3 DEF LinkInv, UnreportedIsNew, Before
<1>6. ReportIsNew'
  BY <1>1, <1>3 DEF LinkInv, ReportIsNew, Before
<1>7. /\ Ahead = 1..(Len(toQt) + 1) /\ Ahead' = 1..(Len(toQt) + 2)
      /\ \A k \in Ahead : DoorAt(k)' = DoorAt(k)
      /\ \A k : k = Len(toQt) + 1 => DoorAt(k) = door_status
      /\ \A k : k = Len(toQt) + 2 => DoorAt(k)' = door_status
  BY <1>1, <1>3 DEF Ahead, DoorAt
<1>8. ShownWithoutGap'
  <2> SUFFICES ASSUME NEW i \in Ahead', NEW j \in Ahead', NEW k \in Ahead', i < j, j < k,
                      DoorAt(i)'.state = "OPEN", DoorAt(k)'.state = "OPEN",
                      DoorAt(i)'.of.number = DoorAt(k)'.of.number
               PROVE  DoorAt(j)'.state = "OPEN"
    BY <1>3, <1>7 DEF ShownWithoutGap
  <2>1. i \in Ahead /\ j \in Ahead /\ Len(toQt) + 1 \in Ahead
    BY <1>3, <1>7
  <2>2. CASE k \in Ahead
    BY <1>3, <1>7, <2>1, <2>2 DEF LinkInv, ShownWithoutGap
  <2>3. CASE k = Len(toQt) + 2
    <3>1. DoorAt(k)' = DoorAt(Len(toQt) + 1)
      BY <1>7, <2>3
    <3>2. CASE j = Len(toQt) + 1
      BY <1>7, <2>1, <3>1, <3>2
    <3>3. CASE j < Len(toQt) + 1
      BY <1>3, <1>7, <2>1, <3>1, <3>3 DEF LinkInv, ShownWithoutGap
    <3> QED
      BY <1>3, <1>7, <2>1, <3>2, <3>3
  <2> QED
    BY <1>3, <1>7, <2>2, <2>3
<1>9. CountedStaysOpen'
  <2> SUFFICES ASSUME m_isActive, NEW k \in Ahead', DoorAt(k)'.state = "OPEN",
                      DoorAt(k)'.of.number \in seen
               PROVE  m_doorWasOpen /\ \A j \in Ahead' : j < k => DoorAt(j)'.state = "OPEN"
    BY <1>1 DEF CountedStaysOpen
  <2>1. Len(toQt) + 1 \in Ahead
    BY <1>3, <1>7
  <2>2. CASE k \in Ahead
    <3>1. m_doorWasOpen /\ \A j \in Ahead : j < k => DoorAt(j).state = "OPEN"
      BY <1>7, <2>2 DEF LinkInv, CountedStaysOpen
    <3> QED
      BY <1>3, <1>7, <2>2, <3>1
  <2>3. CASE k = Len(toQt) + 2
    <3>1. DoorAt(k)' = DoorAt(Len(toQt) + 1)
      BY <1>7, <2>3
    <3>2. m_doorWasOpen /\ \A j \in Ahead : j < Len(toQt) + 1 => DoorAt(j).state = "OPEN"
      BY <2>1, <3>1 DEF LinkInv, CountedStaysOpen
    <3>3. \A j \in Ahead' : j < k => j \in Ahead /\ (j < Len(toQt) + 1 \/ j = Len(toQt) + 1)
      BY <1>3, <1>7, <2>3
    <3> QED
      BY <1>7, <3>1, <3>2, <3>3
  <2> QED
    BY <1>3, <1>7, <2>2, <2>3
<1> QED
  BY <1>4, <1>5, <1>6, <1>8, <1>9 DEF LinkInv

LEMMA RestartInv == ASSUME TypeOK, LinkInv, JetsonRestarts PROVE LinkInv'
<1>1. /\ UNCHANGED <<seen, m_isActive, m_doorWasOpen, gate, prev, opening>>
      /\ toJetson' = <<>> /\ toQt' = <<>>
  BY DEF JetsonRestarts, mcu, qt, receipts
<1>2. door_status'.of = door_status.of /\ door_status'.state = "CLOSED"
  BY DEF JetsonRestarts, DoorStatus
<1>3. DOMAIN toQt' = {} /\ DOMAIN toJetson' = {}
  BY <1>1
<1>4. NumbersGrow' /\ UnreportedIsNew' /\ ReportIsNew'
  BY <1>1, <1>2, <1>3 DEF LinkInv, NumbersGrow, UnreportedIsNew, ReportIsNew, Before
<1>5. ShownWithoutGap' /\ CountedStaysOpen'
  <2>1. Ahead' = {1} /\ DoorAt(1)' = door_status' /\ ShownWithoutGap'
    BY <1>1, NoFrames
  <2> QED
    BY <1>2, <2>1 DEF CountedStaysOpen
<1> QED
  BY <1>4, <1>5 DEF LinkInv

LEMMA JetsonInv == ASSUME TypeOK, LinkInv, Jetson PROVE LinkInv'
<1> USE DEF mcu, uart, jetson, qt, receipts
<1>1. ASSUME NEW command \in Commands, send_command(command)
      PROVE  LinkInv'
  BY <1>1, Untouched DEF send_command, seenVars
<1>2. CASE Write
  BY <1>2, Untouched DEF Write, seenVars
<1> QED
  BY <1>1, <1>2, RxInv, FrameInv, RestartInv DEF Jetson

-----------------------------------------------------------------------------
LEMMA ReconnectInv == ASSUME TypeOK, LinkInv, Reconnect PROVE LinkInv'
<1>1. /\ UNCHANGED <<toJetson, door_status, seen, m_isActive, m_doorWasOpen, gate, prev, opening>>
      /\ toQt' = <<>>
  BY DEF Reconnect, mcu, uart, jetson, qt, receipts
<1>2. DOMAIN toQt' = {}
  BY <1>1
<1>3. NumbersGrow' /\ UnreportedIsNew'
  BY <1>1, <1>2 DEF LinkInv, NumbersGrow, UnreportedIsNew, Before
<1>4. ReportIsNew'
  BY <1>1, <1>2 DEF LinkInv, ReportIsNew, Before
<1>5. Ahead' = {1} /\ DoorAt(1)' = door_status' /\ ShownWithoutGap'
  BY <1>1, NoFrames
<1>6. CountedStaysOpen'
  <2>1. Len(toQt) + 1 \in Ahead /\ DoorAt(Len(toQt) + 1) = door_status
    BY Doors
  <2> QED
    BY <1>1, <1>5, <2>1 DEF LinkInv, CountedStaysOpen
<1> QED
  BY <1>3, <1>4, <1>5, <1>6 DEF LinkInv

LEMMA SessionInv == ASSUME LinkInv, startSession \/ EndSession PROVE LinkInv'
<1>1. UNCHANGED <<toJetson, door_status, toQt, gate, prev, opening>>
  BY DEF startSession, EndSession, mcu, uart, jetson
<1>2. \/ seen' = {}
      \/ seen' = seen /\ ~m_isActive'
  BY DEF startSession, EndSession, receipts
<1>3. NumbersGrow' /\ UnreportedIsNew'
  BY <1>1, <1>2 DEF LinkInv, NumbersGrow, UnreportedIsNew, Before
<1>4. ReportIsNew'
  BY <1>1, <1>2 DEF LinkInv, ReportIsNew, Before
<1>5. ShownWithoutGap'
  BY <1>1 DEF LinkInv, ShownWithoutGap, DoorAt, Ahead
<1>6. CountedStaysOpen'
  BY <1>1, <1>2 DEF CountedStaysOpen
<1> QED
  BY <1>3, <1>4, <1>5, <1>6 DEF LinkInv

(* What processFrameMetadata does with the door of the first frame. *)
LEMMA FrameDoor ==
  ASSUME TypeOK, processFrameMetadata
  PROVE  /\ UNCHANGED <<toJetson, door_status, gate, prev, opening, m_isActive>>
         /\ 1 \in Ahead /\ toQt # <<>> /\ toQt' = Tail(toQt) /\ Head(toQt).door = DoorAt(1)
         /\ m_isActive => m_doorWasOpen' = (DoorAt(1).state = "OPEN")
         /\ \/ UNCHANGED <<seen, m_summary>>
            \/ /\ seen' = seen \cup {DoorAt(1).of.number}
               /\ m_isActive /\ ~m_doorWasOpen /\ DoorAt(1).state = "OPEN"
<1>1. toQt # <<>> /\ toQt' = Tail(toQt)
  BY DEF processFrameMetadata
<1>2. 1 \in DOMAIN toQt /\ Head(toQt) = toQt[1]
  BY <1>1, QueueFacts, TailFacts
<1>3. 1 \in Ahead /\ Head(toQt).door = DoorAt(1)
  BY <1>2 DEF Ahead, DoorAt
<1>4. UNCHANGED <<toJetson, door_status, gate, prev, opening, m_isActive>>
  BY DEF processFrameMetadata, mcu, uart, jetson, qt
<1>5. m_isActive => m_doorWasOpen' = (DoorAt(1).state = "OPEN")
  BY <1>3 DEF processFrameMetadata
<1>6. \/ UNCHANGED <<seen, m_summary>>
      \/ Count(DoorAt(1)) /\ m_isActive /\ ~m_doorWasOpen /\ DoorAt(1).state = "OPEN"
  BY <1>3 DEF processFrameMetadata, qt
<1>7. Count(DoorAt(1)) => UNCHANGED <<seen, m_summary>> \/ seen' = seen \cup {DoorAt(1).of.number}
  BY DEF Count
<1> QED
  BY <1>1, <1>3, <1>4, <1>5, <1>6, <1>7

LEMMA ProcessInv == ASSUME TypeOK, LinkInv, processFrameMetadata PROVE LinkInv'
<1>1. /\ UNCHANGED <<toJetson, door_status, gate, prev, opening, m_isActive>>
      /\ toQt # <<>> /\ toQt' = Tail(toQt)
      /\ m_isActive => m_doorWasOpen' = (DoorAt(1).state = "OPEN")
      /\ \/ seen' = seen
         \/ /\ seen' = seen \cup {DoorAt(1).of.number}
            /\ DoorAt(1).state = "OPEN"
  BY FrameDoor
<1>2. /\ 1 \in DOMAIN toQt /\ Len(toQt') \in Nat
      /\ Len(toQt) = Len(toQt') + 1
      /\ DOMAIN toQt = 1..(Len(toQt') + 1) /\ DOMAIN toQt' = 1..Len(toQt')
      /\ \A k \in DOMAIN toQt' : k + 1 \in DOMAIN toQt /\ toQt'[k] = toQt[k + 1]
  BY <1>1, QueueFacts, TailFacts, ElementFacts
<1>3. DoorAt(1) = toQt[1].door
  BY <1>2 DEF DoorAt
<1>4. NumbersGrow' /\ UnreportedIsNew'
  BY <1>1, <1>2, <1>3 DEF LinkInv, NumbersGrow, UnreportedIsNew, Before
<1>5. ReportIsNew'
  BY <1>1, <1>2, <1>3 DEF LinkInv, ReportIsNew, Before
<1>6. /\ Ahead = 1..(Len(toQt') + 2) /\ Ahead' = 1..(Len(toQt') + 1)
      /\ \A k \in Ahead' : k + 1 \in Ahead /\ DoorAt(k)' = DoorAt(k + 1)
  BY <1>1, <1>2 DEF Ahead, DoorAt
<1>7. ShownWithoutGap'
  <2> SUFFICES ASSUME NEW i \in Ahead', NEW j \in Ahead', NEW k \in Ahead', i < j, j < k,
                      DoorAt(i)'.state = "OPEN", DoorAt(k)'.state = "OPEN",
                      DoorAt(i)'.of.number = DoorAt(k)'.of.number
               PROVE  DoorAt(j)'.state = "OPEN"
    BY <1>2, <1>6 DEF ShownWithoutGap
  <2>1. i + 1 < j + 1 /\ j + 1 < k + 1 /\ i + 1 < k + 1
    BY <1>2, <1>6
  <2> QED
    BY <1>6, <2>1 DEF LinkInv, ShownWithoutGap
<1>8. CountedStaysOpen'
  <2> SUFFICES ASSUME m_isActive, NEW k \in Ahead', DoorAt(k)'.state = "OPEN",
                      DoorAt(k)'.of.number \in seen'
               PROVE  m_doorWasOpen' /\ \A j \in Ahead' : j < k => DoorAt(j)'.state = "OPEN"
    BY <1>1 DEF CountedStaysOpen
  <2>1. /\ k + 1 \in Ahead /\ DoorAt(k)' = DoorAt(k + 1) /\ 1 \in Ahead /\ 1 < k + 1
        /\ \A j \in Ahead' : j < k => j + 1 \in Ahead /\ j + 1 < k + 1 /\ 1 < j + 1
    BY <1>2, <1>6
  <2>2. CASE DoorAt(k + 1).of.number \in seen
    <3>1. \A j \in Ahead : j < k + 1 => DoorAt(j).state = "OPEN"
      BY <2>1, <2>2 DEF LinkInv, CountedStaysOpen
    <3> QED
      BY <1>1, <1>6, <2>1, <3>1
  <2>3. CASE DoorAt(k + 1).of.number = DoorAt(1).of.number /\ DoorAt(1).state = "OPEN"
    <3>1. \A j \in Ahead : 1 < j /\ j < k + 1 => DoorAt(j).state = "OPEN"
      BY <2>1, <2>3 DEF LinkInv, ShownWithoutGap
    <3> QED
      BY <1>1, <1>6, <2>1, <2>3, <3>1
  <2> QED
    BY <1>1, <2>1, <2>2, <2>3
<1> QED
  BY <1>4, <1>5, <1>7, <1>8 DEF LinkInv

LEMMA InitInv == Init => LinkInv
<1> SUFFICES ASSUME Init PROVE LinkInv
  OBVIOUS
<1>1. /\ DOMAIN toQt = {} /\ DOMAIN toJetson = {} /\ seen = {} /\ m_isActive = FALSE
      /\ door_status.of.number = 0 /\ opening.number = 0 /\ gate = "CLOSED" /\ Len(toQt) = 0
  BY DEF Init, MCU!Init, DoorStatus, NoOpening
<1>2. NumbersGrow /\ UnreportedIsNew /\ ReportIsNew
  BY <1>1 DEF NumbersGrow, UnreportedIsNew, ReportIsNew, Before
<1>3. ShownWithoutGap /\ CountedStaysOpen
  BY <1>1 DEF ShownWithoutGap, CountedStaysOpen, Ahead, DoorAt
<1> QED
  BY <1>2, <1>3 DEF LinkInv

LEMMA LinkHolds == Spec => [](TypeOK /\ LinkInv)
<1>1. LinkAssumption
  BY LinkAssumption
<1>2. LinkInv /\ UNCHANGED vars => LinkInv'
  BY Untouched DEF vars, mcu, uart, jetson, qt, receipts, seenVars
<1>3. LinkAssumption /\ TypeOK /\ LinkInv /\ [Next]_vars => LinkInv'
  BY <1>2, McuInv, JetsonInv, ReconnectInv, SessionInv, ProcessInv DEF Next, Kiosk
<1> QED
  BY <1>1, <1>3, InitInv, LinkType, PTL DEF Spec

-----------------------------------------------------------------------------
(* A step that counts is a frame of the running session that shows the door    *)
(* newly open; its opening is what the step adds.                              *)
LEMMA CountedDoor ==
  ASSUME TypeOK, [Next]_vars, Counts
  PROVE  /\ processFrameMetadata /\ 1 \in Ahead
         /\ ~m_doorWasOpen /\ DoorAt(1).state = "OPEN" /\ Head(toQt).door = DoorAt(1)
         /\ seen' = seen \cup {DoorAt(1).of.number}
<1>1. m_isActive /\ m_isActive' /\ m_summary' # m_summary
  BY DEF Counts
<1>2. ~Mcu /\ ~Jetson
  BY <1>1 DEF Mcu, ReadLine, LoseLine, HandleLine, CloseGate, ReportGate, McuRestarts,
              Jetson, send_command, send_frame, Write, rx_loop, JetsonRestarts, qt
<1>3. ~startSession /\ ~EndSession /\ ~Reconnect /\ ~UNCHANGED vars
  BY <1>1 DEF startSession, EndSession, Reconnect, vars, qt
<1>4. processFrameMetadata
  BY <1>2, <1>3 DEF Next, Kiosk
<1> QED
  BY <1>1, <1>4, FrameDoor

LEMMA CountStep == TypeOK /\ LinkInv /\ [Next]_vars => [Counts => seen' # seen]_vars
<1> SUFFICES ASSUME TypeOK, LinkInv, [Next]_vars, Counts
             PROVE  seen' # seen
  OBVIOUS
<1>1. /\ seen' = seen \cup {DoorAt(1).of.number}
      /\ ~m_doorWasOpen /\ DoorAt(1).state = "OPEN" /\ 1 \in Ahead
  BY CountedDoor
<1>2. DoorAt(1).of.number \notin seen
  BY <1>1 DEF LinkInv, CountedStaysOpen, Counts
<1> QED
  BY <1>1, <1>2

(* Within a session an opening of the gate is worth one item, whatever is      *)
(* lost, late or restarted between the gate and the kiosk.                     *)
THEOREM CountsOnce == Spec => CountsNewOpening
  BY LinkHolds, CountStep, PTL DEF Spec, CountsNewOpening

-----------------------------------------------------------------------------
(* What one step can change of the numbers on their way from the gate to the   *)
(* kiosk: the lemmas the next two invariants share.                            *)

(* The number of the latest opening grows, by one when the closed gate opens.  *)
LEMMA OpeningMoves ==
  ASSUME LinkAssumption, TypeOK, [Next]_vars
  PROVE  \/ UNCHANGED <<gate, opening>>
         \/ gate' = "CLOSED" /\ UNCHANGED opening
         \/ /\ HandleLine /\ rx \in Types /\ opening'.type = rx
            /\ opening'.number = opening.number + (IF gate = "OPEN" THEN 0 ELSE 1)
<1> USE DEF mcu, uart, jetson, qt, receipts
<1>1. CASE HandleLine /\ MCU!Open
  <2>1. rx \in Types /\ ~MCU!Skip
    BY <1>1 DEF MCU!Open, MCU!Skip, LinkAssumption
  <2>2. opening' = IF gate = "OPEN" THEN [opening EXCEPT !.type = rx]
                   ELSE [number |-> opening.number + 1, type |-> rx]
    BY <1>1, <2>1 DEF HandleLine
  <2>3. /\ [opening EXCEPT !.type = rx].number = opening.number
        /\ [opening EXCEPT !.type = rx].type = rx /\ opening.number + 0 = opening.number
    BY DEF TypeOK, Openings
  <2>4. CASE gate = "OPEN"
    BY <1>1, <2>1, <2>2, <2>3, <2>4
  <2>5. CASE gate # "OPEN"
    BY <1>1, <2>1, <2>2, <2>5
  <2> QED
    BY <2>4, <2>5
<1>2. CASE Mcu /\ ~(HandleLine /\ MCU!Open)
  BY <1>2 DEF Mcu, ReadLine, LoseLine, HandleLine, CloseGate, ReportGate, McuRestarts,
              MCU!Receive, MCU!Skip, MCU!Close, MCU!Report
<1>3. CASE Jetson
  BY <1>3 DEF Jetson, send_command, send_frame, Write, rx_loop, JetsonRestarts
<1>4. CASE Kiosk \/ UNCHANGED vars
  BY <1>4 DEF Kiosk, Reconnect, startSession, EndSession, processFrameMetadata, vars
<1> QED
  BY <1>1, <1>2, <1>3, <1>4 DEF Next

(* A report of the open gate was there already, or it is the first of this     *)
(* opening.                                                                    *)
LEMMA ReportsMove ==
  ASSUME TypeOK, [Next]_vars, NEW i \in DOMAIN toJetson', toJetson[i]'.state = "OPEN"
  PROVE  \/ \E j \in DOMAIN toJetson : toJetson[i]' = toJetson[j]
         \/ toJetson[i]'.of = opening /\ gate = "OPEN" /\ prev = "CLOSED"
<1> USE DEF mcu, uart, jetson, qt, receipts
<1>1. CASE toJetson' = toJetson
  BY <1>1
<1>2. CASE toJetson' = <<>>
  BY <1>2
<1>3. CASE toJetson # <<>> /\ toJetson' = Tail(toJetson)
  <2>1. \A k \in DOMAIN Tail(toJetson) : k + 1 \in DOMAIN toJetson /\ Tail(toJetson)[k] = toJetson[k + 1]
    BY <1>3, QueueFacts, TailFacts
  <2> QED
    BY <1>3, <2>1
<1>4. CASE ReportGate
  <2>1. toJetson' = Append(toJetson, [state |-> gate, of |-> opening]) /\ prev # gate
    BY <1>4 DEF ReportGate, MCU!Report
  <2>2. [state |-> gate, of |-> opening] \in Reports
    BY DEF TypeOK, Reports
  <2>3. /\ DOMAIN toJetson = 1..Len(toJetson) /\ DOMAIN toJetson' = 1..(Len(toJetson) + 1)
        /\ \A k \in DOMAIN toJetson : toJetson'[k] = toJetson[k]
        /\ toJetson'[Len(toJetson) + 1] = [state |-> gate, of |-> opening]
        /\ Len(toJetson) \in Nat
    BY <2>1, <2>2, QueueFacts, AppendFacts
  <2>4. CASE i \in DOMAIN toJetson
    BY <2>3, <2>4
  <2>5. CASE i = Len(toJetson) + 1
    <3>1. toJetson[i]'.state = gate /\ toJetson[i]'.of = opening
      BY <2>3, <2>5
    <3> QED
      BY <2>1, <3>1 DEF TypeOK
  <2> QED
    BY <2>3, <2>4, <2>5
<1>5. Mcu => ReportGate \/ toJetson' = toJetson
  BY DEF Mcu, ReadLine, LoseLine, HandleLine, CloseGate, McuRestarts
<1>6. Jetson => \/ toJetson' = toJetson \/ toJetson' = <<>>
                \/ toJetson # <<>> /\ toJetson' = Tail(toJetson)
  BY DEF Jetson, send_command, send_frame, Write, rx_loop, JetsonRestarts
<1>7. Kiosk \/ UNCHANGED vars => toJetson' = toJetson
  BY DEF Kiosk, Reconnect, startSession, EndSession, processFrameMetadata, vars
<1> QED
  BY <1>1, <1>2, <1>3, <1>4, <1>5, <1>6, <1>7 DEF Next

(* The cache keeps its door, shows a closed one, or shows the open gate of a   *)
(* report under the item of the last command.                                  *)
LEMMA CacheMoves ==
  ASSUME TypeOK, [Next]_vars
  PROVE  \/ door_status' = door_status
         \/ door_status'.state # "OPEN"
         \/ \E i \in DOMAIN toJetson :
              /\ toJetson[i].state = "OPEN"
              /\ door_status' = [item |-> last_commanded_item, state |-> "OPEN", of |-> toJetson[i].of]
<1> USE DEF mcu, uart, jetson, qt, receipts
<1>1. CASE rx_loop /\ door_status' # door_status
  <2>1. toJetson # <<>>
    BY <1>1 DEF rx_loop
  <2>2. 1 \in DOMAIN toJetson /\ Head(toJetson) = toJetson[1]
    BY <2>1, QueueFacts, TailFacts
  <2>3. door_status' = [item |-> IF toJetson[1].state = "OPEN" THEN last_commanded_item ELSE "ALL",
                        state |-> toJetson[1].state, of |-> toJetson[1].of]
    BY <1>1, <2>2 DEF rx_loop
  <2> QED
    BY <2>2, <2>3
<1>2. CASE JetsonRestarts
  BY <1>2 DEF JetsonRestarts, DoorStatus
<1>3. Jetson => rx_loop \/ JetsonRestarts \/ door_status' = door_status
  BY DEF Jetson, send_command, send_frame, Write
<1>4. Mcu \/ Kiosk \/ UNCHANGED vars => door_status' = door_status
  BY DEF Mcu, ReadLine, LoseLine, HandleLine, CloseGate, ReportGate, McuRestarts,
         Kiosk, Reconnect, startSession, EndSession, processFrameMetadata, vars
<1> QED
  BY <1>1, <1>2, <1>3, <1>4 DEF Next

(* A door shown open ahead of the kiosk was there already, or it is a report   *)
(* just read.                                                                  *)
LEMMA DoorsMove ==
  ASSUME TypeOK, [Next]_vars, NEW k \in Ahead', DoorAt(k)'.state = "OPEN"
  PROVE  \/ \E j \in Ahead : DoorAt(k)' = DoorAt(j)
         \/ \E i \in DOMAIN toJetson :
              /\ toJetson[i].state = "OPEN"
              /\ DoorAt(k)' = [item |-> last_commanded_item, state |-> "OPEN", of |-> toJetson[i].of]
<1> USE DEF mcu, uart, jetson, qt, receipts
<1>1. Len(toQt) + 1 \in Ahead /\ DoorAt(Len(toQt) + 1) = door_status
  BY Doors
<1>2. CASE DoorAt(k)' = door_status'
  BY <1>1, <1>2, CacheMoves
<1>3. ASSUME k \in DOMAIN toQt', DoorAt(k)' = toQt'[k].door
      PROVE  \/ \E j \in Ahead : DoorAt(k)' = DoorAt(j)
             \/ DoorAt(k)' = door_status
  <2>1. CASE toQt' = toQt
    BY <1>3, <2>1 DEF Ahead, DoorAt
  <2>2. CASE toQt' = <<>>
    BY <1>3, <2>2
  <2>3. CASE toQt # <<>> /\ toQt' = Tail(toQt)
    <3>1. \A j \in DOMAIN Tail(toQt) : j + 1 \in DOMAIN toQt /\ Tail(toQt)[j] = toQt[j + 1]
      BY <2>3, QueueFacts, TailFacts
    <3> QED
      BY <1>3, <2>3, <3>1 DEF Ahead, DoorAt
  <2>4. ASSUME NEW shown \in Shown, toQt' = Append(toQt, [door |-> door_status, shown |-> shown])
        PROVE  \/ \E j \in Ahead : DoorAt(k)' = DoorAt(j)
               \/ DoorAt(k)' = door_status
    <3>1. [door |-> door_status, shown |-> shown] \in Frames
      BY DEF TypeOK, Frames
    <3>2. /\ DOMAIN toQt = 1..Len(toQt) /\ DOMAIN toQt' = 1..(Len(toQt) + 1) /\ Len(toQt) \in Nat
          /\ \A j \in DOMAIN toQt : toQt'[j] = toQt[j]
          /\ toQt'[Len(toQt) + 1] = [door |-> door_status, shown |-> shown]
      BY <2>4, <3>1, QueueFacts, AppendFacts
    <3>3. CASE k \in DOMAIN toQt
      BY <1>3, <3>2, <3>3 DEF Ahead, DoorAt
    <3>4. CASE k = Len(toQt) + 1
      BY <1>3, <3>2, <3>4
    <3> QED
      BY <1>3, <3>2, <3>3, <3>4
  <2>5. Mcu \/ UNCHANGED vars => toQt' = toQt
    BY DEF Mcu, ReadLine, LoseLine, HandleLine, CloseGate, ReportGate, McuRestarts, vars
  <2>6. Jetson => \/ toQt' = toQt \/ toQt' = <<>>
                  \/ \E shown \in Shown : toQt' = Append(toQt, [door |-> door_status, shown |-> shown])
    BY DEF Jetson, send_command, send_frame, Write, rx_loop, JetsonRestarts
  <2>7. Kiosk => \/ toQt' = toQt \/ toQt' = <<>>
                 \/ toQt # <<>> /\ toQt' = Tail(toQt)
    BY DEF Kiosk, Reconnect, startSession, EndSession, processFrameMetadata
  <2> QED
    BY <2>1, <2>2, <2>3, <2>4, <2>5, <2>6, <2>7 DEF Next
<1>4. (k \in DOMAIN toQt' /\ DoorAt(k)' = toQt'[k].door) \/ DoorAt(k)' = door_status'
  BY DEF DoorAt
<1> QED
  BY <1>1, <1>2, <1>3, <1>4

-----------------------------------------------------------------------------
(* Openings that earlier sessions counted.  They are behind whatever the MCU   *)
(* still has to tell, and where the cache or a frame still shows one open, it  *)
(* did so when the session began.                                              *)
PaidBefore(n) == \A s \in paid : s < n

PaidAreNumbers == PaidBefore(opening.number + 1)

UnreportedIsUnpaid == gate = "OPEN" /\ prev = "CLOSED" => PaidBefore(opening.number)

ReportIsUnpaid ==
  \A i \in DOMAIN toJetson :
    toJetson[i].state = "OPEN" => PaidBefore(toJetson[i].of.number)

PaidIsStale ==
  \A k \in Ahead :
    DoorAt(k).state = "OPEN" /\ DoorAt(k).of.number \in paid => DoorAt(k).of.number \in stale

PaidInv == PaidAreNumbers /\ UnreportedIsUnpaid /\ ReportIsUnpaid /\ PaidIsStale

(* Before a session begins nothing that is counted is ahead of the gate.       *)
LEMMA SessionPaid ==
  ASSUME TypeOK, LinkInv, PaidInv, startSession
  PROVE  PaidInv'
<1>1. /\ UNCHANGED <<gate, prev, opening, toJetson, door_status, toQt>>
      /\ paid' = paid \cup seen
      /\ stale' = {s.of.number : s \in {d \in {door_status} \cup {toQt[k].door : k \in DOMAIN toQt} :
                                           d.state = "OPEN"}}
  BY DEF startSession, mcu, uart, jetson
<1>2. \A n : PaidBefore(n) /\ (\A s \in seen : s < n) => PaidBefore(n)'
  BY <1>1 DEF PaidBefore
<1>3. PaidAreNumbers' /\ UnreportedIsUnpaid' /\ ReportIsUnpaid'
  <2>1. PaidAreNumbers'
    BY <1>1, <1>2 DEF PaidInv, PaidAreNumbers, LinkInv, NumbersGrow, Before, PaidBefore
  <2>2. UnreportedIsUnpaid'
    BY <1>1, <1>2 DEF PaidInv, UnreportedIsUnpaid, LinkInv, UnreportedIsNew, Before, PaidBefore
  <2>3. ReportIsUnpaid'
    BY <1>1, <1>2 DEF PaidInv, ReportIsUnpaid, LinkInv, ReportIsNew, Before, PaidBefore
  <2> QED
    BY <2>1, <2>2, <2>3
<1>4. PaidIsStale'
  <2>1. Ahead' = Ahead /\ \A k \in Ahead : DoorAt(k)' = DoorAt(k)
    BY <1>1 DEF Ahead, DoorAt
  <2>2. \A k \in Ahead : DoorAt(k) \in {door_status} \cup {toQt[j].door : j \in DOMAIN toQt}
    BY DEF DoorAt
  <2>3. \A k \in Ahead : DoorAt(k).state = "OPEN" => DoorAt(k).of.number \in stale'
    BY <1>1, <2>2
  <2> QED
    BY <2>1, <2>3 DEF PaidIsStale
<1> QED
  BY <1>3, <1>4 DEF PaidInv

(* Only startSession moves counts to the earlier sessions.                     *)
LEMMA PaidMoves ==
  ASSUME [Next]_vars, ~startSession
  PROVE  UNCHANGED <<paid, stale>>
<1>1. Mcu \/ UNCHANGED vars => UNCHANGED <<paid, stale>>
  BY DEF Mcu, ReadLine, LoseLine, HandleLine, CloseGate, ReportGate, McuRestarts, receipts, vars
<1>2. Jetson => UNCHANGED <<paid, stale>>
  BY DEF Jetson, send_command, send_frame, Write, rx_loop, JetsonRestarts, receipts
<1>3. Kiosk => UNCHANGED <<paid, stale>>
  BY DEF Kiosk, Reconnect, EndSession, processFrameMetadata, receipts
<1> QED
  BY <1>1, <1>2, <1>3 DEF Next

(* The last report changes with the gate only, to what the gate is.            *)
LEMMA PrevMoves ==
  ASSUME [Next]_vars
  PROVE  prev' = prev \/ prev' = gate'
<1>1. Mcu => prev' = prev \/ prev' = gate'
  BY DEF Mcu, ReadLine, LoseLine, HandleLine, CloseGate, ReportGate, McuRestarts,
         MCU!Receive, MCU!Open, MCU!Skip, MCU!Close, MCU!Report, mcu
<1>2. Jetson \/ UNCHANGED vars => prev' = prev
  BY DEF Jetson, send_command, send_frame, Write, rx_loop, JetsonRestarts, mcu, vars
<1>3. Kiosk => prev' = prev
  BY DEF Kiosk, Reconnect, startSession, EndSession, processFrameMetadata, mcu
<1> QED
  BY <1>1, <1>2, <1>3 DEF Next

LEMMA StepPaid ==
  ASSUME LinkAssumption, TypeOK, TypeOK', PaidInv, [Next]_vars, ~startSession
  PROVE  PaidInv'
<1>1. UNCHANGED <<paid, stale>>
  BY PaidMoves
<1>2. /\ opening.number \in Nat /\ opening'.number \in Nat /\ opening.number <= opening'.number
      /\ gate # "OPEN" /\ gate' = "OPEN" => opening'.number = opening.number + 1
  <2>1. opening.number \in Nat /\ opening'.number \in Nat
    BY DEF TypeOK, Openings
  <2>2. CASE UNCHANGED opening
    BY <2>1, <2>2, OpeningMoves
  <2>3. CASE opening'.number = opening.number + (IF gate = "OPEN" THEN 0 ELSE 1)
    BY <2>1, <2>3
  <2> QED
    BY <2>2, <2>3, OpeningMoves
<1>3. paid \subseteq Nat
  BY DEF TypeOK
<1>4. PaidAreNumbers'
  BY <1>1, <1>2, <1>3 DEF PaidInv, PaidAreNumbers, PaidBefore
<1>5. UnreportedIsUnpaid'
  <2> SUFFICES ASSUME gate' = "OPEN", prev' = "CLOSED"
               PROVE  PaidBefore(opening.number)'
    BY DEF UnreportedIsUnpaid
  <2>1. prev = "CLOSED"
    BY PrevMoves
  <2>2. CASE gate = "OPEN"
    BY <1>1, <1>2, <1>3, <2>1, <2>2 DEF PaidInv, UnreportedIsUnpaid, PaidBefore
  <2>3. CASE gate # "OPEN"
    BY <1>1, <1>2, <1>3, <2>3 DEF PaidInv, PaidAreNumbers, PaidBefore
  <2> QED
    BY <2>2, <2>3
<1>6. ReportIsUnpaid'
  <2> SUFFICES ASSUME NEW i \in DOMAIN toJetson', toJetson[i]'.state = "OPEN"
               PROVE  PaidBefore(toJetson[i].of.number)'
    BY DEF ReportIsUnpaid
  <2>1. CASE \E j \in DOMAIN toJetson : toJetson[i]' = toJetson[j]
    BY <1>1, <2>1 DEF PaidInv, ReportIsUnpaid, PaidBefore
  <2>2. CASE toJetson[i]'.of = opening /\ gate = "OPEN" /\ prev = "CLOSED"
    BY <1>1, <2>2 DEF PaidInv, UnreportedIsUnpaid, PaidBefore
  <2> QED
    BY <2>1, <2>2, ReportsMove
<1>7. PaidIsStale'
  <2> SUFFICES ASSUME NEW k \in Ahead', DoorAt(k)'.state = "OPEN", DoorAt(k)'.of.number \in paid
               PROVE  DoorAt(k)'.of.number \in stale
    BY <1>1 DEF PaidIsStale
  <2>1. CASE \E j \in Ahead : DoorAt(k)' = DoorAt(j)
    BY <2>1 DEF PaidInv, PaidIsStale
  <2>2. ASSUME NEW i \in DOMAIN toJetson, toJetson[i].state = "OPEN",
               DoorAt(k)' = [item |-> last_commanded_item, state |-> "OPEN", of |-> toJetson[i].of]
        PROVE  DoorAt(k)'.of.number \in stale
    <3>1. DoorAt(k)'.of.number = toJetson[i].of.number
      BY <2>2
    <3>2. toJetson[i].of.number < toJetson[i].of.number /\ toJetson[i].of.number \in Nat
      BY <1>3, <2>2, <3>1 DEF PaidInv, ReportIsUnpaid, PaidBefore
    <3> QED
      BY <3>2
  <2> QED
    BY <2>1, <2>2, DoorsMove
<1> QED
  BY <1>4, <1>5, <1>6, <1>7 DEF PaidInv

LEMMA InitPaid == Init => PaidInv
  BY DEF Init, PaidInv, PaidAreNumbers, UnreportedIsUnpaid, ReportIsUnpaid, PaidIsStale, PaidBefore

LEMMA PaidHolds == Spec => [](TypeOK /\ LinkInv /\ PaidInv)
<1>1. LinkAssumption
  BY LinkAssumption
<1>2. TypeOK /\ TypeOK' /\ LinkInv /\ LinkAssumption /\ PaidInv /\ [Next]_vars => PaidInv'
  BY SessionPaid, StepPaid
<1> QED
  BY <1>1, <1>2, InitPaid, LinkHolds, PTL DEF Spec

(* Whatever is lost, late or restarted, a session counts an opening that an    *)
(* earlier one was given only where the door was still shown open when it      *)
(* began.                                                                      *)
THEOREM PaidAgainIsStale == Spec => PaidAgainOnlyIfStale
<1>1. TypeOK /\ PaidInv /\ [Next]_vars => [Counts => (seen' \ seen) \cap paid \subseteq stale]_vars
  <2> SUFFICES ASSUME TypeOK, PaidInv, [Next]_vars, Counts
               PROVE  (seen' \ seen) \cap paid \subseteq stale
    OBVIOUS
  <2> QED
    BY CountedDoor DEF PaidInv, PaidIsStale
<1> QED
  BY <1>1, PaidHolds, PTL DEF Spec, PaidAgainOnlyIfStale

-----------------------------------------------------------------------------
(* The class of an item.  As long as neither a command nor a restart came      *)
(* before the last edge was read, whatever is on its way from the command to   *)
(* the cache is of the class of the Jetson's last command, and what the cache  *)
(* and the frames show open is labelled with its own class.                    *)
Labelled(type) == type \in Types /\ type = last_commanded_item

CommandsLabelled ==
  /\ sending \in Types => Labelled(sending)
  /\ \A i \in DOMAIN toMcu : toMcu[i] \in Types => Labelled(toMcu[i])
  /\ rx \in Types => Labelled(rx)

EdgesLabelled ==
  /\ gate = "OPEN" /\ prev = "CLOSED" => Labelled(opening.type)
  /\ \A i \in DOMAIN toJetson : toJetson[i].state = "OPEN" => Labelled(toJetson[i].of.type)

DoorsLabelled ==
  \A k \in Ahead :
    DoorAt(k).state = "OPEN" => DoorAt(k).of.type \in Types /\ DoorAt(k).item = DoorAt(k).of.type

RightInv == ~hurried => CommandsLabelled /\ EdgesLabelled /\ DoorsLabelled

(* What a step other than a command and a restart of the Jetson keeps.         *)
LEMMA LabelStays ==
  ASSUME [Next]_vars, \A command \in Commands : ~send_command(command), ~JetsonRestarts
  PROVE  /\ UNCHANGED <<last_commanded_item, hurried>>
         /\ sending' = sending \/ sending' = NoCommand
<1>1. Mcu \/ UNCHANGED vars => UNCHANGED <<last_commanded_item, hurried, sending>>
  BY DEF Mcu, ReadLine, LoseLine, HandleLine, CloseGate, ReportGate, McuRestarts, jetson, vars
<1>2. Jetson => /\ UNCHANGED <<last_commanded_item, hurried>>
                /\ sending' = sending \/ sending' = NoCommand
  BY DEF Jetson, send_frame, Write, rx_loop, jetson
<1>3. Kiosk => UNCHANGED <<last_commanded_item, hurried, sending>>
  BY DEF Kiosk, Reconnect, startSession, EndSession, processFrameMetadata, jetson
<1> QED
  BY <1>1, <1>2, <1>3 DEF Next

(* A line on its way to the MCU was on its way, or it is the one being sent.   *)
LEMMA LinesMove ==
  ASSUME TypeOK, [Next]_vars, NEW i \in DOMAIN toMcu'
  PROVE  \/ \E j \in DOMAIN toMcu : toMcu'[i] = toMcu[j]
         \/ toMcu'[i] = sending
<1>1. CASE toMcu' = toMcu
  BY <1>1
<1>2. CASE toMcu' = <<>>
  BY <1>2
<1>3. CASE toMcu # <<>> /\ toMcu' = Tail(toMcu)
  <2>1. \A j \in DOMAIN Tail(toMcu) : j + 1 \in DOMAIN toMcu /\ Tail(toMcu)[j] = toMcu[j + 1]
    BY <1>3, TailFacts DEF TypeOK
  <2> QED
    BY <1>3, <2>1
<1>4. CASE sending # NoCommand /\ toMcu' = Append(toMcu, sending)
  <2>1. /\ DOMAIN toMcu = 1..Len(toMcu) /\ DOMAIN toMcu' = 1..(Len(toMcu) + 1)
        /\ \A j \in DOMAIN toMcu : toMcu'[j] = toMcu[j]
        /\ toMcu'[Len(toMcu) + 1] = sending
        /\ Len(toMcu) \in Nat
    BY <1>4, AppendFacts, ElementFacts DEF TypeOK
  <2> QED
    BY <2>1
<1>5. Mcu => ReadLine \/ LoseLine \/ toMcu' = toMcu
  BY DEF Mcu, HandleLine, CloseGate, ReportGate, McuRestarts, uart
<1>6. ReadLine \/ LoseLine => toMcu # <<>> /\ toMcu' = Tail(toMcu)
  BY DEF ReadLine, LoseLine
<1>7. Jetson => \/ toMcu' = toMcu \/ toMcu' = <<>>
                \/ sending # NoCommand /\ toMcu' = Append(toMcu, sending)
  BY DEF Jetson, send_command, send_frame, Write, rx_loop, JetsonRestarts, uart
<1>8. Kiosk \/ UNCHANGED vars => toMcu' = toMcu
  BY DEF Kiosk, Reconnect, startSession, EndSession, processFrameMetadata, uart, vars
<1> QED
  BY <1>1, <1>2, <1>3, <1>4, <1>5, <1>6, <1>7, <1>8 DEF Next

(* A class in the mailbox was there or is the line the UART held first.        *)
LEMMA MailMoves ==
  ASSUME LinkAssumption, TypeOK, [Next]_vars, rx' \in Types
  PROVE  \/ rx' = rx
         \/ \E i \in DOMAIN toMcu : rx' = toMcu[i]
<1>1. CASE ReadLine
  <2>1. toMcu # <<>> /\ rx' = IF Head(toMcu) = "ALL" THEN "OTHER" ELSE Head(toMcu)
    BY <1>1 DEF ReadLine, MCU!Receive
  <2>2. 1 \in DOMAIN toMcu /\ Head(toMcu) = toMcu[1]
    BY <2>1, TailFacts DEF TypeOK
  <2>3. rx' = toMcu[1]
    BY <2>1, <2>2 DEF LinkAssumption
  <2> QED
    BY <2>2, <2>3
<1>2. Mcu => ReadLine \/ rx' = rx \/ rx' = "EMPTY"
  BY DEF Mcu, LoseLine, HandleLine, CloseGate, ReportGate, McuRestarts,
         MCU!Open, MCU!Skip, MCU!Close, MCU!Report, mcu
<1>3. Jetson \/ UNCHANGED vars => rx' = rx
  BY DEF Jetson, send_command, send_frame, Write, rx_loop, JetsonRestarts, mcu, vars
<1>4. Kiosk => rx' = rx
  BY DEF Kiosk, Reconnect, startSession, EndSession, processFrameMetadata, mcu
<1> QED
  BY <1>1, <1>2, <1>3, <1>4 DEF Next, LinkAssumption

(* A command comes when nothing is on its way, or in a hurry.                  *)
LEMMA CommandRight ==
  ASSUME LinkAssumption, TypeOK, RightInv, NEW command \in Commands, send_command(command)
  PROVE  RightInv'
<1> SUFFICES ASSUME ~hurried' PROVE CommandsLabelled' /\ EdgesLabelled' /\ DoorsLabelled'
  BY DEF RightInv
<1>1. /\ UNCHANGED <<rx, gate, prev, toMcu, toJetson, door_status, toQt, opening>>
      /\ sending' = command /\ ~hurried /\ Quiet
      /\ last_commanded_item' = IF command = "CLOSE" THEN "ALL" ELSE command
  BY DEF send_command, mcu, uart
<1>2. "CLOSE" \notin Types /\ "EMPTY" \notin Types
  BY DEF LinkAssumption
<1>3. DOMAIN toMcu' = {} /\ DOMAIN toJetson' = {} /\ rx' \notin Types /\ prev' = gate'
  BY <1>1, <1>2 DEF Quiet
<1>4. sending' \in Types => Labelled(sending)'
  BY <1>1, <1>2 DEF Labelled
<1>5. CommandsLabelled'
  BY <1>3, <1>4 DEF CommandsLabelled
<1>6. EdgesLabelled'
  BY <1>3 DEF EdgesLabelled
<1>7. DoorsLabelled'
  BY <1>1 DEF RightInv, DoorsLabelled, Ahead, DoorAt
<1> QED
  BY <1>5, <1>6, <1>7

LEMMA RestartRight ==
  ASSUME LinkAssumption, TypeOK, RightInv, JetsonRestarts
  PROVE  RightInv'
<1> SUFFICES ASSUME ~hurried' PROVE CommandsLabelled' /\ EdgesLabelled' /\ DoorsLabelled'
  BY DEF RightInv
<1>1. /\ UNCHANGED <<rx, gate, prev>> /\ Quiet /\ sending' = NoCommand
      /\ toMcu' = <<>> /\ toJetson' = <<>> /\ toQt' = <<>>
  BY DEF JetsonRestarts, mcu
<1>2. NoCommand \notin Types /\ "EMPTY" \notin Types
  BY DEF LinkAssumption, NoCommand
<1>3. DOMAIN toMcu' = {} /\ DOMAIN toJetson' = {} /\ rx' \notin Types /\ prev' = gate'
  BY <1>1, <1>2 DEF Quiet
<1>4. CommandsLabelled'
  BY <1>1, <1>2, <1>3 DEF CommandsLabelled
<1>5. EdgesLabelled'
  BY <1>3 DEF EdgesLabelled
<1>6. Ahead' = {1} /\ DoorAt(1)' = door_status'
  BY <1>1, NoFrames
<1>7. door_status'.state = "CLOSED"
  BY DEF JetsonRestarts, DoorStatus
<1>8. DoorsLabelled'
  BY <1>6, <1>7 DEF DoorsLabelled
<1> QED
  BY <1>4, <1>5, <1>8

(* Any other step hands the class on: from the command to the line, the        *)
(* mailbox, the gate, the report, the cache and the frame.                     *)
LEMMA OtherRight ==
  ASSUME LinkAssumption, TypeOK, RightInv, [Next]_vars,
         \A command \in Commands : ~send_command(command), ~JetsonRestarts
  PROVE  RightInv'
<1> SUFFICES ASSUME ~hurried' PROVE CommandsLabelled' /\ EdgesLabelled' /\ DoorsLabelled'
  BY DEF RightInv
<1>1. /\ UNCHANGED <<last_commanded_item, hurried>>
      /\ sending' = sending \/ sending' = NoCommand
  BY LabelStays
<1>2. CommandsLabelled /\ EdgesLabelled /\ DoorsLabelled
  BY <1>1 DEF RightInv
<1>3. \A type : Labelled(type) => Labelled(type)'
  BY <1>1 DEF Labelled
<1>4. CommandsLabelled'
  <2>1. sending' \in Types => Labelled(sending)'
    BY <1>1, <1>2 DEF CommandsLabelled, Labelled, LinkAssumption, NoCommand
  <2>2. ASSUME NEW i \in DOMAIN toMcu', toMcu'[i] \in Types
        PROVE  Labelled(toMcu[i])'
    BY <1>1, <1>2, <2>2, LinesMove DEF CommandsLabelled, Labelled
  <2>3. rx' \in Types => Labelled(rx)'
    BY <1>1, <1>2, MailMoves DEF CommandsLabelled, Labelled
  <2> QED
    BY <2>1, <2>2, <2>3 DEF CommandsLabelled
<1>5. EdgesLabelled'
  <2>1. ASSUME gate' = "OPEN", prev' = "CLOSED"
        PROVE  Labelled(opening.type)'
    <3>1. prev = "CLOSED"
      BY <2>1, PrevMoves
    <3>2. CASE UNCHANGED <<gate, opening>>
      BY <1>1, <1>2, <2>1, <3>1, <3>2 DEF EdgesLabelled, Labelled
    <3>3. CASE rx \in Types /\ opening'.type = rx
      BY <1>1, <1>2, <3>3 DEF CommandsLabelled, Labelled
    <3> QED
      BY <2>1, <3>2, <3>3, OpeningMoves
  <2>2. ASSUME NEW i \in DOMAIN toJetson', toJetson[i]'.state = "OPEN"
        PROVE  Labelled(toJetson[i].of.type)'
    BY <1>1, <1>2, <2>2, ReportsMove DEF EdgesLabelled, Labelled
  <2> QED
    BY <2>1, <2>2 DEF EdgesLabelled
<1>6. DoorsLabelled'
  <2> SUFFICES ASSUME NEW k \in Ahead', DoorAt(k)'.state = "OPEN"
               PROVE  DoorAt(k)'.of.type \in Types /\ DoorAt(k)'.item = DoorAt(k)'.of.type
    BY DEF DoorsLabelled
  <2>1. CASE \E j \in Ahead : DoorAt(k)' = DoorAt(j)
    BY <1>2, <2>1 DEF DoorsLabelled
  <2>2. ASSUME NEW i \in DOMAIN toJetson, toJetson[i].state = "OPEN",
               DoorAt(k)' = [item |-> last_commanded_item, state |-> "OPEN", of |-> toJetson[i].of]
        PROVE  DoorAt(k)'.of.type \in Types /\ DoorAt(k)'.item = DoorAt(k)'.of.type
    <3>1. Labelled(toJetson[i].of.type)
      BY <1>2, <2>2 DEF EdgesLabelled
    <3> QED
      BY <2>2, <3>1 DEF Labelled
  <2> QED
    BY <2>1, <2>2, DoorsMove
<1> QED
  BY <1>4, <1>5, <1>6

LEMMA InitRight == LinkAssumption /\ Init => RightInv
<1> SUFFICES ASSUME LinkAssumption, Init PROVE CommandsLabelled /\ EdgesLabelled /\ DoorsLabelled
  BY DEF RightInv
<1>1. /\ rx = "EMPTY" /\ gate = "CLOSED" /\ toMcu = <<>> /\ toJetson = <<>> /\ toQt = <<>>
      /\ sending = NoCommand /\ door_status.state = "CLOSED"
  BY DEF Init, MCU!Init, DoorStatus
<1>2. NoCommand \notin Types /\ "EMPTY" \notin Types
  BY DEF LinkAssumption, NoCommand
<1>3. DOMAIN toMcu = {} /\ DOMAIN toJetson = {} /\ DOMAIN toQt = {}
  BY <1>1
<1>4. CommandsLabelled /\ EdgesLabelled
  BY <1>1, <1>2, <1>3 DEF CommandsLabelled, EdgesLabelled
<1>5. DoorsLabelled
  BY <1>1, <1>3 DEF DoorsLabelled, DoorAt
<1> QED
  BY <1>4, <1>5

LEMMA RightHolds == Spec => [](TypeOK /\ RightInv)
<1>1. LinkAssumption
  BY LinkAssumption
<1>2. LinkAssumption /\ TypeOK /\ RightInv /\ [Next]_vars => RightInv'
  BY CommandRight, RestartRight, OtherRight
<1> QED
  BY <1>1, <1>2, InitRight, LinkType, PTL DEF Spec

(* An item is counted under the class its opening was commanded for, whatever  *)
(* is lost or restarted at the MCU and the kiosk, as long as the Jetson gives  *)
(* its label no reason to disagree with the gate.                              *)
THEOREM RightClassCounted == Spec => CountsRightClass
<1>1. TypeOK /\ RightInv /\ [Next]_vars =>
        [Counts /\ ~hurried =>
           LET of == Head(toQt).door.of IN m_summary' = [m_summary EXCEPT ![of.type] = @ + 1]]_vars
  <2> SUFFICES ASSUME TypeOK, RightInv, [Next]_vars, Counts, ~hurried
               PROVE  m_summary' = [m_summary EXCEPT ![Head(toQt).door.of.type] = @ + 1]
    OBVIOUS
  <2>1. /\ processFrameMetadata /\ 1 \in Ahead /\ DoorAt(1).state = "OPEN"
        /\ Head(toQt).door = DoorAt(1)
    BY CountedDoor
  <2>2. DoorAt(1).of.type \in Types /\ DoorAt(1).item = DoorAt(1).of.type
    BY <2>1 DEF RightInv, DoorsLabelled
  <2>3. m_isActive /\ m_summary' # m_summary
    BY DEF Counts
  <2>4. Count(DoorAt(1))
    BY <2>1, <2>3 DEF processFrameMetadata, qt
  <2> QED
    BY <2>1, <2>2, <2>4 DEF Count, Category
<1> QED
  BY <1>1, RightHolds, PTL DEF Spec, CountsRightClass
=============================================================================
