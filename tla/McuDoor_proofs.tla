--------------------------- MODULE McuDoor_proofs ---------------------------
(* Safety of the sorter's door for every value of its constants. *)
EXTENDS McuDoor, TLAPS

(* A product of naturals is one: a ramp step never turns a servo backwards. *)
LEMMA ProductNat == \A a, b \in Nat : a * b \in Nat
  BY SMT

(* A ramp step stays between where the servo is and where it goes. *)
LEMMA ClampedStep ==
  \A c, t \in 0..180, d \in Nat :
    (IF c < t THEN IF c + d >= t THEN t ELSE c + d
              ELSE IF c - d <= t THEN t ELSE c - d) \in 0..180
  BY SMT

LEMMA RampStays ==
  ASSUME TypeOK, NEW s \in Servos
  PROVE  Ramped(s) \in 0..180
<1>1. speed[s] * since[s] \in Nat
  BY ProductNat DEF TypeOK
<1>2. cur[s] \in 0..180 /\ target[s] \in 0..180
  BY DEF TypeOK
<1> QED
  BY <1>1, <1>2, ClampedStep, Zenon DEF Ramped

(* What the driver keeps after Servo_Set_Angle_Speed on a table of angles. *)
LEMMA RampToType ==
  ASSUME DoorAssumption, TypeOK, NEW angles, \A s \in DOMAIN angles : angles[s] \in 0..180,
         RampTo(angles)
  PROVE  /\ target' \in [Servos -> 0..180]
         /\ speed' \in [Servos -> Nat]
         /\ since' \in [Servos -> Nat]
         /\ cur' \in [Servos -> 0..180]
         /\ horn' \in [Servos -> 0..180]
  BY DEF TypeOK, RampTo, DoorAssumption

LEMMA AnglesInRange ==
  /\ DOMAIN Neutral = Servos
  /\ \A s \in Servos : Neutral[s] \in 0..180
  /\ \A type : /\ DOMAIN BottomRoute(type) = Bottoms
               /\ \A s \in Bottoms : BottomRoute(type)[s] \in 0..180
               /\ Top_Angle_For(type) \in 0..180
  BY DEF Neutral, BottomRoute, Top_Angle_For, Servos, Bottoms

-----------------------------------------------------------------------------
LEMMA InitType == DoorAssumption /\ Init => TypeOK
<1> SUFFICES ASSUME DoorAssumption, Init PROVE TypeOK
  OBVIOUS
<1>1. horn \in [Servos -> 0..180]
  <2>1. Neutral = [s \in Servos |-> Neutral[s]]
    BY DEF Neutral
  <2> QED
    BY <2>1, AnglesInRange DEF Init
<1>2. cur \in [Servos -> 0..180] /\ target \in [Servos -> 0..180]
      /\ speed \in [Servos -> Nat] /\ since \in [Servos -> Nat]
  BY DEF Init
<1>3. ticks \in 0..(LoopTicks + ReportTicks) /\ reportAge \in 0..ReportPeriod /\ openAge \in Nat
  BY DEF DoorAssumption, Init
<1>4. closeReq \in BOOLEAN /\ topPending \in BOOLEAN /\ serviced \in BOOLEAN /\ reopened \in BOOLEAN
  BY DEF Init
<1> QED
  BY <1>1, <1>2, <1>3, <1>4, Zenon DEF Init, TypeOK

LEMMA StepType == DoorAssumption /\ TypeOK /\ [Next]_vars => TypeOK'
<1> SUFFICES ASSUME DoorAssumption, TypeOK, [Next]_vars
             PROVE  TypeOK'
  OBVIOUS
<1>1. CASE SysTick_Handler
  BY <1>1 DEF SysTick_Handler, TypeOK, DoorAssumption
<1>2. ASSUME NEW line \in Lines, USART2_IRQHandler(line)
      PROVE  TypeOK'
  BY <1>2 DEF USART2_IRQHandler, TypeOK, gateVars, servoVars
<1>3. CASE HandleOpen
  <2>1. rx \in OpenLines
    BY <1>3 DEF HandleOpen, TypeOK, Lines, ServiceLines, NoLine, OpenLines
  <2>2. CASE rx.type = "NONE"
    BY <1>3, <2>2 DEF HandleOpen, Goto, TypeOK, gateVars, servoVars
  <2>3. CASE rx.type # "NONE"
    <3>1. Recycle_Door_Open(rx.type) /\ reopened' = (gate = "OPEN")
      BY <1>3, <2>3 DEF HandleOpen
    <3>2. rx.type \in Types
      BY <2>1, <2>3 DEF OpenLines
    <3>3. /\ target' \in [Servos -> 0..180] /\ speed' \in [Servos -> Nat]
          /\ since' \in [Servos -> Nat]
          /\ cur' \in [Servos -> 0..180] /\ horn' \in [Servos -> 0..180]
      BY <3>1, RampToType, AnglesInRange DEF Recycle_Door_Open
    <3> QED
      BY <1>3, <3>1, <3>2, <3>3 DEF HandleOpen, Goto, Recycle_Door_Open, TypeOK
  <2> QED
    BY <2>2, <2>3
<1>4. CASE HandleClose
  BY <1>4 DEF HandleClose, Goto, TypeOK, servoVars
<1>5. CASE NoLineReady
  BY <1>5 DEF NoLineReady, Goto, TypeOK, gateVars, servoVars
<1>6. CASE Handle_Servo_Command
  <2>1. rx \in ServiceLines
    BY <1>6 DEF Handle_Servo_Command, TypeOK, Lines, OpenLines, NoLine, ServiceLines
  <2>2. /\ rx.move.servo \in Servos /\ rx.move.angle \in 0..180 /\ rx.move.speed \in Nat
    BY <2>1 DEF ServiceLines, DoorAssumption
  <2> QED
    BY <1>6, <2>2 DEF Handle_Servo_Command, Goto, TypeOK, gateVars
<1>7. CASE ReportGate
  BY <1>7 DEF ReportGate, Goto, TypeOK, servoVars
<1>8. CASE Servo_Update
  <2>1. /\ cur' \in [Servos -> 0..180] /\ horn' \in [Servos -> 0..180]
    BY <1>8, RampStays DEF Servo_Update, TypeOK
  <2> QED
    BY <1>8, <2>1 DEF Servo_Update, Goto, TypeOK, gateVars
<1>9. CASE Recycle_Update
  <2>1. CASE UNCHANGED <<servoVars, topPending>>
    BY <1>9, <2>1 DEF Recycle_Update, Goto, TypeOK, servoVars
  <2>2. CASE RampTo([s \in {"TOP"} |-> Top_Angle_For(pendingRoute)]) /\ topPending' = FALSE
    <3>1. /\ target' \in [Servos -> 0..180] /\ speed' \in [Servos -> Nat]
          /\ since' \in [Servos -> Nat]
          /\ cur' \in [Servos -> 0..180] /\ horn' \in [Servos -> 0..180]
      BY <2>2, RampToType, AnglesInRange
    <3> QED
      BY <1>9, <2>2, <3>1 DEF Recycle_Update, Goto, TypeOK
  <2> QED
    BY <1>9, <2>1, <2>2 DEF Recycle_Update
<1>10. CASE Recycle_Auto_Close_Update
  <2>1. CASE MustClose
    <3>1. Do_Close
      BY <1>10, <2>1 DEF Recycle_Auto_Close_Update
    <3>2. /\ target' \in [Servos -> 0..180] /\ speed' \in [Servos -> Nat]
          /\ since' \in [Servos -> Nat]
          /\ cur' \in [Servos -> 0..180] /\ horn' \in [Servos -> 0..180]
      BY <3>1, RampToType, AnglesInRange DEF Do_Close
    <3> QED
      BY <1>10, <3>1, <3>2 DEF Recycle_Auto_Close_Update, Goto, Do_Close, TypeOK
  <2>2. CASE ~MustClose
    BY <1>10, <2>2 DEF Recycle_Auto_Close_Update, Goto, TypeOK, gateVars, servoVars
  <2> QED
    BY <2>1, <2>2
<1>11. CASE StartReport
  BY <1>11 DEF StartReport, Goto, TypeOK, gateVars, servoVars, DoorAssumption
<1>12. CASE NextIteration
  BY <1>12 DEF NextIteration, TypeOK, gateVars, servoVars, DoorAssumption
<1>13. CASE UNCHANGED vars
  BY <1>13 DEF vars, gateVars, servoVars, TypeOK
<1> QED
  BY <1>1, <1>2, <1>3, <1>4, <1>5, <1>6, <1>7, <1>8, <1>9, <1>10, <1>11, <1>12, <1>13
  DEF Next, SuperLoop

(* The door's variables keep their types. *)
THEOREM DoorType == Spec => []TypeOK
<1>1. DoorAssumption
  BY DoorAssumption
<1> QED
  BY <1>1, InitType, StepType, PTL DEF Spec
-----------------------------------------------------------------------------
(* The deadline. *)

LEMMA StepDeadline == DoorAssumption /\ TypeOK /\ DeadlineInv /\ [Next]_vars => DeadlineInv'
<1> SUFFICES ASSUME DoorAssumption, TypeOK, DeadlineInv, [Next]_vars
             PROVE  DeadlineInv'
  OBVIOUS
<1> USE DEF TypeOK, DeadlineInv, DoorAssumption
<1>1. CASE SysTick_Handler
  BY <1>1 DEF SysTick_Handler
<1>2. ASSUME NEW line \in Lines, USART2_IRQHandler(line)
      PROVE  DeadlineInv'
  BY <1>2 DEF USART2_IRQHandler, gateVars
<1>3. CASE HandleOpen
  BY <1>3 DEF HandleOpen, Goto, Recycle_Door_Open, gateVars
<1>4. CASE HandleClose
  BY <1>4 DEF HandleClose, Goto
<1>5. CASE NoLineReady
  BY <1>5 DEF NoLineReady, Goto, gateVars
<1>6. CASE Handle_Servo_Command
  BY <1>6 DEF Handle_Servo_Command, Goto, gateVars
<1>7. CASE ReportGate
  BY <1>7 DEF ReportGate, Goto
<1>8. CASE Servo_Update
  BY <1>8 DEF Servo_Update, Goto, gateVars
<1>9. CASE Recycle_Update
  BY <1>9 DEF Recycle_Update, Goto
<1>10. CASE Recycle_Auto_Close_Update
  BY <1>10 DEF Recycle_Auto_Close_Update, Goto, MustClose, Do_Close, gateVars
<1>11. CASE StartReport
  BY <1>11 DEF StartReport, Goto, gateVars
<1>12. CASE NextIteration
  BY <1>12 DEF NextIteration, gateVars
<1>13. CASE UNCHANGED vars
  BY <1>13 DEF vars, gateVars
<1> QED
  BY <1>1, <1>2, <1>3, <1>4, <1>5, <1>6, <1>7, <1>8, <1>9, <1>10, <1>11, <1>12, <1>13
  DEF Next, SuperLoop

(* No sequence of lines keeps the gate open past its deadline: the last OPEN   *)
(* is at most MaxOpen ticks and one loop iteration old.                        *)
THEOREM DoorDeadline == Spec => []OpenBounded
<1>1. DoorAssumption
  BY DoorAssumption
<1>2. Init => DeadlineInv
  BY <1>1 DEF Init, DeadlineInv, DoorAssumption
<1>3. TypeOK /\ DeadlineInv => OpenBounded
  BY <1>1 DEF TypeOK, DeadlineInv, OpenBounded, DoorAssumption
<1> QED
  BY <1>1, <1>2, <1>3, DoorType, StepDeadline, PTL DEF Spec

-----------------------------------------------------------------------------
(* The routes. *)

(* A servo the driver was sent to turns; another keeps what it had. *)
LEMMA RampToMoves ==
  ASSUME DoorAssumption, TypeOK, NEW angles, RampTo(angles), NEW s \in Servos
  PROVE  /\ s \in DOMAIN angles => target'[s] = angles[s] /\ speed'[s] = Step /\ speed'[s] > 0
         /\ s \notin DOMAIN angles => target'[s] = target[s] /\ speed'[s] = speed[s]
         /\ cur'[s] = cur[s] /\ horn'[s] = horn[s]
  BY DEF RampTo, DoorAssumption, TypeOK

(* The ramp generator touches neither resting servos nor targets, and a servo *)
(* it brings to rest is on its target.                                        *)
LEMMA ServoUpdateKeeps ==
  ASSUME TypeOK, Servo_Update, NEW s \in Servos
  PROVE  /\ target' = target
         /\ ~(speed[s] > 0) => cur'[s] = cur[s] /\ horn'[s] = horn[s] /\ ~(speed'[s] > 0)
         /\ speed[s] > 0 => \/ speed'[s] > 0
                            \/ cur'[s] = target[s] /\ horn'[s] = target[s]
<1>1. /\ cur'[s] = IF Due(s) THEN Ramped(s) ELSE cur[s]
      /\ horn'[s] = IF Due(s) THEN Ramped(s) ELSE horn[s]
      /\ speed'[s] = IF Due(s) /\ Ramped(s) = target[s] THEN 0 ELSE speed[s]
      /\ target' = target
  BY DEF Servo_Update
<1> QED
  BY <1>1 DEF Due

LEMMA StepRest == DoorAssumption /\ TypeOK /\ RestAtTarget /\ [Next]_vars => RestAtTarget'
<1> SUFFICES ASSUME DoorAssumption, TypeOK, RestAtTarget, [Next]_vars, NEW s \in Servos,
                    ~(speed'[s] > 0)
             PROVE  cur'[s] = target'[s]
  BY DEF RestAtTarget, Servo_Is_Moving
<1>1. ASSUME UNCHANGED servoVars
      PROVE  cur'[s] = target'[s]
  BY <1>1 DEF servoVars, RestAtTarget, Servo_Is_Moving
<1>2. ASSUME NEW angles, RampTo(angles)
      PROVE  cur'[s] = target'[s]
  BY <1>2, RampToMoves DEF RestAtTarget, Servo_Is_Moving
<1>3. CASE SysTick_Handler
  BY <1>3 DEF SysTick_Handler, RestAtTarget, Servo_Is_Moving
<1>4. CASE \E line \in Lines : USART2_IRQHandler(line)
  BY <1>1, <1>4 DEF USART2_IRQHandler
<1>5. CASE HandleOpen
  BY <1>1, <1>2, <1>5 DEF HandleOpen, Recycle_Door_Open, gateVars
<1>6. CASE HandleClose \/ NoLineReady \/ ReportGate \/ StartReport \/ NextIteration
  BY <1>1, <1>6 DEF HandleClose, NoLineReady, ReportGate, StartReport, NextIteration
<1>7. CASE Handle_Servo_Command
  <2>1. rx \in ServiceLines
    BY <1>7 DEF Handle_Servo_Command, TypeOK, Lines, OpenLines, NoLine, ServiceLines
  <2>2. rx.move.servo \in Servos /\ rx.move.speed \in Nat
    BY <2>1 DEF ServiceLines, DoorAssumption
  <2>3. CASE s = rx.move.servo
    BY <1>7, <2>2, <2>3 DEF Handle_Servo_Command, TypeOK
  <2>4. CASE s # rx.move.servo
    BY <1>7, <2>4 DEF Handle_Servo_Command, TypeOK, RestAtTarget, Servo_Is_Moving
  <2> QED
    BY <2>3, <2>4
<1>8. CASE Servo_Update
  BY <1>8, ServoUpdateKeeps DEF RestAtTarget, Servo_Is_Moving
<1>9. CASE Recycle_Update
  BY <1>1, <1>2, <1>9 DEF Recycle_Update
<1>10. CASE Recycle_Auto_Close_Update
  BY <1>1, <1>2, <1>10 DEF Recycle_Auto_Close_Update, Do_Close
<1>11. CASE UNCHANGED vars
  BY <1>1, <1>11 DEF vars
<1> QED
  BY <1>3, <1>4, <1>5, <1>6, <1>7, <1>8, <1>9, <1>10, <1>11 DEF Next, SuperLoop
(* The part of DoorInv that ties the gate to the servos. *)
RouteInv == PendingWhileOpen /\ RouteKnown /\ HomeOrHoming /\ TopFollowsBottoms

LEMMA StepRoute ==
  DoorAssumption /\ TypeOK /\ RestAtTarget /\ RouteInv /\ [Next]_vars => RouteInv'
<1> SUFFICES ASSUME DoorAssumption, TypeOK, RestAtTarget, RouteInv, [Next]_vars
             PROVE  RouteInv'
  OBVIOUS
<1> USE DEF RouteInv, PendingWhileOpen, RouteKnown, HomeOrHoming, TopFollowsBottoms, Servo_Is_Moving
<1>1. ASSUME UNCHANGED <<cur, horn, target, speed, gate, openType, topPending, pendingRoute, serviced>>
      PROVE  RouteInv'
  BY <1>1
<1>2. ASSUME serviced', UNCHANGED <<gate, openType, topPending, pendingRoute>>
      PROVE  RouteInv'
  BY <1>2
<1>3. CASE SysTick_Handler
  BY <1>1, <1>3 DEF SysTick_Handler
<1>4. CASE \E line \in Lines : USART2_IRQHandler(line)
  BY <1>1, <1>4 DEF USART2_IRQHandler, gateVars, servoVars
<1>5. CASE HandleOpen
  <2>1. rx \in OpenLines
    BY <1>5 DEF HandleOpen, TypeOK, Lines, ServiceLines, NoLine, OpenLines
  <2>2. CASE rx.type = "NONE"
    BY <1>1, <1>5, <2>2 DEF HandleOpen, gateVars, servoVars
  <2>3. CASE rx.type # "NONE"
    <3>1. Recycle_Door_Open(rx.type) /\ serviced' = serviced
      BY <1>5, <2>3 DEF HandleOpen
    <3>2. rx.type \in Types
      BY <2>1, <2>3 DEF OpenLines
    <3>3. gate' = "OPEN" /\ topPending' = TRUE /\ openType' = rx.type /\ pendingRoute' = rx.type
      BY <3>1 DEF Recycle_Door_Open
    <3>4. \A b \in Bottoms : target'[b] = BottomRoute(rx.type)[b]
      BY <3>1, RampToMoves, AnglesInRange DEF Recycle_Door_Open, Bottoms, Servos
    <3> QED
      BY <3>2, <3>3, <3>4
  <2> QED
    BY <2>2, <2>3
<1>6. CASE HandleClose
  BY <1>1, <1>6 DEF HandleClose, servoVars
<1>7. CASE NoLineReady \/ ReportGate \/ StartReport \/ NextIteration
  BY <1>1, <1>7 DEF NoLineReady, ReportGate, StartReport, NextIteration, gateVars, servoVars
<1>8. CASE Handle_Servo_Command
  BY <1>2, <1>8 DEF Handle_Servo_Command, gateVars
<1>9. CASE Servo_Update
  <2>1. UNCHANGED <<gate, openType, topPending, pendingRoute, serviced>>
    BY <1>9 DEF Servo_Update, gateVars
  <2>2. Bottoms \subseteq Servos /\ "TOP" \in Servos
    BY DEF Bottoms, Servos
  <2>3. HomeOrHoming'
    <3> SUFFICES ASSUME gate = "CLOSED", ~serviced, NEW s \in Servos
                 PROVE  \/ horn'[s] = Neutral[s] /\ ~(speed'[s] > 0)
                        \/ target'[s] = Neutral[s] /\ (speed'[s] > 0 \/ horn'[s] = Neutral[s])
      BY <2>1
    <3> QED
      BY <1>9, ServoUpdateKeeps
  <2>4. TopFollowsBottoms'
    BY <1>9, <2>1, <2>2, ServoUpdateKeeps
  <2>5. RouteKnown'
    BY <1>9, <2>1, <2>2, ServoUpdateKeeps
  <2> QED
    BY <2>1, <2>3, <2>4, <2>5
<1>10. CASE Recycle_Update
  <2>1. CASE UNCHANGED <<servoVars, topPending>>
    BY <1>1, <1>10, <2>1 DEF Recycle_Update, servoVars
  <2>2. CASE ~UNCHANGED <<servoVars, topPending>>
    <3> DEFINE tops == [s \in {"TOP"} |-> Top_Angle_For(pendingRoute)]
    <3>1. /\ topPending /\ \A b \in Bottoms : ~(speed[b] > 0)
          /\ RampTo(tops) /\ topPending' = FALSE
          /\ UNCHANGED <<gate, openType, pendingRoute, serviced>>
      BY <1>10, <2>2 DEF Recycle_Update
    <3>2. gate = "OPEN" /\ gate' = "OPEN"
      BY <3>1
    <3>3. \A b \in Bottoms : target'[b] = target[b] /\ speed'[b] = speed[b] /\ cur'[b] = cur[b]
      BY <3>1, RampToMoves DEF Bottoms, Servos
    <3>4. target'["TOP"] = Top_Angle_For(pendingRoute)
      BY <3>1, RampToMoves DEF Servos
    <3>5. \A b \in Bottoms : cur[b] = target[b]
      BY <3>1 DEF RestAtTarget, Bottoms, Servos
    <3> QED
      BY <3>1, <3>2, <3>3, <3>4, <3>5
  <2> QED
    BY <2>1, <2>2
<1>11. CASE Recycle_Auto_Close_Update
  <2>1. CASE ~MustClose
    BY <1>1, <1>11, <2>1 DEF Recycle_Auto_Close_Update, gateVars, servoVars
  <2>2. CASE MustClose
    <3>1. Do_Close /\ serviced' = serviced
      BY <1>11, <2>2 DEF Recycle_Auto_Close_Update
    <3>2. gate' = "CLOSED" /\ topPending' = FALSE
      BY <3>1 DEF Do_Close
    <3>3. \A s \in Servos : target'[s] = Neutral[s] /\ speed'[s] > 0
      BY <3>1, RampToMoves, AnglesInRange DEF Do_Close
    <3> QED
      BY <3>2, <3>3
  <2> QED
    BY <2>1, <2>2
<1>12. CASE UNCHANGED vars
  BY <1>1, <1>12 DEF vars, gateVars, servoVars
<1> QED
  BY <1>3, <1>4, <1>5, <1>6, <1>7, <1>8, <1>9, <1>10, <1>11, <1>12 DEF Next, SuperLoop

LEMMA InitRoute == Init => RestAtTarget /\ RouteInv
<1> SUFFICES ASSUME Init PROVE RestAtTarget /\ RouteInv
  OBVIOUS
<1>1. \A s \in Servos : cur[s] = 90 /\ target[s] = 90 /\ speed[s] = 0 /\ horn[s] = Neutral[s]
  BY DEF Init
<1> QED
  BY <1>1 DEF Init, RestAtTarget, RouteInv, PendingWhileOpen, RouteKnown, HomeOrHoming,
              TopFollowsBottoms, Servo_Is_Moving

(* The door's inductive invariant. *)
THEOREM DoorSafe == Spec => []DoorInv
<1>1. DoorAssumption
  BY DoorAssumption
<1>2. TypeOK /\ RestAtTarget /\ RouteInv => DoorInv
  BY DEF RouteInv, DoorInv
<1> QED
  BY <1>1, <1>2, InitRoute, DoorType, StepRest, StepRoute, PTL DEF Spec

(* TOP never leads: an item can only fall along a route whose lower servos     *)
(* already rest in place, whatever OPEN and CLOSE lines interleave.            *)
THEOREM TopNeverLeads == Spec => []TopFollowsBottoms
  BY DoorSafe, PTL DEF DoorInv

(* A closed gate leaves no servo on its way into a route, and none to start. *)
THEOREM ClosedGoesHome == Spec => []ClosedIsNeutral
<1>1. DoorInv => ClosedIsNeutral
  BY DEF DoorInv, PendingWhileOpen, HomeOrHoming, ClosedIsNeutral
<1> QED
  BY <1>1, DoorSafe, PTL

-----------------------------------------------------------------------------
(* What the mailbox holds is a line of the gate's. *)
LEMMA MailboxLine ==
  ASSUME DoorAssumption, NEW line \in Lines
  PROVE  /\ line.op = "SERVICE" => line \in ServiceLines
         /\ line.op = "OPEN" => line.type \in Types \cup {"NONE"}
         /\ line.op \in {"OPEN", "SERVICE", "CLOSE"}
  BY DEF Lines, OpenLines, ServiceLines

(* Every step of the firmware is a step of the abstract gate, or none. *)
LEMMA GateStep == DoorAssumption /\ TypeOK /\ [Next]_vars => [Abstract!Next]_(Abstract!vars)
<1> SUFFICES ASSUME DoorAssumption, TypeOK, [Next]_vars
             PROVE  [Abstract!Next]_(Abstract!vars)
  OBVIOUS
<1> USE DEF Abstract!vars
<1>1. CASE SysTick_Handler
  BY <1>1 DEF SysTick_Handler, Mailbox
<1>2. ASSUME NEW line \in Lines, USART2_IRQHandler(line)
      PROVE  [Abstract!Next]_(Abstract!vars)
  <2>1. Mailbox = "EMPTY"
    BY <1>2 DEF USART2_IRQHandler, NoLine, Mailbox
  <2>2. Mailbox' \in Abstract!Lines
    BY <1>2, MailboxLine DEF USART2_IRQHandler, Mailbox, Abstract!Lines
  <2>3. Abstract!Receive(Mailbox')
    BY <1>2, <2>1 DEF USART2_IRQHandler, gateVars, Abstract!Receive
  <2> QED
    BY <2>2, <2>3 DEF Abstract!Next
<1>3. CASE HandleOpen
  <2>1. rx \in Lines /\ Mailbox' = "EMPTY"
    BY <1>3 DEF HandleOpen, TypeOK, NoLine, Mailbox
  <2>2. CASE rx.type = "NONE"
    <3>1. Mailbox = "OTHER"
      BY <1>3, <2>2 DEF HandleOpen, Mailbox
    <3>2. Abstract!Skip
      BY <1>3, <2>1, <2>2, <3>1 DEF HandleOpen, gateVars, Abstract!Skip
    <3> QED
      BY <3>2 DEF Abstract!Next
  <2>3. CASE rx.type # "NONE"
    <3>1. Mailbox = rx.type /\ rx.type \in Types
      BY <1>3, <2>1, <2>3, MailboxLine DEF HandleOpen, Mailbox
    <3>2. Abstract!Open
      BY <1>3, <2>1, <2>3, <3>1 DEF HandleOpen, Recycle_Door_Open, Abstract!Open
    <3> QED
      BY <3>2 DEF Abstract!Next
  <2> QED
    BY <2>2, <2>3
<1>4. CASE HandleClose
  <2>1. Mailbox = "CLOSE" /\ Mailbox' = "EMPTY"
    BY <1>4 DEF HandleClose, NoLine, Mailbox
  <2>2. Abstract!Skip
    BY <1>4, <2>1 DEF HandleClose, Abstract!Skip
  <2> QED
    BY <2>2 DEF Abstract!Next
<1>5. CASE NoLineReady
  BY <1>5 DEF NoLineReady, gateVars, Mailbox
<1>6. CASE Handle_Servo_Command
  <2>1. Mailbox = "OTHER" /\ Mailbox' = "EMPTY"
    BY <1>6 DEF Handle_Servo_Command, NoLine, Mailbox
  <2>2. Abstract!Skip
    BY <1>6, <2>1 DEF Handle_Servo_Command, gateVars, Abstract!Skip
  <2> QED
    BY <2>2 DEF Abstract!Next
<1>7. CASE ReportGate
  BY <1>7 DEF ReportGate, Mailbox, Abstract!Report, Abstract!Next
<1>8. CASE Servo_Update
  BY <1>8 DEF Servo_Update, gateVars, Mailbox
<1>9. CASE Recycle_Update
  BY <1>9 DEF Recycle_Update, Mailbox
<1>10. CASE Recycle_Auto_Close_Update
  <2>1. CASE MustClose
    <3>1. Abstract!Close
      BY <1>10, <2>1 DEF Recycle_Auto_Close_Update, MustClose, Do_Close, Mailbox, Abstract!Close
    <3> QED
      BY <3>1 DEF Abstract!Next
  <2>2. CASE ~MustClose
    BY <1>10, <2>2 DEF Recycle_Auto_Close_Update, gateVars, Mailbox
  <2> QED
    BY <2>1, <2>2
<1>11. CASE StartReport \/ NextIteration
  BY <1>11 DEF StartReport, NextIteration, gateVars, Mailbox
<1>12. CASE UNCHANGED vars
  BY <1>12 DEF vars, gateVars, Mailbox
<1> QED
  BY <1>1, <1>2, <1>3, <1>4, <1>5, <1>6, <1>7, <1>8, <1>9, <1>10, <1>11, <1>12 DEF Next, SuperLoop

(* The firmware implements the gate: whatever the servos, the timers and the   *)
(* console do, the other end of the UART sees a mailbox that is emptied, a     *)
(* gate that every class opens, and changes that are reported once.            *)
THEOREM IsGate == Spec => Abstract!SafeSpec
<1>1. DoorAssumption
  BY DoorAssumption
<1>2. Init => Abstract!Init
  BY DEF Init, NoLine, Mailbox, Abstract!Init
<1> QED
  BY <1>1, <1>2, DoorType, GateStep, PTL DEF Spec, Abstract!SafeSpec

-----------------------------------------------------------------------------
(* The time a route takes.  The proof follows the degrees that are left to    *)
(* every servo against those that pass, at the door's speed, from the opening *)
(* to the ramp generator's last step.                                         *)

Gap(a, b) == IF a < b THEN b - a ELSE a - b

(* What a servo has still to turn. *)
Left(s) == Gap(cur[s], target[s])

(* Where the routes and the neutral angles leave a servo. *)
Span(s) == IF s = "TOP" THEN 30..150 ELSE IF s = "PETVINYL" THEN 30..130 ELSE 50..150

(* The degrees that pass between the opening and the last ramp step of s. *)
Passed(s) == Step * (openAge - since[s])

(* While the routes alone drive the servos: they turn at the door's speed     *)
(* inside their span, and the ramp generator has just looked at them.         *)
RampInv ==
  /\ \A s \in Servos : speed[s] \in {0, Step} /\ cur[s] \in Span(s) /\ target[s] \in Span(s)
  /\ pc \in {"route", "close", "bins", "sonar"} =>
       \A s \in Servos : Servo_Is_Moving(s) => since[s] <= ticks
  /\ gate = "CLOSED" => target["TOP"] = 90

(* A bottom servo has at most 100 degrees to go from the opening on. *)
BottomTime(b) ==
  IF Servo_Is_Moving(b) THEN Left(b) + Passed(b) <= 100 ELSE horn[b] = target[b]

(* TOP waits at its neutral angle, or is on its way there, until the loop has *)
(* seen both bottom servos at rest: one iteration after they arrive.          *)
Unseen == IF pc \in {"close", "bins", "sonar"} THEN 0 ELSE LoopTicks + ReportTicks

PendingTime ==
  /\ target["TOP"] = 90
  /\ Servo_Is_Moving("TOP") => Left("TOP") + Passed("TOP") <= 60
  /\ Step * (openAge - ticks - Unseen) <= 100

(* Then it has at most 60 degrees to go. *)
Slack == Step * (2 * LoopTicks + ReportTicks)

TopTime ==
  IF Servo_Is_Moving("TOP")
  THEN /\ Left("TOP") + Passed("TOP") <= 160 + Slack
       /\ Left("TOP") = 0 => Passed("TOP") <= 100 + Slack
  ELSE horn["TOP"] = target["TOP"]

RouteTime ==
  gate = "OPEN" /\ ~reopened =>
    /\ \A b \in Bottoms : BottomTime(b)
    /\ IF topPending THEN PendingTime ELSE TopTime

TimeInv == ~serviced => RampInv /\ RouteTime

(* The minimum the gate stays open covers the two ramps of a route, 100 and   *)
(* 60 degrees at the door's speed, and what the loop adds to them.            *)
RouteFits == Step * MinOpen >= 160 + Step * (3 * LoopTicks + ReportTicks)

-----------------------------------------------------------------------------
LEMMA TimesMonotone ==
  ASSUME NEW k \in Nat, NEW a \in Int, NEW b \in Int, a <= b
  PROVE  k * a <= k * b /\ k * a \in Int /\ k * b \in Int
<1>1. k * (b - a) \in Nat
  <2>1. b - a \in Nat
    OBVIOUS
  <2> QED
    BY <2>1, ProductNat
<1>2. k * (b - a) = k * b - k * a
  OBVIOUS
<1>3. k * a \in Int /\ k * b \in Int
  OBVIOUS
<1> QED
  BY <1>1, <1>2, <1>3

(* A ramp step of d degrees leaves d degrees less, or the target. *)
LEMMA RampLeaves ==
  ASSUME NEW c \in 0..180, NEW t \in 0..180, NEW d \in Nat \ {0}, NEW lo \in Nat, NEW hi \in Nat,
         c \in lo..hi, t \in lo..hi
  PROVE  LET r == IF c < t THEN IF c + d >= t THEN t ELSE c + d
                  ELSE IF c - d <= t THEN t ELSE c - d
         IN  /\ r \in lo..hi
             /\ r # t => Gap(r, t) = Gap(c, t) - d /\ Gap(r, t) > 0
  BY DEF Gap

LEMMA SpanIsInterval ==
  ASSUME NEW s \in Servos
  PROVE  /\ \E lo, hi \in Nat : Span(s) = lo..hi
         /\ Span(s) \subseteq 0..180
         /\ Neutral[s] \in Span(s)
         /\ \A type : s \in Bottoms => BottomRoute(type)[s] \in Span(s)
<1>1. \E lo, hi \in Nat : Span(s) = lo..hi
  <2>1. 30 \in Nat /\ 50 \in Nat /\ 130 \in Nat /\ 150 \in Nat
    OBVIOUS
  <2> QED
    BY <2>1, Zenon DEF Span
<1>2. Span(s) \subseteq 0..180 /\ Neutral[s] \in Span(s)
  BY DEF Span, Neutral, Servos
<1>3. ASSUME NEW type, s \in Bottoms PROVE BottomRoute(type)[s] \in Span(s)
  BY <1>3 DEF Span, Neutral, BottomRoute, Bottoms, Servos
<1> QED
  BY <1>1, <1>2, <1>3

LEMMA RampToTimes ==
  ASSUME NEW angles, RampTo(angles), NEW s \in Servos
  PROVE  /\ s \in DOMAIN angles => since'[s] = 0
         /\ s \notin DOMAIN angles => since'[s] = since[s]
  BY DEF RampTo

(* A servo that is still turning after a ramp step has so much less to go as  *)
(* has passed; one that comes to rest is commanded to its target.             *)
LEMMA UpdateTimes ==
  ASSUME DoorAssumption, TypeOK, RampInv, Servo_Update, NEW s \in Servos
  PROVE  /\ speed'[s] \in {0, Step} /\ cur'[s] \in Span(s)
         /\ speed'[s] > 0 => /\ speed[s] > 0 /\ since'[s] = 0
                             /\ Left(s)' = Left(s) - Step * since[s]
                             /\ Left(s)' = 0 => since[s] = 0
         /\ ~(speed'[s] > 0) => horn'[s] = IF speed[s] > 0 THEN target[s] ELSE horn[s]
<1>1. PICK lo \in Nat, hi \in Nat : Span(s) = lo..hi
  BY SpanIsInterval
<1>2. /\ speed[s] \in {0, Step} /\ cur[s] \in lo..hi /\ target[s] \in lo..hi
      /\ cur[s] \in 0..180 /\ target[s] \in 0..180 /\ since[s] \in Nat /\ Step \in Nat \ {0}
  BY <1>1 DEF RampInv, TypeOK, DoorAssumption
<1>3. /\ cur'[s] = IF Due(s) THEN Ramped(s) ELSE cur[s]
      /\ horn'[s] = IF Due(s) THEN Ramped(s) ELSE horn[s]
      /\ speed'[s] = IF Due(s) /\ Ramped(s) = target[s] THEN 0 ELSE speed[s]
      /\ since'[s] = IF Due(s) THEN 0 ELSE since[s]
      /\ target' = target
  BY DEF Servo_Update, TypeOK
<1>4. CASE Due(s)
  <2> DEFINE c == cur[s]
             t == target[s]
             d == Step * since[s]
             r == IF c < t THEN IF c + d >= t THEN t ELSE c + d
                  ELSE IF c - d <= t THEN t ELSE c - d
  <2>1. speed[s] = Step /\ speed[s] > 0 /\ since[s] > 0
    BY <1>2, <1>4 DEF Due
  <2>2. d \in Nat \ {0}
    <3>1. Step * since[s] >= Step * 1
      BY <1>2, <2>1, TimesMonotone
    <3> QED
      BY <1>2, <3>1
  <2>3. Ramped(s) = r
    BY <2>1 DEF Ramped
  <2> HIDE DEF d
  <2>4. r \in lo..hi /\ (r # t => Gap(r, t) = Gap(c, t) - d /\ Gap(r, t) > 0)
    <3>1. c \in 0..180 /\ t \in 0..180 /\ c \in lo..hi /\ t \in lo..hi
      BY <1>2
    <3> HIDE DEF c, t
    <3> QED
      BY <2>2, <3>1, RampLeaves
  <2> HIDE DEF r
  <2>5. cur'[s] = r /\ horn'[s] = r /\ since'[s] = 0 /\ target'[s] = t
    BY <1>3, <1>4, <2>3
  <2>6. CASE r = t
    <3>1. speed'[s] = 0
      BY <1>3, <1>4, <2>3, <2>6
    <3> QED
      BY <1>1, <2>1, <2>4, <2>5, <2>6, <3>1
  <2>7. CASE r # t
    <3>1. speed'[s] = speed[s]
      BY <1>3, <1>4, <2>3, <2>7
    <3>2. Left(s)' = Gap(r, t)
      BY <2>5 DEF Left
    <3>3. Left(s)' = Left(s) - d /\ Left(s)' > 0
      BY <2>4, <2>7, <3>2 DEF Left
    <3> QED
      BY <1>1, <2>1, <2>4, <2>5, <3>1, <3>3 DEF d
  <2> QED
    BY <2>6, <2>7
<1>5. CASE ~Due(s)
  <2>1. cur'[s] = cur[s] /\ horn'[s] = horn[s] /\ speed'[s] = speed[s] /\ since'[s] = since[s]
    BY <1>3, <1>5
  <2>2. Left(s)' = Left(s) /\ Left(s) \in Int
    BY <1>2, <1>3, <2>1 DEF Left, Gap
  <2>3. speed[s] > 0 => since[s] = 0 /\ Step * since[s] = 0
    BY <1>2, <1>5 DEF Due
  <2>4. speed'[s] \in {0, Step} /\ cur'[s] \in Span(s)
    BY <1>1, <1>2, <2>1
  <2>5. speed'[s] > 0 => /\ speed[s] > 0 /\ since'[s] = 0
                         /\ Left(s)' = Left(s) - Step * since[s]
                         /\ Left(s)' = 0 => since[s] = 0
    BY <2>1, <2>2, <2>3
  <2> QED
    BY <2>1, <2>4, <2>5
<1> QED
  BY <1>4, <1>5

LEMMA StepRamp ==
  DoorAssumption /\ TypeOK /\ PendingWhileOpen /\ RampInv /\ [Next]_vars /\ ~serviced'
    => RampInv'
<1> SUFFICES ASSUME DoorAssumption, TypeOK, PendingWhileOpen, RampInv, [Next]_vars, ~serviced'
             PROVE  RampInv'
  OBVIOUS
<1> DEFINE Seen == {"route", "close", "bins", "sonar"}
<1>1. ASSUME UNCHANGED <<cur, target, speed, since, gate, ticks>>, pc' \in Seen => pc \in Seen
      PROVE  RampInv'
  BY <1>1 DEF RampInv, Servo_Is_Moving
<1>2. ASSUME NEW angles, RampTo(angles), DOMAIN angles \subseteq Servos, UNCHANGED ticks,
             \A s \in DOMAIN angles : angles[s] \in Span(s), pc' \in Seen => pc \in Seen,
             gate' = "CLOSED" => target'["TOP"] = 90
      PROVE  RampInv'
  <2>1. ASSUME NEW s \in Servos
        PROVE  speed'[s] \in {0, Step} /\ cur'[s] \in Span(s) /\ target'[s] \in Span(s)
    <3>1. speed[s] \in {0, Step} /\ cur[s] \in Span(s) /\ target[s] \in Span(s)
      BY DEF RampInv
    <3>2. CASE s \in DOMAIN angles
      BY <1>2, <3>1, <3>2, RampToMoves
    <3>3. CASE s \notin DOMAIN angles
      BY <1>2, <3>1, <3>3, RampToMoves
    <3> QED
      BY <3>2, <3>3
  <2>2. ASSUME pc' \in Seen, NEW s \in Servos, speed'[s] > 0 PROVE since'[s] <= ticks'
    <3>1. pc \in Seen /\ ticks \in Nat /\ ticks' = ticks
      BY <1>2, <2>2 DEF TypeOK, DoorAssumption
    <3>2. CASE s \in DOMAIN angles
      BY <1>2, <3>1, <3>2, RampToTimes
    <3>3. CASE s \notin DOMAIN angles
      BY <1>2, <2>2, <3>1, <3>3, RampToTimes, RampToMoves DEF RampInv, Servo_Is_Moving
    <3> QED
      BY <3>2, <3>3
  <2> QED
    BY <1>2, <2>1, <2>2 DEF RampInv, Servo_Is_Moving
<1>3. CASE SysTick_Handler
  <2>1. ASSUME NEW s \in Servos, pc \in Seen, speed[s] > 0 PROVE since'[s] <= ticks'
    <3>1. since[s] <= ticks
      BY <2>1 DEF RampInv, Servo_Is_Moving
    <3>2. since'[s] = since[s] + 1 /\ ticks' = ticks + 1 /\ since[s] \in Nat /\ ticks \in Nat
      BY <1>3, <2>1 DEF SysTick_Handler, TypeOK, DoorAssumption
    <3> QED
      BY <3>1, <3>2
  <2> QED
    BY <1>3, <2>1 DEF SysTick_Handler, RampInv, Servo_Is_Moving
<1>4. CASE \E line \in Lines : USART2_IRQHandler(line)
  BY <1>1, <1>4 DEF USART2_IRQHandler, gateVars, servoVars
<1>5. CASE HandleOpen
  <2>1. pc' = "report"
    BY <1>5 DEF HandleOpen, Goto
  <2>2. CASE rx.type = "NONE"
    BY <1>1, <1>5, <2>1, <2>2 DEF HandleOpen, gateVars, servoVars
  <2>3. CASE rx.type # "NONE"
    <3>1. RampTo(BottomRoute(rx.type)) /\ gate' = "OPEN" /\ UNCHANGED ticks
      BY <1>5, <2>3 DEF HandleOpen, Recycle_Door_Open
    <3>2. /\ DOMAIN BottomRoute(rx.type) \subseteq Servos
          /\ \A s \in DOMAIN BottomRoute(rx.type) : BottomRoute(rx.type)[s] \in Span(s)
      BY SpanIsInterval DEF BottomRoute, Bottoms, Servos
    <3> QED
      BY <1>2, <2>1, <3>1, <3>2
  <2> QED
    BY <2>2, <2>3
<1>6. CASE HandleClose \/ NoLineReady \/ ReportGate
  BY <1>1, <1>6 DEF HandleClose, NoLineReady, ReportGate, Goto, gateVars, servoVars
<1>7. CASE StartReport
  BY <1>1, <1>7 DEF StartReport, Goto, gateVars, servoVars
<1>8. CASE NextIteration
  BY <1>8 DEF NextIteration, gateVars, servoVars, RampInv, Servo_Is_Moving
<1>9. CASE Servo_Update
  <2>1. UNCHANGED <<gate, ticks>> /\ target' = target /\ ticks \in Nat
    BY <1>9 DEF Servo_Update, gateVars, TypeOK, DoorAssumption
  <2>2. ASSUME NEW s \in Servos
        PROVE  /\ speed'[s] \in {0, Step} /\ cur'[s] \in Span(s) /\ target'[s] \in Span(s)
               /\ speed'[s] > 0 => since'[s] <= ticks'
    BY <1>9, <2>1, UpdateTimes DEF RampInv
  <2> QED
    BY <2>1, <2>2 DEF RampInv, Servo_Is_Moving
<1>10. CASE Recycle_Update
  <2>1. CASE UNCHANGED <<servoVars, topPending>>
    BY <1>1, <1>10, <2>1 DEF Recycle_Update, Goto, servoVars
  <2>2. CASE ~UNCHANGED <<servoVars, topPending>>
    <3> DEFINE tops == [s \in {"TOP"} |-> Top_Angle_For(pendingRoute)]
    <3>1. /\ topPending /\ RampTo(tops)
          /\ UNCHANGED <<gate, ticks>> /\ pc \in Seen
      BY <1>10, <2>2 DEF Recycle_Update, Goto
    <3>2. DOMAIN tops \subseteq Servos /\ \A s \in DOMAIN tops : tops[s] \in Span(s)
      BY DEF Top_Angle_For, Span, Servos
    <3>3. gate' = "CLOSED" => target'["TOP"] = 90
      BY <3>1 DEF PendingWhileOpen
    <3> QED
      BY <1>2, <3>1, <3>2, <3>3
  <2> QED
    BY <2>1, <2>2
<1>11. CASE Recycle_Auto_Close_Update
  <2>1. CASE ~MustClose
    BY <1>1, <1>11, <2>1 DEF Recycle_Auto_Close_Update, Goto, gateVars, servoVars
  <2>2. CASE MustClose
    <3>1. RampTo(Neutral) /\ UNCHANGED ticks /\ pc \in Seen
      BY <1>11, <2>2 DEF Recycle_Auto_Close_Update, Goto, Do_Close
    <3>2. DOMAIN Neutral \subseteq Servos /\ \A s \in DOMAIN Neutral : Neutral[s] \in Span(s)
      BY SpanIsInterval, AnglesInRange
    <3>3. target'["TOP"] = 90
      BY <3>1, RampToMoves, AnglesInRange DEF Neutral, Servos
    <3> QED
      BY <1>2, <3>1, <3>2, <3>3
  <2> QED
    BY <2>1, <2>2
<1>12. CASE Handle_Servo_Command
  BY <1>12 DEF Handle_Servo_Command
<1>13. CASE UNCHANGED vars
  BY <1>1, <1>13 DEF vars, gateVars, servoVars
<1> QED
  BY <1>3, <1>4, <1>5, <1>6, <1>7, <1>8, <1>9, <1>10, <1>11, <1>12, <1>13 DEF Next, SuperLoop

LEMMA GapWithin ==
  ASSUME NEW lo \in Nat, NEW hi \in Nat, NEW a \in lo..hi, NEW b \in lo..hi
  PROVE  Gap(a, b) \in 0..(hi - lo)
  BY DEF Gap

(* The times of the route by themselves. *)
LEMMA OpeningTimes ==
  ASSUME DoorAssumption, TypeOK, RampInv, RouteKnown, gate = "CLOSED", ~serviced,
         NEW type, Recycle_Door_Open(type), UNCHANGED ticks, pc' = "report"
  PROVE  (\A b \in Bottoms : BottomTime(b)') /\ topPending' /\ PendingTime'
<1>1. RampTo(BottomRoute(type)) /\ topPending' = TRUE /\ openAge' = 0
  BY DEF Recycle_Door_Open
<1>2. DOMAIN BottomRoute(type) = Bottoms /\ Bottoms \subseteq Servos /\ "TOP" \in Servos \ Bottoms
  BY AnglesInRange DEF Bottoms, Servos
<1>3. Step \in Nat \ {0} /\ ticks \in Nat /\ LoopTicks \in Nat /\ ReportTicks \in Nat
  BY DEF DoorAssumption, TypeOK
<1>4. ASSUME NEW b \in Bottoms PROVE BottomTime(b)'
  <2>1. target'[b] = BottomRoute(type)[b] /\ speed'[b] > 0 /\ cur'[b] = cur[b] /\ since'[b] = 0
    BY <1>1, <1>2, RampToMoves, RampToTimes
  <2>2. cur[b] \in Span(b) /\ BottomRoute(type)[b] \in Span(b)
    BY <1>2, SpanIsInterval DEF RampInv
  <2>3. Left(b)' <= 100
    <3>1. Left(b)' = Gap(cur[b], BottomRoute(type)[b])
      BY <2>1 DEF Left
    <3>2. CASE b = "PETVINYL"
      <4>1. cur[b] \in 30..130 /\ BottomRoute(type)[b] \in 30..130
        BY <2>2, <3>2 DEF Span
      <4>2. Gap(cur[b], BottomRoute(type)[b]) \in 0..(130 - 30)
        BY <4>1, GapWithin
      <4> QED
        BY <3>1, <4>2
    <3>3. CASE b = "PAPERCAN"
      <4>1. cur[b] \in 50..150 /\ BottomRoute(type)[b] \in 50..150
        BY <2>2, <3>3 DEF Span
      <4>2. Gap(cur[b], BottomRoute(type)[b]) \in 0..(150 - 50)
        BY <4>1, GapWithin
      <4> QED
        BY <3>1, <4>2
    <3> QED
      BY <3>2, <3>3 DEF Bottoms
  <2>4. Left(b)' \in Int
    <3>1. cur[b] \in Int /\ BottomRoute(type)[b] \in Int
      BY <1>2, <2>2, SpanIsInterval
    <3> QED
      BY <2>1, <3>1 DEF Left, Gap
  <2>5. Passed(b)' = 0
    BY <1>1, <1>3, <2>1 DEF Passed
  <2> QED
    BY <2>1, <2>3, <2>4, <2>5 DEF BottomTime, Servo_Is_Moving
<1>5. /\ target'["TOP"] = 90 /\ speed'["TOP"] = speed["TOP"] /\ cur'["TOP"] = cur["TOP"]
      /\ since'["TOP"] = since["TOP"]
  BY <1>1, <1>2, RampToMoves, RampToTimes DEF RampInv
<1>6. Left("TOP")' + Passed("TOP")' <= 60
  <2>1. cur["TOP"] \in 30..150 /\ since["TOP"] \in Nat
    BY <1>2 DEF RampInv, Span, TypeOK
  <2>2. Left("TOP")' \in 0..60
    BY <1>5, <2>1 DEF Left, Gap
  <2>3. Passed("TOP")' <= 0 /\ Passed("TOP")' \in Int
    <3>1. Step * (0 - since["TOP"]) <= Step * 0 /\ Step * (0 - since["TOP"]) \in Int
      BY <1>3, <2>1, TimesMonotone
    <3> QED
      BY <1>1, <1>3, <1>5, <3>1 DEF Passed
  <2> QED
    BY <2>2, <2>3
<1>7. Step * (openAge' - ticks' - Unseen') <= 100
  <2>1. Unseen' = LoopTicks + ReportTicks
    BY DEF Unseen
  <2>2. 0 - ticks - (LoopTicks + ReportTicks) <= 0 /\ 0 - ticks - (LoopTicks + ReportTicks) \in Int
    BY <1>3
  <2>3. Step * (0 - ticks - (LoopTicks + ReportTicks)) <= Step * 0
    BY <1>3, <2>2, TimesMonotone
  <2> QED
    BY <1>1, <1>3, <2>1, <2>3
<1> QED
  BY <1>1, <1>4, <1>5, <1>6, <1>7 DEF PendingTime

(* A tick passes for the opening and for every moving servo alike. *)
LEMMA TickPasses ==
  ASSUME DoorAssumption, TypeOK, SysTick_Handler, gate = "OPEN", NEW s \in Servos, speed[s] > 0
  PROVE  Passed(s)' = Passed(s)
<1>1. openAge' = openAge + 1 /\ since'[s] = since[s] + 1 /\ openAge \in Nat /\ since[s] \in Nat
  BY DEF SysTick_Handler, TypeOK
<1>2. (openAge + 1) - (since[s] + 1) = openAge - since[s]
  BY <1>1
<1>3. openAge' - since'[s] = openAge - since[s]
  BY <1>1, <1>2
<1> QED
  BY <1>3 DEF Passed

(* A servo that keeps turning has as much less to go as has passed. *)
LEMMA UpdatePasses ==
  ASSUME DoorAssumption, TypeOK, RampInv, Servo_Update, NEW s \in Servos, speed'[s] > 0
  PROVE  /\ speed[s] > 0
         /\ Left(s)' + Passed(s)' = Left(s) + Passed(s)
         /\ Left(s)' = 0 => Left(s) = 0 /\ Passed(s)' = Passed(s)
<1>1. /\ speed[s] > 0 /\ since'[s] = 0 /\ openAge' = openAge
      /\ Left(s)' = Left(s) - Step * since[s]
      /\ Left(s)' = 0 => since[s] = 0
  BY UpdateTimes DEF Servo_Update, gateVars
<1>2. openAge \in Nat /\ since[s] \in Nat /\ Step \in Nat /\ Left(s) \in Int
  <2>1. cur[s] \in 0..180 /\ target[s] \in 0..180 /\ openAge \in Nat /\ since[s] \in Nat /\ Step \in Nat
    BY DEF TypeOK, DoorAssumption
  <2>2. Left(s) \in 0..(180 - 0)
    BY <2>1, GapWithin DEF Left
  <2> QED
    BY <2>1, <2>2
<1>3. Passed(s)' = Step * openAge
  <2>1. openAge' - since'[s] = openAge
    BY <1>1, <1>2
  <2> QED
    BY <2>1 DEF Passed
<1>4. Passed(s) = Step * openAge - Step * since[s]
  BY <1>2 DEF Passed
<1>5. Step * openAge \in Int /\ Step * since[s] \in Int
  BY <1>2
<1>6. since[s] = 0 => Step * since[s] = 0
  BY <1>2
<1> QED
  BY <1>1, <1>2, <1>3, <1>4, <1>5, <1>6

(* TOP leaves no later than one iteration after the bottom servos arrived,    *)
(* with at most the way from its neutral angle more than it had left.         *)
LEMMA TopLeaves ==
  ASSUME DoorAssumption, TypeOK, RestAtTarget, RampInv, PendingTime, ~serviced,
         pc = "route", ticks <= LoopTicks, openAge' = openAge,
         NEW type, RampTo([s \in {"TOP"} |-> Top_Angle_For(type)])
  PROVE  TopTime'
<1> DEFINE tops == [s \in {"TOP"} |-> Top_Angle_For(type)]
           angle == Top_Angle_For(type)
<1>1. /\ target'["TOP"] = angle /\ speed'["TOP"] > 0 /\ cur'["TOP"] = cur["TOP"]
      /\ since'["TOP"] = 0
  <2>1. RampTo(tops) /\ "TOP" \in DOMAIN tops /\ "TOP" \in Servos /\ tops["TOP"] = angle
    BY DEF Servos
  <2> QED
    BY <2>1, RampToMoves, RampToTimes
<1>2. /\ cur["TOP"] \in 30..150 /\ target["TOP"] = 90 /\ angle \in {30, 90, 150}
      /\ since["TOP"] \in Nat
  BY DEF RampInv, PendingTime, Span, Top_Angle_For, TypeOK, Servos
<1>3. /\ Step \in Nat /\ ticks \in Nat /\ LoopTicks \in Nat /\ ReportTicks \in Nat
      /\ openAge \in Nat /\ ticks <= LoopTicks
  BY DEF DoorAssumption, TypeOK
<1> DEFINE here == cur["TOP"]
           age == openAge
           waited == since["TOP"]
           more == Gap(here, angle)
           left == Gap(here, 90)
<1>4. /\ Left("TOP")' = more /\ Left("TOP") = left
      /\ more \in Nat /\ left \in Nat /\ more <= left + 60
  <2>1. Left("TOP")' = more /\ Left("TOP") = left
    BY <1>1, <1>2 DEF Left
  <2>2. here \in 30..150
    BY <1>2
  <2> HIDE DEF here, angle
  <2>3. more \in Nat /\ left \in Nat /\ more <= left + 60
    BY <1>2, <2>2 DEF Gap
  <2> QED
    BY <2>1, <2>3
<1>5. Passed("TOP")' = Step * age
  <2>1. openAge' - since'["TOP"] = age
    BY <1>1, <1>3
  <2> QED
    BY <2>1 DEF Passed
<1>6. Step * age <= 100 + Slack
  <2>1. Step * (age - ticks - (LoopTicks + ReportTicks)) <= 100
    BY DEF PendingTime, Unseen
  <2>2. Step * (age - (2 * LoopTicks + ReportTicks)) <= Step * (age - ticks - (LoopTicks + ReportTicks))
    BY <1>3, TimesMonotone
  <2>3. Step * (age - (2 * LoopTicks + ReportTicks)) = Step * age - Slack
    BY <1>3 DEF Slack
  <2>4. Step * (age - ticks - (LoopTicks + ReportTicks)) \in Int /\ Step * age \in Int /\ Slack \in Int
    BY <1>3 DEF Slack
  <2> QED
    BY <2>1, <2>2, <2>3, <2>4
<1>7. Slack \in Int /\ Step * LoopTicks <= Slack /\ Step * LoopTicks \in Int /\ Step * age \in Int
  <2>1. Step * LoopTicks <= Step * (2 * LoopTicks + ReportTicks)
    BY <1>3, TimesMonotone
  <2> QED
    BY <1>3, <2>1 DEF Slack
<1>8. more + Step * age <= 160 + Slack
  <2>1. CASE ~Servo_Is_Moving("TOP")
    <3>1. here = 90
      BY <1>2, <2>1 DEF RestAtTarget, Servos
    <3>2. more <= 60
      BY <1>2, <3>1 DEF Gap
    <3> QED
      BY <1>4, <1>6, <1>7, <3>2
  <2>2. CASE Servo_Is_Moving("TOP")
    <3>1. left + Step * (age - waited) <= 60
      BY <1>4, <2>2 DEF PendingTime, Passed
    <3>2. waited <= ticks /\ waited \in Nat
      BY <1>2, <2>2 DEF RampInv, Servos
    <3>3. Step * waited <= Step * LoopTicks /\ Step * waited \in Int
      BY <1>3, <3>2, TimesMonotone
    <3>4. Step * (age - waited) = Step * age - Step * waited
      BY <1>3, <3>2
    <3> QED
      BY <1>4, <1>7, <3>1, <3>3, <3>4
  <2> QED
    BY <2>1, <2>2
<1> QED
  BY <1>1, <1>4, <1>5, <1>6, <1>7, <1>8 DEF TopTime, Servo_Is_Moving, Slack

LEMMA StepRouteTime ==
  ASSUME DoorAssumption, DoorInv, DeadlineInv, RampInv, RouteTime, [Next]_vars, ~serviced, ~serviced'
  PROVE  RouteTime'
<1> USE DEF DoorInv
<1> DEFINE Late == {"close", "bins", "sonar"}
<1>0. "TOP" \in Servos /\ Bottoms \subseteq Servos
  BY DEF Servos, Bottoms
<1>1. ASSUME UNCHANGED <<servoVars, gate, openAge, topPending, ticks, reopened>>,
             topPending => (pc' \in Late <=> pc \in Late)
      PROVE  RouteTime'
  <2>1. ASSUME NEW b \in Servos
        PROVE  Left(b)' = Left(b) /\ Passed(b)' = Passed(b) /\ Servo_Is_Moving(b)' = Servo_Is_Moving(b)
    BY <1>1 DEF servoVars, Left, Passed, Servo_Is_Moving
  <2>2. \A b \in Bottoms : BottomTime(b) => BottomTime(b)'
    BY <1>0, <1>1, <2>1 DEF servoVars, BottomTime
  <2>3. TopTime => TopTime'
    BY <1>0, <1>1, <2>1 DEF servoVars, TopTime, Slack
  <2>4. topPending /\ PendingTime => PendingTime'
    <3> SUFFICES ASSUME topPending, PendingTime PROVE PendingTime'
      OBVIOUS
    <3>1. Unseen' = Unseen
      BY <1>1 DEF Unseen
    <3> QED
      BY <1>0, <1>1, <2>1, <3>1 DEF servoVars, PendingTime
  <2> QED
    BY <1>1, <2>2, <2>3, <2>4 DEF RouteTime
<1>2. CASE SysTick_Handler
  <2> SUFFICES ASSUME gate = "OPEN", ~reopened
               PROVE  /\ \A b \in Bottoms : BottomTime(b)'
                      /\ IF topPending THEN PendingTime' ELSE TopTime'
    BY <1>2 DEF SysTick_Handler, RouteTime
  <2>1. UNCHANGED <<cur, horn, target, speed, pc, topPending>>
    BY <1>2 DEF SysTick_Handler
  <2>2. ASSUME NEW s \in Servos
        PROVE  /\ Left(s)' = Left(s) /\ Servo_Is_Moving(s)' = Servo_Is_Moving(s)
               /\ Servo_Is_Moving(s) => Passed(s)' = Passed(s)
    BY <1>2, <2>1, TickPasses DEF Left, Servo_Is_Moving
  <2>3. ASSUME NEW b \in Bottoms PROVE BottomTime(b)'
    BY <1>0, <2>1, <2>2 DEF RouteTime, BottomTime
  <2>4. topPending => PendingTime'
    <3>1. openAge' - ticks' - Unseen' = openAge - ticks - Unseen
      <4>1. openAge' = openAge + 1 /\ ticks' = ticks + 1 /\ Unseen' = Unseen
        BY <1>2, <2>1 DEF SysTick_Handler, Unseen
      <4>2. openAge \in Nat /\ ticks \in Nat /\ Unseen \in Nat
        BY DEF TypeOK, DoorAssumption, Unseen
      <4> QED
        BY <4>1, <4>2
    <3> QED
      BY <1>0, <2>1, <2>2, <3>1 DEF RouteTime, PendingTime
  <2>5. ~topPending => TopTime'
    BY <1>0, <2>1, <2>2 DEF RouteTime, TopTime, Slack
  <2> QED
    BY <2>3, <2>4, <2>5
<1>3. CASE \E line \in Lines : USART2_IRQHandler(line)
  BY <1>1, <1>3 DEF USART2_IRQHandler, gateVars
<1>4. CASE HandleOpen
  <2>1. pc = "rx" /\ pc' = "report" /\ UNCHANGED ticks
    BY <1>4 DEF HandleOpen, Goto
  <2>2. CASE rx.type = "NONE"
    BY <1>1, <1>4, <2>1, <2>2 DEF HandleOpen, gateVars
  <2>3. CASE rx.type # "NONE" /\ gate = "OPEN"
    BY <1>4, <2>3 DEF HandleOpen, RouteTime
  <2>4. CASE rx.type # "NONE" /\ gate = "CLOSED"
    <3>1. Recycle_Door_Open(rx.type)
      BY <1>4, <2>4 DEF HandleOpen
    <3>2. (\A b \in Bottoms : BottomTime(b)') /\ topPending' /\ PendingTime'
      BY <2>1, <2>4, <3>1, OpeningTimes
    <3> QED
      BY <3>2 DEF RouteTime
  <2> QED
    BY <2>2, <2>3, <2>4 DEF TypeOK
<1>5. CASE HandleClose \/ NoLineReady \/ ReportGate
  BY <1>1, <1>5 DEF HandleClose, NoLineReady, ReportGate, Goto, gateVars
<1>6. CASE StartReport
  BY <1>1, <1>6 DEF StartReport, Goto, gateVars
<1>7. CASE NextIteration
  <2> SUFFICES ASSUME gate = "OPEN", ~reopened
               PROVE  /\ \A b \in Bottoms : BottomTime(b)'
                      /\ IF topPending THEN PendingTime' ELSE TopTime'
    BY <1>7 DEF NextIteration, gateVars, RouteTime
  <2>1. UNCHANGED servoVars /\ UNCHANGED <<openAge, topPending>> /\ pc' = "rx" /\ ticks' = 0
    BY <1>7 DEF NextIteration, gateVars
  <2>2. ASSUME NEW b \in Servos
        PROVE  Left(b)' = Left(b) /\ Passed(b)' = Passed(b) /\ Servo_Is_Moving(b)' = Servo_Is_Moving(b)
    BY <2>1 DEF servoVars, Left, Passed, Servo_Is_Moving
  <2>3. ASSUME NEW b \in Bottoms PROVE BottomTime(b)'
    BY <1>0, <2>1, <2>2 DEF RouteTime, servoVars, BottomTime
  <2>4. ~topPending => TopTime'
    BY <1>0, <2>1, <2>2 DEF RouteTime, servoVars, TopTime, Slack
  <2>5. ASSUME topPending PROVE PendingTime'
    <3> DEFINE before == openAge - ticks
               after == openAge - 0 - (LoopTicks + ReportTicks)
    <3>1. PendingTime
      BY <2>5 DEF RouteTime
    <3>2. Unseen = 0 /\ Unseen' = LoopTicks + ReportTicks
      BY <1>7, <2>1 DEF NextIteration, Unseen
    <3>3. /\ openAge \in Nat /\ ticks \in 0..(LoopTicks + ReportTicks) /\ Step \in Nat
          /\ LoopTicks \in Nat /\ ReportTicks \in Nat
      BY DEF TypeOK, DoorAssumption
    <3>4. Step * before <= 100
      <4>1. openAge - ticks - Unseen = before
        BY <3>2, <3>3
      <4> QED
        BY <3>1, <4>1 DEF PendingTime
    <3>5. Step * after <= Step * before /\ Step * after \in Int /\ Step * before \in Int
      <4>1. after \in Int /\ before \in Int /\ after <= before
        BY <3>3
      <4> QED
        BY <3>3, <4>1, TimesMonotone
    <3>6. Step * after <= 100
      BY <3>4, <3>5
    <3>7. Step * (openAge' - ticks' - Unseen') <= 100
      BY <2>1, <3>2, <3>6
    <3> QED
      BY <1>0, <2>1, <2>2, <3>1, <3>7 DEF PendingTime, servoVars
  <2> QED
    BY <2>3, <2>4, <2>5
<1>8. CASE Servo_Update
  <2> SUFFICES ASSUME gate = "OPEN", ~reopened
               PROVE  /\ \A b \in Bottoms : BottomTime(b)'
                      /\ IF topPending THEN PendingTime' ELSE TopTime'
    BY <1>8 DEF Servo_Update, gateVars, RouteTime
  <2>1. UNCHANGED <<openAge, topPending, ticks, target>> /\ pc = "servo" /\ pc' = "route"
    BY <1>8 DEF Servo_Update, Goto, gateVars
  <2>2. ASSUME NEW b \in Bottoms PROVE BottomTime(b)'
    <3>1. BottomTime(b) /\ b \in Servos
      BY <1>0 DEF RouteTime
    <3>2. CASE speed'[b] > 0
      BY <1>8, <3>1, <3>2, UpdatePasses DEF BottomTime, Servo_Is_Moving
    <3>3. CASE ~(speed'[b] > 0)
      BY <1>8, <2>1, <3>1, <3>3, UpdateTimes DEF BottomTime, Servo_Is_Moving
    <3> QED
      BY <3>2, <3>3
  <2>3. ASSUME ~topPending PROVE TopTime'
    <3>1. TopTime
      BY <2>3 DEF RouteTime
    <3>2. CASE speed'["TOP"] > 0
      BY <1>0, <1>8, <3>1, <3>2, UpdatePasses DEF TopTime, Servo_Is_Moving, Slack
    <3>3. CASE ~(speed'["TOP"] > 0)
      BY <1>0, <1>8, <2>1, <3>1, <3>3, UpdateTimes DEF TopTime, Servo_Is_Moving
    <3> QED
      BY <3>2, <3>3
  <2>4. ASSUME topPending PROVE PendingTime'
    <3>1. PendingTime
      BY <2>4 DEF RouteTime
    <3>2. Unseen' = Unseen
      BY <2>1 DEF Unseen
    <3>3. speed'["TOP"] > 0 => Left("TOP")' + Passed("TOP")' <= 60
      BY <1>0, <1>8, <3>1, UpdatePasses DEF PendingTime, Servo_Is_Moving
    <3> QED
      BY <2>1, <3>1, <3>2, <3>3 DEF PendingTime, Servo_Is_Moving
  <2> QED
    BY <2>2, <2>3, <2>4
<1>9. CASE Recycle_Update
  <2>1. pc = "route" /\ pc' = "close" /\ UNCHANGED <<ticks, gate, openAge, reopened>>
    BY <1>9 DEF Recycle_Update, Goto
  <2>2. CASE ~topPending
    BY <1>1, <1>9, <2>1, <2>2 DEF Recycle_Update
  <2>3. CASE topPending /\ \A b \in Bottoms : ~Servo_Is_Moving(b)
    <3> DEFINE tops == [s \in {"TOP"} |-> Top_Angle_For(pendingRoute)]
    <3> SUFFICES ASSUME gate = "OPEN", ~reopened
                 PROVE  (\A b \in Bottoms : BottomTime(b)') /\ ~topPending' /\ TopTime'
      BY <2>1 DEF RouteTime
    <3>1. RampTo(tops) /\ topPending' = FALSE
      BY <1>9, <2>3 DEF Recycle_Update
    <3>2. ASSUME NEW b \in Bottoms PROVE BottomTime(b)'
      <4>1. b \in Servos /\ b \notin DOMAIN tops
        BY <1>0 DEF Bottoms
      <4>2. horn'[b] = horn[b] /\ target'[b] = target[b] /\ speed'[b] = speed[b]
        BY <3>1, <4>1, RampToMoves
      <4> QED
        BY <2>3, <4>2 DEF RouteTime, BottomTime, Servo_Is_Moving
    <3>3. PendingTime /\ ticks <= LoopTicks
      BY <2>1, <2>3 DEF RouteTime, DeadlineInv
    <3>4. TopTime'
      BY <2>1, <3>1, <3>3, TopLeaves
    <3> QED
      BY <3>1, <3>2, <3>4
  <2>4. ASSUME topPending, NEW b \in Bottoms, Servo_Is_Moving(b) PROVE RouteTime'
    <3> SUFFICES ASSUME gate = "OPEN", ~reopened
                 PROVE  (\A d \in Bottoms : BottomTime(d)') /\ topPending' /\ PendingTime'
      BY <2>1 DEF RouteTime
    <3>1. UNCHANGED servoVars /\ topPending' = topPending
      BY <1>9, <2>4 DEF Recycle_Update
    <3>2. ASSUME NEW s \in Servos
          PROVE  Left(s)' = Left(s) /\ Passed(s)' = Passed(s) /\ Servo_Is_Moving(s)' = Servo_Is_Moving(s)
      BY <2>1, <3>1 DEF servoVars, Left, Passed, Servo_Is_Moving
    <3>3. \A d \in Bottoms : BottomTime(d)'
      BY <1>0, <3>1, <3>2 DEF RouteTime, servoVars, BottomTime
    <3>4. Step * (openAge - ticks) <= 100
      <4>1. BottomTime(b) /\ b \in Servos
        BY <1>0 DEF RouteTime
      <4>2. /\ cur[b] \in 0..180 /\ target[b] \in 0..180 /\ since[b] \in Nat /\ openAge \in Nat
            /\ ticks \in Nat /\ Step \in Nat
        BY <4>1 DEF TypeOK, DoorAssumption
      <4>3. since[b] <= ticks
        BY <2>1, <2>4, <4>1 DEF RampInv
      <4>4. Left(b) \in 0..(180 - 0)
        BY <4>2, GapWithin DEF Left
      <4>5. Left(b) + Step * (openAge - since[b]) <= 100
        BY <2>4, <4>1 DEF BottomTime, Passed
      <4>6. /\ Step * (openAge - ticks) <= Step * (openAge - since[b])
            /\ Step * (openAge - ticks) \in Int /\ Step * (openAge - since[b]) \in Int
        BY <4>2, <4>3, TimesMonotone
      <4> QED
        BY <4>4, <4>5, <4>6
    <3>5. Step * (openAge' - ticks' - Unseen') <= 100
      <4>1. Unseen' = 0 /\ openAge - ticks - 0 = openAge - ticks
        BY <2>1 DEF Unseen, TypeOK, DoorAssumption
      <4> QED
        BY <2>1, <3>4, <4>1
    <3>6. PendingTime
      BY <2>4 DEF RouteTime
    <3> QED
      BY <1>0, <2>4, <3>1, <3>2, <3>3, <3>5, <3>6 DEF PendingTime, servoVars
  <2> QED
    BY <2>2, <2>3, <2>4
<1>10. CASE Recycle_Auto_Close_Update
  <2>1. CASE ~MustClose
    BY <1>1, <1>10, <2>1 DEF Recycle_Auto_Close_Update, Goto, gateVars
  <2>2. CASE MustClose
    BY <1>10, <2>2 DEF Recycle_Auto_Close_Update, Do_Close, RouteTime
  <2> QED
    BY <2>1, <2>2
<1>11. CASE Handle_Servo_Command
  BY <1>11 DEF Handle_Servo_Command
<1>12. CASE UNCHANGED vars
  BY <1>1, <1>12 DEF vars, gateVars
<1> QED
  BY <1>2, <1>3, <1>4, <1>5, <1>6, <1>7, <1>8, <1>9, <1>10, <1>11, <1>12 DEF Next, SuperLoop

(* When the gate closes, the deadline or the minimum it has reached leaves no *)
(* servo of the route on its way.                                             *)
LEMMA ClosesRouted ==
  ASSUME DoorAssumption, RouteFits, DoorInv, DeadlineInv, TimeInv, [Next]_vars,
         gate = "OPEN", gate' = "CLOSED", ~serviced, ~reopened
  PROVE  Routed(openType)
<1>1. MustClose /\ pc = "close"
  <2>1. ~(gate' = gate)
    OBVIOUS
  <2>2. Recycle_Auto_Close_Update
    BY <2>1 DEF Next, SuperLoop, SysTick_Handler, USART2_IRQHandler, HandleOpen, Recycle_Door_Open,
         HandleClose, NoLineReady, Handle_Servo_Command, ReportGate, Servo_Update, Recycle_Update,
         StartReport, NextIteration, vars, gateVars
  <2> QED
    BY <2>1, <2>2 DEF Recycle_Auto_Close_Update, Goto, gateVars
<1>2. RampInv /\ RouteTime /\ TypeOK /\ ticks <= LoopTicks
  BY <1>1 DEF TimeInv, DoorInv, DeadlineInv
<1>3. /\ Step \in Nat \ {0} /\ ticks \in Nat /\ LoopTicks \in Nat /\ ReportTicks \in Nat
      /\ MinOpen \in Nat /\ openAge \in Nat /\ "TOP" \in Servos /\ Bottoms \subseteq Servos
  BY <1>2 DEF DoorAssumption, TypeOK, Servos, Bottoms
<1>4. openAge >= MinOpen
  BY <1>1, <1>3 DEF MustClose, DoorAssumption
<1> DEFINE all == Step * openAge
<1>5. all >= 160 + Step * LoopTicks + Slack /\ all \in Int /\ Slack \in Int /\ Step * LoopTicks \in Nat
  <2>1. Step * MinOpen <= all
    BY <1>3, <1>4, TimesMonotone
  <2>2. Step * (3 * LoopTicks + ReportTicks) = Step * LoopTicks + Slack
    BY <1>3 DEF Slack
  <2>3. Step * MinOpen \in Int /\ all \in Int /\ Slack \in Int
    BY <1>3 DEF Slack
  <2>4. Step * LoopTicks \in Nat
    BY <1>3, ProductNat
  <2> HIDE DEF all
  <2> QED
    BY <2>1, <2>2, <2>3, <2>4 DEF RouteFits
<1>6. Slack >= Step * LoopTicks /\ Slack >= 0
  <2>1. /\ Step * LoopTicks <= Step * (2 * LoopTicks + ReportTicks)
        /\ Step * 0 <= Step * (2 * LoopTicks + ReportTicks)
    BY <1>3, TimesMonotone
  <2> QED
    BY <1>3, <2>1 DEF Slack
<1>7. ASSUME NEW k \in Nat, k <= ticks PROVE Step * (openAge - k) >= 160 + Slack /\ Step * (openAge - k) \in Int
  <2>1. Step * k <= Step * LoopTicks /\ Step * k \in Int
    BY <1>2, <1>3, <1>7, TimesMonotone
  <2>2. Step * (openAge - k) = all - Step * k
    BY <1>3
  <2> HIDE DEF all
  <2> QED
    BY <1>5, <2>1, <2>2
<1>8. ~topPending
  <2> SUFFICES ASSUME topPending PROVE FALSE
    OBVIOUS
  <2>1. Step * (openAge - ticks - 0) <= 100
    BY <1>1, <1>2 DEF RouteTime, PendingTime, Unseen
  <2>2. openAge - ticks - 0 = openAge - ticks
    BY <1>3
  <2>3. Step * (openAge - ticks) >= 160 + Slack /\ Step * (openAge - ticks) \in Int
    BY <1>3, <1>7
  <2> QED
    BY <1>5, <1>6, <2>1, <2>2, <2>3
<1>9. ~Servo_Is_Moving("TOP")
  <2> SUFFICES ASSUME Servo_Is_Moving("TOP") PROVE FALSE
    OBVIOUS
  <2>1. TopTime
    BY <1>2, <1>8 DEF RouteTime
  <2>2. since["TOP"] <= ticks /\ since["TOP"] \in Nat
    BY <1>1, <1>2, <1>3 DEF RampInv, TypeOK
  <2>3. Passed("TOP") >= 160 + Slack /\ Passed("TOP") \in Int
    BY <1>7, <2>2 DEF Passed
  <2>4. Left("TOP") \in 0..(180 - 0)
    BY <1>2, <1>3, GapWithin DEF Left, TypeOK
  <2>5. Left("TOP") + Passed("TOP") <= 160 + Slack /\ (Left("TOP") = 0 => Passed("TOP") <= 100 + Slack)
    BY <2>1 DEF TopTime
  <2> QED
    BY <1>5, <2>3, <2>4, <2>5
<1>10. horn["TOP"] = Top_Angle_For(openType)
  <2>1. TopTime /\ TopFollowsBottoms
    BY <1>2, <1>8 DEF RouteTime, DoorInv
  <2> QED
    BY <1>8, <1>9, <2>1 DEF TopTime, TopFollowsBottoms
<1>11. ASSUME NEW b \in Bottoms PROVE horn[b] = BottomRoute(openType)[b] /\ ~Servo_Is_Moving(b)
  <2>1. ~Servo_Is_Moving(b)
    BY <1>8 DEF DoorInv, TopFollowsBottoms
  <2>2. BottomTime(b)
    BY <1>2 DEF RouteTime
  <2>3. target[b] = BottomRoute(openType)[b]
    BY DEF DoorInv, RouteKnown
  <2> QED
    BY <2>1, <2>2, <2>3 DEF BottomTime
<1> QED
  BY <1>9, <1>10, <1>11 DEF Routed

LEMMA TimeInit == DoorAssumption /\ Init => TimeInv
<1> SUFFICES ASSUME DoorAssumption, Init PROVE TimeInv
  OBVIOUS
<1>1. ASSUME NEW s \in Servos
      PROVE  speed[s] \in {0, Step} /\ cur[s] \in Span(s) /\ target[s] \in Span(s)
  <2>1. speed[s] = 0 /\ cur[s] = 90 /\ target[s] = 90
    BY DEF Init
  <2>2. 90 \in Span(s)
    BY DEF Span, Servos
  <2> QED
    BY <2>1, <2>2
<1>2. target["TOP"] = 90
  BY DEF Init, Servos
<1> QED
  BY <1>1, <1>2 DEF Init, TimeInv, RampInv, RouteTime

LEMMA StepTime == DoorAssumption /\ DoorInv /\ DeadlineInv /\ TimeInv /\ [Next]_vars => TimeInv'
<1> SUFFICES ASSUME DoorAssumption, DoorInv, DeadlineInv, TimeInv, [Next]_vars, ~serviced'
             PROVE  RampInv' /\ RouteTime'
  BY DEF TimeInv
<1>1. ~serviced
  BY DEF Next, SuperLoop, SysTick_Handler, USART2_IRQHandler, HandleOpen, HandleClose, NoLineReady,
         Handle_Servo_Command, ReportGate, Servo_Update, Recycle_Update,
         Recycle_Auto_Close_Update, StartReport, NextIteration, vars
<1>2. RampInv /\ RouteTime /\ TypeOK /\ PendingWhileOpen
  BY <1>1 DEF TimeInv, DoorInv
<1> QED
  BY <1>1, <1>2, StepRamp, StepRouteTime

(* A gate that was opened once closes only after the servos delivered the      *)
(* route, wherever the cycle before left them and whenever CLOSE comes, if     *)
(* the minimum time it stays open fits the two ramps.                          *)
THEOREM RouteIsDelivered == RouteFits => (Spec => ClosesOnlyAfterRouted)
<1> SUFFICES ASSUME RouteFits PROVE Spec => ClosesOnlyAfterRouted
  OBVIOUS
<1>1. DoorAssumption
  BY DoorAssumption
<1>2. Init => DeadlineInv
  BY <1>1 DEF Init, DeadlineInv, DoorAssumption
<1>3. Spec => []DeadlineInv
  BY <1>1, <1>2, DoorType, StepDeadline, PTL DEF Spec
<1>4. Spec => []TimeInv
  BY <1>1, <1>3, TimeInit, DoorSafe, StepTime, PTL DEF Spec
<1>5. DoorInv /\ DeadlineInv /\ TimeInv /\ [Next]_vars
        => [gate = "OPEN" /\ gate' = "CLOSED" /\ ~serviced /\ ~reopened => Routed(openType)]_vars
  BY <1>1, ClosesRouted
<1> QED
  BY <1>3, <1>4, <1>5, DoorSafe, PTL DEF Spec, ClosesOnlyAfterRouted
=============================================================================
