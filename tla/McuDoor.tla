------------------------------ MODULE McuDoor ------------------------------
(***************************************************************************)
(* The STM32 sorter's door: the three hobby servos that route an item, the *)
(* gate state machine of recycle.c, the super loop of main.c that drives   *)
(* them, and the two interrupt handlers that run between its statements    *)
(* (SysTick and the UART line mailbox of isr.c).                           *)
(*                                                                         *)
(* Time.  A tick of the model stands for a fixed slice of g_sys_tick       *)
(* milliseconds.  The code keeps time stamps and reads unsigned            *)
(* differences of them; the model keeps the differences themselves         *)
(* (openAge, since), which only count while somebody reads them.           *)
(*                                                                         *)
(* The loop is one action per statement, so that interrupts may fall       *)
(* between any two of them.  An iteration sees at most LoopTicks ticks,    *)
(* plus at most ReportTicks while the ultrasonic report blocks it.         *)
(***************************************************************************)
EXTENDS Integers

CONSTANTS
  Types,         \* the recycle classes in use, among PAPER, CAN, PET, VINYL
  MinOpen,       \* DOOR_MIN_OPEN_MS, in ticks
  MaxOpen,       \* DOOR_MAX_OPEN_MS, in ticks
  Step,          \* degrees a servo turns in a tick at DOOR_SERVO_SPEED_DEG_PER_SEC
  LoopTicks,     \* most ticks in the statements of one loop iteration
  ReportTicks,   \* most ticks Report_Bin_Fill blocks, all sensors timing out
  ReportPeriod,  \* ticks between two reports
  ServiceMoves   \* the console's "<servo> <angle> <speed>" lines, as records

Servos == {"TOP", "PETVINYL", "PAPERCAN"}
Bottoms == {"PETVINYL", "PAPERCAN"}
AllTypes == {"PAPER", "CAN", "PET", "VINYL"}

ASSUME DoorAssumption ==
  /\ Types \subseteq AllTypes
  /\ MinOpen \in Nat /\ MaxOpen \in Nat /\ MinOpen < MaxOpen
  /\ Step \in Nat \ {0}
  /\ LoopTicks \in Nat \ {0} /\ ReportTicks \in Nat /\ ReportPeriod \in Nat
  /\ ServiceMoves \subseteq [servo : Servos, angle : 0..180, speed : Nat]

VARIABLES
  pc,            \* the next statement of the super loop
  ticks,         \* ticks since this iteration began
  reportAge,     \* g_sys_tick - last_tick, saturating at the period
  rx,            \* the line mailbox: g_rx_line with g_rx_line_ready
  gate,          \* s_gate_state
  prev,          \* s_gate_state_prev, the state last reported to the Jetson
  openType,      \* s_open_type
  openAge,       \* g_sys_tick - s_gate_open_tick while the gate is OPEN, else 0
  closeReq,      \* s_close_requested
  topPending,    \* s_top_move_pending
  pendingRoute,  \* s_pending_route_type
  cur,           \* g_servo_current_f, the ramp generator's position
  horn,          \* g_servo_angle, the angle the PWM output commands
  target,        \* g_servo_target
  speed,         \* g_servo_speed_deg_per_ms, 0 when the servo is at rest
  since,         \* g_sys_tick - g_servo_last_tick while speed > 0, else 0
  serviced,      \* history: a console line has moved a servo since power-on
  reopened       \* history: an OPEN came while the gate was OPEN, in this cycle

gateVars == <<gate, prev, openType, openAge, closeReq, topPending, pendingRoute>>
servoVars == <<cur, horn, target, speed, since>>
vars == <<pc, ticks, reportAge, rx, gateVars, servoVars, serviced, reopened>>

-----------------------------------------------------------------------------
(* Lines.  Every string that is no recycle class parses to NONE; an OPEN   *)
(* of NONE also stands for every other line that leaves the door alone     *)
(* ($BIN_RESET, unknown and malformed ones).                               *)

NoLine == [op |-> "EMPTY"]
OpenLines == [op : {"OPEN"}, type : Types \cup {"NONE"}]
ServiceLines == [op : {"SERVICE"}, move : ServiceMoves]
Lines == OpenLines \cup ServiceLines \cup {[op |-> "CLOSE"]}

(* The angle tables of recycle.c. *)
Neutral == [s \in Servos |->
  IF s = "TOP" THEN 90 ELSE IF s = "PETVINYL" THEN 130 ELSE 150]

Top_Angle_For(type) == IF type \in {"PAPER", "CAN"} THEN 30
                       ELSE IF type \in {"PET", "VINYL"} THEN 150 ELSE 90

BottomRoute(type) == [s \in Bottoms |->
  IF s = "PETVINYL" /\ type = "VINYL" THEN 30
  ELSE IF s = "PAPERCAN" /\ type = "CAN" THEN 50
  ELSE Neutral[s]]

-----------------------------------------------------------------------------
(* The servo driver. *)

Servo_Is_Moving(s) == speed[s] > 0
Turning(s) == Servo_Is_Moving(s) /\ cur[s] # target[s]

(* Servo_Set_Angle_Speed at the door's speed, for the servos of a table of angles. *)
RampTo(angles) ==
  /\ target' = [s \in Servos |-> IF s \in DOMAIN angles THEN angles[s] ELSE target[s]]
  /\ speed' = [s \in Servos |-> IF s \in DOMAIN angles THEN Step ELSE speed[s]]
  /\ since' = [s \in Servos |-> IF s \in DOMAIN angles THEN 0 ELSE since[s]]
  /\ UNCHANGED <<cur, horn>>

(* Mutant of Ramped: a step that may run past its target. *)
RampedUnclamped(s) ==
  IF cur[s] < target[s] THEN cur[s] + speed[s] * since[s] ELSE cur[s] - speed[s] * since[s]

(* One ramp step of servo s: toward the target, stopping on it. *)
Ramped(s) ==
  LET d == speed[s] * since[s]
  IN IF cur[s] < target[s]
     THEN IF cur[s] + d >= target[s] THEN target[s] ELSE cur[s] + d
     ELSE IF cur[s] - d <= target[s] THEN target[s] ELSE cur[s] - d

Due(s) == speed[s] > 0 /\ since[s] > 0

-----------------------------------------------------------------------------
Init ==
  /\ pc = "rx" /\ ticks = 0 /\ reportAge \in 0..ReportPeriod /\ rx = NoLine
  /\ gate = "CLOSED" /\ prev = "CLOSED"
  /\ openType = "NONE" /\ openAge = 0 /\ closeReq = FALSE
  /\ topPending = FALSE /\ pendingRoute = "NONE"
  /\ cur = [s \in Servos |-> 90]
  /\ target = [s \in Servos |-> 90]
  /\ horn = Neutral
  /\ speed = [s \in Servos |-> 0]
  /\ since = [s \in Servos |-> 0]
  /\ serviced = FALSE /\ reopened = FALSE

-----------------------------------------------------------------------------
(* Interrupts. *)

SysTick_Handler ==
  /\ ticks < IF pc = "sonar" THEN LoopTicks + ReportTicks ELSE LoopTicks
  /\ ticks' = ticks + 1
  /\ reportAge' = IF reportAge < ReportPeriod THEN reportAge + 1 ELSE reportAge
  /\ openAge' = IF gate = "OPEN" THEN openAge + 1 ELSE openAge
  /\ since' = [s \in Servos |-> IF speed[s] > 0 THEN since[s] + 1 ELSE since[s]]
  /\ UNCHANGED <<pc, rx, gate, prev, openType, closeReq, topPending, pendingRoute,
                 cur, horn, target, speed, serviced, reopened>>

(* A complete line from the UART; one that ends while the mailbox is full is dropped. *)
USART2_IRQHandler(line) ==
  /\ rx = NoLine
  /\ rx' = line
  /\ UNCHANGED <<pc, ticks, reportAge, gateVars, servoVars, serviced, reopened>>

-----------------------------------------------------------------------------
(* The super loop, statement by statement. *)

Goto(from, to) == pc = from /\ pc' = to

(* Mutant of Recycle_Door_Open: an open gate keeps the class it has. *)
OpenKeepsType(type) ==
  /\ RampTo(BottomRoute(type))
  /\ pendingRoute' = type
  /\ topPending' = TRUE
  /\ gate' = "OPEN"
  /\ openType' = IF gate = "OPEN" THEN openType ELSE type
  /\ openAge' = 0
  /\ closeReq' = FALSE
  /\ UNCHANGED prev

Recycle_Door_Open(type) ==
  /\ RampTo(BottomRoute(type))
  /\ pendingRoute' = type
  /\ topPending' = TRUE
  /\ gate' = "OPEN"
  /\ openType' = type
  /\ openAge' = 0
  /\ closeReq' = FALSE
  /\ UNCHANGED prev

HandleOpen ==
  /\ Goto("rx", "report")
  /\ rx.op = "OPEN"
  /\ rx' = NoLine
  /\ IF rx.type = "NONE"
     THEN UNCHANGED <<gateVars, servoVars, reopened>>
     ELSE Recycle_Door_Open(rx.type) /\ reopened' = (gate = "OPEN")
  /\ UNCHANGED <<ticks, reportAge, serviced>>

HandleClose ==
  /\ Goto("rx", "report")
  /\ rx.op = "CLOSE"
  /\ rx' = NoLine
  /\ closeReq' = TRUE
  /\ UNCHANGED <<ticks, reportAge, gate, prev, openType, openAge, topPending, pendingRoute,
                 servoVars, serviced, reopened>>

NoLineReady ==
  /\ Goto("rx", "report")
  /\ rx = NoLine
  /\ UNCHANGED <<ticks, reportAge, rx, gateVars, servoVars, serviced, reopened>>

(* Servo_Set_Angle_Speed from the console: speed 0 moves the PWM at once. *)
Handle_Servo_Command ==
  /\ Goto("rx", "report")
  /\ rx.op = "SERVICE"
  /\ rx' = NoLine
  /\ LET m == rx.move IN
       /\ target' = [target EXCEPT ![m.servo] = m.angle]
       /\ speed' = [speed EXCEPT ![m.servo] = m.speed]
       /\ since' = [since EXCEPT ![m.servo] = 0]
       /\ IF m.speed = 0
          THEN /\ cur' = [cur EXCEPT ![m.servo] = m.angle]
               /\ horn' = [horn EXCEPT ![m.servo] = m.angle]
          ELSE UNCHANGED <<cur, horn>>
  /\ serviced' = TRUE
  /\ UNCHANGED <<ticks, reportAge, gateVars, reopened>>

(* Mutant of ReportGate: only the opening edge is noticed. *)
ReportOpening ==
  /\ Goto("report", "servo")
  /\ prev' = IF gate = "OPEN" THEN gate ELSE prev
  /\ UNCHANGED <<ticks, reportAge, rx, gate, openType, openAge, closeReq, topPending, pendingRoute,
                 servoVars, serviced, reopened>>

(* $DOOR_STATE goes out when Recycle_Gate_State_Changed sees an edge. *)
ReportGate ==
  /\ Goto("report", "servo")
  /\ prev' = gate
  /\ UNCHANGED <<ticks, reportAge, rx, gate, openType, openAge, closeReq, topPending, pendingRoute,
                 servoVars, serviced, reopened>>

Servo_Update ==
  /\ Goto("servo", "route")
  /\ cur' = [s \in Servos |-> IF Due(s) THEN Ramped(s) ELSE cur[s]]
  /\ horn' = [s \in Servos |-> IF Due(s) THEN Ramped(s) ELSE horn[s]]
  /\ speed' = [s \in Servos |-> IF Due(s) /\ Ramped(s) = target[s] THEN 0 ELSE speed[s]]
  /\ since' = [s \in Servos |-> IF Due(s) THEN 0 ELSE since[s]]
  /\ UNCHANGED <<ticks, reportAge, rx, gateVars, target, serviced, reopened>>

(* Mutant of Recycle_Update: it waits for the paper/can servo only. *)
UpdateWaitsForOne ==
  /\ Goto("route", "close")
  /\ IF topPending /\ ~Servo_Is_Moving("PAPERCAN")
     THEN /\ RampTo([s \in {"TOP"} |-> Top_Angle_For(pendingRoute)])
          /\ topPending' = FALSE
     ELSE UNCHANGED <<servoVars, topPending>>
  /\ UNCHANGED <<ticks, reportAge, rx, gate, prev, openType, openAge, closeReq, pendingRoute,
                 serviced, reopened>>

(* TOP leaves once both bottom servos have arrived. *)
Recycle_Update ==
  /\ Goto("route", "close")
  /\ IF topPending /\ \A b \in Bottoms : ~Servo_Is_Moving(b)
     THEN /\ RampTo([s \in {"TOP"} |-> Top_Angle_For(pendingRoute)])
          /\ topPending' = FALSE
     ELSE UNCHANGED <<servoVars, topPending>>
  /\ UNCHANGED <<ticks, reportAge, rx, gate, prev, openType, openAge, closeReq, pendingRoute, serviced, reopened>>

(* Mutant of Do_Close: the reserved start of TOP survives the close. *)
CloseKeepsPending ==
  /\ RampTo(Neutral)
  /\ gate' = "CLOSED"
  /\ openType' = "NONE"
  /\ openAge' = 0
  /\ closeReq' = FALSE
  /\ UNCHANGED <<prev, topPending, pendingRoute>>

Do_Close ==
  /\ topPending' = FALSE
  /\ RampTo(Neutral)
  /\ gate' = "CLOSED"
  /\ openType' = "NONE"
  /\ openAge' = 0
  /\ closeReq' = FALSE
  /\ UNCHANGED <<prev, pendingRoute>>

(* Mutants of MustClose: a late deadline, no minimum. *)
MustCloseLate ==
  gate = "OPEN" /\ (openAge > MaxOpen \/ (closeReq /\ openAge >= MinOpen))

MustCloseAtOnce == gate = "OPEN" /\ (openAge >= MaxOpen \/ closeReq)

(* The deadline first, then a requested close that is old enough. *)
MustClose ==
  /\ gate = "OPEN"
  /\ \/ openAge >= MaxOpen
     \/ closeReq /\ openAge >= MinOpen

Recycle_Auto_Close_Update ==
  /\ Goto("close", "bins")
  /\ IF MustClose THEN Do_Close ELSE UNCHANGED <<gateVars, servoVars>>
  /\ UNCHANGED <<ticks, reportAge, rx, serviced, reopened>>

(* Report_Bin_Fill touches nothing here but takes time. *)
StartReport ==
  /\ Goto("bins", "sonar")
  /\ reportAge >= ReportPeriod
  /\ reportAge' = 0
  /\ UNCHANGED <<ticks, rx, gateVars, servoVars, serviced, reopened>>

NextIteration ==
  /\ pc = "sonar" \/ (pc = "bins" /\ reportAge < ReportPeriod)
  /\ pc' = "rx"
  /\ ticks' = 0
  /\ UNCHANGED <<reportAge, rx, gateVars, servoVars, serviced, reopened>>

SuperLoop ==
  \/ HandleOpen
  \/ HandleClose
  \/ NoLineReady
  \/ Handle_Servo_Command
  \/ ReportGate
  \/ Servo_Update
  \/ Recycle_Update
  \/ Recycle_Auto_Close_Update
  \/ StartReport
  \/ NextIteration

Next ==
  \/ SysTick_Handler
  \/ \E line \in Lines : USART2_IRQHandler(line)
  \/ SuperLoop

(* The loop is the only thread and never blocks for ever; SysTick is hardware. *)
Spec == Init /\ [][Next]_vars /\ WF_vars(SuperLoop) /\ WF_vars(SysTick_Handler)

-----------------------------------------------------------------------------
(* Properties. *)

TypeOK ==
  /\ pc \in {"rx", "report", "servo", "route", "close", "bins", "sonar"}
  /\ ticks \in 0..(LoopTicks + ReportTicks)
  /\ reportAge \in 0..ReportPeriod
  /\ rx \in Lines \cup {NoLine}
  /\ gate \in {"OPEN", "CLOSED"}
  /\ prev \in {"OPEN", "CLOSED"}
  /\ openType \in Types \cup {"NONE"}
  /\ pendingRoute \in Types \cup {"NONE"}
  /\ openAge \in Nat
  /\ closeReq \in BOOLEAN
  /\ topPending \in BOOLEAN
  /\ serviced \in BOOLEAN /\ reopened \in BOOLEAN
  /\ cur \in [Servos -> 0..180]
  /\ horn \in [Servos -> 0..180]
  /\ target \in [Servos -> 0..180]
  /\ speed \in [Servos -> Nat]
  /\ since \in [Servos -> Nat]

(* Every servo of the route of `type` has arrived: the item can only fall    *)
(* into the bin it was opened for.                                           *)
Routed(type) ==
  /\ \A b \in Bottoms : horn[b] = BottomRoute(type)[b] /\ ~Servo_Is_Moving(b)
  /\ horn["TOP"] = Top_Angle_For(type) /\ ~Servo_Is_Moving("TOP")

(* TOP never leads: when it has been sent to an open gate's slot, the bottom  *)
(* servos already rest on the route of the item the gate is open for, however *)
(* many OPENs re-targeted them meanwhile (main.c's "the two lower motors      *)
(* first" order).  A technician's console line voids it.                      *)
TopFollowsBottoms ==
  gate = "OPEN" /\ ~topPending /\ ~serviced =>
    /\ \A b \in Bottoms : cur[b] = BottomRoute(openType)[b] /\ ~Servo_Is_Moving(b)
    /\ target["TOP"] = Top_Angle_For(openType)

(* A closed gate leaves nothing half-routed: no start of TOP is reserved that  *)
(* would turn it later, whatever the console did to the bottom servos it      *)
(* waited for; and, unless the console moved one, every servo is at its       *)
(* neutral angle or on its way there.                                         *)
ClosedIsNeutral ==
  gate = "CLOSED" =>
    /\ ~topPending
    /\ ~serviced =>
         \A s \in Servos : \/ horn[s] = Neutral[s]
                           \/ Servo_Is_Moving(s) /\ target[s] = Neutral[s]

(* What the two invariants above need in order to be inductive: a servo at    *)
(* rest is where it was sent, TOP is only reserved by an open gate, an open   *)
(* gate knows its route and has sent the bottom servos there, and a closed    *)
(* one has sent every servo home (or, since power-on, never moved it).        *)
RestAtTarget == \A s \in Servos : ~Servo_Is_Moving(s) => cur[s] = target[s]

PendingWhileOpen == topPending => gate = "OPEN"

RouteKnown ==
  gate = "OPEN" => /\ openType \in Types /\ pendingRoute = openType
                   /\ ~serviced => \A b \in Bottoms : target[b] = BottomRoute(openType)[b]

HomeOrHoming ==
  gate = "CLOSED" /\ ~serviced =>
    \A s \in Servos : \/ horn[s] = Neutral[s] /\ ~Servo_Is_Moving(s)
                      \/ target[s] = Neutral[s] /\ (Servo_Is_Moving(s) \/ horn[s] = Neutral[s])

DoorInv ==
  TypeOK /\ RestAtTarget /\ PendingWhileOpen /\ RouteKnown /\ HomeOrHoming /\ TopFollowsBottoms

(* The gate never outlives its deadline by more than the rest of one loop      *)
(* iteration, its report included, and the statements of the next, whatever   *)
(* OPEN and CLOSE lines came in between.                                      *)
OpenBounded == gate = "OPEN" => openAge < MaxOpen + 2 * LoopTicks + ReportTicks

(* Its inductive form, by the statement the loop is at. *)
DeadlineInv ==
  /\ pc # "sonar" => ticks <= LoopTicks
  /\ gate = "OPEN" =>
       openAge < MaxOpen + ticks
                 + IF pc \in {"bins", "sonar"} THEN 0 ELSE LoopTicks + ReportTicks

(* A gate that was opened once closes only after the servos delivered the     *)
(* route: DOOR_MIN_OPEN covers the bottom ramp, the TOP ramp behind it and a  *)
(* blocking report, from any position the cycle before left the servos in.    *)
ClosesOnlyAfterRouted ==
  [][gate = "OPEN" /\ gate' = "CLOSED" /\ ~serviced /\ ~reopened
       => Routed(openType)]_vars

(* Once OPEN lines stop coming, the gate ends up closed for good and reported *)
(* as closed: no CLOSE line is needed, none can leave it open.                *)
GateCloses ==
  <>[](rx.op # "OPEN") => <>[](gate = "CLOSED" /\ prev = "CLOSED")

(* To the other end of the UART the firmware is a Gate: servos, ramps, the    *)
(* console and the timers show only in when it closes.  It handles every line *)
(* it has read and reports every change that lasts.                           *)
Mailbox ==
  CASE rx.op = "SERVICE" -> "OTHER"
    [] rx.op = "OPEN" -> IF rx.type = "NONE" THEN "OTHER" ELSE rx.type
    [] OTHER -> rx.op

Abstract == INSTANCE Gate WITH rx <- Mailbox

ImplementsGate == Abstract!Spec

(* Edge reporting as recycle.c and the protocol describe it: a gate state is  *)
(* reported before it changes again, so that every change is reported.        *)
EveryEdgeReported == [][gate' # gate => prev = gate]_gateVars

(* No simultaneous movement (main.c, at the call of Recycle_Update): while   *)
(* the gate opens a route, TOP and the bottom servos never turn together.     *)
NotTogether ==
  gate = "OPEN" /\ ~serviced => ~(Turning("TOP") /\ \E b \in Bottoms : Turning(b))

(* Ramps start where the servo is: the commanded angle of a servo never jumps *)
(* by more than its speed allows, except on the console's instant moves.      *)
NoJump ==
  [][~serviced' => \A s \in Servos :
       /\ horn'[s] - horn[s] <= speed[s] * since[s]
       /\ horn[s] - horn'[s] <= speed[s] * since[s]]_vars
=============================================================================
