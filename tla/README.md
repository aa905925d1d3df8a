# Verification of the smart recycling station

The station is five programs. A camera on a Jetson recognises an item and tells an
STM32 to open the sorting gate for it; the STM32 routes the item with three servos
and measures the four bins; a Qt kiosk shows the video and counts the items of a
session; a FastAPI server keeps members, points and history; an Android app binds a
member to the kiosk by a QR code. The parts talk over a UART (lines), TCP (video with
metadata one way, JSON commands the other), HTTP and two WebSockets per bin.

The modules here are translated from that code; each definition's source lines are in
`PROJECT.json` ("map"). Times are in ticks, data is reduced to what the properties
tell apart.

## 1. Inventory

| Part | State | Operations | What is hard |
| --- | --- | --- | --- |
| MCU door (`mcu_firmware/recycle.c`, `servo.c`) | gate, last reported gate, class, opening time, close request, reserved TOP move, four values per servo | open, request a close, start TOP when both bottom servos rest, close by request or deadline, ramp | two ramps in sequence against two timers; an OPEN in the middle of any of it |
| MCU super loop (`main.c`, `isr.c`) | line mailbox, report clock | one pass: line, gate report, ramps, TOP, close, bins | interrupts between statements; the sonar report blocks the loop; one mailbox slot |
| MCU bin filter (`bin_filter.c`) | ring of five samples, blanking stamp, level | drop, update, reset | stamps modulo 2^32, stale samples, time-outs, outliers |
| Jetson door state machine (`core/door_controller.py`) | state, item, candidate, four counters, two times | look at a frame, open or close by command | failing writes, occlusion, the same frame looked at twice |
| Jetson serial link (`stream/serial_controller.py`) | cached item, door status, bin levels | send, receive thread | the item is cached before it is sent |
| Jetson streaming (`stream/socket_server.py`) | client socket, receive buffer | accept, send a frame, read commands, close | fragments, a frame half sent |
| Qt counter (`recycle_session_controller.cpp`) | totals, user, last door sample, debounce | start, finish, cancel, a frame | counts edges of a sampled signal |
| Qt window and clients (`mainwindow.cpp`, `server_client.cpp`, `jetson_client.cpp`) | page, sockets, receive buffer | buttons, countdown, socket events, HTTP answers | remote and local ends of a session race |
| Server (`services/`, `repositories/`, `connection_manager.py`) | users, logs, kiosk status, rooms | bind, submit, cancel, deduct, login, history; connect, disconnect | every await is an interleaving point; two commits per submit; no idempotency |
| App (`HomeViewModel.kt`, `KioskWebSocketManager.kt`, `ShopViewModel.kt`) | bind and session flags, result, socket, reconnect job, cached balance | scan, cancel, dismiss, event, purchase | connects its socket only after the bind is answered; events name no session |
| Inference, drawing, training (`detector.py`, `ui/pages`, Compose screens, `ai_models`) | none that outlives a call | | numeric or visual; not modelled |

What makes each part correct:

- *Gate*: an item only falls when its route stands, the gate always closes again, a
  closed gate leaves no servo behind, and every edge is reported.
- *Bins*: a falling item is never measured, the report follows a steady distance.
- *Jetson*: the door opens for a stable, accepted item and closes when it is gone, and
  the state machine never believes more than it sent.
- *Stream*: the kiosk's decoders are given whole packets, in order, each at most once, and
  the connection comes back after every failure the kiosk can know of.
- *Session*: each finished session pays its member exactly once, the log explains the
  balance, and no participant stays in a session that is over.
- *Room*: an old socket's farewell never takes the place of its successor, and a phone that
  wants its events gets its place back.
- *Wallet*: no balance is overdrawn, every coupon was paid for, the app acts for the member
  who is logged in, and its cached balance settles on the server's.

The hazards, each at its line, are in `PROJECT.json` ("hazards") with the properties
that watch them; those without one say why.

## 2. Modules

| Module | Stands for | Proofs |
| --- | --- | --- |
| `McuDoor` | `recycle.c`, `servo.c`, the super loop, both interrupts | `McuDoor_proofs` |
| `Gate` | what the other end of the UART sees of the MCU; `McuDoor` implements it | `McuDoor_proofs` |
| `BinFilter` | `bin_filter.c`, one of the four identical bins | `BinFilter_proofs` |
| `DoorController` | `door_controller.py`, one iteration of `main.py`, the camera's latest-frame cell | `DoorController_proofs` |
| `DoorLink` | a `Gate`, the UART, `serial_controller.py`, the frames and the kiosk's counter | `DoorLink_proofs` |
| `StreamFraming` | `socket_server.py`, TCP and `jetson_client.cpp`, cell by cell | `StreamFraming_proofs` |
| `KioskSession` | bind, submit and cancel through the app, the server and Qt | `KioskSession_proofs` |
| `KioskRooms` | `connection_manager.py`, its endpoint and `KioskWebSocketManager.kt` | `KioskRooms_proofs` |
| `Wallet` | a member's points on the server, in the app's store and in the shop | `Wallet_proofs` |

Each `MC` module holds the values its configurations use. `DoorLink` has a `Gate` where
`McuDoor` would be; what `DoorLink` takes as a frame that arrives or is lost is
`StreamFraming`'s subject, and what `KioskSession` takes as a socket that connects or
drops is `KioskRooms`'. `Wallet` has `KioskSession`'s payments as points from outside.

### McuDoor

`pc` is the next statement of the loop in `main.c`: `rx`, `report`, `servo`, `route`,
`close`, `bins`, `sonar`. `SysTick_Handler` and `USART2_IRQHandler` may run between any
two. A line is one event; the assembly of its bytes and the 31 character limit are left
out, and what arrives while a line waits is lost, as in `isr.c`. The code keeps time
stamps and subtracts; the model keeps the differences (`openAge`, `since`), which is the
same as long as none exceeds 2^32 ms. `cur` is the ramp generator's position and `horn`
the angle on the pin: they differ after power-on, because `Servo_Init` sets one and
`Recycle_Init` writes only the other. `serviced` and `reopened` are history: a console
line has moved a servo by hand; an OPEN came while the gate was open.

### BinFilter

The clock wraps at `2 * Half`. Distances and percents are exact integers (scaled by 60,
which every average of up to five samples divides) where the code uses floats; the dead
band and outlier comparisons are on that scale. `sinceDrop` and `steady` are history.

### DoorController

One iteration of the main loop is `Tick` (time passes, commands are read), then `Look`
(the state machine sees the latest frame, new or not). `request_open` and
`request_close` are the kiosk's commands, which may come in any number in between. Every
serial write may fail. `wire` is the last command that left the port, `unseen` the looks
in a row without the item, `log` the last `LogLength` looks (0: all of them) with what they
accepted and their age: history that the code does not have. `time.time()` is
monotone here.

### Gate and DoorLink

`Gate` has the mailbox, the gate, its class and the state last reported. `McuDoor` maps
to it by hiding the servos, the timers and the console: `Mailbox` is the line as the gate
sees it, a console line or an unknown class being a line that is none of its business.
`ImplementsGate` includes the liveness: every line that was read is handled, every change
that lasts is reported.

`DoorLink` uses such a `Gate` as its MCU and adds what lies between the gate and the
receipt. Lines to the MCU and reports from it are queues that may lose their head (a
full mailbox, noise, a line that does not parse); the receive thread (`rx_loop`) may run
between the two halves of a command, the label (`send_command`) and the write (`Write`),
which may fail. Frames carry the cached door and what the camera shows to the kiosk;
a reconnection and a restart of the Jetson drop them. The MCU may restart at any time,
which closes the gate without a report. On the kiosk `processFrameMetadata` counts a
newly open door under the label, or under the class last on the screen if the label is
no class. The numbers of openings (`opening`, `of`, `seen`, `paid`, `stale`) are history.
When the Jetson commands is left open here: `DoorController` says when, and here it may
at any time. The simulation without a serial port is left out.

### StreamFraming

The stream is a sequence of cells, each of which knows its packet, that packet's payload
size and its own place; the kiosk reads the sizes of a header's cells and nothing else.
TCP is the sequence, of which a prefix has arrived; a read takes what has, up to `Chunk`.
`send_frame` puts a whole packet, or at its time-out or an error a part of one, after which
the Jetson closes. Connections are numbered; the kernel accepts into a backlog while the
Jetson serves an older one. Either end's disappearance is an event of its own for the other.
The Jetson learns of the kiosk's by sending to it. The kiosk never writes, asks for no
keep-alive and times no silence, so that it learns of the Jetson's only when it is told.
`untold` says that it will not be: a power loss (`JetsonRestarts` is either that or an end of
the process, whose connections the kernel closes), or a close in a network that is out for
longer than the Jetson's kernel repeats it (`HalfSent`). A kiosk in that state stays
connected to nobody until something breaks its own end.
`handed` is what the decoders last got, `overran` that the buffer was cut on this connection:
history. When the buffer is cut, or a connection ends, what has not been read is gone.

A frame whose JPEG encoding fails is not sent and is a frame that does not come. The
command lines that `socket_server.py` can parse have no sender in the repository.

### KioskSession

Requests are records in `Slots`, with the stage the server has reached; each stage ends
at an `await`, so requests interleave there and a request may fail at each, keeping what
it committed. `toKiosk` and `toApp` are the WebSockets' queues, in order, lost with
their socket; `room` is the app that holds the bin's mobile place. `page` is Qt's
current page. `isKioskActive` also stands for the app's wish to be connected: the code
sets and clears them together (a logout apart, see below). `scans` counts the QR codes
scanned, for `MaxScans`. Sessions carry a number that the programs do not have, so
that balance and log can be told apart by session: a member's balance is the sum of the
ledger.

Left out: `kiosks.status`, which is written and never read; a crash of the server during a
push; the buffer of one event in the app's flows; a second bin; a logout in the middle of a
session, which empties the home screen's state, `isKioskActive` with it, but neither cancels
the session nor closes the socket (`HomeViewModel.kt:60`). A guest and the kiosk's
demonstration member are the same to the server (no user). What the member spends is in
`Wallet`.

### KioskRooms

One bin's mobile place. A socket is seen by its phone (`phone`) and by the server's
coroutine (`task`), which learn of a break separately. The lock is held across an `await`
in one place, the close of the socket that is superseded (`Supersede`); everything else
under it is one step. A send reads the place under the lock and writes outside it. Each
phone's manager has its socket, a wish, a job that waits and one past its delay, which no
`cancel` stops any more. The manager's handlers are atomic: OkHttp calls them from several
threads, and races inside one (`scheduleReconnect` against `disconnect`) are not modelled.
A break is one TCP reports; the client sends no pings. A phone that has read the server's
close reads no more, so that nobody tells it of a later break.

`tangled` is history: the user tapped again while an old socket or job was under way. For
such phones `ReconnectsOnlyDead` fails, as the findings say.

### Wallet

Requests are in `Slots`, overtake one another and are answered or given up (a lost answer,
or OkHttp's time-out, which the server does not notice). `store` is `SessionManager`'s
DataStore. Its flows emit whenever what is stored has changed, all of them, for DataStore
compares whole preferences and the flows are not made distinct: so a view model reads again
after every change. An edit and the code after it are two steps, and `Resumed` says that
who waited for one edit goes on before the next, as the main thread's queue has it. The
home screen's reads run beside each other, the shop's `collectLatest` cancels the one
before, and the cancelled read's failure shows 0, as the code does.

History: `member` is the last to log in and not out, `overtaken` a logout with a read under
way, `behind` the members whose points changed where the app cannot know and has not asked.
Left out: other phones of the member, `MyPageViewModel` (it reads as the shop does), the
dialogs, and the request of a login, which is one step with its answer. The shop's button is
enabled as in `ShopScreen.kt`, and a tap also refreshes the home screen, as in
`MainActivity.kt`.

## 3. Runs

| Run | Instance | Question |
| --- | --- | --- |
| `mcu_loop` | two classes, ramps of two ticks, minimum 6, deadline 7, console moves, fairness | Types, TOP waits, an item is routed when the gate closes, closed means neutral, deadline, it does close, and it is a `Gate` |
| `mcu_lost_edge` (violated) | one class | Is every gate change reported? |
| `bin_level` | window 5, distances -1, 5, 9, 41 cm, counter mod 6 | Settling, majority, blanking across the wrap |
| `bin_rollover` (violated) | counter mod 12 | Does only a recent drop blank? |
| `door` | two categories, four kinds of frame, hold 2, maximum 5, log of four, fairness | When does the loop open and close the door, and does it always close? |
| `door_link` | two classes, two commands, two sessions, one line or frame at a time | Is an opening one item, of its class, for one session? |
| `stream` | header of two cells, payloads of one and two, buffer of five, four frames, four failures, fairness | Whole packets in order, and does the kiosk recover? |
| `session` | two members, three scans, one session, one request at a time, fairness | Is a finished session paid, and does the app leave with the kiosk? |
| `session_many` | two members, two scans, two sessions, two requests at a time, events in queues of two | Who is paid, is anything lost, what does the log say? |
| `session_own_cancel` (violated) | two members, two sessions | Is a kiosk's own cancel harmless to it? |
| `rooms` | two phones of two sockets, two taps, two breaks, fairness | Who has the place, who reconnects, and does it end well? |
| `wallet` | one member, three requests, two taps, a failure, a payment, fairness | Balance, coupons, whose session, and does the cached balance settle? |

Why the bounds are enough for the cases that matter:

- `mcu_loop` has two classes that turn both bottom servos when one is re-opened for the
  other. A tick turns 80 degrees, and the minimum of 6 ticks is the least for which an item is
  routed at that resolution (`RouteFits` of section 4 holds with equality; with 5 the run
  finds a gate that closes on the item); the deadline is just above it, the earliest it could
  be. The real figures, at 1/6 s a tick, are 20 degrees, a minimum of 12 and 1 tick for the
  160 ms of a report, and meet `RouteFits` with equality as well: the safety properties pass
  with them and without a console too, on 1,819,945 states, too many for the liveness. The
  console's move sends a bottom servo home slowly, any number of times: TOP's start may stay
  reserved until the deadline closes the gate. In real time a cycle opened once takes about
  1.3 s. When an OPEN re-routes the gate in the middle of one the longest ramps, 834 ms
  and 1001 ms, and a report of 160 ms add up to 1995 ms of the 2000: below the resolution of
  a tick, so `ClosesOnlyAfterRouted` is stated for cycles with one OPEN.
- `bin_level` uses the real window, calibration and thresholds. Two of its distances are
  within the outlier threshold of each other, one is beyond the empty end, and -1 is a
  time-out; every filling of the ring is reached.
- In `door` two frames and two ticks are needed and one miss is tolerated, so a
  log of four looks holds the shortest stretch that opens the door with every tolerated
  miss in it.
- `door_link` allows a second command while the first one's edge is under way, a session
  that begins on an open door, and one report, the cache and one frame with three
  different ages. The proof covers longer queues and more commands.
- In `stream` a packet of four cells and a read of three exceed the buffer of five, so that it
  is cut in the middle of a packet; reads end inside headers and payloads; four failures
  suffice for a half-sent frame, a dead connection the Jetson still serves, one that waits
  in the backlog, and a last end that the kiosk is or is not told of. The real buffer is
  20 MB; a packet has at most 10 MB of image and 64 KB of text, so it is cut only when a
  single read brings more than 9.9 MB: with `NeverCut` the order is unconditional for any
  reads below that.
- `session` has a second app that takes the room and binds that are answered late.
- In `session_many` the request of a finished session is under way while the next one is
  bound, cancelled from an app, or finished with a request of its own; the two requests may
  meet at any two stages, and two members are paid for one session each. The members are
  alike and so are the free places for a request, so that the run looks at one of the states
  that differ only by these (`Alike`; no liveness is checked there). With two items a
  session and queues of one (3.1 million states), or three scans (4.9 million), it also
  passes. The proofs of `CreditedOnce`, `LogsExplainPoints` and `FinishedIsKept` cover any
  number of all of these.
- In `rooms` two phones supersede each other, and a phone's second socket meets the farewell
  of its first. With three taps and one break (652,326 states) it also passes.
- In `wallet` three requests are a purchase, the refresh that goes with it and a read that
  overtakes both. An instance with two members and two taps (259,378 states) passes
  as well. With three taps two members show the livelock told below, which `Settles`
  excludes.

The deadlock check is off where the bounds let the system stop (`stream`, `rooms`,
`wallet`): taps, failures and frames are used up. It is on elsewhere.

### Fairness

- `McuDoor`: the loop is the only thread and SysTick a hardware timer: weak fairness of
  each. Nothing is assumed about lines.
- `DoorController`: weak fairness of `Tick`, the main loop. A write may fail at any
  time, but not every one for ever: strong fairness of a successful close on an overdue
  door, which is enabled only while the camera delivers. `MaxOpenHolds` therefore
  excludes a camera that stops for good and a kiosk that re-opens for ever.
- `StreamFraming`: both event loops go round. The Jetson notices a kiosk that is gone, for it
  sends until its buffer is full. The kiosk handles an end it is told of; one that it is not
  told of has no fairness, for nothing in the code looks for it, and `Recovers` excepts it.
  Nothing is assumed of failures but their bound.
- `KioskSession`: weak fairness of Qt's and the apps' event delivery, strong fairness of
  the server's work on a request. In the code a push never waits; in the model it waits
  for room within `MaxQueue`, which strong fairness makes up for. Nothing makes a user
  act, a socket reconnect or a request succeed.
- `KioskRooms`: coroutines and timers run; who waits for the lock gets it, as asyncio's is
  first come, first served, hence strong fairness of a coroutine's work. A request whose phone
  has given up may never arrive.
- `Wallet`: the server answers and coroutines run; strong fairness of the two collectors,
  which in the model wait for a free slot and in the code for nothing.

### What the violated runs show

- A close and a re-OPEN between two looks at the gate are not reported, so the kiosk
  counts two items as one (`mcu_lost_edge`).
- A bin without a drop for half the counter's range (24.9 days) is blanked for the other
  half (`bin_rollover`); a reset brings that about at once when the counter is past half.
- The server sends the kiosk its own cancel back, and the kiosk ends whatever session it
  shows by then (`session_own_cancel`): a guest cancels, a member binds, and the member's
  session is gone.

Others were met while modelling and are not runs; `PROJECT.json` ("findings") has them with
their lines. The ones with the longest reach:

- A session that starts on an open door counts the opening of the session before again;
  `PaidAgainOnlyIfStale` holds, so there is no other way.
- A phone that leaves and rejoins quickly, before its old socket's farewell, reconnects once
  a second for as long as the session lasts. A phone that is superseded is never told.
- A read that is answered after a logout stores the old member again; if another member has
  logged in meanwhile, the reads of the two may overwrite each other's session for ever.
- A Jetson that loses its power leaves the kiosk connected to nobody: the last picture stands
  still and the reconnect timer never starts. `Recovers` holds for every end the kiosk hears of.
- A buffer that is dropped for an impossible header does not recover synchronisation, as the
  comment says it does: what follows is still the inside of a packet.

## 4. Proofs

| Theorem | Says, for every value of the constants |
| --- | --- |
| `DoorType`, `DoorDeadline` | the firmware's types; the gate's deadline |
| `TopNeverLeads`, `ClosedGoesHome` (from `DoorSafe`) | TOP waits; a closed gate has reserved nothing and is neutral or on its way |
| `RouteIsDelivered` | opened once, a gate closes only after its route was delivered |
| `DropIsBlanked`, `FilterTypes` | no reading within the blanking of a drop; the filter's types |
| `SteadyIsReported`, `MajorityIsReported` | a full ring that agrees, or mostly agrees, is the level |
| `IsGate` | the firmware implements `Gate`'s safety part (`Abstract!SafeSpec`) |
| `LinkType`, `CountsOnce` | the link's types; within a session an opening is one item |
| `PaidAgainIsStale` | only a door still open at a session's start is counted for it again |
| `RightClassCounted` | an opening is an item of the class it was commanded for |
| `ControllerType`, `StateFollowsWire` | the Jetson's types; its state is what was last sent |
| `NoEarlyClose` | the loop closes only on a lost item after the hold, or at the maximum |
| `OpensOnlyOnStable` | the loop opens only for a stable item |
| `StreamType`, `StreamFramed` | the stream's types; packets stand one after the other |
| `StreamInOrder`, `NeverCut` | whole packets in order unless cut; a large buffer is never cut |
| `SessionType`, `PaysOnce`, `LogTrailsBalance` | the session's types; payment; the log |
| `NothingFinishedIsLost` | a finished session is paid, on its way, or known to have failed |
| `RoomsType`, `ServedRegistered` | the room's types; who is served has the place |
| `ReconnectsDead` | a phone that was not too quick has one socket, and reconnects a dead one |
| `WalletType`, `Balance` | the wallet's types; earned less spent, never negative |
| `CouponsArePaid`, `ActsForMemberOnly` | coupons and deductions; whose session is stored |

The assumptions are those the modules name: `DoorAssumption` (a positive step and loop,
minimum below maximum), the filter's (blanking below half the counter),
`DoorController`'s (naturals, frames are lists of detections), `LinkAssumption` (no class has
the name of another line or label), `StreamAssumption` (no payload above `MaxSize`),
`SessionAssumption` (`NoMember` is no member), `RoomsAssumption` (`NoSocket` is no socket) and
`WalletAssumption` (a positive price, `Nobody` is no member).

Two theorems have a hypothesis of their own, which the run's constants satisfy:

- `RouteIsDelivered` has `RouteFits`: the minimum opening covers 160 degrees of ramps, three
  iterations and a report. `mcu_loop` meets it with equality. In the firmware 2000 ms at 0.12
  degrees a millisecond are 240 degrees, which leaves 80, or 667 ms, for them: 160 ms for a
  report, and so 169 ms for an iteration.
- `OpensOnlyOnStable` has `LogSuffices`, about the history variable only: the log remembers
  everything, or as many looks as a stable stretch may need. The run's log of four is the
  shortest that does.

The arguments:

- **Door.** `DoorInv` adds to the two invariants: a servo at rest is at its target
  (`RestAtTarget`), TOP is reserved only by an open gate, an open gate knows its route and
  has sent the bottom servos there, and a closed gate has sent everything home. Without
  the first, "not moving" would not mean "arrived". `DeadlineInv` bounds the opening time
  by the statement the loop is at: between two looks at the clock lie the rest of one pass,
  its report, and the next pass up to `close`.
- **Route.** `TimeInv`, while no console line has moved a servo: what a bottom servo has still
  to go and what the opening time let it go make at most 100 degrees (`BottomTime`); TOP waits
  until the loop has seen both at rest (`PendingTime`) and then has at most 60 degrees, plus
  what the loop lost (`TopTime`). At a close the opening time is at least the minimum,
  `RouteFits` leaves nothing to go, and a servo at rest has its angle on the pin. Where the
  cycle before left the servos is in these bounds: no two of their angles lie further apart.
- **Blanking.** `ClockInv`: while the blanking lasts, the stamp is exactly the remaining
  ticks ahead of the clock modulo the wrap, so the signed difference reads it right.
- **Level.** The code's sums are folds over the samples that are not stale. `FilterInv` gives
  every sample its range, so a sum over any of them lies between their number times the least
  and times the greatest; the median exists because the number of samples not above a value
  grows from none to all of them. More than half of a full ring at one value makes that value
  the median, what is averaged lies within the outlier threshold of it, and the conversion
  keeps order. `SteadyInv` says which positions the last readings have written.
- **Gate.** One step lemma, `GateStep`: each statement of the loop is one action of `Gate`
  or leaves its variables alone. The mailbox's type (`DoorType`) is all it needs.
- **Counting.** `LinkInv`: the numbers grow from the counts through the frames and the
  cache to the reports and the gate (`NumbersGrow`); a report that shows the gate open, and
  one still to be made, is newer than everything before it (`ReportIsNew`,
  `UnreportedIsNew`); among the frames and the cache an opening is shown without a gap
  (`ShownWithoutGap`), and one that was counted is shown from the first of them on
  (`CountedStaysOpen`), so the kiosk's last sample is open as well. A new edge is therefore
  a new opening. Restarts and lost lines only ever remove from this row, or add a closed
  door.
- **Counted again.** `PaidInv`: an opening that is not yet reported, or whose report is still
  on its way, was counted in no earlier session; and of the cache and the frames, one that
  shows an opening counted in an earlier session shows one that stood open when this session
  began. With `LinkInv`, nothing is counted ahead of the gate when a session begins.
- **Right class.** `RightInv`, as long as no command and no restart of the Jetson came while
  an edge was on its way (`hurried`): the label is that of the line under way and of the edge
  not yet reported (`CommandsLabelled`, `EdgesLabelled`), and what the cache and the frames
  show open carries its own class (`DoorsLabelled`).
- **Types of the Jetson.** The only step that is not local: the best detection of a list
  exists (`BestIsThere`), for the shortest prefix without one would have a prefix with one.
  This use of the least natural number stands for an induction over the list.
- **Closing.** `LostInv`: the count of losses never exceeds the looks without the item and
  is zero before the hold is over.
- **Opening.** `StableInv`: while the door is closed the candidate has a first look in the log
  (`Held`) that is as old as the candidate, with as many accepting looks since as were
  counted, the last of them where the misses began, and no gap above the tolerance. A look
  that shows the item adds one to both sides, a tolerated miss moves both ends, another item
  starts anew. The log may forget: it is the end of one that does not, and a full one covers
  the stretch, for looks come at different times (`Ages`) and among `MissTolerance + 1` looks of
  a stretch one shows the item (`CoveredCount`).
- **Payment.** `PayInv`: a submit on its way speaks for one finished session, no two for
  the same one, with that session's user and items (`SubmitInv`); both ledgers have what its
  stage says (`LedgerInv`); the session on the screen is open and its user and totals are
  Qt's, and a session that is not finished has no entry (`OpenInv`). The step lemmas are one
  per action; `Frame` collects what most actions leave alone. `FinishedIsKept` is
  inductive beside it: what is finished gets its request in the same step, and only the
  credit or a failure takes that away.
- **Stream.** `Framed`: every start of a packet in the stream is followed by that packet's
  cells and then by the next start, the buffer begins at a start unless it was cut, and only a
  connection the Jetson has left ends inside a packet. Consuming a packet shifts all of it by
  its length. Order follows, for the numbers of the starts grow.
- **Rooms.** A coroutine that receives on a healthy socket has the place: it took it under the
  lock, and who empties or takes the place looks whether it is its own (`Without`) or has
  closed the old socket before (`Supersede`), which makes it dead. For the phones, one that is
  not tangled has at most one live socket, the manager's, and no job beside it.
- **Wallet.** The conditional update makes the balance local to one step, whatever was read
  before. For the coupons each purchase number belongs to one call (`Sound`), and who drops an
  answered call records it as lost. `ActsForMember` needs that, as long as no
  logout met a read under way, every read is for the member who is logged in.

Only model-checked: the liveness properties (`GateCloses`, the fairness part of
`ImplementsGate`, `MaxOpenHolds`, `FinishedIsCredited`, `AppFollowsKiosk`, `Recovers`,
`ComesBack`, `Settles`), which are outside the prover's reach. Every invariant and every other
action property of a passing run has its theorem.

## 5. Plan

What would come next, the most valuable first:

1. **`DoorSwitch`**: an abstract switch (open with an item, close) that `DoorController`
   implements, in the place of `DoorLink`'s free commands, to find when `CountsRightClass`
   needs no `hurried`.
2. The line assembly of `USART2_IRQHandler`, byte by byte, when a line is still waiting.
3. **`Inspector`**: the inspection's decision as an operator, checked against its definition.

## 6. Not modelled

Inference and image code, drawing, the ultrasonic and UART drivers (their results and
durations are inputs), QR encoding (a third-party library), the eco tree (a function of the
count, and an animation), the upsert of a login and the paged history, training notebooks.
Durability of SQLite is taken as given: a commit is atomic and survives.

Most of the repository's C and C++ is not its own: the vendor's register headers, CMSIS and
`qrcodegen` are three quarters of it, and the themes and configuration headers a good part of
the rest. What is modelled is nearly all of the firmware's and the kiosk's own control, the
Jetson's state machines and sockets, and the state-changing code of the server and the app.
