------------------------------ MODULE KioskRooms ------------------------------
(***************************************************************************)
(* The mobile side of one bin's room: the ConnectionManager of the server, *)
(* whose lock is held while it closes the socket it replaces, the endpoint *)
(* coroutine of every socket, and in every phone a KioskWebSocketManager   *)
(* that reconnects when a socket ends and the user has not left.           *)
(*                                                                         *)
(* A socket is <<app, k>>, and k is used again when both ends are done.    *)
(* OkHttp reports a socket the server closes only once the app closes it   *)
(* too, which the manager never does on its own (it does not override      *)
(* onClosing): until then the phone takes it for open.                     *)
(***************************************************************************)
EXTENDS Integers

CONSTANTS
  Apps,         \* the phones
  Ids,          \* bound: the sockets of one phone that exist at a time
  NoSocket,     \* null, and an empty place in the room
  MaxTaps,      \* bound: connects and disconnects by users
  MaxFailures   \* bound: connections that break

Sockets == Apps \X Ids
App(s) == s[1]

ASSUME RoomsAssumption ==
  NoSocket \notin Sockets /\ MaxTaps \in Nat /\ MaxFailures \in Nat

VARIABLES
  phone,          \* OkHttp's end of a socket
  task,           \* the server's coroutine for it
  broken,         \* the sockets whose connection broke, noticed or not
  closed,         \* the sockets the server has closed
  room,           \* _rooms[bin_id]["mobile"]
  target_ws,      \* the socket send_to_mobile has read and not yet written to
  webSocket,      \* KioskWebSocketManager, by phone
  currentBinId,   \*   it is set, and isUserDisconnect is not
  reconnectJob,   \*   it waits in delay()
  running,        \*   a job is past its delay(), where nothing cancels it
  wants,          \* history: the user's last word was connect
  tangled,        \* history: the user was quicker than an old socket or job
  taps, failures  \* history: how many so far

sockets == <<phone, task, broken, closed>>
places == <<room, target_ws>>
manager == <<webSocket, currentBinId, reconnectJob, running>>
user == <<wants, tangled, taps>>
vars == <<sockets, places, manager, user, failures>>

Nobody == [a \in Apps |-> FALSE]

Init ==
  /\ phone = [s \in Sockets |-> "Gone"] /\ task = [s \in Sockets |-> "Done"]
  /\ broken = {} /\ closed = {} /\ room = NoSocket /\ target_ws = NoSocket
  /\ webSocket = [a \in Apps |-> NoSocket]
  /\ currentBinId = Nobody /\ reconnectJob = Nobody /\ running = Nobody
  /\ wants = Nobody /\ tangled = Nobody
  /\ taps = 0 /\ failures = 0

-----------------------------------------------------------------------------
(* The server.  The lock is held across an await only while a socket is      *)
(* being superseded.                                                         *)

LockFree == \A s \in Sockets : task[s] # "Supersede"

(* The upgrade request arrives, maybe after the phone has given it up. *)
Accept(s) ==
  /\ task[s] = "Request"
  /\ task' = [task EXCEPT ![s] = "Connect"]
  /\ phone' = [phone EXCEPT ![s] = IF @ = "Connecting" THEN "Open" ELSE @]
  /\ UNCHANGED <<broken, closed, places, manager, user, failures>>

(* connect gets the lock, and keeps it while it closes the old socket. *)
connect(s) ==
  /\ task[s] = "Connect" /\ LockFree
  /\ IF room = NoSocket
     THEN room' = s /\ task' = [task EXCEPT ![s] = "Receive"] /\ UNCHANGED closed
     ELSE closed' = closed \cup {room} /\ task' = [task EXCEPT ![s] = "Supersede"] /\ UNCHANGED room
  /\ UNCHANGED <<phone, broken, target_ws, manager, user, failures>>

Superseded(s) ==
  /\ task[s] = "Supersede"
  /\ room' = s /\ task' = [task EXCEPT ![s] = "Receive"]
  /\ UNCHANGED <<phone, broken, closed, target_ws, manager, user, failures>>

(* The phone has closed or no longer answers, or the server has closed. *)
Dead(s) == phone[s] \in {"Closing", "Gone"} \/ s \in broken \cup closed

ReceiveEnds(s) ==
  /\ task[s] = "Receive" /\ Dead(s)
  /\ task' = [task EXCEPT ![s] = "Disconnect"]
  /\ UNCHANGED <<phone, broken, closed, places, manager, user, failures>>

(* Mutant of Without: the place is emptied whoever has it. *)
WithoutAny(s) == NoSocket

Without(s) == IF room = s THEN NoSocket ELSE room

disconnect(s) ==
  /\ task[s] = "Disconnect" /\ LockFree
  /\ room' = Without(s)
  /\ task' = [task EXCEPT ![s] = "Done"]
  /\ UNCHANGED <<phone, broken, closed, target_ws, manager, user, failures>>

(* send_to_mobile reads the room under the lock and writes outside it; when  *)
(* the write fails it takes the lock again and unregisters what it read.     *)
SendReads ==
  /\ target_ws = NoSocket /\ room # NoSocket /\ LockFree
  /\ target_ws' = room
  /\ UNCHANGED <<sockets, room, manager, user, failures>>

SendWrites ==
  /\ target_ws # NoSocket /\ target_ws' = NoSocket
  /\ \/ target_ws \notin closed /\ UNCHANGED room
     \/ Dead(target_ws) /\ LockFree /\ room' = Without(target_ws)
  /\ UNCHANGED <<sockets, manager, user, failures>>

(* The connection is reset, or cannot be made. *)
Break(s) ==
  /\ failures < MaxFailures /\ failures' = failures + 1
  /\ phone[s] # "Gone"
  /\ broken' = broken \cup {s}
  /\ UNCHANGED <<phone, task, closed, places, manager, user>>

-----------------------------------------------------------------------------
(* The phones.  A job connects at most once: its connect cancels it.         *)

Free(s) == phone[s] = "Gone" /\ task[s] \in {"Request", "Done"} /\ target_ws # s

(* Mutant of Closing: close() is called on null, the socket of a new phone. *)
ClosingNull(a) == [s \in Sockets \cup {webSocket[a]} |-> IF s = webSocket[a] THEN "Closing" ELSE phone[s]]

Closing(a) == [s \in Sockets |-> IF s = webSocket[a] /\ phone[s] # "Gone" THEN "Closing" ELSE phone[s]]

(* Mutant of Connect: the job that waits is not cancelled. *)
ConnectBesides(a) ==
  \E s \in Sockets :
    /\ App(s) = a /\ Free(s)
    /\ phone' = [Closing(a) EXCEPT ![s] = "Connecting"]
    /\ task' = [task EXCEPT ![s] = "Request"]
    /\ broken' = broken \ {s} /\ closed' = closed \ {s}
    /\ webSocket' = [webSocket EXCEPT ![a] = s]
    /\ currentBinId' = [currentBinId EXCEPT ![a] = TRUE]
    /\ UNCHANGED reconnectJob

(* KioskWebSocketManager.connect. *)
Connect(a) ==
  \E s \in Sockets :
    /\ App(s) = a /\ Free(s)
    /\ phone' = [Closing(a) EXCEPT ![s] = "Connecting"]
    /\ task' = [task EXCEPT ![s] = "Request"]
    /\ broken' = broken \ {s} /\ closed' = closed \ {s}
    /\ webSocket' = [webSocket EXCEPT ![a] = s]
    /\ currentBinId' = [currentBinId EXCEPT ![a] = TRUE]
    /\ reconnectJob' = [reconnectJob EXCEPT ![a] = FALSE]

Tap == taps < MaxTaps /\ taps' = taps + 1
Tangles(a, late) == tangled' = [tangled EXCEPT ![a] = @ \/ late]

UserConnects(a) ==
  /\ Tap /\ Connect(a)
  /\ wants' = [wants EXCEPT ![a] = TRUE]
  /\ Tangles(a, running[a] \/ \E s \in Sockets : App(s) = a /\ phone[s] # "Gone")
  /\ UNCHANGED <<places, running, failures>>

UserDisconnects(a) ==
  /\ Tap
  /\ wants' = [wants EXCEPT ![a] = FALSE]
  /\ Tangles(a, running[a])
  /\ phone' = Closing(a)
  /\ webSocket' = [webSocket EXCEPT ![a] = NoSocket]
  /\ currentBinId' = [currentBinId EXCEPT ![a] = FALSE]
  /\ reconnectJob' = [reconnectJob EXCEPT ![a] = FALSE]
  /\ UNCHANGED <<task, broken, closed, places, running, failures>>

(* Mutant of SocketEnds: a failure is shown and nothing more. *)
EndsQuietly(s) ==
  /\ phone[s] = "Closing" \/ (phone[s] # "Gone" /\ s \in broken)
  /\ phone' = [phone EXCEPT ![s] = "Gone"]
  /\ UNCHANGED <<task, broken, closed, places, manager, user, failures>>

(* onClosed or onFailure, of whichever socket, with scheduleReconnect. *)
SocketEnds(s) ==
  /\ phone[s] = "Closing" \/ (phone[s] # "Gone" /\ s \in broken)
  /\ phone' = [phone EXCEPT ![s] = "Gone"]
  /\ reconnectJob' = [reconnectJob EXCEPT ![App(s)] = @ \/ currentBinId[App(s)]]
  /\ UNCHANGED <<task, broken, closed, places, webSocket, currentBinId, running, user, failures>>

DelayEnds(a) ==
  /\ reconnectJob[a] /\ ~running[a]
  /\ reconnectJob' = [reconnectJob EXCEPT ![a] = FALSE]
  /\ running' = [running EXCEPT ![a] = TRUE]
  /\ UNCHANGED <<sockets, places, webSocket, currentBinId, user, failures>>

Reconnects(a) ==
  /\ running[a] /\ Connect(a)
  /\ running' = [running EXCEPT ![a] = FALSE]
  /\ UNCHANGED <<places, user, failures>>

-----------------------------------------------------------------------------
Next ==
  \/ \E s \in Sockets :
       \/ Accept(s) \/ connect(s) \/ Superseded(s) \/ ReceiveEnds(s) \/ disconnect(s)
       \/ Break(s) \/ SocketEnds(s)
  \/ SendReads \/ SendWrites
  \/ \E a \in Apps : UserConnects(a) \/ UserDisconnects(a) \/ DelayEnds(a) \/ Reconnects(a)

Spec == Init /\ [][Next]_vars

Serve(s) == connect(s) \/ Superseded(s) \/ ReceiveEnds(s) \/ disconnect(s)
Retry(a) == DelayEnds(a) \/ Reconnects(a)
Told(s) == phone[s] = "Closing" \/ s \notin closed

(* Coroutines and timers run, close() of an old socket returns at its        *)
(* time-out, and whoever waits for the lock gets it: asyncio's lock is first *)
(* come, first served.  A request whose phone gave up may never arrive, and  *)
(* a phone that has read the server's close reads no more: it may never hear *)
(* that the connection broke as well.                                        *)
FairSpec ==
  /\ Spec
  /\ \A s \in Sockets :
       WF_vars(phone[s] # "Gone" /\ Accept(s)) /\ SF_vars(Serve(s)) /\ WF_vars(Told(s) /\ SocketEnds(s))
  /\ WF_vars(SendWrites)
  /\ \A a \in Apps : WF_vars(Retry(a))

-----------------------------------------------------------------------------
(* Properties. *)

TypeOK ==
  /\ phone \in [Sockets -> {"Connecting", "Open", "Closing", "Gone"}]
  /\ task \in [Sockets -> {"Request", "Connect", "Supersede", "Receive", "Disconnect", "Done"}]
  /\ broken \subseteq Sockets /\ closed \subseteq Sockets
  /\ room \in Sockets \cup {NoSocket} /\ target_ws \in Sockets \cup {NoSocket}
  /\ webSocket \in [Apps -> Sockets \cup {NoSocket}]
  /\ {currentBinId, reconnectJob, running, wants, tangled} \subseteq [Apps -> BOOLEAN]
  /\ taps \in Nat /\ failures \in Nat

(* The farewell of an old socket, or a write to it that fails late, never    *)
(* takes the place of the socket that came after it: whom the server still   *)
(* serves on a healthy socket is the one in the room.                        *)
ServedIsRegistered == \A s \in Sockets : task[s] = "Receive" /\ ~Dead(s) => room = s

(* A phone whose user never was too quick reconnects only when its socket is *)
(* gone: no callback or job of an old socket closes a newer one.             *)
ReconnectsOnlyDead ==
  \A a \in Apps : ~tangled[a] =>
    /\ reconnectJob[a] \/ running[a] => \A s \in Sockets : App(s) = a => phone[s] = "Gone"
    /\ \A s \in Sockets : App(s) = a /\ phone[s] \notin {"Closing", "Gone"} => s = webSocket[a]

(* Once connections no longer break and users no longer tap, the room has    *)
(* the open socket of a phone that wants it, or nobody does: unless a phone  *)
(* was too quick, or was superseded by another socket, which nobody tells it.*)
ComesBack ==
  <>[](\/ \E a \in Apps : tangled[a] \/ (wants[a] /\ webSocket[a] \in closed)
       \/ room = NoSocket /\ \A a \in Apps : ~wants[a]
       \/ \E a \in Apps : wants[a] /\ room = webSocket[a] /\ ~Dead(room))
=============================================================================
