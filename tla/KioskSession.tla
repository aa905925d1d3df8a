---------------------------- MODULE KioskSession ----------------------------
(***************************************************************************)
(* One session at the station as its four programs see it: the members'    *)
(* apps, the server with its database and its two sockets per bin, and the *)
(* Qt kiosk.  Requests travel over HTTP in any order and may fail; events  *)
(* travel over the sockets in order and are lost with them.  Nothing locks *)
(* the kiosk: the server binds whoever asks, and every participant may end *)
(* the session at any time.                                                *)
(*                                                                         *)
(* Sessions are numbered for the history, which the programs do not have.  *)
(* A member's points, and the rows of the log, are kept by the session     *)
(* that earned them: the balance is their sum.  kiosks.status is left out: *)
(* it is written and never read; its commits remain as steps.              *)
(***************************************************************************)
EXTENDS Integers, Sequences

CONSTANTS
  Members,      \* the users the apps are logged in as, one app each
  NoMember,     \* user_id null, and an empty place in the room
  Slots,        \* bound: HTTP requests in flight
  MaxSessions,  \* bound: sessions, the kiosk stays idle after the last
  MaxItems,     \* bound: items of a session, one point each
  MaxQueue,     \* bound: events on a socket
  MaxScans      \* bound: QR codes scanned

ASSUME SessionAssumption ==
  /\ NoMember \notin Members
  /\ MaxSessions \in Nat /\ MaxItems \in Nat /\ MaxQueue \in Nat
  /\ MaxScans \in Nat

Sessions == 1..MaxSessions
Users == Members \cup {NoMember}

VARIABLES
  account,            \* users.points, by the session that earned them
  logs,               \* recycle_logs.earned_points, by session
  calls,              \* the requests in flight, with how far the server is
  room,               \* the bin's mobile socket
  online, toKiosk,    \* the bin's kiosk socket, and what is on its way there
  toApp,              \* what is on its way to each app
  page, m_userId, totalPoints,                       \* the kiosk
  isKioskBinding, recycleResult, \* the apps: a bind on its way, a result shown
  isKioskActive,      \* an app shows a session, and keeps a socket open or tries to
  session,            \* history: the number of the kiosk's latest session
  owner, counted, ended, \* history, by session: its user, its items, its end
  failed,             \* history: the sessions whose request to the server failed
  scans               \* history: the QR codes scanned so far

database == <<account, logs>>
sockets == <<room, online, toKiosk, toApp>>
kiosk == <<page, m_userId, totalPoints>>
apps == <<isKioskBinding, isKioskActive, recycleResult>>
history == <<session, owner, counted, ended, failed, scans>>
vars == <<database, calls, sockets, kiosk, apps, history>>

Requests == [kind : {"bind", "submit", "cancel", "none"}, user : Users,
             points : 0..MaxItems, of : 0..MaxSessions,
             stage : {"sent", "credited", "logged", "stored", "told", "answered"}]

Request(kind, user, points, of) ==
  [kind |-> kind, user |-> user, points |-> points, of |-> of, stage |-> "sent"]
NoRequest == Request("none", NoMember, 0, 0)

-----------------------------------------------------------------------------
Init ==
  /\ account = [u \in Members |-> [s \in Sessions |-> 0]]
  /\ logs = [u \in Members |-> [s \in Sessions |-> 0]]
  /\ calls = [c \in Slots |-> NoRequest]
  /\ room = NoMember /\ online = FALSE /\ toKiosk = <<>>
  /\ toApp = [u \in Members |-> <<>>]
  /\ page = "idle" /\ m_userId = NoMember /\ totalPoints = 0
  /\ isKioskBinding = [u \in Members |-> FALSE]
  /\ isKioskActive = [u \in Members |-> FALSE]
  /\ recycleResult = [u \in Members |-> FALSE]
  /\ session = 0
  /\ owner = [s \in Sessions |-> NoMember]
  /\ counted = [s \in Sessions |-> 0]
  /\ ended = [s \in Sessions |-> "no"]
  /\ failed = {} /\ scans = 0

(* HTTP.  What is on behalf of no session of the kiosk has number 0; nobody  *)
(* looks at the user a cancel names.                                         *)
Free == {c \in Slots : calls[c].kind = "none"}
Post(request) ==
  Free # {} /\ calls' = [calls EXCEPT ![CHOOSE c \in Free : TRUE] = request]

At(c, kind, stage) == calls[c].kind = kind /\ calls[c].stage = stage
Reach(c, stage) == calls' = [calls EXCEPT ![c].stage = stage]
Return(c) == calls' = [calls EXCEPT ![c] = NoRequest]

(* The sockets: an event for a peer that is not connected is dropped.        *)
send_to_kiosk(event) ==
  /\ Len(toKiosk) < MaxQueue
  /\ toKiosk' = IF online THEN Append(toKiosk, event) ELSE toKiosk
  /\ UNCHANGED <<room, online, toApp>>

send_to_mobile(event) ==
  /\ \A u \in Members : Len(toApp[u]) < MaxQueue
  /\ toApp' = [u \in Members |-> IF u = room THEN Append(toApp[u], event) ELSE toApp[u]]
  /\ UNCHANGED <<room, online, toKiosk>>

-----------------------------------------------------------------------------
(* The apps. *)

(* A QR code scanned, or its link opened; the old result may still be shown. *)
bindKiosk(u) ==
  /\ ~isKioskBinding[u] /\ ~isKioskActive[u]
  /\ scans < MaxScans /\ scans' = scans + 1
  /\ Post(Request("bind", u, 0, 0))
  /\ isKioskBinding' = [isKioskBinding EXCEPT ![u] = TRUE]
  /\ UNCHANGED <<database, sockets, kiosk, isKioskActive, recycleResult,
                 session, owner, counted, ended, failed>>

(* The answer to the bind: only now does the app open its socket. *)
BindAnswered(c) ==
  /\ At(c, "bind", "answered")
  /\ isKioskBinding' = [isKioskBinding EXCEPT ![calls[c].user] = FALSE]
  /\ isKioskActive' = [isKioskActive EXCEPT ![calls[c].user] = TRUE]
  /\ Return(c)
  /\ UNCHANGED <<database, sockets, kiosk, recycleResult, history>>

LeaveSession(u) ==
  /\ isKioskActive' = [isKioskActive EXCEPT ![u] = FALSE]
  /\ UNCHANGED isKioskBinding

cancelKioskSession(u) ==
  /\ isKioskActive[u]
  /\ Post(Request("cancel", NoMember, 0, 0))
  /\ LeaveSession(u)
  /\ UNCHANGED <<database, sockets, kiosk, recycleResult, history>>

dismissRecycleResultDialog(u) ==
  /\ recycleResult[u]
  /\ recycleResult' = [recycleResult EXCEPT ![u] = FALSE]
  /\ LeaveSession(u)
  /\ UNCHANGED <<database, calls, sockets, kiosk, history>>

(* An event reaches the app, on its present socket or on one it is closing;  *)
(* it does not look at whom the event names.                                 *)
AppEvent(u) ==
  /\ toApp[u] # <<>>
  /\ toApp' = [toApp EXCEPT ![u] = Tail(@)]
  /\ recycleResult' = [recycleResult EXCEPT ![u] = @ \/ Head(toApp[u]) = "RECYCLE_COMPLETE"]
  /\ LeaveSession(u)
  /\ UNCHANGED <<database, calls, room, online, toKiosk, kiosk, history>>

(* A connection, first or again, takes the room's place from another app. *)
connect(u) ==
  /\ isKioskActive[u] /\ room # u
  /\ room' = u
  /\ UNCHANGED <<database, calls, online, toKiosk, toApp, kiosk, apps, history>>

(* The server sees that the app closed its socket. *)
disconnect(u) ==
  /\ room = u /\ ~isKioskActive[u]
  /\ room' = NoMember
  /\ UNCHANGED <<database, calls, online, toKiosk, toApp, kiosk, apps, history>>

(* The network drops an app's socket; the app will try again. *)
AppDrops(u) ==
  /\ room = u /\ isKioskActive[u]
  /\ room' = NoMember
  /\ toApp' = [toApp EXCEPT ![u] = <<>>]
  /\ UNCHANGED <<database, calls, online, toKiosk, kiosk, apps, history>>

-----------------------------------------------------------------------------
(* The server: each of its steps ends at an await. *)

bind_user(c) ==
  /\ \/ At(c, "bind", "sent") /\ Reach(c, "stored") /\ UNCHANGED sockets
     \/ /\ At(c, "bind", "stored")
        /\ send_to_kiosk([event |-> "USER_AUTHENTICATED", user |-> calls[c].user, of |-> 0])
        /\ Reach(c, "answered")
  /\ UNCHANGED <<database, kiosk, apps, history>>

Add(ledger, c) ==
  [u \in Members |-> [s \in Sessions |->
     IF u = calls[c].user /\ s = calls[c].of THEN ledger[u][s] + calls[c].points ELSE ledger[u][s]]]

add_points_atomic(c) ==
  /\ At(c, "submit", "sent")
  /\ account' = Add(account, c)
  /\ Reach(c, "credited")
  /\ UNCHANGED <<logs, sockets>>

(* Mutant of create_log: an insert that is tried again after it committed. *)
CreateLogAgain(c) ==
  /\ At(c, "submit", "credited")
  /\ logs' = Add(logs, c)
  /\ Reach(c, "credited") \/ Reach(c, "logged")
  /\ UNCHANGED <<account, sockets>>

create_log(c) ==
  /\ At(c, "submit", "credited")
  /\ logs' = Add(logs, c)
  /\ Reach(c, "logged")
  /\ UNCHANGED <<account, sockets>>

submit_recycle(c) ==
  /\ \/ add_points_atomic(c)
     \/ create_log(c)
     \/ At(c, "submit", "logged") /\ Reach(c, "stored") /\ UNCHANGED <<database, sockets>>
     \/ /\ At(c, "submit", "stored")
        /\ send_to_mobile("RECYCLE_COMPLETE")
        /\ Return(c)
        /\ UNCHANGED database
  /\ UNCHANGED <<kiosk, apps, history>>

cancel_session(c) ==
  /\ \/ At(c, "cancel", "sent") /\ Reach(c, "stored") /\ UNCHANGED sockets
     \/ /\ At(c, "cancel", "stored")
        /\ send_to_kiosk([event |-> "SESSION_CANCELLED", user |-> NoMember, of |-> calls[c].of])
        /\ Reach(c, "told")
     \/ /\ At(c, "cancel", "told")
        /\ send_to_mobile("SESSION_CANCELLED")
        /\ Return(c)
  /\ UNCHANGED <<database, kiosk, apps, history>>

(* Mutant of Fails: the kiosk sends a request without an answer again. *)
FailsAndRetries(c) ==
  /\ calls[c].kind # "none" /\ calls[c].stage \notin {"stored", "told"}
  /\ \/ Return(c) /\ failed' = failed \cup ({calls[c].of} \cap Sessions)
     \/ calls[c].kind = "submit" /\ Reach(c, "sent") /\ UNCHANGED failed
  /\ isKioskBinding' = [u \in Members |->
       isKioskBinding[u] /\ ~(calls[c].kind = "bind" /\ u = calls[c].user)]
  /\ UNCHANGED <<database, sockets, kiosk, isKioskActive, recycleResult,
                 session, owner, counted, ended, scans>>

(* The request is lost, or one of its statements raises; what is committed   *)
(* stays, the rest is skipped, and nobody tries again.                       *)
Fails(c) ==
  /\ calls[c].kind # "none" /\ calls[c].stage \notin {"stored", "told"}
  /\ Return(c)
  /\ failed' = failed \cup ({calls[c].of} \cap Sessions)
  /\ isKioskBinding' = [u \in Members |->
       isKioskBinding[u] /\ ~(calls[c].kind = "bind" /\ u = calls[c].user)]
  /\ UNCHANGED <<database, sockets, kiosk, isKioskActive, recycleResult,
                 session, owner, counted, ended, scans>>

-----------------------------------------------------------------------------
(* The kiosk. *)

startSession(user) ==
  /\ session' = session + 1
  /\ owner' = [owner EXCEPT ![session + 1] = user]
  /\ ended' = [ended EXCEPT ![session + 1] = "open"]
  /\ page' = "recycle" /\ m_userId' = user /\ totalPoints' = 0
  /\ UNCHANGED <<counted, failed, scans>>

cancelSession(how) ==
  /\ ended' = [ended EXCEPT ![session] = how]
  /\ page' = "idle" /\ m_userId' = NoMember /\ totalPoints' = 0
  /\ UNCHANGED <<session, owner, counted, failed, scans>>

(* Mutant of onUserAuthenticated: whoever binds takes over the session.      *)
UserTakesOver(user) ==
  IF page = "idle" /\ session < MaxSessions
  THEN startSession(user)
  ELSE /\ m_userId' = IF page = "recycle" THEN user ELSE m_userId
       /\ UNCHANGED <<page, totalPoints, history>>

onUserAuthenticated(user) ==
  IF page = "idle" /\ session < MaxSessions
  THEN startSession(user) ELSE UNCHANGED <<kiosk, history>>

onRemoteSessionCancelled ==
  IF page = "recycle" THEN cancelSession("revoked") ELSE UNCHANGED <<kiosk, history>>

onSocketMessageReceived ==
  /\ toKiosk # <<>>
  /\ toKiosk' = Tail(toKiosk)
  /\ IF Head(toKiosk).event = "USER_AUTHENTICATED"
     THEN onUserAuthenticated(Head(toKiosk).user) ELSE onRemoteSessionCancelled
  /\ UNCHANGED <<database, calls, room, online, toApp, apps>>

(* The start button, or the QR code clicked: no user of the server. *)
onGuestStartRequested ==
  /\ page = "idle" /\ session < MaxSessions
  /\ startSession(NoMember)
  /\ UNCHANGED <<database, calls, sockets, apps>>

(* A frame that reports the door newly open for a known class. *)
ItemCounted ==
  /\ page = "recycle" /\ totalPoints < MaxItems
  /\ totalPoints' = totalPoints + 1
  /\ counted' = [counted EXCEPT ![session] = @ + 1]
  /\ UNCHANGED <<database, calls, sockets, page, m_userId, apps,
                 session, owner, ended, failed, scans>>

(* Mutants of onRecycleFinished: the finish button is always enabled; the    *)
(* session is finished before its user is read.                              *)
FinishEmpty ==
  /\ page = "recycle"
  /\ Post(Request("submit", m_userId, totalPoints, session))
  /\ page' = "result" /\ m_userId' = NoMember
  /\ ended' = [ended EXCEPT ![session] = "finished"]
  /\ UNCHANGED <<database, sockets, totalPoints, apps,
                 session, owner, counted, failed, scans>>

FinishForgetsUser ==
  /\ page = "recycle" /\ totalPoints > 0
  /\ page' = "result" /\ m_userId' = NoMember
  /\ Post(Request("submit", m_userId', totalPoints, session))
  /\ ended' = [ended EXCEPT ![session] = "finished"]
  /\ UNCHANGED <<database, sockets, totalPoints, apps,
                 session, owner, counted, failed, scans>>

onRecycleFinished ==
  /\ page = "recycle" /\ totalPoints > 0
  /\ Post(Request("submit", m_userId, totalPoints, session))
  /\ page' = "result" /\ m_userId' = NoMember
  /\ ended' = [ended EXCEPT ![session] = "finished"]
  /\ UNCHANGED <<database, sockets, totalPoints, apps,
                 session, owner, counted, failed, scans>>

(* Mutant of onReturnToIdle: the server is not told of a cancelled session. *)
ReturnSilently ==
  /\ \/ page = "recycle" /\ cancelSession("cancelled")
     \/ /\ page = "result"
        /\ page' = "idle" /\ m_userId' = NoMember /\ totalPoints' = 0
        /\ UNCHANGED history
  /\ UNCHANGED <<database, calls, sockets, apps>>

(* The cancel button, and the end of the result page by button or countdown. *)
onReturnToIdle ==
  /\ \/ /\ page = "recycle"
        /\ Post(Request("cancel", NoMember, 0, session))
        /\ cancelSession("cancelled")
     \/ /\ page = "result"
        /\ page' = "idle" /\ m_userId' = NoMember /\ totalPoints' = 0
        /\ UNCHANGED <<calls, history>>
  /\ UNCHANGED <<database, sockets, apps>>

onSocketConnected ==
  /\ ~online /\ online' = TRUE
  /\ UNCHANGED <<database, calls, room, toKiosk, toApp, kiosk, apps, history>>

onSocketDisconnected ==
  /\ online /\ online' = FALSE /\ toKiosk' = <<>>
  /\ UNCHANGED <<database, calls, room, toApp, kiosk, apps, history>>

-----------------------------------------------------------------------------
App(u) ==
  \/ bindKiosk(u) \/ cancelKioskSession(u) \/ dismissRecycleResultDialog(u) \/ AppEvent(u)
  \/ connect(u) \/ disconnect(u) \/ AppDrops(u)
Serve(c) == bind_user(c) \/ submit_recycle(c) \/ cancel_session(c) \/ BindAnswered(c)
Kiosk ==
  \/ onSocketMessageReceived \/ onGuestStartRequested \/ ItemCounted
  \/ onRecycleFinished \/ onReturnToIdle \/ onSocketConnected \/ onSocketDisconnected

Next == (\E u \in Members : App(u)) \/ (\E c \in Slots : Serve(c) \/ Fails(c)) \/ Kiosk

Spec == Init /\ [][Next]_vars

(* The server's event loop, the apps and Qt's event loop handle what arrives. *)
(* Strong fairness of a request stands for the socket's own buffer: a send    *)
(* waits for room only in the model, for MaxQueue.                            *)
FairSpec ==
  /\ Spec
  /\ \A c \in Slots : SF_vars(Serve(c))
  /\ \A u \in Members : WF_vars(AppEvent(u))
  /\ WF_vars(onSocketMessageReceived)

-----------------------------------------------------------------------------
(* Properties. *)

TypeOK ==
  /\ account \in [Members -> [Sessions -> Nat]] /\ logs \in [Members -> [Sessions -> Nat]]
  /\ calls \in [Slots -> Requests]
  /\ \A c \in Slots : calls[c].kind = "submit" => calls[c].points > 0 /\ calls[c].of \in Sessions
  /\ room \in Users /\ online \in BOOLEAN
  /\ toKiosk \in Seq([event : {"USER_AUTHENTICATED", "SESSION_CANCELLED"}, user : Users,
                      of : 0..MaxSessions])
  /\ toApp \in [Members -> Seq({"RECYCLE_COMPLETE", "SESSION_CANCELLED"})]
  /\ page \in {"idle", "recycle", "result"} /\ m_userId \in Users /\ totalPoints \in 0..MaxItems
  /\ isKioskBinding \in [Members -> BOOLEAN] /\ isKioskActive \in [Members -> BOOLEAN]
  /\ recycleResult \in [Members -> BOOLEAN]
  /\ session \in 0..MaxSessions /\ (page = "recycle" => session \in Sessions)
  /\ failed \subseteq Sessions /\ scans \in Nat
  /\ owner \in [Sessions -> Users] /\ counted \in [Sessions -> Nat]
  /\ ended \in [Sessions -> {"no", "open", "cancelled", "revoked", "finished"}]

(* A session pays only the member it was opened for, only when it was        *)
(* finished and not cancelled, once, and exactly what was counted in it,     *)
(* whatever other members bind, cancel and submit meanwhile.                 *)
CreditedOnce ==
  \A u \in Members, s \in Sessions :
    account[u][s] # 0 => /\ owner[s] = u /\ ended[s] = "finished"
                         /\ account[u][s] = counted[s]

(* The history the app shows explains the balance: points and log differ     *)
(* only between the two commits of one request, or where the second failed.  *)
LogsExplainPoints ==
  \A u \in Members, s \in Sessions :
    logs[u][s] # account[u][s] =>
      /\ logs[u][s] = 0
      /\ s \in failed \/ \E c \in Slots : At(c, "submit", "credited") /\ calls[c].of = s

(* What a member has finished is not lost on the way: it is paid, or its one *)
(* request is still to be credited and names the member, or it has failed.   *)
FinishedIsKept ==
  \A u \in Members, s \in Sessions :
    owner[s] = u /\ ended[s] = "finished" =>
      \/ account[u][s] = counted[s]
      \/ s \in failed
      \/ \E c \in Slots : At(c, "submit", "sent") /\ calls[c].of = s /\ calls[c].user = u

(* A finished session of a member is paid unless its request failed. *)
FinishedIsCredited ==
  \A u \in Members, s \in Sessions :
    (owner[s] = u /\ ended[s] = "finished") ~> (account[u][s] = counted[s] \/ s \in failed)

(* An app in the room of the kiosk that serves it hears of the end of the    *)
(* session and closes it too, unless the kiosk's request failed, the socket  *)
(* was dropped or taken, or it was not the kiosk's user who ended it.        *)
AppFollowsKiosk ==
  \A u \in Members, s \in Sessions :
    (ended[s] = "open" /\ owner[s] = u /\ isKioskActive[u] /\ room = u)
      ~> (~isKioskActive[u] \/ room # u \/ s \in failed \/ ended[s] = "revoked"
            \/ [](ended[s] = "open"))

(* The server tells the kiosk of a cancel "to return the Qt screen when the  *)
(* mobile cancelled": a cancel of the kiosk's own changes nothing there.     *)
OwnCancelIsHarmless ==
  [][toKiosk # <<>> /\ Head(toKiosk).event = "SESSION_CANCELLED" /\ Head(toKiosk).of # 0
       /\ toKiosk' = Tail(toKiosk) /\ online' => page' = page]_vars
=============================================================================
