------------------------- MODULE KioskSession_proofs -------------------------
(***************************************************************************)
(* Who is paid, for any number of members, sessions and requests in        *)
(* flight.  PayInv is the strengthening: what a submit still on its way    *)
(* says, and what the ledgers hold while it is there.                      *)
(***************************************************************************)
EXTENDS KioskSession, TLAPS

Submits(c) == calls[c].kind = "submit"
Paid(u, c) == IF u = calls[c].user THEN calls[c].points ELSE 0

(* A submit speaks for one finished session, for its user and its items. *)
SubmitInv ==
  /\ \A c \in Slots : Submits(c) =>
       /\ calls[c].of \in Sessions /\ ended[calls[c].of] = "finished"
       /\ calls[c].user = owner[calls[c].of] /\ calls[c].points = counted[calls[c].of]
  /\ \A c, d \in Slots : Submits(c) /\ Submits(d) /\ calls[c].of = calls[d].of => c = d

(* The ledgers follow the stage of the submit. *)
LedgerInv ==
  \A c \in Slots, u \in Members : Submits(c) =>
    /\ calls[c].stage = "sent" => account[u][calls[c].of] = 0
    /\ calls[c].stage = "credited" => account[u][calls[c].of] = Paid(u, c)
    /\ calls[c].stage \in {"sent", "credited"} => logs[u][calls[c].of] = 0
    /\ calls[c].stage \notin {"sent", "credited"} =>
         logs[u][calls[c].of] = account[u][calls[c].of]

(* The session on the screen is open; what is not finished has no entry. *)
OpenInv ==
  /\ page = "recycle" =>
       /\ session \in Sessions /\ ended[session] = "open"
       /\ owner[session] = m_userId /\ counted[session] = totalPoints
  /\ \A s \in Sessions : s > session => ended[s] = "no" /\ counted[s] = 0
  /\ \A s \in Sessions, u \in Members :
       ended[s] # "finished" => account[u][s] = 0 /\ logs[u][s] = 0

PayInv == SubmitInv /\ LedgerInv /\ OpenInv /\ CreditedOnce /\ LogsExplainPoints

-----------------------------------------------------------------------------
LEMMA NoEvents ==
  /\ <<>> \in Seq([event : {"USER_AUTHENTICATED", "SESSION_CANCELLED"}, user : Users, of : 0..MaxSessions])
  /\ <<>> \in Seq({"RECYCLE_COMPLETE", "SESSION_CANCELLED"})
<1>1. ASSUME NEW S PROVE <<>> \in Seq(S)
  OBVIOUS
<1> QED
  BY <1>1

LEMMA PostType ==
  ASSUME TypeOK, NEW r \in Requests, r.kind = "submit" => r.points > 0 /\ r.of \in Sessions, Post(r)
  PROVE  /\ calls' \in [Slots -> Requests]
         /\ \A c \in Slots : calls'[c].kind = "submit" => calls'[c].points > 0 /\ calls'[c].of \in Sessions
         /\ \E p \in Free : calls' = [calls EXCEPT ![p] = r]
<1>1. PICK p \in Free : calls' = [calls EXCEPT ![p] = r]
  BY DEF Post
<1>2. p \in Slots
  BY DEF Free
<1> QED
  BY <1>1, <1>2 DEF TypeOK

LEMMA RequestType ==
  ASSUME NEW k \in {"bind", "submit", "cancel", "none"}, NEW u \in Users,
         NEW n \in 0..MaxItems, NEW s \in 0..MaxSessions
  PROVE  Request(k, u, n, s) \in Requests
BY DEF Request, Requests

LEMMA InitType == Init => TypeOK
<1> SUFFICES ASSUME Init PROVE TypeOK
  OBVIOUS
<1>1. NoRequest \in Requests /\ NoRequest.kind = "none"
  BY SessionAssumption DEF NoRequest, Request, Requests, Users
<1> QED
  <2>1. account \in [Members -> [Sessions -> Nat]] /\ logs \in [Members -> [Sessions -> Nat]]
    BY DEF Init
  <2>2. calls \in [Slots -> Requests] /\ \A c \in Slots : calls[c].kind # "submit"
    BY <1>1 DEF Init
  <2>3. /\ toKiosk \in Seq([event : {"USER_AUTHENTICATED", "SESSION_CANCELLED"}, user : Users,
                            of : 0..MaxSessions])
        /\ toApp \in [Members -> Seq({"RECYCLE_COMPLETE", "SESSION_CANCELLED"})]
    BY NoEvents DEF Init
  <2>4. /\ isKioskBinding \in [Members -> BOOLEAN] /\ isKioskActive \in [Members -> BOOLEAN]
        /\ recycleResult \in [Members -> BOOLEAN]
    BY DEF Init
  <2>5. /\ owner \in [Sessions -> Users] /\ counted \in [Sessions -> Nat]
        /\ ended \in [Sessions -> {"no", "open", "cancelled", "revoked", "finished"}]
        /\ 0 \in 0..MaxItems /\ 0 \in 0..MaxSessions /\ NoMember \in Users
    BY SessionAssumption DEF Init, Users
  <2> QED
    BY <2>1, <2>2, <2>3, <2>4, <2>5 DEF Init, TypeOK

LEMMA ReachType ==
  ASSUME TypeOK, NEW c \in Slots,
         NEW g \in {"sent", "credited", "logged", "stored", "told", "answered"}, Reach(c, g)
  PROVE  /\ calls' \in [Slots -> Requests]
         /\ \A d \in Slots : calls'[d].kind = "submit" => calls'[d].points > 0 /\ calls'[d].of \in Sessions
         /\ \A d \in Slots : /\ calls'[d].kind = calls[d].kind /\ calls'[d].of = calls[d].of
                             /\ calls'[d].user = calls[d].user /\ calls'[d].points = calls[d].points
                             /\ calls'[d].stage = IF d = c THEN g ELSE calls[d].stage
<1>1. calls \in [Slots -> Requests]
  BY DEF TypeOK
<1>2. ASSUME NEW d \in Slots
      PROVE  calls'[d] = IF d = c THEN [calls[d] EXCEPT !.stage = g] ELSE calls[d]
  BY <1>1, <1>2 DEF Reach
<1>3. ASSUME NEW r \in Requests
      PROVE  /\ [r EXCEPT !.stage = g] \in Requests
             /\ [r EXCEPT !.stage = g].kind = r.kind /\ [r EXCEPT !.stage = g].of = r.of
             /\ [r EXCEPT !.stage = g].user = r.user /\ [r EXCEPT !.stage = g].points = r.points
             /\ [r EXCEPT !.stage = g].stage = g
  BY <1>3 DEF Requests
<1>4. DOMAIN calls' = Slots /\ calls' = [d \in Slots |-> calls'[d]]
  BY <1>1 DEF Reach
<1>5. ASSUME NEW d \in Slots
      PROVE  /\ calls'[d] \in Requests
             /\ calls'[d].kind = calls[d].kind /\ calls'[d].of = calls[d].of
             /\ calls'[d].user = calls[d].user /\ calls'[d].points = calls[d].points
             /\ calls'[d].stage = IF d = c THEN g ELSE calls[d].stage
  <2>1. CASE d = c
    <3>1. calls[d] \in Requests
      BY <1>1, <1>5
    <3>2. calls'[d] = [calls[d] EXCEPT !.stage = g]
      BY <1>2, <1>5, <2>1
    <3> QED
      BY <1>3, <2>1, <3>1, <3>2
  <2>2. CASE d # c
    <3>1. calls'[d] = calls[d]
      BY <1>2, <1>5, <2>2
    <3> QED
      BY <1>1, <1>5, <2>2, <3>1
  <2> QED
    BY <2>1, <2>2
<1> QED
  BY <1>4, <1>5 DEF TypeOK

LEMMA ReturnType ==
  ASSUME TypeOK, NEW c \in Slots, Return(c)
  PROVE  /\ calls' \in [Slots -> Requests]
         /\ \A d \in Slots : calls'[d].kind = "submit" => calls'[d].points > 0 /\ calls'[d].of \in Sessions
         /\ \A d \in Slots : d # c => calls'[d] = calls[d]
         /\ calls'[c].kind = "none"
<1>1. NoRequest \in Requests /\ NoRequest.kind = "none"
  BY SessionAssumption DEF NoRequest, Request, Requests, Users
<1> QED
  BY <1>1 DEF TypeOK, Return

LEMMA SocketType ==
  ASSUME TypeOK
  PROVE  /\ \A e : e \in [event : {"USER_AUTHENTICATED", "SESSION_CANCELLED"}, user : Users, of : 0..MaxSessions]
                /\ send_to_kiosk(e)
              => toKiosk' \in Seq([event : {"USER_AUTHENTICATED", "SESSION_CANCELLED"}, user : Users,
                                   of : 0..MaxSessions]) /\ UNCHANGED <<room, online, toApp>>
         /\ \A e \in {"RECYCLE_COMPLETE", "SESSION_CANCELLED"} : send_to_mobile(e)
              => toApp' \in [Members -> Seq({"RECYCLE_COMPLETE", "SESSION_CANCELLED"})]
                 /\ UNCHANGED <<room, online, toKiosk>>
<1>1. ASSUME NEW e \in [event : {"USER_AUTHENTICATED", "SESSION_CANCELLED"}, user : Users, of : 0..MaxSessions],
             send_to_kiosk(e)
      PROVE  toKiosk' \in Seq([event : {"USER_AUTHENTICATED", "SESSION_CANCELLED"}, user : Users,
                               of : 0..MaxSessions]) /\ UNCHANGED <<room, online, toApp>>
  <2> DEFINE E == [event : {"USER_AUTHENTICATED", "SESSION_CANCELLED"}, user : Users, of : 0..MaxSessions]
  <2>1. toKiosk \in Seq(E) /\ e \in E
    BY <1>1 DEF TypeOK
  <2> HIDE DEF E
  <2>2. Append(toKiosk, e) \in Seq(E)
    BY <2>1
  <2>3. toKiosk' \in Seq(E)
    BY <1>1, <2>1, <2>2 DEF send_to_kiosk
  <2> QED
    BY <1>1, <2>3 DEF send_to_kiosk, E
<1>2. ASSUME NEW e \in {"RECYCLE_COMPLETE", "SESSION_CANCELLED"}, send_to_mobile(e)
      PROVE  toApp' \in [Members -> Seq({"RECYCLE_COMPLETE", "SESSION_CANCELLED"})]
             /\ UNCHANGED <<room, online, toKiosk>>
  BY <1>2 DEF TypeOK, send_to_mobile
<1> QED
  BY <1>1, <1>2

LEMMA StartType ==
  ASSUME TypeOK, NEW u \in Users, startSession(u), session < MaxSessions
  PROVE  /\ page' \in {"idle", "recycle", "result"} /\ m_userId' \in Users
         /\ totalPoints' \in 0..MaxItems /\ session' \in Sessions /\ session' \in 0..MaxSessions
         /\ failed' = failed /\ counted' = counted /\ scans' = scans
         /\ owner' \in [Sessions -> Users]
         /\ ended' \in [Sessions -> {"no", "open", "cancelled", "revoked", "finished"}]
BY SessionAssumption DEF TypeOK, startSession, Sessions

LEMMA CancelType ==
  ASSUME TypeOK, NEW how \in {"cancelled", "revoked"}, cancelSession(how)
  PROVE  /\ page' \in {"idle", "recycle", "result"} /\ m_userId' \in Users
         /\ totalPoints' \in 0..MaxItems /\ page' # "recycle"
         /\ UNCHANGED <<session, owner, counted, failed, scans>>
         /\ ended' \in [Sessions -> {"no", "open", "cancelled", "revoked", "finished"}]
<1>1. ended' \in [Sessions -> {"no", "open", "cancelled", "revoked", "finished"}]
  BY DEF TypeOK, cancelSession
<1>2. 0 \in 0..MaxItems
  BY SessionAssumption
<1> QED
  BY <1>1, <1>2 DEF cancelSession, Users

LEMMA AppsType == ASSUME TypeOK, NEW u \in Members, App(u) PROVE TypeOK'
<1>1. CASE bindKiosk(u)
  <2>1. Request("bind", u, 0, 0) \in Requests /\ Request("bind", u, 0, 0).kind # "submit"
    BY RequestType, SessionAssumption DEF Users, Request
  <2> QED
    BY <1>1, <2>1, PostType DEF bindKiosk, TypeOK, database, sockets, kiosk, history
<1>2. CASE cancelKioskSession(u)
  <2>1. Request("cancel", NoMember, 0, 0) \in Requests /\ Request("cancel", NoMember, 0, 0).kind # "submit"
    BY RequestType, SessionAssumption DEF Users, Request
  <2> QED
    BY <1>2, <2>1, PostType DEF cancelKioskSession, LeaveSession, TypeOK, database, sockets, kiosk, history
<1>3. CASE dismissRecycleResultDialog(u)
  BY <1>3 DEF dismissRecycleResultDialog, LeaveSession, TypeOK, database, sockets, kiosk, history
<1>4. CASE AppEvent(u)
  BY <1>4 DEF AppEvent, LeaveSession, TypeOK, database, kiosk, history
<1>5. CASE connect(u)
  BY <1>5 DEF connect, TypeOK, Users, database, kiosk, apps, history
<1>6. CASE disconnect(u)
  BY <1>6 DEF disconnect, TypeOK, Users, database, kiosk, apps, history
<1>7. CASE AppDrops(u)
  BY <1>7, NoEvents DEF AppDrops, TypeOK, Users, database, kiosk, apps, history
<1> QED
  BY <1>1, <1>2, <1>3, <1>4, <1>5, <1>6, <1>7 DEF App

LEMMA AddType ==
  ASSUME TypeOK, NEW ledger \in [Members -> [Sessions -> Nat]], NEW c \in Slots
  PROVE  Add(ledger, c) \in [Members -> [Sessions -> Nat]]
<1>1. calls[c].points \in Nat
  BY SessionAssumption DEF TypeOK, Requests
<1> QED
  BY <1>1 DEF Add

LEMMA ServeType == ASSUME TypeOK, NEW c \in Slots, Serve(c) \/ Fails(c) PROVE TypeOK'
<1> DEFINE Keeps == UNCHANGED <<kiosk, session, owner, counted, ended>>
<1>1. CASE bind_user(c)
  <2>1. CASE At(c, "bind", "sent") /\ Reach(c, "stored") /\ UNCHANGED sockets
    BY <1>1, <2>1, ReachType DEF bind_user, TypeOK, database, sockets, kiosk, apps, history
  <2>2. CASE /\ send_to_kiosk([event |-> "USER_AUTHENTICATED", user |-> calls[c].user, of |-> 0])
             /\ Reach(c, "answered")
    <3>1. [event |-> "USER_AUTHENTICATED", user |-> calls[c].user, of |-> 0]
            \in [event : {"USER_AUTHENTICATED", "SESSION_CANCELLED"}, user : Users, of : 0..MaxSessions]
      BY SessionAssumption DEF TypeOK, Requests
    <3> QED
      BY <1>1, <2>2, <3>1, SocketType, ReachType DEF bind_user, TypeOK, database, kiosk, apps, history
  <2> QED
    BY <1>1, <2>1, <2>2 DEF bind_user
<1>2. CASE submit_recycle(c)
  <2>1. CASE add_points_atomic(c)
    <3>1. account' \in [Members -> [Sessions -> Nat]]
      BY <2>1, AddType DEF add_points_atomic, TypeOK
    <3> QED
      BY <1>2, <2>1, <3>1, ReachType DEF submit_recycle, add_points_atomic, TypeOK, sockets, kiosk, apps, history
  <2>2. CASE create_log(c)
    <3>1. logs' \in [Members -> [Sessions -> Nat]]
      BY <2>2, AddType DEF create_log, TypeOK
    <3> QED
      BY <1>2, <2>2, <3>1, ReachType DEF submit_recycle, create_log, TypeOK, sockets, kiosk, apps, history
  <2>3. CASE At(c, "submit", "logged") /\ Reach(c, "stored") /\ UNCHANGED <<database, sockets>>
    BY <1>2, <2>3, ReachType DEF submit_recycle, TypeOK, database, sockets, kiosk, apps, history
  <2>4. CASE send_to_mobile("RECYCLE_COMPLETE") /\ Return(c) /\ UNCHANGED database
    BY <1>2, <2>4, SocketType, ReturnType DEF submit_recycle, TypeOK, database, kiosk, apps, history
  <2> QED
    BY <1>2, <2>1, <2>2, <2>3, <2>4 DEF submit_recycle
<1>3. CASE cancel_session(c)
  <2>1. CASE At(c, "cancel", "sent") /\ Reach(c, "stored") /\ UNCHANGED sockets
    BY <1>3, <2>1, ReachType DEF cancel_session, TypeOK, database, sockets, kiosk, apps, history
  <2>2. CASE /\ send_to_kiosk([event |-> "SESSION_CANCELLED", user |-> NoMember, of |-> calls[c].of])
             /\ Reach(c, "told")
    <3>1. [event |-> "SESSION_CANCELLED", user |-> NoMember, of |-> calls[c].of]
            \in [event : {"USER_AUTHENTICATED", "SESSION_CANCELLED"}, user : Users, of : 0..MaxSessions]
      BY DEF TypeOK, Requests, Users
    <3> QED
      BY <1>3, <2>2, <3>1, SocketType, ReachType DEF cancel_session, TypeOK, database, kiosk, apps, history
  <2>3. CASE send_to_mobile("SESSION_CANCELLED") /\ Return(c)
    BY <1>3, <2>3, SocketType, ReturnType DEF cancel_session, TypeOK, database, kiosk, apps, history
  <2> QED
    BY <1>3, <2>1, <2>2, <2>3 DEF cancel_session
<1>4. CASE BindAnswered(c)
  BY <1>4, ReturnType DEF BindAnswered, TypeOK, database, sockets, kiosk, history
<1>5. CASE Fails(c)
  BY <1>5, ReturnType DEF Fails, TypeOK, database, sockets, kiosk
<1> QED
  BY <1>1, <1>2, <1>3, <1>4, <1>5 DEF Serve

LEMMA KioskType == ASSUME TypeOK, Kiosk PROVE TypeOK'
<1>1. CASE onSocketMessageReceived
  <2> DEFINE E == [event : {"USER_AUTHENTICATED", "SESSION_CANCELLED"}, user : Users, of : 0..MaxSessions]
  <2>1. toKiosk \in Seq(E) /\ toKiosk # <<>>
    BY <1>1 DEF onSocketMessageReceived, TypeOK
  <2> HIDE DEF E
  <2>2. toKiosk' \in Seq(E) /\ Head(toKiosk) \in E
    BY <1>1, <2>1 DEF onSocketMessageReceived
  <2>3. toKiosk' \in Seq([event : {"USER_AUTHENTICATED", "SESSION_CANCELLED"}, user : Users, of : 0..MaxSessions])
        /\ Head(toKiosk).user \in Users
    BY <2>2 DEF E
  <2>4. CASE UNCHANGED <<kiosk, history>>
    BY <1>1, <2>3, <2>4 DEF onSocketMessageReceived, TypeOK, database, kiosk, apps, history
  <2>5. CASE startSession(Head(toKiosk).user) /\ session < MaxSessions
    BY <1>1, <2>3, <2>5, StartType DEF onSocketMessageReceived, TypeOK, database, apps
  <2>6. CASE cancelSession("revoked")
    BY <1>1, <2>3, <2>6, CancelType DEF onSocketMessageReceived, TypeOK, database, apps
  <2> QED
    BY <1>1, <2>4, <2>5, <2>6 DEF onSocketMessageReceived, onUserAuthenticated, onRemoteSessionCancelled
<1>2. CASE onGuestStartRequested
  <2>1. NoMember \in Users
    BY DEF Users
  <2> QED
    BY <1>2, <2>1, StartType DEF onGuestStartRequested, TypeOK, database, sockets, apps
<1>3. CASE ItemCounted
  <2>1. counted' \in [Sessions -> Nat]
    BY <1>3 DEF ItemCounted, TypeOK
  <2>2. totalPoints' \in 0..MaxItems
    BY <1>3, SessionAssumption DEF ItemCounted, TypeOK
  <2> QED
    BY <1>3, <2>1, <2>2 DEF ItemCounted, TypeOK, database, sockets, apps
<1>4. CASE onRecycleFinished
  <2> DEFINE r == Request("submit", m_userId, totalPoints, session)
  <2>1. r \in Requests /\ (r.kind = "submit" => r.points > 0 /\ r.of \in Sessions)
    <3>1. session \in Sessions /\ session \in 0..MaxSessions
      BY <1>4 DEF onRecycleFinished, TypeOK
    <3> QED
      BY <1>4, <3>1, RequestType DEF onRecycleFinished, TypeOK, Request
  <2> QED
    BY <1>4, <2>1, PostType DEF onRecycleFinished, TypeOK, database, sockets, apps, Users
<1>5. CASE onReturnToIdle
  <2>1. CASE Post(Request("cancel", NoMember, 0, session)) /\ cancelSession("cancelled")
    <3>1. /\ Request("cancel", NoMember, 0, session) \in Requests
          /\ Request("cancel", NoMember, 0, session).kind # "submit"
      BY RequestType, SessionAssumption DEF TypeOK, Users, Request
    <3> QED
      BY <1>5, <2>1, <3>1, PostType, CancelType DEF onReturnToIdle, TypeOK, database, sockets, apps
  <2>2. CASE /\ page' = "idle" /\ m_userId' = NoMember /\ totalPoints' = 0
             /\ UNCHANGED <<calls, history>>
    BY <1>5, <2>2, SessionAssumption DEF onReturnToIdle, TypeOK, database, sockets, apps, history, Users
  <2> QED
    BY <1>5, <2>1, <2>2 DEF onReturnToIdle
<1>6. CASE onSocketConnected
  BY <1>6 DEF onSocketConnected, TypeOK, database, kiosk, apps, history
<1>7. CASE onSocketDisconnected
  BY <1>7, NoEvents DEF onSocketDisconnected, TypeOK, database, kiosk, apps, history
<1> QED
  BY <1>1, <1>2, <1>3, <1>4, <1>5, <1>6, <1>7 DEF Kiosk

(* The types hold in every reachable state. *)
THEOREM SessionType == Spec => []TypeOK
<1>1. Init => TypeOK
  BY InitType
<1>2. TypeOK /\ [Next]_vars => TypeOK'
  <2> SUFFICES ASSUME TypeOK, [Next]_vars PROVE TypeOK'
    OBVIOUS
  <2>1. CASE UNCHANGED vars
    BY <2>1 DEF vars, TypeOK, database, sockets, kiosk, apps, history
  <2> QED
    BY <2>1, AppsType, ServeType, KioskType DEF Next
<1> QED
  BY <1>1, <1>2, PTL DEF Spec

-----------------------------------------------------------------------------
(* What the steps of the apps and of the failing network leave alone. *)
Frame ==
  /\ UNCHANGED <<account, logs, page, m_userId, totalPoints, session, owner, counted, ended>>
  /\ failed \subseteq failed'
  /\ \A c \in Slots : calls'[c].kind = "submit" =>
       /\ calls[c].kind = "submit" /\ calls'[c].of = calls[c].of
       /\ calls'[c].user = calls[c].user /\ calls'[c].points = calls[c].points
       /\ \/ calls'[c].stage = calls[c].stage
          \/ calls[c].stage \notin {"sent", "credited"} /\ calls'[c].stage \notin {"sent", "credited"}
  /\ \A c \in Slots : At(c, "submit", "credited") =>
       \/ At(c, "submit", "credited")' /\ calls'[c].of = calls[c].of
       \/ calls[c].of \in failed'

LEMMA FrameKeeps == ASSUME TypeOK, PayInv, Frame PROVE PayInv'
<1>1. SubmitInv'
  BY DEF Frame, PayInv, SubmitInv, Submits
<1>2. LedgerInv'
  BY DEF Frame, PayInv, LedgerInv, Submits, Paid
<1>3. OpenInv'
  BY DEF Frame, PayInv, OpenInv
<1>4. CreditedOnce'
  BY DEF Frame, PayInv, CreditedOnce
<1>5. LogsExplainPoints'
  <2> SUFFICES ASSUME NEW u \in Members, NEW s \in Sessions, logs[u][s] # account[u][s]
               PROVE  /\ logs[u][s] = 0
                      /\ s \in failed' \/ \E c \in Slots : At(c, "submit", "credited")' /\ calls'[c].of = s
    BY DEF LogsExplainPoints, Frame
  <2>1. CASE s \in failed
    BY <2>1 DEF PayInv, LogsExplainPoints, Frame
  <2>2. CASE \E c \in Slots : At(c, "submit", "credited") /\ calls[c].of = s
    BY <2>2 DEF PayInv, LogsExplainPoints, Frame, At
  <2> QED
    BY <2>1, <2>2 DEF PayInv, LogsExplainPoints
<1> QED
  BY <1>1, <1>2, <1>3, <1>4, <1>5 DEF PayInv

LEMMA PostFrame ==
  ASSUME TypeOK, NEW r \in Requests, r.kind # "submit", Post(r)
  PROVE  /\ \A c \in Slots : calls'[c].kind = "submit" => calls'[c] = calls[c]
         /\ \A c \in Slots : calls[c].kind = "submit" => calls'[c] = calls[c]
<1>1. PICK p \in Free : calls' = [calls EXCEPT ![p] = r]
  BY PostType
<1>2. \A c \in Slots : calls'[c] = IF c = p THEN r ELSE calls[c]
  BY <1>1 DEF TypeOK
<1> QED
  BY <1>1, <1>2 DEF Free, At

LEMMA AppsPay == ASSUME TypeOK, PayInv, NEW u \in Members, App(u) PROVE PayInv'
<1>1. CASE UNCHANGED <<database, kiosk, history, calls>>
  BY <1>1, FrameKeeps DEF Frame, At, database, kiosk, history
<1>2. CASE \E k \in {"bind", "cancel"}, v \in Users :
             /\ Post(Request(k, v, 0, 0))
             /\ UNCHANGED <<database, kiosk, session, owner, counted, ended, failed>>
  <2> PICK k \in {"bind", "cancel"}, v \in Users :
             /\ Post(Request(k, v, 0, 0))
             /\ UNCHANGED <<database, kiosk, session, owner, counted, ended, failed>>
    BY <1>2
  <2>1. Request(k, v, 0, 0) \in Requests /\ Request(k, v, 0, 0).kind # "submit"
    BY RequestType, SessionAssumption DEF Request
  <2> QED
    BY <2>1, PostFrame, FrameKeeps DEF Frame, At, database, kiosk, history
<1> QED
  BY <1>1, <1>2 DEF App, bindKiosk, cancelKioskSession, dismissRecycleResultDialog, AppEvent,
     connect, disconnect, AppDrops, Users, history

LEMMA FailsPay == ASSUME TypeOK, PayInv, NEW c \in Slots, Fails(c) PROVE PayInv'
<1>1. \A d \in Slots : d # c => calls'[d] = calls[d]
  BY ReturnType DEF Fails
<1>2. calls'[c].kind = "none"
  BY ReturnType DEF Fails
<1>3. At(c, "submit", "credited") => calls[c].of \in failed'
  BY DEF At, TypeOK, Fails
<1> QED
  BY <1>1, <1>2, <1>3, FrameKeeps DEF Fails, Frame, At, database, kiosk

-----------------------------------------------------------------------------
(* The commits of a submit. *)

LEMMA CreditPay == ASSUME TypeOK, PayInv, NEW c \in Slots, submit_recycle(c), add_points_atomic(c) PROVE PayInv'
<1> DEFINE s0 == calls[c].of
<1>1. /\ Submits(c) /\ calls[c].stage = "sent" /\ s0 \in Sessions /\ ended[s0] = "finished"
      /\ calls[c].user = owner[s0] /\ calls[c].points = counted[s0]
  BY DEF add_points_atomic, At, Submits, PayInv, SubmitInv
<1>2. UNCHANGED <<logs, page, m_userId, totalPoints, session, owner, counted, ended, failed>>
  BY DEF submit_recycle, add_points_atomic, kiosk, history
<1>3. \A d \in Slots : /\ calls'[d].kind = calls[d].kind /\ calls'[d].of = calls[d].of
                       /\ calls'[d].user = calls[d].user /\ calls'[d].points = calls[d].points
                       /\ calls'[d].stage = IF d = c THEN "credited" ELSE calls[d].stage
  BY ReachType DEF add_points_atomic
<1>4. \A u \in Members, s \in Sessions :
        account'[u][s] = IF s = s0 THEN Paid(u, c) ELSE account[u][s]
  <2> SUFFICES ASSUME NEW u \in Members, NEW s \in Sessions
               PROVE  account'[u][s] = IF s = s0 THEN Paid(u, c) ELSE account[u][s]
    OBVIOUS
  <2>1. account'[u][s] = IF u = calls[c].user /\ s = s0 THEN account[u][s] + calls[c].points ELSE account[u][s]
    BY DEF add_points_atomic, Add
  <2>2. account[u][s0] = 0
    BY <1>1 DEF PayInv, LedgerInv
  <2>3. calls[c].points \in Nat
    BY SessionAssumption DEF TypeOK, Requests
  <2> QED
    BY <2>1, <2>2, <2>3 DEF Paid
<1>5. \A d \in Slots : Submits(d) /\ d # c => calls[d].of # s0
  BY <1>1 DEF PayInv, SubmitInv
<1>6. SubmitInv'
  BY <1>2, <1>3 DEF PayInv, SubmitInv, Submits
<1>7. LedgerInv'
  <2> SUFFICES ASSUME NEW d \in Slots, NEW u \in Members, Submits(d)
               PROVE  /\ calls'[d].stage = "sent" => account'[u][calls[d].of] = 0
                      /\ calls'[d].stage = "credited" => account'[u][calls[d].of] = Paid(u, d)
                      /\ calls'[d].stage \in {"sent", "credited"} => logs[u][calls[d].of] = 0
                      /\ calls'[d].stage \notin {"sent", "credited"} =>
                           logs[u][calls[d].of] = account'[u][calls[d].of]
    BY <1>2, <1>3 DEF LedgerInv, Submits, Paid
  <2>1. calls[d].of \in Sessions
    BY DEF PayInv, SubmitInv
  <2>2. CASE d = c
    BY <1>1, <1>3, <1>4, <2>1, <2>2 DEF PayInv, LedgerInv
  <2>3. CASE d # c
    BY <1>3, <1>4, <1>5, <2>1, <2>3 DEF PayInv, LedgerInv
  <2> QED
    BY <2>2, <2>3
<1>8. OpenInv'
  BY <1>1, <1>2, <1>4 DEF PayInv, OpenInv
<1>9. CreditedOnce'
  BY <1>1, <1>2, <1>4 DEF PayInv, CreditedOnce, Paid
<1>10. LogsExplainPoints'
  <2> SUFFICES ASSUME NEW u \in Members, NEW s \in Sessions, logs[u][s] # account'[u][s]
               PROVE  /\ logs[u][s] = 0
                      /\ s \in failed \/ \E d \in Slots : At(d, "submit", "credited")' /\ calls'[d].of = s
    BY <1>2 DEF LogsExplainPoints
  <2>1. CASE s = s0
    BY <1>1, <1>3, <2>1 DEF PayInv, LedgerInv, At, Submits
  <2>2. CASE s # s0
    BY <1>3, <1>4, <2>2 DEF PayInv, LogsExplainPoints, At
  <2> QED
    BY <2>1, <2>2
<1> QED
  BY <1>6, <1>7, <1>8, <1>9, <1>10 DEF PayInv

LEMMA LogPay == ASSUME TypeOK, PayInv, NEW c \in Slots, submit_recycle(c), create_log(c) PROVE PayInv'
<1> DEFINE s0 == calls[c].of
<1>1. /\ Submits(c) /\ calls[c].stage = "credited" /\ s0 \in Sessions /\ ended[s0] = "finished"
      /\ calls[c].user = owner[s0] /\ calls[c].points = counted[s0]
  BY DEF create_log, At, Submits, PayInv, SubmitInv
<1>2. UNCHANGED <<account, page, m_userId, totalPoints, session, owner, counted, ended, failed>>
  BY DEF submit_recycle, create_log, kiosk, history
<1>3. \A d \in Slots : /\ calls'[d].kind = calls[d].kind /\ calls'[d].of = calls[d].of
                       /\ calls'[d].user = calls[d].user /\ calls'[d].points = calls[d].points
                       /\ calls'[d].stage = IF d = c THEN "logged" ELSE calls[d].stage
  BY ReachType DEF create_log
<1>4. \A u \in Members, s \in Sessions :
        logs'[u][s] = IF s = s0 THEN account[u][s] ELSE logs[u][s]
  <2> SUFFICES ASSUME NEW u \in Members, NEW s \in Sessions
               PROVE  logs'[u][s] = IF s = s0 THEN account[u][s] ELSE logs[u][s]
    OBVIOUS
  <2>1. logs'[u][s] = IF u = calls[c].user /\ s = s0 THEN logs[u][s] + calls[c].points ELSE logs[u][s]
    BY DEF create_log, Add
  <2>2. logs[u][s0] = 0 /\ account[u][s0] = Paid(u, c)
    BY <1>1 DEF PayInv, LedgerInv
  <2>3. calls[c].points \in Nat
    BY SessionAssumption DEF TypeOK, Requests
  <2> QED
    BY <2>1, <2>2, <2>3 DEF Paid
<1>5. \A d \in Slots : Submits(d) /\ d # c => calls[d].of # s0
  BY <1>1 DEF PayInv, SubmitInv
<1>6. SubmitInv'
  BY <1>2, <1>3 DEF PayInv, SubmitInv, Submits
<1>7. LedgerInv'
  <2> SUFFICES ASSUME NEW d \in Slots, NEW u \in Members, Submits(d)
               PROVE  /\ calls'[d].stage = "sent" => account[u][calls[d].of] = 0
                      /\ calls'[d].stage = "credited" => account[u][calls[d].of] = Paid(u, d)
                      /\ calls'[d].stage \in {"sent", "credited"} => logs'[u][calls[d].of] = 0
                      /\ calls'[d].stage \notin {"sent", "credited"} =>
                           logs'[u][calls[d].of] = account[u][calls[d].of]
    BY <1>2, <1>3 DEF LedgerInv, Submits, Paid
  <2>1. calls[d].of \in Sessions
    BY DEF PayInv, SubmitInv
  <2>2. CASE d = c
    BY <1>1, <1>3, <1>4, <2>1, <2>2 DEF PayInv, LedgerInv
  <2>3. CASE d # c
    BY <1>3, <1>4, <1>5, <2>1, <2>3 DEF PayInv, LedgerInv
  <2> QED
    BY <2>2, <2>3
<1>8. OpenInv'
  BY <1>1, <1>2, <1>4 DEF PayInv, OpenInv
<1>9. CreditedOnce'
  BY <1>2 DEF PayInv, CreditedOnce
<1>10. LogsExplainPoints'
  <2> SUFFICES ASSUME NEW u \in Members, NEW s \in Sessions, logs'[u][s] # account[u][s]
               PROVE  /\ logs'[u][s] = 0
                      /\ s \in failed \/ \E d \in Slots : At(d, "submit", "credited")' /\ calls'[d].of = s
    BY <1>2 DEF LogsExplainPoints
  <2>1. s # s0
    BY <1>4
  <2> QED
    BY <1>3, <1>4, <2>1 DEF PayInv, LogsExplainPoints, At
<1> QED
  BY <1>6, <1>7, <1>8, <1>9, <1>10 DEF PayInv

LEMMA ServePay == ASSUME TypeOK, PayInv, NEW c \in Slots, Serve(c) PROVE PayInv'
<1>1. CASE \E g \in {"stored", "answered", "told"} :
             /\ Reach(c, g) /\ UNCHANGED <<database, kiosk, history>>
             /\ calls[c].kind # "submit" \/ calls[c].stage = "logged"
  <2> PICK g \in {"stored", "answered", "told"} :
             /\ Reach(c, g) /\ UNCHANGED <<database, kiosk, history>>
             /\ calls[c].kind # "submit" \/ calls[c].stage = "logged"
    BY <1>1
  <2>1. \A d \in Slots : /\ calls'[d].kind = calls[d].kind /\ calls'[d].of = calls[d].of
                         /\ calls'[d].user = calls[d].user /\ calls'[d].points = calls[d].points
                         /\ calls'[d].stage = IF d = c THEN g ELSE calls[d].stage
    BY ReachType
  <2> QED
    BY <2>1, FrameKeeps DEF Frame, At, database, kiosk, history
<1>2. CASE Return(c) /\ UNCHANGED <<database, kiosk, history>> /\ ~At(c, "submit", "credited")
  <2>1. (\A d \in Slots : d # c => calls'[d] = calls[d]) /\ calls'[c].kind = "none"
    BY <1>2, ReturnType
  <2> QED
    BY <1>2, <2>1, FrameKeeps DEF Frame, At, database, kiosk, history
<1>3. CASE submit_recycle(c)
  <2>1. CASE add_points_atomic(c)
    BY <1>3, <2>1, CreditPay
  <2>2. CASE create_log(c)
    BY <1>3, <2>2, LogPay
  <2>3. CASE At(c, "submit", "logged") /\ Reach(c, "stored") /\ UNCHANGED <<database, sockets>>
    BY <1>1, <1>3, <2>3 DEF submit_recycle, At
  <2>4. CASE At(c, "submit", "stored") /\ Return(c) /\ UNCHANGED database
    BY <1>2, <1>3, <2>4 DEF submit_recycle, At
  <2> QED
    BY <1>3, <2>1, <2>2, <2>3, <2>4 DEF submit_recycle
<1>4. CASE bind_user(c)
  BY <1>1, <1>4 DEF bind_user, At
<1>5. CASE cancel_session(c)
  BY <1>1, <1>2, <1>5 DEF cancel_session, At
<1>6. CASE BindAnswered(c)
  BY <1>2, <1>6 DEF BindAnswered, At
<1> QED
  BY <1>3, <1>4, <1>5, <1>6 DEF Serve

-----------------------------------------------------------------------------
(* The kiosk opens, fills and ends sessions. *)

LEMMA StartPay ==
  ASSUME TypeOK, PayInv, NEW u \in Users, startSession(u), session < MaxSessions, page # "recycle",
         UNCHANGED <<account, logs, calls>>
  PROVE  PayInv'
<1>1. session + 1 \in Sessions /\ session + 1 > session
  BY SessionAssumption DEF TypeOK, Sessions
<1>2. ended[session + 1] = "no" /\ counted[session + 1] = 0
  BY <1>1 DEF PayInv, OpenInv
<1>3. /\ \A s \in Sessions : s # session + 1 => owner'[s] = owner[s] /\ ended'[s] = ended[s]
      /\ owner'[session + 1] = u /\ ended'[session + 1] = "open"
      /\ session' = session + 1 /\ page' = "recycle" /\ m_userId' = u /\ totalPoints' = 0
      /\ UNCHANGED <<counted, failed>>
  BY <1>1 DEF TypeOK, startSession
<1>4. \A s \in Sessions : ended[s] = "finished" => s # session + 1
  BY <1>2
<1>5. SubmitInv' /\ LedgerInv'
  BY <1>3, <1>4 DEF PayInv, SubmitInv, LedgerInv, Submits, Paid
<1>6. OpenInv'
  <2>1. \A s \in Sessions : s > session' => s > session /\ s # session + 1
    BY <1>3 DEF TypeOK, Sessions
  <2>2. \A s \in Sessions, v \in Members : ended'[s] # "finished" => ended[s] # "finished"
    BY <1>3, <1>2
  <2> QED
    BY <1>1, <1>2, <1>3, <2>1, <2>2 DEF PayInv, OpenInv
<1>7. CreditedOnce'
  BY <1>3, <1>4 DEF PayInv, CreditedOnce
<1>8. LogsExplainPoints'
  BY <1>3 DEF PayInv, LogsExplainPoints, At
<1> QED
  BY <1>5, <1>6, <1>7, <1>8 DEF PayInv

LEMMA EndPay ==
  ASSUME TypeOK, PayInv, page = "recycle", NEW how \in {"cancelled", "revoked"}, cancelSession(how),
         UNCHANGED <<account, logs>>,
         \A c \in Slots : calls'[c].kind = "submit" => calls'[c] = calls[c],
         \A c \in Slots : At(c, "submit", "credited") => calls'[c] = calls[c]
  PROVE  PayInv'
<1>1. session \in Sessions /\ ended[session] = "open"
  BY DEF PayInv, OpenInv
<1>2. /\ \A s \in Sessions : s # session => ended'[s] = ended[s]
      /\ ended'[session] = how /\ page' = "idle"
      /\ UNCHANGED <<session, owner, counted, failed>>
  BY <1>1 DEF TypeOK, cancelSession
<1>3. \A s \in Sessions : ended'[s] = "finished" <=> ended[s] = "finished"
  BY <1>1, <1>2
<1>4. SubmitInv' /\ LedgerInv'
  BY <1>1, <1>2, <1>3 DEF PayInv, SubmitInv, LedgerInv, Submits, Paid
<1>5. OpenInv'
  <2>1. \A s \in Sessions : s > session => s # session
    BY DEF TypeOK, Sessions
  <2> QED
    BY <1>2, <1>3, <2>1 DEF PayInv, OpenInv
<1>6. CreditedOnce'
  BY <1>2, <1>3 DEF PayInv, CreditedOnce
<1>7. LogsExplainPoints'
  BY <1>2 DEF PayInv, LogsExplainPoints, At
<1> QED
  BY <1>4, <1>5, <1>6, <1>7 DEF PayInv

LEMMA CountPay == ASSUME TypeOK, PayInv, ItemCounted PROVE PayInv'
<1>1. session \in Sessions /\ ended[session] = "open" /\ counted[session] = totalPoints
  BY DEF ItemCounted, PayInv, OpenInv
<1>2. /\ UNCHANGED <<account, logs, calls, page, m_userId, session, owner, ended, failed>>
      /\ totalPoints' = totalPoints + 1
      /\ \A s \in Sessions : counted'[s] = IF s = session THEN counted[s] + 1 ELSE counted[s]
  BY DEF ItemCounted, TypeOK, database
<1>3. \A s \in Sessions : ended[s] = "finished" => counted'[s] = counted[s]
  BY <1>1, <1>2
<1>4. SubmitInv' /\ LedgerInv'
  BY <1>2, <1>3 DEF PayInv, SubmitInv, LedgerInv, Submits, Paid
<1>5. OpenInv'
  <2>1. \A s \in Sessions : s > session => s # session
    BY DEF TypeOK, Sessions
  <2> QED
    BY <1>1, <1>2, <2>1 DEF PayInv, OpenInv
<1>6. CreditedOnce'
  BY <1>2, <1>3 DEF PayInv, CreditedOnce
<1>7. LogsExplainPoints'
  BY <1>2 DEF PayInv, LogsExplainPoints, At
<1> QED
  BY <1>4, <1>5, <1>6, <1>7 DEF PayInv

LEMMA FinishPay == ASSUME TypeOK, PayInv, onRecycleFinished PROVE PayInv'
<1> DEFINE r == Request("submit", m_userId, totalPoints, session)
<1>1. /\ session \in Sessions /\ ended[session] = "open"
      /\ owner[session] = m_userId /\ counted[session] = totalPoints
  BY DEF onRecycleFinished, PayInv, OpenInv
<1>2. PICK p \in Free : calls' = [calls EXCEPT ![p] = r]
  BY DEF onRecycleFinished, Post
<1>3. p \in Slots /\ calls[p].kind = "none"
  BY DEF Free
<1>4. /\ UNCHANGED <<account, logs, session, owner, counted, failed>>
      /\ page' = "result" /\ ended'[session] = "finished"
      /\ \A s \in Sessions : s # session => ended'[s] = ended[s]
  BY <1>1 DEF onRecycleFinished, TypeOK, database
<1>5. \A c \in Slots : c # p => calls'[c] = calls[c]
  BY <1>2 DEF TypeOK
<1>6. /\ calls'[p].kind = "submit" /\ calls'[p].user = m_userId /\ calls'[p].points = totalPoints
      /\ calls'[p].of = session /\ calls'[p].stage = "sent"
  BY <1>2, <1>3 DEF TypeOK, Request
<1>7. \A c \in Slots : Submits(c) => calls[c].of # session
  BY <1>1 DEF PayInv, SubmitInv
<1>8. SubmitInv'
  <2>1. ASSUME NEW c \in Slots, Submits(c)'
        PROVE  /\ calls'[c].of \in Sessions /\ ended'[calls'[c].of] = "finished"
               /\ calls'[c].user = owner'[calls'[c].of] /\ calls'[c].points = counted'[calls'[c].of]
    <3>1. CASE c = p
      BY <1>1, <1>4, <1>6, <3>1
    <3>2. CASE c # p
      BY <1>4, <1>5, <1>7, <2>1, <3>2 DEF PayInv, SubmitInv, Submits
    <3> QED
      BY <3>1, <3>2
  <2>2. ASSUME NEW c \in Slots, NEW d \in Slots, Submits(c)', Submits(d)', calls'[c].of = calls'[d].of
        PROVE  c = d
    BY <1>5, <1>6, <1>7, <2>2 DEF PayInv, SubmitInv, Submits
  <2> QED
    BY <2>1, <2>2 DEF SubmitInv
<1>9. LedgerInv'
  <2> SUFFICES ASSUME NEW c \in Slots, NEW u \in Members, Submits(c)'
               PROVE  /\ calls'[c].stage = "sent" => account[u][calls'[c].of] = 0
                      /\ calls'[c].stage = "credited" => account[u][calls'[c].of] = Paid(u, c)'
                      /\ calls'[c].stage \in {"sent", "credited"} => logs[u][calls'[c].of] = 0
                      /\ calls'[c].stage \notin {"sent", "credited"} =>
                           logs[u][calls'[c].of] = account[u][calls'[c].of]
    BY <1>4 DEF LedgerInv
  <2>1. CASE c = p
    BY <1>1, <1>6, <2>1 DEF PayInv, OpenInv
  <2>2. CASE c # p
    BY <1>5, <2>2 DEF PayInv, LedgerInv, Submits, Paid
  <2> QED
    BY <2>1, <2>2
<1>10. OpenInv'
  <2>1. \A s \in Sessions : s > session => s # session
    BY DEF TypeOK, Sessions
  <2> QED
    BY <1>1, <1>4, <2>1 DEF PayInv, OpenInv
<1>11. CreditedOnce'
  BY <1>1, <1>4 DEF PayInv, CreditedOnce
<1>12. LogsExplainPoints'
  BY <1>3, <1>4, <1>5 DEF PayInv, LogsExplainPoints, At
<1> QED
  BY <1>8, <1>9, <1>10, <1>11, <1>12 DEF PayInv

LEMMA KioskPay == ASSUME TypeOK, PayInv, Kiosk PROVE PayInv'
<1>1. CASE UNCHANGED <<database, calls, kiosk, history>>
  BY <1>1, FrameKeeps DEF Frame, At, database, kiosk, history
<1>2. CASE onSocketMessageReceived
  <2>1. Head(toKiosk).event = "USER_AUTHENTICATED" => Head(toKiosk).user \in Users
    <3> DEFINE E == [event : {"USER_AUTHENTICATED", "SESSION_CANCELLED"}, user : Users, of : 0..MaxSessions]
    <3>1. toKiosk \in Seq(E) /\ toKiosk # <<>>
      BY <1>2 DEF onSocketMessageReceived, TypeOK
    <3> HIDE DEF E
    <3>2. Head(toKiosk) \in E
      BY <3>1
    <3> QED
      BY <3>2 DEF E
  <2>2. UNCHANGED <<account, logs, calls>>
    BY <1>2 DEF onSocketMessageReceived, database
  <2>3. CASE /\ Head(toKiosk).event = "USER_AUTHENTICATED" /\ page = "idle"
             /\ session < MaxSessions /\ startSession(Head(toKiosk).user)
    BY <2>1, <2>2, <2>3, StartPay
  <2>4. CASE page = "recycle" /\ cancelSession("revoked")
    BY <2>2, <2>4, EndPay
  <2>5. CASE UNCHANGED <<kiosk, history>>
    BY <1>1, <2>2, <2>5 DEF database
  <2> QED
    BY <1>2, <2>3, <2>4, <2>5 DEF onSocketMessageReceived, onUserAuthenticated, onRemoteSessionCancelled
<1>3. CASE onGuestStartRequested
  <2>1. NoMember \in Users
    BY DEF Users
  <2> QED
    BY <1>3, <2>1, StartPay DEF onGuestStartRequested, database
<1>4. CASE ItemCounted
  BY <1>4, CountPay
<1>5. CASE onRecycleFinished
  BY <1>5, FinishPay
<1>6. CASE onReturnToIdle
  <2>1. CASE /\ page = "recycle" /\ Post(Request("cancel", NoMember, 0, session))
             /\ cancelSession("cancelled")
    <3>1. /\ Request("cancel", NoMember, 0, session) \in Requests
          /\ Request("cancel", NoMember, 0, session).kind # "submit"
      BY RequestType, SessionAssumption DEF TypeOK, Users, Request
    <3> QED
      BY <1>6, <2>1, <3>1, PostFrame, EndPay DEF onReturnToIdle, At, database
  <2>2. CASE page' = "idle" /\ UNCHANGED <<calls, history>>
    BY <1>6, <2>2 DEF onReturnToIdle, PayInv, SubmitInv, LedgerInv, OpenInv, CreditedOnce,
       LogsExplainPoints, Submits, Paid, At, database, history
  <2> QED
    BY <1>6, <2>1, <2>2 DEF onReturnToIdle
<1> QED
  BY <1>1, <1>2, <1>3, <1>4, <1>5, <1>6 DEF Kiosk, onSocketConnected, onSocketDisconnected

-----------------------------------------------------------------------------
LEMMA SessionPays == Spec => []PayInv
<1>1. Init => PayInv
  <2> SUFFICES ASSUME Init PROVE PayInv
    OBVIOUS
  <2>1. \A c \in Slots : calls[c].kind = "none"
    BY DEF Init, NoRequest, Request
  <2>2. \A u \in Members, s \in Sessions : account[u][s] = 0 /\ logs[u][s] = 0
    BY DEF Init
  <2> QED
    BY <2>1, <2>2 DEF Init, PayInv, SubmitInv, LedgerInv, OpenInv, CreditedOnce, LogsExplainPoints, Submits
<1>2. TypeOK /\ PayInv /\ [Next]_vars => PayInv'
  <2> SUFFICES ASSUME TypeOK, PayInv, [Next]_vars PROVE PayInv'
    OBVIOUS
  <2>1. CASE UNCHANGED vars
    BY <2>1, FrameKeeps DEF Frame, At, vars, database, kiosk, history
  <2> QED
    BY <2>1, AppsPay, ServePay, FailsPay, KioskPay DEF Next
<1> QED
  BY <1>1, <1>2, SessionType, PTL DEF Spec

(* A session pays its own member, once, what was counted in it. *)
THEOREM PaysOnce == Spec => []CreditedOnce
<1>1. PayInv => CreditedOnce
  BY DEF PayInv
<1> QED
  BY <1>1, SessionPays, PTL

(* The log explains the balance. *)
THEOREM LogTrailsBalance == Spec => []LogsExplainPoints
<1>1. PayInv => LogsExplainPoints
  BY DEF PayInv
<1> QED
  BY <1>1, SessionPays, PTL

-----------------------------------------------------------------------------
(* What was finished is not lost. *)

(* A step keeps it that finishes nothing new, leaves the record of what was  *)
(* finished and its credit, and loses no request without a record of that.   *)
LEMMA KeptBy ==
  ASSUME FinishedIsKept, failed \subseteq failed',
         \A s \in Sessions : ended'[s] = "finished" =>
           /\ ended[s] = "finished" /\ owner'[s] = owner[s] /\ counted'[s] = counted[s]
           /\ \A u \in Members : account[u][s] = counted[s] => account'[u][s] = counted[s],
         \A c \in Slots : At(c, "submit", "sent") =>
           \/ At(c, "submit", "sent")' /\ calls'[c].of = calls[c].of /\ calls'[c].user = calls[c].user
           \/ calls[c].of \in failed'
           \/ \A u \in Members :
                u = calls[c].user => account'[u][calls[c].of] = counted[calls[c].of]
  PROVE  FinishedIsKept'
<1> SUFFICES ASSUME NEW u \in Members, NEW s \in Sessions, owner'[s] = u, ended'[s] = "finished"
             PROVE  \/ account'[u][s] = counted'[s]
                    \/ s \in failed'
                    \/ \E c \in Slots :
                         At(c, "submit", "sent")' /\ calls'[c].of = s /\ calls'[c].user = u
  BY DEF FinishedIsKept
<1>1. /\ owner[s] = u /\ ended[s] = "finished" /\ counted'[s] = counted[s]
      /\ account[u][s] = counted[s] => account'[u][s] = counted[s]
  OBVIOUS
<1>2. CASE account[u][s] = counted[s] \/ s \in failed
  BY <1>1, <1>2
<1>3. CASE \E c \in Slots : At(c, "submit", "sent") /\ calls[c].of = s /\ calls[c].user = u
  BY <1>1, <1>3
<1> QED
  BY <1>1, <1>2, <1>3 DEF FinishedIsKept

(* In particular a step that touches neither a request that was sent nor the *)
(* database and the history. *)
LEMMA KeptAside ==
  ASSUME FinishedIsKept, UNCHANGED <<account, owner, counted, ended>>, failed \subseteq failed',
         \A c \in Slots : At(c, "submit", "sent") =>
           \/ At(c, "submit", "sent")' /\ calls'[c].of = calls[c].of /\ calls'[c].user = calls[c].user
           \/ calls[c].of \in failed'
  PROVE  FinishedIsKept'
<1> QED
  BY KeptBy

LEMMA AppsKeep == ASSUME TypeOK, FinishedIsKept, NEW u \in Members, App(u) PROVE FinishedIsKept'
<1>1. CASE UNCHANGED <<database, kiosk, history, calls>>
  BY <1>1, KeptAside DEF At, database, kiosk, history
<1>2. CASE \E k \in {"bind", "cancel"}, v \in Users :
             /\ Post(Request(k, v, 0, 0))
             /\ UNCHANGED <<database, kiosk, session, owner, counted, ended, failed>>
  <2> PICK k \in {"bind", "cancel"}, v \in Users :
             /\ Post(Request(k, v, 0, 0))
             /\ UNCHANGED <<database, kiosk, session, owner, counted, ended, failed>>
    BY <1>2
  <2>1. Request(k, v, 0, 0) \in Requests /\ Request(k, v, 0, 0).kind # "submit"
    BY RequestType, SessionAssumption DEF Request
  <2> QED
    BY <2>1, PostFrame, KeptAside DEF At, database, kiosk, history
<1> QED
  BY <1>1, <1>2 DEF App, bindKiosk, cancelKioskSession, dismissRecycleResultDialog, AppEvent,
     connect, disconnect, AppDrops, Users, history

LEMMA FailsKeep == ASSUME TypeOK, FinishedIsKept, NEW c \in Slots, Fails(c) PROVE FinishedIsKept'
<1>1. \A d \in Slots : d # c => calls'[d] = calls[d]
  BY ReturnType DEF Fails
<1>2. At(c, "submit", "sent") => calls[c].of \in failed'
  BY DEF At, TypeOK, Fails
<1> QED
  BY <1>1, <1>2, KeptAside DEF Fails, At, database, kiosk

LEMMA ServeKeeps == ASSUME TypeOK, PayInv, FinishedIsKept, NEW c \in Slots, Serve(c) PROVE FinishedIsKept'
<1>1. CASE \E g \in {"stored", "answered", "told", "logged"} :
             /\ Reach(c, g) /\ UNCHANGED <<account, kiosk, history>> /\ ~At(c, "submit", "sent")
  <2> PICK g \in {"stored", "answered", "told", "logged"} :
             /\ Reach(c, g) /\ UNCHANGED <<account, kiosk, history>> /\ ~At(c, "submit", "sent")
    BY <1>1
  <2>1. \A d \in Slots : /\ calls'[d].kind = calls[d].kind /\ calls'[d].of = calls[d].of
                         /\ calls'[d].user = calls[d].user
                         /\ calls'[d].stage = IF d = c THEN g ELSE calls[d].stage
    BY ReachType
  <2> QED
    BY <2>1, KeptAside DEF At, history
<1>2. CASE Return(c) /\ UNCHANGED <<database, kiosk, history>> /\ ~At(c, "submit", "sent")
  <2>1. \A d \in Slots : d # c => calls'[d] = calls[d]
    BY <1>2, ReturnType
  <2> QED
    BY <1>2, <2>1, KeptAside DEF At, database, history
<1>3. CASE submit_recycle(c)
  <2>1. CASE add_points_atomic(c)
    <3>1. UNCHANGED <<owner, counted, ended, failed>>
      BY <1>3 DEF submit_recycle, history
    <3>2. \A d \in Slots : /\ calls'[d].kind = calls[d].kind /\ calls'[d].of = calls[d].of
                           /\ calls'[d].user = calls[d].user
                           /\ calls'[d].stage = IF d = c THEN "credited" ELSE calls[d].stage
      BY <2>1, ReachType DEF add_points_atomic
    <3>3. calls[c].of \in Sessions /\ calls[c].points = counted[calls[c].of] /\ calls[c].points \in Nat
      BY <2>1, SessionAssumption DEF add_points_atomic, At, Submits, PayInv, SubmitInv, TypeOK, Requests
    <3>4. \A u \in Members : account[u][calls[c].of] = 0
      BY <2>1 DEF add_points_atomic, At, Submits, PayInv, LedgerInv
    <3>5. \A u \in Members, s \in Sessions :
            account'[u][s] = IF u = calls[c].user /\ s = calls[c].of
                             THEN account[u][s] + calls[c].points ELSE account[u][s]
      BY <2>1 DEF add_points_atomic, Add
    <3>6. \A u \in Members : u = calls[c].user => account'[u][calls[c].of] = counted[calls[c].of]
      BY <3>3, <3>4, <3>5
    <3>7. \A u \in Members, s \in Sessions : account[u][s] = counted[s] => account'[u][s] = counted[s]
      BY <3>5, <3>6
    <3> QED
      BY <3>1, <3>2, <3>6, <3>7, KeptBy DEF At
  <2>2. CASE create_log(c)
    BY <1>1, <1>3, <2>2 DEF submit_recycle, create_log, At
  <2>3. CASE At(c, "submit", "logged") /\ Reach(c, "stored") /\ UNCHANGED <<database, sockets>>
    BY <1>1, <1>3, <2>3 DEF submit_recycle, At, database
  <2>4. CASE At(c, "submit", "stored") /\ Return(c) /\ UNCHANGED database
    BY <1>2, <1>3, <2>4 DEF submit_recycle, At
  <2> QED
    BY <1>3, <2>1, <2>2, <2>3, <2>4 DEF submit_recycle
<1>4. CASE bind_user(c)
  BY <1>1, <1>4 DEF bind_user, At, database
<1>5. CASE cancel_session(c)
  BY <1>1, <1>2, <1>5 DEF cancel_session, At, database
<1>6. CASE BindAnswered(c)
  BY <1>2, <1>6 DEF BindAnswered, At
<1> QED
  BY <1>3, <1>4, <1>5, <1>6 DEF Serve

(* The kiosk's session was not finished before it opens, fills or cancels it. *)
LEMMA ScreenKeeps ==
  ASSUME TypeOK, PayInv, FinishedIsKept, UNCHANGED <<account, failed>>,
         \A c \in Slots : calls[c].kind = "submit" => calls'[c] = calls[c],
         NEW n \in Sessions, ended[n] # "finished", ended'[n] # "finished",
         \A s \in Sessions : s # n =>
           ended'[s] = ended[s] /\ owner'[s] = owner[s] /\ counted'[s] = counted[s]
  PROVE  FinishedIsKept'
<1> QED
  BY KeptBy DEF At

LEMMA StartKeeps ==
  ASSUME TypeOK, PayInv, FinishedIsKept, NEW u, startSession(u), session < MaxSessions,
         UNCHANGED <<account, calls>>
  PROVE  FinishedIsKept'
<1>1. session + 1 \in Sessions /\ session + 1 > session
  BY SessionAssumption DEF TypeOK, Sessions
<1>2. ended[session + 1] # "finished"
  BY <1>1 DEF PayInv, OpenInv
<1>3. /\ \A s \in Sessions : s # session + 1 => owner'[s] = owner[s] /\ ended'[s] = ended[s]
      /\ ended'[session + 1] = "open" /\ UNCHANGED <<counted, failed>>
  BY <1>1 DEF TypeOK, startSession
<1> QED
  BY <1>1, <1>2, <1>3, ScreenKeeps

LEMMA CancelKeeps ==
  ASSUME TypeOK, PayInv, FinishedIsKept, page = "recycle", NEW how \in {"cancelled", "revoked"},
         cancelSession(how), UNCHANGED account,
         \A c \in Slots : calls[c].kind = "submit" => calls'[c] = calls[c]
  PROVE  FinishedIsKept'
<1>1. session \in Sessions /\ ended[session] = "open"
  BY DEF PayInv, OpenInv
<1>2. /\ \A s \in Sessions : s # session => ended'[s] = ended[s]
      /\ ended'[session] = how /\ UNCHANGED <<owner, counted, failed>>
  BY <1>1 DEF TypeOK, cancelSession
<1> QED
  BY <1>1, <1>2, ScreenKeeps

(* Finishing adds the session and, in the same step, its request. *)
LEMMA FinishKeeps == ASSUME TypeOK, PayInv, FinishedIsKept, onRecycleFinished PROVE FinishedIsKept'
<1> DEFINE r == Request("submit", m_userId, totalPoints, session)
<1>1. session \in Sessions /\ owner[session] = m_userId
  BY DEF onRecycleFinished, PayInv, OpenInv
<1>2. PICK p \in Free : calls' = [calls EXCEPT ![p] = r]
  BY DEF onRecycleFinished, Post
<1>3. p \in Slots /\ calls[p].kind = "none"
  BY DEF Free
<1>4. /\ UNCHANGED <<account, owner, counted, failed>>
      /\ \A s \in Sessions : s # session => ended'[s] = ended[s]
  BY <1>1 DEF onRecycleFinished, TypeOK, database
<1>5. \A c \in Slots : c # p => calls'[c] = calls[c]
  BY <1>2 DEF TypeOK
<1>6. At(p, "submit", "sent")' /\ calls'[p].user = m_userId /\ calls'[p].of = session
  BY <1>2, <1>3 DEF TypeOK, Request, At
<1> SUFFICES ASSUME NEW u \in Members, NEW s \in Sessions, owner[s] = u, ended'[s] = "finished"
             PROVE  \/ account[u][s] = counted[s]
                    \/ s \in failed
                    \/ \E c \in Slots :
                         At(c, "submit", "sent")' /\ calls'[c].of = s /\ calls'[c].user = u
  BY <1>4 DEF FinishedIsKept
<1>7. CASE s = session
  BY <1>1, <1>3, <1>6, <1>7
<1>8. CASE s # session
  BY <1>3, <1>4, <1>5, <1>8 DEF FinishedIsKept, At
<1> QED
  BY <1>7, <1>8

LEMMA KioskKeeps == ASSUME TypeOK, PayInv, FinishedIsKept, Kiosk PROVE FinishedIsKept'
<1>1. CASE UNCHANGED <<database, calls, history>>
  BY <1>1, KeptAside DEF At, database, history
<1>2. CASE onSocketMessageReceived
  <2>1. UNCHANGED <<account, calls>>
    BY <1>2 DEF onSocketMessageReceived, database
  <2>2. CASE session < MaxSessions /\ startSession(Head(toKiosk).user)
    BY <2>1, <2>2, StartKeeps
  <2>3. CASE page = "recycle" /\ cancelSession("revoked")
    BY <2>1, <2>3, CancelKeeps
  <2>4. CASE UNCHANGED <<kiosk, history>>
    BY <1>1, <1>2, <2>4 DEF onSocketMessageReceived
  <2> QED
    BY <1>2, <2>2, <2>3, <2>4 DEF onSocketMessageReceived, onUserAuthenticated, onRemoteSessionCancelled
<1>3. CASE onGuestStartRequested
  BY <1>3, StartKeeps DEF onGuestStartRequested, database
<1>4. CASE ItemCounted
  <2>1. session \in Sessions /\ ended[session] = "open"
    BY <1>4 DEF ItemCounted, PayInv, OpenInv
  <2>2. /\ UNCHANGED <<account, calls, owner, ended, failed>>
        /\ \A s \in Sessions : s # session => counted'[s] = counted[s]
    BY <1>4 DEF ItemCounted, TypeOK, database
  <2> QED
    BY <2>1, <2>2, ScreenKeeps
<1>5. CASE onRecycleFinished
  BY <1>5, FinishKeeps
<1>6. CASE onReturnToIdle
  <2>1. CASE /\ page = "recycle" /\ Post(Request("cancel", NoMember, 0, session))
             /\ cancelSession("cancelled")
    <3>1. /\ Request("cancel", NoMember, 0, session) \in Requests
          /\ Request("cancel", NoMember, 0, session).kind # "submit"
      BY RequestType, SessionAssumption DEF TypeOK, Users, Request
    <3> QED
      BY <1>6, <2>1, <3>1, PostFrame, CancelKeeps DEF onReturnToIdle, database
  <2>2. CASE UNCHANGED <<calls, history>>
    BY <1>1, <1>6, <2>2 DEF onReturnToIdle
  <2> QED
    BY <1>6, <2>1, <2>2 DEF onReturnToIdle
<1> QED
  BY <1>1, <1>2, <1>3, <1>4, <1>5, <1>6 DEF Kiosk, onSocketConnected, onSocketDisconnected

(* What a member has finished is paid, on its way, or known to have failed. *)
THEOREM NothingFinishedIsLost == Spec => []FinishedIsKept
<1>1. Init => FinishedIsKept
  BY DEF Init, FinishedIsKept
<1>2. TypeOK /\ PayInv /\ FinishedIsKept /\ [Next]_vars => FinishedIsKept'
  <2> SUFFICES ASSUME TypeOK, PayInv, FinishedIsKept, [Next]_vars PROVE FinishedIsKept'
    OBVIOUS
  <2>1. CASE UNCHANGED vars
    BY <2>1, KeptAside DEF At, vars, database, history
  <2> QED
    BY <2>1, AppsKeep, ServeKeeps, FailsKeep, KioskKeeps DEF Next
<1> QED
  BY <1>1, <1>2, SessionType, SessionPays, PTL DEF Spec
=============================================================================
