--------------------------- MODULE KioskRooms_proofs ---------------------------
(***************************************************************************)
(* Theorems about the room and its phones, for any phones and any number   *)
(* of sockets, taps and broken connections.  The inductive invariant adds  *)
(* to the properties why they hold: the lock has one holder, who is about  *)
(* to replace a socket it has closed; whoever has the place in the room is *)
(* still being served; an untangled phone has one socket at a time.        *)
(***************************************************************************)
EXTENDS KioskRooms, TLAPS

(* One coroutine at most holds the lock across an await, and the socket it  *)
(* replaces is closed.                                                      *)
OneCloses ==
  \A s \in Sockets : task[s] = "Supersede" =>
    /\ room \in closed
    /\ \A t \in Sockets : task[t] = "Supersede" => t = s

RoomIsServed == room \in Sockets => task[room] \in {"Receive", "Disconnect"}

(* An untangled phone has one socket at a time, and none when it waits to   *)
(* reconnect.                                                               *)
OneSocket ==
  \A a \in Apps : ~tangled[a] =>
    /\ \A s, t \in Sockets :
         App(s) = a /\ App(t) = a /\ phone[s] # "Gone" /\ phone[t] # "Gone" => s = t
    /\ \A s \in Sockets : App(s) = a /\ phone[s] \notin {"Closing", "Gone"} => s = webSocket[a]
    /\ reconnectJob[a] \/ running[a] => \A s \in Sockets : App(s) = a => phone[s] = "Gone"

LEMMA AppType == \A s \in Sockets : App(s) \in Apps
  BY DEF Sockets, App

(***************************************************************************)
(* Types.                                                                  *)
(***************************************************************************)

LEMMA ConnectType ==
  ASSUME TypeOK, NEW a \in Apps, Connect(a)
  PROVE  /\ phone' \in [Sockets -> {"Connecting", "Open", "Closing", "Gone"}]
         /\ task' \in [Sockets -> {"Request", "Connect", "Supersede", "Receive", "Disconnect", "Done"}]
         /\ broken' \subseteq Sockets /\ closed' \subseteq Sockets
         /\ webSocket' \in [Apps -> Sockets \cup {NoSocket}]
         /\ currentBinId' \in [Apps -> BOOLEAN] /\ reconnectJob' \in [Apps -> BOOLEAN]
  <1>1. PICK s \in Sockets :
          /\ phone' = [Closing(a) EXCEPT ![s] = "Connecting"]
          /\ task' = [task EXCEPT ![s] = "Request"]
          /\ broken' = broken \ {s} /\ closed' = closed \ {s}
          /\ webSocket' = [webSocket EXCEPT ![a] = s]
          /\ currentBinId' = [currentBinId EXCEPT ![a] = TRUE]
          /\ reconnectJob' = [reconnectJob EXCEPT ![a] = FALSE]
    BY DEF Connect
  <1>2. Closing(a) \in [Sockets -> {"Connecting", "Open", "Closing", "Gone"}]
    BY DEF Closing, TypeOK
  <1> QED  BY <1>1, <1>2 DEF TypeOK

LEMMA TypeInit == Init => TypeOK
  BY RoomsAssumption DEF Init, TypeOK, Nobody

LEMMA TypeNext == TypeOK /\ [Next]_vars => TypeOK'
  <1> SUFFICES ASSUME TypeOK, [Next]_vars PROVE TypeOK'  OBVIOUS
  <1> USE DEF TypeOK, sockets, places, manager, user
  <1>1. ASSUME NEW s \in Sockets, Accept(s) PROVE TypeOK'  BY <1>1 DEF Accept
  <1>2. ASSUME NEW s \in Sockets, connect(s) PROVE TypeOK'  BY <1>2 DEF connect
  <1>3. ASSUME NEW s \in Sockets, Superseded(s) PROVE TypeOK'  BY <1>3 DEF Superseded
  <1>4. ASSUME NEW s \in Sockets, ReceiveEnds(s) PROVE TypeOK'  BY <1>4 DEF ReceiveEnds
  <1>5. ASSUME NEW s \in Sockets, disconnect(s) PROVE TypeOK'  BY <1>5 DEF disconnect, Without
  <1>6. ASSUME NEW s \in Sockets, Break(s) PROVE TypeOK'  BY <1>6 DEF Break
  <1>7. ASSUME NEW s \in Sockets, SocketEnds(s) PROVE TypeOK'
    BY <1>7, AppType DEF SocketEnds
  <1>8. CASE SendReads  BY <1>8 DEF SendReads
  <1>9. CASE SendWrites  BY <1>9 DEF SendWrites, Without
  <1>10. ASSUME NEW a \in Apps, UserConnects(a) PROVE TypeOK'
    BY <1>10, ConnectType DEF UserConnects, Tap, Tangles
  <1>11. ASSUME NEW a \in Apps, UserDisconnects(a) PROVE TypeOK'
    BY <1>11 DEF UserDisconnects, Closing, Tap, Tangles
  <1>12. ASSUME NEW a \in Apps, DelayEnds(a) PROVE TypeOK'  BY <1>12 DEF DelayEnds
  <1>13. ASSUME NEW a \in Apps, Reconnects(a) PROVE TypeOK'
    BY <1>13, ConnectType DEF Reconnects
  <1>14. CASE UNCHANGED vars  BY <1>14 DEF vars
  <1> QED
    BY <1>1, <1>2, <1>3, <1>4, <1>5, <1>6, <1>7, <1>8, <1>9, <1>10, <1>11, <1>12, <1>13, <1>14
    DEF Next

(* Every variable of KioskRooms keeps its type, for any phones and sockets. *)
THEOREM RoomsType == Spec => []TypeOK
  BY TypeInit, TypeNext, PTL DEF Spec

(***************************************************************************)
(* The room.                                                               *)
(***************************************************************************)

RoomInv == OneCloses /\ RoomIsServed /\ ServedIsRegistered

LEMMA RoomInit == Init => RoomInv
  BY RoomsAssumption DEF Init, RoomInv, OneCloses, RoomIsServed, ServedIsRegistered

(* A new socket of a phone disturbs no socket that has a coroutine.         *)
LEMMA ConnectRoom ==
  ASSUME TypeOK, RoomInv, NEW a \in Apps, Connect(a), UNCHANGED places
  PROVE  RoomInv'
  <1>1. PICK s \in Sockets :
          /\ Free(s)
          /\ phone' = [Closing(a) EXCEPT ![s] = "Connecting"]
          /\ task' = [task EXCEPT ![s] = "Request"]
          /\ broken' = broken \ {s} /\ closed' = closed \ {s}
    BY DEF Connect
  <1>2. task[s] \in {"Request", "Done"} /\ task'[s] = "Request"
    BY <1>1 DEF Free, TypeOK
  <1>3. \A t \in Sockets : t # s => task'[t] = task[t]  BY <1>1 DEF TypeOK
  <1>4. room # s  BY <1>2 DEF RoomInv, RoomIsServed
  <1>5. \A t \in Sockets : t # s /\ ~Dead(t)' => ~Dead(t)
    <2> SUFFICES ASSUME NEW t \in Sockets, t # s, Dead(t) PROVE Dead(t)'  OBVIOUS
    <2>1. phone'[t] = Closing(a)[t]  BY <1>1 DEF TypeOK, Closing
    <2>2. Closing(a)[t] \in {"Closing", phone[t]}  BY DEF Closing
    <2> QED  BY <1>1, <2>1, <2>2 DEF Dead
  <1>6. room' = room  BY DEF places
  <1>7. OneCloses'  BY <1>1, <1>2, <1>3, <1>4, <1>6 DEF RoomInv, OneCloses
  <1>8. RoomIsServed'  BY <1>2, <1>3, <1>4, <1>6 DEF RoomInv, RoomIsServed
  <1>9. ServedIsRegistered'
    BY <1>2, <1>3, <1>5, <1>6 DEF RoomInv, ServedIsRegistered
  <1> QED  BY <1>7, <1>8, <1>9 DEF RoomInv

LEMMA RoomNext == TypeOK /\ RoomInv /\ [Next]_vars => RoomInv'
  <1> SUFFICES ASSUME TypeOK, RoomInv, [Next]_vars PROVE RoomInv'  OBVIOUS
  <1> USE RoomsAssumption DEF TypeOK, RoomInv, OneCloses, RoomIsServed, ServedIsRegistered, Dead,
          sockets, places, manager, user
  <1>1. ASSUME NEW s \in Sockets, Accept(s) PROVE RoomInv'  BY <1>1 DEF Accept
  <1>2. ASSUME NEW s \in Sockets, connect(s) PROVE RoomInv'
    <2>1. CASE room = NoSocket
      <3>1. room' = s /\ task' = [task EXCEPT ![s] = "Receive"] /\ closed' = closed
        BY <1>2, <2>1 DEF connect
      <3> QED  BY <1>2, <2>1, <3>1 DEF connect, LockFree
    <2>2. CASE room # NoSocket
      <3>1. room' = room /\ task' = [task EXCEPT ![s] = "Supersede"] /\ closed' = closed \cup {room}
        BY <1>2, <2>2 DEF connect
      <3> QED  BY <1>2, <2>2, <3>1 DEF connect, LockFree
    <2> QED  BY <2>1, <2>2
  <1>3. ASSUME NEW s \in Sockets, Superseded(s) PROVE RoomInv'  BY <1>3 DEF Superseded
  <1>4. ASSUME NEW s \in Sockets, ReceiveEnds(s) PROVE RoomInv'  BY <1>4 DEF ReceiveEnds
  <1>5. ASSUME NEW s \in Sockets, disconnect(s) PROVE RoomInv'
    BY <1>5 DEF disconnect, Without, LockFree
  <1>6. ASSUME NEW s \in Sockets, Break(s) PROVE RoomInv'  BY <1>6 DEF Break
  <1>7. ASSUME NEW s \in Sockets, SocketEnds(s) PROVE RoomInv'  BY <1>7 DEF SocketEnds
  <1>8. CASE SendReads  BY <1>8 DEF SendReads
  <1>9. CASE SendWrites  BY <1>9 DEF SendWrites, Without, LockFree
  <1>10. ASSUME NEW a \in Apps, UserConnects(a) PROVE RoomInv'
    BY <1>10, ConnectRoom DEF UserConnects
  <1>11. ASSUME NEW a \in Apps, UserDisconnects(a) PROVE RoomInv'
    BY <1>11 DEF UserDisconnects, Closing
  <1>12. ASSUME NEW a \in Apps, DelayEnds(a) PROVE RoomInv'  BY <1>12 DEF DelayEnds
  <1>13. ASSUME NEW a \in Apps, Reconnects(a) PROVE RoomInv'
    BY <1>13, ConnectRoom DEF Reconnects
  <1>14. CASE UNCHANGED vars  BY <1>14 DEF vars
  <1> QED
    BY <1>1, <1>2, <1>3, <1>4, <1>5, <1>6, <1>7, <1>8, <1>9, <1>10, <1>11, <1>12, <1>13, <1>14
    DEF Next

(* However many sockets a phone or several phones open, and whenever their  *)
(* farewells and failed writes arrive: a healthy socket the server serves   *)
(* keeps its place in the room.                                             *)
THEOREM ServedRegistered == Spec => []ServedIsRegistered
  <1>1. TypeOK /\ RoomInv /\ [Next]_vars => (TypeOK /\ RoomInv)'  BY TypeNext, RoomNext
  <1>2. Init => TypeOK /\ RoomInv  BY TypeInit, RoomInit
  <1>3. RoomInv => ServedIsRegistered  BY DEF RoomInv
  <1> QED  BY <1>1, <1>2, <1>3, PTL DEF Spec

(***************************************************************************)
(* The phones.                                                             *)
(***************************************************************************)

(* What OneSocket says of one phone. *)
Alone(a) ==
  /\ \A s, t \in Sockets :
       App(s) = a /\ App(t) = a /\ phone[s] # "Gone" /\ phone[t] # "Gone" => s = t
  /\ \A s \in Sockets : App(s) = a /\ phone[s] \notin {"Closing", "Gone"} => s = webSocket[a]
  /\ reconnectJob[a] \/ running[a] => \A s \in Sockets : App(s) = a => phone[s] = "Gone"

LEMMA AloneDef == OneSocket <=> \A a \in Apps : ~tangled[a] => Alone(a)
  BY DEF OneSocket, Alone

LEMMA AloneKept ==
  ASSUME NEW a \in Apps, Alone(a),
         \A s \in Sockets : App(s) = a =>
           /\ phone[s] = "Gone" => phone'[s] = "Gone"
           /\ phone'[s] \notin {"Closing", "Gone"} => phone[s] \notin {"Closing", "Gone"},
         webSocket'[a] = webSocket[a],
         reconnectJob'[a] \/ running'[a] => reconnectJob[a] \/ running[a]
  PROVE  Alone(a)'
  BY DEF Alone

(* A phone that connects when all its sockets are gone has one, and the     *)
(* other phones are not disturbed.                                          *)
LEMMA ConnectAlone ==
  ASSUME TypeOK, NEW a \in Apps, Connect(a), NEW b \in Apps, Alone(b),
         b = a => ~running'[a] /\ \A s \in Sockets : App(s) = a => phone[s] = "Gone",
         b # a => running'[b] = running[b]
  PROVE  Alone(b)'
  <1>1. PICK s \in Sockets :
          /\ App(s) = a
          /\ phone' = [Closing(a) EXCEPT ![s] = "Connecting"]
          /\ webSocket' = [webSocket EXCEPT ![a] = s]
          /\ reconnectJob' = [reconnectJob EXCEPT ![a] = FALSE]
    BY DEF Connect
  <1>2. phone'[s] = "Connecting" /\ \A t \in Sockets : t # s => phone'[t] = Closing(a)[t]
    BY <1>1 DEF Closing
  <1>3. \A t \in Sockets : Closing(a)[t] = IF t = webSocket[a] /\ phone[t] # "Gone" THEN "Closing" ELSE phone[t]
    BY DEF Closing
  <1>4. CASE b = a
    <2>1. \A t \in Sockets : App(t) = a /\ t # s => phone'[t] = "Gone"
      BY <1>2, <1>3, <1>4
    <2>2. webSocket'[a] = s /\ ~reconnectJob'[a]  BY <1>1 DEF TypeOK
    <2> QED  BY <1>4, <2>1, <2>2 DEF Alone
  <1>5. CASE b # a
    <2>1. webSocket'[b] = webSocket[b] /\ reconnectJob'[b] = reconnectJob[b]
      BY <1>1, <1>5 DEF TypeOK
    <2>2. \A t \in Sockets : App(t) = b =>
            /\ phone[t] = "Gone" => phone'[t] = "Gone"
            /\ phone'[t] \notin {"Closing", "Gone"} => phone[t] \notin {"Closing", "Gone"}
      BY <1>1, <1>2, <1>3, <1>5
    <2> QED  BY <1>5, <2>1, <2>2, AloneKept
  <1> QED  BY <1>4, <1>5

LEMMA AloneInit == Init => OneSocket
  BY DEF Init, OneSocket, Nobody

LEMMA AloneNext == TypeOK /\ OneSocket /\ [Next]_vars => OneSocket'
  <1> SUFFICES ASSUME TypeOK, OneSocket, [Next]_vars, NEW b \in Apps, ~tangled'[b]
               PROVE  Alone(b)'
    BY DEF OneSocket, Alone
  <1> USE DEF sockets, places, manager, user
  <1>0. tangled \in [Apps -> BOOLEAN]  BY DEF TypeOK
  <1>1. ASSUME NEW s \in Sockets, Accept(s) PROVE Alone(b)'
    <2>1. Alone(b)  BY <1>1, AloneDef DEF Accept
    <2>2. \A t \in Sockets :
            /\ phone[t] = "Gone" => phone'[t] = "Gone"
            /\ phone'[t] \notin {"Closing", "Gone"} => phone[t] \notin {"Closing", "Gone"}
      BY <1>1 DEF Accept, TypeOK
    <2> QED  BY <1>1, <2>1, <2>2, AloneKept DEF Accept
  <1>2. ASSUME UNCHANGED <<phone, manager, tangled>> PROVE Alone(b)'
    <2>1. Alone(b)  BY <1>2, AloneDef
    <2> QED  BY <1>2, <2>1 DEF Alone
  <1>3. ASSUME NEW s \in Sockets, connect(s) \/ Superseded(s) \/ ReceiveEnds(s) \/ disconnect(s) \/ Break(s)
        PROVE  Alone(b)'
    BY <1>2, <1>3 DEF connect, Superseded, ReceiveEnds, disconnect, Break
  <1>4. CASE SendReads \/ SendWrites  BY <1>2, <1>4 DEF SendReads, SendWrites
  <1>5. ASSUME NEW s \in Sockets, SocketEnds(s) PROVE Alone(b)'
    <2>1. Alone(b)  BY <1>5, AloneDef DEF SocketEnds
    <2>2. phone'[s] = "Gone" /\ (\A t \in Sockets : t # s => phone'[t] = phone[t]) /\ phone[s] # "Gone"
      BY <1>5 DEF SocketEnds, TypeOK
    <2>3. CASE App(s) = b
      <3>1. \A t \in Sockets : App(t) = b => phone'[t] = "Gone"  BY <2>1, <2>2, <2>3 DEF Alone
      <3> QED  BY <1>5, <3>1 DEF Alone, SocketEnds
    <2>4. CASE App(s) # b
      <3>1. reconnectJob'[b] = reconnectJob[b]  BY <1>5, <2>4, AppType DEF SocketEnds, TypeOK
      <3> QED  BY <1>5, <2>1, <2>2, <3>1, AloneKept DEF SocketEnds
    <2> QED  BY <2>3, <2>4
  <1>6. ASSUME NEW a \in Apps, UserConnects(a) PROVE Alone(b)'
    <2> DEFINE late == running[a] \/ \E s \in Sockets : App(s) = a /\ phone[s] # "Gone"
    <2>1. tangled' = [tangled EXCEPT ![a] = @ \/ late]  BY <1>6 DEF UserConnects, Tangles
    <2>2. b = a => ~tangled[b] /\ ~late  BY <1>0, <2>1
    <2>3. b # a => ~tangled[b]  BY <1>0, <2>1
    <2>4. Alone(b)  BY <2>2, <2>3, AloneDef
    <2> QED  BY <1>6, <2>2, <2>4, ConnectAlone DEF UserConnects
  <1>7. ASSUME NEW a \in Apps, UserDisconnects(a) PROVE Alone(b)'
    <2>1. tangled' = [tangled EXCEPT ![a] = @ \/ running[a]]  BY <1>7 DEF UserDisconnects, Tangles
    <2>2. ~tangled[b] /\ (b = a => ~running[a])  BY <1>0, <2>1
    <2>3. Alone(b)  BY <2>2, AloneDef
    <2>4. \A t \in Sockets : phone'[t] = IF t = webSocket[a] /\ phone[t] # "Gone" THEN "Closing" ELSE phone[t]
      BY <1>7 DEF UserDisconnects, Closing
    <2>5. CASE b = a
      <3>1. webSocket'[a] = NoSocket /\ ~reconnectJob'[a] /\ ~running'[a]
        BY <1>7, <2>2, <2>5 DEF UserDisconnects, TypeOK
      <3>2. \A t \in Sockets : App(t) = a => phone'[t] \in {"Closing", "Gone"}
        BY <2>3, <2>4, <2>5 DEF Alone
      <3> QED  BY <2>3, <2>4, <2>5, <3>1, <3>2 DEF Alone
    <2>6. CASE b # a
      <3>1. webSocket'[b] = webSocket[b] /\ reconnectJob'[b] = reconnectJob[b] /\ running'[b] = running[b]
        BY <1>7, <2>6 DEF UserDisconnects, TypeOK
      <3>2. \A t \in Sockets : App(t) = b =>
            /\ phone[t] = "Gone" => phone'[t] = "Gone"
            /\ phone'[t] \notin {"Closing", "Gone"} => phone[t] \notin {"Closing", "Gone"}
        BY <2>4
      <3> QED  BY <2>3, <3>1, <3>2, AloneKept
    <2> QED  BY <2>5, <2>6
  <1>8. ASSUME NEW a \in Apps, DelayEnds(a) PROVE Alone(b)'
    <2>1. Alone(b)  BY <1>8, AloneDef DEF DelayEnds
    <2>2. reconnectJob'[b] \/ running'[b] => reconnectJob[b] \/ running[b]
      BY <1>8 DEF DelayEnds, TypeOK
    <2> QED  BY <1>8, <2>1, <2>2, AloneKept DEF DelayEnds
  <1>9. ASSUME NEW a \in Apps, Reconnects(a) PROVE Alone(b)'
    <2>1. Alone(b)  BY <1>9, AloneDef DEF Reconnects
    <2>2. ~running'[a] /\ running[a] /\ (b # a => running'[b] = running[b])
      BY <1>9 DEF Reconnects, TypeOK
    <2>3. b = a => \A s \in Sockets : App(s) = a => phone[s] = "Gone"
      BY <2>1, <2>2 DEF Alone
    <2> QED  BY <1>9, <2>1, <2>2, <2>3, ConnectAlone DEF Reconnects
  <1>10. CASE UNCHANGED vars  BY <1>2, <1>10 DEF vars
  <1> QED
    BY <1>1, <1>3, <1>4, <1>5, <1>6, <1>7, <1>8, <1>9, <1>10 DEF Next

(* A phone that never tapped quicker than an old socket or job has one      *)
(* socket, and reconnects only when that one is gone.                       *)
THEOREM ReconnectsDead == Spec => []ReconnectsOnlyDead
  <1>1. TypeOK /\ OneSocket /\ [Next]_vars => (TypeOK /\ OneSocket)'  BY TypeNext, AloneNext
  <1>2. Init => TypeOK /\ OneSocket  BY TypeInit, AloneInit
  <1>3. OneSocket => ReconnectsOnlyDead  BY DEF OneSocket, ReconnectsOnlyDead
  <1> QED  BY <1>1, <1>2, <1>3, PTL DEF Spec
=============================================================================
