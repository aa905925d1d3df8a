---------------------------- MODULE StreamFraming ----------------------------
(***************************************************************************)
(* The video stream: the Jetson's StreamSocketServer sends one packet per  *)
(* frame, a header with the lengths and then the payload, over TCP; the    *)
(* kiosk's JetsonClient cuts what it receives into packets again.  TCP     *)
(* breaks the stream anywhere, a send may stop half way, either end may go *)
(* away unnoticed by the other, and a new connection may wait in the       *)
(* backlog while the Jetson still serves a dead one.                       *)
(*                                                                         *)
(* The stream is made of cells: the header is HeaderSize cells, and every  *)
(* cell knows its packet, the packet's payload size and its own place, of  *)
(* which the kiosk reads the size and nothing else.  "stream" holds what   *)
(* this connection carries and the kiosk has not consumed; its first "got" *)
(* cells are in m_rxBuffer, the others on their way.  The kiosk never      *)
(* writes to this socket: the Jetson's command lines have no sender.       *)
(***************************************************************************)
EXTENDS Integers, Sequences

CONSTANTS
  HeaderSize,   \* HEADER_SIZE, in cells
  Sizes,        \* the payload sizes of the packets the Jetson sends
  MaxSize,      \* MAX_IMAGE_SIZE + MAX_JSON_SIZE
  Chunk,        \* the most one readAll() returns
  Capacity,     \* MAX_BUFFER_CAPACITY
  Backlog,      \* connections the Jetson's kernel keeps for accept()
  MaxInFlight,  \* the socket buffers: cells sent and not read
  MaxFrames,    \* bound: frames sent
  MaxFailures   \* bound: broken sends and connections, restarts

ASSUME StreamAssumption ==
  /\ HeaderSize \in Nat \ {0} /\ MaxSize \in Nat /\ Sizes \subseteq 0..MaxSize
  /\ Chunk \in Nat /\ Capacity \in Nat /\ Backlog \in Nat /\ MaxInFlight \in Nat
  /\ MaxFrames \in Nat /\ MaxFailures \in Nat

VARIABLES
  client, backlog,        \* StreamSocketServer: the connection it serves, those waiting
  socket, conn,           \* JetsonClient: its socket's state, its latest connection
  m_reconnectTimer,       \* it is running
  untold,                 \* the Jetson's end of conn is gone and no FIN or RST will say so
  stream, got,            \* the bytes of conn, and how many of them are in m_rxBuffer
  parsing,                \* the kiosk is inside parseBuffer's loop
  handed,                 \* history: what the decoders were last given
  overran,                \* history: the buffer was cut on this connection
  frames, failures        \* history: how many so far

server == <<client, backlog>>
link == <<socket, conn, m_reconnectTimer, untold>>
bytes == <<stream, got>>
vars == <<server, link, bytes, parsing, handed, overran, frames, failures>>

NoClient == 0
Junk == -1

Total(cell) == HeaderSize + cell.size
Packet(n, size) ==
  [k \in 1..(HeaderSize + size) |-> [of |-> n, size |-> size, at |-> k]]
Drop(k) == SubSeq(stream, k + 1, Len(stream))

Linked == socket = "Connected"
Serves(c) == Linked /\ c = conn
Waiting(c) == \E k \in DOMAIN backlog : backlog[k] = c
MayFail == failures < MaxFailures /\ failures' = failures + 1

-----------------------------------------------------------------------------
Init ==
  /\ client = NoClient /\ backlog = <<>>
  /\ socket = "Connecting" /\ conn = 0 /\ m_reconnectTimer = FALSE
  /\ untold = FALSE
  /\ stream = <<>> /\ got = 0 /\ parsing = FALSE
  /\ handed = 0 /\ overran = FALSE /\ frames = 0 /\ failures = 0

-----------------------------------------------------------------------------
(* The Jetson, in the order of its main loop. *)

accept_client ==
  /\ client = NoClient /\ backlog # <<>>
  /\ client' = Head(backlog)
  /\ backlog' = Tail(backlog)
  /\ UNCHANGED <<link, bytes, parsing, handed, overran, frames, failures>>

(* The peer has closed, or no longer answers. *)
receive_commands ==
  /\ client # NoClient /\ ~Serves(client)
  /\ client' = NoClient
  /\ UNCHANGED <<backlog, link, bytes, parsing, handed, overran, frames, failures>>

Room(k) == Len(stream) - got + k <= MaxInFlight

(* Mutant of HalfSent: a send that timed out keeps the connection. *)
HalfSentKept(packet) ==
  /\ MayFail
  /\ \E k \in 0..(Len(packet) - 1) :
       /\ Room(k)
       /\ stream' = IF Serves(client) THEN stream \o SubSeq(packet, 1, k) ELSE stream
  /\ UNCHANGED <<client, untold>>

(* sendall() stops after some of the bytes, at its time-out or an error: the *)
(* connection is closed, for nothing else can follow them.  The kiosk is told *)
(* unless the network is out for longer than the Jetson's kernel repeats it.  *)
HalfSent(packet) ==
  /\ MayFail
  /\ \E k \in 0..(Len(packet) - 1) :
       /\ Room(k)
       /\ stream' = IF Serves(client) THEN stream \o SubSeq(packet, 1, k) ELSE stream
  /\ client' = NoClient
  /\ untold' \in {untold, untold \/ Serves(client)}

send_frame(size) ==
  /\ client # NoClient /\ frames < MaxFrames
  /\ frames' = frames + 1
  /\ \/ /\ Room(HeaderSize + size)
        /\ stream' = IF Serves(client) THEN stream \o Packet(frames', size) ELSE stream
        /\ UNCHANGED <<client, untold, failures>>
     \/ HalfSent(Packet(frames', size))
  /\ UNCHANGED <<backlog, socket, conn, m_reconnectTimer, got, parsing, handed, overran>>

(* The kernel closes the connections of a process that ends; a power loss    *)
(* closes none, and the Jetson that comes back hears nothing from the kiosk   *)
(* that it could answer with a reset.                                        *)
JetsonRestarts ==
  /\ MayFail
  /\ client' = NoClient /\ backlog' = <<>>
  /\ untold' \in {untold, Linked}
  /\ UNCHANGED <<socket, conn, m_reconnectTimer, bytes, parsing, handed, overran, frames>>

-----------------------------------------------------------------------------
(* The kiosk: every handler runs to its end in Qt's event loop. *)

(* Mutant of onSocketConnected: the receive buffer is not cleared. *)
ConnectedUncleared ==
  /\ socket = "Connecting" /\ Len(backlog) < Backlog
  /\ socket' = "Connected" /\ conn' = conn + 1
  /\ backlog' = Append(backlog, conn')
  /\ m_reconnectTimer' = FALSE /\ untold' = FALSE /\ overran' = FALSE
  /\ UNCHANGED <<client, bytes, parsing, handed, frames, failures>>

onSocketConnected ==
  /\ socket = "Connecting" /\ Len(backlog) < Backlog
  /\ socket' = "Connected" /\ conn' = conn + 1
  /\ backlog' = Append(backlog, conn')
  /\ m_reconnectTimer' = FALSE /\ untold' = FALSE
  /\ stream' = <<>> /\ got' = 0 /\ overran' = FALSE
  /\ UNCHANGED <<client, parsing, handed, frames, failures>>

(* Mutant of onSocketError: only a connection that was made is made again. *)
ErrorOnly ==
  /\ socket = "Connecting" /\ MayFail
  /\ socket' = "Unconnected"
  /\ UNCHANGED <<server, conn, m_reconnectTimer, untold, bytes, parsing, handed, overran, frames>>

(* The attempt is refused or times out. *)
onSocketError ==
  /\ socket = "Connecting" /\ MayFail
  /\ socket' = "Unconnected" /\ m_reconnectTimer' = TRUE
  /\ UNCHANGED <<server, conn, untold, bytes, parsing, handed, overran, frames>>

(* The kiosk is told that the Jetson has closed the connection, or that the  *)
(* network broke it; what had not been read is lost, the buffer is left as it *)
(* is.  It never writes, asks for no keep-alive and times no silence: nothing *)
(* else ends a connection here.                                              *)
onSocketDisconnected ==
  /\ Linked /\ ~parsing
  /\ \/ client # conn /\ ~Waiting(conn) /\ ~untold /\ UNCHANGED failures
     \/ MayFail
  /\ socket' = "Unconnected" /\ m_reconnectTimer' = TRUE /\ untold' = FALSE
  /\ stream' = SubSeq(stream, 1, got)
  /\ UNCHANGED <<server, conn, got, parsing, handed, overran, frames>>

onReconnectTimeout ==
  /\ m_reconnectTimer /\ socket = "Unconnected"
  /\ socket' = "Connecting"
  /\ UNCHANGED <<server, conn, m_reconnectTimer, untold, bytes, parsing, handed, overran,
                 frames, failures>>

(* What has arrived goes to the buffer; above its limit all of it is dropped. *)
onReadyRead ==
  /\ Linked /\ ~parsing
  /\ \E k \in 1..Chunk :
       /\ got + k <= Len(stream)
       /\ IF got + k > Capacity
          THEN stream' = Drop(got + k) /\ got' = 0 /\ overran' = TRUE /\ UNCHANGED parsing
          ELSE got' = got + k /\ parsing' = TRUE /\ UNCHANGED <<stream, overran>>
  /\ UNCHANGED <<server, link, handed, frames, failures>>

(* The size the first bytes of the buffer claim: a header's own, and any     *)
(* size at all if these bytes are not one header.                            *)
IsHeader ==
  \A k \in 1..HeaderSize : stream[k] = [of |-> stream[1].of, size |-> stream[1].size, at |-> k]
Claimed == IF IsHeader THEN {stream[1].size} ELSE Sizes \cup {MaxSize + 1}

Handed(size) ==
  IF SubSeq(stream, 1, HeaderSize + size) = Packet(stream[1].of, stream[1].size)
  THEN stream[1].of ELSE Junk

(* Mutant of Unpack: the packet is taken before all of it has arrived. *)
UnpackEarly(size) ==
  /\ Len(stream) >= HeaderSize + size
  /\ handed' = Handed(size)
  /\ stream' = Drop(HeaderSize + size) /\ got' = got - (HeaderSize + size)
  /\ UNCHANGED parsing

Unpack(size) ==
  /\ got >= HeaderSize + size
  /\ handed' = Handed(size)
  /\ stream' = Drop(HeaderSize + size) /\ got' = got - (HeaderSize + size)
  /\ UNCHANGED parsing

(* One round of parseBuffer's loop, or its end: the buffer is too short, or  *)
(* it is dropped for an impossible header.                                   *)
parseBuffer ==
  /\ parsing
  /\ \/ got < HeaderSize /\ parsing' = FALSE /\ UNCHANGED <<bytes, handed>>
     \/ /\ got >= HeaderSize
        /\ \E size \in Claimed :
             IF size > MaxSize
             THEN stream' = Drop(got) /\ got' = 0 /\ parsing' = FALSE /\ UNCHANGED handed
             ELSE \/ Unpack(size)
                  \/ got < HeaderSize + size /\ parsing' = FALSE /\ UNCHANGED <<bytes, handed>>
  /\ UNCHANGED <<server, link, overran, frames, failures>>

-----------------------------------------------------------------------------
Next ==
  \/ accept_client \/ receive_commands \/ (\E size \in Sizes : send_frame(size))
  \/ JetsonRestarts
  \/ onSocketConnected \/ onSocketError \/ onSocketDisconnected \/ onReconnectTimeout
  \/ onReadyRead \/ parseBuffer

Spec == Init /\ [][Next]_vars

(* The Jetson's main loop and Qt's event loop go round.  The Jetson notices a *)
(* kiosk that is gone, for its loop sends until the buffer is full; the kiosk *)
(* handles the end of a connection it is told of, and need never learn of     *)
(* another.  Nothing is assumed of the failures, which are bounded.           *)
JetsonFairness == WF_vars(accept_client) /\ WF_vars(receive_commands)
KioskFairness ==
  /\ WF_vars(onSocketConnected) /\ WF_vars(onReconnectTimeout)
  /\ WF_vars(onSocketDisconnected /\ UNCHANGED failures)
  /\ WF_vars(onReadyRead) /\ WF_vars(parseBuffer)

FairSpec == Spec /\ JetsonFairness /\ KioskFairness

-----------------------------------------------------------------------------
(* Properties. *)

Cells == [of : Nat, size : Sizes, at : Nat]

TypeOK ==
  /\ conn \in Nat /\ client \in 0..conn
  /\ backlog \in Seq(1..conn)
  /\ socket \in {"Unconnected", "Connecting", "Connected"}
  /\ m_reconnectTimer \in BOOLEAN /\ untold \in BOOLEAN
  /\ parsing \in BOOLEAN /\ overran \in BOOLEAN
  /\ stream \in Seq(Cells) /\ got \in 0..Len(stream)
  /\ frames \in Nat /\ failures \in Nat /\ handed \in Nat \cup {Junk}

(* The decoders are given packets the Jetson sent, each whole and at most    *)
(* once, in the order they were sent, across fragments, half-sent frames and *)
(* reconnections; unless the buffer was cut on this very connection.         *)
UnpacksInOrder == [][handed' # handed /\ ~overran => handed' > handed]_vars

(* After the last failure the kiosk is served again, and it consumes every   *)
(* packet: no remainder waits for bytes that never come.  One end is excepted: *)
(* a kiosk that is never told of it stays connected to nobody for ever, and   *)
(* its reconnect timer never starts.                                         *)
Recovers ==
  <>[](untold \/ (Linked /\ client = conn /\ (stream = <<>> \/ overran)))

(* What the order rests on.  A start is a header's first cell: its packet    *)
(* follows it cell by cell, the next start follows the packet; and only a    *)
(* connection the Jetson no longer writes to ends inside a packet.           *)
Starts == {i \in DOMAIN stream : stream[i].at = 1}
Written == Linked /\ (client = conn \/ Waiting(conn))

Framed ==
  /\ stream # <<>> => 1 \in Starts
  /\ \A i \in Starts : \A j \in i..(i + Total(stream[i]) - 1) :
       j <= Len(stream) =>
         stream[j] = [of |-> stream[i].of, size |-> stream[i].size, at |-> j - i + 1]
  /\ \A i \in Starts : \A j \in DOMAIN stream :
       /\ j = i + Total(stream[i]) => j \in Starts
       /\ j >= i + Total(stream[i]) => stream[j].of > stream[i].of
  /\ \A i \in DOMAIN stream : stream[i].of > handed
  /\ Written => \A i \in Starts : i + Total(stream[i]) <= Len(stream) + 1

(* The Jetson serves connections in the order they were made. *)
Queued ==
  /\ \A k \in DOMAIN backlog : client < backlog[k]
  /\ \A k, l \in DOMAIN backlog : k < l => backlog[k] < backlog[l]

FramedUnlessCut ==
  /\ handed <= frames /\ \A i \in DOMAIN stream : stream[i].of <= frames
  /\ Queued
  /\ overran \/ Framed
=============================================================================
