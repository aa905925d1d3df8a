------------------------- MODULE StreamFraming_proofs -------------------------
(* The kiosk unpacks what the Jetson packed, for any header, payload, chunk   *)
(* and buffer sizes, and any number of frames, failures and reconnections.    *)
EXTENDS StreamFraming, SequenceTheorems, TLAPS

(* What is left of a sequence after its first d elements, and of a sequence   *)
(* cut after its first n.                                                     *)
LEMMA RestFacts ==
  ASSUME NEW S, NEW q \in Seq(S), NEW d \in 0..Len(q)
  PROVE  /\ SubSeq(q, d + 1, Len(q)) \in Seq(S)
         /\ Len(SubSeq(q, d + 1, Len(q))) = Len(q) - d
         /\ DOMAIN SubSeq(q, d + 1, Len(q)) = 1..(Len(q) - d)
         /\ \A k \in 1..(Len(q) - d) : SubSeq(q, d + 1, Len(q))[k] = q[d + k]
<1>1. Len(q) \in Nat /\ \A i \in (d + 1)..Len(q) : q[i] \in S
  BY LenProperties, ElementOfSeq
<1>2. /\ SubSeq(q, d + 1, Len(q)) \in Seq(S)
      /\ Len(SubSeq(q, d + 1, Len(q))) = IF d + 1 <= Len(q) THEN Len(q) - (d + 1) + 1 ELSE 0
      /\ \A i \in 1..(Len(q) - (d + 1) + 1) : SubSeq(q, d + 1, Len(q))[i] = q[(d + 1) + i - 1]
  <2> HIDE <1>1
  <2>1. d + 1 \in Int /\ Len(q) \in Int
    BY <1>1
  <2> QED
    BY <1>1, <2>1, SubSeqProperties
<1>3. \A i \in Int : (d + 1) + i - 1 = d + i /\ Len(q) - (d + 1) + 1 = Len(q) - d
  BY <1>1
<1>4. DOMAIN SubSeq(q, d + 1, Len(q)) = 1..Len(SubSeq(q, d + 1, Len(q)))
  BY <1>2, LenProperties
<1>5. Len(SubSeq(q, d + 1, Len(q))) = Len(q) - d
  BY <1>1, <1>2
<1> QED
  BY <1>1, <1>2, <1>3, <1>4, <1>5

LEMMA PrefixFacts ==
  ASSUME NEW S, NEW q \in Seq(S), NEW n \in 0..Len(q)
  PROVE  /\ SubSeq(q, 1, n) \in Seq(S)
         /\ Len(SubSeq(q, 1, n)) = n /\ DOMAIN SubSeq(q, 1, n) = 1..n
         /\ \A k \in 1..n : SubSeq(q, 1, n)[k] = q[k]
<1>1. Len(q) \in Nat /\ \A i \in 1..n : q[i] \in S
  BY LenProperties, ElementOfSeq
<1>2. n \in Int /\ 1 \in Int
  BY <1>1
<1>3. /\ SubSeq(q, 1, n) \in Seq(S)
      /\ Len(SubSeq(q, 1, n)) = IF 1 <= n THEN n - 1 + 1 ELSE 0
      /\ \A i \in 1..(n - 1 + 1) : SubSeq(q, 1, n)[i] = q[1 + i - 1]
  BY <1>1, <1>2, SubSeqProperties
<1>4. Len(SubSeq(q, 1, n)) = n
  BY <1>2, <1>3
<1>5. DOMAIN SubSeq(q, 1, n) = 1..n
  BY <1>3, <1>4, LenProperties
<1>6. \A i \in 1..n : 1 + i - 1 = i /\ i \in 1..(n - 1 + 1)
  BY <1>2
<1> QED
  BY <1>3, <1>4, <1>5, <1>6

(* A packet is a sequence of cells. *)
LEMMA PacketFacts ==
  ASSUME StreamAssumption, NEW n \in Nat, NEW size \in Sizes
  PROVE  /\ Packet(n, size) \in Seq(Cells)
         /\ Len(Packet(n, size)) = HeaderSize + size
         /\ \A k \in 1..(HeaderSize + size) :
              Packet(n, size)[k] = [of |-> n, size |-> size, at |-> k]
<1>1. HeaderSize + size \in Nat
  BY DEF StreamAssumption
<1>2. Packet(n, size) \in [1..(HeaderSize + size) -> Cells]
  BY <1>1 DEF Packet, Cells
<1>3. Packet(n, size) \in Seq(Cells)
  BY <1>1, <1>2
<1>4. Len(Packet(n, size)) = HeaderSize + size
  BY <1>1, <1>2
<1> QED
  BY <1>3, <1>4 DEF Packet

(* The stream with a prefix of a packet behind it.                            *)
Sent(n, size, k) == stream \o SubSeq(Packet(n, size), 1, k)

(* What a send may put on the stream: the first k cells of the next packet.   *)
LEMMA SentFacts ==
  ASSUME StreamAssumption, TypeOK, NEW n \in Nat, NEW size \in Sizes, NEW k \in 0..(HeaderSize + size)
  PROVE  /\ Sent(n, size, k) \in Seq(Cells)
         /\ Len(stream) \in Nat /\ DOMAIN stream = 1..Len(stream)
         /\ Len(Sent(n, size, k)) = Len(stream) + k
         /\ DOMAIN Sent(n, size, k) = 1..(Len(stream) + k)
         /\ \A i \in 1..Len(stream) : Sent(n, size, k)[i] = stream[i]
         /\ \A i \in (Len(stream) + 1)..(Len(stream) + k) :
              Sent(n, size, k)[i] = [of |-> n, size |-> size, at |-> i - Len(stream)]
<1> DEFINE part == SubSeq(Packet(n, size), 1, k)
<1>1. /\ Packet(n, size) \in Seq(Cells) /\ Len(Packet(n, size)) = HeaderSize + size
      /\ \A j \in 1..(HeaderSize + size) : Packet(n, size)[j] = [of |-> n, size |-> size, at |-> j]
  BY PacketFacts
<1>2. k \in 0..Len(Packet(n, size)) /\ k \in Nat /\ HeaderSize + size \in Nat
  BY <1>1 DEF StreamAssumption
<1>3. /\ part \in Seq(Cells) /\ Len(part) = k
      /\ \A j \in 1..k : part[j] = Packet(n, size)[j]
  BY <1>1, <1>2, PrefixFacts
<1>4. stream \in Seq(Cells) /\ Len(stream) \in Nat /\ DOMAIN stream = 1..Len(stream)
  BY LenProperties DEF TypeOK
<1> HIDE DEF part
<1>5. /\ stream \o part \in Seq(Cells) /\ Len(stream \o part) = Len(stream) + k
      /\ \A i \in 1..(Len(stream) + k) :
           (stream \o part)[i] = IF i <= Len(stream) THEN stream[i] ELSE part[i - Len(stream)]
  BY <1>3, <1>4, ConcatProperties
<1>6. DOMAIN (stream \o part) = 1..(Len(stream) + k)
  BY <1>5, LenProperties
<1>7. \A i \in (Len(stream) + 1)..(Len(stream) + k) :
        (stream \o part)[i] = [of |-> n, size |-> size, at |-> i - Len(stream)]
  <2> SUFFICES ASSUME NEW i \in (Len(stream) + 1)..(Len(stream) + k)
               PROVE  (stream \o part)[i] = [of |-> n, size |-> size, at |-> i - Len(stream)]
    OBVIOUS
  <2>1. i \in 1..(Len(stream) + k) /\ ~(i <= Len(stream)) /\ i - Len(stream) \in 1..k
    BY <1>2, <1>4
  <2>2. i - Len(stream) \in 1..(HeaderSize + size)
    BY <1>2, <2>1
  <2> QED
    BY <1>1, <1>3, <1>5, <2>1, <2>2
<1>8. \A i \in 1..Len(stream) : (stream \o part)[i] = stream[i]
  BY <1>2, <1>4, <1>5
<1> QED
  BY <1>4, <1>5, <1>6, <1>7, <1>8 DEF part, Sent

(* A whole packet is its own longest prefix. *)
LEMMA WholePacket ==
  ASSUME StreamAssumption, NEW n \in Nat, NEW size \in Sizes
  PROVE  SubSeq(Packet(n, size), 1, HeaderSize + size) = Packet(n, size)
  BY PacketFacts, SubSeqFull

-----------------------------------------------------------------------------
(* Types.                                                                     *)

LEMMA TypeInit == Init => TypeOK
<1> SUFFICES ASSUME Init PROVE TypeOK
  OBVIOUS
<1>1. /\ <<>> \in Seq(1..conn) /\ <<>> \in Seq(Cells) /\ Len(<<>>) = 0
  BY EmptySeq
<1>2. got \in 0..Len(stream)
  BY <1>1 DEF Init
<1> QED
  BY <1>1, <1>2 DEF Init, TypeOK, NoClient

LEMMA TypeSend ==
  ASSUME StreamAssumption, TypeOK, NEW size \in Sizes, send_frame(size)
  PROVE  TypeOK'
<1>1. frames' \in Nat /\ frames' = frames + 1 /\ client' \in 0..conn /\ failures' \in Nat
  BY DEF TypeOK, send_frame, HalfSent, MayFail, NoClient
<1>2. \E k \in 0..(HeaderSize + size) :
        stream' = stream \/ stream' = stream \o SubSeq(Packet(frames', size), 1, k)
  <2>1. HeaderSize + size \in Nat
    BY DEF StreamAssumption
  <2>2. CASE UNCHANGED <<client, failures>> /\ stream' = (IF Serves(client) THEN stream \o Packet(frames', size) ELSE stream)
    <3>1. HeaderSize + size \in 0..(HeaderSize + size)
      BY <2>1
    <3>2. Packet(frames', size) = SubSeq(Packet(frames', size), 1, HeaderSize + size)
      BY <1>1, WholePacket
    <3> QED
      BY <2>2, <3>1, <3>2
  <2>3. CASE HalfSent(Packet(frames', size))
    <3>1. Len(Packet(frames', size)) = HeaderSize + size
      BY <1>1, PacketFacts
    <3>2. \A k \in 0..(Len(Packet(frames', size)) - 1) : k \in 0..(HeaderSize + size)
      BY <2>1, <3>1
    <3> QED
      BY <2>3, <3>2 DEF HalfSent
  <2> QED
    BY <2>2, <2>3 DEF send_frame
<1>3. stream' \in Seq(Cells) /\ Len(stream) \in Nat /\ Len(stream') \in Nat /\ Len(stream') >= Len(stream)
  <2>1. PICK k \in 0..(HeaderSize + size) :
          stream' = stream \/ stream' = stream \o SubSeq(Packet(frames', size), 1, k)
    BY <1>2
  <2>2. k \in Nat
    BY <2>1 DEF StreamAssumption
  <2>3. stream \in Seq(Cells) /\ Len(stream) \in Nat
    BY LenProperties DEF TypeOK
  <2>4. CASE stream' = stream
    BY <2>3, <2>4
  <2>5. CASE stream' = stream \o SubSeq(Packet(frames', size), 1, k)
    BY <1>1, <2>2, <2>3, <2>5, SentFacts DEF Sent
  <2> QED
    BY <2>1, <2>4, <2>5
<1>4. got' \in 0..Len(stream')
  BY <1>3 DEF TypeOK, send_frame
<1>5. untold' \in BOOLEAN
  <2>1. untold' \in {untold, untold \/ Serves(client)}
    BY DEF send_frame, HalfSent
  <2> QED
    BY <2>1 DEF TypeOK
<1>6. /\ UNCHANGED <<backlog, socket, conn, m_reconnectTimer, got, parsing, handed, overran>>
      /\ frames' \in Nat
  BY DEF send_frame, TypeOK
<1> QED
  BY <1>1, <1>3, <1>4, <1>5, <1>6 DEF TypeOK

LEMMA TypeConnect ==
  ASSUME TypeOK, onSocketConnected
  PROVE  TypeOK'
<1>1. conn' \in Nat /\ conn' = conn + 1 /\ client' \in 0..conn'
  BY DEF TypeOK, onSocketConnected
<1>2. backlog \in Seq(1..conn')
  BY <1>1, SeqMonotonic DEF TypeOK
<1>3. backlog' \in Seq(1..conn')
  BY <1>1, <1>2 DEF TypeOK, onSocketConnected
<1>4. stream' \in Seq(Cells) /\ Len(stream') = 0 /\ got' = 0
  BY EmptySeq DEF onSocketConnected
<1>5. got' \in 0..Len(stream')
  BY <1>4
<1> QED
  BY <1>1, <1>3, <1>4, <1>5 DEF TypeOK, onSocketConnected

LEMMA TypeParse ==
  ASSUME StreamAssumption, TypeOK, parseBuffer
  PROVE  TypeOK'
<1>1. /\ stream \in Seq(Cells) /\ Len(stream) \in Nat /\ got \in 0..Len(stream)
      /\ HeaderSize \in Nat \ {0} /\ MaxSize \in Nat /\ Sizes \subseteq 0..MaxSize
  BY LenProperties DEF TypeOK, StreamAssumption
<1>2. CASE UNCHANGED <<bytes, handed>> /\ parsing' = FALSE
  BY <1>2 DEF parseBuffer, TypeOK, bytes, server, link
<1>3. CASE stream' = Drop(got) /\ got' = 0 /\ parsing' = FALSE /\ UNCHANGED handed
  <2>1. stream' \in Seq(Cells) /\ Len(stream') = Len(stream) - got
    BY <1>1, <1>3, RestFacts DEF Drop
  <2>2. got' \in 0..Len(stream')
    BY <1>1, <1>3, <2>1
  <2> QED
    BY <1>3, <2>1, <2>2 DEF parseBuffer, TypeOK, server, link
<1>4. ASSUME NEW size \in Claimed, Unpack(size), got >= HeaderSize, ~(size > MaxSize) PROVE TypeOK'
  <2>1. stream[1] \in Cells /\ stream[1].size \in Sizes /\ stream[1].of \in Nat
    <3>1. 1 \in 1..Len(stream)
      BY <1>1, <1>4
    <3>2. stream[1] \in Cells
      BY <1>1, <3>1, ElementOfSeq
    <3> QED
      BY <3>2 DEF Cells
  <2>2. size \in Nat
    <3>1. Claimed \subseteq {stream[1].size} \cup Sizes \cup {MaxSize + 1}
      BY DEF Claimed
    <3>2. Sizes \subseteq Nat /\ MaxSize + 1 \in Nat
      BY <1>1
    <3>3. size \in {stream[1].size} \cup Sizes \cup {MaxSize + 1}
      BY <3>1
    <3> QED
      BY <2>1, <3>2, <3>3
  <2>3. HeaderSize + size \in 0..Len(stream)
    BY <1>1, <1>4, <2>2 DEF Unpack
  <2>4. stream' \in Seq(Cells) /\ Len(stream') = Len(stream) - (HeaderSize + size)
    BY <1>1, <1>4, <2>3, RestFacts DEF Drop, Unpack
  <2>5. got' \in 0..Len(stream')
    BY <1>1, <1>4, <2>2, <2>4 DEF Unpack
  <2>6. handed' \in Nat \cup {Junk}
    BY <1>4, <2>1 DEF Unpack, Handed
  <2> QED
    BY <1>4, <2>4, <2>5, <2>6 DEF parseBuffer, TypeOK, server, link, Unpack
<1> QED
  BY <1>2, <1>3, <1>4, <1>1 DEF parseBuffer

LEMMA TypeRead ==
  ASSUME StreamAssumption, TypeOK, onReadyRead
  PROVE  TypeOK'
<1>1. /\ stream \in Seq(Cells) /\ Len(stream) \in Nat /\ got \in 0..Len(stream)
      /\ Chunk \in Nat /\ Capacity \in Nat
  BY LenProperties DEF TypeOK, StreamAssumption
<1>2. PICK k \in 1..Chunk :
        /\ got + k <= Len(stream)
        /\ \/ stream' = Drop(got + k) /\ got' = 0 /\ overran' = TRUE /\ UNCHANGED parsing
           \/ got' = got + k /\ parsing' = TRUE /\ UNCHANGED <<stream, overran>>
  BY DEF onReadyRead
<1>3. got + k \in 0..Len(stream)
  BY <1>1, <1>2
<1>4. CASE stream' = Drop(got + k) /\ got' = 0 /\ overran' = TRUE /\ UNCHANGED parsing
  <2>1. stream' \in Seq(Cells) /\ Len(stream') = Len(stream) - (got + k)
    BY <1>1, <1>3, <1>4, RestFacts DEF Drop
  <2>2. got' \in 0..Len(stream')
    BY <1>1, <1>3, <1>4, <2>1
  <2> QED
    BY <1>4, <2>1, <2>2 DEF onReadyRead, TypeOK, server, link
<1>5. CASE got' = got + k /\ parsing' = TRUE /\ UNCHANGED <<stream, overran>>
  BY <1>3, <1>5 DEF onReadyRead, TypeOK, server, link
<1> QED
  BY <1>2, <1>4, <1>5

LEMMA TypeDisconnect ==
  ASSUME TypeOK, onSocketDisconnected
  PROVE  TypeOK'
<1>1. stream \in Seq(Cells) /\ Len(stream) \in Nat /\ got \in 0..Len(stream)
  BY LenProperties DEF TypeOK
<1>2. stream' \in Seq(Cells) /\ Len(stream') = got
  BY <1>1, PrefixFacts DEF onSocketDisconnected
<1>3. got' \in 0..Len(stream') /\ failures' \in Nat
  BY <1>1, <1>2 DEF onSocketDisconnected, TypeOK, MayFail
<1> QED
  BY <1>2, <1>3 DEF onSocketDisconnected, TypeOK, server

LEMMA TypeStep == StreamAssumption /\ TypeOK /\ [Next]_vars => TypeOK'
<1> SUFFICES ASSUME StreamAssumption, TypeOK, [Next]_vars PROVE TypeOK'
  OBVIOUS
<1>1. CASE accept_client
  <2>1. Head(backlog) \in 1..conn /\ Tail(backlog) \in Seq(1..conn) /\ conn \in Nat
    BY <1>1, HeadTailProperties DEF TypeOK, accept_client
  <2> QED
    BY <1>1, <2>1 DEF TypeOK, accept_client, link, bytes
<1>2. CASE receive_commands
  BY <1>2 DEF TypeOK, receive_commands, link, bytes, NoClient
<1>3. CASE \E size \in Sizes : send_frame(size)
  BY <1>3, TypeSend
<1>4. CASE JetsonRestarts
  <2>1. untold' \in BOOLEAN
    BY <1>4 DEF TypeOK, JetsonRestarts, Linked
  <2> QED
    BY <1>4, <2>1, EmptySeq DEF TypeOK, JetsonRestarts, MayFail, bytes, NoClient
<1>5. CASE onSocketConnected
  BY <1>5, TypeConnect
<1>6. CASE onSocketError
  BY <1>6 DEF TypeOK, onSocketError, MayFail, server, bytes
<1>7. CASE onSocketDisconnected
  BY <1>7, TypeDisconnect
<1>8. CASE onReconnectTimeout
  BY <1>8 DEF TypeOK, onReconnectTimeout, server, bytes
<1>9. CASE onReadyRead
  BY <1>9, TypeRead
<1>10. CASE parseBuffer
  BY <1>10, TypeParse
<1>11. CASE UNCHANGED vars
  BY <1>11 DEF TypeOK, vars, server, link, bytes
<1> QED
  BY <1>1, <1>2, <1>3, <1>4, <1>5, <1>6, <1>7, <1>8, <1>9, <1>10, <1>11 DEF Next

(* Connections, buffers and counters keep their types; in particular the      *)
(* buffer never holds more than the connection carried.                       *)
THEOREM StreamType == Spec => []TypeOK
<1>1. Init => TypeOK
  BY TypeInit
<1>2. TypeOK /\ [Next]_vars => TypeOK'
  BY StreamAssumption, TypeStep
<1> QED
  BY <1>1, <1>2, PTL DEF Spec

-----------------------------------------------------------------------------
(* Order.  The invariant is FramedUnlessCut itself: it says where packets     *)
(* start in what the connection carries, which is what makes it inductive.    *)

(* Nothing moved and the connection is not written to anew.                   *)
LEMMA SameFramed ==
  ASSUME Framed, UNCHANGED <<stream, handed>>, Written' => Written
  PROVE  Framed'
<1>1. Starts' = Starts
  BY DEF Starts
<1>2. Total(stream[1])' = Total(stream[1]) /\ \A i : Total(stream'[i]) = Total(stream[i])
  BY DEF Total
<1> QED
  BY <1>1, <1>2 DEF Framed, Total

(* The network breaks the connection: a prefix stays framed.                  *)
LEMMA PrefixFramed ==
  ASSUME StreamAssumption, TypeOK, Framed, stream' = SubSeq(stream, 1, got), UNCHANGED handed, ~Written'
  PROVE  Framed'
<1>1. stream \in Seq(Cells) /\ Len(stream) \in Nat /\ DOMAIN stream = 1..Len(stream) /\ got \in 0..Len(stream)
  BY LenProperties DEF TypeOK
<1>2. /\ Len(stream') = got /\ DOMAIN stream' = 1..got /\ \A i \in 1..got : stream'[i] = stream[i]
  BY <1>1, PrefixFacts
<1>3. \A i \in 1..got : i \in 1..Len(stream) /\ (i \in Starts' <=> i \in Starts)
  BY <1>1, <1>2 DEF Starts
<1>4. \A i \in Starts' : i \in 1..got /\ i \in Starts
  BY <1>2, <1>3 DEF Starts
<1>5. stream' # <<>> => 1 \in Starts'
  <2> SUFFICES ASSUME stream' # <<>> PROVE 1 \in Starts'
    OBVIOUS
  <2>1. got # 0
    BY <1>1, <1>2, EmptySeq, PrefixFacts
  <2>2. 1 \in 1..got /\ stream # <<>>
    BY <1>1, <2>1
  <2> QED
    BY <1>3, <2>2 DEF Framed
<1>6. ASSUME NEW i \in Starts', NEW j \in i..(i + Total(stream'[i]) - 1), j <= Len(stream')
      PROVE  stream'[j] = [of |-> stream'[i].of, size |-> stream'[i].size, at |-> j - i + 1]
  <2>1. i \in 1..got /\ i \in Starts /\ stream'[i] = stream[i]
    BY <1>2, <1>4
  <2>2. j \in 1..got /\ j <= Len(stream)
    BY <1>1, <1>2, <1>6, <2>1
  <2> QED
    BY <1>2, <1>6, <2>1, <2>2 DEF Framed
<1>7. ASSUME NEW i \in Starts', NEW j \in DOMAIN stream'
      PROVE  /\ j = i + Total(stream'[i]) => j \in Starts'
             /\ j >= i + Total(stream'[i]) => stream'[j].of > stream'[i].of
  <2>1. i \in 1..got /\ i \in Starts /\ stream'[i] = stream[i]
    BY <1>2, <1>4
  <2>2. j \in 1..got /\ j \in DOMAIN stream /\ stream'[j] = stream[j]
    BY <1>1, <1>2
  <2> QED
    BY <1>3, <2>1, <2>2 DEF Framed
<1>8. \A i \in DOMAIN stream' : stream'[i].of > handed'
  BY <1>1, <1>2 DEF Framed
<1> QED
  BY <1>5, <1>6, <1>7, <1>8 DEF Framed, Total

(* In a framed stream the first packet, if it is all there, is what the       *)
(* decoders get, and what its header claims is its size.                      *)
LEMMA HeadIsPacket ==
  ASSUME StreamAssumption, TypeOK, Framed, got >= HeaderSize
  PROVE  /\ stream[1] \in Cells /\ 1 \in Starts /\ 1 \in DOMAIN stream
         /\ Claimed = {stream[1].size} /\ stream[1].size \in Sizes
         /\ HeaderSize + stream[1].size <= got => Handed(stream[1].size) = stream[1].of
<1>1. /\ stream \in Seq(Cells) /\ Len(stream) \in Nat /\ DOMAIN stream = 1..Len(stream)
      /\ got \in 0..Len(stream) /\ HeaderSize \in Nat \ {0} /\ Sizes \subseteq Nat
  BY LenProperties DEF TypeOK, StreamAssumption
<1>2. 1 \in 1..Len(stream) /\ stream # <<>>
  BY <1>1, EmptySeq
<1>3. 1 \in Starts /\ stream[1] \in Cells
  BY <1>1, <1>2, ElementOfSeq DEF Framed
<1>4. stream[1].size \in Sizes /\ stream[1].size \in Nat /\ stream[1].of \in Nat
  BY <1>1, <1>3 DEF Cells
<1>5. \A j \in 1..(HeaderSize + stream[1].size) : j <= Len(stream) =>
        stream[j] = [of |-> stream[1].of, size |-> stream[1].size, at |-> j]
  <2> SUFFICES ASSUME NEW j \in 1..(HeaderSize + stream[1].size), j <= Len(stream)
               PROVE  stream[j] = [of |-> stream[1].of, size |-> stream[1].size, at |-> j]
    OBVIOUS
  <2>1. j \in 1..(1 + Total(stream[1]) - 1) /\ j - 1 + 1 = j
    BY <1>1, <1>4 DEF Total
  <2> QED
    BY <1>3, <2>1 DEF Framed
<1>6. IsHeader
  <2>1. \A k \in 1..HeaderSize : k \in 1..(HeaderSize + stream[1].size) /\ k <= Len(stream)
    BY <1>1, <1>4
  <2> QED
    BY <1>5, <2>1 DEF IsHeader
<1>7. Claimed = {stream[1].size}
  BY <1>6 DEF Claimed
<1>8. ASSUME HeaderSize + stream[1].size <= got
      PROVE  Handed(stream[1].size) = stream[1].of
  <2> DEFINE n == HeaderSize + stream[1].size
             head == SubSeq(stream, 1, n)
             packet == Packet(stream[1].of, stream[1].size)
  <2>1. n \in 0..Len(stream) /\ n \in Nat
    BY <1>1, <1>4, <1>8
  <2>2. head \in Seq(Cells) /\ Len(head) = n /\ \A k \in 1..n : head[k] = stream[k]
    BY <1>1, <2>1, PrefixFacts
  <2>3. /\ packet \in Seq(Cells) /\ Len(packet) = n
        /\ \A k \in 1..n : packet[k] = [of |-> stream[1].of, size |-> stream[1].size, at |-> k]
    BY <1>4, PacketFacts
  <2>4. \A k \in 1..n : head[k] = packet[k]
    <3>1. \A k \in 1..n : k <= Len(stream)
      BY <1>1, <2>1
    <3> QED
      BY <1>5, <2>2, <2>3, <3>1
  <2> HIDE DEF n, head, packet
  <2>5. head = packet
    BY <2>2, <2>3, <2>4, SeqEqual
  <2> QED
    BY <2>5 DEF n, head, packet, Handed
<1> QED
  BY <1>1, <1>2, <1>3, <1>4, <1>7, <1>8

(* The first packet is taken from a framed stream.                            *)
LEMMA RestFramed ==
  ASSUME StreamAssumption, TypeOK, Framed, got >= HeaderSize + stream[1].size, got >= HeaderSize,
         stream' = Drop(HeaderSize + stream[1].size), handed' = stream[1].of, Written' => Written
  PROVE  Framed'
<1> DEFINE d == HeaderSize + stream[1].size
<1>1. /\ stream \in Seq(Cells) /\ Len(stream) \in Nat /\ DOMAIN stream = 1..Len(stream)
      /\ got \in 0..Len(stream) /\ HeaderSize \in Nat \ {0} /\ Sizes \subseteq Nat
  BY LenProperties DEF TypeOK, StreamAssumption
<1>2. 1 \in Starts /\ stream[1].size \in Nat /\ d \in Nat \ {0} /\ d \in 0..Len(stream) /\ Total(stream[1]) = d
  <2>1. 1 \in Starts /\ stream[1].size \in Nat
    BY <1>1, HeadIsPacket
  <2>2. d \in Nat \ {0} /\ d <= got
    BY <1>1, <2>1
  <2>3. d \in 0..Len(stream)
    BY <1>1, <2>2
  <2> QED
    BY <2>1, <2>2, <2>3 DEF Total
<1>3. /\ Len(stream') = Len(stream) - d /\ DOMAIN stream' = 1..(Len(stream) - d)
      /\ \A i \in 1..(Len(stream) - d) : stream'[i] = stream[d + i]
  BY <1>1, <1>2, RestFacts DEF Drop
<1> HIDE DEF d
<1>4. \A i \in 1..(Len(stream) - d) : d + i \in 1..Len(stream) /\ (i \in Starts' <=> d + i \in Starts)
  <2> SUFFICES ASSUME NEW i \in 1..(Len(stream) - d)
               PROVE  d + i \in 1..Len(stream) /\ (i \in Starts' <=> d + i \in Starts)
    OBVIOUS
  <2>1. d + i \in 1..Len(stream)
    BY <1>1, <1>2
  <2>2. stream'[i] = stream[d + i] /\ i \in DOMAIN stream'
    BY <1>3
  <2> QED
    BY <1>1, <2>1, <2>2 DEF Starts
<1>5. \A i \in Starts' : i \in 1..(Len(stream) - d) /\ d + i \in Starts /\ stream'[i] = stream[d + i]
  BY <1>3, <1>4 DEF Starts
<1>6. \A i \in Starts : Total(stream[i]) \in Nat /\ i \in Nat
  <2> SUFFICES ASSUME NEW i \in Starts PROVE Total(stream[i]) \in Nat /\ i \in Nat
    OBVIOUS
  <2>1. stream[i] \in Cells /\ i \in 1..Len(stream)
    BY <1>1, ElementOfSeq DEF Starts
  <2>2. stream[i].size \in Nat
    BY <1>1, <2>1 DEF Cells
  <2> QED
    BY <1>1, <2>1, <2>2 DEF Total
<1>7. stream' # <<>> => 1 \in Starts'
  <2> SUFFICES ASSUME stream' # <<>> PROVE 1 \in Starts'
    OBVIOUS
  <2>1. Len(stream) - d # 0
    <3>1. stream' \in Seq(Cells)
      BY <1>1, <1>2, RestFacts DEF Drop, d
    <3> QED
      BY <1>3, <3>1, EmptySeq
  <2>2. d + 1 \in 1..Len(stream) /\ 1 \in 1..(Len(stream) - d) /\ d + 1 = 1 + d
    <3>1. d \in Int /\ Len(stream) \in Int /\ 0 <= d /\ d <= Len(stream)
      BY <1>1, <1>2
    <3>2. d < Len(stream)
      BY <2>1, <3>1
    <3> HIDE <2>1
    <3> QED
      BY <3>1, <3>2
  <2>3. d + 1 \in Starts
    BY <1>1, <1>2, <2>2 DEF Framed
  <2> QED
    BY <1>4, <2>2, <2>3
<1>8. ASSUME NEW i \in Starts', NEW j \in i..(i + Total(stream'[i]) - 1), j <= Len(stream')
      PROVE  stream'[j] = [of |-> stream'[i].of, size |-> stream'[i].size, at |-> j - i + 1]
  <2>1. i \in 1..(Len(stream) - d) /\ d + i \in Starts /\ stream'[i] = stream[d + i] /\ Total(stream[d + i]) \in Nat
    BY <1>5, <1>6
  <2>2. j \in 1..(Len(stream) - d) /\ d + j \in (d + i)..(d + i + Total(stream[d + i]) - 1)
        /\ d + j <= Len(stream) /\ (d + j) - (d + i) + 1 = j - i + 1
    <3>1. j \in i..(i + Total(stream[d + i]) - 1) /\ j <= Len(stream) - d
      BY <1>3, <1>8, <2>1
    <3> HIDE <1>8
    <3> DEFINE t == Total(stream[d + i])
    <3>2. t \in Nat /\ i \in Nat \ {0} /\ j \in i..(i + t - 1)
      BY <2>1, <3>1
    <3> HIDE DEF t
    <3>3. j \in Int /\ j >= i /\ j <= i + t - 1
      BY <3>2
    <3> DEFINE n == Len(stream)
    <3>4. n \in Nat /\ d \in Nat /\ j <= n - d
      BY <1>1, <1>2, <3>1
    <3> HIDE DEF n
    <3> HIDE <3>1
    <3>5. j \in 1..(n - d) /\ d + j <= n
      BY <3>2, <3>3, <3>4
    <3>6. d + j \in (d + i)..(d + i + t - 1)
      BY <3>2, <3>3, <3>4
    <3>7. (d + j) - (d + i) + 1 = j - i + 1
      BY <3>2, <3>3, <3>4
    <3> QED
      BY <3>5, <3>6, <3>7 DEF t, n
  <2>3. stream[d + j] = [of |-> stream[d + i].of, size |-> stream[d + i].size, at |-> (d + j) - (d + i) + 1]
    BY <2>1, <2>2 DEF Framed
  <2> QED
    BY <1>3, <2>1, <2>2, <2>3
<1>9. ASSUME NEW i \in Starts', NEW j \in DOMAIN stream'
      PROVE  /\ j = i + Total(stream'[i]) => j \in Starts'
             /\ j >= i + Total(stream'[i]) => stream'[j].of > stream'[i].of
  <2>1. i \in 1..(Len(stream) - d) /\ d + i \in Starts /\ stream'[i] = stream[d + i] /\ Total(stream[d + i]) \in Nat
    BY <1>5, <1>6
  <2>2. j \in 1..(Len(stream) - d) /\ d + j \in DOMAIN stream /\ stream'[j] = stream[d + j]
    BY <1>1, <1>3, <1>4
  <2>3. /\ j = i + Total(stream'[i]) => d + j = (d + i) + Total(stream[d + i])
        /\ j >= i + Total(stream'[i]) => d + j >= (d + i) + Total(stream[d + i])
    BY <1>2, <2>1, <2>2
  <2> QED
    BY <1>4, <2>1, <2>2, <2>3 DEF Framed
<1>10. ASSUME NEW i \in DOMAIN stream' PROVE stream'[i].of > handed'
  <2>1. i \in 1..(Len(stream) - d) /\ d + i \in DOMAIN stream /\ stream'[i] = stream[d + i]
    BY <1>1, <1>3, <1>4
  <2>2. d + i >= 1 + Total(stream[1])
    BY <1>2, <2>1
  <2> QED
    BY <1>2, <2>1, <2>2 DEF Framed
<1>11. ASSUME Written', NEW i \in Starts' PROVE i + Total(stream'[i]) <= Len(stream') + 1
  <2>1. i \in 1..(Len(stream) - d) /\ d + i \in Starts /\ stream'[i] = stream[d + i] /\ Total(stream[d + i]) \in Nat
    BY <1>5, <1>6
  <2>2. (d + i) + Total(stream[d + i]) <= Len(stream) + 1
    BY <1>11, <2>1 DEF Framed
  <2> DEFINE t == Total(stream[d + i])
  <2>3. t \in Nat /\ i \in Int /\ (d + i) + t <= Len(stream) + 1
    BY <2>1, <2>2
  <2> HIDE DEF t
  <2>4. i + t <= Len(stream) - d + 1
    BY <1>1, <1>2, <2>3
  <2> QED
    BY <1>3, <2>1, <2>4 DEF t
<1> QED
  BY <1>7, <1>8, <1>9, <1>10, <1>11 DEF Framed, Total

(* What stood in the stream before a send stays where it was.                  *)
LEMMA SentKeeps ==
  ASSUME StreamAssumption, TypeOK, NEW n \in Nat, NEW size \in Sizes, NEW k \in 0..(HeaderSize + size),
         NEW i \in 1..Len(stream)
  PROVE  Sent(n, size, k)[i] = stream[i]
<1>1. stream \in Seq(Cells) /\ Len(stream) \in Nat
  BY LenProperties DEF TypeOK
<1>2. SubSeq(Packet(n, size), 1, k) \in Seq(Cells)
  <2>1. Packet(n, size) \in Seq(Cells) /\ Len(Packet(n, size)) = HeaderSize + size
    BY PacketFacts
  <2> QED
    BY <2>1, PrefixFacts
<1> QED
  BY <1>1, <1>2, ConcatProperties DEF Sent

(* What a send puts behind the stream: the packet's own cells, in order.       *)
LEMMA SentAdds ==
  ASSUME StreamAssumption, TypeOK, NEW n \in Nat, NEW size \in Sizes, NEW k \in 0..(HeaderSize + size),
         NEW i \in (Len(stream) + 1)..(Len(stream) + k)
  PROVE  Sent(n, size, k)[i] = [of |-> n, size |-> size, at |-> i - Len(stream)]
<1> DEFINE part == SubSeq(Packet(n, size), 1, k)
           at == i - Len(stream)
<1>1. stream \in Seq(Cells) /\ Len(stream) \in Nat /\ HeaderSize + size \in Nat
  BY LenProperties DEF TypeOK, StreamAssumption
<1>2. /\ i \in 1..(Len(stream) + k) /\ ~(i <= Len(stream))
      /\ at \in 1..k /\ at \in 1..(HeaderSize + size)
  BY <1>1
<1>3. /\ Packet(n, size) \in Seq(Cells) /\ Len(Packet(n, size)) = HeaderSize + size
      /\ Packet(n, size)[at] = [of |-> n, size |-> size, at |-> at]
  BY <1>2, PacketFacts
<1>4. part \in Seq(Cells) /\ Len(part) = k /\ part[at] = Packet(n, size)[at]
  BY <1>2, <1>3, PrefixFacts
<1> HIDE DEF part
<1>5. (stream \o part)[i] = part[at]
  BY <1>1, <1>2, <1>4, ConcatProperties
<1> QED
  BY <1>3, <1>4, <1>5 DEF part, Sent

(* The cells of a stream that a prefix of the next packet has been sent to.    *)
LEMMA SentCells ==
  ASSUME StreamAssumption, TypeOK, frames \in Nat,
         NEW size \in Sizes, NEW k \in 0..(HeaderSize + size),
         stream' = stream \o SubSeq(Packet(frames + 1, size), 1, k)
  PROVE  /\ Len(stream') = Len(stream) + k /\ DOMAIN stream' = 1..(Len(stream) + k)
         /\ stream' \in Seq(Cells)
         /\ \A i \in 1..Len(stream) : stream'[i] = stream[i]
         /\ \A i \in (Len(stream) + 1)..(Len(stream) + k) :
              stream'[i] = [of |-> frames + 1, size |-> size, at |-> i - Len(stream)]
<1>1. frames + 1 \in Nat /\ stream' = Sent(frames + 1, size, k)
  BY DEF Sent
<1> DEFINE f == frames + 1
<1>2. f \in Nat /\ stream' = Sent(f, size, k)
  BY <1>1
<1> HIDE DEF f
<1>3. /\ Len(Sent(f, size, k)) = Len(stream) + k /\ Len(stream) \in Nat
      /\ DOMAIN Sent(f, size, k) = 1..(Len(stream) + k) /\ Sent(f, size, k) \in Seq(Cells)
  BY <1>2, SentFacts
<1>4. ASSUME NEW i \in 1..Len(stream) PROVE Sent(f, size, k)[i] = stream[i]
  BY <1>2, SentKeeps
<1>5. ASSUME NEW i \in (Len(stream) + 1)..(Len(stream) + k)
      PROVE  Sent(f, size, k)[i] = [of |-> f, size |-> size, at |-> i - Len(stream)]
  BY <1>2, SentAdds
<1> QED
  BY <1>2, <1>3, <1>4, <1>5 DEF f

(* A prefix of the next packet is sent: its number is the next frame's.       *)
LEMMA SentNumbers ==
  ASSUME StreamAssumption, TypeOK, frames \in Nat, \A i \in DOMAIN stream : stream[i].of <= frames,
         NEW size \in Sizes, NEW k \in 0..(HeaderSize + size),
         stream' = stream \o SubSeq(Packet(frames + 1, size), 1, k)
  PROVE  \A i \in DOMAIN stream' : stream'[i].of <= frames + 1
<1> DEFINE n == Len(stream)
           f == frames + 1
<1>1. stream \in Seq(Cells) /\ n \in Nat /\ DOMAIN stream = 1..n /\ f \in Nat /\ k \in Nat
  BY LenProperties DEF TypeOK, StreamAssumption
<1>2. /\ DOMAIN stream' = 1..(n + k) /\ \A i \in 1..n : stream'[i] = stream[i]
      /\ \A i \in (n + 1)..(n + k) : stream'[i] = [of |-> f, size |-> size, at |-> i - n]
  BY <1>1, SentCells
<1>3. \A i \in 1..n : stream[i] \in Cells
  BY <1>1, ElementOfSeq
<1>4. \A i \in 1..n : stream[i].of \in Nat /\ stream[i].of <= f
  <2> SUFFICES ASSUME NEW i \in 1..n PROVE stream[i].of \in Nat /\ stream[i].of <= f
    OBVIOUS
  <2>1. stream[i].of \in Nat
    BY <1>3 DEF Cells
  <2>2. stream[i].of <= frames
    BY <1>1
  <2> QED
    BY <2>1, <2>2
<1> HIDE DEF n, f
<1>5. \A i \in (n + 1)..(n + k) : stream'[i].of = f
  <2> SUFFICES ASSUME NEW i \in (n + 1)..(n + k) PROVE stream'[i].of = f
    OBVIOUS
  <2> DEFINE c == stream'[i]
  <2>1. c = [of |-> f, size |-> size, at |-> i - n]
    BY <1>2
  <2> HIDE DEF c
  <2>2. c.of = f
    BY <2>1
  <2> QED
    BY <2>2 DEF c
<1>6. \A i \in 1..(n + k) : i \in 1..n \/ i \in (n + 1)..(n + k)
  BY <1>1
<1>7. \A i \in DOMAIN stream' : stream'[i].of <= f
  <2>1. \A i \in 1..n : stream'[i].of <= f
    BY <1>2, <1>4
  <2>2. \A i \in (n + 1)..(n + k) : stream'[i].of <= f
    BY <1>1, <1>5
  <2> QED
    BY <1>2, <1>6, <2>1, <2>2
<1> QED
  BY <1>7 DEF f

(* A prefix of the next packet follows whole packets.                         *)
LEMMA SentFramed ==
  ASSUME StreamAssumption, TypeOK, Framed, Written, frames \in Nat, handed <= frames,
         \A i \in DOMAIN stream : stream[i].of <= frames,
         NEW size \in Sizes, NEW k \in 0..(HeaderSize + size),
         stream' = stream \o SubSeq(Packet(frames + 1, size), 1, k), UNCHANGED handed,
         Written' => k = HeaderSize + size
  PROVE  Framed'
<1> DEFINE n == Len(stream)
<1>1. /\ stream \in Seq(Cells) /\ n \in Nat /\ DOMAIN stream = 1..n
      /\ HeaderSize \in Nat \ {0} /\ size \in Nat /\ k \in Nat /\ frames + 1 \in Nat
  <2>1. HeaderSize \in Nat \ {0} /\ size \in Nat
    BY DEF StreamAssumption
  <2>2. k \in Nat
    BY <2>1
  <2> QED
    BY <2>1, <2>2, LenProperties DEF TypeOK
<1>2. /\ Len(stream') = n + k /\ DOMAIN stream' = 1..(n + k) /\ stream' \in Seq(Cells)
      /\ \A i \in 1..n : stream'[i] = stream[i]
      /\ \A i \in (n + 1)..(n + k) : stream'[i] = [of |-> frames + 1, size |-> size, at |-> i - n]
  BY <1>1, SentCells
<1> HIDE DEF n
<1>3. \A i \in 1..(n + k) : i \in 1..n \/ i \in (n + 1)..(n + k)
  BY <1>1
<1>4. \A i \in Starts : Total(stream[i]) \in Nat /\ i \in 1..n /\ i + Total(stream[i]) <= n + 1
  <2> SUFFICES ASSUME NEW i \in Starts PROVE Total(stream[i]) \in Nat /\ i \in 1..n /\ i + Total(stream[i]) <= n + 1
    OBVIOUS
  <2>1. stream[i] \in Cells /\ i \in 1..n
    BY <1>1, ElementOfSeq DEF Starts, n
  <2>2. Total(stream[i]) \in Nat
    <3>1. stream[i].size \in Sizes
      BY <2>1 DEF Cells
    <3>2. \A x \in Sizes : x \in Nat
      BY DEF StreamAssumption
    <3>3. stream[i].size \in Nat
      BY <3>1, <3>2
    <3> QED
      BY <1>1, <3>3 DEF Total
  <2> QED
    BY <2>1, <2>2 DEF Framed, n
<1>5. \A i \in Starts' : (i \in Starts /\ stream'[i] = stream[i])
                          \/ (i = n + 1 /\ k >= 1 /\ Total(stream'[i]) = HeaderSize + size)
  <2> SUFFICES ASSUME NEW i \in Starts', i \notin 1..n
               PROVE  i = n + 1 /\ k >= 1 /\ Total(stream'[i]) = HeaderSize + size
    BY <1>1, <1>2 DEF Starts
  <2>1. i \in (n + 1)..(n + k) /\ stream'[i].at = 1
    BY <1>2, <1>3 DEF Starts
  <2>2. stream'[i] = [of |-> frames + 1, size |-> size, at |-> i - n]
    BY <1>2, <2>1
  <2> QED
    BY <1>1, <2>1, <2>2 DEF Total
<1>6. \A i \in Starts : i \in Starts'
  BY <1>1, <1>2 DEF Starts
<1>7. k >= 1 => n + 1 \in Starts' /\ stream'[n + 1] = [of |-> frames + 1, size |-> size, at |-> 1]
  <2> SUFFICES ASSUME k >= 1
               PROVE  n + 1 \in Starts' /\ stream'[n + 1] = [of |-> frames + 1, size |-> size, at |-> 1]
    OBVIOUS
  <2>1. n + 1 \in (n + 1)..(n + k) /\ n + 1 \in 1..(n + k) /\ (n + 1) - n = 1
    BY <1>1
  <2>2. stream'[n + 1] = [of |-> frames + 1, size |-> size, at |-> 1]
    BY <1>2, <2>1
  <2> QED
    BY <1>2, <2>1, <2>2 DEF Starts
<1>8. stream' # <<>> => 1 \in Starts'
  <2>1. CASE n = 0
    <3>1. k = 0 => stream' = <<>>
      BY <1>1, <1>2, <2>1, EmptySeq
    <3> QED
      BY <1>1, <1>7, <2>1, <3>1
  <2>2. CASE n # 0
    <3>1. stream # <<>>
      BY <2>2, EmptySeq DEF n
    <3> QED
      BY <1>6, <3>1 DEF Framed
  <2> QED
    BY <2>1, <2>2
<1>9. ASSUME NEW i \in Starts', NEW j \in i..(i + Total(stream'[i]) - 1), j <= Len(stream')
      PROVE  stream'[j] = [of |-> stream'[i].of, size |-> stream'[i].size, at |-> j - i + 1]
  <2>1. CASE i \in Starts /\ stream'[i] = stream[i]
    <3>1. j \in 1..n /\ j \in i..(i + Total(stream[i]) - 1) /\ j <= Len(stream)
      BY <1>1, <1>4, <1>9, <2>1 DEF n
    <3> QED
      BY <1>2, <2>1, <3>1 DEF Framed
  <2>2. CASE i = n + 1 /\ k >= 1
    <3>1. j \in (n + 1)..(n + k) /\ j - i + 1 = j - n
      BY <1>1, <1>2, <1>9, <2>2
    <3>2. stream'[j] = [of |-> frames + 1, size |-> size, at |-> j - n]
      BY <1>2, <3>1
    <3>3. stream'[i] = [of |-> frames + 1, size |-> size, at |-> 1]
      <4>1. stream'[n + 1] = [of |-> frames + 1, size |-> size, at |-> 1] /\ i = n + 1
        BY <1>7, <2>2
      <4> QED
        BY <4>1
    <3>4. stream'[i].of = frames + 1 /\ stream'[i].size = size
      <4> DEFINE c == stream'[i]
                 f == frames + 1
      <4>1. c = [of |-> f, size |-> size, at |-> 1]
        BY <3>3
      <4> HIDE DEF c, f
      <4>2. c.of = f /\ c.size = size
        BY <4>1
      <4> QED
        BY <4>2 DEF c, f
    <3> QED
      BY <3>1, <3>2, <3>4, Zenon
  <2> QED
    BY <1>5, <2>1, <2>2
<1>10. ASSUME NEW i \in Starts', NEW j \in DOMAIN stream'
       PROVE  /\ j = i + Total(stream'[i]) => j \in Starts'
              /\ j >= i + Total(stream'[i]) => stream'[j].of > stream'[i].of
  <2>1. CASE i \in Starts /\ stream'[i] = stream[i]
    <3>1. CASE j \in 1..n
      BY <1>1, <1>2, <1>6, <2>1, <3>1 DEF Framed
    <3>2. CASE j \in (n + 1)..(n + k)
      <4>1. j = i + Total(stream[i]) => j = n + 1 /\ k >= 1
        <5>1. i + Total(stream[i]) <= n + 1
          BY <1>4, <2>1
        <5> QED
          BY <1>1, <3>2, <5>1
      <4>2. stream'[j].of = frames + 1 /\ stream[i].of <= frames /\ stream[i].of \in Nat
        <5>1. i \in 1..n /\ stream[i] \in Cells
          BY <1>1, <1>4, <2>1, ElementOfSeq DEF n
        <5>2. stream[i].of \in Nat /\ stream[i].of <= frames
          BY <1>1, <5>1 DEF Cells
        <5>3. stream'[j] = [of |-> frames + 1, size |-> size, at |-> j - n]
          BY <1>2, <3>2
        <5> QED
          BY <5>2, <5>3
      <4>3. stream'[j].of > stream[i].of
        BY <4>2
      <4> QED
        BY <1>7, <2>1, <4>1, <4>3
    <3> QED
      BY <1>2, <1>3, <3>1, <3>2
  <2>2. CASE i = n + 1 /\ k >= 1 /\ Total(stream'[i]) = HeaderSize + size
    BY <1>1, <1>2, <2>2
  <2> QED
    BY <1>5, <2>1, <2>2
<1>11. ASSUME NEW i \in DOMAIN stream' PROVE stream'[i].of > handed'
  <2>1. CASE i \in 1..n
    <3>1. stream[i] \in Cells
      BY <1>1, <2>1, ElementOfSeq DEF n
    <3> QED
      BY <1>1, <1>2, <2>1, <3>1 DEF Framed, Cells
  <2>2. CASE i \in (n + 1)..(n + k)
    <3>1. handed \in Int
      BY DEF TypeOK, Junk
    <3>2. stream'[i] = [of |-> frames + 1, size |-> size, at |-> i - n]
      BY <1>2, <2>2
    <3> QED
      BY <3>1, <3>2
  <2> QED
    BY <1>2, <1>3, <2>1, <2>2
<1>12. ASSUME Written', NEW i \in Starts' PROVE i + Total(stream'[i]) <= Len(stream') + 1
  <2>1. CASE i \in Starts /\ stream'[i] = stream[i]
    BY <1>1, <1>2, <1>4, <2>1
  <2>2. CASE i = n + 1 /\ Total(stream'[i]) = HeaderSize + size
    <3>1. k = HeaderSize + size /\ Len(stream') = n + k
      BY <1>2, <1>12
    <3>2. i + (HeaderSize + size) <= n + k + 1
      BY <1>1, <2>2, <3>1
    <3> QED
      BY <2>2, <3>1, <3>2
  <2> QED
    BY <1>5, <2>1, <2>2
<1> QED
  BY <1>8, <1>9, <1>10, <1>11, <1>12 DEF Framed, Total

-----------------------------------------------------------------------------
(* Every step.                                                                *)

LEMMA QueuedStep ==
  ASSUME StreamAssumption, TypeOK, Queued, [Next]_vars
  PROVE  Queued'
<1>1. /\ backlog \in Seq(1..conn) /\ Len(backlog) \in Nat /\ DOMAIN backlog = 1..Len(backlog)
      /\ conn \in Nat /\ client \in 0..conn
  BY LenProperties DEF TypeOK
<1>2. \A n \in DOMAIN backlog : backlog[n] \in 1..conn
  BY <1>1, ElementOfSeq
<1>3. CASE UNCHANGED <<client, backlog>>
  BY <1>3 DEF Queued
<1>4. CASE client' = NoClient /\ UNCHANGED backlog
  BY <1>1, <1>2, <1>4 DEF Queued, NoClient
<1>5. CASE backlog' = <<>>
  <2>1. DOMAIN backlog' = {}
    BY <1>5
  <2> QED
    BY <2>1 DEF Queued
<1>6. CASE accept_client
  <2>1. Len(backlog) # 0 /\ client' = backlog[1] /\ backlog' = Tail(backlog)
    BY <1>1, <1>6, HeadTailProperties, EmptySeq DEF accept_client
  <2>2. DOMAIN backlog' = 1..(Len(backlog) - 1) /\ \A n \in 1..(Len(backlog) - 1) : backlog'[n] = backlog[n + 1]
    <3>1. backlog # <<>>
      BY <1>6 DEF accept_client
    <3>2. /\ Tail(backlog) \in Seq(1..conn) /\ Len(Tail(backlog)) = Len(backlog) - 1
          /\ \A n \in 1..Len(Tail(backlog)) : Tail(backlog)[n] = backlog[n + 1]
      BY <1>1, <3>1, HeadTailProperties
    <3>3. DOMAIN Tail(backlog) = 1..(Len(backlog) - 1)
      BY <3>2, LenProperties
    <3> QED
      BY <2>1, <3>2, <3>3
  <2>3. \A n \in 1..(Len(backlog) - 1) : n + 1 \in DOMAIN backlog /\ 1 \in DOMAIN backlog /\ 1 < n + 1
    BY <1>1
  <2>4. \A n, m \in 1..(Len(backlog) - 1) : n < m => n + 1 < m + 1
    BY <1>1
  <2> QED
    BY <2>1, <2>2, <2>3, <2>4 DEF Queued
<1>7. CASE onSocketConnected
  <2>1. backlog' = Append(backlog, conn + 1) /\ UNCHANGED client
    BY <1>7 DEF onSocketConnected
  <2>2. backlog \in Seq(1..(conn + 1)) /\ conn + 1 \in 1..(conn + 1)
    BY <1>1, SeqMonotonic
  <2>3. /\ Len(backlog') = Len(backlog) + 1 /\ backlog' \in Seq(1..(conn + 1))
        /\ \A n \in 1..Len(backlog) : backlog'[n] = backlog[n]
        /\ backlog'[Len(backlog) + 1] = conn + 1
    BY <2>1, <2>2, AppendProperties
  <2>4. DOMAIN backlog' = 1..(Len(backlog) + 1)
    BY <2>3, LenProperties
  <2>5. \A n \in DOMAIN backlog' : n \in DOMAIN backlog \/ n = Len(backlog) + 1
    BY <1>1, <2>4
  <2>6. \A n \in DOMAIN backlog' : client < backlog'[n]
    <3> SUFFICES ASSUME NEW n \in DOMAIN backlog' PROVE client < backlog'[n]
      OBVIOUS
    <3>1. CASE n \in DOMAIN backlog
      <4>1. backlog'[n] = backlog[n] /\ client < backlog[n]
        BY <1>1, <2>3, <3>1 DEF Queued
      <4> QED
        BY <4>1
    <3>2. CASE n = Len(backlog) + 1
      <4>1. backlog'[n] = conn + 1
        BY <2>3, <3>2
      <4>2. client < conn + 1
        BY <1>1
      <4> QED
        BY <4>1, <4>2
    <3> QED
      BY <2>5, <3>1, <3>2
  <2>7. ASSUME NEW n \in DOMAIN backlog', NEW m \in DOMAIN backlog', n < m
        PROVE  backlog'[n] < backlog'[m]
    <3>1. n \in DOMAIN backlog
      BY <1>1, <2>4, <2>7
    <3>2. backlog'[n] = backlog[n] /\ backlog[n] \in 1..conn
      BY <1>1, <1>2, <2>3, <3>1
    <3>3. CASE m \in DOMAIN backlog
      <4>1. backlog'[m] = backlog[m] /\ backlog[n] < backlog[m]
        BY <1>1, <2>3, <2>7, <3>1, <3>3 DEF Queued
      <4> QED
        BY <3>2, <4>1
    <3>4. CASE m = Len(backlog) + 1
      <4>1. backlog'[m] = conn + 1
        BY <2>3, <3>4
      <4>2. backlog[n] < conn + 1
        BY <1>1, <3>2
      <4> QED
        BY <3>2, <4>1, <4>2
    <3> QED
      BY <2>5, <3>3, <3>4
  <2> QED
    BY <2>1, <2>6, <2>7 DEF Queued
<1> QED
  BY <1>3, <1>4, <1>5, <1>6, <1>7 DEF Next, vars, server, accept_client, receive_commands, send_frame,
     HalfSent, JetsonRestarts, onSocketError, onSocketDisconnected, onReconnectTimeout, onReadyRead,
     parseBuffer

(* Numbers of packets on the stream are numbers of frames sent.               *)
LEMMA NumberedRest ==
  ASSUME StreamAssumption, TypeOK, NEW d \in 0..Len(stream), stream' = Drop(d), UNCHANGED frames,
         \A i \in DOMAIN stream : stream[i].of <= frames
  PROVE  \A i \in DOMAIN stream' : stream'[i].of <= frames'
<1>1. stream \in Seq(Cells) /\ Len(stream) \in Nat /\ DOMAIN stream = 1..Len(stream)
  BY LenProperties DEF TypeOK
<1>2. DOMAIN stream' = 1..(Len(stream) - d) /\ \A i \in 1..(Len(stream) - d) : stream'[i] = stream[d + i]
  BY <1>1, RestFacts DEF Drop
<1>3. \A i \in 1..(Len(stream) - d) : d + i \in DOMAIN stream
  BY <1>1
<1> QED
  BY <1>2, <1>3

LEMMA FramedSend ==
  ASSUME StreamAssumption, TypeOK, FramedUnlessCut, NEW size \in Sizes, send_frame(size)
  PROVE  FramedUnlessCut'
<1>1. Queued'
  BY QueuedStep DEF Next, FramedUnlessCut
<1>2. frames \in Nat /\ frames' = frames + 1 /\ handed \in Int /\ UNCHANGED <<handed, overran, conn, socket>>
  BY DEF TypeOK, send_frame, link, Junk
<1>3. handed' <= frames'
  BY <1>2 DEF FramedUnlessCut
<1>4. client \in 0..conn /\ conn \in Nat /\ client # NoClient
  BY DEF TypeOK, send_frame
<1>5. HeaderSize + size \in Nat
  BY DEF StreamAssumption
<1>6. CASE stream' = stream
  <2>1. \A i \in DOMAIN stream : stream[i].of \in Nat
    <3>1. stream \in Seq(Cells) /\ DOMAIN stream = 1..Len(stream)
      BY LenProperties DEF TypeOK
    <3>2. \A i \in DOMAIN stream : stream[i] \in Cells
      BY <3>1, ElementOfSeq
    <3> QED
      BY <3>2 DEF Cells
  <2>2. \A i \in DOMAIN stream' : stream'[i].of <= frames'
    BY <1>2, <1>6, <2>1 DEF FramedUnlessCut
  <2>3. Written' => Written
    <3>1. client' \in {client, NoClient} /\ UNCHANGED backlog
      BY DEF send_frame, HalfSent
    <3>2. Linked' = Linked /\ Waiting(conn)' = Waiting(conn)
      BY <1>2, <3>1 DEF Linked, Waiting
    <3>3. client' = conn => client = conn
      BY <1>4, <3>1 DEF NoClient
    <3> QED
      BY <1>2, <3>2, <3>3 DEF Written
  <2>4. overran \/ Framed'
    BY <1>2, <1>6, <2>3, SameFramed DEF FramedUnlessCut
  <2> QED
    BY <1>1, <1>2, <1>3, <2>2, <2>4 DEF FramedUnlessCut
<1>7. ASSUME NEW k \in 0..(HeaderSize + size), Serves(client),
             stream' = stream \o SubSeq(Packet(frames + 1, size), 1, k),
             k = HeaderSize + size \/ client' = NoClient
      PROVE  FramedUnlessCut'
  <2>1. Written
    BY <1>7 DEF Serves, Written
  <2>2. Written' => k = HeaderSize + size
    <3> SUFFICES ASSUME client' = NoClient PROVE ~Written'
      BY <1>7
    <3>1. conn' = client /\ client # 0 /\ UNCHANGED backlog
      BY <1>2, <1>4, <1>7 DEF Serves, send_frame, NoClient
    <3>2. ~Waiting(conn)'
      <4>1. \A m \in DOMAIN backlog : backlog[m] # client
        BY <1>1, <1>4, ElementOfSeq, LenProperties DEF FramedUnlessCut, Queued, TypeOK
      <4> QED
        BY <3>1, <4>1 DEF Waiting
    <3> QED
      BY <3>1, <3>2 DEF Written, NoClient
  <2>3. CASE Framed
    <3>1. Framed' /\ \A i \in DOMAIN stream' : stream'[i].of <= frames + 1
      BY <1>2, <1>7, <2>1, <2>2, <2>3, SentFramed, SentNumbers DEF FramedUnlessCut
    <3> QED
      BY <1>1, <1>2, <1>3, <3>1 DEF FramedUnlessCut
  <2>4. CASE overran
    <3>1. \A i \in DOMAIN stream' : stream'[i].of <= frames + 1
      BY <1>2, <1>7, SentNumbers DEF FramedUnlessCut
    <3> QED
      BY <1>1, <1>2, <1>3, <2>4, <3>1 DEF FramedUnlessCut
  <2> QED
    BY <2>3, <2>4 DEF FramedUnlessCut
<1>8. CASE stream' = (IF Serves(client) THEN stream \o Packet(frames', size) ELSE stream)
  <2>1. CASE Serves(client)
    <3>1. stream' = stream \o SubSeq(Packet(frames + 1, size), 1, HeaderSize + size)
      <4>1. frames + 1 \in Nat
        BY <1>2
      <4> QED
        BY <1>2, <1>8, <2>1, <4>1, WholePacket
    <3>2. HeaderSize + size \in 0..(HeaderSize + size)
      BY <1>5
    <3> QED
      BY <1>7, <2>1, <3>1, <3>2
  <2> QED
    BY <1>6, <1>8, <2>1
<1>9. CASE HalfSent(Packet(frames', size))
  <2>1. PICK k \in 0..(Len(Packet(frames', size)) - 1) :
          stream' = IF Serves(client) THEN stream \o SubSeq(Packet(frames', size), 1, k) ELSE stream
    BY <1>9 DEF HalfSent
  <2>2. Len(Packet(frames', size)) = HeaderSize + size
    <3>1. frames' \in Nat
      BY <1>2
    <3> QED
      BY <3>1, PacketFacts
  <2>3. k \in 0..(HeaderSize + size) /\ client' = NoClient
    BY <1>5, <1>9, <2>1, <2>2 DEF HalfSent
  <2> QED
    BY <1>2, <1>6, <1>7, <2>1, <2>3
<1> QED
  BY <1>8, <1>9 DEF send_frame

LEMMA FramedParse ==
  ASSUME StreamAssumption, TypeOK, FramedUnlessCut, parseBuffer
  PROVE  FramedUnlessCut' /\ (handed' # handed /\ ~overran => handed' > handed)
<1>1. Queued'
  BY QueuedStep DEF Next, FramedUnlessCut
<1>2. /\ UNCHANGED <<client, backlog, conn, socket, overran, frames>>
      /\ Len(stream) \in Nat /\ DOMAIN stream = 1..Len(stream) /\ got \in 0..Len(stream)
      /\ HeaderSize \in Nat \ {0} /\ MaxSize \in Nat /\ Sizes \subseteq 0..MaxSize
      /\ frames \in Nat /\ handed \in Int /\ stream \in Seq(Cells)
  BY LenProperties DEF parseBuffer, server, link, TypeOK, StreamAssumption, Junk
<1>3. Written' = Written
  BY <1>2 DEF Written, Linked, Waiting
<1>4. CASE UNCHANGED <<bytes, handed>>
  <2>1. overran \/ Framed'
    BY <1>3, <1>4, SameFramed DEF FramedUnlessCut, bytes
  <2> QED
    BY <1>1, <1>2, <1>4, <2>1 DEF FramedUnlessCut, bytes
<1>5. ASSUME NEW size \in Claimed, Unpack(size), got >= HeaderSize
      PROVE  FramedUnlessCut' /\ (handed' # handed /\ ~overran => handed' > handed)
  <2>1. CASE Framed
    <3>1. /\ stream[1] \in Cells /\ 1 \in Starts /\ 1 \in DOMAIN stream /\ size = stream[1].size
          /\ (HeaderSize + size <= got => Handed(size) = stream[1].of)
      <4>1. /\ stream[1] \in Cells /\ 1 \in Starts /\ 1 \in DOMAIN stream
            /\ Claimed = {stream[1].size}
            /\ HeaderSize + stream[1].size <= got => Handed(stream[1].size) = stream[1].of
        BY <1>5, <2>1, HeadIsPacket
      <4>2. size = stream[1].size
        BY <4>1
      <4> QED
        BY <4>1, <4>2
    <3>2. stream[1].size \in Nat /\ stream[1].of \in Nat
      <4>1. stream[1].size \in Sizes /\ stream[1].of \in Nat
        BY <3>1 DEF Cells
      <4>2. \A x \in Sizes : x \in Nat
        BY <1>2
      <4> QED
        BY <4>1, <4>2
    <3>3. got >= HeaderSize + size /\ HeaderSize + size \in 0..Len(stream) /\ HeaderSize + size <= got
      BY <1>2, <1>5, <3>1, <3>2 DEF Unpack
    <3>4. handed' = stream[1].of /\ stream' = Drop(HeaderSize + stream[1].size)
      BY <1>5, <3>1, <3>3 DEF Unpack
    <3>5. Framed'
      BY <1>3, <1>5, <2>1, <3>1, <3>3, <3>4, RestFramed
    <3>6. \A i \in DOMAIN stream' : stream'[i].of <= frames'
      BY <1>2, <3>1, <3>3, <3>4, NumberedRest DEF FramedUnlessCut
    <3>7. handed' > handed /\ handed' <= frames'
      BY <1>2, <2>1, <3>1, <3>4 DEF FramedUnlessCut, Framed
    <3> QED
      BY <1>1, <3>5, <3>6, <3>7 DEF FramedUnlessCut
  <2>2. CASE overran
    <3>1. 1 \in 1..Len(stream)
      BY <1>2, <1>5
    <3>2. stream[1] \in Cells
      BY <1>2, <3>1, ElementOfSeq
    <3>3. stream[1].of \in Nat /\ stream[1].size \in Sizes
      BY <3>2 DEF Cells
    <3>4. size \in Nat
      <4>1. Claimed \subseteq {stream[1].size} \cup Sizes \cup {MaxSize + 1}
        BY DEF Claimed
      <4>2. Sizes \subseteq Nat /\ MaxSize + 1 \in Nat
        BY <1>2
      <4>3. size \in {stream[1].size} \cup Sizes \cup {MaxSize + 1}
        BY <4>1
      <4> QED
        BY <3>3, <4>2, <4>3
    <3>5. HeaderSize + size \in 0..Len(stream) /\ stream' = Drop(HeaderSize + size)
      BY <1>2, <1>5, <3>4 DEF Unpack
    <3>6. \A i \in DOMAIN stream' : stream'[i].of <= frames'
      BY <1>2, <3>5, NumberedRest DEF FramedUnlessCut
    <3>7. handed' <= frames'
      <4>1. handed' = stream[1].of \/ handed' = Junk
        BY <1>5 DEF Unpack, Handed
      <4> QED
        BY <1>2, <3>1, <4>1 DEF FramedUnlessCut, Junk
    <3> QED
      BY <1>1, <1>2, <2>2, <3>6, <3>7 DEF FramedUnlessCut
  <2> QED
    BY <2>1, <2>2 DEF FramedUnlessCut
<1>6. ASSUME NEW size \in Claimed, size > MaxSize, got >= HeaderSize,
             stream' = Drop(got), UNCHANGED handed
      PROVE  FramedUnlessCut'
  <2>1. ~Framed
    <3> SUFFICES ASSUME Framed PROVE FALSE
      OBVIOUS
    <3>1. size \in Sizes
      BY <1>6, HeadIsPacket
    <3> QED
      BY <1>2, <1>6, <3>1
  <2>2. overran
    BY <2>1 DEF FramedUnlessCut
  <2>3. \A i \in DOMAIN stream' : stream'[i].of <= frames'
    BY <1>2, <1>6, NumberedRest DEF FramedUnlessCut
  <2> QED
    BY <1>1, <1>2, <1>6, <2>2, <2>3 DEF FramedUnlessCut
<1> QED
  BY <1>2, <1>4, <1>5, <1>6 DEF parseBuffer, Unpack

LEMMA FramedRead ==
  ASSUME StreamAssumption, TypeOK, FramedUnlessCut, onReadyRead
  PROVE  FramedUnlessCut'
<1>1. Queued'
  BY QueuedStep DEF Next, FramedUnlessCut
<1>2. /\ UNCHANGED <<client, backlog, conn, socket, handed, frames>>
      /\ Len(stream) \in Nat /\ got \in 0..Len(stream)
  BY LenProperties DEF onReadyRead, server, link, TypeOK
<1>3. Written' = Written
  BY <1>2 DEF Written, Linked, Waiting
<1>4. PICK k \in 1..Chunk :
        /\ got + k <= Len(stream)
        /\ \/ stream' = Drop(got + k) /\ overran' = TRUE
           \/ UNCHANGED <<stream, overran>>
  BY DEF onReadyRead
<1>5. CASE stream' = Drop(got + k) /\ overran' = TRUE
  <2>1. got + k \in 0..Len(stream)
    BY <1>2, <1>4 DEF StreamAssumption
  <2>2. \A i \in DOMAIN stream' : stream'[i].of <= frames'
    BY <1>2, <1>5, <2>1, NumberedRest DEF FramedUnlessCut
  <2> QED
    BY <1>1, <1>2, <1>5, <2>2 DEF FramedUnlessCut
<1>6. CASE UNCHANGED <<stream, overran>>
  <2>1. overran \/ Framed'
    BY <1>2, <1>3, <1>6, SameFramed DEF FramedUnlessCut
  <2> QED
    BY <1>1, <1>2, <1>6, <2>1 DEF FramedUnlessCut
<1> QED
  BY <1>4, <1>5, <1>6

(* The bytes stay: only who serves the connection, or the socket, changes.    *)
LEMMA FramedStays ==
  ASSUME FramedUnlessCut, Queued', UNCHANGED <<stream, handed, overran, frames>>, Written' => Written
  PROVE  FramedUnlessCut'
<1>1. overran \/ Framed'
  BY SameFramed DEF FramedUnlessCut
<1> QED
  BY <1>1 DEF FramedUnlessCut

LEMMA FramedStep ==
  ASSUME StreamAssumption, TypeOK, FramedUnlessCut, [Next]_vars
  PROVE  FramedUnlessCut' /\ (handed' # handed /\ ~overran => handed' > handed)
<1>1. Queued'
  BY QueuedStep DEF FramedUnlessCut
<1>2. backlog \in Seq(1..conn) /\ conn \in Nat /\ client \in 0..conn /\ DOMAIN backlog = 1..Len(backlog)
  BY LenProperties DEF TypeOK
<1>3. CASE accept_client
  <2>1. /\ client' = Head(backlog) /\ backlog' = Tail(backlog) /\ backlog # <<>>
        /\ UNCHANGED <<socket, conn, stream, handed, overran, frames>>
    BY <1>3 DEF accept_client, link, bytes
  <2>2. /\ Len(backlog) \in Nat \ {0} /\ Head(backlog) = backlog[1]
        /\ DOMAIN backlog' = 1..(Len(backlog) - 1)
        /\ \A n \in 1..(Len(backlog) - 1) : backlog'[n] = backlog[n + 1]
    <3>1. /\ Len(backlog) \in Nat \ {0} /\ Head(backlog) = backlog[1]
          /\ backlog' \in Seq(1..conn) /\ Len(backlog') = Len(backlog) - 1
          /\ \A n \in 1..Len(backlog') : backlog'[n] = backlog[n + 1]
      BY <1>2, <2>1, HeadTailProperties, EmptySeq, LenProperties
    <3> QED
      BY <3>1, LenProperties
  <2>3. 1 \in DOMAIN backlog /\ \A n \in 1..(Len(backlog) - 1) : n + 1 \in DOMAIN backlog
    BY <1>2, <2>2
  <2>4. Written' => Written
    BY <2>1, <2>2, <2>3 DEF Written, Waiting, Linked
  <2> QED
    BY <1>1, <2>1, <2>4, FramedStays
<1>4. CASE receive_commands \/ JetsonRestarts
  <2>1. /\ client' = NoClient /\ UNCHANGED <<socket, conn, stream, handed, overran, frames>>
        /\ backlog' = backlog \/ backlog' = <<>>
    BY <1>4 DEF receive_commands, JetsonRestarts, link, bytes
  <2>2. Written' => Written
    <3>1. Waiting(conn)' => Waiting(conn)
      <4>1. CASE backlog' = backlog
        BY <2>1, <4>1 DEF Waiting
      <4>2. CASE backlog' = <<>>
        BY <4>2 DEF Waiting
      <4> QED
        BY <2>1, <4>1, <4>2
    <3>2. client' = conn' => client = conn
      BY <1>2, <2>1 DEF NoClient
    <3> QED
      BY <2>1, <3>1, <3>2 DEF Written, Linked
  <2> QED
    BY <1>1, <2>1, <2>2, FramedStays
<1>5. CASE onSocketError \/ onReconnectTimeout \/ UNCHANGED vars
  <2>1. /\ UNCHANGED <<client, backlog, conn, stream, handed, overran, frames>>
        /\ socket' = "Connected" => socket = "Connected"
    BY <1>5 DEF onSocketError, onReconnectTimeout, vars, server, link, bytes
  <2>2. Written' => Written
    BY <2>1 DEF Written, Waiting, Linked
  <2> QED
    BY <1>1, <2>1, <2>2, FramedStays
<1>6. CASE \E size \in Sizes : send_frame(size)
  <2>1. UNCHANGED handed
    BY <1>6 DEF send_frame
  <2> QED
    BY <1>6, <2>1, FramedSend
<1>7. CASE onSocketConnected
  <2>1. /\ UNCHANGED <<handed, frames>> /\ stream' = <<>> /\ DOMAIN stream' = {}
    BY <1>7 DEF onSocketConnected
  <2>2. Framed'
    BY <2>1 DEF Framed, Starts
  <2> QED
    BY <1>1, <2>1, <2>2 DEF FramedUnlessCut
<1>8. CASE onSocketDisconnected
  <2>1. UNCHANGED <<handed, frames, overran>> /\ stream' = SubSeq(stream, 1, got) /\ ~Written'
    BY <1>8 DEF onSocketDisconnected, Written, Linked
  <2>2. overran \/ Framed'
    BY <2>1, PrefixFramed DEF FramedUnlessCut
  <2>3. /\ DOMAIN stream' = 1..got /\ \A i \in 1..got : stream'[i] = stream[i] /\ i \in DOMAIN stream
    BY <2>1, PrefixFacts, LenProperties DEF TypeOK
  <2> QED
    BY <1>1, <2>1, <2>2, <2>3 DEF FramedUnlessCut
<1>9. CASE onReadyRead
  <2>1. UNCHANGED handed
    BY <1>9 DEF onReadyRead
  <2> QED
    BY <1>9, <2>1, FramedRead
<1>10. CASE parseBuffer
  BY <1>10, FramedParse
<1> QED
  BY <1>3, <1>4, <1>5, <1>6, <1>7, <1>8, <1>9, <1>10 DEF Next

(* Where packets start in what the connection carries, unless the buffer was  *)
(* cut on it, and that only a connection the Jetson has left ends inside one. *)
THEOREM StreamFramed == Spec => []FramedUnlessCut
<1>1. Init => FramedUnlessCut
  BY DEF Init, FramedUnlessCut, Framed, Queued, Starts, Written, Linked
<1>2. TypeOK /\ FramedUnlessCut /\ [Next]_vars => FramedUnlessCut'
  BY StreamAssumption, FramedStep
<1> QED
  BY <1>1, <1>2, StreamType, PTL DEF Spec

(* The decoders get whole packets, in the order they were sent and each at    *)
(* most once, unless the buffer was cut on this connection.                   *)
THEOREM StreamInOrder == Spec => UnpacksInOrder
<1>1. TypeOK /\ FramedUnlessCut /\ [Next]_vars => [handed' # handed /\ ~overran => handed' > handed]_vars
  BY StreamAssumption, FramedStep
<1> QED
  BY <1>1, StreamType, StreamFramed, PTL DEF Spec, UnpacksInOrder

(* A buffer that holds the largest packet and one more read is never cut:     *)
(* between reads less than a packet is left in it.                            *)
RoomLeft == ~overran /\ (~parsing => got < HeaderSize + MaxSize)

THEOREM NeverCut ==
  ASSUME HeaderSize + MaxSize + Chunk <= Capacity + 1
  PROVE  Spec => []~overran
<1>1. Init => RoomLeft
  BY StreamAssumption DEF StreamAssumption, Init, RoomLeft
<1>2. TypeOK /\ FramedUnlessCut /\ RoomLeft /\ [Next]_vars => RoomLeft'
  <2> SUFFICES ASSUME TypeOK, FramedUnlessCut, RoomLeft, [Next]_vars PROVE RoomLeft'
    OBVIOUS
  <2>1. /\ HeaderSize \in Nat \ {0} /\ MaxSize \in Nat /\ Sizes \subseteq 0..MaxSize
        /\ Chunk \in Nat /\ Capacity \in Nat /\ got \in Nat
    BY StreamAssumption, LenProperties DEF StreamAssumption, TypeOK
  <2>2. CASE onReadyRead
    <3>1. PICK k \in 1..Chunk :
            IF got + k > Capacity
            THEN overran' = TRUE
            ELSE parsing' = TRUE /\ UNCHANGED <<stream, overran>>
      BY <2>2 DEF onReadyRead
    <3>2. got + k <= Capacity
      BY <2>1, <2>2 DEF onReadyRead, RoomLeft
    <3> QED
      BY <2>1, <3>1, <3>2 DEF RoomLeft
  <2>3. CASE parseBuffer
    <3>1. CASE got < HeaderSize /\ UNCHANGED bytes
      BY <2>1, <2>3, <3>1 DEF parseBuffer, bytes, RoomLeft
    <3>2. ASSUME NEW size \in Claimed, got < HeaderSize + size, got >= HeaderSize, UNCHANGED bytes PROVE RoomLeft'
      <4>1. size \in Sizes
        BY <3>2, HeadIsPacket, StreamAssumption DEF FramedUnlessCut, RoomLeft
      <4>2. size \in 0..MaxSize
        BY <2>1, <4>1
      <4> QED
        BY <2>1, <2>3, <3>2, <4>2 DEF parseBuffer, bytes, RoomLeft
    <3>3. CASE parsing' = TRUE \/ got' = 0
      BY <2>1, <2>3, <3>3 DEF parseBuffer, RoomLeft
    <3>4. \A size : Unpack(size) => parsing' = TRUE
      BY <2>3 DEF Unpack, parseBuffer, TypeOK
    <3> QED
      BY <2>3, <3>1, <3>2, <3>3, <3>4 DEF parseBuffer
  <2>4. CASE onSocketConnected
    BY <2>1, <2>4 DEF onSocketConnected, RoomLeft
  <2>5. CASE UNCHANGED <<got, parsing, overran>>
    BY <2>5 DEF RoomLeft
  <2> QED
    BY <2>2, <2>3, <2>4, <2>5 DEF Next, vars, bytes, accept_client, receive_commands, send_frame,
       JetsonRestarts, onSocketError, onSocketDisconnected, onReconnectTimeout
<1>3. RoomLeft => ~overran
  BY DEF RoomLeft
<1> QED
  BY <1>1, <1>2, <1>3, StreamType, StreamFramed, PTL DEF Spec
=============================================================================
