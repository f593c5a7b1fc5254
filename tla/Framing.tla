------------------------------ MODULE Framing ------------------------------
(***************************************************************************)
(* NetProtocol over a connection: one side writes packets of an id, a      *)
(* length and an encoded message; TCP hands the other side the bytes in    *)
(* pieces cut anywhere; Reactor::onSocketRead reads what is there, piece   *)
(* by piece, and calls GameServer::onRecvMessage, which decodes packets    *)
(* until one is incomplete or wrong.  Messages of id 1 hold an INT16V,     *)
(* those of id 2 a string, and no other id is registered.                  *)
(*                                                                         *)
(* A definition introduced by "Slip" is a plausible mistake in the         *)
(* operation that follows it and is not part of the specification.         *)
(***************************************************************************)
EXTENDS Exchange

CONSTANTS MaxPacket,   \* max_packet_length_ of the receiver
          EncodeSize,  \* size of the sender's encode_buffer_
          MaxRecv,     \* conn_read_buffer_max_size_
          MaxSends     \* bound: packets sent

Number(n) == [id |-> 1, val |-> <<n>>]
Text(n) == [id |-> 2, val |-> [i \in 1 .. n |-> 1]]
Stranger == [id |-> 3, val |-> <<0>>]
Messages == {Number(1), Number(Byte - 1), Text(0), Text(3), Text(4), Stranger}

VARIABLES
  wire,     \* bytes sent and not read
  hung_up,  \* the sender has closed
  buffer,   \* the connection's read buffer
  sent,     \* messages whose writeMessage succeeded
  got,      \* messages the receiver has decoded
  status    \* "open", "err", "overflow" or "peer_closed"

vars == <<wire, hung_up, buffer, sent, got, status>>

Init == /\ wire = << >> /\ buffer = << >> /\ hung_up = FALSE
        /\ sent = << >> /\ got = << >> /\ status = "open"

----------------------------------------------------------------------------
(* writeMessage: the id, two bytes left free for the length, the message,
   then the length. *)
Encode(w, m) == IF m.id = 2 THEN PutString(w, m.val) ELSE Put16V(w, m.val[1])

Packet(m) ==
  LET head == Put(Writer(EncodeSize), 2, m.id)
      body == Encode(Writer(head.left - 2), m)
  IN [ok |-> body.ok, bytes |-> Put(head, 2, Len(body.out)).out \o body.out]

WriteMessage(m) ==
  /\ ~hung_up /\ Len(sent) < MaxSends
  /\ Packet(m).ok
  /\ wire' = wire \o Packet(m).bytes
  /\ sent' = Append(sent, m)
  /\ UNCHANGED <<hung_up, buffer, got, status>>

HangUp == /\ ~hung_up /\ hung_up' = TRUE
          /\ UNCHANGED <<wire, buffer, sent, got, status>>

----------------------------------------------------------------------------
(* Slip: a packet of exactly the limit is refused. *)
TooLongBody(length) == length + 4 >= MaxPacket

TooLong(length) == length + 4 > MaxPacket

(* Slip: the packet is whole only when more follows. *)
WholeWithMore(b, length) == Len(b) > length + 4

Whole(b, length) == Len(b) >= length + 4

Decode(id, body) == LET number == Get16V(Reader(body)) IN
  IF id = 2 THEN GetString(Reader(body)) ELSE [number EXCEPT !.val = <<@>>]

(* recvMessage on the bytes b: the result and the bytes left. *)
RecvMessage(b) ==
  LET head == Get(Reader(b), 2)
      size == Get(head, 2)
      body == SubSeq(b, 5, 4 + size.val)
  IN IF ~head.ok \/ ~size.ok THEN [ret |-> "waiting"]
     ELSE IF TooLong(size.val) THEN [ret |-> "err"]
     ELSE IF ~Whole(b, size.val) THEN [ret |-> "waiting"]
     ELSE IF head.val \notin {1, 2} \/ ~Decode(head.val, body).ok THEN [ret |-> "err"]
     ELSE [ret |-> "ready",
           message |-> [id |-> head.val, val |-> Decode(head.val, body).val],
           rest |-> SubSeq(b, size.val + 5, Len(b))]

(* Slip: the last message decoded is handed over first. *)
HandOverFirst(messages, m) == <<m>> \o messages

(* new_net_cmd: into the main thread's queue. *)
HandOver(messages, m) == Append(messages, m)

(* onRecvMessage: until there is no whole packet. *)
RECURSIVE Received(_, _)
Received(b, messages) ==
  LET r == RecvMessage(b) IN
  IF r.ret = "ready" THEN Received(r.rest, HandOver(messages, r.message))
  ELSE [messages |-> messages, rest |-> b, ret |-> r.ret]

(* Slip: a buffer filled to its limit counts as overflown. *)
OverflowsFull(size) == size >= MaxRecv

Overflows(size) == size > MaxRecv

(* onSocketRead: pieces as long as there are some and they fit; what does
   not fit, or the end of the stream, closes the connection after what was
   read has been handled. *)
Read(n) ==
  LET bytes == buffer \o SubSeq(wire, 1, n)
      decoded == Received(bytes, << >>)
  IN
  /\ status = "open"
  /\ n <= Len(wire) /\ ~Overflows(Len(bytes))
  /\ wire' = SubSeq(wire, n + 1, Len(wire))
  /\ got' = IF n = 0 THEN got ELSE got \o decoded.messages
  /\ buffer' = IF n = 0 THEN buffer ELSE decoded.rest
  /\ \/ n > 0 /\ decoded.ret = "err" /\ status' = "err"
     \/ /\ decoded.ret # "err" \/ n = 0
        /\ \/ /\ n > 0 /\ status' = status
           \/ n < Len(wire) /\ Overflows(Len(buffer) + Len(wire)) /\ status' = "overflow"
           \/ n = Len(wire) /\ hung_up /\ status' = "peer_closed"
  /\ UNCHANGED <<hung_up, sent>>

Next == \/ HangUp
        \/ \E m \in Messages : WriteMessage(m)
        \/ \E n \in 0 .. Len(wire) : Read(n)
Spec == Init /\ [][Next]_vars

----------------------------------------------------------------------------
(* However the stream is cut, the messages decoded are the first ones sent,
   each once and with its content. *)
ReceivedInOrder == Len(got) <= Len(sent) /\ got = SubSeq(sent, 1, Len(got))

(* A message whose last byte has been read is decoded by then: none waits
   in the buffer for the next packet to push it out. *)
NothingHeldBack == status \in {"open", "peer_closed"} /\ wire = << >> => got = sent

(* Whatever writeMessage accepts, recvMessage accepts: only a message nobody
   registered closes the connection. *)
OnlyStrangersClose ==
  status = "err" => Len(got) < Len(sent) /\ sent[Len(got) + 1] = Stranger

(* The read buffer has room for two packets of the largest size. *)
OverflowIsABurst ==
  [][status' = "overflow" => Len(sent) - Len(got) > 2]_status
=============================================================================
