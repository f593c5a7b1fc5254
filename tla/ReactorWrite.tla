---------------------------- MODULE ReactorWrite ----------------------------
(***************************************************************************)
(* The write path of one TcpConnection (net/reactor.cc): sendMessage writes *)
(* to the non-blocking socket while the write buffer is empty and buffers  *)
(* the rest; onSocketWrite flushes the buffer when epoll reports EPOLLOUT. *)
(* The interest mask of the socket is the one computed when it was added   *)
(* to epoll: setWriteCallback only stores the callback, and                *)
(* Epoller::update, which would recompute the mask, has no caller.         *)
(*                                                                         *)
(* A byte is its position in the stream of all messages sent on the        *)
(* connection, so that lost, repeated and reordered bytes show.            *)
(*                                                                         *)
(* A definition introduced by "Slip" is not part of the specification: it  *)
(* is a plausible mistake in the operation that follows it, kept to show   *)
(* that a property notices it.                                             *)
(***************************************************************************)
EXTENDS Naturals, Sequences

CONSTANTS MaxStream,   \* bound: bytes of all messages sent
          MaxSize,     \* largest message
          KernelSize,  \* room in the socket's send buffer
          WriteMax     \* conn_write_buffer_max_size_, 0 for no limit

VARIABLES stream,    \* bytes of the messages sendMessage was called with
          buffer,    \* write_buffer_
          kernel,    \* bytes in the socket's send buffer
          wire,      \* bytes the peer has read
          status,    \* "connected", "pending_error" or "none" (closed)
          callback,  \* whether the socket has a write callback
          mask       \* events the socket is registered for

vars == <<stream, buffer, kernel, wire, status, callback, mask>>

(* Epoller::add on a socket with read and error callbacks only. *)
AddMask(has_callback) == {"IN"} \cup (IF has_callback THEN {"OUT"} ELSE {})

Init == /\ stream = 0
        /\ buffer = << >> /\ kernel = << >> /\ wire = << >>
        /\ status = "connected"
        /\ callback = FALSE
        /\ mask = AddMask(FALSE)

Bytes(first, n) == [i \in 1 .. n |-> first + i]
Room == KernelSize - Len(kernel)

(* What ::send of n bytes takes without blocking; 0 is EAGAIN. *)
Written(n) == IF n <= Room THEN n ELSE Room

(* Slip: the limit is compared with the new bytes only. *)
NoBuffersNewOnly(rest) == WriteMax > 0 /\ rest > WriteMax

(* The write buffer has no room for the rest of a message: ENOBUFS. *)
NoBuffers(rest) == WriteMax > 0 /\ rest + Len(buffer) > WriteMax

(* Slip: a partly written message is buffered as a whole. *)
DeferredWhole(size, written) == Bytes(stream, size)

(* What is buffered when written of size bytes could be sent.  The copy
   starts at the beginning of the message (line 382), not at its unsent
   part. *)
Deferred(size, written) == Bytes(stream, size - written)

(* Slip: the socket is tried first even when bytes are buffered. *)
SendDirectAlways(size) == Written(size)

(* The bytes sent directly: none while earlier ones are buffered. *)
SendDirect(size) == IF buffer = << >> THEN Written(size) ELSE 0

(* Reactor::sendMessage.  A full buffer makes the connection PENDING_ERROR
   and starts the timer that closes it. *)
SendMessage(size) ==
  LET written == SendDirect(size)
      rest    == size - written
  IN  /\ status = "connected"
      /\ stream + size <= MaxStream
      /\ stream' = stream + size
      /\ kernel' = kernel \o Bytes(stream, written)
      /\ IF rest = 0 THEN UNCHANGED <<buffer, callback, status>>
         ELSE IF NoBuffers(rest)
         THEN /\ status' = "pending_error"
              /\ UNCHANGED <<buffer, callback>>
         ELSE /\ buffer' = buffer \o Deferred(size, written)
              /\ callback' = TRUE
              /\ UNCHANGED status
      /\ UNCHANGED <<wire, mask>>

(* Reactor::sendMessage when the direct ::send fails with something other
   than EAGAIN. *)
SendError(size) ==
  /\ status = "connected"
  /\ buffer = << >>
  /\ stream + size <= MaxStream
  /\ stream' = stream + size
  /\ status' = "pending_error"
  /\ UNCHANGED <<buffer, kernel, wire, callback, mask>>

(* onSendMessageError closes the connection; its buffers go with it. *)
SendMessageError ==
  /\ status = "pending_error"
  /\ status' = "none"
  /\ buffer' = << >>
  /\ callback' = FALSE
  /\ mask' = {}
  /\ UNCHANGED <<stream, kernel, wire>>

(* onSocketWrite, called for EPOLLOUT, which epoll reports only if it is in
   the mask.  When the buffer is empty the callback is taken away; a failed
   ::send closes the connection. *)
OnSocketWrite ==
  /\ "OUT" \in mask
  /\ callback
  /\ Room > 0
  /\ \/ LET n == Written(Len(buffer)) IN
          /\ kernel' = kernel \o SubSeq(buffer, 1, n)
          /\ buffer' = SubSeq(buffer, n + 1, Len(buffer))
          /\ callback' = (n < Len(buffer))
          /\ UNCHANGED <<status, mask>>
     \/ /\ status' = "none"
        /\ buffer' = << >>
        /\ callback' = FALSE
        /\ mask' = {}
        /\ UNCHANGED kernel
  /\ UNCHANGED <<stream, wire>>

(* The peer reads (external). *)
PeerReads ==
  /\ kernel # << >>
  /\ \E n \in 1 .. Len(kernel) :
       /\ wire' = wire \o SubSeq(kernel, 1, n)
       /\ kernel' = SubSeq(kernel, n + 1, Len(kernel))
  /\ UNCHANGED <<stream, buffer, status, callback, mask>>

Next == \/ \E size \in 1 .. MaxSize : SendMessage(size) \/ SendError(size)
        \/ SendMessageError
        \/ PeerReads

Spec == Init /\ [][Next]_vars

(* With the handler of write events, a reactor that keeps polling and a peer
   that keeps reading. *)
WriteSpec == /\ Init
             /\ [][Next \/ OnSocketWrite]_vars
             /\ WF_vars(OnSocketWrite) /\ WF_vars(SendMessageError) /\ WF_vars(PeerReads)

----------------------------------------------------------------------------
(* Every variable stays in its domain; the write buffer never exceeds its
   limit and the socket's send buffer never its size. *)
TypeOK ==
  /\ stream \in 0 .. MaxStream
  /\ \A s \in {buffer, kernel, wire} : s \in Seq(1 .. MaxStream)
  /\ Len(kernel) <= KernelSize
  /\ WriteMax > 0 => Len(buffer) <= WriteMax
  /\ status \in {"connected", "pending_error", "none"}
  /\ callback \in BOOLEAN
  /\ mask \subseteq {"IN", "OUT"}

(* The peer only ever receives a prefix of the stream the application sent:
   no message overtakes one that is partly buffered. *)
WireIsPrefix == wire \o kernel = Bytes(0, Len(wire) + Len(kernel))

(* On a healthy connection every byte of every message is accounted for: in
   the peer, in the kernel or in the write buffer. *)
NothingMisplaced ==
  status = "connected" => Len(wire) + Len(kernel) + Len(buffer) = stream

(* "Stuff it into the buffer" (reactor.cc:371): what could not be sent
   directly is what is buffered. *)
RestIsBuffered ==
  status = "connected" => wire \o kernel \o buffer = Bytes(0, stream)

(* "Under linux epoll monitors write events" (net_thread.cc:68): buffered
   bytes are flushed, or the connection ends. *)
Flushed == buffer # << >> ~> buffer = << >>
=============================================================================
