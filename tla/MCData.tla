------------------------------- MODULE MCData -------------------------------
(* The data structures of one thread: the exchange encoding, packet framing
   and the timer heap, as the reactors use it, which only add timers, and with
   callbacks that add and remove them.  They share no state, so interleaving them would show nothing new: a
   behaviour picks one of them, and `part' says which. *)
EXTENDS MCTimerHeap

VARIABLES
  part,
  phase, kind, value, room, code, cut, read,               \* MCExchange
  packets, hung_up, received, sent, got, connection        \* Framing

codecVars   == <<phase, kind, value, room, code, cut, read>>
framingVars == <<packets, hung_up, received, sent, got, connection>>
timerVars   == <<removes, vars>>

Codec == INSTANCE MCExchange WITH wire <- code, got <- read, Byte <- 8
Frames == INSTANCE Framing WITH
  wire <- packets, buffer <- received, status <- connection,
  Byte <- 8, MaxPacket <- 8, EncodeSize <- 8, MaxRecv <- 16, MaxSends <- 3

(* A timer without a timeout that is called once, and one that is called every
   millisecond, for ever. *)
SomeAsks == {<<-1, 1>>, <<1, -1>>}

(* A part that is not picked rests in one of its initial states. *)
DataInit ==
  /\ part \in {"codec", "framing", "timers"}
  /\ Frames!Init
  /\ HeapInit /\ (part # "timers" => ~removes)
  /\ IF part = "codec" THEN Codec!Init
     ELSE /\ phase = "begin" /\ kind = "none" /\ value = 0 /\ room = 0
          /\ code = 0 /\ cut = 0 /\ read = 0

DataNext ==
  /\ part' = part
  /\ \/ part = "codec" /\ Codec!Next /\ UNCHANGED <<framingVars, timerVars>>
     \/ part = "framing" /\ Frames!Next /\ UNCHANGED <<codecVars, timerVars>>
     \/ part = "timers" /\ HeapNext /\ UNCHANGED <<codecVars, framingVars>>

(* At rest the timers have no step that fairness could ask for. *)
DataSpec == /\ DataInit
            /\ [][DataNext]_<<part, codecVars, framingVars, timerVars>>
            /\ HeapFairness

-----------------------------------------------------------------------------
(* The READ macros give back what the WRITE macros wrote, refuse a value cut
   short anywhere, and the WRITE macros fail only for want of room. *)
EncodingSound == Codec!ReadsBack /\ Codec!CutIsRefused /\ Codec!RoomIsEnough

(* However the stream is cut, recvMessage finds the messages sent, each once,
   in order, and as soon as its last byte is there; only a message nobody
   registered is refused, and only more than two packets overflow. *)
FramingSound ==
  /\ [](Frames!ReceivedInOrder /\ Frames!NothingHeldBack /\ Frames!OnlyStrangersClose)
  /\ Frames!OverflowIsABurst
=============================================================================
