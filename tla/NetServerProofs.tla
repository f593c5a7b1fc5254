--------------------------- MODULE NetServerProofs ---------------------------
(***************************************************************************)
(* NetServer for any number of connections and net threads: types, the     *)
(* consistency of a reactor's maps, one report per ended connection, the   *)
(* agreement of connection_infos_ with the reactors, the spread of         *)
(* connections over the net threads, and the order of the packets from the *)
(* kernel to the handlers.                                                 *)
(***************************************************************************)
EXTENDS NetServer, QueueFacts, FiniteSetTheorems, TLAPS

----------------------------------------------------------------------------
(* The inductive invariant, in three layers.  The first is about who owns
   what. *)

(* The connection being accepted has no net thread, the one being attached
   has. *)
AttachOwner ==
  /\ acc.pc = "scan" => owner[acc.conn] = NoThread
  /\ acc.pc \in {"register", "sockets", "connections", "announce"} =>
        owner[acc.conn] \in Threads

(* Connections the main thread cannot have heard of. *)
Unannounced(c) == \/ owner[c] = NoThread
                  \/ /\ acc.pc \in {"register", "sockets", "connections", "announce"}
                     /\ acc.conn = c

(* The main thread has no entry for a connection it has not heard of. *)
EntryIsKnown == infos \subseteq known

HeardLater == \A c \in Conns : Unannounced(c) => c \notin known /\ ~InClient(New(c))

(* A command goes to the net thread of its connection. *)
OwnCommands == \A t \in Threads : \A i \in 1 .. Len(command[t]) :
                  command[t][i].type # "BROADCAST" => owner[command[t][i].id] = t

(* NEW is pushed by the acceptor only. *)
NoNewInOutbox == \A t \in Threads : \A i \in 1 .. Len(outbox[t]) : outbox[t][i].type # "NEW"

RouteInv == AttachOwner /\ EntryIsKnown /\ HeardLater /\ OwnCommands /\ NoNewInOutbox

----------------------------------------------------------------------------
(* The second layer is about the reactors. *)

(* Where the socket being attached is. *)
AttachState ==
  /\ acc.pc \in {"register", "sockets", "connections"} =>
        /\ status[acc.conn] = "none"
        /\ closes[acc.conn] = 0
  /\ acc.pc = "register" => acc.conn \notin registered /\ acc.conn \notin sockets
  /\ acc.pc = "sockets" => acc.conn \in registered /\ acc.conn \notin sockets
  /\ acc.pc = "connections" => acc.conn \in registered /\ acc.conn \in sockets

(* A connection without a net thread is nowhere in the reactors. *)
Unattached == \A c \in Conns : owner[c] = NoThread =>
                /\ c \notin registered /\ c \notin sockets
                /\ status[c] = "none"
                /\ closes[c] = 0

(* A running handler works on a live connection of its own thread, and
   closes it last. *)
RunningHandler == \A t \in Threads : \A i \in 1 .. Len(outbox[t]) :
                    /\ owner[outbox[t][i].id] = t
                    /\ status[outbox[t][i].id] # "none"
                    /\ outbox[t][i].type = "CLOSE" => i = Len(outbox[t])

ReactorInv == /\ AttachState
              /\ Unattached
              /\ MapsAgree
              /\ CloseReportedOnce
              /\ PendingErrorHasTimer
              /\ RunningHandler

----------------------------------------------------------------------------
(* The third layer is about the main thread. *)

(* NEW is heard once. *)
NewOnce ==
  /\ \A c \in known : ~InClient(New(c))
  /\ \A c \in Conns : \A i, j \in 1 .. Len(client) :
        (client[i] = New(c) /\ client[j] = New(c)) => i = j

(* A CLOSE on its way up has been counted. *)
CloseIsCounted == \A c \in Conns : InClient(Close(c)) => closes[c] > 0

(* A CLOSE on its way down was asked for by disconnect. *)
CloseWasAsked == \A t \in Threads : \A i \in 1 .. Len(command[t]) :
                    command[t][i].type = "CLOSE" => command[t][i].id \in disconnected

(* The main thread's own books. *)
MainBooks == /\ disconnected \subseteq known
             /\ infos \cap disconnected = {}

(* A NEW still queued is about a live connection, or its CLOSE comes later. *)
NewIsLive == \A c \in Conns : \A i \in 1 .. Len(client) : client[i] = New(c) =>
                \/ status[c] # "none"
                \/ \E j \in 1 .. Len(client) : i < j /\ client[j] = Close(c)
                \/ c \in orphans

MainInv == /\ NewOnce
           /\ CloseIsCounted
           /\ CloseWasAsked
           /\ MainBooks
           /\ NewIsLive
           /\ LiveIsKnown
           /\ EntryIsLive

IInv == TypeOK /\ RouteInv /\ ReactorInv /\ MainInv

----------------------------------------------------------------------------
(* Types. *)

(* The NetCommands the code builds are commands of their queues. *)
LEMMA CommandTypes ==
  ASSUME NEW c \in Conns
  PROVE  /\ New(c) \in UpCommand
         /\ Close(c) \in UpCommand
         /\ \A n \in 1 .. MaxMsgs : Message(c, n) \in UpCommand
         /\ \A type \in {"MESSAGE", "CLOSE", "ENABLE_BROADCAST", "DISABLE_BROADCAST"} :
               [type |-> type, id |-> c] \in DownCommand
         /\ [type |-> "BROADCAST"] \in DownCommand
BY DEF New, Close, Message, UpCommand, DownCommand

(* What is known of acc while a socket is being attached. *)
LEMMA AccFacts ==
  ASSUME TypeOK
  PROVE  /\ acc.pc \in {"accept", "scan", "register", "sockets", "connections", "announce"}
         /\ acc.pc # "accept" => acc.conn \in Conns
         /\ acc.pc = "scan" => /\ acc.next \in 1 .. NumThreads
                              /\ acc.best \in Threads /\ acc.least \in Nat
                              /\ acc \in [pc : {"scan"}, conn : Conns, next : 1 .. NumThreads,
                                          best : Threads, least : Nat]
         /\ acc.pc \in {"register", "sockets", "connections", "announce"} =>
               acc \in [pc : {"register", "sockets", "connections", "announce"}, conn : Conns]
<1>1. acc \in AccType BY DEF TypeOK
<1>2. CASE acc = AccIdle BY <1>2 DEF AccIdle
<1>3. CASE acc \in [pc : {"scan"}, conn : Conns, next : 1 .. NumThreads, best : Threads, least : Nat]
  BY <1>3
<1>4. CASE acc \in [pc : {"register", "sockets", "connections", "announce"}, conn : Conns]
  BY <1>4
<1> QED BY <1>1, <1>2, <1>3, <1>4 DEF AccType

(* The server starts in the types. *)
LEMMA InitType == Init => TypeOK
BY ThreadsAssumption, BoundsAssumption DEF Init, TypeOK, AccType, AccIdle

(* getConnectionNum is a number. *)
LEMMA ConnectionNumType == \A t : ConnectionNum(t) \in Nat
<1> SUFFICES ASSUME NEW t PROVE ConnectionNum(t) \in Nat OBVIOUS
<1>1. IsFiniteSet({c \in Conns : owner[c] = t /\ status[c] # "none"})
  BY ConnsAssumption, FS_Subset
<1> QED BY <1>1, FS_CardinalityType DEF ConnectionNum

(* The clients keep the types. *)
LEMMA ClientsType == TypeOK /\ Clients => TypeOK'
<1> SUFFICES ASSUME TypeOK, Clients PROVE TypeOK' OBVIOUS
<1> USE DEF TypeOK, peerVars, accVars, mapVars, netVars, mainVars
<1>1. ASSUME NEW c \in Conns, Connect(c) PROVE TypeOK' BY <1>1 DEF Connect
<1>2. ASSUME NEW c \in Conns, SendPacket(c) PROVE TypeOK'
  <2>1. PICK packet \in {0, sent[c] + 1} : inb' = [inb EXCEPT ![c] = Append(@, packet)]
    BY <1>2 DEF SendPacket
  <2>2. sent[c] + 1 \in 1 .. MaxMsgs BY <1>2, BoundsAssumption DEF SendPacket
  <2>3. packet \in 0 .. MaxMsgs BY <2>1, <2>2, BoundsAssumption
  <2>4. inb' \in [Conns -> Seq(0 .. MaxMsgs)] BY <2>1, <2>3
  <2>5. sent' \in [Conns -> 0 .. MaxMsgs] BY <1>2, <2>2, BoundsAssumption DEF SendPacket
  <2> QED BY <1>2, <2>4, <2>5 DEF SendPacket
<1>3. ASSUME NEW c \in Conns, Hangup(c) PROVE TypeOK' BY <1>3 DEF Hangup
<1> QED BY <1>1, <1>2, <1>3 DEF Clients

(* onNewConnCallback keeps the types. *)
LEMMA AcceptorType == TypeOK /\ Acceptor => TypeOK'
<1> SUFFICES ASSUME TypeOK, Acceptor PROVE TypeOK' OBVIOUS
<1> USE AccFacts, ThreadsAssumption, ConnectionNumType
<1> USE DEF peerVars, accVars, mapVars, netVars, mainVars
<1>1. ASSUME NEW c \in Conns, Accept(c) PROVE TypeOK'
  <2>1. acc' \in AccType BY <1>1 DEF Accept, AccType, Threads
  <2> QED BY <1>1, <2>1 DEF Accept, TypeOK
<1>2. CASE ScanThread
  <2>1. acc.pc = "scan" /\ acc.next + 1 \in 1 .. NumThreads /\ acc.next \in Threads
    BY <1>2 DEF ScanThread, Threads
  <2>2. acc' \in [pc : {"scan"}, conn : Conns, next : 1 .. NumThreads, best : Threads, least : Nat]
    BY <1>2, <2>1 DEF ScanThread
  <2> QED BY <1>2, <2>2 DEF ScanThread, TypeOK, AccType
<1>3. CASE ChooseThread
  <2>1. acc' \in AccType BY <1>3 DEF ChooseThread, AccType
  <2>2. owner' \in [Conns -> Threads \cup {NoThread}] BY <1>3 DEF ChooseThread, TypeOK
  <2> QED BY <1>3, <2>1, <2>2 DEF ChooseThread, TypeOK
<1>4. CASE RegisterSocket
  <2>1. acc' \in AccType BY <1>4 DEF RegisterSocket, AccType
  <2>2. registered' \subseteq Conns BY <1>4 DEF RegisterSocket, TypeOK
  <2> QED BY <1>4, <2>1, <2>2 DEF RegisterSocket, TypeOK
<1>5. CASE InsertSocket
  <2>1. acc' \in AccType BY <1>5 DEF InsertSocket, AccType
  <2> QED BY <1>5, <2>1 DEF InsertSocket, TypeOK
<1>6. CASE InsertConnection
  <2>1. acc' \in AccType BY <1>6 DEF InsertConnection, AccType
  <2> QED BY <1>6, <2>1 DEF InsertConnection, TypeOK
<1>7. CASE AnnounceNew
  <2>1. New(acc.conn) \in UpCommand BY <1>7, CommandTypes DEF AnnounceNew
  <2>2. client \in Seq(UpCommand) /\ client' = Append(client, New(acc.conn))
    BY <1>7 DEF AnnounceNew, TypeOK
  <2>3. client' \in Seq(UpCommand) BY <2>1, <2>2, AppendFacts
  <2> QED BY <1>7, <2>3 DEF AnnounceNew, TypeOK, AccType
<1> QED BY <1>1, <1>2, <1>3, <1>4, <1>5, <1>6, <1>7 DEF Acceptor

(* EpollReactor::closeSocket keeps the types of the maps. *)
LEMMA CloseSocketType ==
  ASSUME TypeOK, NEW c \in Conns, CloseSocket(c)
  PROVE  /\ registered' \subseteq Conns /\ sockets' \subseteq Conns
         /\ status' \in [Conns -> {"none", "connected", "pending_error"}]
BY DEF CloseSocket, mapVars, TypeOK

(* What one socket event puts into the outbox: messages of the connection,
   and as many CLOSE commands as the event counted. *)
LEMMA EventOutbox ==
  ASSUME NEW c \in Conns, NEW q \in Seq(0 .. MaxMsgs), NEW n \in 0 .. Len(q),
         NEW good \in 0 .. n, NEW k \in Nat, Accepts(SubSeq(q, 1, n), good)
  PROVE  LET out == Decoded(c, SubSeq(q, 1, n), good) \o CloseReports(c, k)
         IN  /\ out \in Seq(UpCommand)
             /\ Len(out) = good + k
             /\ \A i \in 1 .. good : \E m \in 1 .. MaxMsgs : out[i] = Message(c, m)
             /\ \A i \in good + 1 .. good + k : out[i] = Close(c)
<1> DEFINE data == SubSeq(q, 1, n)
           msgs == Decoded(c, data, good)
           ends == CloseReports(c, k)
<1>1. Len(q) \in Nat /\ n \in Nat /\ good \in Nat OBVIOUS
<1>2. data \in Seq(0 .. MaxMsgs) /\ Len(data) = n
  BY SplitFacts
<1> HIDE DEF data
<1>3. \A i \in 1 .. good : data[i] \in 1 .. MaxMsgs
  BY <1>1, <1>2, BoundsAssumption DEF Accepts, data
<1>4. msgs \in [1 .. good -> UpCommand] /\ \A i \in 1 .. good : msgs[i] = Message(c, data[i])
  BY <1>3, CommandTypes DEF Decoded
<1>5. ends \in [1 .. k -> UpCommand] /\ \A i \in 1 .. k : ends[i] = Close(c)
  BY CommandTypes DEF CloseReports
<1> HIDE DEF msgs, ends
<1>6. msgs \in Seq(UpCommand) /\ Len(msgs) = good /\ ends \in Seq(UpCommand) /\ Len(ends) = k
  BY <1>1, <1>4, <1>5, TableFacts
<1>7. /\ msgs \o ends \in Seq(UpCommand)
      /\ Len(msgs \o ends) = good + k
      /\ \A i \in 1 .. good : (msgs \o ends)[i] = msgs[i]
      /\ \A i \in good + 1 .. good + k : (msgs \o ends)[i] = ends[i - good]
  BY <1>6, ConcatFacts
<1>8. \A i \in good + 1 .. good + k : (msgs \o ends)[i] = Close(c)
  <2> TAKE i \in good + 1 .. good + k
  <2>1. i - good \in 1 .. k BY <1>1
  <2> QED BY <2>1, <1>5, <1>7
<1>9. \A i \in 1 .. good : \E m \in 1 .. MaxMsgs : (msgs \o ends)[i] = Message(c, m)
  BY <1>3, <1>4, <1>7
<1> QED BY <1>7, <1>8, <1>9 DEF msgs, ends, data

(* What a socket event does, without the arithmetic of ReadCloses. *)
LEMMA EventFacts ==
  ASSUME TypeOK, NEW c \in Conns, SocketEvent(c)
  PROVE  \E k \in 0 .. 1, good \in Nat, out \in Seq(UpCommand) :
           /\ outbox' = [outbox EXCEPT ![owner[c]] = out]
           /\ Len(out) = good + k
           /\ \A i \in 1 .. good : \E m \in 1 .. MaxMsgs : out[i] = Message(c, m)
           /\ \A i \in good + 1 .. good + k : out[i] = Close(c)
           /\ inb' \in [Conns -> Seq(0 .. MaxMsgs)]
<1>1. inb[c] \in Seq(0 .. MaxMsgs) /\ Len(inb[c]) \in Nat BY DEF TypeOK
<1>2. PICK n \in ReadSizes(c) : \E good \in 0 .. n :
        LET data == SubSeq(inb[c], 1, n)
            k    == ReadCloses(c, data, good) + ErrorCloses(c, data, good)
        IN  /\ Accepts(data, good)
            /\ inb' = [inb EXCEPT ![c] = SubSeq(inb[c], n + 1, Len(inb[c]))]
            /\ outbox' = [outbox EXCEPT ![owner[c]] =
                            Decoded(c, data, good) \o CloseReports(c, k)]
  BY DEF SocketEvent
<1>3. n \in 0 .. Len(inb[c]) BY <1>1, BoundsAssumption DEF ReadSizes, Overflow
<1> DEFINE data == SubSeq(inb[c], 1, n)
<1>4. PICK good \in 0 .. n :
            /\ Accepts(data, good)
            /\ inb' = [inb EXCEPT ![c] = SubSeq(inb[c], n + 1, Len(inb[c]))]
            /\ outbox' = [outbox EXCEPT ![owner[c]] =
                 Decoded(c, data, good)
                   \o CloseReports(c, ReadCloses(c, data, good) + ErrorCloses(c, data, good))]
  BY <1>2
<1> DEFINE k == ReadCloses(c, data, good) + ErrorCloses(c, data, good)
<1>5. k \in 0 .. 1
  <2>1. ReadCloses(c, data, good) \in {0, 1} BY DEF ReadCloses
  <2>2. ErrorCloses(c, data, good) \in {0, 1} BY DEF ErrorCloses
  <2>3. ErrorCloses(c, data, good) = 1 => ReadCloses(c, data, good) = 0 BY DEF ErrorCloses
  <2> HIDE DEF data
  <2> QED BY <2>1, <2>2, <2>3
<1> DEFINE out == Decoded(c, data, good) \o CloseReports(c, k)
<1> HIDE DEF k
<1>6. /\ out \in Seq(UpCommand)
      /\ Len(out) = good + k
      /\ \A i \in 1 .. good : \E m \in 1 .. MaxMsgs : out[i] = Message(c, m)
      /\ \A i \in good + 1 .. good + k : out[i] = Close(c)
  <2>1. Accepts(SubSeq(inb[c], 1, n), good) BY <1>4
  <2>2. k \in Nat BY <1>5
  <2> QED BY <1>1, <1>3, <2>1, <2>2, EventOutbox
<1>7. inb' \in [Conns -> Seq(0 .. MaxMsgs)]
  <2>1. SubSeq(inb[c], n + 1, Len(inb[c])) \in Seq(0 .. MaxMsgs) BY <1>1, <1>3, SplitFacts
  <2> QED BY <1>4, <2>1 DEF TypeOK
<1>8. outbox' = [outbox EXCEPT ![owner[c]] = out]
  BY <1>4 DEF k
<1>9. good \in Nat BY <1>3
<1> HIDE DEF out
<1> QED BY <1>5, <1>6, <1>7, <1>8, <1>9

(* The report of a closing handler. *)
LEMMA ReportFacts ==
  ASSUME NEW c \in Conns
  PROVE  /\ CloseReports(c, 1) \in Seq(UpCommand)
         /\ Len(CloseReports(c, 1)) = 1
         /\ CloseReports(c, 1)[1] = Close(c)
<1>1. CloseReports(c, 1) \in [1 .. 1 -> UpCommand] BY CommandTypes DEF CloseReports
<1>2. CloseReports(c, 1)[1] = Close(c) BY DEF CloseReports
<1> QED BY <1>1, <1>2, TableFacts

(* The fields of a command for the main thread. *)
LEMMA UpCommandFacts ==
  ASSUME NEW cmd \in UpCommand
  PROVE  /\ cmd.id \in Conns
         /\ cmd.type \in {"NEW", "MESSAGE", "CLOSE"}
         /\ cmd.type = "CLOSE" => cmd = Close(cmd.id)
         /\ cmd.type = "NEW" => cmd = New(cmd.id)
BY DEF UpCommand, Close, New

(* The connection of a command for a net thread. *)
LEMMA DownCommandFacts ==
  ASSUME NEW cmd \in DownCommand
  PROVE  cmd.type # "BROADCAST" => cmd.id \in Conns
BY DEF DownCommand

(* The command a net thread pops is one of the five kinds. *)
LEMMA HeadDown ==
  ASSUME TypeOK, NEW t \in Threads, command[t] # << >>
  PROVE  /\ Head(command[t]) \in DownCommand
         /\ Tail(command[t]) \in Seq(DownCommand)
BY TailFacts DEF TypeOK

(* The handlers of a net thread keep the types. *)
LEMMA NetThreadType == TypeOK /\ NetThread => TypeOK'
<1> SUFFICES ASSUME TypeOK, NetThread PROVE TypeOK' OBVIOUS
<1> USE DEF peerVars, accVars, mainVars
<1>1. ASSUME NEW c \in Conns, SocketEvent(c) PROVE TypeOK'
  <2>1. PICK out \in Seq(UpCommand) :
           /\ outbox' = [outbox EXCEPT ![owner[c]] = out]
           /\ inb' \in [Conns -> Seq(0 .. MaxMsgs)]
    BY <1>1, EventFacts
  <2>2. outbox' \in [Threads -> Seq(UpCommand)] BY <2>1 DEF TypeOK
  <2> QED BY <1>1, <2>1, <2>2 DEF SocketEvent, TypeOK, mapVars
<1>2. ASSUME NEW c \in Conns, SendMessageError(c) PROVE TypeOK'
  <2>1. UNCHANGED outbox \/ outbox' = [outbox EXCEPT ![owner[c]] = CloseReports(c, 1)]
    BY <1>2 DEF SendMessageError
  <2>2. CloseReports(c, 1) \in Seq(UpCommand) BY ReportFacts
  <2>3. outbox \in [Threads -> Seq(UpCommand)] BY DEF TypeOK
  <2>4. outbox' \in [Threads -> Seq(UpCommand)] BY <2>1, <2>2, <2>3
  <2> QED BY <1>2, <2>4 DEF SendMessageError, TypeOK, mapVars
<1>3. ASSUME NEW t \in Threads, PushUp(t) PROVE TypeOK'
  <2> DEFINE cmd == Head(outbox[t])
  <2>1. cmd \in UpCommand /\ Tail(outbox[t]) \in Seq(UpCommand)
    BY <1>3, TailFacts DEF PushUp, TypeOK
  <2>2. client' \in Seq(UpCommand) BY <1>3, <2>1, AppendFacts DEF PushUp, TypeOK
  <2>3. outbox' \in [Threads -> Seq(UpCommand)] BY <1>3, <2>1 DEF PushUp, TypeOK
  <2>4. cmd.id \in Conns BY <2>1, UpCommandFacts
  <2>5. \/ UNCHANGED <<mapVars, closes>>
        \/ CloseSocket(cmd.id) /\ closes' = [closes EXCEPT ![cmd.id] = @ + 1]
    BY <1>3 DEF PushUp
  <2> HIDE DEF cmd
  <2>6. closes' \in [Conns -> Nat]
    <3>1. closes \in [Conns -> Nat] /\ closes[cmd.id] + 1 \in Nat BY <2>4 DEF TypeOK
    <3> QED BY <2>4, <2>5, <3>1
  <2>7. /\ registered' \subseteq Conns /\ sockets' \subseteq Conns
        /\ status' \in [Conns -> {"none", "connected", "pending_error"}]
    BY <2>4, <2>5, CloseSocketType DEF mapVars, TypeOK
  <2> QED BY <1>3, <2>2, <2>3, <2>6, <2>7 DEF PushUp, TypeOK
<1>4. ASSUME NEW t \in Threads, OnNetCommand(t) PROVE TypeOK'
  <2> DEFINE cmd == Head(command[t])
  <2>1. cmd \in DownCommand /\ Tail(command[t]) \in Seq(DownCommand)
    BY <1>4, HeadDown DEF OnNetCommand
  <2>2. cmd.type # "BROADCAST" => cmd.id \in Conns BY <2>1, DownCommandFacts
  <2>3. command' \in [Threads -> Seq(DownCommand)] BY <1>4, <2>1 DEF OnNetCommand, TypeOK
  <2> HIDE DEF cmd
  <2> DEFINE NetType == /\ registered' \subseteq Conns
                        /\ sockets' \subseteq Conns
                        /\ status' \in [Conns -> {"none", "connected", "pending_error"}]
                        /\ timers' \subseteq Conns
                        /\ broadcast' \subseteq Conns
                        /\ outbox' \in [Threads -> Seq(UpCommand)]
  <2>4. ASSUME UNCHANGED netVars PROVE NetType
    BY <2>4 DEF netVars, mapVars, TypeOK
  <2>5. ASSUME OnBroadcast(t) PROVE NetType
    BY <2>5 DEF OnBroadcast, SendFails, TypeOK
  <2>6. ASSUME cmd.id \in Conns, OnClose(cmd.id) PROVE NetType
    BY <2>6, CloseSocketType DEF OnClose, TypeOK
  <2>7. ASSUME cmd.id \in Conns, OnMessage(cmd.id) PROVE NetType
    <3>1. CASE SendFails({cmd.id}) /\ UNCHANGED <<registered, sockets, broadcast, outbox>>
      BY <2>7, <3>1 DEF SendFails, TypeOK
    <3>2. CASE /\ outbox' = [outbox EXCEPT ![owner[cmd.id]] = CloseReports(cmd.id, 1)]
               /\ UNCHANGED <<mapVars, timers, broadcast>>
      <4>1. CloseReports(cmd.id, 1) \in Seq(UpCommand) BY <2>7, ReportFacts
      <4>2. outbox' \in [Threads -> Seq(UpCommand)] BY <3>2, <4>1 DEF TypeOK
      <4> QED BY <3>2, <4>2 DEF TypeOK, mapVars
    <3> QED BY <2>4, <2>7, <3>1, <3>2 DEF OnMessage
  <2>8. ASSUME cmd.id \in Conns, OnEnableBroadcast(cmd.id) PROVE NetType
    BY <2>8 DEF OnEnableBroadcast, mapVars, TypeOK
  <2>9. ASSUME cmd.id \in Conns, OnDisableBroadcast(cmd.id) PROVE NetType
    BY <2>9 DEF OnDisableBroadcast, mapVars, TypeOK
  <2>10. NetType BY <1>4, <2>2, <2>4, <2>5, <2>6, <2>7, <2>8, <2>9 DEF OnNetCommand, cmd
  <2> QED BY <1>4, <2>3, <2>10 DEF OnNetCommand, TypeOK
<1> QED BY <1>1, <1>2, <1>3, <1>4 DEF NetThread

(* Popping the main queue keeps its type. *)
LEMMA PopClientType ==
  ASSUME TypeOK, NEW cmd, PopClient(cmd)
  PROVE  client' \in Seq(UpCommand) /\ cmd = client[1]
BY TailFacts DEF PopClient, TypeOK

(* TcpService::push keeps the types of the command queues. *)
LEMMA PushDownType ==
  ASSUME TypeOK, NEW c \in Conns,
         NEW type \in {"MESSAGE", "CLOSE", "ENABLE_BROADCAST", "DISABLE_BROADCAST"},
         PushDown(c, type)
  PROVE  command' \in [Threads -> Seq(DownCommand)]
<1> DEFINE cmd == [type |-> type, id |-> c]
<1>1. cmd \in DownCommand BY CommandTypes
<1>2. command' = [command EXCEPT ![owner[c]] = Append(command[owner[c]], cmd)]
  BY DEF PushDown
<1>3. command \in [Threads -> Seq(DownCommand)] BY DEF TypeOK
<1> HIDE DEF cmd
<1>4. CASE owner[c] \in Threads
  <2>1. command[owner[c]] \in Seq(DownCommand) BY <1>3, <1>4
  <2>2. Append(command[owner[c]], cmd) \in Seq(DownCommand) BY <1>1, <2>1, AppendFacts
  <2> QED BY <1>2, <1>3, <2>2, UpdateFacts
<1>5. CASE owner[c] \notin Threads
  BY <1>2, <1>3, <1>5
<1> QED BY <1>4, <1>5

(* The main thread keeps the types. *)
LEMMA MainType == TypeOK /\ (ProcessNetCommand \/ Application) => TypeOK'
<1> SUFFICES ASSUME TypeOK, ProcessNetCommand \/ Application PROVE TypeOK' OBVIOUS
<1> USE DEF peerVars, accVars, mapVars, netVars
<1>1. ASSUME NEW c \in Conns, ProcessNew(c) PROVE TypeOK'
  BY <1>1, PopClientType DEF ProcessNew, TypeOK
<1>2. ASSUME NEW c \in Conns, ProcessClose(c) PROVE TypeOK'
  BY <1>2, PopClientType DEF ProcessClose, TypeOK
<1>3. ASSUME NEW c \in Conns, NEW n \in 1 .. MaxMsgs, ProcessMessage(c, n) PROVE TypeOK'
  <2>1. client' \in Seq(UpCommand) BY <1>3, PopClientType DEF ProcessMessage
  <2>2. handled' \in [Conns -> 0 .. MaxMsgs]
    <3>1. n \in 0 .. MaxMsgs BY BoundsAssumption
    <3>2. UNCHANGED handled \/ handled' = [handled EXCEPT ![c] = n] BY <1>3 DEF ProcessMessage
    <3> QED BY <3>1, <3>2 DEF TypeOK
  <2>3. command' \in [Threads -> Seq(DownCommand)]
    BY <1>3, PushDownType DEF ProcessMessage, Disconnect, TypeOK
  <2>4. infos' \subseteq Conns /\ disconnected' \subseteq Conns
    BY <1>3 DEF ProcessMessage, Disconnect, TypeOK
  <2> QED BY <1>3, <2>1, <2>2, <2>3, <2>4 DEF ProcessMessage, TypeOK
<1>4. ASSUME NEW c \in Conns, AppCall(c) PROVE TypeOK'
  <2>1. command' \in [Threads -> Seq(DownCommand)]
    <3>1. CASE Disconnect(c) BY <3>1, PushDownType DEF Disconnect
    <3>2. CASE \E type \in {"MESSAGE", "ENABLE_BROADCAST", "DISABLE_BROADCAST"} : PushDown(c, type)
      BY <3>2, PushDownType
    <3> QED BY <1>4, <3>1, <3>2 DEF AppCall
  <2>2. infos' \subseteq Conns /\ disconnected' \subseteq Conns
    BY <1>4 DEF AppCall, Disconnect, TypeOK
  <2>3. ops' \in 0 .. MaxOps BY <1>4, BoundsAssumption DEF AppCall, TypeOK
  <2> QED BY <1>4, <2>1, <2>2, <2>3 DEF AppCall, TypeOK
<1>5. CASE AppBroadcast
  <2>1. [type |-> "BROADCAST"] \in DownCommand BY DEF DownCommand
  <2>2. command' \in [Threads -> Seq(DownCommand)] BY <1>5, <2>1 DEF AppBroadcast, TypeOK
  <2>3. ops' \in 0 .. MaxOps BY <1>5, BoundsAssumption DEF AppBroadcast, TypeOK
  <2> QED BY <1>5, <2>2, <2>3 DEF AppBroadcast, TypeOK
<1> QED BY <1>1, <1>2, <1>3, <1>4, <1>5 DEF ProcessNetCommand, Application

(* Every step keeps the types. *)
LEMMA NextType == TypeOK /\ [Next]_vars => TypeOK'
<1>1. TypeOK /\ UNCHANGED vars => TypeOK'
  BY DEF TypeOK, vars, peerVars, accVars, mapVars, netVars, mainVars
<1> QED BY <1>1, ClientsType, AcceptorType, NetThreadType, MainType DEF Next

(* The variables of the server keep their types. *)
THEOREM TypeCorrect == Spec => []TypeOK
BY InitType, NextType, PTL DEF Spec

----------------------------------------------------------------------------
(* Who owns what. *)

(* What is in the main queue after a push. *)
LEMMA ClientAppend ==
  ASSUME TypeOK, NEW e \in UpCommand, client' = Append(client, e), NEW x
  PROVE  InClient(x)' <=> InClient(x) \/ x = e
<1>1. client \in Seq(UpCommand) /\ Len(client) \in Nat BY DEF TypeOK
<1>2. /\ Len(client') = Len(client) + 1
      /\ \A i \in 1 .. Len(client) : client'[i] = client[i]
      /\ client'[Len(client) + 1] = e
  BY <1>1, AppendFacts
<1> QED BY <1>1, <1>2 DEF InClient

(* What is in the main queue after a pop. *)
LEMMA ClientTail ==
  ASSUME TypeOK, client # << >>, client' = Tail(client), NEW x
  PROVE  /\ InClient(x)' => InClient(x)
         /\ InClient(x) => InClient(x)' \/ x = Head(client)
         /\ InClient(Head(client))
<1>1. client \in Seq(UpCommand) BY DEF TypeOK
<1>2. /\ Len(client) \in Nat /\ Len(client) > 0
      /\ Head(client) = client[1]
      /\ Len(client') = Len(client) - 1
      /\ \A i \in 1 .. Len(client') : client'[i] = client[i + 1]
  BY <1>1, TailFacts
<1>3. ASSUME NEW i \in 1 .. Len(client), client[i] = x, x # Head(client) PROVE InClient(x)'
  <2>1. i - 1 \in 1 .. Len(client') /\ (i - 1) + 1 = i BY <1>2, <1>3
  <2>2. client'[i - 1] = x BY <1>2, <1>3, <2>1
  <2> QED BY <2>1, <2>2 DEF InClient
<1>4. ASSUME NEW i \in 1 .. Len(client'), client'[i] = x PROVE InClient(x)
  <2>1. i + 1 \in 1 .. Len(client) BY <1>2
  <2> QED BY <1>2, <1>4, <2>1 DEF InClient
<1>5. InClient(Head(client)) BY <1>2 DEF InClient
<1> QED BY <1>3, <1>4, <1>5 DEF InClient

(* Pushing a command down and taking one keep the commands where they
   belong. *)
LEMMA PushDownFacts ==
  ASSUME TypeOK, NEW c \in Conns, owner[c] \in Threads,
         NEW type \in {"MESSAGE", "CLOSE", "ENABLE_BROADCAST", "DISABLE_BROADCAST"},
         PushDown(c, type)
  PROVE  /\ \A t \in Threads : t # owner[c] => command'[t] = command[t]
         /\ Len(command'[owner[c]]) = Len(command[owner[c]]) + 1
         /\ \A i \in 1 .. Len(command[owner[c]]) : command'[owner[c]][i] = command[owner[c]][i]
         /\ command'[owner[c]][Len(command[owner[c]]) + 1] = [type |-> type, id |-> c]
<1> DEFINE cmd == [type |-> type, id |-> c]
<1>1. cmd \in DownCommand BY CommandTypes
<1>2. command' = [command EXCEPT ![owner[c]] = Append(command[owner[c]], cmd)]
  BY DEF PushDown
<1>3. command \in [Threads -> Seq(DownCommand)] BY DEF TypeOK
<1>4. command[owner[c]] \in Seq(DownCommand) BY <1>3
<1>5. \A t \in Threads : t # owner[c] => command'[t] = command[t] BY <1>2, <1>3
<1>6. command'[owner[c]] = Append(command[owner[c]], cmd) BY <1>2, <1>3
<1> HIDE DEF cmd
<1>7. /\ Len(command'[owner[c]]) = Len(command[owner[c]]) + 1
      /\ \A i \in 1 .. Len(command[owner[c]]) : command'[owner[c]][i] = command[owner[c]][i]
      /\ command'[owner[c]][Len(command[owner[c]]) + 1] = cmd
  BY <1>1, <1>4, <1>6, AppendFacts
<1> QED BY <1>5, <1>7 DEF cmd

(* TcpService::push sends a command to the net thread of its connection. *)
LEMMA PushDownOwn ==
  ASSUME TypeOK, OwnCommands, NEW c \in Conns, owner[c] \in Threads, UNCHANGED owner,
         NEW type \in {"MESSAGE", "CLOSE", "ENABLE_BROADCAST", "DISABLE_BROADCAST"},
         PushDown(c, type)
  PROVE  OwnCommands'
<1> DEFINE u == owner[c]
<1>1. /\ \A t \in Threads : t # u => command'[t] = command[t]
      /\ Len(command'[u]) = Len(command[u]) + 1
      /\ \A i \in 1 .. Len(command[u]) : command'[u][i] = command[u][i]
      /\ command'[u][Len(command[u]) + 1] = [type |-> type, id |-> c]
  BY PushDownFacts
<1>2. Len(command[u]) \in Nat BY DEF TypeOK
<1> SUFFICES ASSUME NEW t \in Threads, NEW i \in 1 .. Len(command'[t]),
                    command'[t][i].type # "BROADCAST"
             PROVE  owner[command'[t][i].id] = t
  BY DEF OwnCommands
<1>3. CASE t # u BY <1>1, <1>3 DEF OwnCommands
<1>4. CASE t = u /\ i \in 1 .. Len(command[u]) BY <1>1, <1>4 DEF OwnCommands
<1>5. CASE t = u /\ i = Len(command[u]) + 1 BY <1>1, <1>5
<1> QED BY <1>1, <1>2, <1>3, <1>4, <1>5

(* Popping a command leaves only commands of the same thread. *)
LEMMA TakeCommand ==
  ASSUME TypeOK, NEW t \in Threads, OnNetCommand(t)
  PROVE  /\ \A u \in Threads : \A i \in 1 .. Len(command'[u]) :
              \E j \in 1 .. Len(command[u]) : command'[u][i] = command[u][j]
         /\ \E j \in 1 .. Len(command[t]) : Head(command[t]) = command[t][j]
<1>1. command[t] # << >> /\ command' = [command EXCEPT ![t] = Tail(command[t])]
  BY DEF OnNetCommand
<1>2. command \in [Threads -> Seq(DownCommand)] /\ command[t] \in Seq(DownCommand) BY DEF TypeOK
<1>3. /\ Len(command[t]) \in Nat /\ Len(command[t]) > 0
      /\ Head(command[t]) = command[t][1]
      /\ Len(Tail(command[t])) = Len(command[t]) - 1
      /\ \A i \in 1 .. Len(Tail(command[t])) : Tail(command[t])[i] = command[t][i + 1]
  BY <1>1, <1>2, TailFacts
<1>4. command'[t] = Tail(command[t]) /\ \A u \in Threads : u # t => command'[u] = command[u]
  BY <1>1, <1>2
<1>5. \A i \in 1 .. Len(command'[t]) : \E j \in 1 .. Len(command[t]) : command'[t][i] = command[t][j]
  <2> TAKE i \in 1 .. Len(command'[t])
  <2>1. i + 1 \in 1 .. Len(command[t]) BY <1>3, <1>4
  <2> QED BY <1>3, <1>4, <2>1
<1>6. ASSUME NEW u \in Threads, NEW i \in 1 .. Len(command'[u])
      PROVE  \E j \in 1 .. Len(command[u]) : command'[u][i] = command[u][j]
  <2>1. CASE u = t BY <1>5, <2>1
  <2>2. CASE u # t BY <1>4, <2>2
  <2> QED BY <2>1, <2>2
<1>7. 1 \in 1 .. Len(command[t]) BY <1>3
<1>8. \E j \in 1 .. Len(command[t]) : Head(command[t]) = command[t][j] BY <1>3, <1>7
<1> QED BY <1>6, <1>8

(* The first layer holds initially. *)
LEMMA InitRoute == Init => RouteInv
<1> SUFFICES ASSUME Init PROVE RouteInv OBVIOUS
<1>1. client = << >> /\ Len(client) = 0 /\ ~\E i \in 1 .. Len(client) : TRUE BY DEF Init
<1>2. \A t \in Threads : Len(command[t]) = 0 /\ Len(outbox[t]) = 0 BY DEF Init
<1>3. HeardLater BY <1>1 DEF Init, HeardLater, InClient
<1>4. AttachOwner BY DEF Init, AccIdle, AttachOwner
<1>5. OwnCommands /\ NoNewInOutbox BY <1>2 DEF OwnCommands, NoNewInOutbox
<1> QED BY <1>3, <1>4, <1>5 DEF RouteInv, EntryIsKnown, Init

routeVars == <<acc, owner, known, infos, client, command, outbox>>

(* Only these variables matter to the first layer. *)
LEMMA FrameRoute == RouteInv /\ UNCHANGED routeVars => RouteInv'
BY DEF routeVars, RouteInv, AttachOwner, EntryIsKnown, HeardLater, Unannounced, InClient,
       OwnCommands, NoNewInOutbox

(* The acceptor keeps the first layer. *)
LEMMA AcceptorRoute == TypeOK /\ RouteInv /\ Acceptor => RouteInv'
<1> SUFFICES ASSUME TypeOK, RouteInv, Acceptor PROVE RouteInv' OBVIOUS
<1> USE AccFacts
<1> USE DEF netVars, mapVars, mainVars
<1>1. ASSUME NEW c \in Conns, Accept(c) PROVE RouteInv'
  BY <1>1 DEF Accept, RouteInv, AttachOwner, EntryIsKnown, HeardLater, Unannounced, InClient,
              OwnCommands, NoNewInOutbox
<1>2. CASE ScanThread
  <2>1. acc'.pc = "scan" /\ acc'.conn = acc.conn /\ acc.pc = "scan" BY <1>2 DEF ScanThread
  <2> QED BY <1>2, <2>1 DEF ScanThread, RouteInv, AttachOwner, EntryIsKnown, HeardLater,
              Unannounced, InClient, OwnCommands, NoNewInOutbox
<1>3. CASE ChooseThread
  <2>1. /\ acc.pc = "scan" /\ acc'.pc = "register" /\ acc'.conn = acc.conn
        /\ acc.conn \in Conns /\ owner[acc.conn] = NoThread /\ acc.best \in Threads
        /\ owner' = [owner EXCEPT ![acc.conn] = acc.best]
        /\ UNCHANGED <<known, infos, client, command, outbox>>
    BY <1>3 DEF ChooseThread, RouteInv, AttachOwner
  <2>2. /\ owner'[acc.conn] \in Threads
        /\ \A c \in Conns : c # acc.conn => owner'[c] = owner[c]
    BY <2>1 DEF TypeOK
  <2>3. AttachOwner' BY <2>1, <2>2 DEF AttachOwner
  <2>4. HeardLater' BY <2>1, <2>2 DEF RouteInv, HeardLater, Unannounced, InClient
  <2>5. OwnCommands'
    <3> SUFFICES ASSUME NEW t \in Threads, NEW i \in 1 .. Len(command[t]),
                        command[t][i].type # "BROADCAST"
                 PROVE  owner'[command[t][i].id] = t
      BY <2>1 DEF OwnCommands
    <3>1. owner[command[t][i].id] = t BY DEF RouteInv, OwnCommands
    <3>2. command[t][i] \in DownCommand BY DEF TypeOK
    <3>3. command[t][i].id \in Conns BY <3>2, DownCommandFacts
    <3>4. command[t][i].id # acc.conn
      BY <2>1, <3>1, ThreadsAssumption DEF Threads, NoThread
    <3> QED BY <2>2, <3>1, <3>3, <3>4
  <2> QED BY <2>1, <2>3, <2>4, <2>5 DEF RouteInv, EntryIsKnown, NoNewInOutbox
<1>4. CASE RegisterSocket \/ InsertSocket \/ InsertConnection
  <2>1. /\ acc.pc \in {"register", "sockets", "connections"}
        /\ acc'.pc \in {"sockets", "connections", "announce"}
        /\ acc'.conn = acc.conn
        /\ UNCHANGED <<owner, known, infos, client, command, outbox>>
    BY <1>4 DEF RegisterSocket, InsertSocket, InsertConnection
  <2> QED BY <2>1 DEF RouteInv, AttachOwner, EntryIsKnown, HeardLater, Unannounced, InClient,
                      OwnCommands, NoNewInOutbox
<1>5. CASE AnnounceNew
  <2>1. /\ acc.pc = "announce" /\ acc'.pc = "accept" /\ acc.conn \in Conns
        /\ client' = Append(client, New(acc.conn))
        /\ UNCHANGED <<owner, known, infos, command, outbox>>
        /\ owner[acc.conn] \in Threads
    BY <1>5 DEF AnnounceNew, AccIdle, RouteInv, AttachOwner
  <2>2. HeardLater'
    <3> SUFFICES ASSUME NEW c \in Conns, owner[c] = NoThread
                 PROVE  c \notin known /\ ~InClient(New(c))'
      BY <2>1 DEF HeardLater, Unannounced
    <3>1. c # acc.conn BY <2>1, ThreadsAssumption DEF Threads, NoThread
    <3>2. New(c) # New(acc.conn) BY <2>1, <3>1 DEF New
    <3>3. New(acc.conn) \in UpCommand BY <2>1, CommandTypes
    <3>4. InClient(New(c))' <=> InClient(New(c)) BY <2>1, <3>2, <3>3, ClientAppend
    <3> QED BY <3>4 DEF RouteInv, HeardLater, Unannounced
  <2> QED BY <2>1, <2>2 DEF RouteInv, AttachOwner, EntryIsKnown, OwnCommands, NoNewInOutbox
<1> QED BY <1>1, <1>2, <1>3, <1>4, <1>5 DEF Acceptor

(* What a command from the main thread can do. *)
LEMMA CommandCases ==
  ASSUME TypeOK, NEW t \in Threads, OnNetCommand(t)
  PROVE  \/ UNCHANGED <<mapVars, timers, outbox>>
         \/ \E failed \in SUBSET Conns :
              /\ \A c \in failed : status[c] = "connected"
              /\ SendFails(failed)
              /\ UNCHANGED <<registered, sockets, outbox>>
         \/ \E c \in Conns :
              /\ Head(command[t]).id = c /\ Head(command[t]).type = "CLOSE"
              /\ status[c] = "connected"
              /\ CloseSocket(c)
              /\ UNCHANGED <<timers, outbox>>
         \/ \E c \in Conns :
              /\ Head(command[t]).id = c /\ Head(command[t]).type = "MESSAGE"
              /\ status[c] = "connected"
              /\ outbox' = [outbox EXCEPT ![owner[c]] = CloseReports(c, 1)]
              /\ UNCHANGED <<mapVars, timers>>
<1> DEFINE cmd == Head(command[t])
<1>1. cmd \in DownCommand BY HeadDown DEF OnNetCommand
<1>2. cmd.type # "BROADCAST" => cmd.id \in Conns BY <1>1, DownCommandFacts
<1>3. CASE cmd.type = "BROADCAST" /\ OnBroadcast(t)
  <2>1. PICK failed \in SUBSET {c \in broadcast : owner[c] = t /\ IsConnected(c)} : SendFails(failed)
    BY <1>3 DEF OnBroadcast
  <2>2. failed \in SUBSET Conns /\ \A c \in failed : status[c] = "connected"
    BY DEF TypeOK, IsConnected
  <2> QED BY <1>3, <2>1, <2>2 DEF OnBroadcast
<1>4. CASE UNCHANGED netVars BY <1>4 DEF netVars, mapVars
<1>5. CASE cmd.type = "CLOSE" /\ cmd.id \in Conns /\ IsConnected(cmd.id) /\ OnClose(cmd.id)
  BY <1>5 DEF OnClose, IsConnected
<1>6. CASE cmd.type = "MESSAGE" /\ cmd.id \in Conns /\ IsConnected(cmd.id) /\ OnMessage(cmd.id)
  <2>1. CASE SendFails({cmd.id}) /\ UNCHANGED <<registered, sockets, broadcast, outbox>>
    <3>1. {cmd.id} \in SUBSET Conns /\ \A c \in {cmd.id} : status[c] = "connected"
      BY <1>6 DEF IsConnected
    <3> QED BY <2>1, <3>1
  <2>2. CASE /\ outbox' = [outbox EXCEPT ![owner[cmd.id]] = CloseReports(cmd.id, 1)]
             /\ UNCHANGED <<mapVars, timers, broadcast>>
    BY <1>6, <2>2 DEF IsConnected
  <2> QED BY <1>4, <1>6, <2>1, <2>2 DEF OnMessage
<1>7. CASE OnEnableBroadcast(cmd.id) BY <1>7 DEF OnEnableBroadcast
<1>8. CASE OnDisableBroadcast(cmd.id) BY <1>8 DEF OnDisableBroadcast
<1> QED BY <1>2, <1>3, <1>4, <1>5, <1>6, <1>7, <1>8 DEF OnNetCommand

(* What PushUp does to the queues. *)
LEMMA PushUpFacts ==
  ASSUME TypeOK, NEW t \in Threads, PushUp(t)
  PROVE  /\ Head(outbox[t]) \in UpCommand
         /\ Head(outbox[t]) = outbox[t][1]
         /\ Len(outbox[t]) \in Nat /\ Len(outbox[t]) > 0
         /\ Len(outbox'[t]) = Len(outbox[t]) - 1
         /\ \A i \in 1 .. Len(outbox'[t]) : outbox'[t][i] = outbox[t][i + 1]
         /\ \A u \in Threads : u # t => outbox'[u] = outbox[u]
         /\ client' = Append(client, Head(outbox[t]))
<1>1. outbox \in [Threads -> Seq(UpCommand)] /\ outbox[t] \in Seq(UpCommand) BY DEF TypeOK
<1>2. /\ outbox[t] # << >> /\ outbox' = [outbox EXCEPT ![t] = Tail(outbox[t])]
      /\ client' = Append(client, Head(outbox[t]))
  BY DEF PushUp
<1>3. outbox'[t] = Tail(outbox[t]) /\ \A u \in Threads : u # t => outbox'[u] = outbox[u]
  BY <1>1, <1>2
<1>4. /\ Head(outbox[t]) \in UpCommand
      /\ Head(outbox[t]) = outbox[t][1]
      /\ Len(outbox[t]) \in Nat /\ Len(outbox[t]) > 0
      /\ Len(Tail(outbox[t])) = Len(outbox[t]) - 1
      /\ \A i \in 1 .. Len(Tail(outbox[t])) : Tail(outbox[t])[i] = outbox[t][i + 1]
  BY <1>1, <1>2, TailFacts
<1> QED BY <1>2, <1>3, <1>4

(* The commands one handler makes: messages of its connection, at most one
   CLOSE, and that last. *)
Handles(c, out) == /\ out \in Seq(UpCommand)
                   /\ \A i \in 1 .. Len(out) : /\ out[i].id = c
                                               /\ out[i].type \in {"MESSAGE", "CLOSE"}
                                               /\ out[i].type = "CLOSE" => i = Len(out)

(* A single CLOSE report is the output of a handler. *)
LEMMA ReportHandles == ASSUME NEW c \in Conns PROVE Handles(c, CloseReports(c, 1))
<1>1. Close(c).id = c /\ Close(c).type = "CLOSE" BY DEF Close
<1>2. /\ CloseReports(c, 1) \in Seq(UpCommand)
      /\ Len(CloseReports(c, 1)) = 1
      /\ CloseReports(c, 1)[1] = Close(c)
  BY ReportFacts
<1>3. \A i \in 1 .. 1 : i = 1 OBVIOUS
<1> QED BY <1>1, <1>2, <1>3 DEF Handles

(* What doEvent reports for a socket is the output of a handler. *)
LEMMA EventHandles ==
  ASSUME TypeOK, NEW c \in Conns, SocketEvent(c)
  PROVE  \E out : Handles(c, out) /\ outbox' = [outbox EXCEPT ![owner[c]] = out]
<1>1. PICK k \in 0 .. 1, good \in Nat, out \in Seq(UpCommand) :
        /\ outbox' = [outbox EXCEPT ![owner[c]] = out]
        /\ Len(out) = good + k
        /\ \A i \in 1 .. good : \E m \in 1 .. MaxMsgs : out[i] = Message(c, m)
        /\ \A i \in good + 1 .. good + k : out[i] = Close(c)
  BY EventFacts
<1>2. Close(c).id = c /\ Close(c).type = "CLOSE" BY DEF Close
<1>3. \A m : Message(c, m).id = c /\ Message(c, m).type = "MESSAGE" BY DEF Message
<1>4. ASSUME NEW i \in 1 .. Len(out)
      PROVE  /\ out[i].id = c
             /\ out[i].type \in {"MESSAGE", "CLOSE"}
             /\ out[i].type = "CLOSE" => i = Len(out)
  <2>1. i \in 1 .. good + k BY <1>1
  <2>2. CASE i \in 1 .. good BY <1>1, <1>3, <2>2
  <2>3. CASE i \in good + 1 .. good + k
    <3>1. i = good + k BY <2>3
    <3> QED BY <1>1, <1>2, <2>3, <3>1
  <2> QED BY <2>1, <2>2, <2>3
<1> QED BY <1>1, <1>4 DEF Handles

(* Starting a handler keeps the first layer. *)
LEMMA HandlesRoute ==
  ASSUME TypeOK, NoNewInOutbox, NEW c \in Conns, NEW out, Handles(c, out),
         outbox' = [outbox EXCEPT ![owner[c]] = out]
  PROVE  NoNewInOutbox'
<1> SUFFICES ASSUME NEW t \in Threads, NEW i \in 1 .. Len(outbox'[t])
             PROVE  outbox'[t][i].type # "NEW"
  BY DEF NoNewInOutbox
<1>1. CASE t = owner[c]
  <2>1. outbox'[t] = out BY <1>1 DEF TypeOK
  <2> QED BY <2>1 DEF Handles
<1>2. CASE t # owner[c]
  <2>1. outbox'[t] = outbox[t] BY <1>2 DEF TypeOK
  <2> QED BY <2>1 DEF NoNewInOutbox
<1> QED BY <1>1, <1>2

(* The net threads keep the first layer. *)
LEMMA NetThreadRoute == TypeOK /\ RouteInv /\ NetThread => RouteInv'
<1> SUFFICES ASSUME TypeOK, RouteInv, NetThread PROVE RouteInv' OBVIOUS
<1> USE DEF accVars, mainVars
<1> DEFINE Rest == AttachOwner' /\ EntryIsKnown' /\ HeardLater' /\ OwnCommands'
<1>1. UNCHANGED <<acc, owner, known, infos, client, command>> => Rest
  BY DEF RouteInv, AttachOwner, EntryIsKnown, HeardLater, Unannounced, InClient, OwnCommands
<1>2. UNCHANGED outbox => NoNewInOutbox' BY DEF RouteInv, NoNewInOutbox
<1>3. ASSUME NEW c \in Conns, SocketEvent(c) PROVE RouteInv'
  <2>1. PICK out : Handles(c, out) /\ outbox' = [outbox EXCEPT ![owner[c]] = out]
    BY <1>3, EventHandles
  <2>2. NoNewInOutbox' BY <2>1, HandlesRoute DEF RouteInv
  <2>3. Rest BY <1>1, <1>3 DEF SocketEvent
  <2> QED BY <2>2, <2>3 DEF RouteInv
<1>4. ASSUME NEW c \in Conns, SendMessageError(c) PROVE RouteInv'
  <2>1. UNCHANGED outbox \/ outbox' = [outbox EXCEPT ![owner[c]] = CloseReports(c, 1)]
    BY <1>4 DEF SendMessageError
  <2>2. Handles(c, CloseReports(c, 1)) BY ReportHandles
  <2>3. NoNewInOutbox' BY <1>2, <2>1, <2>2, HandlesRoute DEF RouteInv
  <2>4. Rest BY <1>1, <1>4 DEF SendMessageError
  <2> QED BY <2>3, <2>4 DEF RouteInv
<1>5. ASSUME NEW t \in Threads, PushUp(t) PROVE RouteInv'
  <2> DEFINE cmd == Head(outbox[t])
  <2>1. /\ cmd \in UpCommand
        /\ cmd = outbox[t][1]
        /\ Len(outbox[t]) \in Nat /\ Len(outbox[t]) > 0
        /\ Len(outbox'[t]) = Len(outbox[t]) - 1
        /\ \A i \in 1 .. Len(outbox'[t]) : outbox'[t][i] = outbox[t][i + 1]
        /\ \A u \in Threads : u # t => outbox'[u] = outbox[u]
        /\ client' = Append(client, cmd)
    BY <1>5, PushUpFacts
  <2> HIDE DEF cmd
  <2>2. UNCHANGED <<acc, owner, known, infos, command>> BY <1>5 DEF PushUp
  <2>3. cmd.type # "NEW" BY <2>1 DEF RouteInv, NoNewInOutbox
  <2>4. \A c \in Conns : cmd # New(c) BY <2>3 DEF New
  <2>5. \A c \in Conns : InClient(New(c))' <=> InClient(New(c)) BY <2>1, <2>4, ClientAppend
  <2>6. HeardLater' BY <2>2, <2>5 DEF RouteInv, HeardLater, Unannounced
  <2>7. NoNewInOutbox'
    <3> SUFFICES ASSUME NEW u \in Threads, NEW i \in 1 .. Len(outbox'[u])
                 PROVE  outbox'[u][i].type # "NEW"
      BY DEF NoNewInOutbox
    <3>1. CASE u = t
      <4>1. i + 1 \in 1 .. Len(outbox[t]) BY <2>1, <3>1
      <4> QED BY <2>1, <3>1, <4>1 DEF RouteInv, NoNewInOutbox
    <3>2. CASE u # t BY <2>1, <3>2 DEF RouteInv, NoNewInOutbox
    <3> QED BY <3>1, <3>2
  <2> QED BY <2>2, <2>6, <2>7 DEF RouteInv, AttachOwner, EntryIsKnown, OwnCommands
<1>6. ASSUME NEW t \in Threads, OnNetCommand(t) PROVE RouteInv'
  <2>1. UNCHANGED <<acc, owner, known, infos, client>> BY <1>6 DEF OnNetCommand
  <2>2. OwnCommands'
    <3>1. \A u \in Threads : \A i \in 1 .. Len(command'[u]) :
            \E j \in 1 .. Len(command[u]) : command'[u][i] = command[u][j]
      BY <1>6, TakeCommand
    <3> QED BY <2>1, <3>1 DEF RouteInv, OwnCommands
  <2>3. NoNewInOutbox'
    <3>1. ASSUME NEW c \in Conns, outbox' = [outbox EXCEPT ![owner[c]] = CloseReports(c, 1)]
          PROVE  NoNewInOutbox'
      BY <3>1, ReportHandles, HandlesRoute DEF RouteInv
    <3> QED BY <1>2, <1>6, <3>1, CommandCases
  <2> QED BY <2>1, <2>2, <2>3 DEF RouteInv, AttachOwner, EntryIsKnown, HeardLater, Unannounced,
                                  InClient
<1> QED BY <1>3, <1>4, <1>5, <1>6 DEF NetThread

(* A connection the application knows has a net thread. *)
LEMMA KnownOwner ==
  ASSUME TypeOK, RouteInv, NEW c \in known
  PROVE  c \in Conns /\ owner[c] \in Threads
BY DEF TypeOK, RouteInv, HeardLater, Unannounced

(* The main thread keeps the first layer. *)
LEMMA MainRoute == TypeOK /\ RouteInv /\ (ProcessNetCommand \/ Application) => RouteInv'
<1> SUFFICES ASSUME TypeOK, RouteInv, ProcessNetCommand \/ Application PROVE RouteInv' OBVIOUS
<1> USE DEF accVars, netVars
<1>1. ASSUME NEW cmd, PopClient(cmd)
      PROVE  \A x : InClient(x)' => InClient(x)
  BY <1>1, ClientTail DEF PopClient
<1>2. ASSUME NEW c \in Conns, ProcessNew(c) PROVE RouteInv'
  <2>1. InClient(New(c)) BY <1>2, ClientTail DEF ProcessNew, PopClient
  <2>2. ~Unannounced(c) BY <2>1 DEF RouteInv, HeardLater
  <2>3. HeardLater' BY <1>1, <1>2, <2>2 DEF ProcessNew, RouteInv, HeardLater, Unannounced
  <2> QED BY <1>2, <2>3 DEF ProcessNew, RouteInv, AttachOwner, EntryIsKnown, OwnCommands,
                            NoNewInOutbox
<1>3. ASSUME NEW c \in Conns, ProcessClose(c) PROVE RouteInv'
  <2>1. HeardLater' BY <1>1, <1>3 DEF ProcessClose, RouteInv, HeardLater, Unannounced
  <2> QED BY <1>3, <2>1 DEF ProcessClose, RouteInv, AttachOwner, EntryIsKnown, OwnCommands,
                            NoNewInOutbox
<1>4. ASSUME NEW c \in Conns, NEW n \in 1 .. MaxMsgs, ProcessMessage(c, n) PROVE RouteInv'
  <2>1. UNCHANGED <<acc, owner, known, outbox>> BY <1>4 DEF ProcessMessage
  <2>2. HeardLater' BY <1>1, <1>4, <2>1 DEF ProcessMessage, RouteInv, HeardLater, Unannounced
  <2>3. EntryIsKnown' BY <1>4 DEF ProcessMessage, Disconnect, RouteInv, EntryIsKnown
  <2>4. OwnCommands'
    <3>1. CASE UNCHANGED command BY <2>1, <3>1 DEF RouteInv, OwnCommands
    <3>2. CASE c \in infos /\ Disconnect(c)
      <4>1. owner[c] \in Threads BY <3>2, KnownOwner DEF RouteInv, EntryIsKnown
      <4> QED BY <2>1, <3>2, <4>1, PushDownOwn DEF Disconnect, RouteInv
    <3> QED BY <1>4, <3>1, <3>2 DEF ProcessMessage
  <2> QED BY <2>1, <2>2, <2>3, <2>4 DEF RouteInv, AttachOwner, NoNewInOutbox
<1>5. ASSUME NEW c \in Conns, AppCall(c) PROVE RouteInv'
  <2>1. UNCHANGED <<acc, owner, known, client, outbox>> BY <1>5 DEF AppCall
  <2>2. EntryIsKnown' BY <1>5 DEF AppCall, Disconnect, RouteInv, EntryIsKnown
  <2>3. owner[c] \in Threads BY <1>5, KnownOwner DEF AppCall
  <2>4. OwnCommands'
    <3>1. PICK type \in {"MESSAGE", "CLOSE", "ENABLE_BROADCAST", "DISABLE_BROADCAST"} :
            PushDown(c, type)
      BY <1>5 DEF AppCall, Disconnect
    <3> QED BY <2>1, <2>3, <3>1, PushDownOwn DEF RouteInv
  <2> QED BY <2>1, <2>2, <2>4 DEF RouteInv, AttachOwner, HeardLater, Unannounced, InClient,
                                  NoNewInOutbox
<1>6. CASE AppBroadcast
  <2>1. UNCHANGED <<acc, owner, known, infos, client, outbox>> BY <1>6 DEF AppBroadcast
  <2>2. OwnCommands'
    <3> SUFFICES ASSUME NEW t \in Threads, NEW i \in 1 .. Len(command'[t]),
                        command'[t][i].type # "BROADCAST"
                 PROVE  owner[command'[t][i].id] = t
      BY <2>1 DEF OwnCommands
    <3> DEFINE e == [type |-> "BROADCAST"]
    <3>1. command[t] \in Seq(DownCommand) /\ e \in DownCommand /\ e.type = "BROADCAST"
      BY DEF TypeOK, DownCommand
    <3>2. command'[t] = Append(command[t], e) BY <1>6 DEF AppBroadcast
    <3> HIDE DEF e
    <3>3. /\ Len(command'[t]) = Len(command[t]) + 1 /\ Len(command[t]) \in Nat
          /\ \A j \in 1 .. Len(command[t]) : command'[t][j] = command[t][j]
          /\ command'[t][Len(command[t]) + 1] = e
      BY <3>1, <3>2, AppendFacts
    <3>4. i \in 1 .. Len(command[t]) BY <3>1, <3>3
    <3> QED BY <3>3, <3>4 DEF RouteInv, OwnCommands
  <2> QED BY <2>1, <2>2 DEF RouteInv, AttachOwner, EntryIsKnown, HeardLater, Unannounced,
                            InClient, NoNewInOutbox
<1> QED BY <1>2, <1>3, <1>4, <1>5, <1>6 DEF ProcessNetCommand, Application

(* Every step keeps the first layer. *)
LEMMA NextRoute == TypeOK /\ RouteInv /\ [Next]_vars => RouteInv'
<1> SUFFICES ASSUME TypeOK, RouteInv, [Next]_vars PROVE RouteInv' OBVIOUS
<1> USE DEF routeVars, accVars, netVars, mainVars
<1>1. CASE Clients BY <1>1, FrameRoute DEF Clients, Connect, SendPacket, Hangup
<1>2. CASE UNCHANGED vars BY <1>2, FrameRoute DEF vars
<1> QED BY <1>1, <1>2, AcceptorRoute, NetThreadRoute, MainRoute DEF Next

----------------------------------------------------------------------------
(* The reactors: maps, deferred errors, reports. *)

(* The second layer holds initially. *)
LEMMA InitReactor == Init => ReactorInv
<1> SUFFICES ASSUME Init PROVE ReactorInv OBVIOUS
<1>1. \A t \in Threads : Len(outbox[t]) = 0 BY DEF Init
<1>2. RunningHandler BY <1>1 DEF RunningHandler
<1> QED BY <1>2 DEF Init, ReactorInv, AttachState, Unattached, MapsAgree, Attaching,
                    CloseReportedOnce, PendingErrorHasTimer, AccIdle

reactorVars == <<acc, owner, registered, sockets, status, timers, closes, outbox>>

(* Only these variables matter to the second layer. *)
LEMMA FrameReactor == ReactorInv /\ UNCHANGED reactorVars => ReactorInv'
BY DEF reactorVars, ReactorInv, AttachState, Unattached, MapsAgree, Attaching, CloseReportedOnce,
       PendingErrorHasTimer, Ending, RunningHandler

(* A connection that is in connections_ is attached completely and its end
   has not been reported. *)
LEMMA LiveFacts ==
  ASSUME TypeOK, ReactorInv, NEW c \in Conns, status[c] # "none"
  PROVE  /\ ~Attaching(c)
         /\ owner[c] \in Threads
         /\ c \in registered /\ c \in sockets
         /\ closes[c] = 0
<1>1. ~Attaching(c) BY DEF ReactorInv, AttachState, Attaching
<1>2. owner[c] \in Threads BY DEF ReactorInv, Unattached, TypeOK
<1>3. c \in registered /\ c \in sockets BY <1>1 DEF ReactorInv, MapsAgree
<1>4. closes[c] = 0
  <2>1. closes[c] \in Nat /\ closes[c] <= 1 /\ closes[c] # 1
    BY DEF TypeOK, ReactorInv, CloseReportedOnce
  <2> QED BY <2>1
<1> QED BY <1>1, <1>2, <1>3, <1>4

(* Commands in an outbox are about connections of that thread. *)
LEMMA OutboxFacts ==
  ASSUME TypeOK, ReactorInv, NEW t \in Threads, NEW i \in 1 .. Len(outbox[t])
  PROVE  /\ outbox[t][i] \in UpCommand
         /\ outbox[t][i].id \in Conns
         /\ owner[outbox[t][i].id] = t
         /\ status[outbox[t][i].id] # "none"
<1>1. outbox[t] \in Seq(UpCommand) BY DEF TypeOK
<1>2. outbox[t][i] \in UpCommand BY <1>1
<1> QED BY <1>2, UpCommandFacts DEF ReactorInv, RunningHandler

MapsInv == AttachState /\ Unattached /\ MapsAgree /\ CloseReportedOnce

(* closeSocket of a live connection, reported or not. *)
LEMMA CloseReactor ==
  ASSUME TypeOK, ReactorInv, NEW c \in Conns, status[c] # "none", CloseSocket(c),
         UNCHANGED accVars,
         UNCHANGED closes \/ closes' = [closes EXCEPT ![c] = @ + 1]
  PROVE  /\ MapsInv'
         /\ status'[c] = "none"
         /\ \A d \in Conns \ {c} : status'[d] = status[d]
<1>1. /\ ~Attaching(c)
      /\ owner[c] \in Threads
      /\ c \in registered /\ c \in sockets
      /\ closes[c] = 0
  BY LiveFacts
<1>2. /\ registered' = registered \ {c}
      /\ sockets' = sockets \ {c}
      /\ status' = [status EXCEPT ![c] = "none"]
      /\ acc' = acc /\ owner' = owner
  BY <1>1 DEF CloseSocket, accVars
<1>3. /\ \A d \in Conns \ {c} : status'[d] = status[d] /\ closes'[d] = closes[d]
      /\ status'[c] = "none"
      /\ closes'[c] \in 0 .. 1
  BY <1>1, <1>2 DEF TypeOK
<1>4. acc.pc \in {"register", "sockets", "connections"} => acc.conn \in Conns \ {c}
  BY <1>1, AccFacts DEF Attaching
<1>5. AttachState' BY <1>2, <1>3, <1>4 DEF ReactorInv, AttachState
<1>6. Unattached'
  <2> SUFFICES ASSUME NEW d \in Conns, owner[d] = NoThread
               PROVE  /\ d \notin registered' /\ d \notin sockets'
                      /\ status'[d] = "none" /\ closes'[d] = 0
    BY <1>2 DEF Unattached
  <2>1. d # c BY <1>1, ThreadsAssumption DEF Threads, NoThread
  <2> QED BY <1>2, <1>3, <2>1 DEF ReactorInv, Unattached
<1>7. MapsAgree' BY <1>2, <1>3 DEF ReactorInv, MapsAgree, Attaching
<1>8. CloseReportedOnce' BY <1>3 DEF ReactorInv, CloseReportedOnce
<1> QED BY <1>3, <1>5, <1>6, <1>7, <1>8 DEF MapsInv

(* Deferring the errors of live connections. *)
LEMMA SendFailsReactor ==
  ASSUME TypeOK, ReactorInv, NEW failed \in SUBSET Conns,
         \A c \in failed : status[c] = "connected",
         SendFails(failed), UNCHANGED <<accVars, registered, sockets, closes, outbox>>
  PROVE  ReactorInv'
<1>1. /\ \A c \in Conns : status'[c] = IF c \in failed THEN "pending_error" ELSE status[c]
      /\ timers' = timers \cup failed
      /\ acc' = acc /\ owner' = owner /\ outbox' = outbox
      /\ registered' = registered /\ sockets' = sockets /\ closes' = closes
  BY DEF SendFails, accVars
<1>2. \A c \in failed : /\ ~Attaching(c) /\ owner[c] \in Threads /\ status[c] # "none"
                        /\ closes[c] = 0
  BY LiveFacts
<1>3. \A c \in Conns : status'[c] = "none" <=> status[c] = "none" BY <1>1, <1>2
<1>4. AttachState'
  <2>1. acc.pc \in {"register", "sockets", "connections"} => acc.conn \in Conns BY AccFacts
  <2> QED BY <1>1, <1>3, <2>1 DEF ReactorInv, AttachState
<1>5. Unattached' BY <1>1, <1>3 DEF ReactorInv, Unattached
<1>6. MapsAgree' BY <1>1, <1>3 DEF ReactorInv, MapsAgree, Attaching
<1>7. CloseReportedOnce' BY <1>1, <1>3 DEF ReactorInv, CloseReportedOnce
<1>8. PendingErrorHasTimer' BY <1>1 DEF ReactorInv, PendingErrorHasTimer, Ending
<1>9. RunningHandler'
  <2>1. \A t \in Threads : \A i \in 1 .. Len(outbox[t]) : outbox[t][i].id \in Conns BY OutboxFacts
  <2> QED BY <1>1, <1>3, <2>1 DEF ReactorInv, RunningHandler
<1> QED BY <1>4, <1>5, <1>6, <1>7, <1>8, <1>9 DEF ReactorInv

(* A handler fills the empty outbox of its thread. *)
LEMMA HandlesReactor ==
  ASSUME TypeOK, ReactorInv, NEW c \in Conns, status[c] # "none", Idle(owner[c]),
         NEW out, Handles(c, out), outbox' = [outbox EXCEPT ![owner[c]] = out],
         UNCHANGED <<accVars, mapVars, closes>>
  PROVE  /\ MapsInv'
         /\ RunningHandler'
         /\ \A d \in Conns : Ending(d) => Ending(d)'
         /\ outbox'[owner[c]] = out
<1>1. owner[c] \in Threads BY LiveFacts
<1>2. /\ outbox'[owner[c]] = out
      /\ \A t \in Threads : t # owner[c] => outbox'[t] = outbox[t]
      /\ acc' = acc /\ owner' = owner /\ closes' = closes
      /\ registered' = registered /\ sockets' = sockets /\ status' = status
  BY <1>1 DEF TypeOK, accVars, mapVars
<1>3. MapsInv'
  BY <1>2 DEF ReactorInv, MapsInv, AttachState, Unattached, MapsAgree, Attaching, CloseReportedOnce
<1>4. RunningHandler'
  <2> SUFFICES ASSUME NEW t \in Threads, NEW i \in 1 .. Len(outbox'[t])
               PROVE  /\ owner[outbox'[t][i].id] = t
                      /\ status[outbox'[t][i].id] # "none"
                      /\ outbox'[t][i].type = "CLOSE" => i = Len(outbox'[t])
    BY <1>2 DEF RunningHandler
  <2>1. CASE t = owner[c] BY <1>2, <2>1 DEF Handles
  <2>2. CASE t # owner[c] BY <1>2, <2>2 DEF ReactorInv, RunningHandler
  <2> QED BY <2>1, <2>2
<1>5. ASSUME NEW d \in Conns, Ending(d) PROVE Ending(d)'
  <2>1. PICK t \in Threads : \E i \in 1 .. Len(outbox[t]) : outbox[t][i] = Close(d)
    BY <1>5 DEF Ending
  <2>2. Len(outbox[owner[c]]) = 0 BY DEF Idle
  <2>3. t # owner[c] BY <2>1, <2>2
  <2> QED BY <1>2, <2>1, <2>3 DEF Ending
<1> QED BY <1>2, <1>3, <1>4, <1>5

(* The acceptor keeps the second layer. *)
LEMMA AcceptorReactor == TypeOK /\ RouteInv /\ ReactorInv /\ Acceptor => ReactorInv'
<1> SUFFICES ASSUME TypeOK, RouteInv, ReactorInv, Acceptor PROVE ReactorInv' OBVIOUS
<1> USE AccFacts
<1> USE DEF netVars, mapVars
<1>1. ASSUME NEW c \in Conns, Accept(c) PROVE ReactorInv'
  BY <1>1 DEF Accept, ReactorInv, AttachState, Unattached, MapsAgree, Attaching,
              CloseReportedOnce, PendingErrorHasTimer, Ending, RunningHandler
<1>2. CASE ScanThread
  <2>1. acc'.pc = "scan" /\ acc'.conn = acc.conn /\ acc.pc = "scan" BY <1>2 DEF ScanThread
  <2> QED BY <1>2, <2>1 DEF ScanThread, ReactorInv, AttachState, Unattached, MapsAgree, Attaching,
              CloseReportedOnce, PendingErrorHasTimer, Ending, RunningHandler
<1>3. CASE ChooseThread
  <2>1. /\ acc.pc = "scan" /\ acc'.pc = "register" /\ acc'.conn = acc.conn
        /\ acc.conn \in Conns /\ owner[acc.conn] = NoThread
    BY <1>3 DEF ChooseThread, RouteInv, AttachOwner
  <2>2. \A c \in Conns : owner'[c] = NoThread => owner[c] = NoThread
    BY <1>3, <2>1 DEF ChooseThread, TypeOK
  <2>3. owner'[acc.conn] \in Threads BY <1>3, <2>1 DEF ChooseThread, TypeOK
  <2>4. /\ acc.conn \notin registered /\ acc.conn \notin sockets
        /\ status[acc.conn] = "none" /\ closes[acc.conn] = 0
    BY <2>1 DEF ReactorInv, Unattached
  <2>5. UNCHANGED <<registered, sockets, status, timers, closes, outbox>> BY <1>3 DEF ChooseThread
  <2>6. AttachState' BY <2>1, <2>3, <2>4, <2>5 DEF AttachState
  <2>7. Unattached' BY <2>2, <2>5 DEF ReactorInv, Unattached
  <2>8. MapsAgree' BY <2>1, <2>5 DEF ReactorInv, MapsAgree, Attaching
  <2>9. RunningHandler'
    <3>1. \A c \in Conns : owner[c] \in Threads => owner'[c] = owner[c]
      <4>1. NoThread \notin Threads BY ThreadsAssumption DEF Threads, NoThread
      <4>2. owner' = [owner EXCEPT ![acc.conn] = acc.best] BY <1>3 DEF ChooseThread
      <4>3. owner \in [Conns -> Threads \cup {NoThread}] BY DEF TypeOK
      <4> QED BY <2>1, <4>1, <4>2, <4>3
    <3>2. \A t \in Threads : \A i \in 1 .. Len(outbox[t]) :
             outbox[t][i].id \in Conns /\ owner[outbox[t][i].id] = t
      BY OutboxFacts
    <3> QED BY <2>5, <3>1, <3>2 DEF ReactorInv, RunningHandler
  <2> QED BY <2>5, <2>6, <2>7, <2>8, <2>9 DEF ReactorInv, CloseReportedOnce, PendingErrorHasTimer,
                                             Ending
<1>4. CASE RegisterSocket
  <2>1. /\ acc.pc = "register" /\ acc'.conn = acc.conn /\ acc.conn \in Conns
        /\ owner[acc.conn] \in Threads /\ owner' = owner
        /\ \/ acc'.pc = "sockets" /\ registered' = registered \cup {acc.conn}
           \/ acc'.pc = "announce" /\ registered' = registered
        /\ acc.conn \notin registered /\ acc.conn \notin sockets
        /\ status[acc.conn] = "none" /\ closes[acc.conn] = 0
        /\ UNCHANGED <<sockets, status, timers, closes, outbox>>
    BY <1>4 DEF RegisterSocket, RouteInv, AttachOwner, ReactorInv, AttachState
  <2>2. AttachState' BY <2>1 DEF AttachState
  <2>3. Unattached' BY <2>1, ThreadsAssumption DEF ReactorInv, Unattached, Threads, NoThread
  <2>4. MapsAgree' BY <2>1 DEF ReactorInv, MapsAgree, Attaching
  <2> QED BY <2>1, <2>2, <2>3, <2>4 DEF ReactorInv, CloseReportedOnce, PendingErrorHasTimer,
                                        Ending, RunningHandler
<1>5. CASE InsertSocket
  <2>1. /\ acc.pc = "sockets" /\ acc'.conn = acc.conn /\ acc.conn \in Conns
        /\ owner[acc.conn] \in Threads /\ owner' = owner
        /\ acc'.pc = "connections" /\ sockets' = sockets \cup {acc.conn}
        /\ acc.conn \in registered
        /\ status[acc.conn] = "none" /\ closes[acc.conn] = 0
        /\ UNCHANGED <<registered, status, timers, closes, outbox>>
    BY <1>5 DEF InsertSocket, RouteInv, AttachOwner, ReactorInv, AttachState
  <2>2. AttachState' BY <2>1 DEF AttachState
  <2>3. Unattached' BY <2>1, ThreadsAssumption DEF ReactorInv, Unattached, Threads, NoThread
  <2>4. MapsAgree' BY <2>1 DEF ReactorInv, MapsAgree, Attaching
  <2> QED BY <2>1, <2>2, <2>3, <2>4 DEF ReactorInv, CloseReportedOnce, PendingErrorHasTimer,
                                        Ending, RunningHandler
<1>6. CASE InsertConnection
  <2>1. /\ acc.pc = "connections" /\ acc'.conn = acc.conn /\ acc.conn \in Conns
        /\ owner[acc.conn] \in Threads /\ owner' = owner
        /\ acc'.pc = "announce" /\ status' = [status EXCEPT ![acc.conn] = "connected"]
        /\ acc.conn \in registered /\ acc.conn \in sockets
        /\ closes[acc.conn] = 0
        /\ UNCHANGED <<registered, sockets, timers, closes, outbox>>
    BY <1>6 DEF InsertConnection, RouteInv, AttachOwner, ReactorInv, AttachState
  <2>2. \A d \in Conns : status'[d] = IF d = acc.conn THEN "connected" ELSE status[d]
    BY <2>1 DEF TypeOK
  <2>3. AttachState' BY <2>1 DEF AttachState
  <2>4. Unattached' BY <2>1, <2>2, ThreadsAssumption DEF ReactorInv, Unattached, Threads, NoThread
  <2>5. MapsAgree' BY <2>1, <2>2 DEF ReactorInv, MapsAgree, Attaching
  <2>6. CloseReportedOnce' BY <2>1, <2>2 DEF ReactorInv, CloseReportedOnce
  <2>7. PendingErrorHasTimer' BY <2>1, <2>2 DEF ReactorInv, PendingErrorHasTimer, Ending
  <2>8. RunningHandler'
    <3>1. \A t \in Threads : \A i \in 1 .. Len(outbox[t]) : outbox[t][i].id \in Conns BY OutboxFacts
    <3> QED BY <2>1, <2>2, <3>1 DEF ReactorInv, RunningHandler
  <2> QED BY <2>3, <2>4, <2>5, <2>6, <2>7, <2>8 DEF ReactorInv
<1>7. CASE AnnounceNew
  BY <1>7 DEF AnnounceNew, AccIdle, ReactorInv, AttachState, Unattached, MapsAgree, Attaching,
              CloseReportedOnce, PendingErrorHasTimer, Ending, RunningHandler
<1> QED BY <1>1, <1>2, <1>3, <1>4, <1>5, <1>6, <1>7 DEF Acceptor

(* A pushed MESSAGE, and a pushed CLOSE with the removal of its socket, keep
   the second layer. *)
LEMMA PushUpReactor ==
  ASSUME TypeOK, RouteInv, ReactorInv, NEW t \in Threads, PushUp(t)
  PROVE  ReactorInv'
<1> DEFINE cmd == Head(outbox[t])
<1>1. /\ cmd \in UpCommand
      /\ cmd = outbox[t][1]
      /\ Len(outbox[t]) \in Nat /\ Len(outbox[t]) > 0
      /\ Len(outbox'[t]) = Len(outbox[t]) - 1
      /\ \A i \in 1 .. Len(outbox'[t]) : outbox'[t][i] = outbox[t][i + 1]
      /\ \A u \in Threads : u # t => outbox'[u] = outbox[u]
  BY PushUpFacts
<1>2. /\ cmd.id \in Conns /\ owner[cmd.id] = t /\ status[cmd.id] # "none"
      /\ cmd.type = "CLOSE" => Len(outbox[t]) = 1
      /\ cmd.type = "CLOSE" => cmd = Close(cmd.id)
  <2>1. 1 \in 1 .. Len(outbox[t]) BY <1>1
  <2>2. /\ outbox[t][1] \in UpCommand
        /\ outbox[t][1].id \in Conns
        /\ owner[outbox[t][1].id] = t
        /\ status[outbox[t][1].id] # "none"
    BY <2>1, OutboxFacts
  <2>3. outbox[t][1].type = "CLOSE" => Len(outbox[t]) = 1
    BY <2>1 DEF ReactorInv, RunningHandler
  <2>4. cmd.type = "CLOSE" => cmd = Close(cmd.id) BY <1>1, UpCommandFacts
  <2> HIDE DEF cmd
  <2> QED BY <1>1, <2>2, <2>3, <2>4
<1>3. UNCHANGED <<accVars, timers>> BY DEF PushUp
<1>4. CASE cmd.type = "CLOSE"
  <2>1. CloseSocket(cmd.id) /\ closes' = [closes EXCEPT ![cmd.id] = @ + 1]
    BY <1>4 DEF PushUp
  <2> HIDE DEF cmd
  <2>2. /\ MapsInv'
        /\ status'[cmd.id] = "none"
        /\ \A d \in Conns \ {cmd.id} : status'[d] = status[d]
    BY <1>2, <1>3, <2>1, CloseReactor
  <2>3. Len(outbox'[t]) = 0 BY <1>1, <1>2, <1>4
  <2>4. RunningHandler'
    <3> SUFFICES ASSUME NEW u \in Threads, NEW i \in 1 .. Len(outbox'[u])
                 PROVE  /\ owner[outbox'[u][i].id] = u
                        /\ status'[outbox'[u][i].id] # "none"
                        /\ outbox'[u][i].type = "CLOSE" => i = Len(outbox'[u])
      BY <1>3 DEF RunningHandler, accVars
    <3>1. u # t BY <2>3
    <3>2. outbox'[u] = outbox[u] BY <1>1, <3>1
    <3>3. /\ outbox[u][i].id \in Conns /\ owner[outbox[u][i].id] = u
          /\ status[outbox[u][i].id] # "none"
      BY <3>2, OutboxFacts
    <3>4. outbox[u][i].id # cmd.id BY <1>2, <3>1, <3>3
    <3> QED BY <2>2, <3>2, <3>3, <3>4 DEF ReactorInv, RunningHandler
  <2>5. PendingErrorHasTimer'
    <3> SUFFICES ASSUME NEW d \in Conns, status'[d] = "pending_error"
                 PROVE  d \in timers \/ Ending(d)'
      BY <1>3 DEF PendingErrorHasTimer
    <3>1. d # cmd.id /\ status[d] = "pending_error" BY <2>2
    <3>2. CASE d \in timers BY <3>2
    <3>3. CASE Ending(d)
      <4>1. PICK u \in Threads : \E i \in 1 .. Len(outbox[u]) : outbox[u][i] = Close(d)
        BY <3>3 DEF Ending
      <4>2. PICK i \in 1 .. Len(outbox[u]) : outbox[u][i] = Close(d) BY <4>1
      <4>3. outbox[u][i].id = d BY <4>2 DEF Close
      <4>4. u # t
        <5>1. u = t => i = 1
          <6>1. Len(outbox[t]) = 1 BY <1>2, <1>4
          <6> QED BY <4>2, <6>1
        <5> QED BY <1>1, <3>1, <4>3, <5>1
      <4> QED BY <1>1, <4>2, <4>4 DEF Ending
    <3> QED BY <3>1, <3>2, <3>3 DEF ReactorInv, PendingErrorHasTimer
  <2> QED BY <2>2, <2>4, <2>5 DEF ReactorInv, MapsInv
<1>5. CASE cmd.type # "CLOSE"
  <2>1. UNCHANGED <<mapVars, closes>> BY <1>5 DEF PushUp
  <2> HIDE DEF cmd
  <2>2. MapsInv'
    BY <1>3, <2>1 DEF ReactorInv, MapsInv, AttachState, Unattached, MapsAgree, Attaching,
                      CloseReportedOnce, accVars, mapVars
  <2>3. RunningHandler'
    <3> SUFFICES ASSUME NEW u \in Threads, NEW i \in 1 .. Len(outbox'[u])
                 PROVE  /\ owner[outbox'[u][i].id] = u
                        /\ status[outbox'[u][i].id] # "none"
                        /\ outbox'[u][i].type = "CLOSE" => i = Len(outbox'[u])
      BY <1>3, <2>1 DEF RunningHandler, accVars, mapVars
    <3>1. CASE u = t
      <4>1. i + 1 \in 1 .. Len(outbox[t]) /\ outbox'[t][i] = outbox[t][i + 1] BY <1>1, <3>1
      <4>2. /\ owner[outbox[t][i + 1].id] = t
            /\ status[outbox[t][i + 1].id] # "none"
            /\ outbox[t][i + 1].type = "CLOSE" => i + 1 = Len(outbox[t])
        BY <4>1 DEF ReactorInv, RunningHandler
      <4> QED BY <1>1, <3>1, <4>1, <4>2
    <3>2. CASE u # t BY <1>1, <3>2 DEF ReactorInv, RunningHandler
    <3> QED BY <3>1, <3>2
  <2>4. ASSUME NEW d \in Conns, Ending(d) PROVE Ending(d)'
    <3>1. PICK u \in Threads : \E i \in 1 .. Len(outbox[u]) : outbox[u][i] = Close(d)
      BY <2>4 DEF Ending
    <3>2. PICK i \in 1 .. Len(outbox[u]) : outbox[u][i] = Close(d) BY <3>1
    <3>3. CASE u = t
      <4>1. i # 1 BY <1>1, <1>5, <3>2, <3>3 DEF Close
      <4>2. i - 1 \in 1 .. Len(outbox'[t]) /\ (i - 1) + 1 = i BY <1>1, <3>3, <4>1
      <4>3. outbox'[t][i - 1] = Close(d) BY <1>1, <3>2, <3>3, <4>2
      <4> QED BY <4>2, <4>3 DEF Ending
    <3>4. CASE u # t BY <1>1, <3>2, <3>4 DEF Ending
    <3> QED BY <3>3, <3>4
  <2>5. PendingErrorHasTimer'
    BY <1>3, <2>1, <2>4 DEF ReactorInv, PendingErrorHasTimer, mapVars
  <2> QED BY <2>2, <2>3, <2>5 DEF ReactorInv, MapsInv
<1> QED BY <1>4, <1>5

(* The command a net thread takes is about a connection of its own. *)
LEMMA HeadOwner ==
  ASSUME TypeOK, RouteInv, NEW t \in Threads, OnNetCommand(t), Head(command[t]).type # "BROADCAST"
  PROVE  owner[Head(command[t]).id] = t
BY TakeCommand DEF RouteInv, OwnCommands

(* Executing a command of the main thread keeps the second layer. *)
LEMMA OnNetCommandReactor ==
  ASSUME TypeOK, RouteInv, ReactorInv, NEW t \in Threads, OnNetCommand(t)
  PROVE  ReactorInv'
<1>1. UNCHANGED <<accVars, closes>> /\ outbox[t] = << >> BY DEF OnNetCommand, Idle
<1>2. CASE UNCHANGED <<mapVars, timers, outbox>>
  BY <1>1, <1>2, FrameReactor DEF reactorVars, accVars, mapVars
<1>3. ASSUME NEW failed \in SUBSET Conns, \A c \in failed : status[c] = "connected",
             SendFails(failed), UNCHANGED <<registered, sockets, outbox>>
      PROVE  ReactorInv'
  BY <1>1, <1>3, SendFailsReactor
<1>4. ASSUME NEW c \in Conns, Head(command[t]).id = c, Head(command[t]).type = "CLOSE",
             status[c] = "connected", CloseSocket(c), UNCHANGED <<timers, outbox>>
      PROVE  ReactorInv'
  <2>1. owner[c] = t BY <1>4, HeadOwner
  <2>2. /\ MapsInv'
        /\ status'[c] = "none"
        /\ \A d \in Conns \ {c} : status'[d] = status[d]
    <3>1. status[c] # "none" BY <1>4
    <3> QED BY <1>1, <1>4, <3>1, CloseReactor
  <2>3. RunningHandler'
    <3> SUFFICES ASSUME NEW u \in Threads, NEW i \in 1 .. Len(outbox[u])
                 PROVE  /\ owner[outbox[u][i].id] = u
                        /\ status'[outbox[u][i].id] # "none"
                        /\ outbox[u][i].type = "CLOSE" => i = Len(outbox[u])
      BY <1>1, <1>4 DEF RunningHandler, accVars
    <3>1. /\ outbox[u][i].id \in Conns /\ owner[outbox[u][i].id] = u
          /\ status[outbox[u][i].id] # "none"
      BY OutboxFacts
    <3>2. Len(outbox[t]) = 0 BY <1>1
    <3>3. u # t BY <3>2
    <3> QED BY <2>1, <2>2, <3>1, <3>3 DEF ReactorInv, RunningHandler
  <2>4. PendingErrorHasTimer'
    BY <1>4, <2>2 DEF ReactorInv, PendingErrorHasTimer, Ending
  <2> QED BY <2>2, <2>3, <2>4 DEF ReactorInv, MapsInv
<1>5. ASSUME NEW c \in Conns, Head(command[t]).id = c, Head(command[t]).type = "MESSAGE",
             status[c] = "connected",
             outbox' = [outbox EXCEPT ![owner[c]] = CloseReports(c, 1)],
             UNCHANGED <<mapVars, timers>>
      PROVE  ReactorInv'
  <2>1. owner[c] = t BY <1>5, HeadOwner
  <2>2. status[c] # "none" /\ Idle(owner[c]) BY <1>1, <1>5, <2>1 DEF Idle
  <2>3. /\ MapsInv'
        /\ RunningHandler'
        /\ \A d \in Conns : Ending(d) => Ending(d)'
    BY <1>1, <1>5, <2>2, ReportHandles, HandlesReactor
  <2>4. PendingErrorHasTimer'
    BY <1>5, <2>3 DEF ReactorInv, PendingErrorHasTimer, mapVars
  <2> QED BY <2>3, <2>4 DEF ReactorInv, MapsInv
<1> QED BY <1>2, <1>3, <1>4, <1>5, CommandCases

(* The net threads keep the second layer. *)
LEMMA NetThreadReactor == TypeOK /\ RouteInv /\ ReactorInv /\ NetThread => ReactorInv'
<1> SUFFICES ASSUME TypeOK, RouteInv, ReactorInv, NetThread PROVE ReactorInv' OBVIOUS
<1>1. ASSUME NEW c \in Conns, SocketEvent(c) PROVE ReactorInv'
  <2>1. /\ status[c] # "none" /\ Idle(owner[c])
        /\ UNCHANGED <<accVars, mapVars, closes, timers>>
    BY <1>1 DEF SocketEvent
  <2>2. PICK out : Handles(c, out) /\ outbox' = [outbox EXCEPT ![owner[c]] = out]
    BY <1>1, EventHandles
  <2>3. /\ MapsInv'
        /\ RunningHandler'
        /\ \A d \in Conns : Ending(d) => Ending(d)'
    BY <2>1, <2>2, HandlesReactor
  <2>4. PendingErrorHasTimer'
    BY <2>1, <2>3 DEF ReactorInv, PendingErrorHasTimer, mapVars
  <2> QED BY <2>3, <2>4 DEF ReactorInv, MapsInv
<1>2. ASSUME NEW c \in Conns, SendMessageError(c) PROVE ReactorInv'
  <2>1. /\ UNCHANGED <<accVars, mapVars, closes>> /\ timers' = timers \ {c}
        /\ Idle(owner[c])
    BY <1>2 DEF SendMessageError
  <2>2. CASE c \in sockets /\ status[c] # "none"
    <3>1. outbox' = [outbox EXCEPT ![owner[c]] = CloseReports(c, 1)]
      BY <1>2, <2>2 DEF SendMessageError
    <3>2. /\ MapsInv'
          /\ RunningHandler'
          /\ \A d \in Conns : Ending(d) => Ending(d)'
          /\ outbox'[owner[c]] = CloseReports(c, 1)
      BY <2>1, <2>2, <3>1, ReportHandles, HandlesReactor
    <3>3. Ending(c)'
      <4>1. owner[c] \in Threads BY <2>2, LiveFacts
      <4>2. 1 \in 1 .. Len(outbox'[owner[c]]) /\ outbox'[owner[c]][1] = Close(c)
        BY <3>2, ReportFacts
      <4> QED BY <4>1, <4>2 DEF Ending
    <3>4. PendingErrorHasTimer'
      BY <2>1, <3>2, <3>3 DEF ReactorInv, PendingErrorHasTimer, mapVars
    <3> QED BY <3>2, <3>4 DEF ReactorInv, MapsInv
  <2>3. CASE ~(c \in sockets /\ status[c] # "none")
    <3>1. status[c] = "none" BY <2>3, LiveFacts
    <3>2. UNCHANGED outbox BY <1>2, <2>3 DEF SendMessageError
    <3>3. PendingErrorHasTimer'
      BY <2>1, <3>1, <3>2 DEF ReactorInv, PendingErrorHasTimer, Ending, mapVars
    <3> QED BY <2>1, <3>2, <3>3 DEF ReactorInv, AttachState, Unattached, MapsAgree, Attaching,
                                    CloseReportedOnce, RunningHandler, accVars, mapVars
  <2> QED BY <2>2, <2>3
<1> QED BY <1>1, <1>2, PushUpReactor, OnNetCommandReactor DEF NetThread

(* Every step keeps the second layer. *)
LEMMA NextReactor == TypeOK /\ RouteInv /\ ReactorInv /\ [Next]_vars => ReactorInv'
<1> SUFFICES ASSUME TypeOK, RouteInv, ReactorInv, [Next]_vars PROVE ReactorInv' OBVIOUS
<1> USE DEF reactorVars, peerVars, accVars, netVars, mapVars, mainVars
<1>1. CASE Clients BY <1>1, FrameReactor DEF Clients, Connect, SendPacket, Hangup
<1>2. CASE ProcessNetCommand
  BY <1>2, FrameReactor DEF ProcessNetCommand, ProcessNew, ProcessClose, ProcessMessage
<1>3. CASE Application BY <1>3, FrameReactor DEF Application, AppBroadcast, AppCall
<1>4. CASE UNCHANGED vars BY <1>4, FrameReactor DEF vars
<1> QED BY <1>1, <1>2, <1>3, <1>4, AcceptorReactor, NetThreadReactor DEF Next

----------------------------------------------------------------------------
(* The main thread: connection_infos_ against the reactors. *)

(* The third layer holds initially. *)
LEMMA InitMain == Init => MainInv
<1> SUFFICES ASSUME Init PROVE MainInv OBVIOUS
<1>1. Len(client) = 0 /\ ~\E i \in 1 .. Len(client) : TRUE BY DEF Init
<1>2. \A t \in Threads : Len(command[t]) = 0 BY DEF Init
<1>3. NewOnce /\ NewIsLive /\ CloseIsCounted BY <1>1 DEF Init, NewOnce, NewIsLive, CloseIsCounted, InClient
<1>4. CloseWasAsked BY <1>2 DEF CloseWasAsked
<1>5. MainBooks /\ LiveIsKnown /\ EntryIsLive BY DEF Init, MainBooks, LiveIsKnown, EntryIsLive
<1> QED BY <1>3, <1>4, <1>5 DEF MainInv

booksVars == <<client, known, infos, disconnected, command, status, closes, orphans>>

(* Only these variables matter to the third layer. *)
LEMMA FrameMain == MainInv /\ UNCHANGED <<booksVars, acc>> => MainInv'
BY DEF booksVars, MainInv, NewOnce, CloseIsCounted, CloseWasAsked, MainBooks, NewIsLive,
       LiveIsKnown, EntryIsLive, InClient

(* Removing the head of the client queue. *)
LEMMA PopBooks ==
  ASSUME TypeOK, MainInv, client # << >>, client' = Tail(client),
         UNCHANGED <<status, orphans, closes>>
  PROVE  /\ NewIsLive' /\ CloseIsCounted'
         /\ \A c \in Conns : \A i, j \in 1 .. Len(client') :
              (client'[i] = New(c) /\ client'[j] = New(c)) => i = j
<1>1. client \in Seq(UpCommand) BY DEF TypeOK
<1>2. /\ Len(client) \in Nat /\ Len(client) > 0
      /\ Len(client') = Len(client) - 1
      /\ \A i \in 1 .. Len(client') : client'[i] = client[i + 1]
  BY <1>1, TailFacts
<1>3. \A i \in 1 .. Len(client') : i + 1 \in 1 .. Len(client) BY <1>2
<1>4. CloseIsCounted' BY ClientTail DEF MainInv, CloseIsCounted
<1>5. ASSUME NEW c \in Conns, NEW i \in 1 .. Len(client'), NEW j \in 1 .. Len(client'),
             client'[i] = New(c), client'[j] = New(c)
      PROVE  i = j
  <2>1. client[i + 1] = New(c) /\ client[j + 1] = New(c) BY <1>2, <1>5
  <2>2. i + 1 = j + 1 BY <1>3, <2>1 DEF MainInv, NewOnce
  <2> QED BY <2>2
<1>6. ASSUME NEW c \in Conns, NEW i \in 1 .. Len(client'), client'[i] = New(c)
      PROVE  \/ status[c] # "none"
             \/ \E j \in 1 .. Len(client') : i < j /\ client'[j] = Close(c)
             \/ c \in orphans
  <2>1. i + 1 \in 1 .. Len(client) /\ client[i + 1] = New(c) BY <1>2, <1>3, <1>6
  <2>2. CASE \E j \in 1 .. Len(client) : i + 1 < j /\ client[j] = Close(c)
    <3>1. PICK j \in 1 .. Len(client) : i + 1 < j /\ client[j] = Close(c) BY <2>2
    <3>2. j - 1 \in 1 .. Len(client') /\ i < j - 1 /\ (j - 1) + 1 = j BY <1>2, <3>1
    <3>3. client'[j - 1] = Close(c) BY <1>2, <3>1, <3>2
    <3> QED BY <3>2, <3>3
  <2> QED BY <2>1, <2>2 DEF MainInv, NewIsLive
<1>7. NewIsLive' BY <1>6 DEF NewIsLive
<1> QED BY <1>4, <1>5, <1>7

(* What the main thread takes from its queue. *)
LEMMA PopFacts ==
  ASSUME TypeOK, NEW cmd, PopClient(cmd)
  PROVE  /\ client # << >> /\ client' = Tail(client) /\ cmd = Head(client)
         /\ client[1] = cmd /\ 1 \in 1 .. Len(client)
         /\ \A x : (\E j \in 1 .. Len(client) : 1 < j /\ client[j] = x) => InClient(x)'
<1>1. client # << >> /\ client' = Tail(client) /\ cmd = Head(client) BY DEF PopClient
<1>2. client \in Seq(UpCommand) BY DEF TypeOK
<1>3. /\ Len(client) \in Nat /\ Len(client) > 0
      /\ Head(client) = client[1]
      /\ Len(client') = Len(client) - 1
      /\ \A i \in 1 .. Len(client') : client'[i] = client[i + 1]
  BY <1>1, <1>2, TailFacts
<1>4. ASSUME NEW x, NEW j \in 1 .. Len(client), 1 < j, client[j] = x PROVE InClient(x)'
  <2>1. j - 1 \in 1 .. Len(client') /\ (j - 1) + 1 = j BY <1>3, <1>4
  <2>2. client'[j - 1] = x BY <1>3, <1>4, <2>1
  <2> QED BY <2>1, <2>2 DEF InClient
<1> QED BY <1>1, <1>3, <1>4

(* Adding a command to the client queue. *)
LEMMA AppendBooks ==
  ASSUME TypeOK, MainInv, NEW e \in UpCommand, client' = Append(client, e),
         \A c \in Conns : e = New(c) => ~InClient(New(c)),
         \A c \in Conns : e = New(c) => status'[c] # "none" \/ c \in orphans',
         \A c \in Conns : status'[c] = "none" => status[c] = "none" \/ e = Close(c),
         orphans \subseteq orphans'
  PROVE  /\ NewIsLive'
         /\ \A c \in Conns : \A i, j \in 1 .. Len(client') :
              (client'[i] = New(c) /\ client'[j] = New(c)) => i = j
<1>1. client \in Seq(UpCommand) /\ Len(client) \in Nat BY DEF TypeOK
<1>2. /\ Len(client') = Len(client) + 1
      /\ \A i \in 1 .. Len(client) : client'[i] = client[i]
      /\ client'[Len(client) + 1] = e
  BY <1>1, AppendFacts
<1>3. \A i \in 1 .. Len(client') : i \in 1 .. Len(client) \/ i = Len(client) + 1 BY <1>1, <1>2
<1>4. \A i \in 1 .. Len(client) : i \in 1 .. Len(client') /\ i < Len(client) + 1 BY <1>1, <1>2
<1>5. Len(client) + 1 \in 1 .. Len(client') BY <1>1, <1>2
<1>6. ASSUME NEW c \in Conns, NEW i \in 1 .. Len(client'), NEW j \in 1 .. Len(client'),
             client'[i] = New(c), client'[j] = New(c)
      PROVE  i = j
  <2>1. CASE i \in 1 .. Len(client) /\ j \in 1 .. Len(client)
    BY <1>2, <1>6, <2>1 DEF MainInv, NewOnce
  <2>2. CASE i \in 1 .. Len(client) /\ j = Len(client) + 1
    BY <1>2, <1>6, <2>2 DEF InClient
  <2>3. CASE i = Len(client) + 1 /\ j \in 1 .. Len(client)
    BY <1>2, <1>6, <2>3 DEF InClient
  <2> QED BY <1>3, <2>1, <2>2, <2>3
<1>7. ASSUME NEW c \in Conns, NEW i \in 1 .. Len(client'), client'[i] = New(c)
      PROVE  \/ status'[c] # "none"
             \/ \E j \in 1 .. Len(client') : i < j /\ client'[j] = Close(c)
             \/ c \in orphans'
  <2>1. CASE i \in 1 .. Len(client)
    <3>1. client[i] = New(c) BY <1>2, <1>7, <2>1
    <3>2. \/ status[c] # "none"
          \/ \E j \in 1 .. Len(client) : i < j /\ client[j] = Close(c)
          \/ c \in orphans
      BY <2>1, <3>1 DEF MainInv, NewIsLive
    <3>3. CASE e = Close(c) BY <1>2, <1>4, <1>5, <2>1, <3>3
    <3>4. CASE \E j \in 1 .. Len(client) : i < j /\ client[j] = Close(c) BY <1>2, <1>4, <3>4
    <3> QED BY <3>2, <3>3, <3>4
  <2>2. CASE i = Len(client) + 1 BY <1>2, <1>7, <2>2
  <2> QED BY <1>3, <2>1, <2>2
<1>8. NewIsLive' BY <1>7 DEF NewIsLive
<1> QED BY <1>6, <1>8

(* The acceptor, which announces NEW, keeps the third layer. *)
LEMMA AcceptorMain == TypeOK /\ RouteInv /\ ReactorInv /\ MainInv /\ Acceptor => MainInv'
<1> SUFFICES ASSUME TypeOK, RouteInv, ReactorInv, MainInv, Acceptor PROVE MainInv' OBVIOUS
<1> USE AccFacts
<1> USE DEF netVars, mapVars, mainVars
<1>1. ASSUME acc.pc # "announce", UNCHANGED booksVars PROVE MainInv'
  BY <1>1 DEF booksVars, MainInv, NewOnce, CloseIsCounted, CloseWasAsked, MainBooks, NewIsLive,
              LiveIsKnown, EntryIsLive, InClient
<1>2. CASE \/ \E c \in Conns : Accept(c)
           \/ ScanThread \/ ChooseThread \/ RegisterSocket \/ InsertSocket
  BY <1>1, <1>2 DEF Accept, ScanThread, ChooseThread, RegisterSocket, InsertSocket, booksVars
<1>3. CASE InsertConnection
  <2>1. /\ acc'.pc = "announce" /\ acc'.conn = acc.conn /\ acc.conn \in Conns /\ acc.pc = "connections"
        /\ status' = [status EXCEPT ![acc.conn] = "connected"]
        /\ UNCHANGED <<client, known, infos, disconnected, command, closes, orphans>>
    BY <1>3 DEF InsertConnection
  <2>2. \A d \in Conns : status'[d] = IF d = acc.conn THEN "connected" ELSE status[d]
    BY <2>1 DEF TypeOK
  <2>3. NewIsLive' BY <2>1, <2>2 DEF MainInv, NewIsLive
  <2>4. LiveIsKnown' BY <2>1, <2>2 DEF MainInv, LiveIsKnown, InClient
  <2>5. EntryIsLive'
    <3>1. infos \subseteq Conns BY DEF TypeOK
    <3> QED BY <2>1, <2>2, <3>1 DEF MainInv, EntryIsLive, InClient
  <2> QED BY <2>1, <2>3, <2>4, <2>5 DEF MainInv, NewOnce, CloseIsCounted, CloseWasAsked, MainBooks,
                                        InClient
<1>4. CASE AnnounceNew
  <2> DEFINE c0 == acc.conn
  <2>1. /\ acc.pc = "announce" /\ c0 \in Conns /\ acc'.pc = "accept"
        /\ client' = Append(client, New(c0))
        /\ orphans' = IF status[c0] = "none" THEN orphans \cup {c0} ELSE orphans
        /\ UNCHANGED <<known, infos, disconnected, command, status, closes>>
    BY <1>4 DEF AnnounceNew, AccIdle
  <2>2. New(c0) \in UpCommand BY <2>1, CommandTypes
  <2>3. c0 \notin known /\ ~InClient(New(c0)) BY <2>1 DEF RouteInv, HeardLater, Unannounced
  <2>4. \A x : InClient(x)' <=> InClient(x) \/ x = New(c0) BY <2>1, <2>2, ClientAppend
  <2>5. \A c \in Conns : (New(c0) = New(c) => c = c0) /\ New(c0) # Close(c) BY DEF New, Close
  <2>6. /\ NewIsLive'
        /\ \A c \in Conns : \A i, j \in 1 .. Len(client') :
              (client'[i] = New(c) /\ client'[j] = New(c)) => i = j
    <3>1. /\ \A c \in Conns : New(c0) = New(c) => ~InClient(New(c))
          /\ \A c \in Conns : New(c0) = New(c) => status'[c] # "none" \/ c \in orphans'
          /\ \A c \in Conns : status'[c] = "none" => status[c] = "none" \/ New(c0) = Close(c)
          /\ orphans \subseteq orphans'
      BY <2>1, <2>3, <2>5
    <3> QED BY <2>1, <2>2, <3>1, AppendBooks
  <2>7. \A c \in known : c \in Conns /\ c # c0 BY <2>3 DEF TypeOK
  <2>8. NewOnce' BY <2>1, <2>4, <2>5, <2>6, <2>7 DEF MainInv, NewOnce
  <2>9. CloseIsCounted' BY <2>1, <2>4, <2>5 DEF MainInv, CloseIsCounted
  <2>10. LiveIsKnown' BY <2>1, <2>4 DEF MainInv, LiveIsKnown
  <2>11. EntryIsLive' BY <2>1, <2>4 DEF MainInv, EntryIsLive
  <2> QED BY <2>1, <2>6, <2>8, <2>9, <2>10, <2>11 DEF MainInv, CloseWasAsked, MainBooks
<1> QED BY <1>2, <1>3, <1>4 DEF Acceptor

(* A report of a net thread keeps the third layer. *)
LEMMA PushUpMain ==
  ASSUME TypeOK, RouteInv, ReactorInv, MainInv, NEW t \in Threads, PushUp(t)
  PROVE  MainInv'
<1> DEFINE cmd == Head(outbox[t])
<1>1. cmd \in UpCommand /\ client' = Append(client, cmd) BY PushUpFacts
<1>2. cmd.type # "NEW" /\ status[cmd.id] # "none"
  <2>1. cmd = outbox[t][1] /\ 1 \in 1 .. Len(outbox[t]) BY PushUpFacts
  <2> QED BY <2>1, OutboxFacts DEF RouteInv, NoNewInOutbox
<1>3. UNCHANGED <<acc, known, infos, disconnected, command, orphans>>
  BY DEF PushUp, accVars, mainVars
<1>4. IF cmd.type = "CLOSE"
      THEN CloseSocket(cmd.id) /\ closes' = [closes EXCEPT ![cmd.id] = @ + 1]
      ELSE UNCHANGED <<mapVars, closes>>
  BY DEF PushUp
<1>5. UNCHANGED accVars BY DEF PushUp
<1> HIDE DEF cmd
<1>6. cmd.id \in Conns /\ (cmd.type = "CLOSE" => cmd = Close(cmd.id)) BY <1>1, UpCommandFacts
<1>7. \A c \in Conns : cmd # New(c) /\ (cmd = Close(c) => c = cmd.id /\ cmd.type = "CLOSE")
  BY <1>2 DEF New, Close
<1>8. /\ \A c \in Conns : status'[c] = IF cmd = Close(c) THEN "none" ELSE status[c]
      /\ \A c \in Conns : closes[c] > 0 => closes'[c] > 0
      /\ \A c \in Conns : cmd = Close(c) => closes'[c] > 0
  <2>1. CASE cmd.type = "CLOSE"
    <3>1. CloseSocket(cmd.id) /\ closes' = [closes EXCEPT ![cmd.id] = @ + 1] BY <1>4, <2>1
    <3>2. /\ status'[cmd.id] = "none"
          /\ \A d \in Conns \ {cmd.id} : status'[d] = status[d]
      BY <1>2, <1>5, <1>6, <3>1, CloseReactor
    <3>3. /\ closes'[cmd.id] = closes[cmd.id] + 1 /\ closes[cmd.id] \in Nat
          /\ \A d \in Conns \ {cmd.id} : closes'[d] = closes[d]
      BY <1>6, <3>1 DEF TypeOK
    <3>4. closes'[cmd.id] > 0 BY <3>3
    <3> QED BY <1>6, <1>7, <2>1, <3>2, <3>3, <3>4
  <2>2. CASE cmd.type # "CLOSE" BY <1>4, <1>7, <2>2 DEF mapVars
  <2> QED BY <2>1, <2>2
<1>9. \A x : InClient(x)' <=> InClient(x) \/ x = cmd BY <1>1, ClientAppend
<1>10. /\ NewIsLive'
       /\ \A c \in Conns : \A i, j \in 1 .. Len(client') :
              (client'[i] = New(c) /\ client'[j] = New(c)) => i = j
  <2>1. \A c \in Conns : status'[c] = "none" => status[c] = "none" \/ cmd = Close(c) BY <1>8
  <2>2. orphans \subseteq orphans' BY <1>3
  <2> QED BY <1>1, <1>7, <2>1, <2>2, AppendBooks
<1>11. \A c \in known : c \in Conns BY DEF TypeOK
<1>12. \A c \in infos : c \in Conns BY DEF TypeOK
<1>13. NewOnce' BY <1>3, <1>7, <1>9, <1>10, <1>11 DEF MainInv, NewOnce
<1>14. CloseIsCounted' BY <1>8, <1>9 DEF MainInv, CloseIsCounted
<1>15. LiveIsKnown' BY <1>3, <1>8, <1>9 DEF MainInv, LiveIsKnown
<1>16. EntryIsLive' BY <1>3, <1>8, <1>9, <1>12 DEF MainInv, EntryIsLive
<1> QED BY <1>3, <1>10, <1>13, <1>14, <1>15, <1>16 DEF MainInv, CloseWasAsked, MainBooks

(* Executing a command of the main thread keeps the third layer. *)
LEMMA OnNetCommandMain ==
  ASSUME TypeOK, RouteInv, ReactorInv, MainInv, NEW t \in Threads, OnNetCommand(t)
  PROVE  MainInv'
<1>1. UNCHANGED <<acc, client, known, infos, disconnected, closes, orphans>>
  BY DEF OnNetCommand, accVars, mainVars
<1>2. CloseWasAsked' BY <1>1, TakeCommand DEF MainInv, CloseWasAsked
<1>3. NewOnce' /\ CloseIsCounted' /\ MainBooks'
  BY <1>1 DEF MainInv, NewOnce, CloseIsCounted, MainBooks, InClient
<1>4. \A c \in infos : c \in Conns BY DEF TypeOK
<1>5. ASSUME \A c \in Conns : status'[c] = "none" <=> status[c] = "none" PROVE MainInv'
  BY <1>1, <1>2, <1>3, <1>4, <1>5 DEF MainInv, NewIsLive, LiveIsKnown, EntryIsLive, InClient
<1>6. CASE UNCHANGED mapVars BY <1>5, <1>6 DEF mapVars
<1>7. ASSUME NEW failed \in SUBSET Conns, \A c \in failed : status[c] = "connected",
             SendFails(failed)
      PROVE  MainInv'
  BY <1>5, <1>7 DEF SendFails
<1>8. ASSUME NEW c \in Conns, Head(command[t]).id = c, Head(command[t]).type = "CLOSE",
             status[c] = "connected", CloseSocket(c)
      PROVE  MainInv'
  <2>1. c \in disconnected BY <1>8, TakeCommand DEF MainInv, CloseWasAsked
  <2>2. c \notin infos /\ ~InClient(New(c)) BY <2>1 DEF MainInv, MainBooks, NewOnce
  <2>3. \A d \in Conns : status'[d] = IF d = c THEN "none" ELSE status[d]
    <3>1. UNCHANGED accVars /\ UNCHANGED closes BY DEF OnNetCommand
    <3>2. status[c] # "none" BY <1>8
    <3> QED BY <1>8, <3>1, <3>2, CloseReactor
  <2>4. NewIsLive' BY <1>1, <2>2, <2>3 DEF MainInv, NewIsLive, InClient
  <2>5. LiveIsKnown' BY <1>1, <2>3 DEF MainInv, LiveIsKnown, InClient
  <2>6. EntryIsLive' BY <1>1, <1>4, <2>2, <2>3 DEF MainInv, EntryIsLive, InClient
  <2> QED BY <1>2, <1>3, <2>4, <2>5, <2>6 DEF MainInv
<1> QED BY <1>6, <1>7, <1>8, CommandCases

(* The net threads keep the third layer. *)
LEMMA NetThreadMain == TypeOK /\ RouteInv /\ ReactorInv /\ MainInv /\ NetThread => MainInv'
<1> SUFFICES ASSUME TypeOK, RouteInv, ReactorInv, MainInv, NetThread PROVE MainInv' OBVIOUS
<1>1. ASSUME NEW c \in Conns, SocketEvent(c) \/ SendMessageError(c) PROVE MainInv'
  BY <1>1, FrameMain DEF SocketEvent, SendMessageError, booksVars, accVars, mapVars, mainVars
<1> QED BY <1>1, PushUpMain, OnNetCommandMain DEF NetThread

(* A command pushed down keeps CLOSE commands accounted for. *)
LEMMA PushDownAsked ==
  ASSUME TypeOK, CloseWasAsked, NEW c \in Conns, owner[c] \in Threads,
         NEW type \in {"MESSAGE", "CLOSE", "ENABLE_BROADCAST", "DISABLE_BROADCAST"},
         PushDown(c, type), disconnected \subseteq disconnected',
         type = "CLOSE" => c \in disconnected'
  PROVE  CloseWasAsked'
<1> DEFINE u == owner[c]
<1>1. /\ \A t \in Threads : t # u => command'[t] = command[t]
      /\ Len(command'[u]) = Len(command[u]) + 1
      /\ \A i \in 1 .. Len(command[u]) : command'[u][i] = command[u][i]
      /\ command'[u][Len(command[u]) + 1] = [type |-> type, id |-> c]
  BY PushDownFacts
<1>2. Len(command[u]) \in Nat BY DEF TypeOK
<1> SUFFICES ASSUME NEW t \in Threads, NEW i \in 1 .. Len(command'[t]),
                    command'[t][i].type = "CLOSE"
             PROVE  command'[t][i].id \in disconnected'
  BY DEF CloseWasAsked
<1>3. CASE t # u BY <1>1, <1>3 DEF CloseWasAsked
<1>4. CASE t = u /\ i \in 1 .. Len(command[u]) BY <1>1, <1>4 DEF CloseWasAsked
<1>5. CASE t = u /\ i = Len(command[u]) + 1 BY <1>1, <1>5
<1> QED BY <1>1, <1>2, <1>3, <1>4, <1>5

(* TcpService::disconnect of a known connection. *)
LEMMA DisconnectMain ==
  ASSUME TypeOK, RouteInv, MainInv, NEW c \in known, Disconnect(c), UNCHANGED known
  PROVE  CloseWasAsked' /\ MainBooks'
<1>1. c \in Conns /\ owner[c] \in Threads BY KnownOwner
<1>2. CloseWasAsked' BY <1>1, PushDownAsked DEF Disconnect, MainInv
<1>3. MainBooks' BY DEF Disconnect, MainInv, MainBooks
<1> QED BY <1>2, <1>3

(* processNetCommand and the application keep the third layer. *)
LEMMA ServiceMain == TypeOK /\ RouteInv /\ ReactorInv /\ MainInv
                       /\ (ProcessNetCommand \/ Application) => MainInv'
<1> SUFFICES ASSUME TypeOK, RouteInv, ReactorInv, MainInv, ProcessNetCommand \/ Application
             PROVE  MainInv'
  OBVIOUS
<1> USE DEF accVars, netVars, mapVars
<1>1. ASSUME NEW cmd, PopClient(cmd)
      PROVE  /\ \A x : InClient(x)' => InClient(x)
             /\ \A x : InClient(x) => InClient(x)' \/ x = cmd
             /\ InClient(cmd)
  BY <1>1, ClientTail DEF PopClient
<1>2. ASSUME NEW cmd, PopClient(cmd), UNCHANGED <<status, orphans, closes>>
      PROVE  /\ NewIsLive' /\ CloseIsCounted'
             /\ \A c \in Conns : \A i, j \in 1 .. Len(client') :
                  (client'[i] = New(c) /\ client'[j] = New(c)) => i = j
  BY <1>2, PopBooks DEF PopClient
<1>3. \A c \in known : c \in Conns BY DEF TypeOK
<1>4. \A c \in infos : c \in Conns BY DEF TypeOK
<1>5. ASSUME NEW c \in Conns, ProcessNew(c) PROVE MainInv'
  <2>1. /\ PopClient(New(c)) /\ infos' = infos \cup {c} /\ known' = known \cup {c}
        /\ UNCHANGED <<acc, status, orphans, closes, command, disconnected>>
    BY <1>5 DEF ProcessNew
  <2>2. /\ client[1] = New(c) /\ 1 \in 1 .. Len(client)
        /\ \A x : (\E j \in 1 .. Len(client) : 1 < j /\ client[j] = x) => InClient(x)'
    BY <2>1, PopFacts
  <2>3. /\ NewIsLive' /\ CloseIsCounted'
        /\ \A d \in Conns : \A i, j \in 1 .. Len(client') :
             (client'[i] = New(d) /\ client'[j] = New(d)) => i = j
    BY <1>2, <2>1
  <2>4. /\ \A x : InClient(x)' => InClient(x)
        /\ \A x : InClient(x) => InClient(x)' \/ x = New(c)
        /\ InClient(New(c))
    BY <1>1, <2>1
  <2>5. c \notin known BY <2>4 DEF MainInv, NewOnce
  <2>6. ~InClient(New(c))'
    <3> SUFFICES ASSUME InClient(New(c))' PROVE FALSE OBVIOUS
    <3>1. client \in Seq(UpCommand) /\ client # << >> /\ client' = Tail(client)
      BY <2>1 DEF TypeOK, PopClient
    <3>2. /\ Len(client) \in Nat /\ Len(client') = Len(client) - 1
          /\ \A i \in 1 .. Len(client') : client'[i] = client[i + 1]
      BY <3>1, TailFacts
    <3>3. PICK i \in 1 .. Len(client') : client'[i] = New(c) BY DEF InClient
    <3>4. i + 1 \in 1 .. Len(client) /\ client[i + 1] = New(c) /\ i + 1 # 1 BY <3>2, <3>3
    <3> QED BY <2>2, <3>4 DEF MainInv, NewOnce
  <2>7. \A d \in Conns : New(c) = New(d) => d = c BY DEF New
  <2>8. \A d \in Conns : New(c) # Close(d) BY DEF New, Close
  <2>9. NewOnce' BY <2>1, <2>3, <2>4, <2>6 DEF MainInv, NewOnce
  <2>10. MainBooks' BY <2>1, <2>5 DEF MainInv, MainBooks
  <2>11. LiveIsKnown' BY <2>1, <2>4, <2>7 DEF MainInv, LiveIsKnown
  <2>12. EntryIsLive'
    <3>1. status[c] # "none" \/ InClient(Close(c))' \/ c \in orphans
      BY <2>2 DEF MainInv, NewIsLive
    <3>2. \A d \in infos : status[d] # "none" \/ InClient(Close(d))' \/ d \in orphans
      BY <1>4, <2>4, <2>8 DEF MainInv, EntryIsLive
    <3> QED BY <2>1, <3>1, <3>2 DEF EntryIsLive
  <2> QED BY <2>1, <2>3, <2>9, <2>10, <2>11, <2>12 DEF MainInv, CloseWasAsked
<1>6. ASSUME NEW c \in Conns, ProcessClose(c) PROVE MainInv'
  <2>1. /\ PopClient(Close(c)) /\ infos' = infos \ {c}
        /\ UNCHANGED <<acc, status, orphans, closes, command, disconnected, known>>
    BY <1>6 DEF ProcessClose
  <2>2. /\ NewIsLive' /\ CloseIsCounted'
        /\ \A d \in Conns : \A i, j \in 1 .. Len(client') :
             (client'[i] = New(d) /\ client'[j] = New(d)) => i = j
    BY <1>2, <2>1
  <2>3. /\ \A x : InClient(x)' => InClient(x)
        /\ \A x : InClient(x) => InClient(x)' \/ x = Close(c)
        /\ InClient(Close(c))
    BY <1>1, <2>1
  <2>4. status[c] = "none"
    <3>1. closes[c] \in Nat /\ closes[c] > 0 /\ closes[c] <= 1
      BY <2>3 DEF TypeOK, MainInv, CloseIsCounted, ReactorInv, CloseReportedOnce
    <3>2. closes[c] = 1 BY <3>1
    <3> QED BY <3>2 DEF ReactorInv, CloseReportedOnce
  <2>5. \A d \in Conns : (Close(c) = Close(d) => d = c) /\ Close(c) # New(d) BY DEF New, Close
  <2>6. NewOnce' BY <2>1, <2>2, <2>3 DEF MainInv, NewOnce
  <2>7. MainBooks' BY <2>1 DEF MainInv, MainBooks
  <2>8. LiveIsKnown' BY <2>1, <2>3, <2>4, <2>5 DEF MainInv, LiveIsKnown
  <2>9. EntryIsLive' BY <1>4, <2>1, <2>3, <2>5 DEF MainInv, EntryIsLive
  <2> QED BY <2>1, <2>2, <2>6, <2>7, <2>8, <2>9 DEF MainInv, CloseWasAsked
<1>7. ASSUME NEW c \in Conns, NEW n \in 1 .. MaxMsgs, ProcessMessage(c, n) PROVE MainInv'
  <2>1. /\ PopClient(Message(c, n))
        /\ UNCHANGED <<acc, status, orphans, closes, known>>
        /\ \/ UNCHANGED <<command, infos, disconnected>>
           \/ c \in infos /\ Disconnect(c)
    BY <1>7 DEF ProcessMessage
  <2>2. /\ NewIsLive' /\ CloseIsCounted'
        /\ \A d \in Conns : \A i, j \in 1 .. Len(client') :
             (client'[i] = New(d) /\ client'[j] = New(d)) => i = j
    BY <1>2, <2>1
  <2>3. /\ \A x : InClient(x)' => InClient(x)
        /\ \A x : InClient(x) => InClient(x)' \/ x = Message(c, n)
    BY <1>1, <2>1
  <2>4. \A d \in Conns : Message(c, n) # Close(d) /\ Message(c, n) # New(d)
    BY DEF New, Close, Message
  <2>5. NewOnce' BY <2>1, <2>2, <2>3 DEF MainInv, NewOnce
  <2>6. CloseWasAsked' /\ MainBooks'
    <3>1. CASE UNCHANGED <<command, infos, disconnected>>
      BY <2>1, <3>1 DEF MainInv, CloseWasAsked, MainBooks
    <3>2. CASE c \in infos /\ Disconnect(c)
      BY <2>1, <3>2, DisconnectMain DEF RouteInv, EntryIsKnown
    <3> QED BY <2>1, <3>1, <3>2
  <2>7. infos' \subseteq infos /\ disconnected \subseteq disconnected' /\ infos \ infos' \subseteq disconnected'
    BY <2>1 DEF Disconnect
  <2>8. LiveIsKnown' BY <2>1, <2>3, <2>4, <2>7 DEF MainInv, LiveIsKnown
  <2>9. EntryIsLive' BY <1>4, <2>1, <2>3, <2>4, <2>7 DEF MainInv, EntryIsLive
  <2> QED BY <2>2, <2>5, <2>6, <2>8, <2>9 DEF MainInv
<1>8. ASSUME NEW c \in Conns, AppCall(c) PROVE MainInv'
  <2>1. c \in known /\ UNCHANGED <<acc, status, orphans, closes, known, client>> BY <1>8 DEF AppCall
  <2>2. CASE Disconnect(c)
    <3>1. CloseWasAsked' /\ MainBooks' BY <2>1, <2>2, DisconnectMain
    <3>2. LiveIsKnown' BY <2>1, <2>2 DEF Disconnect, MainInv, LiveIsKnown, InClient
    <3>3. EntryIsLive' BY <2>1, <2>2 DEF Disconnect, MainInv, EntryIsLive, InClient
    <3> QED BY <2>1, <3>1, <3>2, <3>3 DEF MainInv, NewOnce, CloseIsCounted, NewIsLive, InClient
  <2>3. ASSUME NEW type \in {"MESSAGE", "ENABLE_BROADCAST", "DISABLE_BROADCAST"},
               PushDown(c, type), UNCHANGED <<infos, disconnected>>
        PROVE  MainInv'
    <3>1. owner[c] \in Threads BY <2>1, KnownOwner
    <3>2. CloseWasAsked' BY <2>3, <3>1, PushDownAsked DEF MainInv
    <3> QED BY <2>1, <2>3, <3>2 DEF MainInv, NewOnce, CloseIsCounted, MainBooks, NewIsLive,
                                    LiveIsKnown, EntryIsLive, InClient
  <2> QED BY <1>8, <2>2, <2>3 DEF AppCall
<1>9. CASE AppBroadcast
  <2>1. UNCHANGED <<acc, status, orphans, closes, known, infos, disconnected, client>>
    BY <1>9 DEF AppBroadcast
  <2>2. CloseWasAsked'
    <3> SUFFICES ASSUME NEW t \in Threads, NEW i \in 1 .. Len(command'[t]),
                        command'[t][i].type = "CLOSE"
                 PROVE  command'[t][i].id \in disconnected
      BY <2>1 DEF CloseWasAsked
    <3> DEFINE e == [type |-> "BROADCAST"]
    <3>1. command[t] \in Seq(DownCommand) /\ e \in DownCommand /\ e.type = "BROADCAST"
      BY DEF TypeOK, DownCommand
    <3>2. command'[t] = Append(command[t], e) BY <1>9 DEF AppBroadcast
    <3> HIDE DEF e
    <3>3. /\ Len(command'[t]) = Len(command[t]) + 1 /\ Len(command[t]) \in Nat
          /\ \A j \in 1 .. Len(command[t]) : command'[t][j] = command[t][j]
          /\ command'[t][Len(command[t]) + 1] = e
      BY <3>1, <3>2, AppendFacts
    <3>4. i \in 1 .. Len(command[t]) BY <3>1, <3>3
    <3> QED BY <3>3, <3>4 DEF MainInv, CloseWasAsked
  <2> QED BY <2>1, <2>2 DEF MainInv, NewOnce, CloseIsCounted, MainBooks, NewIsLive, LiveIsKnown,
                            EntryIsLive, InClient
<1> QED BY <1>5, <1>6, <1>7, <1>8, <1>9 DEF ProcessNetCommand, Application

(* Every step keeps the third layer. *)
LEMMA NextMain == TypeOK /\ RouteInv /\ ReactorInv /\ MainInv /\ [Next]_vars => MainInv'
<1> SUFFICES ASSUME TypeOK, RouteInv, ReactorInv, MainInv, [Next]_vars PROVE MainInv' OBVIOUS
<1> USE DEF booksVars, accVars, netVars, mapVars, mainVars
<1>1. CASE Clients BY <1>1, FrameMain DEF Clients, Connect, SendPacket, Hangup
<1>2. CASE UNCHANGED vars BY <1>2, FrameMain DEF vars
<1> QED BY <1>1, <1>2, AcceptorMain, NetThreadMain, ServiceMain DEF Next

----------------------------------------------------------------------------
(* The inductive invariant holds of the server, whatever the number of
   connections, net threads, packets and application calls. *)
THEOREM Invariance == Spec => []IInv
<1>1. Init => IInv BY InitType, InitRoute, InitReactor, InitMain DEF IInv
<1>2. IInv /\ [Next]_vars => IInv' BY NextType, NextRoute, NextReactor, NextMain DEF IInv
<1> QED BY <1>1, <1>2, PTL DEF Spec

(* The epoll set, sockets_ and connections_ of a reactor agree on every
   socket that the acceptor is not attaching right now. *)
THEOREM ReactorMapsAgree == Spec => []MapsAgree
BY Invariance, PTL DEF IInv, ReactorInv

(* Whatever paths of read, decode, encode, error and timer meet on a
   connection, NetThread::closeSocket runs for it once at most. *)
THEOREM OneCloseReport == Spec => []CloseReportedOnce
BY Invariance, PTL DEF IInv, ReactorInv

(* A send error that sendMessage defers is never without the timer that acts
   on it. *)
THEOREM DeferredErrorHasTimer == Spec => []PendingErrorHasTimer
BY Invariance, PTL DEF IInv, ReactorInv

(* connection_infos_ misses no announced live connection that the
   application has not disconnected. *)
THEOREM NoForgottenConnection == Spec => []LiveIsKnown
BY Invariance, PTL DEF IInv, MainInv

(* connection_infos_ keeps no entry of a dead connection whose CLOSE is not
   on its way, orphans excepted. *)
THEOREM NoStaleEntry == Spec => []EntryIsLive
BY Invariance, PTL DEF IInv, MainInv

----------------------------------------------------------------------------
(* How the acceptor spreads the connections.  The counts it reads are those
   of the connections it has assigned as long as none of them has ended, and
   a connection that has ended never comes back. *)

Load(t) == Cardinality({c \in Conns : owner[c] = t})

NothingEnded == \A c \in Conns : owner[c] # NoThread => status[c] # "none" \/ Attaching(c)

EvenlyAssigned == \A t, u \in Threads : Load(t) <= Load(u) + 1

(* The scan remembers the least loaded of the threads it has looked at. *)
ScanFoundLeast == acc.pc = "scan" =>
                    /\ acc.least = Load(acc.best)
                    /\ \A u \in 0 .. acc.next - 1 : acc.least <= Load(u)

SpreadInv == NothingEnded => EvenlyAssigned /\ ScanFoundLeast

LEMMA LoadType == \A t : Load(t) \in Nat
<1> SUFFICES ASSUME NEW t PROVE Load(t) \in Nat OBVIOUS
<1>1. IsFiniteSet({c \in Conns : owner[c] = t}) BY ConnsAssumption, FS_Subset
<1> QED BY <1>1, FS_CardinalityType DEF Load

(* What the acceptor counts, when nothing has ended. *)
LEMMA CountIsLoad ==
  ASSUME NothingEnded, \A c \in Conns : ~Attaching(c), NEW t \in Threads
  PROVE  ConnectionNum(t) = Load(t)
<1>1. t # NoThread BY ThreadsAssumption DEF Threads, NoThread
<1>2. {c \in Conns : owner[c] = t /\ status[c] # "none"} = {c \in Conns : owner[c] = t}
  BY <1>1 DEF NothingEnded
<1> QED BY <1>2 DEF ConnectionNum, Load

LEMMA InitSpread == Init => SpreadInv
<1> SUFFICES ASSUME Init PROVE SpreadInv OBVIOUS
<1>1. \A t \in Threads : {c \in Conns : owner[c] = t} = {}
  BY ThreadsAssumption DEF Init, Threads, NoThread
<1>2. \A t \in Threads : Load(t) = 0 BY <1>1, FS_EmptySet DEF Load
<1>3. EvenlyAssigned BY <1>2 DEF EvenlyAssigned
<1>4. acc.pc # "scan" BY DEF Init, AccIdle
<1> QED BY <1>3, <1>4 DEF SpreadInv, ScanFoundLeast

(* Outside the acceptor, a connection that is in no reactor stays out. *)
LEMMA EndedStays ==
  ASSUME TypeOK, RouteInv, ReactorInv,
         Clients \/ NetThread \/ ProcessNetCommand \/ Application \/ UNCHANGED vars
  PROVE  /\ UNCHANGED accVars
         /\ \A c \in Conns : status[c] = "none" => status'[c] = "none"
<1> USE DEF peerVars, accVars, netVars, mapVars, mainVars
<1>1. CASE Clients BY <1>1 DEF Clients, Connect, SendPacket, Hangup
<1>2. CASE ProcessNetCommand
  BY <1>2 DEF ProcessNetCommand, ProcessNew, ProcessClose, ProcessMessage
<1>3. CASE Application BY <1>3 DEF Application, AppBroadcast, AppCall
<1>4. CASE UNCHANGED vars BY <1>4 DEF vars
<1>5. ASSUME NEW c \in Conns, SocketEvent(c) \/ SendMessageError(c)
      PROVE  UNCHANGED accVars /\ UNCHANGED status
  BY <1>5 DEF SocketEvent, SendMessageError
<1>6. \A d \in Conns : CloseSocket(d) =>
         \A c \in Conns : status[c] = "none" => status'[c] = "none"
  BY DEF CloseSocket, TypeOK
<1>7. ASSUME NEW t \in Threads, PushUp(t)
      PROVE  /\ UNCHANGED accVars
             /\ \A c \in Conns : status[c] = "none" => status'[c] = "none"
  <2>1. Head(outbox[t]).id \in Conns BY <1>7, PushUpFacts, UpCommandFacts
  <2>2. UNCHANGED accVars BY <1>7 DEF PushUp
  <2>3. CloseSocket(Head(outbox[t]).id) \/ UNCHANGED status BY <1>7 DEF PushUp
  <2> QED BY <1>6, <2>1, <2>2, <2>3
<1>8. ASSUME NEW t \in Threads, OnNetCommand(t)
      PROVE  /\ UNCHANGED accVars
             /\ \A c \in Conns : status[c] = "none" => status'[c] = "none"
  <2>1. UNCHANGED accVars BY <1>8 DEF OnNetCommand
  <2>2. ASSUME NEW failed \in SUBSET Conns, \A c \in failed : status[c] = "connected",
               SendFails(failed), NEW c \in Conns, status[c] = "none"
        PROVE  status'[c] = "none"
    BY <2>2 DEF SendFails
  <2> QED BY <1>6, <1>8, <2>1, <2>2, CommandCases
<1>9. CASE NetThread BY <1>5, <1>7, <1>8, <1>9 DEF NetThread
<1> QED BY <1>1, <1>2, <1>3, <1>4, <1>9

(* The connection that is assigned adds one to the load of its thread. *)
LEMMA OneMore ==
  ASSUME TypeOK, NEW c \in Conns, NEW b \in Threads, owner[c] = NoThread,
         owner' = [owner EXCEPT ![c] = b]
  PROVE  /\ Load(b)' = Load(b) + 1
         /\ \A t \in Threads : t # b => Load(t)' = Load(t)
<1>1. owner \in [Conns -> Threads \cup {NoThread}] BY DEF TypeOK
<1>2. NoThread \notin Threads BY ThreadsAssumption DEF Threads, NoThread
<1> DEFINE S == {d \in Conns : owner[d] = b}
<1>3. {d \in Conns : owner'[d] = b} = S \cup {c} BY <1>1
<1>4. c \notin S BY <1>2
<1>5. IsFiniteSet(S) BY ConnsAssumption, FS_Subset
<1>6. Cardinality(S \cup {c}) = Cardinality(S) + 1 BY <1>4, <1>5, FS_AddElement
<1>7. Load(b)' = Load(b) + 1 BY <1>3, <1>6 DEF Load
<1>8. ASSUME NEW t \in Threads, t # b PROVE Load(t)' = Load(t)
  <2>1. {d \in Conns : owner'[d] = t} = {d \in Conns : owner[d] = t} BY <1>1, <1>2, <1>8
  <2> QED BY <2>1 DEF Load
<1> QED BY <1>7, <1>8

(* The acceptor's steps, as far as the spread is concerned. *)
LEMMA AcceptorSpread ==
  ASSUME TypeOK, RouteInv, ReactorInv, SpreadInv, Acceptor
  PROVE  SpreadInv'
<1> USE DEF accVars, netVars, mapVars
<1>1. acc \in AccType /\ owner \in [Conns -> Threads \cup {NoThread}] BY DEF TypeOK
<1>2. ASSUME NothingEnded => NothingEnded, NothingEnded' => NothingEnded,
             UNCHANGED owner, acc'.pc # "scan"
      PROVE  SpreadInv'
  BY <1>2 DEF SpreadInv, EvenlyAssigned, ScanFoundLeast, Load
<1>3. ASSUME NEW c \in Conns, Accept(c) PROVE SpreadInv'
  <2>1. /\ acc.pc = "accept" /\ UNCHANGED <<owner, status>>
        /\ acc' = [pc |-> "scan", conn |-> c, next |-> 1, best |-> 0,
                   least |-> ConnectionNum(0)]
    BY <1>3 DEF Accept
  <2>2. \A d \in Conns : ~Attaching(d) BY <2>1 DEF Attaching
  <2>3. NothingEnded' => NothingEnded BY <2>1 DEF NothingEnded, Attaching
  <2>4. ASSUME NothingEnded PROVE EvenlyAssigned' /\ ScanFoundLeast'
    <3>1. 0 \in Threads BY ThreadsAssumption DEF Threads
    <3>2. acc'.least = Load(0) BY <2>1, <2>2, <2>4, <3>1, CountIsLoad
    <3>3. Load(0) \in Nat BY LoadType
    <3>4. Load(0)' = Load(0) BY <2>1 DEF Load
    <3>5. acc'.best = 0 /\ acc'.next = 1 BY <2>1
    <3>6. \A u \in 0 .. acc'.next - 1 : u = 0 BY <3>5
    <3>7. ScanFoundLeast' BY <3>2, <3>3, <3>4, <3>5, <3>6 DEF ScanFoundLeast
    <3>8. EvenlyAssigned' BY <2>1, <2>4 DEF SpreadInv, EvenlyAssigned, Load
    <3> QED BY <3>7, <3>8
  <2> QED BY <2>3, <2>4 DEF SpreadInv
<1>4. CASE ScanThread
  <2>1. /\ acc.pc = "scan" /\ acc.next < NumThreads /\ UNCHANGED <<owner, status>>
        /\ acc' = IF ConnectionNum(acc.next) < acc.least
                  THEN [acc EXCEPT !.next = @ + 1, !.best = acc.next,
                                   !.least = ConnectionNum(acc.next)]
                  ELSE [acc EXCEPT !.next = @ + 1]
    BY <1>4 DEF ScanThread
  <2>2. /\ acc \in [pc : {"scan"}, conn : Conns, next : 1 .. NumThreads, best : Threads,
                    least : Nat]
        /\ acc.next \in 1 .. NumThreads /\ acc.best \in Threads /\ acc.least \in Nat
    BY <2>1, AccFacts
  <2>3. /\ acc'.pc = "scan" /\ acc'.next = acc.next + 1
        /\ acc'.best = IF ConnectionNum(acc.next) < acc.least THEN acc.next ELSE acc.best
        /\ acc'.least = IF ConnectionNum(acc.next) < acc.least THEN ConnectionNum(acc.next)
                        ELSE acc.least
    BY <2>1, <2>2
  <2>4. \A d \in Conns : ~Attaching(d) BY <2>1 DEF Attaching
  <2>5. NothingEnded' => NothingEnded BY <2>1, <2>3 DEF NothingEnded, Attaching
  <2>6. ASSUME NothingEnded PROVE EvenlyAssigned' /\ ScanFoundLeast'
    <3>1. acc.next \in Threads /\ acc.next \in Nat
      BY <2>1, <2>2, ThreadsAssumption DEF Threads
    <3>2. ConnectionNum(acc.next) = Load(acc.next) BY <2>4, <2>6, <3>1, CountIsLoad
    <3>3. acc.least = Load(acc.best) /\ \A u \in 0 .. acc.next - 1 : acc.least <= Load(u)
      BY <2>1, <2>6 DEF SpreadInv, ScanFoundLeast
    <3>4. \A u : Load(u)' = Load(u) BY <2>1 DEF Load
    <3>5. \A u : Load(u) \in Nat BY LoadType
    <3>6. acc'.least = Load(acc'.best) BY <2>3, <3>2, <3>3
    <3>7. ASSUME NEW u \in 0 .. acc'.next - 1 PROVE acc'.least <= Load(u)
      <4>1. u = acc.next \/ u \in 0 .. acc.next - 1 BY <2>3, <3>1
      <4>2. Load(u) \in Nat /\ Load(acc.next) \in Nat BY <3>5
      <4> QED BY <2>2, <2>3, <3>2, <3>3, <4>1, <4>2
    <3>8. ScanFoundLeast' BY <3>4, <3>6, <3>7 DEF ScanFoundLeast
    <3>9. EvenlyAssigned' BY <2>6, <3>4 DEF SpreadInv, EvenlyAssigned
    <3> QED BY <3>8, <3>9
  <2> QED BY <2>5, <2>6 DEF SpreadInv
<1>5. CASE ChooseThread
  <2>1. /\ acc.pc = "scan" /\ acc.next = NumThreads /\ UNCHANGED status
        /\ owner' = [owner EXCEPT ![acc.conn] = acc.best]
        /\ acc' = [pc |-> "register", conn |-> acc.conn]
    BY <1>5 DEF ChooseThread
  <2>2. PICK c \in Conns, b \in Threads : c = acc.conn /\ b = acc.best /\ owner[c] = NoThread
    BY <2>1, AccFacts DEF RouteInv, AttachOwner
  <2>3. acc'.pc = "register" /\ acc'.conn = c BY <2>1, <2>2
  <2>4. ASSUME NothingEnded' PROVE NothingEnded
    <3> SUFFICES ASSUME NEW d \in Conns, owner[d] # NoThread PROVE status[d] # "none"
      BY DEF NothingEnded
    <3>1. d # c BY <2>2
    <3>2. owner'[d] # NoThread /\ status'[d] = status[d] BY <1>1, <2>1, <2>2, <3>1
    <3>3. ~Attaching(d)' BY <2>3, <3>1 DEF Attaching
    <3> QED BY <2>4, <3>2, <3>3 DEF NothingEnded
  <2>5. ASSUME NothingEnded PROVE EvenlyAssigned'
    <3>1. acc.least = Load(b) /\ \A u \in 0 .. acc.next - 1 : acc.least <= Load(u)
      BY <2>1, <2>2, <2>5 DEF SpreadInv, ScanFoundLeast
    <3>2. \A u \in Threads : Load(b) <= Load(u) BY <2>1, <3>1 DEF Threads
    <3>3. /\ Load(b)' = Load(b) + 1 /\ \A t \in Threads : t # b => Load(t)' = Load(t)
      BY <2>1, <2>2, OneMore
    <3>4. ASSUME NEW t \in Threads, NEW u \in Threads PROVE Load(t)' <= Load(u)' + 1
      <4>1. Load(t) \in Nat /\ Load(u) \in Nat /\ Load(b) \in Nat BY LoadType
      <4>2. Load(t) <= Load(u) + 1 BY <2>5 DEF SpreadInv, EvenlyAssigned
      <4>3. Load(b) <= Load(u) BY <3>2
      <4>4. Load(t)' = (IF t = b THEN Load(b) + 1 ELSE Load(t)) BY <3>3
      <4>5. Load(u)' = (IF u = b THEN Load(b) + 1 ELSE Load(u)) BY <3>3
      <4> QED BY <4>1, <4>2, <4>3, <4>4, <4>5
    <3> QED BY <3>4 DEF EvenlyAssigned
  <2>6. ScanFoundLeast' BY <2>3 DEF ScanFoundLeast
  <2> QED BY <2>4, <2>5, <2>6 DEF SpreadInv
<1>6. CASE RegisterSocket \/ InsertSocket \/ InsertConnection \/ AnnounceNew
  <2>1. UNCHANGED owner /\ acc.pc \in {"register", "sockets", "connections", "announce"}
    BY <1>6 DEF RegisterSocket, InsertSocket, InsertConnection, AnnounceNew
  <2>2. acc \in [pc : {"register", "sockets", "connections", "announce"}, conn : Conns]
        /\ acc.conn \in Conns
    BY <2>1, AccFacts
  <2>3. /\ acc'.pc \in {"accept", "sockets", "connections", "announce"}
        /\ acc'.pc # "accept" => acc'.conn = acc.conn
        /\ \A d \in Conns : status'[d] = status[d] \/ (d = acc.conn /\ acc.pc = "connections")
    BY <1>6, <2>2 DEF RegisterSocket, InsertSocket, InsertConnection, AnnounceNew, AccIdle,
                      TypeOK
  <2>4. acc.pc = "announce" => acc'.pc = "accept"
    BY <1>6, <2>2 DEF RegisterSocket, InsertSocket, InsertConnection, AnnounceNew, AccIdle
  <2>5. ASSUME NothingEnded' PROVE NothingEnded
    <3> SUFFICES ASSUME NEW d \in Conns, owner[d] # NoThread, ~Attaching(d)
                 PROVE  status[d] # "none"
      BY DEF NothingEnded
    <3>1. d # acc.conn \/ acc.pc = "announce" BY <2>1 DEF Attaching
    <3>2. status'[d] = status[d] BY <2>3, <3>1
    <3>3. ~Attaching(d)' BY <2>3, <2>4, <3>1 DEF Attaching
    <3> QED BY <2>1, <2>5, <3>2, <3>3 DEF NothingEnded
  <2> QED BY <1>2, <2>1, <2>3, <2>5
<1> QED BY <1>3, <1>4, <1>5, <1>6 DEF Acceptor

LEMMA NextSpread == TypeOK /\ RouteInv /\ ReactorInv /\ SpreadInv /\ [Next]_vars => SpreadInv'
<1> SUFFICES ASSUME TypeOK, RouteInv, ReactorInv, SpreadInv, [Next]_vars PROVE SpreadInv'
  OBVIOUS
<1>1. CASE Acceptor BY <1>1, AcceptorSpread
<1>2. CASE Clients \/ NetThread \/ ProcessNetCommand \/ Application \/ UNCHANGED vars
  <2>1. /\ acc' = acc /\ owner' = owner
        /\ \A c \in Conns : status[c] = "none" => status'[c] = "none"
    BY <1>2, EndedStays DEF accVars
  <2>2. NothingEnded' => NothingEnded BY <2>1 DEF NothingEnded, Attaching
  <2>3. \A t : Load(t)' = Load(t) BY <2>1 DEF Load
  <2> QED BY <2>1, <2>2, <2>3 DEF SpreadInv, EvenlyAssigned, ScanFoundLeast
<1> QED BY <1>1, <1>2 DEF Next

(* onNewConnCallback: as long as no connection has ended, the numbers of
   connections of the net threads differ by at most one, for any number of
   threads and connections and although the counts are read without a lock. *)
THEOREM SpreadEvenly == Spec => []Balanced
<1>1. TypeOK /\ SpreadInv => Balanced
  <2> SUFFICES ASSUME TypeOK, SpreadInv, acc.pc = "accept",
                      \A c \in Conns : owner[c] # NoThread => status[c] # "none",
                      NEW t \in Threads, NEW u \in Threads
               PROVE  ConnectionNum(t) - ConnectionNum(u) <= 1
    BY DEF Balanced
  <2>1. NothingEnded /\ \A c \in Conns : ~Attaching(c) BY DEF NothingEnded, Attaching
  <2>2. ConnectionNum(t) = Load(t) /\ ConnectionNum(u) = Load(u) BY <2>1, CountIsLoad
  <2>3. Load(t) <= Load(u) + 1 BY <2>1 DEF SpreadInv, EvenlyAssigned
  <2>4. Load(t) \in Nat /\ Load(u) \in Nat BY LoadType
  <2> QED BY <2>2, <2>3, <2>4
<1>2. Spec => [](TypeOK /\ RouteInv /\ ReactorInv)
  BY Invariance, PTL DEF IInv
<1> QED BY InitSpread, NextSpread, <1>1, <1>2, PTL DEF Spec

----------------------------------------------------------------------------
(* The order of the packets, from the kernel to the handler: a fourth layer.
   A packet of c is in inb[c], on its way up (in the outbox of its thread or
   in the main queue), or has been popped. *)

(* Two messages of one connection are in a queue in the order of their
   numbers. *)
Ordered(q) == \A c \in Conns, m, n \in 1 .. MaxMsgs : \A i, j \in 1 .. Len(q) :
                (i < j /\ q[i] = Message(c, m) /\ q[j] = Message(c, n)) => m < n

(* Those in the main queue come before those in an outbox. *)
MainFirst ==
  \A t \in Threads, c \in Conns, m, n \in 1 .. MaxMsgs :
    \A i \in 1 .. Len(client), j \in 1 .. Len(outbox[t]) :
      (client[i] = Message(c, m) /\ outbox[t][j] = Message(c, n)) => m < n

QueuesOrdered == Ordered(client) /\ (\A t \in Threads : Ordered(outbox[t])) /\ MainFirst

InOutbox(x) == \E t \in Threads : \E i \in 1 .. Len(outbox[t]) : outbox[t][i] = x

(* The packets of c on their way, the last one handled while c has an entry,
   the number of packets the reactor has taken from the kernel, and whether
   it may take more. *)
Way(c)       == {n \in 1 .. MaxMsgs : InClient(Message(c, n)) \/ InOutbox(Message(c, n))}
Mark(c)      == IF c \in infos THEN handled[c] ELSE 0
ReadSoFar(c) == sent[c] - Len(inb[c])
Reads(c)     == status[c] # "none" /\ ~Ending(c)

Marked(way, mark) == way \cup (IF mark = 0 THEN {} ELSE {mark})

(* What is on its way continues what was handled, without a gap, up to the
   last packet read while more may be read. *)
NoGap(way, mark, top, more) ==
  /\ \A n \in way : mark < n /\ n <= top
  /\ \A m, n \in Marked(way, mark) : m < n => n - 1 \in Marked(way, mark)
  /\ more => \A n \in Marked(way, mark) : top \in Marked(way, mark)

(* A good packet in the kernel carries its own number. *)
Numbered == \A c \in Conns :
  /\ Len(inb[c]) <= sent[c]
  /\ \A i \in 1 .. Len(inb[c]) : inb[c][i] \in {0, ReadSoFar(c) + i}

NothingSkipped == \A c \in Conns : NoGap(Way(c), Mark(c), ReadSoFar(c), Reads(c))

(* Nothing has been read from a connection that is not attached yet. *)
Unread(c)     == owner[c] = NoThread \/ Attaching(c)
UnreadIsQuiet == \A c \in Conns : Unread(c) => Way(c) = {}

HandledIsKnown == \A c \in Conns : handled[c] # 0 => c \in known

OrderInv == Numbered /\ QueuesOrdered /\ NothingSkipped /\ UnreadIsQuiet /\ HandledIsKnown

(* NoGap when less may be read, ... *)
LEMMA NoGapLess ==
  ASSUME NEW way, NEW mark, NEW top, NEW more, NoGap(way, mark, top, more),
         NEW less, less => more
  PROVE  NoGap(way, mark, top, less)
BY DEF NoGap

(* ... when the entry of the connection is removed, ... *)
LEMMA NoGapForget ==
  ASSUME NEW way \in SUBSET (1 .. MaxMsgs), NEW mark \in 0 .. MaxMsgs, NEW top \in Int,
         NEW more, NoGap(way, mark, top, more)
  PROVE  NoGap(way, 0, top, more)
<1>1. Marked(way, 0) = way BY DEF Marked
<1>2. \A n \in way : 0 < n /\ n <= top BY DEF NoGap
<1>3. ASSUME NEW m \in way, NEW n \in way, m < n PROVE n - 1 \in way
  <2>1. n - 1 \in Marked(way, mark) BY <1>3 DEF NoGap, Marked
  <2>2. mark < m BY DEF NoGap
  <2>3. n - 1 # mark BY <1>3, <2>2
  <2> QED BY <2>1, <2>3 DEF Marked
<1>4. ASSUME more, NEW n \in way PROVE top \in way
  <2>1. top \in Marked(way, mark) BY <1>4 DEF NoGap, Marked
  <2>2. mark < n /\ n <= top BY DEF NoGap
  <2>3. top # mark BY <2>2
  <2> QED BY <2>1, <2>3 DEF Marked
<1> QED BY <1>1, <1>2, <1>3, <1>4 DEF NoGap

(* ... when the first of the packets on their way is popped and dropped, ... *)
LEMMA NoGapDrop ==
  ASSUME NEW way \in SUBSET (1 .. MaxMsgs), NEW mark \in 0 .. MaxMsgs, NEW top \in Int,
         NEW more, NoGap(way, mark, top, more), NEW n \in way, \A x \in way \ {n} : n < x
  PROVE  NoGap(way \ {n}, 0, top, more)
<1> DEFINE w == way \ {n}
<1>0. NoGap(way, 0, top, more) BY NoGapForget
<1>1. Marked(way, 0) = way /\ Marked(w, 0) = w BY DEF Marked
<1>2. \A x \in w : 0 < x /\ x <= top BY <1>0 DEF NoGap
<1>3. ASSUME NEW x \in w, NEW y \in w, x < y PROVE y - 1 \in w
  <2>1. y - 1 \in way BY <1>0, <1>1, <1>3 DEF NoGap
  <2>2. n < x BY <1>3
  <2>3. y - 1 # n BY <1>3, <2>2
  <2> QED BY <2>1, <2>3
<1>4. ASSUME more, NEW x \in w PROVE top \in w
  <2>1. top \in way BY <1>0, <1>1, <1>4 DEF NoGap
  <2>2. n < x /\ x <= top BY <1>2
  <2>3. top # n BY <2>2
  <2> QED BY <2>1, <2>3
<1> HIDE DEF w
<1>5. NoGap(w, 0, top, more) BY <1>1, <1>2, <1>3, <1>4 DEF NoGap
<1> QED BY <1>5 DEF w

(* ... when it is handled, and then it is the next after the one before, ... *)
LEMMA NoGapHandle ==
  ASSUME NEW way \in SUBSET (1 .. MaxMsgs), NEW mark \in 0 .. MaxMsgs, NEW top \in Int,
         NEW more, NoGap(way, mark, top, more), NEW n \in way, \A x \in way \ {n} : n < x
  PROVE  NoGap(way \ {n}, n, top, more) /\ (mark = 0 \/ n = mark + 1)
<1> DEFINE w == way \ {n}
<1>0. NoGap(way, 0, top, more) BY NoGapForget
<1>1. Marked(way, 0) = way /\ Marked(w, n) = way
  <2>1. n # 0 OBVIOUS
  <2> QED BY <2>1 DEF Marked
<1>2. \A x \in w : n < x /\ x <= top BY <1>0 DEF NoGap
<1> HIDE DEF w
<1>3. NoGap(w, n, top, more) BY <1>0, <1>1, <1>2 DEF NoGap
<1>4. ASSUME mark # 0 PROVE n = mark + 1
  <2>1. mark < n /\ mark \in Marked(way, mark) /\ n \in Marked(way, mark)
    BY <1>4 DEF NoGap, Marked
  <2>2. n - 1 \in Marked(way, mark) BY <2>1 DEF NoGap
  <2>3. n - 1 \notin way
    <3>1. n - 1 \in way => n < n - 1 OBVIOUS
    <3> QED BY <3>1
  <2>4. n - 1 = mark BY <2>2, <2>3, <1>4 DEF Marked
  <2> QED BY <2>4
<1> QED BY <1>3, <1>4 DEF w

(* ... and when a handler has taken k packets from the kernel and pushes the
   first good of them, all of them if it does not close the connection. *)
LEMMA NoGapRead ==
  ASSUME NEW way \in SUBSET (1 .. MaxMsgs), NEW mark \in 0 .. MaxMsgs, NEW top \in Nat,
         NoGap(way, mark, top, TRUE), NEW k \in Nat, NEW good \in 0 .. k,
         NEW more, more => good = k
  PROVE  NoGap(way \cup (top + 1 .. top + good), mark, top + k, more)
<1> DEFINE new == top + 1 .. top + good
           w == way \cup new
           old == Marked(way, mark)
           all == Marked(w, mark)
<1>1. all = old \cup new BY DEF Marked
<1>2. old \subseteq Nat /\ \A n \in old : n <= top /\ top \in old
  <2>1. old \subseteq Nat BY DEF Marked
  <2>2. \A n \in old : top \in old BY DEF NoGap
  <2>3. \A n \in old : n <= top
    <3> TAKE n \in old
    <3>1. top \in old BY <2>2
    <3>2. CASE n \in way BY <3>2 DEF NoGap
    <3>3. CASE mark # 0 /\ n = mark
      <4>1. CASE top \in way BY <3>3, <4>1 DEF NoGap
      <4>2. CASE top = mark BY <3>3, <4>2
      <4> QED BY <3>1, <4>1, <4>2 DEF Marked
    <3> QED BY <3>2, <3>3 DEF Marked
  <2> QED BY <2>1, <2>2, <2>3
<1>3. \A n \in w : mark < n /\ n <= top + k
  <2>1. mark <= top BY <1>2 DEF Marked
  <2>2. \A n \in way : mark < n /\ n <= top BY DEF NoGap
  <2> QED BY <2>1, <2>2
<1>4. \A m, n \in old : m < n => n - 1 \in old BY DEF NoGap
<1> HIDE DEF old, all, w
<1>5. ASSUME NEW m \in all, NEW n \in all, m < n PROVE n - 1 \in all
  <2>1. CASE n \in old
    <3>1. n <= top BY <2>1, <1>2
    <3>2. m \in old BY <1>1, <1>2, <1>5, <2>1, <3>1
    <3> QED BY <1>1, <1>4, <1>5, <2>1, <3>2
  <2>2. CASE n \in new /\ n # top + 1 BY <1>1, <2>2
  <2>3. CASE n \in new /\ n = top + 1
    <3>1. m \in old BY <1>1, <1>5, <2>3
    <3> QED BY <1>1, <1>2, <2>3, <3>1
  <2> QED BY <1>1, <2>1, <2>2, <2>3
<1>6. ASSUME more, NEW n \in all PROVE top + k \in all
  <2>1. CASE k = 0 BY <1>1, <1>2, <1>6, <2>1
  <2>2. CASE k # 0 BY <1>1, <1>6, <2>2
  <2> QED BY <2>1, <2>2
<1> QED BY <1>3, <1>5, <1>6 DEF NoGap, w, all

(* A message is told from other messages and other commands. *)
LEMMA MessageFacts ==
  ASSUME NEW c, NEW m, NEW d, NEW n
  PROVE  /\ Message(c, m) = Message(d, n) => c = d /\ m = n
         /\ Message(c, m) # Close(d) /\ Message(c, m) # New(d)
<1>1. /\ Message(c, m).id = c /\ Message(c, m).message = m /\ Message(c, m).type = "MESSAGE"
      /\ Message(d, n).id = d /\ Message(d, n).message = n
      /\ Close(d).type = "CLOSE" /\ New(d).type = "NEW"
  BY DEF Message, Close, New
<1> QED BY <1>1

(* A command of type MESSAGE is a message. *)
LEMMA MessageForm ==
  ASSUME NEW e \in UpCommand, e.type = "MESSAGE"
  PROVE  e.id \in Conns /\ \E n \in 1 .. MaxMsgs : e = Message(e.id, n)
<1>1. e \in [type : {"MESSAGE"}, id : Conns, message : 1 .. MaxMsgs] BY DEF UpCommand
<1>2. e.message \in 1 .. MaxMsgs /\ e = Message(e.id, e.message) BY <1>1 DEF Message
<1> QED BY <1>1, <1>2

(* Ordered queues, after a push ... *)
LEMMA OrderedAppend ==
  ASSUME NEW q \in Seq(UpCommand), Ordered(q), NEW e \in UpCommand,
         \A c \in Conns, m, n \in 1 .. MaxMsgs : \A i \in 1 .. Len(q) :
            (q[i] = Message(c, m) /\ e = Message(c, n)) => m < n
  PROVE  Ordered(Append(q, e))
<1> DEFINE r == Append(q, e)
<1>1. /\ Len(r) = Len(q) + 1 /\ Len(q) \in Nat
      /\ \A i \in 1 .. Len(q) : r[i] = q[i]
      /\ r[Len(q) + 1] = e
  BY AppendFacts
<1> HIDE DEF r
<1>2. ASSUME NEW c \in Conns, NEW m \in 1 .. MaxMsgs, NEW n \in 1 .. MaxMsgs,
             NEW i \in 1 .. Len(r), NEW j \in 1 .. Len(r), i < j,
             r[i] = Message(c, m), r[j] = Message(c, n)
      PROVE  m < n
  <2>1. i \in 1 .. Len(q) BY <1>1, <1>2
  <2>2. CASE j \in 1 .. Len(q) BY <1>1, <1>2, <2>1, <2>2 DEF Ordered
  <2>3. CASE j = Len(q) + 1 BY <1>1, <1>2, <2>1, <2>3
  <2> QED BY <1>1, <2>2, <2>3
<1> QED BY <1>2 DEF Ordered, r

(* ... and a pop. *)
LEMMA OrderedTail ==
  ASSUME NEW q \in Seq(UpCommand), q # << >>, Ordered(q)
  PROVE  Ordered(Tail(q))
<1> DEFINE r == Tail(q)
<1>1. /\ Len(r) = Len(q) - 1 /\ Len(q) \in Nat
      /\ \A i \in 1 .. Len(r) : r[i] = q[i + 1]
  BY TailFacts
<1> HIDE DEF r
<1>2. ASSUME NEW c \in Conns, NEW m \in 1 .. MaxMsgs, NEW n \in 1 .. MaxMsgs,
             NEW i \in 1 .. Len(r), NEW j \in 1 .. Len(r), i < j,
             r[i] = Message(c, m), r[j] = Message(c, n)
      PROVE  m < n
  <2>1. i + 1 \in 1 .. Len(q) /\ j + 1 \in 1 .. Len(q) /\ i + 1 < j + 1 BY <1>1, <1>2
  <2>2. q[i + 1] = Message(c, m) /\ q[j + 1] = Message(c, n) BY <1>1, <1>2
  <2> QED BY <2>1, <2>2 DEF Ordered
<1> QED BY <1>2 DEF Ordered, r

(* The types of what NoGap is about. *)
LEMMA WayTypes ==
  ASSUME TypeOK, NEW c \in Conns
  PROVE  /\ Way(c) \in SUBSET (1 .. MaxMsgs) /\ Mark(c) \in 0 .. MaxMsgs
         /\ ReadSoFar(c) \in Int /\ sent[c] \in Nat /\ Len(inb[c]) \in Nat
         /\ Numbered => ReadSoFar(c) \in Nat
<1>1. handled[c] \in 0 .. MaxMsgs /\ sent[c] \in 0 .. MaxMsgs /\ inb[c] \in Seq(0 .. MaxMsgs)
  BY DEF TypeOK
<1>2. sent[c] \in Nat /\ Len(inb[c]) \in Nat BY <1>1
<1>3. 0 \in 0 .. MaxMsgs BY BoundsAssumption
<1>4. Mark(c) \in 0 .. MaxMsgs BY <1>1, <1>3 DEF Mark
<1>5. ReadSoFar(c) \in Int BY <1>2 DEF ReadSoFar
<1>6. Numbered => ReadSoFar(c) \in Nat BY <1>2 DEF Numbered, ReadSoFar
<1> QED BY <1>2, <1>4, <1>5, <1>6 DEF Way

queueVars == <<client, outbox, infos, handled, known, inb, sent>>

(* Steps that leave the packets alone. *)
LEMMA FrameOrder ==
  ASSUME OrderInv, UNCHANGED queueVars,
         \A c \in Conns : status'[c] # "none" =>
            status[c] # "none" \/ (Way(c) = {} /\ Mark(c) = 0),
         \A c \in Conns : Unread(c)' => Unread(c)
  PROVE  OrderInv'
<1>1. \A c \in Conns : /\ Way(c)' = Way(c) /\ Mark(c)' = Mark(c)
                       /\ ReadSoFar(c)' = ReadSoFar(c)
                       /\ Ending(c)' = Ending(c)
  BY DEF queueVars, Way, Mark, ReadSoFar, Ending, InClient, InOutbox
<1>2. Numbered' BY DEF OrderInv, Numbered, ReadSoFar, queueVars
<1>3. QueuesOrdered' BY DEF OrderInv, QueuesOrdered, Ordered, MainFirst, queueVars
<1>4. UnreadIsQuiet' BY <1>1 DEF OrderInv, UnreadIsQuiet
<1>5. HandledIsKnown' BY DEF OrderInv, HandledIsKnown, queueVars
<1>6. NothingSkipped'
  <2> SUFFICES ASSUME NEW c \in Conns
               PROVE  NoGap(Way(c), Mark(c), ReadSoFar(c), Reads(c)')
    BY <1>1 DEF NothingSkipped
  <2>1. NoGap(Way(c), Mark(c), ReadSoFar(c), Reads(c)) BY DEF OrderInv, NothingSkipped
  <2>2. CASE status'[c] # "none" => status[c] # "none"
    <3>1. Reads(c)' => Reads(c) BY <1>1, <2>2 DEF Reads
    <3> QED BY <2>1, <3>1, NoGapLess
  <2>3. CASE Way(c) = {} /\ Mark(c) = 0
    <3>1. Marked(Way(c), Mark(c)) = {} BY <2>3 DEF Marked
    <3> QED BY <2>3, <3>1 DEF NoGap
  <2> QED BY <2>2, <2>3
<1> QED BY <1>2, <1>3, <1>4, <1>5, <1>6 DEF OrderInv

(* Nothing is on its way initially. *)
LEMMA InitOrder == Init => OrderInv
<1> SUFFICES ASSUME Init PROVE OrderInv OBVIOUS
<1>1. /\ client = << >> /\ \A t \in Threads : outbox[t] = << >>
      /\ \A c \in Conns : inb[c] = << >> /\ sent[c] = 0 /\ handled[c] = 0
      /\ infos = {}
  BY DEF Init
<1>2. \A c \in Conns : Way(c) = {} /\ Mark(c) = 0
  BY <1>1 DEF Way, Mark, InClient, InOutbox
<1>3. \A c \in Conns : Marked(Way(c), Mark(c)) = {} BY <1>2 DEF Marked
<1>4. NothingSkipped BY <1>2, <1>3 DEF NothingSkipped, NoGap
<1>5. QueuesOrdered BY <1>1 DEF QueuesOrdered, Ordered, MainFirst
<1>6. Numbered BY <1>1 DEF Numbered
<1> QED BY <1>1, <1>2, <1>4, <1>5, <1>6 DEF OrderInv, UnreadIsQuiet, HandledIsKnown

(* A client sends its next packet, good or bad. *)
LEMMA SendOrder ==
  ASSUME TypeOK, OrderInv, NEW c \in Conns, SendPacket(c)
  PROVE  OrderInv'
<1>1. PICK packet \in {0, sent[c] + 1} : inb' = [inb EXCEPT ![c] = Append(inb[c], packet)]
  BY DEF SendPacket
<1>2. /\ sent' = [sent EXCEPT ![c] = sent[c] + 1] /\ sent[c] < MaxMsgs
      /\ UNCHANGED <<client, outbox, infos, handled, known, status, owner, acc>>
  BY DEF SendPacket, accVars, netVars, mapVars, mainVars
<1>3. inb[c] \in Seq(0 .. MaxMsgs) /\ Len(inb[c]) \in Nat /\ sent[c] \in Nat BY DEF TypeOK
<1>4. packet \in 0 .. MaxMsgs BY <1>2, <1>3, BoundsAssumption
<1>5. /\ inb'[c] = Append(inb[c], packet) /\ sent'[c] = sent[c] + 1
      /\ \A d \in Conns \ {c} : inb'[d] = inb[d] /\ sent'[d] = sent[d]
  BY <1>1, <1>2 DEF TypeOK
<1>6. /\ Len(inb'[c]) = Len(inb[c]) + 1
      /\ \A i \in 1 .. Len(inb[c]) : inb'[c][i] = inb[c][i]
      /\ inb'[c][Len(inb[c]) + 1] = packet
  BY <1>3, <1>4, <1>5, AppendFacts
<1>7. \A d \in Conns : ReadSoFar(d)' = ReadSoFar(d)
  <2>1. (sent[c] + 1) - (Len(inb[c]) + 1) = sent[c] - Len(inb[c]) BY <1>3
  <2>2. ReadSoFar(c)' = ReadSoFar(c) BY <1>5, <1>6, <2>1 DEF ReadSoFar
  <2>3. \A d \in Conns \ {c} : ReadSoFar(d)' = ReadSoFar(d) BY <1>5 DEF ReadSoFar
  <2> QED BY <2>2, <2>3
<1>8. Numbered'
  <2> SUFFICES ASSUME NEW d \in Conns
               PROVE  /\ Len(inb'[d]) <= sent'[d]
                      /\ \A i \in 1 .. Len(inb'[d]) : inb'[d][i] \in {0, ReadSoFar(d) + i}
    BY <1>7 DEF Numbered
  <2>0. /\ Len(inb[d]) <= sent[d]
        /\ \A i \in 1 .. Len(inb[d]) : inb[d][i] \in {0, ReadSoFar(d) + i}
    BY DEF OrderInv, Numbered
  <2>1. CASE d # c BY <1>5, <2>0, <2>1
  <2>2. CASE d = c
    <3>1. Len(inb'[c]) <= sent'[c] BY <1>3, <1>5, <1>6, <2>0, <2>2
    <3>2. ReadSoFar(c) + (Len(inb[c]) + 1) = sent[c] + 1 BY <1>3 DEF ReadSoFar
    <3>3. ASSUME NEW i \in 1 .. Len(inb'[c]) PROVE inb'[c][i] \in {0, ReadSoFar(c) + i}
      <4>1. CASE i \in 1 .. Len(inb[c]) BY <1>6, <2>0, <2>2, <4>1
      <4>2. CASE i = Len(inb[c]) + 1 BY <1>6, <3>2, <4>2
      <4> QED BY <1>3, <1>6, <4>1, <4>2
    <3> QED BY <2>2, <3>1, <3>3
  <2> QED BY <2>1, <2>2
<1>9. \A d \in Conns : /\ Way(d)' = Way(d) /\ Mark(d)' = Mark(d) /\ Reads(d)' = Reads(d)
                       /\ Unread(d)' = Unread(d)
  BY <1>2 DEF Way, Mark, Reads, Unread, Attaching, Ending, InClient, InOutbox
<1>10. NothingSkipped' BY <1>7, <1>9 DEF OrderInv, NothingSkipped
<1>11. QueuesOrdered' BY <1>2 DEF OrderInv, QueuesOrdered, Ordered, MainFirst
<1>12. UnreadIsQuiet' BY <1>9 DEF OrderInv, UnreadIsQuiet
<1>13. HandledIsKnown' BY <1>2 DEF OrderInv, HandledIsKnown
<1> QED BY <1>8, <1>10, <1>11, <1>12, <1>13 DEF OrderInv

(* The acceptor. *)
LEMMA AcceptorOrder ==
  ASSUME TypeOK, RouteInv, ReactorInv, MainInv, OrderInv, Acceptor
  PROVE  OrderInv'
<1> USE AccFacts
<1> USE DEF netVars, mapVars, mainVars, peerVars
<1>1. ASSUME NEW c \in Conns, Accept(c) PROVE OrderInv'
  <2>1. UNCHANGED queueVars /\ UNCHANGED <<status, owner>> /\ acc'.pc = "scan"
    BY <1>1 DEF Accept, queueVars
  <2>2. \A d \in Conns : Unread(d)' => Unread(d) BY <2>1 DEF Unread, Attaching
  <2> QED BY <2>1, <2>2, FrameOrder
<1>2. CASE ScanThread
  <2>1. UNCHANGED queueVars /\ UNCHANGED <<status, owner>> /\ acc'.pc = "scan"
    BY <1>2 DEF ScanThread, queueVars
  <2>2. \A d \in Conns : Unread(d)' => Unread(d) BY <2>1 DEF Unread, Attaching
  <2> QED BY <2>1, <2>2, FrameOrder
<1>3. CASE ChooseThread
  <2>1. /\ acc.pc = "scan" /\ acc'.pc = "register" /\ acc'.conn = acc.conn
        /\ acc.conn \in Conns /\ owner[acc.conn] = NoThread
        /\ owner' = [owner EXCEPT ![acc.conn] = acc.best]
        /\ UNCHANGED queueVars /\ UNCHANGED status
    BY <1>3 DEF ChooseThread, RouteInv, AttachOwner, queueVars
  <2>2. \A d \in Conns : d # acc.conn => owner'[d] = owner[d] BY <2>1 DEF TypeOK
  <2>3. \A d \in Conns : Unread(d)' => Unread(d) BY <2>1, <2>2 DEF Unread, Attaching
  <2> QED BY <2>1, <2>3, FrameOrder
<1>4. CASE RegisterSocket \/ InsertSocket
  <2>1. /\ acc.pc \in {"register", "sockets"} /\ acc'.conn = acc.conn
        /\ UNCHANGED queueVars /\ UNCHANGED <<status, owner>>
    BY <1>4 DEF RegisterSocket, InsertSocket, queueVars
  <2>2. \A d \in Conns : Unread(d)' => Unread(d) BY <2>1 DEF Unread, Attaching
  <2> QED BY <2>1, <2>2, FrameOrder
<1>5. CASE InsertConnection
  <2>1. /\ acc.pc = "connections" /\ acc'.pc = "announce" /\ acc'.conn = acc.conn
        /\ acc.conn \in Conns /\ UNCHANGED queueVars /\ UNCHANGED owner
        /\ status' = [status EXCEPT ![acc.conn] = "connected"]
    BY <1>5 DEF InsertConnection, queueVars
  <2>2. \A d \in Conns : Unread(d)' => Unread(d) BY <2>1 DEF Unread, Attaching
  <2>3. \A d \in Conns : d # acc.conn => status'[d] = status[d] BY <2>1 DEF TypeOK
  <2>4. Way(acc.conn) = {}
    BY <2>1 DEF OrderInv, UnreadIsQuiet, Unread, Attaching
  <2>5. Mark(acc.conn) = 0
    BY <2>1 DEF RouteInv, HeardLater, Unannounced, EntryIsKnown, Mark
  <2> QED BY <2>1, <2>2, <2>3, <2>4, <2>5, FrameOrder
<1>6. CASE AnnounceNew
  <2> DEFINE e == New(acc.conn)
  <2>1. /\ acc.pc = "announce" /\ acc'.pc = "accept" /\ acc.conn \in Conns
        /\ client' = Append(client, e)
        /\ UNCHANGED <<outbox, infos, handled, known, inb, sent, status, owner>>
    BY <1>6 DEF AnnounceNew, AccIdle
  <2>2. e \in UpCommand BY <2>1, CommandTypes
  <2>3. \A c, n : Message(c, n) # e BY MessageFacts
  <2> HIDE DEF e
  <2>4. \A c, n : InClient(Message(c, n))' <=> InClient(Message(c, n))
    BY <2>1, <2>2, <2>3, ClientAppend
  <2>5. \A c \in Conns : /\ Way(c)' = Way(c) /\ Mark(c)' = Mark(c) /\ Reads(c)' = Reads(c)
                         /\ ReadSoFar(c)' = ReadSoFar(c) /\ (Unread(c)' => Unread(c))
    BY <2>1, <2>4 DEF Way, Mark, Reads, ReadSoFar, Unread, Attaching, Ending, InOutbox
  <2>6. client \in Seq(UpCommand) BY DEF TypeOK
  <2>7. Ordered(client') BY <2>1, <2>2, <2>3, <2>6, OrderedAppend DEF OrderInv, QueuesOrdered
  <2>8. MainFirst'
    <3> SUFFICES ASSUME NEW t \in Threads, NEW c \in Conns, NEW m \in 1 .. MaxMsgs,
                        NEW n \in 1 .. MaxMsgs, NEW i \in 1 .. Len(client'),
                        NEW j \in 1 .. Len(outbox[t]), client'[i] = Message(c, m),
                        outbox[t][j] = Message(c, n)
                 PROVE  m < n
      BY <2>1 DEF MainFirst
    <3>1. /\ Len(client') = Len(client) + 1 /\ Len(client) \in Nat
          /\ \A k \in 1 .. Len(client) : client'[k] = client[k]
          /\ client'[Len(client) + 1] = e
      BY <2>1, <2>2, <2>6, AppendFacts
    <3>2. i \in 1 .. Len(client) BY <2>3, <3>1
    <3> QED BY <3>1, <3>2 DEF OrderInv, QueuesOrdered, MainFirst
  <2>9. QueuesOrdered' BY <2>1, <2>7, <2>8 DEF OrderInv, QueuesOrdered
  <2>10. Numbered' BY <2>1 DEF OrderInv, Numbered, ReadSoFar
  <2>11. NothingSkipped' BY <2>5 DEF OrderInv, NothingSkipped
  <2>12. UnreadIsQuiet' BY <2>5 DEF OrderInv, UnreadIsQuiet
  <2> QED BY <2>1, <2>9, <2>10, <2>11, <2>12 DEF OrderInv, HandledIsKnown
<1> QED BY <1>1, <1>2, <1>3, <1>4, <1>5, <1>6 DEF Acceptor

(* The commands of a handler that has taken some packets from the kernel:
   the first good ones, and CLOSE ends times. *)
Pushes(c, good, ends, out) ==
  /\ out \in Seq(UpCommand) /\ Len(out) = good + ends
  /\ \A i \in 1 .. good : /\ ReadSoFar(c) + i \in 1 .. MaxMsgs
                          /\ out[i] = Message(c, ReadSoFar(c) + i)
  /\ \A i \in good + 1 .. good + ends : out[i] = Close(c)

(* k packets are taken from the kernel. *)
Takes(c, k) == /\ \A d \in Conns \ {c} : inb'[d] = inb[d]
               /\ Len(inb'[c]) = Len(inb[c]) - k
               /\ \A i \in 1 .. Len(inb'[c]) : inb'[c][i] = inb[c][k + i]

(* A handler starts: it has taken k packets from the kernel and pushes good
   of them, and a CLOSE if that is not all. *)
LEMMA HandlerOrder ==
  ASSUME TypeOK, ReactorInv, OrderInv, NEW c \in Conns, status[c] # "none", Idle(owner[c]),
         NEW k \in 0 .. Len(inb[c]), NEW good \in 0 .. k, NEW ends \in Nat,
         ends = 0 => good = k,
         NEW out, Pushes(c, good, ends, out), outbox' = [outbox EXCEPT ![owner[c]] = out],
         Takes(c, k),
         UNCHANGED <<client, infos, handled, known, sent, status, owner, acc>>
  PROVE  OrderInv'
<1> USE DEF Pushes, Takes
<1> DEFINE u == owner[c]
           R == ReadSoFar(c)
<1>1. u \in Threads BY LiveFacts
<1>2. outbox[u] = << >> /\ Len(outbox[u]) = 0 BY DEF Idle
<1>3. outbox'[u] = out /\ \A t \in Threads : t # u => outbox'[t] = outbox[t]
  BY <1>1 DEF TypeOK
<1>4. /\ Len(inb[c]) \in Nat /\ sent[c] \in Nat /\ R \in Nat /\ k \in Nat /\ good \in Nat
      /\ Way(c) \in SUBSET (1 .. MaxMsgs) /\ Mark(c) \in 0 .. MaxMsgs
  <2>1. Numbered BY DEF OrderInv
  <2> QED BY <2>1, WayTypes
<1>5. ReadSoFar(c)' = R + k /\ \A d \in Conns \ {c} : ReadSoFar(d)' = ReadSoFar(d)
  <2>1. sent[c] - (Len(inb[c]) - k) = (sent[c] - Len(inb[c])) + k BY <1>4
  <2> QED BY <2>1 DEF ReadSoFar
<1> HIDE DEF R
<1>6. Numbered'
  <2> SUFFICES ASSUME NEW d \in Conns
               PROVE  /\ Len(inb'[d]) <= sent[d]
                      /\ \A i \in 1 .. Len(inb'[d]) : inb'[d][i] \in {0, ReadSoFar(d)' + i}
    BY DEF Numbered
  <2>0. /\ Len(inb[d]) <= sent[d]
        /\ \A i \in 1 .. Len(inb[d]) : inb[d][i] \in {0, ReadSoFar(d) + i}
    BY DEF OrderInv, Numbered
  <2>1. CASE d # c BY <1>5, <2>0, <2>1
  <2>2. CASE d = c
    <3>1. Len(inb'[c]) <= sent[c] BY <1>4, <2>0, <2>2
    <3>2. ASSUME NEW i \in 1 .. Len(inb'[c]) PROVE inb'[c][i] \in {0, (R + k) + i}
      <4>0. i \in 1 .. Len(inb[c]) - k OBVIOUS
      <4>1. k + i \in 1 .. Len(inb[c]) /\ (R + k) + i = R + (k + i) BY <1>4, <4>0
      <4>2. inb[c][k + i] \in {0, ReadSoFar(c) + (k + i)} BY <2>0, <2>2, <4>1
      <4> QED BY <4>1, <4>2 DEF R
    <3> QED BY <1>5, <2>2, <3>1, <3>2
  <2> QED BY <2>1, <2>2
<1>7. \A i \in 1 .. Len(out) : \/ i \in 1 .. good /\ out[i] = Message(c, R + i)
                               \/ i \in good + 1 .. good + ends /\ out[i] = Close(c)
  BY <1>4 DEF R
<1>8. \A x : InOutbox(x)' <=> InOutbox(x) \/ \E i \in 1 .. Len(out) : out[i] = x
  <2> TAKE x
  <2>1. ASSUME NEW t \in Threads, NEW i \in 1 .. Len(outbox'[t]), outbox'[t][i] = x
        PROVE  InOutbox(x) \/ \E j \in 1 .. Len(out) : out[j] = x
    BY <1>3, <2>1 DEF InOutbox
  <2>2. ASSUME NEW t \in Threads, NEW i \in 1 .. Len(outbox[t]), outbox[t][i] = x
        PROVE  InOutbox(x)'
    <3>1. t # u BY <1>2
    <3> QED BY <1>3, <2>2, <3>1 DEF InOutbox
  <2>3. ASSUME NEW i \in 1 .. Len(out), out[i] = x PROVE InOutbox(x)'
    BY <1>1, <1>3, <2>3 DEF InOutbox
  <2> QED BY <2>1, <2>2, <2>3 DEF InOutbox
<1>9. Way(c)' = Way(c) \cup (R + 1 .. R + good)
  <2>1. ASSUME NEW n \in 1 .. MaxMsgs
        PROVE  (\E i \in 1 .. Len(out) : out[i] = Message(c, n)) <=> n \in R + 1 .. R + good
    <3>1. ASSUME NEW i \in 1 .. Len(out), out[i] = Message(c, n) PROVE n \in R + 1 .. R + good
      <4>1. i \in 1 .. good /\ out[i] = Message(c, R + i) BY <1>7, <3>1, MessageFacts
      <4>2. Message(c, n) = Message(c, R + i) BY <3>1, <4>1
      <4>3. n = R + i BY ONLY <4>2, MessageFacts
      <4> QED BY <1>4, <4>1, <4>3
    <3>2. ASSUME n \in R + 1 .. R + good PROVE \E i \in 1 .. Len(out) : out[i] = Message(c, n)
      <4>1. n - R \in 1 .. good /\ n - R \in 1 .. Len(out) /\ R + (n - R) = n BY <1>4, <3>2
      <4>2. out[n - R] = Message(c, R + (n - R)) BY <4>1 DEF R
      <4> QED BY <4>1, <4>2
    <3> QED BY <3>1, <3>2
  <2>2. R + 1 .. R + good \subseteq 1 .. MaxMsgs
    <3> SUFFICES ASSUME NEW n \in R + 1 .. R + good PROVE n \in 1 .. MaxMsgs OBVIOUS
    <3>1. n - R \in 1 .. good /\ R + (n - R) = n BY <1>4
    <3> QED BY <3>1 DEF R
  <2>3. \A x : InClient(x)' <=> InClient(x) BY DEF InClient
  <2>4. \A n \in 1 .. MaxMsgs : n \in Way(c)' <=> n \in Way(c) \/ n \in R + 1 .. R + good
    BY <1>8, <2>1, <2>3 DEF Way
  <2>5. Way(c)' \subseteq 1 .. MaxMsgs BY DEF Way
  <2> QED BY <1>4, <2>2, <2>4, <2>5
<1>10. ASSUME NEW d \in Conns \ {c} PROVE Way(d)' = Way(d) /\ Ending(d)' = Ending(d)
  <2>1. \A i \in 1 .. Len(out) : out[i] # Close(d) /\ \A n : out[i] # Message(d, n)
    <3>1. Close(c) # Close(d)
      <4>1. Close(c).id = c /\ Close(d).id = d BY DEF Close
      <4> QED BY <4>1
    <3> SUFFICES ASSUME NEW i \in 1 .. Len(out), NEW n
                 PROVE  out[i] # Close(d) /\ out[i] # Message(d, n)
      OBVIOUS
    <3>2. Message(d, n) # Close(c) BY MessageFacts
    <3>3. ASSUME NEW m PROVE Message(c, m) # Message(d, n) /\ Message(c, m) # Close(d)
      <4>1. c # d OBVIOUS
      <4> QED BY ONLY <4>1, MessageFacts
    <3> QED BY <1>7, <3>1, <3>2, <3>3
  <2>2. Ending(d)' = Ending(d)
    <3>1. Ending(d) <=> InOutbox(Close(d)) BY DEF Ending, InOutbox
    <3>2. Ending(d)' <=> InOutbox(Close(d))' BY DEF Ending, InOutbox
    <3>3. Ending(d) \in BOOLEAN /\ Ending(d)' \in BOOLEAN BY DEF Ending
    <3> QED BY <1>8, <2>1, <3>1, <3>2, <3>3
  <2> QED BY <1>8, <2>1, <2>2 DEF Way, InClient
<1>11. ~Ending(c)
  <2> SUFFICES ASSUME NEW t \in Threads, NEW i \in 1 .. Len(outbox[t]), outbox[t][i] = Close(c)
               PROVE FALSE
    BY DEF Ending
  <2>1. Close(c).id = c BY DEF Close
  <2>2. t = u BY <2>1, OutboxFacts
  <2> QED BY <1>2, <2>2
<1>12. Reads(c)' => good = k
  <2> SUFFICES ASSUME ends # 0 PROVE Ending(c)' BY DEF Reads
  <2>1. good + 1 \in good + 1 .. good + ends /\ good + 1 \in 1 .. Len(out) BY <1>4
  <2>2. out[good + 1] = Close(c) BY <2>1
  <2> QED BY <1>1, <1>3, <2>1, <2>2 DEF Ending
<1>13. NothingSkipped'
  <2>1. NoGap(Way(c), Mark(c), R, TRUE)
    <3>1. NoGap(Way(c), Mark(c), R, Reads(c)) BY DEF OrderInv, NothingSkipped, R
    <3> QED BY <1>11, <3>1, NoGapLess DEF Reads
  <2>2. NoGap(Way(c) \cup (R + 1 .. R + good), Mark(c), R + k, Reads(c)')
    BY <1>4, <1>12, <2>1, NoGapRead
  <2>3. \A d \in Conns : Mark(d)' = Mark(d) BY DEF Mark
  <2>4. NoGap(Way(c), Mark(c), ReadSoFar(c), Reads(c))' BY <1>5, <1>9, <2>2, <2>3
  <2>5. ASSUME NEW d \in Conns \ {c} PROVE NoGap(Way(d), Mark(d), ReadSoFar(d), Reads(d))'
    <3>1. Reads(d)' = Reads(d) BY <1>10 DEF Reads
    <3> QED BY <1>5, <1>10, <2>3, <3>1 DEF OrderInv, NothingSkipped
  <2> QED BY <2>4, <2>5 DEF NothingSkipped
<1>14. Ordered(out)
  <2> SUFFICES ASSUME NEW d \in Conns, NEW m \in 1 .. MaxMsgs, NEW n \in 1 .. MaxMsgs,
                      NEW i \in 1 .. Len(out), NEW j \in 1 .. Len(out), i < j,
                      out[i] = Message(d, m), out[j] = Message(d, n)
               PROVE  m < n
    BY DEF Ordered
  <2>1. out[i] = Message(c, R + i) /\ out[j] = Message(c, R + j) BY <1>7, MessageFacts
  <2>2. Message(d, m) = Message(c, R + i) /\ Message(d, n) = Message(c, R + j) BY <2>1
  <2>3. m = R + i /\ n = R + j BY ONLY <2>2, MessageFacts
  <2> QED BY <1>4, <2>3
<1>15. MainFirst'
  <2> SUFFICES ASSUME NEW t \in Threads, NEW d \in Conns, NEW m \in 1 .. MaxMsgs,
                      NEW n \in 1 .. MaxMsgs, NEW i \in 1 .. Len(client),
                      NEW j \in 1 .. Len(outbox'[t]), client[i] = Message(d, m),
                      outbox'[t][j] = Message(d, n)
               PROVE  m < n
    BY DEF MainFirst
  <2>1. CASE t # u BY <1>3, <2>1 DEF OrderInv, QueuesOrdered, MainFirst
  <2>2. CASE t = u
    <3>1. j \in 1 .. Len(out) /\ out[j] = Message(d, n) BY <1>3, <2>2
    <3>2. out[j] = Message(c, R + j) BY <1>7, <3>1, MessageFacts
    <3>0. Message(d, n) = Message(c, R + j) BY <3>1, <3>2
    <3>3. d = c /\ n = R + j BY ONLY <3>0, MessageFacts
    <3>4. m \in Way(c) BY <3>3 DEF Way, InClient
    <3>5. m <= R BY <3>4 DEF OrderInv, NothingSkipped, NoGap, R
    <3> QED BY <1>4, <3>3, <3>5
  <2> QED BY <2>1, <2>2
<1>16. QueuesOrdered' BY <1>3, <1>14, <1>15 DEF OrderInv, QueuesOrdered
<1>17. UnreadIsQuiet'
  <2>1. ~Unread(c) BY <1>1, LiveFacts, ThreadsAssumption DEF Unread, Threads, NoThread
  <2>2. \A d \in Conns : Unread(d)' <=> Unread(d) BY DEF Unread, Attaching
  <2> QED BY <1>10, <2>1, <2>2 DEF OrderInv, UnreadIsQuiet
<1>18. HandledIsKnown' BY DEF OrderInv, HandledIsKnown
<1> QED BY <1>6, <1>13, <1>16, <1>17, <1>18 DEF OrderInv

(* A command moves from an outbox to the main queue. *)
LEMMA PushUpOrder ==
  ASSUME TypeOK, ReactorInv, OrderInv, NEW t \in Threads, PushUp(t)
  PROVE  OrderInv'
<1> DEFINE e == Head(outbox[t])
<1>1. /\ e \in UpCommand /\ e = outbox[t][1]
      /\ Len(outbox[t]) \in Nat /\ Len(outbox[t]) > 0
      /\ Len(outbox'[t]) = Len(outbox[t]) - 1
      /\ \A i \in 1 .. Len(outbox'[t]) : outbox'[t][i] = outbox[t][i + 1]
      /\ \A u \in Threads : u # t => outbox'[u] = outbox[u]
      /\ client' = Append(client, e)
  BY PushUpFacts
<1>2. /\ UNCHANGED <<infos, handled, known, inb, sent, owner, acc>>
      /\ e.type = "CLOSE" => /\ CloseSocket(e.id)
                             /\ closes' = [closes EXCEPT ![e.id] = @ + 1]
      /\ e.type # "CLOSE" => status' = status
      /\ UNCHANGED accVars
      /\ outbox[t] # << >> /\ outbox'[t] = Tail(outbox[t])
  BY DEF PushUp, peerVars, accVars, mainVars, mapVars, TypeOK
<1>3. 1 \in 1 .. Len(outbox[t]) BY <1>1
<1>4. e.id \in Conns /\ owner[e.id] = t /\ status[e.id] # "none"
      /\ (e.type = "CLOSE" => e = Close(e.id))
  <2>1. /\ outbox[t][1].id \in Conns /\ owner[outbox[t][1].id] = t
        /\ status[outbox[t][1].id] # "none"
    BY <1>3, OutboxFacts
  <2>2. e.type = "CLOSE" => e = Close(e.id) BY <1>1, UpCommandFacts
  <2> QED BY <1>1, <2>1, <2>2
<1> HIDE DEF e
<1>5. \A x : /\ InOutbox(x)' => InOutbox(x)
             /\ InOutbox(x) => InOutbox(x)' \/ x = e
             /\ InOutbox(e)
  <2> TAKE x
  <2>1. InOutbox(e) BY <1>1, <1>3 DEF InOutbox
  <2>2. ASSUME NEW u \in Threads, NEW i \in 1 .. Len(outbox'[u]), outbox'[u][i] = x
        PROVE  InOutbox(x)
    <3>1. CASE u # t BY <1>1, <2>2, <3>1 DEF InOutbox
    <3>2. CASE u = t
      <4>1. i + 1 \in 1 .. Len(outbox[t]) BY <1>1, <3>2
      <4> QED BY <1>1, <2>2, <3>2, <4>1 DEF InOutbox
    <3> QED BY <3>1, <3>2
  <2>3. ASSUME NEW u \in Threads, NEW i \in 1 .. Len(outbox[u]), outbox[u][i] = x, x # e
        PROVE  InOutbox(x)'
    <3>1. CASE u # t BY <1>1, <2>3, <3>1 DEF InOutbox
    <3>2. CASE u = t
      <4>1. i - 1 \in 1 .. Len(outbox'[t]) /\ (i - 1) + 1 = i BY <1>1, <2>3, <3>2
      <4>2. outbox'[t][i - 1] = x BY <1>1, <2>3, <3>2, <4>1
      <4> QED BY <4>1, <4>2 DEF InOutbox
    <3> QED BY <3>1, <3>2
  <2> QED BY <2>1, <2>2, <2>3 DEF InOutbox
<1>6. \A x : InClient(x)' <=> InClient(x) \/ x = e BY <1>1, ClientAppend
<1>7. \A d \in Conns : Way(d)' = Way(d) BY <1>5, <1>6 DEF Way
<1>8. ASSUME NEW d \in Conns, Reads(d)' PROVE Reads(d)
  <2>1. Ending(d) <=> InOutbox(Close(d)) BY DEF Ending, InOutbox
  <2>2. Ending(d)' <=> InOutbox(Close(d))' BY DEF Ending, InOutbox
  <2>3. Close(d).id = d /\ Close(d).type = "CLOSE" BY DEF Close
  <2>4. CASE e.type = "CLOSE"
    <3>1. /\ status'[e.id] = "none" /\ \A x \in Conns \ {e.id} : status'[x] = status[x]
      BY <1>2, <1>4, <2>4, CloseReactor
    <3>2. d # e.id BY <1>8, <3>1 DEF Reads
    <3>3. e # Close(d) BY <2>3, <3>2
    <3> QED BY <1>5, <1>8, <2>1, <2>2, <3>1, <3>2, <3>3 DEF Reads
  <2>5. CASE e.type # "CLOSE"
    <3>1. e # Close(d) BY <2>3, <2>5
    <3> QED BY <1>2, <1>5, <1>8, <2>1, <2>2, <2>5, <3>1 DEF Reads
  <2> QED BY <2>4, <2>5
<1>9. NothingSkipped'
  <2> SUFFICES ASSUME NEW d \in Conns PROVE NoGap(Way(d), Mark(d), ReadSoFar(d), Reads(d))'
    BY DEF NothingSkipped
  <2>1. NoGap(Way(d), Mark(d), ReadSoFar(d), Reads(d)) BY DEF OrderInv, NothingSkipped
  <2>2. NoGap(Way(d), Mark(d), ReadSoFar(d), Reads(d)') BY <1>8, <2>1, NoGapLess
  <2>3. Mark(d)' = Mark(d) /\ ReadSoFar(d)' = ReadSoFar(d) BY <1>2 DEF Mark, ReadSoFar
  <2> QED BY <1>7, <2>2, <2>3
<1>10. client \in Seq(UpCommand) /\ outbox[t] \in Seq(UpCommand) BY DEF TypeOK
<1>11. Ordered(client')
  <2>1. ASSUME NEW c \in Conns, NEW m \in 1 .. MaxMsgs, NEW n \in 1 .. MaxMsgs,
               NEW i \in 1 .. Len(client), client[i] = Message(c, m), e = Message(c, n)
        PROVE  m < n
    <3>1. outbox[t][1] = Message(c, n) BY <1>1, <2>1
    <3> QED BY <1>3, <2>1, <3>1 DEF OrderInv, QueuesOrdered, MainFirst
  <2> QED BY <1>1, <1>10, <2>1, OrderedAppend DEF OrderInv, QueuesOrdered
<1>12. \A u \in Threads : Ordered(outbox'[u])
  <2>1. Ordered(outbox'[t]) BY <1>2, <1>10, OrderedTail DEF OrderInv, QueuesOrdered
  <2> QED BY <1>1, <2>1 DEF OrderInv, QueuesOrdered
<1>13. MainFirst'
  <2> SUFFICES ASSUME NEW u \in Threads, NEW c \in Conns, NEW m \in 1 .. MaxMsgs,
                      NEW n \in 1 .. MaxMsgs, NEW i \in 1 .. Len(client'),
                      NEW j \in 1 .. Len(outbox'[u]), client'[i] = Message(c, m),
                      outbox'[u][j] = Message(c, n)
               PROVE  m < n
    BY DEF MainFirst
  <2>1. /\ Len(client') = Len(client) + 1 /\ Len(client) \in Nat
        /\ \A k \in 1 .. Len(client) : client'[k] = client[k]
        /\ client'[Len(client) + 1] = e
    BY <1>1, <1>10, AppendFacts
  <2>2. PICK k \in 1 .. Len(outbox[u]) : outbox[u][k] = Message(c, n) /\ (u = t => 1 < k)
    <3>1. CASE u # t BY <1>1, <3>1
    <3>2. CASE u = t
      <4>1. j + 1 \in 1 .. Len(outbox[t]) /\ 1 < j + 1 BY <1>1, <3>2
      <4> QED BY <1>1, <3>2, <4>1
    <3> QED BY <3>1, <3>2
  <2>3. CASE i \in 1 .. Len(client)
    BY <2>1, <2>2, <2>3 DEF OrderInv, QueuesOrdered, MainFirst
  <2>4. CASE i = Len(client) + 1
    <3>1. outbox[t][1] = Message(c, m) BY <1>1, <2>1, <2>4
    <3>2. Message(c, m).id = c /\ Message(c, n).id = c BY DEF Message
    <3>3. u = t BY <1>3, <2>2, <3>1, <3>2, OutboxFacts
    <3> QED BY <1>3, <2>2, <3>1, <3>3 DEF OrderInv, QueuesOrdered, Ordered
  <2> QED BY <2>1, <2>3, <2>4
<1>14. QueuesOrdered' BY <1>11, <1>12, <1>13 DEF QueuesOrdered
<1>15. UnreadIsQuiet'
  <2>1. \A d \in Conns : Unread(d)' => Unread(d) BY <1>2 DEF Unread, Attaching
  <2> QED BY <1>7, <2>1 DEF OrderInv, UnreadIsQuiet
<1>16. Numbered' BY <1>2 DEF OrderInv, Numbered, ReadSoFar
<1>17. HandledIsKnown' BY <1>2 DEF OrderInv, HandledIsKnown
<1> QED BY <1>9, <1>14, <1>15, <1>16, <1>17 DEF OrderInv

(* onSocketRead and what follows it in doEvent. *)
LEMMA EventOrder ==
  ASSUME TypeOK, ReactorInv, OrderInv, NEW c \in Conns, SocketEvent(c)
  PROVE  OrderInv'
<1>1. inb[c] \in Seq(0 .. MaxMsgs) /\ Len(inb[c]) \in Nat BY DEF TypeOK
<1>2. PICK n \in ReadSizes(c) : \E good \in 0 .. n :
        LET data == SubSeq(inb[c], 1, n)
            k    == ReadCloses(c, data, good) + ErrorCloses(c, data, good)
        IN  /\ Accepts(data, good)
            /\ inb' = [inb EXCEPT ![c] = SubSeq(inb[c], n + 1, Len(inb[c]))]
            /\ outbox' = [outbox EXCEPT ![owner[c]] =
                            Decoded(c, data, good) \o CloseReports(c, k)]
  BY DEF SocketEvent
<1>3. n \in 0 .. Len(inb[c]) BY <1>1, BoundsAssumption DEF ReadSizes, Overflow
<1> DEFINE data == SubSeq(inb[c], 1, n)
<1>4. PICK good \in 0 .. n :
            /\ Accepts(data, good)
            /\ inb' = [inb EXCEPT ![c] = SubSeq(inb[c], n + 1, Len(inb[c]))]
            /\ outbox' = [outbox EXCEPT ![owner[c]] =
                 Decoded(c, data, good)
                   \o CloseReports(c, ReadCloses(c, data, good) + ErrorCloses(c, data, good))]
  BY <1>2
<1> DEFINE ends == ReadCloses(c, data, good) + ErrorCloses(c, data, good)
           out == Decoded(c, data, good) \o CloseReports(c, ends)
<1>5. data \in Seq(0 .. MaxMsgs) /\ Len(data) = n /\ \A i \in 1 .. n : data[i] = inb[c][i]
  BY <1>1, <1>3, SplitFacts
<1>6. ends \in Nat /\ (ends = 0 => good = n)
  <2>1. ReadCloses(c, data, good) \in {0, 1} BY DEF ReadCloses
  <2>2. ErrorCloses(c, data, good) \in {0, 1} BY DEF ErrorCloses
  <2>3. good < n => ReadCloses(c, data, good) = 1
    <3>1. Len(data) = n BY <1>5
    <3> HIDE DEF data
    <3> QED BY <3>1 DEF ReadCloses
  <2> HIDE DEF data
  <2> QED BY <1>3, <2>1, <2>2, <2>3
<1>7. /\ \A i \in 1 .. good : data[i] # 0
      /\ outbox' = [outbox EXCEPT ![owner[c]] = out]
  BY <1>4 DEF Accepts
<1> HIDE DEF ends
<1>8. /\ out \in Seq(UpCommand) /\ Len(out) = good + ends
      /\ \A i \in good + 1 .. good + ends : out[i] = Close(c)
  <2>1. Accepts(SubSeq(inb[c], 1, n), good) BY <1>4
  <2> QED BY <1>1, <1>3, <1>6, <2>1, EventOutbox
<1>9. ASSUME NEW i \in 1 .. good
      PROVE  ReadSoFar(c) + i \in 1 .. MaxMsgs /\ out[i] = Message(c, ReadSoFar(c) + i)
  <2>1. i \in 1 .. Len(inb[c]) /\ i \in 1 .. n BY <1>1, <1>3
  <2>2. data[i] = inb[c][i] /\ data[i] # 0 BY <1>5, <1>7, <2>1
  <2>3. inb[c][i] \in 0 .. MaxMsgs BY <1>1, <2>1, EntryIn
  <2>4. inb[c][i] \in {0, ReadSoFar(c) + i} BY <2>1 DEF OrderInv, Numbered
  <2> HIDE DEF data
  <2>5. data[i] = ReadSoFar(c) + i /\ data[i] \in 1 .. MaxMsgs
    BY <2>2, <2>3, <2>4, BoundsAssumption
  <2>6. out[i] = Message(c, data[i])
    <3> DEFINE msgs == Decoded(c, data, good)
               tail == CloseReports(c, ends)
    <3>0. \A j \in 1 .. good : data[j] \in 1 .. MaxMsgs
      <4> TAKE j \in 1 .. good
      <4>1. j \in 1 .. Len(data) BY <1>3, <1>5
      <4>2. data[j] \in 0 .. MaxMsgs BY <1>5, <4>1, EntryIn
      <4>3. data[j] # 0 BY <1>7
      <4> QED BY <4>2, <4>3, BoundsAssumption
    <3>1. msgs \in [1 .. good -> UpCommand] /\ msgs[i] = Message(c, data[i])
      BY <3>0, CommandTypes DEF Decoded
    <3>2. tail \in [1 .. ends -> UpCommand] BY CommandTypes DEF CloseReports
    <3> HIDE DEF msgs, tail
    <3>3. good \in Nat BY <1>3
    <3>4. msgs \in Seq(UpCommand) /\ Len(msgs) = good /\ tail \in Seq(UpCommand)
      BY <1>6, <3>1, <3>2, <3>3, TableFacts
    <3>5. (msgs \o tail)[i] = msgs[i] BY <3>4, ConcatFacts
    <3> QED BY <3>1, <3>5 DEF msgs, tail
  <2> QED BY <2>5, <2>6
<1>10. /\ \A d \in Conns \ {c} : inb'[d] = inb[d]
       /\ Len(inb'[c]) = Len(inb[c]) - n
       /\ \A i \in 1 .. Len(inb'[c]) : inb'[c][i] = inb[c][n + i]
  <2>1. inb'[c] = SubSeq(inb[c], n + 1, Len(inb[c])) /\ \A d \in Conns \ {c} : inb'[d] = inb[d]
    BY <1>4 DEF TypeOK
  <2>2. /\ Len(SubSeq(inb[c], n + 1, Len(inb[c]))) = Len(inb[c]) - n
        /\ \A i \in 1 .. Len(inb[c]) - n : SubSeq(inb[c], n + 1, Len(inb[c]))[i] = inb[c][n + i]
    BY <1>1, <1>3, RestFacts
  <2> QED BY <2>1, <2>2
<1>11. /\ status[c] # "none" /\ Idle(owner[c])
       /\ UNCHANGED <<client, infos, handled, known, sent, status, owner, acc>>
  BY DEF SocketEvent, accVars, mapVars, mainVars
<1> HIDE DEF out
<1>12. Pushes(c, good, ends, out) BY <1>8, <1>9 DEF Pushes
<1>13. Takes(c, n) BY <1>10 DEF Takes
<1> QED BY <1>3, <1>6, <1>7, <1>11, <1>12, <1>13, HandlerOrder

(* A handler that only reports the end of its connection. *)
LEMMA ReportOrder ==
  ASSUME TypeOK, ReactorInv, OrderInv, NEW c \in Conns, status[c] # "none", Idle(owner[c]),
         outbox' = [outbox EXCEPT ![owner[c]] = CloseReports(c, 1)],
         UNCHANGED <<client, infos, handled, known, inb, sent, status, owner, acc>>
  PROVE  OrderInv'
<1> DEFINE out == CloseReports(c, 1)
<1>1. out \in Seq(UpCommand) /\ Len(out) = 0 + 1 /\ out[1] = Close(c) BY ReportFacts
<1> HIDE DEF out
<1>2. Len(inb[c]) \in Nat BY DEF TypeOK
<1>3. /\ Len(inb'[c]) = Len(inb[c]) - 0
      /\ \A i \in 1 .. Len(inb'[c]) : inb'[c][i] = inb[c][0 + i]
  BY <1>2
<1>4. 0 \in 0 .. Len(inb[c]) /\ 0 \in 0 .. 0 /\ 1 \in Nat BY <1>2
<1>5. \A i \in 0 + 1 .. 0 + 1 : out[i] = Close(c) BY <1>1
<1>6. \A i \in 1 .. 0 : ReadSoFar(c) + i \in 1 .. MaxMsgs /\ out[i] = Message(c, ReadSoFar(c) + i)
  OBVIOUS
<1>7. outbox' = [outbox EXCEPT ![owner[c]] = out] BY DEF out
<1>8. Pushes(c, 0, 1, out) BY <1>1, <1>5, <1>6 DEF Pushes
<1>9. Takes(c, 0) BY <1>3 DEF Takes
<1> QED BY <1>4, <1>7, <1>8, <1>9, HandlerOrder

(* The net threads. *)
LEMMA NetThreadOrder ==
  ASSUME TypeOK, RouteInv, ReactorInv, OrderInv, NetThread
  PROVE  OrderInv'
<1> USE DEF peerVars, accVars, mapVars, netVars, mainVars
<1>1. ASSUME NEW c \in Conns, SocketEvent(c) PROVE OrderInv' BY <1>1, EventOrder
<1>2. ASSUME NEW t \in Threads, PushUp(t) PROVE OrderInv' BY <1>2, PushUpOrder
<1>3. ASSUME NEW c \in Conns, SendMessageError(c) PROVE OrderInv'
  <2>1. /\ Idle(owner[c])
        /\ UNCHANGED <<client, infos, handled, known, inb, sent, status, owner, acc>>
        /\ \/ /\ status[c] # "none"
              /\ outbox' = [outbox EXCEPT ![owner[c]] = CloseReports(c, 1)]
           \/ outbox' = outbox
    BY <1>3 DEF SendMessageError
  <2>2. CASE outbox' = outbox
    <3>1. \A d \in Conns : Unread(d)' => Unread(d) BY <2>1 DEF Unread, Attaching
    <3> QED BY <2>1, <2>2, <3>1, FrameOrder DEF queueVars
  <2> QED BY <2>1, <2>2, ReportOrder
<1>4. ASSUME NEW t \in Threads, OnNetCommand(t) PROVE OrderInv'
  <2>1. /\ Idle(t) /\ UNCHANGED <<client, infos, handled, known, inb, sent, owner, acc>>
    BY <1>4 DEF OnNetCommand
  <2>2. \A d \in Conns : Unread(d)' => Unread(d) BY <2>1 DEF Unread, Attaching
  <2>3. CASE UNCHANGED <<mapVars, timers, outbox>>
    BY <2>1, <2>2, <2>3, FrameOrder DEF queueVars
  <2>4. ASSUME NEW failed \in SUBSET Conns, \A c \in failed : status[c] = "connected",
               SendFails(failed), UNCHANGED <<registered, sockets, outbox>>
        PROVE  OrderInv'
    <3>1. \A c \in Conns : status'[c] # "none" => status[c] # "none" BY <2>4 DEF SendFails
    <3> QED BY <2>1, <2>2, <2>4, <3>1, FrameOrder DEF queueVars
  <2>5. ASSUME NEW c \in Conns, status[c] = "connected", CloseSocket(c),
               UNCHANGED <<timers, outbox>>
        PROVE  OrderInv'
    <3>1. \A d \in Conns : status'[d] # "none" => status[d] # "none"
      BY <2>5 DEF CloseSocket, TypeOK
    <3> QED BY <2>1, <2>2, <2>5, <3>1, FrameOrder DEF queueVars
  <2>6. ASSUME NEW c \in Conns, Head(command[t]).id = c, Head(command[t]).type = "MESSAGE",
               status[c] = "connected",
               outbox' = [outbox EXCEPT ![owner[c]] = CloseReports(c, 1)],
               UNCHANGED <<mapVars, timers>>
        PROVE  OrderInv'
    <3>1. owner[c] = t BY <1>4, <2>6, HeadOwner
    <3> QED BY <2>1, <2>6, <3>1, ReportOrder
  <2> QED BY <1>4, <2>3, <2>4, <2>5, <2>6, CommandCases
<1> QED BY <1>1, <1>2, <1>3, <1>4 DEF NetThread

(* A pop keeps the order of the queues, ... *)
LEMMA PopQueues ==
  ASSUME TypeOK, QueuesOrdered, NEW cmd, PopClient(cmd), outbox' = outbox
  PROVE  QueuesOrdered'
<1>1. client \in Seq(UpCommand) /\ client # << >> /\ client' = Tail(client)
  BY DEF TypeOK, PopClient
<1>2. /\ Len(client) \in Nat /\ Len(client') = Len(client) - 1
      /\ \A i \in 1 .. Len(client') : client'[i] = client[i + 1]
  BY <1>1, TailFacts
<1>3. Ordered(client') BY <1>1, OrderedTail DEF QueuesOrdered
<1>4. MainFirst'
  <2> SUFFICES ASSUME NEW t \in Threads, NEW c \in Conns, NEW m \in 1 .. MaxMsgs,
                      NEW n \in 1 .. MaxMsgs, NEW i \in 1 .. Len(client'),
                      NEW j \in 1 .. Len(outbox[t]), client'[i] = Message(c, m),
                      outbox[t][j] = Message(c, n)
               PROVE  m < n
    BY DEF MainFirst
  <2>1. i + 1 \in 1 .. Len(client) /\ client[i + 1] = Message(c, m) BY <1>2
  <2> QED BY <2>1 DEF QueuesOrdered, MainFirst
<1> QED BY <1>3, <1>4 DEF QueuesOrdered

(* ... takes no packet when the command is no message, ... *)
LEMMA PopOther ==
  ASSUME TypeOK, NEW cmd, PopClient(cmd), outbox' = outbox, \A c, n : cmd # Message(c, n),
         NEW d \in Conns
  PROVE  Way(d)' = Way(d)
<1>1. \A x : /\ InClient(x)' => InClient(x)
             /\ InClient(x) => InClient(x)' \/ x = cmd
  BY ClientTail DEF PopClient
<1>2. \A n : InClient(Message(d, n))' <=> InClient(Message(d, n)) BY <1>1
<1> QED BY <1>2 DEF Way, InOutbox

(* ... and the first packet on its way when it is one. *)
LEMMA PopWay ==
  ASSUME TypeOK, QueuesOrdered, NEW c \in Conns, NEW n \in 1 .. MaxMsgs,
         PopClient(Message(c, n)), outbox' = outbox
  PROVE  /\ n \in Way(c) /\ Way(c)' = Way(c) \ {n}
         /\ \A x \in Way(c) \ {n} : n < x
         /\ \A d \in Conns \ {c} : Way(d)' = Way(d)
<1>1. client \in Seq(UpCommand) /\ client # << >> /\ client' = Tail(client)
  BY DEF TypeOK, PopClient
<1>2. /\ Len(client) \in Nat /\ Len(client) > 0 /\ Len(client') = Len(client) - 1
      /\ \A i \in 1 .. Len(client') : client'[i] = client[i + 1]
      /\ client[1] = Message(c, n)
  BY <1>1, TailFacts DEF PopClient
<1>3. \A x : /\ InClient(x)' => InClient(x)
             /\ InClient(x) => InClient(x)' \/ x = Message(c, n)
  BY ClientTail DEF PopClient
<1>4. 1 \in 1 .. Len(client) BY <1>2
<1>5. n \in Way(c) BY <1>2, <1>4 DEF Way, InClient
<1>6. ASSUME NEW x \in 1 .. MaxMsgs, InClient(Message(c, x))' PROVE n < x
  <2>1. PICK i \in 1 .. Len(client') : client'[i] = Message(c, x) BY <1>6 DEF InClient
  <2>2. i + 1 \in 1 .. Len(client) /\ client[i + 1] = Message(c, x) /\ 1 < i + 1 BY <1>2, <2>1
  <2> QED BY <1>2, <1>4, <2>2 DEF QueuesOrdered, Ordered
<1>7. ASSUME NEW x \in 1 .. MaxMsgs, InOutbox(Message(c, x)) PROVE n < x
  BY <1>2, <1>4, <1>7 DEF QueuesOrdered, MainFirst, InOutbox
<1>8. \A x : InOutbox(x)' <=> InOutbox(x) BY DEF InOutbox
<1>9. ASSUME NEW x \in Way(c), x # n PROVE n < x /\ x \in Way(c)'
  <2>1. x \in 1 .. MaxMsgs /\ (InClient(Message(c, x)) \/ InOutbox(Message(c, x))) BY DEF Way
  <2>2. Message(c, x) # Message(c, n) BY <1>9, MessageFacts
  <2>3. InClient(Message(c, x))' \/ InOutbox(Message(c, x)) BY <1>3, <2>1, <2>2
  <2>4. n < x BY <1>6, <1>7, <2>1, <2>3
  <2> QED BY <1>8, <2>1, <2>3, <2>4 DEF Way
<1>10. ASSUME NEW x \in Way(c)' PROVE x \in Way(c) /\ x # n
  <2>1. x \in 1 .. MaxMsgs /\ (InClient(Message(c, x))' \/ InOutbox(Message(c, x)))
    BY <1>8 DEF Way
  <2>2. n < x BY <1>6, <1>7, <2>1
  <2> QED BY <1>3, <2>1, <2>2 DEF Way
<1>11. ASSUME NEW d \in Conns \ {c} PROVE Way(d)' = Way(d)
  <2>1. \A m : Message(d, m) # Message(c, n)
    <3>1. c # d OBVIOUS
    <3> QED BY ONLY <3>1, MessageFacts
  <2>2. \A m : InClient(Message(d, m))' <=> InClient(Message(d, m)) BY <1>3, <2>1
  <2> QED BY <1>8, <2>2 DEF Way
<1> QED BY <1>5, <1>9, <1>10, <1>11

(* A step of the main thread, put together. *)
LEMMA MainThreadOrder ==
  ASSUME OrderInv, UNCHANGED <<outbox, inb, sent, status, owner, acc>>,
         QueuesOrdered', HandledIsKnown',
         \A c \in Conns : Way(c)' \subseteq Way(c),
         \A c \in Conns : NoGap(Way(c)', Mark(c)', ReadSoFar(c), Reads(c))
  PROVE  OrderInv'
<1>1. \A c \in Conns : /\ ReadSoFar(c)' = ReadSoFar(c) /\ Reads(c)' = Reads(c)
                       /\ (Unread(c)' => Unread(c))
  BY DEF ReadSoFar, Reads, Ending, Unread, Attaching
<1>2. Numbered' BY DEF OrderInv, Numbered, ReadSoFar
<1>3. NothingSkipped' BY <1>1 DEF NothingSkipped
<1>4. UnreadIsQuiet' BY <1>1 DEF OrderInv, UnreadIsQuiet
<1> QED BY <1>2, <1>3, <1>4 DEF OrderInv

(* A message is popped: dropped, or handled in its turn. *)
LEMMA MessageOrder ==
  ASSUME TypeOK, RouteInv, OrderInv, NEW c \in Conns, NEW n \in 1 .. MaxMsgs,
         ProcessMessage(c, n)
  PROVE  /\ OrderInv'
         /\ \A d \in Conns : handled'[d] # handled[d] =>
              handled[d] = 0 \/ handled'[d] = handled[d] + 1
<1>1. /\ PopClient(Message(c, n))
      /\ UNCHANGED <<outbox, inb, sent, status, owner, acc, known>>
      /\ \/ c \notin infos /\ infos' = infos /\ handled' = handled
         \/ infos' = infos \ {c} /\ handled' = handled
         \/ /\ c \in infos /\ infos' = infos
            /\ handled' = [handled EXCEPT ![c] = n]
  BY DEF ProcessMessage, Disconnect, peerVars, accVars, netVars, mapVars
<1>2. QueuesOrdered /\ QueuesOrdered' BY <1>1, PopQueues DEF OrderInv
<1>3. /\ n \in Way(c) /\ Way(c)' = Way(c) \ {n}
      /\ \A x \in Way(c) \ {n} : n < x
      /\ \A d \in Conns \ {c} : Way(d)' = Way(d)
  BY <1>1, <1>2, PopWay
<1>4. /\ Way(c) \in SUBSET (1 .. MaxMsgs) /\ Mark(c) \in 0 .. MaxMsgs /\ ReadSoFar(c) \in Int
      /\ handled \in [Conns -> 0 .. MaxMsgs]
  BY WayTypes DEF TypeOK
<1>5. \A d \in Conns : NoGap(Way(d), Mark(d), ReadSoFar(d), Reads(d))
  BY DEF OrderInv, NothingSkipped
<1>6. \A d \in Conns \ {c} : handled'[d] = handled[d] /\ (d \in infos' <=> d \in infos)
  BY <1>1, <1>4
<1>7. \A d \in Conns \ {c} : Mark(d)' = Mark(d) BY <1>6 DEF Mark
<1>8. CASE c \notin infos' /\ handled' = handled
  <2>1. Mark(c)' = 0 BY <1>8 DEF Mark
  <2>2. NoGap(Way(c) \ {n}, 0, ReadSoFar(c), Reads(c)) BY <1>3, <1>4, <1>5, NoGapDrop
  <2>3. \A d \in Conns : NoGap(Way(d)', Mark(d)', ReadSoFar(d), Reads(d))
    BY <1>3, <1>5, <1>7, <2>1, <2>2
  <2>4. HandledIsKnown' BY <1>1, <1>8 DEF OrderInv, HandledIsKnown
  <2>5. \A d \in Conns : Way(d)' \subseteq Way(d) BY <1>3
  <2> QED BY <1>1, <1>2, <1>8, <2>3, <2>4, <2>5, MainThreadOrder
<1>9. CASE c \in infos /\ infos' = infos /\ handled' = [handled EXCEPT ![c] = n]
  <2>1. handled'[c] = n BY <1>4, <1>9
  <2>2. Mark(c)' = n /\ Mark(c) = handled[c] BY <1>9, <2>1 DEF Mark
  <2>3. /\ NoGap(Way(c) \ {n}, n, ReadSoFar(c), Reads(c))
        /\ Mark(c) = 0 \/ n = Mark(c) + 1
    BY <1>3, <1>4, <1>5, NoGapHandle
  <2>4. \A d \in Conns : NoGap(Way(d)', Mark(d)', ReadSoFar(d), Reads(d))
    BY <1>3, <1>5, <1>7, <2>2, <2>3
  <2>5. HandledIsKnown'
    <3>1. c \in known BY <1>9 DEF RouteInv, EntryIsKnown
    <3> QED BY <1>1, <1>6, <3>1 DEF OrderInv, HandledIsKnown
  <2>6. \A d \in Conns : Way(d)' \subseteq Way(d) BY <1>3
  <2>7. OrderInv' BY <1>1, <1>2, <2>4, <2>5, <2>6, MainThreadOrder
  <2>8. ASSUME NEW d \in Conns, handled'[d] # handled[d]
        PROVE  handled[d] = 0 \/ handled'[d] = handled[d] + 1
    <3>1. d = c BY <1>6, <2>8
    <3> QED BY <2>1, <2>2, <2>3, <3>1
  <2> QED BY <2>7, <2>8
<1> QED BY <1>1, <1>8, <1>9

(* NEW and CLOSE are popped, and the application calls TcpService. *)
LEMMA ServiceOrder ==
  ASSUME TypeOK, RouteInv, MainInv, OrderInv, NEW c \in Conns,
         ProcessNew(c) \/ ProcessClose(c) \/ AppCall(c) \/ AppBroadcast
  PROVE  OrderInv' /\ handled' = handled
<1> USE DEF peerVars, accVars, netVars, mapVars, mainVars
<1>1. /\ UNCHANGED <<outbox, inb, sent, status, owner, acc, handled>> /\ known \subseteq known'
      /\ \/ infos' = infos \cup {c} /\ ProcessNew(c)
         \/ infos' = infos \ {c}
         \/ infos' = infos
  BY DEF ProcessNew, ProcessClose, AppCall, AppBroadcast, Disconnect
<1>2. QueuesOrdered' /\ \A d \in Conns : Way(d)' = Way(d)
  <2>1. CASE client' = client
    BY <1>1, <2>1 DEF OrderInv, QueuesOrdered, Ordered, MainFirst, Way, InClient, InOutbox
  <2>2. ASSUME NEW cmd \in {New(c), Close(c)}, PopClient(cmd)
        PROVE  QueuesOrdered' /\ \A d \in Conns : Way(d)' = Way(d)
    <3>1. \A d, n : cmd # Message(d, n) BY MessageFacts
    <3>2. QueuesOrdered' BY <1>1, <2>2, PopQueues DEF OrderInv
    <3> QED BY <1>1, <2>2, <3>1, <3>2, PopOther
  <2> QED BY <2>1, <2>2 DEF ProcessNew, ProcessClose, AppCall, AppBroadcast
<1>3. HandledIsKnown' BY <1>1 DEF OrderInv, HandledIsKnown
<1>4. ASSUME NEW d \in Conns PROVE NoGap(Way(d)', Mark(d)', ReadSoFar(d), Reads(d))
  <2>0. NoGap(Way(d), Mark(d), ReadSoFar(d), Reads(d)) BY DEF OrderInv, NothingSkipped
  <2>1. CASE Mark(d)' = Mark(d) BY <1>2, <2>0, <2>1
  <2>2. CASE Mark(d)' = 0
    <3>1. Way(d) \in SUBSET (1 .. MaxMsgs) /\ Mark(d) \in 0 .. MaxMsgs /\ ReadSoFar(d) \in Int
      BY WayTypes
    <3>2. NoGap(Way(d), 0, ReadSoFar(d), Reads(d)) BY <2>0, <3>1, NoGapForget
    <3> QED BY <1>2, <2>2, <3>2
  <2>3. Mark(d)' = Mark(d) \/ Mark(d)' = 0
    <3>1. CASE infos' = infos \cup {c} /\ ProcessNew(c)
      <4>1. InClient(New(c)) BY <3>1, ClientTail DEF ProcessNew, PopClient
      <4>2. c \notin known BY <4>1 DEF MainInv, NewOnce
      <4>3. handled[c] = 0 BY <4>2 DEF OrderInv, HandledIsKnown
      <4> QED BY <1>1, <3>1, <4>3 DEF Mark
    <3>2. CASE infos' = infos \ {c} \/ infos' = infos BY <1>1, <3>2 DEF Mark
    <3> QED BY <1>1, <3>1, <3>2
  <2> QED BY <2>1, <2>2, <2>3
<1> QED BY <1>1, <1>2, <1>3, <1>4, MainThreadOrder

(* Every step keeps the fourth layer, and handles packets in their turn. *)
LEMMA NextOrder ==
  ASSUME IInv, OrderInv, [Next]_vars
  PROVE  /\ OrderInv'
         /\ \A c \in Conns : handled'[c] # handled[c] =>
              handled[c] = 0 \/ handled'[c] = handled[c] + 1
<1> USE DEF IInv
<1> DEFINE Turn == \A c \in Conns : handled'[c] # handled[c] =>
                     handled[c] = 0 \/ handled'[c] = handled[c] + 1
<1>1. handled' = handled => Turn OBVIOUS
<1> HIDE DEF Turn
<1>2. CASE Clients
  <2>1. handled' = handled
    BY <1>2 DEF Clients, Connect, SendPacket, Hangup, mainVars
  <2>2. ASSUME NEW c \in Conns, Connect(c) \/ Hangup(c) PROVE OrderInv'
    <3>1. UNCHANGED queueVars /\ UNCHANGED <<status, owner, acc>>
      BY <2>2 DEF Connect, Hangup, queueVars, accVars, netVars, mapVars, mainVars
    <3>2. \A d \in Conns : Unread(d)' => Unread(d) BY <3>1 DEF Unread, Attaching
    <3> QED BY <3>1, <3>2, FrameOrder
  <2> QED BY <1>1, <1>2, <2>1, <2>2, SendOrder DEF Clients
<1>3. CASE Acceptor
  <2>1. handled' = handled
    BY <1>3 DEF Acceptor, Accept, ScanThread, ChooseThread, RegisterSocket, InsertSocket,
                InsertConnection, AnnounceNew, mainVars
  <2> QED BY <1>1, <1>3, <2>1, AcceptorOrder
<1>4. CASE NetThread
  <2>1. handled' = handled
    BY <1>4 DEF NetThread, SocketEvent, SendMessageError, PushUp, OnNetCommand, mainVars
  <2> QED BY <1>1, <1>4, <2>1, NetThreadOrder
<1>5. CASE ProcessNetCommand
  BY <1>1, <1>5, ServiceOrder, MessageOrder DEF ProcessNetCommand, Turn
<1>6. CASE Application
  <2>1. CASE AppBroadcast
    <3>1. CASE Conns = {} BY <3>1, <2>1 DEF AppBroadcast, Turn, OrderInv, Numbered, QueuesOrdered,
            Ordered, MainFirst, NothingSkipped, UnreadIsQuiet, HandledIsKnown
    <3>2. CASE Conns # {} BY <1>1, <2>1, <3>2, ServiceOrder
    <3> QED BY <3>1, <3>2
  <2> QED BY <1>1, <1>6, <2>1, ServiceOrder DEF Application
<1>7. CASE UNCHANGED vars
  <2>1. UNCHANGED queueVars /\ UNCHANGED <<status, owner, acc>>
    BY <1>7 DEF vars, queueVars, peerVars, accVars, netVars, mapVars, mainVars
  <2>2. \A d \in Conns : Unread(d)' => Unread(d) BY <2>1 DEF Unread, Attaching
  <2> QED BY <1>1, <2>1, <2>2, FrameOrder DEF queueVars
<1> QED BY <1>2, <1>3, <1>4, <1>5, <1>6, <1>7 DEF Next, Turn

(* The handlers see the packets of a connection in the order sent and without
   a gap after the first one they see, whatever is read in one go, rejected,
   cut off or dropped: for any number of connections, threads and packets. *)
THEOREM PacketsInTurn == Spec => HandledInOrder
<1>1. IInv /\ OrderInv /\ [Next]_vars => OrderInv' BY NextOrder
<1>2. IInv /\ OrderInv /\ [Next]_vars
        => [\A c \in Conns : handled'[c] # handled[c] =>
              handled[c] = 0 \/ handled'[c] = handled[c] + 1]_vars
  BY NextOrder
<1> QED BY <1>1, <1>2, InitOrder, Invariance, PTL DEF Spec, HandledInOrder
=============================================================================
