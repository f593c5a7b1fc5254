------------------------------ MODULE NetServer ------------------------------
(***************************************************************************)
(* The server of zbluenet on Linux: the acceptor thread, the net threads   *)
(* (a NetThread and its EpollReactor each) and the main thread             *)
(* (TcpService/GameService), connected by queues of NetCommands.           *)
(*                                                                         *)
(*   acceptor    onNewConnCallback picks the net thread with the fewest    *)
(*               connections, attaches the socket to its reactor and only  *)
(*               then tells the main thread NEW;                           *)
(*   net thread  reads, decodes and pushes MESSAGE and CLOSE up; executes  *)
(*               the commands the main thread pushes down;                 *)
(*   main        keeps connection_infos_ and runs the application.         *)
(*                                                                         *)
(* The maps of a reactor are one function per map over all connections: a  *)
(* socket id is attached to one reactor only, owner[c].  attachSocket runs *)
(* on the acceptor thread and is split at every access to state that the   *)
(* reactor's thread reads.  A handler of a net thread runs in one step,    *)
(* except that the commands it pushes up leave its outbox one by one, so   *)
(* that pushes of other threads fall between them.  A pushed CLOSE and the *)
(* removal of the socket that follows it are one step: other threads read  *)
(* nothing of the maps but their size, and that they may read before as    *)
(* well.  The queues are mailboxes (see MessageQueue); the main thread's   *)
(* is one while fewer than 100 commands wait in it, which the bounds of    *)
(* every run ensure.  Payloads are numbers: 0 is a packet that             *)
(* NetProtocol::recvMessage rejects, n the n-th packet of the client.      *)
(*                                                                         *)
(* A definition introduced by "Slip" is not part of the specification: it  *)
(* is a plausible mistake in the operation that follows it, kept to show   *)
(* that a property notices it.                                             *)
(***************************************************************************)
EXTENDS Integers, Sequences, FiniteSets

CONSTANTS Conns,       \* client connections, each with its own socket id
          NumThreads,  \* net_thread_num_
          MaxMsgs,     \* bound: packets a client sends
          RecvMax,     \* conn_read_buffer_max_size_, in packets
          MaxOps       \* bound: operations the application starts

ASSUME ConnsAssumption == IsFiniteSet(Conns)
ASSUME ThreadsAssumption == NumThreads \in Nat \ {0}
ASSUME BoundsAssumption == /\ MaxMsgs \in Nat
                           /\ RecvMax \in Nat
                           /\ MaxOps \in Nat

Threads  == 0 .. NumThreads - 1
NoThread == -1

VARIABLES
  \* the clients and the kernel
  peer,        \* peer[c]: "none", "open", "fin" or "rst"
  inb,         \* inb[c]: packets received by the kernel and not read
  sent,        \* sent[c]: packets the client has sent
  \* the acceptor thread
  acc,         \* where it is in onNewConnCallback
  owner,       \* owner[c]: reactor_id of the connection's NetId
  \* the net threads
  registered,  \* sockets in the epoll set of their reactor
  sockets,     \* Reactor::sockets_
  status,      \* Reactor::connections_ with the status, "none" if absent
  timers,      \* connections with a pending onSendMessageError timer
  broadcast,   \* broadcast_list_
  outbox,      \* outbox[t]: commands the running handler has yet to push up
  command,     \* command[t]: command_queue_
  \* the main thread
  client,      \* client_net_command_queue_
  infos,       \* keys of connection_infos_
  known,       \* connections whose connect callback has run
  handled,     \* handled[c]: number of the last packet given to a handler
  ops,         \* operations the application has started
  disconnected,\* connections TcpService::disconnect was called for
  \* history, not in the code
  closes,      \* closes[c]: CLOSE commands the net thread has pushed for c
  orphans      \* connections announced after their CLOSE, or never attached

peerVars  == <<peer, inb, sent>>
accVars   == <<acc, owner>>
mapVars   == <<registered, sockets, status>>
netVars   == <<mapVars, timers, broadcast, outbox>>
mainVars  == <<infos, known, handled, ops, disconnected>>
vars == <<peerVars, accVars, netVars, command, client, mainVars, closes, orphans>>

(* NetCommands. *)
New(c)        == [type |-> "NEW", id |-> c]
Message(c, n) == [type |-> "MESSAGE", id |-> c, message |-> n]
Close(c)      == [type |-> "CLOSE", id |-> c]
UpCommand   == [type : {"NEW", "CLOSE"}, id : Conns]
                 \cup [type : {"MESSAGE"}, id : Conns, message : 1 .. MaxMsgs]
DownCommand == [type : {"MESSAGE", "CLOSE", "ENABLE_BROADCAST", "DISABLE_BROADCAST"},
                id : Conns]
                 \cup [type : {"BROADCAST"}]

AccIdle == [pc |-> "accept"]

Init ==
  /\ peer = [c \in Conns |-> "none"]
  /\ inb = [c \in Conns |-> << >>]
  /\ sent = [c \in Conns |-> 0]
  /\ acc = AccIdle
  /\ owner = [c \in Conns |-> NoThread]
  /\ registered = {} /\ sockets = {}
  /\ status = [c \in Conns |-> "none"]
  /\ timers = {} /\ broadcast = {}
  /\ outbox = [t \in Threads |-> << >>]
  /\ command = [t \in Threads |-> << >>]
  /\ client = << >>
  /\ infos = {} /\ known = {}
  /\ handled = [c \in Conns |-> 0]
  /\ ops = 0
  /\ disconnected = {}
  /\ closes = [c \in Conns |-> 0]
  /\ orphans = {}

----------------------------------------------------------------------------
(* The clients (external). *)

Connect(c) == /\ peer[c] = "none"
              /\ peer' = [peer EXCEPT ![c] = "open"]
              /\ UNCHANGED <<inb, sent, accVars, netVars, command, client, mainVars, closes, orphans>>

SendPacket(c) ==
  /\ peer[c] = "open"
  /\ sent[c] < MaxMsgs
  /\ \E packet \in {0, sent[c] + 1} : inb' = [inb EXCEPT ![c] = Append(@, packet)]
  /\ sent' = [sent EXCEPT ![c] = @ + 1]
  /\ UNCHANGED <<peer, accVars, netVars, command, client, mainVars, closes, orphans>>

(* An orderly shutdown, or a reset; what the kernel holds stays readable. *)
Hangup(c) == /\ peer[c] = "open"
             /\ \E how \in {"fin", "rst"} : peer' = [peer EXCEPT ![c] = how]
             /\ UNCHANGED <<inb, sent, accVars, netVars, command, client, mainVars, closes, orphans>>

----------------------------------------------------------------------------
(* The acceptor thread. *)

ConnectionNum(t) == Cardinality({c \in Conns : owner[c] = t /\ status[c] # "none"})

(* onListenSocketRead accepts a connection and gives it its socket id;
   onNewConnCallback starts its scan with thread 0. *)
Accept(c) ==
  /\ acc.pc = "accept"
  /\ peer[c] # "none"
  /\ owner[c] = NoThread
  /\ acc' = [pc |-> "scan", conn |-> c, next |-> 1, best |-> 0, least |-> ConnectionNum(0)]
  /\ UNCHANGED <<peerVars, owner, netVars, command, client, mainVars, closes, orphans>>

(* Slip: prefers the thread with the most connections. *)
ScanThreadMost ==
  /\ acc.pc = "scan"
  /\ acc.next < NumThreads
  /\ acc' = IF ConnectionNum(acc.next) > acc.least
            THEN [acc EXCEPT !.next = @ + 1, !.best = acc.next, !.least = ConnectionNum(acc.next)]
            ELSE [acc EXCEPT !.next = @ + 1]
  /\ UNCHANGED <<peerVars, owner, netVars, command, client, mainVars, closes, orphans>>

(* Slip: the scan runs one thread too far. *)
ScanThreadPastEnd ==
  /\ acc.pc = "scan"
  /\ acc.next <= NumThreads
  /\ acc' = IF ConnectionNum(acc.next) < acc.least
            THEN [acc EXCEPT !.next = @ + 1, !.best = acc.next, !.least = ConnectionNum(acc.next)]
            ELSE [acc EXCEPT !.next = @ + 1]
  /\ UNCHANGED <<peerVars, owner, netVars, command, client, mainVars, closes, orphans>>

(* One iteration of the scan; the counts are read without a lock while the
   net threads close connections. *)
ScanThread ==
  /\ acc.pc = "scan"
  /\ acc.next < NumThreads
  /\ acc' = IF ConnectionNum(acc.next) < acc.least
            THEN [acc EXCEPT !.next = @ + 1, !.best = acc.next, !.least = ConnectionNum(acc.next)]
            ELSE [acc EXCEPT !.next = @ + 1]
  /\ UNCHANGED <<peerVars, owner, netVars, command, client, mainVars, closes, orphans>>

ChooseThread ==
  /\ acc.pc = "scan"
  /\ acc.next = NumThreads
  /\ owner' = [owner EXCEPT ![acc.conn] = acc.best]
  /\ acc' = [pc |-> "register", conn |-> acc.conn]
  /\ UNCHANGED <<peerVars, netVars, command, client, mainVars, closes, orphans>>

(* attachSocket: attachIOService adds the socket to the epoll set, or fails
   and attachSocket returns false, which attach ignores. *)
RegisterSocket ==
  /\ acc.pc = "register"
  /\ \/ /\ registered' = registered \cup {acc.conn}
        /\ acc' = [acc EXCEPT !.pc = "sockets"]
     \/ /\ acc' = [acc EXCEPT !.pc = "announce"]
        /\ UNCHANGED registered
  /\ UNCHANGED <<peerVars, owner, sockets, status, timers, broadcast, outbox, command,
                 client, mainVars, closes, orphans>>

InsertSocket ==
  /\ acc.pc = "sockets"
  /\ sockets' = sockets \cup {acc.conn}
  /\ acc' = [acc EXCEPT !.pc = "connections"]
  /\ UNCHANGED <<peerVars, owner, registered, status, timers, broadcast, outbox, command,
                 client, mainVars, closes, orphans>>

InsertConnection ==
  /\ acc.pc = "connections"
  /\ status' = [status EXCEPT ![acc.conn] = "connected"]
  /\ acc' = [acc EXCEPT !.pc = "announce"]
  /\ UNCHANGED <<peerVars, owner, registered, sockets, timers, broadcast, outbox, command,
                 client, mainVars, closes, orphans>>

(* The back half of attach: sendNetCommandNew, after the socket is live. *)
AnnounceNew ==
  /\ acc.pc = "announce"
  /\ client' = Append(client, New(acc.conn))
  /\ orphans' = IF status[acc.conn] = "none" THEN orphans \cup {acc.conn} ELSE orphans
  /\ acc' = AccIdle
  /\ UNCHANGED <<peerVars, owner, netVars, command, mainVars, closes>>

----------------------------------------------------------------------------
(* A net thread.  It starts a handler only when the previous one is over. *)

Idle(t) == outbox[t] = << >>

(* Slip: the socket is left in sockets_ and in the epoll set. *)
CloseSocketHalf(c) ==
  IF c \in sockets
  THEN /\ status' = [status EXCEPT ![c] = "none"]
       /\ UNCHANGED <<registered, sockets>>
  ELSE UNCHANGED mapVars

(* NetThread::closeSocket's second half, EpollReactor::closeSocket: leaves
   the epoll set and both maps.  broadcast_list_ and the timers keep c. *)
CloseSocket(c) ==
  IF c \in sockets
  THEN /\ registered' = registered \ {c}
       /\ sockets' = sockets \ {c}
       /\ status' = [status EXCEPT ![c] = "none"]
  ELSE UNCHANGED mapVars

(* GameServer::onRecvMessage decodes packet after packet: good packets are
   accepted, and either these are all or the next one is rejected. *)
Accepts(data, good) == /\ \A i \in 1 .. good : data[i] # 0
                       /\ good < Len(data) => data[good + 1] = 0

(* Slip: the packets are pushed last first. *)
DecodedBackwards(c, data, good) == [i \in 1 .. good |-> Message(c, data[good + 1 - i])]

Decoded(c, data, good) == [i \in 1 .. good |-> Message(c, data[i])]

(* sendNetCommandClose, k times. *)
CloseReports(c, k) == [i \in 1 .. k |-> Close(c)]

(* How many packets onSocketRead takes: all there are -- or, when the read
   buffer limit is hit, what had arrived before the packets that hit it. *)
Overflow(c) == Len(inb[c]) > RecvMax
ReadSizes(c) == IF Overflow(c) THEN 0 .. RecvMax ELSE {Len(inb[c])}

(* Slip: peer_close_cb_ is called although the decode callback has closed
   the socket already. *)
ReadClosesTwice(c, data, good) ==
  (IF good < Len(data) THEN 1 ELSE 0)
    + (IF Overflow(c) \/ (data = << >> /\ peer[c] # "open") THEN 1 ELSE 0)

(* How often onSocketRead makes its NetThread close the socket: a rejected
   packet does; a full buffer or the end of the stream (peer_close) and a
   recv error do, unless the decode callback already has. *)
ReadCloses(c, data, good) ==
  IF \/ good < Len(data)
     \/ Overflow(c)
     \/ data = << >> /\ peer[c] # "open"
  THEN 1 ELSE 0

(* doEvent then calls onSocketError for EPOLLERR and EPOLLHUP, if the read
   callback did not remove the socket. *)
ErrorCloses(c, data, good) ==
  IF peer[c] = "rst" /\ ReadCloses(c, data, good) = 0 THEN 1 ELSE 0

(* Epoller::doEvent for one socket.  An event for a socket that is not yet
   in connections_ is ignored (and reported again). *)
SocketEvent(c) ==
  /\ c \in registered
  /\ status[c] # "none"
  /\ Idle(owner[c])
  /\ inb[c] # << >> \/ peer[c] \in {"fin", "rst"}
  /\ \E n \in ReadSizes(c) : \E good \in 0 .. n :
       LET data == SubSeq(inb[c], 1, n)
           k    == ReadCloses(c, data, good) + ErrorCloses(c, data, good)
       IN  /\ Accepts(data, good)
           /\ inb' = [inb EXCEPT ![c] = SubSeq(@, n + 1, Len(@))]
           /\ outbox' = [outbox EXCEPT ![owner[c]] = Decoded(c, data, good) \o CloseReports(c, k)]
  /\ UNCHANGED <<peer, sent, accVars, mapVars, timers, broadcast, command, client, mainVars,
                 closes, orphans>>

(* Slip: the end of a connection is only reported. *)
PushUpKeepsSocket(t) ==
  /\ outbox[t] # << >>
  /\ client' = Append(client, Head(outbox[t]))
  /\ outbox' = [outbox EXCEPT ![t] = Tail(@)]
  /\ UNCHANGED <<peerVars, accVars, mapVars, timers, broadcast, command, mainVars, closes, orphans>>

(* The running handler pushes its next command up; NetThread::closeSocket
   pushes CLOSE and then closes the reactor's socket. *)
PushUp(t) ==
  LET cmd == Head(outbox[t]) IN
  /\ outbox[t] # << >>
  /\ client' = Append(client, cmd)
  /\ outbox' = [outbox EXCEPT ![t] = Tail(@)]
  /\ IF cmd.type = "CLOSE"
     THEN /\ CloseSocket(cmd.id)
          /\ closes' = [closes EXCEPT ![cmd.id] = @ + 1]
     ELSE UNCHANGED <<mapVars, closes>>
  /\ UNCHANGED <<peerVars, accVars, timers, broadcast, command, mainVars, orphans>>

(* Slip: the timer is dropped together with the connection's error. *)
SendMessageErrorLost(c) ==
  /\ c \in timers
  /\ Idle(owner[c])
  /\ timers' = timers \ {c}
  /\ UNCHANGED <<mapVars, closes, outbox, peerVars, accVars, broadcast, command, client,
                 mainVars, orphans>>

(* onSendMessageError, run by checkTimeout: closes the connection if it is
   still there. *)
SendMessageError(c) ==
  /\ c \in timers
  /\ Idle(owner[c])
  /\ timers' = timers \ {c}
  /\ IF c \in sockets /\ status[c] # "none"
     THEN outbox' = [outbox EXCEPT ![owner[c]] = CloseReports(c, 1)]
     ELSE UNCHANGED outbox
  /\ UNCHANGED <<peerVars, accVars, mapVars, broadcast, command, client, mainVars, closes, orphans>>

(* Slip: the error is recorded and nobody is scheduled to act on it. *)
SendFailsNoTimer(failed) ==
  /\ status' = [c \in Conns |-> IF c \in failed THEN "pending_error" ELSE status[c]]
  /\ UNCHANGED timers

(* Reactor::sendMessage to a set of connections, of which those in failed
   meet a send error or a full write buffer: they become PENDING_ERROR and
   get a timer that closes them from the event loop. *)
SendFails(failed) ==
  /\ status' = [c \in Conns |-> IF c \in failed THEN "pending_error" ELSE status[c]]
  /\ timers' = timers \cup failed

IsConnected(c) == status[c] = "connected"

(* NetThread::onNetCommand for BROADCAST: the message goes to the
   broadcast_list_; ids of connections that are gone are skipped by
   sendMessage.  An encode failure is the case failed = {} as well. *)
OnBroadcast(t) ==
  /\ \E failed \in SUBSET {c \in broadcast : owner[c] = t /\ IsConnected(c)} :
        SendFails(failed)
  /\ UNCHANGED <<registered, sockets, broadcast, outbox>>

(* CLOSE: the main thread already knows, nothing is pushed up. *)
OnClose(c) == /\ CloseSocket(c)
              /\ UNCHANGED <<timers, broadcast, outbox>>

(* Slip: after an encode failure only the reactor's socket is closed. *)
OnMessageUnreported(c) ==
  \/ UNCHANGED netVars
  \/ /\ CloseSocket(c)
     /\ UNCHANGED <<outbox, timers, broadcast>>

(* MESSAGE: encoded and sent; sending fails; or encoding fails, which closes
   the connection and reports it. *)
OnMessage(c) ==
  \/ UNCHANGED netVars
  \/ /\ SendFails({c})
     /\ UNCHANGED <<registered, sockets, broadcast, outbox>>
  \/ /\ outbox' = [outbox EXCEPT ![owner[c]] = CloseReports(c, 1)]
     /\ UNCHANGED <<mapVars, timers, broadcast>>

OnEnableBroadcast(c) == /\ broadcast' = broadcast \cup {c}
                        /\ UNCHANGED <<mapVars, timers, outbox>>

OnDisableBroadcast(c) == /\ broadcast' = broadcast \ {c}
                         /\ UNCHANGED <<mapVars, timers, outbox>>

(* One iteration of onNetCommand's loop. *)
OnNetCommand(t) ==
  /\ Idle(t)
  /\ command[t] # << >>
  /\ command' = [command EXCEPT ![t] = Tail(@)]
  /\ LET cmd == Head(command[t]) IN
       \/ cmd.type = "BROADCAST" /\ OnBroadcast(t)
       \/ /\ cmd.type # "BROADCAST"
          /\ IF ~IsConnected(cmd.id) THEN UNCHANGED netVars
             ELSE \/ cmd.type = "CLOSE" /\ OnClose(cmd.id)
                  \/ cmd.type = "MESSAGE" /\ OnMessage(cmd.id)
                  \/ cmd.type = "ENABLE_BROADCAST" /\ OnEnableBroadcast(cmd.id)
                  \/ cmd.type = "DISABLE_BROADCAST" /\ OnDisableBroadcast(cmd.id)
  /\ UNCHANGED <<peerVars, accVars, client, mainVars, closes, orphans>>

----------------------------------------------------------------------------
(* The main thread: TcpService::processNetCommand, and the application. *)

(* TcpService::push. *)
PushDown(c, type) ==
  command' = [command EXCEPT ![owner[c]] = Append(@, [type |-> type, id |-> c])]

(* TcpService::disconnect: a CLOSE for the net thread, and onDisconnect at
   once. *)
Disconnect(c) == /\ PushDown(c, "CLOSE")
                 /\ infos' = infos \ {c}
                 /\ disconnected' = disconnected \cup {c}

PopClient(cmd) == /\ client # << >>
                  /\ cmd = Head(client)
                  /\ client' = Tail(client)

ProcessNew(c) == /\ PopClient(New(c))
                 /\ infos' = infos \cup {c}
                 /\ known' = known \cup {c}
                 /\ UNCHANGED <<peerVars, accVars, netVars, command, handled, ops, disconnected,
                                closes, orphans>>

(* Slip: the entry of a connection closed by its peer is kept. *)
ProcessCloseKeeps(c) == /\ PopClient(Close(c))
                        /\ UNCHANGED <<peerVars, accVars, netVars, command, mainVars, closes, orphans>>

ProcessClose(c) == /\ PopClient(Close(c))
                   /\ infos' = infos \ {c}
                   /\ UNCHANGED <<peerVars, accVars, netVars, command, known, handled, ops,
                                  disconnected, closes, orphans>>

(* onMessage: dropped without an entry in connection_infos_; a client over
   its request limit is disconnected; otherwise the handler runs. *)
ProcessMessage(c, n) ==
  /\ PopClient(Message(c, n))
  /\ \/ /\ c \notin infos
        /\ UNCHANGED <<command, infos, disconnected, handled>>
     \/ /\ c \in infos
        /\ Disconnect(c)
        /\ UNCHANGED handled
     \/ /\ c \in infos
        /\ handled' = [handled EXCEPT ![c] = n]
        /\ UNCHANGED <<command, infos, disconnected>>
  /\ UNCHANGED <<peerVars, accVars, netVars, known, ops, closes, orphans>>

(* The application, in a handler, a callback or a timer of the main thread,
   calls a method of TcpService for a connection it has been told of --
   also one that is gone by now. *)
AppCall(c) ==
  /\ ops < MaxOps
  /\ ops' = ops + 1
  /\ c \in known
  /\ \/ Disconnect(c)
     \/ /\ \E type \in {"MESSAGE", "ENABLE_BROADCAST", "DISABLE_BROADCAST"} : PushDown(c, type)
        /\ UNCHANGED <<infos, disconnected>>
  /\ UNCHANGED <<peerVars, accVars, netVars, client, known, handled, closes, orphans>>

AppBroadcast ==
  /\ ops < MaxOps
  /\ ops' = ops + 1
  /\ command' = [t \in Threads |-> Append(command[t], [type |-> "BROADCAST"])]
  /\ UNCHANGED <<peerVars, accVars, netVars, client, infos, known, handled, disconnected,
                 closes, orphans>>

----------------------------------------------------------------------------
Clients == \E c \in Conns : Connect(c) \/ SendPacket(c) \/ Hangup(c)

Acceptor == \/ \E c \in Conns : Accept(c)
            \/ ScanThread \/ ChooseThread
            \/ RegisterSocket \/ InsertSocket \/ InsertConnection \/ AnnounceNew

NetThread == \/ \E c \in Conns : SocketEvent(c) \/ SendMessageError(c)
             \/ \E t \in Threads : PushUp(t) \/ OnNetCommand(t)

ProcessNetCommand == \E c \in Conns : \/ ProcessNew(c)
                                      \/ ProcessClose(c)
                                      \/ \E n \in 1 .. MaxMsgs : ProcessMessage(c, n)

Application == AppBroadcast \/ \E c \in Conns : AppCall(c)

Next == Clients \/ Acceptor \/ NetThread \/ ProcessNetCommand \/ Application

(* The loops of the server's threads run for ever and level-triggered epoll
   reports a socket again until it is handled; a queued command is popped
   (MessageQueue, fewer than 100 waiting).  Clients and application are not
   obliged to do anything. *)
Fairness ==
  /\ WF_vars(Acceptor)
  /\ \A c \in Conns : WF_vars(SocketEvent(c)) /\ WF_vars(SendMessageError(c))
  /\ \A t \in Threads : WF_vars(PushUp(t)) /\ WF_vars(OnNetCommand(t))
  /\ WF_vars(ProcessNetCommand)

Spec == Init /\ [][Next]_vars
FairSpec == Spec /\ Fairness

----------------------------------------------------------------------------
AccType == {AccIdle}
  \cup [pc : {"scan"}, conn : Conns, next : 1 .. NumThreads, best : Threads, least : Nat]
  \cup [pc : {"register", "sockets", "connections", "announce"}, conn : Conns]

(* Every variable stays in its domain. *)
TypeOK ==
  /\ peer \in [Conns -> {"none", "open", "fin", "rst"}]
  /\ inb \in [Conns -> Seq(0 .. MaxMsgs)]
  /\ sent \in [Conns -> 0 .. MaxMsgs]
  /\ acc \in AccType
  /\ owner \in [Conns -> Threads \cup {NoThread}]
  /\ registered \subseteq Conns
  /\ sockets \subseteq Conns
  /\ status \in [Conns -> {"none", "connected", "pending_error"}]
  /\ timers \subseteq Conns
  /\ broadcast \subseteq Conns
  /\ outbox \in [Threads -> Seq(UpCommand)]
  /\ command \in [Threads -> Seq(DownCommand)]
  /\ client \in Seq(UpCommand)
  /\ infos \subseteq Conns
  /\ known \subseteq Conns
  /\ handled \in [Conns -> 0 .. MaxMsgs]
  /\ ops \in 0 .. MaxOps
  /\ disconnected \subseteq Conns
  /\ closes \in [Conns -> Nat]
  /\ orphans \subseteq Conns

Attaching(c) == acc.pc \in {"register", "sockets", "connections"} /\ acc.conn = c

(* The epoll set and the two maps of a reactor agree on every socket the
   acceptor is not attaching right now: no event is delivered for a socket
   without a connection, and no connection is out of epoll's sight. *)
MapsAgree == \A c \in Conns : ~Attaching(c) =>
               /\ c \in registered <=> c \in sockets
               /\ c \in sockets <=> status[c] # "none"

(* A net thread reports the end of a connection to the main thread at most
   once, whichever of the read, error, decode, encode and timer paths meet
   on it, and nothing of that connection is left when it does. *)
CloseReportedOnce == \A c \in Conns : /\ closes[c] <= 1
                                      /\ closes[c] = 1 => status[c] = "none"

(* A handler is about to report the end of the connection and close it. *)
Ending(c) == \E t \in Threads : \E i \in 1 .. Len(outbox[t]) : outbox[t][i] = Close(c)

(* A connection with a deferred send error has a timer that will close it,
   or is being closed: no command would, because isConnected is false from
   then on. *)
PendingErrorHasTimer == \A c \in Conns :
  status[c] = "pending_error" => c \in timers \/ Ending(c)

InClient(cmd) == \E i \in 1 .. Len(client) : client[i] = cmd

(* A connection that is live in a reactor and announced is known to the
   main thread, or NEW is on its way, or main asked for its end. *)
LiveIsKnown == \A c \in Conns :
  (status[c] # "none" /\ ~(acc.pc = "announce" /\ acc.conn = c)) =>
     c \in infos \/ InClient(New(c)) \/ c \in disconnected

(* An entry of connection_infos_ whose connection is gone will be removed by
   a CLOSE on its way -- except for the orphans: sockets that could not be
   attached and are announced nevertheless, and connections that ended
   before the acceptor announced them. *)
EntryIsLive == \A c \in infos :
  status[c] # "none" \/ InClient(Close(c)) \/ c \in orphans

(* The handlers see the packets of a connection in the order sent, without
   a gap or a repetition after the first. *)
HandledInOrder ==
  [][\A c \in Conns : handled'[c] # handled[c] =>
        handled[c] = 0 \/ handled'[c] = handled[c] + 1]_vars

(* As long as nothing has ended, the acceptor keeps the numbers of
   connections of the net threads within one of each other ("the acceptor
   thread balances the sockets of the reactor threads", README.md:15). *)
Balanced ==
  (acc.pc = "accept" /\ \A c \in Conns : owner[c] # NoThread => status[c] # "none") =>
     \A t, u \in Threads : ConnectionNum(t) - ConnectionNum(u) <= 1

(* A connection whose peer is gone, that met a send error, or that the
   application disconnected is released by its reactor. *)
Doomed(c) == /\ status[c] # "none"
             /\ \/ peer[c] \in {"fin", "rst"}
                \/ status[c] = "pending_error"
                \/ c \in disconnected
Released == \A c \in Conns : Doomed(c) ~> status[c] = "none"

(* The main thread forgets a connection that has ended, orphans excepted. *)
Forgotten == \A c \in Conns :
  (c \in infos /\ status[c] = "none" /\ c \notin orphans) ~> c \notin infos

(* "The reactor threads send the unpacked data to the main thread, which has
   a message queue and handles the messages in turn" (README.md:21): the
   main thread drops no message, except of a connection it disconnected. *)
NoMessageDropped ==
  (client # << >> /\ Head(client).type = "MESSAGE" /\ Head(client).id \notin infos) =>
     Head(client).id \in disconnected
=============================================================================
