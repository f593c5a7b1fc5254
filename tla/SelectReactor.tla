--------------------------- MODULE SelectReactor ---------------------------
(***************************************************************************)
(* The Windows backend: a net thread that runs SelectReactor::loop, the    *)
(* acceptor that hands sockets to it through new_sockets_, and the main    *)
(* thread that sends it commands.  Three things differ from epoll.  A      *)
(* socket waits in new_sockets_ until the loop takes it over, although it  *)
(* has been announced to the main thread already.  The loop selects on     *)
(* fd_read_back_, a copy of the descriptors made when a socket came in.    *)
(* And nothing wakes the loop: commands are popped once per round, only    *)
(* while there are connections.                                            *)
(*                                                                         *)
(* A set takes FD_SETSIZE (2048) descriptors, and FD_SET ignores any more; *)
(* nothing limits the sockets accepted.  FDSet::create allocates that many *)
(* slots if max_connection_num is as large, as it is assumed to be here:   *)
(* with fewer, FD_SET would write behind the allocation.                   *)
(*                                                                         *)
(* sockets_ and connections_ hold the same ids here and are one variable.  *)
(* The kernel may give a closed descriptor to the next connection.         *)
(***************************************************************************)
EXTENDS Naturals, Sequences, FiniteSets, Functions, SequencesExt

CONSTANTS Ids,          \* socket ids, numbered 1..n as they are accepted
          Fds,          \* descriptors the kernel hands out
          MaxInputs,    \* bound: packets of the peers and commands of the
                        \* main thread, all together
          Capacities,   \* what FD_SETSIZE may be
          None          \* the owner of a free descriptor

ASSUME NoneAssumption == None \notin Ids /\ None \notin Fds
ASSUME CapacitiesAssumption == Capacities \subseteq Nat \ {0}

VARIABLES
  owner,                \* kernel: descriptor -> the id whose socket is open
  fd,                   \* id -> its descriptor (TcpSocket::fd_)
  arrived,              \* id -> packets waiting in the kernel
  hungup,               \* ids whose peer has closed
  inputs,               \* packets and commands that may still be sent
  new_sockets,          \* new_sockets_
  sockets,              \* the ids in sockets_ and connections_
  fd_to_socketId,       \* fd_to_socketId_map_
  fd_read,              \* descriptors select reported, not yet handled
  fd_read_back,         \* fd_read_back_
  client_change,        \* client_change_
  quit,                 \* the loop's quit_
  errors,               \* connections with a send error and its timer
  commands,             \* command_queue_
  announced,            \* ids the main thread has been told of
  disconnected,         \* ids TcpService::disconnect was called for
  capacity,             \* FD_SETSIZE, the descriptors a set takes
  pc                    \* where the loop is

kernel == <<owner, fd, arrived, hungup>>
books == <<sockets, fd_to_socketId>>
sets == <<fd_read, fd_read_back, client_change, capacity>>
main == <<announced, disconnected, inputs>>
vars == <<kernel, new_sockets, books, sets, quit, errors, commands, main, pc>>

Init ==
  /\ owner = [d \in Fds |-> None]
  /\ fd = [i \in Ids |-> None]
  /\ arrived = [i \in Ids |-> 0]
  /\ inputs = MaxInputs /\ capacity \in Capacities
  /\ fd_to_socketId = << >>
  /\ new_sockets = << >> /\ commands = << >>
  /\ hungup = {} /\ sockets = {} /\ errors = {}
  /\ fd_read = {} /\ fd_read_back = {}
  /\ announced = {} /\ disconnected = {}
  /\ client_change = FALSE /\ quit = FALSE
  /\ pc = "top"

-----------------------------------------------------------------------------
(* The peers *)

IsOpen(i) == \E d \in Fds : owner[d] = i

PeerSends(i) ==
  /\ IsOpen(i) /\ i \notin hungup /\ inputs > 0
  /\ arrived' = [arrived EXCEPT ![i] = @ + 1]
  /\ inputs' = inputs - 1
  /\ UNCHANGED <<owner, fd, hungup, new_sockets, books, sets, quit, errors,
                 commands, announced, disconnected, pc>>

PeerHangsUp(i) ==
  /\ IsOpen(i) /\ i \notin hungup
  /\ hungup' = hungup \cup {i}
  /\ UNCHANGED <<owner, fd, arrived, new_sockets, books, sets, quit,
                 errors, commands, main, pc>>

-----------------------------------------------------------------------------
(* The acceptor thread: SelectAcceptor::loop, Acceptor::accept,            *)
(* SelectReactor::attachSocket and NetThread::attach                       *)

(* The next id, once the connection before has been announced: the         *)
(* acceptor is one thread.                                                 *)
AcceptNonblock(i, d) ==
  /\ fd[i] = None /\ owner[d] = None
  /\ announced = {j \in Ids : j < i}
  /\ owner' = [owner EXCEPT ![d] = i]
  /\ fd' = [fd EXCEPT ![i] = d]

AttachSocket(i) == new_sockets' = Append(new_sockets, i)

Accept(i, d) ==
  /\ AcceptNonblock(i, d)
  /\ AttachSocket(i)
  /\ UNCHANGED <<arrived, hungup, books, sets, quit, errors, commands,
                 main, pc>>

SendNetCommandNew(i) ==
  /\ fd[i] # None /\ i \notin announced
  /\ announced' = announced \cup {i}
  /\ UNCHANGED <<kernel, new_sockets, books, sets, quit, errors, commands,
                 disconnected, inputs, pc>>

-----------------------------------------------------------------------------
(* The main thread: TcpService::disconnect and sendMessage.  The CLOSE a   *)
(* net thread reports may still be under way, so it may call either for a  *)
(* socket that is closed.                                                  *)

Disconnect(i) ==
  /\ inputs > 0 /\ inputs' = inputs - 1
  /\ i \in announced \ disconnected
  /\ disconnected' = disconnected \cup {i}
  /\ commands' = Append(commands, [type |-> "CLOSE", id |-> i])
  /\ UNCHANGED <<kernel, new_sockets, books, sets, quit, errors, announced, pc>>

SendMessage(i) ==
  /\ inputs > 0 /\ inputs' = inputs - 1
  /\ i \in announced \ disconnected
  /\ commands' = Append(commands, [type |-> "MESSAGE", id |-> i])
  /\ UNCHANGED <<kernel, new_sockets, books, sets, quit, errors, announced,
                 disconnected, pc>>

-----------------------------------------------------------------------------
(* SelectReactor::closeSocket on every socket of a set *)

(* Reactor::closeSocket deletes the connection and the socket.             *)
BaseCloses(closed) ==
  /\ sockets' = sockets \ closed
  /\ owner' = [d \in Fds |-> IF owner[d] \in closed THEN None ELSE owner[d]]

(* Slip: the base class closes first, and the descriptor is not found.     *)
CloseSocketsLate(closed) == BaseCloses(closed) /\ UNCHANGED fd_to_socketId

CloseSockets(closed) ==
  /\ BaseCloses(closed)
  /\ fd_to_socketId' =
       Restrict(fd_to_socketId,
                DOMAIN fd_to_socketId \ {fd[i] : i \in closed \cap sockets})

-----------------------------------------------------------------------------
(* The loop.  new_sockets_.empty() is read without the mutex: with sockets *)
(* in it the loop may still see it empty.                                  *)

(* Without a connection the round ends here.                               *)
AfterTop(held) == pc' = IF held = {} THEN "top" ELSE "select"

(* insert keeps an entry that is there.                                    *)
InsertNew ==
  fd_to_socketId' =
    [d \in DOMAIN fd_to_socketId \cup {fd[i] : i \in ToSet(new_sockets)} |->
       IF d \in DOMAIN fd_to_socketId THEN fd_to_socketId[d] ELSE owner[d]]

(* Slip: client_change_ is left alone.                                     *)
DrainNoChange ==
  /\ pc = "top" /\ ~quit /\ new_sockets # << >>
  /\ sockets' = sockets \cup ToSet(new_sockets)
  /\ InsertNew
  /\ new_sockets' = << >>
  /\ AfterTop(sockets')
  /\ UNCHANGED <<kernel, sets, quit, errors, commands, main>>

(* Slip: new sockets are taken over only when there is no connection.      *)
DrainWhenIdle ==
  /\ pc = "top" /\ ~quit /\ new_sockets # << >> /\ sockets = {}
  /\ sockets' = ToSet(new_sockets)
  /\ InsertNew
  /\ new_sockets' = << >>
  /\ client_change' = TRUE
  /\ AfterTop(sockets')
  /\ UNCHANGED <<kernel, fd_read, fd_read_back, capacity, quit, errors,
                 commands, main>>

Drain ==
  /\ pc = "top" /\ ~quit /\ new_sockets # << >>
  /\ sockets' = sockets \cup ToSet(new_sockets)
  /\ InsertNew
  /\ new_sockets' = << >>
  /\ client_change' = TRUE
  /\ AfterTop(sockets')
  /\ UNCHANGED <<kernel, fd_read, fd_read_back, capacity, quit, errors,
                 commands, main>>

SeesNoNew ==
  /\ pc = "top" /\ ~quit
  /\ AfterTop(sockets)
  /\ UNCHANGED <<kernel, new_sockets, books, sets, quit, errors, commands, main>>

LoopEnds ==
  /\ pc = "top" /\ quit
  /\ pc' = "ended"
  /\ UNCHANGED <<kernel, new_sockets, books, sets, quit, errors, commands, main>>

(* doNetEvent: the sets select may be called with, after a change as many  *)
(* of the sockets held as there is room for, in the order of sockets_.     *)
HeldFds == {fd[i] : i \in sockets}

Selections ==
  IF ~client_change THEN {fd_read_back}
  ELSE IF Cardinality(sockets) > capacity
  THEN {S \in SUBSET HeldFds : Cardinality(S) = capacity}
  ELSE {HeldFds}

Readable(d) == owner[d] # None /\ (arrived[owner[d]] > 0 \/ owner[d] \in hungup)

(* select fails on a descriptor that is closed, which ends the loop after  *)
(* this round; it may also be interrupted.                                 *)
DoNetEvent ==
  /\ pc = "select"
  /\ client_change' = FALSE
  /\ \E selected \in Selections :
       /\ fd_read_back' = selected
       /\ IF \E d \in selected : owner[d] = None
          THEN quit' = TRUE /\ fd_read' = {}
          ELSE /\ fd_read' \in {{}, {d \in selected : Readable(d)}}
               /\ UNCHANGED quit
  /\ pc' = IF fd_read' = {} THEN "write" ELSE "read"
  /\ UNCHANGED <<kernel, new_sockets, books, capacity, errors, commands, main>>

Handled(d) ==
  /\ fd_read' = fd_read \ {d}
  /\ pc' = IF fd_read' = {} THEN "write" ELSE "read"

Held(d) == d \in DOMAIN fd_to_socketId /\ fd_to_socketId[d] \in sockets

(* doReadEvent on a descriptor that was closed since select.               *)
ReadSkips(d) ==
  /\ pc = "read" /\ d \in fd_read /\ ~Held(d)
  /\ Handled(d)
  /\ UNCHANGED <<kernel, new_sockets, books, fd_read_back, client_change,
                 capacity, quit, errors, commands, main>>

(* onSocketRead with data: it returns 0, also when the decoder has closed  *)
(* the connection for a bad packet.                                        *)
ReadGets(d, bad) ==
  /\ pc = "read" /\ d \in fd_read /\ Held(d)
  /\ LET i == fd_to_socketId[d]
     IN  /\ arrived[i] > 0
         /\ arrived' = [arrived EXCEPT ![i] = 0]
         /\ IF bad THEN CloseSockets({i}) ELSE UNCHANGED <<owner, books>>
  /\ Handled(d)
  /\ UNCHANGED <<fd, hungup, new_sockets, fd_read_back, client_change,
                 capacity, quit, errors, commands, main>>

(* onSocketRead at the end of the stream, on overflow or on an error: it   *)
(* closes, returns -1, and the descriptor leaves fd_read_back_.            *)
ReadCloses(d) ==
  /\ pc = "read" /\ d \in fd_read /\ Held(d)
  /\ LET i == fd_to_socketId[d]
     IN  /\ arrived[i] > 0 \/ i \in hungup
         /\ CloseSockets({i})
  /\ fd_read_back' = fd_read_back \ {d}
  /\ Handled(d)
  /\ UNCHANGED <<fd, arrived, hungup, new_sockets, client_change, capacity,
                 quit, errors, commands, main>>

(* doWriteEvent: onNetCommand pops until the queue is empty.  A command    *)
(* for a socket that is not connected, or in PENDING_ERROR, is dropped; a  *)
(* message may fail to encode, which closes, or to be sent, which starts a *)
(* timer.                                                                  *)
IsConnected(i) == i \in sockets /\ i \notin errors

PopCommand ==
  /\ pc = "write" /\ commands # << >>
  /\ LET i == Head(commands).id
     IN  \/ /\ ~IsConnected(i)
            /\ UNCHANGED <<owner, books, errors>>
         \/ /\ IsConnected(i)
            /\ CloseSockets({i}) /\ UNCHANGED errors
         \/ /\ IsConnected(i) /\ Head(commands).type = "MESSAGE"
            /\ errors' \in {errors, errors \cup {i}}
            /\ UNCHANGED <<owner, books>>
  /\ commands' = Tail(commands)
  /\ UNCHANGED <<fd, arrived, hungup, new_sockets, sets, quit, main, pc>>

PopEmpty ==
  /\ pc = "write" /\ commands = << >>
  /\ pc' = "timers"
  /\ UNCHANGED <<kernel, new_sockets, books, sets, quit, errors, commands, main>>

CheckTimeout ==
  /\ pc = "timers"
  /\ CloseSockets(errors \cap sockets)
  /\ errors' = {}
  /\ pc' = "top"
  /\ UNCHANGED <<fd, arrived, hungup, new_sockets, sets, quit, commands,
                 main>>

Loop ==
  \/ Drain \/ SeesNoNew \/ LoopEnds \/ DoNetEvent
  \/ \E d \in Fds : \/ ReadSkips(d) \/ ReadCloses(d)
                    \/ \E bad \in BOOLEAN : ReadGets(d, bad)
  \/ PopCommand \/ PopEmpty \/ CheckTimeout

Next ==
  \/ Loop
  \/ \E i \in Ids : \/ PeerSends(i) \/ PeerHangsUp(i) \/ SendNetCommandNew(i)
                    \/ \E d \in Fds : Accept(i, d)
                    \/ Disconnect(i) \/ SendMessage(i)

Spec == Init /\ [][Next]_vars

(* The loop keeps running.  The unlocked read sees the sockets in          *)
(* new_sockets_ at last, and a select that is interrupted is not           *)
(* interrupted for ever.                                                   *)
FairSpec ==
  /\ Spec
  /\ WF_vars(Loop)
  /\ SF_vars(Drain)
  /\ SF_vars(DoNetEvent /\ fd_read' = {d \in fd_read_back' : Readable(d)})

-----------------------------------------------------------------------------
(* fd_to_socketId_map_ has exactly the descriptors of the sockets held,    *)
(* each with its present owner, although the kernel reuses descriptors and *)
(* insert never overwrites: an event reaches the connection it is about.   *)
MapAgrees ==
  /\ DOMAIN fd_to_socketId = {fd[i] : i \in sockets}
  /\ \A i \in sockets : fd_to_socketId[fd[i]] = i /\ owner[fd[i]] = i

(* The sockets held that select is not called with any more.               *)
LeftOut == {i \in sockets : ~client_change /\ fd[i] \notin fd_read_back}

(* A socket held is left out of the sets only when they are made anew with *)
(* more sockets held than they have room for: the backup may name too many *)
(* descriptors, never too few, whatever attachSocket, commands and reads   *)
(* did since (doNetEvent).  After every step the map agrees as well.       *)
SetsAgree ==
  [][/\ MapAgrees'
     /\ LeftOut' \subseteq LeftOut \/ Cardinality(sockets) > capacity]_vars

(* What a peer has sent is read, or its connection closed, whether the     *)
(* socket is held or still in new_sockets_, unless the loop has ended or   *)
(* the socket did not fit into the sets.                                   *)
Heard ==
  \A i \in Ids : arrived[i] > 0 ~>
                   (arrived[i] = 0 \/ ~IsOpen(i) \/ quit \/ i \in LeftOut)

(* Every socket held is one select is called with.  Violated beyond 2048   *)
(* sockets, more than the README promises ("at most 2048") but nothing     *)
(* keeps from being accepted: who is left out is neither heard nor closed. *)
Watched == LeftOut = {}

(* The README says select serves Windows with up to 2048 sockets: the loop *)
(* does not end while it has connections.  Violated: a connection closed   *)
(* by a command, a bad packet or a send error stays in fd_read_back_, and  *)
(* the next select fails.                                                  *)
KeepsServing == quit => sockets = {}

(* A socket the application disconnects is closed.  Violated: a CLOSE that *)
(* is popped while the socket is still in new_sockets_ is dropped, and the *)
(* connection is then taken over and served for good.                      *)
DisconnectCloses ==
  \A i \in Ids : i \in disconnected ~> (~IsOpen(i) \/ quit)
=============================================================================
