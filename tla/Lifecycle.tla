----------------------------- MODULE Lifecycle -----------------------------
(***************************************************************************)
(* The start and the stop of the server: GameServer::init and start,       *)
(* TcpService::createService, init, start and stop, NetThread::init, start *)
(* and stop, on the main thread; the acceptor's thread, running since the  *)
(* middle of init, which reads net_threads_; and the net threads, whose    *)
(* loop tests Reactor::quit_ while NetThread::quit sets IOService::quit_,  *)
(* a different member that Reactor's hides.  A net thread's Thread object  *)
(* is reduced to "running" here (see ThreadLife).                          *)
(*                                                                         *)
(* A definition introduced by "Slip" is not part of the specification: it  *)
(* is a plausible mistake in the operation that follows it, kept to show   *)
(* that a property notices it.                                             *)
(***************************************************************************)
EXTENDS Naturals, Sequences

CONSTANTS ThreadNum,     \* net_thread_num_
          MaxConns,      \* bound: connections accepted
          MaxCommands,   \* bound: commands the application sends down
          EarlyClients   \* whether clients may connect before init is over

VARIABLES
  main,        \* what the main thread does next
  at,          \* loop index of the main thread, or 0
  slots,       \* net_threads_: "null", "made" (no reactor yet) or "ready"
  running,     \* net threads whose Thread runs
  quit_flag,   \* quit_flag[t]: Reactor::quit_
  io_quit,     \* io_quit[t]: IOService::quit_
  acceptor,    \* "off", "on" or "crashed"
  accepted,    \* connections accepted
  unread,      \* unread[t]: connections of t whose first packet waits
  news,        \* NEW commands in the main queue
  known,       \* NEW commands processed
  command,     \* command[t]: command_queue_, of "cmd" and "nil" (nullptr)
  given        \* commands the application has sent

netVars == <<running, quit_flag, io_quit, unread, command>>
vars == <<main, at, slots, netVars, acceptor, accepted, news, known, given>>

Threads == 1 .. ThreadNum

Init == /\ main = "create" /\ at = 0
        /\ slots = << >> /\ running = {}
        /\ quit_flag = [t \in Threads |-> FALSE]
        /\ io_quit = [t \in Threads |-> FALSE]
        /\ acceptor = "off" /\ accepted = 0
        /\ unread = [t \in Threads |-> 0]
        /\ news = 0 /\ known = 0
        /\ command = [t \in Threads |-> << >>]
        /\ given = 0

Does(from, to) == main = from /\ main' = to
Rest == <<netVars, accepted, news, known, given>>

(* One turn of a loop of the main thread over its net threads. *)
NextAt(here, then) == IF at = ThreadNum THEN main' = then /\ at' = 0
                      ELSE main' = here /\ at' = at + 1

----------------------------------------------------------------------------
(* createService: the listening socket may fail to open. *)
CreateService == /\ Does("create", "accept") \/ Does("create", "failed")
                 /\ UNCHANGED <<at, slots, acceptor, Rest>>

(* init: the acceptor's thread first, then the vector, its objects, and
   NetThread::init of each, which fails if its queue gets no pipe. *)
StartAcceptor == /\ Does("accept", "resize")
                 /\ acceptor' = "on"
                 /\ UNCHANGED <<at, slots, Rest>>

Resize == /\ Does("resize", "make")
          /\ slots' = [t \in Threads |-> "null"] /\ at' = 1
          /\ UNCHANGED <<acceptor, Rest>>

MakeThread == /\ main = "make"
              /\ slots' = [slots EXCEPT ![at] = "made"]
              /\ IF at = ThreadNum THEN main' = "init" /\ at' = 1
                 ELSE main' = "make" /\ at' = at + 1
              /\ UNCHANGED <<acceptor, Rest>>

InitThread == /\ main = "init"
              /\ \/ /\ slots' = [slots EXCEPT ![at] = "ready"]
                    /\ NextAt("init", "callbacks")
                 \/ /\ main' = "failed" /\ at' = 0
                    /\ UNCHANGED slots
              /\ UNCHANGED <<acceptor, Rest>>

(* GameServer::init sets the application's callbacks. *)
SetCallbacks == /\ main = "callbacks" /\ main' = "start" /\ at' = 1
                /\ UNCHANGED <<slots, acceptor, Rest>>

(* Slip: the loop ends one thread early. *)
StartThreadsButLast ==
  /\ main = "start"
  /\ running' = IF at < ThreadNum THEN running \cup {at} ELSE running
  /\ quit_flag' = [quit_flag EXCEPT ![at] = FALSE]
  /\ NextAt("start", "loop")
  /\ UNCHANGED <<slots, acceptor, accepted, io_quit, unread, command, news, known, given>>

(* start: each net thread runs EpollReactor::loop, which begins with
   quit_ = false; then the main loop. *)
StartThread ==
  /\ main = "start"
  /\ running' = running \cup {at}
  /\ quit_flag' = [quit_flag EXCEPT ![at] = FALSE]
  /\ NextAt("start", "loop")
  /\ UNCHANGED <<slots, acceptor, accepted, io_quit, unread, command, news, known, given>>

(* The main loop handles what the net threads and the acceptor pushed; the
   application answers with commands. *)
ProcessNew == /\ main = "loop" /\ news > 0
              /\ news' = news - 1 /\ known' = known + 1
              /\ UNCHANGED <<main, at, slots, netVars, acceptor, accepted, given>>

SendDown(t) == /\ main = "loop" /\ given < MaxCommands
               /\ given' = given + 1
               /\ command' = [command EXCEPT ![t] = Append(@, "cmd")]
               /\ UNCHANGED <<main, at, slots, running, quit_flag, io_quit, unread,
                              acceptor, accepted, news, known>>

(* stop: nullptr into every queue, then Thread::close of every thread, which
   returns when the thread has ended. *)
Stop == /\ main = "loop" /\ main' = "push" /\ at' = 1
        /\ UNCHANGED <<slots, acceptor, Rest>>

(* Slip: the nullptr overtakes what the application has sent. *)
PushNullFirst ==
  /\ main = "push"
  /\ command' = [command EXCEPT ![at] = <<"nil">> \o @]
  /\ IF at = ThreadNum THEN main' = "close" /\ at' = 1
     ELSE main' = "push" /\ at' = at + 1
  /\ UNCHANGED <<slots, running, quit_flag, io_quit, unread, acceptor,
                 accepted, news, known, given>>

PushNull == /\ main = "push"
            /\ command' = [command EXCEPT ![at] = Append(@, "nil")]
            /\ IF at = ThreadNum THEN main' = "close" /\ at' = 1
               ELSE main' = "push" /\ at' = at + 1
            /\ UNCHANGED <<slots, running, quit_flag, io_quit, unread, acceptor,
                           accepted, news, known, given>>

(* Slip: only the last thread is waited for. *)
CloseLast == /\ main = "close" /\ (at = ThreadNum => at \notin running)
             /\ NextAt("close", "stopped")
             /\ UNCHANGED <<slots, acceptor, Rest>>

Close == /\ main = "close" /\ at \notin running
         /\ NextAt("close", "stopped")
         /\ UNCHANGED <<slots, acceptor, Rest>>

Main == \/ CreateService \/ StartAcceptor \/ Resize \/ MakeThread \/ InitThread
        \/ SetCallbacks \/ StartThread \/ ProcessNew \/ PushNull \/ Close

----------------------------------------------------------------------------
(* onNewConnCallback: what it finds in net_threads_ decides. *)
Usable == Len(slots) = ThreadNum /\ \A t \in Threads : slots[t] = "ready"

Accept(t) ==
  /\ acceptor = "on" /\ accepted < MaxConns
  /\ ~EarlyClients => main \notin {"resize", "make", "init"}
  /\ accepted' = accepted + 1
  /\ IF Usable
     THEN /\ unread' = [unread EXCEPT ![t] = @ + 1]
          /\ news' = news + 1
          /\ UNCHANGED acceptor
     ELSE acceptor' = "crashed" /\ UNCHANGED <<unread, news>>
  /\ UNCHANGED <<main, at, slots, running, quit_flag, io_quit, command, known, given>>

(* The loop of net thread t: a readable socket, a command, the end. *)
Looping(t) == t \in running /\ ~quit_flag[t]

ReadSocket(t) == /\ Looping(t) /\ unread[t] > 0
                 /\ unread' = [unread EXCEPT ![t] = @ - 1]
                 /\ UNCHANGED <<main, at, slots, running, quit_flag, io_quit, command,
                                acceptor, accepted, news, known, given>>

PopCommand(t) == /\ Looping(t) /\ command[t] # << >>
                 /\ command' = [command EXCEPT ![t] = Tail(@)]
                 /\ io_quit' = [io_quit EXCEPT ![t] = @ \/ Head(command[t]) = "nil"]
                 /\ UNCHANGED <<main, at, slots, running, quit_flag, unread,
                                acceptor, accepted, news, known, given>>

(* epoll_wait fails: quit_ = true. *)
EpollFails(t) == /\ Looping(t)
                 /\ quit_flag' = [quit_flag EXCEPT ![t] = TRUE]
                 /\ UNCHANGED <<main, at, slots, running, io_quit, unread, command,
                                acceptor, accepted, news, known, given>>

ThreadEnds(t) == /\ t \in running /\ quit_flag[t]
                 /\ running' = running \ {t}
                 /\ UNCHANGED <<main, at, slots, quit_flag, io_quit, unread, command,
                                acceptor, accepted, news, known, given>>

NetThread(t) == ReadSocket(t) \/ PopCommand(t) \/ ThreadEnds(t)

Next == \/ Main \/ Stop
        \/ \E t \in Threads : Accept(t) \/ SendDown(t) \/ NetThread(t) \/ EpollFails(t)

(* The main thread and the loops run; clients and the application are free,
   and epoll_wait need not fail. *)
Spec == /\ Init /\ [][Next]_vars
        /\ WF_vars(Main)
        /\ \A t \in Threads : /\ WF_vars(ReadSocket(t)) /\ WF_vars(PopCommand(t))
                              /\ WF_vars(ThreadEnds(t))

----------------------------------------------------------------------------
(* A connection accepted as soon as init is over, before the net threads
   run, is served once they do: its packet is read and NEW is processed,
   unless the server failed, was stopped or lost the thread. *)
EarlyServed ==
  \A t \in Threads :
    /\ unread[t] > 0 ~> unread[t] = 0 \/ main = "failed" \/ quit_flag[t]
    /\ news > 0 ~> news = 0 \/ main \in {"failed", "push", "close", "stopped"}

(* A thread that popped nullptr has handled every command sent before it:
   stop cuts nothing off. *)
NothingCutOff == \A t \in Threads : io_quit[t] => command[t] = << >>

(* When stop has returned no thread that could touch the server's objects
   runs. *)
StoppedIsQuiet == main = "stopped" => running = {}

(* "The acceptor thread balances the sockets over the reactor threads"
   (README.md:16): it finds net threads it can use. *)
AcceptorFindsThreads == acceptor # "crashed"

(* "End the loop of the threads that send messages" (tcp_service.cc:140):
   stop comes to an end. *)
StopEnds == main = "push" ~> main = "stopped"
=============================================================================
