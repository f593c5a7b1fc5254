----------------------------- MODULE NetClient ------------------------------
(***************************************************************************)
(* NetClientThread: the thread of a TcpClient, which connects, reports NEW *)
(* and CLOSE, sends what the application queues, and after a failure comes *)
(* back by a one-shot timer of reconnect_interval_ms_.                     *)
(*                                                                         *)
(* stop runs on the main thread, without a lock, while the net thread goes *)
(* on (nothing makes its loop quit, so the wait in stop has no end).  Both *)
(* threads run disconnect and share connected_, socket_id_ and the         *)
(* reactor, so disconnect and connect are split at every access of what is *)
(* shared; accesses next to each other are one step where the order to the *)
(* other thread's steps makes no difference.  The reactor's maps and its   *)
(* timers are no containers for two threads: while stop changes them the   *)
(* program may crash.                                                      *)
(*                                                                         *)
(* The command queue is MessageQueue's: a push leaves a byte in a pipe, a  *)
(* read of the pipe takes all bytes.  Time advances in ticks; a due timer  *)
(* is handled before the next tick.                                        *)
(*                                                                         *)
(* A definition introduced by "Slip" is a plausible mistake in the         *)
(* operation that follows it and is not part of the specification.         *)
(***************************************************************************)
EXTENDS Integers, Sequences, FiniteSets, Functions

CONSTANTS Interval,    \* reconnect_interval_ms_, in ticks
          MaxQueue,    \* bound: commands waiting
          PeerTalks,   \* whether the server sends whole messages
          Quiet,       \* whether the application may be told to stop sending
          Stops        \* whether the application destroys the client

ASSUME NetClientAssumption == Interval \in Nat \ {0} /\ MaxQueue \in Nat

VARIABLES
  thread,     \* the net thread: "begin", "connecting", "named", "attach",
              \* "announce", "loop", "restart" (a timer, once disconnect is
              \* done), "crashed"
  at,         \* where the "net" and the "main" thread are in disconnect
  mine,       \* the socket each of them has at hand, 0 for none: one it is
              \* closing or, the net thread, one it has just connected
  connected,  \* connected_
  socket,     \* socket_id_, 0 for -1
  link,       \* what each socket of the reactor has for it: "idle",
              \* "message", "garbage" or "over" (closed, or an error)
  open,       \* commands NEW less commands CLOSE sent to the main thread
  timer,      \* reconnect_timer_, 0 for -1
  due,        \* the timers of the heap and the ticks they have left
  queue,      \* command_queue_, of "good" and "bad" (does not encode)
  wake,       \* whether the queue's pipe holds a byte
  server_up,  \* whether a connect succeeds
  sending,    \* whether the application still sends
  stopping    \* whether stop has been called

linkVars == <<at, mine, connected, socket, link, open>>
timerVars == <<timer, due>>
queueVars == <<queue, wake>>
outside == <<server_up, sending, stopping>>
vars == <<thread, linkVars, timerVars, queueVars, outside>>

Threads == {"net", "main"}
Sockets == 1 .. 4       \* bound: sockets not yet closed, at one time
TimerIds == {1, 2}
live == DOMAIN link     \* the sockets the reactor has

Init == /\ thread = "begin" /\ connected = FALSE /\ socket = 0
        /\ at = [t \in Threads |-> "out"] /\ mine = [t \in Threads |-> 0]
        /\ link = << >> /\ open = 0
        /\ timer = 0 /\ due = << >>
        /\ queue = << >> /\ wake = FALSE
        /\ server_up \in BOOLEAN /\ sending = TRUE /\ stopping = FALSE

----------------------------------------------------------------------------
(* disconnect, by thread t.  The caller of a step says what else changes. *)

(* The step of t is the one at `here`, and t goes on to `there`. *)
Steps(t, here, there) == at[t] = here /\ at' = [at EXCEPT ![t] = there]

Enter(t) == Steps(t, "out", "test")

Test(t) == /\ Steps(t, "test", IF connected THEN "tell" ELSE "out")
           /\ UNCHANGED <<mine, connected, socket, link, open>>

(* closeSocket: CLOSE is pushed with the socket_id_ read now ... *)
Tell(t) == /\ Steps(t, "tell", "close")
           /\ mine' = [mine EXCEPT ![t] = socket]
           /\ open' = open - 1
           /\ UNCHANGED <<connected, socket, link>>

(* ... and the reactor closes that socket, if it has it. *)
CloseSocket(t) == /\ Steps(t, "close", "clear")
                  /\ link' = Restrict(link, live \ {mine[t]})
                  /\ mine' = [mine EXCEPT ![t] = 0]
                  /\ UNCHANGED <<connected, socket, open>>

Clear(t) == /\ Steps(t, "clear", "forget")
            /\ connected' = FALSE
            /\ UNCHANGED <<mine, socket, link, open>>

Forget(t) == /\ Steps(t, "forget", "out")
             /\ socket' = 0
             /\ UNCHANGED <<mine, connected, link, open>>

Disconnect(t) == Test(t) \/ Tell(t) \/ CloseSocket(t) \/ Clear(t) \/ Forget(t)

----------------------------------------------------------------------------
(* The timer.  removeTimer of a timer that is gone does nothing, and stop
   never sets reconnect_timer_. *)
Remove(id) == [t \in DOMAIN due \ {id} |-> due[t]]

(* Slip: the timer that runs is forgotten and another one started. *)
StartConnectTimerAgain ==
  \E t \in TimerIds \ DOMAIN due :
    /\ timer' = t
    /\ due' = [u \in DOMAIN due \cup {t} |-> IF u = t THEN Interval ELSE due[u]]

(* startConnectTimer: the old timer is stopped, a fresh one started. *)
StartConnectTimer ==
  \E t \in TimerIds \ DOMAIN due :
    /\ timer' = t
    /\ due' = [u \in {t} \cup (DOMAIN due \ {timer}) |->
                 IF u = t THEN Interval ELSE due[u]]

(* onClose, and the error branch of onRecvMessage: disconnect ... *)
OnClose == /\ Enter("net") /\ thread' = "restart"
           /\ UNCHANGED <<mine, connected, socket, open, timerVars>>

NetDisconnects == /\ thread = "restart" /\ Disconnect("net")
                  /\ UNCHANGED <<thread, timerVars, queueVars, outside>>

(* ... and, when it has returned, startConnectTimer. *)
Restart == /\ thread = "restart" /\ at["net"] = "out" /\ thread' = "loop"
           /\ StartConnectTimer
           /\ UNCHANGED <<linkVars, queueVars, outside>>

----------------------------------------------------------------------------
(* connect: from onBefore when the thread starts, or from onTimer. *)
Begin == /\ thread = "begin" /\ thread' = "connecting"
         /\ UNCHANGED <<linkVars, timerVars, queueVars, outside>>

(* Slip: the timer is started anew instead of the connection. *)
FireRearms == /\ thread = "loop"
              /\ \E t \in DOMAIN due : due[t] = 0 /\ due' = [due EXCEPT ![t] = Interval]
              /\ UNCHANGED <<thread, timer, linkVars, queueVars, outside>>

Fire == /\ thread = "loop"
        /\ \E t \in DOMAIN due : /\ due[t] = 0
                                 /\ due' = Remove(t)
                                 /\ thread' = IF t = timer THEN "connecting" ELSE "loop"
                                 /\ timer' = IF t = timer THEN 0 ELSE timer
        /\ UNCHANGED <<linkVars, queueVars, outside>>

ConnectFails == /\ thread = "connecting" /\ ~server_up
                /\ StartConnectTimer
                /\ thread' = "loop"
                /\ UNCHANGED <<linkVars, queueVars, outside>>

(* A socket id is never used again: a number nobody knows stands for it. *)
Fresh == Sockets \ (live \cup {socket, mine["main"]})

(* socket_id_ is set ... *)
Named == /\ thread = "connecting" /\ server_up
         /\ socket' \in Fresh /\ \A s \in Fresh : socket' <= s
         /\ thread' = "named"
         /\ UNCHANGED <<at, mine, connected, link, open, timerVars, queueVars, outside>>

(* ... and read again for the socket's own id: -1, if disconnect on the other
   thread has just reset it. *)
Connected == /\ thread = "named" /\ thread' = "attach"
             /\ mine' = [mine EXCEPT !["net"] = socket]
             /\ connected' = TRUE
             /\ UNCHANGED <<at, socket, link, open, timerVars, queueVars, outside>>

(* The reactor may refuse the socket (epoll is full): NEW is reported all
   the same. *)
Attach == /\ thread = "attach" /\ thread' = "announce"
          /\ link' \in {link, [s \in live \cup {mine["net"]} |->
                                 IF s \in live THEN link[s] ELSE "idle"]}
          /\ mine' = [mine EXCEPT !["net"] = 0]
          /\ UNCHANGED <<at, connected, socket, open, timerVars, queueVars, outside>>

SendNetCommandNew == /\ thread = "announce" /\ thread' = "loop"
                     /\ open' = open + 1
                     /\ UNCHANGED <<at, mine, connected, socket, link, timerVars,
                                    queueVars, outside>>

----------------------------------------------------------------------------
(* What the reactor's socket callbacks call, by what there is to read.  The
   end of a stream and an error stay there to be read again. *)
SocketEvent ==
  /\ thread = "loop"
  /\ \E s \in live :
       \/ /\ link[s] = "message" /\ thread' = "crashed"  \* new_net_cmd_cb_ is empty
          /\ UNCHANGED <<linkVars, timerVars>>
       \/ /\ link[s] = "garbage" /\ link' = [link EXCEPT ![s] = "idle"]
          /\ OnClose
       \/ /\ link[s] = "over" /\ link' = link
          /\ OnClose
  /\ UNCHANGED <<queueVars, outside>>

(* onNetCommand: commands are sent until one fails, which ends the handler
   with the rest still queued and the pipe empty. *)
Sendable(n) == socket \in live /\ \A i \in 1 .. n : queue[i] = "good"

OnNetCommand ==
  /\ thread = "loop" /\ wake
  /\ wake' = FALSE
  /\ \/ /\ Sendable(Len(queue)) \/ queue = << >>
        /\ queue' = << >>
        /\ UNCHANGED <<thread, linkVars, timerVars>>
     \/ \E n \in 1 .. Len(queue) :
          /\ n = 1 \/ Sendable(n - 1)
          /\ queue' = SubSeq(queue, n + 1, Len(queue))
          /\ link' = link /\ OnClose
  /\ UNCHANGED outside

----------------------------------------------------------------------------
(* The application's sendMessage, and the moment it falls silent. *)
Send(m) == /\ sending /\ ~stopping /\ thread # "crashed" /\ Len(queue) < MaxQueue
           /\ queue' = Append(queue, m) /\ wake' = TRUE
           /\ UNCHANGED <<thread, linkVars, timerVars, outside>>

FallSilent == /\ Quiet /\ sending /\ sending' = FALSE
              /\ UNCHANGED <<thread, linkVars, timerVars, queueVars, server_up, stopping>>

(* stop, on the main thread: stopConnectTimer ... *)
Stop == /\ Stops /\ ~stopping /\ stopping' = TRUE
        /\ due' = Remove(timer)
        /\ thread # "crashed" /\ thread' \in {thread, "crashed"}
        /\ Enter("main")
        /\ UNCHANGED <<mine, connected, socket, link, open, timer, queueVars,
                       server_up, sending>>

(* ... then disconnect, and a wait that has no end. *)
MainDisconnects == /\ thread # "crashed" /\ Disconnect("main")
                   /\ thread' \in {thread} \cup
                        (IF at["main"] = "close" THEN {"crashed"} ELSE {})
                   /\ UNCHANGED <<timerVars, queueVars, outside>>

(* The network: the server's side of the connection, and the server. *)
PeerDoes(what) == /\ \E s \in live : link[s] = "idle" /\ link' = [link EXCEPT ![s] = what]
                  /\ UNCHANGED <<thread, at, mine, connected, socket, open,
                                 timerVars, queueVars, outside>>

ServerStarts == /\ ~server_up /\ server_up' = TRUE
                /\ UNCHANGED <<thread, linkVars, timerVars, queueVars, sending, stopping>>

(* The server goes down only while it may still do so: a server that is up
   when the application falls silent stays up. *)
ServerFails == /\ server_up /\ sending /\ server_up' = FALSE
               /\ UNCHANGED <<thread, linkVars, timerVars, queueVars, sending, stopping>>

Tick == /\ thread = "loop" /\ DOMAIN due # {} /\ \A t \in DOMAIN due : due[t] > 0
        /\ due' = [t \in DOMAIN due |-> due[t] - 1]
        /\ UNCHANGED <<thread, linkVars, timer, queueVars, outside>>

NetThread ==
  \/ Begin \/ Fire \/ ConnectFails \/ Named \/ Connected \/ Attach
  \/ SendNetCommandNew
  \/ SocketEvent \/ OnNetCommand \/ NetDisconnects \/ Restart
Environment ==
  \/ FallSilent \/ Stop \/ MainDisconnects \/ ServerFails
  \/ \E m \in {"good", "bad"} : Send(m)
  \/ \E what \in {"garbage", "over"} \cup (IF PeerTalks THEN {"message"} ELSE {}) :
       (sending \/ what = "message") /\ PeerDoes(what)

Next == NetThread \/ Tick \/ ServerStarts \/ Environment

(* The thread runs, time passes and the server is brought up again. *)
Spec == /\ Init /\ [][Next]_vars
        /\ WF_vars(NetThread) /\ WF_vars(Fire) /\ WF_vars(OnNetCommand)
        /\ WF_vars(SocketEvent) /\ WF_vars(Tick) /\ WF_vars(ServerStarts)

----------------------------------------------------------------------------
(* At most one reconnection is under way, also beside stop: one timer, and
   none beside a connection.  Until stop is called the socket the reactor
   serves is the one the client believes in. *)
OneAttempt == /\ Cardinality(DOMAIN due) <= 1
              /\ connected => DOMAIN due = {}
              /\ ~stopping /\ live # {} => connected /\ live = {socket}

(* Until it is stopped a client that is not connected has a way back: it is
   connecting or its timer runs. *)
WayBack == ~stopping /\ thread = "loop" /\ ~connected =>
             timer # 0 /\ timer \in DOMAIN due

(* NEW and CLOSE reach the main thread by turns, whoever closes the
   connection: the server, an error, a bad packet or a failed send.  A stop
   in the middle, which may close what the net thread closes or is about to
   announce, costs at most one CLOSE too many and loses none for good. *)
Paired == /\ ~stopping /\ thread = "loop" => open = IF connected THEN 1 ELSE 0
          /\ open \in (IF stopping THEN -1 ELSE 0) .. 1

(* A client whose application has fallen silent comes back. *)
ComesBack == ~sending ~> connected \/ stopping \/ thread = "crashed"

(* stop stops the timer and closes the connection, so that once it has done
   so the client is not connected again.  Violated: the net thread goes on,
   with a connect that is under way or a timer it starts anew. *)
StaysClosed == stopping /\ at["main"] = "out" => ~connected

(* onConnect and onDisconnect of a client alternate.  Violated by a stop in
   the middle of connect or disconnect: `if (connected_)` is passed by both
   threads, or the CLOSE comes before the NEW. *)
ByTurns == open \in 0 .. 1 /\ (thread = "loop" /\ at["main"] = "out" =>
                                  open = IF connected THEN 1 ELSE 0)

(* "try reconnect after %d millisecond" (client/net_client_thread.cc:52): a
   client that is not connected comes to its next attempt. *)
TriesAgain == thread = "loop" /\ ~connected ~> thread = "connecting" \/ stopping

(* "After a message is received it is put into the main thread's queue"
   (net/net_thread.h, of new_net_cmd_cb_): the callback is there to call. *)
CallbackIsSet == ~stopping => thread # "crashed"
=============================================================================
