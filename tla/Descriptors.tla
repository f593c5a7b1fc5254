---------------------------- MODULE Descriptors ----------------------------
(***************************************************************************)
(* Who holds which descriptor: TcpSocket, SelfPipe and Epoller while       *)
(* system calls fail.  The main thread starts the service (createService,  *)
(* then the first net thread of init), the acceptor thread takes           *)
(* connections from the backlog, a client thread connects again and again, *)
(* and the net thread closes connections.  The kernel has a table of a few *)
(* descriptors; besides a full table, a bounded number of calls fails for  *)
(* other reasons.                                                          *)
(*                                                                         *)
(* An operation is two steps: the call that creates the descriptor, then   *)
(* the calls that set it up (setCloseOnExec, setReuseAddr, setTcpNoDelay,  *)
(* bind, listen, connect, setNonblock, epoll_ctl), of which any may fail.  *)
(*                                                                         *)
(* A definition introduced by "Slip" is a plausible mistake in the         *)
(* operation that follows it and is not part of the specification.         *)
(***************************************************************************)
EXTENDS Naturals, Sequences, FiniteSetsExt

CONSTANTS MaxFds,       \* size of the kernel's table
          Peers,        \* connections that are made to the server
          Faults,       \* bound: calls that fail with the table not full
          Invalid       \* INVALID_SOCKET

(* What the main thread creates, in the order of createService and init.   *)
Plan == <<"listen", "acceptor", "service", "main_queue", "reactor", "queue">>
Epolls == {"acceptor", "service", "reactor"}
Queues == {"main_queue", "queue"}
WriteEnd(q) == IF q = "queue" THEN "queue_write" ELSE "main_queue_write"
Fixtures == {"listen", "client"} \cup Epolls \cup Queues
              \cup {WriteEnd(q) : q \in Queues}
Slots == Fixtures \cup Peers
Fds == 1 .. MaxFds

VARIABLES
  open,                 \* descriptors that are open in the kernel
  held,                 \* slot -> the descriptor its object holds (fd_, fd1_)
  works,                \* objects whose set-up was completed
  step,                 \* the next element of Plan, Len(Plan) + 1 when done
  creating,             \* slots whose object is between its two steps
  init,                 \* what TcpService::init returned: "none", "ok", "failed"
  backlog,              \* peers that wait for accept
  accepting,            \* whether the acceptor's thread runs
  faults                \* failures still possible

vars == <<open, held, works, step, creating, init, backlog, accepting, faults>>

Init ==
  /\ open = {} /\ works = {} /\ creating = {}
  /\ held = [s \in Slots |-> Invalid]
  /\ step = 1
  /\ init = "none"
  /\ backlog = Peers
  /\ accepting = FALSE
  /\ faults = Faults

-----------------------------------------------------------------------------
(* System calls *)

CallFails == \/ Fds = open /\ UNCHANGED faults
             \/ Fds # open /\ faults > 0 /\ faults' = faults - 1
SetUpFails == faults > 0 /\ faults' = faults - 1

(* A descriptor for each slot, the lowest that is free.                    *)
Lowest(free) == IF free = {} THEN Invalid ELSE Min(free)

Create(slot) ==
  /\ open # Fds
  /\ open' = open \cup {Lowest(Fds \ open)}
  /\ held' = [held EXCEPT ![slot] = Lowest(Fds \ open)]
  /\ UNCHANGED faults

(* pipe(2) needs two.                                                      *)
CreatePipe(q) ==
  LET first == Lowest(Fds \ open)
      second == Lowest(Fds \ (open \cup {first}))
  IN  /\ Cardinality(Fds \ open) >= 2
      /\ open' = open \cup {first, second}
      /\ held' = [held EXCEPT ![q] = first, ![WriteEnd(q)] = second]
      /\ UNCHANGED faults

(* Slip: fd_ is not reset.                                                 *)
CloseKeepsFd(slot) ==
  /\ open' = open \ {held[slot]}
  /\ UNCHANGED held

(* TcpSocket::close, also from the destructor.                             *)
Close(slot) ==
  /\ open' = open \ {held[slot]}
  /\ held' = [held EXCEPT ![slot] = Invalid]

-----------------------------------------------------------------------------
(* The main thread *)

Name == Plan[step]
Working == init = "none" /\ step <= Len(Plan)

Continue == /\ step' = step + 1
            /\ init' = IF step = Len(Plan) THEN "ok" ELSE init
            /\ accepting' = (accepting \/ Name = "main_queue")
GiveUp == init' = "failed" /\ UNCHANGED <<step, accepting>>

(* The first call of open, Epoller::create or SelfPipe::open.              *)
MainCreates ==
  /\ Working /\ Name \notin creating
  /\ IF Name \in Queues THEN CreatePipe(Name) ELSE Create(Name)
  /\ creating' = creating \cup {Name}
  /\ UNCHANGED <<works, step, init, backlog, accepting>>

(* ... and its failure.  Only the listening socket and the queue of a net  *)
(* thread are asked whether they worked: passiveOpen and NetThread::init.  *)
(* The results of Epoller::create and of the main queue's attach are not   *)
(* looked at.                                                              *)
MainCreateFails ==
  /\ Working /\ Name \notin creating
  /\ \/ CallFails
     \/ Name \in Queues /\ Cardinality(Fds \ open) = 1 /\ UNCHANGED faults
  /\ IF Name \in {"listen", "queue"} THEN GiveUp ELSE Continue
  /\ UNCHANGED <<open, held, works, creating, backlog>>

(* The epoll that a queue's pipe or the listening socket is added to.      *)
Poller(name) == CASE name = "main_queue" -> {"service"}
                  [] name = "queue" -> {"reactor"}
                  [] name = "acceptor" -> {"acceptor"}
                  [] OTHER -> {}

CanAdd(name) == \A e \in Poller(name) : held[e] # Invalid

MainSetsUp ==
  /\ Working /\ Name \in creating /\ CanAdd(Name)
  /\ creating' = creating \ {Name}
  /\ works' = works \cup {Name}
  /\ Continue
  /\ UNCHANGED <<open, held, backlog, faults>>

(* passiveOpen closes what it opened; Epoller and MessageQueue keep their  *)
(* descriptors until they are destroyed.                                   *)
MainSetUpFails ==
  /\ Working /\ Name \in creating
  /\ \/ SetUpFails
     \/ ~CanAdd(Name) /\ UNCHANGED faults
  /\ creating' = creating \ {Name}
  /\ IF Name = "listen" THEN Close(Name) ELSE UNCHANGED <<open, held>>
  /\ IF Name \in {"listen", "queue"} THEN GiveUp ELSE Continue
  /\ UNCHANGED <<works, backlog>>

-----------------------------------------------------------------------------
(* The acceptor thread.  Its listening socket is watched only if its       *)
(* constructor got to the end.                                             *)

Listening == accepting /\ "acceptor" \in works

Accept(p) ==
  /\ Listening /\ p \in backlog
  /\ Create(p)
  /\ backlog' = backlog \ {p}
  /\ creating' = creating \cup {p}
  /\ UNCHANGED <<works, step, init, accepting>>

(* Slip: a full table ends the acceptor's loop.                            *)
AcceptGivesUp ==
  /\ Listening /\ backlog # {} /\ CallFails
  /\ accepting' = FALSE
  /\ UNCHANGED <<open, held, works, step, creating, init, backlog>>

(* EMFILE, ENFILE and other errors: onListenSocketRead returns, and is     *)
(* called again as long as the backlog is not empty.                       *)
AcceptFails ==
  /\ Listening /\ backlog # {} /\ CallFails
  /\ UNCHANGED <<open, held, works, step, creating, init, backlog, accepting>>

(* acceptNonblock's set-up and attachSocket succeed: a connection.         *)
Attach(p) ==
  /\ p \in creating
  /\ creating' = creating \ {p}
  /\ works' = works \cup {p}
  /\ UNCHANGED <<open, held, step, init, backlog, accepting, faults>>

(* One of them fails: accept closes, or the unique_ptr destroys the        *)
(* TcpSocket, which closes it.                                             *)
AttachFails(p) ==
  /\ p \in creating /\ SetUpFails
  /\ Close(p)
  /\ creating' = creating \ {p}
  /\ UNCHANGED <<works, step, init, backlog, accepting>>

(* The net thread closes a connection (Reactor::closeSocket).              *)
CloseSocket(p) ==
  /\ p \in works \cap Peers
  /\ Close(p)
  /\ works' = works \ {p}
  /\ UNCHANGED <<step, creating, init, backlog, accepting, faults>>

-----------------------------------------------------------------------------
(* A client thread of the process: activeOpenNonblock.  A call that fails  *)
(* leaves nothing, and the next try is a new TcpSocket.                    *)

ActiveOpen ==
  /\ held["client"] = Invalid
  /\ Create("client")
  /\ creating' = creating \cup {"client"}
  /\ UNCHANGED <<works, step, init, backlog, accepting>>

Connected ==
  /\ "client" \in creating
  /\ creating' = creating \ {"client"}
  /\ works' = works \cup {"client"}
  /\ UNCHANGED <<open, held, step, init, backlog, accepting, faults>>

ActiveOpenFails ==
  /\ "client" \in creating
  /\ Close("client")
  /\ creating' = creating \ {"client"}
  /\ UNCHANGED <<works, step, init, backlog, accepting, faults>>

Disconnect ==
  /\ "client" \in works
  /\ Close("client")
  /\ works' = works \ {"client"}
  /\ UNCHANGED <<step, creating, init, backlog, accepting, faults>>

-----------------------------------------------------------------------------
Main == MainCreates \/ MainCreateFails \/ MainSetsUp \/ MainSetUpFails
Acceptor == \/ AcceptFails
            \/ \E p \in Peers : Accept(p) \/ Attach(p) \/ AttachFails(p)
Client == ActiveOpen \/ Connected \/ ActiveOpenFails \/ Disconnect

Next == Main \/ Acceptor \/ Client \/ \E p \in Peers : CloseSocket(p)

(* The threads go on; a call that can work infinitely often works at last. *)
Spec == /\ Init /\ [][Next]_vars
        /\ WF_vars(Main) /\ WF_vars(Acceptor)
        /\ \A p \in Peers : SF_vars(Accept(p))

-----------------------------------------------------------------------------
(* Every open descriptor is held by exactly one object, and every          *)
(* descriptor held is open: none leaks when a call fails half-way, and no  *)
(* object can close one that the kernel has since given to another thread. *)
Owned ==
  /\ {held[s] : s \in Slots} \ {Invalid} = open
  /\ \A s, t \in Slots : held[s] = held[t] /\ s # t => held[s] = Invalid

(* A full table costs no connection: unless it stays full from some point  *)
(* on, what waits in the backlog of a listening server is accepted.        *)
BacklogDrains ==
  ([]<>(open # Fds)) => \A p \in Peers : (Listening /\ p \in backlog) ~> (p \notin backlog)

(* The README's example takes a result other than false for a server that  *)
(* runs ("server initialized fail"): then all of its parts work.  Violated:*)
(* EPollAcceptor's constructor and createService do not report a failure   *)
(* of epoll or of the main queue's pipe, and init returns true.            *)
InitReportsFailure ==
  init = "ok" => \A i \in DOMAIN Plan : Plan[i] \in works
=============================================================================
