------------------------------ MODULE Epoller ------------------------------
(***************************************************************************)
(* Epoller under EpollReactor: a batch of events that name devices by      *)
(* address, callbacks that close devices the rest of the batch is still    *)
(* about, and removed_io_devices_, the addresses deleted since the end of  *)
(* the last batch.  The acceptor thread adds sockets at any time, and the  *)
(* allocator may put a new TcpSocket where a deleted one was.              *)
(*                                                                         *)
(* An event with EPOLLIN and EPOLLERR is handled in that order, and the    *)
(* address is looked up before each callback.  The command queue's pipe is *)
(* a device that is never closed; its callback runs onNetCommand, which    *)
(* may close any socket.                                                   *)
(*                                                                         *)
(* A definition introduced by "Slip" is a plausible mistake in the         *)
(* operation that follows it and is not part of the specification.         *)
(***************************************************************************)
EXTENDS Naturals, Sequences, FiniteSets, Functions

CONSTANTS Sockets,      \* sockets, each used once
          Addresses,    \* where the allocator puts them
          Pipe,         \* the command queue's pipe
          Nothing       \* what is at an address that is free

ASSUME DevicesAssumption == /\ IsFiniteSet(Sockets) /\ Pipe \notin Sockets \cup Addresses
                            /\ Nothing \notin Sockets \cup {Pipe}

VARIABLES
  heap,                 \* heap[a]: the socket allocated at a
  used,                 \* sockets that have been allocated
  watched,              \* the kernel's interest list
  ready,                \* pairs <<device, kind>> the kernel would report
  failed,               \* sockets whose error or hang-up has happened
  events,               \* rest of the batch: <<address, device, kinds>>
  capacity,             \* events_.size()
  full,                 \* whether the batch filled events_
  removed,              \* removed_io_devices_
  commands,             \* sockets named by a CLOSE in the command queue
  pc                    \* "wait", "batch" or "timers"

vars == <<heap, used, watched, ready, failed, events, capacity, full, removed,
          commands, pc>>

At(s) == CHOOSE a \in Addresses : heap[a] = s
IsAllocated(s) == \E a \in Addresses : heap[a] = s

Init ==
  /\ heap = [a \in Addresses |-> Nothing]
  /\ used = {} /\ ready = {} /\ failed = {} /\ commands = {} /\ removed = {}
  /\ watched = {Pipe}
  /\ events = << >>
  /\ capacity = 1               \* 32 in the code
  /\ full = FALSE
  /\ pc = "wait"

-----------------------------------------------------------------------------
(* The acceptor: a socket is allocated, and Epoller::add watches it.       *)
Add(s, a) ==
  /\ s \notin used /\ heap[a] = Nothing
  /\ used' = used \cup {s}
  /\ heap' = [heap EXCEPT ![a] = s]
  /\ watched' = watched \cup {s}
  /\ UNCHANGED <<ready, failed, events, capacity, full, removed, commands, pc>>

(* The peer sends, or its connection fails, once each.                     *)
Arrives(s) ==
  /\ s \in watched \ ({Pipe} \cup failed)
  /\ \/ ready' = ready \cup {<<s, "in">>} /\ UNCHANGED failed
     \/ ready' = ready \cup {<<s, "in">>, <<s, "err">>} /\ failed' = failed \cup {s}
  /\ UNCHANGED <<heap, used, watched, events, capacity, full, removed, commands, pc>>

(* The main thread pushes a CLOSE: the pipe becomes readable.              *)
PushClose(s) ==
  /\ IsAllocated(s) /\ s \notin commands
  /\ commands' = commands \cup {s}
  /\ ready' = ready \cup {<<Pipe, "in">>}
  /\ UNCHANGED <<heap, used, watched, failed, events, capacity, full, removed, pc>>

-----------------------------------------------------------------------------
(* Slip: del does not remember the device.                                 *)
CloseForgets(gone, also) ==
  /\ heap' = [a \in Addresses |-> IF heap[a] \in gone THEN Nothing ELSE heap[a]]
  /\ watched' = watched \ gone
  /\ ready' = {r \in ready : r[1] \notin gone} \ also
  /\ UNCHANGED removed

(* EpollReactor::closeSocket of the sockets in gone: detachIOService calls *)
(* Epoller::del, which records the address, and then the socket is freed.  *)
(* also: what the callback has consumed.                                   *)
Close(gone, also) ==
  /\ heap' = [a \in Addresses |-> IF heap[a] \in gone THEN Nothing ELSE heap[a]]
  /\ watched' = watched \ gone
  /\ ready' = {r \in ready : r[1] \notin gone} \ also
  /\ removed' = removed \cup {a \in Addresses : heap[a] \in gone}

(* epoll_wait: as many of the ready devices as fit, whichever, in any      *)
(* order.                                                                  *)
ReadyDevices == {r[1] : r \in ready} \cap watched
Event(dev) == <<IF dev = Pipe THEN Pipe ELSE At(dev), dev,
                {k \in {"in", "err"} : <<dev, k>> \in ready}>>

DoEvent ==
  /\ pc = "wait"
  /\ \E batch \in SUBSET ReadyDevices :
       /\ Cardinality(batch) = IF Cardinality(ReadyDevices) < capacity
                               THEN Cardinality(ReadyDevices) ELSE capacity
       /\ \E order \in Injection(1 .. Cardinality(batch), batch) :
            events' = [i \in 1 .. Cardinality(batch) |-> Event(order[i])]
       /\ full' = (Cardinality(batch) >= capacity)
  /\ pc' = "batch"
  /\ UNCHANGED <<heap, used, watched, ready, failed, capacity, removed, commands>>

(* EINTR: doEvent returns before it clears anything.                       *)
Interrupted ==
  /\ pc = "wait"
  /\ pc' = "timers"
  /\ UNCHANGED <<heap, used, watched, ready, failed, events, capacity, full,
                 removed, commands>>

CheckIODeviceExist(a) == a \notin removed

(* What the first event is handled for next, and what is left of the batch *)
(* after that.                                                             *)
Kind == IF "in" \in events[1][3] THEN "in" ELSE "err"
Handled ==
  events' = IF events[1][3] \subseteq {Kind} THEN Tail(events)
            ELSE [events EXCEPT ![1] = <<@[1], @[2], @[3] \ {Kind}>>]

(* continue: the event is dropped with all its kinds.                      *)
Skip ==
  /\ pc = "batch" /\ events # << >> /\ ~CheckIODeviceExist(events[1][1])
  /\ events' = Tail(events)
  /\ UNCHANGED <<heap, used, watched, ready, failed, capacity, full, removed,
                 commands, pc>>

(* The callback of whatever is at the address now.  Reading takes what has *)
(* arrived and may close the socket; what a failed one reports stays until *)
(* its error callback closes it.                                           *)
Callback ==
  /\ pc = "batch" /\ events # << >> /\ CheckIODeviceExist(events[1][1])
  /\ LET a == events[1][1]
     IN  \/ a = Pipe /\ Close(commands \cap watched, {<<Pipe, "in">>}) /\ commands' = {}
         \/ /\ a # Pipe /\ UNCHANGED commands
            /\ \/ Close({heap[a]}, {})
               \/ /\ Kind = "in"
                  /\ Close({}, IF heap[a] \in failed THEN {} ELSE {<<heap[a], Kind>>})
  /\ Handled
  /\ UNCHANGED <<used, failed, capacity, full, pc>>

(* Slip: removed_io_devices_ is never cleared.                             *)
NeverCleared ==
  /\ pc = "batch" /\ events = << >>
  /\ capacity' = IF full THEN 2 * capacity ELSE capacity
  /\ pc' = "timers"
  /\ UNCHANGED <<heap, used, watched, ready, failed, events, full, removed, commands>>

(* The end of doEvent.                                                     *)
BatchEnds ==
  /\ pc = "batch" /\ events = << >>
  /\ removed' = {}
  /\ capacity' = IF full THEN 2 * capacity ELSE capacity
  /\ pc' = "timers"
  /\ UNCHANGED <<heap, used, watched, ready, failed, events, full, commands>>

(* checkTimeout between two batches: a deferred send error may close a     *)
(* socket.                                                                 *)
Timers ==
  /\ pc = "timers"
  /\ \E gone \in {{}} \cup {{s} : s \in watched \ {Pipe}} : Close(gone, {})
  /\ pc' = "wait"
  /\ UNCHANGED <<used, failed, events, capacity, full, commands>>

Loop == DoEvent \/ Interrupted \/ Skip \/ Callback \/ BatchEnds \/ Timers

Next ==
  \/ Loop
  \/ \E s \in Sockets : \/ Arrives(s) \/ PushClose(s)
                        \/ \E a \in Addresses : Add(s, a)

(* The loop runs on, and epoll_wait is not interrupted for ever.           *)
Spec == Init /\ [][Next]_vars /\ WF_vars(Loop) /\ SF_vars(DoEvent)

-----------------------------------------------------------------------------
(* An event is never handed to a device it is not about: each event of the *)
(* batch either names an address that is recorded as removed, or the       *)
(* device it was reported for is still there, whatever the callbacks       *)
(* before it closed and the acceptor allocated since (checkIODeviceExist). *)
NoStaleEvent ==
  \A i \in DOMAIN events :
    CheckIODeviceExist(events[i][1]) =>
      IF events[i][2] = Pipe THEN events[i][1] = Pipe
      ELSE events[i][1] \in Addresses /\ heap[events[i][1]] = events[i][2]

(* A device that has something to report gets its callback or is closed,   *)
(* also one at an address whose former device was just removed, and with   *)
(* more devices ready than events_ has room for.                           *)
Served ==
  /\ \A s \in Sockets : (<<s, "in">> \in ready) ~> (<<s, "in">> \notin ready)
  /\ (commands # {}) ~> (commands = {})
=============================================================================
