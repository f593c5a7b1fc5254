--------------------------- MODULE EpollerProofs ---------------------------
(***************************************************************************)
(* No event of a batch reaches a device it is not about (NoStaleEvent), for *)
(* any number of sockets, addresses and events, and any order of reuse.    *)
(***************************************************************************)
EXTENDS Epoller, QueueFacts, FiniteSetTheorems, TLAPS

Devices == Sockets \cup {Pipe}

(* An event: the device it was reported for, with its address. *)
Events == {e \in (Addresses \cup {Pipe}) \X Devices \X SUBSET {"in", "err"} :
             e[2] = Pipe <=> e[1] = Pipe}

TypeOK == /\ heap \in [Addresses -> Sockets \cup {Nothing}]
          /\ watched \subseteq Devices
          /\ events \in Seq(Events)
          /\ removed \subseteq Addresses

(* The kernel watches sockets that are allocated. *)
WatchedExist == \A s \in watched : s = Pipe \/ IsAllocated(s)

(* The device of an event is where the event says, unless it was removed. *)
Fresh == \A i \in 1 .. Len(events) :
           events[i][1] \in Addresses \ removed => heap[events[i][1]] = events[i][2]

(* removed_io_devices_ is cleared only when the batch is through. *)
BatchOnly == pc # "batch" => events = << >>

IInv == TypeOK /\ WatchedExist /\ Fresh /\ BatchOnly

LEMMA EventFacts ==
  ASSUME NEW a \in Addresses \cup {Pipe}, NEW d \in Devices, NEW k \in SUBSET {"in", "err"},
         d = Pipe <=> a = Pipe
  PROVE  <<a, d, k>> \in Events /\ <<a, d, k>>[1] = a /\ <<a, d, k>>[2] = d
BY DEF Events

LEMMA InitIInv == Init => IInv
BY DEF Init, IInv, TypeOK, WatchedExist, Fresh, BatchOnly, Devices

(* Steps that leave devices and events alone. *)
LEMMA QuietIInv ==
  ASSUME IInv, UNCHANGED <<heap, watched, events, removed>>,
         pc' = pc \/ events = << >>
  PROVE  IInv'
BY DEF IInv, TypeOK, WatchedExist, IsAllocated, Fresh, BatchOnly

(* A socket is put where there was nothing. *)
LEMMA AddIInv ==
  ASSUME IInv, NEW s \in Sockets, NEW a \in Addresses, Add(s, a)
  PROVE  IInv'
<1>1. /\ heap[a] = Nothing /\ heap' = [heap EXCEPT ![a] = s]
      /\ watched' = watched \cup {s} /\ UNCHANGED <<events, removed, pc>>
  BY DEF Add
<1>2. TypeOK' BY <1>1 DEF IInv, TypeOK, Devices
<1>3. heap'[a] = s /\ \A b \in Addresses : b # a => heap'[b] = heap[b]
  BY <1>1 DEF IInv, TypeOK
<1>4. WatchedExist'
  <2> SUFFICES ASSUME NEW t \in watched \cup {s}, t # Pipe
               PROVE  \E b \in Addresses : heap'[b] = t
    BY <1>1 DEF WatchedExist, IsAllocated
  <2>1. CASE t = s BY <2>1, <1>3
  <2>2. CASE t # s
    <3>1. t \in Sockets BY <2>2 DEF IInv, TypeOK, Devices
    <3>2. PICK b \in Addresses : heap[b] = t BY <2>2 DEF IInv, WatchedExist, IsAllocated
    <3>3. b # a BY <3>1, <3>2, <1>1, DevicesAssumption
    <3> QED BY <3>2, <3>3, <1>3
  <2> QED BY <2>1, <2>2
<1>5. Fresh'
  <2> SUFFICES ASSUME NEW i \in 1 .. Len(events), events[i][1] \in Addresses \ removed
               PROVE  heap'[events[i][1]] = events[i][2]
    BY <1>1 DEF Fresh
  <2>1. heap[events[i][1]] = events[i][2] BY DEF IInv, Fresh
  <2>2. events[i] \in Events BY DEF IInv, TypeOK
  <2>3. events[i][2] # Nothing BY <2>2, DevicesAssumption DEF Events, Devices
  <2> QED BY <2>1, <2>3, <1>1, <1>3
<1>6. BatchOnly' BY <1>1 DEF IInv, BatchOnly
<1> QED BY <1>2, <1>4, <1>5, <1>6 DEF IInv

(* What is left of the batch after a callback or a skip. *)
LEMMA RestOfBatch ==
  ASSUME TypeOK, events # << >>, events' = Tail(events) \/ Handled
  PROVE  /\ events' \in Seq(Events)
         /\ \A i \in 1 .. Len(events') : \E j \in 1 .. Len(events) :
              events'[i][1] = events[j][1] /\ events'[i][2] = events[j][2]
<1>1. CASE events' = Tail(events)
  <2>1. /\ events' \in Seq(Events) /\ Len(events) \in Nat /\ Len(events') = Len(events) - 1
        /\ \A i \in 1 .. Len(events') : events'[i] = events[i + 1]
    BY <1>1, TailFacts DEF TypeOK
  <2>2. \A i \in 1 .. Len(events') : i + 1 \in 1 .. Len(events) BY <2>1
  <2> QED BY <2>1, <2>2
<1>2. CASE events' # Tail(events)
  <2> DEFINE e == events[1]
             n == <<e[1], e[2], e[3] \ {Kind}>>
  <2>1. events' = [events EXCEPT ![1] = n] BY <1>2 DEF Handled
  <2>2. events \in Seq(Events) /\ Len(events) \in Nat /\ 1 \in 1 .. Len(events) BY DEF TypeOK
  <2>3. e \in Events BY <2>2
  <2> HIDE DEF e
  <2>4. n \in Events /\ n[1] = e[1] /\ n[2] = e[2] BY <2>3 DEF Events
  <2> HIDE DEF n
  <2>5. /\ events' \in Seq(Events) /\ Len(events') = Len(events) /\ events'[1] = n
        /\ \A i \in 1 .. Len(events) : i # 1 => events'[i] = events[i]
    BY <2>1, <2>2, <2>4
  <2> QED BY <2>2, <2>4, <2>5 DEF e
<1> QED BY <1>1, <1>2

(* Devices are closed: their addresses are recorded. *)
LEMMA CloseIInv ==
  ASSUME IInv, NEW gone, NEW also, Close(gone, also),
         \/ UNCHANGED <<events>> /\ (pc' = pc \/ events = << >>)
         \/ events # << >> /\ Handled /\ pc' = pc
  PROVE  IInv'
<1>1. /\ heap' = [a \in Addresses |-> IF heap[a] \in gone THEN Nothing ELSE heap[a]]
      /\ watched' = watched \ gone
      /\ removed' = removed \cup {a \in Addresses : heap[a] \in gone}
  BY DEF Close
<1>2. /\ events' \in Seq(Events)
      /\ \A i \in 1 .. Len(events') : \E j \in 1 .. Len(events) :
           events'[i][1] = events[j][1] /\ events'[i][2] = events[j][2]
  BY RestOfBatch DEF IInv, TypeOK
<1>3. TypeOK' BY <1>1, <1>2 DEF IInv, TypeOK
<1>4. WatchedExist'
  <2> SUFFICES ASSUME NEW s \in watched \ gone, s # Pipe PROVE \E a \in Addresses : heap'[a] = s
    BY <1>1 DEF WatchedExist, IsAllocated
  <2>1. PICK a \in Addresses : heap[a] = s BY DEF IInv, WatchedExist, IsAllocated
  <2> QED BY <2>1, <1>1
<1>5. Fresh'
  <2> SUFFICES ASSUME NEW i \in 1 .. Len(events'), events'[i][1] \in Addresses \ removed'
               PROVE  heap'[events'[i][1]] = events'[i][2]
    BY DEF Fresh
  <2>1. PICK j \in 1 .. Len(events) : events'[i][1] = events[j][1] /\ events'[i][2] = events[j][2]
    BY <1>2
  <2>2. events[j][1] \in Addresses \ removed /\ heap[events[j][1]] \notin gone
    BY <2>1, <1>1
  <2>3. heap[events[j][1]] = events[j][2] BY <2>2 DEF IInv, Fresh
  <2> QED BY <2>1, <2>2, <2>3, <1>1
<1>6. BatchOnly' BY DEF IInv, BatchOnly, Handled
<1> QED BY <1>3, <1>4, <1>5, <1>6 DEF IInv

(* epoll_wait reports devices that are there. *)
LEMMA DoEventIInv ==
  ASSUME IInv, DoEvent
  PROVE  IInv'
<1>1. /\ pc' = "batch" /\ UNCHANGED <<heap, watched, removed>>
  BY DEF DoEvent
<1>2. PICK batch \in SUBSET ReadyDevices :
        \E order \in Injection(1 .. Cardinality(batch), batch) :
          events' = [i \in 1 .. Cardinality(batch) |-> Event(order[i])]
  BY DEF DoEvent
<1> DEFINE n == Cardinality(batch)
<1>3. PICK order \in [1 .. n -> batch] : events' = [i \in 1 .. n |-> Event(order[i])]
  BY <1>2 DEF Injection
<1>4. n \in Nat
  <2>1. batch \subseteq Devices BY DEF ReadyDevices, IInv, TypeOK
  <2>2. IsFiniteSet(Devices) BY DevicesAssumption, FS_AddElement DEF Devices
  <2> QED BY <2>1, <2>2, FS_Subset, FS_CardinalityType
<1> HIDE DEF n
<1>5. ASSUME NEW dev \in batch
      PROVE  /\ Event(dev) \in Events /\ Event(dev)[2] = dev
             /\ Event(dev)[1] \in Addresses => heap[Event(dev)[1]] = dev
  <2>1. dev \in Devices /\ dev \in watched BY <1>5 DEF ReadyDevices, IInv, TypeOK
  <2> DEFINE kinds == {k \in {"in", "err"} : <<dev, k>> \in ready}
  <2>2. kinds \in SUBSET {"in", "err"} OBVIOUS
  <2> HIDE DEF kinds
  <2>3. CASE dev = Pipe
    <3>1. Event(dev) = <<Pipe, Pipe, kinds>> BY <2>3 DEF Event, kinds
    <3>2. Pipe \in Devices /\ Pipe \notin Addresses BY DevicesAssumption DEF Devices
    <3>3. <<Pipe, Pipe, kinds>> \in Events /\ <<Pipe, Pipe, kinds>>[1] = Pipe
          /\ <<Pipe, Pipe, kinds>>[2] = Pipe
      BY <2>2, <3>2, EventFacts
    <3> QED BY <2>3, <3>1, <3>2, <3>3
  <2>4. CASE dev # Pipe
    <3>1. At(dev) \in Addresses /\ heap[At(dev)] = dev
      BY <2>1, <2>4 DEF IInv, WatchedExist, IsAllocated, At
    <3>2. Event(dev) = <<At(dev), dev, kinds>> BY <2>4 DEF Event, kinds
    <3> DEFINE a == At(dev)
    <3>3. a # Pipe BY <3>1, DevicesAssumption
    <3> HIDE DEF a
    <3>4. <<a, dev, kinds>> \in Events /\ <<a, dev, kinds>>[1] = a /\ <<a, dev, kinds>>[2] = dev
      BY <2>1, <2>2, <2>4, <3>1, <3>3, EventFacts DEF a
    <3> QED BY <3>1, <3>2, <3>4 DEF a
  <2> QED BY <2>3, <2>4
<1>6. /\ events' \in Seq(Events) /\ Len(events') = n
      /\ \A i \in 1 .. n : events'[i] = Event(order[i]) /\ order[i] \in batch
  <2>1. events' \in [1 .. n -> Events] BY <1>3, <1>5
  <2> QED BY <2>1, <1>3, <1>4, TableFacts
<1>7. Fresh'
  <2> SUFFICES ASSUME NEW i \in 1 .. n, events'[i][1] \in Addresses \ removed
               PROVE  heap[events'[i][1]] = events'[i][2]
    BY <1>1, <1>6 DEF Fresh
  <2> QED BY <1>5, <1>6
<1>8. TypeOK' /\ WatchedExist' /\ BatchOnly'
  BY <1>1, <1>6 DEF IInv, TypeOK, WatchedExist, IsAllocated, BatchOnly
<1> QED BY <1>7, <1>8 DEF IInv

LEMMA NextIInv == IInv /\ [Next]_vars => IInv'
<1> SUFFICES ASSUME IInv, [Next]_vars PROVE IInv' OBVIOUS
<1>1. CASE DoEvent BY <1>1, DoEventIInv
<1>2. CASE Interrupted
  BY <1>2, QuietIInv DEF Interrupted, IInv, BatchOnly
<1>3. CASE Skip
  <2>1. /\ events # << >> /\ pc' = pc /\ pc = "batch" /\ events' = Tail(events)
        /\ UNCHANGED <<heap, watched, removed>>
    BY <1>3 DEF Skip
  <2>2. /\ events' \in Seq(Events)
        /\ \A i \in 1 .. Len(events') : \E j \in 1 .. Len(events) :
             events'[i][1] = events[j][1] /\ events'[i][2] = events[j][2]
    BY <2>1, RestOfBatch DEF IInv
  <2>3. TypeOK' /\ WatchedExist' /\ BatchOnly'
    BY <2>1, <2>2 DEF IInv, TypeOK, WatchedExist, IsAllocated, BatchOnly
  <2>4. Fresh'
    <3> SUFFICES ASSUME NEW i \in 1 .. Len(events'), events'[i][1] \in Addresses \ removed
                 PROVE  heap[events'[i][1]] = events'[i][2]
      BY <2>1 DEF Fresh
    <3> QED BY <2>2 DEF IInv, Fresh
  <2> QED BY <2>3, <2>4 DEF IInv
<1>4. CASE Callback
  <2>1. events # << >> /\ Handled /\ pc' = pc /\ \E gone, also : Close(gone, also)
    BY <1>4 DEF Callback
  <2> QED BY <2>1, CloseIInv
<1>5. CASE BatchEnds
  <2>1. events = << >> /\ removed' = {} /\ UNCHANGED <<heap, watched, events>>
    BY <1>5 DEF BatchEnds
  <2> QED BY <2>1 DEF IInv, TypeOK, WatchedExist, IsAllocated, Fresh, BatchOnly
<1>6. CASE Timers
  <2>1. events = << >> /\ UNCHANGED events /\ \E gone, also : Close(gone, also)
    BY <1>6 DEF Timers, IInv, BatchOnly
  <2> QED BY <2>1, CloseIInv
<1>7. ASSUME NEW s \in Sockets, Arrives(s) \/ PushClose(s) PROVE IInv'
  BY <1>7, QuietIInv DEF Arrives, PushClose
<1>8. ASSUME NEW s \in Sockets, NEW a \in Addresses, Add(s, a) PROVE IInv'
  BY <1>8, AddIInv
<1>9. CASE UNCHANGED vars BY <1>9, QuietIInv DEF vars
<1> QED BY <1>1, <1>2, <1>3, <1>4, <1>5, <1>6, <1>7, <1>8, <1>9 DEF Next, Loop

-----------------------------------------------------------------------------
(* The inductive invariant holds in every reachable state. *)
THEOREM Invariance == Spec => []IInv
BY InitIInv, NextIInv, PTL DEF Spec

(* epoller.cc: an event is handed to the device it was reported for or to
   none, whatever callbacks closed and the acceptor allocated meanwhile. *)
THEOREM EventsNeverStale == Spec => []NoStaleEvent
<1>1. IInv => NoStaleEvent
  <2> SUFFICES ASSUME IInv, NEW i \in 1 .. Len(events), events[i][1] \notin removed
               PROVE  IF events[i][2] = Pipe THEN events[i][1] = Pipe
                      ELSE events[i][1] \in Addresses /\ heap[events[i][1]] = events[i][2]
    BY DEF NoStaleEvent, CheckIODeviceExist, IInv, TypeOK
  <2>1. events[i] \in Events BY DEF IInv, TypeOK
  <2> QED BY <2>1 DEF IInv, Fresh, Events
<1> QED BY <1>1, Invariance, PTL
=============================================================================
