--------------------------- MODULE ServicesProofs ---------------------------
(***************************************************************************)
(* What MCServices checks on one instance, proved for every value of its   *)
(* constants: the invariants of the reconnecting client, the request       *)
(* limit, the logs, the descriptors, the write path, DynamicBuffer and the *)
(* addresses.                                                              *)
(* The parts share no state, so each has an inductive invariant of its     *)
(* own, and a step of the services is a step of each part or leaves it     *)
(* alone (PartSteps).                                                      *)
(***************************************************************************)
EXTENDS MCServices, QueueFacts, FiniteSetTheorems, WellFoundedInduction, TLAPS

(* A step of the services is, seen from each part, a step of that part or
   no step; a step of the calendar part is one of the logs. *)
LEMMA PartSteps ==
  ASSUME [ServicesNext]_servicesVars
  PROVE  /\ [Next]_vars
         /\ [Requests!Next]_limitVars
         /\ [Logs!Next \/ Calendar!Next]_logVars
         /\ [Table!Next]_fdVars
         /\ [Writes!Next]_writeVars
         /\ [Buffer!Next]_bufferVars
         /\ [Address!Next]_addressVars
         /\ part' = part
         /\ part = "calendar" => [Calendar!Next]_logVars
<1>1. CASE UNCHANGED servicesVars
  BY <1>1 DEF servicesVars
<1>2. CASE Picked("client") /\ Next
  BY <1>2 DEF Picked
<1>3. CASE Picked("requests") /\ Requests!Next
  BY <1>3 DEF Picked
<1>4. CASE Picked("logs") /\ Logs!Next
  BY <1>4 DEF Picked
<1>5. CASE Picked("calendar") /\ Calendar!Next
  BY <1>5 DEF Picked
<1>6. CASE Picked("descriptors") /\ Table!Next
  BY <1>6 DEF Picked
<1>7. CASE Picked("write") /\ Writes!Next
  BY <1>7 DEF Picked
<1>8. CASE Picked("buffer") /\ Buffer!Next
  BY <1>8 DEF Picked
<1>9. CASE Picked("address") /\ Address!Next
  BY <1>9 DEF Picked
<1> QED
  BY <1>1, <1>2, <1>3, <1>4, <1>5, <1>6, <1>7, <1>8, <1>9 DEF ServicesNext

-----------------------------------------------------------------------------
(* The request limit. *)

LimitType ==
  /\ second \in Nat \ {0}
  /\ info \in [Clients -> [last_request_second : Nat, requst_per_second : Nat]]
  /\ known \subseteq Clients
  /\ came \in [Clients -> Nat]
  /\ handled \in [Clients -> Nat]
  /\ most \in [Clients -> Nat]

(* With a limit, what was handled this second is what the counter says ... *)
CounterCounts ==
  Max > 0 => \A c \in known :
    /\ info[c].last_request_second <= second
    /\ info[c].last_request_second = second =>
         /\ handled[c] = info[c].requst_per_second + 1
         /\ info[c].requst_per_second <= Max
         /\ info[c].requst_per_second < came[c]
    /\ info[c].last_request_second < second => handled[c] = 0

(* ... and no more than what came, of which the most is remembered. *)
MostIsMost == \A c \in Clients : came[c] <= most[c] /\ handled[c] <= came[c]

LimitInv == /\ LimitType /\ CounterCounts /\ MostIsMost
            /\ Requests!Limited /\ Requests!WellBehavedStays

LEMMA LimitStart == Requests!Init => LimitInv
BY LimitAssumption
DEF Requests!Init, Requests!NoRequest, LimitInv, LimitType, CounterCounts, MostIsMost,
    Requests!Limited, Requests!WellBehavedStays

LEMMA LimitArrived ==
  ASSUME LimitInv, NEW c \in Clients, Requests!Arrived(c),
         info' \in [Clients -> [last_request_second : Nat, requst_per_second : Nat]],
         known' \subseteq known, handled' \in [Clients -> Nat]
  PROVE  /\ LimitType'
         /\ \A d \in Clients : came'[d] = IF d = c THEN came[c] + 1 ELSE came[d]
         /\ \A d \in Clients : most'[d] >= most[d] /\ came'[d] <= most'[d]
<1>1. /\ came \in [Clients -> Nat] /\ most \in [Clients -> Nat]
      /\ came' = [came EXCEPT ![c] = @ + 1]
      /\ most' = [most EXCEPT ![c] = Requests!Larger(@, came[c] + 1)]
      /\ second' = second /\ second \in Nat \ {0} /\ known \subseteq Clients
      /\ \A d \in Clients : came[d] <= most[d]
  BY DEF Requests!Arrived, LimitInv, LimitType, MostIsMost
<1>2. Requests!Larger(most[c], came[c] + 1) \in Nat
  BY <1>1 DEF Requests!Larger
<1>3. /\ Requests!Larger(most[c], came[c] + 1) >= most[c]
      /\ Requests!Larger(most[c], came[c] + 1) >= came[c] + 1
  BY <1>1 DEF Requests!Larger
<1>4. came' \in [Clients -> Nat] /\ most' \in [Clients -> Nat]
  BY <1>1, <1>2
<1>5. LimitType'
  BY <1>1, <1>4 DEF LimitType
<1>6. ASSUME NEW d \in Clients
      PROVE  /\ came'[d] = IF d = c THEN came[c] + 1 ELSE came[d]
             /\ most'[d] >= most[d] /\ came'[d] <= most'[d]
  BY <1>1, <1>2, <1>3
<1> QED
  BY <1>5, <1>6

LEMMA LimitStep == ASSUME LimitInv, [Requests!Next]_limitVars PROVE LimitInv'
<1> USE LimitAssumption
<1>1. CASE UNCHANGED limitVars
  BY <1>1 DEF limitVars, LimitInv, LimitType, CounterCounts, MostIsMost,
              Requests!Limited, Requests!WellBehavedStays
<1>2. CASE Requests!Tick
  BY <1>2 DEF Requests!Tick, LimitInv, LimitType, CounterCounts, MostIsMost,
              Requests!Limited, Requests!WellBehavedStays
<1>3. ASSUME NEW c \in Clients, Requests!OnMessage(c) PROVE LimitInv'
  <2>1. /\ c \in known /\ Requests!Arrived(c) /\ second' = second
        /\ info' = [info EXCEPT ![c] = IF Max > 0 THEN Requests!Counted(@) ELSE @]
    BY <1>3 DEF Requests!OnMessage, Requests!Arrived
  <2>2. info[c] \in [last_request_second : Nat, requst_per_second : Nat]
    BY DEF LimitInv, LimitType
  <2>3. Requests!Counted(info[c]) \in [last_request_second : Nat, requst_per_second : Nat]
    BY <2>2 DEF Requests!Counted, LimitInv, LimitType
  <2>4. info' \in [Clients -> [last_request_second : Nat, requst_per_second : Nat]]
    BY <2>1, <2>3 DEF LimitInv, LimitType
  <2>5. /\ Max > 0 => info'[c] = Requests!Counted(info[c])
        /\ \A d \in Clients : d # c => info'[d] = info[d]
    BY <2>1 DEF LimitInv, LimitType
  <2>6. CASE Requests!Exceeds(info'[c])
    <3>1. known' = known \ {c} /\ handled' = handled
      BY <1>3, <2>6 DEF Requests!OnMessage
    <3>2. handled' \in [Clients -> Nat]
      BY <3>1 DEF LimitInv, LimitType
    <3>3. /\ LimitType'
          /\ \A d \in Clients : came'[d] = IF d = c THEN came[c] + 1 ELSE came[d]
          /\ \A d \in Clients : most'[d] >= most[d] /\ came'[d] <= most'[d]
      BY <2>1, <2>4, <3>1, <3>2, LimitArrived
    <3>4. CounterCounts'
      BY <2>1, <2>5, <3>1, <3>3 DEF CounterCounts, LimitInv, LimitType
    <3>5. MostIsMost'
      BY <3>1, <3>3 DEF MostIsMost, LimitInv, LimitType
    <3>6. Requests!Limited'
      BY <3>1 DEF Requests!Limited, LimitInv
    <3>7. Max > 0 /\ Requests!Counted(info[c]).requst_per_second > Max
      BY <2>5, <2>6 DEF Requests!Exceeds
    <3>8. came'[c] > Max
      BY <2>1, <2>2, <3>3, <3>7
      DEF Requests!Counted, LimitInv, CounterCounts, LimitType
    <3>9. most'[c] > Max
      BY <3>3, <3>8 DEF LimitType
    <3>10. Requests!WellBehavedStays'
      BY <3>1, <3>3, <3>7, <3>9 DEF Requests!WellBehavedStays, LimitInv, LimitType
    <3> QED
      BY <3>3, <3>4, <3>5, <3>6, <3>10 DEF LimitInv
  <2>7. CASE ~Requests!Exceeds(info'[c])
    <3>1. known' = known /\ handled' = [handled EXCEPT ![c] = @ + 1]
      BY <1>3, <2>7 DEF Requests!OnMessage
    <3>2. handled' \in [Clients -> Nat]
      BY <3>1 DEF LimitInv, LimitType
    <3>3. /\ LimitType'
          /\ \A d \in Clients : came'[d] = IF d = c THEN came[c] + 1 ELSE came[d]
          /\ \A d \in Clients : most'[d] >= most[d] /\ came'[d] <= most'[d]
      BY <2>1, <2>4, <3>1, <3>2, LimitArrived
    <3>4. Max > 0 => Requests!Counted(info[c]).requst_per_second <= Max
      BY <2>5, <2>7, <2>3 DEF Requests!Exceeds
    <3>5. \A d \in Clients : handled'[d] = IF d = c THEN handled[c] + 1 ELSE handled[d]
      BY <3>1 DEF LimitInv, LimitType
    <3>6. MostIsMost'
      BY <3>3, <3>5 DEF MostIsMost, LimitInv, LimitType
    <3>7. ASSUME Max > 0
          PROVE  /\ info'[c].last_request_second = second
                 /\ handled'[c] = info'[c].requst_per_second + 1
                 /\ info'[c].requst_per_second <= Max
                 /\ info'[c].requst_per_second < came'[c]
      <4>1. info'[c] = Requests!Counted(info[c])
        BY <2>5, <3>7
      <4>2. came[c] \in Nat /\ came'[c] = came[c] + 1 /\ handled'[c] = handled[c] + 1
        BY <3>3, <3>5 DEF LimitInv, LimitType
      <4>3. CASE second = info[c].last_request_second
        BY <2>1, <2>2, <3>4, <3>7, <4>1, <4>2, <4>3
        DEF Requests!Counted, LimitInv, CounterCounts
      <4>4. CASE second # info[c].last_request_second
        <5>1. info[c].last_request_second < second
          <6>1. info[c].last_request_second \in Nat /\ second \in Nat
            BY <2>2 DEF LimitInv, LimitType
          <6>2. info[c].last_request_second <= second
            BY <2>1, <3>7 DEF LimitInv, CounterCounts
          <6> QED
            BY <4>4, <6>1, <6>2
        <5>2. handled[c] = 0
          BY <2>1, <3>7, <5>1 DEF LimitInv, CounterCounts
        <5>3. info'[c] = [last_request_second |-> second, requst_per_second |-> 0]
          BY <4>1, <4>4 DEF Requests!Counted
        <5> QED
          BY <3>7, <4>2, <5>2, <5>3
      <4> QED
        BY <4>3, <4>4
    <3>8. CounterCounts'
      BY <2>1, <2>5, <3>1, <3>3, <3>5, <3>7 DEF CounterCounts, LimitInv, LimitType
    <3>9. Requests!Limited'
      BY <3>5, <3>7, <2>4 DEF Requests!Limited, LimitInv, LimitType
    <3>10. Requests!WellBehavedStays'
      BY <3>1, <3>3 DEF Requests!WellBehavedStays, LimitInv, LimitType
    <3> QED
      BY <3>3, <3>6, <3>8, <3>9, <3>10 DEF LimitInv
  <2> QED
    BY <2>6, <2>7
<1>4. ASSUME NEW c \in Clients, Requests!OnLateMessage(c) PROVE LimitInv'
  <2>1. /\ c \notin known /\ Requests!Arrived(c) /\ second' = second
        /\ info' = info /\ known' = known /\ handled' = handled
    BY <1>4 DEF Requests!OnLateMessage, Requests!Arrived
  <2>2. /\ LimitType'
        /\ \A d \in Clients : came'[d] = IF d = c THEN came[c] + 1 ELSE came[d]
        /\ \A d \in Clients : most'[d] >= most[d] /\ came'[d] <= most'[d]
    BY <2>1, LimitArrived DEF LimitInv, LimitType
  <2>3. CounterCounts' /\ MostIsMost'
    BY <2>1, <2>2 DEF CounterCounts, MostIsMost, LimitInv, LimitType
  <2>4. Requests!Limited' /\ Requests!WellBehavedStays'
    BY <2>1, <2>2 DEF Requests!Limited, Requests!WellBehavedStays, LimitInv, LimitType
  <2> QED
    BY <2>2, <2>3, <2>4 DEF LimitInv
<1> QED
  BY <1>1, <1>2, <1>3, <1>4 DEF Requests!Next

-----------------------------------------------------------------------------
(* The reconnecting client. *)

(* The pieces of a state, and where both threads may be. *)
ClientType ==
  /\ thread \in {"begin", "connecting", "named", "attach", "announce", "loop",
                "restart", "crashed"}
  /\ at \in [Threads -> {"out", "test", "tell", "close", "clear", "forget"}]
  /\ at["net"] # "out" => thread \in {"restart", "crashed"}
  /\ mine \in [Threads -> {0} \cup Sockets]
  /\ socket \in {0} \cup Sockets
  /\ connected \in BOOLEAN /\ stopping \in BOOLEAN /\ open \in Int

(* connected_ is false while the net thread connects, and once it has cleared
   it itself; only its own connect sets it. *)
NotConnected ==
  \/ thread \in {"begin", "connecting", "named"}
  \/ thread = "restart" /\ at["net"] \in {"forget", "out"}

(* At most the timer the thread knows of runs, and none beside a connection
   or an attempt. *)
TimerInv ==
  /\ NotConnected => ~connected
  /\ DOMAIN due \subseteq {timer} \ {0}
  /\ connected \/ thread \in {"begin", "connecting", "named", "attach", "announce"} =>
       DOMAIN due = {}

(* Until stop is called only the net thread disconnects: the reactor has the
   socket the client believes in or, before it is attached and after it is
   closed, none. *)
AloneInv ==
  ~stopping =>
    /\ at["main"] = "out"
    /\ live \subseteq {socket} \ {0}
    /\ live # {} => connected
    /\ thread = "named" => socket # 0
    /\ thread = "attach" => live = {} /\ mine["net"] = socket /\ socket # 0
    /\ thread \in {"attach", "announce"} => connected
    /\ thread = "restart" /\ at["net"] \in {"tell", "close", "clear"} => connected
    /\ thread = "restart" /\ at["net"] = "close" => mine["net"] = socket
    /\ thread = "restart" /\ at["net"] = "clear" => live = {}

(* The net thread is between the NEW and the CLOSE of a connection, or
   between its connect and the NEW. *)
BeforeClose == \/ thread = "loop" /\ connected
               \/ thread = "restart" /\ at["net"] = "test" /\ connected
               \/ thread = "restart" /\ at["net"] = "tell"
BeforeNew == thread \in {"attach", "announce"}

(* What stop's one disconnect may have added to the commands CLOSE: one it
   has sent and whose connection it has not cleared, and one in all. *)
Half  == IF at["main"] \in {"close", "clear"} THEN 1 ELSE 0
Extra == IF stopping /\ at["main"] \notin {"test", "tell"} THEN 1 ELSE 0

(* NEW less CLOSE, by where the net thread is. *)
TallyInv ==
  /\ open <= 1 /\ open >= 0 - Extra
  /\ BeforeClose => open <= 1 - Half /\ open >= 1 - Extra
  /\ BeforeNew => open <= (IF connected THEN 0 ELSE -1) - Half
  /\ thread # "crashed" /\ ~BeforeClose /\ ~BeforeNew => open <= 0 - Half

ClientInv == ClientType /\ TimerInv /\ AloneInv /\ TallyInv /\ WayBack

LEMMA ClientIsSound == ClientInv => ClientSound
<1> SUFFICES ASSUME ClientInv PROVE ClientSound
  OBVIOUS
<1>1. DOMAIN due \subseteq {timer}
  BY DEF ClientInv, TimerInv
<1>2. IsFiniteSet({timer}) /\ Cardinality({timer}) = 1
  BY FS_Singleton
<1>3. Cardinality(DOMAIN due) <= 1
  BY <1>1, <1>2, FS_Subset
<1>4. OneAttempt
  BY <1>3 DEF OneAttempt, ClientInv, TimerInv, AloneInv
<1>5. Paired
  BY DEF Paired, ClientInv, ClientType, TallyInv, AloneInv, BeforeClose, BeforeNew, Half, Extra
<1> QED
  BY <1>4, <1>5 DEF ClientInv, ClientSound

LEMMA ClientStart == Init => ClientInv
<1> SUFFICES ASSUME Init PROVE ClientInv
  OBVIOUS
<1>0. due = << >> /\ link = << >>
  BY DEF Init
<1>1. DOMAIN due = {} /\ live = {}
  BY <1>0 DEF live
<1>2. ClientType
  <2>1. connected \in BOOLEAN /\ stopping \in BOOLEAN /\ open \in Int /\ socket = 0
    <3>1. connected = FALSE /\ stopping = FALSE /\ open = 0 /\ socket = 0
      BY Zenon DEF Init
    <3>2. connected \in BOOLEAN /\ stopping \in BOOLEAN
      BY <3>1, Zenon
    <3> QED
      BY <3>1, <3>2
  <2>2. at \in [Threads -> {"out", "test", "tell", "close", "clear", "forget"}]
    BY DEF Init
  <2>3. mine \in [Threads -> {0} \cup Sockets]
    BY DEF Init
  <2>4. at["net"] = "out" /\ thread = "begin"
    BY DEF Init, Threads
  <2> QED
    BY <2>1, <2>2, <2>3, <2>4 DEF ClientType
<1>3. TimerInv /\ AloneInv /\ WayBack
  BY <1>1 DEF Init, TimerInv, NotConnected, AloneInv, WayBack, Threads
<1>4. TallyInv
  BY DEF Init, TallyInv, BeforeClose, BeforeNew, Half, Extra, Threads
<1> QED
  BY <1>2, <1>3, <1>4 DEF ClientInv

(* startConnectTimer leaves the one timer it started. *)
LEMMA TimerStarted ==
  ASSUME ClientInv, StartConnectTimer
  PROVE  timer' # 0 /\ DOMAIN due' = {timer'}
<1>1. PICK t \in TimerIds \ DOMAIN due :
        /\ timer' = t
        /\ due' = [u \in {t} \cup (DOMAIN due \ {timer}) |->
                     IF u = t THEN Interval ELSE due[u]]
  BY DEF StartConnectTimer
<1>2. {t} \cup (DOMAIN due \ {timer}) = {t}
  BY DEF ClientInv, TimerInv
<1>3. DOMAIN due' = {t}
  BY <1>1, <1>2
<1> QED
  BY <1>1, <1>3 DEF TimerIds

(* Closing a socket takes it from the reactor, and nothing else. *)
LEMMA SocketClosed ==
  ASSUME NEW t, CloseSocket(t)
  PROVE  live' = live \ {mine[t]}
BY DEF CloseSocket, Restrict, live

(* disconnect by the net thread, one step. *)
LEMMA NetDisconnectStep == ASSUME ClientInv, NetDisconnects PROVE ClientInv'
<1> USE DEF ClientInv, ClientType, Threads, Steps
<1>0. /\ thread = "restart" /\ thread' = "restart"
      /\ UNCHANGED <<timer, due, stopping>>
  BY DEF NetDisconnects, timerVars, outside
<1>1. CASE Test("net")
  <2>1. /\ at["net"] = "test" /\ live' = live
        /\ at' = [at EXCEPT !["net"] = IF connected THEN "tell" ELSE "out"]
        /\ UNCHANGED <<mine, connected, socket, open>>
    BY <1>1 DEF Test, live
  <2>2. ClientType'
    BY <1>0, <2>1
  <2>3. TimerInv' /\ AloneInv' /\ WayBack'
    BY <1>0, <2>1 DEF TimerInv, NotConnected, AloneInv, WayBack
  <2>4. TallyInv'
    BY <1>0, <2>1 DEF TallyInv, BeforeClose, BeforeNew, Half, Extra
  <2> QED
    BY <2>2, <2>3, <2>4
<1>2. CASE Tell("net")
  <2>1. /\ at["net"] = "tell" /\ live' = live
        /\ at' = [at EXCEPT !["net"] = "close"]
        /\ mine' = [mine EXCEPT !["net"] = socket] /\ open' = open - 1
        /\ UNCHANGED <<connected, socket>>
    BY <1>2 DEF Tell, live
  <2>2. ClientType'
    BY <1>0, <2>1
  <2>3. TimerInv' /\ AloneInv' /\ WayBack'
    BY <1>0, <2>1 DEF TimerInv, NotConnected, AloneInv, WayBack
  <2>4. TallyInv'
    BY <1>0, <2>1 DEF TallyInv, BeforeClose, BeforeNew, Half, Extra
  <2> QED
    BY <2>2, <2>3, <2>4
<1>3. CASE CloseSocket("net")
  <2>1. /\ at["net"] = "close" /\ live' = live \ {mine["net"]}
        /\ at' = [at EXCEPT !["net"] = "clear"]
        /\ mine' = [mine EXCEPT !["net"] = 0]
        /\ UNCHANGED <<connected, socket, open>>
    BY <1>3, SocketClosed DEF CloseSocket
  <2>2. ClientType'
    BY <1>0, <2>1
  <2>3. TimerInv' /\ AloneInv' /\ WayBack'
    BY <1>0, <2>1 DEF TimerInv, NotConnected, AloneInv, WayBack
  <2>4. TallyInv'
    BY <1>0, <2>1 DEF TallyInv, BeforeClose, BeforeNew, Half, Extra
  <2> QED
    BY <2>2, <2>3, <2>4
<1>4. CASE Clear("net")
  <2>1. /\ at["net"] = "clear" /\ live' = live
        /\ at' = [at EXCEPT !["net"] = "forget"]
        /\ connected' = FALSE
        /\ UNCHANGED <<mine, socket, open>>
    BY <1>4 DEF Clear, live
  <2>2. ClientType'
    BY <1>0, <2>1
  <2>3. TimerInv' /\ AloneInv' /\ WayBack'
    BY <1>0, <2>1 DEF TimerInv, NotConnected, AloneInv, WayBack
  <2>4. TallyInv'
    BY <1>0, <2>1 DEF TallyInv, BeforeClose, BeforeNew, Half, Extra
  <2> QED
    BY <2>2, <2>3, <2>4
<1>5. CASE Forget("net")
  <2>1. /\ at["net"] = "forget" /\ live' = live
        /\ at' = [at EXCEPT !["net"] = "out"]
        /\ socket' = 0
        /\ UNCHANGED <<mine, connected, open>>
    BY <1>5 DEF Forget, live
  <2>2. ClientType'
    BY <1>0, <2>1
  <2>3. TimerInv' /\ AloneInv' /\ WayBack'
    BY <1>0, <2>1 DEF TimerInv, NotConnected, AloneInv, WayBack
  <2>4. TallyInv'
    BY <1>0, <2>1 DEF TallyInv, BeforeClose, BeforeNew, Half, Extra
  <2> QED
    BY <2>2, <2>3, <2>4
<1> QED
  BY <1>1, <1>2, <1>3, <1>4, <1>5 DEF NetDisconnects, Disconnect

(* disconnect by stop, one step beside the net thread. *)
LEMMA MainDisconnectStep == ASSUME ClientInv, MainDisconnects PROVE ClientInv'
<1> USE DEF ClientInv, ClientType, Threads, Steps
<1>0. /\ thread' \in {thread, "crashed"} /\ stopping /\ stopping'
      /\ UNCHANGED <<timer, due>>
  BY DEF MainDisconnects, Disconnect, Test, Tell, CloseSocket, Clear, Forget,
         AloneInv, timerVars, outside
<1>1. CASE Test("main")
  <2>1. /\ at["main"] = "test" /\ thread' = thread
        /\ at' = [at EXCEPT !["main"] = IF connected THEN "tell" ELSE "out"]
        /\ UNCHANGED <<mine, connected, socket, open>>
    BY <1>1 DEF Test, MainDisconnects
  <2>2. ClientType'
    BY <1>0, <2>1
  <2>3. TimerInv' /\ AloneInv' /\ WayBack'
    BY <1>0, <2>1 DEF TimerInv, NotConnected, AloneInv, WayBack
  <2>4. TallyInv'
    BY <1>0, <2>1 DEF TallyInv, BeforeClose, BeforeNew, Half, Extra
  <2> QED
    BY <2>2, <2>3, <2>4
<1>2. CASE Tell("main")
  <2>1. /\ at["main"] = "tell" /\ thread' = thread
        /\ at' = [at EXCEPT !["main"] = "close"]
        /\ mine' = [mine EXCEPT !["main"] = socket] /\ open' = open - 1
        /\ UNCHANGED <<connected, socket>>
    BY <1>2 DEF Tell, MainDisconnects
  <2>2. ClientType'
    BY <1>0, <2>1
  <2>3. TimerInv' /\ AloneInv' /\ WayBack'
    BY <1>0, <2>1 DEF TimerInv, NotConnected, AloneInv, WayBack
  <2>4. TallyInv'
    BY <1>0, <2>1 DEF TallyInv, BeforeClose, BeforeNew, Half, Extra
  <2> QED
    BY <2>2, <2>3, <2>4
<1>3. CASE CloseSocket("main")
  <2>1. /\ at["main"] = "close"
        /\ at' = [at EXCEPT !["main"] = "clear"]
        /\ mine' = [mine EXCEPT !["main"] = 0]
        /\ UNCHANGED <<connected, socket, open>>
    BY <1>3 DEF CloseSocket
  <2>2. ClientType'
    BY <1>0, <2>1
  <2>3. TimerInv' /\ AloneInv' /\ WayBack'
    BY <1>0, <2>1 DEF TimerInv, NotConnected, AloneInv, WayBack
  <2>4. TallyInv'
    BY <1>0, <2>1 DEF TallyInv, BeforeClose, BeforeNew, Half, Extra
  <2> QED
    BY <2>2, <2>3, <2>4
<1>4. CASE Clear("main")
  <2>1. /\ at["main"] = "clear" /\ thread' = thread
        /\ at' = [at EXCEPT !["main"] = "forget"]
        /\ connected' = FALSE
        /\ UNCHANGED <<mine, socket, open>>
    BY <1>4 DEF Clear, MainDisconnects
  <2>2. ClientType'
    BY <1>0, <2>1
  <2>3. TimerInv' /\ AloneInv' /\ WayBack'
    BY <1>0, <2>1 DEF TimerInv, NotConnected, AloneInv, WayBack
  <2>4. TallyInv'
    BY <1>0, <2>1 DEF TallyInv, BeforeClose, BeforeNew, Half, Extra
  <2> QED
    BY <2>2, <2>3, <2>4
<1>5. CASE Forget("main")
  <2>1. /\ at["main"] = "forget" /\ thread' = thread
        /\ at' = [at EXCEPT !["main"] = "out"]
        /\ socket' = 0
        /\ UNCHANGED <<mine, connected, open>>
    BY <1>5 DEF Forget, MainDisconnects
  <2>2. ClientType'
    BY <1>0, <2>1
  <2>3. TimerInv' /\ AloneInv' /\ WayBack'
    BY <1>0, <2>1 DEF TimerInv, NotConnected, AloneInv, WayBack
  <2>4. TallyInv'
    BY <1>0, <2>1 DEF TallyInv, BeforeClose, BeforeNew, Half, Extra
  <2> QED
    BY <2>2, <2>3, <2>4
<1> QED
  BY <1>1, <1>2, <1>3, <1>4, <1>5 DEF MainDisconnects, Disconnect

(* onClose only takes the net thread to disconnect. *)
LEMMA CloseStarts ==
  ASSUME ClientInv, thread = "loop", OnClose, live' = live, stopping' = stopping
  PROVE  ClientInv'
<1> USE DEF ClientInv, ClientType, Threads, Steps
<1>1. /\ at["net"] = "out" /\ at' = [at EXCEPT !["net"] = "test"]
      /\ thread' = "restart" /\ UNCHANGED <<mine, connected, socket, open, timer, due>>
  BY DEF OnClose, Enter, timerVars
<1>2. ClientType'
  BY <1>1
<1>3. TimerInv' /\ AloneInv' /\ WayBack'
  BY <1>1 DEF TimerInv, NotConnected, AloneInv, WayBack
<1>4. TallyInv'
  BY <1>1 DEF TallyInv, BeforeClose, BeforeNew, Half, Extra
<1> QED
  BY <1>2, <1>3, <1>4

(* Restart, and a connect that fails: the thread is back in its loop, and
   the one timer runs. *)
LEMMA TimerRuns ==
  ASSUME ClientInv, StartConnectTimer, thread' = "loop",
         NotConnected, at["net"] = "out", UNCHANGED <<linkVars, stopping>>
  PROVE  ClientInv'
<1> USE DEF ClientInv, ClientType, Threads
<1>1. timer' # 0 /\ DOMAIN due' = {timer'}
  BY TimerStarted
<1>2. /\ live' = live /\ UNCHANGED <<at, mine, connected, socket, open, stopping>>
      /\ ~connected /\ thread \in {"connecting", "named", "begin", "restart"}
  BY DEF linkVars, live, NotConnected, TimerInv
<1>3. ClientType'
  BY <1>2
<1>4. TimerInv' /\ AloneInv' /\ WayBack'
  BY <1>1, <1>2 DEF TimerInv, NotConnected, AloneInv, WayBack
<1>5. TallyInv'
  BY <1>2 DEF TallyInv, BeforeClose, BeforeNew, Half, Extra
<1> QED
  BY <1>3, <1>4, <1>5

(* The steps of connect. *)
LEMMA ConnectStep ==
  ASSUME ClientInv, Named \/ Connected \/ Attach \/ SendNetCommandNew
  PROVE  ClientInv'
<1> USE DEF ClientInv, ClientType, Threads
<1>0. CASE Named
  <2>1. /\ thread = "connecting" /\ thread' = "named" /\ live' = live
        /\ socket' \in Sockets
        /\ UNCHANGED <<at, mine, connected, open, timer, due, stopping>>
    BY <1>0 DEF Named, Fresh, live, timerVars, outside
  <2>2. ~connected /\ DOMAIN due = {}
    BY <2>1 DEF TimerInv, NotConnected
  <2>3. ClientType'
    BY <2>1
  <2>4. TimerInv' /\ AloneInv' /\ WayBack'
    BY <2>1, <2>2 DEF TimerInv, NotConnected, AloneInv, WayBack, Sockets
  <2>5. TallyInv'
    BY <2>1, <2>2 DEF TallyInv, BeforeClose, BeforeNew, Half, Extra
  <2> QED
    BY <2>3, <2>4, <2>5
<1>1. CASE Connected
  <2>1. /\ thread = "named" /\ thread' = "attach" /\ live' = live
        /\ mine' = [mine EXCEPT !["net"] = socket]
        /\ connected' = TRUE
        /\ UNCHANGED <<at, socket, open, timer, due, stopping>>
    BY <1>1 DEF Connected, live, timerVars, outside
  <2>2. ~connected /\ DOMAIN due = {}
    BY <2>1 DEF TimerInv, NotConnected
  <2>3. ClientType'
    BY <2>1
  <2>4. TimerInv' /\ AloneInv' /\ WayBack'
    BY <2>1, <2>2 DEF TimerInv, NotConnected, AloneInv, WayBack
  <2>5. TallyInv'
    BY <2>1, <2>2 DEF TallyInv, BeforeClose, BeforeNew, Half, Extra
  <2> QED
    BY <2>3, <2>4, <2>5
<1>2. CASE Attach
  <2>1. /\ thread = "attach" /\ thread' = "announce"
        /\ live' \subseteq live \cup {mine["net"]}
        /\ mine' = [mine EXCEPT !["net"] = 0]
        /\ UNCHANGED <<at, connected, socket, open, timer, due, stopping>>
    BY <1>2 DEF Attach, live, timerVars, outside
  <2>2. ClientType'
    BY <2>1
  <2>3. TimerInv' /\ AloneInv' /\ WayBack'
    BY <2>1 DEF TimerInv, NotConnected, AloneInv, WayBack
  <2>4. TallyInv'
    BY <2>1 DEF TallyInv, BeforeClose, BeforeNew, Half, Extra
  <2> QED
    BY <2>2, <2>3, <2>4
<1>3. CASE SendNetCommandNew
  <2>1. /\ thread = "announce" /\ thread' = "loop" /\ open' = open + 1 /\ live' = live
        /\ UNCHANGED <<at, mine, connected, socket, timer, due, stopping>>
    BY <1>3 DEF SendNetCommandNew, live, timerVars, outside
  <2>2. ClientType'
    BY <2>1
  <2>3. TallyInv'
    BY <2>1 DEF TallyInv, BeforeClose, BeforeNew, Half, Extra
  <2>4. TimerInv' /\ AloneInv' /\ WayBack'
    BY <2>1 DEF TimerInv, NotConnected, AloneInv, WayBack
  <2> QED
    BY <2>2, <2>3, <2>4
<1> QED
  BY <1>0, <1>1, <1>2, <1>3

(* A timer of the heap is the reconnection timer. *)
LEMMA FireStep == ASSUME ClientInv, Fire PROVE ClientInv'
<1> USE DEF ClientInv, ClientType, Threads
<1>1. PICK t \in DOMAIN due : /\ due' = Remove(t)
                              /\ thread' = IF t = timer THEN "connecting" ELSE "loop"
                              /\ timer' = IF t = timer THEN 0 ELSE timer
  BY DEF Fire
<1>2. t = timer /\ ~connected
  BY <1>1 DEF TimerInv
<1>3. DOMAIN due' = {}
  BY <1>1, <1>2 DEF Remove, TimerInv
<1>4. /\ live' = live /\ UNCHANGED <<at, mine, connected, socket, open, stopping>>
      /\ thread = "loop" /\ thread' = "connecting"
  BY <1>1, <1>2 DEF Fire, linkVars, live, outside
<1>5. ClientType'
  BY <1>4
<1>6. TimerInv' /\ AloneInv' /\ WayBack'
  BY <1>2, <1>3, <1>4 DEF TimerInv, NotConnected, AloneInv, WayBack
<1>7. TallyInv'
  BY <1>2, <1>4 DEF TallyInv, BeforeClose, BeforeNew, Half, Extra
<1> QED
  BY <1>5, <1>6, <1>7

(* What changes none of this. *)
LEMMA ClientRests ==
  ASSUME ClientInv, live' = live, DOMAIN due' = DOMAIN due,
         UNCHANGED <<thread, at, mine, connected, socket, open, timer, stopping>>
  PROVE  ClientInv'
BY DEF ClientInv, ClientType, TimerInv, NotConnected, AloneInv, TallyInv, BeforeClose,
       BeforeNew, Half, Extra, WayBack

(* A crash is the end of every promise but these. *)
LEMMA ClientCrashes ==
  ASSUME ClientInv, thread' = "crashed", UNCHANGED <<linkVars, timerVars, stopping>>
  PROVE  ClientInv'
<1> USE DEF ClientInv, ClientType, linkVars, timerVars
<1>1. ClientType' /\ live' = live
  BY DEF live
<1>2. TimerInv' /\ AloneInv' /\ WayBack'
  BY <1>1 DEF TimerInv, NotConnected, AloneInv, WayBack
<1>3. TallyInv'
  BY DEF TallyInv, BeforeClose, BeforeNew, Half, Extra
<1> QED
  BY <1>1, <1>2, <1>3

LEMMA StopStep == ASSUME ClientInv, Stop PROVE ClientInv'
<1> USE DEF ClientInv, ClientType, Threads
<1>1. /\ at["main"] = "out" /\ at' = [at EXCEPT !["main"] = "test"]
      /\ ~stopping /\ stopping' = TRUE /\ live' = live
      /\ thread' \in {thread, "crashed"} /\ DOMAIN due' = {}
      /\ UNCHANGED <<mine, connected, socket, open, timer>>
  BY DEF Stop, Enter, Steps, Remove, TimerInv, live
<1>2. ClientType'
  BY <1>1
<1>3. TimerInv' /\ AloneInv' /\ WayBack'
  BY <1>1 DEF TimerInv, NotConnected, AloneInv, WayBack
<1>4. TallyInv'
  BY <1>1 DEF TallyInv, BeforeClose, BeforeNew, Half, Extra
<1> QED
  BY <1>2, <1>3, <1>4

LEMMA ClientStep == ASSUME ClientInv, [Next]_vars PROVE ClientInv'
<1>1. CASE UNCHANGED vars
  BY <1>1, ClientRests DEF vars, linkVars, timerVars, outside, live
<1>2. CASE Begin
  <2>1. /\ thread = "begin" /\ thread' = "connecting" /\ live' = live
        /\ UNCHANGED <<at, mine, connected, socket, open, timer, due, stopping>>
    BY <1>2 DEF Begin, linkVars, timerVars, outside, live
  <2> QED
    BY <2>1 DEF ClientInv, ClientType, TimerInv, NotConnected, AloneInv, TallyInv,
                BeforeClose, BeforeNew, Half, Extra, WayBack
<1>3. CASE Fire
  BY <1>3, FireStep
<1>4. CASE ConnectFails
  BY <1>4, TimerRuns DEF ConnectFails, NotConnected, ClientInv, ClientType, outside
<1>5. CASE Named \/ Connected \/ Attach \/ SendNetCommandNew
  BY <1>5, ConnectStep
<1>6. CASE SocketEvent
  <2>1. PICK s \in live :
          \/ link[s] = "message" /\ thread' = "crashed" /\ UNCHANGED <<linkVars, timerVars>>
          \/ link' = [link EXCEPT ![s] = "idle"] /\ OnClose
          \/ link' = link /\ OnClose
    BY <1>6 DEF SocketEvent
  <2>2. thread = "loop" /\ stopping' = stopping
    BY <1>6 DEF SocketEvent, outside
  <2>3. CASE OnClose
    BY <2>1, <2>2, <2>3, CloseStarts DEF live, OnClose
  <2> QED
    BY <2>1, <2>2, <2>3, ClientCrashes
<1>7. CASE OnNetCommand
  <2>1. stopping' = stopping /\ thread = "loop"
    BY <1>7 DEF OnNetCommand, outside
  <2>2. CASE UNCHANGED <<thread, linkVars, timerVars>>
    BY <2>1, <2>2, ClientRests DEF linkVars, timerVars, live
  <2>3. CASE link' = link /\ OnClose
    BY <2>1, <2>3, CloseStarts DEF live
  <2> QED
    BY <1>7, <2>2, <2>3 DEF OnNetCommand
<1>8. CASE NetDisconnects
  BY <1>8, NetDisconnectStep
<1>9. CASE Restart
  BY <1>9, TimerRuns DEF Restart, NotConnected, outside
<1>10. CASE Tick
  BY <1>10, ClientRests DEF Tick, linkVars, outside, live
<1>11. CASE ServerStarts \/ ServerFails \/ FallSilent
  BY <1>11, ClientRests DEF ServerStarts, ServerFails, FallSilent, linkVars, timerVars, live
<1>12. CASE Stop
  BY <1>12, StopStep
<1>13. CASE MainDisconnects
  BY <1>13, MainDisconnectStep
<1>14. ASSUME NEW m, Send(m) PROVE ClientInv'
  BY <1>14, ClientRests DEF Send, linkVars, timerVars, outside, live
<1>15. ASSUME NEW what, PeerDoes(what) PROVE ClientInv'
  BY <1>15, ClientRests DEF PeerDoes, timerVars, outside, live
<1> QED
  BY <1>1, <1>2, <1>3, <1>4, <1>5, <1>6, <1>7, <1>8, <1>9, <1>10, <1>11, <1>12,
     <1>13, <1>14, <1>15
  DEF Next, NetThread, Environment

-----------------------------------------------------------------------------
(* The two logs. *)

LogTypes == {0, 1}
LogLine(t) == [from : {t}, level : Logs!Levels, day : Nat]

FilesType ==
  /\ loggers \in Seq([filter : Nat, sinks : Seq({"file"})]) /\ Len(loggers) \in {1, 2}
  /\ filter \in [LogTypes -> Logs!Levels]
  /\ inits \in [LogTypes -> Nat]
  /\ sink \in [LogTypes -> [path : {"none", "main", "net"}, actual : Nat, fp : Nat]]
  /\ pending \in [LogTypes -> Seq(LogLine(0) \cup LogLine(1))]
  /\ day \in 1 .. Days
  /\ last \in [line : LogLine(0) \cup LogLine(1), path : {"none", "main", "net"}, fp : Nat]
  /\ dropped \in [LogTypes -> Nat]

(* The main log takes the id of the net log only after its own, and both are
   taken when it has been initialised twice. *)
OwnId ==
  /\ logger_id \in {0, 1, 2}
  /\ logger_id = 1 => Len(loggers) = 1 \/ loggers[2] # Logs!Absent \/ inits[0] > 0
  /\ inits[0] > 0 => loggers[1] # Logs!Absent
  /\ inits[0] > 1 => Len(loggers) = 2 /\ loggers[2] # Logs!Absent

HasFile(t) == t < Len(loggers) /\ loggers[t + 1].sinks # << >>

(* A logger with a file has the filter and the file of the log its lines are
   for. *)
OwnFile ==
  \A t \in LogTypes : HasFile(t) =>
    /\ loggers[t + 1].filter = filter[Logs!Target(t)]
    /\ sink[t].path = Logs!Path(Logs!Target(t)) /\ sink[t].actual > 0

(* The lines on their way passed that filter, none is from tomorrow, and
   only a log that has a file has lines on their way or written. *)
LinesPassed ==
  /\ \A t \in LogTypes :
       /\ pending[t] # << >> => HasFile(t)
       /\ \A i \in 1 .. Len(pending[t]) :
            /\ pending[t][i].from = t
            /\ pending[t][i].level >= filter[Logs!Target(t)] /\ pending[t][i].day <= day
  /\ last.fp # 0 => HasFile(last.line.from)

(* The day in the file's name grows with every line that is dropped. *)
DropsDated ==
  \A t \in LogTypes : /\ sink[t].actual <= day
                      /\ dropped[t] > 0 => dropped[t] < sink[t].actual

FilesInv == /\ FilesType /\ OwnId /\ OwnFile /\ LinesPassed /\ DropsDated
            /\ Logs!Routed

(* As long as files open, the open file is the one of the name. *)
CalendarInv == (\A t \in LogTypes : sink[t].fp = sink[t].actual) /\ Calendar!NotInOlderFile

LEMMA LogsFacts ==
  /\ Logs!Types = LogTypes /\ Logs!Levels = {0, 3} /\ Calendar!Types = LogTypes
  /\ Calendar!Levels = {0, 3}
  /\ Logs!Path(0) = "main" /\ Logs!Path(1) = "net"
  /\ \A t \in LogTypes : Logs!Path(t) \in {"main", "net"} /\ Logs!Target(t) \in LogTypes
BY DEF Logs!Types, Logs!MAIN, Logs!NET, Logs!Levels, Logs!DEBUG, Logs!ERR, LogTypes,
       Calendar!Types, Calendar!MAIN, Calendar!NET, Calendar!Levels, Calendar!DEBUG,
       Calendar!ERR, Logs!Path, Logs!Target

(* Where the lines go changes with inits alone. *)
LEMMA TargetKept ==
  ASSUME inits' = inits
  PROVE  \A t : Logs!Target(t)' = Logs!Target(t) /\ Logs!Path(Logs!Target(t))' = Logs!Path(Logs!Target(t))
BY DEF Logs!Target, Logs!Path, Logs!MAIN

(* Whether fopen may fail is the one difference, and it can only add steps. *)
LEMMA CalendarIsLogs == ASSUME Calendar!Next PROVE Logs!Next
<1>1. CASE Calendar!Midnight
  BY <1>1 DEF Calendar!Midnight, Logs!Midnight, Logs!Next, Logs!tableVars, Calendar!tableVars
<1>2. ASSUME NEW t \in LogTypes, Calendar!InitLogger(t) PROVE Logs!InitLogger(t)
  BY <1>2 DEF Calendar!InitLogger, Logs!InitLogger, Calendar!MayRegister, Logs!MayRegister,
              Calendar!NextId, Logs!NextId, Calendar!Logger, Logs!Logger, Calendar!Path,
              Logs!Path, Calendar!Absent, Logs!Absent, Calendar!MAIN, Logs!MAIN
<1>3. ASSUME NEW t \in LogTypes, Calendar!WriteLine(t) PROVE Logs!WriteLine(t)
  BY <1>3 DEF Calendar!WriteLine, Logs!WriteLine, Calendar!IsCurrent, Logs!IsCurrent,
              Calendar!Write, Logs!Write, Calendar!OpenedSink, Logs!OpenedSink,
              Logs!tableVars, Calendar!tableVars
<1>4. ASSUME NEW t \in LogTypes, NEW level \in {0, 3}, Calendar!Log(t, level)
      PROVE  Logs!Log(t, level)
  BY <1>4 DEF Calendar!Log, Logs!Log, Calendar!HasLogger, Logs!HasLogger, Calendar!Passes,
              Logs!Passes, Calendar!Absent, Logs!Absent, Logs!tableVars, Calendar!tableVars
<1> QED
  BY <1>1, <1>2, <1>3, <1>4, LogsFacts DEF Calendar!Next, Logs!Next

LEMMA FilesStart ==
  ASSUME Logs!Init
  PROVE  FilesInv /\ CalendarInv
<1> USE LogsFacts, DaysAssumption
<1>1. PICK count \in {1, 2} : loggers = [i \in 1 .. count |-> Logs!Absent]
  BY DEF Logs!Init
<1>2. Logs!Absent \in [filter : Nat, sinks : Seq({"file"})]
  BY DEF Logs!Absent
<1>3. loggers \in Seq([filter : Nat, sinks : Seq({"file"})]) /\ Len(loggers) = count
  BY <1>1, <1>2
<1>4. \A t \in LogTypes : t < Len(loggers) => loggers[t + 1].sinks = << >>
  BY <1>1, <1>3 DEF Logs!Absent, LogTypes
<1>5. Logs!NoLine \in LogLine(0)
  BY DEF Logs!NoLine, LogLine, Logs!MAIN, Logs!ERR, Logs!Levels
<1>6. Logs!NoFile \in [path : {"none", "main", "net"}, actual : Nat, fp : Nat]
      /\ Logs!NoFile.actual = 0 /\ Logs!NoFile.fp = 0
  BY DEF Logs!NoFile
<1>7. pending \in [LogTypes -> Seq(LogLine(0) \cup LogLine(1))]
  BY DEF Logs!Init
<1>8. FilesType
  BY <1>3, <1>5, <1>6, <1>7 DEF FilesType, Logs!Init
<1>9. OwnId /\ OwnFile /\ DropsDated /\ Logs!Routed /\ CalendarInv
  BY <1>4, <1>6 DEF Logs!Init, OwnId, OwnFile, HasFile, DropsDated, Logs!Routed,
                    CalendarInv, Calendar!NotInOlderFile, LogTypes
<1>10. LinesPassed
  BY DEF Logs!Init, LinesPassed
<1> QED
  BY <1>8, <1>9, <1>10 DEF FilesInv

(* A line that is logged joins those that passed. *)
LEMMA FilesLog ==
  ASSUME FilesInv, NEW t \in LogTypes, NEW level \in {0, 3}, Logs!Log(t, level)
  PROVE  FilesInv'
<1> DEFINE new == [from |-> t, level |-> level, day |-> day]
<1>1. /\ pending' = [pending EXCEPT ![t] = Append(@, new)]
      /\ loggers' = loggers /\ logger_id' = logger_id /\ filter' = filter /\ inits' = inits
      /\ sink' = sink /\ day' = day /\ last' = last /\ dropped' = dropped
      /\ t < Len(loggers) /\ level >= loggers[t + 1].filter /\ loggers[t + 1].sinks # << >>
  BY DEF Logs!Log, Logs!HasLogger, Logs!Passes, Logs!tableVars
<1>2. new \in LogLine(0) \cup LogLine(1)
  BY LogsFacts DEF FilesInv, FilesType, LogLine, LogTypes
<1>3. pending \in [LogTypes -> Seq(LogLine(0) \cup LogLine(1))]
  BY DEF FilesInv, FilesType
<1>4. pending' \in [LogTypes -> Seq(LogLine(0) \cup LogLine(1))]
  BY <1>1, <1>2, <1>3
<1>5. FilesType'
  BY <1>1, <1>4 DEF FilesInv, FilesType
<1>6. HasFile(t) /\ loggers[t + 1].filter = filter[Logs!Target(t)]
  BY <1>1 DEF FilesInv, OwnFile, HasFile
<1>7. ASSUME NEW u \in LogTypes, NEW i \in 1 .. Len(pending'[u])
      PROVE  /\ pending'[u][i].from = u
             /\ pending'[u][i].level >= filter[Logs!Target(u)] /\ pending'[u][i].day <= day
  <2>1. CASE u = t /\ i = Len(pending[t]) + 1
    <3>1. pending'[u][i] = new
      BY <1>1, <1>3, <2>1
    <3>2. day \in Nat /\ new.from = t /\ new.level = level /\ new.day = day
      BY DEF FilesInv, FilesType
    <3> QED
      BY <1>1, <1>6, <2>1, <3>1, <3>2
  <2>2. CASE ~(u = t /\ i = Len(pending[t]) + 1)
    <3>1. i \in 1 .. Len(pending[u]) /\ pending'[u][i] = pending[u][i]
      BY <1>1, <1>3, <2>2
    <3> QED
      BY <3>1 DEF FilesInv, LinesPassed
  <2> QED
    BY <2>1, <2>2
<1>8. LinesPassed'
  <2>1. \A u \in LogTypes : pending'[u] # << >> => HasFile(u)
    BY <1>1, <1>3, <1>6 DEF FilesInv, LinesPassed
  <2>2. \A u : HasFile(u)' = HasFile(u) BY <1>1 DEF HasFile
  <2> QED BY <1>1, <1>7, <2>1, <2>2, TargetKept DEF FilesInv, LinesPassed
<1>9. (OwnId /\ OwnFile /\ DropsDated /\ Logs!Routed)'
  BY <1>1, TargetKept
  DEF FilesInv, OwnId, OwnFile, HasFile, DropsDated, Logs!Routed, Logs!Absent
<1> QED
  BY <1>5, <1>8, <1>9 DEF FilesInv

(* init registers a log under a free id, which becomes a way to its file. *)
LEMMA FilesInit ==
  ASSUME FilesInv, NEW t \in LogTypes, Logs!InitLogger(t)
  PROVE  FilesInv'
<1>1. filter' = filter /\ pending' = pending /\ day' = day /\ last' = last /\ dropped' = dropped
  BY DEF Logs!InitLogger
<1>2. PICK id \in {0, 1, 2} : id = IF t # 0 THEN t ELSE logger_id
  BY DEF FilesInv, OwnId, LogTypes
<1>3. (t = 1 => id = 1) /\ (t = 0 => id = logger_id)
  BY <1>2
<1>6. CASE /\ ~Logs!MayRegister(id)
           /\ logger_id' = id
           /\ loggers' = loggers /\ inits' = inits /\ sink' = sink
  <2>1. FilesType'
    BY <1>1, <1>6 DEF FilesInv, FilesType
  <2>2. OwnId'
    BY <1>2, <1>3, <1>6 DEF FilesInv, FilesType, OwnId, Logs!MayRegister, Logs!Absent
  <2>3. (OwnFile /\ DropsDated /\ LinesPassed /\ Logs!Routed)'
    BY <1>1, <1>6, TargetKept
    DEF FilesInv, OwnFile, HasFile, DropsDated, LinesPassed, Logs!Routed
  <2> QED
    BY <2>1, <2>2, <2>3 DEF FilesInv
<1>7. ASSUME Logs!MayRegister(id), NEW reg, NEW to \in {"file", "ok"},
             loggers' = [loggers EXCEPT ![id + 1] = reg],
             reg \in [filter : Nat, sinks : Seq({"file"})], reg # Logs!Absent,
             reg.filter = filter[t],
             inits' = IF to = "ok" THEN [inits EXCEPT ![t] = @ + 1] ELSE inits,
             logger_id' = IF to = "ok" THEN Logs!NextId(t, id) ELSE id,
             sink' = IF to = "ok"
                     THEN [sink EXCEPT ![id] = [path |-> Logs!Path(t), actual |-> day, fp |-> day]]
                     ELSE sink,
             reg.sinks # << >> => to = "ok"
      PROVE  FilesInv'
  <2>1. /\ id \in LogTypes /\ id < Len(loggers) /\ loggers[id + 1] = Logs!Absent
        /\ Len(loggers) \in {1, 2}
    <3>1. Len(loggers) \in {1, 2}
      BY DEF FilesInv, FilesType
    <3>2. id < Len(loggers) /\ loggers[id + 1] = Logs!Absent
      BY <1>7 DEF Logs!MayRegister
    <3> QED
      BY <1>2, <3>1, <3>2 DEF LogTypes
  <2>2. /\ Len(loggers') = Len(loggers)
        /\ loggers' \in Seq([filter : Nat, sinks : Seq({"file"})])
        /\ loggers'[id + 1] = reg
        /\ \A u \in LogTypes : u # id /\ u < Len(loggers) => loggers'[u + 1] = loggers[u + 1]
    <3> DEFINE R == [filter : Nat, sinks : Seq({"file"})]
    <3>1. loggers \in Seq(R) /\ id + 1 \in 1 .. Len(loggers) /\ reg \in R
      <4>1. loggers \in Seq(R) /\ reg \in R
        BY <1>7 DEF FilesInv, FilesType
      <4>2. id + 1 \in 1 .. Len(loggers)
        BY <2>1 DEF LogTypes
      <4> QED
        BY <4>1, <4>2
    <3>2. loggers' = [loggers EXCEPT ![id + 1] = reg]
      BY <1>7
    <3> HIDE DEF R
    <3>3. Len(loggers') = Len(loggers) /\ loggers' \in Seq(R) /\ loggers'[id + 1] = reg
      BY <3>1, <3>2
    <3>4. ASSUME NEW u \in LogTypes, u # id, u < Len(loggers)
          PROVE  loggers'[u + 1] = loggers[u + 1]
      BY <2>1, <3>1, <3>2, <3>4 DEF LogTypes
    <3> QED
      BY <3>3, <3>4 DEF R
  <2>3. /\ inits \in [LogTypes -> Nat] /\ inits' \in [LogTypes -> Nat]
        /\ inits'[0] = IF to = "ok" /\ t = 0 THEN inits[0] + 1 ELSE inits[0]
    <3>1. inits \in [LogTypes -> Nat] /\ 0 \in LogTypes
      BY DEF FilesInv, FilesType, LogTypes
    <3>2. CASE to = "ok"
      <4>1. inits' = [inits EXCEPT ![t] = @ + 1]
        BY <1>7, <3>2
      <4> QED
        BY <3>1, <3>2, <4>1
    <3>3. CASE to # "ok"
      <4>1. inits' = inits
        BY <1>7, <3>3
      <4> QED
        BY <3>1, <3>3, <4>1
    <3> QED
      BY <3>2, <3>3
  (* Of the two ids the main log takes its own first. *)
  <2>4. /\ inits[0] \in {0, 1} /\ (id = 0 => inits[0] = 0 /\ t = 0)
        /\ (id = 1 /\ t = 0 => inits[0] = 1)
    <3>1. inits[0] \in Nat BY <2>3 DEF LogTypes
    <3>2. id = 0 => inits[0] = 0 /\ t = 0 BY <1>2, <1>3, <2>1, <3>1 DEF FilesInv, OwnId, LogTypes
    <3>3. id = 1 => inits[0] \in {0, 1}
      BY <2>1, <3>1 DEF FilesInv, OwnId
    <3>4. id = 1 /\ t = 0 => inits[0] > 0 BY <1>3, <2>1 DEF FilesInv, OwnId
    <3> QED BY <2>1, <3>1, <3>2, <3>3, <3>4 DEF LogTypes
  <2>5. /\ \A u \in LogTypes : Logs!Target(u) = u
        /\ \A u \in LogTypes : u # id => Logs!Target(u)' = u
        /\ to = "ok" => Logs!Target(id)' = t
    <3>1. /\ \A u : Logs!Target(u) = IF inits[0] > 1 THEN 0 ELSE u
          /\ \A u : Logs!Target(u)' = IF inits'[0] > 1 THEN 0 ELSE u
      BY DEF Logs!Target, Logs!MAIN
    <3>2. inits'[0] > 1 => id = 1 /\ t = 0 /\ to = "ok"
      BY <2>1, <2>3, <2>4 DEF LogTypes
    <3>3. to = "ok" /\ id = 1 /\ t = 0 => inits'[0] > 1
      BY <2>3, <2>4
    <3>4. \A u \in LogTypes : Logs!Target(u) = u BY <2>4, <3>1
    <3>5. ASSUME NEW u \in LogTypes, u # id PROVE Logs!Target(u)' = u
      BY <3>1, <3>2, <3>5 DEF LogTypes
    <3>6. ASSUME to = "ok" PROVE Logs!Target(id)' = t
      <4>1. t \in {0, 1} /\ id \in {0, 1} BY <2>1 DEF LogTypes
      <4>2. t = 1 => id = 1 BY <1>3
      <4> QED BY <2>4, <3>1, <3>2, <3>3, <3>6, <4>1, <4>2
    <3> QED BY <3>4, <3>5, <3>6
  <2>6. ~HasFile(id) /\ \A u \in LogTypes : u # id => HasFile(u)' = HasFile(u)
    <3>1. ~HasFile(id)
      BY <2>1 DEF HasFile, Logs!Absent
    <3>2. ASSUME NEW u \in LogTypes, u # id PROVE HasFile(u)' = HasFile(u)
      <4>1. CASE u < Len(loggers)
        BY <2>2, <3>2, <4>1 DEF HasFile
      <4>2. CASE ~(u < Len(loggers))
        BY <2>2, <4>2 DEF HasFile
      <4> QED
        BY <4>1, <4>2
    <3> QED
      BY <3>1, <3>2
  <2>7. HasFile(id)' => to = "ok"
    BY <1>7, <2>2 DEF HasFile
  <2>8. [path |-> Logs!Path(t), actual |-> day, fp |-> day]
          \in [path : {"none", "main", "net"}, actual : Nat, fp : Nat]
    BY DEF Logs!Path, FilesInv, FilesType
  <2>9. /\ sink' \in [LogTypes -> [path : {"none", "main", "net"}, actual : Nat, fp : Nat]]
        /\ \A u \in LogTypes : u # id \/ to # "ok" => sink'[u] = sink[u]
        /\ to = "ok" => sink'[id].path = Logs!Path(t) /\ sink'[id].actual = day
    BY <1>7, <2>1, <2>8 DEF FilesInv, FilesType
  <2>10. day \in Nat \ {0}
    BY DEF FilesInv, FilesType
  <2>11. FilesType'
    BY <1>1, <2>2, <2>3, <2>9 DEF FilesInv, FilesType
  <2>12. OwnId'
    <3>1. logger_id' \in {0, 1, 2} /\ (logger_id' = 1 => id = 1 \/ inits'[0] > 0)
      BY <1>7, <2>1, <2>3, <2>4 DEF Logs!NextId, Logs!MAIN, LogTypes
    <3>2. id = 1 => Len(loggers') = 2 /\ loggers'[2] # Logs!Absent
      BY <1>7, <2>1, <2>2
    <3>3. inits'[0] > 0 => loggers'[1] # Logs!Absent
      <4>1. CASE id = 0 BY <1>7, <2>2, <4>1
      <4>2. CASE id = 1
        <5>1. loggers'[1] = loggers[1] BY <2>1, <2>2, <4>2 DEF LogTypes
        <5> QED BY <2>3, <2>4, <4>2, <5>1 DEF FilesInv, OwnId
      <4> QED BY <2>1, <4>1, <4>2 DEF LogTypes
    <3>4. inits'[0] > 1 => id = 1 BY <2>1, <2>3, <2>4 DEF LogTypes
    <3> QED BY <3>1, <3>2, <3>3, <3>4 DEF OwnId, Logs!Absent
  <2>13. OwnFile'
    <3> SUFFICES ASSUME NEW u \in LogTypes, HasFile(u)'
                 PROVE  /\ loggers'[u + 1].filter = filter'[Logs!Target(u)']
                        /\ sink'[u].path = Logs!Path(Logs!Target(u)') /\ sink'[u].actual > 0
      BY DEF OwnFile, Logs!Path, Logs!MAIN
    <3>1. CASE u = id
      BY <1>1, <1>7, <2>2, <2>5, <2>7, <2>9, <2>10, <3>1
    <3>2. CASE u # id
      <4>1. HasFile(u) /\ u < Len(loggers) BY <2>6, <2>2, <3>2 DEF HasFile
      <4>2. loggers'[u + 1] = loggers[u + 1] /\ sink'[u] = sink[u] BY <2>2, <2>9, <3>2, <4>1
      <4> QED BY <1>1, <2>5, <3>2, <4>1, <4>2 DEF FilesInv, OwnFile
    <3> QED
      BY <3>1, <3>2
  <2>14. LinesPassed'
    <3>1. ASSUME NEW u \in LogTypes
          PROVE  /\ pending[u] # << >> => HasFile(u)'
                 /\ \A i \in 1 .. Len(pending[u]) :
                      /\ pending[u][i].from = u
                      /\ pending[u][i].level >= filter[Logs!Target(u)'] /\ pending[u][i].day <= day
      <4>1. CASE u = id
        <5>1. pending[u] = << >> BY <2>6, <4>1 DEF FilesInv, LinesPassed
        <5> QED BY <5>1
      <4>2. CASE u # id
        BY <2>5, <2>6, <4>2 DEF FilesInv, LinesPassed
      <4> QED BY <4>1, <4>2
    <3>2. ASSUME last.fp # 0 PROVE HasFile(last.line.from)'
      <4>1. PICK u \in LogTypes : u = last.line.from
        BY DEF FilesInv, FilesType, LogLine, LogTypes
      <4>2. HasFile(u) /\ u # id
        BY <2>6, <3>2, <4>1 DEF FilesInv, LinesPassed
      <4>3. HasFile(u)'
        BY <2>6, <4>1, <4>2
      <4> QED BY <1>1, <4>1, <4>3 DEF HasFile
    <3>3. \A u : HasFile(u)' <=> (u < Len(loggers') /\ loggers'[u + 1].sinks # << >>)
      BY DEF HasFile
    <3> QED
      BY <1>1, <3>1, <3>2, <3>3 DEF LinesPassed, HasFile
  <2>15. Logs!Routed'
    <3>1. PICK u \in LogTypes : u = last.line.from
      BY DEF FilesInv, FilesType, LogLine, LogTypes
    <3> SUFFICES ASSUME last.fp # 0
                 PROVE  /\ last.path = Logs!Path(Logs!Target(u)')
                        /\ last.line.level >= filter[Logs!Target(u)']
      BY <1>1, <3>1 DEF Logs!Routed, Logs!Path, Logs!MAIN, Logs!Target
    <3>2. u # id BY <2>6, <3>1 DEF FilesInv, LinesPassed
    <3>3. Logs!Target(u) = u /\ Logs!Target(u)' = u BY <2>5, <3>2
    <3> QED BY <3>1, <3>3 DEF FilesInv, Logs!Routed
  <2>16. DropsDated'
    <3> SUFFICES ASSUME NEW u \in LogTypes
                 PROVE  /\ sink'[u].actual <= day
                        /\ dropped[u] > 0 => dropped[u] < sink'[u].actual
      BY <1>1 DEF DropsDated
    <3>1. CASE u # id \/ to # "ok"
      BY <2>9, <3>1 DEF FilesInv, DropsDated
    <3>2. CASE u = id /\ to = "ok"
      <4>1. dropped[u] \in Nat /\ sink[u].actual \in Nat
        BY DEF FilesInv, FilesType
      <4>2. sink[u].actual <= day /\ (dropped[u] > 0 => dropped[u] < sink[u].actual)
        BY DEF FilesInv, DropsDated
      <4> QED
        BY <2>9, <2>10, <3>2, <4>1, <4>2
    <3> QED
      BY <3>1, <3>2
  <2> QED
    BY <2>11, <2>12, <2>13, <2>14, <2>15, <2>16 DEF FilesInv
<1>8. /\ Logs!Logger(filter[t]) \in [filter : Nat, sinks : Seq({"file"})]
      /\ Logs!Logger(filter[t]) # Logs!Absent
      /\ Logs!Logger(filter[t]).filter = filter[t] /\ Logs!Logger(filter[t]).sinks = << >>
  <2>1. filter[t] \in {0, 3}
    BY LogsFacts DEF FilesInv, FilesType
  <2>2. filter[t] # 4 /\ filter[t] \in Nat
    BY <2>1
  <2> QED
    BY <2>2 DEF Logs!Logger, Logs!Absent
<1>9. CASE /\ Logs!MayRegister(id)
           /\ logger_id' = id
           /\ inits' = inits
           /\ loggers' = [loggers EXCEPT ![id + 1] = Logs!Logger(filter[t])]
           /\ sink' = sink
  BY <1>7, <1>8, <1>9
<1> DEFINE full == [Logs!Logger(filter[t]) EXCEPT !.sinks = <<"file">>]
<1>10. CASE /\ Logs!MayRegister(id)
            /\ logger_id' = Logs!NextId(t, id)
            /\ inits' = [inits EXCEPT ![t] = @ + 1]
            /\ loggers' = [loggers EXCEPT ![id + 1] = full]
            /\ sink' = [sink EXCEPT ![id] = [path |-> Logs!Path(t), actual |-> day, fp |-> day]]
  <2>1. full \in [filter : Nat, sinks : Seq({"file"})] /\ full.filter = filter[t]
    <3>0. filter \in [LogTypes -> {0, 3}]
      BY LogsFacts DEF FilesInv, FilesType
    <3>1. filter[t] \in Nat
      BY <3>0
    <3>3. <<"file">> \in Seq({"file"})
      OBVIOUS
    <3>2. full = [filter |-> filter[t], sinks |-> <<"file">>]
      BY DEF Logs!Logger
    <3> QED
      BY <3>1, <3>2, <3>3
  <2>2. full.filter # Logs!Absent.filter
    <3>1. filter[t] \in {0, 3}
      BY LogsFacts DEF FilesInv, FilesType
    <3> QED
      BY <2>1, <3>1 DEF Logs!Absent
  <2>3. full # Logs!Absent
    BY <2>2
  <2> HIDE DEF full
  <2> QED
    BY <1>7, <1>10, <2>1, <2>3
<1> QED
  BY <1>2, <1>6, <1>9, <1>10 DEF Logs!InitLogger

(* A line that leaves the queue of a log reaches the file of that log, or is
   the one that is dropped that day. *)
LEMMA FilesWrite ==
  ASSUME FilesInv, NEW t \in LogTypes, Logs!WriteLine(t)
  PROVE  FilesInv'
<1> DEFINE Line == LogLine(0) \cup LogLine(1)
           File == [path : {"none", "main", "net"}, actual : Nat, fp : Nat]
<1>1. /\ pending[t] # << >>
      /\ pending' = [pending EXCEPT ![t] = Tail(@)]
      /\ loggers' = loggers /\ logger_id' = logger_id /\ filter' = filter /\ inits' = inits
      /\ day' = day
  BY DEF Logs!WriteLine, Logs!tableVars
<1>2. pending \in [LogTypes -> Seq(Line)] /\ sink \in [LogTypes -> File]
      /\ day \in Nat \ {0} /\ dropped \in [LogTypes -> Nat]
  BY DEF FilesInv, FilesType
<1> DEFINE path == Logs!Path(Logs!Target(t))
<1>3. /\ HasFile(t) /\ \A u : HasFile(u)' = HasFile(u)
      /\ sink[t].path = path /\ sink[t].actual > 0 /\ sink[t].actual <= day
      /\ dropped[t] > 0 => dropped[t] < sink[t].actual
      /\ \A u \in LogTypes : sink[u].actual <= day
  BY <1>1 DEF FilesInv, LinesPassed, DropsDated, OwnFile, HasFile
<1>4. /\ Tail(pending[t]) \in Seq(Line) /\ Head(pending[t]) \in Line
      /\ Head(pending[t]) = pending[t][1] /\ 1 \in 1 .. Len(pending[t])
      /\ Len(Tail(pending[t])) = Len(pending[t]) - 1
      /\ \A i \in 1 .. Len(pending[t]) - 1 : Tail(pending[t])[i] = pending[t][i + 1]
  <2> HIDE DEF Line
  <2>1. pending[t] \in Seq(Line)
    BY <1>2
  <2> QED
    BY <1>1, <2>1
<1> HIDE DEF Line
<1>5. pending' \in [LogTypes -> Seq(Line)]
  BY <1>1, <1>2, <1>4
<1>6. /\ Head(pending[t]).from = t
      /\ Head(pending[t]).level >= filter[Logs!Target(t)]
  BY <1>4 DEF FilesInv, LinesPassed
<1>7. \A u \in LogTypes : \A i \in 1 .. Len(pending'[u]) :
        /\ pending'[u][i].from = u
        /\ pending'[u][i].level >= filter[Logs!Target(u)] /\ pending'[u][i].day <= day
  <2>3. \A u \in LogTypes : \A j \in 1 .. Len(pending[u]) :
          /\ pending[u][j].from = u
          /\ pending[u][j].level >= filter[Logs!Target(u)] /\ pending[u][j].day <= day
    BY DEF FilesInv, LinesPassed
  <2> SUFFICES ASSUME NEW u \in LogTypes, NEW i \in 1 .. Len(pending'[u])
               PROVE  \E j \in 1 .. Len(pending[u]) : pending'[u][i] = pending[u][j]
    BY <2>3
  <2>1. CASE u = t
    <3>1. pending'[u] = Tail(pending[t]) /\ Len(pending[t]) \in Nat
      BY <1>1, <1>2, <2>1
    <3>2. i \in 1 .. Len(pending[t]) - 1 /\ i + 1 \in 1 .. Len(pending[t])
      BY <1>4, <3>1
    <3> QED
      BY <1>4, <2>1, <3>1, <3>2
  <2>2. CASE u # t
    BY <1>1, <1>2, <2>2
  <2> QED
    BY <2>1, <2>2
<1>8. ASSUME NEW now \in File, sink' = [sink EXCEPT ![t] = now],
             now.path = path, now.actual = day,
             \/ last' = [line |-> Head(pending[t]), path |-> now.path, fp |-> now.fp]
                /\ dropped' = dropped
             \/ last' = last /\ dropped' = [dropped EXCEPT ![t] = @ + 1]
                /\ sink[t].actual # day
      PROVE  FilesInv'
  <2>1. sink' \in [LogTypes -> File] /\ sink'[t] = now
        /\ \A u \in LogTypes : u # t => sink'[u] = sink[u]
    BY <1>2, <1>8
  <2>2. now.path \in {"none", "main", "net"} /\ now.fp \in Nat
    OBVIOUS
  <2>3. last' \in [line : Line, path : {"none", "main", "net"}, fp : Nat]
    BY <1>4, <1>8, <2>2 DEF FilesInv, FilesType, Line
  <2>4. dropped' \in [LogTypes -> Nat]
    <3>1. dropped' = dropped \/ dropped' = [dropped EXCEPT ![t] = @ + 1]
      BY <1>8
    <3>2. dropped[t] + 1 \in Nat
      BY <1>2
    <3> QED
      BY <1>2, <3>1, <3>2
  <2>5. FilesType'
    BY <1>1, <1>5, <2>1, <2>3, <2>4 DEF FilesInv, FilesType, Line
  <2>6. OwnId'
    BY <1>1 DEF FilesInv, OwnId, Logs!Absent
  <2>7. OwnFile'
    <3> SUFFICES ASSUME NEW u \in LogTypes, HasFile(u)
                 PROVE  /\ loggers[u + 1].filter = filter[Logs!Target(u)]
                        /\ sink'[u].path = Logs!Path(Logs!Target(u)) /\ sink'[u].actual > 0
      BY <1>1, <1>3, TargetKept DEF OwnFile
    <3>1. CASE u = t
      BY <1>2, <1>8, <2>1, <3>1 DEF FilesInv, OwnFile
    <3>2. CASE u # t
      BY <2>1, <3>2 DEF FilesInv, OwnFile
    <3> QED
      BY <3>1, <3>2
  <2>8. LinesPassed'
    <3>1. ASSUME NEW u \in LogTypes, pending'[u] # << >> PROVE HasFile(u)
      <4>1. CASE u = t
        BY <1>3, <4>1
      <4>2. CASE u # t
        <5>1. pending'[u] = pending[u]
          BY <1>1, <1>2, <4>2
        <5> QED
          BY <3>1, <5>1 DEF FilesInv, LinesPassed
      <4> QED
        BY <4>1, <4>2
    <3>2. ASSUME last'.fp # 0 PROVE HasFile(last'.line.from)
      <4>1. CASE last' = last BY <3>2, <4>1 DEF FilesInv, LinesPassed
      <4>2. CASE last' = [line |-> Head(pending[t]), path |-> now.path, fp |-> now.fp]
        BY <1>3, <1>6, <4>2
      <4> QED BY <1>8, <4>1, <4>2
    <3>3. \A u \in LogTypes : pending'[u] # << >> => HasFile(u)'
      BY <1>3, <3>1
    <3>4. last'.fp # 0 => HasFile(last.line.from)'
      BY <1>1, <3>2 DEF HasFile
    <3>5. \A u \in LogTypes : \A i \in 1 .. Len(pending'[u]) :
            /\ pending'[u][i].from = u
            /\ pending'[u][i].level >= filter'[Logs!Target(u)'] /\ pending'[u][i].day <= day'
      <4>1. filter' = filter /\ day' = day
        BY <1>1
      <4>2. \A u \in LogTypes : Logs!Target(u)' = Logs!Target(u)
        BY <1>1, TargetKept
      <4> QED
        BY <1>7, <4>1, <4>2
    <3> QED
      BY <3>3, <3>4, <3>5 DEF LinesPassed
  <2>9. DropsDated'
    <3> SUFFICES ASSUME NEW u \in LogTypes
                 PROVE  /\ sink'[u].actual <= day
                        /\ dropped'[u] > 0 => dropped'[u] < sink'[u].actual
      BY <1>1 DEF DropsDated
    <3>1. CASE u # t
      <4>1. dropped'[u] = dropped[u]
        BY <1>2, <1>8, <3>1
      <4> QED
        BY <2>1, <3>1, <4>1 DEF FilesInv, DropsDated
    <3>2. CASE u = t
      <4>1. sink'[u].actual = day
        BY <1>8, <2>1, <3>2
      <4>2. sink[t].actual \in Nat /\ dropped[t] \in Nat
        BY <1>2
      <4>3. dropped'[t] = dropped[t] \/ (dropped'[t] = dropped[t] + 1 /\ sink[t].actual # day)
        BY <1>2, <1>8
      <4>4. dropped'[t] > 0 => dropped'[t] < day
        BY <1>2, <1>3, <4>2, <4>3
      <4> QED
        BY <1>2, <3>2, <4>1, <4>4
    <3> QED
      BY <3>1, <3>2
  <2>10. Logs!Routed'
    <3>1. CASE last' = last
      BY <1>1, <3>1, TargetKept DEF FilesInv, Logs!Routed
    <3>2. CASE last' = [line |-> Head(pending[t]), path |-> now.path, fp |-> now.fp]
      BY <1>1, <1>6, <1>8, <3>2, TargetKept DEF Logs!Routed
    <3> QED
      BY <1>8, <3>1, <3>2
  <2> QED
    BY <2>5, <2>6, <2>7, <2>8, <2>9, <2>10 DEF FilesInv
<1>9. sink[t] \in File
  BY <1>2
<1>10. /\ Logs!OpenedSink(t) \in File /\ Logs!MissedSink(t) \in File
       /\ Logs!OpenedSink(t).path = path /\ Logs!MissedSink(t).path = path
       /\ Logs!OpenedSink(t).actual = day /\ Logs!MissedSink(t).actual = day
  BY <1>2, <1>3, <1>9 DEF Logs!OpenedSink, Logs!MissedSink
<1>11. CASE Logs!IsCurrent(t) /\ Logs!Write(t, sink[t])
  BY <1>3, <1>8, <1>9, <1>11 DEF Logs!IsCurrent, Logs!Write
<1>12. CASE ~Logs!IsCurrent(t) /\ Logs!Write(t, Logs!OpenedSink(t))
  BY <1>8, <1>10, <1>12 DEF Logs!Write
<1>13. CASE /\ ~Logs!IsCurrent(t)
            /\ sink' = [sink EXCEPT ![t] = Logs!MissedSink(t)]
            /\ dropped' = [dropped EXCEPT ![t] = @ + 1]
            /\ last' = last
  BY <1>8, <1>10, <1>13 DEF Logs!IsCurrent
<1> QED
  BY <1>11, <1>12, <1>13 DEF Logs!WriteLine

LEMMA FilesStep == ASSUME FilesInv, [Logs!Next \/ Calendar!Next]_logVars PROVE FilesInv'
<1>1. CASE UNCHANGED logVars
  BY <1>1, TargetKept DEF logVars, FilesInv, FilesType, OwnId, OwnFile, HasFile, LinesPassed,
                          DropsDated, Logs!Routed, Logs!Absent
<1>2. CASE Logs!Midnight
  <2>1. /\ day < Days /\ day' = day + 1
        /\ loggers' = loggers /\ logger_id' = logger_id /\ filter' = filter /\ inits' = inits
        /\ sink' = sink /\ pending' = pending /\ last' = last /\ dropped' = dropped
    BY <1>2 DEF Logs!Midnight, Logs!tableVars
  <2>2. FilesType'
    BY <2>1, DaysAssumption DEF FilesInv, FilesType
  <2>3. (OwnId /\ OwnFile /\ Logs!Routed)'
    BY <2>1, TargetKept DEF FilesInv, OwnId, OwnFile, HasFile, Logs!Routed, Logs!Absent
  <2>4. \A t \in LogTypes : sink[t].actual <= day' /\ sink[t].actual \in Nat
    BY <2>1 DEF FilesInv, FilesType, DropsDated
  <2>5. DropsDated'
    BY <2>1, <2>4 DEF FilesInv, DropsDated
  <2>6. \A t \in LogTypes : \A i \in 1 .. Len(pending[t]) : pending[t][i].day <= day'
    <3> SUFFICES ASSUME NEW t \in LogTypes, NEW i \in 1 .. Len(pending[t])
                 PROVE  pending[t][i].day <= day'
      OBVIOUS
    <3>1. pending[t] \in Seq(LogLine(0) \cup LogLine(1)) /\ day \in Nat
      BY DEF FilesInv, FilesType
    <3>2. pending[t][i] \in LogLine(0) \cup LogLine(1)
      BY <3>1
    <3>3. pending[t][i].day \in Nat
      BY <3>2 DEF LogLine
    <3>4. pending[t][i].day <= day
      BY DEF FilesInv, LinesPassed
    <3> QED
      BY <2>1, <3>1, <3>3, <3>4
  <2>7. LinesPassed'
    BY <2>1, <2>6, TargetKept DEF FilesInv, LinesPassed, HasFile
  <2> QED
    BY <2>2, <2>3, <2>5, <2>7 DEF FilesInv
<1>3. CASE Logs!Next
  BY <1>2, <1>3, FilesInit, FilesLog, FilesWrite, LogsFacts DEF Logs!Next
<1>4. CASE Calendar!Next
  BY <1>3, <1>4, CalendarIsLogs
<1> QED
  BY <1>1, <1>3, <1>4

LEMMA CalendarStep ==
  ASSUME FilesInv, CalendarInv, [Calendar!Next]_logVars
  PROVE  CalendarInv'
<1> USE LogsFacts DEF CalendarInv
<1>1. CASE UNCHANGED logVars
  BY <1>1 DEF logVars, Calendar!NotInOlderFile
<1>2. CASE Calendar!Midnight
  BY <1>2 DEF Calendar!Midnight, Calendar!NotInOlderFile
<1>3. ASSUME NEW t \in LogTypes, Calendar!InitLogger(t) PROVE CalendarInv'
  <2>1. last' = last
    BY <1>3 DEF Calendar!InitLogger
  <2>2. sink \in [LogTypes -> [path : {"none", "main", "net"}, actual : Nat, fp : Nat]]
    BY DEF FilesInv, FilesType
  <2>3. sink' = sink \/ \E id, p : sink' = [sink EXCEPT ![id] =
                                             [path |-> p, actual |-> day, fp |-> day]]
    BY <1>3 DEF Calendar!InitLogger
  <2>4. \A u \in LogTypes : sink'[u].fp = sink'[u].actual
    BY <2>2, <2>3
  <2> QED
    BY <2>1, <2>4 DEF Calendar!NotInOlderFile
<1>4. ASSUME NEW t \in LogTypes, NEW level \in {0, 3}, Calendar!Log(t, level)
      PROVE  CalendarInv'
  BY <1>4 DEF Calendar!Log, Calendar!NotInOlderFile
<1>5. ASSUME NEW t \in LogTypes, Calendar!WriteLine(t) PROVE CalendarInv'
  <2>1. sink \in [LogTypes -> [path : {"none", "main", "net"}, actual : Nat, fp : Nat]]
        /\ day \in Nat
    BY DEF FilesInv, FilesType
  <2>2. pending[t] # << >> /\ pending[t] \in Seq(LogLine(0) \cup LogLine(1))
    BY <1>5 DEF Calendar!WriteLine, FilesInv, FilesType
  <2>3. Head(pending[t]) = pending[t][1] /\ 1 \in 1 .. Len(pending[t])
    BY <2>2
  <2>4. Head(pending[t]).day <= day
    BY <2>3 DEF FilesInv, LinesPassed
  <2>5. PICK now : /\ now.fp = day /\ now.actual = day
                   /\ sink' = [sink EXCEPT ![t] = now]
                   /\ last' = [line |-> Head(pending[t]), path |-> now.path, fp |-> now.fp]
    <3>1. CASE Calendar!IsCurrent(t) /\ Calendar!Write(t, sink[t])
      BY <3>1 DEF Calendar!IsCurrent, Calendar!Write
    <3>2. CASE Calendar!Write(t, Calendar!OpenedSink(t))
      <4>1. Calendar!OpenedSink(t).fp = day /\ Calendar!OpenedSink(t).actual = day
        BY <2>1 DEF Calendar!OpenedSink
      <4> QED
        BY <3>2, <4>1 DEF Calendar!Write
    <3> QED
      BY <1>5, <3>1, <3>2 DEF Calendar!WriteLine
  <2>6. \A u \in LogTypes : sink'[u].fp = sink'[u].actual
    BY <2>1, <2>5
  <2>7. last'.fp >= last'.line.day
    BY <2>1, <2>4, <2>5
  <2> QED
    BY <2>6, <2>7 DEF Calendar!NotInOlderFile
<1> QED
  BY <1>1, <1>2, <1>3, <1>4, <1>5 DEF Calendar!Next

LEMMA FilesAreRouted == FilesInv /\ (part = "calendar" => CalendarInv) => LinesRouted
<1> SUFFICES ASSUME FilesInv PROVE Logs!FewDropped
  BY DEF LinesRouted, FilesInv, CalendarInv
<1>1. ASSUME NEW t \in LogTypes PROVE dropped[t] < Days
  <2>1. dropped[t] \in Nat /\ sink[t].actual \in Nat /\ day \in Nat /\ day <= Days
        /\ Days \in Nat \ {0}
    BY DaysAssumption DEF FilesInv, FilesType
  <2>2. sink[t].actual <= day /\ (dropped[t] > 0 => dropped[t] < sink[t].actual)
    BY DEF FilesInv, DropsDated
  <2> QED
    BY <2>1, <2>2
<1> QED
  BY <1>1, LogsFacts DEF Logs!FewDropped

-----------------------------------------------------------------------------
(* The descriptors. *)

FdType ==
  /\ fds \subseteq Table!Fds
  /\ held \in [Table!Slots -> Table!Fds \cup {Invalid}]
  /\ step \in 1 .. 7
  /\ backlog \subseteq Peers

(* What the main thread has yet to create, and a peer that waits to be
   accepted, hold nothing: creating them loses no descriptor. *)
PlannedAreEmpty ==
  \A i \in step .. 6 : i > step \/ Table!Plan[i] \notin creating =>
    /\ held[Table!Plan[i]] = Invalid
    /\ Table!Plan[i] \in Table!Queues => held[Table!WriteEnd(Table!Plan[i])] = Invalid

WaitingAreEmpty == \A p \in backlog : held[p] = Invalid

FdInv == FdType /\ (init = "none" => PlannedAreEmpty) /\ WaitingAreEmpty /\ Table!Owned

(* A set of naturals that is not empty has a least element. *)
LEMMA LeastExists ==
  ASSUME NEW S, S \subseteq Nat, S # {}
  PROVE  \E x \in S : \A y \in S : x <= y
<1> DEFINE R == {ss \in Nat \X Nat : ss[1] < ss[2]}
<1>1. IsWellFoundedOn(R, Nat)
  BY NatLessThanWellFounded, Zenon DEF OpToRel
<1> HIDE DEF R
<1>2. PICK x \in S : \A y \in S : ~(<<y, x>> \in R)
  BY <1>1, WFMin
<1>3. \A y \in S : ~(y < x)
  BY <1>2 DEF R
<1> QED
  BY <1>3

LEMMA TableCardinality ==
  ASSUME NEW S
  PROVE  Table!Cardinality(S) = Cardinality(S)
BY DEF Table!Cardinality, Cardinality

(* The descriptor the kernel gives is one that was free. *)
LEMMA LowestIsFree ==
  ASSUME NEW S, S \subseteq Table!Fds, S # {}
  PROVE  Table!Lowest(S) \in S
<1>1. S \subseteq Nat
  BY FdsAssumption DEF Table!Fds
<1>2. \E x \in S : \A y \in S : x <= y
  BY <1>1, LeastExists
<1> QED
  BY <1>2 DEF Table!Lowest, Table!Min

LEMMA SlotFacts ==
  /\ Table!Plan[1] = "listen" /\ Table!Plan[2] = "acceptor" /\ Table!Plan[3] = "service"
  /\ Table!Plan[4] = "main_queue" /\ Table!Plan[5] = "reactor" /\ Table!Plan[6] = "queue"
  /\ Len(Table!Plan) = 6
  /\ Table!Queues = {"main_queue", "queue"}
  /\ Table!WriteEnd("queue") = "queue_write"
  /\ Table!WriteEnd("main_queue") = "main_queue_write"
  /\ Table!Fixtures = {"listen", "client", "acceptor", "service", "reactor", "main_queue",
                       "queue", "main_queue_write", "queue_write"}
  /\ Table!Slots = Table!Fixtures \cup Peers
  /\ Peers \cap Table!Fixtures = {}
  /\ Invalid \notin Table!Fds
BY FdsAssumption
DEF Table!Plan, Table!Queues, Table!WriteEnd, Table!Fixtures, Table!Slots, Table!Epolls,
    Table!Fds

(* Owned, of any table o and any map g from slots to descriptors. *)
Holds(o, g) ==
  /\ {g[s] : s \in Table!Slots} \ {Invalid} = o
  /\ \A s, t \in Table!Slots : g[s] = g[t] /\ s # t => g[s] = Invalid

LEMMA OwnedIsHolds == /\ Table!Owned <=> Holds(fds, held)
                      /\ Table!Owned' <=> Holds(fds', held')
BY DEF Table!Owned, Holds, Table!Slots, Table!Fixtures, Table!Epolls, Table!Queues,
       Table!WriteEnd

(* A slot that holds nothing is given a descriptor that was free. *)
LEMMA Given ==
  ASSUME NEW o \in SUBSET Table!Fds, NEW g \in [Table!Slots -> Table!Fds \cup {Invalid}],
         Holds(o, g), NEW s \in Table!Slots, g[s] = Invalid, NEW f \in Table!Fds \ o
  PROVE  Holds(o \cup {f}, [g EXCEPT ![s] = f])
<1> DEFINE h == [g EXCEPT ![s] = f]
<1>1. /\ {g[r] : r \in Table!Slots} \ {Invalid} = o
      /\ \A r, t \in Table!Slots : g[r] = g[t] /\ r # t => g[r] = Invalid
  BY DEF Holds
<1>2. f # Invalid
  BY SlotFacts
<1>3. h[s] = f /\ \A r \in Table!Slots : r # s => h[r] = g[r]
  OBVIOUS
<1> HIDE DEF h
<1>4. \A r \in Table!Slots : g[r] # f
  BY <1>1, <1>2
<1>5. \A r, t \in Table!Slots : h[r] = h[t] /\ r # t => h[r] = Invalid
  BY <1>1, <1>3, <1>4
<1>6. ASSUME NEW x PROVE x \in {h[r] : r \in Table!Slots} \ {Invalid} <=> x \in o \cup {f}
  <2>1. CASE x = f
    BY <1>2, <1>3, <2>1
  <2>2. CASE x # f
    <3>1. x \in o <=> x # Invalid /\ \E r \in Table!Slots : x = g[r]
      BY <1>1
    <3>2. x # Invalid => ((\E r \in Table!Slots : x = g[r]) <=> \E r \in Table!Slots : x = h[r])
      BY <1>3, <2>2
    <3> QED
      BY <2>2, <3>1, <3>2
  <2> QED
    BY <2>1, <2>2
<1> QED
  BY <1>5, <1>6 DEF Holds, h

(* Closing takes from the kernel what the slot alone held, if anything. *)
LEMMA OwnedClosed ==
  ASSUME FdType, Table!Owned, NEW s \in Table!Slots, Table!Close(s)
  PROVE  /\ fds' \subseteq Table!Fds
         /\ held' \in [Table!Slots -> Table!Fds \cup {Invalid}]
         /\ Table!Owned'
         /\ \A r \in Table!Slots : held[r] = Invalid => held'[r] = Invalid
<1>1. /\ {held[r] : r \in Table!Slots} \ {Invalid} = fds
      /\ \A r, t \in Table!Slots : held[r] = held[t] /\ r # t => held[r] = Invalid
      /\ held \in [Table!Slots -> Table!Fds \cup {Invalid}]
      /\ fds \subseteq Table!Fds
  BY DEF Table!Owned, FdType
<1>2. fds' = fds \ {held[s]} /\ held' = [held EXCEPT ![s] = Invalid]
  BY DEF Table!Close
<1>3. held'[s] = Invalid /\ \A r \in Table!Slots : r # s => held'[r] = held[r]
  BY <1>1, <1>2
<1>4. \A r, t \in Table!Slots : held'[r] = held'[t] /\ r # t => held'[r] = Invalid
  BY <1>1, <1>3
<1>5. ASSUME NEW x PROVE x \in {held'[r] : r \in Table!Slots} \ {Invalid} <=> x \in fds'
  <2>1. x \in fds <=> x # Invalid /\ \E r \in Table!Slots : x = held[r]
    BY <1>1
  <2>2. x \in fds' <=> x # Invalid /\ \E r \in Table!Slots : x = held[r] /\ x # held[s]
    BY <1>2, <2>1
  <2>3. x # Invalid => \A r \in Table!Slots : (x = held[r] /\ x # held[s]) <=> x = held'[r]
    BY <1>1, <1>3
  <2> QED
    BY <2>2, <2>3
<1>6. {held'[r] : r \in Table!Slots} \ {Invalid} = fds'
  BY <1>5
<1>7. Table!Owned'
  BY <1>4, <1>6, OwnedIsHolds DEF Holds
<1> QED
  BY <1>1, <1>2, <1>3, <1>7

(* The kernel's calls that give a descriptor, or a pipe's two. *)
LEMMA OwnedCreate ==
  ASSUME FdType, Table!Owned, NEW s \in Table!Slots, held[s] = Invalid, Table!Create(s)
  PROVE  /\ fds' \subseteq Table!Fds
         /\ held' \in [Table!Slots -> Table!Fds \cup {Invalid}]
         /\ Table!Owned'
         /\ \A r \in Table!Slots : r # s => held'[r] = held[r]
<1> DEFINE f == Table!Lowest(Table!Fds \ fds)
<1>1. /\ fds \in SUBSET Table!Fds /\ held \in [Table!Slots -> Table!Fds \cup {Invalid}]
      /\ fds # Table!Fds /\ fds' = fds \cup {f} /\ held' = [held EXCEPT ![s] = f]
  BY DEF Table!Create, FdType
<1>2. f \in Table!Fds \ fds
  BY <1>1, LowestIsFree
<1> HIDE DEF f
<1>3. Table!Owned'
  BY <1>1, <1>2, Given, OwnedIsHolds
<1> QED
  BY <1>1, <1>2, <1>3

LEMMA OwnedCreatePipe ==
  ASSUME FdType, Table!Owned, NEW q \in Table!Queues, Table!CreatePipe(q),
         held[q] = Invalid, held[Table!WriteEnd(q)] = Invalid
  PROVE  /\ fds' \subseteq Table!Fds
         /\ held' \in [Table!Slots -> Table!Fds \cup {Invalid}]
         /\ Table!Owned'
         /\ \A r \in Table!Slots : r # q /\ r # Table!WriteEnd(q) => held'[r] = held[r]
<1> DEFINE f == Table!Lowest(Table!Fds \ fds)
           w == Table!WriteEnd(q)
           h == [held EXCEPT ![q] = f]
           e == Table!Lowest(Table!Fds \ (fds \cup {f}))
<1>1. /\ fds \in SUBSET Table!Fds /\ held \in [Table!Slots -> Table!Fds \cup {Invalid}]
      /\ Cardinality(Table!Fds \ fds) >= 2
      /\ fds' = fds \cup {f, e} /\ held' = [held EXCEPT ![q] = f, ![w] = e]
  BY TableCardinality DEF Table!CreatePipe, FdType
<1>2. q \in Table!Slots /\ w \in Table!Slots /\ q # w
  BY SlotFacts
<1>3. Table!Fds \ fds # {}
  BY <1>1, FS_EmptySet
<1>4. f \in Table!Fds \ fds
  BY <1>3, LowestIsFree
<1>5. Table!Fds \ (fds \cup {f}) # {}
  <2>1. SUFFICES ASSUME Table!Fds \ (fds \cup {f}) = {} PROVE FALSE
    OBVIOUS
  <2>2. Table!Fds \ fds = {f}
    BY <1>4, <2>1
  <2>3. Cardinality({f}) = 1
    BY FS_Singleton
  <2> QED
    BY <1>1, <2>2, <2>3
<1>6. e \in Table!Fds \ (fds \cup {f})
  BY <1>5, LowestIsFree
<1> HIDE DEF e, f, w
<1>7. Holds(fds \cup {f}, h)
  BY <1>1, <1>2, <1>4, Given, OwnedIsHolds
<1>8. /\ h \in [Table!Slots -> Table!Fds \cup {Invalid}] /\ h[w] = Invalid
      /\ held' = [h EXCEPT ![w] = e]
  BY <1>1, <1>2, <1>4 DEF w
<1> HIDE DEF h
<1>9. Holds((fds \cup {f}) \cup {e}, [h EXCEPT ![w] = e])
  BY <1>1, <1>2, <1>4, <1>6, <1>7, <1>8, Given
<1>10. (fds \cup {f}) \cup {e} = fds'
  BY <1>1
<1>11. Table!Owned'
  BY <1>8, <1>9, <1>10, OwnedIsHolds
<1>12. \A r \in Table!Slots : r # q /\ r # w => held'[r] = held[r]
  BY <1>1
<1> QED
  BY <1>1, <1>2, <1>4, <1>6, <1>11, <1>12 DEF w

LEMMA PlanFacts ==
  /\ \A i \in 1 .. 6 : /\ Table!Plan[i] \in Table!Fixtures \ {"client"}
                       /\ Table!Plan[i] \in Table!Queues =>
                            Table!WriteEnd(Table!Plan[i]) \in Table!Fixtures \ {"client"}
  /\ \A i, j \in 1 .. 6 : i # j =>
       /\ Table!Plan[i] # Table!Plan[j]
       /\ Table!Plan[j] \in Table!Queues =>
            /\ Table!Plan[i] # Table!WriteEnd(Table!Plan[j])
            /\ Table!Plan[i] \in Table!Queues =>
                 Table!WriteEnd(Table!Plan[i]) # Table!WriteEnd(Table!Plan[j])
<1>1. ASSUME NEW i \in 1 .. 6
      PROVE  /\ Table!Plan[i] \in Table!Fixtures \ {"client"}
             /\ Table!Plan[i] \in Table!Queues =>
                  Table!WriteEnd(Table!Plan[i]) \in Table!Fixtures \ {"client"}
  BY SlotFacts
<1>2. ASSUME NEW i \in 1 .. 6, NEW j \in 1 .. 6, i # j
      PROVE  /\ Table!Plan[i] # Table!Plan[j]
             /\ Table!Plan[j] \in Table!Queues =>
                  /\ Table!Plan[i] # Table!WriteEnd(Table!Plan[j])
                  /\ Table!Plan[i] \in Table!Queues =>
                       Table!WriteEnd(Table!Plan[i]) # Table!WriteEnd(Table!Plan[j])
  BY <1>2, SlotFacts
<1> QED
  BY <1>1, <1>2

PlannedPrimed ==
  \A i \in step' .. 6 : i > step' \/ Table!Plan[i] \notin creating' =>
    /\ held'[Table!Plan[i]] = Invalid
    /\ Table!Plan[i] \in Table!Queues => held'[Table!WriteEnd(Table!Plan[i])] = Invalid

LEMMA PlannedIsPrimed == PlannedAreEmpty' <=> PlannedPrimed
BY DEF PlannedAreEmpty, PlannedPrimed, Table!Plan, Table!Queues, Table!WriteEnd

(* A step of another thread leaves what the main thread is about to create. *)
LEMMA FdKept ==
  ASSUME FdInv, fds' \subseteq Table!Fds,
         held' \in [Table!Slots -> Table!Fds \cup {Invalid}], Table!Owned',
         step' = step, init' = init, backlog' \subseteq backlog,
         \A r \in Table!Fixtures \ {"client"} :
           /\ r \in creating => r \in creating'
           /\ held[r] = Invalid => held'[r] = Invalid,
         \A p \in backlog' : held'[p] = Invalid
  PROVE  FdInv'
<1>1. FdType'
  BY DEF FdInv, FdType, Table!Slots, Table!Fixtures, Table!Epolls, Table!Queues,
         Table!WriteEnd, Table!Fds
<1>2. ASSUME init = "none" PROVE PlannedPrimed
  <2> SUFFICES ASSUME NEW i \in step .. 6, i > step \/ Table!Plan[i] \notin creating'
               PROVE  /\ held'[Table!Plan[i]] = Invalid
                      /\ Table!Plan[i] \in Table!Queues =>
                           held'[Table!WriteEnd(Table!Plan[i])] = Invalid
    BY DEF PlannedPrimed
  <2>1. i \in 1 .. 6
    BY DEF FdInv, FdType
  <2>2. /\ Table!Plan[i] \in Table!Fixtures \ {"client"}
        /\ Table!Plan[i] \in Table!Queues =>
             Table!WriteEnd(Table!Plan[i]) \in Table!Fixtures \ {"client"}
    BY <2>1, PlanFacts
  <2>3. /\ held[Table!Plan[i]] = Invalid
        /\ Table!Plan[i] \in Table!Queues => held[Table!WriteEnd(Table!Plan[i])] = Invalid
    BY <1>2, <2>2 DEF FdInv, PlannedAreEmpty
  <2> QED
    BY <2>2, <2>3
<1>3. WaitingAreEmpty'
  BY DEF WaitingAreEmpty
<1> QED
  BY <1>1, <1>2, <1>3, PlannedIsPrimed DEF FdInv

(* The main thread goes on to the next of its plan, or gives up. *)
LEMMA FdGoesOn ==
  ASSUME FdInv, Table!Working, fds' \subseteq Table!Fds,
         held' \in [Table!Slots -> Table!Fds \cup {Invalid}], Table!Owned',
         \A r \in Table!Slots : held[r] = Invalid => held'[r] = Invalid,
         backlog' = backlog, Table!Continue \/ Table!GiveUp
  PROVE  FdInv'
<1>1. init = "none" /\ step \in 1 .. 6 /\ backlog \subseteq Table!Slots
  BY SlotFacts DEF Table!Working, FdInv, FdType
<1>2. WaitingAreEmpty'
  BY <1>1 DEF FdInv, WaitingAreEmpty
<1>3. CASE Table!GiveUp
  <2>1. init' = "failed" /\ step' = step
    BY <1>3 DEF Table!GiveUp
  <2>2. FdType'
    BY <2>1 DEF FdInv, FdType, Table!Slots, Table!Fixtures, Table!Epolls, Table!Queues,
                Table!WriteEnd, Table!Fds
  <2> QED
    BY <1>2, <2>1, <2>2 DEF FdInv
<1>4. CASE Table!Continue
  <2>1. step' = step + 1
    BY <1>4 DEF Table!Continue
  <2>2. FdType'
    BY <1>1, <2>1 DEF FdInv, FdType, Table!Slots, Table!Fixtures, Table!Epolls, Table!Queues,
                      Table!WriteEnd, Table!Fds
  <2>3. PlannedPrimed
    <3> SUFFICES ASSUME NEW i \in step + 1 .. 6
                 PROVE  /\ held'[Table!Plan[i]] = Invalid
                        /\ Table!Plan[i] \in Table!Queues =>
                             held'[Table!WriteEnd(Table!Plan[i])] = Invalid
      BY <2>1 DEF PlannedPrimed
    <3>1. i \in 1 .. 6 /\ i \in step .. 6 /\ i > step
      BY <1>1
    <3>2. /\ Table!Plan[i] \in Table!Slots
          /\ Table!Plan[i] \in Table!Queues => Table!WriteEnd(Table!Plan[i]) \in Table!Slots
      BY <3>1, PlanFacts, SlotFacts
    <3>3. /\ held[Table!Plan[i]] = Invalid
          /\ Table!Plan[i] \in Table!Queues => held[Table!WriteEnd(Table!Plan[i])] = Invalid
      BY <1>1, <3>1 DEF FdInv, PlannedAreEmpty
    <3> QED
      BY <3>2, <3>3
  <2> QED
    BY <1>2, <2>2, <2>3, PlannedIsPrimed DEF FdInv
<1> QED
  BY <1>3, <1>4

LEMMA FdStart == Table!Init => FdInv
<1> SUFFICES ASSUME Table!Init PROVE FdInv
  OBVIOUS
<1>1. /\ fds = {} /\ held = [s \in Table!Slots |-> Invalid] /\ step = 1 /\ backlog = Peers
      /\ creating = {}
  BY DEF Table!Init
<1>2. FdType
  BY <1>1 DEF FdType
<1>3. PlannedAreEmpty
  <2> SUFFICES ASSUME NEW i \in 1 .. 6
               PROVE  /\ held[Table!Plan[i]] = Invalid
                      /\ Table!Plan[i] \in Table!Queues =>
                           held[Table!WriteEnd(Table!Plan[i])] = Invalid
    BY <1>1 DEF PlannedAreEmpty
  <2>1. /\ Table!Plan[i] \in Table!Slots
        /\ Table!Plan[i] \in Table!Queues => Table!WriteEnd(Table!Plan[i]) \in Table!Slots
    BY PlanFacts, SlotFacts
  <2> QED
    BY <1>1, <2>1
<1>4. WaitingAreEmpty
  BY <1>1, SlotFacts DEF WaitingAreEmpty
<1>5. Table!Owned
  BY <1>1 DEF Table!Owned
<1> QED
  BY <1>2, <1>3, <1>4, <1>5 DEF FdInv

(* The first call of the next object: its slot is empty until then. *)
LEMMA FdMainCreates == ASSUME FdInv, Table!MainCreates PROVE FdInv'
<1> DEFINE n == Table!Plan[step]
<1>1. /\ init = "none" /\ step \in 1 .. 6 /\ n \notin creating
      /\ IF n \in Table!Queues THEN Table!CreatePipe(n) ELSE Table!Create(n)
      /\ creating' = creating \cup {n}
      /\ step' = step /\ init' = init /\ backlog' = backlog
  BY SlotFacts DEF Table!MainCreates, Table!Working, Table!Name, FdInv, FdType
<1>2. /\ held[n] = Invalid
      /\ n \in Table!Queues => held[Table!WriteEnd(n)] = Invalid
  BY <1>1 DEF FdInv, PlannedAreEmpty
<1>3. /\ n \in Table!Fixtures
      /\ n \in Table!Queues => Table!WriteEnd(n) \in Table!Fixtures
      /\ n \in Table!Slots
  BY <1>1, PlanFacts, SlotFacts
<1>4. FdType /\ Table!Owned /\ backlog \subseteq Peers
  BY DEF FdInv, FdType
<1>5. /\ fds' \subseteq Table!Fds
      /\ held' \in [Table!Slots -> Table!Fds \cup {Invalid}]
      /\ Table!Owned'
      /\ \A r \in Table!Slots :
           r # n /\ (n \in Table!Queues => r # Table!WriteEnd(n)) => held'[r] = held[r]
  <2>1. CASE n \in Table!Queues
    BY <1>1, <1>2, <1>4, <2>1, OwnedCreatePipe
  <2>2. CASE n \notin Table!Queues
    BY <1>1, <1>2, <1>3, <1>4, <2>2, OwnedCreate
  <2> QED
    BY <2>1, <2>2
<1>6. FdType'
  BY <1>1, <1>5 DEF FdInv, FdType, Table!Slots, Table!Fixtures, Table!Epolls, Table!Queues,
                    Table!WriteEnd, Table!Fds
<1>7. WaitingAreEmpty'
  <2>1. \A p \in backlog : /\ p \in Table!Slots /\ p # n
                           /\ n \in Table!Queues => p # Table!WriteEnd(n)
    BY <1>3, <1>4, SlotFacts
  <2> QED
    BY <1>1, <1>5, <2>1 DEF FdInv, WaitingAreEmpty
<1>8. PlannedPrimed
  <2> SUFFICES ASSUME NEW i \in step .. 6, i > step \/ Table!Plan[i] \notin creating'
               PROVE  /\ held'[Table!Plan[i]] = Invalid
                      /\ Table!Plan[i] \in Table!Queues =>
                           held'[Table!WriteEnd(Table!Plan[i])] = Invalid
    BY <1>1 DEF PlannedPrimed
  <2>1. i > step /\ i \in 1 .. 6 /\ i # step
    BY <1>1
  <2>2. /\ held[Table!Plan[i]] = Invalid
        /\ Table!Plan[i] \in Table!Queues => held[Table!WriteEnd(Table!Plan[i])] = Invalid
    BY <1>1, <2>1 DEF FdInv, PlannedAreEmpty
  <2>3. /\ Table!Plan[i] \in Table!Slots
        /\ Table!Plan[i] \in Table!Queues => Table!WriteEnd(Table!Plan[i]) \in Table!Slots
    BY <2>1, PlanFacts, SlotFacts
  <2>4. /\ Table!Plan[i] # n /\ (n \in Table!Queues => Table!Plan[i] # Table!WriteEnd(n))
        /\ Table!Plan[i] \in Table!Queues =>
             /\ n # Table!WriteEnd(Table!Plan[i])
             /\ n \in Table!Queues => Table!WriteEnd(Table!Plan[i]) # Table!WriteEnd(n)
    BY <1>1, <2>1, PlanFacts
  <2> QED
    BY <1>5, <2>2, <2>3, <2>4
<1> QED
  BY <1>1, <1>5, <1>6, <1>7, <1>8, PlannedIsPrimed DEF FdInv

LEMMA FdStep == ASSUME FdInv, [Table!Next]_fdVars PROVE FdInv'
<1>1. FdType /\ Table!Owned /\ WaitingAreEmpty /\ fds \subseteq Table!Fds /\ backlog \subseteq Peers
      /\ held \in [Table!Slots -> Table!Fds \cup {Invalid}]
  BY DEF FdInv, FdType
<1>2. fds' = fds /\ held' = held => Table!Owned'
  BY <1>1, OwnedIsHolds
<1>3. /\ \A p \in Peers : p \in Table!Slots /\ p \notin Table!Fixtures /\ p # "client"
      /\ "client" \in Table!Slots /\ "listen" \in Table!Slots
      /\ Table!Fixtures \subseteq Table!Slots
  BY SlotFacts
<1>4. CASE UNCHANGED fdVars
  BY <1>1, <1>2, <1>4, FdKept DEF fdVars, WaitingAreEmpty
<1>5. CASE Table!MainCreates
  BY <1>5, FdMainCreates
<1>6. CASE Table!MainCreateFails
  BY <1>1, <1>2, <1>6, FdGoesOn DEF Table!MainCreateFails
<1>7. CASE Table!MainSetsUp
  BY <1>1, <1>2, <1>7, FdGoesOn DEF Table!MainSetsUp
<1>8. CASE Table!MainSetUpFails
  <2>1. /\ Table!Working /\ backlog' = backlog /\ (Table!Continue \/ Table!GiveUp)
        /\ Table!Close("listen") \/ (fds' = fds /\ held' = held)
    <3>1. CASE Table!Name = "listen"
      BY <1>8, <3>1 DEF Table!MainSetUpFails, Table!Close
    <3>2. CASE Table!Name # "listen"
      BY <1>8, <3>2 DEF Table!MainSetUpFails
    <3> QED
      BY <3>1, <3>2
  <2>2. CASE fds' = fds /\ held' = held
    BY <1>1, <1>2, <2>1, <2>2, FdGoesOn
  <2>3. CASE Table!Close("listen")
    BY <1>1, <1>3, <2>1, <2>3, FdGoesOn, OwnedClosed
  <2> QED
    BY <2>1, <2>2, <2>3
<1>9. CASE Table!AcceptFails
  BY <1>1, <1>2, <1>9, FdKept DEF Table!AcceptFails, WaitingAreEmpty
<1>10. ASSUME NEW p \in Peers, Table!Accept(p) PROVE FdInv'
  <2>1. /\ p \in backlog /\ Table!Create(p) /\ backlog' = backlog \ {p}
        /\ creating' = creating \cup {p} /\ step' = step /\ init' = init
    BY <1>10 DEF Table!Accept
  <2>2. held[p] = Invalid
    BY <1>1, <2>1 DEF WaitingAreEmpty
  <2>3. /\ fds' \subseteq Table!Fds
        /\ held' \in [Table!Slots -> Table!Fds \cup {Invalid}]
        /\ Table!Owned'
        /\ \A r \in Table!Slots : r # p => held'[r] = held[r]
    BY <1>1, <1>3, <2>1, <2>2, OwnedCreate
  <2>4. \A q \in backlog' : held'[q] = Invalid
    BY <1>1, <1>3, <2>1, <2>3 DEF WaitingAreEmpty
  <2>5. \A r \in Table!Fixtures \ {"client"} : held'[r] = held[r]
    BY <1>3, <2>3
  <2> QED
    BY <2>1, <2>3, <2>4, <2>5, FdKept
<1>11. ASSUME NEW p \in Peers, Table!Attach(p) PROVE FdInv'
  <2>1. /\ fds' = fds /\ held' = held /\ creating' = creating \ {p}
        /\ step' = step /\ init' = init /\ backlog' = backlog
    BY <1>11 DEF Table!Attach
  <2> QED
    BY <1>1, <1>2, <1>3, <2>1, FdKept DEF WaitingAreEmpty
<1>12. ASSUME NEW s \in Peers \cup {"client"}, Table!Close(s), backlog' = backlog,
              creating' = creating \/ creating' = creating \ {s},
              step' = step, init' = init
       PROVE  FdInv'
  <2>1. /\ fds' \subseteq Table!Fds
        /\ held' \in [Table!Slots -> Table!Fds \cup {Invalid}]
        /\ Table!Owned'
        /\ \A r \in Table!Slots : held[r] = Invalid => held'[r] = Invalid
    BY <1>1, <1>3, <1>12, OwnedClosed
  <2>2. \A p \in backlog' : held'[p] = Invalid
    BY <1>1, <1>3, <1>12, <2>1 DEF WaitingAreEmpty
  <2>3. \A r \in Table!Fixtures \ {"client"} :
           /\ r \in creating => r \in creating'
           /\ held[r] = Invalid => held'[r] = Invalid
    BY <1>3, <1>12, <2>1
  <2> QED
    BY <1>12, <2>1, <2>2, <2>3, FdKept
<1>13. ASSUME NEW p \in Peers, Table!AttachFails(p) \/ Table!CloseSocket(p) PROVE FdInv'
  BY <1>12, <1>13 DEF Table!AttachFails, Table!CloseSocket
<1>14. CASE Table!ActiveOpenFails \/ Table!Disconnect
  BY <1>12, <1>14 DEF Table!ActiveOpenFails, Table!Disconnect
<1>15. CASE Table!ActiveOpen
  <2>1. /\ held["client"] = Invalid /\ Table!Create("client") /\ backlog' = backlog
        /\ creating' = creating \cup {"client"} /\ step' = step /\ init' = init
    BY <1>15 DEF Table!ActiveOpen
  <2>2. /\ fds' \subseteq Table!Fds
        /\ held' \in [Table!Slots -> Table!Fds \cup {Invalid}]
        /\ Table!Owned'
        /\ \A r \in Table!Slots : r # "client" => held'[r] = held[r]
    BY <1>1, <1>3, <2>1, OwnedCreate
  <2>3. \A q \in backlog' : held'[q] = Invalid
    BY <1>1, <1>3, <2>1, <2>2 DEF WaitingAreEmpty
  <2>4. \A r \in Table!Fixtures \ {"client"} : held'[r] = held[r]
    BY <1>3, <2>2
  <2> QED
    BY <2>1, <2>2, <2>3, <2>4, FdKept
<1>16. CASE Table!Connected
  <2>1. /\ fds' = fds /\ held' = held /\ creating' = creating \ {"client"}
        /\ step' = step /\ init' = init /\ backlog' = backlog
    BY <1>16 DEF Table!Connected
  <2> QED
    BY <1>1, <1>2, <2>1, FdKept DEF WaitingAreEmpty
<1> QED
  BY <1>4, <1>5, <1>6, <1>7, <1>8, <1>9, <1>10, <1>11, <1>13, <1>14, <1>15, <1>16
  DEF Table!Next, Table!Main, Table!Acceptor, Table!Client

-----------------------------------------------------------------------------
(* The write path of a connection. *)

(* The bytes of w and then k are the first ones of the stream, in order. *)
InOrder(w, k) ==
  /\ \A i \in 1 .. Len(w) : w[i] = i
  /\ \A i \in 1 .. Len(k) : k[i] = Len(w) + i

LEMMA InOrderIsPrefix ==
  ASSUME NEW w \in Seq(Nat), NEW k \in Seq(Nat)
  PROVE  InOrder(w, k) <=> w \o k = Writes!Bytes(0, Len(w) + Len(k))
<1> DEFINE n == Len(w) + Len(k)
<1>1. /\ w \o k \in Seq(Nat) /\ Len(w \o k) = n
      /\ Len(w) \in Nat /\ Len(k) \in Nat
      /\ \A i \in 1 .. Len(w) : (w \o k)[i] = w[i]
      /\ \A i \in Len(w) + 1 .. Len(w) + Len(k) : (w \o k)[i] = k[i - Len(w)]
  BY ConcatFacts
<1>2. Writes!Bytes(0, n) = [i \in 1 .. n |-> 0 + i]
  BY DEF Writes!Bytes
<1>3. ASSUME w \o k = Writes!Bytes(0, n) PROVE InOrder(w, k)
  <2>1. \A i \in 1 .. n : (w \o k)[i] = i
    BY <1>1, <1>2, <1>3
  <2>2. ASSUME NEW i \in 1 .. Len(w) PROVE w[i] = i
    BY <1>1, <2>1
  <2>3. ASSUME NEW i \in 1 .. Len(k) PROVE k[i] = Len(w) + i
    <3>1. Len(w) + i \in Len(w) + 1 .. Len(w) + Len(k) /\ Len(w) + i - Len(w) = i
      BY <1>1
    <3>2. (w \o k)[Len(w) + i] = k[i]
      BY <1>1, <3>1
    <3> QED
      BY <1>1, <2>1, <3>1, <3>2
  <2> QED
    BY <2>2, <2>3 DEF InOrder
<1>4. ASSUME InOrder(w, k) PROVE w \o k = Writes!Bytes(0, n)
  <2>1. ASSUME NEW i \in 1 .. n PROVE (w \o k)[i] = i
    <3>1. CASE i <= Len(w)
      BY <1>1, <1>4, <3>1 DEF InOrder
    <3>2. CASE i > Len(w)
      <4>1. i \in Len(w) + 1 .. Len(w) + Len(k) /\ i - Len(w) \in 1 .. Len(k)
        BY <1>1, <3>2
      <4>2. (w \o k)[i] = k[i - Len(w)] /\ k[i - Len(w)] = Len(w) + (i - Len(w))
        BY <1>1, <1>4, <4>1 DEF InOrder
      <4> QED
        BY <1>1, <4>1, <4>2
    <3> QED
      BY <1>1, <3>1, <3>2
  <2>2. n \in Nat /\ [i \in 1 .. n |-> 0 + i] \in [1 .. n -> Nat]
    BY <1>1
  <2>3. Writes!Bytes(0, n) \in Seq(Nat) /\ Len(Writes!Bytes(0, n)) = n
    BY <1>2, <2>2, TableFacts
  <2>4. \A i \in 1 .. n : Writes!Bytes(0, n)[i] = i
    BY <1>2, <2>2
  <2> HIDE DEF n
  <2> QED
    BY <1>1, <2>1, <2>3, <2>4, SameEntries
<1> QED
  BY <1>3, <1>4

LEMMA BytesFacts ==
  ASSUME NEW first \in Nat, NEW n \in Nat, NEW m \in Nat, first + n <= m
  PROVE  /\ Writes!Bytes(first, n) \in Seq(1 .. m)
         /\ Len(Writes!Bytes(first, n)) = n
         /\ \A i \in 1 .. n : Writes!Bytes(first, n)[i] = first + i
<1>1. Writes!Bytes(first, n) = [i \in 1 .. n |-> first + i]
  BY DEF Writes!Bytes
<1>2. \A i \in 1 .. n : first + i \in 1 .. m
  OBVIOUS
<1>3. Writes!Bytes(first, n) \in [1 .. n -> 1 .. m]
  BY <1>1, <1>2
<1> QED
  BY <1>1, <1>3, TableFacts

(* The write path keeps what WriteOrder says, step by step. *)
WriteInv == Writes!TypeOK /\ InOrder(wire, kernel) /\ Writes!NothingMisplaced

LEMMA WriteInvIsOrder ==
  ASSUME Writes!TypeOK
  PROVE  InOrder(wire, kernel) <=> Writes!WireIsPrefix
<1>1. wire \in Seq(1 .. MaxStream) /\ kernel \in Seq(1 .. MaxStream)
  BY DEF Writes!TypeOK
<1>2. 1 .. MaxStream \subseteq Nat
  BY SizesAssumption
<1>3. wire \in Seq(Nat) /\ kernel \in Seq(Nat)
  BY <1>1, <1>2, WiderSeq
<1> QED
  BY <1>3, InOrderIsPrefix DEF Writes!WireIsPrefix

LEMMA WriteStart == Writes!Init => WriteInv
<1> SUFFICES ASSUME Writes!Init PROVE WriteInv
  OBVIOUS
<1>1. /\ stream = 0 /\ buffer = << >> /\ kernel = << >> /\ wire = << >>
      /\ status = "connected" /\ callback = FALSE /\ mask \subseteq {"IN", "OUT"}
  BY DEF Writes!Init, Writes!AddMask
<1>2. << >> \in Seq(1 .. MaxStream) /\ Len(<< >>) = 0
  OBVIOUS
<1>3. Writes!TypeOK
  <2>1. \A s \in {buffer, kernel, wire} : s \in Seq(1 .. MaxStream)
    BY <1>1, <1>2
  <2>2. Len(kernel) = 0 /\ Len(buffer) = 0
    BY <1>1, <1>2
  <2>3. stream \in 0 .. MaxStream /\ 0 <= KernelSize /\ 0 <= WriteMax
    BY <1>1, SizesAssumption
  <2>4. callback \in BOOLEAN /\ status \in {"connected", "pending_error", "none"}
    BY <1>1
  <2> QED
    BY <1>1, <2>1, <2>2, <2>3, <2>4 DEF Writes!TypeOK
<1>4. InOrder(wire, kernel)
  BY <1>1, <1>2 DEF InOrder
<1>5. Writes!NothingMisplaced
  BY <1>1, <1>2 DEF Writes!NothingMisplaced
<1> QED
  BY <1>3, <1>4, <1>5 DEF WriteInv

(* Reactor::sendMessage: what goes to the kernel continues what is there. *)
LEMMA WriteSend ==
  ASSUME WriteInv, NEW size \in 1 .. MaxSize, Writes!SendMessage(size)
  PROVE  WriteInv'
<1> DEFINE written == Writes!SendDirect(size)
           rest == size - written
           direct == Writes!Bytes(stream, written)
           late == Writes!Bytes(stream, rest)
<1>1. /\ status = "connected" /\ stream + size <= MaxStream /\ stream' = stream + size
      /\ kernel' = kernel \o direct /\ wire' = wire /\ mask' = mask
      /\ \/ rest = 0 /\ buffer' = buffer /\ callback' = callback /\ status' = status
         \/ rest # 0 /\ Writes!NoBuffers(rest) /\ status' = "pending_error"
              /\ buffer' = buffer /\ callback' = callback
         \/ rest # 0 /\ ~Writes!NoBuffers(rest) /\ buffer' = buffer \o late
              /\ callback' = TRUE /\ status' = status
  BY DEF Writes!SendMessage, Writes!Deferred
<1>2. /\ stream \in Nat /\ buffer \in Seq(1 .. MaxStream) /\ kernel \in Seq(1 .. MaxStream)
      /\ wire \in Seq(1 .. MaxStream) /\ Len(kernel) <= KernelSize
      /\ (WriteMax > 0 => Len(buffer) <= WriteMax) /\ size \in Nat
      /\ MaxStream \in Nat /\ KernelSize \in Nat /\ WriteMax \in Nat
      /\ callback \in BOOLEAN /\ mask \subseteq {"IN", "OUT"}
  BY SizesAssumption DEF WriteInv, Writes!TypeOK
<1>3. Len(buffer) \in Nat /\ Len(kernel) \in Nat /\ Len(wire) \in Nat
  BY <1>2
<1>4. /\ written \in Nat /\ written <= size /\ written <= KernelSize - Len(kernel)
      /\ buffer # << >> => written = 0
  BY <1>2, <1>3 DEF Writes!SendDirect, Writes!Written, Writes!Room
<1>5. Len(wire) + Len(kernel) + Len(buffer) = stream
  BY <1>1 DEF WriteInv, Writes!NothingMisplaced
<1> HIDE DEF written
<1>6. rest \in Nat /\ rest + written = size /\ stream + written <= MaxStream
      /\ stream + rest <= MaxStream
  BY <1>1, <1>2, <1>4
<1>7. /\ direct \in Seq(1 .. MaxStream) /\ Len(direct) = written
      /\ \A i \in 1 .. written : direct[i] = stream + i
  BY <1>2, <1>4, <1>6, BytesFacts
<1>8. late \in Seq(1 .. MaxStream) /\ Len(late) = rest
  BY <1>2, <1>6, BytesFacts
<1> HIDE DEF rest, direct, late
<1>9. /\ kernel' \in Seq(1 .. MaxStream) /\ Len(kernel') = Len(kernel) + written
      /\ \A i \in 1 .. Len(kernel) : kernel'[i] = kernel[i]
      /\ \A i \in Len(kernel) + 1 .. Len(kernel) + written : kernel'[i] = direct[i - Len(kernel)]
  BY <1>1, <1>2, <1>7, ConcatFacts
<1>10. /\ buffer \o late \in Seq(1 .. MaxStream) /\ Len(buffer \o late) = Len(buffer) + rest
  BY <1>2, <1>8, ConcatFacts
<1>11. /\ buffer' \in Seq(1 .. MaxStream)
       /\ WriteMax > 0 => Len(buffer') <= WriteMax
       /\ status' = "connected" => Len(buffer') = Len(buffer) + rest
  <2>1. ASSUME ~Writes!NoBuffers(rest), WriteMax > 0 PROVE Len(buffer) + rest <= WriteMax
    BY <1>2, <1>3, <1>6, <2>1 DEF Writes!NoBuffers
  <2>2. CASE buffer' = buffer
    <3>1. status' = "connected" => rest = 0
      BY <1>1, <1>3, <1>6, <1>10, <2>2
    <3> QED
      BY <1>2, <1>3, <2>2, <3>1
  <2>3. CASE ~Writes!NoBuffers(rest) /\ buffer' = buffer \o late
    BY <1>10, <2>1, <2>3
  <2> QED
    BY <1>1, <2>2, <2>3
<1>12. Writes!TypeOK'
  <2>1. stream' \in 0 .. MaxStream /\ Len(kernel') <= KernelSize
    BY <1>1, <1>2, <1>3, <1>4, <1>9
  <2>2. callback' \in BOOLEAN /\ status' \in {"connected", "pending_error", "none"}
    BY <1>1, <1>2
  <2> QED
    BY <1>1, <1>2, <1>9, <1>11, <2>1, <2>2 DEF Writes!TypeOK
<1>13. InOrder(wire', kernel')
  <2>1. ASSUME NEW i \in 1 .. Len(kernel') PROVE kernel'[i] = Len(wire) + i
    <3>1. CASE i <= Len(kernel)
      BY <1>3, <1>9, <2>1, <3>1 DEF WriteInv, InOrder
    <3>2. CASE i > Len(kernel)
      <4>1. i \in Len(kernel) + 1 .. Len(kernel) + written /\ i - Len(kernel) \in 1 .. written
        BY <1>3, <1>4, <1>9, <3>2
      <4>2. buffer = << >>
        BY <1>4, <4>1
      <4>3. Len(wire) + Len(kernel) = stream
        BY <1>3, <1>5, <4>2
      <4>4. kernel'[i] = stream + (i - Len(kernel))
        BY <1>7, <1>9, <4>1
      <4>5. i \in Int
        BY <4>1
      <4>6. stream + (i - Len(kernel)) = Len(wire) + i
        BY <1>3, <4>3, <4>5
      <4> QED
        BY <4>4, <4>6
    <3> QED
      BY <1>3, <1>4, <1>9, <3>1, <3>2
  <2> QED
    BY <1>1, <2>1 DEF WriteInv, InOrder
<1>14. Writes!NothingMisplaced'
  <2> SUFFICES ASSUME status' = "connected"
               PROVE  Len(wire') + Len(kernel') + Len(buffer') = stream'
    BY DEF Writes!NothingMisplaced
  <2>1. /\ Len(wire') = Len(wire) /\ Len(kernel') = Len(kernel) + written
        /\ Len(buffer') = Len(buffer) + rest /\ stream' = stream + size
    BY <1>1, <1>9, <1>11
  <2>2. /\ Len(wire) \in Nat /\ Len(kernel) \in Nat /\ Len(buffer) \in Nat
        /\ written \in Nat /\ rest \in Nat /\ size \in Nat /\ stream \in Nat
    BY <1>2, <1>3, <1>4, <1>6
  <2>3. Len(wire) + (Len(kernel) + written) + (Len(buffer) + rest) = stream + size
    BY <1>5, <1>6, <2>2
  <2> QED
    BY <2>1, <2>3
<1> QED
  BY <1>12, <1>13, <1>14 DEF WriteInv, InOrder

(* The peer takes bytes from the front of the kernel's. *)
LEMMA WriteRead == ASSUME WriteInv, Writes!PeerReads PROVE WriteInv'
<1>1. PICK n \in 1 .. Len(kernel) :
        /\ wire' = wire \o SubSeq(kernel, 1, n)
        /\ kernel' = SubSeq(kernel, n + 1, Len(kernel))
  BY DEF Writes!PeerReads
<1>2. /\ stream' = stream /\ buffer' = buffer /\ status' = status /\ callback' = callback
      /\ mask' = mask
  BY DEF Writes!PeerReads
<1>3. /\ kernel \in Seq(1 .. MaxStream) /\ wire \in Seq(1 .. MaxStream)
      /\ Len(kernel) <= KernelSize /\ KernelSize \in Nat
  BY SizesAssumption DEF WriteInv, Writes!TypeOK
<1> DEFINE a == SubSeq(kernel, 1, n)
<1>4. Len(kernel) \in Nat /\ Len(wire) \in Nat /\ n \in Nat /\ n <= Len(kernel)
  BY <1>3
<1>5. a \in Seq(1 .. MaxStream) /\ Len(a) = n /\ \A i \in 1 .. n : a[i] = kernel[i]
  <2>1. n \in 0 .. Len(kernel)
    BY <1>4
  <2> QED
    BY <1>3, <2>1, SplitFacts
<1>6. /\ kernel' \in Seq(1 .. MaxStream) /\ Len(kernel') = Len(kernel) - n
      /\ \A i \in 1 .. Len(kernel) - n : kernel'[i] = kernel[n + i]
  <2>1. n \in 0 .. Len(kernel)
    BY <1>4
  <2> QED
    BY <1>1, <1>3, <2>1, RestFacts
<1> HIDE DEF a
<1>7. /\ wire' \in Seq(1 .. MaxStream) /\ Len(wire') = Len(wire) + n
      /\ \A i \in 1 .. Len(wire) : wire'[i] = wire[i]
      /\ \A i \in Len(wire) + 1 .. Len(wire) + n : wire'[i] = a[i - Len(wire)]
  BY <1>1, <1>3, <1>5, ConcatFacts DEF a
<1>8. Writes!TypeOK'
  BY <1>2, <1>3, <1>4, <1>6, <1>7 DEF WriteInv, Writes!TypeOK
<1>9. InOrder(wire', kernel')
  <2>1. ASSUME NEW i \in 1 .. Len(wire') PROVE wire'[i] = i
    <3>1. CASE i <= Len(wire)
      BY <1>4, <1>7, <3>1 DEF WriteInv, InOrder
    <3>2. CASE i > Len(wire)
      <4>1. i \in Len(wire) + 1 .. Len(wire) + n /\ i - Len(wire) \in 1 .. n
            /\ i - Len(wire) \in 1 .. Len(kernel)
        BY <1>4, <1>7, <3>2
      <4>2. wire'[i] = kernel[i - Len(wire)]
        BY <1>5, <1>7, <4>1
      <4>3. kernel[i - Len(wire)] = Len(wire) + (i - Len(wire))
        BY <4>1 DEF WriteInv, InOrder
      <4> QED
        BY <1>4, <4>1, <4>2, <4>3
    <3> QED
      BY <1>4, <1>7, <3>1, <3>2
  <2>2. ASSUME NEW i \in 1 .. Len(kernel') PROVE kernel'[i] = Len(wire') + i
    <3>1. n + i \in 1 .. Len(kernel) /\ i \in 1 .. Len(kernel) - n
      BY <1>4, <1>6
    <3>2. kernel[n + i] = Len(wire) + (n + i)
      BY <3>1 DEF WriteInv, InOrder
    <3> QED
      BY <1>4, <1>6, <1>7, <3>1, <3>2
  <2> QED
    BY <2>1, <2>2 DEF InOrder
<1>10. Writes!NothingMisplaced'
  <2>1. Len(buffer) \in Nat /\ stream \in Nat
    BY DEF WriteInv, Writes!TypeOK
  <2>2. status = "connected" => Len(wire) + Len(kernel) + Len(buffer) = stream
    BY DEF WriteInv, Writes!NothingMisplaced
  <2>3. Len(wire') + Len(kernel') = Len(wire) + Len(kernel)
    BY <1>4, <1>6, <1>7
  <2>4. status' = "connected" => Len(wire') + Len(kernel') + Len(buffer') = stream'
    BY <1>2, <2>2, <2>3
  <2> QED
    BY <2>4 DEF Writes!NothingMisplaced
<1> QED
  BY <1>8, <1>9, <1>10 DEF WriteInv, InOrder

LEMMA WriteStep == ASSUME WriteInv, [Writes!Next]_writeVars PROVE WriteInv'
<1>1. CASE UNCHANGED writeVars
  BY <1>1 DEF writeVars, WriteInv, InOrder, Writes!TypeOK, Writes!NothingMisplaced
<1>2. ASSUME NEW size \in 1 .. MaxSize, Writes!SendError(size) PROVE WriteInv'
  <2>1. /\ stream' = stream + size /\ stream + size <= MaxStream /\ status' = "pending_error"
        /\ buffer' = buffer /\ kernel' = kernel /\ wire' = wire /\ callback' = callback
        /\ mask' = mask
    BY <1>2 DEF Writes!SendError
  <2>2. stream' \in 0 .. MaxStream
    BY <2>1, SizesAssumption DEF WriteInv, Writes!TypeOK
  <2>3. Writes!TypeOK'
    BY <2>1, <2>2 DEF WriteInv, Writes!TypeOK
  <2> QED
    BY <2>1, <2>3 DEF WriteInv, InOrder, Writes!NothingMisplaced
<1>3. CASE Writes!SendMessageError
  <2>1. /\ status' = "none" /\ buffer' = << >> /\ callback' = FALSE /\ mask' = {}
        /\ stream' = stream /\ kernel' = kernel /\ wire' = wire
    BY <1>3 DEF Writes!SendMessageError
  <2>2. buffer' \in Seq(1 .. MaxStream) /\ Len(buffer') = 0
    BY <2>1
  <2>3. Writes!TypeOK'
    <3>1. kernel \in Seq(1 .. MaxStream) /\ wire \in Seq(1 .. MaxStream)
          /\ Len(kernel) <= KernelSize /\ stream \in 0 .. MaxStream
      BY DEF WriteInv, Writes!TypeOK
    <3>2. /\ \A s \in {buffer', kernel', wire'} : s \in Seq(1 .. MaxStream)
          /\ Len(kernel') <= KernelSize /\ stream' \in 0 .. MaxStream
          /\ status' \in {"connected", "pending_error", "none"}
          /\ callback' \in BOOLEAN /\ mask' \subseteq {"IN", "OUT"}
      BY <2>1, <2>2, <3>1
    <3>3. WriteMax > 0 => Len(buffer') <= WriteMax
      BY <2>2, SizesAssumption
    <3> QED
      BY <3>2, <3>3 DEF Writes!TypeOK
  <2> QED
    BY <2>1, <2>3 DEF WriteInv, InOrder, Writes!NothingMisplaced
<1> QED
  BY <1>1, <1>2, <1>3, WriteSend, WriteRead DEF Writes!Next

-----------------------------------------------------------------------------
(* The addresses. *)

NativeRecord == [sa_family : {"none", "AF_UNIX", "AF_INET", "AF_INET6"},
                 address : {"", "v4", "v6", "mapped"}, sa_port : Nat]
AddressRecord == [has_addr : BOOLEAN, ip : Address!Texts \cup {""}, port : Nat,
                  has_native : BOOLEAN, protocol : {"UNKNOWN", "IP_V4", "IP_V6"},
                  native : NativeRecord, size : Nat]
GivenRecord == {[as |-> "nothing"]} \cup [as : {"text"}, ip : Address!Texts, port : Ports]
                 \cup [as : {"native"}, native : NativeRecord]

(* What the members of an object x say of what it was given, g: the form it
   was given is there, and the other one, if it is there, is its
   translation. *)
Current(x, g) ==
  /\ g.as = "nothing" => /\ ~x.has_addr /\ ~x.has_native /\ x.ip = "" /\ x.port = 0
                         /\ x.protocol = "UNKNOWN" /\ x.size = 0
  /\ g.as = "text" =>
       /\ x.has_addr /\ x.ip = g.ip /\ x.port = g.port
       /\ x.has_native => /\ x.ip \in {"v4", "v6"}
                          /\ x.native = Address!Native(Address!FamilyOf(x.ip), x.ip, x.port)
                          /\ x.protocol = Address!Protocol(Address!FamilyOf(x.ip))
                          /\ x.size = Address!Size(x.protocol)
  /\ g.as = "native" =>
       /\ x.has_native /\ x.native = g.native /\ x.protocol # "UNKNOWN"
       /\ x.protocol = Address!Protocol(g.native.sa_family) /\ x.size = Address!Size(x.protocol)
       /\ x.has_addr => /\ x.ip = g.native.address
                        /\ x.port = Address!Swapped(g.native.sa_port)

AddressInv ==
  /\ obj \in [Objects -> AddressRecord]
  /\ given \in [Objects -> GivenRecord]
  /\ \A o \in Objects : Current(obj[o], given[o])

(* Swapping the bytes of a port twice gives the port. *)
LEMMA TwoBytes ==
  ASSUME NEW lo \in Nat, NEW hi \in Nat, lo < 256, hi < 256
  PROVE  (lo * 256 + hi) % 256 = hi /\ (lo * 256 + hi) \div 256 = lo
OBVIOUS

LEMMA SwappedTwice ==
  ASSUME NEW p \in Nat, p < 256 * 256
  PROVE  Address!Swapped(Address!Swapped(p)) = p
<1> DEFINE lo == p % 256
           hi == p \div 256
<1>1. lo \in Nat /\ lo < 256 /\ hi \in Nat /\ p = hi * 256 + lo
  OBVIOUS
<1>2. Address!Swapped(p) = lo * 256 + hi
  BY DEF Address!Swapped
<1> HIDE DEF lo, hi
<1>3. hi < 256
  BY <1>1
<1>4. (lo * 256 + hi) % 256 = hi /\ (lo * 256 + hi) \div 256 = lo
  BY <1>1, <1>3, TwoBytes
<1>5. Address!Swapped(lo * 256 + hi) = hi * 256 + lo
  BY <1>4 DEF Address!Swapped
<1> QED
  BY <1>1, <1>2, <1>5

LEMMA PortFacts == \A p \in Ports : p \in Nat /\ p < 256 * 256
BY PortsAssumption

LEMMA SwappedIsNat == ASSUME NEW p \in Nat PROVE Address!Swapped(p) \in Nat
BY DEF Address!Swapped

LEMMA NativeFacts ==
  ASSUME NEW ip \in {"v4", "v6"}, NEW port \in Nat
  PROVE  /\ Address!Native(Address!FamilyOf(ip), ip, port) \in NativeRecord
         /\ Address!Native(Address!FamilyOf(ip), ip, port).address = ip
         /\ Address!Native(Address!FamilyOf(ip), ip, port).sa_port = Address!Swapped(port)
         /\ Address!Native(Address!FamilyOf(ip), ip, port).sa_family = Address!FamilyOf(ip)
BY SwappedIsNat
DEF Address!Native, Address!FamilyOf, Address!HasDot, NativeRecord

LEMMA NamesFacts ==
  /\ Address!Protocol("AF_INET") = "IP_V4" /\ Address!Protocol("AF_INET6") = "IP_V6"
  /\ \A f : Address!Protocol(f) \in {"UNKNOWN", "IP_V4", "IP_V6"}
  /\ \A p : Address!Size(p) \in Nat
  /\ Address!Size("UNKNOWN") = 0
  /\ Address!Texts = {"v4", "v6", "mapped", "name"}
  /\ Address!FamilyOf("v4") = "AF_INET" /\ Address!FamilyOf("v6") = "AF_INET6"
BY DEF Address!Protocol, Address!Size, Address!Texts, Address!FamilyOf, Address!HasDot

LEMMA NoNativeFacts == Address!NoNative \in NativeRecord
BY DEF Address!NoNative, NativeRecord

LEMMA NativeUpdate ==
  ASSUME NEW x \in AddressRecord, NEW n \in NativeRecord,
         NEW p \in {"UNKNOWN", "IP_V4", "IP_V6"}, NEW z \in Nat
  PROVE  /\ [x EXCEPT !.native = n, !.protocol = p, !.size = z] \in AddressRecord
         /\ [x EXCEPT !.native = n, !.protocol = p, !.size = z, !.has_native = TRUE]
              \in AddressRecord
<1>1. [x EXCEPT !.native = n, !.protocol = p, !.size = z] \in AddressRecord
  BY DEF AddressRecord
<1>2. \A y \in AddressRecord : [y EXCEPT !.has_native = TRUE] \in AddressRecord
  BY DEF AddressRecord
<1>3. [[x EXCEPT !.native = n, !.protocol = p, !.size = z] EXCEPT !.has_native = TRUE]
        \in AddressRecord
  BY <1>1, <1>2
<1> QED
  BY <1>1, <1>3

(* The getters: what they leave is as current as what they found. *)
LEMMA TextFound ==
  ASSUME NEW x \in AddressRecord, NEW g \in GivenRecord, Current(x, g)
  PROVE  /\ Address!WithText(x) \in AddressRecord /\ Current(Address!WithText(x), g)
         /\ g.as = "text" => Address!WithText(x).ip = g.ip /\ Address!WithText(x).port = g.port
         /\ g.as = "native" => /\ Address!WithText(x).ip = g.native.address
                               /\ Address!WithText(x).port = Address!Swapped(g.native.sa_port)
         /\ g.as = "nothing" => Address!WithText(x).ip = "" /\ Address!WithText(x).port = 0
<1>1. CASE x.has_addr \/ ~x.has_native
  <2>1. Address!WithText(x) = x
    BY <1>1 DEF Address!WithText
  <2>2. g.as = "native" => x.has_native
    BY DEF Current
  <2> QED
    BY <1>1, <2>1, <2>2 DEF Current
<1>2. CASE ~x.has_addr /\ x.has_native
  <2>1. Address!WithText(x) = Address!TranslateNativeAddressToAddress(x)
    BY <1>2 DEF Address!WithText
  <2>2. g.as = "native"
    BY <1>2 DEF Current, GivenRecord
  <2>3. x.protocol # "UNKNOWN" /\ x.native = g.native /\ x.native \in NativeRecord
    BY <2>2 DEF Current, AddressRecord
  <2>4. Address!WithText(x) = [x EXCEPT !.ip = x.native.address,
                                        !.port = Address!Swapped(x.native.sa_port),
                                        !.has_addr = TRUE]
    BY <2>1, <2>3 DEF Address!TranslateNativeAddressToAddress
  <2>5. /\ x.native.address \in Address!Texts \cup {""}
        /\ Address!Swapped(x.native.sa_port) \in Nat
    BY <2>3, SwappedIsNat, NamesFacts DEF NativeRecord
  <2>6. Address!WithText(x) \in AddressRecord
    BY <2>4, <2>5 DEF AddressRecord
  <2>7. /\ Address!WithText(x).has_native = x.has_native
        /\ Address!WithText(x).native = x.native
        /\ Address!WithText(x).protocol = x.protocol /\ Address!WithText(x).size = x.size
        /\ Address!WithText(x).ip = x.native.address
        /\ Address!WithText(x).port = Address!Swapped(x.native.sa_port)
    BY <2>4 DEF AddressRecord
  <2> QED
    BY <2>2, <2>3, <2>6, <2>7 DEF Current
<1> QED
  BY <1>1, <1>2 DEF AddressRecord

LEMMA NativeFound ==
  ASSUME NEW x \in AddressRecord, NEW g \in GivenRecord, Current(x, g)
  PROVE  /\ Address!WithNative(x) \in AddressRecord /\ Current(Address!WithNative(x), g)
         /\ g.as = "native" => /\ Address!WithNative(x).native = g.native
                               /\ Address!WithNative(x).size =
                                    Address!Size(Address!WithNative(x).protocol)
         /\ g.as = "text" /\ g.ip \in {"v4", "v6"} =>
              /\ Address!WithNative(x).native =
                   Address!Native(Address!FamilyOf(g.ip), g.ip, g.port)
              /\ Address!WithNative(x).protocol = Address!Protocol(Address!FamilyOf(g.ip))
              /\ Address!WithNative(x).size = Address!Size(Address!WithNative(x).protocol)
         /\ g.as = "nothing" \/ (g.as = "text" /\ g.ip \notin {"v4", "v6"}) =>
              Address!WithNative(x).protocol = "UNKNOWN" /\ Address!WithNative(x).size = 0
<1> DEFINE y == Address!WithNative(x)
<1>1. CASE x.has_native \/ ~x.has_addr
  <2>1. y = x
    BY <1>1 DEF Address!WithNative
  <2>2. g.as = "text" => x.has_addr
    BY DEF Current
  <2> HIDE DEF y
  <2> QED
    BY <1>1, <2>1, <2>2 DEF Current, y
<1>2. CASE ~x.has_native /\ x.has_addr
  <2>1. y = Address!TranslateAddressToNativeAddress(x)
    BY <1>2 DEF Address!WithNative
  <2>2. g.as = "text" /\ x.ip = g.ip /\ x.port = g.port
    BY <1>2 DEF Current, GivenRecord
  <2>3. g.ip \in Address!Texts /\ x.port \in Nat
    <3>1. g \in [as : {"text"}, ip : Address!Texts, port : Ports]
      BY <2>2 DEF GivenRecord
    <3> QED
      BY <3>1 DEF AddressRecord
  <2>4. CASE x.ip \in {"v4", "v6"}
    <3>1. (Address!HasDot(x.ip) \/ Address!HasColon(x.ip))
            /\ Address!Parses(Address!FamilyOf(x.ip), x.ip)
      BY <2>4 DEF Address!HasDot, Address!HasColon, Address!Parses, Address!FamilyOf
    <3>2. y = [x EXCEPT !.native = Address!Native(Address!FamilyOf(x.ip), x.ip, x.port),
                        !.protocol = Address!Protocol(Address!FamilyOf(x.ip)),
                        !.size = Address!Size(Address!Protocol(Address!FamilyOf(x.ip))),
                        !.has_native = TRUE]
      BY <2>1, <3>1 DEF Address!TranslateAddressToNativeAddress
    <3>3. Address!Native(Address!FamilyOf(x.ip), x.ip, x.port) \in NativeRecord
      BY <2>3, <2>4, NativeFacts
    <3>4. y \in AddressRecord
      <4> DEFINE n == Address!Native(Address!FamilyOf(x.ip), x.ip, x.port)
                 p == Address!Protocol(Address!FamilyOf(x.ip))
                 z == Address!Size(p)
      <4>1. n \in NativeRecord /\ p \in {"UNKNOWN", "IP_V4", "IP_V6"} /\ z \in Nat
        BY <3>3, NamesFacts
      <4>2. y = [x EXCEPT !.native = n, !.protocol = p, !.size = z, !.has_native = TRUE]
        BY <3>2
      <4> HIDE DEF n, p, z, y
      <4> QED
        BY <4>1, <4>2, NativeUpdate
    <3>5. /\ y.has_addr = x.has_addr /\ y.ip = x.ip /\ y.port = x.port
          /\ y.native = Address!Native(Address!FamilyOf(x.ip), x.ip, x.port)
          /\ y.protocol = Address!Protocol(Address!FamilyOf(x.ip))
          /\ y.size = Address!Size(y.protocol)
      BY <3>2 DEF AddressRecord
    <3> HIDE DEF y
    <3>6. Current(y, g)
      BY <1>2, <2>2, <2>4, <3>5 DEF Current
    <3> QED
      BY <2>2, <2>4, <3>4, <3>5, <3>6 DEF y
  <2>5. CASE x.ip \notin {"v4", "v6"}
    <3>1. ~((Address!HasDot(x.ip) \/ Address!HasColon(x.ip))
              /\ Address!Parses(Address!FamilyOf(x.ip), x.ip))
      BY <2>2, <2>3, <2>5, NamesFacts
      DEF Address!HasDot, Address!HasColon, Address!Parses, Address!FamilyOf
    <3>2. y = [x EXCEPT !.native = Address!NoNative, !.protocol = "UNKNOWN", !.size = 0]
      BY <2>1, <3>1 DEF Address!TranslateAddressToNativeAddress
    <3>3. y \in AddressRecord
      <4> DEFINE n == Address!NoNative
      <4>1. n \in NativeRecord /\ y = [x EXCEPT !.native = n, !.protocol = "UNKNOWN", !.size = 0]
        BY <3>2, NoNativeFacts
      <4> HIDE DEF n, y
      <4> QED
        BY <4>1, NativeUpdate
    <3>4. /\ y.has_addr = x.has_addr /\ y.ip = x.ip /\ y.port = x.port
          /\ y.has_native = x.has_native /\ y.protocol = "UNKNOWN" /\ y.size = 0
      BY <3>2 DEF AddressRecord
    <3> HIDE DEF y
    <3>5. Current(y, g)
      BY <1>2, <2>2, <3>4 DEF Current
    <3> QED
      BY <2>2, <2>5, <3>3, <3>4, <3>5 DEF y
  <2> QED
    BY <2>4, <2>5
<1> QED
  BY <1>1, <1>2 DEF AddressRecord

LEMMA AddressStart == Address!Init => AddressInv
<1> SUFFICES ASSUME Address!Init PROVE AddressInv
  OBVIOUS
<1>1. obj = [o \in Objects |-> Address!Empty] /\ given = [o \in Objects |-> [as |-> "nothing"]]
  BY DEF Address!Init
<1>2. Address!Empty \in AddressRecord
  BY NoNativeFacts DEF Address!Empty, AddressRecord
<1>3. [as |-> "nothing"] \in GivenRecord
  BY DEF GivenRecord
<1>4. Current(Address!Empty, [as |-> "nothing"])
  BY DEF Current, Address!Empty
<1> QED
  BY <1>1, <1>2, <1>3, <1>4 DEF AddressInv

(* What AddressInv says of the next state, in terms of the next state. *)
LEMMA AddressPrimed ==
  (AddressInv)' <=> /\ obj' \in [Objects -> AddressRecord]
                    /\ given' \in [Objects -> GivenRecord]
                    /\ \A a \in Objects : Current(obj'[a], given'[a])
BY DEF AddressInv, AddressRecord, GivenRecord, NativeRecord, Current, Address!Texts,
       Address!Native, Address!FamilyOf, Address!HasDot, Address!Protocol, Address!Size,
       Address!Swapped

LEMMA NativesTyped == ASSUME NEW n \in Address!Natives PROVE n \in NativeRecord
<1>1. CASE n = Address!Native("AF_UNIX", "", 0)
  BY <1>1, SwappedIsNat DEF Address!Native, NativeRecord
<1>2. ASSUME NEW p \in Ports, n = Address!Native("AF_INET", "v4", p) PROVE n \in NativeRecord
  <2>1. Address!Swapped(p) \in Nat
    BY PortFacts, SwappedIsNat
  <2> QED
    BY <1>2, <2>1 DEF Address!Native, NativeRecord
<1>3. ASSUME NEW p \in Ports, NEW ip \in {"v6", "mapped"},
             n = Address!Native("AF_INET6", ip, p)
      PROVE  n \in NativeRecord
  <2>1. Address!Swapped(p) \in Nat
    BY PortFacts, SwappedIsNat
  <2> QED
    BY <1>3, <2>1 DEF Address!Native, NativeRecord
<1> QED
  BY <1>1, <1>2, <1>3 DEF Address!Natives

(* One object gets members x and has then been given g. *)
LEMMA AddressUpdate ==
  ASSUME AddressInv, NEW o \in Objects, NEW x \in AddressRecord, NEW g \in GivenRecord,
         Current(x, g), obj' = [obj EXCEPT ![o] = x],
         given' = [given EXCEPT ![o] = g]
  PROVE  AddressInv'
<1>1. obj \in [Objects -> AddressRecord] /\ given \in [Objects -> GivenRecord]
      /\ \A a \in Objects : Current(obj[a], given[a])
  BY DEF AddressInv
<1>2. obj' \in [Objects -> AddressRecord] /\ given' \in [Objects -> GivenRecord]
  BY <1>1
<1>3. /\ obj'[o] = x /\ given'[o] = g
      /\ \A a \in Objects : a # o => obj'[a] = obj[a] /\ given'[a] = given[a]
  BY <1>1
<1>4. ASSUME NEW a \in Objects PROVE Current(obj'[a], given'[a])
  <2>1. CASE a = o
    BY <1>3, <2>1
  <2>2. CASE a # o
    BY <1>1, <1>3, <2>2
  <2> QED
    BY <2>1, <2>2
<1> QED
  BY <1>2, <1>4, AddressPrimed

LEMMA AddressStep == ASSUME AddressInv, [Address!Next]_addressVars PROVE AddressInv'
<1>1. obj \in [Objects -> AddressRecord] /\ given \in [Objects -> GivenRecord]
      /\ \A a \in Objects : Current(obj[a], given[a])
  BY DEF AddressInv
<1>2. CASE UNCHANGED addressVars
  <2>1. obj' = obj /\ given' = given
    BY <1>2 DEF addressVars
  <2> QED
    BY <1>1, <2>1, AddressPrimed
<1>3. ASSUME NEW o \in Objects, Address!GetText(o) PROVE AddressInv'
  <2>1. obj' = [obj EXCEPT ![o] = Address!WithText(obj[o])]
        /\ given' = [given EXCEPT ![o] = given[o]]
    BY <1>1, <1>3 DEF Address!GetText
  <2>2. obj[o] \in AddressRecord /\ given[o] \in GivenRecord /\ Current(obj[o], given[o])
    BY <1>1
  <2>3. /\ Address!WithText(obj[o]) \in AddressRecord
        /\ Current(Address!WithText(obj[o]), given[o])
    BY <2>2, TextFound
  <2> QED
    BY <2>1, <2>2, <2>3, AddressUpdate
<1>4. ASSUME NEW o \in Objects, Address!GetNative(o) PROVE AddressInv'
  <2>1. obj' = [obj EXCEPT ![o] = Address!WithNative(obj[o])]
        /\ given' = [given EXCEPT ![o] = given[o]]
    BY <1>1, <1>4 DEF Address!GetNative
  <2>2. obj[o] \in AddressRecord /\ given[o] \in GivenRecord /\ Current(obj[o], given[o])
    BY <1>1
  <2>3. /\ Address!WithNative(obj[o]) \in AddressRecord
        /\ Current(Address!WithNative(obj[o]), given[o])
    BY <2>2, NativeFound
  <2> QED
    BY <2>1, <2>2, <2>3, AddressUpdate
<1>5. ASSUME NEW o \in Objects, NEW ip \in Address!Texts, NEW port \in Ports,
             Address!SetAddress(o, ip, port)
      PROVE  AddressInv'
  <2> DEFINE r == obj[o]
             t == [r EXCEPT !.ip = ip, !.port = port]
             x == [t EXCEPT !.has_addr = TRUE, !.has_native = FALSE]
             g == [as |-> "text", ip |-> ip, port |-> port]
  <2>1. r \in AddressRecord /\ port \in Nat
    BY <1>1, PortFacts
  <2>2. obj' = [obj EXCEPT ![o] = x] /\ given' = [given EXCEPT ![o] = g]
    BY <1>1, <1>5 DEF Address!SetAddress
  <2> HIDE DEF r
  <2>a. t \in AddressRecord /\ t.ip = ip /\ t.port = port
    BY <2>1 DEF AddressRecord
  <2> HIDE DEF t
  <2>b. x \in AddressRecord /\ x.ip = t.ip /\ x.port = t.port
    BY <2>a DEF AddressRecord
  <2>c. x.has_addr = TRUE /\ x.has_native = FALSE
    BY <2>a DEF AddressRecord
  <2> HIDE DEF x
  <2>3. x \in AddressRecord /\ x.has_addr /\ ~x.has_native /\ x.ip = ip /\ x.port = port
    BY <2>a, <2>b, <2>c
  <2>4. x \in AddressRecord /\ g \in GivenRecord /\ Current(x, g)
    <3>3. g \in [as : {"text"}, ip : Address!Texts, port : Ports]
      OBVIOUS
    <3>4. x.ip = g.ip /\ x.port = g.port /\ g.as = "text"
      BY <2>3
    <3> HIDE DEF g
    <3> QED
      BY <2>3, <3>3, <3>4 DEF Current, GivenRecord
  <2> HIDE DEF g
  <2> QED
    BY <2>2, <2>4, AddressUpdate
<1>6. ASSUME NEW o \in Objects, NEW n \in Address!Natives, Address!SetNativeAddress(o, n)
      PROVE  AddressInv'
  <2>1. CASE Address!Protocol(n.sa_family) = "UNKNOWN"
    BY <1>2, <1>6, <2>1 DEF Address!SetNativeAddress, Address!vars, addressVars
  <2>2. CASE Address!Protocol(n.sa_family) # "UNKNOWN"
    <3> DEFINE p == Address!Protocol(n.sa_family)
               z == Address!Size(p)
               h == [obj EXCEPT ![o].protocol = p, ![o].size = z, ![o].native = n]
               r == obj[o]
               t == [r EXCEPT !.protocol = p, !.size = z, !.native = n]
               x == [t EXCEPT !.has_addr = FALSE, !.has_native = TRUE]
               g == [as |-> "native", native |-> n]
    <3>1. r \in AddressRecord
      BY <1>1
    <3>2. n \in NativeRecord
      BY NativesTyped
    <3>3. given' = [given EXCEPT ![o] = g]
      BY <1>6, <2>2 DEF Address!SetNativeAddress
    <3>4. /\ p \in {"UNKNOWN", "IP_V4", "IP_V6"} /\ z \in Nat
          /\ p # "UNKNOWN" /\ p = Address!Protocol(n.sa_family) /\ z = Address!Size(p)
      BY <2>2, NamesFacts
    <3>5. obj' = [obj EXCEPT ![o] = x]
      <4>1. obj' = [obj EXCEPT ![o].protocol = p, ![o].size = z, ![o].native = n,
                               ![o].has_addr = FALSE, ![o].has_native = TRUE]
        BY <1>6, <2>2 DEF Address!SetNativeAddress
      <4>2. obj \in [Objects -> AddressRecord]
        BY <1>1
      <4> HIDE DEF p, z
      <4>3. h = [obj EXCEPT ![o] = t]
        BY <4>2
      <4>4. obj' = [h EXCEPT ![o].has_addr = FALSE, ![o].has_native = TRUE]
        BY <4>1, <4>2
      <4> HIDE DEF h, t
      <4> QED
        BY <4>2, <4>3, <4>4
    <3> HIDE DEF p, z, r
    <3>6. t \in AddressRecord /\ t.protocol = p /\ t.size = z /\ t.native = n
      BY <3>1, <3>2, <3>4 DEF AddressRecord
    <3> HIDE DEF t
    <3>a. /\ x \in AddressRecord
          /\ x.protocol = t.protocol /\ x.size = t.size /\ x.native = t.native
      BY <3>6 DEF AddressRecord
    <3>b. x.has_addr = FALSE /\ x.has_native = TRUE
      BY <3>6 DEF AddressRecord
    <3> HIDE DEF x
    <3>7. /\ x \in AddressRecord /\ ~x.has_addr /\ x.has_native
          /\ x.protocol = p /\ x.size = z /\ x.native = n
      BY <3>6, <3>a, <3>b
    <3>8. g \in GivenRecord /\ g.as = "native" /\ g.native = n
      BY <3>2 DEF GivenRecord
    <3> HIDE DEF g
    <3>9. Current(x, g)
      BY <3>4, <3>7, <3>8 DEF Current
    <3> QED
      BY <3>3, <3>5, <3>7, <3>8, <3>9, AddressUpdate
  <2> QED
    BY <2>1, <2>2
<1>7. ASSUME NEW o \in Objects, NEW from \in Objects, Address!Assign(o, from) PROVE AddressInv'
  <2>1. obj' = [obj EXCEPT ![o] = obj[from]] /\ given' = [given EXCEPT ![o] = given[from]]
    BY <1>7 DEF Address!Assign
  <2>2. obj[from] \in AddressRecord /\ given[from] \in GivenRecord
        /\ Current(obj[from], given[from])
    BY <1>1
  <2> QED
    BY <2>1, <2>2, AddressUpdate
<1> QED
  BY <1>2, <1>3, <1>4, <1>5, <1>6, <1>7 DEF Address!Next

LEMMA AddressIsCurrent == AddressInv => AddressCurrent
<1> SUFFICES ASSUME AddressInv, NEW o \in Objects
             PROVE  /\ LET x == Address!WithText(obj[o])
                           g == given[o]
                       IN  CASE g.as = "text" -> x.ip = g.ip /\ x.port = g.port
                             [] g.as = "native" -> x.ip = g.native.address
                                                   /\ x.port = Address!Swapped(g.native.sa_port)
                             [] OTHER -> x.ip = "" /\ x.port = 0
                    /\ LET x == Address!WithNative(obj[o])
                           g == given[o]
                           none == x.protocol = "UNKNOWN" /\ x.size = 0
                       IN  CASE g.as = "native" ->
                                  x.native = g.native /\ x.size = Address!Size(x.protocol)
                             [] g.as = "text" /\ g.ip \in {"v4", "v6"} ->
                                  /\ x.native.address = g.ip
                                  /\ Address!Swapped(x.native.sa_port) = g.port
                                  /\ x.protocol = Address!Protocol(x.native.sa_family)
                                  /\ x.size = Address!Size(x.protocol)
                             [] OTHER -> none
  BY DEF AddressCurrent, Address!TextIsCurrent, Address!NativeIsCurrent
<1> DEFINE x == obj[o]
           g == given[o]
           y == Address!WithText(x)
           z == Address!WithNative(x)
<1>1. x \in AddressRecord /\ g \in GivenRecord /\ Current(x, g)
  BY DEF AddressInv
<1>2. g.as \in {"nothing", "text", "native"}
  BY <1>1 DEF GivenRecord
<1> HIDE DEF x, g
<1>3. /\ g.as = "text" => y.ip = g.ip /\ y.port = g.port
      /\ g.as = "native" => y.ip = g.native.address /\ y.port = Address!Swapped(g.native.sa_port)
      /\ g.as = "nothing" => y.ip = "" /\ y.port = 0
  BY <1>1, TextFound
<1>4. /\ g.as = "native" => z.native = g.native /\ z.size = Address!Size(z.protocol)
      /\ g.as = "text" /\ g.ip \in {"v4", "v6"} =>
           /\ z.native = Address!Native(Address!FamilyOf(g.ip), g.ip, g.port)
           /\ z.protocol = Address!Protocol(Address!FamilyOf(g.ip))
           /\ z.size = Address!Size(z.protocol)
      /\ g.as = "nothing" \/ (g.as = "text" /\ g.ip \notin {"v4", "v6"}) =>
           z.protocol = "UNKNOWN" /\ z.size = 0
  BY <1>1, NativeFound
<1> HIDE DEF y, z
<1>5. ASSUME g.as = "text", g.ip \in {"v4", "v6"}
      PROVE  /\ z.native.address = g.ip /\ Address!Swapped(z.native.sa_port) = g.port
             /\ z.protocol = Address!Protocol(z.native.sa_family)
  <2>1. g \in [as : {"text"}, ip : Address!Texts, port : Ports]
    BY <1>1, <1>5 DEF GivenRecord
  <2>2. g.port \in Nat /\ g.port < 256 * 256
    BY <2>1, PortFacts
  <2>3. /\ z.native.address = g.ip /\ z.native.sa_port = Address!Swapped(g.port)
        /\ z.native.sa_family = Address!FamilyOf(g.ip)
    BY <1>4, <1>5, <2>2, NativeFacts
  <2> QED
    BY <1>4, <1>5, <2>2, <2>3, SwappedTwice
<1>6. CASE g.as = "nothing"
  BY <1>3, <1>4, <1>6 DEF x, g, y, z
<1>7. CASE g.as = "text" /\ g.ip \in {"v4", "v6"}
  BY <1>3, <1>4, <1>5, <1>7 DEF x, g, y, z
<1>8. CASE g.as = "text" /\ g.ip \notin {"v4", "v6"}
  BY <1>3, <1>4, <1>8 DEF x, g, y, z
<1>9. CASE g.as = "native"
  BY <1>3, <1>4, <1>9 DEF x, g, y, z
<1> QED
  BY <1>2, <1>6, <1>7, <1>8, <1>9

-----------------------------------------------------------------------------
(* DynamicBuffer. *)

(* Reading an integer: the value is built up byte by byte. *)
LEMMA ValueSteps ==
  ASSUME NEW width \in Nat, NEW s \in [1 .. width -> Int], NEW le \in BOOLEAN
  PROVE  \E f : /\ f \in [0 .. width -> Int] /\ f[width] = Buffer!ValueOf(s, width, le)
                /\ \A k \in 1 .. width : f[k] = f[k - 1] * Base + s[Buffer!Nth(k, width, le)]
<1> DEFINE nth(k) == Buffer!Nth(k, width, le)
           f == CHOOSE g : g = [k \in 0 .. width |->
                                  IF k = 0 THEN 0 ELSE g[k - 1] * Base + s[nth(k)]]
           shift == [k \in 1 .. width |-> [x \in Int |-> x * Base + s[nth(k)]]]
<1>0. Base \in Int BY BufferAssumption
<1>1. \A k \in 1 .. width : nth(k) \in 1 .. width BY DEF Buffer!Nth
<1> HIDE DEF nth
<1>2. \A k \in 1 .. width, x \in Int : x * Base + s[nth(k)] \in Int
  <2> SUFFICES ASSUME NEW k \in 1 .. width, NEW x \in Int PROVE x * Base + s[nth(k)] \in Int
    OBVIOUS
  <2>1. s[nth(k)] \in Int BY <1>1
  <2> QED BY <1>0, <2>1
<1>3. shift \in [1 .. width -> [Int -> Int]] BY <1>2
<1>4. PICK g \in [0 .. width -> Int] : Iterates(g, width, 0, shift)
  <2> HIDE DEF shift, f
  <2>1. 0 \in Int OBVIOUS
  <2> QED BY <1>3, <2>1, IterationDefined
<1>5. g = [k \in 0 .. width |-> IF k = 0 THEN 0 ELSE g[k - 1] * Base + s[nth(k)]]
  <2>1. \A k \in 1 .. width : g[k] = g[k - 1] * Base + s[nth(k)]
    <3> SUFFICES ASSUME NEW k \in 1 .. width PROVE g[k] = g[k - 1] * Base + s[nth(k)] OBVIOUS
    <3>1. g[k] = shift[k][g[k - 1]] BY <1>4 DEF Iterates
    <3>2. g[k - 1] \in Int OBVIOUS
    <3> QED BY <3>1, <3>2
  <2>2. g[0] = 0 BY <1>4 DEF Iterates
  <2> QED BY <2>1, <2>2
<1>6. f = [k \in 0 .. width |-> IF k = 0 THEN 0 ELSE f[k - 1] * Base + s[nth(k)]] BY <1>5
<1>7. f[width] = Buffer!ValueOf(s, width, le) BY DEF Buffer!ValueOf, nth
<1> HIDE DEF f
<1>8. f[0] = 0 /\ \A k \in 1 .. width : f[k] = f[k - 1] * Base + s[nth(k)]
  <2>1. f[0] = 0 BY <1>6
  <2>2. ASSUME NEW k \in 1 .. width PROVE f[k] = f[k - 1] * Base + s[nth(k)]
    <3>1. k \in 0 .. width /\ k # 0 OBVIOUS
    <3> QED BY <3>1, <1>6
  <2> QED BY <2>1, <2>2
<1> DEFINE N == {k \in Nat : k <= width => f[k] \in Int}
<1>9. 0 \in N BY <1>8
<1>10. ASSUME NEW k \in Nat, k \in N PROVE k + 1 \in N
  <2> SUFFICES ASSUME k + 1 <= width PROVE f[k + 1] \in Int OBVIOUS
  <2>1. k + 1 \in 1 .. width /\ (k + 1) - 1 = k /\ f[k] \in Int BY <1>10
  <2>2. f[k + 1] = f[k] * Base + s[nth(k + 1)] BY <2>1, <1>8
  <2> QED BY <2>1, <2>2, <1>2
<1>11. Nat \subseteq N
  <2> HIDE DEF N
  <2> QED BY <1>9, <1>10, NatSetInduction
<1>12. f \in [0 .. width -> Int]
  <2>1. \A k \in 0 .. width : f[k] \in Int BY <1>11
  <2>2. DOMAIN f = 0 .. width /\ f = [k \in DOMAIN f |-> f[k]] BY <1>6
  <2> QED BY <2>1, <2>2
<1> QED BY <1>7, <1>8, <1>12 DEF nth

(* Writing one: it is shifted right byte by byte. *)
LEMMA DigitSteps ==
  ASSUME NEW v \in Int, NEW width \in Nat, NEW le \in BOOLEAN
  PROVE  \E f : /\ f \in [0 .. width -> Int] /\ f[0] = v
                /\ \A n \in 1 .. width : f[n] = f[n - 1] \div Base
                /\ Buffer!Digits(v, width, le)
                     = [i \in 1 .. width |-> f[width - Buffer!Nth(i, width, le)] % Base]
<1> DEFINE f == CHOOSE g : g = [n \in 0 .. width |-> IF n = 0 THEN v ELSE g[n - 1] \div Base]
           shift == [k \in 1 .. width |-> [x \in Int |-> x \div Base]]
<1>0. Base \in Int /\ Base > 0 BY BufferAssumption
<1>1. \A x \in Int : x \div Base \in Int BY <1>0, DivModFacts
<1>3. shift \in [1 .. width -> [Int -> Int]] BY <1>1
<1>4. PICK g \in [0 .. width -> Int] : Iterates(g, width, v, shift)
  <2> HIDE DEF shift
  <2> QED BY <1>3, IterationDefined
<1>5. g = [n \in 0 .. width |-> IF n = 0 THEN v ELSE g[n - 1] \div Base]
  <2>1. \A k \in 1 .. width : g[k] = g[k - 1] \div Base
    <3> SUFFICES ASSUME NEW k \in 1 .. width PROVE g[k] = g[k - 1] \div Base OBVIOUS
    <3>1. g[k] = shift[k][g[k - 1]] BY <1>4 DEF Iterates
    <3>2. g[k - 1] \in Int OBVIOUS
    <3> QED BY <3>1, <3>2
  <2>2. g[0] = v BY <1>4 DEF Iterates
  <2> QED BY <2>1, <2>2
<1>6. f = [n \in 0 .. width |-> IF n = 0 THEN v ELSE f[n - 1] \div Base] BY <1>5
<1>7. Buffer!Digits(v, width, le) = [i \in 1 .. width |-> f[width - Buffer!Nth(i, width, le)] % Base]
  BY DEF Buffer!Digits
<1> HIDE DEF f
<1>8. f[0] = v /\ \A k \in 1 .. width : f[k] = f[k - 1] \div Base
  <2>1. f[0] = v BY <1>6
  <2>2. ASSUME NEW k \in 1 .. width PROVE f[k] = f[k - 1] \div Base
    <3>1. k \in 0 .. width /\ k # 0 OBVIOUS
    <3> QED BY <3>1, <1>6
  <2> QED BY <2>1, <2>2
<1> DEFINE N == {k \in Nat : k <= width => f[k] \in Int}
<1>9. 0 \in N BY <1>8
<1>10. ASSUME NEW k \in Nat, k \in N PROVE k + 1 \in N
  <2> SUFFICES ASSUME k + 1 <= width PROVE f[k + 1] \in Int OBVIOUS
  <2>1. k + 1 \in 1 .. width /\ (k + 1) - 1 = k /\ f[k] \in Int BY <1>10
  <2>2. f[k + 1] = f[k] \div Base BY <2>1, <1>8
  <2> QED BY <2>1, <2>2, <1>1
<1>11. Nat \subseteq N
  <2> HIDE DEF N
  <2> QED BY <1>9, <1>10, NatSetInduction
<1>12. f \in [0 .. width -> Int]
  <2>1. \A k \in 0 .. width : f[k] \in Int BY <1>11
  <2>2. DOMAIN f = 0 .. width /\ f = [k \in DOMAIN f |-> f[k]] BY <1>6
  <2> QED BY <2>1, <2>2
<1> QED BY <1>7, <1>8, <1>12

(* What is written are bytes ... *)
LEMMA DigitsAreBytes ==
  ASSUME NEW v \in Int, NEW width \in Nat, NEW le \in BOOLEAN
  PROVE  Buffer!Digits(v, width, le) \in [1 .. width -> Buffer!Byte]
<1>0. Base \in Int /\ Base > 0 BY BufferAssumption
<1>1. PICK f : /\ f \in [0 .. width -> Int] /\ f[0] = v
               /\ \A n \in 1 .. width : f[n] = f[n - 1] \div Base
               /\ Buffer!Digits(v, width, le)
                    = [i \in 1 .. width |-> f[width - Buffer!Nth(i, width, le)] % Base]
  BY DigitSteps
<1>2. ASSUME NEW i \in 1 .. width PROVE f[width - Buffer!Nth(i, width, le)] % Base \in Buffer!Byte
  <2>1. width - Buffer!Nth(i, width, le) \in 0 .. width BY DEF Buffer!Nth
  <2>2. f[width - Buffer!Nth(i, width, le)] \in Int BY <2>1, <1>1
  <2> QED BY <2>2, <1>0, DivModFacts DEF Buffer!Byte
<1> QED BY <1>1, <1>2

(* ... and writing what was read from bytes gives those bytes. *)
LEMMA DigitsOfValue ==
  ASSUME NEW width \in Nat, NEW s \in [1 .. width -> Buffer!Byte], NEW le \in BOOLEAN
  PROVE  /\ Buffer!ValueOf(s, width, le) \in Int
         /\ Buffer!Digits(Buffer!ValueOf(s, width, le), width, le) = s
<1> DEFINE nth(k) == Buffer!Nth(k, width, le)
           v == Buffer!ValueOf(s, width, le)
<1>0. Base \in Int /\ Base > 0 BY BufferAssumption
<1>1. s \in [1 .. width -> Int] BY DEF Buffer!Byte
<1>2. PICK f : /\ f \in [0 .. width -> Int] /\ f[width] = v
               /\ \A k \in 1 .. width : f[k] = f[k - 1] * Base + s[nth(k)]
  BY <1>1, ValueSteps
<1>3. v \in Int BY <1>2
<1> HIDE DEF v
<1>4. PICK g : /\ g \in [0 .. width -> Int] /\ g[0] = v
               /\ \A n \in 1 .. width : g[n] = g[n - 1] \div Base
               /\ Buffer!Digits(v, width, le) = [i \in 1 .. width |-> g[width - nth(i)] % Base]
  BY <1>3, DigitSteps
<1>5. \A k \in 1 .. width : nth(k) \in 1 .. width /\ nth(nth(k)) = k BY DEF Buffer!Nth
<1> HIDE DEF nth
<1>6. ASSUME NEW k \in 1 .. width PROVE f[k] \div Base = f[k - 1] /\ f[k] % Base = s[nth(k)]
  <2>1. f[k] = f[k - 1] * Base + s[nth(k)] /\ f[k - 1] \in Int BY <1>2
  <2>2. s[nth(k)] \in 0 .. Base - 1 BY <1>5 DEF Buffer!Byte
  <2>3. f[k] = Base * f[k - 1] + s[nth(k)] BY <2>1, <2>2, <1>0
  <2> DEFINE q == f[k - 1]
             r == s[nth(k)]
  <2>4. (Base * q + r) \div Base = q /\ (Base * q + r) % Base = r
    <3> HIDE DEF q, r
    <3>1. q \in Int /\ r \in 0 .. Base - 1 BY <2>1, <2>2 DEF q, r
    <3> QED BY <3>1, <1>0, DivUnique
  <2> QED BY <2>3, <2>4
<1> DEFINE N == {j \in Nat : j <= width => g[j] = f[width - j]}
<1>7. 0 \in N BY <1>2, <1>4
<1>8. ASSUME NEW j \in Nat, j \in N PROVE j + 1 \in N
  <2> SUFFICES ASSUME j + 1 <= width PROVE g[j + 1] = f[width - (j + 1)] OBVIOUS
  <2>1. /\ j + 1 \in 1 .. width /\ (j + 1) - 1 = j /\ width - j \in 1 .. width
        /\ (width - j) - 1 = width - (j + 1) /\ g[j] = f[width - j]
    BY <1>8
  <2>2. g[j + 1] = g[j] \div Base BY <2>1, <1>4
  <2> QED BY <2>1, <2>2, <1>6
<1>9. Nat \subseteq N
  <2> HIDE DEF N
  <2> QED BY <1>7, <1>8, NatSetInduction
<1>10. ASSUME NEW i \in 1 .. width PROVE g[width - nth(i)] % Base = s[i]
  <2>1. nth(i) \in 1 .. width /\ nth(nth(i)) = i BY <1>5
  <2>2. width - nth(i) \in Nat /\ width - nth(i) <= width /\ width - (width - nth(i)) = nth(i)
    BY <2>1
  <2>3. g[width - nth(i)] = f[nth(i)] BY <2>2, <1>9
  <2> QED BY <2>1, <2>3, <1>6
<1>11. Buffer!Digits(v, width, le) = s BY <1>4, <1>10
<1> QED BY <1>3, <1>11 DEF v

(* A remainder that is not cut, or cut by a multiple. *)
LEMMA ModIs ==
  ASSUME NEW m \in Int, NEW k \in Int, NEW r \in Int, 0 <= r, r < m, NEW x, x = m * k + r
  PROVE  x % m = r
<1>1. m > 0 /\ r \in 0 .. m - 1 OBVIOUS
<1> QED BY <1>1, DivUnique

LEMMA ModSmall == ASSUME NEW m \in Int, NEW r \in Int, 0 <= r, r < m PROVE r % m = r
<1>1. r = m * 0 + r OBVIOUS
<1> QED BY <1>1, ModIs

LEMMA MinPair ==
  ASSUME NEW a \in Int, NEW b \in Int
  PROVE  Buffer!Min({a, b}) = IF a <= b THEN a ELSE b
<1>1. \E x \in {a, b} : \A y \in {a, b} : x <= y OBVIOUS
<1>2. Buffer!Min({a, b}) \in {a, b} /\ \A y \in {a, b} : Buffer!Min({a, b}) <= y
  BY <1>1 DEF Buffer!Min
<1> QED BY <1>2

(* Storing bytes behind a part of a vector. *)
LEMMA StoreFacts ==
  ASSUME NEW S, NEW mem \in Seq(S), NEW s \in Seq(S), NEW base \in Nat, base + Len(s) <= Len(mem),
         NEW i \in 0 .. base
  PROVE  LET new == Buffer!Store(mem, base, s) IN
         /\ new \in Seq(S) /\ Len(new) = Len(mem)
         /\ SubSeq(new, i + 1, base + Len(s)) = SubSeq(mem, i + 1, base) \o s
<1> DEFINE new == Buffer!Store(mem, base, s)
           n == Len(s)
           x == SubSeq(mem, i + 1, base)
           y == SubSeq(new, i + 1, base)
           z == SubSeq(new, base + 1, base + n)
<1>1. n \in Nat /\ Len(mem) \in Nat /\ DOMAIN mem = 1 .. Len(mem) /\ base + n \in Nat OBVIOUS
<1>2. /\ new \in [1 .. Len(mem) -> S]
      /\ \A k \in 1 .. n : new[base + k] = s[k]
      /\ \A k \in 1 .. base : new[k] = mem[k]
  <2>1. new = [k \in 1 .. Len(mem) |-> IF k \in base + 1 .. base + n THEN s[k - base] ELSE mem[k]]
    BY <1>1 DEF Buffer!Store
  <2> HIDE DEF new
  <2>2. ASSUME NEW k \in 1 .. Len(mem)
        PROVE  (IF k \in base + 1 .. base + n THEN s[k - base] ELSE mem[k]) \in S
    <3>1. CASE k \in base + 1 .. base + n
      <4>1. k - base \in 1 .. n BY <3>1, <1>1
      <4> QED BY <3>1, <4>1
    <3>2. CASE ~(k \in base + 1 .. base + n) BY <3>2
    <3> QED BY <3>1, <3>2
  <2>3. ASSUME NEW k \in 1 .. n PROVE new[base + k] = s[k]
    <3>1. base + k \in 1 .. Len(mem) /\ base + k \in base + 1 .. base + n /\ (base + k) - base = k BY <1>1
    <3> QED BY <3>1, <2>1
  <2>4. ASSUME NEW k \in 1 .. base PROVE new[k] = mem[k]
    <3>1. k \in 1 .. Len(mem) /\ ~(k \in base + 1 .. base + n) BY <1>1
    <3> QED BY <3>1, <2>1
  <2> QED BY <2>1, <2>2, <2>3, <2>4
<1> HIDE DEF new
<1>3. new \in Seq(S) /\ Len(new) = Len(mem) BY <1>1, <1>2, TableFacts
<1>4. i \in Nat /\ i <= base /\ base <= base + n /\ base <= Len(mem) /\ base + n <= Len(mem) /\ (base + n) - base = n
  BY <1>1
<1>5. /\ x \in Seq(S) /\ Len(x) = base - i /\ \A k \in 1 .. base - i : x[k] = mem[i + k]
      /\ y \in Seq(S) /\ Len(y) = base - i /\ \A k \in 1 .. base - i : y[k] = new[i + k]
      /\ z \in Seq(S) /\ Len(z) = (base + n) - base /\ \A k \in 1 .. (base + n) - base : z[k] = new[base + k]
  BY <1>1, <1>3, <1>4, WindowFacts
<1>6. SubSeq(new, i + 1, base + n) = y \o z
  <2> DEFINE t == base + n
  <2>1. t \in Nat /\ t <= Len(new) /\ base <= t /\ i <= base /\ i \in Nat /\ new \in Seq(S)
    BY <1>1, <1>3, <1>4
  <2> HIDE DEF t
  <2>2. SubSeq(new, i + 1, t) = SubSeq(new, i + 1, base) \o SubSeq(new, base + 1, t)
    BY <2>1, WindowSplit
  <2> QED BY <2>2 DEF t
<1> HIDE DEF x, y, z
<1>7. x = y
  <2>1. ASSUME NEW k \in 1 .. base - i PROVE x[k] = y[k]
    <3>1. i + k \in 1 .. base OBVIOUS
    <3> QED BY <3>1, <1>2, <1>5
  <2> QED BY <2>1, <1>5, SameEntries
<1>8. z = s
  <2>1. Len(z) = n /\ \A k \in 1 .. n : z[k] = s[k] BY <1>2, <1>4, <1>5
  <2> QED BY <2>1, <1>5, SameEntries
<1> QED BY <1>3, <1>6, <1>7, <1>8 DEF x, new

(* The indices in plain arithmetic: below MaxCapacity nothing wraps. *)
LEMMA BufferSizes ==
  ASSUME Buffer!TypeOK
  PROVE  /\ bytes \in Seq(Buffer!Byte) /\ Len(bytes) \in Nat /\ Len(bytes) <= MaxCapacity
         /\ read_index \in Nat /\ write_index \in Nat
         /\ read_index <= write_index /\ write_index <= Len(bytes)
         /\ expand_size \in Nat /\ expand_size > 0 /\ expand_size \in ExpandSizes
         /\ Buffer!ReadableBytes = write_index - read_index
         /\ Buffer!WritableBytes = Len(bytes) - write_index
         /\ Buffer!Capacity = Len(bytes)
<1>1. /\ bytes \in Seq(Buffer!Byte) /\ Len(bytes) <= MaxCapacity
      /\ expand_size \in ExpandSizes
      /\ read_index \in 0 .. write_index /\ write_index \in 0 .. Len(bytes)
  BY DEF Buffer!TypeOK, Buffer!Capacity
<1>2. /\ Len(bytes) \in Nat /\ read_index \in Nat /\ write_index \in Nat
      /\ read_index <= write_index /\ write_index <= Len(bytes)
  BY <1>1
<1>3. expand_size \in Nat /\ expand_size > 0 BY <1>1, BufferAssumption
<1>4. Word \in Int /\ Len(bytes) < Word BY <1>1, <1>2, BufferAssumption
<1>5. (write_index - read_index) % Word = write_index - read_index
  <2> DEFINE x == write_index - read_index
  <2>1. x \in Int /\ 0 <= x /\ x < Word BY <1>2, <1>4
  <2> HIDE DEF x
  <2>2. x % Word = x BY <2>1, <1>4, ModSmall
  <2> QED BY <2>2 DEF x
<1>6. (Len(bytes) - write_index) % Word = Len(bytes) - write_index
  <2> DEFINE x == Len(bytes) - write_index
  <2>1. x \in Int /\ 0 <= x /\ x < Word BY <1>2, <1>4
  <2> HIDE DEF x
  <2>2. x % Word = x BY <2>1, <1>4, ModSmall
  <2> QED BY <2>2 DEF x
<1> QED BY <1>1, <1>2, <1>3, <1>5, <1>6
        DEF Buffer!ReadableBytes, Buffer!WritableBytes, Buffer!Capacity

(* Rounded up beyond x to a multiple of e. *)
LEMMA RoundedUp ==
  ASSUME NEW x \in Int, NEW e \in Int, e > 0
  PROVE  /\ e * ((x \div e) + 1) \in Int
         /\ x < e * ((x \div e) + 1) /\ e * ((x \div e) + 1) <= x + e
<1> DEFINE q == x \div e
           r == x % e
<1>1. q \in Int /\ r \in 0 .. e - 1 /\ x = e * q + r BY DivModFacts
<1> HIDE DEF q, r
<1>2. e * (q + 1) = e * q + e /\ e * q \in Int BY <1>1
<1> QED BY <1>1, <1>2 DEF q

(* The size of the new vector leaves the room asked for behind the readable
   bytes, and less than two expansions more; the unsigned subtraction that
   wraps is undone when the sum wraps again. *)
LEMMA NewSizeFacts ==
  ASSUME Buffer!TypeOK, NEW size \in Sizes \cup Widths
  PROVE  /\ Buffer!NewSize(size) \in Nat
         /\ Buffer!NewSize(size) - (write_index - read_index) \in size .. size + 2 * expand_size - 1
<1> DEFINE cap == Len(bytes)
           r == read_index
           w == write_index
           e == expand_size
           free == r + (cap - w)
           new == Buffer!NewSize(size)
<1>1. /\ cap \in Nat /\ r \in Nat /\ w \in Nat /\ e \in Nat /\ e > 0 /\ r <= w /\ w <= cap
      /\ cap <= MaxCapacity /\ e \in ExpandSizes
      /\ Buffer!WritableBytes = cap - w /\ Buffer!Capacity = cap
  BY BufferSizes
<1>2. size \in Nat /\ Word \in Int /\ MaxCapacity \in Nat /\ MaxCapacity + size + e < Word
  BY <1>1, BufferAssumption
<1>3. free \in Nat /\ free <= cap /\ cap - (w - r) = free /\ cap < Word /\ w - r \in Nat
  BY <1>1, <1>2
<1>4. free % Word = free
  <2>1. 0 <= free /\ free < Word /\ free \in Int BY <1>1, <1>2, <1>3
  <2> HIDE DEF free
  <2> QED BY <1>2, <2>1, ModSmall
<1> DEFINE d == (size - free) % Word
           m == e * ((d \div e) + 1)
<1>5. new = IF free >= size /\ free - size < e THEN (cap + e) % Word ELSE (cap + m) % Word
  BY <1>1, <1>4 DEF Buffer!NewSize, Buffer!DiscardableBytes
<1> HIDE DEF cap, r, w, e, free, new, d
<1>6. CASE free >= size /\ free - size < e
  <2>1. (cap + e) % Word = cap + e
    <3> DEFINE x == cap + e
    <3>1. x \in Int /\ 0 <= x /\ x < Word BY <1>1, <1>2, <1>3
    <3> HIDE DEF x
    <3>2. x % Word = x BY <1>2, <3>1, ModSmall
    <3> QED BY <3>2 DEF x
  <2>2. new = cap + e BY <1>5, <1>6, <2>1
  <2> QED BY <2>2, <1>1, <1>2, <1>3, <1>6 DEF new, w, r, e
<1>7. CASE size > free
  <2>1. d = size - free
    <3> DEFINE x == size - free
    <3>1. x \in Int /\ 0 <= x /\ x < Word BY <1>1, <1>2, <1>3, <1>7
    <3> HIDE DEF x
    <3>2. x % Word = x BY <1>2, <3>1, ModSmall
    <3> QED BY <3>2 DEF x, d
  <2>2. d \in Int /\ e \in Int BY <2>1, <1>1, <1>2, <1>3
  <2>3. m \in Int /\ d < m /\ m <= d + e BY <2>2, <1>1, RoundedUp
  <2> HIDE DEF m
  <2>4. (cap + m) % Word = cap + m
    <3> DEFINE x == cap + m
    <3>1. x \in Int /\ 0 <= x /\ x < Word BY <1>1, <1>2, <1>3, <1>7, <2>1, <2>3
    <3> HIDE DEF x
    <3>2. x % Word = x BY <1>2, <3>1, ModSmall
    <3> QED BY <3>2 DEF x
  <2>5. new = cap + m BY <1>1, <1>2, <1>3, <1>5, <1>7, <2>4
  <2>6. new \in Nat /\ new - (w - r) \in size .. size + 2 * e - 1
    BY <2>1, <2>3, <2>5, <1>1, <1>2, <1>3, <1>7
  <2> QED BY <2>6 DEF new, w, r, e
<1>8. CASE free >= size + e
  <2>1. d = Word + (size - free)
    <3>1. /\ size - free = Word * (-1) + (Word + (size - free)) /\ 0 <= Word + (size - free)
          /\ Word + (size - free) < Word /\ Word + (size - free) \in Int
      BY <1>1, <1>2, <1>3, <1>8
    <3> QED BY <1>2, <3>1, ModIs DEF d
  <2>2. d \in Int /\ e \in Int BY <2>1, <1>1, <1>2, <1>3
  <2>3. m \in Int /\ d < m /\ m <= d + e BY <2>2, <1>1, RoundedUp
  <2> HIDE DEF m
  <2>4. (cap + m) % Word = cap + m - Word
    <3>1. /\ cap + m = Word * 1 + (cap + m - Word) /\ 0 <= cap + m - Word
          /\ cap + m - Word < Word /\ cap + m - Word \in Int
      BY <1>1, <1>2, <1>3, <1>8, <2>1, <2>3
    <3> QED BY <1>2, <3>1, ModIs
  <2>5. new = cap + m - Word BY <1>1, <1>2, <1>3, <1>5, <1>8, <2>4
  <2>6. new \in Nat /\ new - (w - r) \in size .. size + 2 * e - 1
    BY <2>1, <2>3, <2>5, <1>1, <1>2, <1>3, <1>8
  <2> QED BY <2>6 DEF new, w, r, e
<1> QED BY <1>1, <1>2, <1>3, <1>6, <1>7, <1>8

LEMMA ZerosFacts ==
  ASSUME NEW n \in Nat
  PROVE  Buffer!Zeros(n) \in Seq(Buffer!Byte) /\ Len(Buffer!Zeros(n)) = n
<1>1. 0 \in Buffer!Byte BY BufferAssumption DEF Buffer!Byte
<1>2. Buffer!Zeros(n) \in [1 .. n -> Buffer!Byte] BY <1>1 DEF Buffer!Zeros
<1> QED BY <1>2, TableFacts

(* A vector that reserveWritableBytes leaves: b, read from rd to at. *)
MadeRoom(b, rd, base, size) ==
  /\ b \in Seq(Buffer!Byte) /\ Len(b) \in Nat /\ Len(b) <= MaxCapacity
  /\ rd \in Nat /\ base \in Nat /\ rd <= base /\ base + size <= Len(b)
  /\ SubSeq(b, rd + 1, base) = Buffer!Readable

LEMMA ReservedFacts ==
  ASSUME Buffer!TypeOK, NEW size \in Sizes \cup Widths, Buffer!Affordable(size)
  PROVE  /\ MadeRoom(Buffer!Reserved(size), IF Buffer!Moves(size) THEN 0 ELSE read_index,
                     Buffer!ReservedAt(size), size)
         /\ Buffer!Moves(size) => Len(Buffer!Reserved(size)) - Buffer!ReservedAt(size)
                                    \in size .. size + 2 * expand_size - 1
<1>1. /\ bytes \in Seq(Buffer!Byte) /\ Len(bytes) \in Nat /\ Len(bytes) <= MaxCapacity
      /\ read_index \in Nat /\ write_index \in Nat
      /\ read_index <= write_index /\ write_index <= Len(bytes) /\ expand_size \in Nat
      /\ Buffer!ReadableBytes = write_index - read_index
      /\ Buffer!WritableBytes = Len(bytes) - write_index
  BY BufferSizes
<1>2. size \in Nat /\ MaxCapacity \in Nat BY BufferAssumption
<1>3. CASE ~Buffer!Moves(size)
  <2>1. write_index + size <= Len(bytes) BY <1>1, <1>2, <1>3 DEF Buffer!Moves
  <2>2. Buffer!Reserved(size) = bytes /\ Buffer!ReservedAt(size) = write_index
    BY <1>3 DEF Buffer!Reserved, Buffer!ReservedAt
  <2> QED BY <2>1, <2>2, <1>1, <1>3 DEF MadeRoom, Buffer!Readable
<1>4. CASE Buffer!Moves(size)
  <2> DEFINE n == write_index - read_index
             q == Buffer!Readable
             new == Buffer!NewSize(size)
             z == Buffer!Zeros(new - n)
             b == q \o z
  <2>1. new \in Nat /\ new - n \in size .. size + 2 * expand_size - 1 BY NewSizeFacts
  <2>2. new <= MaxCapacity BY <1>4 DEF Buffer!Affordable
  <2>3. q \in Seq(Buffer!Byte) /\ Len(q) = n BY <1>1, WindowFacts DEF Buffer!Readable
  <2>4. n \in Nat /\ new - n \in Nat BY <2>1, <1>1, <1>2
  <2> HIDE DEF n, new
  <2>5. z \in Seq(Buffer!Byte) /\ Len(z) = new - n BY <2>4, ZerosFacts
  <2> HIDE DEF q, z
  <2>6. b \in Seq(Buffer!Byte) /\ Len(b) = Len(q) + Len(z) /\ \A k \in 1 .. Len(q) : b[k] = q[k]
    BY <2>3, <2>5, ConcatFacts
  <2>7. Len(b) = new BY <2>1, <2>3, <2>4, <2>5, <2>6
  <2> HIDE DEF b
  <2>8. SubSeq(b, 0 + 1, n) = q
    <3>1. 0 \in Nat /\ 0 <= n /\ n <= Len(b) BY <2>1, <2>4, <2>7
    <3>2. /\ SubSeq(b, 0 + 1, n) \in Seq(Buffer!Byte) /\ Len(SubSeq(b, 0 + 1, n)) = n - 0
          /\ \A k \in 1 .. n - 0 : SubSeq(b, 0 + 1, n)[k] = b[0 + k]
      BY <2>4, <2>6, <3>1, WindowFacts
    <3> DEFINE x == SubSeq(b, 0 + 1, n)
    <3> HIDE DEF x
    <3>3. Len(x) = Len(q) /\ x \in Seq(Buffer!Byte) BY <3>2, <2>3, <2>4 DEF x
    <3>4. ASSUME NEW k \in 1 .. Len(x) PROVE x[k] = q[k]
      <4>1. k \in 1 .. n - 0 /\ k \in 1 .. Len(q) /\ 0 + k = k BY <3>3, <2>3, <2>4
      <4>2. x[k] = b[0 + k] BY <4>1, <3>2 DEF x
      <4> QED BY <4>1, <4>2, <2>6
    <3>5. x = q BY <3>3, <3>4, <2>3, SameEntries
    <3> QED BY <3>5 DEF x
  <2>9. Buffer!Reserved(size) = b /\ Buffer!ReservedAt(size) = n
    BY <1>1, <1>4 DEF Buffer!Reserved, Buffer!ReservedAt, b, z, q, n, new
  <2>10. n + size <= Len(b) BY <2>1, <2>4, <2>7, <1>1, <1>2
  <2>11. MadeRoom(b, 0, n, size)
    BY <2>1, <2>2, <2>4, <2>6, <2>7, <2>8, <2>10 DEF MadeRoom, q
  <2>12. Len(b) - n \in size .. size + 2 * expand_size - 1 BY <2>1, <2>7
  <2> QED BY <2>9, <2>11, <2>12, <1>4
<1> QED BY <1>3, <1>4

(* What peekInt finds is the integer whose bytes are there. *)
LEMMA PeekFacts ==
  ASSUME Buffer!TypeOK, NEW width \in Nat, NEW offset \in Nat, NEW le \in BOOLEAN,
         Buffer!CanPeek(width, offset)
  PROVE  Buffer!Digits(Buffer!PeekInt(width, offset, le), width, le)
           = SubSeq(Buffer!Readable, offset + 1, offset + width)
<1>1. /\ bytes \in Seq(Buffer!Byte) /\ Len(bytes) \in Nat
      /\ read_index \in Nat /\ write_index \in Nat
      /\ read_index <= write_index /\ write_index <= Len(bytes)
      /\ Buffer!ReadableBytes = write_index - read_index
  BY BufferSizes
<1> DEFINE i == read_index + offset
           j == i + width
           s == SubSeq(bytes, i + 1, j)
<1>2. /\ offset + width <= write_index - read_index /\ i \in Nat /\ j \in Nat /\ i <= j
      /\ j <= Len(bytes) /\ j - i = width
  BY <1>1 DEF Buffer!CanPeek
<1> HIDE DEF i, j
<1>3. s \in Seq(Buffer!Byte) /\ Len(s) = j - i BY <1>1, <1>2, WindowFacts
<1> HIDE DEF s
<1>4. s \in [1 .. width -> Buffer!Byte] BY <1>2, <1>3
<1>5. Buffer!Digits(Buffer!ValueOf(s, width, le), width, le) = s BY <1>4, DigitsOfValue
<1>6. Buffer!PeekInt(width, offset, le) = Buffer!ValueOf(s, width, le)
  BY DEF Buffer!PeekInt, s, i, j
<1>7. s = SubSeq(Buffer!Readable, offset + 1, offset + width)
  <2> DEFINE b == offset + width
  <2>1. /\ b \in Nat /\ offset <= b /\ b <= write_index - read_index /\ read_index + b = j
    BY <1>1, <1>2 DEF i, j
  <2> HIDE DEF b
  <2>2. SubSeq(SubSeq(bytes, read_index + 1, write_index), offset + 1, b)
          = SubSeq(bytes, (read_index + offset) + 1, read_index + b)
    BY <1>1, <2>1, WindowInWindow
  <2> QED BY <2>1, <2>2 DEF b, i, s, Buffer!Readable
<1> QED BY <1>5, <1>6, <1>7

(* Bytes leave at the read index: the queue loses its first n. *)
LEMMA AdvanceFacts ==
  ASSUME Buffer!TypeOK, NEW n \in 0 .. write_index - read_index, Buffer!Advance(n),
         bytes' = bytes, expand_size' = expand_size, moved' \in Seq(Buffer!Byte)
  PROVE  /\ Buffer!TypeOK'
         /\ Buffer!Readable = SubSeq(bytes, read_index + 1, read_index + n) \o Buffer!Readable'
         /\ n \in 0 .. Len(Buffer!Readable)
         /\ Buffer!Readable' = SubSeq(Buffer!Readable, n + 1, Len(Buffer!Readable))
<1>1. /\ bytes \in Seq(Buffer!Byte) /\ Len(bytes) \in Nat /\ Len(bytes) <= MaxCapacity
      /\ read_index \in Nat /\ write_index \in Nat /\ expand_size \in ExpandSizes
      /\ read_index <= write_index /\ write_index <= Len(bytes)
  BY BufferSizes
<1> DEFINE m == read_index + n
           q == Buffer!Readable
<1>2. n \in Nat /\ m \in Nat /\ read_index <= m /\ m <= write_index BY <1>1
<1>3. \/ m = write_index /\ read_index' = 0 /\ write_index' = 0
      \/ m # write_index /\ read_index' = m /\ write_index' = write_index
  BY DEF Buffer!Advance
<1>4. /\ read_index' \in Nat /\ write_index' \in Nat /\ read_index' <= write_index'
      /\ write_index' <= Len(bytes)
  BY <1>1, <1>2, <1>3
<1>5. Buffer!TypeOK' BY <1>1, <1>4 DEF Buffer!TypeOK, Buffer!Capacity
<1>6. Buffer!Readable' = SubSeq(bytes, read_index' + 1, write_index') BY DEF Buffer!Readable
<1> HIDE DEF m
<1>7. SubSeq(bytes, read_index' + 1, write_index') = SubSeq(bytes, m + 1, write_index)
  <2>1. CASE m # write_index BY <2>1, <1>3
  <2>2. CASE m = write_index
    <3>1. SubSeq(bytes, write_index + 1, write_index) = << >> BY <1>1
    <3>2. SubSeq(bytes, 0 + 1, 0) = << >> BY <1>1
    <3> QED BY <3>1, <3>2, <2>2, <1>3
  <2> QED BY <2>1, <2>2
<1>8. SubSeq(bytes, read_index + 1, write_index)
        = SubSeq(bytes, read_index + 1, m) \o SubSeq(bytes, m + 1, write_index)
  BY <1>1, <1>2, WindowSplit
<1>9. q \in Seq(Buffer!Byte) /\ Len(q) = write_index - read_index
  BY <1>1, WindowFacts DEF Buffer!Readable
<1>10. SubSeq(q, n + 1, Len(q)) = SubSeq(bytes, m + 1, write_index)
  <2> DEFINE l == write_index - read_index
  <2>1. l \in Nat /\ n <= l /\ read_index + l = write_index /\ l <= l BY <1>1
  <2> HIDE DEF l
  <2>2. SubSeq(SubSeq(bytes, read_index + 1, write_index), n + 1, l)
          = SubSeq(bytes, (read_index + n) + 1, read_index + l)
    <3>1. l <= write_index - read_index BY <1>1 DEF l
    <3> QED BY <1>1, <1>2, <2>1, <3>1, WindowInWindow
  <2> QED BY <2>1, <2>2, <1>9 DEF Buffer!Readable, l, m
<1>11. n \in 0 .. Len(q) BY <1>9
<1> QED BY <1>5, <1>6, <1>7, <1>8, <1>10, <1>11 DEF m, Buffer!Readable

(* The steps of the buffer are steps of a queue of bytes. *)
QueueStep == Buffer!Queue!Put \/ Buffer!Queue!Take \/ Buffer!Queue!Drop

(* reserveWritableBytes moves no byte across the queue's ends, and makes the
   room asked for. *)
LEMMA ReserveStep ==
  ASSUME Buffer!TypeOK, NEW size \in Sizes, Buffer!ReserveWritableBytes(size)
  PROVE  /\ Buffer!TypeOK' /\ QueueStep
         /\ Buffer!Moves(size) => Len(bytes') - write_index' \in size .. size + 2 * expand_size - 1
<1> DEFINE b == Buffer!Reserved(size)
           rd == IF Buffer!Moves(size) THEN 0 ELSE read_index
           base == Buffer!ReservedAt(size)
<1>1. /\ Buffer!Affordable(size) /\ bytes' = b /\ write_index' = base
      /\ read_index' = rd /\ moved' = << >> /\ expand_size' = expand_size
  BY DEF Buffer!ReserveWritableBytes
<1>2. MadeRoom(b, rd, base, size)
      /\ (Buffer!Moves(size) => Len(b) - base \in size .. size + 2 * expand_size - 1)
  BY <1>1, ReservedFacts
<1>3. size \in Nat BY BufferAssumption
<1> HIDE DEF b, rd, base
<1>4. /\ b \in Seq(Buffer!Byte) /\ Len(b) \in Nat /\ Len(b) <= MaxCapacity
      /\ rd \in 0 .. base /\ base \in 0 .. Len(b)
      /\ SubSeq(b, rd + 1, base) = Buffer!Readable
  BY <1>2, <1>3 DEF MadeRoom
<1>5. Buffer!TypeOK'
  <2>1. expand_size \in ExpandSizes BY DEF Buffer!TypeOK
  <2> QED BY <1>1, <1>4, <2>1 DEF Buffer!TypeOK, Buffer!Capacity
<1>6. Buffer!Readable' = Buffer!Readable BY <1>1, <1>4 DEF Buffer!Readable
<1>7. Buffer!Readable \in Seq(Buffer!Byte) BY BufferSizes, WindowFacts DEF Buffer!Readable
<1>8. Buffer!Queue!Put
  <2>1. Buffer!Readable \o << >> = Buffer!Readable BY <1>7
  <2> QED BY <1>1, <1>6, <2>1 DEF Buffer!Queue!Put
<1> QED BY <1>1, <1>2, <1>5, <1>8 DEF QueueStep

(* writeBytes and the writeInts append their bytes. *)
LEMMA PutStep ==
  ASSUME Buffer!TypeOK, NEW s \in Seq(Buffer!Byte), Len(s) \in Sizes \cup Widths, Buffer!PutBytes(s)
  PROVE  Buffer!TypeOK' /\ QueueStep
<1> DEFINE size == Len(s)
           b == Buffer!Reserved(size)
           rd == IF Buffer!Moves(size) THEN 0 ELSE read_index
           base == Buffer!ReservedAt(size)
           new == Buffer!Store(b, base, s)
<1>1. /\ Buffer!Affordable(size) /\ bytes' = new /\ write_index' = base + size
      /\ read_index' = rd /\ moved' = s /\ expand_size' = expand_size
  BY DEF Buffer!PutBytes
<1>2. MadeRoom(b, rd, base, size) BY <1>1, ReservedFacts
<1>3. size \in Nat OBVIOUS
<1> HIDE DEF b, rd, base
<1>4. /\ b \in Seq(Buffer!Byte) /\ Len(b) \in Nat /\ Len(b) <= MaxCapacity
      /\ rd \in Nat /\ base \in Nat /\ rd <= base /\ rd \in 0 .. base /\ base + size <= Len(b)
      /\ SubSeq(b, rd + 1, base) = Buffer!Readable
  BY <1>2, <1>3 DEF MadeRoom
<1>5. /\ new \in Seq(Buffer!Byte) /\ Len(new) = Len(b)
      /\ SubSeq(new, rd + 1, base + size) = SubSeq(b, rd + 1, base) \o s
  BY <1>4, StoreFacts
<1> HIDE DEF new
<1>6. Buffer!TypeOK'
  <2>1. expand_size \in ExpandSizes BY DEF Buffer!TypeOK
  <2>2. rd \in 0 .. base + size /\ base + size \in 0 .. Len(new) BY <1>3, <1>4, <1>5
  <2> QED BY <1>1, <1>4, <1>5, <2>1, <2>2 DEF Buffer!TypeOK, Buffer!Capacity
<1>7. Buffer!Readable' = Buffer!Readable \o s BY <1>1, <1>4, <1>5 DEF Buffer!Readable
<1>8. Buffer!Queue!Put BY <1>1, <1>7 DEF Buffer!Queue!Put
<1> QED BY <1>6, <1>8 DEF QueueStep

(* write appends what the caller stored at writeBegin(), as far as it fits. *)
LEMMA WriteBytesStep ==
  ASSUME Buffer!TypeOK, NEW size \in Sizes,
         NEW s \in [1 .. Buffer!Min({size, Buffer!WritableBytes}) -> Buffer!Byte],
         Buffer!Write(s, size)
  PROVE  Buffer!TypeOK' /\ QueueStep
<1> DEFINE n == Buffer!Min({size, Buffer!WritableBytes})
           new == Buffer!Store(bytes, write_index, s)
<1>1. /\ bytes \in Seq(Buffer!Byte) /\ Len(bytes) \in Nat /\ Len(bytes) <= MaxCapacity
      /\ read_index \in Nat /\ write_index \in Nat /\ expand_size \in ExpandSizes
      /\ read_index <= write_index /\ write_index <= Len(bytes)
      /\ Buffer!WritableBytes = Len(bytes) - write_index
  BY BufferSizes
<1>2. size \in Nat BY BufferAssumption
<1>3. n \in Nat /\ write_index + n <= Len(bytes)
  <2> DEFINE w == Buffer!WritableBytes
  <2>1. w \in Int /\ size \in Int /\ w = Len(bytes) - write_index BY <1>1, <1>2
  <2> HIDE DEF w
  <2>2. Buffer!Min({size, w}) = IF size <= w THEN size ELSE w BY <2>1, MinPair
  <2> QED BY <2>1, <2>2, <1>1, <1>2 DEF w
<1>4. /\ bytes' = new /\ write_index' = write_index + n /\ moved' = s
      /\ expand_size' = expand_size /\ read_index' = read_index
  BY DEF Buffer!Write
<1> HIDE DEF n
<1>5. s \in Seq(Buffer!Byte) /\ Len(s) = n
  <2>1. s \in [1 .. n -> Buffer!Byte] BY DEF n
  <2> QED BY <2>1, <1>3, TableFacts
<1>6. /\ new \in Seq(Buffer!Byte) /\ Len(new) = Len(bytes)
      /\ SubSeq(new, read_index + 1, write_index + Len(s))
           = SubSeq(bytes, read_index + 1, write_index) \o s
  <2>1. read_index \in 0 .. write_index /\ write_index + Len(s) <= Len(bytes) BY <1>1, <1>3, <1>5
  <2> QED BY <1>1, <1>5, <2>1, StoreFacts
<1> HIDE DEF new
<1>7. Buffer!TypeOK'
  <2>1. read_index \in 0 .. write_index + n /\ write_index + n \in 0 .. Len(new) BY <1>1, <1>3, <1>6
  <2> QED BY <1>1, <1>4, <1>5, <1>6, <2>1 DEF Buffer!TypeOK, Buffer!Capacity
<1>8. Buffer!Readable' = Buffer!Readable \o s BY <1>4, <1>5, <1>6 DEF Buffer!Readable
<1>9. Buffer!Queue!Put BY <1>4, <1>8 DEF Buffer!Queue!Put
<1> QED BY <1>7, <1>9 DEF QueueStep

(* read and readBytes count no more than what is readable. *)
LEMMA ReadAtMost ==
  ASSUME Buffer!TypeOK, NEW size \in Sizes
  PROVE  Buffer!Min({size, Buffer!ReadableBytes}) \in 0 .. write_index - read_index
<1> DEFINE r == Buffer!ReadableBytes
<1>1. /\ read_index \in Nat /\ write_index \in Nat /\ read_index <= write_index
      /\ r = write_index - read_index
  BY BufferSizes
<1>2. size \in Nat BY BufferAssumption
<1> HIDE DEF r
<1>3. r \in Int /\ size \in Int BY <1>1, <1>2
<1>4. Buffer!Min({size, r}) = IF size <= r THEN size ELSE r BY <1>3, MinPair
<1> QED BY <1>1, <1>2, <1>4 DEF r

(* read drops bytes from the front. *)
LEMMA ReadStep ==
  ASSUME Buffer!TypeOK, NEW size \in Sizes, Buffer!Read(size)
  PROVE  Buffer!TypeOK' /\ QueueStep
<1> DEFINE n == Buffer!Min({size, Buffer!ReadableBytes})
<1>1. n \in 0 .. write_index - read_index BY ReadAtMost
<1>2. Buffer!Advance(n) /\ moved' = << >> /\ bytes' = bytes /\ expand_size' = expand_size
  BY DEF Buffer!Read
<1> HIDE DEF n
<1>3. moved' \in Seq(Buffer!Byte) BY <1>2
<1>4. /\ Buffer!TypeOK' /\ n \in 0 .. Len(Buffer!Readable)
      /\ Buffer!Readable' = SubSeq(Buffer!Readable, n + 1, Len(Buffer!Readable))
  BY <1>1, <1>2, <1>3, AdvanceFacts
<1>5. Buffer!Queue!Drop BY <1>2, <1>4 DEF Buffer!Queue!Drop
<1> QED BY <1>4, <1>5 DEF QueueStep

(* readBytes takes bytes from the front. *)
LEMMA ReadBytesStep ==
  ASSUME Buffer!TypeOK, NEW size \in Sizes, Buffer!ReadBytes(size)
  PROVE  Buffer!TypeOK' /\ QueueStep
<1> DEFINE n == Buffer!Min({size, Buffer!ReadableBytes})
<1>1. n \in 0 .. write_index - read_index BY ReadAtMost
<1>2. /\ Buffer!Advance(n) /\ bytes' = bytes /\ expand_size' = expand_size
      /\ moved' = SubSeq(bytes, read_index + 1, read_index + n)
  BY DEF Buffer!ReadBytes
<1> HIDE DEF n
<1>3. moved' \in Seq(Buffer!Byte)
  <2>1. /\ bytes \in Seq(Buffer!Byte) /\ Len(bytes) \in Nat
        /\ read_index \in Nat /\ write_index \in Nat /\ write_index <= Len(bytes)
    BY BufferSizes
  <2>2. read_index <= read_index + n /\ read_index + n \in Nat /\ read_index + n <= Len(bytes)
    BY <1>1, <2>1
  <2> QED BY <1>2, <2>1, <2>2, WindowFacts
<1>4. /\ Buffer!TypeOK'
      /\ Buffer!Readable = SubSeq(bytes, read_index + 1, read_index + n) \o Buffer!Readable'
  BY <1>1, <1>2, <1>3, AdvanceFacts
<1>5. Buffer!Queue!Take BY <1>2, <1>4 DEF Buffer!Queue!Take
<1> QED BY <1>4, <1>5 DEF QueueStep

(* The readInts take the bytes of the integer they return. *)
LEMMA ReadIntStep ==
  ASSUME Buffer!TypeOK, NEW width \in Widths, NEW le \in BOOLEAN, Buffer!ReadInt(width, le)
  PROVE  Buffer!TypeOK' /\ QueueStep
<1>1. /\ bytes \in Seq(Buffer!Byte) /\ Len(bytes) \in Nat
      /\ read_index \in Nat /\ write_index \in Nat
      /\ read_index <= write_index /\ write_index <= Len(bytes)
      /\ Buffer!ReadableBytes = write_index - read_index
  BY BufferSizes
<1>2. width \in Nat BY BufferAssumption
<1>3. /\ Buffer!Advance(width) /\ bytes' = bytes /\ expand_size' = expand_size
      /\ moved' = Buffer!Digits(Buffer!PeekInt(width, 0, le), width, le)
      /\ Buffer!CanPeek(width, 0)
  BY DEF Buffer!ReadInt
<1>4. width <= write_index - read_index BY <1>1, <1>2, <1>3 DEF Buffer!CanPeek
<1>5. moved' = SubSeq(Buffer!Readable, 1, width)
  <2>1. Buffer!Digits(Buffer!PeekInt(width, 0, le), width, le)
          = SubSeq(Buffer!Readable, 0 + 1, 0 + width)
    BY <1>2, <1>3, PeekFacts
  <2> QED BY <1>2, <1>3, <2>1
<1>6. SubSeq(Buffer!Readable, 1, width) = SubSeq(bytes, read_index + 1, read_index + width)
  <2>1. SubSeq(SubSeq(bytes, read_index + 1, write_index), 0 + 1, width)
          = SubSeq(bytes, (read_index + 0) + 1, read_index + width)
    BY <1>1, <1>2, <1>4, WindowInWindow
  <2>2. (read_index + 0) + 1 = read_index + 1 /\ 0 + 1 = 1 BY <1>1
  <2> QED BY <2>1, <2>2 DEF Buffer!Readable
<1>7. moved' \in Seq(Buffer!Byte)
  <2>1. read_index <= read_index + width /\ read_index + width \in Nat
        /\ read_index + width <= Len(bytes)
    BY <1>1, <1>2, <1>4
  <2> QED BY <1>1, <1>5, <1>6, <2>1, WindowFacts
<1>8. /\ Buffer!TypeOK'
      /\ Buffer!Readable = SubSeq(bytes, read_index + 1, read_index + width) \o Buffer!Readable'
  <2>1. width \in 0 .. write_index - read_index BY <1>1, <1>2, <1>4
  <2> QED BY <1>3, <1>7, <2>1, AdvanceFacts
<1>9. Buffer!Queue!Take BY <1>5, <1>6, <1>8 DEF Buffer!Queue!Take
<1> QED BY <1>8, <1>9 DEF QueueStep

(* The writeInts append the bytes of their integer. *)
LEMMA WriteIntStep ==
  ASSUME Buffer!TypeOK, NEW width \in Widths, NEW le \in BOOLEAN, NEW v \in Int,
         Buffer!WriteInt(v, width, le)
  PROVE  Buffer!TypeOK' /\ QueueStep
<1> DEFINE s == Buffer!Digits(v, width, le)
<1>1. width \in Nat BY BufferAssumption
<1>2. s \in [1 .. width -> Buffer!Byte] BY <1>1, DigitsAreBytes
<1>3. Buffer!PutBytes(s) BY DEF Buffer!WriteInt
<1> HIDE DEF s
<1>4. s \in Seq(Buffer!Byte) /\ Len(s) = width BY <1>1, <1>2, TableFacts
<1> QED BY <1>3, <1>4, PutStep

(* clear drops everything. *)
LEMMA ClearStep == ASSUME Buffer!TypeOK, Buffer!Clear PROVE Buffer!TypeOK' /\ QueueStep
<1>1. /\ bytes \in Seq(Buffer!Byte) /\ Len(bytes) \in Nat /\ Len(bytes) <= MaxCapacity
      /\ read_index \in Nat /\ write_index \in Nat /\ expand_size \in ExpandSizes
      /\ read_index <= write_index /\ write_index <= Len(bytes)
  BY BufferSizes
<1>2. read_index' = 0 /\ write_index' = 0 /\ moved' = << >> /\ bytes' = bytes
      /\ expand_size' = expand_size
  BY DEF Buffer!Clear
<1>3. Buffer!TypeOK' BY <1>1, <1>2 DEF Buffer!TypeOK, Buffer!Capacity
<1>4. Buffer!Readable \in Seq(Buffer!Byte) BY <1>1, WindowFacts DEF Buffer!Readable
<1>5. Buffer!Readable' = << >>
  <2>1. SubSeq(bytes, 0 + 1, 0) = << >> BY <1>1
  <2> QED BY <1>2, <2>1 DEF Buffer!Readable
<1>6. Buffer!Queue!Drop
  <2> DEFINE q == Buffer!Readable
  <2> HIDE DEF q
  <2>1. q \in Seq(Buffer!Byte) BY <1>4 DEF q
  <2>2. Len(q) \in 0 .. Len(q) /\ SubSeq(q, Len(q) + 1, Len(q)) = << >> BY <2>1
  <2> QED BY <1>2, <1>5, <2>2 DEF Buffer!Queue!Drop, q
<1> QED BY <1>3, <1>6 DEF QueueStep

(* The constructor makes an empty queue. *)
LEMMA BufferStart ==
  ASSUME Buffer!Init
  PROVE  Buffer!TypeOK /\ Buffer!Queue!ByteInit
<1>1. /\ bytes = Buffer!Zeros(InitSize) /\ expand_size \in ExpandSizes
      /\ read_index = 0 /\ write_index = 0 /\ moved = << >>
  BY DEF Buffer!Init
<1>2. bytes \in Seq(Buffer!Byte) /\ Len(bytes) = InitSize /\ InitSize \in Nat
      /\ InitSize <= MaxCapacity
  BY <1>1, ZerosFacts, BufferAssumption
<1>3. Buffer!TypeOK BY <1>1, <1>2 DEF Buffer!TypeOK, Buffer!Capacity
<1>4. SubSeq(bytes, 0 + 1, 0) = << >> BY <1>2
<1> QED BY <1>1, <1>3, <1>4 DEF Buffer!Queue!ByteInit, Buffer!Readable

(* Every operation keeps the indices inside the vector and is a step of the
   queue of bytes. *)
LEMMA BufferStep ==
  ASSUME Buffer!TypeOK, [Buffer!Next]_bufferVars
  PROVE  Buffer!TypeOK' /\ [Buffer!Queue!ByteNext]_(Buffer!Queue!bvars)
<1>1. CASE UNCHANGED bufferVars
  BY <1>1 DEF bufferVars, Buffer!TypeOK, Buffer!Capacity, Buffer!Readable, Buffer!Queue!bvars
<1>2. CASE Buffer!Next
  <2>1. Buffer!TypeOK' /\ QueueStep
    <3>1. ASSUME NEW size \in Sizes, Buffer!ReserveWritableBytes(size)
          PROVE  Buffer!TypeOK' /\ QueueStep
      BY <3>1, ReserveStep
    <3>2. ASSUME NEW size \in Sizes, Buffer!Read(size) PROVE Buffer!TypeOK' /\ QueueStep
      BY <3>2, ReadStep
    <3>3. ASSUME NEW size \in Sizes, Buffer!ReadBytes(size) PROVE Buffer!TypeOK' /\ QueueStep
      BY <3>3, ReadBytesStep
    <3>4. ASSUME NEW size \in Sizes,
                 NEW s \in [1 .. Buffer!Min({size, Buffer!WritableBytes}) -> Buffer!Byte],
                 Buffer!Write(s, size)
          PROVE  Buffer!TypeOK' /\ QueueStep
      BY <3>4, WriteBytesStep
    <3>5. ASSUME NEW width \in Widths, NEW le \in BOOLEAN, NEW v \in 0 .. Base ^ width - 1,
                 Buffer!WriteInt(v, width, le)
          PROVE  Buffer!TypeOK' /\ QueueStep
      <4>1. v \in Int OBVIOUS
      <4> QED BY <3>5, <4>1, WriteIntStep
    <3>6. ASSUME NEW width \in Widths, NEW le \in BOOLEAN, Buffer!ReadInt(width, le)
          PROVE  Buffer!TypeOK' /\ QueueStep
      BY <3>6, ReadIntStep
    <3>7. CASE Buffer!Clear BY <3>7, ClearStep
    <3> QED BY <1>2, <3>1, <3>2, <3>3, <3>4, <3>5, <3>6, <3>7 DEF Buffer!Next
  <2> QED BY <2>1 DEF QueueStep, Buffer!Queue!ByteNext
<1> QED BY <1>1, <1>2

(* A peek anywhere in the readable bytes finds the integer they encode. *)
LEMMA BufferRoundTrip == ASSUME Buffer!TypeOK PROVE Buffer!RoundTrip
<1> SUFFICES ASSUME NEW width \in Widths, NEW le \in BOOLEAN,
                    NEW offset \in 0 .. Buffer!ReadableBytes, Buffer!CanPeek(width, offset)
             PROVE  Buffer!Digits(Buffer!PeekInt(width, offset, le), width, le)
                      = SubSeq(Buffer!Readable, offset + 1, offset + width)
  BY DEF Buffer!RoundTrip
<1>1. width \in Nat BY BufferAssumption
<1>2. offset \in Nat BY BufferSizes
<1> QED BY <1>1, <1>2, PeekFacts

-----------------------------------------------------------------------------
(* All parts together. *)

ServicesInv == /\ ClientInv /\ LimitInv /\ FilesInv /\ (part = "calendar" => CalendarInv)
               /\ FdInv /\ WriteInv /\ Buffer!TypeOK /\ AddressInv

LEMMA ServicesStart == ServicesInit => ServicesInv
<1> SUFFICES ASSUME ServicesInit PROVE ServicesInv
  OBVIOUS
<1>1. Init /\ Requests!Init /\ Logs!Init /\ Table!Init /\ Writes!Init /\ Buffer!Init
      /\ Address!Init
  BY DEF ServicesInit
<1>2. FilesInv /\ CalendarInv
  BY <1>1, FilesStart
<1> QED
  BY <1>1, <1>2, ClientStart, LimitStart, FdStart, WriteStart, BufferStart, AddressStart
  DEF ServicesInv

LEMMA ServicesStep == ServicesInv /\ [ServicesNext]_servicesVars => ServicesInv'
<1> SUFFICES ASSUME ServicesInv, [ServicesNext]_servicesVars PROVE ServicesInv'
  OBVIOUS
<1>1. /\ ClientInv /\ LimitInv /\ FilesInv /\ (part = "calendar" => CalendarInv)
      /\ FdInv /\ WriteInv /\ Buffer!TypeOK /\ AddressInv
  BY DEF ServicesInv
<1>2. /\ [Next]_vars /\ [Requests!Next]_limitVars /\ [Logs!Next \/ Calendar!Next]_logVars
      /\ [Table!Next]_fdVars /\ [Writes!Next]_writeVars /\ [Buffer!Next]_bufferVars
      /\ [Address!Next]_addressVars
      /\ part' = part /\ (part = "calendar" => [Calendar!Next]_logVars)
  BY PartSteps
<1>3. ClientInv'
  BY <1>1, <1>2, ClientStep
<1>4. LimitInv'
  BY <1>1, <1>2, LimitStep
<1>5. FilesInv'
  BY <1>1, <1>2, FilesStep
<1>6. (part = "calendar" => CalendarInv)'
  BY <1>1, <1>2, CalendarStep
<1>7. FdInv'
  BY <1>1, <1>2, FdStep
<1>8. WriteInv'
  BY <1>1, <1>2, WriteStep
<1>9. AddressInv'
  BY <1>1, <1>2, AddressStep
<1>10. Buffer!TypeOK'
  BY <1>1, <1>2, BufferStep
<1> QED
  BY <1>3, <1>4, <1>5, <1>6, <1>7, <1>8, <1>9, <1>10 DEF ServicesInv

(* Whichever part a behaviour picks, the inductive invariant of every part
   holds throughout. *)
THEOREM ServicesInvariance == ServicesSpec => []ServicesInv
BY ServicesStart, ServicesStep, PTL DEF ServicesSpec

(* NetClient makes one attempt at a time, also while stop runs beside the
   net thread.  Until stop is called it serves the socket it believes in,
   keeps a way back (a timer or an attempt) while it is not connected, and
   NEW and CLOSE reach the main thread by turns; stop, at whichever step of
   connect and disconnect it comes, costs at most one CLOSE too many: for
   every interval and however often the server comes and goes. *)
THEOREM ClientAlwaysSound == ServicesSpec => []ClientSound
<1>1. ServicesInv => ClientSound
  BY ClientIsSound DEF ServicesInv
<1> QED
  BY <1>1, ServicesInvariance, PTL

(* requestFrequencyCheck: in no second is more than one request beyond the
   limit handled, and a client that never sends more than the limit in a
   second is never cut off: for every limit and number of clients. *)
THEOREM RequestsAlwaysLimited == ServicesSpec => []RequestsLimited
<1>1. ServicesInv => RequestsLimited
  BY DEF ServicesInv, LimitInv, RequestsLimited
<1> QED
  BY <1>1, ServicesInvariance, PTL

(* The loggers and their file sinks: a line ends up in the file of the log
   it was meant for if its filter passes it (once initMainLogger has
   succeeded twice, in the main log's file by the main log's filter), an
   unopenable file costs at most one line a day, and while files open no line
   is in the file of an earlier day: for any number of days and lines,
   however often and in whatever order the inits are called and fail. *)
THEOREM LinesAlwaysRouted == ServicesSpec => []LinesRouted
<1>1. ServicesInv => LinesRouted
  BY FilesAreRouted DEF ServicesInv
<1> QED
  BY <1>1, ServicesInvariance, PTL

(* Every open descriptor of the server is held by exactly one of the
   socket, epoll and pipe objects and every descriptor held is open, at
   whichever call the start, an accept or a close fails: for every size of
   the descriptor table and any number of connections. *)
THEOREM DescriptorsOwned == ServicesSpec => []Owned
<1>1. ServicesInv => Owned
  BY DEF ServicesInv, FdInv, Owned
<1> QED
  BY <1>1, ServicesInvariance, PTL

(* Reactor's write path: what the peer reads is a prefix of what was sent
   up to a partial send, nothing is lost or doubled in number, and the
   write buffer keeps its limit: for every message size, kernel buffer and
   limit. *)
THEOREM WriteAlwaysInOrder == ServicesSpec => []WriteOrder
<1>1. ServicesInv => WriteOrder
  BY WriteInvIsOrder DEF ServicesInv, WriteInv, WriteOrder
<1> QED
  BY <1>1, ServicesInvariance, PTL

(* DynamicBuffer: the indices stay in order and inside the vector, and what
   peekInt finds anywhere in the readable bytes is the integer whose writing
   produces them, in either byte order: for every byte base, width,
   initial size and expansion that stay clear of the largest size_t. *)
THEOREM BufferAlwaysSound == ServicesSpec => []BufferSound
<1>1. ServicesInv => BufferSound
  BY BufferRoundTrip DEF ServicesInv, BufferSound
<1> QED
  BY <1>1, ServicesInvariance, PTL

(* DynamicBuffer implements a queue of bytes, across every move to a new
   vector and every reset of the indices, and reserveWritableBytes makes the
   room asked for and less than two expansions more, although its unsigned
   arithmetic wraps. *)
THEOREM BufferAlwaysQueue == ServicesSpec => BufferImplementsQueue
<1>1. ServicesInit => Buffer!Queue!ByteInit
  BY BufferStart DEF ServicesInit
<1>2. ServicesInv /\ [ServicesNext]_servicesVars
        => [Buffer!Queue!ByteNext]_(Buffer!Queue!bvars)
  BY PartSteps, BufferStep DEF ServicesInv
<1>3. ServicesInv /\ [ServicesNext]_servicesVars
        => [\A size \in Sizes : Buffer!ReserveWritableBytes(size) /\ Buffer!Moves(size) =>
              Len(bytes') - write_index' \in size .. size + 2 * expand_size - 1]_(Buffer!vars)
  BY ReserveStep DEF ServicesInv
<1> QED
  BY <1>1, <1>2, <1>3, ServicesInvariance, PTL
  DEF ServicesSpec, BufferImplementsQueue, Buffer!ImplementsByteQueue, Buffer!Queue!ByteSpec,
      Buffer!RoomMade

(* SocketAddress: text and native structure both say what the object was
   last given, whichever was cached or copied before: for any number of
   objects and any ports of two bytes. *)
THEOREM AddressAlwaysCurrent == ServicesSpec => []AddressCurrent
<1>1. ServicesInv => AddressCurrent
  BY AddressIsCurrent DEF ServicesInv
<1> QED
  BY <1>1, ServicesInvariance, PTL
=============================================================================
