------------------------ MODULE SelectReactorProofs ------------------------
(***************************************************************************)
(* SelectReactor keeps its map in step with the sockets it holds, and the  *)
(* sets it selects on lack a socket only if there was no room for it, for  *)
(* any number of connections, descriptors, packets and commands and any    *)
(* FD_SETSIZE: the property SetsAgree.                                     *)
(***************************************************************************)
EXTENDS SelectReactor, TLAPS

(* Sockets handed over by the acceptor and not yet taken by the loop. *)
Waiting == ToSet(new_sockets)

TypeOK ==
  /\ owner \in [Fds -> Ids \cup {None}] /\ fd \in [Ids -> Fds \cup {None}]
  /\ sockets \subseteq Ids /\ new_sockets \in Seq(Ids)

(* A socket that is held or waiting is open, and one that waits is not
   held: no close of the loop can reach it. *)
Open == /\ \A i \in sockets \cup Waiting : fd[i] \in Fds /\ owner[fd[i]] = i
        /\ sockets \cap Waiting = {}

IInv == TypeOK /\ Open /\ MapAgrees

(* What SetsAgree says of a step. *)
KeepsIn == LeftOut' \subseteq LeftOut \/ Cardinality(sockets) > capacity

LEMMA WaitingFacts ==
  ASSUME NEW q \in Seq(Ids)
  PROVE  /\ ToSet(q) \subseteq Ids /\ ToSet(<< >>) = {}
         /\ \A i \in Ids : ToSet(Append(q, i)) = ToSet(q) \cup {i}
<1>1. ToSet(q) \subseteq Ids /\ ToSet(<< >>) = {} BY DEF ToSet
<1>2. ASSUME NEW i \in Ids PROVE ToSet(Append(q, i)) = ToSet(q) \cup {i}
  <2>1. /\ DOMAIN Append(q, i) = 1 .. Len(q) + 1 /\ DOMAIN q = 1 .. Len(q) /\ Len(q) \in Nat
        /\ Append(q, i)[Len(q) + 1] = i
        /\ \A k \in 1 .. Len(q) : Append(q, i)[k] = q[k]
    OBVIOUS
  <2>2. \A k \in 1 .. Len(q) + 1 : k \in 1 .. Len(q) \/ k = Len(q) + 1 BY <2>1
  <2>3. Len(q) + 1 \in 1 .. Len(q) + 1 /\ \A k \in 1 .. Len(q) : k \in 1 .. Len(q) + 1 BY <2>1
  <2> QED BY <2>1, <2>2, <2>3 DEF ToSet
<1> QED BY <1>1, <1>2

LEMMA InitIInv == Init => IInv
<1> SUFFICES ASSUME Init PROVE IInv OBVIOUS
<1>1. TypeOK BY DEF Init, TypeOK
<1>2. sockets = {} /\ Waiting = {} /\ DOMAIN fd_to_socketId = {}
  BY DEF Init, Waiting, ToSet
<1> QED BY <1>1, <1>2 DEF IInv, Open, MapAgrees

(* closeSocket of sockets that are held. *)
LEMMA CloseIInv ==
  ASSUME IInv, NEW closed \in SUBSET sockets, CloseSockets(closed),
         UNCHANGED <<fd, new_sockets>>,
         \/ UNCHANGED <<client_change, fd_read_back>>
         \/ \E i \in closed : client_change' = client_change /\ fd_read_back' = fd_read_back \ {fd[i]}
  PROVE  IInv' /\ KeepsIn
<1>1. /\ sockets' = sockets \ closed
      /\ owner' = [d \in Fds |-> IF owner[d] \in closed THEN None ELSE owner[d]]
      /\ fd_to_socketId' = [d \in DOMAIN fd_to_socketId \ {fd[i] : i \in closed} |-> fd_to_socketId[d]]
      /\ Waiting' = Waiting
  <2>1. closed \cap sockets = closed OBVIOUS
  <2> QED BY <2>1 DEF CloseSockets, BaseCloses, Restrict, Waiting
<1>2. TypeOK' BY <1>1 DEF IInv, TypeOK
<1>3. \A i \in (sockets \ closed) \cup Waiting : i \notin closed /\ owner'[fd[i]] = i
  BY <1>1 DEF IInv, Open
<1>4. Open' BY <1>1, <1>3 DEF IInv, Open
<1>5. \A i, j \in sockets : fd[i] = fd[j] => i = j BY DEF IInv, Open
<1>6. MapAgrees'
  <2>1. DOMAIN fd_to_socketId' = {fd[i] : i \in sockets} \ {fd[i] : i \in closed}
    BY <1>1 DEF IInv, MapAgrees
  <2>2. {fd[i] : i \in sockets} \ {fd[i] : i \in closed} = {fd[i] : i \in sockets \ closed}
    BY <1>5
  <2>3. \A i \in sockets \ closed : fd_to_socketId'[fd[i]] = i
    BY <1>1, <2>1, <2>2 DEF IInv, MapAgrees
  <2> QED BY <1>1, <1>3, <2>1, <2>2, <2>3 DEF MapAgrees
<1>7. LeftOut' \subseteq LeftOut BY <1>1, <1>5 DEF LeftOut
<1> QED BY <1>2, <1>4, <1>6, <1>7 DEF IInv, KeepsIn

(* Steps that change neither the descriptors nor the sockets. *)
LEMMA QuietIInv ==
  ASSUME IInv, UNCHANGED <<owner, fd, sockets, new_sockets, fd_to_socketId>>,
         \/ UNCHANGED <<client_change, fd_read_back>>
         \/ fd_read_back' \in Selections
  PROVE  IInv' /\ KeepsIn
<1>1. TypeOK' /\ Open' /\ MapAgrees' BY DEF IInv, TypeOK, Open, MapAgrees, Waiting
<1>2. CASE UNCHANGED <<client_change, fd_read_back>>
  BY <1>1, <1>2 DEF IInv, KeepsIn, LeftOut
<1>3. CASE fd_read_back' \in Selections
  <2>1. CASE ~client_change BY <1>1, <1>3, <2>1 DEF Selections, IInv, KeepsIn, LeftOut
  <2>2. CASE client_change /\ ~(Cardinality(sockets) > capacity)
    <3>1. fd_read_back' = {fd[i] : i \in sockets} BY <1>3, <2>2 DEF Selections, HeldFds
    <3>2. LeftOut' = {} BY <3>1 DEF LeftOut
    <3> QED BY <1>1, <3>2 DEF IInv, KeepsIn
  <2>3. CASE Cardinality(sockets) > capacity BY <1>1, <2>3 DEF IInv, KeepsIn
  <2> QED BY <2>1, <2>2, <2>3
<1> QED BY <1>2, <1>3

LEMMA AcceptIInv ==
  ASSUME IInv, NEW i \in Ids, NEW d \in Fds, Accept(i, d)
  PROVE  IInv' /\ KeepsIn
<1>1. /\ fd[i] = None /\ owner[d] = None
      /\ owner' = [owner EXCEPT ![d] = i] /\ fd' = [fd EXCEPT ![i] = d]
      /\ new_sockets' = Append(new_sockets, i)
      /\ UNCHANGED <<sockets, fd_to_socketId, client_change, fd_read_back>>
  BY DEF Accept, AcceptNonblock, AttachSocket, books, sets
<1>2. Waiting' = Waiting \cup {i} /\ Waiting \subseteq Ids
  BY <1>1, WaitingFacts DEF Waiting, IInv, TypeOK
<1>3. i \notin sockets \cup Waiting BY <1>1, NoneAssumption DEF IInv, Open
<1>4. TypeOK' BY <1>1 DEF IInv, TypeOK
<1>5. \A j \in sockets \cup Waiting : fd'[j] = fd[j] /\ owner'[fd[j]] = j
  <2> SUFFICES ASSUME NEW j \in sockets \cup Waiting
               PROVE  fd'[j] = fd[j] /\ owner'[fd[j]] = j
    OBVIOUS
  <2>1. j \in Ids /\ j # i /\ fd[j] \in Fds /\ owner[fd[j]] = j
    BY <1>2, <1>3 DEF IInv, TypeOK, Open
  <2>2. fd[j] # d BY <2>1, <1>1, NoneAssumption
  <2> QED BY <2>1, <2>2, <1>1 DEF IInv, TypeOK
<1>6. fd'[i] = d /\ owner'[d] = i BY <1>1 DEF IInv, TypeOK
<1>7. Open'
  <2>1. \A j \in sockets \cup Waiting \cup {i} : fd'[j] \in Fds /\ owner'[fd'[j]] = j
    BY <1>5, <1>6 DEF IInv, Open
  <2>2. sockets \cap (Waiting \cup {i}) = {} BY <1>3 DEF IInv, Open
  <2>3. sockets' = sockets BY <1>1
  <2> QED BY <1>2, <2>1, <2>2, <2>3 DEF Open
<1>8. MapAgrees' BY <1>1, <1>5 DEF IInv, MapAgrees
<1>9. LeftOut' = LeftOut BY <1>1, <1>5 DEF LeftOut
<1> QED BY <1>4, <1>7, <1>8, <1>9 DEF IInv, KeepsIn

(* The loop takes over the waiting sockets. *)
LEMMA DrainIInv ==
  ASSUME IInv, Drain
  PROVE  IInv' /\ KeepsIn
<1>1. /\ sockets' = sockets \cup Waiting /\ new_sockets' = << >>
      /\ fd_to_socketId' =
           [d \in DOMAIN fd_to_socketId \cup {fd[i] : i \in Waiting} |->
              IF d \in DOMAIN fd_to_socketId THEN fd_to_socketId[d] ELSE owner[d]]
      /\ client_change' = TRUE /\ UNCHANGED <<owner, fd>>
  BY DEF Drain, InsertNew, Waiting, kernel
<1>2. Waiting' = {} /\ Waiting \subseteq Ids
  BY <1>1, WaitingFacts DEF Waiting, IInv, TypeOK
<1>3. TypeOK' BY <1>1, <1>2 DEF IInv, TypeOK
<1>4. Open' BY <1>1, <1>2 DEF IInv, Open
<1>5. /\ DOMAIN fd_to_socketId' = {fd[i] : i \in sockets} \cup {fd[i] : i \in Waiting}
      /\ \A d \in {fd[i] : i \in sockets} : fd_to_socketId'[d] = fd_to_socketId[d]
      /\ \A d \in {fd[i] : i \in Waiting} :
           fd_to_socketId'[d] = IF d \in {fd[i] : i \in sockets} THEN fd_to_socketId[d] ELSE owner[d]
  BY <1>1 DEF IInv, MapAgrees
<1>6. MapAgrees'
  <2>1. \A i \in sockets : fd_to_socketId'[fd[i]] = i BY <1>5 DEF IInv, MapAgrees
  <2>2. \A i \in Waiting : fd[i] \notin {fd[j] : j \in sockets} BY DEF IInv, Open
  <2>3. \A i \in Waiting : fd_to_socketId'[fd[i]] = i BY <1>5, <2>2 DEF IInv, Open
  <2>4. DOMAIN fd_to_socketId' = {fd[i] : i \in sockets \cup Waiting} BY <1>5
  <2> QED BY <1>1, <2>1, <2>3, <2>4 DEF IInv, Open, MapAgrees
<1>7. LeftOut' = {} BY <1>1 DEF LeftOut
<1> QED BY <1>3, <1>4, <1>6, <1>7 DEF IInv, KeepsIn

LEMMA NextIInv == IInv /\ [Next]_vars => IInv' /\ KeepsIn
<1> SUFFICES ASSUME IInv, [Next]_vars PROVE IInv' /\ KeepsIn OBVIOUS
<1> USE DEF kernel, books, sets, main
<1>1. ASSUME NEW i \in Ids, PeerSends(i) \/ PeerHangsUp(i) \/ SendNetCommandNew(i)
                              \/ Disconnect(i) \/ SendMessage(i)
      PROVE  IInv' /\ KeepsIn
  BY <1>1, QuietIInv DEF PeerSends, PeerHangsUp, SendNetCommandNew, Disconnect, SendMessage
<1>2. ASSUME NEW i \in Ids, NEW d \in Fds, Accept(i, d) PROVE IInv' /\ KeepsIn BY <1>2, AcceptIInv
<1>3. CASE Drain BY <1>3, DrainIInv
<1>4. CASE SeesNoNew \/ LoopEnds \/ PopEmpty \/ DoNetEvent
  BY <1>4, QuietIInv DEF SeesNoNew, LoopEnds, PopEmpty, DoNetEvent
<1>5. ASSUME NEW d \in Fds, ReadSkips(d) PROVE IInv' /\ KeepsIn BY <1>5, QuietIInv DEF ReadSkips
<1>6. ASSUME NEW d, Held(d) PROVE fd_to_socketId[d] \in sockets /\ fd[fd_to_socketId[d]] = d
  BY <1>6 DEF Held, IInv, MapAgrees
<1>7. ASSUME NEW d \in Fds, NEW bad \in BOOLEAN, ReadGets(d, bad) PROVE IInv' /\ KeepsIn
  <2>1. CASE bad
    <3>1. /\ CloseSockets({fd_to_socketId[d]}) /\ Held(d)
          /\ UNCHANGED <<fd, new_sockets, client_change, fd_read_back>>
      BY <1>7, <2>1 DEF ReadGets
    <3> QED BY <3>1, <1>6, CloseIInv
  <2>2. CASE ~bad BY <2>2, <1>7, QuietIInv DEF ReadGets
  <2> QED BY <2>1, <2>2
<1>8. ASSUME NEW d \in Fds, ReadCloses(d) PROVE IInv' /\ KeepsIn
  <2>1. /\ CloseSockets({fd_to_socketId[d]}) /\ Held(d)
        /\ UNCHANGED <<fd, new_sockets, client_change>> /\ fd_read_back' = fd_read_back \ {d}
    BY <1>8 DEF ReadCloses
  <2> QED BY <2>1, <1>6, CloseIInv
<1>9. CASE PopCommand
  <2>1. UNCHANGED <<fd, new_sockets, client_change, fd_read_back>> BY <1>9 DEF PopCommand
  <2>2. CASE UNCHANGED <<owner, books>> BY <2>1, <2>2, QuietIInv
  <2>3. CASE Head(commands).id \in sockets /\ CloseSockets({Head(commands).id})
    BY <2>1, <2>3, CloseIInv
  <2> QED BY <1>9, <2>2, <2>3 DEF PopCommand, IsConnected
<1>10. CASE CheckTimeout BY <1>10, CloseIInv DEF CheckTimeout
<1>11. CASE UNCHANGED vars BY <1>11, QuietIInv DEF vars
<1> QED BY <1>1, <1>2, <1>3, <1>4, <1>5, <1>7, <1>8, <1>9, <1>10, <1>11 DEF Next, Loop

-----------------------------------------------------------------------------
(* The inductive invariant holds in every reachable state. *)
THEOREM Invariance == Spec => []IInv
BY InitIInv, NextIInv, PTL DEF Spec

(* select_reactor.cc: fd_to_socketId_map_ has exactly the descriptors of the
   sockets held, each with its owner; and a socket held is left out of the
   sets select is called with only when they are made anew with more sockets
   held than FD_SETSIZE: for any number of connections, within that size and
   beyond it. *)
THEOREM SetsAlwaysAgree == Spec => SetsAgree
<1> DEFINE Step == MapAgrees' /\ (LeftOut' \subseteq LeftOut \/ Cardinality(sockets) > capacity)
<1>1. IInv /\ [Next]_vars => Step BY NextIInv DEF IInv, KeepsIn
<1>2. []IInv /\ [][Next]_vars => [][Step]_vars BY <1>1, PTL
<1> QED BY <1>2, Invariance, PTL DEF Spec, SetsAgree
=============================================================================
