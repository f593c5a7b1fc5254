--------------------------- MODULE FrequencyLimit ---------------------------
(***************************************************************************)
(* The request limit of TcpService::onMessage: a counter per connection,   *)
(* restarted whenever the second of the clock differs from the one of the  *)
(* last request, and disconnect when it exceeds the limit.  Messages of a  *)
(* connection reach the main thread at any moment, also after disconnect   *)
(* has removed its entry.                                                  *)
(*                                                                         *)
(* A definition introduced by "Slip" is a plausible mistake in the         *)
(* operation that follows it and is not part of the specification.         *)
(***************************************************************************)
EXTENDS Naturals

CONSTANTS Clients,      \* connections
          Max,          \* max_request_per_second_, 0 for no limit
          Seconds,      \* bound: the clock runs from 1 to Seconds
          Backlog       \* bound: messages of a client in one second

VARIABLES
  clock,                \* Timestamp::getNow, in seconds
  info,                 \* connection_infos_: last second and counter
  known,                \* clients with an entry in connection_infos_
  came,                 \* came[c]: messages of c that arrived in this second
  handled,              \* handled[c]: those that reached their handler
  most                  \* most[c]: the largest came[c] in any one second

vars == <<clock, info, known, came, handled, most>>

NoRequest == [last_request_second |-> 0, requst_per_second |-> 0]
Larger(a, b) == IF a > b THEN a ELSE b

(* onConnect of each of them.                                              *)
Init ==
  /\ clock = 1
  /\ info = [c \in Clients |-> NoRequest]
  /\ known = Clients
  /\ came = [c \in Clients |-> 0]
  /\ handled = [c \in Clients |-> 0]
  /\ most = [c \in Clients |-> 0]

(* Slip: the second is compared, and never stored.                         *)
CountedForgets(i) ==
  IF clock = i.last_request_second
  THEN [i EXCEPT !.requst_per_second = @ + 1]
  ELSE [i EXCEPT !.requst_per_second = 0]

(* Slip: a new second does not restart the counter.                        *)
CountedOn(i) ==
  [last_request_second |-> clock, requst_per_second |-> i.requst_per_second + 1]

(* checkRequestFrequencyLimit, as it leaves the entry ...                  *)
Counted(i) ==
  IF clock = i.last_request_second
  THEN [i EXCEPT !.requst_per_second = @ + 1]
  ELSE [last_request_second |-> clock, requst_per_second |-> 0]

(* ... and what it returns.                                                *)
Exceeds(i) == Max > 0 /\ i.requst_per_second > Max

Arrived(c) ==
  /\ came[c] < Backlog
  /\ came' = [came EXCEPT ![c] = @ + 1]
  /\ most' = [most EXCEPT ![c] = Larger(@, came[c] + 1)]
  /\ UNCHANGED clock

OnMessage(c) ==
  /\ c \in known
  /\ Arrived(c)
  /\ info' = [info EXCEPT ![c] = IF Max > 0 THEN Counted(@) ELSE @]
  /\ IF Exceeds(info'[c])
     THEN known' = known \ {c} /\ UNCHANGED handled
     ELSE handled' = [handled EXCEPT ![c] = @ + 1] /\ UNCHANGED known

(* A message of a connection that has been disconnected.                   *)
OnLateMessage(c) ==
  /\ c \notin known
  /\ Arrived(c)
  /\ UNCHANGED <<info, known, handled>>

Tick ==
  /\ clock < Seconds
  /\ clock' = clock + 1
  /\ came' = [c \in Clients |-> 0]
  /\ handled' = [c \in Clients |-> 0]
  /\ UNCHANGED <<info, known, most>>

Next == Tick \/ \E c \in Clients : OnMessage(c) \/ OnLateMessage(c)

Spec == Init /\ [][Next]_vars

-----------------------------------------------------------------------------
(* In one second of the clock no connection gets more than one message     *)
(* beyond the limit handled, whatever it sent in the seconds before        *)
(* (the counter starts at 0 with the first message).                       *)
Limited == Max > 0 => \A c \in Clients : handled[c] <= Max + 1

(* A connection that never sends more than the limit in a second is never  *)
(* cut off, and without a limit none is.                                   *)
WellBehavedStays == \A c \in Clients : c \notin known => Max > 0 /\ most[c] > Max

(* The log line of onMessage gives the condition as counter >= limit: a    *)
(* second in which the limit is reached ends the connection before another *)
(* message is handled.  Violated: the code compares with > a counter that  *)
(* starts at 0.                                                            *)
LimitAsLogged == Max > 0 => \A c \in Clients : handled[c] <= Max
=============================================================================
