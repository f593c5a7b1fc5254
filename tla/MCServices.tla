----------------------------- MODULE MCServices -----------------------------
(* Services that live long, see time pass and calls fail: the client that
   reconnects (the module extended), the request limit, the two logs and
   their daily files, the descriptors of a server, the write path of a
   connection, DynamicBuffer and SocketAddress.  The parts share no state; a
   behaviour picks one of them, and `part' says which.  "calendar" is the
   logs again, with the main log first and files that always open. *)
EXTENDS NetClient

CONSTANTS
  Clients, Max, Seconds, Backlog,               \* FrequencyLimit
  Days, QueueSize, MaxCalls,                    \* Logging
  MaxFds, Peers, Faults, Invalid,               \* Descriptors
  MaxStream, MaxSize, KernelSize, WriteMax,     \* ReactorWrite
  InitSize, ExpandSizes, MaxCapacity, Word,     \* DynamicBuffer
  Base, Widths, Sizes,
  Objects, Ports                                \* SocketAddress

VARIABLES
  part,
  second, info, known, came, handled, most,                      \* FrequencyLimit
  loggers, logger_id, calls, filter, result, inits, sink,        \* Logging
  pending, day, last, dropped,
  fds, held, works, step, creating, init, backlog, accepting,    \* Descriptors
  faults,
  stream, buffer, kernel, wire, status, callback, mask,          \* ReactorWrite
  bytes, expand_size, read_index, write_index, moved,            \* DynamicBuffer
  obj, given                                                     \* SocketAddress

limitVars   == <<second, info, known, came, handled, most>>
logVars     == <<loggers, logger_id, calls, filter, result, inits, sink, pending,
                 day, last, dropped>>
fdVars      == <<fds, held, works, step, creating, init, backlog, accepting, faults>>
writeVars   == <<stream, buffer, kernel, wire, status, callback, mask>>
bufferVars  == <<bytes, expand_size, read_index, write_index, moved>>
addressVars == <<obj, given>>

Requests == INSTANCE FrequencyLimit WITH clock <- second
Logs     == INSTANCE Logging WITH asked <- filter, OpenFails <- TRUE, MainFirst <- FALSE
Calendar == INSTANCE Logging WITH asked <- filter, OpenFails <- FALSE, MainFirst <- TRUE
Table    == INSTANCE Descriptors WITH open <- fds
Writes   == INSTANCE ReactorWrite
Buffer   == INSTANCE DynamicBuffer WITH buffer <- bytes
Address  == INSTANCE SocketAddress

ASSUME LimitAssumption == Max \in Nat /\ Seconds \in Nat /\ Backlog \in Nat
ASSUME DaysAssumption == Days \in Nat \ {0} /\ QueueSize \in Nat /\ MaxCalls \in Nat
(* INVALID_SOCKET is no descriptor, and the connections are objects of their own. *)
ASSUME FdsAssumption == /\ MaxFds \in Nat /\ Faults \in Nat /\ Invalid \notin 1 .. MaxFds
                        /\ Peers \cap Table!Fixtures = {}
ASSUME SizesAssumption == /\ MaxStream \in Nat /\ MaxSize \in Nat
                          /\ KernelSize \in Nat \ {0} /\ WriteMax \in Nat
(* No vector, request or expansion comes near the largest size_t. *)
ASSUME BufferAssumption ==
  /\ Base \in Nat /\ Base > 1 /\ Word \in Nat
  /\ InitSize \in Nat /\ MaxCapacity \in Nat /\ InitSize <= MaxCapacity /\ MaxCapacity < Word
  /\ ExpandSizes \subseteq Nat \ {0} /\ Sizes \cup Widths \subseteq Nat
  /\ \A size \in Sizes \cup Widths, e \in ExpandSizes : MaxCapacity + size + e < Word
ASSUME PortsAssumption == \A port \in Ports : port \in Nat /\ port < 256 * 256

(* A part that is not picked rests in one of its initial states. *)
ServicesInit ==
  /\ part \in {"client", "requests", "logs", "calendar", "descriptors", "write",
             "buffer", "address"}
  /\ Init /\ (part # "client" => server_up)
  /\ Requests!Init /\ Table!Init /\ Writes!Init /\ Address!Init
  /\ Buffer!Init /\ (part # "buffer" => \A e \in ExpandSizes : expand_size <= e)
  /\ Logs!Init /\ (part \notin {"logs", "calendar"} =>
                     Len(loggers) = 1 /\ filter = [t \in DOMAIN filter |-> 0])

Picked(p) ==
  /\ part = p /\ part' = part
  /\ IF p = "client" THEN TRUE ELSE UNCHANGED vars
  /\ IF p = "requests" THEN TRUE ELSE UNCHANGED limitVars
  /\ IF p \in {"logs", "calendar"} THEN TRUE ELSE UNCHANGED logVars
  /\ IF p = "descriptors" THEN TRUE ELSE UNCHANGED fdVars
  /\ IF p = "write" THEN TRUE ELSE UNCHANGED writeVars
  /\ IF p = "buffer" THEN TRUE ELSE UNCHANGED bufferVars
  /\ IF p = "address" THEN TRUE ELSE UNCHANGED addressVars

ServicesNext ==
  \/ Picked("client") /\ Next
  \/ Picked("requests") /\ Requests!Next
  \/ Picked("logs") /\ Logs!Next
  \/ Picked("calendar") /\ Calendar!Next
  \/ Picked("descriptors") /\ Table!Next
  \/ Picked("write") /\ Writes!Next
  \/ Picked("buffer") /\ Buffer!Next
  \/ Picked("address") /\ Address!Next

servicesVars == <<part, vars, limitVars, logVars, fdVars, writeVars, bufferVars,
                  addressVars>>

(* The fairness of each part, required of the one that was picked. *)
ServicesFairness ==
  /\ WF_vars(part = "client" /\ NetThread)
  /\ WF_vars(part = "client" /\ Fire) /\ WF_vars(part = "client" /\ OnNetCommand)
  /\ WF_vars(part = "client" /\ SocketEvent) /\ WF_vars(part = "client" /\ Tick)
  /\ WF_vars(part = "client" /\ ServerStarts)
  /\ WF_fdVars(part = "descriptors" /\ Table!Main)
  /\ WF_fdVars(part = "descriptors" /\ Table!Acceptor)
  /\ \A p \in Peers : SF_fdVars(part = "descriptors" /\ Table!Accept(p))

ServicesSpec == ServicesInit /\ [][ServicesNext]_servicesVars /\ ServicesFairness

-----------------------------------------------------------------------------
(* The client makes one attempt at a time, also beside stop.  Until it is
   stopped it serves the socket it believes in, has a way back while it is
   not connected, and NEW and CLOSE reach the main thread by turns; a stop
   in the middle costs at most one CLOSE too many. *)
ClientSound == OneAttempt /\ WayBack /\ Paired

(* In one second at most one request beyond the limit is handled, and who
   never sends more than the limit in a second is never cut off. *)
RequestsLimited == Requests!Limited /\ Requests!WellBehavedStays

(* A line ends up in the file of the log it was meant for, and only if its
   filter lets it through, whatever failed in the logs' inits and in whatever
   order they are called and called again, until the main log's has succeeded
   twice: then every line is the main log's.  An unopenable file costs at
   most one line a day; and as long as files open, no line is in the file of
   a day before its own. *)
LinesRouted == /\ Logs!Routed /\ Logs!FewDropped
               /\ part = "calendar" => Calendar!NotInOlderFile

(* Every open descriptor is held by exactly one object, whatever call
   failed half-way, and every descriptor held is open. *)
Owned == Table!Owned

(* Unless the table stays full, what waits in the backlog is accepted. *)
BacklogDrains == Table!BacklogDrains

(* The write path of a connection: the peer reads the bytes of the messages
   in order up to a partial send, none is lost or doubled in number, and
   the write buffer keeps its limit. *)
WriteOrder == Writes!TypeOK /\ Writes!WireIsPrefix /\ Writes!NothingMisplaced

(* DynamicBuffer's indices stay in order and inside the vector, and what a
   peek finds is the integer whose writing produces those bytes. *)
BufferSound == Buffer!TypeOK /\ Buffer!RoundTrip

(* The buffer implements a queue of bytes (ByteQueue), and
   reserveWritableBytes makes the room asked for and not much more, also
   when its unsigned subtraction wraps. *)
BufferImplementsQueue == Buffer!ImplementsByteQueue /\ Buffer!RoomMade

(* Both forms of a SocketAddress, text and structure, say what the object
   was last given, whichever was cached or copied before. *)
AddressCurrent == Address!TextIsCurrent /\ Address!NativeIsCurrent
=============================================================================
