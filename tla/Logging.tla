------------------------------ MODULE Logging ------------------------------
(***************************************************************************)
(* The loggers: LogManager::initLogger as GameServer calls it for the main *)
(* and the net log, LoggerMgr's table of loggers, the level filter, and    *)
(* LoggerFileSink, which names its file after the day and opens the next   *)
(* one when a line comes on another day.  The asynchronous sink between a  *)
(* logger and its file is a queue here (BoundedLog); the stderr sink keeps *)
(* nothing and is left out.  A line is who logged it, its level and the    *)
(* day its timestamp says.                                                 *)
(*                                                                         *)
(* A definition introduced by "Slip" is a plausible mistake in the         *)
(* operation that follows it and is not part of the specification.         *)
(***************************************************************************)
EXTENDS Naturals, Sequences

CONSTANTS Days,       \* bound: days that pass
          QueueSize,  \* bound of the asynchronous queue
          OpenFails,  \* whether fopen may fail
          MaxCalls,   \* bound: calls of each init
          MainFirst   \* whether the main log is initialised before the net log

MAIN == 0
NET == 1
Types == {MAIN, NET}
DEBUG == 0
ERR == 3
Levels == {DEBUG, ERR}

Absent == [filter |-> 4, sinks |-> << >>]
Logger(level) == [filter |-> level, sinks |-> << >>]
NoFile == [path |-> "none", actual |-> 0, fp |-> 0]
Path(type) == IF type = MAIN THEN "main" ELSE "net"
NoLine == [from |-> MAIN, level |-> ERR, day |-> 0]

VARIABLES
  loggers,    \* loggers_, logger i at index i + 1
  logger_id,  \* logger_id_
  calls,      \* calls[type]: calls of that log's init
  asked,      \* asked[type]: the filter that log's init is given, every time
  result,     \* result[type], of the last call: "none", "ok", "file" (it did
              \* not open) or "id"
  inits,      \* inits[type]: calls of that log's init that returned true
  sink,       \* sink[i]: path, day in actual_file_path_ and day of fp_ of logger i
  pending,    \* pending[i]: lines on their way to the file of logger i
  day,        \* today
  last,       \* the last line written: the line, the file and its day
  dropped     \* dropped[i]: lines lost because no file could be opened

tableVars == <<loggers, logger_id, calls, asked, result, inits>>
vars == <<tableVars, sink, pending, day, last, dropped>>

Init == /\ \E count \in {1, 2} : loggers = [i \in 1 .. count |-> Absent]
        /\ logger_id = 0
        /\ calls = [t \in Types |-> 0]
        /\ asked \in [Types -> Levels]
        /\ result = [t \in Types |-> "none"] /\ inits = [t \in Types |-> 0]
        /\ sink = [t \in Types |-> NoFile]
        /\ pending = [t \in Types |-> << >>]
        /\ day = 1
        /\ last = [line |-> NoLine, path |-> "none", fp |-> 0]
        /\ dropped = [t \in Types |-> 0]

----------------------------------------------------------------------------
HasLogger(id) == id < Len(loggers) /\ loggers[id + 1] # Absent

(* Slip: a logger that is there is replaced. *)
MayRegisterOver(id) == id < Len(loggers)

(* registerLogger: within the table, and not taken. *)
MayRegister(id) == id < Len(loggers) /\ loggers[id + 1] = Absent

NextId(type, id) == IF type = MAIN THEN id + 1 ELSE id

(* initLogger: an id of 0 means "the next one", any other is taken as it is
   and remembered; what fails late leaves what was done before.  Nothing
   keeps an init that has succeeded from being called again. *)
InitLogger(type) ==
  LET id == IF type # 0 THEN type ELSE logger_id IN
  /\ calls[type] < MaxCalls
  /\ MainFirst /\ type = NET => calls[MAIN] > 0
  /\ calls' = [calls EXCEPT ![type] = @ + 1]
  /\ \/ /\ ~MayRegister(id)
        /\ logger_id' = id
        /\ result' = [result EXCEPT ![type] = "id"]
        /\ UNCHANGED <<loggers, inits, sink>>
     \/ /\ MayRegister(id) /\ OpenFails
        /\ logger_id' = id
        /\ result' = [result EXCEPT ![type] = "file"]
        /\ loggers' = [loggers EXCEPT ![id + 1] = Logger(asked[type])]
        /\ UNCHANGED <<inits, sink>>
     \/ /\ MayRegister(id)
        /\ logger_id' = NextId(type, id)
        /\ result' = [result EXCEPT ![type] = "ok"]
        /\ inits' = [inits EXCEPT ![type] = @ + 1]
        /\ loggers' = [loggers EXCEPT ![id + 1] =
                         [Logger(asked[type]) EXCEPT !.sinks = <<"file">>]]
        /\ sink' = [sink EXCEPT ![id] = [path |-> Path(type), actual |-> day, fp |-> day]]
  /\ UNCHANGED <<asked, pending, day, last, dropped>>

Passes(id, level) == level >= loggers[id + 1].filter

(* LoggerMgr::log and Logger::log of a line; the sink takes it if there is
   one.  The line carries the time it was formatted at. *)
Log(type, level) ==
  /\ HasLogger(type) /\ Passes(type, level) /\ loggers[type + 1].sinks # << >>
  /\ Len(pending[type]) < QueueSize
  /\ pending' = [pending EXCEPT ![type] =
                   Append(@, [from |-> type, level |-> level, day |-> day])]
  /\ UNCHANGED <<tableVars, sink, day, last, dropped>>

(* LoggerFileSink: the name of the file is computed when the line is
   written, and remembered before fopen is known to have worked. *)
OpenedSink(i) == [sink[i] EXCEPT !.actual = day, !.fp = day]

(* Slip: the name is remembered only when the file has been opened. *)
MissedSinkForgets(i) == sink[i]

MissedSink(i) == [sink[i] EXCEPT !.actual = day]

(* Slip: the file found open is kept. *)
IsCurrentAlways(i) == sink[i].fp # 0

IsCurrent(i) == sink[i].actual = day

Write(i, now) ==
  /\ sink' = [sink EXCEPT ![i] = now]
  /\ last' = [line |-> Head(pending[i]), path |-> now.path, fp |-> now.fp]
  /\ UNCHANGED dropped

WriteLine(i) ==
  /\ pending[i] # << >>
  /\ pending' = [pending EXCEPT ![i] = Tail(@)]
  /\ \/ IsCurrent(i) /\ Write(i, sink[i])
     \/ ~IsCurrent(i) /\ Write(i, OpenedSink(i))
     \/ /\ ~IsCurrent(i) /\ OpenFails
        /\ sink' = [sink EXCEPT ![i] = MissedSink(i)]
        /\ dropped' = [dropped EXCEPT ![i] = @ + 1]
        /\ UNCHANGED last
  /\ UNCHANGED <<tableVars, day>>

Midnight == /\ day < Days /\ day' = day + 1
            /\ UNCHANGED <<tableVars, sink, pending, last, dropped>>

Next == \/ Midnight
        \/ \E t \in Types : \/ InitLogger(t) \/ WriteLine(t)
                            \/ \E level \in Levels : Log(t, level)

Spec == Init /\ [][Next]_vars

----------------------------------------------------------------------------
(* The log whose file a log's lines are for.  The second init of the main
   log gets the id after its first, which is the net log's. *)
Target(type) == IF inits[MAIN] > 1 THEN MAIN ELSE type

(* A line ends up in the file of the log it was meant for, and only if that
   log's filter lets it through, in whatever order the inits were called and
   whatever failed in them; but once the main log's init has succeeded twice
   all lines are the main log's. *)
Routed == last.fp # 0 => /\ last.path = Path(Target(last.line.from))
                         /\ last.line.level >= asked[Target(last.line.from)]

(* The files follow the calendar as long as they can be opened: a line is
   never in the file of a day before its own. *)
NotInOlderFile == last.fp # 0 => last.fp >= last.line.day

(* An unopenable file costs at most one line a day. *)
FewDropped == \A t \in Types : dropped[t] < Days

(* The net log's lines (`logNetMessage`, log.cc:131) go to the file that
   initNetLogger was given (server/game_server.cc:48).  Violated: a second
   initMainLogger registers the main log's file under the net log's id. *)
NetLinesInNetLog == last.fp # 0 => last.path = Path(last.line.from)

(* "Initialise the main log" (server/game_server.cc:36): it does not fail for
   want of a free id when the table has one for each log. *)
MainLogInits == Len(loggers) = 2 /\ inits[MAIN] = 0 => result[MAIN] # "id"
=============================================================================
