----------------------------- MODULE MCThreads ------------------------------
(* What threads hand to each other, and how they end: the main thread's
   command queue with its batches (the module extended), a net thread's
   queue without a limit, Semaphore, Thread, the start and the stop of the
   service, and the log thread.  The parts share no state here; a behaviour
   picks one of them, and `part' says which. *)
EXTENDS MessageQueue, FiniteSets

CONSTANTS
  Waiters, MaxWakeups,                                         \* Semaphore
  Stoppers, NoCaller,                                          \* ThreadLife
  ThreadNum, MaxConns, MaxCommands, EarlyClients,              \* Lifecycle
  Loggers, MaxLines, LogSize                                   \* AsyncSink

ASSUME WaitersAssumption == IsFiniteSet(Waiters) /\ MaxWakeups \in Nat
ASSUME StoppersAssumption == IsFiniteSet(Stoppers) /\ NoCaller \notin Stoppers
ASSUME ServiceAssumption == /\ ThreadNum \in Nat \ {0}
                            /\ MaxConns \in Nat /\ MaxCommands \in Nat
                            /\ EarlyClients \in BOOLEAN
ASSUME LoggersAssumption == /\ IsFiniteSet(Loggers) /\ "owner" \notin Loggers
                            /\ MaxLines \in Nat /\ LogSize \in Nat

VARIABLES
  part,
  commands, bytes, sender, owner, popped, sent, seen,          \* MessageQueue
  wait_count, wakeup_count, asleep, notified, wakeups,         \* Semaphore
  is_run, quit, mutex, permits, pc, workers, starts, stopped,  \* ThreadLife
  main, at, slots, running, quit_flag, io_quit, acceptor,      \* Lifecycle
  accepted, unread, news, known, command, given,
  lines, at_line, said, held, text, pool, made, writer,        \* AsyncSink
  current, file, logged

netVars  == <<commands, bytes, sender, owner, popped, sent, seen>>
semVars  == <<wait_count, wakeup_count, asleep, notified, wakeups>>
lifeVars == <<is_run, quit, mutex, permits, pc, workers, starts, stopped>>
serviceVars == <<main, at, slots, running, quit_flag, io_quit, acceptor,
                 accepted, unread, news, known, command, given>>
logVars  == <<lines, at_line, said, held, text, pool, made, writer, current,
              file, logged>>

Net == INSTANCE MessageQueue WITH
  queue <- commands, pipe <- bytes, pusher <- sender, reader <- owner,
  count <- popped, pushed <- sent, last <- seen, BatchLimit <- 0
Sem == INSTANCE Semaphore
Life == INSTANCE ThreadLife WITH
  Callers <- Stoppers, MaxStarts <- 1, FirstIsRun <- {FALSE}
Service == INSTANCE Lifecycle
Log == INSTANCE AsyncSink WITH
  queue <- lines, pc <- at_line, reader <- writer,
  Callers <- Loggers, MaxSize <- LogSize

ThreadsInit == /\ part \in {"main", "net", "semaphore", "thread", "service", "log"}
               /\ Init /\ Net!Init /\ Sem!Init /\ Life!Init /\ Service!Init /\ Log!Init

Picked(p) ==
  /\ part = p /\ part' = part
  /\ IF p = "main" THEN TRUE ELSE UNCHANGED vars
  /\ IF p = "net" THEN TRUE ELSE UNCHANGED netVars
  /\ IF p = "semaphore" THEN TRUE ELSE UNCHANGED semVars
  /\ IF p = "thread" THEN TRUE ELSE UNCHANGED lifeVars
  /\ IF p = "service" THEN TRUE ELSE UNCHANGED serviceVars
  /\ IF p = "log" THEN TRUE ELSE UNCHANGED logVars

ThreadsNext ==
  \/ Picked("main") /\ Next
  \/ Picked("net") /\ Net!Next
  \/ Picked("semaphore") /\ Sem!Next
  \/ Picked("thread") /\ Life!Next
  \/ Picked("service") /\ Service!Next
  \/ Picked("log") /\ Log!Next

(* The fairness of each part, required of the one that was picked.  Only
   the properties of the main queue need none. *)
ThreadsFairness ==
  /\ \A p \in Pushers : WF_netVars(part = "net" /\ Net!Notify(p))
  /\ WF_netVars(part = "net" /\ Net!Reader)
  /\ \A w \in Waiters : WF_semVars(part = "semaphore" /\ Sem!Resume(w))
  /\ \A n \in Life!Workers :
       /\ WF_lifeVars(part = "thread" /\ quit /\ Life!RunEnds(n))
       /\ WF_lifeVars(part = "thread" /\ Life!Wakeup(n))
       /\ WF_lifeVars(part = "thread" /\ Life!NotRun(n))
  /\ \A c \in Stoppers :
       /\ WF_lifeVars(part = "thread" /\ Life!Close(c))
       /\ WF_lifeVars(part = "thread" /\ Life!CloseClear(c))
       /\ WF_lifeVars(part = "thread" /\ Life!CloseReturn(c))
  /\ WF_serviceVars(part = "service" /\ Service!Main)
  /\ \A t \in Service!Threads :
       /\ WF_serviceVars(part = "service" /\ Service!ReadSocket(t))
       /\ WF_serviceVars(part = "service" /\ Service!PopCommand(t))
       /\ WF_serviceVars(part = "service" /\ Service!ThreadEnds(t))
  /\ WF_logVars(part = "log" /\ Log!LogThread)
  /\ WF_logVars(part = "log" /\ Log!Close)
  /\ \A p \in Log!Producers : WF_logVars(part = "log" /\ Log!Push(p))
  /\ \A p \in Loggers : WF_logVars(part = "log" /\ Log!Fill(p))

ThreadsSpec == /\ ThreadsInit
               /\ [][ThreadsNext]_<<part, vars, netVars, semVars, lifeVars, serviceVars, logVars>>
               /\ ThreadsFairness

-----------------------------------------------------------------------------
(* A net thread's queue, which is emptied at every wake-up, implements the
   Mailbox with its liveness: every command is popped in the end. *)
NetImplementsMailbox == Net!ImplementsMailbox

(* Semaphore implements a counting semaphore (CountingSemaphore): no waiter
   sleeps while there is a permit for it. *)
ImplementsSemaphore == Sem!ImplementsSemaphore

(* A stop that has returned is safe to rely on: no callback of the thread
   and no net thread runs, a close that waits is owed a permit by a run,
   commands sent before the nullptr were handled, and the counters of the
   semaphore tell who waits and who may go. *)
StopIsSafe == /\ Life!StopWaits /\ Life!OnePermitPerRun
              /\ Service!NothingCutOff /\ Service!StoppedIsQuiet
              /\ Sem!CountersAgree

(* Thread::close returns, whether the thread runs, ends or is gone. *)
StopReturns == Life!StopReturns

(* A connection accepted before the net threads run is served once they do,
   and its NEW is processed. *)
EarlyServed == Service!EarlyServed

(* Each log buffer is in one place, once, and a line logged before the
   destructor began is in the file at its end. *)
LinesKept == Log!OneHolder /\ Log!NothingLost

(* The destructor of the sink ends, the queue full or not, and until then
   no call of log blocks for ever. *)
LoggingEnds == Log!DestructorEnds /\ Log!LogReturns

(* Callers and log thread together implement the bounded log (BoundedLog). *)
ImplementsLog == Log!ImplementsLog
=============================================================================
