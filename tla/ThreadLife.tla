----------------------------- MODULE ThreadLife -----------------------------
(***************************************************************************)
(* thread.cc as net/acceptor.cc uses it: start sets quit_ to false and     *)
(* starts a detached thread, stop and the destructor set quit_ and call    *)
(* close, which waits on a semaphore for the thread's end.  is_run_ is     *)
(* read and written by the starting and the started thread, and by no      *)
(* constructor: its first value is whatever the memory held.  The          *)
(* semaphore is a CountingSemaphore (see Semaphore).                       *)
(*                                                                         *)
(* A definition introduced by "Slip" is not part of the specification: it  *)
(* is a plausible mistake in the operation that follows it, kept to show   *)
(* that a property notices it.                                             *)
(***************************************************************************)
EXTENDS Naturals, FiniteSets

CONSTANTS Callers,     \* threads that call start and stop
          MaxStarts,   \* bound: calls of start
          FirstIsRun,  \* values is_run_ may have after the constructor
          NoCaller

VARIABLES is_run, quit, mutex,
          permits,     \* value of sem_
          pc,          \* pc[c]: "idle", "close" before close's lock, "clear" after
                       \* its test of is_run_, "wait" in sem_.wait
          workers,     \* workers[n]: "none", "run" in the callbacks, "ended"
                       \* between them and wakeup, "woken" before is_run_ = false, "gone"
          starts,      \* calls of start
          stopped      \* a stop has returned and no start was called since

vars == <<is_run, quit, mutex, permits, pc, workers, starts, stopped>>

Workers == 1 .. MaxStarts

Init == /\ is_run \in FirstIsRun
        /\ quit = TRUE /\ mutex = NoCaller
        /\ permits = 0 /\ pc = [c \in Callers |-> "idle"]
        /\ workers = [n \in Workers |-> "none"]
        /\ starts = 0 /\ stopped = FALSE

NobodyInside == \A c \in Callers : pc[c] = "idle"

Goes(c, from, to) == pc[c] = from /\ pc' = [pc EXCEPT ![c] = to]

(* Acceptor::start: quit_ = false, then Thread::start.  The owner does not
   start a thread that is being stopped. *)
Start(c) ==
  /\ NobodyInside /\ mutex = NoCaller
  /\ starts < MaxStarts
  /\ starts' = starts + 1
  /\ quit' = FALSE /\ stopped' = FALSE
  /\ is_run' = TRUE
  /\ workers' = IF is_run THEN workers ELSE [workers EXCEPT ![starts + 1] = "run"]
  /\ UNCHANGED <<mutex, permits, pc>>

(* Acceptor::stop: quit_ = true, then close. *)
Stop(c) ==
  /\ Goes(c, "idle", "close")
  /\ quit' = TRUE
  /\ UNCHANGED <<is_run, mutex, permits, workers, starts, stopped>>

(* ~Acceptor calls close only if isRun(). *)
Destroy(c) ==
  /\ NobodyInside
  /\ quit' = TRUE
  /\ IF is_run THEN Goes(c, "idle", "close") /\ UNCHANGED stopped
     ELSE stopped' = TRUE /\ UNCHANGED pc
  /\ UNCHANGED <<is_run, mutex, permits, workers, starts>>

(* close: the lock and the test of is_run_. *)
Close(c) ==
  /\ mutex = NoCaller
  /\ IF is_run
     THEN Goes(c, "close", "clear") /\ mutex' = c /\ UNCHANGED stopped
     ELSE Goes(c, "close", "idle") /\ stopped' = TRUE /\ UNCHANGED mutex
  /\ UNCHANGED <<is_run, quit, permits, workers, starts>>

(* Slip: the mutex is released before the wait. *)
CloseClearUnlocks(c) ==
  /\ Goes(c, "clear", "wait")
  /\ is_run' = FALSE /\ mutex' = NoCaller
  /\ UNCHANGED <<quit, permits, workers, starts, stopped>>

CloseClear(c) ==
  /\ Goes(c, "clear", "wait")
  /\ is_run' = FALSE
  /\ UNCHANGED <<quit, mutex, permits, workers, starts, stopped>>

(* Slip: close forgets to unlock. *)
CloseReturnLocked(c) ==
  /\ Goes(c, "wait", "idle")
  /\ permits > 0 /\ permits' = permits - 1
  /\ stopped' = TRUE
  /\ UNCHANGED <<is_run, quit, mutex, workers, starts>>

CloseReturn(c) ==
  /\ Goes(c, "wait", "idle")
  /\ permits > 0 /\ permits' = permits - 1
  /\ mutex' = NoCaller
  /\ stopped' = TRUE
  /\ UNCHANGED <<is_run, quit, workers, starts>>

Moves(n, from, to) == /\ workers[n] = from
                      /\ workers' = [workers EXCEPT ![n] = to]

(* The callbacks return: the loop saw quit_, or epoll_wait failed. *)
RunEnds(n) == /\ Moves(n, "run", "ended")
              /\ UNCHANGED <<is_run, quit, mutex, permits, pc, starts, stopped>>

(* Slip: the end of the thread is signalled twice. *)
WakeupTwice(n) == /\ Moves(n, "ended", "woken")
                  /\ permits' = permits + 2
                  /\ UNCHANGED <<is_run, quit, mutex, pc, starts, stopped>>

Wakeup(n) == /\ Moves(n, "ended", "woken")
             /\ permits' = permits + 1
             /\ UNCHANGED <<is_run, quit, mutex, pc, starts, stopped>>

(* The last statement of onRun, without the mutex. *)
NotRun(n) == /\ Moves(n, "woken", "gone")
             /\ is_run' = FALSE
             /\ UNCHANGED <<quit, mutex, permits, pc, starts, stopped>>

Next == \/ \E c \in Callers : \/ Start(c) \/ Stop(c) \/ Destroy(c)
                            \/ Close(c) \/ CloseClear(c) \/ CloseReturn(c)
        \/ \E n \in Workers : RunEnds(n) \/ Wakeup(n) \/ NotRun(n)

(* A loop that has been told to quit ends; threads run; the semaphore grants
   a permit to its waiter. *)
Spec == /\ Init /\ [][Next]_vars
        /\ \A n \in Workers : /\ WF_vars(quit /\ RunEnds(n))
                              /\ WF_vars(Wakeup(n)) /\ WF_vars(NotRun(n))
        /\ \A c \in Callers : WF_vars(Close(c)) /\ WF_vars(CloseClear(c)) /\ WF_vars(CloseReturn(c))

----------------------------------------------------------------------------
(* After stop has returned no callback of the thread runs, so the object may
   be destroyed; this rests on close and onRun racing on is_run_. *)
StopWaits == stopped => \A n \in Workers : workers[n] # "run"

(* The permits match the ended runs: at most one close waits, and a close
   that waits is owed a permit by a run that has not used it. *)
OnePermitPerRun ==
  /\ Cardinality({c \in Callers : pc[c] = "wait"}) <= 1
  /\ permits <= Cardinality({n \in Workers : workers[n] \in {"woken", "gone"}})
  /\ (\E c \in Callers : pc[c] = "wait") => permits > 0 \/ \E n \in Workers : workers[n] \in {"run", "ended"}

(* stop returns, whether the thread is running, ending or already gone. *)
StopReturns == \A c \in Callers : pc[c] # "idle" ~> pc[c] = "idle"

(* "Start the network threads" (server/tcp_service.cc:152): after a start
   the thread runs. *)
Started == starts > 0 ~> \E n \in Workers : workers[n] # "none"
=============================================================================
