---------------------------- MODULE MessageQueue ----------------------------
(***************************************************************************)
(* net/message_queue.h on Linux: a mutex-protected queue whose owner is a  *)
(* thread blocked in epoll_wait.  A push is two separate steps, the        *)
(* insertion under the queue's mutex and a one-byte write to a             *)
(* non-blocking self-pipe; the owner, woken by the pipe (level-triggered), *)
(* drains the pipe and then pops.  Two owners exist: NetThread::onNetCommand *)
(* pops until the queue is empty (BatchLimit = 0), and                     *)
(* TcpService::onClientNetCommandQueueRead returns after 100 commands      *)
(* (BatchLimit = 100 in the code).                                         *)
(*                                                                         *)
(* A definition introduced by "Slip" is not part of the specification: it  *)
(* is a plausible mistake in the operation that follows it, kept to show   *)
(* that a property notices it.                                             *)
(***************************************************************************)
EXTENDS Naturals, Sequences

CONSTANTS Pushers,       \* threads that push
          MaxPush,       \* bound: pushes per thread
          PipeCapacity,  \* bytes the pipe holds before a write gets EAGAIN
          ReadChunk,     \* bytes one read of the drain loop takes (1024)
          BatchLimit     \* commands popped per wake-up, 0 when unlimited

ASSUME MaxPushAssumption == MaxPush \in Nat
ASSUME PipeAssumption == /\ PipeCapacity \in Nat \ {0}
                         /\ ReadChunk \in Nat \ {0}
ASSUME BatchAssumption == BatchLimit \in Nat

VARIABLES queue,   \* queue_: commands <<pusher, number>>
          pipe,    \* bytes in the self-pipe
          pusher,  \* pusher[p]: "idle", or "notify" between the two steps of push
          reader,  \* the owner: "poll" in epoll_wait, "drain", or "pop"
          count,   \* commands popped in the current batch (0 when unlimited)
          pushed,  \* pushed[p]: how many commands p has pushed
          last     \* last[p]: number of the last command of p popped

vars == <<queue, pipe, pusher, reader, count, pushed, last>>

Init == /\ queue = << >>
        /\ pipe = 0
        /\ pusher = [p \in Pushers |-> "idle"]
        /\ reader = "poll"
        /\ count = 0
        /\ pushed = [p \in Pushers |-> 0]
        /\ last = [p \in Pushers |-> 0]

----------------------------------------------------------------------------
(* push, first step: ConcurrentQueue::push on an unbounded queue. *)
Push(p) == /\ pusher[p] = "idle"
           /\ pushed[p] < MaxPush
           /\ queue' = Append(queue, <<p, pushed[p] + 1>>)
           /\ pushed' = [pushed EXCEPT ![p] = @ + 1]
           /\ pusher' = [pusher EXCEPT ![p] = "notify"]
           /\ UNCHANGED <<pipe, reader, count, last>>

(* Slip: write to the pipe only when the command is alone in the queue. *)
NotifyIfAlone(p) == /\ pusher[p] = "notify"
                    /\ pipe' = IF Len(queue) = 1 THEN pipe + 1 ELSE pipe
                    /\ pusher' = [pusher EXCEPT ![p] = "idle"]
                    /\ UNCHANGED <<queue, reader, count, pushed, last>>

(* push, second step: pipe_.write("1", 1).  The result is ignored; on a
   full pipe nothing is written. *)
Notify(p) == /\ pusher[p] = "notify"
             /\ pipe' = IF pipe < PipeCapacity THEN pipe + 1 ELSE pipe
             /\ pusher' = [pusher EXCEPT ![p] = "idle"]
             /\ UNCHANGED <<queue, reader, count, pushed, last>>

(* epoll_wait reports the readable pipe and calls pipeReadCallback. *)
Wake == /\ reader = "poll"
        /\ pipe > 0
        /\ reader' = "drain"
        /\ UNCHANGED <<queue, pipe, pusher, count, pushed, last>>

(* One successful read of the drain loop. *)
DrainRead == /\ reader = "drain"
             /\ pipe > 0
             /\ pipe' = IF pipe > ReadChunk THEN pipe - ReadChunk ELSE 0
             /\ UNCHANGED <<queue, pusher, reader, count, pushed, last>>

(* Slip: the batch counter is not reset. *)
DrainDoneNoReset == /\ reader = "drain"
                    /\ pipe = 0
                    /\ reader' = "pop"
                    /\ UNCHANGED <<queue, pipe, pusher, count, pushed, last>>

(* The read that finds the pipe empty ends the loop; recv_message_cb_ is
   called and starts a batch. *)
DrainDone == /\ reader = "drain"
             /\ pipe = 0
             /\ reader' = "pop"
             /\ count' = 0
             /\ UNCHANGED <<queue, pipe, pusher, pushed, last>>

BatchFull(n) == BatchLimit > 0 /\ n >= BatchLimit

(* Slip: an if in place of the loop, one command per wake-up. *)
PopOnce == /\ reader = "pop"
           /\ queue # << >>
           /\ queue' = Tail(queue)
           /\ last' = [last EXCEPT ![Head(queue)[1]] = Head(queue)[2]]
           /\ reader' = "poll"
           /\ UNCHANGED <<pipe, pusher, count, pushed>>

(* Slip: the batch ends one command early. *)
PopStopsEarly == /\ reader = "pop"
                 /\ queue # << >>
                 /\ queue' = Tail(queue)
                 /\ last' = [last EXCEPT ![Head(queue)[1]] = Head(queue)[2]]
                 /\ count' = IF BatchLimit > 0 THEN count + 1 ELSE 0
                 /\ reader' = IF BatchFull(count + 2) THEN "poll" ELSE "pop"
                 /\ UNCHANGED <<pipe, pusher, pushed>>

(* Slip: the limit is tested between pop and processing, so the command
   that fills the batch is lost. *)
PopThenTest == /\ reader = "pop"
               /\ queue # << >>
               /\ queue' = Tail(queue)
               /\ last' = IF BatchFull(count + 1) THEN last
                          ELSE [last EXCEPT ![Head(queue)[1]] = Head(queue)[2]]
               /\ count' = IF BatchLimit > 0 THEN count + 1 ELSE 0
               /\ reader' = IF BatchFull(count + 1) THEN "poll" ELSE "pop"
               /\ UNCHANGED <<pipe, pusher, pushed>>

(* One iteration of the callback's loop: pop succeeds, the command is
   processed, and the callback returns if the batch is full. *)
Pop == /\ reader = "pop"
       /\ queue # << >>
       /\ queue' = Tail(queue)
       /\ last' = [last EXCEPT ![Head(queue)[1]] = Head(queue)[2]]
       /\ count' = IF BatchLimit > 0 THEN count + 1 ELSE 0
       /\ reader' = IF BatchFull(count + 1) THEN "poll" ELSE "pop"
       /\ UNCHANGED <<pipe, pusher, pushed>>

(* pop fails: the callback returns to epoll_wait. *)
PopEmpty == /\ reader = "pop"
            /\ queue = << >>
            /\ reader' = "poll"
            /\ UNCHANGED <<queue, pipe, pusher, count, pushed, last>>

Reader == Wake \/ DrainRead \/ DrainDone \/ Pop \/ PopEmpty

Next == (\E p \in Pushers : Push(p) \/ Notify(p)) \/ Reader

(* A thread inside push finishes it, and the owner's loop keeps running;
   nobody is obliged to push. *)
Fairness == /\ \A p \in Pushers : WF_vars(Notify(p))
            /\ WF_vars(Reader)

Spec == Init /\ [][Next]_vars
FairSpec == Spec /\ Fairness

----------------------------------------------------------------------------
Command == Pushers \X (1 .. MaxPush)

(* Every variable stays in its domain; the pipe never holds more than its
   capacity and a batch never exceeds its limit. *)
TypeOK == /\ queue \in Seq(Command)
          /\ pipe \in 0 .. PipeCapacity
          /\ pusher \in [Pushers -> {"idle", "notify"}]
          /\ reader \in {"poll", "drain", "pop"}
          /\ count \in 0 .. BatchLimit
          /\ pushed \in [Pushers -> 0 .. MaxPush]
          /\ last \in [Pushers -> 0 .. MaxPush]

(* No lost wake-up: when the owner is back in epoll_wait with commands still
   in the queue, a byte is in the pipe or a pusher is about to write one --
   unless the owner itself gave up because its batch was full.  It is the
   order of the two steps of push against drain-then-pop that makes it so. *)
NoLostWakeup ==
  (reader = "poll" /\ queue # << >>) =>
     \/ pipe > 0
     \/ \E p \in Pushers : pusher[p] = "notify"
     \/ BatchFull(count)

(* Each pop takes the next command of its pusher: the commands of a thread
   are neither lost, duplicated nor reordered on their way to the owner. *)
InOrder == [][\A p \in Pushers : last'[p] # last[p] => last'[p] = last[p] + 1]_vars

(* The self-pipe protocol implements the mailbox its users rely on,
   including that a queued command does not stay queued for ever. *)
Box == INSTANCE Mailbox
ImplementsMailbox == Box!MailboxSpec

(* "The main thread has a message queue and handles the messages in turn"
   (README.md:21): a pushed command is eventually popped. *)
EventuallyPopped ==
  \A p \in Pushers : \A n \in 1 .. MaxPush : pushed[p] >= n ~> last[p] >= n
=============================================================================
