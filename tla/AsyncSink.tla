----------------------------- MODULE AsyncSink ------------------------------
(***************************************************************************)
(* LoggerAsyncSink: callers of log fill a buffer from the ObjectPool and   *)
(* push it into a bounded ConcurrentQueue; the log thread pops it, writes  *)
(* it to the adapted sink and returns it to the pool; the destructor       *)
(* pushes NULL and waits for the thread.  A critical section of a mutex is *)
(* one step; a wait on a condition variable is a place where a process     *)
(* stays until it is notified, or wakes up spuriously.  Buffer 0 is NULL.  *)
(*                                                                         *)
(* A definition introduced by "Slip" is a plausible mistake in the         *)
(* operation that follows it and is not part of the specification.         *)
(***************************************************************************)
EXTENDS Naturals, Sequences, FiniteSets

CONSTANTS Callers,   \* threads that log
          MaxLines,  \* bound: lines each of them logs
          MaxSize    \* the queue's max_size_, 0 when it is unbounded

Owner == "owner"           \* the thread that destroys the sink
Producers == Callers \cup {Owner}
Lines == Callers \X (1 .. MaxLines)
NoLine == <<Owner, 0>>
Buffers == 1 .. Cardinality(Lines)   \* one per line is as many as can be made

VARIABLES
  queue,     \* queue_
  pc,        \* pc[p]: what p does next
  said,      \* lines p has begun to log
  held,      \* held[p]: the buffer p holds, 0 for none
  text,      \* text[b]: what buffer b holds
  pool,      \* reused_object_list_
  made,      \* buffers created with new
  reader,    \* the log thread: "pop", "empty", "write", "return" or "ended"
  current,   \* queue_buffer of the log thread
  file,      \* what the adapted sink has written
  logged     \* lines whose log returned before the destructor began

poolVars == <<pool, made, text>>
callerVars == <<said, held>>
vars == <<queue, pc, callerVars, poolVars, reader, current, file, logged>>

Init == /\ queue = << >> /\ file = << >> /\ logged = {}
        /\ pc = [p \in Producers |-> "idle"]
        /\ said = [p \in Callers |-> 0] /\ held = [p \in Producers |-> 0]
        /\ text = [b \in Buffers |-> NoLine]
        /\ pool = << >> /\ made = 0
        /\ reader = "pop" /\ current = 0

Goes(p, place) == pc' = [pc EXCEPT ![p] = place]

(* Slip: > for >=. *)
FullBeyond == MaxSize # 0 /\ Len(queue) > MaxSize

Full == MaxSize # 0 /\ Len(queue) >= MaxSize

----------------------------------------------------------------------------
(* Slip: the push into an empty queue is taken for one nobody waits for. *)
NotifyLater == reader' = IF reader = "empty" /\ queue # << >> THEN "pop" ELSE reader

(* notify_one wakes any one of those who wait, if there is one. *)
NotifyNotEmpty == reader' = IF reader = "empty" THEN "pop" ELSE reader

(* Slip: the writer's pop wakes nobody. *)
NotifyNobody == UNCHANGED pc

NotifyNotFull ==
  LET waiting == {p \in Producers : pc[p] = "full"} IN
  IF waiting = {} THEN UNCHANGED pc
  ELSE \E p \in waiting : Goes(p, "push")

(* ConcurrentQueue::push, of held[p]. *)
Push(p) ==
  /\ pc[p] = "push"
  /\ IF Full
     THEN /\ Goes(p, "full")
          /\ UNCHANGED <<queue, held, reader, logged>>
     ELSE /\ queue' = Append(queue, held[p])
          /\ held' = [held EXCEPT ![p] = 0]
          /\ NotifyNotEmpty
          /\ Goes(p, IF p = Owner THEN "close" ELSE "idle")
          /\ logged' = IF p # Owner /\ pc[Owner] = "idle"
                       THEN logged \cup {<<p, said[p]>>} ELSE logged
  /\ UNCHANGED <<said, poolVars, current, file>>

(* Slip: the buffer goes back to the pool before it is read. *)
PopReturns ==
  /\ reader = "pop"
  /\ IF queue = << >>
     THEN reader' = "empty" /\ UNCHANGED <<queue, pc, current, pool>>
     ELSE /\ queue' = Tail(queue) /\ current' = Head(queue)
          /\ reader' = IF Head(queue) = 0 THEN "ended" ELSE "write"
          /\ pool' = IF Head(queue) = 0 THEN pool ELSE Append(pool, Head(queue))
          /\ NotifyNotFull
  /\ UNCHANGED <<callerVars, made, text, file, logged>>

(* ConcurrentQueue::pop of the log thread. *)
Pop ==
  /\ reader = "pop"
  /\ IF queue = << >>
     THEN reader' = "empty" /\ UNCHANGED <<queue, pc, current>>
     ELSE /\ queue' = Tail(queue) /\ current' = Head(queue)
          /\ reader' = IF Head(queue) = 0 THEN "ended" ELSE "write"
          /\ NotifyNotFull
  /\ UNCHANGED <<callerVars, poolVars, file, logged>>

Spurious ==
  /\ \/ \E p \in Producers : pc[p] = "full" /\ Goes(p, "push") /\ UNCHANGED reader
     \/ reader = "empty" /\ reader' = "pop" /\ UNCHANGED pc
  /\ UNCHANGED <<queue, callerVars, poolVars, current, file, logged>>

----------------------------------------------------------------------------
(* Impl::log: a buffer of the pool, or a new one, filled outside the lock. *)
GetObject(p) ==
  /\ pc[p] = "idle" /\ said[p] < MaxLines /\ pc[Owner] = "idle"
  /\ said' = [said EXCEPT ![p] = @ + 1]
  /\ IF pool # << >>
     THEN /\ held' = [held EXCEPT ![p] = pool[Len(pool)]]
          /\ pool' = SubSeq(pool, 1, Len(pool) - 1)
          /\ UNCHANGED made
     ELSE /\ held' = [held EXCEPT ![p] = made + 1]
          /\ made' = made + 1
          /\ UNCHANGED pool
  /\ Goes(p, "fill")
  /\ UNCHANGED <<queue, text, reader, current, file, logged>>

Fill(p) ==
  /\ pc[p] = "fill"
  /\ text' = [text EXCEPT ![held[p]] = <<p, said[p]>>]
  /\ Goes(p, "push")
  /\ UNCHANGED <<queue, callerVars, pool, made, reader, current, file, logged>>

(* logThreadFunc: write, then back to the pool. *)
WriteOut == /\ reader = "write"
            /\ file' = Append(file, text[current])
            /\ reader' = "return"
            /\ UNCHANGED <<queue, pc, callerVars, poolVars, current, logged>>

ReturnObject == /\ reader = "return"
                /\ pool' = Append(pool, current)
                /\ current' = 0 /\ reader' = "pop"
                /\ UNCHANGED <<queue, pc, callerVars, made, text, file, logged>>

(* ~Impl: NULL into the queue, then the thread's close.  A caller may still
   be inside log. *)
Destroy == /\ pc[Owner] = "idle"
           /\ Goes(Owner, "push")
           /\ UNCHANGED <<queue, callerVars, poolVars, reader, current, file, logged>>

(* Slip: the destructor does not wait for the thread. *)
CloseAtOnce == /\ pc[Owner] = "close"
               /\ Goes(Owner, "done")
               /\ UNCHANGED <<queue, callerVars, poolVars, reader, current, file, logged>>

Close == /\ pc[Owner] = "close" /\ reader = "ended"
         /\ Goes(Owner, "done")
         /\ UNCHANGED <<queue, callerVars, poolVars, reader, current, file, logged>>

LogThread == Pop \/ WriteOut \/ ReturnObject
Next == \/ LogThread \/ Spurious \/ Destroy \/ Close
        \/ \E p \in Producers : Push(p)
        \/ \E p \in Callers : GetObject(p) \/ Fill(p)

(* Threads run; nobody has to log or to destroy the sink.  The mutex is
   fair in that who keeps asking for it gets it. *)
Spec == /\ Init /\ [][Next]_vars
        /\ WF_vars(LogThread) /\ WF_vars(Close)
        /\ \A p \in Producers : WF_vars(Push(p))
        /\ \A p \in Callers : WF_vars(Fill(p))

----------------------------------------------------------------------------
(* Each buffer is in one place: a caller's hands, the queue, the log
   thread's hands or the pool, once. *)
Places(b) == {<<"caller", p>> : p \in {p \in Producers : held[p] = b}}
             \cup {<<"queue", i>> : i \in {i \in DOMAIN queue : queue[i] = b}}
             \cup {<<"pool", i>> : i \in {i \in DOMAIN pool : pool[i] = b}}
             \cup (IF reader \in {"write", "return"} /\ current = b
                   THEN {<<"thread", 0>>} ELSE {})
OneHolder == \A b \in Buffers : IF b <= made THEN \E x \in Places(b) : Places(b) = {x}
                               ELSE Places(b) = {}

(* A line whose log returned before the destructor began is in the file when
   the destructor has returned. *)
NothingLost ==
  pc[Owner] = "done" => \A l \in logged : \E i \in DOMAIN file : file[i] = l

(* The destructor comes to its end, the queue full or not. *)
DestructorEnds == pc[Owner] = "push" ~> pc[Owner] = "done"

(* While the sink is not being destroyed no call of log blocks for ever. *)
LogReturns ==
  \A p \in Callers : pc[p] = "push" ~> pc[p] = "idle" \/ pc[Owner] # "idle"

(* Callers and log thread together implement the bounded log. *)
InHand == IF reader = "write" THEN <<text[current]>> ELSE << >>
Log == INSTANCE BoundedLog WITH
         Lines <- Lines, Mark <- NoLine, Limit <- IF MaxSize = 0 THEN 0 ELSE MaxSize + 1,
         pending <- InHand \o [i \in DOMAIN queue |->
                                 IF queue[i] = 0 THEN NoLine ELSE text[queue[i]]],
         written <- file,
         closed <- (reader = "ended")
ImplementsLog == Log!Spec
=============================================================================
