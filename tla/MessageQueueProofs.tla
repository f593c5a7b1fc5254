------------------------- MODULE MessageQueueProofs -------------------------
(***************************************************************************)
(* The self-pipe queue for any number of pushers, any pipe and any batch   *)
(* limit: types, no lost wake-up, in-order delivery, and the safety part   *)
(* of the refinement of Mailbox.                                           *)
(***************************************************************************)
EXTENDS MessageQueue, QueueFacts, TLAPS

----------------------------------------------------------------------------
(* The parts of the inductive invariant. *)

(* While the owner pops, the batch has room for one more command. *)
BatchOpen == reader = "pop" => ~BatchFull(count)

(* What was popped had been pushed. *)
PoppedWasPushed == \A p \in Pushers : last[p] <= pushed[p]

(* A queued command is newer than the last one popped of its pusher. *)
QueuedIsNew == \A i \in 1 .. Len(queue) :
                  /\ last[queue[i][1]] < queue[i][2]
                  /\ queue[i][2] <= pushed[queue[i][1]]

(* The commands of one pusher are queued in the order of their numbers. *)
QueuedInOrder == \A i, j \in 1 .. Len(queue) :
                    (i < j /\ queue[i][1] = queue[j][1]) => queue[i][2] < queue[j][2]

(* Every command pushed and not yet popped is in the queue. *)
NothingMissing == \A p \in Pushers : \A n \in 1 .. MaxPush :
                     (last[p] < n /\ n <= pushed[p]) =>
                        \E i \in 1 .. Len(queue) : queue[i] = <<p, n>>

IInv == /\ TypeOK
        /\ BatchOpen
        /\ NoLostWakeup
        /\ PoppedWasPushed
        /\ QueuedIsNew
        /\ QueuedInOrder
        /\ NothingMissing

----------------------------------------------------------------------------
(* An empty queue with its owner in epoll_wait satisfies the invariant. *)
LEMMA InitIInv == Init => IInv
BY MaxPushAssumption, PipeAssumption, BatchAssumption
   DEF Init, IInv, TypeOK, BatchOpen, NoLostWakeup, PoppedWasPushed, QueuedIsNew,
       QueuedInOrder, NothingMissing, Command

(* Inserting a command under the mutex keeps the invariant. *)
LEMMA PushIInv ==
  ASSUME IInv, NEW p \in Pushers, Push(p)
  PROVE  IInv'
<1> DEFINE c == <<p, pushed[p] + 1>>
<1>1. c \in Command /\ queue \in Seq(Command) /\ pushed[p] \in Nat /\ pushed[p] + 1 \in 1 .. MaxPush
  BY MaxPushAssumption DEF IInv, TypeOK, Push, Command
<1>2. queue' = Append(queue, c) BY DEF Push
<1>3. /\ queue' \in Seq(Command)
      /\ Len(queue') = Len(queue) + 1
      /\ \A i \in 1 .. Len(queue) : queue'[i] = queue[i]
      /\ queue'[Len(queue) + 1] = c
  <2> HIDE DEF c
  <2> QED BY <1>1, <1>2, AppendFacts
<1>4. TypeOK'
  BY <1>1, <1>3, MaxPushAssumption DEF IInv, TypeOK, Push
<1>5. BatchOpen' BY DEF IInv, BatchOpen, BatchFull, Push
<1>6. NoLostWakeup' BY DEF IInv, TypeOK, Push, NoLostWakeup
<1>7. QueuedIsNew'
  <2> SUFFICES ASSUME NEW i \in 1 .. Len(queue')
               PROVE  /\ last'[queue'[i][1]] < queue'[i][2]
                      /\ queue'[i][2] <= pushed'[queue'[i][1]]
    BY DEF QueuedIsNew
  <2>0. Len(queue) \in Nat BY <1>1
  <2>1. CASE i = Len(queue) + 1
    <3>1. queue'[i][1] = p /\ queue'[i][2] = pushed[p] + 1 BY <1>3, <2>1
    <3>2. last[p] <= pushed[p] BY DEF IInv, PoppedWasPushed
    <3> QED BY <3>1, <3>2, <1>1 DEF Push, IInv, TypeOK
  <2>2. CASE i # Len(queue) + 1
    <3>1. i \in 1 .. Len(queue) BY <2>0, <2>2, <1>3
    <3>2. queue'[i] = queue[i] /\ queue[i] \in Command BY <3>1, <1>3, <1>1
    <3>3. last[queue[i][1]] < queue[i][2] /\ queue[i][2] <= pushed[queue[i][1]]
      BY <3>1 DEF IInv, QueuedIsNew
    <3>4. queue[i][1] \in Pushers /\ queue[i][2] \in Nat BY <3>2, MaxPushAssumption DEF Command
    <3>5. pushed[queue[i][1]] <= pushed'[queue[i][1]]
      BY <3>4, MaxPushAssumption DEF Push, IInv, TypeOK
    <3>6. pushed[queue[i][1]] \in Nat /\ pushed'[queue[i][1]] \in Nat
      BY <3>4, <1>4, MaxPushAssumption DEF IInv, TypeOK
    <3> QED BY <3>2, <3>3, <3>4, <3>5, <3>6 DEF Push
  <2> QED BY <2>1, <2>2
<1>8. QueuedInOrder'
  <2> SUFFICES ASSUME NEW i \in 1 .. Len(queue'), NEW j \in 1 .. Len(queue'),
                      i < j, queue'[i][1] = queue'[j][1]
               PROVE  queue'[i][2] < queue'[j][2]
    BY DEF QueuedInOrder
  <2>0. Len(queue) \in Nat BY <1>1
  <2>1. i \in 1 .. Len(queue) /\ queue'[i] = queue[i] BY <1>3, <2>0
  <2>2. queue[i] \in Command BY <2>1, <1>1
  <2>3. CASE j = Len(queue) + 1
    <3>1. queue'[j][1] = p /\ queue'[j][2] = pushed[p] + 1 BY <1>3, <2>3
    <3>2. queue[i][2] <= pushed[p] BY <2>1, <3>1 DEF IInv, QueuedIsNew
    <3>3. queue[i][2] \in Nat BY <2>2, MaxPushAssumption DEF Command
    <3> QED BY <3>1, <3>2, <3>3, <2>1, <1>1
  <2>4. CASE j # Len(queue) + 1
    <3>1. j \in 1 .. Len(queue) /\ queue'[j] = queue[j] BY <1>3, <2>0, <2>4
    <3> QED BY <3>1, <2>1 DEF IInv, QueuedInOrder
  <2> QED BY <2>3, <2>4
<1>9. NothingMissing'
  <2> SUFFICES ASSUME NEW r \in Pushers, NEW n \in 1 .. MaxPush,
                      last'[r] < n, n <= pushed'[r]
               PROVE  \E i \in 1 .. Len(queue') : queue'[i] = <<r, n>>
    BY DEF NothingMissing
  <2>0. Len(queue) \in Nat BY <1>1
  <2>1. CASE r = p /\ n = pushed[p] + 1
    BY <2>0, <2>1, <1>3
  <2>2. CASE ~(r = p /\ n = pushed[p] + 1)
    <3>1. last[r] < n /\ n <= pushed[r]
      BY <2>2, MaxPushAssumption DEF Push, IInv, TypeOK
    <3>2. PICK i \in 1 .. Len(queue) : queue[i] = <<r, n>>
      BY <3>1 DEF IInv, NothingMissing
    <3>3. i \in 1 .. Len(queue') /\ queue'[i] = <<r, n>> BY <3>2, <1>3, <2>0
    <3> QED BY <3>3
  <2> QED BY <2>1, <2>2
<1>10. PoppedWasPushed'
  BY <1>1, MaxPushAssumption DEF PoppedWasPushed, IInv, TypeOK, Push
<1> QED BY <1>4, <1>5, <1>6, <1>7, <1>8, <1>9, <1>10 DEF IInv

(* What a pop finds at the head of the queue: the next command of its
   pusher, because an earlier one missing from the queue would contradict
   NothingMissing and one behind it QueuedInOrder. *)
LEMMA HeadIsNext ==
  ASSUME IInv, queue # << >>
  PROVE  /\ Head(queue) \in Command
         /\ Head(queue)[1] \in Pushers
         /\ Head(queue)[2] \in 1 .. MaxPush
         /\ Head(queue)[2] = last[Head(queue)[1]] + 1
         /\ Head(queue)[2] <= pushed[Head(queue)[1]]
<1> DEFINE p == queue[1][1]
           n == queue[1][2]
<1>1. /\ Head(queue) = queue[1]
      /\ Head(queue) \in Command
      /\ Len(queue) \in Nat /\ Len(queue) > 0
  BY TailFacts DEF IInv, TypeOK
<1>2. p \in Pushers /\ n \in 1 .. MaxPush BY <1>1 DEF Command
<1>3. 1 \in 1 .. Len(queue) BY <1>1
<1>4. last[p] < n /\ n <= pushed[p] BY <1>3 DEF IInv, QueuedIsNew
<1>5. last[p] \in Nat BY <1>2, MaxPushAssumption DEF IInv, TypeOK
<1>6. n = last[p] + 1
  <2> SUFFICES ASSUME n # last[p] + 1 PROVE FALSE OBVIOUS
  <2>1. last[p] + 1 \in 1 .. MaxPush /\ last[p] + 1 < n
    BY <1>2, <1>4, <1>5, MaxPushAssumption
  <2>2. last[p] < last[p] + 1 /\ last[p] + 1 <= pushed[p]
    BY <2>1, <1>2, <1>4, <1>5, MaxPushAssumption DEF IInv, TypeOK
  <2>3. PICK i \in 1 .. Len(queue) : queue[i] = <<p, last[p] + 1>>
    BY <1>2, <2>1, <2>2 DEF IInv, NothingMissing
  <2>4. queue[i][1] = p /\ queue[i][2] = last[p] + 1 BY <2>3
  <2>5. i # 1 BY <2>4, <2>1, <1>2, <1>5
  <2>6. 1 < i BY <2>5, <1>1
  <2>7. n < queue[i][2] BY <2>6, <2>4, <1>3 DEF IInv, QueuedInOrder
  <2> QED BY <2>7, <2>4, <2>1, <1>2, <1>5
<1> QED BY <1>1, <1>2, <1>4, <1>6

(* Popping and processing a command keeps the invariant. *)
LEMMA PopIInv ==
  ASSUME IInv, Pop
  PROVE  IInv'
<1> DEFINE p == Head(queue)[1]
           n == Head(queue)[2]
<1>1. queue # << >> /\ queue' = Tail(queue) BY DEF Pop
<1>2. /\ queue' \in Seq(Command)
      /\ Head(queue) = queue[1]
      /\ Len(queue) \in Nat /\ Len(queue) > 0
      /\ Len(queue') = Len(queue) - 1
      /\ \A i \in 1 .. Len(queue') : queue'[i] = queue[i + 1]
  BY <1>1, TailFacts DEF IInv, TypeOK
<1>3. /\ p \in Pushers /\ n \in 1 .. MaxPush
      /\ n = last[p] + 1 /\ n <= pushed[p]
  BY <1>1, HeadIsNext
<1>4. last' = [last EXCEPT ![p] = n] BY DEF Pop
<1>5. /\ last' \in [Pushers -> 0 .. MaxPush]
      /\ last'[p] = n
      /\ \A r \in Pushers : r # p => last'[r] = last[r]
  BY <1>3, <1>4, MaxPushAssumption DEF IInv, TypeOK
<1> HIDE DEF p, n
<1>6. TypeOK'
  <2>1. count' \in 0 .. BatchLimit
    BY BatchAssumption DEF Pop, IInv, TypeOK, BatchOpen, BatchFull
  <2> QED BY <1>2, <1>5, <2>1 DEF Pop, IInv, TypeOK
<1>7. BatchOpen'
  BY BatchAssumption DEF Pop, IInv, TypeOK, BatchOpen, BatchFull
<1>8. NoLostWakeup'
  BY BatchAssumption DEF Pop, IInv, TypeOK, NoLostWakeup, BatchFull
<1>9. PoppedWasPushed' BY <1>3, <1>5 DEF PoppedWasPushed, IInv, Pop
<1>10. \A i \in 1 .. Len(queue') : i + 1 \in 1 .. Len(queue) BY <1>2
<1>11. QueuedIsNew'
  <2> SUFFICES ASSUME NEW i \in 1 .. Len(queue')
               PROVE  /\ last'[queue'[i][1]] < queue'[i][2]
                      /\ queue'[i][2] <= pushed'[queue'[i][1]]
    BY DEF QueuedIsNew
  <2>1. i + 1 \in 1 .. Len(queue) /\ queue'[i] = queue[i + 1] BY <1>2, <1>10
  <2>2. queue[i + 1] \in Command BY <2>1 DEF IInv, TypeOK
  <2>3. queue[i + 1][1] \in Pushers /\ queue[i + 1][2] \in 1 .. MaxPush BY <2>2 DEF Command
  <2>4. /\ last[queue[i + 1][1]] < queue[i + 1][2]
        /\ queue[i + 1][2] <= pushed[queue[i + 1][1]]
    BY <2>1 DEF IInv, QueuedIsNew
  <2>5. CASE queue[i + 1][1] = p
    <3>1. 1 \in 1 .. Len(queue) /\ 1 < i + 1 BY <1>2
    <3>2. queue[1][1] = p /\ queue[1][2] = n BY <1>2 DEF p, n
    <3>3. n < queue[i + 1][2] BY <3>1, <3>2, <2>1, <2>5 DEF IInv, QueuedInOrder
    <3> QED BY <3>3, <2>1, <2>4, <2>5, <1>5 DEF Pop
  <2>6. CASE queue[i + 1][1] # p
    BY <2>1, <2>3, <2>4, <2>6, <1>5 DEF Pop
  <2> QED BY <2>5, <2>6
<1>12. QueuedInOrder'
  <2> SUFFICES ASSUME NEW i \in 1 .. Len(queue'), NEW j \in 1 .. Len(queue'),
                      i < j, queue'[i][1] = queue'[j][1]
               PROVE  queue'[i][2] < queue'[j][2]
    BY DEF QueuedInOrder
  <2>1. /\ i + 1 \in 1 .. Len(queue) /\ j + 1 \in 1 .. Len(queue)
        /\ queue'[i] = queue[i + 1] /\ queue'[j] = queue[j + 1]
        /\ i + 1 < j + 1
    BY <1>2, <1>10
  <2> QED BY <2>1 DEF IInv, QueuedInOrder
<1>13. NothingMissing'
  <2> SUFFICES ASSUME NEW r \in Pushers, NEW m \in 1 .. MaxPush,
                      last'[r] < m, m <= pushed'[r]
               PROVE  \E i \in 1 .. Len(queue') : queue'[i] = <<r, m>>
    BY DEF NothingMissing
  <2>1. last[r] < m /\ m <= pushed[r]
    BY <1>3, <1>5, MaxPushAssumption DEF Pop, IInv, TypeOK
  <2>2. PICK i \in 1 .. Len(queue) : queue[i] = <<r, m>>
    BY <2>1 DEF IInv, NothingMissing
  <2>3. i # 1
    <3> SUFFICES ASSUME i = 1 PROVE FALSE OBVIOUS
    <3>1. r = p /\ m = n BY <2>2, <1>2 DEF p, n
    <3> QED BY <3>1, <1>5, <1>3, MaxPushAssumption
  <2>4. i - 1 \in 1 .. Len(queue') /\ queue'[i - 1] = queue[(i - 1) + 1]
    BY <2>3, <1>2
  <2>5. (i - 1) + 1 = i BY <1>2
  <2> QED BY <2>2, <2>4, <2>5
<1> QED BY <1>6, <1>7, <1>8, <1>9, <1>11, <1>12, <1>13 DEF IInv

(* The other steps leave the queue, the numbers pushed and the numbers
   popped alone. *)
LEMMA QueueUntouched ==
  ASSUME IInv, UNCHANGED <<queue, pushed, last>>
  PROVE  /\ PoppedWasPushed' /\ QueuedIsNew'
         /\ QueuedInOrder' /\ NothingMissing'
BY DEF IInv, PoppedWasPushed, QueuedIsNew, QueuedInOrder, NothingMissing

(* Every step of a pusher and of the owner keeps the invariant. *)
LEMMA NextIInv == IInv /\ [Next]_vars => IInv'
<1> SUFFICES ASSUME IInv, [Next]_vars PROVE IInv' OBVIOUS
<1> USE MaxPushAssumption, PipeAssumption, BatchAssumption
<1>1. ASSUME NEW p \in Pushers, Push(p) PROVE IInv' BY <1>1, PushIInv
<1>2. ASSUME NEW p \in Pushers, Notify(p) PROVE IInv'
  <2>1. TypeOK' BY <1>2 DEF Notify, IInv, TypeOK
  <2>2. pipe' > 0 BY <1>2 DEF Notify, IInv, TypeOK
  <2>3. NoLostWakeup' BY <2>2 DEF NoLostWakeup
  <2>4. BatchOpen' BY <1>2 DEF Notify, IInv, BatchOpen, BatchFull
  <2> QED BY <2>1, <2>3, <2>4, <1>2, QueueUntouched DEF IInv, Notify
<1>3. CASE Wake
  <2>1. TypeOK' /\ BatchOpen' /\ NoLostWakeup'
    BY <1>3 DEF Wake, IInv, TypeOK, BatchOpen, NoLostWakeup
  <2> QED BY <2>1, <1>3, QueueUntouched DEF IInv, Wake
<1>4. CASE DrainRead
  <2>1. TypeOK' /\ BatchOpen' /\ NoLostWakeup'
    BY <1>4 DEF DrainRead, IInv, TypeOK, BatchOpen, NoLostWakeup
  <2> QED BY <2>1, <1>4, QueueUntouched DEF IInv, DrainRead
<1>5. CASE DrainDone
  <2>1. TypeOK' /\ BatchOpen' /\ NoLostWakeup'
    BY <1>5 DEF DrainDone, IInv, TypeOK, BatchOpen, BatchFull, NoLostWakeup
  <2> QED BY <2>1, <1>5, QueueUntouched DEF IInv, DrainDone
<1>6. CASE Pop BY <1>6, PopIInv
<1>7. CASE PopEmpty
  <2>1. TypeOK' /\ BatchOpen' /\ NoLostWakeup'
    BY <1>7 DEF PopEmpty, IInv, TypeOK, BatchOpen, NoLostWakeup
  <2> QED BY <2>1, <1>7, QueueUntouched DEF IInv, PopEmpty
<1>8. CASE UNCHANGED vars
  <2>1. TypeOK' /\ BatchOpen' /\ NoLostWakeup'
    BY <1>8 DEF vars, IInv, TypeOK, BatchOpen, BatchFull, NoLostWakeup
  <2> QED BY <2>1, <1>8, QueueUntouched DEF IInv, vars
<1> QED BY <1>1, <1>2, <1>3, <1>4, <1>5, <1>6, <1>7, <1>8 DEF Next, Reader

----------------------------------------------------------------------------
(* Every reachable state of the queue satisfies the inductive invariant. *)
THEOREM Invariance == Spec => []IInv
BY InitIInv, NextIInv, PTL DEF Spec

(* The variables of the queue keep their types. *)
THEOREM TypeCorrect == Spec => []TypeOK
<1>1. IInv => TypeOK BY DEF IInv
<1> QED BY <1>1, Invariance, PTL

(* message_queue.h loses no wake-up: the owner never sleeps on a non-empty
   queue with neither a byte in the pipe nor a push about to write one,
   except after a batch it cut short itself. *)
THEOREM WakeupNotLost == Spec => []NoLostWakeup
<1>1. IInv => NoLostWakeup BY DEF IInv
<1> QED BY <1>1, Invariance, PTL

(* Commands of one thread reach the owner once each and in order. *)
THEOREM DeliveredInOrder == Spec => InOrder
<1> DEFINE Step == \A p \in Pushers : last'[p] # last[p] => last'[p] = last[p] + 1
<1>1. IInv /\ [Next]_vars => [Step]_vars
  <2> SUFFICES ASSUME IInv, Next PROVE Step BY DEF vars
  <2>1. CASE Pop
    <3>1. Head(queue)[1] \in Pushers /\ Head(queue)[2] = last[Head(queue)[1]] + 1
      BY <2>1, HeadIsNext DEF Pop
    <3> QED BY <3>1, <2>1 DEF Pop, IInv, TypeOK
  <2>2. CASE ~Pop
    BY <2>2 DEF Next, Reader, Push, Notify, Wake, DrainRead, DrainDone, PopEmpty
  <2> QED BY <2>1, <2>2
<1> QED BY <1>1, Invariance, PTL DEF Spec, InOrder

(* The self-pipe queue implements the mailbox, as far as safety goes: every
   step is a send, a delivery, or invisible to the users of the queue. *)
THEOREM RefinesMailbox == Spec => Box!MailboxSafety
<1>1. Init => Box!MailboxInit BY DEF Init, Box!MailboxInit
<1>2. [Next]_vars => [Box!MailboxNext]_(Box!mvars)
  BY DEF Next, Reader, vars, Push, Notify, Wake, DrainRead, DrainDone, Pop, PopEmpty,
         Box!MailboxNext, Box!Send, Box!Deliver, Box!mvars
<1> QED BY <1>1, <1>2, PTL DEF Spec, Box!MailboxSafety

=============================================================================
