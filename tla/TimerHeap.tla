----------------------------- MODULE TimerHeap -----------------------------
(***************************************************************************)
(* timer_heap.cc with timer.h, timestamp.cc and timer_id_allocator.h: an   *)
(* array heap of timers, ordered by due time, in which every timer knows   *)
(* its position, and a map from ids to timers.  checkTimeout fires the     *)
(* timers that are due at the time it was called with; their callbacks may *)
(* add and remove timers.                                                  *)
(*                                                                         *)
(* A definition introduced by "Slip" is not part of the specification: it  *)
(* is a plausible mistake in the operation that follows it, kept to show   *)
(* that a property notices it.                                             *)
(***************************************************************************)
EXTENDS Integers, SequencesExt

CONSTANTS MaxId,      \* largest timer id before the counter wraps to 0
          Asks,       \* what addTimer is asked for: a timeout in milliseconds and how
                      \* often to call; below 1 (the default is -1): for ever
          Horizon,    \* bound: the clock stops here (nanoseconds)
          MsPerSec, NanoPerMs   \* 1000 and 1000000

ASSUME TimerAssumption ==
  /\ MaxId \in Nat /\ Asks \subseteq Int \X Int
  /\ Horizon \in Nat /\ MsPerSec \in Nat \ {0} /\ NanoPerMs \in Nat \ {0}

VARIABLES timers,     \* timer_map_: id |-> [due, timeout_ms, call_times]
          heap,       \* timer_min_heap_[1 ..]: timer ids
          heap_pos,   \* heap_pos_ of each timer, -1 for none
          next_id,    \* timer_id_ of the allocator
          clock,      \* system clock in nanoseconds
          asked,      \* the time checkTimeout runs for, NotAsked outside it
          calling     \* id of the timer whose callback runs, -1 for none

vars == <<timers, heap, heap_pos, next_id, clock, asked, calling>>

Ids == 0 .. MaxId
NotAsked == [second |-> -1, nanosecond |-> 0]

Init == /\ timers = << >> /\ heap = << >>
        /\ heap_pos = [id \in Ids |-> -1]
        /\ next_id = 0 /\ clock = 0
        /\ asked = NotAsked /\ calling = -1

----------------------------------------------------------------------------
(* Timestamps. *)
NanoPerSec == MsPerSec * NanoPerMs
Now == [second |-> clock \div NanoPerSec, nanosecond |-> clock % NanoPerSec]
Millisecond(t) == t.nanosecond \div NanoPerMs

(* Slip: the carry into the seconds is forgotten. *)
PlusNoCarry(t, ms) == [second |-> t.second + ms \div MsPerSec,
                       nanosecond |-> t.nanosecond + (ms % MsPerSec) * NanoPerMs]

(* operator+= *)
Plus(t, ms) ==
  LET nano == t.nanosecond + (ms % MsPerSec) * NanoPerMs
      sec  == t.second + ms \div MsPerSec
  IN  IF nano >= NanoPerSec THEN [second |-> sec + 1, nanosecond |-> nano - NanoPerSec]
      ELSE [second |-> sec, nanosecond |-> nano]

(* operator< and millisecondLess *)
Less(t, u) == t.second < u.second \/ (t.second = u.second /\ t.nanosecond < u.nanosecond)
MillisecondLess(t, u) ==
  t.second < u.second \/ (t.second = u.second /\ Millisecond(t) < Millisecond(u))

(* Slip: the difference is taken in nanoseconds and cut to milliseconds. *)
DistanceRounded(t, u) ==
  (u.second - t.second) * MsPerSec + (u.nanosecond - t.nanosecond) \div NanoPerMs

(* distanceMillisecond, for t not later than u *)
DistanceMillisecond(t, u) ==
  (u.second - t.second) * MsPerSec + (Millisecond(u) - Millisecond(t))

----------------------------------------------------------------------------
(* The heap while it is changed, q = [heap, pos, at], with the due times of tm;
   at is cur_index, the place the loops of insert and erase have come to. *)

(* Slip: only one of the two positions is written. *)
SwapOnePos(q, j) ==
  [heap |-> [q.heap EXCEPT ![q.at] = q.heap[j], ![j] = q.heap[q.at]],
   pos  |-> [q.pos EXCEPT ![q.heap[q.at]] = j],
   at   |-> j]

Swap(q, j) ==
  [heap |-> [q.heap EXCEPT ![q.at] = q.heap[j], ![j] = q.heap[q.at]],
   pos  |-> [q.pos EXCEPT ![q.heap[q.at]] = j, ![q.heap[j]] = q.at],
   at   |-> j]

Earlier(tm, a, b) == Less(tm[a].due, tm[b].due)

(* A heap of n timers that has come to a place up to last. *)
Heaps(n, last) == [heap : [1 .. n -> Ids], pos : [Ids -> Int], at : 1 .. last]

(* The loop of minHeapInsert. *)
UpDone(q, tm) == LET parent == q.at \div 2 IN
  parent = 0 \/ Earlier(tm, q.heap[parent], q.heap[q.at])

SiftUp(q, tm) ==
  LET n == Len(q.heap)
      sift[r \in Heaps(n, n)] == IF UpDone(r, tm) THEN r ELSE sift[Swap(r, r.at \div 2)]
  IN  sift[q]

(* Slip: the left child, whether or not the right one is earlier. *)
ChildLeft(q, tm) == 2 * q.at

(* The child that the loop of minHeapErase compares with: the earlier one. *)
Child(q, tm) ==
  IF 2 * q.at + 1 <= Len(q.heap) /\ Earlier(tm, q.heap[2 * q.at + 1], q.heap[2 * q.at])
  THEN 2 * q.at + 1 ELSE 2 * q.at

DownDone(q, tm) ==
  2 * q.at > Len(q.heap) \/ Earlier(tm, q.heap[q.at], q.heap[Child(q, tm)])

SiftDown(q, tm) ==
  LET n == Len(q.heap)
      sift[r \in Heaps(n, n + 1)] == IF DownDone(r, tm) THEN r ELSE sift[Swap(r, Child(r, tm))]
  IN  sift[q]

MinHeapInsert(q, tm, id) ==
  LET last == Len(q.heap) + 1 IN
  SiftUp([heap |-> Append(q.heap, id), pos |-> [q.pos EXCEPT ![id] = last],
          at |-> last], tm)

(* The last timer takes the place of the erased one and is sifted down,
   never up.  Erasing the last timer gives it its old position back. *)
MinHeapErase(q, tm, id) ==
  LET i == q.pos[id]
      back == Last(q.heap)
      moved == [heap |-> Front([q.heap EXCEPT ![i] = back]),
                pos |-> [q.pos EXCEPT ![id] = -1, ![back] = i],
                at |-> i]
  IN  IF i < 0 THEN q ELSE SiftDown(moved, tm)

Heap == [heap |-> heap, pos |-> heap_pos, at |-> 1]
SetHeap(q) == heap' = q.heap /\ heap_pos' = q.pos

----------------------------------------------------------------------------
(* addTimer and removeTimer run on the loop's thread: outside checkTimeout
   or in a callback. *)
CallerRuns == asked # NotAsked => calling # -1

NextId == IF next_id = MaxId THEN 0 ELSE next_id + 1

(* Slip: an id that is still in use is not refused. *)
FreshAlways(id) == TRUE

(* addTimer refuses an id that is still in the map (and returns -1). *)
Fresh(id) == id \notin DOMAIN timers

(* A new timer; a negative timeout counts as none. *)
Added(ms, call_times) ==
  LET timeout_ms == IF ms < 0 THEN 0 ELSE ms IN
  [due |-> Plus(Now, timeout_ms), timeout_ms |-> timeout_ms, call_times |-> call_times]

AddTimer(ms, call_times) ==
  LET id == NextId
      tm == [i \in DOMAIN timers \cup {id} |->
               IF i = id THEN Added(ms, call_times) ELSE timers[i]]
  IN  /\ CallerRuns
      /\ next_id' = id
      /\ IF Fresh(id)
         THEN timers' = tm /\ SetHeap(MinHeapInsert(Heap, tm, id))
         ELSE UNCHANGED <<timers, heap, heap_pos>>
      /\ UNCHANGED <<clock, asked, calling>>

(* The timer object is deleted with its position. *)
Forget(q, id) == [heap |-> q.heap, pos |-> [q.pos EXCEPT ![id] = -1], at |-> q.at]
Without(id) == [i \in DOMAIN timers \ {id} |-> timers[i]]

RemoveTimer(id) ==
  /\ CallerRuns
  /\ id \in DOMAIN timers
  /\ SetHeap(Forget(MinHeapErase(Heap, timers, id), id))
  /\ timers' = Without(id)
  /\ UNCHANGED <<next_id, clock, asked, calling>>

(* checkTimeout is called with the time of the call. *)
CheckTimeout == /\ asked = NotAsked
                /\ asked' = Now
                /\ UNCHANGED <<timers, heap, heap_pos, next_id, clock, calling>>

TopIsDue == heap # << >> /\ ~MillisecondLess(asked, timers[heap[1]].due)

(* Slip: a timer that is called again keeps its due time. *)
RearmedSame(timer) ==
  [timer EXCEPT !.call_times = IF @ > 0 THEN @ - 1 ELSE @]

(* A timer that is called again: one call less, due one timeout later. *)
Rearmed(timer) ==
  [due |-> Plus(timer.due, timer.timeout_ms), timeout_ms |-> timer.timeout_ms,
   call_times |-> IF timer.call_times > 0 THEN timer.call_times - 1 ELSE timer.call_times]

(* One iteration of checkTimeout up to the call of the callback. *)
FireTop ==
  /\ asked # NotAsked /\ calling = -1 /\ TopIsDue
  /\ LET id == heap[1]
         erased == MinHeapErase(Heap, timers, id)
         tm == [timers EXCEPT ![id] = Rearmed(@)]
     IN  /\ calling' = id
         /\ IF timers[id].call_times = 1
            THEN timers' = Without(id) /\ SetHeap(Forget(erased, id))
            ELSE timers' = tm /\ SetHeap(MinHeapInsert(erased, tm, id))
  /\ UNCHANGED <<next_id, clock, asked>>

CallbackReturns == /\ calling # -1
                   /\ calling' = -1
                   /\ UNCHANGED <<timers, heap, heap_pos, next_id, clock, asked>>

CheckDone == /\ asked # NotAsked /\ calling = -1 /\ ~TopIsDue
             /\ asked' = NotAsked
             /\ UNCHANGED <<timers, heap, heap_pos, next_id, clock, calling>>

Tick == /\ clock < Horizon
        /\ clock' = clock + 1
        /\ UNCHANGED <<timers, heap, heap_pos, next_id, asked, calling>>

Run == FireTop \/ CallbackReturns \/ CheckDone

(* The reactors of the server only add timers. *)
AddNext == \/ \E ask \in Asks : AddTimer(ask[1], ask[2])
           \/ CheckTimeout \/ Run \/ Tick

Next == AddNext \/ \E id \in Ids : RemoveTimer(id)

Spec == Init /\ [][Next]_vars

----------------------------------------------------------------------------
TimestampOK(t) == t.second \in Nat /\ t.nanosecond \in 0 .. NanoPerSec - 1

(* Ids, positions and call counts stay in range and every due time is a
   normalised timestamp. *)
TypeOK == /\ DOMAIN timers \subseteq Ids
          /\ \A id \in DOMAIN timers : /\ TimestampOK(timers[id].due)
                                       /\ timers[id].timeout_ms \in Nat
                                       /\ timers[id].call_times \in Int
          /\ heap \in Seq(Ids)
          /\ heap_pos \in [Ids -> -1 .. MaxId + 1]
          /\ next_id \in Ids
          /\ calling \in Ids \cup {-1}

(* Map, array and positions describe the same timers, whatever a callback
   adds or removes (its own timer included) and also when ids are reused:
   removeTimer therefore always erases the timer it was asked to. *)
PosAgrees ==
  /\ ToSet(heap) = DOMAIN timers
  /\ Len(heap) = Cardinality(DOMAIN timers)
  /\ \A id \in DOMAIN timers : heap_pos[id] \in 1 .. Len(heap) /\ heap[heap_pos[id]] = id

(* The array is a min heap, as its name timer_min_heap_ says: no timer is due
   before its parent. *)
MinHeap == \A i \in 2 .. Len(heap) : ~Earlier(timers, heap[i], heap[i \div 2])

(* With timers added at any moment and none removed, as in the reactors of
   the server, polling for getNextTimeoutMillisecond, which looks at the first
   place of the array, ends in the millisecond in which that timer is due, and
   after that of no other timer. *)
SleepEndsInTime ==
  heap # << >> =>
    LET due == timers[heap[1]].due
        wakes == Plus(Now, DistanceMillisecond(Now, due))
    IN  Less(due, Now) \/ /\ ~MillisecondLess(wakes, due)
                          /\ \A id \in DOMAIN timers : ~MillisecondLess(timers[id].due, wakes)

(* checkTimeout returns, unless there is a timer without a timeout: timers
   that are re-armed or added while it runs are not due at the time it was
   called with. *)
CheckReturns ==
  asked # NotAsked ~> asked = NotAsked \/ \E id \in DOMAIN timers : timers[id].timeout_ms = 0

(* The table of timers that the heap stands for. *)
DueMap == [id \in DOMAIN timers |-> timers[id].due]
AtTime(now, t) == ~MillisecondLess(now, t)
Table == INSTANCE TimerTable WITH table <- DueMap, Due <- AtTime, Earlier <- Less
=============================================================================
