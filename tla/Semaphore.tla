----------------------------- MODULE Semaphore -----------------------------
(***************************************************************************)
(* semaphore.cc: two counters, a mutex and a condition variable.  wait and *)
(* wakeup run under the mutex; a thread in condition_var_.wait gives it up *)
(* and, once notified (or spuriously), takes it again to test              *)
(* wakeup_count_ > 0.                                                      *)
(*                                                                         *)
(* A definition introduced by "Slip" is not part of the specification: it  *)
(* is a plausible mistake in the operation that follows it, kept to show   *)
(* that a property notices it.                                             *)
(***************************************************************************)
EXTENDS Integers, FiniteSets

CONSTANTS Waiters,      \* threads that call wait
          MaxWakeups    \* bound: calls of wakeup

VARIABLES wait_count, wakeup_count,
          asleep,       \* threads blocked in condition_var_.wait
          notified,     \* threads that left it and want the mutex
          wakeups       \* calls of wakeup so far

vars == <<wait_count, wakeup_count, asleep, notified, wakeups>>

Init == /\ wait_count = 0 /\ wakeup_count = 0
        /\ asleep = {} /\ notified = {}
        /\ wakeups = 0

(* wait: returns at once if a wakeup came first, or if a wakeup meant for
   another waiter has not been taken yet. *)
Wait(w) == /\ w \notin asleep \cup notified
           /\ wait_count' = wait_count - 1
           /\ IF wait_count' < 0 /\ wakeup_count = 0
              THEN asleep' = asleep \cup {w} /\ UNCHANGED wakeup_count
              ELSE /\ wakeup_count' = IF wait_count' < 0 THEN wakeup_count - 1 ELSE wakeup_count
                   /\ UNCHANGED asleep
           /\ UNCHANGED <<notified, wakeups>>

(* Slip: nobody is notified. *)
NotifyNone == UNCHANGED <<asleep, notified>>

(* notify_one *)
NotifyOne == IF asleep = {} THEN UNCHANGED <<asleep, notified>>
             ELSE \E w \in asleep : /\ asleep' = asleep \ {w}
                                    /\ notified' = notified \cup {w}

Wakeup == /\ wakeups < MaxWakeups
          /\ wakeups' = wakeups + 1
          /\ wait_count' = wait_count + 1
          /\ IF wait_count' <= 0
             THEN wakeup_count' = wakeup_count + 1 /\ NotifyOne
             ELSE UNCHANGED <<wakeup_count, asleep, notified>>

Spurious(w) == /\ w \in asleep
               /\ asleep' = asleep \ {w} /\ notified' = notified \cup {w}
               /\ UNCHANGED <<wait_count, wakeup_count, wakeups>>

(* Slip: if in place of the loop around the predicate. *)
ResumeUntested(w) == /\ w \in notified
                     /\ notified' = notified \ {w}
                     /\ wakeup_count' = wakeup_count - 1
                     /\ UNCHANGED <<asleep, wait_count, wakeups>>

(* The predicate is tested again under the mutex. *)
Resume(w) == /\ w \in notified
             /\ notified' = notified \ {w}
             /\ IF wakeup_count > 0
                THEN wakeup_count' = wakeup_count - 1 /\ UNCHANGED asleep
                ELSE asleep' = asleep \cup {w} /\ UNCHANGED wakeup_count
             /\ UNCHANGED <<wait_count, wakeups>>

Next == \/ \E w \in Waiters : Wait(w) \/ Spurious(w) \/ Resume(w)
        \/ Wakeup

(* A notified thread gets the mutex and runs. *)
Spec == Init /\ [][Next]_vars /\ \A w \in Waiters : WF_vars(Resume(w))

----------------------------------------------------------------------------
(* The two counters tell how many threads wait and how many of them may go;
   wait_count alone is at most the bound on unanswered calls. *)
CountersAgree ==
  /\ wait_count \in -Cardinality(Waiters) .. MaxWakeups
  /\ wakeup_count >= 0
  /\ Cardinality(asleep \cup notified)
       = wakeup_count + (IF wait_count < 0 THEN -wait_count ELSE 0)

(* It is a counting semaphore, including that no waiter sleeps while there
   is a permit for it. *)
Permits == wakeup_count + (IF wait_count > 0 THEN wait_count ELSE 0)
Counting == INSTANCE CountingSemaphore WITH permits <- Permits,
                                            waiting <- asleep \cup notified
ImplementsSemaphore == Counting!SemSpec
=============================================================================
