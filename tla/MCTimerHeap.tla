---------------------------- MODULE MCTimerHeap ----------------------------
(***************************************************************************)
(* TimerHeap with and without removals.  The reactors of the server only   *)
(* add timers; NetClientThread and applications remove them as well.       *)
(***************************************************************************)
EXTENDS TimerHeap

CONSTANT MaxHeld   \* bound: timers at a time, if they are removed

VARIABLE removes   \* whether timers are removed

HeapInit == Init /\ removes \in BOOLEAN

HeapNext == /\ removes' = removes
            /\ \/ AddNext /\ (removes => Cardinality(DOMAIN timers') <= MaxHeld)
               \/ removes /\ \E id \in Ids : RemoveTimer(id)

HeapSpec == HeapInit /\ [][HeapNext]_<<removes, vars>>

(* The thread of the timers runs, and their callbacks return. *)
HeapFairness == WF_vars(FireTop) /\ WF_vars(CallbackReturns) /\ WF_vars(CheckDone)

-----------------------------------------------------------------------------
(* As long as no timer is removed, timer_min_heap_ is a min heap, and a poll
   for getNextTimeoutMillisecond ends in the millisecond in which the first timer is
   due and after that of no other. *)
PollInTime == ~removes => MinHeap /\ SleepEndsInTime

(* As long as no timer is removed, the heap implements the table of timers
   (TimerTable): the earliest due timer fires first and checkTimeout leaves
   none that is due. *)
ImplementsTimerTable == /\ ~removes => Table!TableInit
                        /\ [][~removes => Table!TableNext]_(Table!tvars)
=============================================================================
