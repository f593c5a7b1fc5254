------------------------- MODULE CountingSemaphore -------------------------
(***************************************************************************)
(* What Thread::close relies on: every wakeup lets one wait return, in     *)
(* whatever order the two are called.                                      *)
(***************************************************************************)
EXTENDS Naturals

CONSTANT Waiters

VARIABLES permits,   \* wakeups no wait has used yet
          waiting    \* threads inside wait

svars == <<permits, waiting>>

SemInit == permits = 0 /\ waiting = {}

Ask(w) == /\ w \notin waiting
          /\ waiting' = waiting \cup {w}
          /\ UNCHANGED permits

Grant == /\ permits > 0 /\ permits' = permits - 1
         /\ \E w \in waiting : waiting' = waiting \ {w}

(* A wait that finds a permit returns without waiting. *)
Pass == permits > 0 /\ permits' = permits - 1 /\ UNCHANGED waiting

Post == permits' = permits + 1 /\ UNCHANGED waiting

SemNext == (\E w \in Waiters : Ask(w)) \/ Grant \/ Pass \/ Post

SemSafety == SemInit /\ [][SemNext]_svars
SemSpec == SemSafety /\ WF_svars(Grant)
=============================================================================
