----------------------------- MODULE TimerTable -----------------------------
(***************************************************************************)
(* What the owner of a TimerHeap relies on: a table of timers, of which    *)
(* checkTimeout fires the earliest due one, again and again, and returns   *)
(* only when none is due.                                                  *)
(***************************************************************************)
EXTENDS Integers

CONSTANTS NotAsked,        \* no time
          Due(_, _),       \* Due(now, t): a timer due at t fires at now
          Earlier(_, _)    \* order of due times

VARIABLES table,      \* timer id |-> due time
          asked,      \* the time checkTimeout was called with, or NotAsked
          calling     \* the id whose callback runs, or -1

tvars == <<table, asked, calling>>

TableInit == table = << >> /\ asked = NotAsked /\ calling = -1

Check == /\ asked = NotAsked /\ asked' # NotAsked
         /\ UNCHANGED <<table, calling>>

(* The callback of an earliest due timer is called; the timer is forgotten
   or gets a later time. *)
Fire == /\ asked # NotAsked /\ calling = -1
        /\ \E id \in DOMAIN table :
             /\ Due(asked, table[id])
             /\ \A other \in DOMAIN table : ~Earlier(table[other], table[id])
             /\ calling' = id
             /\ DOMAIN table \ {id} \subseteq DOMAIN table'
             /\ DOMAIN table' \subseteq DOMAIN table
             /\ \A other \in DOMAIN table \ {id} : table'[other] = table[other]
             /\ id \in DOMAIN table' => ~Earlier(table'[id], table[id])
        /\ UNCHANGED asked

CallbackReturns == calling # -1 /\ calling' = -1 /\ UNCHANGED <<table, asked>>

Return == /\ asked # NotAsked /\ calling = -1
          /\ \A id \in DOMAIN table : ~Due(asked, table[id])
          /\ asked' = NotAsked
          /\ UNCHANGED <<table, calling>>

(* Timers are added outside checkTimeout and by its callbacks. *)
Add == /\ asked # NotAsked => calling # -1
       /\ \E id \in DOMAIN table' \ DOMAIN table :
            /\ DOMAIN table' = DOMAIN table \cup {id}
            /\ \A other \in DOMAIN table : table'[other] = table[other]
       /\ UNCHANGED <<asked, calling>>

TableNext == Check \/ Fire \/ CallbackReturns \/ Return \/ Add

TableSpec == TableInit /\ [][TableNext]_tvars
=============================================================================
