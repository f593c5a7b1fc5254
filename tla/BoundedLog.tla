----------------------------- MODULE BoundedLog -----------------------------
(***************************************************************************)
(* What the asynchronous log sink promises: lines are accepted while there *)
(* is room, they are written in the order they were accepted in, unchanged *)
(* and once, and after the closing mark nothing more is written.  The line *)
(* being written still takes room here, hence Limit is the queue's bound   *)
(* plus one; Limit 0 is a log without a bound.                             *)
(***************************************************************************)
EXTENDS Naturals, Sequences

CONSTANTS Lines, Mark, Limit

VARIABLES pending, written, closed
vars == <<pending, written, closed>>

Init == pending = << >> /\ written = << >> /\ closed = FALSE

Accept(l) == /\ Limit # 0 => Len(pending) < Limit
             /\ pending' = Append(pending, l)
             /\ UNCHANGED <<written, closed>>

Write == /\ pending # << >> /\ Head(pending) # Mark /\ ~closed
         /\ written' = Append(written, Head(pending))
         /\ pending' = Tail(pending)
         /\ UNCHANGED closed

Close == /\ pending # << >> /\ Head(pending) = Mark /\ ~closed
         /\ closed' = TRUE
         /\ pending' = Tail(pending)
         /\ UNCHANGED written

Next == Write \/ Close \/ \E l \in Lines \cup {Mark} : Accept(l)

Safety == Init /\ [][Next]_vars
Spec == Safety /\ WF_vars(Write \/ Close)
=============================================================================
