------------------------------ MODULE Mailbox ------------------------------
(***************************************************************************)
(* What a user of net/message_queue.h relies on: commands pushed by any    *)
(* thread are handed to the owner of the queue one at a time, in the order *)
(* in which they entered the queue, and a command in the queue does not    *)
(* stay there for ever.  MessageQueue shows that the self-pipe protocol    *)
(* implements this; NetServer uses its queues as mailboxes.                *)
(***************************************************************************)
EXTENDS Naturals, Sequences

CONSTANTS Pushers,   \* threads that push
          MaxPush    \* bound: pushes per thread

VARIABLES queue,     \* commands in transit, <<pusher, number>>
          pushed,    \* pushed[p]: how many commands p has pushed
          last       \* last[p]: number of the last command of p delivered

mvars == <<queue, pushed, last>>

MailboxInit == /\ queue = << >>
               /\ pushed = [p \in Pushers |-> 0]
               /\ last = [p \in Pushers |-> 0]

Send(p) == /\ pushed[p] < MaxPush
           /\ queue' = Append(queue, <<p, pushed[p] + 1>>)
           /\ pushed' = [pushed EXCEPT ![p] = @ + 1]
           /\ UNCHANGED last

Deliver == /\ queue # << >>
           /\ queue' = Tail(queue)
           /\ last' = [last EXCEPT ![Head(queue)[1]] = Head(queue)[2]]
           /\ UNCHANGED pushed

MailboxNext == (\E p \in Pushers : Send(p)) \/ Deliver

MailboxSafety == MailboxInit /\ [][MailboxNext]_mvars
MailboxSpec   == MailboxSafety /\ WF_mvars(Deliver)
=============================================================================
