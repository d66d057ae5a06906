------------------------------ MODULE Ordering ------------------------------
(***************************************************************************)
(* The gateway started under one of the policies that never preempt, and   *)
(* the order in which they let jobs start.                                 *)
(***************************************************************************)
EXTENDS GatewayProps

VARIABLE policy   \* the SCHED_POLICY of this behaviour

Fifo == INSTANCE Gateway WITH SCHED_POLICY <- "fifo"
Edf  == INSTANCE Gateway WITH SCHED_POLICY <- "edf"

OrderingInit == Init /\ policy \in {"fifo", "edf"}
OrderingNext ==
  /\ \/ policy = "fifo" /\ Fifo!Next
     \/ policy = "edf" /\ Edf!Next
  /\ UNCHANGED policy
OrderingSpec == OrderingInit /\ [][OrderingNext]_<<vars, policy>>

\* A job only starts before one that arrived earlier as the mate of an older
\* head, or under edf if its class is more important (policies.py, pop_mates).
NoOvertaking ==
  \A g \in GPUs : busy[g] # None =>
    \A j \in Queued :
      \/ busy[g].head < j
      \/ policy = "edf" /\ Priority[job[busy[g].head].queue] < Priority[job[j].queue]

\* Each queue's front is its oldest job: a held group goes back in order, and
\* mates only leave from behind their head.
FrontIsOldest ==
  \A c \in Class : \A j \in Range(queues[c]) : Head(queues[c]) <= j

\* Only production has a deadline and all deadlines are equally far, so the
\* edf order is strict priority with arrival order inside a class.
EdfIsPriority == \A h \in Queued : IsEdfFirst(h) <=> IsPriorityHead(h)
=============================================================================
