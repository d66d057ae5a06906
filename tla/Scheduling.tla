----------------------------- MODULE Scheduling -----------------------------
(***************************************************************************)
(* scheduling.py and policies.py: the three class queues, the tenant       *)
(* quotas, and the rule that names the job to run next.                    *)
(*                                                                         *)
(* The module holds the state of the PriorityQueues object and of the Job  *)
(* objects, with one action per method.  Gateway.tla conjoins them with    *)
(* what the caller does in the same event-loop callback.                   *)
(***************************************************************************)
EXTENDS Config

VARIABLES
  job,              \* request id -> Job, or None before the request arrives
  queues,           \* class -> sequence of request ids
  tenant_inflight   \* class -> tenant -> jobs admitted and not yet released

schedVars == <<job, queues, tenant_inflight>>

SchedTypeOK ==
  /\ job \in [Jobs -> Job \cup {None}]
  /\ queues \in [Class -> Seq(Jobs)]
  /\ tenant_inflight \in [Class -> [Tenant -> Nat]]

SchedInit ==
  /\ job = [j \in Jobs |-> None]
  /\ queues = [c \in Class |-> <<>>]
  /\ tenant_inflight = [c \in Class |-> [t \in Tenant |-> 0]]

-----------------------------------------------------------------------------
\* The entries of q at the positions in I, in order.
AtPositions(q, I) ==
  [n \in 1..Cardinality(I) |->
     q[CHOOSE i \in I : Cardinality({k \in I : k <= i}) = n]]

Queued == UNION {Range(queues[c]) : c \in Class}
waiting(c) == Len(queues[c])

-----------------------------------------------------------------------------
(* Admission *)

NewJob(r) ==
  [queue |-> r.queue, tenant |-> r.tenant, shape |-> r.shape, steps |-> r.steps,
   dispatched_at |-> FALSE, resume_state |-> None,
   preempt_requested |-> FALSE, preempt_count |-> 0]

\* Mutants of Admissible: the depth check off by one, no quota check.
AdmitOneTooMany(r) ==
  /\ r.vram_gb <= GPU_VRAM_BUDGET_GB
  /\ Len(queues[r.queue]) <= max_depth[r.queue]
  /\ tenant_inflight[r.queue][r.tenant] < tenant_quota[r.queue]
AdmitOverQuota(r) ==
  /\ r.vram_gb <= GPU_VRAM_BUDGET_GB
  /\ Len(queues[r.queue]) < max_depth[r.queue]

Admissible(r) ==
  /\ r.vram_gb <= GPU_VRAM_BUDGET_GB
  /\ Len(queues[r.queue]) < max_depth[r.queue]
  /\ tenant_inflight[r.queue][r.tenant] < tenant_quota[r.queue]

Admit(j, r) ==
  /\ Admissible(r)
  /\ job' = [job EXCEPT ![j] = NewJob(r)]
  /\ tenant_inflight' = [tenant_inflight EXCEPT ![r.queue][r.tenant] = @ + 1]
  /\ queues' = [queues EXCEPT ![r.queue] = Append(@, j)]

-----------------------------------------------------------------------------
(* Selection: is h the job that policy.select pops? *)

MoreImportant(c) == {d \in Class : Priority[d] < Priority[c]}

\* pop_next: the front of the most important queue that is not empty.
IsPriorityHead(h) ==
  LET c == job[h].queue
  IN  /\ h = Head(queues[c])
      /\ \A d \in MoreImportant(c) : queues[d] = <<>>

\* A mutant of IsOldest: the oldest of its own queue only.
IsOldestOfClass(h) == \A k \in Range(queues[job[h].queue]) : h <= k

\* FifoPolicy's key is the arrival time.
IsOldest(h) == \A k \in Queued : h <= k

\* Every class that has a deadline has the same SLO, so deadlines are ordered
\* as arrivals are; MaxJobs + 1 stands for math.inf.
Deadline(j) == IF HasDeadline(job[j].queue) THEN j ELSE MaxJobs + 1

\* EdfPolicy's key: <<deadline, priority, arrival>> in lexicographic order.
EdfBefore(j, k) ==
  \/ Deadline(j) < Deadline(k)
  \/ /\ Deadline(j) = Deadline(k)
     /\ Priority[job[j].queue] < Priority[job[k].queue]
  \/ /\ Deadline(j) = Deadline(k)
     /\ Priority[job[j].queue] = Priority[job[k].queue]
     /\ j < k
IsEdfFirst(h) == \A k \in Queued \ {h} : EdfBefore(h, k)

Selected(h) ==
  CASE SCHED_POLICY = "fifo" -> IsOldest(h)
    [] SCHED_POLICY = "edf"  -> IsEdfFirst(h)
    [] OTHER                 -> IsPriorityHead(h)
Preemptive == SCHED_POLICY = "priority_preempt"

-----------------------------------------------------------------------------
(* Batches *)

StartIndex(j) == IF job[j].resume_state = None THEN 0 ELSE job[j].resume_state.step_index
\* A mutant of BatchKey: jobs at different steps are mates.
BatchKeyIgnoringProgress(j) == <<job[j].shape, job[j].steps>>

BatchKey(j) == <<job[j].shape, job[j].steps, StartIndex(j)>>

\* pop_mates: the first MAX_BATCH - 1 jobs of h's own queue that share its key.
MatchingPositions(h) ==
  LET q == queues[job[h].queue]
  IN  {i \in DOMAIN q : q[i] # h /\ BatchKey(q[i]) = BatchKey(h)}
MatePositions(h) ==
  {i \in MatchingPositions(h) :
     Cardinality({k \in MatchingPositions(h) : k < i}) < MAX_BATCH - 1}

GroupOf(h) == <<h>> \o AtPositions(queues[job[h].queue], MatePositions(h))

\* A mutant of RestOf: the mates are copied out of the queue, not removed.
RestWithMates(h) ==
  LET q == queues[job[h].queue] IN AtPositions(q, {i \in DOMAIN q : q[i] # h})

RestOf(h) ==
  LET q == queues[job[h].queue]
  IN  AtPositions(q, {i \in DOMAIN q : q[i] # h} \ MatePositions(h))

\* A mutant of Take: only the head is stamped.
TakeStampingHead(h) ==
  /\ queues' = [queues EXCEPT ![job[h].queue] = RestOf(h)]
  /\ job' = [job EXCEPT ![h].dispatched_at = TRUE]

\* select and pop_mates together: the group leaves its queue, each job stamped.
Take(h) ==
  /\ queues' = [queues EXCEPT ![job[h].queue] = RestOf(h)]
  /\ job' = [j \in Jobs |-> IF j \in Range(GroupOf(h))
                            THEN [job[j] EXCEPT !.dispatched_at = TRUE]
                            ELSE job[j]]

\* A mutant of TakeAndRequeue: the group goes back first job first.
TakeAndRequeueForward(h) ==
  /\ queues' = [queues EXCEPT ![job[h].queue] =
                   [n \in DOMAIN GroupOf(h) |-> GroupOf(h)[Len(GroupOf(h)) + 1 - n]]
                     \o RestOf(h)]
  /\ UNCHANGED job

\* The group goes back, last job first, so that it keeps its order in front.
TakeAndRequeue(h) ==
  /\ queues' = [queues EXCEPT ![job[h].queue] = GroupOf(h) \o RestOf(h)]
  /\ job' = [j \in Jobs |-> IF j \in Range(GroupOf(h))
                            THEN [job[j] EXCEPT !.dispatched_at = FALSE]
                            ELSE job[j]]

\* A mutant of RequeuePreempted: the eviction request is not cleared.
RequeueFlagged(j, resumeState) ==
  /\ job' = [job EXCEPT ![j] = [job[j] EXCEPT !.resume_state = resumeState,
                                              !.preempt_count = @ + 1,
                                              !.dispatched_at = FALSE]]
  /\ queues' = [queues EXCEPT ![job[j].queue] = <<j>> \o @]

\* A checkpointed job returns to the front of its queue without re-admission.
RequeuePreempted(j, resumeState) ==
  /\ job' = [job EXCEPT ![j] = [job[j] EXCEPT !.resume_state = resumeState,
                                              !.preempt_requested = FALSE,
                                              !.preempt_count = @ + 1,
                                              !.dispatched_at = FALSE]]
  /\ queues' = [queues EXCEPT ![job[j].queue] = <<j>> \o @]

Release(j) ==
  tenant_inflight' = [tenant_inflight EXCEPT ![job[j].queue][job[j].tenant] =
                        IF @ > 0 THEN @ - 1 ELSE 0]
=============================================================================
