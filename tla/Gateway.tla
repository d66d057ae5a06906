------------------------------ MODULE Gateway -------------------------------
(***************************************************************************)
(* gateway.py: the request handlers, the dispatcher and the handler of     *)
(* worker messages, all on one asyncio loop, composed with the worker      *)
(* processes.                                                              *)
(*                                                                         *)
(* A callback of the loop runs to its next await without interruption.     *)
(* The handlers are one action each.  A pass of the dispatcher is several: *)
(* "dispatcher" says where it is, and while it is not "waiting" the loop   *)
(* runs nothing else.  The workers are other processes and interleave with *)
(* every step.                                                             *)
(***************************************************************************)
EXTENDS Scheduling, Worker

VARIABLES
  busy,            \* GPU -> the batch group it works on, or None
  pending,         \* request ids whose (Future, Job) entry is kept
  future,          \* request id -> how far its caller got
  dispatch_event,  \* the asyncio.Event
  dispatcher,      \* "waiting" at ev.wait(), "filling" or "evicting"
  timers,          \* request ids with a call_later(ev.set) outstanding
  aged,            \* jobs 1..aged arrived at least BATCH_WAIT_MS ago
  stats            \* the counters

loopVars == <<dispatch_event, dispatcher, timers, aged>>
clientVars == <<pending, future>>
vars == <<schedVars, workerVars, busy, clientVars, loopVars, stats>>

FutureState == {"none", "waiting", "result", "error", "cancelled", "answered", "failed"}

TypeOK ==
  /\ SchedTypeOK
  /\ WorkerTypeOK
  /\ busy \in [GPUs -> Group \cup {None}]
  /\ pending \subseteq Jobs
  /\ future \in [Jobs -> FutureState]
  /\ dispatch_event \in BOOLEAN
  /\ dispatcher \in {"waiting", "filling", "evicting"}
  /\ timers \subseteq Jobs
  /\ aged \in Nat
  /\ stats \in [completed : Nat, rejected : Nat, preemptions : Nat,
                resumes : Nat, batches_dispatched : Nat]

\* The state after lifespan has seen every worker ready.
Init ==
  /\ SchedInit
  /\ WorkerInit
  /\ busy = [g \in GPUs |-> None]
  /\ pending = {}
  /\ future = [j \in Jobs |-> "none"]
  /\ dispatch_event = FALSE
  /\ dispatcher = "waiting"
  /\ timers = {}
  /\ aged = 0
  /\ stats = [completed |-> 0, rejected |-> 0, preemptions |-> 0,
              resumes |-> 0, batches_dispatched |-> 0]

LoopIdle == dispatcher = "waiting"

-----------------------------------------------------------------------------
(* POST /generate *)

\* The handler up to "await fut", when admission accepts.
Generate(j, r) ==
  /\ LoopIdle
  /\ job[j] = None
  /\ \A k \in 1..(j - 1) : job[k] # None
  /\ Admit(j, r)
  /\ future' = [future EXCEPT ![j] = "waiting"]
  /\ pending' = pending \cup {j}
  /\ dispatch_event' = TRUE
  /\ UNCHANGED <<workerVars, busy, dispatcher, timers, aged, stats>>

\* The handler when admission raises: 413 or 429.
Reject(r) ==
  /\ LoopIdle
  /\ ~Admissible(r)
  /\ stats.rejected < MaxRejected
  /\ stats' = [stats EXCEPT !.rejected = @ + 1]
  /\ UNCHANGED <<schedVars, workerVars, busy, clientVars, loopVars>>

\* The handler after "await fut": a response, or a 500 for an error message.
Respond(j) ==
  /\ LoopIdle
  /\ future[j] \in {"result", "error"}
  /\ future' = [future EXCEPT ![j] = IF @ = "result" THEN "answered" ELSE "failed"]
  /\ stats' = [stats EXCEPT !.completed =
                 IF future[j] = "result" THEN @ + 1 ELSE @]
  /\ UNCHANGED <<schedVars, workerVars, busy, pending, loopVars>>

\* The server cancels the handler's task, which may be after its message has
\* arrived: what the job did stays done, and nobody is told.
Cancel(j) ==
  /\ LoopIdle
  /\ future[j] \in {"waiting", "result", "error"}
  /\ j \in Cancellable
  /\ future' = [future EXCEPT ![j] = "cancelled"]
  /\ UNCHANGED <<schedVars, workerVars, busy, pending, loopVars, stats>>

-----------------------------------------------------------------------------
(* _on_worker_response *)

\* A mutant of Acknowledged: the first message of a batch frees the GPU.
AcknowledgedAtOnce(grp) == None

\* The GPU's group after one of its messages; the last one frees the GPU.
Acknowledged(grp) ==
  IF grp.remaining = 1 THEN None ELSE [grp EXCEPT !.remaining = @ - 1]

CountResponse(g, rid) ==
  busy' = IF busy[g] # None /\ rid \in busy[g].jobs
          THEN [busy EXCEPT ![g] = Acknowledged(@)] ELSE busy

\* A mutant of TakeResponse: the dispatcher is not told.
TakeResponseQuietly(g) ==
  /\ LoopIdle
  /\ response_q[g] # <<>>
  /\ response_q' = [response_q EXCEPT ![g] = Tail(@)]
  /\ CountResponse(g, Head(response_q[g]).request_id)
  /\ UNCHANGED <<request_q, control_q, running, loopVars>>

TakeResponse(g) ==
  /\ LoopIdle
  /\ response_q[g] # <<>>
  /\ response_q' = [response_q EXCEPT ![g] = Tail(@)]
  /\ CountResponse(g, Head(response_q[g]).request_id)
  /\ dispatch_event' = TRUE
  /\ UNCHANGED <<request_q, control_q, running, dispatcher, timers, aged>>

OnPreempted(g) ==
  /\ TakeResponse(g)
  /\ LET m == Head(response_q[g])
     IN  /\ m.type = "preempted"
         /\ IF m.request_id \in pending
            THEN /\ RequeuePreempted(m.request_id, [latents |-> m.latents,
                                                    step_index |-> m.step_index])
                 /\ stats' = [stats EXCEPT !.preemptions = @ + 1]
            ELSE UNCHANGED <<job, queues, stats>>
  /\ UNCHANGED <<tenant_inflight, clientVars>>

OnFinished(g) ==
  /\ TakeResponse(g)
  /\ LET m == Head(response_q[g])
     IN  /\ m.type # "preempted"
         /\ IF m.request_id \in pending
            THEN /\ pending' = pending \ {m.request_id}
                 /\ Release(m.request_id)
                 /\ future' = [future EXCEPT ![m.request_id] =
                                 IF @ = "waiting" THEN m.type ELSE @]
            ELSE UNCHANGED <<clientVars, tenant_inflight>>
  /\ UNCHANGED <<job, queues, stats>>

-----------------------------------------------------------------------------
(* dispatcher *)

Wake ==
  /\ LoopIdle
  /\ dispatch_event
  /\ dispatch_event' = FALSE
  /\ dispatcher' = "filling"
  /\ UNCHANGED <<schedVars, workerVars, busy, clientVars, timers, aged, stats>>

Free == {g \in GPUs : busy[g] = None}

\* An underfilled group of a class that may wait, whose head arrived just now.
MustHold(h) ==
  /\ job[h].queue # "production"
  /\ Len(GroupOf(h)) < MAX_BATCH
  /\ BATCH_WAIT
  /\ h > aged

NewBatchId == stats.batches_dispatched + 1

NewGroup(h) ==
  [batch_id |-> NewBatchId, head |-> h, jobs |-> Range(GroupOf(h)),
   remaining |-> Len(GroupOf(h))]

NewBatch(h) ==
  LET grp == GroupOf(h)
  IN  [batch_id |-> NewBatchId, steps |-> job[h].steps, start_index |-> StartIndex(h),
       preemptible |-> Preemptible(job[h].queue),
       jobs |-> [k \in DOMAIN grp |->
                   [request_id |-> grp[k],
                    resume_latents |-> IF job[grp[k]].resume_state = None THEN None
                                       ELSE job[grp[k]].resume_state.latents]]]

\* A mutant of Resumed: checkpoints taken before the first step do not count.
ResumedMidway(h) == {j \in Range(GroupOf(h)) : StartIndex(j) > 0}

Resumed(h) == {j \in Range(GroupOf(h)) : job[j].resume_state # None}

\* The monitor's last reading of a GPU may be anything, and nothing without
\* NVML: any free GPU may be the one of least utilisation.
LeastUtilised == Free

DispatchBatch(h, g) ==
  /\ dispatcher = "filling"
  /\ g \in LeastUtilised
  /\ h \in Queued
  /\ Selected(h)
  /\ ~MustHold(h)
  /\ Take(h)
  /\ busy' = [busy EXCEPT ![g] = NewGroup(h)]
  /\ stats' = [stats EXCEPT !.batches_dispatched = @ + 1,
                            !.resumes = @ + Cardinality(Resumed(h))]
  /\ request_q' = [request_q EXCEPT ![g] = Append(@, NewBatch(h))]
  /\ UNCHANGED <<tenant_inflight, control_q, response_q, running, clientVars, loopVars>>

\* A mutant of HoldBatch: no timer.
HoldBatchForever(h) ==
  /\ dispatcher = "filling"
  /\ Free # {}
  /\ h \in Queued
  /\ Selected(h)
  /\ MustHold(h)
  /\ TakeAndRequeue(h)
  /\ dispatcher' = "evicting"
  /\ UNCHANGED <<tenant_inflight, workerVars, busy, clientVars, dispatch_event, timers,
                 aged, stats>>

HoldBatch(h) ==
  /\ dispatcher = "filling"
  /\ Free # {}
  /\ h \in Queued
  /\ Selected(h)
  /\ MustHold(h)
  /\ TakeAndRequeue(h)
  /\ timers' = timers \cup {h}
  /\ dispatcher' = "evicting"
  /\ UNCHANGED <<tenant_inflight, workerVars, busy, clientVars, dispatch_event, aged, stats>>

FillDone ==
  /\ dispatcher = "filling"
  /\ Free = {} \/ Queued = {}
  /\ dispatcher' = "evicting"
  /\ UNCHANGED <<schedVars, workerVars, busy, clientVars, dispatch_event, timers, aged, stats>>

CeilDiv(a, b) == (a + b - 1) \div b

Flagged(g) == job[busy[g].head].preempt_requested

\* A mutant of EvictionNeed: evictions in flight are not subtracted.
EvictionNeedAlways == CeilDiv(waiting("production"), MAX_BATCH)

EvictionNeed ==
  CeilDiv(waiting("production"), MAX_BATCH) - Cardinality({g \in GPUs : Flagged(g)})

EvictionCandidates ==
  {g \in GPUs : LET c == job[busy[g].head].queue
                IN  /\ Preemptible(c)
                    /\ ~Flagged(g)
                    /\ Priority[c] > Priority["production"]}

\* The least important class first; the sort keeps the order of the GPU ids.
VictimBefore(g, h) ==
  LET p(x) == Priority[job[busy[x].head].queue]
  IN  p(g) > p(h) \/ (p(g) = p(h) /\ g < h)

Victims ==
  IF Preemptive /\ waiting("production") > 0 /\ Free = {}
  THEN {g \in EvictionCandidates :
          Cardinality({h \in EvictionCandidates : VictimBefore(h, g)}) < EvictionNeed}
  ELSE {}

Evict ==
  /\ dispatcher = "evicting"
  /\ dispatcher' = "waiting"
  /\ LET victims == Victims
     IN  /\ job' = [j \in Jobs |->
                      IF \E g \in victims : busy[g].head = j
                      THEN [job[j] EXCEPT !.preempt_requested = TRUE] ELSE job[j]]
         /\ control_q' = [g \in GPUs |->
                            IF g \in victims
                            THEN Append(control_q[g], busy[g].batch_id)
                            ELSE control_q[g]]
  /\ UNCHANGED <<queues, tenant_inflight, request_q, response_q, running, busy,
                 clientVars, dispatch_event, timers, aged, stats>>

-----------------------------------------------------------------------------
(* Time: BATCH_WAIT_MS passes after an arrival, and a held batch's timer    *)
(* fires once it has.                                                       *)

Age ==
  /\ BATCH_WAIT
  /\ aged + 1 \in Jobs
  /\ job[aged + 1] # None
  /\ aged' = aged + 1
  /\ UNCHANGED <<schedVars, workerVars, busy, clientVars, dispatch_event, dispatcher,
                 timers, stats>>

TimerFire(j) ==
  /\ LoopIdle
  /\ j \in timers
  /\ j <= aged
  /\ timers' = timers \ {j}
  /\ dispatch_event' = TRUE
  /\ UNCHANGED <<schedVars, workerVars, busy, clientVars, dispatcher, aged, stats>>

-----------------------------------------------------------------------------
\* MaxJobs requests have come and gone; the server waits for more.
Idle ==
  /\ LoopIdle
  /\ pending = {}
  /\ \A j \in Jobs : future[j] \in {"answered", "failed", "cancelled"}
  /\ UNCHANGED vars

gatewayVars == <<schedVars, busy, clientVars, loopVars, stats>>

Client == \/ \E j \in Jobs, r \in Requests : Generate(j, r)
          \/ \E r \in Requests : Reject(r)
          \/ \E j \in Jobs : Cancel(j)

DispatcherStep == \/ Wake
                  \/ \E h \in Jobs, g \in GPUs : DispatchBatch(h, g)
                  \/ \E h \in Jobs : HoldBatch(h)
                  \/ FillDone
                  \/ Evict

Next ==
  \/ Client
  \/ \E j \in Jobs : Respond(j) \/ TimerFire(j)
  \/ \E g \in GPUs : OnPreempted(g) \/ OnFinished(g)
  \/ DispatcherStep
  \/ Age
  \/ Idle
  \/ \E g \in GPUs : (WorkerStep(g) \/ BatchError(g)) /\ UNCHANGED gatewayVars

\* The loop runs every callback it has scheduled, a worker's loop goes on, and
\* time passes.  Nothing makes a client send, a server cancel or a batch fail.
Fairness ==
  /\ WF_vars(DispatcherStep)
  /\ WF_vars(Age)
  /\ \A j \in Jobs : WF_vars(Respond(j)) /\ WF_vars(TimerFire(j))
  /\ \A g \in GPUs : /\ WF_vars(OnPreempted(g) \/ OnFinished(g))
                     /\ WF_vars(WorkerStep(g) /\ UNCHANGED gatewayVars)

Spec == Init /\ [][Next]_vars
FairSpec == Spec /\ Fairness
=============================================================================
