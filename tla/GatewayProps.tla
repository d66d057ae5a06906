---------------------------- MODULE GatewayProps ----------------------------
(***************************************************************************)
(* What the scheduler must never do, and what it must do in the end.       *)
(***************************************************************************)
EXTENDS Gateway

BatchIds(b) == {bj.request_id : bj \in Range(b.jobs)}
RunningIds(g) == IF running[g] = None THEN {} ELSE BatchIds(running[g].batch)
AnsweringIds(g) == {m.request_id : m \in Range(response_q[g])}

\* The jobs a GPU still owes the gateway a message for.
Outstanding(g) ==
  (UNION {BatchIds(b) : b \in Range(request_q[g])}) \cup RunningIds(g) \cup AnsweringIds(g)

\* Every admitted job that has not ended is in one place: once in the queue of
\* its class, or in the hands of one GPU (scheduling.py, take and requeue).
OnePlace ==
  /\ \A c \in Class : IsInjective(queues[c])
  /\ \A c \in Class, j \in Jobs : j \in Range(queues[c]) => job[j].queue = c
  /\ \A g \in GPUs : Outstanding(g) \cap Queued = {}
  /\ \A g, h \in GPUs : g # h => Outstanding(g) \cap Outstanding(h) = {}
  /\ pending = Queued \cup UNION {Outstanding(g) : g \in GPUs}

\* The group kept in "busy" is the one the batch was made of.
Describes(grp, b) ==
  /\ grp.batch_id = b.batch_id
  /\ grp.jobs = BatchIds(b)
  /\ grp.remaining = Len(b.jobs)
  /\ b.jobs # <<>>

Unused(g)    == request_q[g] = <<>> /\ running[g] = None /\ response_q[g] = <<>>
Sent(g)      == /\ Len(request_q[g]) = 1 /\ running[g] = None /\ response_q[g] = <<>>
                /\ Describes(busy[g], Head(request_q[g]))
Executing(g) == /\ request_q[g] = <<>> /\ running[g] # None /\ response_q[g] = <<>>
                /\ Describes(busy[g], running[g].batch)
Answering(g) == /\ request_q[g] = <<>> /\ running[g] = None /\ response_q[g] # <<>>
                /\ busy[g].remaining = Len(response_q[g])
                /\ AnsweringIds(g) \subseteq busy[g].jobs

\* A worker has one batch at a time, and its group counts the messages it
\* still owes: a GPU is taken for free only when its worker has nothing left
\* to do or to say (gateway.py, _on_worker_response and the fill loop).
GroupAccounting ==
  \A g \in GPUs : IF busy[g] = None THEN Unused(g)
                  ELSE Sent(g) \/ Executing(g) \/ Answering(g)

PendingOf(c, t) == {j \in pending : job[j].queue = c /\ job[j].tenant = t}

\* The in-flight count of a tenant is the number of its jobs that have not
\* ended, through requeues, failures and cancelled callers, and stays in quota.
QuotaExact ==
  \A c \in Class, t \in Tenant :
    /\ tenant_inflight[c][t] = Cardinality(PendingOf(c, t))
    /\ tenant_inflight[c][t] <= tenant_quota[c]

\* Requeued jobs skip the depth check.  No class ever holds more new jobs than
\* its depth cap, nor with those that came back more than the cap and one full
\* batch on every GPU.
DepthBound ==
  \A c \in Class :
    /\ Cardinality({j \in Range(queues[c]) : job[j].resume_state = None}) <= max_depth[c]
    /\ waiting(c) <= max_depth[c] + NUM_GPUS * MAX_BATCH

\* What the sampler and GET /stats show of the load.
depths == [c \in Class |-> waiting(c)]
BusySizes == [g \in GPUs |-> IF busy[g] = None THEN 0 ELSE Cardinality(busy[g].jobs)]

\* The views never hide a request that has not ended: depths and batch sizes
\* together show all of them.  While the messages of a batch are being handled
\* they show some twice, or some that have ended, at most all but one of a
\* batch for each GPU.
ViewsCover ==
  LET shown == SumFunction(depths) + SumFunction(BusySizes)
  IN  /\ Cardinality(pending) <= shown
      /\ shown <= Cardinality(pending) + NUM_GPUS * (MAX_BATCH - 1)

\* A job that ends well went through each denoising step of its request once,
\* on its own latents, however often it was checkpointed and regrouped.
ResultComplete ==
  \A g \in GPUs : \A m \in Range(response_q[g]) :
    m.type = "result" =>
      m.latents = [owner |-> m.request_id, applied |-> job[m.request_id].steps]

\* Every preemption counted is a resume counted or a job still to be resumed.
PreemptionLedger ==
  stats.preemptions =
    stats.resumes + Cardinality({j \in Queued : job[j].resume_state # None})

\* The handler subtracts job.arrival from job.dispatched_at, which requeue
\* sets to None: a job whose result arrived has been stamped again.
StampedWhenAnswered ==
  \A j \in Jobs : future[j] \in {"result", "answered"} => job[j].dispatched_at

\* When the dispatcher sleeps with no event pending, there is no free GPU, no
\* queued job, or a timer that will wake it.
NoLostWakeup ==
  LoopIdle /\ ~dispatch_event /\ Free # {} /\ Queued # {} => timers # {}

-----------------------------------------------------------------------------
\* The GPUs whose group was told to stop and has not been requeued yet.
EvictionsInFlight ==
  {g \in GPUs : /\ busy[g] # None
                /\ \/ busy[g].batch_id \in Range(control_q[g])
                   \/ \E m \in Range(response_q[g]) : m.type = "preempted"}

Smaller(a, b) == IF a <= b THEN a ELSE b
Larger(a, b) == IF a <= b THEN b ELSE a
EvictionsWanted == CeilDiv(waiting("production"), MAX_BATCH)

\* gateway.py:453-457: a pass never takes the evictions in flight above
\* ceil(waiting_production / MAX_BATCH).
EvictionBudget ==
  [][Evict => Cardinality(EvictionsInFlight') <=
                Larger(Cardinality(EvictionsInFlight), EvictionsWanted)]_vars

\* With production waiting and no GPU free, as many evictions are in flight as
\* the waiting jobs need, or every preemptible group is being evicted.
EvictionsSuffice ==
  LoopIdle /\ ~dispatch_event /\ Preemptive /\ waiting("production") > 0 /\ Free = {} =>
    LET preemptible == {g \in GPUs : Preemptible(job[busy[g].head].queue)}
    IN  Cardinality(EvictionsInFlight) >=
          Smaller(EvictionsWanted, Cardinality(preemptible))

\* Jobs are evicted for production requests, at most a batch of them for each.
EvictionsProportional ==
  stats.preemptions <=
    MAX_BATCH * Cardinality({j \in Jobs : job[j] # None /\ job[j].queue = "production"})

\* worker.py:17-18: jobs preempted together re-form as a batch, so none of them
\* is dispatched again while another is still on its way to the queue.
RegroupsWhole ==
  \A g, h \in GPUs :
    g # h /\ busy[g] # None /\ busy[h] # None => busy[g].jobs \cap busy[h].jobs = {}

\* A worker checkpoints a batch only when that batch was told to stop: a message
\* that arrives after its batch has ended stops no later one (_preempt_requested).
StaleSignalIgnored ==
  \A g \in GPUs : \A m \in Range(response_q[g]) :
    m.type = "preempted" => job[busy[g].head].preempt_requested

-----------------------------------------------------------------------------
\* Every accepted request is answered, unless its caller went away.
EveryRequestAnswered ==
  \A j \in Jobs : future[j] = "waiting" ~> future[j] \in {"answered", "failed", "cancelled"}
=============================================================================
