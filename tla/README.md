# A specification of the multi-GPU inference scheduler

The program is a FastAPI gateway (`src/gateway.py`) that queues image requests
in three classes and hands them in batches to one worker process per GPU. This
directory holds a TLA+ model of its core, the TLC runs that check it and the
TLAPS proofs of what holds for every configuration.

`src/gateway.py` contains two versions of the program. Lines 24-444 are an older
one inside a string literal and never run; everything here is about lines
446-893.

## Inventory

| Part | State | Operations | Interacts with |
|---|---|---|---|
| `POST /generate` (gateway.py:757-815) | `pending`, the future, counters | admit or refuse; wait for the future; answer | queues, dispatcher event |
| Admission and queues (scheduling.py) | `queues`, `tenant_inflight`, the `Job` objects | `admit`, `pop_next`, `pop_by`, `pop_mates`, `requeue`, `release` | called by the gateway and the policies |
| Policies (policies.py) | none | `select` | queues |
| Dispatcher (gateway.py:581-668) | `busy`, the `Event`, timers | fill free GPUs, hold an underfilled batch, evict | queues, workers' queues |
| Response handler (gateway.py:532-575) | `busy`, `pending`, `Job.resume_state` | free a GPU, requeue a checkpoint, resolve a future | drain thread, queues, event |
| Worker (worker.py) | the batch in hand, its latents and step | start, denoise one step, checkpoint, answer, fail | request, control and response queues |
| Lifespan (gateway.py:693-737) | `ready`, processes, tasks | start workers, wait, stop | everything |
| Tracer (tracer.py) | active and finished traces, events | admit, dispatch, preempted, complete, summary | called by the gateway; reads the clock the workers read |
| Estimator (estimator.py) | fitted cells | fit, estimate | `generate` |
| GPU monitor (gpu_monitor.py) | last NVML snapshot | poll, `util` | dispatcher (which free GPU) |
| Sampler, `/health`, `/stats`, `/metrics`, `/traces` | a ring buffer | read only | everything |
| bench.py, report.py | a SQLite file of runs and their requests | view `/stats`, send, gather, view again, write; summarize | the HTTP interface |
| calibrate.py | the table it measures | measure every cell, write once | calibration.json, which the estimator loads |
| Demo clients, html, launcher | none | load and views | the HTTP interface |

### Where it is hard

- One asyncio loop runs the handlers, the dispatcher and the response handler,
  each without interruption up to its next `await`; the workers are processes
  that run beside it. Their messages arrive one by one, so the loop may run
  anything between two messages of one batch.
- A preemption takes four asynchronous steps: the dispatcher marks the head and
  sends a message, the worker finds it before its next step, one message per job
  comes back, each job is requeued and later resumed. Every step can race with
  the end of the batch, a new arrival or another pass of the dispatcher.
- An underfilled batch is put back with only a timer to bring the dispatcher back.
- One request is measured and counted in several places (the job's stamps, the
  response, the trace, the counters, the rows of a benchmark run), each at a moment of
  its own; a checkpoint clears or repeats some of the stamps and not others.
- Quota slots, groups in `busy` and futures must each be released exactly once on
  every path: result, error, requeue, cancelled caller.

What makes each part correct, in the terms of the modules below:

| Part | Properties |
|---|---|
| queues, admission | `QuotaExact`, `DepthBound`, `OnePlace`, `FrontIsOldest` |
| policies | `NoOvertaking`, `EdfIsPriority` |
| dispatcher | `NoLostWakeup`, `EvictionsSuffice`, `EvictionBudget`, `EvictionsProportional` |
| response handler | `GroupAccounting`, `PreemptionLedger`, `StampedWhenAnswered` |
| worker | `ResultComplete`, `StaleSignalIgnored` |
| lifespan | `ServesOnlyLoaded`, `StartupEnds`, `LossBounded`, `OthersAnswered`, `StopEnds` |
| tracer | `TraceFollowsJob`, `SpansFromOneAttempt`, `TracesFound`, `SpansMeasured` |
| counters and views | `ViewsCover`, `DispatchLedger`, `CountersAgree`, `ResponseAgrees` |
| bench.py, report.py | `RunTotalsTrue`, `ReportAgrees` |
| estimator, calibrate.py | `FitIsBest`, `PeakCovered`, `CostGrows`, `BatchesFit`, `LoadsWholeTables` |
| all of it | `EveryRequestAnswered`, `ImplementsLifecycle` |

## Modules

| Module | Models |
|---|---|
| `Config` | config.py and the environment variables as CONSTANTS with their assumptions; the record shapes of jobs, batches, groups and messages |
| `Scheduling` | scheduling.py and policies.py: the job table, the queues, the in-flight counts; one action per method; each policy as the predicate `Selected` |
| `Worker` | worker.py: per GPU the three queues and the batch in `_run_batch` |
| `Gateway` | gateway.py: handlers, dispatcher and response handler, composed with `Scheduling` and `Worker`; `Spec` and `FairSpec` |
| `GatewayProps` | the properties |
| `JobLifecycle` | the abstract promise: requests that wait, run together, yield with their progress kept, end once; no queues, GPUs or messages |
| `GatewayRefinement` | the mapping of `Gateway` to `JobLifecycle` |
| `Startup` | lifespan up to its yield: spawning the workers, their ready messages, the drain thread, the three tests of the polling loop |
| `Lifespan` | `Gateway` with workers that die at any moment, and the graceful stop |
| `Ordering` | `Gateway` under fifo and under edf: what each lets start before what |
| `Tracing` | tracer.py beside `Gateway`: the clock, the stamps of the workers, each mark conjoined with the step that makes it |
| `Bench` | bench.py beside `Tracing`: the response's figures, the counters, the rows and totals of a run |
| `Report` | what is read of a run: report.py's summary, the counters and latencies of `/metrics` |
| `Estimation` | estimator.py: the fit, the nearest cell, the scaling |
| `Calibration` | calibrate.py's sweep and its file beside a gateway that loads it |
| `Rounding` | Python's `round` |
| `MC`, `MCOrdering`, `MCLifespan`, `MCTracing`, `MCBench`, `MCEstimation` + `MC_*.cfg` | the instances for TLC |
| `SumProofs` | what `SumFunction` adds up to, without induction over data; what `Rounding` returns lies within half a unit |
| `GatewayProofs` | the sequences that `pop_mates` builds; type correctness; the groups in `busy`, the quota counts; where each job is; the length of the queues; the views |
| `RefinementProofs` | wake-ups, stamps, the ledger of preemptions, the steps a result is made of; `Gateway` implements `JobLifecycle`, step by step |
| `PolicyProofs` | the order in which jobs start under the policies without preemption; which groups are told to stop and how many, with one job to a batch and with any number |
| `TracingProofs` | the traces and spans, with the clock |
| `BenchProofs` | the responses, the counters, the rows and totals of a run, the report |
| `LifespanProofs` | with dying workers the gateway is still that of `Spec`; what deaths cost |
| `StartupProofs` | the safety of start-up; the table the estimator loads, its lines and its peaks |

`Gateway` composes `Scheduling` and `Worker`; `Lifespan` and `Tracing` each extend
`Gateway` with state of their own and reuse its actions, `Bench` does so with
`Tracing`, `Report` reads `Bench`; `Ordering` instantiates `Gateway` once per policy;
`Calibration` extends `Estimation`, which with `Startup` stands alone.

Definitions whose comment calls them a mutant are variants of the one below them
with a plausible mistake. Nothing uses them; they exist to show that each
property can tell the right code from the wrong one.

### State and actions against the code

- `job` is the table of `Job` objects. Ids are 1, 2, ... in order of arrival, so
  they also stand for `Job.arrival`. `dispatched_at` is whether it is set.
- `queues`, `tenant_inflight`, `busy`, `pending`, `stats` are the fields of the
  same name. `future[j]` is how far the caller of `j` got.
- `Generate` is the handler up to `await fut`, `Reject` its 413/429 exit,
  `Respond` the code after the await. `Cancel` is the server cancelling a handler
  that has not ended, also between the arrival of its message and its next step: the
  job goes on or stays done, and nobody is told.
- `OnPreempted` and `OnFinished` are `_on_worker_response`, whole: the group in
  `busy`, the requeue or the release and the future, the event.
- The dispatcher's body is one callback, but a pass loops. `dispatcher` says where
  it is (`filling`, `evicting`), one turn of the loop is one step, and no other
  callback runs until it is `waiting` again. `DispatchBatch` is one turn that sends
  a batch, `HoldBatch` the one that puts the group back and breaks, `FillDone` the
  two other breaks, `Evict` the second half of the pass.
- `StartBatch`, `Denoise`, `PreemptBatch`, `FinishBatch`, `BatchError` are the
  worker's loop. They interleave with every step of the gateway, including the
  middle of a dispatcher pass.

- `JobLifecycle` sees a job as waiting while it is in a queue and as running from the
  dispatch of its batch until its message has been handled. `DispatchBatch` is its
  `Start`, `OnPreempted` its `Yield`, `OnFinished` its `End`; holding, waking, evicting
  and everything inside a worker are stutters.
- In `Lifespan` a dead worker (`gone`) takes no more steps, so the batch it has in hand is
  lost, and the last `unsent` of its messages are never read; the gateway does not notice. `Stop` needs every caller to be answered or gone,
  because the server waits for open requests before it leaves lifespan. A stranded
  caller therefore keeps it from ever stopping gracefully.
- `Tracing` has one clock, as the gateway and the workers have on one node. `Tick` is
  possible between any two callbacks and at any moment of a worker; a callback takes
  no time. `worker_clock` keeps the two stamps of a worker's last batch instead of a
  copy in each of its messages, which are all handled before its next batch starts.
- In `Bench`, `Arrive`, `TurnAway`, `Send`, `Resolve` and `Conclude` are `Generate`,
  `Reject`, `DispatchBatch`, `OnFinished` and `Respond` with their stamps and counters.
  `Begin` and `Report` are bench.py's two reads of `/stats`, `Fired(j)` the end of one
  of its tasks. A request in `Cancellable` may also be given up by its client. Requests
  that arrive before `Begin` are somebody else's.
- In `Calibration` the file holds a table or is `Torn`: opening it for writing empties
  it, closing it completes it, and the process may be killed before each.
- In `Startup` the three tests of the loop are separate steps because the drain thread
  and the workers go on between them.

### Abstractions

- Latents are their owner and the number of denoising steps applied, which is what
  a wrong slice or step index would change. Width and height only matter by
  equality and are one `shape`.
- `mp.Queue`: messages of one worker keep their order; those of different workers
  interleave freely, so the shared response queue is one sequence per worker and
  the reader takes from any. A put may become visible late, so a drain of the
  control queue reads any prefix of what was put.
- Time: `aged` is the last job that is at least `BATCH_WAIT_MS` old. A timer set for
  a held head fires some time after the head is that old, as in the code. Two timers
  for the same head fire together and are one.
- `batch_id` is the number of the dispatch instead of a UUID.
- Which free GPU is used (gateway.py:610) depends on NVML readings, so any may be:
  `LeastUtilised` is every free GPU.
- All deadlines are arrival plus the same SLO, so comparing deadlines is comparing
  arrivals.
- `vram_gb` is an attribute of the request. `BatchesFit` shows that no request that
  passes validation is over the shipped budget, so the 413 exit is covered by the
  guard only.
- The clock counts readings, each `Reading/Tenth` tenths of a millisecond. What a response
  tells (`queue_ms`, `e2e_ms`, the worker's `gpu_time_ms`) is rounded to tenths, while the
  deadline is judged by the clock; the shown attainment and slo_pct are thousandths. The
  rounding of a trace's spans to tenths (tracer.py:84-95) is left out: they are exact here.
- `TracingSpec` leaves time out, `TimedSpec` and `BenchSpec` have it: without it a span is right if the attempt it is measured
  from is (`SpansFromOneAttempt`).
- `Report` counts every trace the tracer keeps: instances are shorter than the window
  of 120 s. The p99 it compares with the SLO is the slowest request for up to fifty
  requests, and the property says so.
- A behaviour of `Bench` ends with its benchmark run.
- A worker that dies in the middle of a write to the shared response pipe could corrupt
  it for all; deaths here happen between messages.
- `Estimation` has whole numbers in the units of calibration.json. Rounding takes a tie to
  the even digit where floating point may go either way; no property
  depends on it. The proofs about times, ratios and latencies only use that the result is within
  half a unit (`Near`).

## Runs

A run asks several questions where one instance answers them all.

In the runs of the gateway requests are drawn from two or three kinds; three to five of
them arrive, at any time and in any order.

| Run | Instance | Shows |
|---|---|---|
| `batching` | 2 GPUs, `MAX_BATCH` 2, 4 jobs, priority_preempt | `TypeOK`; no job lost or in two places; groups in `busy` agree with the workers; each result went through every step once on its own latents; preemptions and resumes balance; results are only delivered for stamped jobs; a message answers the last attempt of its trace |
| `preempt` | 2 GPUs, `MAX_BATCH` 1, 4 jobs | the eviction rule is neither too weak nor too strong; a late signal stops no other batch |
| `order` | 1 GPU, `MAX_BATCH` 3, 4 jobs of two batch keys in two classes, holds on, under fifo and under edf | no overtaking but by mates and, under edf, more important classes; queues stay in arrival order under holds; edf coincides with strict priority under the configured deadlines |
| `service` | 1 GPU, `MAX_BATCH` 2, 3 jobs, queues of one, quotas, holds on, an error, a cancelled caller, a rejection, one finished trace kept | every accepted request is answered, with no lost wake-up; slots given back once; the queue length past requeues; `Gateway` implements `JobLifecycle`; traces tell what happened to their jobs |
| `figures` | 1 GPU, `MAX_BATCH` 2, 2 jobs and a rejection, a clock with 3 readings that are 6/5 of a tenth apart, SLO of one tenth, a cancelled caller, a benchmark run begun at any moment | trace and response measure the same wait but for the rounding; no span is negative; dispatches, preemptions, completions, counters and traces balance; a run's totals and report are true |
| `lifespan` | 2 GPUs, `MAX_BATCH` 2, 3 jobs of which one production at a time, holds on, one mortal worker, a cancelled caller | a death costs at most one batch; the others are answered; after a stop every worker ends, also with work in hand |
| `startup` | 3 workers, each may die, one may hang | start-up ends, and serves only when every worker has loaded its model and warmed up |
| `estimation` | all tables of up to 3 measurements in two cells, the shipped one, none; for the last two all 9409 sizes and batches 1-4; a sweep of all 18 cells that may be killed | best line, covered peaks, cost that grows or is hidden by its rounding; every batch of accepted requests fits the budget; no gateway loads part of a sweep |
| `eviction_budget` | 2 GPUs, `MAX_BATCH` 2, 5 one-step jobs | finding 1 |
| `stale_flag` | as above | finding 2 |
| `regroup` | as above, 4 jobs | finding 3 |
| `spans_add_up` | 1 GPU, two jobs, a clock | finding 4 |

Bounds, all in the cfg files: `MaxJobs` requests are admitted, `MaxRejected` refused.
Steps per request are 1 or 2, enough for a checkpoint before the first step, between
steps, and (too late) after the last. Two GPUs are enough for every race between two
groups and for a batch that splits over two GPUs; four jobs fill two batches of two,
or two groups with two production jobs waiting. `MaxTime` readings of the clock are enough for a first
dispatch, a second one and an answer at three different times. `Reading` and `Tenth`
set a reading against a tenth of a millisecond: at 6 to 5 one reading is told as just the
SLO and has missed it, which is the case the rounding makes hard, and two are late by
either measure. Two requests are enough
for a preemption, for a batch of two and for two rows of a run of which one is
somebody else's or given up. A sweep starts from the tables in `Recalibrated` only;
what lies there before does not matter to it. Nothing else is bounded: the control
queue is bounded by the number of evictions, and each eviction needs a dispatch.

Deadlock is checked in every run of `Gateway`, `Ordering`, `Tracing` and `Bench`. The only state with nothing
left to do is the one where all `MaxJobs` requests came and went; `Idle` names it. In `Bench` it is the state after the run, which `Over` names. It is
off where the program really stops (`Startup`, `Lifespan`, `Calibration`).

A table of three measurements is the smallest where the fit is not forced.

### Fairness

`FairSpec` asks for weak fairness of what the platform provides: the event loop runs
every ready callback (`DispatcherStep`, `Respond`, the delivery of a worker's
messages, `TimerFire`), each worker process goes on with its loop, and time passes.
Nothing makes a client send, a handler be cancelled or a batch fail. A handler is
never blocked by the dispatcher for ever, since a pass is finite. `FairLifespanSpec` asks
less: that the loop runs something whenever a callback is ready, that time passes and that
the workers that live go on. `FairTracingSpec` is `FairSpec` with the tracer.
`FairStartupSpec` lets the loop, the drain thread and the clock go on and the workers
outside `Hanging` load; none needs to die or to live.

### Findings

1. `eviction_budget`. The docstring (gateway.py:453-457) promises at most
   ceil(waiting / MAX_BATCH) evictions minus those in flight. In flight is read from
   the head's `preempt_requested`, which the head's own message clears (line 561)
   while its mates are still to be handed back and the GPU is still busy. A pass in
   that window signals one group too many. With `MAX_BATCH` 1 there is no window and
   `EvictionBudget` holds (run `preempt`).
2. `stale_flag`. In the same window the group that is being handed back is a
   candidate itself, so line 661 may mark a head that is already in its queue. The
   mark stays: when the job runs again its group counts as an eviction in flight and
   is never signalled, so production waits behind a preemptible group.
3. `regroup`. worker.py:17-18 says jobs preempted together re-form as a batch. Each is
   requeued by its own message, and with another GPU free the first one is dispatched
   alone.

4. `spans_add_up`. The docstring (gateway.py:449-450) says a request decomposes into
   four spans. `Tracer.complete` ends `queue_ms` at the first dispatch and starts
   `ipc_ms` at the last, so for a preempted request everything in between is in no
   span. `SpansMeasured` shows that without a preemption they do add up, and
   `ResponseAgrees` that the response's own `queue_ms` includes that time.

## Proofs

For every number of GPUs, batch size, policy, caps, set of requests and set of
failing GPUs, from `ConfigAssumption` and `NoneAssumption` (None is not a record); for
the tracer also every length of its buffer and every number of readings of the clock, from
`KeepAssumption`, `TimeAssumption` and `NoTraceAssumption` (None is no trace and no step); for
responses, runs and reports every SLO and every ratio of a reading to a tenth, from `SLOAssumption` and `RowAssumption` (None is no
status of a row and no verdict); for deaths every set of mortal workers, from `MortalAssumption`;
for the estimator every table of positive sizes, batches and steps, from `TablesAssumption`, and
for `BatchesAlwaysFit` any largest shape and any budget that the measurements and the heuristic
respect, from `LargestAssumption` and `BudgetAssumption`, which TLC evaluates for the shipped table
and the budget of config.py:

- `TypeCorrect`: `Spec => []TypeOK`. `TypeOK` is not inductive: an eviction reads
  `job[busy[g].head]` and a requeue puts a job into the queue of its class, so `Typed`
  adds `JobsExist`: ids in queues, in `pending` and at the head of a group belong to
  admitted jobs, and a queue holds its own class. One lemma per action.
- `GroupsAccounted`: `Spec => []GroupAccounting`, inductive together with `Typed`. A
  dispatch needs that the batch message and the group have the same jobs
  (`NewGroupAndBatch`); an answer needs that there is one message per job (`Answers`);
  a message that arrives finds its job in the group and lowers the count that equals
  the length of what is left.
- `QuotaAlwaysExact`: `Spec => []QuotaExact`. Needs that a job keeps its class and tenant
  through stamps, requeues and evictions (`JobsKeepIdentity`), and the cardinality of
  `pending` restricted to a tenant when one job is added or removed.
- `GroupAndRest` (with `AtPositionsBijection`): the group that is popped and the rest of
  the queue have together exactly the jobs of the queue.
- `JobsInOnePlace`: `Spec => []OnePlace`. What a GPU owes is read off in one place
  (`Owed`: the batch sent, else the batch in hand, else the messages), so by
  `GroupAccounting` nothing else is outstanding (`OutstandingIsOwed`). `Placed` says the
  rest: queues and owed jobs repeat nothing, are apart, are together `pending`, and a
  batch has at most `MAX_BATCH` jobs. `Settled` is `Typed`, `GroupAccounting` and
  `Placed`; it is inductive (`SettledAlways`) and everything below starts from it.
- `DepthAlwaysBounded`: `Spec => []DepthBound`. `DepthBound` is not inductive, because a
  requeue makes a queue longer: `DepthsBounded` bounds the jobs of a class that are
  pending, queued or not. Only `Generate` adds one, and then the queue is below its cap
  and the GPUs owe at most `MAX_BATCH` each (`HeldByAll`, `OwedByAll`).
- `WakeupNeverLost`: `Spec => []NoLostWakeup`, from the same for a dispatcher that has
  done filling (`WillWake`): between the end of the fill loop and the wait a worker cannot
  free a GPU, since only the loop takes its message.
- `AnswersAreStamped`: `Spec => []StampedWhenAnswered`. Every job a GPU owes is stamped,
  and one that has an outcome is not pending, so no requeue can clear its stamp (`Stamped`).
- `LedgerBalances`: `Spec => []PreemptionLedger`. A checkpoint that arrives adds one job
  to `ToResume`; a dispatch counts and takes away the same jobs of the group (`Resumed`).
- `ResultsAreComplete`: `Spec => []ResultComplete`. `ProgressTrue` says of every batch sent
  that it starts where the checkpoints of its jobs end and on their latents (`SentTrue`), of
  every batch in hand that as many steps were applied to each of its latents (`RunTrue`), of
  every message what it may carry (`MessagesTrue`), of every checkpoint that it is its own
  job's (`CheckpointsTrue`). That mates have the head's start index is `GroupSharesKey`.
- `GatewayImplementsLifecycle`: `Spec => ImplementsLifecycle`. `Generate` is `Accept`,
  `DispatchBatch` is `Start` of the group, `OnPreempted` is `Yield`, `OnFinished` is `End`,
  `Respond` is `Tell`, `Cancel` is `GoAway`, all others are stutters (one lemma each, put
  together in `RefinedStep`). `Start` needs that a selected head has no waiting job of more
  importance (`SelectedMayStart`) and that what runs fits the GPUs. `Yield` needs one more
  invariant, `YieldTrue`: a batch is as preemptible as its jobs, signals are only sent
  under priority_preempt, and a checkpoint is at or past the point of the resume and before
  the last step.
- `OldestInFront`: `Spec => []FrontIsOldest`, `EdfFollowsPriority`: `Spec => []EdfIsPriority`,
  both for a gateway started under any policy but priority_preempt. By `YieldTrue` nothing
  then yields, so a queue only changes by an arrival, a dispatch and a hold.
  `FrontIsOldest` is not inductive: once the front is gone the next must be the oldest of
  the rest. `QueuesInOrder` says that of the queue all but the front and its mates are in
  order of arrival. They need not be: a held group goes back with its mates right behind
  its head, ahead of older jobs with another key. They leave together because a hold needs
  fewer than `MAX_BATCH` in the group, so none is left behind to be a wrong front. Together
  with it, `ArrivedInOrder`: ids are given in order of arrival.
- `NobodyOvertakes`: `NoOvertaking` under fifo and edf, from `NobodyPassed`, which also
  covers the groups whose head has ended. It is stated of `Spec` started under either
  policy; `OrderingSpec` is the choice between the two.
- `TracedIsGateway`: `TimedSpec => Spec`, so what holds of the jobs holds beside the tracer
  too. The next four are of `TimedSpec`, whose steps include those of `TracingSpec`, and
  rest on `TracesAlwaysTell`.
- `TracesFollowJobs`: `[]TraceFollowsJob`. That steps of checkpoints never go back needs that
  the last one is the job's `StartIndex` (`Story`), which by `YieldTrue` bounds the next one,
  and that an attempt is `resumed` exactly if `preempt_count` is positive (`YieldsCounted`).
- `SpansOfOneAttempt`: `[]SpansFromOneAttempt`, from `BatchTraced`: the last attempt of every
  job that a GPU owes is the batch the GPU has.
- `SpansAlwaysMeasured`: `[]SpansMeasured`. Between a dispatch and its message the stamps of
  the GPU are of that batch and in order (`ClockTrue`), because a worker starts no batch
  before the messages of the one before have been handled (`GroupAccounting`).
- `TracesAlwaysFound`: `[]TracesFound`. `DoneTrue` counts the buffer against the jobs that
  have ended, which only `OnFinished` adds to, one at a time (`EndedNext`).
- `StaleSignalsIgnored`: `[]StaleSignalIgnored`, `EvictionsBudgeted`: `EvictionBudget`,
  `EvictionsAlwaysSuffice`: `[]EvictionsSuffice` and `EvictionsAlwaysProportional`:
  `[]EvictionsProportional`, each of `Spec` under the hypothesis `MAX_BATCH = 1`, for any
  number of GPUs and any policy. The hypothesis is what the code needs: findings 1 and 2
  come from the window between the messages of one batch, and with one message to a
  batch there is none. They rest on `FlagsTrue` (`FlagsAreTrue`): a job carries
  `preempt_requested` exactly while its worker's control queue or answer shows it, a queued
  job never does, and every other signal is of a number that has been used. So the flags
  `Evict` counts are the evictions in flight (`InFlightFlagged`), and ranking the candidates
  by class and GPU id picks as many as asked for (`FirstByKey`, `SoManyVictims`,
  `InFlightAfter`). Between two passes nothing but the loop changes what is counted
  (`SufficeNext`). For the total, `EvictionsCounted`: the evictions made and in flight are
  no more than the production jobs that came, and those that wait are spare, but for one on
  each free GPU. The second part is needed because a freed GPU may let a waiting job go
  without the eviction made for it; it is kept because a policy that evicts also fills a
  free GPU with production first.
- `SignalsAreTrue`, `OnlySignalledYield`, `EvictionsBudgetedOutsideWindow`: what of
  `FlagsTrue`, `StaleSignalIgnored` and `EvictionBudget` holds for batches of any size.
  `SignalsTrue` speaks of a batch only while its worker still owes a message for the head
  (`HeadOwed`): if the batch was told to stop its head is flagged, and no signal names a
  batch still to be made. The converse is false: finding 2. A handled message of a mate
  leaves the head's flag alone, the head's own clears it and ends the claim. So the budget is
  kept in every pass in which the head of each group in flight is still owed: finding 1
  has no other cause than the window it describes.
- `ViewsAlwaysCover`: `Spec => []ViewsCover`. The sizes that the views read are those of the
  groups, each at most `MAX_BATCH` (`GroupsFit`), so their sum is bounded on both sides.
- `BenchIsTraced`: `BenchSpec => TimedSpec`; everything above holds beside bench.py. The next
  six are of `BenchSpec`.
- `ResponsesAlwaysAgree`: `[]ResponseAgrees`. `ReplyTrue`: while a job is pending the stamps the
  gateway keeps for its response and those of its trace are the same, and an entry of the
  buffer says what the message and the response say, each rounded by its own code: a rounded
  time is within half a tenth of the measured one (`RoundedIsNear`). The time since the
  arrival only grows after the entry was made and rounding keeps the order
  (`RoundedGrows`), so a response never claims less.
- `DispatchesBalance`: `[]DispatchLedger`. `SentOut`: the jobs in the histogram are those
  with the GPUs, those that ended and the checkpoints counted.
- `BenchTyped`: `[]BenchTypeOK`, with what makes it inductive: stamps in order (`TimesTrue`),
  replies and rows that follow the jobs (`RepliesTyped`, `RunTyped`).
- `RunTotalsAlwaysTrue`: `[]RunTotalsTrue`. `Totals`: completions, verdicts and met deadlines
  are the cardinalities of sets of answered jobs, preemptions the sum of `preempt_count`;
  `BeforeTrue`: the first view is at most what the jobs that are not of the run account for,
  and equal to it if none of them was open; it shows no attainment only if none of theirs
  was judged. Then the verdicts are those of the run's rows, and the attainment shown after
  is their ratio to half a thousandth (`AttainmentShown`). With verdicts before, the two
  ratios do not determine the run's share, so nothing is claimed.
- `CountersAlwaysAgree`: `[]CountersAgree`. `Tallied` is the same by GPU, class and deadline.
  `EntriesCounted`: while the buffer has room its entries are the jobs that ended, one
  each, so a bijection carries the sum over one to the other (`SumRenamed`, `SumOfSums`).
- `ReportsAlwaysAgree`: `[]ReportAgrees`. `Judged`: a met deadline has a told latency of at
  most the SLO and a missed one of at least the SLO, because rounding does not pass a whole
  tenth (`NearBounded`). At the SLO itself the row may say either: 2000.04 ms is told as
  2000.0 and missed, so "slo_pct is full exactly if p99 <= SLO" is not true of the code and
  `ReportAgrees` has the two implications that are. For up to fifty rows an attainment
  of 1000 thousandths is no rounded 999.5 (`FullAttainment`). A percentile exists and is one of the rows (`NthFound`), the p50 is at most the
  p99 for any number of rows, and up to fifty the p99 is the greatest.
- Sums are `SumFunction`, a fold. `SumProofs` shows that there is a function on the subsets of
  a finite set that adds up (`SumAdds`) and from it the facts the others cite. The induction
  it needs is over a set of sets (`SubsetsBuilt`), from the principle of the least number: the
  library's induction theorems take an operator.
- `DeathsAreDelays`: `LifespanSpec => Spec`. A dead worker looks like a slow one, so
  whatever is proved of `Spec` holds with deaths and a stop. `PromisesOutliveWorkers`
  names what matters most of it: `QuotaExact`, `DepthBound`, `ViewsCover`,
  `PreemptionLedger`, `ResultComplete`, `StampedWhenAnswered`, `NoLostWakeup` and
  `ImplementsLifecycle`. In particular a stranded request keeps its slot in the quota.
- `UnfinishedStaysBusy`, of `LifespanSpec`: a dead worker with a batch to take, one in
  hand or unsent messages stays that way and its GPU is never free. From `LifeTrue` (only
  the dead have unsent messages, and no more than are left unread) and `GroupAccounting`.
- `LossAlwaysBounded`: `LifespanSpec => []LossBounded`, for every set of workers that may die.
  By `Placed` a stranded request is owed by one GPU, whose worker is gone, and a GPU
  owes at most one batch (`StrandedIsOwed`, `HeldBySome`).
- `NeverServesLoading`: `StartupSpec => []ServesOnlyLoaded` for any number of GPUs, from
  `ReportsAreTrue` (a ready message, sent or collected, is of a worker that finished loading,
  which one that died before never does, and the loop ends with one of each). `AllReported` is the counting argument.

- `LoadsAlwaysWhole`: `CalSpec => []LoadsWholeTables`. `SweepTrue`: what was measured so far is a
  prefix of the loops, the file is the one of before or torn until a whole sweep is closed
  into it, and a gateway has loaded the one or the other. That the three loops visit every
  cell is `EveryCellMeasured`.
- `FitsAlwaysBest`: `CalSpec => []FitIsBest`, by the linearity of sums. The fit divides by n times
  the sum of squares less the square of the sum; `Spread` shows that this is n times the
  variance, not negative, and zero only if all steps are the same, so the branch of
  `_least_squares` for a zero denominator is taken exactly when no line is determined.
- `CostsAlwaysGrow`: `CalSpec => []CostGrows`. There is a nearest cell (`NearestIsThere`: the least
  in pixels, of these in batch, of these in the file), its line has positive denominators
  (`LineTyped`) and its slope is at least a millisecond once clamped. Rounded to 0.1 ms the
  estimate never falls (`NearGrows`); it grows with each step if a step, scaled, is more
  than a tenth, which it is above a tenth of the cell's area. Below, as for 256 x 256 of a
  768 x 768 cell with a batch of four, two estimates may be equal.
- `PeaksAlwaysCovered`: `CalSpec => []PeakCovered`. A cell is nearest to its own shape
  (`NearestToItself`), is scaled by one and rounded exactly, and its peak is the greatest.
- `BatchesAlwaysFit`: `CalSpec => []BatchesFit`. The scaled peak grows with the shape asked
  (`ProductGrows`), so the largest shape decides, and rounding to a whole number does
  not pass a whole budget (`RoundWithin`).

Only model-checked:

- Liveness under fairness (`EveryRequestAnswered`, `OthersAnswered`, `StopEnds`,
  `StartupEnds`), which is out of the prover's reach.
- The four properties of the findings, which the code does not have.

## Not modelled

- What a death inside a write does to the shared pipe; that the workers are daemons
  (gateway.py:707), which ends them with a gateway that does not stop gracefully; the restart of the gateway, which
  keeps nothing.
- Views nothing reads back: the sampler's ring buffer and with it `avg_util`, the events
  ring buffer, `/health`, the two pages, `Tracer.recent`, report.py's rates and plots.
- The window of `Tracer.summary`, which is on the wall clock.
- The snapshots of the GPU monitor, of which only the choice of a free GPU matters.
- The demo clients, which only send; bench.py's traffic mix, which the arbitrary
  arrivals include; SQLite.
- Numeric contents: latents, images, utilisation.

## Plan

1. Core: `Config`, `Scheduling`, `Worker`, `Gateway`, their properties, runs and first
   theorems. Done.
2. `JobLifecycle` and the refinement; `Startup` and `Lifespan`; `Tracing`; `Estimation`.
   Done.
3. The clock and the spans; the response, the counters and bench.py's accounting; the
   report; the sweep and its file; ordering under both policies without preemption. Done.
4. Proofs of `Gateway`: the invariants over queues, workers and messages, each step of
   the refinement, the order under the policies without preemption, the evictions with one job to a batch;
   proofs of `Tracing` and of the bound on what dead workers cost. Done.
5. Proofs of `Bench` and `Report`, with the theory of sums they need; of `Estimation` and
   `Calibration`. Done.
6. Evictions with batches of any size, deaths as a refinement of `Spec`, the budget of every
   estimate. Done.
7. Left: the abstract promise of `Tracing` (an entry per request, stamped in order) as a
   specification of its own.
