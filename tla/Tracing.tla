------------------------------ MODULE Tracing -------------------------------
(***************************************************************************)
(* tracer.py beside the gateway: one trace per active request with one     *)
(* attempt per dispatch, and a ring buffer of finished traces.  Each mark  *)
(* is made in the callback that makes the step, so each action below is a  *)
(* step of the gateway with its mark.                                      *)
(*                                                                         *)
(* The gateway and the workers read one monotonic clock, which may advance *)
(* between any two callbacks in TimedSpec; TracingSpec leaves time out.    *)
(* Spans are exact: their rounding to 0.1 ms is left out.                  *)
(***************************************************************************)
EXTENDS GatewayProps

CONSTANTS
  keep_done,   \* finished traces kept
  MaxTime      \* bound: readings of the clock

ASSUME KeepAssumption == keep_done \in Nat \ {0}
ASSUME TimeAssumption == MaxTime \in Nat

VARIABLES
  active,         \* job -> its trace, or None
  done,           \* finished traces, oldest first
  perf_counter,   \* the clock
  worker_clock    \* GPU -> t_start and t_end of the batch it was given last

traceVars == <<active, done>>
clockVars == <<perf_counter, worker_clock>>
tracedVars == <<vars, traceVars, clockVars>>

Time == 0..MaxTime
Attempt == [t_dispatch : Time, gpu : GPUs, batch_id : Nat, batch_size : 1..MAX_BATCH,
            resumed : BOOLEAN, preempted_at_step : Nat \cup {None}]
Trace == [rid : Jobs, arrival : Time, attempts : Seq(Attempt), preempts : Nat]
Span == Time \cup {None}
Spans == [ok : BOOLEAN, e2e_ms : Time, queue_ms : Time,
          ipc_ms : Span, gpu_ms : Span, respond_ms : Span]

\* None is neither a trace nor a step.
ASSUME NoTraceAssumption == None \notin Trace \cup Nat

TracingTypeOK ==
  /\ active \in [Jobs -> Trace \cup {None}]
  /\ done \in Seq([trace : Trace, spans : Spans])
  /\ Len(done) <= keep_done
  /\ perf_counter \in Time
  /\ worker_clock \in [GPUs -> [t_start : Time, t_end : Time]]

Marks(j) == [rid |-> j, arrival |-> perf_counter, attempts |-> <<>>, preempts |-> 0]

MarkAdmitted(j) ==
  /\ active' = [active EXCEPT ![j] = Marks(j)]
  /\ UNCHANGED done

\* A mutant of MarkedBy: the head's trace stands for the batch.
MarkedByHead(h) == {h}

MarkedBy(h) == Range(GroupOf(h))

\* One mark per job of the group, if its trace is active.
MarkDispatched(h, g) ==
  /\ active' = [j \in Jobs |->
       IF j \notin MarkedBy(h) \/ active[j] = None THEN active[j]
       ELSE [active[j] EXCEPT !.attempts =
               Append(@, [t_dispatch |-> perf_counter,
                          gpu |-> g, batch_id |-> NewBatchId,
                          batch_size |-> Len(GroupOf(h)),
                          resumed |-> job[j].resume_state # None,
                          preempted_at_step |-> None])]]
  /\ UNCHANGED done

Stamp(attempts, k, step) ==
  IF attempts = <<>> THEN attempts ELSE [attempts EXCEPT ![k].preempted_at_step = step]

\* A mutant of WithCheckpoint: the step goes to the first attempt.
FirstWithCheckpoint(tr, step) ==
  [tr EXCEPT !.preempts = @ + 1, !.attempts = Stamp(@, 1, step)]

WithCheckpoint(tr, step) ==
  [tr EXCEPT !.preempts = @ + 1, !.attempts = Stamp(@, Len(@), step)]

MarkPreempted(m) ==
  /\ active' = IF m.request_id \in pending /\ active[m.request_id] # None
               THEN [active EXCEPT ![m.request_id] = WithCheckpoint(@, m.step_index)]
               ELSE active
  /\ UNCHANGED done

\* deque(maxlen=keep_done)
Kept(s) == IF Len(s) <= keep_done THEN s ELSE SubSeq(s, Len(s) - keep_done + 1, Len(s))

\* An error message carries no stamps.
SpansOf(tr, m, clock) ==
  LET first == tr.attempts[1]
      last  == tr.attempts[Len(tr.attempts)]
      ok    == m.type = "result"
  IN  [ok |-> ok,
       e2e_ms     |-> perf_counter - tr.arrival,
       queue_ms   |-> first.t_dispatch - tr.arrival,
       ipc_ms     |-> IF ok THEN clock.t_start - last.t_dispatch ELSE None,
       gpu_ms     |-> IF ok THEN clock.t_end - clock.t_start ELSE None,
       respond_ms |-> IF ok THEN perf_counter - clock.t_end ELSE None]

Finish(tr, m, clock) == done' = Kept(Append(done, [trace |-> tr, spans |-> SpansOf(tr, m, clock)]))

\* A mutant of MarkComplete: the trace stays among the active ones.
MarkCompleteKeeping(m, clock) ==
  IF m.request_id \in pending /\ active[m.request_id] # None
  THEN Finish(active[m.request_id], m, clock) /\ UNCHANGED active
  ELSE UNCHANGED traceVars

MarkComplete(m, clock) ==
  IF m.request_id \in pending /\ active[m.request_id] # None
  THEN /\ active' = [active EXCEPT ![m.request_id] = None]
       /\ Finish(active[m.request_id], m, clock)
  ELSE UNCHANGED traceVars

\* Tracer.get: is there a trace for j?
Traced(j) == active[j] # None \/ \E k \in DOMAIN done : done[k].trace.rid = j

-----------------------------------------------------------------------------
(* The stamps of the worker: a batch's messages all carry the same two, and *)
(* the next batch does not start before they have been handled.            *)

\* A mutant of StampStart: t_start is set once and for all.
StampFirstStart(g) ==
  worker_clock' = [worker_clock EXCEPT ![g].t_start = IF @ = 0 THEN perf_counter ELSE @]

StampStart(g) == worker_clock' = [worker_clock EXCEPT ![g].t_start = perf_counter]
StampEnd(g) == worker_clock' = [worker_clock EXCEPT ![g].t_end = perf_counter]

StampedStep(g) ==
  \/ StartBatch(g) /\ StampStart(g)
  \/ (PreemptBatch(g) \/ FinishBatch(g)) /\ StampEnd(g)
  \/ (Denoise(g) \/ BatchError(g)) /\ UNCHANGED worker_clock

\* A callback of the loop takes no time.
Tick ==
  /\ LoopIdle
  /\ perf_counter < MaxTime
  /\ perf_counter' = perf_counter + 1
  /\ UNCHANGED <<vars, traceVars, worker_clock>>

-----------------------------------------------------------------------------
TracingInit ==
  /\ Init
  /\ active = [j \in Jobs |-> None]
  /\ done = <<>>
  /\ perf_counter = 0
  /\ worker_clock = [g \in GPUs |-> [t_start |-> 0, t_end |-> 0]]

Admitted(j, r) == Generate(j, r) /\ MarkAdmitted(j) /\ UNCHANGED clockVars
Dispatched(h, g) == DispatchBatch(h, g) /\ MarkDispatched(h, g) /\ UNCHANGED clockVars
Preempted(g) ==
  OnPreempted(g) /\ MarkPreempted(Head(response_q[g])) /\ UNCHANGED clockVars
Finished(g) ==
  OnFinished(g) /\ MarkComplete(Head(response_q[g]), worker_clock[g]) /\ UNCHANGED clockVars
Refused(r) == Reject(r) /\ UNCHANGED <<traceVars, clockVars>>
Responded(j) == Respond(j) /\ UNCHANGED <<traceVars, clockVars>>

Unmarked ==
  /\ \/ \E j \in Jobs : Cancel(j) \/ TimerFire(j) \/ HoldBatch(j)
     \/ Wake \/ FillDone \/ Evict \/ Age \/ Idle
  /\ UNCHANGED <<traceVars, clockVars>>

WorkerRuns(g) == StampedStep(g) /\ UNCHANGED <<gatewayVars, traceVars, perf_counter>>

TracingNext ==
  \/ \E j \in Jobs, r \in Requests : Admitted(j, r)
  \/ \E h \in Jobs, g \in GPUs : Dispatched(h, g)
  \/ \E g \in GPUs : Preempted(g) \/ Finished(g) \/ WorkerRuns(g)
  \/ \E r \in Requests : Refused(r)
  \/ \E j \in Jobs : Responded(j)
  \/ Unmarked

TracingSpec == TracingInit /\ [][TracingNext]_tracedVars
TimedSpec == TracingInit /\ [][TracingNext \/ Tick]_tracedVars
FairTracingSpec == TracingSpec /\ Fairness

-----------------------------------------------------------------------------
\* An active trace tells the story of its job: one attempt per dispatch, all
\* but a running one checkpointed, resumed from the second on, never at an
\* earlier step than before (dispatch and preempted against Job).
TraceFollowsJob ==
  \A j \in pending :
    LET tr == active[j]
        at == tr.attempts
    IN  /\ tr # None
        /\ tr.preempts = job[j].preempt_count
        /\ Len(at) = tr.preempts + (IF j \in Queued THEN 0 ELSE 1)
        /\ \A k \in DOMAIN at : /\ at[k].resumed <=> k > 1
                                /\ k <= tr.preempts <=> at[k].preempted_at_step # None
        /\ \A k \in 1..(tr.preempts - 1) :
             at[k].preempted_at_step <= at[k + 1].preempted_at_step

\* ipc_ms and gpu_ms are measured from the last attempt: when a message comes
\* in, that attempt is the batch it answers, on the GPU it came from.
SpansFromOneAttempt ==
  \A g \in GPUs : \A j \in AnsweringIds(g) :
    LET at == active[j].attempts
        last == at[Len(at)]
    IN  /\ at # <<>> /\ busy[g] # None
        /\ last.gpu = g
        /\ last.batch_id = busy[g].batch_id
        /\ last.batch_size = Cardinality(busy[g].jobs)

\* GET /traces finds every request that has not ended and keep_done of those
\* that have, and no request is in the buffer twice or while it is active.
TracesFound ==
  /\ \A k, l \in DOMAIN done : k # l => done[k].trace.rid # done[l].trace.rid
  /\ \A k \in DOMAIN done : active[done[k].trace.rid] = None
  /\ \A j \in pending : Traced(j)
  /\ LET ended == {j \in Jobs : job[j] # None} \ pending
     IN  Cardinality({j \in ended : Traced(j)}) =
           Smaller(Cardinality(ended), keep_done)

\* Two processes stamp a trace and a preempted request is stamped again, and
\* still no span is negative; without a preemption the four make up the whole of
\* e2e_ms (Tracer.complete, _run_batch).
Added(s) == s.queue_ms + s.ipc_ms + s.gpu_ms + s.respond_ms
SpansMeasured ==
  \A k \in DOMAIN done :
    LET s == done[k].spans
    IN  s.ok => /\ s.ipc_ms >= 0 /\ s.gpu_ms >= 0 /\ s.respond_ms >= 0
                /\ done[k].trace.preempts = 0 => Added(s) = s.e2e_ms

\* gateway.py:449-450: every request decomposes into its four spans.
SpansAddUp == \A k \in DOMAIN done : done[k].spans.ok => Added(done[k].spans) = done[k].spans.e2e_ms
=============================================================================
