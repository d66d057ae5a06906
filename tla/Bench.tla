------------------------------- MODULE Bench --------------------------------
(***************************************************************************)
(* bench.py against the gateway: it reads GET /stats, sends requests,      *)
(* waits until each has become a row of results.db, reads GET /stats again *)
(* and writes the totals.  The module adds what the handler reports and    *)
(* counts after its await, which the rows and the totals are made of.      *)
(*                                                                         *)
(* Other clients may have requests open when the run starts; during the    *)
(* run only bench.py sends.  Behaviours are followed up to its end.        *)
(***************************************************************************)
EXTENDS Tracing, Rounding

CONSTANTS
  Reading, Tenth,   \* from one reading of the clock to the next, and a tenth of a
                    \* millisecond, in a unit that divides both
  SLO               \* production's slo_ms, in tenths of a millisecond

ASSUME SLOAssumption == {Reading, Tenth} \subseteq Nat \ {0} /\ SLO \in Nat
ASSUME RowAssumption == None \notin {"ok", "rejected"} /\ None \notin BOOLEAN

VARIABLES
  times,      \* job -> the arrival and dispatched_at of its Job object
  reply,      \* job -> its future's result message, then the response's body
  counters,   \* the rest of stats
  bench,      \* what bench.py does: "before", "running" or "over"
  ours,       \* its admitted requests
  row,        \* job -> "ok" or "rejected", or None
  refused,    \* its rows for requests that admission refused
  before, after   \* its two views of /stats, or None

benchVars == <<bench, ours, row, refused, before, after>>
replyVars == <<times, reply, counters>>

\* Times are told in tenths of a millisecond.
Rounded(t) == Round(Reading * t, Tenth)

\* What is kept of a result message, and what a 200 says beyond it.
Message == [gpu_id : GPUs, batch_size : 1..MAX_BATCH, gpu_time_ms : Nat]
Body == [msg : Message, queue_ms : Nat, e2e_ms : Nat, deadline_met : BOOLEAN \cup {None}]
View == [stats : [completed : Nat, rejected : Nat, preemptions : Nat, resumes : Nat,
                  batches_dispatched : Nat],
         production_slo_attainment : Nat \cup {None}, open : SUBSET Jobs]

BenchTypeOK ==
  /\ TracingTypeOK
  /\ times \in [Jobs -> [arrival : Time, dispatched_at : Time]]
  /\ reply \in [Jobs -> Message \cup Body \cup {None}]
  /\ counters \in [per_gpu_completed : [GPUs -> Nat], per_queue_completed : [Class -> Nat],
                   batch_size_hist : [1..MAX_BATCH -> Nat], slo_met : Nat, slo_missed : Nat]
  /\ bench \in {"before", "running", "over"}
  /\ ours \subseteq Jobs
  /\ row \in [ours -> {"ok", "rejected", None}]
  /\ refused \in Nat
  /\ {before, after} \subseteq View \cup {None}

BenchInit ==
  /\ TracingInit
  /\ times = [j \in Jobs |-> [arrival |-> 0, dispatched_at |-> 0]]
  /\ reply = [j \in Jobs |-> None]
  /\ counters = [per_gpu_completed |-> [g \in GPUs |-> 0],
                 per_queue_completed |-> [c \in Class |-> 0],
                 batch_size_hist |-> [b \in 1..MAX_BATCH |-> 0], slo_met |-> 0, slo_missed |-> 0]
  /\ bench = "before"
  /\ ours = {}
  /\ row = <<>>
  /\ refused = 0
  /\ before = None
  /\ after = None

-----------------------------------------------------------------------------
(* The handlers and the dispatcher, with their times and counters *)

Arrive(j, r) ==
  /\ Admitted(j, r)
  /\ times' = [times EXCEPT ![j].arrival = perf_counter]
  /\ \/ /\ bench = "running"
        /\ ours' = ours \cup {j}
        /\ row' = [k \in ours \cup {j} |-> IF k = j THEN None ELSE row[k]]
     \/ bench = "before" /\ UNCHANGED <<ours, row>>
  /\ UNCHANGED <<reply, counters, bench, refused, before, after>>

TurnAway(r) ==
  /\ Refused(r)
  /\ \/ bench = "running" /\ refused' = refused + 1
     \/ bench = "before" /\ UNCHANGED refused
  /\ UNCHANGED <<replyVars, bench, ours, row, before, after>>

\* Mutants of TakenAt and SizeOf: the first dispatch stays, mates do not count.
TakenFirst(h) ==
  [j \in Jobs |-> IF j \in Range(GroupOf(h)) /\ job[j].resume_state = None
                  THEN [times[j] EXCEPT !.dispatched_at = perf_counter] ELSE times[j]]
SizeOfHead(h) == 1

TakenAt(h) ==
  [j \in Jobs |-> IF j \in Range(GroupOf(h))
                  THEN [times[j] EXCEPT !.dispatched_at = perf_counter] ELSE times[j]]
SizeOf(h) == Len(GroupOf(h))

Send(h, g) ==
  /\ Dispatched(h, g)
  /\ times' = TakenAt(h)
  /\ counters' = [counters EXCEPT !.batch_size_hist[SizeOf(h)] = @ + 1]
  /\ UNCHANGED <<reply, benchVars>>

\* The future keeps the message for the handler.
Resolve(g) ==
  /\ Finished(g)
  /\ LET m == Head(response_q[g])
     IN  reply' = IF m.type = "result" /\ future[m.request_id] = "waiting"
                  THEN [reply EXCEPT ![m.request_id] =
                          [gpu_id |-> g, batch_size |-> Cardinality(busy[g].jobs),
                           gpu_time_ms |-> Rounded(worker_clock[g].t_end - worker_clock[g].t_start)]]
                  ELSE reply
  /\ UNCHANGED <<times, counters, benchVars>>

\* A mutant of BodyOf: the wait is subtracted the wrong way round.
BodySwapped(j) ==
  LET t == times[j]
  IN  [msg |-> reply[j], queue_ms |-> Rounded(t.arrival - t.dispatched_at),
       e2e_ms |-> Rounded(perf_counter - t.arrival), deadline_met |-> None]

\* The deadline is judged by the clock, not by the rounded time.
BodyOf(j) ==
  LET t == times[j]
  IN  [msg |-> reply[j], queue_ms |-> Rounded(t.dispatched_at - t.arrival),
       e2e_ms |-> Rounded(perf_counter - t.arrival),
       deadline_met |-> IF HasDeadline(job[j].queue) THEN Reading * (perf_counter - t.arrival) <= Tenth * SLO
                        ELSE None]

\* A mutant of Counted: without a deadline it counts as missed.
CountedAlways(body, c) ==
  [counters EXCEPT !.per_gpu_completed[body.msg.gpu_id] = @ + 1,
                   !.per_queue_completed[c] = @ + 1,
                   !.slo_met = IF body.deadline_met = TRUE THEN @ + 1 ELSE @,
                   !.slo_missed = IF body.deadline_met = TRUE THEN @ ELSE @ + 1]

Counted(body, c) ==
  [counters EXCEPT !.per_gpu_completed[body.msg.gpu_id] = @ + 1,
                   !.per_queue_completed[c] = @ + 1,
                   !.slo_met = IF body.deadline_met = TRUE THEN @ + 1 ELSE @,
                   !.slo_missed = IF body.deadline_met = FALSE THEN @ + 1 ELSE @]

Conclude(j) ==
  /\ Responded(j)
  /\ IF future[j] = "result"
     THEN /\ reply' = [reply EXCEPT ![j] = BodyOf(j)]
          /\ counters' = Counted(BodyOf(j), job[j].queue)
     ELSE UNCHANGED <<reply, counters>>
  /\ UNCHANGED <<times, benchVars>>

-----------------------------------------------------------------------------
(* bench.py *)

\* In thousandths.
Attainment(met, of) == IF of = 0 THEN None ELSE Round(1000 * met, of)

\* GET /stats; "open" is not in the view but says whose requests it is about.
Stats == [stats |-> stats,
          production_slo_attainment |->
            Attainment(counters.slo_met, counters.slo_met + counters.slo_missed),
          open |-> pending \cup {j \in Jobs : future[j] \in {"waiting", "result", "error"}}]

Begin ==
  /\ LoopIdle
  /\ bench = "before"
  /\ bench' = "running"
  /\ before' = Stats
  /\ UNCHANGED <<tracedVars, replyVars, ours, row, refused, after>>

\* The end of fire: a 200 is a row with figures; an error, a broken connection
\* and the client's own timeout, which may come at any time, are "rejected".
Fired(j) ==
  /\ bench = "running"
  /\ j \in ours
  /\ row[j] = None
  /\ \/ future[j] = "answered" /\ row' = [row EXCEPT ![j] = "ok"]
     \/ future[j] \in {"failed", "cancelled"} /\ row' = [row EXCEPT ![j] = "rejected"]
     \/ j \in Cancellable /\ row' = [row EXCEPT ![j] = "rejected"]
  /\ UNCHANGED <<tracedVars, replyVars, bench, ours, refused, before, after>>

\* A mutant of Gathered: the tasks are not awaited.
NotGathered == TRUE

Gathered == \A j \in ours : row[j] # None

\* The time to send is up and every task has ended.
Report ==
  /\ LoopIdle
  /\ bench = "running"
  /\ Gathered
  /\ bench' = "over"
  /\ after' = Stats
  /\ UNCHANGED <<tracedVars, replyVars, ours, row, refused, before>>

Over == bench = "over" /\ UNCHANGED <<tracedVars, replyVars, benchVars>>

BenchNext ==
  \/ /\ bench # "over"
     /\ \/ \E j \in Jobs, r \in Requests : Arrive(j, r)
        \/ \E r \in Requests : TurnAway(r)
        \/ \E h \in Jobs, g \in GPUs : Send(h, g)
        \/ \E g \in GPUs : Resolve(g)
        \/ \E j \in Jobs : Conclude(j) \/ Fired(j)
        \/ Begin \/ Report
        \/ /\ Unmarked \/ Tick \/ \E g \in GPUs : Preempted(g) \/ WorkerRuns(g)
           /\ UNCHANGED <<replyVars, benchVars>>
  \/ Over

BenchSpec == BenchInit /\ [][BenchNext]_<<tracedVars, replyVars, benchVars>>

-----------------------------------------------------------------------------
\* The histogram counts each time a job was sent, and each of those has ended
\* in a checkpoint or an answer or is still out (dispatcher, batch_size_hist).
DispatchLedger ==
  SumFunction([b \in 1..MAX_BATCH |-> b * counters.batch_size_hist[b]]) =
    stats.preemptions + Cardinality({j \in Jobs : job[j] # None} \ Queued)

\* The handler and the tracer measure the same request from stamps of their
\* own: what the response says of its wait, together with what the trace says
\* of the last batch, is the whole time but for half a tenth of rounding, also
\* after preemptions; and both name the same batch (gateway.py:789-810,
\* tracer.py:75-97).
ResponseAgrees ==
  \A j \in Jobs, k \in DOMAIN done :
    future[j] = "answered" /\ done[k].trace.rid = j =>
      LET s == done[k].spans
          at == done[k].trace.attempts
          last == at[Len(at)]
          wait == s.e2e_ms - (s.ipc_ms + s.gpu_ms + s.respond_ms)
      IN  /\ 2 * (Tenth * reply[j].queue_ms - Reading * wait) \in -Tenth..Tenth
          /\ reply[j].e2e_ms >= Rounded(s.e2e_ms)
          /\ reply[j].msg = [gpu_id |-> last.gpu, batch_size |-> last.batch_size,
                             gpu_time_ms |-> Rounded(s.gpu_ms)]

\* The totals of a run in results.db.
Rows(s) == {j \in ours : row[j] = s}
completed == Cardinality(Rows("ok"))
preempts == after.stats.preemptions - before.stats.preemptions
judged == {j \in Rows("ok") : reply[j].deadline_met # None}
slo_met == Cardinality({j \in judged : reply[j].deadline_met})

\* The rows of a run and its two views of /stats tell the same story: the views
\* never grow by less than the rows, and if nobody else's request was open and
\* each of its own was answered they grow by the same; and if no deadline had
\* been judged before, the attainment shown after is the rows' to half a
\* thousandth.
RunTotalsTrue ==
  bench = "over" =>
    LET grown == after.stats.completed - before.stats.completed
        preempted == SumFunction([j \in Rows("ok") |-> job[j].preempt_count])
        shown == after.production_slo_attainment
        n == Cardinality(judged)
    IN  /\ completed <= grown /\ preempted <= preempts
        /\ refused = after.stats.rejected - before.stats.rejected
        /\ before.open = {} /\ Rows("rejected") = {} =>
             /\ completed = grown /\ preempted = preempts
             /\ before.production_slo_attainment = None =>
                  IF n = 0 THEN shown = None
                           ELSE shown # None /\ 2 * (n * shown - 1000 * slo_met) \in -n..n
=============================================================================
