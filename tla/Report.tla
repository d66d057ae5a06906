------------------------------- MODULE Report --------------------------------
(***************************************************************************)
(* What people read of a run: report.py's summary of results.db, and the   *)
(* counters beside the latencies of GET /metrics.  Instances are shorter   *)
(* than the window of two minutes, so the latencies are of all that the    *)
(* tracer keeps.                                                           *)
(***************************************************************************)
EXTENDS Bench

\* The n-th smallest value of f, counted from one.
NthSmallest(f, n) ==
  CHOOSE v \in Range(f) : /\ Cardinality({j \in DOMAIN f : f[j] < v}) < n
                          /\ n <= Cardinality({j \in DOMAIN f : f[j] <= v})

\* A mutant of Rank: int() instead of round().
RankTruncated(p, n) == 1 + ((p * (n - 1)) \div 100)

\* Of n values, the one that is the p-th percentile.
Rank(p, n) == 1 + Smaller(n - 1, Round(p * (n - 1), 100))

pct(f, p) == IF DOMAIN f = {} THEN None ELSE NthSmallest(f, Rank(p, Cardinality(DOMAIN f)))

-----------------------------------------------------------------------------
(* report.py: one summary per run *)

ReportRow(c) ==
  LET ok == {j \in Rows("ok") : job[j].queue = c}
      e2e == [j \in ok |-> reply[j].e2e_ms]
      slo == ok \cap judged
  IN  [p50 |-> pct(e2e, 50), p99 |-> pct(e2e, 99), n |-> Cardinality(ok),
       slo_pct |-> Attainment(Cardinality({j \in slo : reply[j].deadline_met}),
                              Cardinality(slo))]

\* With the rows of a run, up to fifty to a class, the two columns for
\* production tell one story although the gateway judged the deadline by the
\* clock and the report ranks rounded latencies: a full slo_pct means that the
\* p99 is within the SLO, and a p99 below it that slo_pct is full.  At the SLO
\* itself the rounding hides on which side a request was.  Classes without a
\* deadline have no slo_pct (report.py, summarize).
ReportAgrees ==
  bench = "over" =>
    \A c \in Class :
      LET r == ReportRow(c)
      IN  /\ r.p99 # None => r.p50 <= r.p99
          /\ c = "production" /\ r.n \in 1..50 =>
               /\ r.slo_pct = 1000 => r.p99 <= SLO
               /\ r.p99 < SLO => r.slo_pct = 1000
          /\ c # "production" => r.slo_pct = None

-----------------------------------------------------------------------------
(* GET /metrics *)

SummaryOf(c) ==
  LET rows == {k \in DOMAIN done : done[k].spans.ok /\ job[done[k].trace.rid].queue = c}
  IN  [n |-> Cardinality(rows), preempts |-> SumFunction([k \in rows |-> done[k].trace.preempts]),
       p99 |-> pct([k \in rows |-> done[k].spans.e2e_ms], 99)]

\* Those of a class whose result came in and was not told to a caller.
Untold(c) == {j \in Jobs : /\ job[j] # None /\ job[j].queue = c
                           /\ future[j] \in {"result", "cancelled"} /\ j \notin pending}

\* The counters are written by the handlers, the latencies by the tracer, the
\* preemptions by the response handler, each at a moment of its own, and still
\* they agree at every moment: completed requests add up over GPUs and over
\* classes, only production is judged and each of them once, and while the
\* tracer keeps all traces its counts are theirs but for the results nobody was
\* told (gateway.py:789-800 against Tracer.summary).
CountersAgree ==
  /\ stats.completed = SumFunction(counters.per_gpu_completed)
  /\ stats.completed = SumFunction(counters.per_queue_completed)
  /\ counters.slo_met + counters.slo_missed = counters.per_queue_completed["production"]
  /\ Cardinality({j \in Jobs : job[j] # None}) <= keep_done =>
       /\ \A c \in Class :
            LET n == SummaryOf(c).n
            IN  /\ counters.per_queue_completed[c] <= n
                /\ n <= counters.per_queue_completed[c] + Cardinality(Untold(c))
       /\ SumFunction([c \in Class |-> SummaryOf(c).preempts]) <= stats.preemptions
=============================================================================
