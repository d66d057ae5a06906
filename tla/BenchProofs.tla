------------------------------ MODULE BenchProofs -----------------------------
(***************************************************************************)
(* What a response says, what GET /stats counts and what bench.py writes   *)
(* down of a run agree with the traces and the jobs, for every number of   *)
(* GPUs, batch size, policy and requests.                                  *)
(***************************************************************************)
EXTENDS Report, TracingProofs

-----------------------------------------------------------------------------
(* What a response says *)

\* A time that is told is the one measured to within half a tenth.
LEMMA RoundedIsNear ==
  ASSUME NEW t \in Int
  PROVE  /\ Reading * t \in Int /\ Near(Rounded(t), Reading * t, Tenth)
         /\ Rounded(t) \in Int /\ (t \in Nat => Rounded(t) \in Nat)
<1>1. Reading \in Nat \ {0} /\ Tenth \in Nat \ {0}
  BY SLOAssumption
<1>2. PICK n \in Int : n = Reading * t /\ (t \in Nat => n \in Nat)
  BY <1>1
<1>3. Near(Rounded(t), n, Tenth)
  BY <1>1, <1>2, RoundIsNear DEF Rounded
<1>4. n \in Nat => 0 <= Rounded(t)
  <2>1. Tenth * 0 = 0 /\ (n \in Nat => 0 <= n)
    BY <1>1
  <2> QED
    BY <1>1, <1>2, <1>3, <2>1, NearBounded
<1> QED
  BY <1>2, <1>3, <1>4 DEF Near

\* The order of two times is kept.
LEMMA RoundedGrows ==
  ASSUME NEW s \in Int, NEW t \in Int, s <= t
  PROVE  Rounded(s) <= Rounded(t)
<1>1. CASE s = t
  BY <1>1, RoundedIsNear
<1>2. CASE s < t
  <2>1. Reading * s < Reading * t
    <3>1. PICK k \in Nat \ {0} : t = s + k
      BY <1>2
    <3>2. Reading \in Nat \ {0}
      BY SLOAssumption
    <3>3. PICK p \in Int, q \in Nat \ {0} : p = Reading * s /\ q = Reading * k
      BY <3>2
    <3>4. Reading * t = p + q
      BY <3>1, <3>2, <3>3
    <3> QED
      BY <3>3, <3>4
  <2>2. Tenth \in Nat \ {0}
    BY SLOAssumption
  <2> QED
    BY <2>1, <2>2, RoundedIsNear, NearGrows
<1> QED
  BY <1>1, <1>2

MessageOf(d) ==
  [gpu_id |-> LastOf(d.trace).gpu, batch_size |-> LastOf(d.trace).batch_size,
   gpu_time_ms |-> Rounded(d.spans.gpu_ms)]

\* The Job object of a request that has not ended and its trace have the same stamps.
StampedAlike(j) ==
  /\ times[j].arrival = active[j].arrival
  /\ j \notin Queued => times[j].dispatched_at = LastOf(active[j]).t_dispatch

\* So have they at its end; its message, and then its response, are of its last batch.
EntryTrue(d) ==
  LET j == d.trace.rid
      s == d.spans
      last == LastOf(d.trace).t_dispatch
  IN  /\ times[j].arrival = d.trace.arrival /\ times[j].dispatched_at = last
      /\ s.e2e_ms <= perf_counter - d.trace.arrival
      /\ s.ok => (last - d.trace.arrival) + s.ipc_ms + s.gpu_ms + s.respond_ms = s.e2e_ms
      /\ future[j] \in {"result", "answered"} => s.ok
      /\ future[j] = "result" => reply[j] = MessageOf(d)
      /\ future[j] = "answered" => /\ reply[j].msg = MessageOf(d)
                                   /\ reply[j].queue_ms = Rounded(last - d.trace.arrival)
                                   /\ reply[j].e2e_ms >= Rounded(s.e2e_ms)

ReplyTrue ==
  /\ times \in [Jobs -> [arrival : Time, dispatched_at : Time]]
  /\ DOMAIN reply = Jobs
  /\ \A j \in pending : StampedAlike(j)
  /\ \A k \in DOMAIN done : EntryTrue(done[k])

LEMMA BenchStep ==
  ASSUME [BenchNext]_<<tracedVars, replyVars, benchVars>>
  PROVE  [TracingNext \/ Tick]_tracedVars
<1>1. CASE \E j \in Jobs, r \in Requests : Arrive(j, r)
  BY <1>1 DEF Arrive, TracingNext
<1>2. CASE \E r \in Requests : TurnAway(r)
  BY <1>2 DEF TurnAway, TracingNext
<1>3. CASE \E h \in Jobs, g \in GPUs : Send(h, g)
  BY <1>3 DEF Send, TracingNext
<1>4. CASE \E g \in GPUs : Resolve(g) \/ Preempted(g) \/ WorkerRuns(g)
  BY <1>4 DEF Resolve, TracingNext
<1>5. CASE \E j \in Jobs : Conclude(j)
  BY <1>5 DEF Conclude, TracingNext
<1>6. CASE (\E j \in Jobs : Fired(j)) \/ Begin \/ Report \/ Over
  BY <1>6 DEF Fired, Begin, Report, Over
<1>7. CASE Unmarked \/ Tick \/ UNCHANGED <<tracedVars, replyVars, benchVars>>
  BY <1>7 DEF TracingNext
<1> QED
  BY <1>1, <1>2, <1>3, <1>4, <1>5, <1>6, <1>7 DEF BenchNext

\* Beside its handlers' figures and bench.py, the gateway and its tracer are
\* what they were alone (gateway.py and tracer.py against bench.py).
THEOREM BenchIsTraced == BenchSpec => TimedSpec
<1>1. BenchInit => TracingInit
  BY DEF BenchInit
<1>2. [BenchNext]_<<tracedVars, replyVars, benchVars>> => [TracingNext \/ Tick]_tracedVars
  BY BenchStep
<1> QED
  BY <1>1, <1>2, PTL DEF BenchSpec, TimedSpec

\* An entry stays true while time passes and its handler is not told or answers nobody.
LEMMA EntryKept ==
  ASSUME NEW d \in FinishedTrace, EntryTrue(d), times'[d.trace.rid] = times[d.trace.rid],
         \/ UNCHANGED <<future[d.trace.rid], reply[d.trace.rid]>>
         \/ future'[d.trace.rid] \in {"cancelled", "failed"},
         perf_counter \in Time, perf_counter' \in Time, perf_counter <= perf_counter'
  PROVE  EntryTrue(d)'
<1>1. /\ perf_counter \in Int /\ perf_counter' \in Int /\ d.trace.arrival \in Int
      /\ d.spans.e2e_ms \in Int
  BY TimeAssumption DEF Time, FinishedTrace, Trace, Spans
<1>2. d.spans.e2e_ms <= perf_counter' - d.trace.arrival
  BY <1>1 DEF EntryTrue
<1> QED
  BY <1>2 DEF EntryTrue, MessageOf

\* A step that ends no job, and tells no handler anything, leaves every entry true.
LEMMA EntriesKept ==
  ASSUME DoneTrue, ReplyTrue, UNCHANGED done,
         \A j \in Ended : /\ times'[j] = times[j]
                          /\ \/ UNCHANGED <<future[j], reply[j]>>
                             \/ future'[j] \in {"cancelled", "failed"},
         perf_counter \in Time, perf_counter' \in Time, perf_counter <= perf_counter'
  PROVE  \A k \in DOMAIN done : EntryTrue(done[k])'
<1> SUFFICES ASSUME NEW k \in DOMAIN done PROVE EntryTrue(done[k])'
  OBVIOUS
<1>1. PICK d : d = done[k]
  OBVIOUS
<1>2. d \in FinishedTrace /\ d.trace.rid \in Ended /\ EntryTrue(d)
  BY <1>1, ElementOfSeq, LenProperties DEF DoneTrue, ReplyTrue
<1>3. EntryTrue(d)'
  BY <1>2, EntryKept
<1> QED
  BY <1>1, <1>3

\* What the steps that are not the dispatcher's, a message's or a request's leave alone.
LEMMA RepliesSame ==
  ASSUME DoneTrue, ReplyTrue, UNCHANGED <<done, active, pending, times>>, Queued' = Queued,
         DOMAIN reply' = Jobs,
         \A j \in Ended : \/ UNCHANGED <<future[j], reply[j]>>
                          \/ future'[j] \in {"cancelled", "failed"},
         perf_counter \in Time, perf_counter' \in Time, perf_counter <= perf_counter'
  PROVE  ReplyTrue'
<1>1. \A k \in DOMAIN done : EntryTrue(done[k])'
  BY EntriesKept
<1>2. \A j \in pending : StampedAlike(j)'
  <2> HIDE DEF Queued
  <2> QED
    BY DEF ReplyTrue, StampedAlike
<1>3. \A k \in DOMAIN done' : EntryTrue(done[k])'
  BY <1>1
<1> QED
  BY <1>2, <1>3 DEF ReplyTrue

LEMMA RepliesAdmitted ==
  ASSUME Settled, [Next]_vars, TracesTell, DoneTrue, ReplyTrue, NEW j \in Jobs, NEW r \in Requests,
         Arrive(j, r)
  PROVE  ReplyTrue'
<1> USE DEF Settled, TracesTell
<1>1. Generate(j, r) /\ MarkAdmitted(j) /\ UNCHANGED <<perf_counter, done>>
  BY DEF Arrive, Admitted, MarkAdmitted, clockVars
<1>2. /\ TracesTrue' /\ j \notin pending
      /\ \A k \in Jobs : k # j => active'[k] = active[k]
  BY <1>1, TracesAdmitted
<1>3. /\ job[j] = None /\ pending' = pending \cup {j} /\ pending \subseteq Jobs
      /\ future' = [future EXCEPT ![j] = "waiting"] /\ reply' = reply
      /\ perf_counter \in Time
      /\ queues' = [queues EXCEPT ![r.queue] = Append(queues[r.queue], j)]
  BY <1>1 DEF Generate, Admit, Typed, TypeOK, TracesTrue, Arrive
<1>4. times' = [times EXCEPT ![j].arrival = perf_counter]
  BY DEF Arrive
<1>5. /\ times' \in [Jobs -> [arrival : Time, dispatched_at : Time]]
      /\ times'[j].arrival = perf_counter /\ \A k \in Jobs : k # j => times'[k] = times[k]
  BY <1>3, <1>4 DEF ReplyTrue
<1>6. Queued' = Queued \cup {j}
  <2>1. r.queue \in Class /\ queues[r.queue] \in Seq(Jobs)
    BY ConfigAssumption DEF Typed, TypeOK, SchedTypeOK
  <2>2. Range(Append(queues[r.queue], j)) = Range(queues[r.queue]) \cup {j}
    BY <2>1, RangeOfAppend
  <2>3. Queued' = (Queued \ Range(queues[r.queue])) \cup Range(queues[r.queue]) \cup {j}
    BY <1>3, <2>1, <2>2, QueuedAfter
  <2>4. Range(queues[r.queue]) \subseteq Queued
    BY <2>1 DEF Queued
  <2> QED
    BY <2>3, <2>4
<1>7. StampedAlike(j)'
  <2>1. active'[j] = Marks(j)
    BY <1>1 DEF MarkAdmitted, TracesTrue
  <2> HIDE DEF Queued
  <2> QED
    BY <1>5, <1>6, <2>1 DEF StampedAlike, Marks
<1>8. ASSUME NEW k \in pending PROVE StampedAlike(k)'
  <2>1. k # j /\ k \in Jobs /\ times'[k] = times[k] /\ active'[k] = active[k]
    BY <1>2, <1>3, <1>5
  <2>2. (k \in Queued)' <=> k \in Queued
    BY <1>6, <2>1
  <2> HIDE DEF Queued
  <2> QED
    BY <2>1, <2>2 DEF ReplyTrue, StampedAlike
<1>9. \A k \in DOMAIN done : EntryTrue(done[k])'
  <2>1. \A k \in Ended : k \in Jobs /\ k # j
    BY <1>3 DEF Ended
  <2>2. \A k \in Ended : times'[k] = times[k] /\ UNCHANGED <<future[k], reply[k]>>
    BY <1>3, <1>5, <2>1 DEF Typed, TypeOK
  <2>3. perf_counter <= perf_counter' /\ perf_counter' \in Time
    BY <1>1, <1>3, TimeAssumption DEF Time
  <2> QED
    BY <1>1, <1>3, <2>2, <2>3, EntriesKept
<1>10. \A k \in pending' : StampedAlike(k)'
  BY <1>3, <1>7, <1>8
<1>11. \A k \in DOMAIN done' : EntryTrue(done[k])'
  BY <1>1, <1>9
<1> QED
  BY <1>3, <1>5, <1>10, <1>11 DEF ReplyTrue

\* A dispatch gives the Job objects of its group the stamp of the new attempt.
LEMMA RepliesDispatched ==
  ASSUME Settled, [Next]_vars, TracesTell, DoneTrue, ReplyTrue, NEW h \in Jobs, NEW g \in GPUs,
         Send(h, g)
  PROVE  ReplyTrue'
<1> USE DEF Settled, TracesTell
<1>1. /\ DispatchBatch(h, g) /\ MarkDispatched(h, g) /\ times' = TakenAt(h) /\ UNCHANGED reply
      /\ UNCHANGED <<perf_counter, done, pending, future>> /\ h \in Queued
  BY DEF Send, Dispatched, MarkDispatched, clockVars, DispatchBatch, clientVars
<1>2. PICK grp : grp = Range(GroupOf(h))
  OBVIOUS
<1>3. /\ TracesTrue' /\ \A j \in grp : LastOf(active'[j]) = NewAttempt(h, g, j)
      /\ \A j \in Jobs : j \notin grp => active'[j] = active[j]
  BY <1>1, <1>2, TracesDispatched
<1>4. /\ grp \subseteq Queued /\ Queued' = Queued \ grp /\ grp \subseteq pending
      /\ pending \subseteq Jobs /\ perf_counter \in Time
  BY <1>1, <1>2, PlacedDispatch DEF Placed, PendingPlaced, Typed, TypeOK, TracesTrue
<1>5. /\ times' \in [Jobs -> [arrival : Time, dispatched_at : Time]]
      /\ \A j \in grp : times'[j].arrival = times[j].arrival /\ times'[j].dispatched_at = perf_counter
      /\ \A j \in Jobs : j \notin grp => times'[j] = times[j]
  BY <1>1, <1>2, <1>4 DEF TakenAt, ReplyTrue
<1>6. \A j \in grp : active'[j].arrival = active[j].arrival
  <2> SUFFICES ASSUME NEW j \in grp PROVE active'[j].arrival = active[j].arrival
    OBVIOUS
  <2>1. j \in Jobs /\ active[j] \in Trace /\ active[j] # None
    BY <1>4, NoTraceAssumption DEF TracesTrue, TraceTrue
  <2>2. PICK a : active'[j] = [active[j] EXCEPT !.attempts = a]
    BY <1>1, <1>2, <2>1 DEF MarkDispatched, MarkedBy
  <2> QED
    BY <2>1, <2>2 DEF Trace
<1>7. ASSUME NEW j \in pending PROVE StampedAlike(j)'
  <2>1. CASE j \in grp
    <3>1. LastOf(active'[j]).t_dispatch = perf_counter
      <4>1. LastOf(active'[j]) = NewAttempt(h, g, j)
        BY <1>3, <2>1
      <4>2. NewAttempt(h, g, j).t_dispatch = perf_counter
        BY DEF NewAttempt
      <4> QED
        BY <4>1, <4>2
    <3> HIDE DEF Queued
    <3> QED
      BY <1>5, <1>6, <2>1, <3>1, <1>7 DEF ReplyTrue, StampedAlike
  <2>2. CASE j \notin grp
    <3>1. j \in Jobs /\ active'[j] = active[j] /\ times'[j] = times[j]
      BY <1>3, <1>4, <1>5, <2>2
    <3>2. (j \in Queued)' <=> j \in Queued
      BY <1>4, <2>2
    <3> HIDE DEF Queued
    <3> QED
      BY <3>1, <3>2 DEF ReplyTrue, StampedAlike
  <2> QED
    BY <2>1, <2>2
<1>8. \A k \in DOMAIN done : EntryTrue(done[k])'
  <2>1. \A j \in Ended : times'[j] = times[j] /\ UNCHANGED <<future[j], reply[j]>>
    BY <1>1, <1>4, <1>5 DEF Ended
  <2>2. perf_counter <= perf_counter' /\ perf_counter' \in Time
    BY <1>1, <1>4, TimeAssumption DEF Time
  <2> QED
    BY <1>1, <1>4, <2>1, <2>2, EntriesKept
<1>9. \A j \in pending' : StampedAlike(j)'
  BY <1>1, <1>7
<1>10. \A k \in DOMAIN done' : EntryTrue(done[k])'
  BY <1>1, <1>8
<1> QED
  BY <1>1, <1>5, <1>9, <1>10 DEF ReplyTrue

\* A checkpoint keeps the arrival of a trace, and its job waits.
LEMMA RepliesPreempted ==
  ASSUME Settled, YieldTrue, [Next]_vars, TracesTell, DoneTrue, ReplyTrue, NEW g \in GPUs,
         Preempted(g), UNCHANGED <<times, reply>>
  PROVE  ReplyTrue'
<1> USE DEF Settled, TracesTell
<1>1. PICK m, rid : m = Head(response_q[g]) /\ rid = m.request_id
  OBVIOUS
<1>2. /\ OnPreempted(g) /\ MarkPreempted(m) /\ UNCHANGED <<perf_counter, done, pending, future>>
  BY <1>1 DEF Preempted, MarkPreempted, clockVars, OnPreempted, clientVars
<1>3. /\ rid \notin Queued /\ Queued' = Queued \cup {rid} /\ rid \in pending
      /\ pending \subseteq Jobs /\ perf_counter \in Time
  BY <1>1, <1>2, PlacedOnPreempted, CheckpointedJob DEF Typed, TypeOK, TracesTrue
<1>4. \A j \in Jobs : j # rid => active'[j] = active[j]
  BY <1>1, <1>2, TracesPreempted
<1>5. active'[rid].arrival = active[rid].arrival
  <2>1. active[rid] \in Trace /\ active[rid] # None /\ rid \in Jobs
    BY <1>3, NoTraceAssumption DEF TracesTrue, TraceTrue
  <2>2. active'[rid] = WithCheckpoint(active[rid], m.step_index)
    BY <1>1, <1>2, <1>3, <2>1 DEF MarkPreempted, TracesTrue
  <2> QED
    BY <2>1, <2>2 DEF WithCheckpoint, Trace
<1>6. ASSUME NEW j \in pending PROVE StampedAlike(j)'
  <2>1. (j \in Queued)' <=> j \in Queued \/ j = rid
    BY <1>3
  <2> HIDE DEF Queued
  <2> QED
    BY <1>3, <1>4, <1>5, <2>1 DEF ReplyTrue, StampedAlike
<1>7. \A k \in DOMAIN done : EntryTrue(done[k])'
  <2>1. perf_counter <= perf_counter' /\ perf_counter' \in Time
    BY <1>2, <1>3, TimeAssumption DEF Time
  <2> QED
    BY <1>2, <1>3, <2>1, EntriesKept
<1>8. \A j \in pending' : StampedAlike(j)'
  BY <1>2, <1>6
<1>9. \A k \in DOMAIN done' : EntryTrue(done[k])'
  BY <1>2, <1>7
<1> QED
  BY <1>8, <1>9 DEF ReplyTrue

\* Whatever is in the buffer was there before or is new.
LEMMA KeptEntries ==
  ASSUME NEW S, NEW s \in Seq(S), NEW e \in S, Len(s) <= keep_done,
         NEW q, q = Kept(Append(s, e))
  PROVE  \A k \in DOMAIN q : q[k] = e \/ \E l \in DOMAIN s : q[k] = s[l]
<1>1. /\ Len(s) \in Nat /\ DOMAIN s = 1..Len(s) /\ Len(Append(s, e)) = Len(s) + 1
      /\ \A k \in 1..Len(s) : Append(s, e)[k] = s[k]
      /\ Append(s, e)[Len(s) + 1] = e
  BY LenProperties, AppendProperties
<1>2. q \in Seq(S) /\ \E d \in {0, 1} : Without(q, Append(s, e), d)
  BY KeptParts
<1>3. DOMAIN q = 1..Len(q) /\ Len(q) \in Nat
  BY <1>2, LenProperties
<1>4. PICK d \in {0, 1} : Len(q) + d = Len(s) + 1 /\ \A k \in 1..Len(q) : q[k] = Append(s, e)[k + d]
  BY <1>1, <1>2 DEF Without
<1> SUFFICES ASSUME NEW k \in 1..Len(q) PROVE q[k] = e \/ \E l \in DOMAIN s : q[k] = s[l]
  BY <1>3
<1>5. k + d \in 1..Len(s) \/ k + d = Len(s) + 1
  BY <1>1, <1>3, <1>4
<1> QED
  BY <1>1, <1>4, <1>5

\* The message that ends a job is kept for its handler as its trace tells it.
LEMMA RepliesFinished ==
  ASSUME Settled, Stamped, [Next]_vars, TracesTell, DoneTrue, ReplyTrue, NEW g \in GPUs,
         Resolve(g)
  PROVE  ReplyTrue'
<1> USE DEF Settled, TracesTell
<1>1. PICK m, j, tr, t, e : /\ m = Head(response_q[g]) /\ j = m.request_id /\ tr = active[j]
                            /\ t = worker_clock[g]
                            /\ e = [trace |-> tr, spans |-> SpansOf(tr, m, t)]
  OBVIOUS
<1>2. /\ OnFinished(g) /\ MarkComplete(m, t) /\ response_q[g] # <<>>
      /\ UNCHANGED <<perf_counter, times, queues>> /\ m.type # "preempted"
  BY <1>1 DEF Resolve, Finished, clockVars, OnFinished, TakeResponse
<1>3. /\ j \in pending /\ TraceTrue(j) /\ Finish(tr, m, t)
      /\ \A k \in Jobs : k # j => active'[k] = active[k]
  BY <1>1, <1>2, TracesFinished
<1>4. /\ m \in Range(response_q[g]) /\ m \in Response
  <2>1. response_q[g] \in Seq(Response)
    BY DEF Typed, TypeOK, WorkerTypeOK
  <2> QED
    BY <1>1, <1>2, <2>1, RangeOfTail, HeadTailProperties
<1>5. j \in Range(OwedIds(g)) /\ j \notin Queued /\ j \in Jobs
  BY <1>1, <1>4, WorkIsOwed, OwedIsPending
<1>6. /\ pending' = pending \ {j} /\ pending \subseteq Jobs /\ perf_counter \in Time
      /\ future' = [future EXCEPT ![j] = IF @ = "waiting" THEN m.type ELSE @]
      /\ future \in [Jobs -> FutureState]
  BY <1>1, <1>2, <1>3 DEF OnFinished, Typed, TypeOK, TracesTrue
<1>7. e \in FinishedTrace /\ e.trace = tr /\ e.spans = SpansOf(tr, m, t) /\ tr.rid = j
  BY <1>1, <1>2, <1>3, SpansOfFinished
<1>8. PICK last : last = LastOf(tr).t_dispatch
  OBVIOUS
<1>9. times'[j].arrival = tr.arrival /\ times'[j].dispatched_at = last
  BY <1>1, <1>2, <1>3, <1>5, <1>8 DEF ReplyTrue, StampedAlike
<1>10. /\ LastOf(tr).gpu = g /\ LastOf(tr).batch_size = Cardinality(busy[g].jobs)
       /\ last \in Int /\ tr.arrival \in Int /\ perf_counter \in Int
       /\ t.t_start \in Int /\ t.t_end \in Int
  <2>1. BatchTraced(g) /\ t \in Clocks
    BY <1>1 DEF BatchesTraced
  <2>2. last \in Int /\ tr \in Trace
    BY <1>1, <1>5, <1>8, LastAttempt
  <2> QED
    BY <1>1, <1>5, <1>6, <2>1, <2>2, TraceParts, TimeAssumption DEF BatchTraced, Clocks, Time
<1>11. /\ e.spans.ok = (m.type = "result") /\ e.spans.e2e_ms = perf_counter - tr.arrival
       /\ m.type = "result" => /\ e.spans.ipc_ms = t.t_start - last
                               /\ e.spans.gpu_ms = t.t_end - t.t_start
                               /\ e.spans.respond_ms = perf_counter - t.t_end
  BY <1>7, <1>8 DEF SpansOf, LastOf
<1>12. e.spans.ok => (last - tr.arrival) + e.spans.ipc_ms + e.spans.gpu_ms + e.spans.respond_ms
                       = e.spans.e2e_ms
  <2> SUFFICES ASSUME e.spans.ok
               PROVE  (last - tr.arrival) + e.spans.ipc_ms + e.spans.gpu_ms + e.spans.respond_ms
                        = e.spans.e2e_ms
    OBVIOUS
  <2>1. /\ e.spans.e2e_ms = perf_counter - tr.arrival /\ e.spans.ipc_ms = t.t_start - last
        /\ e.spans.gpu_ms = t.t_end - t.t_start /\ e.spans.respond_ms = perf_counter - t.t_end
    BY <1>11
  <2> QED
    BY <1>10, <2>1
<1>13. future'[j] \in {"result", "answered"} =>
         m.type = "result" /\ future[j] = "waiting" /\ future'[j] = "result"
  <2>1. future[j] \notin {"result", "answered"}
    BY <1>3, <1>5 DEF Stamped
  <2>2. m.type \in {"result", "error"}
    BY <1>2, <1>4 DEF Response
  <2> QED
    BY <1>5, <1>6, <2>1, <2>2
<1>14. /\ DOMAIN reply' = Jobs /\ \A k \in Jobs : k # j => reply'[k] = reply[k]
       /\ m.type = "result" /\ future[j] = "waiting" =>
            reply'[j] = [gpu_id |-> g, batch_size |-> Cardinality(busy[g].jobs),
                         gpu_time_ms |-> Rounded(t.t_end - t.t_start)]
  BY <1>1, <1>5 DEF Resolve, ReplyTrue
<1>15. EntryTrue(e)'
  <2>1. future'[j] \in {"result", "answered"} => e.spans.ok /\ reply'[j] = MessageOf(e)
    BY <1>7, <1>10, <1>11, <1>13, <1>14 DEF MessageOf
  <2>2. e.spans.e2e_ms <= perf_counter' - tr.arrival
    BY <1>2, <1>10, <1>11
  <2> QED
    BY <1>7, <1>8, <1>9, <1>12, <1>13, <2>1, <2>2 DEF EntryTrue, MessageOf
<1>16. ASSUME NEW d \in FinishedTrace, d.trace.rid \in Ended, EntryTrue(d)
       PROVE  EntryTrue(d)'
  <2>1. d.trace.rid \in Jobs /\ d.trace.rid # j
    BY <1>3, <1>16 DEF Ended
  <2>2. UNCHANGED <<times[d.trace.rid], future[d.trace.rid], reply[d.trace.rid]>>
    BY <1>2, <1>6, <1>14, <2>1
  <2>3. perf_counter <= perf_counter' /\ perf_counter' \in Time
    BY <1>2, <1>6, TimeAssumption DEF Time
  <2> QED
    BY <1>6, <1>16, <2>2, <2>3, EntryKept
<1>17. PICK old, q : old = done /\ q = Kept(Append(done, e))
  OBVIOUS
<1>18. done' = q /\ \A k \in DOMAIN q : q[k] = e \/ \E l \in DOMAIN old : q[k] = old[l]
  <2>1. old \in Seq(FinishedTrace) /\ Len(old) <= keep_done
    BY <1>17, EndedFinite, KeepAssumption DEF DoneTrue, Smaller
  <2>2. q = Kept(Append(old, e)) /\ e \in FinishedTrace
    BY <1>7, <1>17
  <2> QED
    BY <1>1, <1>3, <1>17, <2>1, <2>2, KeptEntries DEF Finish
<1>19. \A k \in DOMAIN done' : EntryTrue(done[k])'
  <2> SUFFICES ASSUME NEW k \in DOMAIN done' PROVE EntryTrue(done[k])'
    OBVIOUS
  <2>1. PICK d : d = done'[k]
    OBVIOUS
  <2>2. CASE d = e
    BY <1>15, <2>1, <2>2
  <2>3. CASE d # e
    <3>1. PICK l \in DOMAIN done : d = done[l]
      BY <1>17, <1>18, <2>1, <2>3
    <3>2. d \in FinishedTrace /\ d.trace.rid \in Ended /\ EntryTrue(d)
      BY <3>1, ElementOfSeq, LenProperties DEF DoneTrue, ReplyTrue
    <3>3. EntryTrue(d)'
      BY <1>16, <3>2
    <3> QED
      BY <2>1, <3>3
  <2> QED
    BY <2>2, <2>3
<1>20. ASSUME NEW k \in pending' PROVE StampedAlike(k)'
  <2>1. k \in pending /\ k \in Jobs /\ k # j
    BY <1>6
  <2>2. times'[k] = times[k] /\ active'[k] = active[k] /\ (k \in Queued <=> (k \in Queued)')
    BY <1>2, <1>3, <2>1 DEF Queued
  <2> HIDE DEF Queued
  <2> QED
    BY <2>1, <2>2 DEF ReplyTrue, StampedAlike
<1> QED
  BY <1>2, <1>14, <1>19, <1>20 DEF ReplyTrue

\* A response says what its message said, and measures from the same arrival.
LEMMA RepliesConcluded ==
  ASSUME Settled, TracesTell, DoneTrue, ReplyTrue, NEW j \in Jobs, Conclude(j)
  PROVE  ReplyTrue'
<1> USE DEF Settled, TracesTell
<1>1. /\ UNCHANGED <<perf_counter, done, active, pending, times, queues>>
      /\ future[j] \in {"result", "error"} /\ future \in [Jobs -> FutureState]
      /\ future' = [future EXCEPT ![j] = IF @ = "result" THEN "answered" ELSE "failed"]
      /\ perf_counter \in Time
  BY DEF Conclude, Responded, Respond, clockVars, traceVars, schedVars, Typed, TypeOK, TracesTrue
<1>2. /\ DOMAIN reply' = Jobs /\ \A k \in Jobs : k # j => reply'[k] = reply[k]
      /\ future[j] = "result" => reply'[j] = BodyOf(j)
      /\ future[j] # "result" => reply'[j] = reply[j]
  BY DEF Conclude, ReplyTrue
<1>3. ASSUME NEW d \in FinishedTrace, d.trace.rid \in Ended, EntryTrue(d)
      PROVE  EntryTrue(d)'
  <2>1. d.trace.rid \in Jobs /\ times'[d.trace.rid] = times[d.trace.rid]
        /\ perf_counter' \in Time /\ perf_counter <= perf_counter'
    BY <1>1, <1>3, TimeAssumption DEF Ended, Time
  <2>2. CASE d.trace.rid # j \/ future[j] # "result"
    <3>1. \/ UNCHANGED <<future[d.trace.rid], reply[d.trace.rid]>>
          \/ future'[d.trace.rid] = "failed"
      BY <1>1, <1>2, <2>1, <2>2
    <3> QED
      BY <1>1, <1>3, <2>1, <3>1, EntryKept
  <2>3. CASE d.trace.rid = j /\ future[j] = "result"
    <3>1. future'[j] = "answered" /\ reply[j] = MessageOf(d)
      BY <1>1, <1>3, <2>3 DEF EntryTrue
    <3>2. /\ reply'[j].msg = reply[j] /\ reply'[j].queue_ms = Rounded(times[j].dispatched_at - times[j].arrival)
          /\ reply'[j].e2e_ms = Rounded(perf_counter - times[j].arrival)
      BY <1>2, <2>3 DEF BodyOf
    <3>3. /\ times[j].arrival = d.trace.arrival /\ times[j].dispatched_at = LastOf(d.trace).t_dispatch
          /\ d.spans.e2e_ms <= perf_counter - d.trace.arrival
      BY <1>3, <2>3 DEF EntryTrue
    <3>4. reply'[j].e2e_ms >= Rounded(d.spans.e2e_ms)
      <4>1. perf_counter \in Int /\ d.trace.arrival \in Int /\ d.spans.e2e_ms \in Int
        BY <1>1, <1>3, TimeAssumption DEF Time, FinishedTrace, Trace, Spans
      <4>2. PICK t \in Int : t = perf_counter - d.trace.arrival /\ d.spans.e2e_ms <= t
        BY <3>3, <4>1
      <4>3. Rounded(d.spans.e2e_ms) <= Rounded(t) /\ Rounded(t) \in Int
            /\ Rounded(d.spans.e2e_ms) \in Int
        BY <4>1, <4>2, RoundedGrows, RoundedIsNear
      <4> QED
        BY <3>2, <3>3, <4>2, <4>3
    <3> QED
      BY <1>1, <1>3, <2>1, <2>3, <3>1, <3>2, <3>3, <3>4 DEF EntryTrue, MessageOf
  <2> QED
    BY <2>2, <2>3
<1>4. ASSUME NEW k \in DOMAIN done PROVE EntryTrue(done[k])'
  <2>1. PICK d : d = done[k]
    OBVIOUS
  <2>2. d \in FinishedTrace /\ d.trace.rid \in Ended /\ EntryTrue(d)
    BY <2>1, ElementOfSeq, LenProperties DEF DoneTrue, ReplyTrue
  <2>3. EntryTrue(d)'
    BY <1>3, <2>2
  <2> QED
    BY <1>1, <2>1, <2>3
<1>5. \A k \in pending : StampedAlike(k)'
  <2>1. Queued' = Queued
    BY <1>1 DEF Queued
  <2> HIDE DEF Queued
  <2> QED
    BY <1>1, <2>1 DEF ReplyTrue, StampedAlike
<1>6. \A k \in DOMAIN done' : EntryTrue(done[k])'
  BY <1>1, <1>4
<1> QED
  BY <1>1, <1>2, <1>5, <1>6 DEF ReplyTrue

LEMMA RepliesInit == BenchInit => ReplyTrue
<1> SUFFICES ASSUME BenchInit PROVE ReplyTrue
  OBVIOUS
<1>1. pending = {} /\ done = <<>>
  BY DEF BenchInit, TracingInit, Init
<1>2. 0 \in Time /\ DOMAIN <<>> = {}
  BY TimeAssumption, EmptySeq DEF Time
<1> QED
  BY <1>1, <1>2 DEF BenchInit, ReplyTrue

LEMMA RepliesNext ==
  ASSUME Settled, Stamped, YieldTrue, TracesTell, DoneTrue, ReplyTrue,
         [BenchNext]_<<tracedVars, replyVars, benchVars>>
  PROVE  ReplyTrue'
<1> USE DEF Settled, TracesTell
<1>1. [Next]_vars /\ perf_counter \in Time /\ perf_counter <= perf_counter /\ DOMAIN reply = Jobs
  BY BenchStep, TracedStep, TimeAssumption DEF TracesTrue, Time, ReplyTrue
<1>2. CASE \E j \in Jobs, r \in Requests : Arrive(j, r)
  BY <1>1, <1>2, RepliesAdmitted
<1>3. CASE \E h \in Jobs, g \in GPUs : Send(h, g)
  BY <1>1, <1>3, RepliesDispatched
<1>4. CASE \E g \in GPUs : Resolve(g)
  BY <1>1, <1>4, RepliesFinished
<1>5. CASE \E j \in Jobs : Conclude(j)
  BY <1>5, RepliesConcluded
<1>6. CASE (\E g \in GPUs : Preempted(g)) /\ UNCHANGED <<replyVars, benchVars>>
  BY <1>1, <1>6, RepliesPreempted DEF replyVars
<1>7. CASE \/ (\E r \in Requests : TurnAway(r))
           \/ (\E j \in Jobs : Fired(j)) \/ Begin \/ Report \/ Over
           \/ (Unmarked \/ Tick \/ \E g \in GPUs : WorkerRuns(g)) /\ UNCHANGED <<replyVars, benchVars>>
           \/ UNCHANGED <<tracedVars, replyVars, benchVars>>
  <2>1. UNCHANGED <<done, active, pending, times, reply>> /\ Queued' = Queued
        /\ perf_counter' \in Time /\ perf_counter <= perf_counter'
    <3>1. CASE \E g \in GPUs : WorkerRuns(g) /\ UNCHANGED <<replyVars, benchVars>>
      BY <1>1, <3>1 DEF WorkerRuns, gatewayVars, traceVars, clientVars, schedVars, replyVars, Queued
    <3>2. CASE ~\E g \in GPUs : WorkerRuns(g) /\ UNCHANGED <<replyVars, benchVars>>
      <4>1. UNCHANGED <<times, reply>>
        BY <1>7, <3>2 DEF TurnAway, Fired, Begin, Report, Over, replyVars
      <4>2. (\E r \in Requests : Refused(r)) \/ Unmarked \/ Tick \/ UNCHANGED tracedVars
        BY <1>7, <3>2 DEF TurnAway, Fired, Begin, Report, Over
      <4>3. Undisturbed
        BY <1>1, <4>2, UnmarkedLeaves
      <4> QED
        BY <4>1, <4>3 DEF Undisturbed
    <3> QED
      BY <3>1, <3>2
  <2>2. ASSUME NEW j \in Ended
        PROVE  UNCHANGED future[j] \/ future'[j] \in {"cancelled", "failed"}
    <3>1. CASE \E k \in Jobs : Cancel(k)
      <4>1. PICK k \in Jobs : Cancel(k)
        BY <3>1
      <4>2. future' = [future EXCEPT ![k] = "cancelled"] /\ future \in [Jobs -> FutureState]
        BY <4>1 DEF Cancel, Typed, TypeOK
      <4> QED
        BY <4>2, <2>2 DEF Ended
    <3>2. CASE ~\E k \in Jobs : Cancel(k)
      <4>1. UNCHANGED future
        BY <1>7, <3>2
           DEF TurnAway, Refused, Reject, Fired, Begin, Report, Over, Unmarked, Tick, WorkerRuns,
               TimerFire, HoldBatch, Wake, FillDone, Evict, Age, Idle, gatewayVars, clientVars,
               vars, tracedVars
      <4> QED
        BY <4>1
    <3> QED
      BY <3>1, <3>2
  <2> HIDE DEF Queued
  <2> QED
    BY <1>1, <2>1, <2>2, RepliesSame
<1> QED
  BY <1>2, <1>3, <1>4, <1>5, <1>6, <1>7 DEF BenchNext

LEMMA RepliesAlways == BenchSpec => []ReplyTrue
<1>1. Settled /\ Stamped /\ YieldTrue /\ TracesTell /\ DoneTrue /\ ReplyTrue
      /\ [BenchNext]_<<tracedVars, replyVars, benchVars>> => ReplyTrue'
  BY RepliesNext
<1> QED
  BY <1>1, RepliesInit, BenchIsTraced, TracedIsGateway, TracesAlwaysTell, DoneAlwaysTrue,
     StampedAlways, BatchesYieldTruly, PTL DEF BenchSpec

\* Whatever was preempted, batched or timed in between, a response and its trace
\* agree on the wait before the last batch to half a tenth of a millisecond, on that
\* batch and on what it took, and the response never claims less time than the
\* trace (gateway.py, generate and
\* dispatcher; tracer.py, mark_dispatched and complete).
THEOREM ResponsesAlwaysAgree == BenchSpec => []ResponseAgrees
<1>1. ASSUME DoneTrue, ReplyTrue
      PROVE  ResponseAgrees
  <2> SUFFICES ASSUME NEW j \in Jobs, NEW k \in DOMAIN done,
                      future[j] = "answered", done[k].trace.rid = j
               PROVE  LET s == done[k].spans
                          at == done[k].trace.attempts
                          last == at[Len(at)]
                          wait == s.e2e_ms - (s.ipc_ms + s.gpu_ms + s.respond_ms)
                      IN  /\ 2 * (Tenth * reply[j].queue_ms - Reading * wait) \in -Tenth..Tenth
                          /\ reply[j].e2e_ms >= Rounded(s.e2e_ms)
                          /\ reply[j].msg = [gpu_id |-> last.gpu, batch_size |-> last.batch_size,
                                             gpu_time_ms |-> Rounded(s.gpu_ms)]
    BY DEF ResponseAgrees
  <2>1. EntryTrue(done[k]) /\ done[k] \in FinishedTrace
    BY <1>1, ElementOfSeq, LenProperties DEF ReplyTrue, DoneTrue
  <2>2. PICK s, wait : /\ s = done[k].spans
                       /\ wait = LastOf(done[k].trace).t_dispatch - done[k].trace.arrival
    OBVIOUS
  <2>3. /\ s.ok /\ reply[j].msg = MessageOf(done[k])
        /\ reply[j].queue_ms = Rounded(wait)
        /\ reply[j].e2e_ms >= Rounded(s.e2e_ms)
        /\ wait + s.ipc_ms + s.gpu_ms + s.respond_ms = s.e2e_ms
    BY <2>1, <2>2 DEF EntryTrue
  <2>4. wait \in Int /\ s.ipc_ms \in Int /\ s.gpu_ms \in Int /\ s.respond_ms \in Int
    BY <1>1, <2>1, <2>2, <2>3, TimeAssumption DEF DoneTrue, SpansTrue, Time
  <2>5. wait = s.e2e_ms - (s.ipc_ms + s.gpu_ms + s.respond_ms)
    BY <2>3, <2>4
  <2>6. 2 * (Tenth * reply[j].queue_ms - Reading * wait) \in -Tenth..Tenth
    <3>1. PICK n \in Int, v \in Int : n = Reading * wait /\ v = Rounded(wait) /\ Near(v, n, Tenth)
      BY <2>4, RoundedIsNear
    <3>2. PICK p \in Int : p = Tenth * v
      BY SLOAssumption
    <3>3. 2 * (p - n) \in -Tenth..Tenth
      BY <3>1, <3>2, SLOAssumption DEF Near
    <3> QED
      BY <2>3, <3>1, <3>2, <3>3
  <2> QED
    BY <2>2, <2>3, <2>5, <2>6 DEF MessageOf, LastOf
<1> QED
  BY <1>1, RepliesAlways, BenchIsTraced, DoneAlwaysTrue, PTL

-----------------------------------------------------------------------------
(* The histogram of batch sizes *)

\* The jobs that have been sent and are not back in a queue.
SentOut == {j \in Jobs : job[j] # None} \ Queued

\* Jobs come into being by Generate alone.
LEMMA SameJobs ==
  ASSUME Settled, [Next]_vars, NEW j \in Jobs, \A r \in Requests : ~Generate(j, r)
  PROVE  job'[j] = None <=> job[j] = None
<1> USE DEF Settled
<1>1. job[j] # None => job'[j] # None
  BY JobsKeepIdentity DEF SameIdentity
<1>2. Checkpointed(j) => job[j] # None
  BY CheckpointedJob DEF Checkpointed
<1> QED
  BY <1>1, <1>2, JobsAppear

LEMMA SentOutFinite ==
  /\ IsFiniteSet(SentOut) /\ Cardinality(SentOut) \in Nat
<1>1. IsFiniteSet(Jobs) /\ SentOut \in SUBSET Jobs
  BY ConfigAssumption, FS_Interval DEF Jobs, SentOut
<1> QED
  BY <1>1, FS_Subset, FS_CardinalityType

\* A dispatch sends a group, a checkpoint brings one job back, and nothing else
\* moves a job in or out.
LEMMA SentOutNext ==
  ASSUME Settled, [Next]_vars
  PROVE  /\ \A h \in Jobs, g \in GPUs : DispatchBatch(h, g) =>
              /\ Cardinality(SentOut') = Cardinality(SentOut) + Len(GroupOf(h))
              /\ Len(GroupOf(h)) \in 1..MAX_BATCH
              /\ stats'.preemptions = stats.preemptions
         /\ \A g \in GPUs : OnPreempted(g) =>
              /\ Cardinality(SentOut') = Cardinality(SentOut) - 1
              /\ stats'.preemptions = stats.preemptions + 1
         /\ \/ \E h \in Jobs, g \in GPUs : DispatchBatch(h, g)
            \/ \E g \in GPUs : OnPreempted(g)
            \/ SentOut' = SentOut /\ stats'.preemptions = stats.preemptions
<1> USE DEF Settled
<1>1. \A j \in Queued : j \in Jobs /\ job[j] # None
  BY ToResumeFinite
<1>2. ASSUME NEW h \in Jobs, NEW g \in GPUs, DispatchBatch(h, g)
      PROVE  /\ Cardinality(SentOut') = Cardinality(SentOut) + Len(GroupOf(h))
             /\ Len(GroupOf(h)) \in 1..MAX_BATCH
             /\ stats'.preemptions = stats.preemptions
  <2>1. PICK grp : grp = Range(GroupOf(h))
    OBVIOUS
  <2>2. grp \subseteq Queued /\ Queued' = Queued \ grp
    BY <1>2, <2>1, PlacedDispatch
  <2>3. \A j \in Jobs : job'[j] = None <=> job[j] = None
    BY <1>2, SameJobs DEF Generate, DispatchBatch, LoopIdle
  <2>4. /\ h \in Queued /\ job[h] \in Job /\ GroupOf(h) \in Seq(Jobs) /\ GroupOf(h) # <<>>
        /\ h \in Range(queues[job[h].queue]) /\ job[h].queue \in Class
    BY <1>2, SelectedGroup DEF DispatchBatch
  <2>5. IsInjective(GroupOf(h)) /\ Len(GroupOf(h)) <= MAX_BATCH
    BY <2>4, GroupApartFromRest DEF Placed, QueuesOnce, Typed, TypeOK
  <2>6. Len(GroupOf(h)) \in 1..MAX_BATCH
    BY <2>4, <2>5, EmptySeq, LenProperties, ConfigAssumption
  <2>7. IsFiniteSet(grp) /\ Cardinality(grp) = Len(GroupOf(h))
    BY <2>1, <2>4, <2>5, LengthOfInjective
  <2> HIDE DEF Queued
  <2>8. SentOut' = SentOut \cup grp /\ SentOut \cap grp = {}
    BY <1>1, <2>2, <2>3 DEF SentOut
  <2>9. Cardinality(SentOut') = Cardinality(SentOut) + Cardinality(grp)
    <3>1. Cardinality(SentOut \cup grp)
            = Cardinality(SentOut) + Cardinality(grp) - Cardinality(SentOut \cap grp)
      BY <2>7, SentOutFinite, FS_Union
    <3>2. Cardinality(SentOut \cap grp) = 0
      BY <2>8, FS_EmptySet
    <3> QED
      BY <2>6, <2>7, <2>8, <3>1, <3>2, SentOutFinite
  <2>10. stats'.preemptions = stats.preemptions
    BY <1>2 DEF DispatchBatch, Typed, TypeOK
  <2> QED
    BY <2>6, <2>7, <2>9, <2>10
<1>3. ASSUME NEW g \in GPUs, OnPreempted(g)
      PROVE  /\ Cardinality(SentOut') = Cardinality(SentOut) - 1
             /\ stats'.preemptions = stats.preemptions + 1
  <2>1. PICK rid : rid = Head(response_q[g]).request_id
    OBVIOUS
  <2>2. /\ rid \notin Queued /\ Queued' = Queued \cup {rid} /\ rid \in Jobs /\ job[rid] # None
        /\ stats' = [stats EXCEPT !.preemptions = @ + 1]
    BY <1>3, <2>1, PlacedOnPreempted, CheckpointedJob
  <2>3. \A j \in Jobs : job'[j] = None <=> job[j] = None
    <3>1. UNCHANGED pending /\ pending \subseteq Jobs /\ \A j \in pending : job[j] # None
      BY <1>3 DEF OnPreempted, clientVars, Typed, TypeOK, JobsExist
    <3>2. \A j \in Jobs, r \in Requests : ~Generate(j, r)
      BY <3>1 DEF Generate
    <3> QED
      BY <3>2, SameJobs
  <2> HIDE DEF Queued
  <2>4. SentOut' = SentOut \ {rid} /\ rid \in SentOut
    BY <2>2, <2>3 DEF SentOut
  <2>5. Cardinality(SentOut') = Cardinality(SentOut) - 1
    BY <2>4, SentOutFinite, FS_RemoveElement
  <2> QED
    BY <2>2, <2>5 DEF Typed, TypeOK
<1>4. ASSUME ~\E h \in Jobs, g \in GPUs : DispatchBatch(h, g), ~\E g \in GPUs : OnPreempted(g)
      PROVE  SentOut' = SentOut /\ stats'.preemptions = stats.preemptions
  <2>1. CASE \E j \in Jobs, r \in Requests : Generate(j, r)
    <3>1. PICK j \in Jobs, r \in Requests : Generate(j, r)
      BY <2>1
    <3>2. /\ job[j] = None /\ UNCHANGED stats /\ r.queue \in Class
          /\ queues' = [queues EXCEPT ![r.queue] = Append(queues[r.queue], j)]
      BY <3>1, ConfigAssumption DEF Generate, Admit
    <3>3. job'[j] # None /\ \A k \in Jobs : k # j => job'[k] = job[k]
      <4>1. j \in pending'
        BY <3>1 DEF Generate
      <4>2. job'[j] = NewJob(r) /\ \A k \in Jobs : k # j => job'[k] = job[k]
        BY <3>1 DEF Generate, Admit, Typed, TypeOK, SchedTypeOK
      <4>3. NewJob(r) \in Job
        BY <3>1, ConfigAssumption DEF NewJob, Job, Tenant, Shape
      <4> QED
        BY <4>2, <4>3, NoneAssumption
    <3>4. Queued' = Queued \cup {j}
      <4>1. queues[r.queue] \in Seq(Jobs)
        BY <3>2 DEF Typed, TypeOK, SchedTypeOK
      <4>2. Range(Append(queues[r.queue], j)) = Range(queues[r.queue]) \cup {j}
        BY <4>1, RangeOfAppend
      <4>3. Queued' = (Queued \ Range(queues[r.queue])) \cup Range(Append(queues[r.queue], j))
        BY <3>2, QueuedAfter
      <4> QED
        BY <3>2, <4>2, <4>3 DEF Queued
    <3> HIDE DEF Queued
    <3> QED
      BY <3>2, <3>3, <3>4 DEF SentOut
  <2>2. CASE ~\E j \in Jobs, r \in Requests : Generate(j, r)
    <3>1. \A j \in Jobs : job'[j] = None <=> job[j] = None
      BY <2>2, SameJobs
    <3> DEFINE Others == \/ \E r \in Requests : Reject(r)
                         \/ \E j \in Jobs : Cancel(j) \/ Respond(j) \/ TimerFire(j)
                         \/ \E g \in GPUs : OnFinished(g)
                         \/ Wake \/ FillDone \/ Evict \/ Age \/ Idle \/ UNCHANGED vars
                         \/ \E g \in GPUs : (WorkerStep(g) \/ BatchError(g)) /\ UNCHANGED gatewayVars
    <3>2. Others \/ \E h \in Jobs : HoldBatch(h)
      BY <1>4, <2>2 DEF Next, Client, DispatcherStep
    <3>3. Queued' = Queued
      <4>1. CASE Others
        <5>1. UNCHANGED queues
          BY <4>1 DEF Reject, Cancel, Respond, TimerFire, OnFinished, Wake, FillDone, Evict,
                      Age, Idle, vars, schedVars, gatewayVars
        <5> QED
          BY <5>1 DEF Queued
      <4>2. CASE \E h \in Jobs : HoldBatch(h)
        BY <4>2, PlacedHoldBatch
      <4> QED
        BY <3>2, <4>1, <4>2
    <3>4. stats'.preemptions = stats.preemptions
      <4>1. CASE \E r \in Requests : Reject(r)
        BY <4>1 DEF Reject, Typed, TypeOK
      <4>2. CASE \E j \in Jobs : Respond(j)
        BY <4>2 DEF Respond, Typed, TypeOK
      <4>3. CASE \/ \E j \in Jobs : Cancel(j) \/ TimerFire(j)
                 \/ \E g \in GPUs : OnFinished(g)
                 \/ \E h \in Jobs : HoldBatch(h)
                 \/ Wake \/ FillDone \/ Evict \/ Age \/ Idle \/ UNCHANGED vars
                 \/ \E g \in GPUs : (WorkerStep(g) \/ BatchError(g)) /\ UNCHANGED gatewayVars
        BY <4>3 DEF Cancel, TimerFire, OnFinished, HoldBatch, Wake, FillDone, Evict, Age, Idle,
                    vars, gatewayVars
      <4> QED
        BY <3>2, <4>1, <4>2, <4>3
    <3> HIDE DEF Queued
    <3> QED
      BY <3>1, <3>3, <3>4 DEF SentOut
  <2> QED
    BY <2>1, <2>2
<1> QED
  BY <1>2, <1>3, <1>4

Counters == [per_gpu_completed : [GPUs -> Nat], per_queue_completed : [Class -> Nat],
             batch_size_hist : [1..MAX_BATCH -> Nat], slo_met : Nat, slo_missed : Nat]
Weighted == [b \in 1..MAX_BATCH |-> b * counters.batch_size_hist[b]]

LEMMA OneMore ==
  ASSUME NEW D, NEW f \in [D -> Nat], NEW x
  PROVE  [f EXCEPT ![x] = f[x] + 1] \in [D -> Nat]
<1>1. CASE x \in D
  <2>1. PICK v : v = f[x] + 1
    OBVIOUS
  <2>2. v \in Nat
    BY <1>1, <2>1
  <2>3. [f EXCEPT ![x] = v] \in [D -> Nat]
    BY <1>1, <2>2
  <2> QED
    BY <2>1, <2>3
<1>2. CASE x \notin D
  <2>1. PICK h : h = [f EXCEPT ![x] = f[x] + 1]
    OBVIOUS
  <2>2. h = [y \in D |-> IF y = x THEN f[x] + 1 ELSE f[y]]
    BY <2>1
  <2>3. \A y \in D : (IF y = x THEN f[x] + 1 ELSE f[y]) \in Nat
    BY <1>2
  <2> QED
    BY <2>1, <2>2, <2>3
<1> QED
  BY <1>1, <1>2

\* A response counts at its GPU and its class, and not in the histogram.
LEMMA CountedTyped ==
  ASSUME counters \in Counters, NEW body, NEW c
  PROVE  /\ Counted(body, c) \in Counters
         /\ Counted(body, c).batch_size_hist = counters.batch_size_hist
<1> DEFINE gpus == [counters.per_gpu_completed EXCEPT ![body.msg.gpu_id] =
                      counters.per_gpu_completed[body.msg.gpu_id] + 1]
           classes == [counters.per_queue_completed EXCEPT ![c] = counters.per_queue_completed[c] + 1]
           met == IF body.deadline_met = TRUE THEN counters.slo_met + 1 ELSE counters.slo_met
           missed == IF body.deadline_met = FALSE THEN counters.slo_missed + 1 ELSE counters.slo_missed
<1>3. Counted(body, c) = [counters EXCEPT !.per_gpu_completed = gpus, !.per_queue_completed = classes,
                                          !.slo_met = met, !.slo_missed = missed]
  BY DEF Counted, Counters
<1>4. gpus \in [GPUs -> Nat] /\ classes \in [Class -> Nat] /\ met \in Nat /\ missed \in Nat
  <2>1. /\ counters.per_gpu_completed \in [GPUs -> Nat]
        /\ counters.per_queue_completed \in [Class -> Nat]
        /\ counters.slo_met \in Nat /\ counters.slo_missed \in Nat
    BY DEF Counters
  <2>2. gpus \in [GPUs -> Nat] /\ classes \in [Class -> Nat]
    BY <2>1, OneMore, Zenon
  <2>3. met \in Nat /\ missed \in Nat
    BY <2>1
  <2> QED
    BY <2>2, <2>3
<1> HIDE DEF gpus, classes, met, missed
<1> QED
  BY <1>3, <1>4 DEF Counters

LEMMA HistogramNext ==
  ASSUME Settled, counters \in Counters, [BenchNext]_<<tracedVars, replyVars, benchVars>>
  PROVE  /\ counters' \in Counters
         /\ \/ \E h \in Jobs, g \in GPUs : Send(h, g)
            \/ counters'.batch_size_hist = counters.batch_size_hist
<1>1. CASE \E h \in Jobs, g \in GPUs : Send(h, g)
  <2>1. PICK n : counters' = [counters EXCEPT !.batch_size_hist[n] = @ + 1]
    BY <1>1 DEF Send
  <2>2. [counters.batch_size_hist EXCEPT ![n] = counters.batch_size_hist[n] + 1]
          \in [1..MAX_BATCH -> Nat]
    <3>1. counters.batch_size_hist \in [1..MAX_BATCH -> Nat]
      BY DEF Counters
    <3> QED
      BY <3>1, OneMore, Zenon
  <2> QED
    BY <1>1, <2>1, <2>2 DEF Counters
<1>2. CASE \E j \in Jobs : Conclude(j)
  <2>1. PICK j \in Jobs : counters' = counters \/ counters' = Counted(BodyOf(j), job[j].queue)
    BY <1>2 DEF Conclude
  <2> QED
    BY <2>1, CountedTyped
<1>3. CASE \/ \E j \in Jobs, r \in Requests : Arrive(j, r)
           \/ \E r \in Requests : TurnAway(r)
           \/ \E g \in GPUs : Resolve(g)
           \/ \E j \in Jobs : Fired(j)
           \/ Begin \/ Report \/ Over
           \/ UNCHANGED <<replyVars, benchVars>>
  <2>1. UNCHANGED counters
    BY <1>3 DEF Arrive, TurnAway, Resolve, Fired, Begin, Report, Over, replyVars
  <2> QED
    BY <2>1
<1> QED
  BY <1>1, <1>2, <1>3 DEF BenchNext

LEMMA OnlySendDispatches ==
  ASSUME Settled, [BenchNext]_<<tracedVars, replyVars, benchVars>>,
         NEW h \in Jobs, NEW g \in GPUs, DispatchBatch(h, g)
  PROVE  \E k \in Jobs, i \in GPUs : Send(k, i)
<1>1. ~LoopIdle /\ ~UNCHANGED busy
  <2>1. dispatcher = "filling" /\ busy[g] = None /\ h \in Queued
        /\ busy' = [busy EXCEPT ![g] = NewGroup(h)]
    BY DEF DispatchBatch, LeastUtilised, Free
  <2>2. NewGroup(h) \in Group
    BY <2>1, NewGroupAndBatch DEF Settled
  <2>3. busy'[g] # busy[g]
    BY <2>1, <2>2, NoneAssumption DEF Settled, Typed, TypeOK
  <2> QED
    BY <2>1, <2>3 DEF LoopIdle
<1>2. CASE \/ \E j \in Jobs, r \in Requests : Arrive(j, r)
           \/ \E r \in Requests : TurnAway(r)
           \/ \E i \in GPUs : Resolve(i) \/ Preempted(i)
           \/ \E j \in Jobs : Conclude(j)
  BY <1>1, <1>2 DEF Arrive, Admitted, Generate, TurnAway, Refused, Reject, Resolve, Finished,
                    OnFinished, Preempted, OnPreempted, TakeResponse, Conclude, Responded, Respond
<1>3. CASE (\E j \in Jobs : Fired(j)) \/ Begin \/ Report \/ Over \/ Tick
           \/ UNCHANGED <<tracedVars, replyVars, benchVars>>
  BY <1>1, <1>3 DEF Fired, Begin, Report, Over, Tick, tracedVars, vars
<1>4. CASE Unmarked \/ \E i \in GPUs : WorkerRuns(i)
  BY <1>1, <1>4 DEF Unmarked, Cancel, TimerFire, HoldBatch, Wake, FillDone, Evict, Age, Idle,
                    WorkerRuns, gatewayVars
<1> QED
  BY <1>2, <1>3, <1>4 DEF BenchNext

LEMMA LedgerOfDispatches ==
  ASSUME Settled, counters \in Counters, DispatchLedger,
         [BenchNext]_<<tracedVars, replyVars, benchVars>>
  PROVE  DispatchLedger'
<1>1. [Next]_vars
  BY BenchStep, TracedStep
<1>2. /\ Weighted \in [1..MAX_BATCH -> Int] /\ IsFiniteSet(1..MAX_BATCH)
      /\ counters.batch_size_hist \in [1..MAX_BATCH -> Nat]
      /\ stats.preemptions \in Nat /\ Cardinality(SentOut) \in Nat
  <2>1. counters.batch_size_hist \in [1..MAX_BATCH -> Nat]
    BY DEF Counters
  <2>2. IsFiniteSet(1..MAX_BATCH)
    BY ConfigAssumption, FS_Interval
  <2>3. \A b \in 1..MAX_BATCH : b * counters.batch_size_hist[b] \in Int
    <3> SUFFICES ASSUME NEW b \in 1..MAX_BATCH PROVE b * counters.batch_size_hist[b] \in Int
      OBVIOUS
    <3>1. PICK hist, x : hist = counters.batch_size_hist /\ x = hist[b]
      OBVIOUS
    <3>2. hist \in [1..MAX_BATCH -> Nat]
      BY <2>1, <3>1
    <3>3. x \in Int /\ b \in Int
      BY <3>1, <3>2, ConfigAssumption
    <3> QED
      BY <3>1, <3>3
  <2> QED
    BY <2>1, <2>2, <2>3, SentOutFinite DEF Weighted, Settled, Typed, TypeOK
<1>3. SumFunction(Weighted) = stats.preemptions + Cardinality(SentOut)
  BY DEF DispatchLedger, Weighted, SentOut
<1>4. ASSUME NEW h \in Jobs, NEW g \in GPUs, Send(h, g)
      PROVE  SumFunction(Weighted') = stats'.preemptions + Cardinality(SentOut')
  <2>1. PICK n : n = Len(GroupOf(h))
    OBVIOUS
  <2>2. /\ DispatchBatch(h, g)
        /\ counters' = [counters EXCEPT !.batch_size_hist[n] = counters.batch_size_hist[n] + 1]
    BY <1>4, <2>1 DEF Send, Dispatched, SizeOf
  <2>3. /\ Cardinality(SentOut') = Cardinality(SentOut) + n /\ n \in 1..MAX_BATCH
        /\ stats'.preemptions = stats.preemptions
    BY <1>1, <2>1, <2>2, SentOutNext
  <2>4. counters'.batch_size_hist
          = [counters.batch_size_hist EXCEPT ![n] = counters.batch_size_hist[n] + 1]
    BY <2>2 DEF Counters
  <2>5. PICK x : x = counters.batch_size_hist[n]
    OBVIOUS
  <2>6. x \in Nat /\ n \in Nat /\ n * (x + 1) = n * x + n
    <3>1. PICK hist : hist = counters.batch_size_hist
      OBVIOUS
    <3>2. hist \in [1..MAX_BATCH -> Nat]
      BY <1>2, <3>1
    <3>3. x \in Nat /\ n \in Nat
      BY <2>3, <2>5, <3>1, <3>2, ConfigAssumption
    <3> QED
      BY <3>3
  <2>7. Weighted' = [Weighted EXCEPT ![n] = n * (x + 1)]
    BY <1>2, <2>3, <2>4, <2>5 DEF Weighted
  <2>8. Weighted[n] = n * x
    BY <2>3, <2>5 DEF Weighted
  <2>9. SumFunction(Weighted') = SumFunction(Weighted) + (n * (x + 1) - Weighted[n])
        /\ SumFunction(Weighted) \in Int
    <3>1. n * (x + 1) \in Int
      BY <2>6
    <3> HIDE DEF Weighted
    <3>2. PICK f, v, w : f = Weighted /\ v = n * (x + 1) /\ w = Weighted'
      OBVIOUS
    <3>3. f \in [1..MAX_BATCH -> Int] /\ v \in Int /\ w = [f EXCEPT ![n] = v] /\ n \in 1..MAX_BATCH
      BY <1>2, <2>3, <2>7, <3>1, <3>2
    <3>4. SumFunction(w) = SumFunction(f) + (v - f[n]) /\ SumFunction(f) \in Int
      BY <1>2, <3>3, SumChanged
    <3> QED
      BY <3>2, <3>4
  <2>10. PICK p, q : p = n * (x + 1) /\ q = n * x
    OBVIOUS
  <2>11. p = q + n /\ q \in Int /\ n \in Int
    BY <2>6, <2>10
  <2>12. SumFunction(Weighted') = SumFunction(Weighted) + n
    BY <2>8, <2>9, <2>10, <2>11
  <2> QED
    BY <1>2, <1>3, <2>3, <2>6, <2>12
<1>5. ASSUME ~\E h \in Jobs, g \in GPUs : Send(h, g)
      PROVE  SumFunction(Weighted') = stats'.preemptions + Cardinality(SentOut')
  <2>1. Weighted' = Weighted
    <3>1. counters'.batch_size_hist = counters.batch_size_hist
      BY <1>5, HistogramNext
    <3> QED
      BY <3>1 DEF Weighted
  <2>2. CASE \E g \in GPUs : OnPreempted(g)
    BY <1>1, <1>2, <1>3, <2>1, <2>2, SentOutNext
  <2>3. CASE ~\E g \in GPUs : OnPreempted(g)
    <3>1. ~\E h \in Jobs, g \in GPUs : DispatchBatch(h, g)
      BY <1>5, OnlySendDispatches
    <3> QED
      BY <1>1, <1>2, <1>3, <2>1, <2>3, <3>1, SentOutNext
  <2> QED
    BY <2>2, <2>3
<1>6. SumFunction(Weighted') = stats'.preemptions + Cardinality(SentOut')
  BY <1>4, <1>5
<1> QED
  BY <1>6 DEF DispatchLedger, Weighted, SentOut

-----------------------------------------------------------------------------
(* The shape of what the handlers and bench.py keep *)

\* Only a dispatch stamps a job.
LEMMA StampGiven ==
  ASSUME Settled, [Next]_vars, NEW j \in Jobs, job'[j] # None, job'[j].dispatched_at
  PROVE  \/ job[j] # None /\ job[j].dispatched_at
         \/ \E h \in Jobs, g \in GPUs : DispatchBatch(h, g) /\ j \in Range(GroupOf(h))
<1> USE DEF Settled
<1>1. job \in [Jobs -> Job \cup {None}]
  BY DEF Typed, TypeOK, SchedTypeOK
<1>2. ASSUME NEW k \in Jobs, NEW r \in Requests, Generate(k, r)
      PROVE  job[j] # None /\ job[j].dispatched_at
  <2>1. job' = [job EXCEPT ![k] = NewJob(r)]
    BY <1>2 DEF Generate, Admit
  <2>2. ~NewJob(r).dispatched_at
    BY DEF NewJob
  <2> QED
    BY <1>1, <2>1, <2>2
<1>3. ASSUME NEW g \in GPUs, OnPreempted(g)
      PROVE  job[j] # None /\ job[j].dispatched_at
  <2>1. PICK k : k = Head(response_q[g]).request_id
    OBVIOUS
  <2>2. /\ k \in Jobs /\ k \in pending /\ job[k] # None
        /\ \A i \in Jobs : i # k => job'[i] = job[i]
    BY <1>3, <2>1, CheckpointedJob
  <2>3. PICK s : RequeuePreempted(k, s)
    BY <1>3, <2>1, <2>2 DEF OnPreempted
  <2>4. job'[k] = [job[k] EXCEPT !.resume_state = s, !.preempt_requested = FALSE,
                                 !.preempt_count = @ + 1, !.dispatched_at = FALSE]
    BY <1>1, <2>2, <2>3 DEF RequeuePreempted
  <2>5. ~job'[k].dispatched_at
    BY <1>1, <2>2, <2>4 DEF Job
  <2> QED
    BY <2>2, <2>5
<1>4. ASSUME NEW h \in Jobs, NEW g \in GPUs, DispatchBatch(h, g), j \notin Range(GroupOf(h))
      PROVE  job[j] # None /\ job[j].dispatched_at
  BY <1>4 DEF DispatchBatch, Take
<1>5. ASSUME NEW h \in Jobs, HoldBatch(h)
      PROVE  job[j] # None /\ job[j].dispatched_at
  <2>1. h \in Queued /\ TakeAndRequeue(h)
    BY <1>5 DEF HoldBatch
  <2>2. \A k \in Range(GroupOf(h)) : job[k] \in Job
    BY <2>1, SelectedGroup
  <2>3. CASE j \in Range(GroupOf(h))
    <3>1. job'[j] = [job[j] EXCEPT !.dispatched_at = FALSE] /\ job[j] \in Job
      BY <2>1, <2>2, <2>3 DEF TakeAndRequeue
    <3> QED
      BY <3>1 DEF Job
  <2>4. CASE j \notin Range(GroupOf(h))
    BY <2>1, <2>4 DEF TakeAndRequeue
  <2> QED
    BY <2>3, <2>4
<1>6. ASSUME Evict
      PROVE  job[j] # None /\ job[j].dispatched_at
  <2>1. job'[j] = job[j] \/ job'[j] = [job[j] EXCEPT !.preempt_requested = TRUE]
    BY <1>6 DEF Evict
  <2>2. job[j] # None
    <3>1. job[j] = None => \A r \in Requests : ~Generate(j, r)
      BY <1>6 DEF Evict, Generate, LoopIdle
    <3> QED
      BY <3>1, SameJobs
  <2> QED
    BY <1>1, <2>1, <2>2 DEF Job
<1>7. ASSUME \/ \E r \in Requests : Reject(r)
             \/ \E k \in Jobs : Cancel(k) \/ Respond(k) \/ TimerFire(k)
             \/ \E g \in GPUs : OnFinished(g)
             \/ Wake \/ FillDone \/ Age \/ Idle \/ UNCHANGED vars
             \/ \E g \in GPUs : (WorkerStep(g) \/ BatchError(g)) /\ UNCHANGED gatewayVars
      PROVE  job[j] # None /\ job[j].dispatched_at
  BY <1>7 DEF Reject, Cancel, Respond, TimerFire, OnFinished, Wake, FillDone, Age, Idle, vars,
              schedVars, gatewayVars
<1> QED
  BY <1>2, <1>3, <1>4, <1>5, <1>6, <1>7 DEF Next, Client, DispatcherStep

\* The clock of the loop never goes back.
LEMMA ClockForward ==
  ASSUME perf_counter \in Time, [TracingNext \/ Tick]_tracedVars
  PROVE  perf_counter' \in Time /\ perf_counter <= perf_counter'
<1>1. perf_counter \in Int /\ perf_counter <= perf_counter
  BY TimeAssumption DEF Time
<1>2. CASE Tick
  BY <1>1, <1>2, TimeAssumption DEF Tick, Time
<1>3. CASE ~Tick
  <2>1. UNCHANGED perf_counter
    BY <1>3 DEF TracingNext, Admitted, Dispatched, Preempted, Finished, WorkerRuns, Refused,
                Responded, Unmarked, clockVars, tracedVars
  <2> QED
    BY <1>1, <2>1
<1> QED
  BY <1>2, <1>3

\* A Job object's arrival is past, and its dispatch, while it has one, came after.
TimesTrue ==
  \A j \in Jobs :
    /\ times[j].arrival <= perf_counter
    /\ job[j] # None /\ job[j].dispatched_at => times[j].arrival <= times[j].dispatched_at

LEMMA TimesNext ==
  ASSUME Settled, ReplyTrue, TimesTrue, perf_counter \in Time,
         [BenchNext]_<<tracedVars, replyVars, benchVars>>
  PROVE  TimesTrue'
<1>1. /\ [Next]_vars /\ perf_counter' \in Time /\ perf_counter <= perf_counter'
      /\ perf_counter \in Int /\ perf_counter' \in Int
  BY BenchStep, TracedStep, ClockForward, TimeAssumption DEF Time
<1>2. \A j \in Jobs : times[j].arrival \in Int /\ times[j].dispatched_at \in Int
  BY TimeAssumption DEF ReplyTrue, Time
<1>3. ASSUME NEW k \in Jobs, NEW r \in Requests, Arrive(k, r)
      PROVE  TimesTrue'
  <2>1. /\ times' = [times EXCEPT ![k].arrival = perf_counter] /\ UNCHANGED perf_counter
        /\ Generate(k, r)
    BY <1>3 DEF Arrive, Admitted, clockVars
  <2>2. times'[k].arrival = perf_counter /\ \A j \in Jobs : j # k => times'[j] = times[j]
    BY <2>1 DEF ReplyTrue
  <2>3. job' = [job EXCEPT ![k] = NewJob(r)] /\ job \in [Jobs -> Job \cup {None}]
    BY <2>1 DEF Generate, Admit, Settled, Typed, TypeOK, SchedTypeOK
  <2>4. ~job'[k].dispatched_at /\ \A j \in Jobs : j # k => job'[j] = job[j]
    BY <2>3 DEF NewJob
  <2> QED
    BY <1>1, <1>2, <2>1, <2>2, <2>4 DEF TimesTrue
<1>4. ASSUME NEW h \in Jobs, NEW g \in GPUs, Send(h, g)
      PROVE  TimesTrue'
  <2>1. times' = TakenAt(h) /\ UNCHANGED perf_counter /\ DispatchBatch(h, g)
    BY <1>4 DEF Send, Dispatched, clockVars
  <2> SUFFICES ASSUME NEW j \in Jobs
               PROVE  /\ times'[j].arrival <= perf_counter'
                      /\ job'[j] # None /\ job'[j].dispatched_at =>
                           times'[j].arrival <= times'[j].dispatched_at
    BY DEF TimesTrue
  <2>2. CASE j \in Range(GroupOf(h))
    <3>1. times'[j].arrival = times[j].arrival /\ times'[j].dispatched_at = perf_counter
      BY <2>1, <2>2 DEF TakenAt, ReplyTrue
    <3> QED
      BY <1>1, <1>2, <2>1, <3>1 DEF TimesTrue
  <2>3. CASE j \notin Range(GroupOf(h))
    <3>1. times'[j] = times[j] /\ job'[j] = job[j]
      BY <2>1, <2>3 DEF TakenAt, DispatchBatch, Take
    <3> QED
      BY <1>1, <1>2, <2>1, <3>1 DEF TimesTrue
  <2> QED
    BY <2>2, <2>3
<1>5. ASSUME UNCHANGED times, ~\E h \in Jobs, g \in GPUs : Send(h, g)
      PROVE  TimesTrue'
  <2> SUFFICES ASSUME NEW j \in Jobs
               PROVE  /\ times[j].arrival <= perf_counter'
                      /\ job'[j] # None /\ job'[j].dispatched_at =>
                           times[j].arrival <= times[j].dispatched_at
    BY <1>5 DEF TimesTrue
  <2>1. times[j].arrival <= perf_counter'
    BY <1>1, <1>2 DEF TimesTrue
  <2>2. ~\E h \in Jobs, g \in GPUs : DispatchBatch(h, g)
    BY <1>5, OnlySendDispatches
  <2> QED
    BY <1>1, <2>1, <2>2, StampGiven DEF TimesTrue
<1>6. \/ \E j \in Jobs, r \in Requests : Arrive(j, r)
      \/ \E h \in Jobs, g \in GPUs : Send(h, g)
      \/ UNCHANGED times
  BY DEF BenchNext, TurnAway, Resolve, Conclude, Fired, Begin, Report, Over, replyVars
<1> QED
  BY <1>3, <1>4, <1>5, <1>6

\* The future of a request whose result came in keeps the message, and its
\* response has the figures of a Body.
RepliesTyped ==
  /\ reply \in [Jobs -> Message \cup Body \cup {None}]
  /\ \A j \in Jobs : /\ future[j] = "result" => reply[j] \in Message
                     /\ future[j] = "answered" => reply[j] \in Body

LEMMA MessageKept ==
  ASSUME Settled, TracesTell, NEW g \in GPUs, Resolve(g), Head(response_q[g]).type = "result"
  PROVE  [gpu_id |-> g, batch_size |-> Cardinality(busy[g].jobs),
          gpu_time_ms |-> Rounded(worker_clock[g].t_end - worker_clock[g].t_start)] \in Message
<1> USE DEF Settled, TracesTell
<1>1. PICK m, j, tr, t, s : /\ m = Head(response_q[g]) /\ j = m.request_id /\ tr = active[j]
                            /\ t = worker_clock[g] /\ s = SpansOf(tr, m, t)
  OBVIOUS
<1>2. OnFinished(g) /\ TakeResponse(g) /\ response_q[g] # <<>>
  BY DEF Resolve, Finished, OnFinished, TakeResponse
<1>3. j \in pending /\ j \in Range(OwedIds(g)) /\ j \in Jobs /\ j \notin Queued
  BY <1>1, <1>2, MessageOfPending
<1>4. [trace |-> tr, spans |-> s] \in FinishedTrace /\ SpansTrue([trace |-> tr, spans |-> s])
  BY <1>1, <1>2, <1>3, SpansOfFinished
<1>5. s.gpu_ms \in Time /\ s.gpu_ms = t.t_end - t.t_start
  <2>1. s.ok /\ s.gpu_ms = t.t_end - t.t_start
    BY <1>1 DEF SpansOf
  <2> QED
    BY <1>4, <2>1 DEF SpansTrue
<1>6. Cardinality(busy[g].jobs) \in 1..MAX_BATCH
  <2>1. LastOf(tr) \in Attempt
    BY <1>1, <1>3, LastAttempt
  <2>2. LastOf(tr).batch_size = Cardinality(busy[g].jobs)
    BY <1>1, <1>3 DEF BatchesTraced, BatchTraced
  <2> QED
    BY <2>1, <2>2 DEF Attempt
<1>7. Rounded(s.gpu_ms) \in Nat
  <2>1. s.gpu_ms \in Nat
    BY <1>5, TimeAssumption DEF Time
  <2> QED
    BY <2>1, RoundedIsNear
<1> QED
  BY <1>1, <1>5, <1>6, <1>7 DEF Message

LEMMA ResponseBody ==
  ASSUME Settled, Stamped, ReplyTrue, TimesTrue, perf_counter \in Time,
         NEW j \in Jobs, future[j] = "result", reply[j] \in Message
  PROVE  BodyOf(j) \in Body
<1>1. job[j] # None /\ job[j].dispatched_at
  BY DEF Stamped
<1>2. times[j].arrival <= times[j].dispatched_at /\ times[j].arrival <= perf_counter
  BY <1>1 DEF TimesTrue
<1>3. times[j].arrival \in Time /\ times[j].dispatched_at \in Time
  BY DEF ReplyTrue
<1>4. /\ times[j].dispatched_at - times[j].arrival \in Nat
      /\ perf_counter - times[j].arrival \in Nat
  BY <1>2, <1>3, TimeAssumption DEF Time
<1>5. /\ Rounded(times[j].dispatched_at - times[j].arrival) \in Nat
      /\ Rounded(perf_counter - times[j].arrival) \in Nat
  BY <1>4, RoundedIsNear
<1>6. (Reading * (perf_counter - times[j].arrival) <= Tenth * SLO) \in BOOLEAN
  OBVIOUS
<1> QED
  BY <1>5, <1>6 DEF BodyOf, Body

LEMMA RepliesTypedNext ==
  ASSUME Settled, Stamped, TracesTell, ReplyTrue, TimesTrue, RepliesTyped,
         [BenchNext]_<<tracedVars, replyVars, benchVars>>
  PROVE  RepliesTyped'
<1>1. perf_counter \in Time /\ future \in [Jobs -> FutureState]
  BY DEF TracesTell, TracesTrue, Settled, Typed, TypeOK
<1>2. ASSUME NEW g \in GPUs, Resolve(g)
      PROVE  RepliesTyped'
  <2>1. PICK m, j, msg :
          /\ m = Head(response_q[g]) /\ j = m.request_id
          /\ msg = [gpu_id |-> g, batch_size |-> Cardinality(busy[g].jobs),
                    gpu_time_ms |-> Rounded(worker_clock[g].t_end - worker_clock[g].t_start)]
    OBVIOUS
  <2>2. OnFinished(g) /\ TakeResponse(g) /\ j \in pending /\ j \in Jobs
    BY <1>2, <2>1, MessageOfPending DEF Resolve, Finished, OnFinished, Settled
  <2>3. future' = [future EXCEPT ![j] = IF @ = "waiting" THEN m.type ELSE @]
    BY <2>1, <2>2 DEF OnFinished
  <2>4. reply' = IF m.type = "result" /\ future[j] = "waiting"
                 THEN [reply EXCEPT ![j] = msg] ELSE reply
    BY <1>2, <2>1 DEF Resolve
  <2>5. m.type = "result" => msg \in Message
    BY <1>2, <2>1, MessageKept
  <2>6. m.type # "answered"
    <3>1. response_q[g] \in Seq(Response) /\ response_q[g] # <<>>
      BY <2>2 DEF TakeResponse, Settled, Typed, TypeOK, WorkerTypeOK
    <3>2. m \in Response
      BY <2>1, <3>1, HeadTailProperties
    <3> QED
      BY <3>2 DEF Response
  <2> QED
    BY <1>1, <2>2, <2>3, <2>4, <2>5, <2>6 DEF RepliesTyped
<1>3. ASSUME NEW j \in Jobs, Conclude(j)
      PROVE  RepliesTyped'
  <2>1. /\ future[j] \in {"result", "error"}
        /\ future' = [future EXCEPT ![j] = IF @ = "result" THEN "answered" ELSE "failed"]
        /\ future[j] = "result" => reply' = [reply EXCEPT ![j] = BodyOf(j)]
        /\ future[j] # "result" => UNCHANGED reply
    BY <1>3 DEF Conclude, Responded, Respond
  <2>2. future[j] = "result" => BodyOf(j) \in Body
    BY <1>1, ResponseBody DEF RepliesTyped
  <2> QED
    BY <1>1, <2>1, <2>2 DEF RepliesTyped
<1>4. ASSUME UNCHANGED reply, \A j \in Jobs : UNCHANGED future[j] \/ future'[j] \in {"waiting", "cancelled"}
      PROVE  RepliesTyped'
  BY <1>4 DEF RepliesTyped
<1>5. CASE \E k \in Jobs : Cancel(k)
  <2>1. PICK k \in Jobs : future' = [future EXCEPT ![k] = "cancelled"]
    BY <1>5 DEF Cancel
  <2>2. \A j \in Jobs : UNCHANGED future[j] \/ future'[j] = "cancelled"
    BY <1>1, <2>1
  <2>3. UNCHANGED reply \/ (\E g \in GPUs : Resolve(g)) \/ \E j \in Jobs : Conclude(j)
    BY DEF BenchNext, Arrive, TurnAway, Send, Fired, Begin, Report, Over, replyVars
  <2> QED
    BY <1>2, <1>3, <1>4, <2>2, <2>3
<1>6. CASE ~\E k \in Jobs : Cancel(k)
  <2>1. CASE \E j \in Jobs, r \in Requests : Arrive(j, r)
    <3>1. PICK k \in Jobs : future' = [future EXCEPT ![k] = "waiting"] /\ UNCHANGED reply
      BY <2>1 DEF Arrive, Admitted, Generate
    <3>2. \A j \in Jobs : UNCHANGED future[j] \/ future'[j] = "waiting"
      BY <1>1, <3>1
    <3> QED
      BY <1>4, <3>1, <3>2
  <2>2. CASE (\E g \in GPUs : Resolve(g)) \/ \E j \in Jobs : Conclude(j)
    BY <1>2, <1>3, <2>2
  <2>3. CASE \/ \E r \in Requests : TurnAway(r)
             \/ \E h \in Jobs, g \in GPUs : Send(h, g)
             \/ (\E j \in Jobs : Fired(j)) \/ Begin \/ Report \/ Over
             \/ /\ Unmarked \/ Tick \/ \E g \in GPUs : Preempted(g) \/ WorkerRuns(g)
                /\ UNCHANGED <<replyVars, benchVars>>
             \/ UNCHANGED <<tracedVars, replyVars, benchVars>>
    <3>1. UNCHANGED future
      BY <1>6, <2>3
         DEF TurnAway, Refused, Reject, Send, Dispatched, DispatchBatch, Fired, Begin, Report, Over,
             Unmarked, Tick, Preempted, OnPreempted, WorkerRuns, TimerFire, HoldBatch, Wake,
             FillDone, Evict, Age, Idle, gatewayVars, clientVars, vars, tracedVars
    <3>2. UNCHANGED reply
      BY <2>3 DEF TurnAway, Send, Fired, Begin, Report, Over, replyVars
    <3> QED
      BY <1>4, <3>1, <3>2
  <2> QED
    BY <2>1, <2>2, <2>3 DEF BenchNext
<1> QED
  BY <1>5, <1>6

CountersInit ==
  [per_gpu_completed |-> [g \in GPUs |-> 0], per_queue_completed |-> [c \in Class |-> 0],
   batch_size_hist |-> [b \in 1..MAX_BATCH |-> 0], slo_met |-> 0, slo_missed |-> 0]

\* The histogram of the batches sent and the ledger of what became of their
\* jobs, written in two places, always add up (dispatcher against
\* _on_worker_response).
THEOREM DispatchesBalance == BenchSpec => [](counters \in Counters /\ DispatchLedger)
<1>1. BenchInit => counters \in Counters /\ DispatchLedger
  <2> SUFFICES ASSUME BenchInit PROVE counters \in Counters /\ DispatchLedger
    OBVIOUS
  <2>1. counters = CountersInit /\ Init
    BY DEF BenchInit, TracingInit, CountersInit
  <2>2. counters \in Counters /\ counters.batch_size_hist = [b \in 1..MAX_BATCH |-> 0]
    BY <2>1 DEF CountersInit, Counters
  <2>3. \A b \in 1..MAX_BATCH : b * counters.batch_size_hist[b] = 0
    BY <2>2, ConfigAssumption
  <2>4. /\ Weighted \in [1..MAX_BATCH -> Int] /\ \A b \in 1..MAX_BATCH : Weighted[b] = 0
        /\ IsFiniteSet(1..MAX_BATCH)
    BY <2>3, ConfigAssumption, FS_Interval DEF Weighted
  <2>5. SumFunction(Weighted) = 0
    BY <2>4, SumOfZeros
  <2>6. stats.preemptions = 0 /\ SentOut = {}
    BY <2>1 DEF Init, SchedInit, SentOut
  <2>7. SumFunction(Weighted) = stats.preemptions + Cardinality(SentOut)
    BY <2>5, <2>6, FS_EmptySet
  <2> QED
    BY <2>2, <2>7 DEF DispatchLedger, Weighted, SentOut
<1>2. Settled /\ counters \in Counters /\ DispatchLedger
      /\ [BenchNext]_<<tracedVars, replyVars, benchVars>>
        => (counters \in Counters /\ DispatchLedger)'
  BY HistogramNext, LedgerOfDispatches
<1> QED
  BY <1>1, <1>2, BenchIsTraced, TracedIsGateway, SettledAlways, PTL DEF BenchSpec

-----------------------------------------------------------------------------
(* The types of what the handlers and bench.py keep *)

RunTyped ==
  /\ bench \in {"before", "running", "over"}
  /\ ours \subseteq Jobs
  /\ row \in [ours -> {"ok", "rejected", None}]
  /\ refused \in Nat
  /\ before \in View \cup {None}
  /\ after \in View \cup {None}

\* A ratio is shown to half a thousandth.
LEMMA AttainmentShown ==
  ASSUME NEW met \in Nat, NEW of \in Nat
  PROVE  /\ of = 0 => Attainment(met, of) = None
         /\ of # 0 => Attainment(met, of) \in Nat /\ Near(Attainment(met, of), 1000 * met, of)
         /\ Attainment(met, of) \in Nat \cup {None}
<1>1. CASE of = 0
  BY <1>1 DEF Attainment
<1>2. CASE of # 0
  <2>1. PICK n \in Nat : n = 1000 * met
    OBVIOUS
  <2>2. Attainment(met, of) = Round(n, of) /\ Near(Round(n, of), n, of)
    BY <1>2, <2>1, RoundIsNear DEF Attainment
  <2>3. of * 0 <= n
    OBVIOUS
  <2>4. Round(n, of) \in Int /\ 0 <= Round(n, of)
    BY <1>2, <2>2, <2>3, NearBounded DEF Near
  <2> QED
    BY <1>2, <2>1, <2>2, <2>4
<1> QED
  BY <1>1, <1>2

LEMMA StatsViewed ==
  ASSUME Typed, counters \in Counters
  PROVE  Stats \in View
<1>1. pending \cup {j \in Jobs : future[j] \in {"waiting", "result", "error"}} \in SUBSET Jobs
  BY DEF Typed, TypeOK
<1>2. PICK met \in Nat, of \in Nat : met = counters.slo_met /\ of = met + counters.slo_missed
  BY DEF Counters
<1>3. Attainment(met, of) \in Nat \cup {None}
  BY AttainmentShown
<1> QED
  BY <1>1, <1>2, <1>3 DEF Stats, View, Typed, TypeOK

LEMMA RunTypedNext ==
  ASSUME Typed, counters \in Counters, RunTyped, [BenchNext]_<<tracedVars, replyVars, benchVars>>
  PROVE  RunTyped'
<1>1. Stats \in View
  BY StatsViewed
<1>2. ASSUME NEW j \in Jobs, NEW r \in Requests, Arrive(j, r)
      PROVE  RunTyped'
  <2>1. UNCHANGED <<bench, refused, before, after>>
    BY <1>2 DEF Arrive
  <2>2. \/ UNCHANGED <<ours, row>>
        \/ ours' = ours \cup {j} /\ row' = [k \in ours \cup {j} |-> IF k = j THEN None ELSE row[k]]
    BY <1>2 DEF Arrive
  <2>3. ours' \subseteq Jobs /\ row' \in [ours' -> {"ok", "rejected", None}]
    BY <2>2 DEF RunTyped
  <2> QED
    BY <2>1, <2>3 DEF RunTyped
<1>3. ASSUME NEW r \in Requests, TurnAway(r)
      PROVE  RunTyped'
  BY <1>3 DEF TurnAway, RunTyped
<1>4. ASSUME NEW j \in Jobs, Fired(j)
      PROVE  RunTyped'
  BY <1>4 DEF Fired, RunTyped
<1>5. ASSUME Begin \/ Report
      PROVE  RunTyped'
  BY <1>1, <1>5 DEF Begin, Report, RunTyped
<1>6. ASSUME UNCHANGED benchVars
      PROVE  RunTyped'
  BY <1>6 DEF benchVars, RunTyped
<1>7. \/ \E j \in Jobs, r \in Requests : Arrive(j, r)
      \/ \E r \in Requests : TurnAway(r)
      \/ \E j \in Jobs : Fired(j)
      \/ Begin \/ Report \/ UNCHANGED benchVars
  BY DEF BenchNext, Send, Resolve, Conclude, Over
<1> QED
  BY <1>2, <1>3, <1>4, <1>5, <1>6, <1>7

WellTimed == TimesTrue /\ RepliesTyped /\ RunTyped

\* Times, messages, responses, counters, rows and views are what they should be;
\* in particular no response says a negative time, and each is of a dispatched
\* job (gateway.py generate; bench.py).
THEOREM BenchTyped == BenchSpec => [](WellTimed /\ BenchTypeOK)
<1>1. BenchInit => WellTimed
  <2> SUFFICES ASSUME BenchInit PROVE WellTimed
    OBVIOUS
  <2>1. 0 \in Time /\ perf_counter = 0 /\ 0 <= 0
    BY TimeAssumption DEF BenchInit, TracingInit, Time
  <2>2. Init /\ \A j \in Jobs : job[j] = None /\ future[j] = "none" /\ times[j].arrival = 0
    BY DEF BenchInit, TracingInit, Init, SchedInit
  <2>3. TimesTrue
    BY <2>1, <2>2 DEF TimesTrue
  <2>4. RepliesTyped
    BY <2>2 DEF BenchInit, RepliesTyped
  <2>5. RunTyped
    BY DEF BenchInit, RunTyped
  <2> QED
    BY <2>3, <2>4, <2>5 DEF WellTimed
<1>2. Settled /\ Stamped /\ TracesTell /\ ReplyTrue /\ counters \in Counters /\ WellTimed
      /\ [BenchNext]_<<tracedVars, replyVars, benchVars>> => WellTimed'
  <2>1. TracesTell => perf_counter \in Time
    BY DEF TracesTell, TracesTrue
  <2>2. Settled => Typed
    BY DEF Settled
  <2> QED
    BY <2>1, <2>2, TimesNext, RepliesTypedNext, RunTypedNext DEF WellTimed
<1>3. TracingTypeOK /\ ReplyTrue /\ counters \in Counters /\ WellTimed => BenchTypeOK
  BY DEF BenchTypeOK, ReplyTrue, Counters, WellTimed, RepliesTyped, RunTyped
<1> QED
  BY <1>1, <1>2, <1>3, BenchIsTraced, TracedIsGateway, SettledAlways, StampedAlways,
     TracesAlwaysTell, TracingTyped, DispatchesBalance, RepliesAlways, PTL DEF BenchSpec

-----------------------------------------------------------------------------
(* The totals of a run *)

Answered == {j \in Jobs : future[j] = "answered"}
Verdicts == {j \in Jobs : future[j] = "answered" /\ reply[j].deadline_met # None}
Met == {j \in Jobs : future[j] = "answered" /\ reply[j].deadline_met = TRUE}
Counts == [j \in Jobs |-> IF job[j] = None THEN 0 ELSE job[j].preempt_count]

\* What GET /stats counts.
Totals ==
  /\ stats.completed = Cardinality(Answered)
  /\ counters.slo_met = Cardinality(Met)
  /\ counters.slo_met + counters.slo_missed = Cardinality(Verdicts)
  /\ stats.preemptions = SumFunction(Counts)

LEMMA TotalsTyped ==
  ASSUME Typed
  PROVE  /\ IsFiniteSet(Jobs) /\ Counts \in [Jobs -> Nat]
         /\ IsFiniteSet(Answered) /\ IsFiniteSet(Met) /\ Met \subseteq Verdicts
         /\ IsFiniteSet(Verdicts) /\ Verdicts \subseteq Answered
<1>1. IsFiniteSet(Jobs)
  BY ConfigAssumption, FS_Interval DEF Jobs
<1>2. Answered \subseteq Jobs /\ Verdicts \subseteq Answered /\ Met \subseteq Verdicts
  BY RowAssumption DEF Answered, Verdicts, Met
<1>3. Counts \in [Jobs -> Nat]
  BY DEF Counts, Typed, TypeOK, SchedTypeOK, Job
<1> QED
  BY <1>1, <1>2, <1>3, FS_Subset

AnswersNow(j) == Conclude(j) /\ future[j] = "result"

\* An answer is one, for good, from the step of the handler after its await.
LEMMA AnswersLast ==
  ASSUME Settled, Stamped, RepliesTyped, [BenchNext]_<<tracedVars, replyVars, benchVars>>,
         NEW j \in Jobs
  PROVE  /\ future[j] = "answered" => future'[j] = "answered" /\ reply'[j] = reply[j]
         /\ AnswersNow(j) \/ (future'[j] = "answered" => future[j] = "answered")
<1>1. future \in [Jobs -> FutureState] /\ DOMAIN reply = Jobs
  BY DEF Settled, Typed, TypeOK, RepliesTyped
<1>2. ASSUME NEW k \in Jobs, NEW r \in Requests, Arrive(k, r)
      PROVE  (future'[j] = "answered" <=> future[j] = "answered") /\ UNCHANGED reply
  BY <1>1, <1>2 DEF Arrive, Admitted, Generate, Stamped
<1>3. ASSUME NEW g \in GPUs, Resolve(g)
      PROVE  /\ future'[j] = "answered" <=> future[j] = "answered"
             /\ future[j] = "answered" => reply'[j] = reply[j]
  <2>1. PICK m, k : m = Head(response_q[g]) /\ k = m.request_id
    OBVIOUS
  <2>2. OnFinished(g) /\ TakeResponse(g) /\ k \in pending /\ k \in Jobs
    BY <1>3, <2>1, MessageOfPending DEF Resolve, Finished, OnFinished, Settled
  <2>3. future' = [future EXCEPT ![k] = IF @ = "waiting" THEN m.type ELSE @]
    BY <2>1, <2>2 DEF OnFinished
  <2>4. reply' = reply \/ (future[k] = "waiting" /\ \E x : reply' = [reply EXCEPT ![k] = x])
    BY <1>3, <2>1 DEF Resolve
  <2>5. m.type # "answered"
    <3>1. response_q[g] \in Seq(Response) /\ response_q[g] # <<>>
      BY <2>2 DEF TakeResponse, Settled, Typed, TypeOK, WorkerTypeOK
    <3>2. m \in Response
      BY <2>1, <3>1, HeadTailProperties
    <3> QED
      BY <3>2 DEF Response
  <2> QED
    BY <1>1, <2>2, <2>3, <2>4, <2>5
<1>4. ASSUME NEW k \in Jobs, Conclude(k)
      PROVE  /\ future[j] = "answered" => future'[j] = "answered" /\ reply'[j] = reply[j]
             /\ AnswersNow(j) \/ (future'[j] = "answered" => future[j] = "answered")
  <2>1. /\ future[k] \in {"result", "error"}
        /\ future' = [future EXCEPT ![k] = IF @ = "result" THEN "answered" ELSE "failed"]
        /\ reply' = reply \/ \E x : reply' = [reply EXCEPT ![k] = x]
    BY <1>4 DEF Conclude, Responded, Respond
  <2> QED
    BY <1>1, <1>4, <2>1 DEF AnswersNow
<1>5. ASSUME NEW k \in Jobs, Cancel(k), UNCHANGED reply
      PROVE  (future'[j] = "answered" <=> future[j] = "answered") /\ UNCHANGED reply
  BY <1>1, <1>5 DEF Cancel
<1>6. ASSUME UNCHANGED <<future, reply>>
      PROVE  (future'[j] = "answered" <=> future[j] = "answered") /\ UNCHANGED reply
  BY <1>6
<1>7. \/ \E k \in Jobs, r \in Requests : Arrive(k, r)
      \/ \E g \in GPUs : Resolve(g)
      \/ \E k \in Jobs : Conclude(k)
      \/ \E k \in Jobs : Cancel(k) /\ UNCHANGED reply
      \/ UNCHANGED <<future, reply>>
  <2>1. CASE \/ \E r \in Requests : TurnAway(r)
             \/ \E h \in Jobs, g \in GPUs : Send(h, g)
             \/ (\E k \in Jobs : Fired(k)) \/ Begin \/ Report \/ Over
             \/ UNCHANGED <<tracedVars, replyVars, benchVars>>
    BY <2>1 DEF TurnAway, Refused, Reject, Send, Dispatched, DispatchBatch, Fired, Begin, Report,
                Over, clientVars, vars, tracedVars, replyVars
  <2>2. CASE /\ Unmarked \/ Tick \/ \E g \in GPUs : Preempted(g) \/ WorkerRuns(g)
             /\ UNCHANGED <<replyVars, benchVars>>
    <3>1. UNCHANGED reply
      BY <2>2 DEF replyVars
    <3>2. UNCHANGED future \/ \E k \in Jobs : Cancel(k)
      BY <2>2
         DEF Unmarked, Tick, Preempted, OnPreempted, WorkerRuns, TimerFire, HoldBatch, Wake,
             FillDone, Evict, Age, Idle, gatewayVars, clientVars, vars, tracedVars
    <3> QED
      BY <3>1, <3>2
  <2> QED
    BY <2>1, <2>2 DEF BenchNext
<1> QED
  BY <1>2, <1>3, <1>4, <1>5, <1>6, <1>7

\* What an answer adds to the figures.
LEMMA AnswerCounted ==
  ASSUME Typed, counters \in Counters, RepliesTyped, NEW j \in Jobs, AnswersNow(j)
  PROVE  /\ j \notin Answered /\ Answered' = Answered \cup {j}
         /\ j \notin Met /\ j \notin Verdicts
         /\ stats'.completed = stats.completed + 1
         /\ \/ Met' = Met \cup {j} /\ counters'.slo_met = counters.slo_met + 1
            \/ Met' = Met /\ counters'.slo_met = counters.slo_met
         /\ \/ /\ Verdicts' = Verdicts \cup {j}
               /\ counters'.slo_met + counters'.slo_missed = counters.slo_met + counters.slo_missed + 1
            \/ /\ Verdicts' = Verdicts
               /\ counters'.slo_met + counters'.slo_missed = counters.slo_met + counters.slo_missed
<1>1. PICK b : b = BodyOf(j)
  OBVIOUS
<1>2. /\ future' = [future EXCEPT ![j] = "answered"] /\ future[j] = "result"
      /\ reply' = [reply EXCEPT ![j] = b] /\ counters' = Counted(b, job[j].queue)
      /\ stats' = [stats EXCEPT !.completed = @ + 1]
  BY <1>1 DEF AnswersNow, Conclude, Responded, Respond
<1>3. future \in [Jobs -> FutureState] /\ DOMAIN reply = Jobs
  BY DEF Typed, TypeOK, RepliesTyped
<1>4. /\ future'[j] = "answered" /\ reply'[j] = b
      /\ \A i \in Jobs : i # j => future'[i] = future[i] /\ reply'[i] = reply[i]
  BY <1>2, <1>3
<1>5. j \notin Answered /\ Answered' = Answered \cup {j} /\ j \notin Met /\ j \notin Verdicts
  BY <1>2, <1>4 DEF Answered, Met, Verdicts
<1>6. Met' = IF b.deadline_met = TRUE THEN Met \cup {j} ELSE Met
  BY <1>2, <1>4 DEF Met
<1>7. counters'.slo_met = IF b.deadline_met = TRUE THEN counters.slo_met + 1 ELSE counters.slo_met
  BY <1>2 DEF Counted, Counters
<1>8. stats'.completed = stats.completed + 1
  BY <1>2 DEF Typed, TypeOK
<1>9. b.deadline_met \in BOOLEAN \/ b.deadline_met = None
  <2>1. (Reading * (perf_counter - times[j].arrival) <= Tenth * SLO) \in BOOLEAN
    OBVIOUS
  <2> QED
    BY <1>1, <2>1 DEF BodyOf
<1>10. /\ Verdicts' = IF b.deadline_met = None THEN Verdicts ELSE Verdicts \cup {j}
       /\ counters'.slo_met + counters'.slo_missed
            = counters.slo_met + counters.slo_missed + (IF b.deadline_met = None THEN 0 ELSE 1)
  <2>1. Verdicts' = IF b.deadline_met = None THEN Verdicts ELSE Verdicts \cup {j}
    BY <1>2, <1>4 DEF Verdicts
  <2>2. PICK m, n : m = counters.slo_met /\ n = counters.slo_missed
    OBVIOUS
  <2>3. m \in Nat /\ n \in Nat
    BY <2>2 DEF Counters
  <2>4. /\ counters'.slo_met = IF b.deadline_met = TRUE THEN m + 1 ELSE m
        /\ counters'.slo_missed = IF b.deadline_met = FALSE THEN n + 1 ELSE n
    BY <1>2, <2>2 DEF Counted, Counters
  <2>5. CASE b.deadline_met = None
    <3>1. counters'.slo_met = m /\ counters'.slo_missed = n
      BY <2>4, <2>5, RowAssumption
    <3> QED
      BY <2>1, <2>2, <2>3, <2>5, <3>1
  <2>6. CASE b.deadline_met # None /\ b.deadline_met = TRUE
    <3>1. counters'.slo_met = m + 1 /\ counters'.slo_missed = n
      BY <2>4, <2>6
    <3> QED
      BY <2>1, <2>2, <2>3, <2>6, <3>1
  <2>7. CASE b.deadline_met # None /\ b.deadline_met = FALSE
    <3>1. counters'.slo_met = m /\ counters'.slo_missed = n + 1
      BY <2>4, <2>7
    <3>2. counters'.slo_met + counters'.slo_missed = m + n + 1
      BY <2>3, <3>1
    <3> QED
      BY <2>1, <2>2, <2>7, <3>2
  <2>8. b.deadline_met = TRUE \/ b.deadline_met = FALSE \/ b.deadline_met = None
    BY <1>9
  <2> QED
    BY <2>5, <2>6, <2>7, <2>8
<1>11. PICK v : v = b.deadline_met
  OBVIOUS
<1>12. counters.slo_met \in Nat /\ counters.slo_missed \in Nat
  BY DEF Counters
<1>13. \/ /\ Verdicts' = Verdicts \cup {j}
          /\ counters'.slo_met + counters'.slo_missed = counters.slo_met + counters.slo_missed + 1
       \/ /\ Verdicts' = Verdicts
          /\ counters'.slo_met + counters'.slo_missed = counters.slo_met + counters.slo_missed
  BY <1>10, <1>11, <1>12
<1> QED
  BY <1>5, <1>6, <1>7, <1>8, <1>13

\* A checkpoint is counted at its job and in the gateway; nothing else is.
LEMMA CountsNext ==
  ASSUME Settled, [Next]_vars
  PROVE  \/ \E k \in pending : /\ Counts' = [Counts EXCEPT ![k] = Counts[k] + 1]
                               /\ stats'.preemptions = stats.preemptions + 1
         \/ Counts' = Counts /\ stats'.preemptions = stats.preemptions
<1> USE DEF Settled
<1>1. CASE \E g \in GPUs : OnPreempted(g)
  <2>1. PICK g \in GPUs : OnPreempted(g)
    BY <1>1
  <2>2. PICK k : k = Head(response_q[g]).request_id
    OBVIOUS
  <2>3. /\ k \in Jobs /\ k \in pending /\ job[k] # None
        /\ job'[k].preempt_count = job[k].preempt_count + 1
        /\ \A i \in Jobs : i # k => job'[i] = job[i]
        /\ stats'.preemptions = stats.preemptions + 1
    BY <2>1, <2>2, CheckpointedJob, SentOutNext
  <2>4. job'[k] # None
    BY <2>3, JobsKeepIdentity DEF SameIdentity
  <2>5. Counts' = [Counts EXCEPT ![k] = Counts[k] + 1]
    BY <2>3, <2>4 DEF Counts
  <2> QED
    BY <2>3, <2>5
<1>2. CASE ~\E g \in GPUs : OnPreempted(g)
  <2>1. stats'.preemptions = stats.preemptions
    BY <1>2, SentOutNext
  <2>2. ASSUME NEW j \in Jobs
        PROVE  (IF job'[j] = None THEN 0 ELSE job'[j].preempt_count)
                 = IF job[j] = None THEN 0 ELSE job[j].preempt_count
    <3>1. ~Checkpointed(j)
      BY <1>2 DEF Checkpointed
    <3>2. CASE job[j] # None
      BY <3>1, <3>2, JobsKeepIdentity, JobsKeepProgress DEF SameIdentity, SameProgress
    <3>3. CASE job[j] = None /\ job'[j] # None
      <4>1. PICK r \in Requests : Generate(j, r)
        BY <3>1, <3>3, JobsAppear
      <4>2. job'[j] = NewJob(r)
        BY <4>1 DEF Generate, Admit, Typed, TypeOK, SchedTypeOK
      <4> QED
        BY <3>3, <4>2 DEF NewJob
    <3> QED
      BY <3>2, <3>3
  <2>3. Counts' = Counts
    BY <2>2 DEF Counts
  <2> QED
    BY <2>1, <2>3
<1> QED
  BY <1>1, <1>2

SameTallies ==
  /\ counters'.slo_met = counters.slo_met /\ counters'.slo_missed = counters.slo_missed
  /\ counters'.per_gpu_completed = counters.per_gpu_completed
  /\ counters'.per_queue_completed = counters.per_queue_completed

\* The counters of a step that answers nobody.
LEMMA CountersKept ==
  ASSUME Settled, counters \in Counters, [BenchNext]_<<tracedVars, replyVars, benchVars>>,
         \A j \in Jobs : ~AnswersNow(j)
  PROVE  stats'.completed = stats.completed /\ SameTallies
<1> USE DEF Settled, Typed, TypeOK
<1>1. CASE \E h \in Jobs, g \in GPUs : Send(h, g)
  <2>1. PICK h \in Jobs, g \in GPUs : Send(h, g)
    BY <1>1
  <2>2. PICK n : counters' = [counters EXCEPT !.batch_size_hist[n] = @ + 1]
    BY <2>1 DEF Send
  <2>3. SameTallies
    BY <2>2 DEF Counters, SameTallies
  <2>4. stats'.completed = stats.completed
    BY <2>1 DEF Send, Dispatched, DispatchBatch
  <2> QED
    BY <2>3, <2>4
<1>2. CASE \E j \in Jobs : Conclude(j)
  <2>1. PICK j \in Jobs : Conclude(j) /\ future[j] # "result"
    BY <1>2 DEF AnswersNow
  <2>2. UNCHANGED counters /\ stats' = [stats EXCEPT !.completed = @]
    BY <2>1 DEF Conclude, Responded, Respond
  <2> QED
    BY <2>2 DEF SameTallies
<1>3. CASE \E r \in Requests : TurnAway(r)
  <2>1. UNCHANGED counters /\ stats' = [stats EXCEPT !.rejected = @ + 1]
    BY <1>3 DEF TurnAway, Refused, Reject, replyVars
  <2> QED
    BY <2>1 DEF SameTallies
<1>4. CASE \E g \in GPUs : Preempted(g) /\ UNCHANGED replyVars
  <2>1. UNCHANGED counters /\ \E g \in GPUs : OnPreempted(g)
    BY <1>4 DEF Preempted, replyVars
  <2>2. stats' = [stats EXCEPT !.preemptions = @ + 1]
    BY <2>1, CheckpointedJob
  <2> QED
    BY <2>1, <2>2 DEF SameTallies
<1>5. CASE \/ \E j \in Jobs, r \in Requests : Arrive(j, r)
           \/ \E g \in GPUs : Resolve(g)
           \/ (\E j \in Jobs : Fired(j)) \/ Begin \/ Report \/ Over
           \/ /\ Unmarked \/ Tick \/ \E g \in GPUs : WorkerRuns(g)
              /\ UNCHANGED <<replyVars, benchVars>>
           \/ UNCHANGED <<tracedVars, replyVars, benchVars>>
  <2>1. UNCHANGED counters
    BY <1>5 DEF Arrive, Resolve, Fired, Begin, Report, Over, replyVars
  <2>2. UNCHANGED stats
    BY <1>5 DEF Arrive, Admitted, Generate, Resolve, Finished, OnFinished, Fired, Begin, Report,
                Over, Unmarked, Tick, WorkerRuns, Cancel, TimerFire, HoldBatch, Wake, FillDone,
                Evict, Age, Idle, gatewayVars, vars, tracedVars
  <2> QED
    BY <2>1, <2>2 DEF SameTallies
<1> QED
  BY <1>1, <1>2, <1>3, <1>4, <1>5 DEF BenchNext

\* Only the handler that turns a request away counts it.
LEMMA RejectedKept ==
  ASSUME Settled, [BenchNext]_<<tracedVars, replyVars, benchVars>>,
         ~\E r \in Requests : TurnAway(r)
  PROVE  stats'.rejected = stats.rejected
<1> USE DEF Settled, Typed, TypeOK
<1>1. CASE \E h \in Jobs, g \in GPUs : Send(h, g)
  <2>1. PICK b, n : stats' = [stats EXCEPT !.batches_dispatched = b, !.resumes = n]
    BY <1>1 DEF Send, Dispatched, DispatchBatch
  <2> QED
    BY <2>1
<1>2. CASE \E j \in Jobs : Conclude(j)
  <2>1. PICK n : stats' = [stats EXCEPT !.completed = n]
    BY <1>2 DEF Conclude, Responded, Respond
  <2> QED
    BY <2>1
<1>3. CASE \E g \in GPUs : Preempted(g)
  <2>1. stats' = [stats EXCEPT !.preemptions = @ + 1]
    BY <1>3, CheckpointedJob DEF Preempted
  <2> QED
    BY <2>1
<1>4. CASE \/ \E j \in Jobs, r \in Requests : Arrive(j, r)
           \/ \E g \in GPUs : Resolve(g)
           \/ (\E j \in Jobs : Fired(j)) \/ Begin \/ Report \/ Over
           \/ Unmarked \/ Tick \/ \E g \in GPUs : WorkerRuns(g)
           \/ UNCHANGED <<tracedVars, replyVars, benchVars>>
  <2>1. UNCHANGED stats
    BY <1>4 DEF Arrive, Admitted, Generate, Resolve, Finished, OnFinished, Fired, Begin, Report,
                Over, Unmarked, Tick, WorkerRuns, Cancel, TimerFire, HoldBatch, Wake, FillDone,
                Evict, Age, Idle, gatewayVars, vars, tracedVars
  <2> QED
    BY <2>1
<1> QED
  BY <1>1, <1>2, <1>3, <1>4 DEF BenchNext

LEMMA AnsweredKept ==
  ASSUME Settled, Stamped, RepliesTyped, [BenchNext]_<<tracedVars, replyVars, benchVars>>,
         \A j \in Jobs : ~AnswersNow(j)
  PROVE  Answered' = Answered /\ Met' = Met /\ Verdicts' = Verdicts
BY AnswersLast DEF Answered, Met, Verdicts

LEMMA TotalsNext ==
  ASSUME Settled, Stamped, RepliesTyped, counters \in Counters, Totals,
         [BenchNext]_<<tracedVars, replyVars, benchVars>>
  PROVE  Totals'
<1>1. Typed /\ [Next]_vars
  BY BenchStep, TracedStep DEF Settled
<1>2. stats'.preemptions = SumFunction(Counts')
  <2>1. CASE \E k \in pending : /\ Counts' = [Counts EXCEPT ![k] = Counts[k] + 1]
                                /\ stats'.preemptions = stats.preemptions + 1
    <3>1. PICK k, v : /\ k \in pending /\ v = Counts[k] + 1
                      /\ Counts' = [Counts EXCEPT ![k] = v]
                      /\ stats'.preemptions = stats.preemptions + 1
      BY <2>1
    <3>2. k \in Jobs /\ Counts \in [Jobs -> Int] /\ IsFiniteSet(Jobs) /\ v \in Int /\ Counts[k] \in Int
      BY <1>1, <3>1, TotalsTyped DEF Typed, TypeOK
    <3>3. SumFunction(Counts') = SumFunction(Counts) + (v - Counts[k]) /\ SumFunction(Counts) \in Int
      BY <3>1, <3>2, SumChanged
    <3>4. v - Counts[k] = 1
      BY <3>1, <3>2
    <3> QED
      BY <3>1, <3>3, <3>4 DEF Totals
  <2>2. CASE Counts' = Counts /\ stats'.preemptions = stats.preemptions
    BY <2>2 DEF Totals
  <2> QED
    BY <1>1, <2>1, <2>2, CountsNext
<1>3. /\ stats'.completed = Cardinality(Answered') /\ counters'.slo_met = Cardinality(Met')
      /\ counters'.slo_met + counters'.slo_missed = Cardinality(Verdicts')
  <2>1. CASE \E j \in Jobs : AnswersNow(j)
    <3>1. PICK j \in Jobs : AnswersNow(j)
      BY <2>1
    <3>2. /\ Cardinality(Answered \cup {j}) = Cardinality(Answered) + 1
          /\ Cardinality(Met \cup {j}) = Cardinality(Met) + 1
          /\ Cardinality(Verdicts \cup {j}) = Cardinality(Verdicts) + 1
      BY <1>1, <3>1, AnswerCounted, TotalsTyped, FS_AddElement
    <3> QED
      BY <1>1, <3>1, <3>2, AnswerCounted DEF Totals
  <2>2. CASE \A j \in Jobs : ~AnswersNow(j)
    BY <2>2, AnsweredKept, CountersKept DEF Totals, SameTallies
  <2> QED
    BY <2>1, <2>2
<1> QED
  BY <1>2, <1>3 DEF Totals

-----------------------------------------------------------------------------
(* A run and what was there before it *)

Open(j) == j \in pending \/ future[j] \in {"waiting", "result", "error"}
CountsElse == [j \in Jobs |-> IF j \in ours THEN 0 ELSE Counts[j]]

\* During a run the view it began with shows no more than the answers and the
\* preemptions of requests that are not its own, and just that if none was open;
\* then an attainment that is not shown means that none of the others' is judged.
BeforeTrue ==
  /\ before.stats.completed <= Cardinality(Answered \ ours)
  /\ before.stats.preemptions <= SumFunction(CountsElse)
  /\ before.open = {} =>
       /\ \A j \in Jobs \ ours : ~Open(j)
       /\ before.stats.completed = Cardinality(Answered \ ours)
       /\ before.stats.preemptions = SumFunction(CountsElse)
       /\ before.production_slo_attainment = None => Verdicts \ ours = {}

BenchTrue ==
  /\ bench = "before" => ours = {} /\ refused = 0
  /\ \A j \in ours : job[j] # None /\ (row[j] = "ok" => future[j] = "answered")
  /\ bench # "before" =>
       before \in View /\ refused = stats.rejected - before.stats.rejected /\ BeforeTrue
  /\ bench = "over" => Gathered /\ after = Stats

\* A request that is not open is not opened again.
LEMMA OpenedOnce ==
  ASSUME Settled, [Next]_vars, NEW j \in Jobs, ~Open(j), \A r \in Requests : ~Generate(j, r)
  PROVE  ~Open(j)'
<1>1. future \in [Jobs -> FutureState]
  BY DEF Settled, Typed, TypeOK
<1>2. CASE \E k \in Jobs, r \in Requests : Generate(k, r)
  <2>1. PICK k \in Jobs, r \in Requests : Generate(k, r)
    BY <1>2
  <2>2. k # j
    BY <2>1
  <2>3. pending' = pending \cup {k} /\ future' = [future EXCEPT ![k] = "waiting"]
    BY <2>1 DEF Generate
  <2> QED
    BY <1>1, <2>2, <2>3 DEF Open
<1>3. CASE \E g \in GPUs : OnFinished(g)
  <2>1. PICK g \in GPUs : OnFinished(g)
    BY <1>3
  <2>2. PICK k, v : /\ k = Head(response_q[g]).request_id
                    /\ v = IF future[k] = "waiting" THEN Head(response_q[g]).type ELSE future[k]
    OBVIOUS
  <2>3. k \in pending /\ k \in Jobs
    BY <2>1, <2>2, MessageOfPending DEF OnFinished, Settled
  <2>4. pending' = pending \ {k} /\ future' = [future EXCEPT ![k] = v]
    BY <2>1, <2>2, <2>3 DEF OnFinished
  <2> QED
    BY <1>1, <2>3, <2>4 DEF Open
<1>4. CASE \E k \in Jobs : Respond(k) \/ Cancel(k)
  <2>1. PICK k \in Jobs : Respond(k) \/ Cancel(k)
    BY <1>4
  <2>2. /\ UNCHANGED pending /\ future[k] \in {"waiting", "result", "error"}
        /\ \A i \in Jobs : i # k => future'[i] = future[i]
    BY <1>1, <2>1 DEF Respond, Cancel
  <2> QED
    BY <2>2 DEF Open
<1>5. CASE \/ \E r \in Requests : Reject(r)
           \/ \E k \in Jobs : TimerFire(k) \/ HoldBatch(k)
           \/ \E g \in GPUs : OnPreempted(g)
           \/ \E h \in Jobs, g \in GPUs : DispatchBatch(h, g)
           \/ Wake \/ FillDone \/ Evict \/ Age \/ Idle \/ UNCHANGED vars
           \/ \E g \in GPUs : (WorkerStep(g) \/ BatchError(g)) /\ UNCHANGED gatewayVars
  <2>1. UNCHANGED <<pending, future>>
    BY <1>5 DEF Reject, TimerFire, HoldBatch, OnPreempted, DispatchBatch, Wake, FillDone, Evict,
                Age, Idle, vars, gatewayVars, clientVars
  <2> QED
    BY <2>1 DEF Open
<1> QED
  BY <1>2, <1>3, <1>4, <1>5 DEF Next, Client, DispatcherStep

\* Whose request it is, and that it is new.
LEMMA OursNext ==
  ASSUME Typed, bench = "running", [BenchNext]_<<tracedVars, replyVars, benchVars>>
  PROVE  /\ ours \subseteq ours'
         /\ \A j \in ours' \ ours : j \in Jobs /\ job[j] = None
         /\ \A j \in Jobs, r \in Requests : Generate(j, r) => j \in ours'
<1>1. ASSUME NEW k \in Jobs, NEW r \in Requests, Arrive(k, r)
      PROVE  ours' = ours \cup {k} /\ job[k] = None /\ pending' = pending \cup {k}
  BY <1>1 DEF Arrive, Admitted, Generate
<1>2. ASSUME ~\E k \in Jobs, r \in Requests : Arrive(k, r)
      PROVE  ours' = ours /\ pending' \subseteq pending
  <2>1. ours' = ours
    BY <1>2 DEF BenchNext, TurnAway, Send, Resolve, Conclude, Fired, Begin, Report, Over,
                benchVars, replyVars
  <2>2. CASE \/ \E r \in Requests : TurnAway(r)
             \/ \E h \in Jobs, g \in GPUs : Send(h, g)
             \/ (\E k \in Jobs : Conclude(k) \/ Fired(k)) \/ Begin \/ Report \/ Over
             \/ UNCHANGED <<tracedVars, replyVars, benchVars>>
    BY <2>1, <2>2 DEF TurnAway, Refused, Reject, Send, Dispatched, DispatchBatch, Conclude, Responded,
                Respond, Fired, Begin, Report, Over, clientVars, vars, tracedVars
  <2>3. CASE \E g \in GPUs : Resolve(g)
    BY <2>1, <2>3 DEF Resolve, Finished, OnFinished, clientVars
  <2>4. CASE Unmarked \/ Tick \/ \E g \in GPUs : Preempted(g) \/ WorkerRuns(g)
    BY <2>1, <2>4 DEF Unmarked, Tick, Preempted, OnPreempted, WorkerRuns, Cancel, TimerFire, HoldBatch,
                Wake, FillDone, Evict, Age, Idle, gatewayVars, clientVars, vars
  <2> QED
    BY <1>2, <2>1, <2>2, <2>3, <2>4 DEF BenchNext
<1>3. ASSUME NEW j \in Jobs, NEW r \in Requests, Generate(j, r)
      PROVE  j \in ours'
  <2>1. job[j] = None /\ pending' = pending \cup {j}
    BY <1>3 DEF Generate
  <2>2. j \notin pending
    BY <2>1 DEF Typed, JobsExist
  <2>3. PICK k \in Jobs, q \in Requests : Arrive(k, q)
    BY <1>2, <2>1, <2>2
  <2> QED
    BY <1>1, <2>1, <2>2, <2>3
<1> QED
  BY <1>1, <1>2, <1>3

\* What a step of a run does to the others' figures: they do not shrink, and are
\* settled if none of the others' requests is open.
LEMMA ElseNext ==
  ASSUME Settled, Stamped, RepliesTyped, bench = "running",
         \A j \in ours : j \in Jobs /\ job[j] # None,
         [BenchNext]_<<tracedVars, replyVars, benchVars>>
  PROVE  /\ Answered \ ours \subseteq Answered' \ ours'
         /\ \A j \in Jobs : CountsElse[j] <= CountsElse'[j]
         /\ CountsElse \in [Jobs -> Int] /\ CountsElse' \in [Jobs -> Int]
         /\ (\A j \in Jobs \ ours : ~Open(j)) =>
              /\ \A j \in Jobs \ ours' : ~Open(j)'
              /\ Answered' \ ours' = Answered \ ours /\ Verdicts' \ ours' = Verdicts \ ours
              /\ CountsElse' = CountsElse
<1>1. Typed /\ [Next]_vars
  BY BenchStep, TracedStep DEF Settled
<1>2. /\ ours \subseteq ours'
      /\ \A j \in ours' \ ours : j \in Jobs /\ job[j] = None
      /\ \A j \in Jobs, r \in Requests : Generate(j, r) => j \in ours'
  BY <1>1, OursNext
<1>3. /\ Answered \ ours \subseteq Answered' \ ours'
      /\ Verdicts \ ours \subseteq Verdicts' \ ours'
  BY <1>2, AnswersLast DEF Answered, Verdicts, Stamped
<1>4. Counts \in [Jobs -> Nat] /\ \A k \in pending : k \in Jobs
  BY <1>1, TotalsTyped DEF Typed, TypeOK
<1>5. \/ \E k \in pending : Counts' = [Counts EXCEPT ![k] = Counts[k] + 1]
      \/ Counts' = Counts
  BY <1>1, CountsNext
<1>6. Counts' \in [Jobs -> Nat] /\ \A j \in Jobs : Counts[j] <= Counts'[j]
  BY <1>4, <1>5
<1>7. \A j \in Jobs : job[j] = None => Counts[j] = 0
  BY DEF Counts
<1>8. \A j \in Jobs : CountsElse[j] = (IF j \in ours THEN 0 ELSE Counts[j])
                      /\ CountsElse'[j] = (IF j \in ours' THEN 0 ELSE Counts'[j])
  BY DEF CountsElse
<1>9. CASE \E j \in Jobs \ ours : Open(j)
  <2>1. \A j \in Jobs : CountsElse[j] <= CountsElse'[j]
    BY <1>2, <1>4, <1>6, <1>7, <1>8
  <2>2. CountsElse \in [Jobs -> Int] /\ CountsElse' \in [Jobs -> Int]
    BY <1>4, <1>6 DEF CountsElse
  <2> QED
    BY <1>3, <1>9, <2>1, <2>2
<1>10. CASE \A j \in Jobs \ ours : ~Open(j)
  <2>1. \A j \in Jobs \ ours' : ~Open(j)'
    BY <1>1, <1>2, <1>10, OpenedOnce
  <2>2. \A j \in Jobs \ ours : ~AnswersNow(j)
    BY <1>10 DEF AnswersNow, Open
  <2>3. Answered' \ ours' = Answered \ ours /\ Verdicts' \ ours' = Verdicts \ ours
    BY <1>2, <1>3, <2>2, AnswersLast DEF Answered, Verdicts
  <2>4. \A k \in pending : k \in ours
    BY <1>4, <1>10 DEF Open
  <2>5. \A j \in Jobs \ ours : Counts'[j] = Counts[j]
    BY <1>4, <1>5, <2>4
  <2>6. \A j \in Jobs : CountsElse'[j] = CountsElse[j]
    BY <1>2, <1>7, <1>8, <2>5
  <2>7. CountsElse \in [Jobs -> Int] /\ CountsElse' \in [Jobs -> Int]
    BY <1>4, <1>6 DEF CountsElse
  <2>8. CountsElse' = CountsElse
    BY <2>6, <2>7
  <2>9. \A j \in Jobs : CountsElse[j] <= CountsElse'[j]
    BY <2>6, <2>7
  <2> HIDE DEF CountsElse
  <2> QED
    BY <1>3, <2>1, <2>3, <2>7, <2>8, <2>9
<1> QED
  BY <1>9, <1>10

LEMMA BeforeTrueNext ==
  ASSUME Settled, Stamped, RepliesTyped, bench = "running", before \in View, BeforeTrue,
         UNCHANGED before, \A j \in ours : j \in Jobs /\ job[j] # None,
         [BenchNext]_<<tracedVars, replyVars, benchVars>>
  PROVE  BeforeTrue'
<1> DEFINE A == Answered \ ours
           B == Answered' \ ours'
           M == Verdicts \ ours
           N == Verdicts' \ ours'
           quiet == \A j \in Jobs \ ours : ~Open(j)
           unjudged == before.production_slo_attainment = None
<1>1. /\ A \subseteq B
      /\ \A j \in Jobs : CountsElse[j] <= CountsElse'[j]
      /\ CountsElse \in [Jobs -> Int] /\ CountsElse' \in [Jobs -> Int]
      /\ quiet => /\ \A j \in Jobs \ ours' : ~Open(j)'
                  /\ B = A /\ N = M /\ CountsElse' = CountsElse
  BY ElseNext
<1>2. IsFiniteSet(Jobs)
  BY ConfigAssumption, FS_Interval DEF Jobs
<1>3. A \subseteq Jobs /\ B \subseteq Jobs
  BY DEF Answered
<1>4. IsFiniteSet(B) /\ Cardinality(B) \in Nat /\ Cardinality(A) \in Nat
  BY <1>2, <1>3, FS_Subset, FS_CardinalityType
<1>5. /\ before.stats.completed <= Cardinality(A)
      /\ before.stats.preemptions <= SumFunction(CountsElse)
      /\ before.open = {} => /\ quiet
                             /\ before.stats.completed = Cardinality(A)
                             /\ before.stats.preemptions = SumFunction(CountsElse)
                             /\ unjudged => M = {}
  BY DEF BeforeTrue
<1>6. before.stats.completed \in Int /\ before.stats.preemptions \in Int
  BY DEF View
<1> HIDE DEF A, B, M, N, quiet, CountsElse
<1>7. Cardinality(A) <= Cardinality(B)
  BY <1>1, <1>4, FS_Subset
<1>8. /\ SumFunction(CountsElse) \in Int /\ SumFunction(CountsElse') \in Int
      /\ SumFunction(CountsElse) <= SumFunction(CountsElse')
  BY <1>1, <1>2, SumGrows
<1>9. /\ before.stats.completed <= Cardinality(B)
      /\ before.stats.preemptions <= SumFunction(CountsElse')
  BY <1>4, <1>5, <1>6, <1>7, <1>8
<1>10. before.open = {} => /\ \A j \in Jobs \ ours' : ~Open(j)'
                           /\ before.stats.completed = Cardinality(B)
                           /\ before.stats.preemptions = SumFunction(CountsElse')
                           /\ unjudged => N = {}
  BY <1>1, <1>5
<1> QED
  BY <1>9, <1>10 DEF BeforeTrue, B, N

LEMMA BenchTrueNext ==
  ASSUME Settled, Stamped, RepliesTyped, counters \in Counters, RunTyped, Totals, BenchTrue,
         [BenchNext]_<<tracedVars, replyVars, benchVars>>
  PROVE  BenchTrue'
<1>1. Typed /\ [Next]_vars
  BY BenchStep, TracedStep DEF Settled
<1>2. \A j \in ours : j \in Jobs /\ job[j] # None /\ (row[j] = "ok" => future[j] = "answered")
  BY DEF BenchTrue, RunTyped
<1>3. CASE UNCHANGED <<tracedVars, replyVars, benchVars>>
  BY <1>3 DEF tracedVars, vars, schedVars, workerVars, clientVars, loopVars, traceVars, clockVars,
              replyVars, benchVars, BenchTrue, BeforeTrue, Answered, Verdicts, CountsElse, Counts, Open,
              Gathered, Stats
<1>4. CASE bench # "over" /\ BenchNext /\ ~UNCHANGED <<tracedVars, replyVars, benchVars>>
  <2>1. \A j \in ours' : job'[j] # None /\ (row'[j] = "ok" => future'[j] = "answered")
    <3>1. \A j \in Jobs : /\ job[j] # None => job'[j] # None
                          /\ future[j] = "answered" => future'[j] = "answered"
      BY <1>1, JobsKeepIdentity, AnswersLast DEF SameIdentity
    <3>2. CASE \E k \in Jobs, r \in Requests : Arrive(k, r)
      <4>1. PICK k \in Jobs, r \in Requests : Arrive(k, r)
        BY <3>2
      <4>2. job' = [job EXCEPT ![k] = NewJob(r)] /\ NewJob(r) \in Job
        BY <4>1, ConfigAssumption DEF Arrive, Admitted, Generate, Admit, NewJob, Job, Tenant, Shape
      <4>3. job'[k] # None
        BY <1>1, <4>2, NoneAssumption DEF Typed, TypeOK, SchedTypeOK
      <4>4. \/ UNCHANGED <<ours, row>>
            \/ ours' = ours \cup {k} /\ row' = [i \in ours \cup {k} |-> IF i = k THEN None ELSE row[i]]
        BY <4>1 DEF Arrive
      <4>5. \A j \in ours : j # k
        BY <1>2, <4>1 DEF Arrive, Admitted, Generate
      <4>6. k \in ours' \ ours => row'[k] = None
        BY <4>4
      <4>7. \A j \in ours' : j = k \/ (j \in ours /\ row'[j] = row[j])
        BY <4>4
      <4>8. None # "ok"
        BY RowAssumption
      <4> QED
        BY <1>2, <3>1, <4>3, <4>5, <4>6, <4>7, <4>8
    <3>3. CASE \E k \in Jobs : Fired(k)
      <4>1. PICK k \in Jobs : Fired(k)
        BY <3>3
      <4>2. /\ UNCHANGED ours /\ UNCHANGED future /\ DOMAIN row = ours
            /\ \E s \in {"ok", "rejected"} : /\ row' = [row EXCEPT ![k] = s]
                                             /\ s = "ok" => future[k] = "answered"
        BY <4>1 DEF Fired, RunTyped, tracedVars, vars, clientVars
      <4> QED
        BY <1>2, <3>1, <4>2
    <3>4. CASE UNCHANGED <<ours, row>>
      BY <1>2, <3>1, <3>4
    <3>5. \/ \E k \in Jobs, r \in Requests : Arrive(k, r)
          \/ \E k \in Jobs : Fired(k)
          \/ UNCHANGED <<ours, row>>
      BY <1>4 DEF BenchNext, TurnAway, Send, Resolve, Conclude, Begin, Report, Over, benchVars
    <3> QED
      BY <3>2, <3>3, <3>4, <3>5
  <2>2. CASE Begin
    <3>1. /\ bench = "before" /\ bench' = "running" /\ before' = Stats
          /\ UNCHANGED <<tracedVars, replyVars, ours, refused>>
      BY <2>2 DEF Begin
    <3>2. ours = {} /\ refused = 0
      BY <3>1 DEF BenchTrue
    <3>3. Answered' = Answered /\ Verdicts' = Verdicts /\ Counts' = Counts /\ UNCHANGED stats
          /\ \A j \in Jobs : Open(j)' <=> Open(j)
      BY <3>1
         DEF tracedVars, vars, clientVars, schedVars, replyVars, Answered, Verdicts, Counts, Open
    <3>4. CountsElse' = Counts
      <4>1. CountsElse' = [j \in Jobs |-> IF j \in ours' THEN 0 ELSE Counts'[j]]
        BY DEF CountsElse
      <4>2. Counts \in [Jobs -> Nat]
        BY <1>1, TotalsTyped
      <4> QED
        BY <3>1, <3>2, <3>3, <4>1, <4>2
    <3>5. before'.open = {} => \A j \in Jobs : ~Open(j)
      BY <3>1 DEF Stats, Open
    <3>6. before'.stats = stats /\ before' \in View
      BY <1>1, <3>1, StatsViewed DEF Stats
    <3>7. Answered' \ ours' = Answered /\ Verdicts' \ ours' = Verdicts
      BY <3>1, <3>2, <3>3
    <3>8. stats.completed \in Int /\ stats.preemptions \in Int /\ stats.rejected \in Int
      BY <1>1 DEF Typed, TypeOK
    <3>9. BeforeTrue'
      <4>1. /\ before'.stats.completed = Cardinality(Answered' \ ours')
            /\ before'.stats.preemptions = SumFunction(CountsElse')
        BY <3>4, <3>6, <3>7 DEF Totals
      <4>2. /\ before'.stats.completed <= before'.stats.completed
            /\ before'.stats.preemptions <= before'.stats.preemptions
        BY <3>6, <3>8
      <4>3. before'.open = {} => \A j \in Jobs \ ours' : ~Open(j)'
        BY <3>3, <3>5
      <4>4. before'.production_slo_attainment = None => Verdicts' \ ours' = {}
        <5>1. PICK met, of : met = counters.slo_met /\ of = met + counters.slo_missed
          OBVIOUS
        <5>2. met \in Nat /\ of \in Nat
          BY <5>1 DEF Counters
        <5>3. before'.production_slo_attainment = Attainment(met, of)
          BY <3>1, <5>1 DEF Stats
        <5>4. Attainment(met, of) = None => of = 0
          BY <5>2, AttainmentShown, NoTraceAssumption
        <5>5. of = Cardinality(Verdicts) /\ IsFiniteSet(Verdicts)
          BY <1>1, <5>1, TotalsTyped DEF Totals
        <5> QED
          BY <3>7, <5>3, <5>4, <5>5, FS_EmptySet
      <4> HIDE DEF CountsElse
      <4> QED
        BY <4>1, <4>2, <4>3, <4>4 DEF BeforeTrue
    <3>10. before' \in View /\ refused' = stats'.rejected - before'.stats.rejected
      BY <3>1, <3>2, <3>3, <3>6, <3>8
    <3> QED
      BY <2>1, <3>1, <3>9, <3>10 DEF BenchTrue
  <2>3. CASE bench = "before" /\ ~Begin
    <3>1. bench' = "before" /\ ours' = {} /\ refused' = 0
      BY <1>4, <2>3 DEF BenchNext, Arrive, TurnAway, Send, Resolve, Conclude, Fired, Report, Over,
                        benchVars, BenchTrue
    <3> QED
      BY <2>1, <3>1 DEF BenchTrue
  <2>4. CASE bench = "running"
    <3>1. before \in View /\ UNCHANGED before /\ bench' \in {"running", "over"}
      <4>1. UNCHANGED before /\ bench' \in {"running", "over"}
        BY <1>4, <2>4 DEF BenchNext, Arrive, TurnAway, Send, Resolve, Conclude, Fired, Begin, Report,
                          Over, benchVars
      <4>2. before \in View
        BY <2>4 DEF RunTyped, BenchTrue
      <4> QED
        BY <4>1, <4>2
    <3>2. BeforeTrue'
      BY <1>2, <2>4, <3>1, BeforeTrueNext DEF BenchTrue
    <3>3. refused' = stats'.rejected - before.stats.rejected
      <4>1. refused = stats.rejected - before.stats.rejected
        BY <2>4 DEF BenchTrue
      <4>2. refused \in Int /\ stats.rejected \in Int /\ before.stats.rejected \in Int
        BY <1>1, <3>1 DEF RunTyped, Typed, TypeOK, View
      <4>3. CASE \E r \in Requests : TurnAway(r)
        <5>1. refused' = refused + 1 /\ stats' = [stats EXCEPT !.rejected = @ + 1]
          BY <2>4, <4>3 DEF TurnAway, Refused, Reject
        <5>2. stats'.rejected = stats.rejected + 1
          BY <1>1, <5>1 DEF Typed, TypeOK
        <5> QED
          BY <4>1, <4>2, <5>1, <5>2
      <4>4. CASE ~\E r \in Requests : TurnAway(r)
        <5>1. UNCHANGED refused
          BY <1>4, <4>4 DEF BenchNext, Arrive, Send, Resolve, Conclude, Fired, Begin, Report, Over,
                            benchVars
        <5>2. stats'.rejected = stats.rejected
          BY <1>4, <4>4, RejectedKept DEF Settled
        <5> QED
          BY <4>1, <5>1, <5>2
      <4> QED
        BY <4>3, <4>4
    <3>4. bench' = "over" => Gathered' /\ after' = Stats'
      <4>1. bench' = "over" => Report
        BY <1>4, <2>4 DEF BenchNext, Arrive, TurnAway, Send, Resolve, Conclude, Fired, Begin, Over,
                          benchVars
      <4>2. Report => Gathered' /\ after' = Stats'
        BY DEF Report, Gathered, Stats, tracedVars, vars, clientVars, replyVars
      <4> QED
        BY <4>1, <4>2
    <3> QED
      BY <2>1, <3>1, <3>2, <3>3, <3>4 DEF BenchTrue
  <2> QED
    BY <1>4, <2>2, <2>3, <2>4 DEF RunTyped
<1> QED
  BY <1>3, <1>4 DEF BenchNext, Over

\* Nothing is counted and no run has begun at the start.
LEMMA BenchTrueInit == BenchInit => Totals /\ BenchTrue
<1> SUFFICES ASSUME BenchInit PROVE Totals /\ BenchTrue
  OBVIOUS
<1>1. Init /\ \A j \in Jobs : job[j] = None /\ future[j] = "none"
  BY DEF BenchInit, TracingInit, Init, SchedInit
<1>2. Answered = {} /\ Met = {} /\ Verdicts = {}
  BY <1>1 DEF Answered, Met, Verdicts
<1>3. IsFiniteSet(Jobs) /\ Counts \in [Jobs -> Int] /\ \A j \in Jobs : Counts[j] = 0
  BY <1>1, ConfigAssumption, FS_Interval DEF Jobs, Counts
<1>4. SumFunction(Counts) = 0
  BY <1>3, SumOfZeros
<1>5. /\ stats.completed = 0 /\ stats.preemptions = 0
      /\ counters.slo_met = 0 /\ counters.slo_missed = 0
  BY <1>1 DEF BenchInit, Init
<1>6. Totals
  BY <1>2, <1>4, <1>5, FS_EmptySet DEF Totals
<1>7. BenchTrue
  BY DEF BenchInit, BenchTrue
<1> QED
  BY <1>6, <1>7

\* What is left of a whole of which a part is known.
LEMMA Remainder ==
  ASSUME IsFiniteSet(Jobs), NEW A \in SUBSET Jobs, NEW O \in SUBSET Jobs,
         NEW R \in SUBSET O, R \subseteq A
  PROVE  /\ Cardinality(A) \in Nat /\ Cardinality(A \ O) \in Nat /\ Cardinality(R) \in Nat
         /\ Cardinality(R) <= Cardinality(A) - Cardinality(A \ O)
         /\ R = O => Cardinality(R) = Cardinality(A) - Cardinality(A \ O)
<1>1. IsFiniteSet(A) /\ IsFiniteSet(A \ O) /\ IsFiniteSet(R) /\ IsFiniteSet(A \cap O)
  BY FS_Subset
<1>2. /\ Cardinality(A) \in Nat /\ Cardinality(A \ O) \in Nat /\ Cardinality(R) \in Nat
      /\ Cardinality(A \cap O) \in Nat
  BY <1>1, FS_CardinalityType
<1>3. Cardinality(A \ O) = Cardinality(A) - Cardinality(A \cap O)
  BY <1>1, FS_Difference
<1>4. R \subseteq A \cap O
  OBVIOUS
<1>5. Cardinality(R) <= Cardinality(A \cap O)
  BY <1>1, <1>4, FS_Subset
<1>6. R = O => Cardinality(R) = Cardinality(A \cap O)
  <2>1. R = O => R = A \cap O
    OBVIOUS
  <2> QED
    BY <2>1
<1>7. PICK a, b, c, r : /\ a = Cardinality(A) /\ b = Cardinality(A \ O)
                        /\ c = Cardinality(A \cap O) /\ r = Cardinality(R)
  OBVIOUS
<1>8. r <= a - b /\ (R = O => r = a - b)
  BY <1>2, <1>3, <1>5, <1>6, <1>7
<1> QED
  BY <1>2, <1>7, <1>8

\* The preemptions of a run's rows, of what was sent in a run, and of everything.
LEMMA CountsOfRows ==
  ASSUME Typed, ours \subseteq Jobs, NEW R \in SUBSET ours, \A j \in ours : job[j] # None
  PROVE  LET p == SumFunction([j \in R |-> job[j].preempt_count])
         IN  /\ p \in Int /\ SumFunction(Counts) \in Int /\ SumFunction(CountsElse) \in Int
             /\ p <= SumFunction(Counts) - SumFunction(CountsElse)
             /\ R = ours => p = SumFunction(Counts) - SumFunction(CountsElse)
<1>1. IsFiniteSet(Jobs) /\ Counts \in [Jobs -> Int] /\ \A j \in Jobs : Counts[j] >= 0
  BY TotalsTyped
<1>2. \A j \in R : job[j].preempt_count = Counts[j]
  BY DEF Counts
<1>3. PICK p, q, s, t, z :
        /\ p = SumFunction([j \in R |-> Counts[j]]) /\ q = SumFunction([j \in Jobs \ R |-> Counts[j]])
        /\ s = SumFunction([j \in ours |-> CountsElse[j]])
        /\ t = SumFunction([j \in Jobs \ ours |-> CountsElse[j]])
        /\ z = SumFunction([j \in Jobs \ ours |-> Counts[j]])
  OBVIOUS
<1>4. \A j \in Jobs : CountsElse[j] = IF j \in ours THEN 0 ELSE Counts[j]
  BY DEF CountsElse
<1>5. CountsElse \in [Jobs -> Int]
  BY <1>1 DEF CountsElse
<1> HIDE DEF Counts, CountsElse
<1>6. SumFunction(Counts) = p + q /\ p \in Int /\ q \in Int
  <2>1. R \in SUBSET Jobs
    OBVIOUS
  <2> QED
    BY <1>1, <1>3, <2>1, SumParts
<1>7. SumFunction(CountsElse) = s + t /\ s \in Int /\ t \in Int
  BY <1>1, <1>3, <1>5, SumParts
<1>8. s = 0
  <2>1. [j \in ours |-> CountsElse[j]] \in [ours -> Int] /\ \A j \in ours : CountsElse[j] = 0
    BY <1>4
  <2> QED
    BY <1>1, <1>3, <2>1, FS_Subset, SumOfZeros
<1>9. t = z
  <2>1. [j \in Jobs \ ours |-> CountsElse[j]] = [j \in Jobs \ ours |-> Counts[j]]
    BY <1>4
  <2> QED
    BY <1>3, <2>1
<1>10. R = ours => q = z
  BY <1>3
<1>11. t <= q
  <2>1. PICK C : C = Jobs \ R
    OBVIOUS
  <2> DEFINE f == [j \in C |-> IF j \in ours THEN 0 ELSE Counts[j]]
             h == [j \in C |-> Counts[j]]
  <2>2. IsFiniteSet(C) /\ f \in [C -> Int] /\ h \in [C -> Int] /\ \A j \in C : f[j] <= h[j]
    BY <1>1, <2>1, FS_Subset
  <2>3. SumFunction(f) <= SumFunction(h) /\ SumFunction(h) = q
    BY <1>3, <2>1, <2>2, SumGrows
  <2>4. PICK E : E = Jobs \ ours
    OBVIOUS
  <2>5. E \in SUBSET C /\ \A j \in E : f[j] = Counts[j]
    BY <2>1, <2>4
  <2>6. \A j \in C \ E : f[j] = 0
    BY <2>1, <2>4
  <2>7. SumFunction(f) = SumFunction([j \in E |-> f[j]]) + SumFunction([j \in C \ E |-> f[j]])
        /\ SumFunction([j \in E |-> f[j]]) \in Int
    <3> HIDE DEF f
    <3> QED
      BY <2>2, <2>5, SumParts
  <2>8. [j \in E |-> f[j]] = [j \in E |-> Counts[j]]
    BY <2>5
  <2>9. SumFunction([j \in C \ E |-> f[j]]) = 0
    <3>1. [j \in C \ E |-> f[j]] \in [C \ E -> Int] /\ IsFiniteSet(C \ E)
      BY <2>2, <2>6, FS_Subset
    <3> HIDE DEF f
    <3> QED
      BY <2>6, <3>1, SumOfZeros
  <2> HIDE DEF f, h
  <2>10. SumFunction(f) = z
    BY <1>3, <2>4, <2>7, <2>8, <2>9
  <2> QED
    BY <1>9, <2>3, <2>10
<1>12. [j \in R |-> job[j].preempt_count] = [j \in R |-> Counts[j]]
  BY <1>2
<1>13. SumFunction([j \in R |-> job[j].preempt_count]) = p
  BY <1>3, <1>12
<1>14. /\ p <= (p + q) - (s + t)
       /\ R = ours => p = (p + q) - (s + t)
  BY <1>6, <1>7, <1>8, <1>9, <1>10, <1>11
<1> QED
  BY <1>6, <1>7, <1>13, <1>14

\* What GET /stats counts and what is known of a run, always.
LEMMA BenchTrueAlways == BenchSpec => [](Totals /\ BenchTrue)
<1>1. Settled /\ Stamped /\ WellTimed /\ counters \in Counters /\ Totals /\ BenchTrue
      /\ [BenchNext]_<<tracedVars, replyVars, benchVars>> => Totals' /\ BenchTrue'
  BY TotalsNext, BenchTrueNext DEF WellTimed
<1> QED
  BY <1>1, BenchTrueInit, BenchIsTraced, TracedIsGateway, SettledAlways, StampedAlways,
     DispatchesBalance, BenchTyped, PTL DEF BenchSpec

\* The rows a run wrote and the two views it took of the gateway's counters tell
\* the same story, whatever other clients had open and whatever was rejected or
\* cancelled: the views never show less, and the same if nothing else could count,
\* the attainment to the half thousandth it is shown to
\* (bench.py, fire and main; gateway.py, GET /stats).
THEOREM RunTotalsAlwaysTrue == BenchSpec => []RunTotalsTrue
<1>1. ASSUME Settled, WellTimed, counters \in Counters, Totals, BenchTrue
      PROVE  RunTotalsTrue
  <2> DEFINE preempted == SumFunction([j \in Rows("ok") |-> job[j].preempt_count])
             grown == after.stats.completed - before.stats.completed
             shown == after.production_slo_attainment
             n == Cardinality(judged)
  <2> SUFFICES ASSUME bench = "over"
               PROVE  /\ completed <= grown /\ preempted <= preempts
                      /\ refused = after.stats.rejected - before.stats.rejected
                      /\ before.open = {} /\ Rows("rejected") = {} =>
                           /\ completed = grown /\ preempted = preempts
                           /\ before.production_slo_attainment = None =>
                                IF n = 0 THEN shown = None
                                ELSE shown # None /\ 2 * (n * shown - 1000 * slo_met) \in -n..n
    BY DEF RunTotalsTrue
  <2>1. /\ Gathered /\ after = Stats /\ BeforeTrue /\ before \in View
        /\ refused = stats.rejected - before.stats.rejected
        /\ \A j \in ours : job[j] # None /\ (row[j] = "ok" => future[j] = "answered")
    BY <1>1 DEF BenchTrue
  <2>2. ours \in SUBSET Jobs /\ row \in [ours -> {"ok", "rejected", None}] /\ Typed
    BY <1>1 DEF WellTimed, RunTyped, Settled
  <2>3. IsFiniteSet(Jobs) /\ Answered \in SUBSET Jobs
    BY <2>2, TotalsTyped DEF Answered
  <2>4. PICK R : R = Rows("ok")
    OBVIOUS
  <2>5. R \in SUBSET ours /\ R \subseteq Answered
    BY <2>1, <2>2, <2>4 DEF Rows, Answered
  <2>6. Rows("rejected") = {} => R = ours
    BY <2>1, <2>2, <2>4 DEF Rows, Gathered
  <2>7. PICK cr, p : /\ cr = Cardinality(R)
                     /\ p = SumFunction([j \in R |-> job[j].preempt_count])
    OBVIOUS
  <2>8. /\ cr \in Nat /\ Cardinality(Answered \ ours) \in Nat /\ stats.completed \in Nat
        /\ cr <= stats.completed - Cardinality(Answered \ ours)
        /\ R = ours => cr = stats.completed - Cardinality(Answered \ ours)
    BY <1>1, <2>2, <2>3, <2>5, <2>7, Remainder DEF Totals
  <2>9. /\ p \in Int /\ stats.preemptions \in Int /\ SumFunction(CountsElse) \in Int
        /\ p <= stats.preemptions - SumFunction(CountsElse)
        /\ R = ours => p = stats.preemptions - SumFunction(CountsElse)
    BY <1>1, <2>1, <2>2, <2>5, <2>7, CountsOfRows DEF Totals
  <2>10. PICK a, c, bc, bp : /\ a = Cardinality(Answered \ ours) /\ c = SumFunction(CountsElse)
                             /\ bc = before.stats.completed /\ bp = before.stats.preemptions
    OBVIOUS
  <2>11. /\ bc <= a /\ bp <= c /\ bc \in Int /\ bp \in Int
         /\ before.open = {} => bc = a /\ bp = c
    BY <2>1, <2>10 DEF BeforeTrue, View
  <2>12. /\ completed = cr /\ preempted = p /\ preempts = stats.preemptions - bp
         /\ grown = stats.completed - bc
         /\ refused = after.stats.rejected - before.stats.rejected
    BY <2>1, <2>4, <2>7, <2>10 DEF completed, preempts, Stats
  <2>13. /\ cr <= stats.completed - bc /\ p <= stats.preemptions - bp
         /\ before.open = {} /\ R = ours => /\ cr = stats.completed - bc
                                            /\ p = stats.preemptions - bp
    BY <2>8, <2>9, <2>10, <2>11
  <2>14. ASSUME before.open = {}, R = ours, before.production_slo_attainment = None
         PROVE  IF n = 0 THEN shown = None
                ELSE shown # None /\ 2 * (n * shown - 1000 * slo_met) \in -n..n
    <3>1. Verdicts \subseteq ours
      BY <2>1, <2>14 DEF BeforeTrue
    <3>2. judged = Verdicts
      BY <2>2, <2>4, <2>5, <2>14, <3>1 DEF judged, Verdicts, Answered
    <3>3. \A j \in judged : reply[j].deadline_met = TRUE \/ reply[j].deadline_met = FALSE
      BY <1>1, <3>2 DEF WellTimed, RepliesTyped, Body, Verdicts
    <3>4. {j \in judged : reply[j].deadline_met} = Met
      <4>1. {j \in judged : reply[j].deadline_met} = {j \in judged : reply[j].deadline_met = TRUE}
        BY <3>3
      <4>2. {j \in Verdicts : reply[j].deadline_met = TRUE} = Met
        BY RowAssumption DEF Verdicts, Met
      <4> QED
        BY <3>2, <4>1, <4>2
    <3>5. PICK met \in Nat, of \in Nat : met = counters.slo_met /\ of = met + counters.slo_missed
      BY <1>1 DEF Counters
    <3>6. n = of /\ slo_met = met /\ shown = Attainment(met, of)
      BY <1>1, <2>1, <3>2, <3>4, <3>5 DEF slo_met, Totals, Stats
    <3>7. of # 0 => 2 * (of * Attainment(met, of) - 1000 * met) \in -of..of
      <4>1. ASSUME of # 0
            PROVE  2 * (of * Attainment(met, of) - 1000 * met) \in -of..of
        <5>1. PICK v : v = Attainment(met, of)
          OBVIOUS
        <5>2. v \in Nat /\ Near(v, 1000 * met, of)
          BY <4>1, <5>1, AttainmentShown
        <5>3. PICK w \in Nat, m \in Nat : w = of * v /\ m = 1000 * met
          BY <5>2
        <5>4. 2 * w <= 2 * m + of /\ 2 * m <= 2 * w + of
          BY <5>3, <5>2 DEF Near
        <5>5. 2 * (w - m) \in -of..of
          BY <5>4
        <5> QED
          BY <5>1, <5>3, <5>5
      <4> QED
        BY <4>1
    <3>8. (of = 0 => Attainment(met, of) = None) /\ (of # 0 => Attainment(met, of) # None)
      BY AttainmentShown, NoTraceAssumption
    <3> HIDE DEF n, shown
    <3> QED
      BY <3>6, <3>7, <3>8
  <2> HIDE DEF preempted, grown, n, shown
  <2> QED
    BY <2>6, <2>12, <2>13, <2>14
<1> QED
  BY <1>1, BenchIsTraced, TracedIsGateway, SettledAlways, BenchTyped, DispatchesBalance,
     BenchTrueAlways, PTL

-----------------------------------------------------------------------------
(* The counters and the traces *)

Told == {"result", "answered", "cancelled"}

\* Nobody has been told of a job that has not ended; of one that ended in a
\* result somebody was, or is about to be, or has gone away; and its trace
\* counts as many preemptions as the job itself.
PendingUntold == \A j \in pending : future[j] \in {"waiting", "cancelled"}
EntryCounted(d) ==
  /\ d.trace.preempts = job[d.trace.rid].preempt_count
  /\ d.spans.ok => future[d.trace.rid] \in Told
EntriesCounted == PendingUntold /\ \A k \in DOMAIN done : EntryCounted(done[k])

\* What can become of a job's place among those that have not ended, and of its future.
LEMMA FuturesNext ==
  ASSUME Settled, [Next]_vars, NEW j \in Jobs
  PROVE  \/ job[j] = None /\ future'[j] = "waiting"
         \/ j \in pending /\ j \notin pending' /\ future[j] = "waiting"
         \/ /\ j \in pending' => j \in pending
            /\ \/ future'[j] \in {future[j], "cancelled"}
               \/ future[j] = "result" /\ future'[j] = "answered"
               \/ future[j] = "error" /\ future'[j] = "failed"
<1> USE DEF Settled
<1>1. future \in [Jobs -> FutureState]
  BY DEF Typed, TypeOK
<1>2. CASE \E k \in Jobs, r \in Requests : Generate(k, r)
  <2>1. PICK k \in Jobs : /\ job[k] = None /\ pending' = pending \cup {k}
                          /\ future' = [future EXCEPT ![k] = "waiting"]
    BY <1>2 DEF Generate
  <2> QED
    BY <1>1, <2>1
<1>3. CASE \E k \in Jobs : Respond(k)
  <2>1. PICK k \in Jobs :
          /\ future[k] \in {"result", "error"} /\ UNCHANGED pending
          /\ future' = [future EXCEPT ![k] = IF @ = "result" THEN "answered" ELSE "failed"]
    BY <1>3 DEF Respond
  <2> QED
    BY <1>1, <2>1
<1>4. CASE \E k \in Jobs : Cancel(k)
  <2>1. PICK k \in Jobs : UNCHANGED pending /\ future' = [future EXCEPT ![k] = "cancelled"]
    BY <1>4 DEF Cancel
  <2> QED
    BY <1>1, <2>1
<1>5. CASE \E g \in GPUs : OnFinished(g)
  <2>1. PICK g \in GPUs, k \in Jobs :
          /\ k = Head(response_q[g]).request_id /\ OnFinished(g) /\ k \in pending
          /\ pending' = pending \ {k}
    BY <1>5, MessageOfPending, PlacedOnFinished DEF OnFinished
  <2>2. future' = [future EXCEPT ![k] = IF @ = "waiting" THEN Head(response_q[g]).type ELSE @]
    BY <2>1 DEF OnFinished
  <2> QED
    BY <1>1, <2>1, <2>2
<1>6. CASE UNCHANGED <<future, pending>>
  BY <1>6
<1>7. \/ \E k \in Jobs, r \in Requests : Generate(k, r)
      \/ \E k \in Jobs : Respond(k) \/ Cancel(k)
      \/ \E g \in GPUs : OnFinished(g)
      \/ UNCHANGED <<future, pending>>
  BY DEF Next, Client, Reject, TimerFire, OnPreempted, DispatcherStep, DispatchBatch, HoldBatch,
         Wake, FillDone, Evict, Age, Idle, gatewayVars, clientVars, vars
<1> QED
  BY <1>2, <1>3, <1>4, <1>5, <1>6, <1>7

\* Only the end of a job puts anything into the buffer.
LEMMA BufferKept ==
  ASSUME Settled, YieldTrue, TracesTell, [TracingNext \/ Tick]_tracedVars,
         \A g \in GPUs : ~Finished(g)
  PROVE  UNCHANGED done
<1>1. [Next]_vars
  BY TracedStep
<1>2. CASE \/ \E j \in Jobs, r \in Requests : Admitted(j, r)
           \/ \E h \in Jobs, g \in GPUs : Dispatched(h, g)
           \/ \E g \in GPUs : Preempted(g) \/ WorkerRuns(g)
  BY <1>2 DEF Admitted, MarkAdmitted, Dispatched, MarkDispatched, Preempted, MarkPreempted,
              WorkerRuns, traceVars
<1>3. CASE \/ \E r \in Requests : Refused(r)
           \/ \E j \in Jobs : Responded(j)
           \/ Unmarked \/ Tick \/ UNCHANGED tracedVars
  BY <1>3 DEF Refused, Responded, Unmarked, Tick, traceVars, tracedVars
<1> QED
  BY <1>2, <1>3 DEF TracingNext

\* An entry stays accounted for while others come and go.
LEMMA EntryStaysCounted ==
  ASSUME Settled, [Next]_vars, NEW d \in FinishedTrace, d.trace.rid \in Ended, EntryCounted(d)
  PROVE  EntryCounted(d)'
<1> USE DEF Settled
<1>1. PICK j : j = d.trace.rid
  OBVIOUS
<1>2. j \in Jobs /\ job[j] # None /\ j \notin pending
  BY <1>1 DEF Ended
<1>3. ~Checkpointed(j)
  BY <1>2, CheckpointedJob DEF Checkpointed
<1>4. job'[j].preempt_count = job[j].preempt_count
  BY <1>2, <1>3, JobsKeepProgress DEF SameProgress
<1>5. future[j] \in Told => future'[j] \in Told
  BY <1>2, FuturesNext DEF Told
<1> QED
  BY <1>1, <1>4, <1>5 DEF EntryCounted

LEMMA EntriesCountedNext ==
  ASSUME Settled, YieldTrue, TracesTell, DoneTrue, EntriesCounted,
         [TracingNext \/ Tick]_tracedVars
  PROVE  EntriesCounted'
<1> USE DEF Settled
<1>1. [Next]_vars
  BY TracedStep
<1>2. PendingUntold'
  <2> SUFFICES ASSUME NEW j \in pending' PROVE future'[j] \in {"waiting", "cancelled"}
    BY DEF PendingUntold
  <2>1. j \in Jobs
    <3>1. pending' \subseteq Jobs
      BY <1>1, TypedNext DEF Typed, TypeOK
    <3> QED
      BY <3>1
  <2> QED
    BY <1>1, <2>1, FuturesNext DEF EntriesCounted, PendingUntold
<1>3. ASSUME NEW d \in FinishedTrace, \E k \in DOMAIN done : d = done[k]
      PROVE  EntryCounted(d)'
  <2>1. d.trace.rid \in Ended /\ EntryCounted(d)
    BY <1>3 DEF DoneTrue, EntriesCounted
  <2> QED
    BY <1>1, <2>1, EntryStaysCounted
<1>4. \A k \in DOMAIN done : done[k] \in FinishedTrace
  BY ElementOfSeq, LenProperties DEF DoneTrue
<1>5. CASE \A g \in GPUs : ~Finished(g)
  <2>1. UNCHANGED done
    BY <1>5, BufferKept
  <2> QED
    BY <1>2, <1>3, <1>4, <2>1 DEF EntriesCounted, EntryCounted
<1>6. CASE \E g \in GPUs : Finished(g)
  <2>1. PICK g \in GPUs : Finished(g)
    BY <1>6
  <2>2. PICK m, j, tr, t, e : /\ m = Head(response_q[g]) /\ j = m.request_id /\ tr = active[j]
                              /\ t = worker_clock[g]
                              /\ e = [trace |-> tr, spans |-> SpansOf(tr, m, t)]
    OBVIOUS
  <2>3. /\ OnFinished(g) /\ MarkComplete(m, t) /\ response_q[g] # <<>> /\ UNCHANGED <<perf_counter, job>>
    BY <2>1, <2>2 DEF Finished, clockVars, OnFinished, TakeResponse
  <2>4. j \in pending /\ j \in Jobs /\ TraceTrue(j) /\ Finish(tr, m, t)
    <3>1. j \in pending /\ TraceTrue(j) /\ Finish(tr, m, t)
      BY <1>1, <2>2, <2>3, TracesFinished DEF TracesTell
    <3> QED
      BY <3>1 DEF Typed, TypeOK
  <2>5. e \in FinishedTrace /\ e.trace = tr /\ e.spans = SpansOf(tr, m, t) /\ tr.rid = j
    BY <2>2, <2>3, <2>4, SpansOfFinished
  <2>6. tr.preempts = job[j].preempt_count
    BY <2>2, <2>4 DEF TraceTrue, Story
  <2>7. e.spans.ok => future'[j] \in Told
    <3>1. e.spans.ok = (m.type = "result")
      BY <2>5 DEF SpansOf
    <3>2. future[j] \in {"waiting", "cancelled"} /\ future \in [Jobs -> FutureState]
      BY <2>4 DEF EntriesCounted, PendingUntold, Typed, TypeOK
    <3>3. future' = [future EXCEPT ![j] = IF @ = "waiting" THEN m.type ELSE @]
      BY <2>2, <2>3, <2>4 DEF OnFinished
    <3> QED
      BY <2>4, <3>1, <3>2, <3>3 DEF Told
  <2>8. EntryCounted(e)'
    BY <2>3, <2>5, <2>6, <2>7 DEF EntryCounted
  <2>9. PICK old, q : old = done /\ q = Kept(Append(done, e))
    OBVIOUS
  <2>10. done' = q /\ \A k \in DOMAIN q : q[k] = e \/ \E l \in DOMAIN old : q[k] = old[l]
    <3>1. old \in Seq(FinishedTrace) /\ Len(old) <= keep_done
      BY <2>9, EndedFinite, KeepAssumption DEF DoneTrue, Smaller
    <3>2. q = Kept(Append(old, e)) /\ e \in FinishedTrace
      BY <2>5, <2>9
    <3> QED
      BY <2>2, <2>4, <2>9, <3>1, <3>2, KeptEntries DEF Finish
  <2>11. ASSUME NEW k \in DOMAIN done' PROVE EntryCounted(done[k])'
    <3>1. PICK d : d = done'[k]
      OBVIOUS
    <3>2. d = e \/ (d \in FinishedTrace /\ \E l \in DOMAIN done : d = done[l])
      BY <1>4, <2>9, <2>10, <3>1
    <3>3. EntryCounted(d)'
      BY <1>3, <2>8, <3>2
    <3> QED
      BY <3>1, <3>3
  <2> QED
    BY <1>2, <2>11 DEF EntriesCounted, EntryCounted
<1> QED
  BY <1>5, <1>6

LEMMA EntriesAlwaysCounted == TimedSpec => []EntriesCounted
<1>1. TracingInit => EntriesCounted
  <2> SUFFICES ASSUME TracingInit PROVE EntriesCounted
    OBVIOUS
  <2>1. pending = {} /\ done = <<>> /\ DOMAIN <<>> = {}
    BY EmptySeq DEF TracingInit, Init
  <2> QED
    BY <2>1 DEF EntriesCounted, PendingUntold
<1>2. Settled /\ YieldTrue /\ TracesTell /\ DoneTrue /\ EntriesCounted
      /\ [TracingNext \/ Tick]_tracedVars => EntriesCounted'
  BY EntriesCountedNext
<1> QED
  BY <1>1, <1>2, TracedIsGateway, TracesAlwaysTell, DoneAlwaysTrue, BatchesYieldTruly, PTL
     DEF TimedSpec

\* Those of a class whose caller has its response.
AnsweredOf(c) == {j \in Answered : job[j].queue = c}

\* What the handlers have counted, GPU by GPU, class by class and by deadline.
Tallied ==
  /\ stats.completed = SumFunction(counters.per_gpu_completed)
  /\ stats.completed = SumFunction(counters.per_queue_completed)
  /\ counters.slo_met + counters.slo_missed = counters.per_queue_completed["production"]
  /\ \A c \in Class : counters.per_queue_completed[c] = Cardinality(AnsweredOf(c))

\* One more on one count is one more in all.
LEMMA OneMoreInAll ==
  ASSUME NEW D, NEW f, NEW x, NEW h, NEW v,
         IsFiniteSet(D), f \in [D -> Int], x \in D, v = f[x] + 1, h = [f EXCEPT ![x] = v]
  PROVE  SumFunction(f) \in Int /\ SumFunction(h) = SumFunction(f) + 1
<1>1. v \in Int /\ v - f[x] = 1
  OBVIOUS
<1>2. SumFunction(f) \in Int
  BY SumChanged, <1>1
<1>3. SumFunction(h) = SumFunction(f) + (v - f[x])
  BY SumChanged, <1>1
<1> QED
  BY <1>1, <1>2, <1>3

\* An answer counts once on its GPU, in its class and, of production, as met or missed.
LEMMA AnswerTallied ==
  ASSUME Settled, Stamped, ReplyTrue, TimesTrue, RepliesTyped, counters \in Counters,
         perf_counter \in Time, NEW j \in Jobs, AnswersNow(j)
  PROVE  /\ job[j] # None /\ job[j].queue \in Class /\ UNCHANGED job
         /\ \E g \in GPUs : counters'.per_gpu_completed =
              [counters.per_gpu_completed EXCEPT ![g] = counters.per_gpu_completed[g] + 1]
         /\ counters'.per_queue_completed =
              [counters.per_queue_completed EXCEPT
                 ![job[j].queue] = counters.per_queue_completed[job[j].queue] + 1]
         /\ counters'.slo_met + counters'.slo_missed =
              counters.slo_met + counters.slo_missed
                + (IF job[j].queue = "production" THEN 1 ELSE 0)
<1>1. PICK b, c : b = BodyOf(j) /\ c = job[j].queue
  OBVIOUS
<1>2. future[j] = "result" /\ counters' = Counted(b, c) /\ UNCHANGED job
  BY <1>1 DEF AnswersNow, Conclude, Responded, Respond, schedVars
<1>3. b \in Body
  BY <1>1, <1>2, ResponseBody DEF RepliesTyped
<1>4. b.msg.gpu_id \in GPUs
  BY <1>3 DEF Body, Message
<1>5. job[j] # None /\ c \in Class
  BY <1>1, <1>2 DEF Stamped, Settled, Typed, TypeOK, SchedTypeOK, Job
<1>6. b.deadline_met = IF c = "production"
                       THEN Reading * (perf_counter - times[j].arrival) <= Tenth * SLO ELSE None
  BY <1>1 DEF BodyOf, HasDeadline
<1>7. PICK met, missed : met = counters.slo_met /\ missed = counters.slo_missed
  OBVIOUS
<1>8. met \in Nat /\ missed \in Nat
  BY <1>7 DEF Counters
<1>9. PICK gpu, que : gpu = counters.per_gpu_completed /\ que = counters.per_queue_completed
  OBVIOUS
<1>10. /\ counters'.per_gpu_completed = [gpu EXCEPT ![b.msg.gpu_id] = gpu[b.msg.gpu_id] + 1]
       /\ counters'.per_queue_completed = [que EXCEPT ![c] = que[c] + 1]
       /\ counters'.slo_met = IF b.deadline_met = TRUE THEN met + 1 ELSE met
       /\ counters'.slo_missed = IF b.deadline_met = FALSE THEN missed + 1 ELSE missed
  BY <1>2, <1>7, <1>9 DEF Counted, Counters
<1>11. counters'.slo_met + counters'.slo_missed
         = (met + missed) + (IF c = "production" THEN 1 ELSE 0)
  <2>1. CASE c = "production"
    <3>1. b.deadline_met = TRUE \/ b.deadline_met = FALSE
      BY <1>6, <2>1
    <3>2. CASE b.deadline_met = TRUE
      <4>1. counters'.slo_met = met + 1 /\ counters'.slo_missed = missed
        BY <1>10, <3>2
      <4>2. counters'.slo_met + counters'.slo_missed = (met + missed) + 1
        BY <1>8, <4>1
      <4> QED
        BY <2>1, <4>2
    <3>3. CASE b.deadline_met = FALSE
      <4>1. counters'.slo_met = met /\ counters'.slo_missed = missed + 1
        BY <1>10, <3>3
      <4>2. counters'.slo_met + counters'.slo_missed = (met + missed) + 1
        BY <1>8, <4>1
      <4> QED
        BY <2>1, <4>2
    <3> QED
      BY <3>1, <3>2, <3>3
  <2>2. CASE c # "production"
    <3>1. b.deadline_met # TRUE /\ b.deadline_met # FALSE
      BY <1>6, <2>2, RowAssumption
    <3>2. counters'.slo_met = met /\ counters'.slo_missed = missed
      BY <1>10, <3>1
    <3>3. counters'.slo_met + counters'.slo_missed = (met + missed) + 0
      BY <1>8, <3>2
    <3> QED
      BY <2>2, <3>3
  <2> QED
    BY <2>1, <2>2
<1> QED
  BY <1>1, <1>2, <1>4, <1>5, <1>7, <1>9, <1>10, <1>11

LEMMA TalliedNext ==
  ASSUME Settled, Stamped, ReplyTrue, TimesTrue, RepliesTyped, counters \in Counters, Tallied,
         perf_counter \in Time, [BenchNext]_<<tracedVars, replyVars, benchVars>>
  PROVE  Tallied'
<1>1. Typed /\ [Next]_vars
  BY BenchStep, TracedStep DEF Settled
<1>2. \A j \in Answered : j \in Jobs /\ job[j] # None /\ job'[j].queue = job[j].queue
  <2>1. \A j \in Answered : j \in Jobs /\ job[j] # None
    BY DEF Answered, Stamped
  <2> QED
    BY <1>1, <2>1, JobsKeepIdentity DEF SameIdentity, SameRequest
<1>3. CASE \A j \in Jobs : ~AnswersNow(j)
  <2>1. Answered' = Answered /\ stats'.completed = stats.completed /\ SameTallies
    BY <1>3, AnsweredKept, CountersKept
  <2>2. \A c \in Class : AnsweredOf(c)' = AnsweredOf(c)
    BY <1>2, <2>1 DEF AnsweredOf
  <2> QED
    BY <2>1, <2>2 DEF Tallied, SameTallies
<1>4. CASE \E j \in Jobs : AnswersNow(j)
  <2>1. PICK j, q : j \in Jobs /\ AnswersNow(j) /\ q = job[j].queue
    BY <1>4
  <2>2. /\ j \notin Answered /\ Answered' = Answered \cup {j} /\ UNCHANGED job /\ q \in Class
        /\ stats'.completed = stats.completed + 1
    BY <1>1, <2>1, AnswerCounted, AnswerTallied
  <2>3. PICK gpu, que : gpu = counters.per_gpu_completed /\ que = counters.per_queue_completed
    OBVIOUS
  <2>4. gpu \in [GPUs -> Nat] /\ que \in [Class -> Nat] /\ IsFiniteSet(GPUs) /\ IsFiniteSet(Class)
    <3>1. IsFiniteSet(GPUs)
      BY ConfigAssumption, FS_Interval DEF GPUs
    <3> QED
      BY <2>3, <3>1, ClassFinite DEF Counters
  <2>5. PICK g \in GPUs : counters'.per_gpu_completed = [gpu EXCEPT ![g] = gpu[g] + 1]
    BY <2>1, <2>3, AnswerTallied
  <2>6. /\ counters'.per_queue_completed = [que EXCEPT ![q] = que[q] + 1]
        /\ counters'.slo_met + counters'.slo_missed
             = counters.slo_met + counters.slo_missed + (IF q = "production" THEN 1 ELSE 0)
    BY <2>1, <2>3, AnswerTallied
  <2>7. stats'.completed = SumFunction(counters'.per_gpu_completed)
    <3>1. PICK h, v : h = counters'.per_gpu_completed /\ v = gpu[g] + 1
      OBVIOUS
    <3>2. /\ IsFiniteSet(GPUs) /\ gpu \in [GPUs -> Int] /\ g \in GPUs
          /\ v = gpu[g] + 1 /\ h = [gpu EXCEPT ![g] = v]
      BY <2>4, <2>5, <3>1
    <3>3. SumFunction(h) = SumFunction(gpu) + 1
      BY <3>2, OneMoreInAll
    <3> QED
      BY <2>2, <2>3, <3>1, <3>3 DEF Tallied
  <2>8. stats'.completed = SumFunction(counters'.per_queue_completed)
    <3>1. PICK h, v : h = counters'.per_queue_completed /\ v = que[q] + 1
      OBVIOUS
    <3>2. /\ IsFiniteSet(Class) /\ que \in [Class -> Int] /\ q \in Class
          /\ v = que[q] + 1 /\ h = [que EXCEPT ![q] = v]
      BY <2>2, <2>4, <2>6, <3>1
    <3>3. SumFunction(h) = SumFunction(que) + 1
      BY <3>2, OneMoreInAll
    <3> QED
      BY <2>2, <2>3, <3>1, <3>3 DEF Tallied
  <2>9. counters'.slo_met + counters'.slo_missed = counters'.per_queue_completed["production"]
    <3>1. "production" \in Class /\ que["production"] \in Nat
      BY <2>4 DEF Class
    <3>2. counters.slo_met + counters.slo_missed = que["production"]
      BY <2>3 DEF Tallied
    <3>3. counters'.per_queue_completed["production"]
            = que["production"] + (IF q = "production" THEN 1 ELSE 0)
      BY <2>4, <2>6, <3>1
    <3> QED
      BY <2>6, <3>2, <3>3
  <2>10. ASSUME NEW c \in Class
         PROVE  counters'.per_queue_completed[c] = Cardinality(AnsweredOf(c)')
    <3>1. que[c] \in Nat /\ que[c] = Cardinality(AnsweredOf(c))
      BY <2>3, <2>4 DEF Tallied
    <3>2. CASE c = q
      <4>1. AnsweredOf(c)' = AnsweredOf(c) \cup {j} /\ j \notin AnsweredOf(c)
        BY <2>1, <2>2, <3>2 DEF AnsweredOf
      <4>2. IsFiniteSet(AnsweredOf(c))
        BY <1>1, TotalsTyped, FS_Subset DEF AnsweredOf
      <4>3. Cardinality(AnsweredOf(c) \cup {j}) = Cardinality(AnsweredOf(c)) + 1
        BY <4>1, <4>2, FS_AddElement
      <4>4. counters'.per_queue_completed[c] = que[c] + 1
        BY <2>4, <2>6, <3>2
      <4> QED
        BY <3>1, <4>1, <4>3, <4>4
    <3>3. CASE c # q
      <4>1. AnsweredOf(c)' = AnsweredOf(c)
        BY <2>1, <2>2, <3>3 DEF AnsweredOf
      <4>2. counters'.per_queue_completed[c] = que[c]
        BY <2>4, <2>6, <3>3
      <4> QED
        BY <3>1, <4>1, <4>2
    <3> QED
      BY <3>2, <3>3
  <2> QED
    BY <2>7, <2>8, <2>9, <2>10 DEF Tallied
<1> QED
  BY <1>3, <1>4

\* The entries GET /metrics counts for a class, and the jobs they are of.
EntriesOf(c) == {k \in DOMAIN done : done[k].spans.ok /\ job[done[k].trace.rid].queue = c}
Rid == [k \in DOMAIN done |-> done[k].trace.rid]
Created == {j \in Jobs : job[j] # None}

\* While the buffer has room for all that was created, it has all that has ended.
LEMMA AllKept ==
  ASSUME Typed, DoneTrue, Cardinality(Created) <= keep_done
  PROVE  /\ IsFiniteSet(DOMAIN done) /\ Rid \in [DOMAIN done -> Jobs]
         /\ \A k, l \in DOMAIN done : Rid[k] = Rid[l] => k = l
         /\ {Rid[k] : k \in DOMAIN done} = Ended
<1>1. /\ done \in Seq(FinishedTrace)
      /\ \A k \in DOMAIN done : done[k].trace.rid \in Ended
      /\ \A k, l \in DOMAIN done : k # l => done[k].trace.rid # done[l].trace.rid
      /\ Len(done) = Smaller(Cardinality(Ended), keep_done)
  BY DEF DoneTrue
<1>2. Len(done) \in Nat /\ DOMAIN done = 1..Len(done)
  BY <1>1, LenProperties
<1>3. IsFiniteSet(DOMAIN done) /\ Cardinality(DOMAIN done) = Len(done)
  <2>1. PICK n \in Nat : n = Len(done) /\ DOMAIN done = 1..n
    BY <1>2
  <2>2. IsFiniteSet(1..n) /\ Cardinality(1..n) = IF 1 > n THEN 0 ELSE n - 1 + 1
    BY FS_Interval
  <2>3. Cardinality(1..n) = n
    BY <2>2
  <2> QED
    BY <2>1, <2>2, <2>3
<1>4. \A k \in DOMAIN done : Rid[k] \in Ended
  BY <1>1 DEF Rid
<1>5. Rid \in [DOMAIN done -> Jobs]
  BY <1>1 DEF Rid, Ended
<1>6. \A k, l \in DOMAIN done : Rid[k] = Rid[l] => k = l
  BY <1>1 DEF Rid
<1>7. PICK D, r, I : D = DOMAIN done /\ r = Rid /\ I = {r[k] : k \in D}
  OBVIOUS
<1>8. IsFiniteSet(I) /\ Cardinality(I) = Len(done)
  <2>1. IsFiniteSet(D) /\ r \in [D -> Jobs] /\ (\A k, l \in D : r[k] = r[l] => k = l) /\ D \in SUBSET D
    BY <1>3, <1>5, <1>6, <1>7
  <2>2. IsFiniteSet(I) /\ Cardinality(I) = Cardinality(D)
    BY <1>7, <2>1, AsManyNames
  <2> QED
    BY <1>3, <1>7, <2>2
<1>9. I \subseteq Ended
  BY <1>4, <1>7
<1>10. /\ IsFiniteSet(Created) /\ IsFiniteSet(Ended) /\ Cardinality(Ended) <= Cardinality(Created)
       /\ Cardinality(Ended) \in Nat /\ Cardinality(Created) \in Nat
  <2>1. IsFiniteSet(Jobs) /\ Created \in SUBSET Jobs /\ Ended \in SUBSET Created
    BY TotalsTyped DEF Created, Ended
  <2>2. IsFiniteSet(Created)
    BY <2>1, FS_Subset
  <2> QED
    BY <2>1, <2>2, FS_Subset, FS_CardinalityType
<1>11. Cardinality(I) = Cardinality(Ended)
  <2>1. PICK n, m, t : n = Cardinality(Ended) /\ m = Cardinality(Created) /\ t = Len(done)
    OBVIOUS
  <2>2. n \in Nat /\ m \in Nat /\ n <= m /\ m <= keep_done /\ keep_done \in Nat /\ t = Smaller(n, keep_done)
    BY <1>1, <1>10, <2>1, KeepAssumption
  <2>3. t = n
    BY <2>2 DEF Smaller
  <2> QED
    BY <1>8, <2>1, <2>3
<1>12. I = Ended
  BY <1>9, <1>10, <1>11, FS_Subset
<1> QED
  BY <1>3, <1>5, <1>6, <1>7, <1>12

\* A class's entries are of its answered jobs and of those nobody was told of.
LEMMA EntriesBetween ==
  ASSUME Typed, Stamped, DoneTrue, ReplyTrue, EntriesCounted, Cardinality(Created) <= keep_done,
         NEW c \in Class
  PROVE  LET I == {Rid[k] : k \in EntriesOf(c)}
         IN  /\ AnsweredOf(c) \subseteq I /\ I \subseteq AnsweredOf(c) \cup Untold(c)
             /\ IsFiniteSet(EntriesOf(c)) /\ IsFiniteSet(I) /\ Cardinality(I) = Cardinality(EntriesOf(c))
<1>1. PICK D, r, R, I : D = DOMAIN done /\ r = Rid /\ R = EntriesOf(c) /\ I = {r[k] : k \in R}
  OBVIOUS
<1>2. /\ IsFiniteSet(D) /\ r \in [D -> Jobs] /\ \A k, l \in D : r[k] = r[l] => k = l
      /\ {r[k] : k \in D} = Ended
  BY <1>1, AllKept
<1>3. R \in SUBSET D
  BY <1>1 DEF EntriesOf
<1>4. IsFiniteSet(R) /\ IsFiniteSet(I) /\ Cardinality(I) = Cardinality(R)
  BY <1>1, <1>2, <1>3, AsManyNames
<1>5. ASSUME NEW j \in AnsweredOf(c) PROVE j \in I
  <2>1. j \in Jobs /\ future[j] = "answered" /\ job[j].queue = c
    BY DEF AnsweredOf, Answered
  <2>2. j \in Ended
    BY <2>1 DEF Stamped, Ended
  <2>3. PICK k \in D : r[k] = j
    BY <1>2, <2>2
  <2>4. done[k].trace.rid = j
    BY <1>1, <2>3 DEF Rid
  <2>5. done[k].spans.ok
    BY <1>1, <2>1, <2>4 DEF ReplyTrue, EntryTrue
  <2>6. k \in R
    BY <1>1, <2>1, <2>4, <2>5 DEF EntriesOf
  <2> QED
    BY <1>1, <2>3, <2>6
<1>6. ASSUME NEW k \in R PROVE r[k] \in AnsweredOf(c) \cup Untold(c)
  <2>1. PICK j : j = r[k]
    OBVIOUS
  <2>2. /\ k \in DOMAIN done /\ done[k].trace.rid = j /\ done[k].spans.ok /\ job[j].queue = c
    BY <1>1, <2>1 DEF EntriesOf, Rid
  <2>3. j \in Jobs /\ job[j] # None /\ j \notin pending
    BY <1>2, <1>3, <2>1 DEF Ended
  <2>4. future[j] \in Told
    BY <2>2 DEF EntriesCounted, EntryCounted
  <2> QED
    BY <2>1, <2>2, <2>3, <2>4 DEF Told, AnsweredOf, Answered, Untold
<1>7. AnsweredOf(c) \subseteq I /\ I \subseteq AnsweredOf(c) \cup Untold(c)
  BY <1>1, <1>5, <1>6
<1> QED
  BY <1>1, <1>4, <1>7

\* So their number is the class's count but for the untold.
LEMMA ClassAgrees ==
  ASSUME Typed, Stamped, DoneTrue, ReplyTrue, EntriesCounted, Cardinality(Created) <= keep_done,
         NEW c \in Class
  PROVE  /\ Cardinality(AnsweredOf(c)) <= Cardinality(EntriesOf(c))
         /\ Cardinality(EntriesOf(c)) <= Cardinality(AnsweredOf(c)) + Cardinality(Untold(c))
<1>1. PICK A, U, R, I : /\ A = AnsweredOf(c) /\ U = Untold(c) /\ R = EntriesOf(c)
                        /\ I = {Rid[k] : k \in EntriesOf(c)}
  OBVIOUS
<1>2. A \subseteq I /\ I \subseteq A \cup U /\ IsFiniteSet(I) /\ Cardinality(I) = Cardinality(R)
  BY <1>1, EntriesBetween
<1>3. IsFiniteSet(A) /\ IsFiniteSet(U)
  <2>1. IsFiniteSet(Jobs) /\ A \in SUBSET Jobs /\ U \in SUBSET Jobs
    BY <1>1, TotalsTyped DEF AnsweredOf, Answered, Untold
  <2> QED
    BY <2>1, FS_Subset
<1>4. PICK W, X : W = A \cup U /\ X = A \cap U
  OBVIOUS
<1>5. IsFiniteSet(W) /\ Cardinality(W) = Cardinality(A) + Cardinality(U) - Cardinality(X)
  BY <1>3, <1>4, FS_Union
<1>6. IsFiniteSet(X)
  BY <1>3, <1>4, FS_Subset
<1>7. Cardinality(A) <= Cardinality(I) /\ Cardinality(I) <= Cardinality(W)
  BY <1>2, <1>4, <1>5, FS_Subset
<1>8. PICK a, u, w, x, i : /\ a = Cardinality(A) /\ u = Cardinality(U) /\ w = Cardinality(W)
                           /\ x = Cardinality(X) /\ i = Cardinality(I)
  OBVIOUS
<1>9. a \in Nat /\ u \in Nat /\ w \in Nat /\ x \in Nat /\ i \in Nat
  BY <1>2, <1>3, <1>5, <1>6, <1>8, FS_CardinalityType
<1>10. a <= i /\ i <= a + u
  BY <1>5, <1>7, <1>8, <1>9
<1> QED
  BY <1>1, <1>2, <1>8, <1>10

\* The preemptions on the traces of a class's results are among those of the jobs.
LEMMA PreemptsWithin ==
  ASSUME Typed, DoneTrue, EntriesCounted, Cardinality(Created) <= keep_done
  PROVE  /\ SumFunction([c \in Class |-> SummaryOf(c).preempts]) \in Int
         /\ SumFunction([c \in Class |-> SummaryOf(c).preempts]) <= SumFunction(Counts)
<1> DEFINE A == [c \in Class |-> EntriesOf(c)]
           U == UNION {A[c] : c \in Class}
           f == [k \in U |-> done[k].trace.preempts]
           r == [k \in U |-> Rid[k]]
           I == {r[k] : k \in U}
<1>1. /\ IsFiniteSet(DOMAIN done) /\ Rid \in [DOMAIN done -> Jobs]
      /\ \A k, l \in DOMAIN done : Rid[k] = Rid[l] => k = l
      /\ \A k \in DOMAIN done : Rid[k] \in Ended
  BY AllKept
<1>2. IsFiniteSet(Jobs) /\ Counts \in [Jobs -> Nat] /\ Counts \in [Jobs -> Int]
  BY TotalsTyped
<1>3. IsFiniteSet(Class)
  BY ClassFinite
<1>4. \A c \in Class : A[c] = EntriesOf(c) /\ A[c] \subseteq DOMAIN done
  BY DEF EntriesOf
<1>5. \A c, d \in Class : c # d => A[c] \cap A[d] = {}
  BY DEF EntriesOf
<1>6. \A c \in Class : IsFiniteSet(A[c])
  BY <1>1, <1>4, FS_Subset
<1>7. U \subseteq DOMAIN done
  BY <1>4
<1>8. IsFiniteSet(U)
  BY <1>1, <1>7, FS_Subset
<1>9. r \in [U -> Jobs] /\ (\A k, l \in U : r[k] = r[l] => k = l) /\ r \in Injection(U, Jobs)
  <2>1. r \in [U -> Jobs] /\ \A k, l \in U : r[k] = r[l] => k = l
    BY <1>1, <1>7
  <2> QED
    BY <2>1 DEF Injection, IsInjective
<1>10. \A k \in U : f[k] = Counts[r[k]]
  <2> SUFFICES ASSUME NEW k \in U PROVE f[k] = Counts[r[k]]
    OBVIOUS
  <2>1. k \in DOMAIN done /\ r[k] = done[k].trace.rid /\ r[k] \in Ended
    BY <1>1, <1>7 DEF Rid
  <2>2. f[k] = job[r[k]].preempt_count
    BY <2>1 DEF EntriesCounted, EntryCounted
  <2> QED
    BY <2>1, <2>2 DEF Counts, Ended
<1>11. f = [k \in U |-> Counts[r[k]]]
  BY <1>10
<1>12. f \in [U -> Int]
  BY <1>2, <1>9, <1>11
<1>13. [c \in Class |-> SummaryOf(c).preempts]
         = [c \in Class |-> SumOver(f, A[c])]
  <2> SUFFICES ASSUME NEW c \in Class
               PROVE  SummaryOf(c).preempts = SumOver(f, A[c])
    OBVIOUS
  <2>1. [k \in A[c] |-> f[k]] = [k \in EntriesOf(c) |-> done[k].trace.preempts]
    <3>1. A[c] = EntriesOf(c) /\ A[c] \subseteq U
      BY <1>4
    <3>2. \A k \in A[c] : f[k] = done[k].trace.preempts
      BY <3>1
    <3> QED
      BY <3>1, <3>2
  <2>2. SummaryOf(c).preempts = SumFunction([k \in EntriesOf(c) |-> done[k].trace.preempts])
    BY DEF SummaryOf, EntriesOf
  <2> QED
    BY <2>1, <2>2 DEF SumOver
<1> HIDE DEF A, f, r
<1>14. SumFunction([c \in Class |-> SumOver(f, A[c])]) = SumFunction(f)
  <2>1. PICK B, V, e, h : /\ B = A /\ V = U /\ e = f
                          /\ h = [c \in Class |-> SumOver(f, A[c])]
    OBVIOUS
  <2>2. /\ B \in [Class -> SUBSET V] /\ e \in [V -> Int]
        /\ \A c \in Class : IsFiniteSet(B[c])
        /\ \A c, d \in Class : c # d => B[c] \cap B[d] = {}
        /\ \A k \in V : \E c \in Class : k \in B[c]
    BY <1>5, <1>6, <1>12, <2>1 DEF A
  <2>3. h \in [Class -> Int] /\ \A c \in Class : h[c] = SumOver(e, B[c])
    <3>1. ASSUME NEW c \in Class PROVE SumOver(e, B[c]) \in Int
      <4>1. PICK s : s = B[c]
        OBVIOUS
      <4>2. IsFiniteSet(V) /\ s \in SUBSET V /\ e \in [V -> Int]
        BY <1>8, <2>1, <2>2, <4>1
      <4>3. SumFunction([k \in s |-> e[k]]) \in Int
        BY <4>2, SumParts
      <4> QED
        BY <4>1, <4>3 DEF SumOver
    <3> QED
      BY <2>1, <3>1
  <2>4. SumFunction(h) = SumFunction(e)
    BY <1>3, <2>2, <2>3, SumOfSums
  <2> QED
    BY <2>1, <2>4
<1> HIDE DEF U
<1>15. SumFunction(f) = SumFunction([j \in I |-> Counts[j]])
  <2>1. SumFunction([k \in U |-> Counts[r[k]]]) = SumFunction([j \in I |-> Counts[j]])
    BY <1>2, <1>8, <1>9, SumRenamed
  <2> QED
    BY <1>11, <2>1
<1>16. I \in SUBSET Jobs
  BY <1>9
<1> HIDE DEF I, Counts
<1>17. PICK R, p, q : /\ R = Jobs \ I /\ p = SumFunction([j \in I |-> Counts[j]])
                      /\ q = SumFunction([j \in R |-> Counts[j]])
  OBVIOUS
<1>18. p \in Int /\ q \in Int /\ SumFunction(Counts) = p + q
  BY <1>2, <1>16, <1>17, SumParts
<1>19. 0 <= q
  <2> DEFINE z == [j \in R |-> 0]
             h == [j \in R |-> Counts[j]]
  <2>1. IsFiniteSet(R) /\ R \subseteq Jobs
    BY <1>2, <1>17, FS_Subset
  <2>2. z \in [R -> Int] /\ h \in [R -> Int] /\ \A j \in R : z[j] = 0 /\ z[j] <= h[j]
    BY <1>2, <2>1
  <2> HIDE DEF z, h
  <2>3. SumFunction(z) = 0 /\ SumFunction(z) <= SumFunction(h)
    BY <2>1, <2>2, SumOfZeros, SumGrows
  <2> QED
    BY <1>17, <2>3 DEF h
<1>20. PICK s : s = SumFunction(Counts)
  OBVIOUS
<1>21. p <= s
  BY <1>18, <1>19, <1>20
<1> QED
  BY <1>13, <1>14, <1>15, <1>17, <1>18, <1>20, <1>21

\* The counters of the handlers, the latencies of the tracer and the preemptions
\* of the response handler agree at every moment: completed requests add up over
\* GPUs and classes, only production is judged and each of them once, and while
\* the buffer has room for all its counts are the handlers' but for the results
\* nobody was told (gateway.py, get_metrics; tracer.py, summary).
THEOREM CountersAlwaysAgree == BenchSpec => []CountersAgree
<1>1. BenchInit => Tallied
  <2> SUFFICES ASSUME BenchInit PROVE Tallied
    OBVIOUS
  <2>1. /\ counters.per_gpu_completed = [g \in GPUs |-> 0]
        /\ counters.per_queue_completed = [c \in Class |-> 0]
        /\ counters.slo_met = 0 /\ counters.slo_missed = 0
        /\ stats.completed = 0 /\ \A j \in Jobs : future[j] = "none"
    BY DEF BenchInit, TracingInit, Init
  <2>2. IsFiniteSet(GPUs) /\ IsFiniteSet(Class)
    BY ConfigAssumption, FS_Interval, ClassFinite DEF GPUs
  <2>3. PICK f, h : f = counters.per_gpu_completed /\ h = counters.per_queue_completed
    OBVIOUS
  <2>4. /\ f \in [GPUs -> Int] /\ \A g \in GPUs : f[g] = 0
        /\ h \in [Class -> Int] /\ \A c \in Class : h[c] = 0
    BY <2>1, <2>3
  <2>5. SumFunction(f) = 0 /\ SumFunction(h) = 0
    BY <2>2, <2>4, SumOfZeros
  <2>6. \A c \in Class : AnsweredOf(c) = {}
    BY <2>1 DEF AnsweredOf, Answered
  <2>7. "production" \in Class
    BY DEF Class
  <2> QED
    BY <2>1, <2>3, <2>4, <2>5, <2>6, <2>7, FS_EmptySet DEF Tallied
<1>2. Settled /\ Stamped /\ ReplyTrue /\ WellTimed /\ counters \in Counters /\ Tallied
      /\ perf_counter \in Time /\ [BenchNext]_<<tracedVars, replyVars, benchVars>> => Tallied'
  BY TalliedNext DEF WellTimed
<1>3. TracesTell => perf_counter \in Time
  BY DEF TracesTell, TracesTrue
<1>4. ASSUME Settled, Stamped, DoneTrue, ReplyTrue, EntriesCounted, Tallied, Totals
      PROVE  CountersAgree
  <2>1. /\ stats.completed = SumFunction(counters.per_gpu_completed)
        /\ stats.completed = SumFunction(counters.per_queue_completed)
        /\ counters.slo_met + counters.slo_missed = counters.per_queue_completed["production"]
    BY <1>4 DEF Tallied
  <2>2. ASSUME Cardinality(Created) <= keep_done, NEW c \in Class
        PROVE  LET n == SummaryOf(c).n
               IN  /\ counters.per_queue_completed[c] <= n
                   /\ n <= counters.per_queue_completed[c] + Cardinality(Untold(c))
    <3>1. SummaryOf(c).n = Cardinality(EntriesOf(c))
      BY DEF SummaryOf, EntriesOf
    <3>2. counters.per_queue_completed[c] = Cardinality(AnsweredOf(c))
      BY <1>4 DEF Tallied
    <3> QED
      BY <1>4, <2>2, <3>1, <3>2, ClassAgrees DEF Settled
  <2>3. ASSUME Cardinality(Created) <= keep_done
        PROVE  SumFunction([c \in Class |-> SummaryOf(c).preempts]) <= stats.preemptions
    BY <1>4, <2>3, PreemptsWithin DEF Settled, Totals
  <2> QED
    BY <2>1, <2>2, <2>3 DEF CountersAgree, Created
<1> QED
  BY <1>1, <1>2, <1>3, <1>4, BenchIsTraced, TracedIsGateway, SettledAlways, StampedAlways,
     TracesAlwaysTell, TracingTyped, DoneAlwaysTrue, EntriesAlwaysCounted, RepliesAlways,
     DispatchesBalance, BenchTyped, BenchTrueAlways, PTL DEF BenchSpec

-----------------------------------------------------------------------------
(* What report.py makes of the rows *)

AtMost(f, v) == {j \in DOMAIN f : f[j] <= v}
Below(f, v) == {j \in DOMAIN f : f[j] < v}

\* The ranks of the two percentiles, of which the second is the last of up to fifty.
LEMMA RanksInOrder ==
  ASSUME NEW n \in Nat \ {0}
  PROVE  /\ Rank(50, n) \in 1..n /\ Rank(99, n) \in 1..n /\ Rank(50, n) <= Rank(99, n)
         /\ n <= 50 => Rank(99, n) = n
<1>1. PICK m \in Nat : n = m + 1
  OBVIOUS
<1>2. /\ Round(50 * m, 100) \in Nat /\ Round(99 * m, 100) \in Nat
      /\ Round(50 * m, 100) <= Round(99 * m, 100)
  BY DEF Round, ToNearest
<1>3. m < 50 => Round(99 * m, 100) = m
  BY DEF Round, ToNearest
<1>4. PICK a, b : a = Round(50 * m, 100) /\ b = Round(99 * m, 100)
  OBVIOUS
<1>5. Rank(50, n) = 1 + Smaller(m, a) /\ Rank(99, n) = 1 + Smaller(m, b)
  BY <1>1, <1>4 DEF Rank
<1> QED
  BY <1>1, <1>2, <1>3, <1>4, <1>5 DEF Smaller

\* Finitely many numbers have a bound.
LEMMA Bounded ==
  ASSUME NEW D, NEW f, IsFiniteSet(D), f \in [D -> Nat]
  PROVE  \E b \in Nat : \A x \in D : f[x] <= b
<1> DEFINE F == {s \in SUBSET D : \E b \in Nat : \A x \in s : f[x] <= b}
<1>1. {} \in F
  OBVIOUS
<1>2. ASSUME NEW s \in SUBSET D, NEW y \in D \ s, s \in F PROVE s \cup {y} \in F
  <2>1. PICK b \in Nat : \A x \in s : f[x] <= b
    BY <1>2
  <2>2. PICK c \in Nat : c = IF f[y] <= b THEN b ELSE f[y]
    OBVIOUS
  <2>3. \A x \in s \cup {y} : f[x] <= c
    BY <2>1, <2>2
  <2> QED
    BY <2>3
<1>3. D \in F
  <2> HIDE DEF F
  <2> QED
    BY <1>1, <1>2, SubsetsBuilt
<1> QED
  BY <1>3

\* There is an n-th smallest value.
LEMMA NthFound ==
  ASSUME NEW D, NEW f, NEW n, IsFiniteSet(D), f \in [D -> Nat], n \in 1..Cardinality(D)
  PROVE  LET v == NthSmallest(f, n)
         IN  v \in Range(f) /\ Cardinality(Below(f, v)) < n /\ n <= Cardinality(AtMost(f, v))
<1> DEFINE P == {v \in Nat : n <= Cardinality(AtMost(f, v))}
<1>1. \A v : /\ IsFiniteSet(AtMost(f, v)) /\ IsFiniteSet(Below(f, v))
             /\ Cardinality(AtMost(f, v)) \in Nat /\ Cardinality(Below(f, v)) \in Nat
  <2> TAKE v
  <2>1. AtMost(f, v) \in SUBSET D /\ Below(f, v) \in SUBSET D
    BY DEF AtMost, Below
  <2>2. IsFiniteSet(AtMost(f, v)) /\ IsFiniteSet(Below(f, v))
    BY <2>1, FS_Subset
  <2> QED
    BY <2>2, FS_CardinalityType
<1>2. P # {}
  <2>1. PICK b \in Nat : \A x \in D : f[x] <= b
    BY Bounded
  <2>2. AtMost(f, b) = D
    BY <2>1 DEF AtMost
  <2> QED
    BY <2>2
<1>3. PICK v \in P : \A k \in P : v <= k
  <2>1. P \in SUBSET Nat
    OBVIOUS
  <2> HIDE DEF P
  <2> QED
    BY <1>2, <2>1, LeastNumber
<1>4. Cardinality(Below(f, v)) < n
  <2>1. n \in Nat /\ n > 0 /\ v \in Nat
    BY <1>1, FS_CardinalityType
  <2>2. CASE v = 0
    <3>1. Below(f, v) = {}
      BY <2>2 DEF Below
    <3> QED
      BY <2>1, <3>1, FS_EmptySet
  <2>3. CASE v # 0
    <3>1. v - 1 \in Nat /\ v - 1 \notin P
      BY <1>3, <2>1, <2>3
    <3>2. AtMost(f, v - 1) = Below(f, v)
      BY <2>1 DEF AtMost, Below
    <3>3. ~(n <= Cardinality(Below(f, v)))
      BY <3>1, <3>2
    <3> QED
      BY <1>1, <2>1, <3>3
  <2> QED
    BY <2>2, <2>3
<1>5. n <= Cardinality(AtMost(f, v))
  OBVIOUS
<1>6. v \in Range(f)
  <2> SUFFICES ASSUME v \notin Range(f) PROVE FALSE
    OBVIOUS
  <2>1. AtMost(f, v) = Below(f, v)
    <3>1. \A j \in D : f[j] # v /\ f[j] \in Nat /\ v \in Nat
      BY DEF Range
    <3> QED
      BY <3>1 DEF AtMost, Below
  <2>2. PICK c : c = Cardinality(Below(f, v))
    OBVIOUS
  <2>3. c \in Nat /\ n \in Nat /\ c < n /\ n <= c
    BY <1>1, <1>4, <1>5, <2>1, <2>2, FS_CardinalityType
  <2> QED
    BY <2>3
<1>7. NthSmallest(f, n) = CHOOSE u \in Range(f) : /\ Cardinality(Below(f, u)) < n
                                                 /\ n <= Cardinality(AtMost(f, u))
  BY DEF NthSmallest, Below, AtMost
<1> HIDE DEF P
<1> QED
  BY <1>4, <1>5, <1>6, <1>7

\* Of two ranks the smaller has the smaller value; the last is the largest value.
LEMMA NthOrdered ==
  ASSUME NEW D, NEW f, NEW k, NEW n, IsFiniteSet(D), f \in [D -> Nat],
         k \in 1..Cardinality(D), n \in 1..Cardinality(D), k <= n
  PROVE  /\ NthSmallest(f, k) <= NthSmallest(f, n)
         /\ n = Cardinality(D) => \A j \in D : f[j] <= NthSmallest(f, n)
<1>1. PICK u, v : u = NthSmallest(f, k) /\ v = NthSmallest(f, n)
  OBVIOUS
<1>2. /\ u \in Range(f) /\ Cardinality(Below(f, u)) < k /\ k <= Cardinality(AtMost(f, u))
      /\ v \in Range(f) /\ Cardinality(Below(f, v)) < n /\ n <= Cardinality(AtMost(f, v))
  BY <1>1, NthFound
<1>3. PICK A, B : A = AtMost(f, v) /\ B = Below(f, u)
  OBVIOUS
<1>4. /\ A \in SUBSET D /\ B \in SUBSET D /\ A = {j \in D : f[j] <= v} /\ B = {j \in D : f[j] < u}
  BY <1>3 DEF AtMost, Below
<1>5. u \in Nat /\ v \in Nat
  BY <1>2 DEF Range
<1>6. PICK a, b, d : a = Cardinality(A) /\ b = Cardinality(B) /\ d = Cardinality(D)
  OBVIOUS
<1>7. /\ IsFiniteSet(A) /\ IsFiniteSet(B) /\ a \in Nat /\ b \in Nat /\ d \in Nat
      /\ a <= d /\ (a = d => A = D)
  BY <1>4, <1>6, FS_Subset, FS_CardinalityType
<1>8. n <= a /\ b < k /\ k \in Nat /\ n \in Nat /\ (n = Cardinality(D) => n = d)
  BY <1>2, <1>3, <1>6, <1>7
<1>9. u <= v
  <2> SUFFICES ASSUME ~(u <= v) PROVE FALSE
    OBVIOUS
  <2>1. A \in SUBSET B
    BY <1>4, <1>5
  <2>2. a <= b
    BY <1>6, <1>7, <2>1, FS_Subset
  <2> QED
    BY <1>7, <1>8, <2>2
<1>10. n = d => A = D
  BY <1>7, <1>8
<1> QED
  BY <1>1, <1>4, <1>8, <1>9, <1>10

\* A response is judged by its own time, if its class is; the time it tells does
\* not say otherwise, but at the SLO.
JudgedBy(b, c) ==
  IF HasDeadline(c)
  THEN \/ b.deadline_met = TRUE /\ b.e2e_ms <= SLO
       \/ b.deadline_met = FALSE /\ SLO <= b.e2e_ms
  ELSE b.deadline_met = None
Judged == \A j \in Answered : JudgedBy(reply[j], job[j].queue)

\* What the clock says of the deadline and what the rounded time says.
LEMMA BodyJudged ==
  ASSUME ReplyTrue, TimesTrue, perf_counter \in Time, NEW j \in Jobs
  PROVE  JudgedBy(BodyOf(j), job[j].queue)
<1>1. PICK b, t : b = BodyOf(j) /\ t = perf_counter - times[j].arrival
  OBVIOUS
<1>2. /\ b.e2e_ms = Rounded(t)
      /\ b.deadline_met = IF HasDeadline(job[j].queue) THEN Reading * t <= Tenth * SLO ELSE None
  BY <1>1 DEF BodyOf
<1>3. t \in Int
  BY <1>1, TimeAssumption DEF ReplyTrue, Time
<1>4. Tenth \in Nat \ {0} /\ SLO \in Int
  BY SLOAssumption
<1>5. PICK n : n = Reading * t
  OBVIOUS
<1>6. n \in Int /\ Near(b.e2e_ms, n, Tenth)
  BY <1>2, <1>3, <1>5, RoundedIsNear
<1>7. (n <= Tenth * SLO => b.e2e_ms <= SLO) /\ (Tenth * SLO <= n => SLO <= b.e2e_ms)
  BY <1>4, <1>6, NearBounded
<1>8. PICK d \in Int : d = Tenth * SLO
  BY <1>4
<1>9. CASE HasDeadline(job[j].queue)
  <2>1. b.deadline_met = (n <= d)
    BY <1>2, <1>5, <1>8, <1>9
  <2>2. CASE n <= d
    BY <1>1, <1>7, <1>8, <1>9, <2>1, <2>2 DEF JudgedBy
  <2>3. CASE ~(n <= d)
    <3>1. d <= n
      BY <1>6, <1>8, <2>3
    <3>2. (n <= d) = FALSE
      BY <2>3
    <3>3. b.deadline_met = FALSE
      BY <2>1, <3>2
    <3> QED
      BY <1>1, <1>7, <1>8, <1>9, <3>1, <3>3 DEF JudgedBy
  <2> QED
    BY <2>2, <2>3
<1>10. CASE ~HasDeadline(job[j].queue)
  BY <1>1, <1>2, <1>10 DEF JudgedBy
<1> QED
  BY <1>9, <1>10

LEMMA JudgedNext ==
  ASSUME Settled, Stamped, ReplyTrue, TimesTrue, RepliesTyped, Judged, perf_counter \in Time,
         [BenchNext]_<<tracedVars, replyVars, benchVars>>
  PROVE  Judged'
<1>1. ASSUME NEW j \in Jobs, future'[j] = "answered"
      PROVE  JudgedBy(reply'[j], job'[j].queue)
  <2>1. CASE future[j] = "answered"
    <3>1. reply'[j] = reply[j]
      BY <2>1, AnswersLast
    <3>2. job'[j].queue = job[j].queue
      <4>1. job[j] # None /\ [Next]_vars
        BY <2>1, BenchStep, TracedStep DEF Stamped
      <4> QED
        BY <4>1, JobsKeepIdentity DEF SameIdentity, SameRequest, Settled
    <3> QED
      BY <2>1, <3>1, <3>2 DEF Judged, Answered
  <2>2. CASE future[j] # "answered"
    <3>1. Conclude(j) /\ future[j] = "result"
      BY <1>1, <2>2, AnswersLast DEF AnswersNow
    <3>2. PICK b : b = BodyOf(j)
      OBVIOUS
    <3>3. reply'[j] = b /\ job' = job
      BY <3>1, <3>2 DEF Conclude, Responded, Respond, schedVars, RepliesTyped
    <3> QED
      BY <3>2, <3>3, BodyJudged
  <2> QED
    BY <2>1, <2>2
<1> QED
  BY <1>1 DEF Judged, Answered, JudgedBy, HasDeadline

LEMMA JudgedAlways == BenchSpec => []Judged
<1>1. BenchInit => Judged
  BY DEF BenchInit, TracingInit, Init, Judged, Answered
<1>2. Settled /\ Stamped /\ TracesTell /\ ReplyTrue /\ WellTimed /\ Judged
      /\ [BenchNext]_<<tracedVars, replyVars, benchVars>> => Judged'
  <2>1. TracesTell => perf_counter \in Time
    BY DEF TracesTell, TracesTrue
  <2> QED
    BY <2>1, JudgedNext DEF WellTimed
<1> QED
  BY <1>1, <1>2, BenchIsTraced, TracedIsGateway, SettledAlways, StampedAlways,
     TracesAlwaysTell, RepliesAlways, BenchTyped, PTL DEF BenchSpec

\* Of up to fifty, half a thousandth is less than one: only all make a full attainment.
LEMMA FullAttainment ==
  ASSUME NEW of \in 1..50, NEW met \in 0..of
  PROVE  Attainment(met, of) = 1000 <=> met = of
<1>1. PICK v : v = Attainment(met, of)
  OBVIOUS
<1>2. v \in Nat /\ Near(v, 1000 * met, of)
  BY <1>1, AttainmentShown
<1>3. ASSUME met = of PROVE v = 1000
  <2>1. 1000 * met <= of * 1000 /\ of * 1000 <= 1000 * met
    BY <1>3
  <2>2. PICK n \in Int : n = 1000 * met
    OBVIOUS
  <2>3. PICK t \in Int : t = 1000
    OBVIOUS
  <2>4. Near(v, n, of) /\ of \in Nat \ {0}
    BY <1>2, <2>2
  <2>5. (n <= of * t => v <= t) /\ (of * t <= n => t <= v)
    BY <2>4, NearBounded
  <2> QED
    BY <1>2, <2>1, <2>2, <2>3, <2>5
<1>4. ASSUME v = 1000 PROVE met = of
  BY <1>2, <1>4 DEF Near
<1> QED
  BY <1>1, <1>3, <1>4

\* The figures of one class in the report of a run that is over.
LEMMA ClassReported ==
  ASSUME Settled, RepliesTyped, RunTyped, BenchTrue, Judged, NEW c \in Class
  PROVE  LET r == ReportRow(c)
         IN  /\ r.p99 # None => r.p50 <= r.p99
             /\ c = "production" /\ r.n \in 1..50 =>
                  /\ r.slo_pct = 1000 => r.p99 <= SLO
                  /\ r.p99 < SLO => r.slo_pct = 1000
             /\ c # "production" => r.slo_pct = None
<1>1. PICK ok, f, slo, met :
        /\ ok = {j \in Rows("ok") : job[j].queue = c} /\ f = [j \in ok |-> reply[j].e2e_ms]
        /\ slo = ok \cap judged
        /\ met = {j \in slo : reply[j].deadline_met}
  OBVIOUS
<1>2. ReportRow(c) = [p50 |-> pct(f, 50), p99 |-> pct(f, 99), n |-> Cardinality(ok),
                      slo_pct |-> Attainment(Cardinality(met), Cardinality(slo))]
  BY <1>1 DEF ReportRow
<1>3. ok \in SUBSET Answered /\ ok \in SUBSET Jobs /\ \A j \in ok : job[j].queue = c
  BY <1>1 DEF Rows, BenchTrue, RunTyped, Answered
<1>4. IsFiniteSet(ok)
  BY <1>3, TotalsTyped, FS_Subset DEF Settled
<1>5. \A j \in ok : reply[j] \in Body
  BY <1>3 DEF RepliesTyped, Answered
<1>6. f \in [ok -> Nat] /\ \A j \in ok : f[j] = reply[j].e2e_ms
  BY <1>1, <1>5 DEF Body
<1>7. \A j \in ok : IF c = "production"
                    THEN \/ reply[j].deadline_met = TRUE /\ f[j] <= SLO
                         \/ reply[j].deadline_met = FALSE /\ SLO <= f[j]
                    ELSE reply[j].deadline_met = None
  BY <1>3, <1>6 DEF Judged, JudgedBy, HasDeadline
<1>8. slo = IF c = "production" THEN ok ELSE {}
  <2>1. slo = {j \in ok : reply[j].deadline_met # None}
    BY <1>1 DEF judged
  <2>2. CASE c = "production"
    <3>1. ASSUME NEW j \in ok PROVE reply[j].deadline_met # None
      BY <1>7, <2>2, RowAssumption
    <3> QED
      BY <2>1, <2>2, <3>1
  <2>3. CASE c # "production"
    BY <1>7, <2>1, <2>3
  <2> QED
    BY <2>2, <2>3
<1>9. c # "production" => Attainment(Cardinality(met), Cardinality(slo)) = None
  <2>1. c # "production" => Cardinality(slo) = 0
    BY <1>8, FS_EmptySet
  <2> QED
    BY <2>1 DEF Attainment
<1>10. CASE ok = {}
  <2>1. pct(f, 99) = None /\ Cardinality(ok) = 0
    BY <1>6, <1>10, FS_EmptySet DEF pct
  <2> QED
    BY <1>2, <1>9, <2>1
<1>11. CASE ok # {}
  <2>1. PICK n : n = Cardinality(ok)
    OBVIOUS
  <2>2. n \in Nat \ {0}
    BY <1>4, <1>11, <2>1, FS_CardinalityType, FS_EmptySet
  <2>3. PICK k, l : k = Rank(50, n) /\ l = Rank(99, n)
    OBVIOUS
  <2>4. k \in 1..n /\ l \in 1..n /\ k <= l /\ (n <= 50 => l = n)
    BY <2>2, <2>3, RanksInOrder
  <2>5. PICK u, v : u = NthSmallest(f, k) /\ v = NthSmallest(f, l)
    OBVIOUS
  <2>6. pct(f, 50) = u /\ pct(f, 99) = v
    BY <1>6, <1>11, <2>1, <2>3, <2>5 DEF pct
  <2>7. u <= v /\ (l = n => \A j \in ok : f[j] <= v) /\ v \in Range(f)
    BY <1>4, <1>6, <2>1, <2>4, <2>5, NthOrdered, NthFound
  <2>8. PICK w \in ok : v = f[w]
    BY <1>6, <2>7 DEF Range
  <2>9. ASSUME c = "production", n \in 1..50
        PROVE  LET a == Attainment(Cardinality(met), Cardinality(slo))
               IN  (a = 1000 => v <= SLO) /\ (v < SLO => a = 1000)
    <3>1. slo = ok /\ met \in SUBSET ok
      BY <1>1, <1>8, <2>9
    <3>2. PICK m : m = Cardinality(met)
      OBVIOUS
    <3>3. m \in 0..n /\ (m = n => met = ok) /\ (met = ok => m = n)
      BY <1>4, <2>1, <2>2, <3>1, <3>2, FS_Subset, FS_CardinalityType
    <3>4. Attainment(m, n) = 1000 <=> met = ok
      BY <2>9, <3>3, FullAttainment
    <3>5. \A j \in ok : f[j] <= v
      BY <2>2, <2>4, <2>7, <2>9
    <3>6. ASSUME met = ok PROVE v <= SLO
      <4>1. reply[w].deadline_met # FALSE
        BY <1>1, <2>8, <3>6
      <4> QED
        BY <1>7, <2>8, <2>9, <4>1
    <3>7. ASSUME v < SLO PROVE met = ok
      <4>1. ASSUME NEW j \in ok PROVE reply[j].deadline_met = TRUE
        <5>1. f[j] \in Int /\ v \in Int /\ SLO \in Int
          BY <1>6, <2>8, SLOAssumption
        <5>2. f[j] <= v
          BY <3>5
        <5>3. ~(SLO <= f[j])
          BY <3>7, <5>1, <5>2
        <5> QED
          BY <1>7, <2>9, <5>3
      <4> QED
        BY <1>1, <3>1, <4>1
    <3> QED
      BY <2>1, <3>1, <3>2, <3>4, <3>6, <3>7
  <2> QED
    BY <1>2, <1>9, <2>1, <2>6, <2>7, <2>9
<1> QED
  BY <1>10, <1>11

\* In a report of any size the p50 of a class is no more than its p99; of up to
\* fifty production requests slo_pct is full only if the p99 is within the SLO, and
\* is full if the p99 is below it, although one was judged by the gateway's clock
\* and the other is ranked by report.py from rounded times; no other class has a
\* slo_pct (report.py, pct and summarize).
THEOREM ReportsAlwaysAgree == BenchSpec => []ReportAgrees
<1>1. Settled /\ WellTimed /\ BenchTrue /\ Judged => ReportAgrees
  BY ClassReported DEF WellTimed, ReportAgrees
<1> QED
  BY <1>1, BenchIsTraced, TracedIsGateway, SettledAlways, BenchTyped, BenchTrueAlways,
     JudgedAlways, PTL
=============================================================================
