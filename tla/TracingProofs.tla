---------------------------- MODULE TracingProofs ----------------------------
(***************************************************************************)
(* The traces tell the truth about the jobs and the batches, and the spans  *)
(* are made of stamps that were taken in order, although two processes take *)
(* them, for every number of GPUs, batch size, policy and length of the     *)
(* ring buffer.                                                             *)
(***************************************************************************)
EXTENDS Tracing, RefinementProofs

-----------------------------------------------------------------------------
(* Traces *)

LastOf(tr) == tr.attempts[Len(tr.attempts)]

\* A trace with p checkpoints, the last of them at step s, and n attempts at work.
Story(tr, p, n, s) ==
  /\ tr.preempts = p
  /\ Len(tr.attempts) = p + n
  /\ \A k \in DOMAIN tr.attempts :
       /\ tr.attempts[k].resumed <=> k > 1
       /\ k <= p <=> tr.attempts[k].preempted_at_step # None
  /\ \A k \in 1..(p - 1) :
       tr.attempts[k].preempted_at_step <= tr.attempts[k + 1].preempted_at_step
  /\ p > 0 => tr.attempts[p].preempted_at_step = s

Timely(tr, now) ==
  /\ tr.arrival <= now
  /\ \A k \in DOMAIN tr.attempts :
       tr.arrival <= tr.attempts[k].t_dispatch /\ tr.attempts[k].t_dispatch <= now

LEMMA TraceParts ==
  ASSUME NEW tr \in Trace
  PROVE  /\ tr.rid \in Jobs /\ tr.arrival \in Time /\ tr.arrival \in Int /\ tr.preempts \in Nat
         /\ tr.attempts \in Seq(Attempt) /\ Len(tr.attempts) \in Nat
         /\ DOMAIN tr.attempts = 1..Len(tr.attempts)
         /\ \A k \in 1..Len(tr.attempts) :
              tr.attempts[k] \in Attempt /\ tr.attempts[k].t_dispatch \in Int
<1>1. tr.attempts \in Seq(Attempt)
  BY DEF Trace
<1>2. /\ Len(tr.attempts) \in Nat /\ DOMAIN tr.attempts = 1..Len(tr.attempts)
      /\ \A k \in 1..Len(tr.attempts) : tr.attempts[k] \in Attempt
  BY <1>1, LenProperties, ElementOfSeq
<1>3. \A a \in Attempt : a.t_dispatch \in Int
  BY TimeAssumption DEF Attempt, Time
<1> QED
  BY <1>1, <1>2, <1>3, TimeAssumption DEF Trace, Time

LEMMA TraceBegins ==
  ASSUME NEW j \in Jobs, perf_counter \in Time
  PROVE  /\ Marks(j) \in Trace /\ Marks(j).rid = j
         /\ \A s : Story(Marks(j), 0, 0, s)
         /\ Timely(Marks(j), perf_counter)
<1>1. <<>> \in Seq(Attempt) /\ Len(<<>>) = 0 /\ DOMAIN <<>> = {}
  BY EmptySeq
<1>2. Marks(j) \in Trace
  BY <1>1 DEF Marks, Trace
<1>3. perf_counter \in Int
  BY TimeAssumption DEF Time
<1> QED
  BY <1>1, <1>2, <1>3 DEF Marks, Story, Timely

\* A dispatch adds an attempt, which is resumed if there was a checkpoint.
LEMMA AttemptAdded ==
  ASSUME NEW tr \in Trace, NEW a \in Attempt, NEW p \in Nat, NEW s, Story(tr, p, 0, s),
         a.resumed <=> p > 0, a.preempted_at_step = None
  PROVE  LET t == [tr EXCEPT !.attempts = Append(@, a)]
         IN  /\ t \in Trace /\ t.rid = tr.rid /\ t.arrival = tr.arrival
             /\ Story(t, p, 1, s) /\ LastOf(t) = a
             /\ \A now \in Int : Timely(tr, now) /\ tr.arrival <= a.t_dispatch /\ a.t_dispatch <= now
                                   => Timely(t, now)
<1> DEFINE at == tr.attempts
           longer == Append(at, a)
           t == [tr EXCEPT !.attempts = longer]
<1>1. /\ at \in Seq(Attempt) /\ Len(at) = p /\ DOMAIN at = 1..p /\ tr.preempts = p
  BY TraceParts DEF Story
<1>2. /\ longer \in Seq(Attempt) /\ Len(longer) = p + 1
      /\ \A k \in 1..p : longer[k] = at[k]
      /\ longer[p + 1] = a
  BY <1>1, AppendProperties
<1>3. DOMAIN longer = 1..(p + 1)
  BY <1>2, LenProperties
<1>4. \A k \in 1..(p + 1) : k \in 1..p \/ k = p + 1
  OBVIOUS
<1> HIDE DEF longer
<1>5. /\ t \in Trace /\ t.rid = tr.rid /\ t.arrival = tr.arrival /\ t.preempts = p
      /\ t.attempts = longer
  BY <1>1, <1>2 DEF Trace
<1> HIDE DEF t
<1>6. Story(t, p, 1, s)
  <2>1. ASSUME NEW k \in 1..(p + 1)
        PROVE  /\ longer[k].resumed <=> k > 1
               /\ k <= p <=> longer[k].preempted_at_step # None
    <3>1. CASE k \in 1..p
      BY <1>1, <1>2, <3>1 DEF Story
    <3>2. CASE k = p + 1
      BY <1>2, <3>2
    <3> QED
      BY <1>4, <3>1, <3>2
  <2>2. \A k \in 1..(p - 1) : longer[k].preempted_at_step <= longer[k + 1].preempted_at_step
    BY <1>1, <1>2 DEF Story
  <2>3. p > 0 => longer[p].preempted_at_step = s
    BY <1>1, <1>2 DEF Story
  <2> QED
    BY <1>2, <1>3, <1>5, <2>1, <2>2, <2>3 DEF Story
<1>7. LastOf(t) = a
  BY <1>2, <1>5 DEF LastOf
<1>8. ASSUME NEW now \in Int, Timely(tr, now), tr.arrival <= a.t_dispatch, a.t_dispatch <= now
      PROVE  Timely(t, now)
  BY <1>1, <1>2, <1>3, <1>4, <1>5, <1>8 DEF Timely
<1> QED
  BY <1>5, <1>6, <1>7, <1>8 DEF t, longer

\* A checkpoint is written into the attempt at work.
LEMMA AttemptCheckpointed ==
  ASSUME NEW tr \in Trace, NEW p \in Nat, NEW s, NEW step \in Nat, Story(tr, p, 1, s),
         p > 0 => s <= step
  PROVE  LET t == WithCheckpoint(tr, step)
         IN  /\ t \in Trace /\ t.rid = tr.rid
             /\ Story(t, p + 1, 0, step)
             /\ \A now \in Int : Timely(tr, now) => Timely(t, now)
<1> DEFINE at == tr.attempts
           a == [at[p + 1] EXCEPT !.preempted_at_step = step]
           stamped == [at EXCEPT ![p + 1] = a]
           t1 == [tr EXCEPT !.preempts = p + 1]
           t == [t1 EXCEPT !.attempts = stamped]
<1>1. /\ at \in Seq(Attempt) /\ Len(at) = p + 1 /\ DOMAIN at = 1..(p + 1) /\ tr.preempts = p
      /\ \A k \in 1..(p + 1) : at[k] \in Attempt
  BY TraceParts DEF Story
<1>2. /\ a \in Attempt /\ a.resumed = at[p + 1].resumed /\ a.t_dispatch = at[p + 1].t_dispatch
      /\ a.preempted_at_step = step
  BY <1>1 DEF Attempt
<1> HIDE DEF a
<1>3. /\ stamped \in [1..(p + 1) -> Attempt] /\ stamped[p + 1] = a
      /\ \A k \in 1..p : stamped[k] = at[k]
  BY <1>1, <1>2
<1>4. stamped \in Seq(Attempt) /\ Len(stamped) = p + 1 /\ DOMAIN stamped = 1..(p + 1)
  <2> DEFINE n == p + 1
  <2>1. n \in Nat /\ stamped \in [1..n -> Attempt]
    BY <1>3
  <2> HIDE DEF n, stamped
  <2>2. stamped \in Seq(Attempt) /\ DOMAIN stamped = 1..n
    BY <2>1, SeqDef
  <2>3. Len(stamped) = n
    BY <2>1, <2>2, LenProperties
  <2> QED
    BY <2>2, <2>3 DEF n
<1>5. \A k \in 1..(p + 1) : k \in 1..p \/ k = p + 1
  OBVIOUS
<1>6. WithCheckpoint(tr, step) = t
  <2>1. at # <<>>
    BY <1>1
  <2>2. Stamp(at, Len(at), step) = stamped
    BY <1>1, <2>1 DEF Stamp, a
  <2>3. t1.attempts = at /\ t1.preempts = p + 1
    BY DEF Trace
  <2> HIDE DEF stamped
  <2> QED
    BY <1>1, <2>2, <2>3 DEF WithCheckpoint
<1> HIDE DEF stamped
<1>7. /\ t1 \in Trace /\ t1.rid = tr.rid /\ t1.arrival = tr.arrival /\ t1.preempts = p + 1
  BY DEF Trace
<1> HIDE DEF t1
<1>8. /\ t \in Trace /\ t.rid = tr.rid /\ t.arrival = tr.arrival /\ t.preempts = p + 1
      /\ t.attempts = stamped
  BY <1>4, <1>7 DEF Trace
<1> HIDE DEF t
<1>9. Story(t, p + 1, 0, step)
  <2>1. step # None
    BY NoTraceAssumption
  <2>2. ASSUME NEW k \in 1..(p + 1)
        PROVE  /\ stamped[k].resumed <=> k > 1
               /\ k <= p + 1 <=> stamped[k].preempted_at_step # None
    <3>1. CASE k \in 1..p
      <4>1. at[k].resumed <=> k > 1
        BY <1>1 DEF Story
      <4>2. k <= p /\ k <= p + 1
        BY <3>1
      <4>3. at[k].preempted_at_step # None
        BY <1>1, <4>2, Zenon DEF Story
      <4>4. stamped[k] = at[k]
        BY <1>3, <3>1
      <4> QED
        BY <4>1, <4>2, <4>3, <4>4, Zenon
    <3>2. CASE k = p + 1
      BY <1>1, <1>2, <1>3, <2>1, <3>2 DEF Story
    <3> QED
      BY <1>5, <3>1, <3>2
  <2>3. ASSUME NEW k \in 1..p
        PROVE  stamped[k].preempted_at_step <= stamped[k + 1].preempted_at_step
    <3>1. CASE k = p
      BY <1>2, <1>3, <3>1 DEF Story
    <3>2. CASE k # p
      <4>1. k \in 1..(p - 1) /\ k + 1 \in 1..p
        BY <3>2
      <4> QED
        BY <1>3, <4>1 DEF Story
    <3> QED
      BY <3>1, <3>2
  <2>4. stamped[p + 1].preempted_at_step = step
    BY <1>2, <1>3
  <2> QED
    BY <1>4, <1>8, <2>2, <2>3, <2>4 DEF Story
<1>10. ASSUME NEW now \in Int, Timely(tr, now)
       PROVE  Timely(t, now)
  BY <1>1, <1>2, <1>3, <1>4, <1>5, <1>8, <1>10 DEF Timely
<1> QED
  BY <1>6, <1>8, <1>9, <1>10

-----------------------------------------------------------------------------
(* The traces of the jobs *)

\* Every step with its mark is a step of the gateway.
LEMMA TracedStep ==
  ASSUME [TracingNext \/ Tick]_tracedVars
  PROVE  [Next]_vars
<1>1. CASE \E j \in Jobs, r \in Requests : Admitted(j, r)
  BY <1>1 DEF Admitted, Next, Client
<1>2. CASE \E h \in Jobs, g \in GPUs : Dispatched(h, g)
  BY <1>2 DEF Dispatched, Next, DispatcherStep
<1>3. CASE \E g \in GPUs : Preempted(g) \/ Finished(g) \/ WorkerRuns(g)
  BY <1>3 DEF Preempted, Finished, WorkerRuns, StampedStep, Next, WorkerStep
<1>4. CASE (\E r \in Requests : Refused(r)) \/ \E j \in Jobs : Responded(j)
  BY <1>4 DEF Refused, Responded, Next, Client
<1>5. CASE Unmarked
  BY <1>5 DEF Unmarked, Next, Client, DispatcherStep
<1>6. CASE Tick \/ UNCHANGED tracedVars
  BY <1>6 DEF Tick, tracedVars
<1> QED
  BY <1>1, <1>2, <1>3, <1>4, <1>5, <1>6 DEF TracingNext

\* A job has been checkpointed as often as it says, and has a checkpoint if ever.
YieldsCounted ==
  \A j \in Jobs : job[j] # None => (job[j].preempt_count > 0 <=> job[j].resume_state # None)

LEMMA YieldsCountedNext ==
  ASSUME Settled, YieldsCounted, [Next]_vars
  PROVE  YieldsCounted'
<1> USE DEF Settled
<1> SUFFICES ASSUME NEW j \in Jobs, job'[j] # None
             PROVE  job'[j].preempt_count > 0 <=> job'[j].resume_state # None
  BY DEF YieldsCounted
<1>1. job[j] # None => job[j].preempt_count \in Nat
  BY DEF Typed, TypeOK, SchedTypeOK, Job
<1>2. CASE Checkpointed(j)
  <2>1. /\ job'[j].preempt_count = job[j].preempt_count + 1
        /\ job'[j].resume_state # None /\ job[j] # None
    BY <1>2, CheckpointedJob DEF Checkpointed
  <2> QED
    BY <1>1, <2>1
<1>3. CASE ~Checkpointed(j) /\ job[j] # None
  BY <1>3, JobsKeepProgress DEF SameProgress, YieldsCounted
<1>4. CASE ~Checkpointed(j) /\ job[j] = None
  <2>1. PICK r \in Requests : Generate(j, r)
    BY <1>4, JobsAppear
  <2>2. job'[j] = NewJob(r)
    BY <2>1 DEF Generate, Admit, Typed, TypeOK, SchedTypeOK
  <2> QED
    BY <2>2 DEF NewJob
<1> QED
  BY <1>2, <1>3, <1>4

Out(j) == IF j \in Queued THEN 0 ELSE 1

TraceTrue(j) ==
  /\ active[j] \in Trace /\ active[j].rid = j
  /\ Story(active[j], job[j].preempt_count, Out(j), StartIndex(j))
  /\ Timely(active[j], perf_counter)

\* Exactly the jobs that have not ended have a trace, and it is their own.
TracesTrue ==
  /\ active \in [Jobs -> Trace \cup {None}]
  /\ perf_counter \in Time
  /\ \A j \in pending : TraceTrue(j)
  /\ \A j \in Jobs \ pending : active[j] = None

LEMMA TraceKept ==
  ASSUME NEW j \in Jobs, TraceTrue(j), active'[j] = active[j], SameProgress(j),
         j \in Queued <=> (j \in Queued)', perf_counter \in Time, perf_counter' \in Time,
         perf_counter <= perf_counter'
  PROVE  TraceTrue(j)'
<1>1. StartIndex(j)' = StartIndex(j) /\ Out(j)' = Out(j)
      /\ job'[j].preempt_count = job[j].preempt_count
  BY DEF StartIndex, Out, SameProgress
<1>2. active[j] \in Trace /\ perf_counter \in Int /\ perf_counter' \in Int
  BY TimeAssumption DEF TraceTrue, Time
<1>3. Timely(active[j], perf_counter')
  BY <1>2, TraceParts DEF TraceTrue, Timely
<1> QED
  BY <1>1, <1>3 DEF TraceTrue

LEMMA TracesAdmitted ==
  ASSUME Settled, [Next]_vars, TracesTrue, NEW j \in Jobs, NEW r \in Requests, Generate(j, r),
         MarkAdmitted(j), UNCHANGED perf_counter
  PROVE  TracesTrue' /\ j \notin pending /\ \A k \in Jobs : k # j => active'[k] = active[k]
<1> USE DEF Settled
<1>1. /\ job[j] = None /\ pending' = pending \cup {j} /\ job' = [job EXCEPT ![j] = NewJob(r)]
      /\ queues' = [queues EXCEPT ![r.queue] = Append(queues[r.queue], j)]
  BY DEF Generate, Admit
<1>2. j \notin pending /\ pending \subseteq Jobs
  BY <1>1 DEF Typed, TypeOK, JobsExist
<1>3. active' = [active EXCEPT ![j] = Marks(j)] /\ perf_counter \in Time
  BY DEF MarkAdmitted, TracesTrue
<1>4. /\ active'[j] = Marks(j) /\ \A k \in Jobs : k # j => active'[k] = active[k]
      /\ active' \in [Jobs -> Trace \cup {None}]
  BY <1>3, TraceBegins DEF TracesTrue
<1>5. Queued' = Queued \cup {j}
  <2>1. r.queue \in Class /\ queues[r.queue] \in Seq(Jobs)
    BY ConfigAssumption DEF Typed, TypeOK, SchedTypeOK
  <2>2. Range(Append(queues[r.queue], j)) = Range(queues[r.queue]) \cup {j}
    BY <2>1, RangeOfAppend
  <2>3. Queued' = (Queued \ Range(queues[r.queue])) \cup Range(queues[r.queue]) \cup {j}
    BY <1>1, <2>1, <2>2, QueuedAfter
  <2>4. Range(queues[r.queue]) \subseteq Queued
    BY <2>1 DEF Queued
  <2> QED
    BY <2>3, <2>4
<1>6. TraceTrue(j)'
  <2>1. job'[j].preempt_count = 0 /\ Out(j)' = 0
    BY <1>1, <1>5 DEF Out, NewJob, Typed, TypeOK, SchedTypeOK
  <2> QED
    BY <1>3, <1>4, <2>1, TraceBegins DEF TraceTrue
<1>7. ASSUME NEW k \in pending PROVE TraceTrue(k)'
  <2>1. k \in Jobs /\ k # j /\ job'[k] = job[k]
    BY <1>1, <1>2 DEF Typed, TypeOK, SchedTypeOK
  <2>2. k \in Queued <=> (k \in Queued)'
    BY <1>5, <2>1
  <2>3. perf_counter <= perf_counter'
    BY <1>3, TimeAssumption DEF Time
  <2> QED
    BY <1>3, <1>4, <2>1, <2>2, <2>3, TraceKept DEF TracesTrue, SameProgress
<1>8. \A k \in Jobs \ pending' : active'[k] = None
  BY <1>1, <1>4 DEF TracesTrue
<1> QED
  BY <1>1, <1>2, <1>3, <1>4, <1>6, <1>7, <1>8 DEF TracesTrue

\* The attempt that a dispatch of the group of h to g adds to the trace of j.
NewAttempt(h, g, j) ==
  [t_dispatch |-> perf_counter, gpu |-> g, batch_id |-> NewBatchId,
   batch_size |-> Len(GroupOf(h)), resumed |-> job[j].resume_state # None,
   preempted_at_step |-> None]

LEMMA TracesDispatched ==
  ASSUME Settled, [Next]_vars, YieldsCounted, TracesTrue, NEW h \in Jobs, NEW g \in GPUs,
         DispatchBatch(h, g), MarkDispatched(h, g), UNCHANGED perf_counter
  PROVE  /\ TracesTrue'
         /\ \A j \in Range(GroupOf(h)) : LastOf(active'[j]) = NewAttempt(h, g, j)
         /\ \A j \in Jobs : j \notin Range(GroupOf(h)) => active'[j] = active[j]
<1> USE DEF Settled
<1>1. PICK grp : grp = Range(GroupOf(h))
  OBVIOUS
<1>2. /\ grp \subseteq Queued /\ Queued' = Queued \ grp
      /\ h \in Queued /\ UNCHANGED pending /\ perf_counter \in Time
  BY <1>1, PlacedDispatch DEF DispatchBatch, clientVars, TracesTrue
<1>3. \A j \in grp : j \in pending /\ j \in Jobs
  BY <1>2 DEF Placed, PendingPlaced, Typed, TypeOK
<1>4. \A j \in Jobs : ~Checkpointed(j)
  BY DEF DispatchBatch, Checkpointed, OnPreempted, TakeResponse, LoopIdle
<1>5. \A j \in Jobs : job[j] # None => SameProgress(j)
  BY <1>4, JobsKeepProgress
<1>6. \A j \in pending : j \in Jobs /\ job[j] # None
  BY DEF Typed, TypeOK, JobsExist
<1>7. Len(GroupOf(h)) \in 1..MAX_BATCH
  <2>1. Len(OwedIds(g)') <= MAX_BATCH /\ OwedIds(g)' = GroupOf(h)
    BY <1>2, PlacedDispatch, OwedDispatch DEF Placed, OwedOnce
  <2>2. GroupOf(h) \in Seq(Jobs) /\ GroupOf(h) # <<>>
    BY <1>2, SelectedGroup
  <2>3. Len(GroupOf(h)) \in Nat \ {0}
    BY <2>2, LenProperties, EmptySeq
  <2>4. Len(GroupOf(h)) <= MAX_BATCH
    <3> HIDE DEF OwedIds
    <3> QED
      BY <2>1
  <2> QED
    BY <2>3, <2>4, ConfigAssumption
<1>8. NewBatchId \in Nat
  BY DEF NewBatchId, Typed, TypeOK
<1>9. \A j \in Jobs : NewAttempt(h, g, j) \in Attempt
  BY <1>2, <1>7, <1>8 DEF NewAttempt, Attempt
<1>10. ASSUME NEW j \in grp
       PROVE  /\ active'[j] \in Trace /\ LastOf(active'[j]) = NewAttempt(h, g, j)
              /\ TraceTrue(j)'
  <2> DEFINE tr == active[j]
             a == NewAttempt(h, g, j)
             t == [tr EXCEPT !.attempts = Append(tr.attempts, a)]
             p == job[j].preempt_count
  <2>1. /\ j \in Jobs /\ job[j] # None /\ p \in Nat /\ j \in Queued
        /\ tr \in Trace /\ tr.rid = j /\ Story(tr, p, 0, StartIndex(j)) /\ Timely(tr, perf_counter)
    BY <1>2, <1>3, <1>6 DEF TracesTrue, TraceTrue, Out, Typed, TypeOK, SchedTypeOK, Job
  <2>2. active'[j] = t
    <3>1. tr # None /\ j \in MarkedBy(h)
      BY <1>1, <2>1, NoTraceAssumption DEF MarkedBy
    <3>2. active' = [k \in Jobs |->
             IF k \notin MarkedBy(h) \/ active[k] = None THEN active[k]
             ELSE [active[k] EXCEPT !.attempts = Append(active[k].attempts, NewAttempt(h, g, k))]]
      BY DEF MarkDispatched, NewAttempt
    <3> HIDE DEF a
    <3> QED
      BY <2>1, <3>1, <3>2 DEF a
  <2>3. /\ a \in Attempt /\ a.preempted_at_step = None /\ a.t_dispatch = perf_counter
        /\ a.resumed <=> p > 0
    BY <1>9, <2>1 DEF NewAttempt, YieldsCounted
  <2>4. tr.arrival <= perf_counter /\ perf_counter <= perf_counter /\ perf_counter \in Int
    BY <1>2, <2>1, TimeAssumption DEF Timely, Time
  <2> HIDE DEF a
  <2>5. /\ t \in Trace /\ t.rid = j /\ LastOf(t) = a /\ Story(t, p, 1, StartIndex(j))
        /\ Timely(t, perf_counter)
    BY <2>1, <2>3, <2>4, AttemptAdded
  <2>6. SameProgress(j) /\ j \notin Queued'
    BY <1>2, <1>5, <2>1
  <2>7. Out(j)' = 1 /\ StartIndex(j)' = StartIndex(j) /\ job'[j].preempt_count = p
    BY <2>6 DEF Out, StartIndex, SameProgress
  <2> HIDE DEF t, tr
  <2> QED
    BY <2>2, <2>5, <2>7 DEF TraceTrue, a
<1>11. ASSUME NEW j \in Jobs, j \notin grp
       PROVE  active'[j] = active[j]
  BY <1>1, <1>11 DEF MarkDispatched, MarkedBy
<1>12. ASSUME NEW j \in pending, j \notin grp
       PROVE  TraceTrue(j)'
  <2>1. j \in Jobs /\ SameProgress(j) /\ active'[j] = active[j]
        /\ (j \in Queued <=> (j \in Queued)')
    BY <1>2, <1>5, <1>6, <1>11, <1>12
  <2>2. perf_counter <= perf_counter'
    BY <1>2, TimeAssumption DEF Time
  <2> QED
    BY <1>2, <1>12, <2>1, <2>2, TraceKept DEF TracesTrue
<1>13. active' \in [Jobs -> Trace \cup {None}]
  <2>1. DOMAIN active' = Jobs /\ active' = [j \in Jobs |-> active'[j]]
    BY DEF MarkDispatched
  <2>2. \A j \in Jobs : active'[j] \in Trace \cup {None}
    BY <1>10, <1>11 DEF TracesTrue
  <2> QED
    BY <2>1, <2>2
<1>14. TracesTrue'
  BY <1>2, <1>3, <1>10, <1>11, <1>12, <1>13 DEF TracesTrue
<1> QED
  BY <1>1, <1>10, <1>11, <1>14

LEMMA TracesPreempted ==
  ASSUME Settled, YieldTrue, [Next]_vars, TracesTrue, NEW g \in GPUs, OnPreempted(g),
         MarkPreempted(Head(response_q[g])), UNCHANGED perf_counter
  PROVE  /\ TracesTrue'
         /\ \A j \in Jobs : j # Head(response_q[g]).request_id => active'[j] = active[j]
<1> USE DEF Settled
<1>1. PICK m, rid : m = Head(response_q[g]) /\ rid = m.request_id
  OBVIOUS
<1>2. /\ m \in Response /\ m.type = "preempted" /\ m \in Range(response_q[g])
      /\ rid \in Jobs /\ rid \in pending /\ job[rid] # None
      /\ job'[rid].resume_state = [latents |-> m.latents, step_index |-> m.step_index]
      /\ job'[rid].resume_state # None
      /\ job'[rid].preempt_count = job[rid].preempt_count + 1
      /\ \A k \in Jobs : k # rid => job'[k] = job[k]
  BY <1>1, CheckpointedJob
<1>3. rid \notin Queued /\ Queued' = Queued \cup {rid} /\ UNCHANGED pending
  BY <1>1, PlacedOnPreempted DEF OnPreempted, clientVars
<1>4. m.step_index \in Nat
  BY <1>2 DEF Response
<1>5. StartIndex(rid) <= m.step_index
  BY <1>1, <1>2 DEF YieldTrue, Yields, MessagesYield
<1>6. PICK p, tr, t : p = job[rid].preempt_count /\ tr = active[rid] /\ t = WithCheckpoint(tr, m.step_index)
  OBVIOUS
<1>7. /\ p \in Nat /\ tr \in Trace /\ tr.rid = rid /\ Story(tr, p, 1, StartIndex(rid))
      /\ Timely(tr, perf_counter) /\ perf_counter \in Time /\ perf_counter \in Int
  BY <1>2, <1>3, <1>6, TimeAssumption
     DEF TracesTrue, TraceTrue, Out, Typed, TypeOK, SchedTypeOK, Job, Time
<1>8. t \in Trace /\ t.rid = rid /\ Story(t, p + 1, 0, m.step_index) /\ Timely(t, perf_counter)
  BY <1>4, <1>5, <1>6, <1>7, AttemptCheckpointed
<1>9. active' = [active EXCEPT ![rid] = t]
  <2>1. active[rid] # None
    BY <1>6, <1>7, NoTraceAssumption
  <2> QED
    BY <1>1, <1>2, <1>6, <2>1, Zenon DEF MarkPreempted
<1>10. /\ active'[rid] = t /\ \A j \in Jobs : j # rid => active'[j] = active[j]
       /\ active' \in [Jobs -> Trace \cup {None}]
  BY <1>2, <1>8, <1>9 DEF TracesTrue
<1>11. TraceTrue(rid)'
  <2>1. StartIndex(rid)' = m.step_index /\ Out(rid)' = 0
    BY <1>2, <1>3 DEF StartIndex, Out
  <2> QED
    BY <1>2, <1>6, <1>8, <1>10, <2>1 DEF TraceTrue
<1>12. ASSUME NEW j \in pending, j # rid
       PROVE  TraceTrue(j)'
  <2>1. j \in Jobs /\ SameProgress(j) /\ active'[j] = active[j]
        /\ (j \in Queued <=> (j \in Queued)')
    BY <1>2, <1>3, <1>10, <1>12 DEF SameProgress, Typed, TypeOK
  <2>2. perf_counter <= perf_counter'
    BY <1>7
  <2> QED
    BY <1>7, <1>12, <2>1, <2>2, TraceKept DEF TracesTrue
<1> QED
  BY <1>1, <1>2, <1>3, <1>7, <1>10, <1>11, <1>12 DEF TracesTrue

LEMMA TracesFinished ==
  ASSUME Settled, [Next]_vars, TracesTrue, NEW g \in GPUs, OnFinished(g),
         MarkComplete(Head(response_q[g]), worker_clock[g]), UNCHANGED perf_counter
  PROVE  LET m == Head(response_q[g])
             rid == m.request_id
         IN  /\ TracesTrue' /\ rid \in pending /\ TraceTrue(rid) /\ active'[rid] = None
             /\ Finish(active[rid], m, worker_clock[g])
             /\ \A j \in Jobs : j # rid => active'[j] = active[j]
<1> USE DEF Settled
<1>1. PICK m, rid : m = Head(response_q[g]) /\ rid = m.request_id
  OBVIOUS
<1>2. /\ rid \in pending /\ pending' = pending \ {rid} /\ UNCHANGED <<job, queues>>
      /\ rid \in Jobs /\ pending \subseteq Jobs /\ perf_counter \in Time
  BY <1>1, PlacedOnFinished DEF OnFinished, Typed, TypeOK, TracesTrue
<1>3. TraceTrue(rid) /\ active[rid] # None
  BY <1>2, NoTraceAssumption DEF TracesTrue, TraceTrue
<1>4. /\ active' = [active EXCEPT ![rid] = None]
      /\ Finish(active[rid], m, worker_clock[g])
  BY <1>1, <1>2, <1>3 DEF MarkComplete
<1>5. /\ active'[rid] = None /\ \A j \in Jobs : j # rid => active'[j] = active[j]
      /\ active' \in [Jobs -> Trace \cup {None}]
  BY <1>2, <1>4 DEF TracesTrue
<1>6. ASSUME NEW j \in pending, j # rid
      PROVE  TraceTrue(j)'
  <2>1. j \in Jobs /\ SameProgress(j) /\ active'[j] = active[j]
        /\ (j \in Queued <=> (j \in Queued)')
    BY <1>2, <1>5, <1>6 DEF SameProgress, Queued
  <2>2. perf_counter <= perf_counter'
    BY <1>2, TimeAssumption DEF Time
  <2> QED
    BY <1>2, <1>6, <2>1, <2>2, TraceKept DEF TracesTrue
<1>7. TracesTrue'
  BY <1>2, <1>5, <1>6 DEF TracesTrue
<1> QED
  BY <1>1, <1>2, <1>3, <1>4, <1>5, <1>7

LEMMA TracesSame ==
  ASSUME Settled, TracesTrue, UNCHANGED <<active, pending>>, Queued' = Queued,
         \A j \in Jobs : job[j] # None => SameProgress(j),
         perf_counter' \in Time, perf_counter <= perf_counter'
  PROVE  TracesTrue'
<1>1. \A j \in pending : j \in Jobs /\ job[j] # None
  BY DEF Settled, Typed, TypeOK, JobsExist
<1>2. \A j \in Jobs : j \in Queued <=> (j \in Queued)'
  <2> HIDE DEF Queued
  <2> QED
    OBVIOUS
<1>3. \A j \in pending : TraceTrue(j)'
  BY <1>1, <1>2, TraceKept DEF TracesTrue
<1> QED
  BY <1>3 DEF TracesTrue

-----------------------------------------------------------------------------
(* The batches and the clock *)

LEMMA NoMessageTaken ==
  ASSUME Typed, UNCHANGED response_q
  PROVE  \A j \in Jobs : ~Checkpointed(j)
<1> SUFFICES ASSUME NEW g \in GPUs, TakeResponse(g) PROVE FALSE
  BY DEF Checkpointed, OnPreempted
<1>1. response_q[g] \in Seq(Response) /\ response_q[g] # <<>>
  BY DEF TakeResponse, Typed, TypeOK, WorkerTypeOK
<1>2. response_q'[g] = Tail(response_q[g])
  BY DEF TakeResponse, Typed, TypeOK, WorkerTypeOK
<1>3. Len(Tail(response_q[g])) = Len(response_q[g]) - 1 /\ Len(response_q[g]) \in Nat
  BY <1>1, HeadTailProperties, LenProperties
<1>4. Len(Tail(response_q[g])) = Len(response_q[g])
  BY <1>2, Zenon
<1> QED
  BY <1>3, <1>4

\* What the steps without a mark leave alone.
Undisturbed ==
  /\ UNCHANGED <<active, done, worker_clock, pending, busy, request_q, running, response_q>>
  /\ Queued' = Queued
  /\ \A j \in Jobs : job[j] # None => SameProgress(j)
  /\ perf_counter' \in Time /\ perf_counter <= perf_counter'

LEMMA UnmarkedLeaves ==
  ASSUME Settled, [Next]_vars, perf_counter \in Time,
         \/ \E r \in Requests : Refused(r)
         \/ \E j \in Jobs : Responded(j)
         \/ Unmarked \/ Tick \/ UNCHANGED tracedVars
  PROVE  Undisturbed
<1> USE DEF Settled
<1>1. perf_counter \in Int /\ perf_counter <= perf_counter
  BY TimeAssumption DEF Time
<1>2. ASSUME \E h \in Jobs : HoldBatch(h)
      PROVE  Queued' = Queued /\ UNCHANGED <<pending, busy, request_q, running, response_q>>
  BY <1>2, PlacedHoldBatch DEF HoldBatch, clientVars, workerVars
<1>3. ASSUME \/ \E r \in Requests : Reject(r)
             \/ \E j \in Jobs : Cancel(j) \/ Respond(j) \/ TimerFire(j)
             \/ Wake \/ FillDone \/ Evict \/ Age \/ Idle \/ UNCHANGED vars
      PROVE  UNCHANGED <<queues, pending, busy, request_q, running, response_q>>
  BY <1>3 DEF Reject, Cancel, Respond, TimerFire, Wake, FillDone, Evict, Age, Idle,
              vars, schedVars, workerVars, clientVars
<1>4. UNCHANGED <<pending, busy, request_q, running, response_q>> /\ Queued' = Queued
  <2>1. CASE \E h \in Jobs : HoldBatch(h)
    BY <1>2, <2>1
  <2>2. CASE ~\E h \in Jobs : HoldBatch(h)
    <3>1. UNCHANGED <<queues, pending, busy, request_q, running, response_q>>
      BY <1>3, <2>2 DEF Refused, Responded, Unmarked, Tick, tracedVars
    <3> QED
      BY <3>1 DEF Queued
  <2> QED
    BY <2>1, <2>2
<1>5. \A j \in Jobs : job[j] # None => SameProgress(j)
  BY <1>4, NoMessageTaken, JobsKeepProgress
<1>6. UNCHANGED <<active, done, worker_clock>> /\ perf_counter' \in Time /\ perf_counter <= perf_counter'
  <2>1. CASE Tick
    BY <1>1, <2>1, TimeAssumption DEF Tick, traceVars, Time
  <2>2. CASE ~Tick
    <3>1. UNCHANGED <<active, done, worker_clock, perf_counter>>
      BY <2>2 DEF Refused, Responded, Unmarked, tracedVars, traceVars, clockVars
    <3> QED
      BY <1>1, <3>1
  <2> QED
    BY <2>1, <2>2
<1> QED
  BY <1>4, <1>5, <1>6 DEF Undisturbed

\* The last attempt of every job that g owes an answer is the batch it works on.
BatchTraced(g) ==
  \A j \in Range(OwedIds(g)) :
    /\ LastOf(active[j]).gpu = g
    /\ LastOf(active[j]).batch_id = busy[g].batch_id
    /\ LastOf(active[j]).batch_size = Cardinality(busy[g].jobs)

\* The stamps of g are past, and were taken after that attempt began, in order.
ClockTrue(g) ==
  LET t == worker_clock[g]
  IN  /\ t.t_start <= perf_counter /\ t.t_end <= perf_counter
      /\ running[g] # None =>
           \A j \in Range(OwedIds(g)) : LastOf(active[j]).t_dispatch <= t.t_start
      /\ \A m \in Range(response_q[g]) : m.type # "error" =>
           LastOf(active[m.request_id]).t_dispatch <= t.t_start /\ t.t_start <= t.t_end

Clocks == [t_start : Time, t_end : Time]

BatchesTraced ==
  /\ worker_clock \in [GPUs -> Clocks]
  /\ \A g \in GPUs : BatchTraced(g) /\ ClockTrue(g)

LEMMA LastAttempt ==
  ASSUME Settled, TracesTrue, NEW g \in GPUs, NEW j \in Range(OwedIds(g))
  PROVE  /\ active[j] \in Trace /\ active[j].attempts # <<>> /\ LastOf(active[j]) \in Attempt
         /\ LastOf(active[j]).t_dispatch \in Int
         /\ LastOf(active[j]).t_dispatch <= perf_counter
<1>1. j \in pending /\ j \notin Queued /\ j \in Jobs /\ job[j] # None
  BY OwedIsPending
<1>2. PICK tr, p : tr = active[j] /\ p = job[j].preempt_count
  OBVIOUS
<1>3. /\ tr \in Trace /\ p \in Nat /\ Len(tr.attempts) = p + 1 /\ Timely(tr, perf_counter)
  BY <1>1, <1>2 DEF TracesTrue, TraceTrue, Story, Out, Settled, Typed, TypeOK, SchedTypeOK, Job
<1>4. /\ DOMAIN tr.attempts = 1..(p + 1) /\ tr.attempts # <<>>
      /\ tr.attempts[p + 1] \in Attempt /\ tr.attempts[p + 1].t_dispatch \in Int
  BY <1>3, TraceParts
<1> QED
  BY <1>2, <1>3, <1>4 DEF LastOf, Timely

\* What g is working on looks the same if its traces, group and batch do.
LEMMA BatchSame ==
  ASSUME Settled, TracesTrue, NEW g \in GPUs, BatchTraced(g), ClockTrue(g),
         worker_clock[g] \in Clocks, UNCHANGED worker_clock[g],
         Range(OwedIds(g)') \subseteq Range(OwedIds(g)),
         \A j \in Range(OwedIds(g)') : active'[j] = active[j],
         OwedIds(g)' # <<>> => /\ busy'[g].batch_id = busy[g].batch_id
                               /\ busy'[g].jobs = busy[g].jobs,
         running'[g] # None => running[g] # None,
         Range(response_q'[g]) \subseteq Range(response_q[g]),
         \A m \in Range(response_q'[g]) : m.request_id \in Range(OwedIds(g)'),
         perf_counter \in Time, perf_counter' \in Time, perf_counter <= perf_counter'
  PROVE  BatchTraced(g)' /\ ClockTrue(g)'
<1>1. perf_counter \in Int /\ perf_counter' \in Int
      /\ worker_clock[g].t_start \in Int /\ worker_clock[g].t_end \in Int
  BY TimeAssumption DEF Time, Clocks
<1>2. Range(OwedIds(g)') # {} => OwedIds(g)' # <<>>
  BY DEF Range
<1> HIDE DEF OwedIds
<1>3. BatchTraced(g)'
  BY <1>2 DEF BatchTraced
<1>4. ClockTrue(g)'
  BY <1>1 DEF ClockTrue
<1> QED
  BY <1>3, <1>4

LEMMA BatchesAdmitted ==
  ASSUME Settled, TracesTrue, BatchesTraced, NEW j \in Jobs, NEW r \in Requests, Generate(j, r),
         j \notin pending, \A k \in Jobs : k # j => active'[k] = active[k],
         UNCHANGED <<worker_clock, perf_counter>>
  PROVE  BatchesTraced'
<1> SUFFICES ASSUME NEW g \in GPUs PROVE BatchTraced(g)' /\ ClockTrue(g)'
  BY DEF BatchesTraced
<1>1. UNCHANGED <<busy, request_q, running, response_q>>
  BY DEF Generate, workerVars
<1>2. OwedIds(g)' = OwedIds(g)
  BY <1>1, OwedUntouched
<1>3. \A k \in Range(OwedIds(g)) : active'[k] = active[k]
  BY OwedIsPending
<1>4. \A m \in Range(response_q[g]) : m.request_id \in Range(OwedIds(g))
  BY WorkIsOwed
<1>5. /\ perf_counter \in Time /\ perf_counter <= perf_counter /\ worker_clock[g] \in Clocks
      /\ BatchTraced(g) /\ ClockTrue(g)
  BY TimeAssumption DEF TracesTrue, BatchesTraced, Time
<1> HIDE DEF OwedIds
<1> QED
  BY <1>1, <1>2, <1>3, <1>4, <1>5, BatchSame

LEMMA BatchesUndisturbed ==
  ASSUME Settled, TracesTrue, BatchesTraced, Undisturbed
  PROVE  BatchesTraced'
<1> SUFFICES ASSUME NEW g \in GPUs PROVE BatchTraced(g)' /\ ClockTrue(g)'
  BY DEF BatchesTraced, Undisturbed
<1>1. /\ UNCHANGED <<busy, request_q, running, response_q, active, worker_clock>>
      /\ perf_counter' \in Time /\ perf_counter <= perf_counter'
  BY DEF Undisturbed
<1>2. OwedIds(g)' = OwedIds(g)
  BY <1>1, OwedUntouched
<1>3. \A m \in Range(response_q[g]) : m.request_id \in Range(OwedIds(g))
  BY WorkIsOwed
<1>4. /\ perf_counter \in Time /\ worker_clock[g] \in Clocks /\ BatchTraced(g) /\ ClockTrue(g)
  BY DEF TracesTrue, BatchesTraced
<1> HIDE DEF OwedIds
<1> QED
  BY <1>1, <1>2, <1>3, <1>4, BatchSame

LEMMA BatchesDispatched ==
  ASSUME Settled, TracesTrue, BatchesTraced, NEW h \in Jobs, NEW g \in GPUs, DispatchBatch(h, g),
         \A j \in Range(GroupOf(h)) : LastOf(active'[j]) = NewAttempt(h, g, j),
         \A j \in Jobs : j \notin Range(GroupOf(h)) => active'[j] = active[j],
         UNCHANGED <<worker_clock, perf_counter>>
  PROVE  BatchesTraced'
<1> USE DEF Settled
<1> SUFFICES ASSUME NEW k \in GPUs PROVE BatchTraced(k)' /\ ClockTrue(k)'
  BY DEF BatchesTraced
<1>1. /\ h \in Queued /\ busy[g] = None /\ busy' = [busy EXCEPT ![g] = NewGroup(h)]
      /\ UNCHANGED <<running, response_q>>
  BY DEF DispatchBatch, LeastUtilised, Free
<1>2. /\ OwedIds(g)' = GroupOf(h)
      /\ \A i \in GPUs : i # g => OwedIds(i)' = OwedIds(i)
  BY <1>1, OwedDispatch
<1>3. /\ perf_counter \in Time /\ perf_counter <= perf_counter /\ worker_clock[k] \in Clocks
      /\ BatchTraced(k) /\ ClockTrue(k)
  BY TimeAssumption DEF TracesTrue, BatchesTraced, Time
<1>4. CASE k = g
  <2>1. running[g] = None /\ response_q[g] = <<>>
    BY <1>1 DEF GroupAccounting, Unused
  <2>2. busy'[g].batch_id = NewBatchId /\ busy'[g].jobs = Range(GroupOf(h))
    BY <1>1 DEF NewGroup, Typed, TypeOK
  <2>3. Cardinality(Range(GroupOf(h))) = Len(GroupOf(h))
    <3>1. IsInjective(OwedIds(g)')
      BY PlacedDispatch DEF Placed, OwedOnce
    <3>2. GroupOf(h) \in Seq(Jobs)
      BY <1>1, SelectedGroup
    <3> HIDE DEF OwedIds
    <3>3. IsInjective(GroupOf(h))
      BY <1>2, <3>1
    <3> QED
      BY <3>2, <3>3, LengthOfInjective
  <2> HIDE DEF OwedIds
  <2>4. BatchTraced(g)'
    <3> SUFFICES ASSUME NEW j \in Range(GroupOf(h))
                 PROVE  /\ LastOf(active'[j]).gpu = g
                        /\ LastOf(active'[j]).batch_id = busy'[g].batch_id
                        /\ LastOf(active'[j]).batch_size = Cardinality(busy'[g].jobs)
      BY <1>2 DEF BatchTraced
    <3>1. LastOf(active'[j]) = NewAttempt(h, g, j)
      OBVIOUS
    <3> QED
      BY <2>2, <2>3, <3>1 DEF NewAttempt
  <2>5. ClockTrue(g)'
    BY <1>1, <1>3, <1>4, <2>1 DEF ClockTrue, Range
  <2> QED
    BY <1>4, <2>4, <2>5
<1>5. CASE k # g
  <2>1. busy'[k] = busy[k] /\ running'[k] = running[k] /\ response_q'[k] = response_q[k]
    BY <1>1, <1>5 DEF Typed, TypeOK
  <2>2. \A j \in Range(OwedIds(k)) : active'[j] = active[j]
    <3>1. Range(GroupOf(h)) \subseteq Queued
      BY PlacedDispatch
    <3> QED
      BY <3>1, OwedIsPending
  <2>3. \A m \in Range(response_q[k]) : m.request_id \in Range(OwedIds(k))
    BY WorkIsOwed
  <2>4. OwedIds(k)' = OwedIds(k)
    BY <1>2, <1>5
  <2> HIDE DEF OwedIds
  <2> QED
    BY <1>3, <2>1, <2>2, <2>3, <2>4, BatchSame
<1> QED
  BY <1>4, <1>5

\* The messages that are left are about the other jobs of the batch.
LEMMA MessagesLeft ==
  ASSUME Settled, NEW g \in GPUs, TakeResponse(g)
  PROVE  /\ UNCHANGED <<request_q, running>> /\ running[g] = None
         /\ \A m \in Range(response_q'[g]) :
              m \in Range(response_q[g]) /\ m.request_id \in Range(OwedIds(g)')
         /\ \A k \in GPUs : k # g => response_q'[k] = response_q[k]
<1> USE DEF Settled
<1>1. /\ response_q[g] # <<>> /\ response_q[g] \in Seq(Response)
      /\ response_q' = [response_q EXCEPT ![g] = Tail(response_q[g])]
      /\ UNCHANGED <<request_q, running>>
  BY DEF TakeResponse, Typed, TypeOK, WorkerTypeOK
<1>2. request_q[g] = <<>> /\ running[g] = None
  BY <1>1 DEF GroupAccounting, Unused, Sent, Executing, Answering
<1>3. /\ response_q'[g] = Tail(response_q[g])
      /\ \A k \in GPUs : k # g => response_q'[k] = response_q[k]
  BY <1>1 DEF Typed, TypeOK, WorkerTypeOK
<1>4. Range(response_q'[g]) \subseteq Range(response_q[g])
  BY <1>1, <1>3, RangeOfTail
<1>5. \A m \in Range(response_q'[g]) : m.request_id \in Range(OwedIds(g)')
  <2>1. Owed(g)' = response_q'[g]
    BY <1>1, <1>2 DEF Owed
  <2>2. OwedIds(g)' = [k \in DOMAIN response_q'[g] |-> response_q'[g][k].request_id]
    BY <2>1 DEF OwedIds
  <2> HIDE DEF OwedIds
  <2>3. DOMAIN OwedIds(g)' = DOMAIN response_q'[g]
        /\ \A k \in DOMAIN response_q'[g] : OwedIds(g)'[k] = response_q'[g][k].request_id
    BY <2>2
  <2> QED
    BY <2>3 DEF Range
<1> QED
  BY <1>1, <1>2, <1>3, <1>4, <1>5

LEMMA BatchesMessage ==
  ASSUME Settled, Settled', TracesTrue, BatchesTraced, NEW g \in GPUs, TakeResponse(g),
         \A j \in Jobs : j # Head(response_q[g]).request_id => active'[j] = active[j],
         UNCHANGED <<worker_clock, perf_counter>>
  PROVE  BatchesTraced'
<1> USE DEF Settled
<1>0. PICK rid : rid = Head(response_q[g]).request_id
  OBVIOUS
<1> SUFFICES ASSUME NEW k \in GPUs PROVE BatchTraced(k)' /\ ClockTrue(k)'
  BY DEF BatchesTraced
<1>1. /\ Range(OwedIds(g)') = Range(OwedIds(g)) \ {rid}
      /\ \A i \in GPUs : i # g => OwedIds(i)' = OwedIds(i) /\ rid \notin Range(OwedIds(i))
  BY <1>0, MessageOfPending
<1>2. /\ UNCHANGED <<request_q, running>> /\ running[g] = None
      /\ \A m \in Range(response_q'[g]) :
           m \in Range(response_q[g]) /\ m.request_id \in Range(OwedIds(g)')
      /\ \A i \in GPUs : i # g => response_q'[i] = response_q[i]
  BY MessagesLeft
<1>3. /\ perf_counter \in Time /\ perf_counter <= perf_counter /\ worker_clock[k] \in Clocks
      /\ BatchTraced(k) /\ ClockTrue(k)
  BY TimeAssumption DEF TracesTrue, BatchesTraced, Time
<1>4. \A j \in Range(OwedIds(k)) : j \in Jobs
  BY OwedIsPending
<1>5. CASE k = g
  <2>1. ASSUME OwedIds(g)' # <<>>
        PROVE  busy'[g].batch_id = busy[g].batch_id /\ busy'[g].jobs = busy[g].jobs
    <3>1. busy'[g] # None
      <4>1. busy'[g] = None => request_q'[g] = <<>> /\ running'[g] = None /\ response_q'[g] = <<>>
        BY DEF GroupAccounting, Unused
      <4>2. request_q'[g] = <<>> /\ running'[g] = None /\ response_q'[g] = <<>> => Owed(g)' = <<>>
        BY DEF Owed
      <4>3. Owed(g)' = <<>> => OwedIds(g)' = <<>>
        BY DEF OwedIds
      <4> QED
        BY <2>1, <4>1, <4>2, <4>3
    <3>2. busy \in [GPUs -> Group \cup {None}] /\ CountResponse(g, rid)
      BY <1>0 DEF TakeResponse, Typed, TypeOK
    <3>3. busy'[g] = busy[g] \/ (busy[g] # None /\ busy'[g] = Acknowledged(busy[g]))
      BY <3>2 DEF CountResponse
    <3>4. busy[g] # None => [busy[g] EXCEPT !.remaining = @ - 1].batch_id = busy[g].batch_id
                         /\ [busy[g] EXCEPT !.remaining = @ - 1].jobs = busy[g].jobs
      BY <3>2 DEF Group
    <3> QED
      BY <3>1, <3>3, <3>4 DEF Acknowledged
  <2> HIDE DEF OwedIds
  <2>2. \A j \in Range(OwedIds(g)') : active'[j] = active[j]
    BY <1>0, <1>1, <1>4, <1>5
  <2> QED
    BY <1>1, <1>2, <1>3, <1>5, <2>1, <2>2, BatchSame
<1>6. CASE k # g
  <2>1. busy'[k] = busy[k]
    BY <1>6 DEF TakeResponse, CountResponse, Typed, TypeOK
  <2>2. OwedIds(k)' = OwedIds(k) /\ \A j \in Range(OwedIds(k)) : active'[j] = active[j]
    BY <1>0, <1>1, <1>4, <1>6
  <2>3. \A m \in Range(response_q[k]) : m.request_id \in Range(OwedIds(k))
    BY WorkIsOwed
  <2>4. running'[k] = running[k] /\ response_q'[k] = response_q[k]
    BY <1>2, <1>6
  <2> HIDE DEF OwedIds
  <2> QED
    BY <1>3, <2>1, <2>2, <2>3, <2>4, BatchSame
<1> QED
  BY <1>5, <1>6

LEMMA BatchesWorker ==
  ASSUME Settled, TracesTrue, BatchesTraced, NEW g \in GPUs, WorkerRuns(g)
  PROVE  BatchesTraced'
<1> USE DEF Settled
<1>0. WorkerTypeOK /\ worker_clock \in [GPUs -> Clocks] /\ perf_counter \in Time /\ perf_counter \in Int
  BY TimeAssumption DEF Typed, TypeOK, TracesTrue, BatchesTraced, Time
<1>1. /\ UNCHANGED <<busy, active, perf_counter>> /\ StampedStep(g)
      /\ WorkerStep(g) \/ BatchError(g)
  BY DEF WorkerRuns, StampedStep, WorkerStep, gatewayVars, traceVars
<1>2. \A k \in GPUs : OwedIds(k)' = OwedIds(k)
  BY <1>1, OwedWorker
<1>3. \A k \in GPUs : k # g => /\ UNCHANGED <<running[k], response_q[k], worker_clock[k]>>
  BY <1>0, <1>1 DEF StampedStep, StampStart, StampEnd, StartBatch, PreemptBatch, FinishBatch,
                    Denoise, BatchError, Answer, WorkerTypeOK
<1>4. worker_clock' \in [GPUs -> Clocks] /\ worker_clock[g] \in Clocks
  <2>1. \A t \in Clocks : /\ [t EXCEPT !.t_start = perf_counter] \in Clocks
                          /\ [t EXCEPT !.t_end = perf_counter] \in Clocks
    BY <1>0 DEF Clocks
  <2> QED
    BY <1>0, <1>1, <2>1 DEF StampedStep, StampStart, StampEnd
<1>5. BatchTraced(g) /\ ClockTrue(g)
  BY DEF BatchesTraced
<1>6. BatchTraced(g)'
  <2> HIDE DEF OwedIds
  <2> QED
    BY <1>1, <1>2, <1>5 DEF BatchTraced
<1>7. /\ \A j \in Range(OwedIds(g)) : LastOf(active[j]).t_dispatch \in Int
                                      /\ LastOf(active[j]).t_dispatch <= perf_counter
      /\ worker_clock[g].t_start \in Int /\ worker_clock[g].t_end \in Int
  BY <1>4, LastAttempt, TimeAssumption DEF Clocks, Time
<1>8. ASSUME StartBatch(g) /\ StampStart(g) PROVE ClockTrue(g)'
  <2>1. worker_clock'[g].t_start = perf_counter /\ worker_clock'[g].t_end = worker_clock[g].t_end
    BY <1>0, <1>8 DEF StampStart, Clocks
  <2>2. response_q'[g] = <<>>
    BY <1>8 DEF StartBatch, GroupAccounting, Unused, Sent, Executing, Answering
  <2> HIDE DEF OwedIds
  <2> QED
    BY <1>0, <1>1, <1>2, <1>5, <1>7, <2>1, <2>2 DEF ClockTrue, Range
<1>9. ASSUME running[g] # None, NEW msgs \in {Checkpoints(g), Results(g), Failures(g)},
             Answer(g, msgs), UNCHANGED request_q
      PROVE  /\ response_q'[g] = msgs /\ running'[g] = None
             /\ \A m \in Range(msgs) : m.request_id \in Range(OwedIds(g))
  <2>1. response_q[g] = <<>> /\ msgs \in Seq(Response)
    BY <1>0, <1>9, Answers DEF GroupAccounting, Unused, Sent, Executing, Answering
  <2>2. response_q'[g] = msgs /\ running'[g] = None
    <3>1. response_q'[g] = <<>> \o msgs /\ running'[g] = None
      BY <1>0, <1>9, <2>1 DEF Answer, WorkerTypeOK
    <3> QED
      BY <2>1, <3>1, ConcatEmptySeq
  <2>3. DOMAIN msgs = DOMAIN running[g].batch.jobs
        /\ \A i \in DOMAIN msgs : msgs[i].request_id = running[g].batch.jobs[i].request_id
    BY <1>0, <1>9, <2>1, Answers, RunningParts, LenProperties
  <2>4. \A i \in DOMAIN msgs : msgs[i].request_id \in Range(OwedIds(g))
    BY <1>9, <2>3, WorkIsOwed
  <2> HIDE DEF OwedIds
  <2> QED
    BY <2>2, <2>4 DEF Range
<1>10. ASSUME (PreemptBatch(g) \/ FinishBatch(g)) /\ StampEnd(g) PROVE ClockTrue(g)'
  <2>1. worker_clock'[g].t_end = perf_counter /\ worker_clock'[g].t_start = worker_clock[g].t_start
    BY <1>0, <1>10 DEF StampEnd, Clocks
  <2>2. running[g] # None /\ UNCHANGED request_q
        /\ \E msgs \in {Checkpoints(g), Results(g), Failures(g)} : Answer(g, msgs)
    BY <1>10 DEF PreemptBatch, FinishBatch, InLoop
  <2>3. running'[g] = None /\ \A m \in Range(response_q'[g]) : m.request_id \in Range(OwedIds(g))
    BY <1>9, <2>2
  <2> HIDE DEF OwedIds
  <2> QED
    BY <1>0, <1>1, <1>5, <1>7, <2>1, <2>2, <2>3 DEF ClockTrue
<1>11. ASSUME Denoise(g) /\ UNCHANGED worker_clock PROVE ClockTrue(g)'
  <2>1. running[g] # None /\ UNCHANGED response_q
    BY <1>11 DEF Denoise, InLoop
  <2> HIDE DEF OwedIds
  <2> QED
    BY <1>1, <1>2, <1>5, <1>11, <2>1 DEF ClockTrue
<1>12. ASSUME BatchError(g) /\ UNCHANGED worker_clock PROVE ClockTrue(g)'
  <2>1. running'[g] = None /\ response_q'[g] = Failures(g)
    BY <1>9, <1>12 DEF BatchError
  <2>2. \A m \in Range(Failures(g)) : m.type = "error"
    <3>1. \A i \in DOMAIN Failures(g) : Failures(g)[i].type = "error"
      BY DEF Failures
    <3> QED
      BY <3>1 DEF Range
  <2> QED
    BY <1>1, <1>5, <1>12, <2>1, <2>2 DEF ClockTrue
<1>13. ASSUME NEW k \in GPUs, k # g
       PROVE  BatchTraced(k)' /\ ClockTrue(k)'
  <2>1. \A m \in Range(response_q[k]) : m.request_id \in Range(OwedIds(k))
    BY WorkIsOwed
  <2>2. worker_clock[k] \in Clocks /\ BatchTraced(k) /\ ClockTrue(k) /\ perf_counter <= perf_counter
    BY <1>0 DEF BatchesTraced
  <2> HIDE DEF OwedIds
  <2> QED
    BY <1>0, <1>1, <1>2, <1>3, <1>13, <2>1, <2>2, BatchSame
<1> QED
  BY <1>1, <1>4, <1>6, <1>8, <1>10, <1>11, <1>12, <1>13 DEF BatchesTraced, StampedStep

\* All that the tracer's invariants say of the active traces.
TracesTell == YieldsCounted /\ TracesTrue /\ BatchesTraced

LEMMA TracesInit == TracingInit => TracesTell
<1> SUFFICES ASSUME TracingInit PROVE TracesTell
  OBVIOUS
<1> USE DEF TracingInit, Init
<1>1. YieldsCounted
  BY DEF SchedInit, YieldsCounted
<1>2. perf_counter \in Time /\ 0 \in Time /\ 0 <= perf_counter
  BY TimeAssumption DEF Time
<1>3. TracesTrue
  BY <1>2 DEF TracesTrue
<1>4. ASSUME NEW g \in GPUs PROVE BatchTraced(g) /\ ClockTrue(g)
  <2>1. request_q[g] = <<>> /\ running[g] = None /\ response_q[g] = <<>>
    BY DEF WorkerInit
  <2>2. Range(OwedIds(g)) = {} /\ Range(response_q[g]) = {}
    BY <2>1 DEF OwedIds, Owed, Range
  <2> HIDE DEF OwedIds
  <2>3. BatchTraced(g)
    BY <2>2 DEF BatchTraced
  <2>4. ClockTrue(g)
    BY <1>2, <2>1, <2>2 DEF ClockTrue
  <2> QED
    BY <2>3, <2>4
<1>5. worker_clock \in [GPUs -> Clocks]
  BY <1>2 DEF Clocks
<1> QED
  BY <1>1, <1>3, <1>4, <1>5 DEF TracesTell, BatchesTraced

LEMMA TracesNext ==
  ASSUME Settled, Settled', YieldTrue, TracesTell, [TracingNext \/ Tick]_tracedVars
  PROVE  TracesTell'
<1> USE DEF TracesTell
<1>1. [Next]_vars /\ YieldsCounted'
  BY TracedStep, YieldsCountedNext
<1>2. CASE \E j \in Jobs, r \in Requests : Admitted(j, r)
  BY <1>1, <1>2, TracesAdmitted, BatchesAdmitted DEF Admitted, clockVars
<1>3. CASE \E h \in Jobs, g \in GPUs : Dispatched(h, g)
  BY <1>1, <1>3, TracesDispatched, BatchesDispatched DEF Dispatched, clockVars
<1>4. CASE \E g \in GPUs : Preempted(g)
  BY <1>1, <1>4, TracesPreempted, BatchesMessage DEF Preempted, clockVars, OnPreempted
<1>5. CASE \E g \in GPUs : Finished(g)
  BY <1>1, <1>5, TracesFinished, BatchesMessage DEF Finished, clockVars, OnFinished
<1>6. CASE \E g \in GPUs : WorkerRuns(g)
  <2>1. PICK g \in GPUs : WorkerRuns(g)
    BY <1>6
  <2>2. UNCHANGED <<job, queues, pending, active, perf_counter>>
    BY <2>1 DEF WorkerRuns, gatewayVars, traceVars, schedVars, clientVars
  <2>3. Queued' = Queued /\ perf_counter <= perf_counter
    BY <2>2, TimeAssumption DEF Queued, TracesTrue, Time
  <2>4. TracesTrue'
    BY <2>2, <2>3, TracesSame DEF SameProgress, TracesTrue
  <2> QED
    BY <1>1, <2>1, <2>4, BatchesWorker
<1>7. CASE \/ \E r \in Requests : Refused(r)
           \/ \E j \in Jobs : Responded(j)
           \/ Unmarked \/ Tick \/ UNCHANGED tracedVars
  <2>1. Undisturbed
    BY <1>1, <1>7, UnmarkedLeaves DEF TracesTrue
  <2>2. TracesTrue'
    BY <2>1, TracesSame DEF Undisturbed
  <2> QED
    BY <1>1, <2>1, <2>2, BatchesUndisturbed
<1> QED
  BY <1>2, <1>3, <1>4, <1>5, <1>6, <1>7 DEF TracingNext

\* With the clock or without, the gateway beside its tracer is the gateway, so
\* what holds of its jobs holds here.
THEOREM TracedIsGateway == TimedSpec => Spec
<1>1. TracingInit => Init
  BY DEF TracingInit
<1>2. [TracingNext \/ Tick]_tracedVars => [Next]_vars
  BY TracedStep
<1> QED
  BY <1>1, <1>2, PTL DEF TimedSpec, Spec

\* tracer.py's marks keep an active trace for each job that has not ended, with
\* the attempts and checkpoints it really had, and the last attempt of every job
\* in a batch is that batch.
THEOREM TracesAlwaysTell == TimedSpec => [](Settled /\ TracesTell)
<1>1. Settled /\ Settled' /\ YieldTrue /\ TracesTell /\ [TracingNext \/ Tick]_tracedVars
      => TracesTell'
  BY TracesNext
<1> QED
  BY TracesInit, TracedIsGateway, SettledAlways, BatchesYieldTruly, <1>1, PTL DEF TimedSpec

\* An active trace tells the story of its job over any number of dispatches and
\* checkpoints (tracer.py, mark_dispatched and mark_preempted, against scheduling.py).
THEOREM TracesFollowJobs == TimedSpec => []TraceFollowsJob
<1>1. Settled /\ TracesTell => TraceFollowsJob
  <2> SUFFICES ASSUME Settled, TracesTell, NEW j \in pending
               PROVE  LET tr == active[j]
                          at == tr.attempts
                      IN  /\ tr # None
                          /\ tr.preempts = job[j].preempt_count
                          /\ Len(at) = tr.preempts + (IF j \in Queued THEN 0 ELSE 1)
                          /\ \A k \in DOMAIN at :
                               /\ at[k].resumed <=> k > 1
                               /\ k <= tr.preempts <=> at[k].preempted_at_step # None
                          /\ \A k \in 1..(tr.preempts - 1) :
                               at[k].preempted_at_step <= at[k + 1].preempted_at_step
    BY DEF TraceFollowsJob
  <2>1. active[j] \in Trace /\ Story(active[j], job[j].preempt_count, Out(j), StartIndex(j))
    BY DEF TracesTell, TracesTrue, TraceTrue
  <2>2. active[j] # None
    BY <2>1, NoTraceAssumption
  <2> QED
    BY <2>1, <2>2 DEF Story, Out
<1> QED
  BY TracesAlwaysTell, <1>1, PTL

\* A message that comes in answers the last attempt of its job's trace: the same
\* GPU, batch and size, so ipc_ms and gpu_ms are measured on one batch (tracer.py,
\* complete; gateway.py, _on_worker_response).
THEOREM SpansOfOneAttempt == TimedSpec => []SpansFromOneAttempt
<1>1. Settled /\ TracesTell => SpansFromOneAttempt
  <2> SUFFICES ASSUME Settled, TracesTell, NEW g \in GPUs, NEW j \in AnsweringIds(g)
               PROVE  LET at == active[j].attempts
                          last == at[Len(at)]
                      IN  /\ at # <<>> /\ busy[g] # None
                          /\ last.gpu = g
                          /\ last.batch_id = busy[g].batch_id
                          /\ last.batch_size = Cardinality(busy[g].jobs)
    BY DEF SpansFromOneAttempt
  <2>1. j \in Range(OwedIds(g)) /\ response_q[g] # <<>>
    <3>1. PICK m \in Range(response_q[g]) : j = m.request_id
      BY DEF AnsweringIds
    <3>2. j \in Range(OwedIds(g))
      BY <3>1, WorkIsOwed
    <3> HIDE DEF OwedIds
    <3> QED
      BY <3>1, <3>2 DEF Range
  <2>2. busy[g] # None
    BY <2>1 DEF Settled, GroupAccounting, Unused
  <2>3. active[j].attempts # <<>>
    BY <2>1, LastAttempt DEF TracesTell
  <2>4. BatchTraced(g)
    BY DEF TracesTell, BatchesTraced
  <2> HIDE DEF OwedIds
  <2> QED
    BY <2>1, <2>2, <2>3, <2>4 DEF BatchTraced, LastOf
<1> QED
  BY TracesAlwaysTell, <1>1, PTL

-----------------------------------------------------------------------------
(* Finished traces *)

Ended == {j \in Jobs : job[j] # None} \ pending
FinishedTrace == [trace : Trace, spans : Spans]

SpansTrue(d) ==
  d.spans.ok => /\ d.spans.ipc_ms \in Time /\ d.spans.gpu_ms \in Time /\ d.spans.respond_ms \in Time
                /\ d.trace.preempts = 0 => Added(d.spans) = d.spans.e2e_ms

\* The buffer holds as many of the jobs that have ended as it can, once each.
DoneTrue ==
  /\ done \in Seq(FinishedTrace)
  /\ \A k \in DOMAIN done : done[k].trace.rid \in Ended /\ SpansTrue(done[k])
  /\ \A k, l \in DOMAIN done : k # l => done[k].trace.rid # done[l].trace.rid
  /\ Len(done) = Smaller(Cardinality(Ended), keep_done)

\* q is t without its first d entries.
Without(q, t, d) == Len(q) + d = Len(t) /\ \A k \in 1..Len(q) : q[k] = t[k + d]

\* A full buffer drops its oldest entry for a new one.
LEMMA KeptParts ==
  ASSUME NEW S, NEW s \in Seq(S), NEW e \in S, Len(s) <= keep_done,
         NEW q, q = Kept(Append(s, e))
  PROVE  /\ q \in Seq(S)
         /\ Len(q) = Smaller(Len(s) + 1, keep_done)
         /\ \E d \in {0, 1} : Without(q, Append(s, e), d)
<1> DEFINE n == Len(s)
           t == Append(s, e)
<1>1. /\ n \in Nat /\ keep_done \in Nat \ {0}
      /\ t \in Seq(S) /\ Len(t) = n + 1
  BY LenProperties, AppendProperties, KeepAssumption
<1> HIDE DEF n, t
<1>2. ASSUME n < keep_done
      PROVE  q \in Seq(S) /\ Len(q) = Smaller(n + 1, keep_done) /\ Without(q, t, 0)
  <2>1. q = t
    BY <1>1, <1>2 DEF Kept, t
  <2>2. Len(t) = Smaller(n + 1, keep_done)
    BY <1>1, <1>2 DEF Smaller
  <2>3. Without(t, t, 0)
    BY <1>1 DEF Without
  <2> QED
    BY <1>1, <2>1, <2>2, <2>3
<1>3. ASSUME n = keep_done
      PROVE  q \in Seq(S) /\ Len(q) = Smaller(n + 1, keep_done) /\ Without(q, t, 1)
  <2>1. q = SubSeq(t, 2, n + 1)
    BY <1>1, <1>3 DEF Kept, t
  <2>2. /\ SubSeq(t, 2, n + 1) \in Seq(S) /\ Len(SubSeq(t, 2, n + 1)) = n
        /\ \A k \in 1..n : SubSeq(t, 2, n + 1)[k] = t[k + 1]
    <3>1. n + 1 \in 1..Len(t) /\ \A k \in 1..n : t[2 + k - 1] = t[k + 1]
      BY <1>1
    <3> QED
      BY <1>1, <1>3, <3>1, SubSeqProperties
  <2>3. n = Smaller(n + 1, keep_done)
    BY <1>1, <1>3 DEF Smaller
  <2> QED
    BY <1>1, <2>1, <2>2, <2>3 DEF Without
<1>4. n < keep_done \/ n = keep_done
  BY <1>1 DEF n
<1> QED
  BY <1>2, <1>3, <1>4 DEF n, t

\* A step lets jobs come into being and end, and only Generate and OnFinished do.
LEMMA EndedNext ==
  ASSUME Settled, [Next]_vars
  PROVE  /\ \A j \in Jobs, r \in Requests : Generate(j, r) => Ended' = Ended
         /\ UNCHANGED pending => Ended' = Ended
         /\ \A g \in GPUs : OnFinished(g) => Ended' = Ended \cup {Head(response_q[g]).request_id}
<1> USE DEF Settled
<1>1. pending \subseteq Jobs /\ \A j \in pending : job[j] # None
  BY DEF Typed, TypeOK, JobsExist
<1>2. ASSUME NEW j \in Jobs, NEW r \in Requests, Generate(j, r)
      PROVE  Ended' = Ended
  <2>1. job[j] = None /\ pending' = pending \cup {j}
        /\ \A k \in Jobs : k # j => job'[k] = job[k]
    BY <1>2 DEF Generate, Admit, Typed, TypeOK, SchedTypeOK
  <2> QED
    BY <1>1, <2>1 DEF Ended
<1>3. ASSUME UNCHANGED pending, NEW j \in Jobs
      PROVE  job'[j] = None <=> job[j] = None
  <2>1. job[j] # None => job'[j] # None
    BY JobsKeepIdentity DEF SameIdentity
  <2>2. Checkpointed(j) => job[j] # None
    BY CheckpointedJob DEF Checkpointed
  <2>3. \A r \in Requests : Generate(j, r) => j \in pending' /\ job[j] = None
    BY DEF Generate
  <2>4. job[j] = None => \A r \in Requests : ~Generate(j, r)
    BY <1>1, <1>3, <2>3
  <2> QED
    BY <2>1, <2>2, <2>4, JobsAppear
<1>4. ASSUME NEW g \in GPUs, OnFinished(g)
      PROVE  Ended' = Ended \cup {Head(response_q[g]).request_id}
  <2>1. PICK rid : rid = Head(response_q[g]).request_id
    OBVIOUS
  <2>2. rid \in pending /\ pending' = pending \ {rid} /\ UNCHANGED job
    BY <1>4, <2>1, PlacedOnFinished DEF OnFinished
  <2> QED
    BY <1>1, <2>1, <2>2 DEF Ended
<1>5. UNCHANGED pending => Ended' = Ended
  BY <1>3 DEF Ended
<1> QED
  BY <1>2, <1>4, <1>5

LEMMA EndedFinite == IsFiniteSet(Ended) /\ Cardinality(Ended) \in Nat
<1>1. IsFiniteSet(Jobs)
  BY ConfigAssumption, FS_Interval DEF Jobs
<1>2. Ended \in SUBSET Jobs
  BY DEF Ended
<1>3. IsFiniteSet(Ended)
  BY <1>1, <1>2, FS_Subset
<1> QED
  BY <1>3, FS_CardinalityType

\* The spans of a job that ends are measured between stamps in order, and those
\* of a job that was never preempted on one attempt.
LEMMA SpansOfFinished ==
  ASSUME Settled, TracesTell, NEW g \in GPUs, response_q[g] # <<>>,
         Head(response_q[g]).request_id \in pending
  PROVE  LET m  == Head(response_q[g])
             tr == active[m.request_id]
             s  == SpansOf(tr, m, worker_clock[g])
         IN  /\ [trace |-> tr, spans |-> s] \in FinishedTrace
             /\ tr.rid = m.request_id
             /\ SpansTrue([trace |-> tr, spans |-> s])
<1> USE DEF Settled, TracesTell
<1>1. PICK m, j, tr, t, s : /\ m = Head(response_q[g]) /\ j = m.request_id /\ tr = active[j]
                            /\ t = worker_clock[g] /\ s = SpansOf(tr, m, t)
  OBVIOUS
<1>2. m \in Range(response_q[g])
  <2>1. response_q[g] \in Seq(Response)
    BY DEF Typed, TypeOK, WorkerTypeOK
  <2> QED
    BY <1>1, <2>1, RangeOfTail
<1>3. j \in Range(OwedIds(g)) /\ j \notin Queued /\ j \in Jobs /\ job[j] # None
  BY <1>1, <1>2, WorkIsOwed, OwedIsPending
<1>4. PICK p : p = job[j].preempt_count
  OBVIOUS
<1>5. /\ p \in Nat /\ tr \in Trace /\ tr.rid = j /\ Story(tr, p, 1, StartIndex(j))
      /\ Timely(tr, perf_counter)
  BY <1>1, <1>3, <1>4 DEF TracesTrue, TraceTrue, Out, Typed, TypeOK, SchedTypeOK, Job
<1>6. PICK first, last : first = tr.attempts[1].t_dispatch /\ last = LastOf(tr).t_dispatch
  OBVIOUS
<1>7. /\ DOMAIN tr.attempts = 1..(p + 1) /\ Len(tr.attempts) = p + 1 /\ tr.preempts = p
      /\ first \in Int /\ last \in Int /\ (p = 0 => first = last)
  BY <1>5, <1>6, TraceParts DEF Story, LastOf
<1>8. /\ perf_counter \in Int /\ perf_counter <= MaxTime /\ MaxTime \in Int
      /\ tr.arrival \in Int /\ 0 <= tr.arrival
      /\ t.t_start \in Int /\ t.t_end \in Int /\ t.t_start <= perf_counter /\ t.t_end <= perf_counter
  BY <1>1, <1>5, TimeAssumption
     DEF TracesTrue, BatchesTraced, ClockTrue, Clocks, Trace, Time
<1>9. tr.arrival <= first /\ first <= perf_counter /\ tr.arrival <= last /\ last <= perf_counter
  BY <1>5, <1>6, <1>7 DEF Timely, LastOf
<1>10. m.type = "result" => last <= t.t_start /\ t.t_start <= t.t_end
  BY <1>1, <1>2, <1>6 DEF BatchesTraced, ClockTrue
<1>11. /\ s.ok = (m.type = "result")
       /\ s.e2e_ms = perf_counter - tr.arrival /\ s.queue_ms = first - tr.arrival
       /\ m.type = "result" => /\ s.ipc_ms = t.t_start - last /\ s.gpu_ms = t.t_end - t.t_start
                               /\ s.respond_ms = perf_counter - t.t_end
       /\ m.type # "result" => s.ipc_ms = None /\ s.gpu_ms = None /\ s.respond_ms = None
  BY <1>1, <1>6 DEF SpansOf, LastOf
<1>12. s.e2e_ms \in Time /\ s.queue_ms \in Time
  BY <1>7, <1>8, <1>9, <1>11 DEF Time
<1>13. ASSUME m.type = "result"
       PROVE  s.ipc_ms \in Time /\ s.gpu_ms \in Time /\ s.respond_ms \in Time
  <2>1. 0 <= last /\ last <= t.t_start /\ t.t_start <= t.t_end
    BY <1>7, <1>8, <1>9, <1>10, <1>13
  <2>2. t.t_start - last \in Time /\ t.t_end - t.t_start \in Time /\ perf_counter - t.t_end \in Time
    BY <1>7, <1>8, <2>1 DEF Time
  <2> QED
    BY <1>11, <1>13, <2>2
<1>14. s \in Spans
  <2>1. s = [ok |-> s.ok, e2e_ms |-> s.e2e_ms, queue_ms |-> s.queue_ms,
             ipc_ms |-> s.ipc_ms, gpu_ms |-> s.gpu_ms, respond_ms |-> s.respond_ms]
    BY <1>1 DEF SpansOf
  <2>2. s.ok \in BOOLEAN /\ s.ipc_ms \in Span /\ s.gpu_ms \in Span /\ s.respond_ms \in Span
    BY <1>11, <1>13 DEF Span
  <2> QED
    BY <1>12, <2>1, <2>2 DEF Spans
<1>15. m.type = "result" /\ p = 0 => Added(s) = s.e2e_ms
  BY <1>7, <1>8, <1>11 DEF Added
<1>16. PICK d : d = [trace |-> tr, spans |-> s]
  OBVIOUS
<1>17. d.trace = tr /\ d.spans = s /\ d \in FinishedTrace
  BY <1>5, <1>14, <1>16 DEF FinishedTrace
<1>18. SpansTrue(d)
  BY <1>7, <1>11, <1>13, <1>15, <1>17 DEF SpansTrue
<1> QED
  BY <1>1, <1>5, <1>16, <1>17, <1>18

LEMMA DoneInit == TracingInit => DoneTrue
<1> SUFFICES ASSUME TracingInit PROVE DoneTrue
  OBVIOUS
<1>1. done = <<>> /\ \A j \in Jobs : job[j] = None
  BY DEF TracingInit, Init, SchedInit
<1>2. Ended = {}
  BY <1>1 DEF Ended
<1>3. Cardinality(Ended) = 0 /\ Smaller(0, keep_done) = 0
  BY <1>2, FS_EmptySet, KeepAssumption DEF Smaller
<1>4. done \in Seq(FinishedTrace) /\ Len(done) = 0 /\ DOMAIN done = {}
  BY <1>1, EmptySeq
<1> QED
  BY <1>3, <1>4 DEF DoneTrue

LEMMA DoneSame ==
  ASSUME DoneTrue, UNCHANGED done, Ended' = Ended
  PROVE  DoneTrue'
BY DEF DoneTrue

\* The trace of a job that ends is put in the buffer, in place of the oldest if
\* the buffer is full.
LEMMA DoneFinished ==
  ASSUME Settled, [Next]_vars, TracesTell, DoneTrue, NEW g \in GPUs, Finished(g)
  PROVE  DoneTrue'
<1> USE DEF Settled, TracesTell
<1>1. PICK m, rid : m = Head(response_q[g]) /\ rid = m.request_id
  OBVIOUS
<1>2. /\ OnFinished(g) /\ MarkComplete(m, worker_clock[g]) /\ UNCHANGED perf_counter
      /\ response_q[g] # <<>>
  BY <1>1 DEF Finished, clockVars, OnFinished, TakeResponse
<1>3. /\ rid \in pending /\ Finish(active[rid], m, worker_clock[g])
      /\ Ended' = Ended \cup {rid} /\ rid \notin Ended
  BY <1>1, <1>2, TracesFinished, EndedNext DEF Ended
<1>4. PICK e : e = [trace |-> active[rid], spans |-> SpansOf(active[rid], m, worker_clock[g])]
  OBVIOUS
<1>5. e \in FinishedTrace /\ e.trace.rid = rid /\ SpansTrue(e)
  BY <1>1, <1>2, <1>3, <1>4, SpansOfFinished
<1>6. PICK earlier, q : earlier = done /\ q = Kept(Append(done, e))
  OBVIOUS
<1>7. done' = q
  BY <1>3, <1>4, <1>6 DEF Finish
<1>8. PICK n : n = Cardinality(Ended)
  OBVIOUS
<1>9. n \in Nat /\ Cardinality(Ended') = n + 1
  BY <1>3, <1>8, EndedFinite, FS_AddElement
<1>10. /\ earlier \in Seq(FinishedTrace) /\ Len(earlier) = Smaller(n, keep_done)
       /\ Len(earlier) \in Nat /\ DOMAIN earlier = 1..Len(earlier) /\ keep_done \in Nat \ {0}
       /\ Len(earlier) <= keep_done
  <2>1. earlier \in Seq(FinishedTrace) /\ Len(earlier) = Smaller(n, keep_done)
    BY <1>6, <1>8 DEF DoneTrue
  <2> QED
    BY <1>9, <2>1, LenProperties, KeepAssumption DEF Smaller
<1>11. /\ q \in Seq(FinishedTrace) /\ Len(q) = Smaller(Len(earlier) + 1, keep_done)
       /\ DOMAIN q = 1..Len(q) /\ Len(q) \in Nat
  BY <1>5, <1>6, <1>10, KeptParts, LenProperties
<1>12. PICK d \in {0, 1} : Without(q, Append(earlier, e), d)
  <2>1. earlier \in Seq(FinishedTrace) /\ e \in FinishedTrace /\ Len(earlier) <= keep_done
        /\ q = Kept(Append(earlier, e))
    BY <1>5, <1>6, <1>10
  <2> QED
    BY <2>1, KeptParts
<1>13. \A k \in 1..Len(earlier) : Append(earlier, e)[k] = earlier[k]
  BY <1>5, <1>10, AppendProperties
<1>14. Append(earlier, e)[Len(earlier) + 1] = e /\ Len(Append(earlier, e)) = Len(earlier) + 1
  BY <1>5, <1>10, AppendProperties
<1>15. Len(q) = Smaller(n + 1, keep_done)
  BY <1>9, <1>10, <1>11 DEF Smaller
<1>16. /\ \A k \in 1..Len(earlier) : earlier[k].trace.rid \in Ended /\ SpansTrue(earlier[k])
       /\ \A k, l \in 1..Len(earlier) : k # l => earlier[k].trace.rid # earlier[l].trace.rid
  BY <1>6, <1>10 DEF DoneTrue
<1>17. \A k \in 1..Len(q) : \/ k + d \in 1..Len(earlier) /\ q[k] = earlier[k + d]
                            \/ k + d = Len(earlier) + 1 /\ q[k] = e
  BY <1>10, <1>11, <1>12, <1>13, <1>14 DEF Without
<1>18. \A k \in 1..Len(q) : q[k].trace.rid \in Ended \cup {rid} /\ SpansTrue(q[k])
  BY <1>5, <1>16, <1>17
<1>19. ASSUME NEW k \in 1..Len(q), NEW l \in 1..Len(q), k # l
       PROVE  q[k].trace.rid # q[l].trace.rid
  <2>1. k + d # l + d
    BY <1>11, <1>12, <1>19
  <2> QED
    BY <1>3, <1>5, <1>16, <1>17, <2>1
<1>20. Len(q) = Smaller(Cardinality(Ended'), keep_done)
  BY <1>9, <1>15
<1> QED
  BY <1>3, <1>7, <1>11, <1>18, <1>19, <1>20 DEF DoneTrue, SpansTrue

LEMMA DoneNext ==
  ASSUME Settled, YieldTrue, TracesTell, DoneTrue, [TracingNext \/ Tick]_tracedVars
  PROVE  DoneTrue'
<1> USE DEF TracesTell
<1>1. [Next]_vars
  BY TracedStep
<1>2. CASE \E j \in Jobs, r \in Requests : Admitted(j, r)
  BY <1>1, <1>2, EndedNext, DoneSame DEF Admitted, MarkAdmitted
<1>3. CASE \E h \in Jobs, g \in GPUs : Dispatched(h, g)
  <2>1. UNCHANGED <<pending, done>>
    BY <1>3 DEF Dispatched, DispatchBatch, MarkDispatched, clientVars
  <2> QED
    BY <1>1, <2>1, EndedNext, DoneSame
<1>4. CASE \E g \in GPUs : Preempted(g)
  <2>1. UNCHANGED <<pending, done>>
    BY <1>4 DEF Preempted, OnPreempted, MarkPreempted, clientVars
  <2> QED
    BY <1>1, <2>1, EndedNext, DoneSame
<1>5. CASE \E g \in GPUs : Finished(g)
  BY <1>1, <1>5, DoneFinished
<1>6. CASE \E g \in GPUs : WorkerRuns(g)
  <2>1. UNCHANGED <<pending, done>>
    BY <1>6 DEF WorkerRuns, gatewayVars, traceVars, clientVars
  <2> QED
    BY <1>1, <2>1, EndedNext, DoneSame
<1>7. CASE \/ \E r \in Requests : Refused(r)
           \/ \E j \in Jobs : Responded(j)
           \/ Unmarked \/ Tick \/ UNCHANGED tracedVars
  <2>1. UNCHANGED <<pending, done>>
    BY <1>1, <1>7, UnmarkedLeaves DEF TracesTrue, Undisturbed
  <2> QED
    BY <1>1, <2>1, EndedNext, DoneSame
<1> QED
  BY <1>2, <1>3, <1>4, <1>5, <1>6, <1>7 DEF TracingNext

\* tracer.py's ring buffer holds as many of the jobs that have ended as it can,
\* once each, with spans measured between stamps in order.
THEOREM DoneAlwaysTrue == TimedSpec => []DoneTrue
<1>1. Settled /\ YieldTrue /\ TracesTell /\ DoneTrue /\ [TracingNext \/ Tick]_tracedVars
      => DoneTrue'
  BY DoneNext
<1> QED
  BY DoneInit, TracesAlwaysTell, TracedIsGateway, BatchesYieldTruly, <1>1, PTL DEF TimedSpec

\* GET /traces finds every request that has not ended and, of those that have,
\* as many as the buffer holds, each once, whatever the order in which they were
\* dispatched, checkpointed and answered (tracer.py, mark_arrival, complete and get).
THEOREM TracesAlwaysFound == TimedSpec => []TracesFound
<1>1. ASSUME TracesTell, DoneTrue
      PROVE  TracesFound
  <2> USE DEF TracesTell
  <2> DEFINE rid == [k \in DOMAIN done |-> done[k].trace.rid]
             found == {j \in Ended : Traced(j)}
  <2>1. /\ DOMAIN done = 1..Len(done) /\ Len(done) \in Nat
        /\ \A k \in DOMAIN done : done[k].trace.rid \in Ended
        /\ \A k, l \in DOMAIN done : k # l => done[k].trace.rid # done[l].trace.rid
        /\ Len(done) = Smaller(Cardinality(Ended), keep_done)
    BY <1>1, LenProperties DEF DoneTrue
  <2>2. \A j \in Ended : j \in Jobs /\ j \notin pending /\ active[j] = None
    BY <1>1 DEF Ended, TracesTrue
  <2>3. \A j \in pending : active[j] # None
    BY <1>1, NoTraceAssumption DEF TracesTrue, TraceTrue
  <2>4. rid \in Seq(Ended) /\ Len(rid) = Len(done) /\ IsInjective(rid)
    <3>1. rid \in [1..Len(done) -> Ended] /\ \A k \in DOMAIN done : rid[k] = done[k].trace.rid
      BY <2>1
    <3> HIDE DEF rid
    <3>2. rid \in Seq(Ended) /\ DOMAIN rid = 1..Len(done)
      BY <2>1, <3>1, SeqDef
    <3> QED
      BY <2>1, <3>1, <3>2, LenProperties DEF IsInjective
  <2>5. Range(rid) = found
    <3>1. Range(rid) = {done[k].trace.rid : k \in DOMAIN done}
      BY DEF Range
    <3> HIDE DEF rid
    <3> QED
      BY <2>1, <2>2, <3>1 DEF Traced
  <2>6. Cardinality(found) = Smaller(Cardinality(Ended), keep_done)
    <3> HIDE DEF rid, found
    <3> QED
      BY <2>1, <2>4, <2>5, LengthOfInjective
  <2>7. found = {j \in {i \in Jobs : job[i] # None} \ pending : Traced(j)}
    BY DEF Ended
  <2> HIDE DEF found
  <2> QED
    BY <2>1, <2>2, <2>3, <2>6, <2>7 DEF TracesFound, Traced, Ended
<1> QED
  BY TracesAlwaysTell, DoneAlwaysTrue, <1>1, PTL

\* No span of a finished trace is negative, although the gateway stamps one end
\* of it and a worker the other, and without a preemption the four make up the
\* whole of e2e_ms (tracer.py, complete; worker.py, _run_batch).
THEOREM SpansAlwaysMeasured == TimedSpec => []SpansMeasured
<1>1. ASSUME DoneTrue
      PROVE  SpansMeasured
  <2> SUFFICES ASSUME NEW k \in DOMAIN done, done[k].spans.ok
               PROVE  /\ done[k].spans.ipc_ms >= 0 /\ done[k].spans.gpu_ms >= 0
                      /\ done[k].spans.respond_ms >= 0
                      /\ done[k].trace.preempts = 0 => Added(done[k].spans) = done[k].spans.e2e_ms
    BY DEF SpansMeasured
  <2>1. SpansTrue(done[k])
    BY <1>1 DEF DoneTrue
  <2>2. \A t \in Time : t >= 0
    BY TimeAssumption DEF Time
  <2> QED
    BY <2>1, <2>2 DEF SpansTrue
<1> QED
  BY DoneAlwaysTrue, <1>1, PTL

\* The tracer's state has the shape its code gives it, and its buffer never
\* holds more than keep_done traces (tracer.py, __init__).
THEOREM TracingTyped == TimedSpec => []TracingTypeOK
<1>1. ASSUME TracesTell, DoneTrue
      PROVE  TracingTypeOK
  <2>1. Len(done) <= keep_done
    BY <1>1, EndedFinite, KeepAssumption DEF DoneTrue, Smaller
  <2> QED
    BY <1>1, <2>1 DEF TracesTell, TracesTrue, BatchesTraced, Clocks, DoneTrue, FinishedTrace,
                      TracingTypeOK
<1> QED
  BY TracesAlwaysTell, DoneAlwaysTrue, <1>1, PTL
=============================================================================
