--------------------------- MODULE RefinementProofs --------------------------
(***************************************************************************)
(* How far jobs come: the dispatcher is always told, a preemption is always *)
(* a resume to come, a result is made of the steps that were asked for; and *)
(* from all of it, the gateway implements JobLifecycle: every step of it is *)
(* a step of the abstract specification or a stutter.                      *)
(***************************************************************************)
EXTENDS GatewayRefinement, GatewayProofs


-----------------------------------------------------------------------------
(* The event *)

\* NoLostWakeup, and the same while the pass that saw no more to do ends.
WillWake ==
  dispatcher # "filling" /\ ~dispatch_event /\ Free # {} /\ Queued # {} => timers # {}

LEMMA WillWakeNext ==
  ASSUME WillWake, [Next]_vars
  PROVE  WillWake'
<1>1. CASE \/ \E j \in Jobs, r \in Requests : Generate(j, r)
           \/ \E j \in Jobs : TimerFire(j)
           \/ \E g \in GPUs : OnPreempted(g) \/ OnFinished(g)
  <2>1. dispatch_event' = TRUE
    BY <1>1 DEF Generate, TimerFire, OnPreempted, OnFinished, TakeResponse
  <2> QED
    BY <2>1 DEF WillWake
<1>2. CASE Wake \/ \E h \in Jobs, g \in GPUs : DispatchBatch(h, g)
  <2>1. dispatcher' = "filling"
    BY <1>2 DEF Wake, DispatchBatch, loopVars
  <2> QED
    BY <2>1 DEF WillWake
<1>3. CASE \E h \in Jobs : HoldBatch(h)
  <2>1. timers' # {}
    BY <1>3 DEF HoldBatch
  <2> QED
    BY <2>1 DEF WillWake
<1>4. CASE FillDone
  <2>1. (Free = {} \/ Queued = {}) /\ UNCHANGED <<busy, queues>>
    BY <1>4 DEF FillDone, schedVars
  <2>2. Free' = Free /\ Queued' = Queued
    BY <2>1 DEF Free, Queued
  <2> QED
    BY <2>1, <2>2 DEF WillWake
<1>5. CASE \/ \E r \in Requests : Reject(r)
           \/ \E j \in Jobs : Cancel(j) \/ Respond(j)
           \/ Evict \/ Age \/ Idle \/ UNCHANGED vars
           \/ \E g \in GPUs : (WorkerStep(g) \/ BatchError(g)) /\ UNCHANGED gatewayVars
  <2>1. /\ UNCHANGED <<busy, queues, dispatch_event, timers>>
        /\ dispatcher' # "filling" => dispatcher # "filling"
    BY <1>5 DEF Reject, Cancel, Respond, Evict, Age, Idle, vars, schedVars, loopVars,
                gatewayVars
  <2>2. Free' = Free /\ Queued' = Queued
    BY <2>1 DEF Free, Queued
  <2> QED
    BY <2>1, <2>2 DEF WillWake
<1> QED
  BY <1>1, <1>2, <1>3, <1>4, <1>5 DEF Next, Client, DispatcherStep

\* The dispatcher never sleeps on work that nothing will tell it of: with a free
\* GPU and a queued job, its event is set or a held batch's timer is running
\* (gateway.py, ev.clear() before the fill loop, and every ev.set()).
THEOREM WakeupNeverLost == Spec => []NoLostWakeup
<1>1. Init => WillWake
  BY DEF Init, SchedInit, WillWake, Queued, Range
<1>2. WillWake /\ [Next]_vars => WillWake'
  BY WillWakeNext
<1>3. WillWake => NoLostWakeup
  BY DEF WillWake, NoLostWakeup, LoopIdle
<1> QED
  BY <1>1, <1>2, <1>3, PTL DEF Spec

-----------------------------------------------------------------------------
(* Dispatch times *)

\* A job in the hands of a GPU is stamped, and one whose result was delivered
\* has left "pending", so that nothing can take its stamp away.
Stamped ==
  /\ \A g \in GPUs : \A j \in Range(OwedIds(g)) : job[j].dispatched_at
  /\ \A j \in Jobs : future[j] \in {"result", "answered"} =>
       j \notin pending /\ job[j] # None /\ job[j].dispatched_at

LEMMA OwedIsPending ==
  ASSUME Settled, NEW g \in GPUs
  PROVE  \A j \in Range(OwedIds(g)) :
           j \in Jobs /\ j \in pending /\ j \notin Queued /\ job[j] # None
<1> HIDE DEF OwedIds, Queued
<1>1. \A j \in Range(OwedIds(g)) : j \in pending /\ j \notin Queued
  BY DEF Settled, Placed, PendingPlaced, PlacesApart
<1> QED
  BY <1>1 DEF Settled, Typed, TypeOK, JobsExist

\* A job that loses its stamp is queued, or becomes so.
LEMMA StampedNext ==
  ASSUME Settled, Stamped, [Next]_vars
  PROVE  Stamped'
<1> USE DEF Settled
<1>1. job \in [Jobs -> Job \cup {None}] /\ pending \subseteq Jobs
      /\ future \in [Jobs -> FutureState]
  BY DEF Typed, TypeOK, SchedTypeOK
<1>2. ASSUME NEW j \in Jobs, NEW r \in Requests, Generate(j, r)
      PROVE  Stamped'
  <2>1. /\ job' = [job EXCEPT ![j] = NewJob(r)]
        /\ future' = [future EXCEPT ![j] = "waiting"]
        /\ pending' = pending \cup {j} /\ j \notin pending
        /\ UNCHANGED <<request_q, running, response_q>>
    BY <1>2 DEF Generate, Admit, workerVars, Typed, JobsExist
  <2>2. \A g \in GPUs : OwedIds(g)' = OwedIds(g)
    BY <2>1, OwedUntouched
  <2>3. \A k \in Jobs : k # j => job'[k] = job[k] /\ future'[k] = future[k]
    BY <1>1, <2>1
  <2>4. future'[j] = "waiting"
    BY <1>1, <2>1
  <2>5. \A g \in GPUs : \A k \in Range(OwedIds(g)) : k \in Jobs /\ k # j
    BY <2>1, OwedIsPending
  <2> HIDE DEF OwedIds
  <2> QED
    BY <2>1, <2>2, <2>3, <2>4, <2>5 DEF Stamped
<1>3. ASSUME NEW g \in GPUs, OnPreempted(g)
      PROVE  Stamped'
  <2> DEFINE rid == Head(response_q[g]).request_id
  <2>1. /\ TakeResponse(g) /\ UNCHANGED <<pending, future>>
    BY <1>3 DEF OnPreempted, clientVars
  <2>2. /\ rid \in pending
        /\ Range(OwedIds(g)') = Range(OwedIds(g)) \ {rid}
        /\ \A k \in GPUs : k # g => OwedIds(k)' = OwedIds(k) /\ rid \notin Range(OwedIds(k))
    BY <2>1, MessageOfPending
  <2>3. \A k \in Jobs : k # rid => job'[k] = job[k]
    BY <1>3, CheckpointedJob
  <2>4. \A k \in GPUs : \A j \in Range(OwedIds(k)) : j \in Jobs
    BY OwedIsPending
  <2> HIDE DEF rid, OwedIds
  <2>5. \A k \in GPUs : \A j \in Range(OwedIds(k)') :
          j # rid /\ j \in Range(OwedIds(k)) /\ job'[j] = job[j]
    BY <2>2, <2>3, <2>4
  <2> QED
    BY <2>1, <2>2, <2>3, <2>5 DEF Stamped
<1>4. ASSUME NEW g \in GPUs, OnFinished(g)
      PROVE  Stamped'
  <2> DEFINE m == Head(response_q[g])
             rid == m.request_id
  <2>1. TakeResponse(g) /\ UNCHANGED job
    BY <1>4 DEF OnFinished
  <2>2. /\ rid \in pending /\ rid \in Range(OwedIds(g)) /\ rid \in Jobs
        /\ Range(OwedIds(g)') = Range(OwedIds(g)) \ {rid}
        /\ \A k \in GPUs : k # g => OwedIds(k)' = OwedIds(k)
    BY <2>1, MessageOfPending
  <2>3. /\ pending' = pending \ {rid}
        /\ future' = [future EXCEPT ![rid] = IF future[rid] = "waiting" THEN m.type
                                             ELSE future[rid]]
    BY <1>4, <2>2 DEF OnFinished
  <2>4. job[rid] # None /\ job[rid].dispatched_at
    BY <2>2, OwedIsPending DEF Stamped
  <2>5. \A k \in Jobs : k # rid => future'[k] = future[k]
    BY <1>1, <2>3
  <2> HIDE DEF m, rid, OwedIds
  <2>6. \A k \in GPUs : Range(OwedIds(k)') \subseteq Range(OwedIds(k))
    BY <2>2
  <2> QED
    BY <2>1, <2>3, <2>4, <2>5, <2>6 DEF Stamped
<1>5. ASSUME NEW h \in Jobs, NEW g \in GPUs, DispatchBatch(h, g)
      PROVE  Stamped'
  <2>1. h \in Queued /\ Take(h) /\ UNCHANGED <<pending, future>>
    BY <1>5 DEF DispatchBatch, clientVars
  <2>2. /\ OwedIds(g)' = GroupOf(h)
        /\ \A k \in GPUs : k # g => OwedIds(k)' = OwedIds(k)
    BY <1>5, <2>1, OwedDispatch
  <2>3. \A j \in Range(GroupOf(h)) : j \in Jobs /\ job[j] \in Job
    BY <2>1, SelectedGroup
  <2>4. \A j \in Range(GroupOf(h)) : job'[j] # None /\ job'[j].dispatched_at
    <3> SUFFICES ASSUME NEW j \in Range(GroupOf(h))
                 PROVE  job'[j] # None /\ job'[j].dispatched_at
      OBVIOUS
    <3>1. job'[j] = [job[j] EXCEPT !.dispatched_at = TRUE]
      BY <2>1, <2>3 DEF Take
    <3>2. job'[j] \in Job /\ job'[j].dispatched_at
      BY <2>3, <3>1 DEF Job
    <3> QED
      BY <3>2, NoneAssumption
  <2>5. \A j \in Jobs : j \notin Range(GroupOf(h)) => job'[j] = job[j]
    BY <2>1 DEF Take
  <2>6. \A k \in GPUs : \A j \in Range(OwedIds(k)) : j \in Jobs
    BY OwedIsPending
  <2> HIDE DEF OwedIds
  <2>7. \A k \in GPUs : \A j \in Range(OwedIds(k)') : job'[j].dispatched_at
    BY <2>2, <2>4, <2>5, <2>6 DEF Stamped
  <2>8. \A j \in Jobs : job[j] # None /\ job[j].dispatched_at =>
                        job'[j] # None /\ job'[j].dispatched_at
    BY <2>4, <2>5
  <2> QED
    BY <2>1, <2>7, <2>8 DEF Stamped
<1>6. ASSUME NEW h \in Jobs, HoldBatch(h)
      PROVE  Stamped'
  <2>1. /\ h \in Queued /\ TakeAndRequeue(h)
        /\ UNCHANGED <<pending, future, request_q, running, response_q>>
    BY <1>6 DEF HoldBatch, clientVars, workerVars
  <2>2. \A g \in GPUs : OwedIds(g)' = OwedIds(g)
    BY <2>1, OwedUntouched
  <2>3. Range(GroupOf(h)) \subseteq Queued /\ Queued \subseteq pending
    <3>1. Range(GroupOf(h)) \subseteq Range(queues[job[h].queue]) /\ job[h].queue \in Class
      BY <2>1, SelectedGroup
    <3> QED
      BY <3>1 DEF Queued, Placed, PendingPlaced
  <2>4. \A j \in Jobs : j \notin Range(GroupOf(h)) => job'[j] = job[j]
    BY <2>1 DEF TakeAndRequeue
  <2>5. \A g \in GPUs : \A j \in Range(OwedIds(g)) : j \in Jobs /\ j \notin Queued
    BY OwedIsPending
  <2> HIDE DEF OwedIds, Queued
  <2> QED
    BY <2>1, <2>2, <2>3, <2>4, <2>5 DEF Stamped
<1>7. ASSUME UNCHANGED <<pending, request_q, running, response_q>>,
             \A k \in Jobs : future'[k] \in {"result", "answered"} =>
                               future[k] \in {"result", "answered"},
             \A k \in Jobs : job[k] # None =>
                 job'[k] # None /\ job'[k].dispatched_at = job[k].dispatched_at
      PROVE  Stamped'
  <2>1. \A g \in GPUs : OwedIds(g)' = OwedIds(g)
    BY <1>7, OwedUntouched
  <2>2. \A g \in GPUs : \A j \in Range(OwedIds(g)) : j \in Jobs /\ job[j] # None
    BY OwedIsPending
  <2> HIDE DEF OwedIds
  <2> QED
    BY <1>7, <2>1, <2>2 DEF Stamped
<1>8. CASE Evict
  <2>1. UNCHANGED <<pending, request_q, running, response_q, future>>
    BY <1>8 DEF Evict, clientVars
  <2>2. ASSUME NEW k \in Jobs, job[k] # None
        PROVE  job'[k] # None /\ job'[k].dispatched_at = job[k].dispatched_at
    <3>1. job'[k] = job[k] \/ job'[k] = [job[k] EXCEPT !.preempt_requested = TRUE]
      BY <1>8 DEF Evict
    <3>2. job[k] \in Job
      BY <1>1, <2>2
    <3>3. job'[k] \in Job /\ job'[k].dispatched_at = job[k].dispatched_at
      BY <3>1, <3>2 DEF Job
    <3> QED
      BY <3>3, NoneAssumption
  <2> QED
    BY <1>7, <2>1, <2>2
<1>9. CASE \E j \in Jobs : Cancel(j) \/ Respond(j)
  <2>1. UNCHANGED <<pending, request_q, running, response_q, job>>
    BY <1>9 DEF Cancel, Respond, schedVars, workerVars
  <2>2. \A k \in Jobs : future'[k] \in {"result", "answered"} =>
                          future[k] \in {"result", "answered"}
    BY <1>1, <1>9 DEF Cancel, Respond
  <2> QED
    BY <1>7, <2>1, <2>2
<1>10. CASE \/ \E r \in Requests : Reject(r)
            \/ \E j \in Jobs : TimerFire(j)
            \/ Wake \/ FillDone \/ Age \/ Idle \/ UNCHANGED vars
  <2>1. UNCHANGED <<pending, future, request_q, running, response_q, job>>
    BY <1>10 DEF Reject, TimerFire, Wake, FillDone, Age, Idle, vars, schedVars, workerVars,
                 clientVars
  <2> QED
    BY <1>7, <2>1
<1>11. CASE \E g \in GPUs : (WorkerStep(g) \/ BatchError(g)) /\ UNCHANGED gatewayVars
  <2>1. UNCHANGED <<pending, future, job>>
    BY <1>11 DEF gatewayVars, clientVars, schedVars
  <2>2. \A g \in GPUs : OwedIds(g)' = OwedIds(g)
    BY <1>11, OwedWorker
  <2> HIDE DEF OwedIds
  <2> QED
    BY <2>1, <2>2 DEF Stamped
<1> QED
  BY <1>2, <1>3, <1>4, <1>5, <1>6, <1>8, <1>9, <1>10, <1>11 DEF Next, Client, DispatcherStep

\* What is out on a GPU was stamped, and what is answered keeps its stamp.
LEMMA StampedAlways == Spec => []Stamped
<1>1. Init => Stamped
  <2> SUFFICES ASSUME Init PROVE Stamped
    OBVIOUS
  <2>1. \A g \in GPUs : Owed(g) = <<>>
    BY DEF Init, WorkerInit, Owed
  <2>2. \A g \in GPUs : Range(OwedIds(g)) = {}
    BY <2>1 DEF OwedIds, Range
  <2>3. \A j \in Jobs : future[j] = "none"
    BY DEF Init
  <2> QED
    BY <2>2, <2>3 DEF Stamped
<1>2. Settled /\ Stamped /\ [Next]_vars => Stamped'
  BY StampedNext
<1> QED
  BY SettledAlways, <1>1, <1>2, PTL DEF Spec

\* The handler that answers a request never subtracts from a dispatch time that
\* is None: a job whose result arrived was stamped after its last requeue, and
\* nothing clears the stamp any more (gateway.py, generate; scheduling.py, requeue).
THEOREM AnswersAreStamped == Spec => []StampedWhenAnswered
<1>1. Stamped => StampedWhenAnswered
  BY DEF Stamped, StampedWhenAnswered
<1> QED
  BY StampedAlways, <1>1, PTL

-----------------------------------------------------------------------------
(* The ledger of preemptions *)

ToResume == {j \in Queued : job[j].resume_state # None}

LEMMA ToResumeFinite ==
  ASSUME Settled
  PROVE  /\ IsFiniteSet(ToResume) /\ Cardinality(ToResume) \in Nat
         /\ \A j \in Queued : j \in Jobs /\ job[j] # None
         /\ stats.preemptions \in Nat /\ stats.resumes \in Nat
<1>1. Queued \subseteq pending /\ pending \subseteq Jobs
  BY DEF Settled, Typed, TypeOK, Placed, PendingPlaced
<1>2. IsFiniteSet(Jobs)
  BY ConfigAssumption, FS_Interval DEF Jobs
<1>3. ToResume \subseteq Jobs
  BY <1>1 DEF ToResume
<1>4. \A j \in Queued : j \in Jobs /\ job[j] # None
  BY <1>1 DEF Settled, Typed, JobsExist
<1> QED
  BY <1>2, <1>3, <1>4, FS_Subset, FS_CardinalityType DEF Settled, Typed, TypeOK

LEMMA LedgerSame ==
  ASSUME PreemptionLedger, ToResume' = ToResume,
         stats'.preemptions = stats.preemptions, stats'.resumes = stats.resumes
  PROVE  PreemptionLedger'
BY DEF PreemptionLedger, ToResume

\* A checkpoint that arrives adds one job to those to be resumed, and a dispatch
\* takes away the ones it counts.
LEMMA LedgerNext ==
  ASSUME Settled, PreemptionLedger, [Next]_vars
  PROVE  PreemptionLedger'
<1> USE DEF Settled
<1> DEFINE Others == \/ \E r \in Requests : Reject(r)
                     \/ \E j \in Jobs : Cancel(j) \/ Respond(j) \/ TimerFire(j)
                     \/ \E g \in GPUs : OnFinished(g)
                     \/ Wake \/ FillDone \/ Evict \/ Age \/ Idle \/ UNCHANGED vars
                     \/ \E g \in GPUs : (WorkerStep(g) \/ BatchError(g)) /\ UNCHANGED gatewayVars
<1>1. stats.preemptions = stats.resumes + Cardinality(ToResume)
  BY DEF PreemptionLedger, ToResume
<1>2. \A j \in Queued : j \in Jobs /\ job[j] # None
  BY ToResumeFinite
<1>3. ASSUME NEW j \in Jobs, NEW r \in Requests, Generate(j, r)
      PROVE  PreemptionLedger'
  <2>1. /\ queues' = [queues EXCEPT ![r.queue] = Append(queues[r.queue], j)]
        /\ job' = [job EXCEPT ![j] = NewJob(r)]
        /\ job[j] = None /\ r.queue \in Class
        /\ UNCHANGED stats
    BY <1>3, ConfigAssumption DEF Generate, Admit
  <2>2. Queued' = Queued \cup {j}
    <3>1. queues[r.queue] \in Seq(Jobs)
      BY <2>1 DEF Typed, TypeOK, SchedTypeOK
    <3>2. Range(Append(queues[r.queue], j)) = Range(queues[r.queue]) \cup {j}
      BY <3>1, RangeOfAppend
    <3>3. Queued' = (Queued \ Range(queues[r.queue])) \cup Range(Append(queues[r.queue], j))
      BY <2>1, QueuedAfter
    <3> QED
      BY <2>1, <3>2, <3>3 DEF Queued
  <2>3. j \notin Queued
    BY <1>2, <2>1
  <2>4. job'[j].resume_state = None /\ \A k \in Jobs : k # j => job'[k] = job[k]
    BY <2>1 DEF Typed, TypeOK, SchedTypeOK, NewJob
  <2>5. ToResume' = ToResume
    <3> HIDE DEF Queued
    <3> QED
      BY <1>2, <2>2, <2>3, <2>4 DEF ToResume
  <2> QED
    BY <2>1, <2>5, LedgerSame
<1>4. ASSUME NEW g \in GPUs, OnPreempted(g)
      PROVE  PreemptionLedger'
  <2> DEFINE rid == Head(response_q[g]).request_id
  <2>1. rid \notin Queued /\ Queued' = Queued \cup {rid}
    BY <1>4, PlacedOnPreempted
  <2>2. /\ job'[rid].resume_state # None
        /\ \A k \in Jobs : k # rid => job'[k] = job[k]
        /\ stats' = [stats EXCEPT !.preemptions = @ + 1]
    BY <1>4, CheckpointedJob
  <2> HIDE DEF rid
  <2>3. ToResume' = ToResume \cup {rid} /\ rid \notin ToResume
    <3> HIDE DEF Queued
    <3> QED
      BY <1>2, <2>1, <2>2 DEF ToResume
  <2>4. Cardinality(ToResume') = Cardinality(ToResume) + 1
    BY <2>3, ToResumeFinite, FS_AddElement
  <2>5. stats'.preemptions = stats.preemptions + 1 /\ stats'.resumes = stats.resumes
    BY <2>2 DEF Typed, TypeOK
  <2>6. stats'.preemptions = stats'.resumes + Cardinality(ToResume')
    BY <1>1, <2>4, <2>5, ToResumeFinite
  <2> QED
    BY <2>6 DEF PreemptionLedger, ToResume
<1>5. ASSUME NEW h \in Jobs, NEW g \in GPUs, DispatchBatch(h, g)
      PROVE  PreemptionLedger'
  <2> DEFINE grp == Range(GroupOf(h))
  <2>1. /\ grp \subseteq Queued /\ Queued' = Queued \ grp
    BY <1>5, PlacedDispatch
  <2>2. \A j \in Queued : job'[j].resume_state = job[j].resume_state
    <3>1. \A j \in Jobs : ~Checkpointed(j)
      BY <1>5 DEF Checkpointed, OnPreempted, TakeResponse, DispatchBatch, LoopIdle
    <3>2. [Next]_vars
      BY <1>5 DEF Next, DispatcherStep
    <3> QED
      BY <1>2, <3>1, <3>2, JobsKeepProgress DEF SameProgress
  <2>3. stats'.preemptions = stats.preemptions
        /\ stats'.resumes = stats.resumes + Cardinality(Resumed(h))
    BY <1>5 DEF DispatchBatch, Typed, TypeOK
  <2> HIDE DEF grp
  <2>4. ToResume' = ToResume \ grp /\ ToResume \cap grp = Resumed(h)
    <3>1. Resumed(h) = {j \in grp : job[j].resume_state # None}
      BY DEF Resumed, grp
    <3> HIDE DEF Queued
    <3> QED
      BY <2>1, <2>2, <3>1 DEF ToResume
  <2>5. Cardinality(ToResume') = Cardinality(ToResume) - Cardinality(Resumed(h))
    BY <2>4, ToResumeFinite, FS_Difference
  <2>6. Cardinality(Resumed(h)) \in Nat
    <3>1. Resumed(h) \subseteq ToResume
      BY <2>4
    <3> QED
      BY <3>1, ToResumeFinite, FS_Subset, FS_CardinalityType
  <2>7. stats'.preemptions = stats'.resumes + Cardinality(ToResume')
    BY <1>1, <2>3, <2>5, <2>6, ToResumeFinite
  <2> QED
    BY <2>7 DEF PreemptionLedger, ToResume
<1>6. CASE Others \/ \E h \in Jobs : HoldBatch(h)
  <2>1. Queued' = Queued
    <3>1. CASE Others
      <4>1. UNCHANGED queues
        BY <3>1 DEF Reject, Cancel, Respond, TimerFire, OnFinished, Wake, FillDone, Evict,
                    Age, Idle, vars, schedVars, gatewayVars
      <4> QED
        BY <4>1 DEF Queued
    <3>2. CASE \E h \in Jobs : HoldBatch(h)
      BY <3>2, PlacedHoldBatch
    <3> QED
      BY <1>6, <3>1, <3>2
  <2>2. \A j \in Queued : job'[j].resume_state = job[j].resume_state
    <3>1. \A j \in Queued : ~Checkpointed(j)
      BY PlacedOnPreempted DEF Checkpointed
    <3> QED
      BY <1>2, <3>1, JobsKeepProgress DEF SameProgress
  <2>3. stats'.preemptions = stats.preemptions /\ stats'.resumes = stats.resumes
    <3>1. CASE \E r \in Requests : Reject(r)
      BY <3>1 DEF Reject, Typed, TypeOK
    <3>2. CASE \E j \in Jobs : Respond(j)
      BY <3>2 DEF Respond, Typed, TypeOK
    <3>3. CASE \/ \E j \in Jobs : Cancel(j) \/ TimerFire(j)
               \/ \E g \in GPUs : OnFinished(g)
               \/ \E h \in Jobs : HoldBatch(h)
               \/ Wake \/ FillDone \/ Evict \/ Age \/ Idle \/ UNCHANGED vars
               \/ \E g \in GPUs : (WorkerStep(g) \/ BatchError(g)) /\ UNCHANGED gatewayVars
      BY <3>3 DEF Cancel, TimerFire, OnFinished, HoldBatch, Wake, FillDone, Evict, Age, Idle,
                  vars, gatewayVars
    <3> QED
      BY <1>6, <3>1, <3>2, <3>3
  <2>4. ToResume' = ToResume
    <3> HIDE DEF Queued
    <3> QED
      BY <2>1, <2>2 DEF ToResume
  <2> QED
    BY <2>3, <2>4, LedgerSame
<1> QED
  BY <1>3, <1>4, <1>5, <1>6 DEF Next, Client, DispatcherStep

\* The counters of GET /stats agree with the queues: every preemption that was
\* counted has been counted as a resume too or is a checkpoint still waiting in a
\* queue, through failures and regroupings (gateway.py, the two increments).
THEOREM LedgerBalances == Spec => []PreemptionLedger
<1>1. Init => PreemptionLedger
  <2> SUFFICES ASSUME Init PROVE PreemptionLedger
    OBVIOUS
  <2>1. ToResume = {}
    BY DEF Init, SchedInit, ToResume, Queued, Range
  <2>2. stats.preemptions = 0 /\ stats.resumes = 0
    BY DEF Init
  <2> QED
    BY <2>1, <2>2, FS_EmptySet DEF PreemptionLedger, ToResume
<1>2. Settled /\ PreemptionLedger /\ [Next]_vars => PreemptionLedger'
  BY LedgerNext
<1> QED
  BY SettledAlways, <1>1, <1>2, PTL DEF Spec

-----------------------------------------------------------------------------
(* The latents *)

OwnLatents(j, lat, n) == lat = [owner |-> j, applied |-> n] /\ n <= job[j].steps

\* A checkpoint is of the job that keeps it, after the steps it names.
CheckpointsTrue ==
  \A j \in Jobs : job[j] # None /\ job[j].resume_state # None =>
    OwnLatents(j, job[j].resume_state.latents, job[j].resume_state.step_index)

\* A batch starts every one of its jobs where that job stopped.
SentTrue(g) ==
  request_q[g] # <<>> =>
    LET b == Head(request_q[g])
    IN  \A k \in DOMAIN b.jobs :
          LET id == b.jobs[k].request_id
          IN  /\ job[id].steps = b.steps
              /\ OwnLatents(id, InitialLatents(b.jobs[k]), b.start_index)

RunTrue(g) ==
  running[g] # None =>
    LET b == running[g].batch
    IN  \A k \in DOMAIN b.jobs :
          LET id == b.jobs[k].request_id
          IN  /\ job[id].steps = b.steps
              /\ OwnLatents(id, running[g].latents[k], running[g].i)

MessagesTrue(g) ==
  \A m \in Range(response_q[g]) :
    /\ m.type = "result" => OwnLatents(m.request_id, m.latents, job[m.request_id].steps)
    /\ m.type = "preempted" => OwnLatents(m.request_id, m.latents, m.step_index)

WorkTrue(g) == SentTrue(g) /\ RunTrue(g) /\ MessagesTrue(g)

\* The number of steps of a job is kept by the batch, the messages and the
\* checkpoint that carry its latents, and none of them is ahead of the latents.
ProgressTrue == CheckpointsTrue /\ \A g \in GPUs : WorkTrue(g)

KeepsSteps == \A j \in pending : job'[j].steps = job[j].steps

LEMMA StepsKept ==
  ASSUME Settled, [Next]_vars
  PROVE  KeepsSteps
<1> SUFFICES ASSUME NEW j \in pending PROVE job'[j].steps = job[j].steps
  BY DEF KeepsSteps
<1>1. j \in Jobs /\ job[j] # None
  BY DEF Settled, Typed, TypeOK, JobsExist
<1>2. CASE Checkpointed(j)
  BY <1>2, CheckpointedJob DEF Checkpointed, Settled
<1>3. CASE ~Checkpointed(j)
  BY <1>1, <1>3, JobsKeepProgress DEF SameProgress, Settled
<1> QED
  BY <1>2, <1>3

\* Whatever a GPU was sent, runs or has answered is about jobs it owes.
LEMMA WorkIsOwed ==
  ASSUME Settled, NEW g \in GPUs
  PROVE  /\ request_q[g] # <<>> =>
              \A k \in DOMAIN Head(request_q[g]).jobs :
                Head(request_q[g]).jobs[k].request_id \in Range(OwedIds(g))
         /\ running[g] # None =>
              \A k \in DOMAIN running[g].batch.jobs :
                running[g].batch.jobs[k].request_id \in Range(OwedIds(g))
         /\ \A m \in Range(response_q[g]) : m.request_id \in Range(OwedIds(g))
<1> USE DEF Settled
<1>1. Outstanding(g) = Range(OwedIds(g))
  BY OutstandingIsOwed
<1> HIDE DEF OwedIds
<1>2. ASSUME request_q[g] # <<>>, NEW k \in DOMAIN Head(request_q[g]).jobs
      PROVE  Head(request_q[g]).jobs[k].request_id \in Range(OwedIds(g))
  <2>1. Head(request_q[g]) \in Range(request_q[g])
    <3>1. request_q[g] \in Seq(Batch)
      BY DEF Typed, TypeOK, WorkerTypeOK
    <3> QED
      BY <1>2, <3>1, RangeOfTail
  <2>2. Head(request_q[g]).jobs[k].request_id \in BatchIds(Head(request_q[g]))
    BY <1>2 DEF BatchIds, Range
  <2> QED
    BY <1>1, <2>1, <2>2 DEF Outstanding
<1>3. ASSUME running[g] # None, NEW k \in DOMAIN running[g].batch.jobs
      PROVE  running[g].batch.jobs[k].request_id \in Range(OwedIds(g))
  <2>1. running[g].batch.jobs[k].request_id \in RunningIds(g)
    BY <1>3 DEF RunningIds, BatchIds, Range
  <2> QED
    BY <1>1, <2>1 DEF Outstanding
<1>4. ASSUME NEW m \in Range(response_q[g]) PROVE m.request_id \in Range(OwedIds(g))
  BY <1>1, <1>4 DEF Outstanding, AnsweringIds
<1> QED
  BY <1>2, <1>3, <1>4

LEMMA WorkIsPending ==
  ASSUME Settled, NEW g \in GPUs
  PROVE  /\ request_q[g] # <<>> =>
              \A k \in DOMAIN Head(request_q[g]).jobs :
                Head(request_q[g]).jobs[k].request_id \in pending
         /\ running[g] # None =>
              \A k \in DOMAIN running[g].batch.jobs :
                running[g].batch.jobs[k].request_id \in pending
         /\ \A m \in Range(response_q[g]) : m.request_id \in pending
BY WorkIsOwed, OwedIsPending

LEMMA SentSame ==
  ASSUME Settled, KeepsSteps, NEW g \in GPUs, SentTrue(g), request_q'[g] = request_q[g]
  PROVE  SentTrue(g)'
BY WorkIsPending DEF SentTrue, OwnLatents, KeepsSteps, InitialLatents

LEMMA RunSame ==
  ASSUME Settled, KeepsSteps, NEW g \in GPUs, RunTrue(g), running'[g] = running[g]
  PROVE  RunTrue(g)'
BY WorkIsPending DEF RunTrue, OwnLatents, KeepsSteps

LEMMA MessagesSame ==
  ASSUME Settled, KeepsSteps, NEW g \in GPUs, MessagesTrue(g),
         Range(response_q'[g]) \subseteq Range(response_q[g])
  PROVE  MessagesTrue(g)'
BY WorkIsPending DEF MessagesTrue, OwnLatents, KeepsSteps

\* One more step for every job of the batch, and nothing else.
LEMMA DenoisedRun ==
  ASSUME WorkerTypeOK, NEW g \in GPUs, Denoise(g)
  PROVE  /\ running'[g].batch = running[g].batch /\ running'[g].i = running[g].i + 1
         /\ \A k \in DOMAIN running[g].batch.jobs :
              running'[g].latents[k] = Denoised(running[g].latents[k])
<1> DEFINE r == running[g]
           after == [k \in DOMAIN r.latents |-> Denoised(r.latents[k])]
           r1 == [r EXCEPT !.i = r.i + 1]
           r2 == [r1 EXCEPT !.latents = after]
<1>1. /\ r \in Running /\ r.i \in Nat /\ r.latents \in Seq(Latents)
      /\ DOMAIN r.latents = DOMAIN r.batch.jobs
  BY RunningParts DEF Denoise, InLoop
<1>2. \A k \in DOMAIN r.batch.jobs : after[k] = Denoised(r.latents[k])
  BY <1>1
<1> HIDE DEF after
<1>3. r1.batch = r.batch /\ r1.i = r.i + 1
      /\ r1 \in [batch : Batch, i : Nat, latents : Seq(Latents)]
  BY <1>1 DEF Running
<1> HIDE DEF r1
<1>4. r2.batch = r.batch /\ r2.i = r.i + 1 /\ r2.latents = after
  BY <1>3
<1>5. running' = [running EXCEPT ![g] = r2]
  BY Zenon DEF Denoise, r1, after
<1> HIDE DEF r2
<1>6. running'[g] = r2
  BY <1>5 DEF WorkerTypeOK
<1> QED
  BY <1>2, <1>4, <1>6

\* What a worker does keeps the count of each of its jobs' latents.
LEMMA WorkOfWorker ==
  ASSUME Settled, NEW g \in GPUs, WorkTrue(g), WorkerStep(g) \/ BatchError(g), UNCHANGED job
  PROVE  WorkTrue(g)'
<1> USE DEF Settled, Typed
<1>0. KeepsSteps /\ TypeOK /\ WorkerTypeOK
  BY DEF KeepsSteps, TypeOK
<1>1. ASSUME StartBatch(g) PROVE WorkTrue(g)'
  <2> DEFINE b == Head(request_q[g])
  <2>1. /\ request_q[g] # <<>> /\ running[g] = None
        /\ running' = [running EXCEPT ![g] =
             [batch |-> b, i |-> b.start_index,
              latents |-> [k \in DOMAIN b.jobs |-> InitialLatents(b.jobs[k])]]]
        /\ request_q'[g] = Tail(request_q[g])
        /\ UNCHANGED response_q
    BY <1>0, <1>1 DEF StartBatch, WorkerTypeOK
  <2>2. request_q'[g] = <<>>
    <3>1. request_q[g] \in Seq(Batch) /\ Len(request_q[g]) = 1
      BY <1>0, <2>1 DEF GroupAccounting, Unused, Sent, Executing, Answering, WorkerTypeOK
    <3>2. Tail(request_q[g]) \in Seq(Batch) /\ Len(Tail(request_q[g])) = 0
      BY <2>1, <3>1, HeadTailProperties
    <3> QED
      BY <2>1, <3>2, EmptySeq
  <2>3. /\ running'[g].batch = b /\ running'[g].i = b.start_index
        /\ \A k \in DOMAIN b.jobs : running'[g].latents[k] = InitialLatents(b.jobs[k])
    BY <1>0, <2>1 DEF WorkerTypeOK
  <2>4. \A k \in DOMAIN b.jobs :
          LET id == b.jobs[k].request_id
          IN  /\ job[id].steps = b.steps
              /\ OwnLatents(id, InitialLatents(b.jobs[k]), b.start_index)
    BY <2>1 DEF WorkTrue, SentTrue
  <2> HIDE DEF b
  <2>5. RunTrue(g)'
    BY <1>1, <2>3, <2>4 DEF RunTrue, OwnLatents
  <2>6. SentTrue(g)' /\ MessagesTrue(g)'
    BY <1>0, <2>1, <2>2, MessagesSame DEF WorkTrue, SentTrue
  <2> QED
    BY <2>5, <2>6 DEF WorkTrue
<1>2. ASSUME running[g] # None, NEW msgs \in {Checkpoints(g), Results(g), Failures(g)},
             Answer(g, msgs), UNCHANGED request_q,
             \A m \in Range(msgs) :
               /\ m.type = "result" => OwnLatents(m.request_id, m.latents, job[m.request_id].steps)
               /\ m.type = "preempted" => OwnLatents(m.request_id, m.latents, m.step_index)
      PROVE  WorkTrue(g)'
  <2>1. response_q[g] = <<>> /\ msgs \in Seq(Response)
    BY <1>0, <1>2, Answers DEF GroupAccounting, Unused, Sent, Executing, Answering
  <2>2. response_q'[g] = msgs /\ running'[g] = None
    <3>1. response_q'[g] = <<>> \o msgs /\ running'[g] = None
      BY <1>0, <1>2, <2>1 DEF Answer, WorkerTypeOK
    <3> QED
      BY <2>1, <3>1, ConcatEmptySeq
  <2>3. MessagesTrue(g)'
    BY <1>2, <2>2 DEF MessagesTrue, OwnLatents
  <2> QED
    BY <1>0, <1>2, <2>2, <2>3, SentSame DEF WorkTrue, RunTrue
<1>3. ASSUME running[g] # None
      PROVE  \A k \in DOMAIN running[g].batch.jobs :
               LET id == running[g].batch.jobs[k].request_id
               IN  /\ id \in Jobs /\ job[id].steps = running[g].batch.steps
                   /\ OwnLatents(id, running[g].latents[k], running[g].i)
                   /\ job[id].steps \in Nat /\ running[g].i \in Nat
  <2>1. running[g].batch \in Batch /\ running[g].i \in Nat
        /\ \A k \in DOMAIN running[g].batch.jobs : running[g].batch.jobs[k] \in BatchJob
    BY <1>0, <1>3, RunningParts
  <2> QED
    BY <1>3, <2>1 DEF WorkTrue, RunTrue, Batch, BatchJob
<1>4. ASSUME PreemptBatch(g) PROVE WorkTrue(g)'
  <2>1. running[g] # None /\ Answer(g, Checkpoints(g)) /\ UNCHANGED request_q
    BY <1>4 DEF PreemptBatch, InLoop
  <2>2. \A m \in Range(Checkpoints(g)) :
          m.type = "preempted" /\ OwnLatents(m.request_id, m.latents, m.step_index)
    BY <1>3, <2>1 DEF Checkpoints, Range
  <2> QED
    BY <1>2, <2>1, <2>2
<1>5. ASSUME Denoise(g) PROVE WorkTrue(g)'
  <2> DEFINE r == running[g]
  <2>1. r # None /\ r.i < r.batch.steps /\ UNCHANGED <<request_q, response_q>>
    BY <1>5 DEF Denoise, InLoop
  <2>2. r.latents \in Seq(Latents) /\ r.i \in Nat /\ DOMAIN r.latents = DOMAIN r.batch.jobs
    BY <1>0, <2>1, RunningParts
  <2>3. /\ running'[g].batch = r.batch /\ running'[g].i = r.i + 1
        /\ \A k \in DOMAIN r.batch.jobs : running'[g].latents[k] = Denoised(r.latents[k])
    BY <1>0, <1>5, DenoisedRun
  <2>4. ASSUME NEW k \in DOMAIN r.batch.jobs
        PROVE  LET id == r.batch.jobs[k].request_id
               IN  /\ job[id].steps = r.batch.steps
                   /\ OwnLatents(id, Denoised(r.latents[k]), r.i + 1)
    <3> DEFINE id == r.batch.jobs[k].request_id
    <3>1. /\ id \in Jobs /\ job[id].steps = r.batch.steps /\ job[id].steps \in Nat
          /\ r.latents[k] = [owner |-> id, applied |-> r.i]
      BY <1>3, <2>1 DEF OwnLatents
    <3>2. Denoised(r.latents[k]) = [owner |-> id, applied |-> r.i + 1]
      BY <3>1 DEF Denoised
    <3>3. r.i + 1 <= job[id].steps
      BY <2>1, <2>2, <3>1
    <3> QED
      BY <3>1, <3>2, <3>3 DEF OwnLatents
  <2>5. RunTrue(g)'
    BY <1>5, <2>3, <2>4 DEF RunTrue, OwnLatents
  <2> QED
    BY <1>0, <2>1, <2>5, SentSame, MessagesSame DEF WorkTrue
<1>6. ASSUME FinishBatch(g) PROVE WorkTrue(g)'
  <2>1. /\ running[g] # None /\ running[g].i >= running[g].batch.steps
        /\ Answer(g, Results(g)) /\ UNCHANGED request_q
    BY <1>6 DEF FinishBatch
  <2>2. ASSUME NEW k \in DOMAIN running[g].batch.jobs
        PROVE  LET id == running[g].batch.jobs[k].request_id
               IN  OwnLatents(id, running[g].latents[k], job[id].steps)
    <3> DEFINE id == running[g].batch.jobs[k].request_id
    <3>1. /\ job[id].steps = running[g].batch.steps /\ job[id].steps \in Nat
          /\ running[g].latents[k] = [owner |-> id, applied |-> running[g].i]
          /\ running[g].i <= job[id].steps /\ running[g].i \in Nat
      BY <1>3, <2>1 DEF OwnLatents
    <3>2. running[g].i = job[id].steps
      BY <2>1, <3>1
    <3> QED
      BY <3>1, <3>2 DEF OwnLatents
  <2>3. \A m \in Range(Results(g)) :
          m.type = "result" /\ OwnLatents(m.request_id, m.latents, job[m.request_id].steps)
    <3>1. /\ DOMAIN Results(g) = DOMAIN running[g].batch.jobs
          /\ \A k \in DOMAIN running[g].batch.jobs :
               LET id == running[g].batch.jobs[k].request_id
               IN  /\ Results(g)[k].type = "result" /\ Results(g)[k].request_id = id
                   /\ Results(g)[k].latents = running[g].latents[k]
      BY DEF Results
    <3> QED
      BY <2>2, <3>1 DEF Range
  <2> QED
    BY <1>2, <2>1, <2>3
<1>7. ASSUME BatchError(g) PROVE WorkTrue(g)'
  <2>1. running[g] # None /\ Answer(g, Failures(g)) /\ UNCHANGED request_q
    BY <1>7 DEF BatchError
  <2>2. \A m \in Range(Failures(g)) : m.type = "error"
    <3>1. \A k \in DOMAIN Failures(g) : Failures(g)[k].type = "error"
      BY DEF Failures
    <3> QED
      BY <3>1 DEF Range
  <2> QED
    BY <1>2, <2>1, <2>2
<1> QED
  BY <1>1, <1>4, <1>5, <1>6, <1>7 DEF WorkerStep

\* A dispatch sends the group's jobs from where all of them stopped.
LEMMA WorkOfDispatch ==
  ASSUME Settled, ProgressTrue, NEW h \in Jobs, NEW g \in GPUs, DispatchBatch(h, g), KeepsSteps
  PROVE  WorkTrue(g)'
<1> USE DEF Settled
<1> DEFINE b == NewBatch(h)
           grp == GroupOf(h)
<1>1. /\ h \in Queued /\ busy[g] = None
      /\ request_q' = [request_q EXCEPT ![g] = Append(request_q[g], b)]
      /\ UNCHANGED <<running, response_q>>
  BY DEF DispatchBatch, LeastUtilised, Free
<1>2. request_q[g] = <<>> /\ running[g] = None /\ response_q[g] = <<>>
  BY <1>1 DEF GroupAccounting, Unused
<1>3. Head(request_q'[g]) = b
  <2> HIDE DEF b
  <2>1. request_q'[g] = Append(<<>>, b)
    BY <1>1, <1>2 DEF Typed, TypeOK, WorkerTypeOK
  <2> QED
    BY <2>1
<1>4. /\ job[h] \in Job /\ grp \in Seq(Jobs)
      /\ \A j \in Range(grp) : j \in Jobs /\ job[j] \in Job /\ j \in pending
  <2>1. /\ job[h] \in Job /\ grp \in Seq(Jobs)
        /\ \A j \in Range(grp) : j \in Jobs /\ job[j] \in Job
    BY <1>1, SelectedGroup
  <2>2. Range(grp) \subseteq Queued /\ Queued \subseteq pending
    BY PlacedDispatch DEF Placed, PendingPlaced
  <2> QED
    BY <2>1, <2>2
<1>5. \A j \in Range(grp) : job[j].steps = job[h].steps /\ StartIndex(j) = StartIndex(h)
  BY <1>1, <1>4, SelectedGroup, GroupSharesKey DEF Typed, TypeOK
<1>6. ASSUME NEW k \in DOMAIN grp
      PROVE  LET id == b.jobs[k].request_id
             IN  /\ job'[id].steps = b.steps
                 /\ InitialLatents(b.jobs[k]) = [owner |-> id, applied |-> b.start_index]
                 /\ b.start_index <= job'[id].steps
  <2> DEFINE j == grp[k]
             rs == job[j].resume_state
  <2>1. j \in Range(grp) /\ j \in Jobs /\ job[j] \in Job /\ j \in pending
    BY <1>4, <1>6 DEF Range
  <2>2. /\ b.steps = job[h].steps /\ b.start_index = StartIndex(h)
        /\ b.jobs[k].request_id = j
        /\ b.jobs[k].resume_latents = IF rs = None THEN None ELSE rs.latents
    BY <1>6 DEF NewBatch
  <2>3. b.steps = job[j].steps /\ b.start_index = StartIndex(j)
    BY <1>5, <2>1, <2>2
  <2>4. job'[j].steps = job[j].steps
    BY <2>1 DEF KeepsSteps
  <2> HIDE DEF b, grp, j
  <2>5. CASE rs = None
    <3>1. job[j].steps \in Nat \ {0} /\ StartIndex(j) = 0
      BY <2>1, <2>5 DEF Job, StartIndex
    <3>2. InitialLatents(b.jobs[k]) = [owner |-> j, applied |-> 0]
      BY <2>2, <2>5 DEF InitialLatents
    <3> QED
      BY <2>2, <2>3, <2>4, <3>1, <3>2
  <2>6. CASE rs # None
    <3>1. OwnLatents(j, rs.latents, rs.step_index) /\ StartIndex(j) = rs.step_index
      BY <2>1, <2>6, NoneAssumption DEF ProgressTrue, CheckpointsTrue, StartIndex
    <3>2. rs.latents # None
      BY <2>1, <2>6, NoneAssumption DEF Job, ResumeState
    <3>3. InitialLatents(b.jobs[k]) = rs.latents
      BY <2>2, <2>6, <3>2 DEF InitialLatents
    <3> QED
      BY <2>2, <2>3, <2>4, <3>1, <3>3 DEF OwnLatents
  <2> QED
    BY <2>5, <2>6
<1>7. DOMAIN b.jobs = DOMAIN grp
  BY DEF NewBatch
<1> HIDE DEF b, grp
<1>8. SentTrue(g)'
  BY <1>3, <1>6, <1>7 DEF SentTrue, OwnLatents, InitialLatents
<1>9. running'[g] = None /\ Range(response_q'[g]) = {}
  BY <1>1, <1>2 DEF Range
<1> QED
  BY <1>8, <1>9 DEF WorkTrue, RunTrue, MessagesTrue

\* A job comes into being when its request is admitted.
LEMMA JobsAppear ==
  ASSUME Typed, [Next]_vars, NEW j \in Jobs, job[j] = None, job'[j] # None, ~Checkpointed(j)
  PROVE  \E r \in Requests : Generate(j, r)
<1> USE DEF Typed, TypeOK, SchedTypeOK
<1>1. CASE \E k \in Jobs, r \in Requests : Generate(k, r)
  <2>1. PICK k \in Jobs, r \in Requests : Generate(k, r)
    BY <1>1
  <2>2. k = j
    BY <2>1 DEF Generate, Admit
  <2> QED
    BY <2>1, <2>2
<1>2. CASE \E g \in GPUs : OnPreempted(g)
  <2>1. PICK g \in GPUs : OnPreempted(g)
    BY <1>2
  <2>2. job'[j] = job[j]
    BY <2>1, Zenon DEF OnPreempted, RequeuePreempted, Checkpointed
  <2> QED
    BY <2>2
<1>3. CASE \E h \in Jobs : (\E g \in GPUs : DispatchBatch(h, g)) \/ HoldBatch(h)
  <2>1. PICK h \in Jobs : h \in Queued /\ (Take(h) \/ TakeAndRequeue(h))
    BY <1>3 DEF DispatchBatch, HoldBatch
  <2>2. j \notin Range(GroupOf(h))
    BY <2>1, SelectedGroup, NoneAssumption
  <2> QED
    BY <2>1, <2>2 DEF Take, TakeAndRequeue
<1>4. CASE Evict
  <2>1. \A g \in Victims : g \in GPUs /\ busy[g] # None
    BY DEF Victims, EvictionCandidates, Free
  <2>2. \A g \in Victims : busy[g].head # j
    BY <2>1 DEF JobsExist
  <2> QED
    BY <1>4, <2>2 DEF Evict
<1>5. CASE \/ \E r \in Requests : Reject(r)
           \/ \E k \in Jobs : Cancel(k) \/ Respond(k) \/ TimerFire(k)
           \/ Age \/ Idle \/ Wake \/ FillDone \/ UNCHANGED vars
           \/ \E g \in GPUs : OnFinished(g)
           \/ \E g \in GPUs : (WorkerStep(g) \/ BatchError(g)) /\ UNCHANGED gatewayVars
  <2>1. UNCHANGED job
    BY <1>5 DEF Reject, Cancel, Respond, TimerFire, Age, Idle, Wake, FillDone, OnFinished,
                vars, schedVars, gatewayVars
  <2> QED
    BY <2>1
<1> QED
  BY <1>1, <1>2, <1>3, <1>4, <1>5 DEF Next, Client, DispatcherStep

LEMMA CheckpointsNext ==
  ASSUME Settled, ProgressTrue, [Next]_vars
  PROVE  CheckpointsTrue'
<1> USE DEF Settled
<1> SUFFICES ASSUME NEW j \in Jobs, job'[j] # None, job'[j].resume_state # None
             PROVE  OwnLatents(j, job[j].resume_state.latents,
                               job[j].resume_state.step_index)'
  BY DEF CheckpointsTrue
<1>1. CASE Checkpointed(j)
  <2>1. PICK g \in GPUs : OnPreempted(g) /\ Head(response_q[g]).request_id = j
    BY <1>1 DEF Checkpointed
  <2> DEFINE m == Head(response_q[g])
  <2>2. /\ m \in Range(response_q[g]) /\ m.type = "preempted"
        /\ job'[j].steps = job[j].steps
        /\ job'[j].resume_state = [latents |-> m.latents, step_index |-> m.step_index]
    BY <2>1, CheckpointedJob
  <2>3. OwnLatents(j, m.latents, m.step_index)
    BY <2>1, <2>2 DEF ProgressTrue, WorkTrue, MessagesTrue
  <2> HIDE DEF m
  <2> QED
    BY <2>2, <2>3 DEF OwnLatents
<1>2. CASE ~Checkpointed(j) /\ job[j] # None
  <2>1. job'[j].steps = job[j].steps /\ job'[j].resume_state = job[j].resume_state
    BY <1>2, JobsKeepProgress DEF SameProgress
  <2> QED
    BY <1>2, <2>1 DEF ProgressTrue, CheckpointsTrue, OwnLatents
<1>3. CASE ~Checkpointed(j) /\ job[j] = None
  <2>1. PICK r \in Requests : Generate(j, r)
    BY <1>3, JobsAppear
  <2>2. job'[j].resume_state = None
    BY <2>1 DEF Generate, Admit, NewJob, Typed, TypeOK, SchedTypeOK
  <2> QED
    BY <2>2
<1> QED
  BY <1>1, <1>2, <1>3

LEMMA ProgressNext ==
  ASSUME Settled, ProgressTrue, [Next]_vars
  PROVE  ProgressTrue'
<1>1. KeepsSteps
  BY StepsKept
<1>2. ASSUME NEW k \in GPUs, request_q'[k] = request_q[k], running'[k] = running[k],
             Range(response_q'[k]) \subseteq Range(response_q[k])
      PROVE  WorkTrue(k)'
  BY <1>1, <1>2, SentSame, RunSame, MessagesSame DEF ProgressTrue, WorkTrue
<1>3. ASSUME NEW k \in GPUs PROVE WorkTrue(k)'
  <2> USE DEF Settled, Typed, TypeOK, WorkerTypeOK
  <2>1. ASSUME NEW g \in GPUs, (WorkerStep(g) \/ BatchError(g)) /\ UNCHANGED gatewayVars
        PROVE  WorkTrue(k)'
    <3>1. CASE k = g
      BY <2>1, <3>1, WorkOfWorker DEF ProgressTrue, gatewayVars, schedVars
    <3>2. CASE k # g
      <4>1. /\ request_q'[k] = request_q[k] /\ running'[k] = running[k]
            /\ response_q'[k] = response_q[k]
        BY <2>1, <3>2 DEF WorkerStep, StartBatch, PreemptBatch, Denoise, FinishBatch,
                          BatchError, Answer
      <4> QED
        BY <1>2, <4>1
    <3> QED
      BY <3>1, <3>2
  <2>2. ASSUME NEW h \in Jobs, NEW g \in GPUs, DispatchBatch(h, g)
        PROVE  WorkTrue(k)'
    <3>1. CASE k = g
      BY <1>1, <2>2, <3>1, WorkOfDispatch
    <3>2. CASE k # g
      BY <1>2, <2>2, <3>2 DEF DispatchBatch
    <3> QED
      BY <3>1, <3>2
  <2>3. ASSUME NEW g \in GPUs, OnPreempted(g) \/ OnFinished(g)
        PROVE  WorkTrue(k)'
    <3>1. /\ UNCHANGED <<request_q, running>>
          /\ response_q[g] \in Seq(Response) /\ response_q[g] # <<>>
          /\ response_q' = [response_q EXCEPT ![g] = Tail(response_q[g])]
      BY <2>3 DEF OnPreempted, OnFinished, TakeResponse
    <3>2. Range(Tail(response_q[g])) \subseteq Range(response_q[g])
      BY <3>1, RangeOfTail
    <3> QED
      BY <1>2, <3>1, <3>2
  <2>4. CASE \/ Client
             \/ \E j \in Jobs : Respond(j) \/ TimerFire(j)
             \/ Wake \/ (\E h \in Jobs : HoldBatch(h)) \/ FillDone \/ Evict \/ Age \/ Idle
             \/ UNCHANGED vars
    <3>1. UNCHANGED <<request_q, running, response_q>>
      BY <2>4 DEF Client, Generate, Reject, Cancel, Respond, TimerFire, Wake, HoldBatch,
                  FillDone, Evict, Age, Idle, vars, workerVars
    <3> QED
      BY <1>2, <3>1
  <2> QED
    BY <2>1, <2>2, <2>3, <2>4 DEF Next, DispatcherStep
<1> QED
  BY <1>3, CheckpointsNext DEF ProgressTrue

\* A result is made of exactly the denoising steps its request asked for, all on
\* the latents of that job: no checkpoint, requeue or regrouping loses a step,
\* repeats one or hands a job another one's latents (worker.py, _run_batch;
\* scheduling.py, requeue and batch_key; gateway.py, the batch message).
THEOREM ResultsAreComplete == Spec => []ResultComplete
<1>1. Init => ProgressTrue
  BY DEF Init, SchedInit, WorkerInit, ProgressTrue, CheckpointsTrue, WorkTrue, SentTrue,
         RunTrue, MessagesTrue, Range
<1>2. Settled /\ ProgressTrue /\ [Next]_vars => ProgressTrue'
  BY ProgressNext
<1>3. ProgressTrue => ResultComplete
  BY DEF ProgressTrue, WorkTrue, MessagesTrue, OwnLatents, ResultComplete
<1> QED
  BY SettledAlways, <1>1, <1>2, <1>3, PTL DEF Spec

-----------------------------------------------------------------------------
(* Who yields, and how far it has come *)

BatchOf(id, b) == StartIndex(id) = b.start_index /\ b.preemptible = Preemptible(job[id].queue)

SentYields(g) ==
  request_q[g] # <<>> =>
    LET b == Head(request_q[g]) IN \A k \in DOMAIN b.jobs : BatchOf(b.jobs[k].request_id, b)

RunYields(g) ==
  running[g] # None =>
    LET b == running[g].batch
    IN  /\ b.start_index <= running[g].i
        /\ \A k \in DOMAIN b.jobs : BatchOf(b.jobs[k].request_id, b)

MessagesYield(g) ==
  \A m \in Range(response_q[g]) : m.type = "preempted" =>
    LET id == m.request_id
    IN  /\ Preemptive /\ Preemptible(job[id].queue)
        /\ StartIndex(id) <= m.step_index /\ m.step_index < job[id].steps

Yields(g) ==
  /\ SentYields(g) /\ RunYields(g) /\ MessagesYield(g)
  /\ control_q[g] # <<>> => Preemptive

\* Only a preemptible job of a preemptive gateway comes back, no earlier than it
\* started and before its last step.
YieldTrue == \A g \in GPUs : Yields(g)

Steady(id) ==
  StartIndex(id)' = StartIndex(id) /\ job'[id].queue = job[id].queue /\ job'[id].steps = job[id].steps

LEMMA SteadyJobs ==
  ASSUME Settled, [Next]_vars, NEW id \in Jobs, job[id] # None, ~Checkpointed(id)
  PROVE  Steady(id)
<1>1. SameIdentity(id) /\ SameProgress(id)
  BY JobsKeepIdentity, JobsKeepProgress DEF Settled
<1> QED
  BY <1>1 DEF Steady, StartIndex, SameIdentity, SameRequest, SameProgress

LEMMA YieldsSame ==
  ASSUME Settled, NEW g \in GPUs, Yields(g),
         request_q'[g] = request_q[g], running'[g] = running[g],
         Range(response_q'[g]) \subseteq Range(response_q[g]),
         control_q'[g] # <<>> => Preemptive,
         \A id \in Range(OwedIds(g)) : Steady(id)
  PROVE  Yields(g)'
<1> HIDE DEF OwedIds
<1>1. SentYields(g)'
  BY WorkIsOwed DEF Yields, SentYields, BatchOf, Steady
<1>2. RunYields(g)'
  BY WorkIsOwed DEF Yields, RunYields, BatchOf, Steady
<1>3. MessagesYield(g)'
  BY WorkIsOwed DEF Yields, MessagesYield, Steady, Preemptive
<1> QED
  BY <1>1, <1>2, <1>3 DEF Yields, Preemptive

\* A worker starts where its batch says, goes forward, and checkpoints only a
\* batch that may be preempted and has steps to do.
LEMMA YieldsOfWorker ==
  ASSUME Settled, ProgressTrue, NEW g \in GPUs, Yields(g), WorkerStep(g) \/ BatchError(g),
         UNCHANGED job
  PROVE  Yields(g)'
<1> USE DEF Settled, Typed
<1>0. WorkerTypeOK /\ \A id \in Jobs : StartIndex(id)' = StartIndex(id)
  BY DEF TypeOK, StartIndex
<1>1. ASSUME NEW n \in 0..Len(control_q[g]), Drain(g, n)
      PROVE  control_q'[g] # <<>> => Preemptive
  <2>1. control_q[g] \in Seq(Nat)
    BY <1>0 DEF WorkerTypeOK
  <2>2. control_q'[g] = SubSeq(control_q[g], n + 1, Len(control_q[g]))
    BY <1>0, <1>1 DEF Drain, WorkerTypeOK
  <2>3. CASE control_q[g] = <<>>
    <3>1. Len(control_q[g]) = 0 /\ n = 0
      BY <2>3
    <3>2. control_q'[g] = <<>>
      BY <2>2, <2>3, <3>1
    <3> QED
      BY <3>2
  <2> QED
    BY <2>3 DEF Yields
<1>2. ASSUME StartBatch(g) PROVE Yields(g)'
  <2> DEFINE b == Head(request_q[g])
  <2>1. /\ request_q[g] # <<>> /\ running[g] = None
        /\ running' = [running EXCEPT ![g] =
             [batch |-> b, i |-> b.start_index,
              latents |-> [k \in DOMAIN b.jobs |-> InitialLatents(b.jobs[k])]]]
        /\ request_q'[g] = Tail(request_q[g])
        /\ UNCHANGED <<response_q, control_q>>
    BY <1>0, <1>2 DEF StartBatch, WorkerTypeOK
  <2>2. request_q'[g] = <<>>
    <3>1. request_q[g] \in Seq(Batch) /\ Len(request_q[g]) = 1
      BY <1>0, <2>1 DEF GroupAccounting, Unused, Sent, Executing, Answering, WorkerTypeOK
    <3>2. Tail(request_q[g]) \in Seq(Batch) /\ Len(Tail(request_q[g])) = 0
      BY <2>1, <3>1, HeadTailProperties
    <3> QED
      BY <2>1, <3>2, EmptySeq
  <2>3. running'[g].batch = b /\ running'[g].i = b.start_index
    BY <1>0, <2>1 DEF WorkerTypeOK
  <2>4. \A k \in DOMAIN b.jobs : BatchOf(b.jobs[k].request_id, b)
    BY <2>1 DEF Yields, SentYields
  <2>5. b.start_index \in Nat
    <3>1. b \in Batch
      BY <1>0, <2>1, HeadTailProperties DEF WorkerTypeOK
    <3> QED
      BY <3>1 DEF Batch
  <2> HIDE DEF b
  <2>6. RunYields(g)'
    BY <2>3, <2>4, <2>5 DEF RunYields, BatchOf, StartIndex
  <2>7. SentYields(g)' /\ MessagesYield(g)'
    BY <2>1, <2>2 DEF Yields, SentYields, MessagesYield, StartIndex, Preemptive
  <2> QED
    BY <2>1, <2>6, <2>7 DEF Yields, Preemptive
<1>3. ASSUME running[g] # None, NEW msgs \in {Checkpoints(g), Results(g), Failures(g)},
             Answer(g, msgs), UNCHANGED request_q, control_q'[g] # <<>> => Preemptive,
             \A m \in Range(msgs) : m.type = "preempted" =>
               /\ Preemptive /\ Preemptible(job[m.request_id].queue)
               /\ StartIndex(m.request_id) <= m.step_index
               /\ m.step_index < job[m.request_id].steps
      PROVE  Yields(g)'
  <2>1. response_q[g] = <<>> /\ request_q[g] = <<>> /\ msgs \in Seq(Response)
    BY <1>0, <1>3, Answers DEF GroupAccounting, Unused, Sent, Executing, Answering
  <2>2. response_q'[g] = msgs /\ running'[g] = None
    <3>1. response_q'[g] = <<>> \o msgs /\ running'[g] = None
      BY <1>0, <1>3, <2>1 DEF Answer, WorkerTypeOK
    <3> QED
      BY <2>1, <3>1, ConcatEmptySeq
  <2>3. MessagesYield(g)'
    BY <1>3, <2>2 DEF MessagesYield, StartIndex, Preemptive
  <2> QED
    BY <1>3, <2>1, <2>2, <2>3 DEF Yields, SentYields, RunYields, Preemptive
<1>4. ASSUME PreemptBatch(g) PROVE Yields(g)'
  <2>1. PICK n \in 0..Len(control_q[g]) : Hit(g, n) /\ Drain(g, n)
    BY <1>4 DEF PreemptBatch
  <2>2. /\ running[g] # None /\ running[g].i < running[g].batch.steps
        /\ running[g].batch.preemptible
        /\ Answer(g, Checkpoints(g)) /\ UNCHANGED request_q
    BY <1>4 DEF PreemptBatch, InLoop
  <2>3. Preemptive
    <3>1. control_q[g] # <<>>
      <4>1. control_q[g] = <<>> => Len(control_q[g]) = 0
        OBVIOUS
      <4> QED
        BY <2>1, <4>1 DEF Hit
    <3> QED
      BY <3>1 DEF Yields
  <2>4. ASSUME NEW k \in DOMAIN running[g].batch.jobs
        PROVE  LET id == running[g].batch.jobs[k].request_id
               IN  /\ Preemptible(job[id].queue)
                   /\ StartIndex(id) <= running[g].i
                   /\ running[g].i < job[id].steps
    BY <2>2 DEF Yields, RunYields, BatchOf, ProgressTrue, WorkTrue, RunTrue
  <2>5. \A m \in Range(Checkpoints(g)) :
          /\ Preemptible(job[m.request_id].queue)
          /\ StartIndex(m.request_id) <= m.step_index
          /\ m.step_index < job[m.request_id].steps
    <3>1. /\ DOMAIN Checkpoints(g) = DOMAIN running[g].batch.jobs
          /\ \A k \in DOMAIN running[g].batch.jobs :
               /\ Checkpoints(g)[k].request_id = running[g].batch.jobs[k].request_id
               /\ Checkpoints(g)[k].step_index = running[g].i
      BY DEF Checkpoints
    <3> QED
      BY <2>4, <3>1 DEF Range
  <2>6. control_q'[g] # <<>> => Preemptive
    BY <2>3
  <2> QED
    BY <1>3, <2>2, <2>3, <2>5, <2>6
<1>5. ASSUME Denoise(g) PROVE Yields(g)'
  <2>1. PICK n \in 0..Len(control_q[g]) : Drain(g, n)
    BY <1>5 DEF Denoise
  <2>2. running[g] # None /\ UNCHANGED <<request_q, response_q>>
    BY <1>5 DEF Denoise, InLoop
  <2>3. running'[g].batch = running[g].batch /\ running'[g].i = running[g].i + 1
    BY <1>0, <1>5, DenoisedRun
  <2>4. running[g].i \in Nat /\ running[g].batch.start_index \in Nat
    BY <1>0, <2>2, RunningParts DEF Batch
  <2>5. RunYields(g)'
    BY <2>2, <2>3, <2>4 DEF Yields, RunYields, BatchOf, StartIndex
  <2>6. SentYields(g)' /\ MessagesYield(g)'
    BY <2>2 DEF Yields, SentYields, MessagesYield, BatchOf, StartIndex, Preemptive
  <2> QED
    BY <1>1, <2>1, <2>5, <2>6 DEF Yields, Preemptive
<1>6. ASSUME FinishBatch(g) \/ BatchError(g) PROVE Yields(g)'
  <2>1. /\ running[g] # None /\ UNCHANGED <<request_q, control_q>>
        /\ Answer(g, Results(g)) \/ Answer(g, Failures(g))
    BY <1>6 DEF FinishBatch, BatchError
  <2>2. \A m \in (Range(Results(g)) \cup Range(Failures(g))) : m.type # "preempted"
    <3>1. /\ \A k \in DOMAIN Results(g) : Results(g)[k].type = "result"
          /\ \A k \in DOMAIN Failures(g) : Failures(g)[k].type = "error"
      BY DEF Results, Failures
    <3> QED
      BY <3>1 DEF Range
  <2>3. control_q'[g] # <<>> => Preemptive
    BY <2>1 DEF Yields
  <2> QED
    BY <1>3, <2>1, <2>2, <2>3
<1> QED
  BY <1>2, <1>4, <1>5, <1>6 DEF WorkerStep

\* A dispatch sends the group with the step and the class its jobs share.
LEMMA YieldsOfDispatch ==
  ASSUME Settled, NEW h \in Jobs, NEW g \in GPUs, Yields(g), DispatchBatch(h, g),
         \A id \in Queued : Steady(id)
  PROVE  Yields(g)'
<1> USE DEF Settled
<1>0. PICK b, grp : b = NewBatch(h) /\ grp = GroupOf(h)
  OBVIOUS
<1>1. /\ h \in Queued /\ busy[g] = None
      /\ request_q' = [request_q EXCEPT ![g] = Append(request_q[g], b)]
      /\ UNCHANGED <<running, response_q, control_q>>
  BY <1>0 DEF DispatchBatch, LeastUtilised, Free
<1>2. request_q[g] = <<>> /\ running[g] = None /\ response_q[g] = <<>>
  BY <1>1 DEF GroupAccounting, Unused
<1>3. Head(request_q'[g]) = b
  <2>1. request_q'[g] = Append(<<>>, b)
    BY <1>1, <1>2 DEF Typed, TypeOK, WorkerTypeOK
  <2> QED
    BY <2>1
<1>4. job[h] \in Job /\ \A j \in Range(grp) : job[j].queue = job[h].queue /\ j \in Queued
  BY <1>0, <1>1, SelectedGroup, PlacedDispatch
<1>5. \A j \in Range(grp) : StartIndex(j) = StartIndex(h)
  BY <1>0, <1>4, GroupSharesKey DEF Typed, TypeOK
<1>6. ASSUME NEW k \in DOMAIN grp
      PROVE  BatchOf(b.jobs[k].request_id, b)'
  <2> DEFINE j == grp[k]
  <2>1. j \in Range(grp)
    BY <1>6 DEF Range
  <2>2. /\ b.start_index = StartIndex(h) /\ b.preemptible = Preemptible(job[h].queue)
        /\ b.jobs[k].request_id = j
    BY <1>0, <1>6 DEF NewBatch
  <2>3. StartIndex(j)' = StartIndex(h) /\ job'[j].queue = job[h].queue
    BY <1>4, <1>5, <2>1 DEF Steady
  <2> QED
    BY <2>2, <2>3 DEF BatchOf
<1>7. DOMAIN b.jobs = DOMAIN grp
  BY <1>0 DEF NewBatch
<1>8. SentYields(g)'
  BY <1>3, <1>6, <1>7 DEF SentYields
<1> QED
  BY <1>1, <1>2, <1>8 DEF Yields, RunYields, MessagesYield, Range, Preemptive

\* The messages left behind a checkpoint are about other jobs.
LEMMA YieldsOfMessage ==
  ASSUME Settled, [Next]_vars, NEW g \in GPUs, Yields(g), OnPreempted(g)
  PROVE  Yields(g)'
<1> USE DEF Settled
<1> DEFINE rid == Head(response_q[g]).request_id
<1>1. TakeResponse(g) /\ response_q[g] # <<>>
  BY DEF OnPreempted, TakeResponse
<1>2. response_q[g] \in Seq(Response) /\ response_q' = [response_q EXCEPT ![g] = Tail(response_q[g])]
      /\ UNCHANGED <<request_q, running, control_q>>
  BY <1>1 DEF TakeResponse, Typed, TypeOK, WorkerTypeOK
<1>3. request_q[g] = <<>> /\ running[g] = None
  BY <1>1 DEF GroupAccounting, Unused, Sent, Executing, Answering
<1>4. Range(response_q'[g]) \subseteq Range(response_q[g])
  <2>1. response_q'[g] = Tail(response_q[g])
    BY <1>2 DEF Typed, TypeOK, WorkerTypeOK
  <2> QED
    BY <1>1, <1>2, <2>1, RangeOfTail
<1>5. \A m \in Range(response_q'[g]) : m.request_id # rid
  <2>1. Range(OwedIds(g)') = Range(OwedIds(g)) \ {rid}
    BY <1>1, MessageOfPending
  <2>2. Owed(g)' = response_q'[g]
    BY <1>2, <1>3 DEF Owed
  <2>3. Range(OwedIds(g)') = {m.request_id : m \in Range(response_q'[g])}
    <3>1. OwedIds(g)' = [k \in DOMAIN response_q'[g] |-> response_q'[g][k].request_id]
      BY <2>2 DEF OwedIds
    <3> HIDE DEF OwedIds
    <3>2. DOMAIN OwedIds(g)' = DOMAIN response_q'[g]
          /\ \A k \in DOMAIN response_q'[g] : OwedIds(g)'[k] = response_q'[g][k].request_id
      BY <3>1
    <3> QED
      BY <3>2 DEF Range
  <2> HIDE DEF OwedIds, rid
  <2> QED
    BY <2>1, <2>3
<1>6. \A m \in Range(response_q'[g]) : Steady(m.request_id)
  <2> SUFFICES ASSUME NEW m \in Range(response_q'[g]) PROVE Steady(m.request_id)
    OBVIOUS
  <2> DEFINE id == m.request_id
  <2>1. id \in Jobs /\ job[id] # None /\ id # rid
    BY <1>4, <1>5, WorkIsPending DEF Typed, TypeOK, JobsExist
  <2>2. job'[id] = job[id]
    BY <2>1, CheckpointedJob
  <2> HIDE DEF id
  <2>3. Steady(id)
    BY <2>2 DEF Steady, StartIndex
  <2> QED
    BY <2>3 DEF id
<1> HIDE DEF rid
<1>7. MessagesYield(g)'
  BY <1>4, <1>6 DEF Yields, MessagesYield, Steady, Preemptive
<1> QED
  BY <1>2, <1>3, <1>7 DEF Yields, SentYields, RunYields, Preemptive

LEMMA YieldNext ==
  ASSUME Settled, ProgressTrue, YieldTrue, [Next]_vars
  PROVE  YieldTrue'
<1> USE DEF Settled
<1> SUFFICES ASSUME NEW k \in GPUs PROVE Yields(k)'
  BY DEF YieldTrue
<1>0. Yields(k)
  BY DEF YieldTrue
<1>1. \A id \in Range(OwedIds(k)) : id \in Jobs /\ job[id] # None
  BY OwedIsPending
<1>2. ASSUME ~\E g \in GPUs : OnPreempted(g)
      PROVE  \A id \in Jobs : job[id] # None => Steady(id)
  BY <1>2, SteadyJobs DEF Checkpointed
<1>3. ASSUME NEW g \in GPUs, OnPreempted(g)
      PROVE  Yields(k)'
  <2>1. CASE k = g
    BY <1>0, <1>3, <2>1, YieldsOfMessage
  <2>2. CASE k # g
    <3> DEFINE rid == Head(response_q[g]).request_id
    <3>1. TakeResponse(g)
      BY <1>3 DEF OnPreempted
    <3>2. rid \notin Range(OwedIds(k))
      BY <2>2, <3>1, MessageOfPending
    <3>3. \A id \in Jobs : id # rid => job'[id] = job[id]
      BY <1>3, CheckpointedJob
    <3> HIDE DEF rid
    <3>4. \A id \in Range(OwedIds(k)) : Steady(id)
      BY <1>1, <3>2, <3>3 DEF Steady, StartIndex
    <3>5. /\ request_q'[k] = request_q[k] /\ running'[k] = running[k]
          /\ response_q'[k] = response_q[k] /\ control_q'[k] = control_q[k]
      BY <2>2, <3>1 DEF TakeResponse, Typed, TypeOK, WorkerTypeOK
    <3>6. control_q'[k] # <<>> => Preemptive
      BY <1>0, <3>5 DEF Yields
    <3> QED
      BY <1>0, <3>4, <3>5, <3>6, YieldsSame
  <2> QED
    BY <2>1, <2>2
<1>4. ASSUME ~\E g \in GPUs : OnPreempted(g),
             request_q'[k] = request_q[k], running'[k] = running[k],
             Range(response_q'[k]) \subseteq Range(response_q[k]),
             control_q'[k] # <<>> => Preemptive
      PROVE  Yields(k)'
  BY <1>0, <1>1, <1>2, <1>4, YieldsSame
<1>5. ASSUME control_q'[k] = control_q[k] PROVE control_q'[k] # <<>> => Preemptive
  BY <1>0, <1>5 DEF Yields
<1>6. CASE ~\E g \in GPUs : OnPreempted(g)
  <2> USE DEF Typed, TypeOK, WorkerTypeOK
  <2>1. ASSUME NEW g \in GPUs, (WorkerStep(g) \/ BatchError(g)) /\ UNCHANGED gatewayVars
        PROVE  Yields(k)'
    <3>1. CASE k = g
      BY <1>0, <2>1, <3>1, YieldsOfWorker DEF gatewayVars, schedVars
    <3>2. CASE k # g
      <4>1. /\ request_q'[k] = request_q[k] /\ running'[k] = running[k]
            /\ response_q'[k] = response_q[k] /\ control_q'[k] = control_q[k]
        BY <2>1, <3>2 DEF WorkerStep, StartBatch, PreemptBatch, Denoise, FinishBatch,
                          BatchError, Answer, Drain
      <4> QED
        BY <1>4, <1>5, <1>6, <4>1
    <3> QED
      BY <3>1, <3>2
  <2>2. ASSUME NEW h \in Jobs, NEW g \in GPUs, DispatchBatch(h, g)
        PROVE  Yields(k)'
    <3>1. CASE k = g
      <4>1. \A id \in Queued : Steady(id)
        BY <1>2, <1>6, ToResumeFinite
      <4> QED
        BY <1>0, <2>2, <3>1, <4>1, YieldsOfDispatch
    <3>2. CASE k # g
      BY <1>4, <1>5, <1>6, <2>2, <3>2 DEF DispatchBatch
    <3> QED
      BY <3>1, <3>2
  <2>3. ASSUME NEW g \in GPUs, OnFinished(g)
        PROVE  Yields(k)'
    <3>1. /\ UNCHANGED <<request_q, running, control_q>>
          /\ response_q[g] \in Seq(Response) /\ response_q[g] # <<>>
          /\ response_q' = [response_q EXCEPT ![g] = Tail(response_q[g])]
      BY <2>3 DEF OnFinished, TakeResponse
    <3>2. Range(Tail(response_q[g])) \subseteq Range(response_q[g])
      BY <3>1, RangeOfTail
    <3> QED
      BY <1>4, <1>5, <1>6, <3>1, <3>2
  <2>4. CASE Evict
    <3>1. UNCHANGED <<request_q, running, response_q>>
      BY <2>4 DEF Evict
    <3>2. control_q'[k] = control_q[k] \/ k \in Victims
      BY <2>4 DEF Evict
    <3>3. k \in Victims => Preemptive
      BY DEF Victims
    <3> QED
      BY <1>4, <1>5, <1>6, <3>1, <3>2, <3>3
  <2>5. CASE \/ Client
             \/ \E j \in Jobs : Respond(j) \/ TimerFire(j)
             \/ Wake \/ (\E h \in Jobs : HoldBatch(h)) \/ FillDone \/ Age \/ Idle
             \/ UNCHANGED vars
    <3>1. UNCHANGED <<request_q, running, response_q, control_q>>
      BY <2>5 DEF Client, Generate, Reject, Cancel, Respond, TimerFire, Wake, HoldBatch,
                  FillDone, Age, Idle, vars, workerVars
    <3> QED
      BY <1>4, <1>5, <1>6, <3>1
  <2> QED
    BY <1>6, <2>1, <2>2, <2>3, <2>4, <2>5 DEF Next, DispatcherStep
<1> QED
  BY <1>3, <1>6

-----------------------------------------------------------------------------
(* What a step does to the life of a request *)

LEMMA AskedKept ==
  ASSUME Settled, [Next]_vars, NEW j \in Jobs, ~\E r \in Requests : Generate(j, r)
  PROVE  AskedFor(j)' = AskedFor(j) /\ (job'[j] = None <=> job[j] = None)
<1> USE DEF Settled
<1>1. CASE job[j] # None
  <2>1. SameIdentity(j)
    BY <1>1, JobsKeepIdentity
  <2> QED
    BY <1>1, <2>1 DEF AskedFor, SameIdentity, SameRequest
<1>2. CASE job[j] = None
  <2>1. ~Checkpointed(j)
    BY <1>2, CheckpointedJob DEF Checkpointed
  <2>2. job'[j] = None
    BY <1>2, <2>1, JobsAppear
  <2> QED
    BY <1>2, <2>2 DEF AskedFor
<1> QED
  BY <1>1, <1>2

LEMMA ProgressKept ==
  ASSUME Settled, [Next]_vars, NEW j \in Jobs, ~Checkpointed(j),
         ~\E r \in Requests : Generate(j, r)
  PROVE  Progress(j)' = Progress(j)
<1>1. CASE job[j] # None
  <2>1. Steady(j) /\ job'[j] # None
    BY <1>1, SteadyJobs, AskedKept
  <2> QED
    BY <1>1, <2>1 DEF Progress, Steady
<1>2. CASE job[j] = None
  BY <1>2, AskedKept DEF Progress
<1> QED
  BY <1>1, <1>2

LEMMA StatusIs ==
  ASSUME Settled, NEW j \in Jobs
  PROVE  /\ Status(j) = "none" <=> job[j] = None
         /\ Status(j) = "waiting" <=> j \in Queued
         /\ Status(j) = "running" <=> j \in pending \ Queued
<1>1. Queued \subseteq pending /\ (j \in pending => job[j] # None)
  BY DEF Settled, Placed, PendingPlaced, Typed, JobsExist
<1> HIDE DEF Queued
<1> QED
  BY <1>1 DEF Status

\* Nothing happens in the life of any request.
LEMMA LifeUnchanged ==
  ASSUME Settled, [Next]_vars, UNCHANGED <<pending, future, Queued>>,
         ~\E j \in Jobs, r \in Requests : Generate(j, r),
         ~\E g \in GPUs : OnPreempted(g)
  PROVE  UNCHANGED Lifecycle!lifecycleVars
<1> HIDE DEF Queued
<1>1. \A j \in Jobs : AskedFor(j)' = AskedFor(j)
  BY AskedKept
<1>2. \A j \in Jobs : Progress(j)' = Progress(j)
  BY ProgressKept DEF Checkpointed
<1>3. \A j \in Jobs : Status(j)' = Status(j)
  BY AskedKept DEF Status
<1> QED
  BY <1>1, <1>2, <1>3 DEF Lifecycle!lifecycleVars

LEMMA LifecycleNames ==
  /\ Lifecycle!Jobs = Jobs
  /\ Lifecycle!Priority = Priority
  /\ \A c : Lifecycle!Preemptible(c) = Preemptible(c)
BY DEF Lifecycle!Jobs, Jobs, Lifecycle!Priority, Priority, Lifecycle!Class, Class,
       Lifecycle!Preemptible, Preemptible

LEMMA LifecycleCardinality == \A S : Lifecycle!Cardinality(S) = Cardinality(S)
BY DEF Lifecycle!Cardinality, Cardinality

LEMMA LifecycleWith ==
  ASSUME Settled
  PROVE  /\ Lifecycle!With("none") = {j \in Jobs : job[j] = None}
         /\ Lifecycle!With("waiting") = Queued
         /\ Lifecycle!With("running") = pending \ Queued
<1>1. Queued \subseteq Jobs /\ pending \subseteq Jobs
  BY ToResumeFinite DEF Settled, Typed, TypeOK
<1> HIDE DEF Queued
<1> QED
  BY <1>1, LifecycleNames, StatusIs DEF Lifecycle!With

\* Admission accepts a request that was not there before.
LEMMA AcceptStep ==
  ASSUME Settled, Settled', [Next]_vars, NEW j \in Jobs, NEW r \in Requests, Generate(j, r)
  PROVE  j \in Lifecycle!With("none") /\ Lifecycle!Accept(j, r)
<1> USE DEF Settled
<1>1. /\ job[j] = None /\ r.queue \in Class
      /\ queues' = [queues EXCEPT ![r.queue] = Append(queues[r.queue], j)]
      /\ job' = [job EXCEPT ![j] = NewJob(r)]
      /\ future' = [future EXCEPT ![j] = "waiting"]
      /\ pending' = pending \cup {j}
  BY ConfigAssumption DEF Generate, Admit
<1>2. /\ job'[j] = NewJob(r) /\ NewJob(r) # None
      /\ \A k \in Jobs : k # j => job'[k] = job[k]
  <2>1. NewJob(r) \in Job
    BY ConfigAssumption DEF NewJob, Job, Tenant, Shape
  <2> QED
    BY <1>1, <2>1, NoneAssumption DEF Typed, TypeOK, SchedTypeOK
<1>3. Queued' = Queued \cup {j}
  <2>1. queues[r.queue] \in Seq(Jobs)
    BY <1>1 DEF Typed, TypeOK, SchedTypeOK
  <2>2. Range(Append(queues[r.queue], j)) = Range(queues[r.queue]) \cup {j}
    BY <2>1, RangeOfAppend
  <2>3. Queued' = (Queued \ Range(queues[r.queue])) \cup Range(Append(queues[r.queue], j))
    BY <1>1, QueuedAfter
  <2>4. Range(queues[r.queue]) \subseteq Queued
    BY <1>1 DEF Queued
  <2> QED
    BY <2>2, <2>3, <2>4
<1> HIDE DEF Queued
<1>4. AskedFor(j)' = [queue |-> r.queue, tenant |-> r.tenant, shape |-> r.shape, steps |-> r.steps]
      /\ \A k \in Jobs : k # j => AskedFor(k)' = AskedFor(k)
  BY <1>2 DEF AskedFor, NewJob
<1>5. Status(j)' = "waiting" /\ \A k \in Jobs : k # j => Status(k)' = Status(k)
  BY <1>1, <1>2, <1>3 DEF Status
<1>6. \A k \in Jobs : Progress(k)' = Progress(k)
  <2>1. \A k \in Jobs : k # j => Progress(k)' = Progress(k)
    BY <1>2 DEF Progress, StartIndex
  <2>2. Progress(j)' = 0 /\ Progress(j) = 0
    BY <1>1, <1>2 DEF Progress, StartIndex, NewJob
  <2> QED
    BY <2>1, <2>2
<1>7. j \in Lifecycle!With("none")
  BY <1>1, LifecycleWith
<1> QED
  BY <1>1, <1>4, <1>5, <1>6, <1>7 DEF Lifecycle!Accept

\* The first message of a finished job ends it and tells a caller that waits.
LEMMA EndStep ==
  ASSUME Settled, Settled', [Next]_vars, NEW g \in GPUs, OnFinished(g)
  PROVE  LET m == Head(response_q[g])
         IN  /\ m.request_id \in Lifecycle!With("running")
             /\ m.type \in {"result", "error"}
             /\ Lifecycle!End(m.request_id, m.type)
<1> USE DEF Settled
<1>0. PICK m, rid : m = Head(response_q[g]) /\ rid = m.request_id
  OBVIOUS
<1>1. /\ m.type # "preempted" /\ TakeResponse(g) /\ UNCHANGED <<job, queues>>
  BY <1>0 DEF OnFinished
<1>2. m.type \in {"result", "error"}
  <2>1. m \in Response
    BY <1>0, <1>1, TypedTakeResponse
  <2> QED
    BY <1>1, <2>1 DEF Response
<1>3. /\ rid \in pending /\ rid \notin Queued /\ pending' = pending \ {rid}
      /\ rid \in Jobs /\ job[rid] # None
  BY <1>0, PlacedOnFinished DEF Typed, TypeOK, JobsExist
<1>4. future' = [future EXCEPT ![rid] = IF future[rid] = "waiting" THEN m.type ELSE future[rid]]
  BY <1>0, <1>3 DEF OnFinished
<1>5. Queued' = Queued
  BY <1>1 DEF Queued
<1> HIDE DEF Queued
<1>6. /\ \A k \in Jobs : AskedFor(k)' = AskedFor(k) /\ Progress(k)' = Progress(k)
  BY <1>1 DEF AskedFor, Progress, StartIndex
<1>7. Status(rid)' = "ended" /\ \A k \in Jobs : k # rid => Status(k)' = Status(k)
  BY <1>1, <1>3, <1>5 DEF Status
<1>8. rid \in Lifecycle!With("running")
  BY <1>3, LifecycleWith
<1>9. Lifecycle!End(rid, m.type)
  BY <1>3, <1>4, <1>6, <1>7 DEF Lifecycle!End
<1> QED
  BY <1>0, <1>2, <1>8, <1>9

\* A checkpoint that arrives makes its job wait again, no earlier than it started.
LEMMA YieldStep ==
  ASSUME Settled, Settled', YieldTrue, [Next]_vars, NEW g \in GPUs, OnPreempted(g)
  PROVE  LET rid == Head(response_q[g]).request_id
         IN  rid \in Lifecycle!With("running") /\ Lifecycle!Yield(rid)
<1> USE DEF Settled
<1>0. PICK m, rid : m = Head(response_q[g]) /\ rid = m.request_id
  OBVIOUS
<1>1. /\ m \in Response /\ m.type = "preempted" /\ m \in Range(response_q[g])
      /\ rid \in Jobs /\ rid \in pending /\ job[rid] # None
      /\ job'[rid].resume_state = [latents |-> m.latents, step_index |-> m.step_index]
      /\ job'[rid].resume_state # None
      /\ \A k \in Jobs : k # rid => job'[k] = job[k]
  BY <1>0, CheckpointedJob
<1>2. rid \notin Queued /\ Queued' = Queued \cup {rid} /\ UNCHANGED <<pending, future>>
  BY <1>0, PlacedOnPreempted DEF OnPreempted, clientVars
<1> HIDE DEF Queued
<1>3. /\ Preemptive /\ Preemptible(job[rid].queue)
      /\ StartIndex(rid) <= m.step_index /\ m.step_index < job[rid].steps
  BY <1>0, <1>1 DEF YieldTrue, Yields, MessagesYield
<1>4. \A k \in Jobs : AskedFor(k)' = AskedFor(k)
  <2>1. ~\E r \in Requests, k \in Jobs : Generate(k, r)
    BY <1>2 DEF Generate, Typed, JobsExist
  <2> QED
    BY <2>1, AskedKept
<1>5. Progress(rid)' = m.step_index /\ \A k \in Jobs : k # rid => Progress(k)' = Progress(k)
  <2>1. job'[rid] # None
    BY <1>1, AskedKept, JobsKeepIdentity DEF SameIdentity
  <2> QED
    BY <1>1, <2>1 DEF Progress, StartIndex
<1>6. Status(rid)' = "waiting" /\ \A k \in Jobs : k # rid => Status(k)' = Status(k)
  <2>1. job'[rid] # None
    BY <1>1, JobsKeepIdentity DEF SameIdentity
  <2> QED
    BY <1>1, <1>2, <2>1 DEF Status
<1>7. AskedFor(rid).queue = job[rid].queue /\ AskedFor(rid).steps = job[rid].steps
      /\ Progress(rid) = StartIndex(rid)
  BY <1>1 DEF AskedFor, Progress
<1>8. m.step_index \in Progress(rid)..(AskedFor(rid).steps - 1)
  <2>1. m.step_index \in Nat /\ job[rid].steps \in Nat /\ StartIndex(rid) \in Nat
    <3>1. job[rid] \in Job
      BY <1>1 DEF Typed, TypeOK, SchedTypeOK
    <3> QED
      BY <1>1, <3>1 DEF Response, Job, StartIndex, ResumeState
  <2> QED
    BY <1>3, <1>7, <2>1
<1>9. rid \in Lifecycle!With("running")
  BY <1>1, <1>2, LifecycleWith
<1>10. Lifecycle!Yield(rid)
  <2>1. Lifecycle!Preemptible(AskedFor(rid).queue) /\ SCHED_POLICY = "priority_preempt"
    BY <1>3, <1>7, LifecycleNames DEF Preemptive
  <2>2. [j \in Jobs |-> Progress(j)]' = [[j \in Jobs |-> Progress(j)] EXCEPT ![rid] = m.step_index]
    BY <1>1, <1>5
  <2>3. [j \in Jobs |-> Status(j)]' = [[j \in Jobs |-> Status(j)] EXCEPT ![rid] = "waiting"]
    BY <1>1, <1>6
  <2>4. [j \in Jobs |-> AskedFor(j)]' = [j \in Jobs |-> AskedFor(j)]
    BY <1>4
  <2> QED
    BY <1>1, <1>2, <1>8, <2>1, <2>2, <2>3, <2>4 DEF Lifecycle!Yield
<1> QED
  BY <1>0, <1>9, <1>10

\* Nobody more important than the selected job waits, except under fifo.
LEMMA SelectedMayStart ==
  ASSUME Typed, NEW h \in Queued, Selected(h), SCHED_POLICY # "fifo", NEW k \in Queued
  PROVE  Priority[job[h].queue] <= Priority[job[k].queue]
<1> USE DEF Typed
<1>1. \A j \in {h, k} : /\ j \in Jobs /\ job[j].queue \in Class
                        /\ j \in Range(queues[job[j].queue])
  BY SelectedGroup
<1>2. \A c \in Class : Priority[c] \in 0..2 /\ (Priority[c] = 0 <=> HasDeadline(c))
  BY DEF Class, Priority, HasDeadline
<1>3. CASE SCHED_POLICY = "edf"
  <2>1. h = k \/ EdfBefore(h, k)
    BY <1>3, Zenon DEF Selected, IsEdfFirst
  <2>2. /\ Deadline(h) \in 1..(MaxJobs + 1) /\ Deadline(k) \in 1..(MaxJobs + 1)
        /\ ~HasDeadline(job[h].queue) => Deadline(h) = MaxJobs + 1
    BY <1>1, ConfigAssumption DEF Deadline, Jobs
  <2>3. CASE HasDeadline(job[h].queue)
    BY <1>1, <1>2, <2>3
  <2>4. CASE ~HasDeadline(job[h].queue)
    <3>1. ~(Deadline(h) < Deadline(k))
      BY <2>2, <2>4
    <3>2. \/ h = k
          \/ Priority[job[h].queue] < Priority[job[k].queue]
          \/ Priority[job[h].queue] = Priority[job[k].queue]
      BY <2>1, <3>1 DEF EdfBefore
    <3> QED
      BY <1>1, <1>2, <3>2
  <2> QED
    BY <2>3, <2>4
<1>4. CASE SCHED_POLICY # "edf"
  <2>1. IsPriorityHead(h)
    BY <1>4 DEF Selected
  <2>2. queues[job[k].queue] # <<>>
    BY <1>1 DEF Range
  <2>3. job[k].queue \notin MoreImportant(job[h].queue)
    BY <2>1, <2>2 DEF IsPriorityHead
  <2>4. ~(Priority[job[k].queue] < Priority[job[h].queue])
    BY <1>1, <2>3 DEF MoreImportant
  <2> QED
    BY <1>1, <1>2, <2>4
<1> QED
  BY <1>3, <1>4

\* A dispatch starts jobs that run together, at most one batch of them, and with
\* what the other GPUs have at most one batch each.
LEMMA StartStep ==
  ASSUME Settled, Settled', [Next]_vars, NEW h \in Jobs, NEW g \in GPUs, DispatchBatch(h, g)
  PROVE  /\ Range(GroupOf(h)) \in SUBSET Lifecycle!With("waiting")
         /\ Lifecycle!Start(Range(GroupOf(h)))
<1> USE DEF Settled
<1>0. PICK J : J = Range(GroupOf(h))
  OBVIOUS
<1>1. /\ h \in Queued /\ Selected(h) /\ UNCHANGED <<pending, future>>
  BY DEF DispatchBatch, clientVars
<1>2. J \subseteq Queued /\ Queued' = Queued \ J
  BY <1>0, PlacedDispatch
<1>3. /\ GroupOf(h) \in Seq(Jobs) /\ GroupOf(h) # <<>> /\ job[h] \in Job
      /\ h \in Range(queues[job[h].queue]) /\ job[h].queue \in Class
      /\ \A j \in J : j \in Jobs /\ job[j] # None /\ job[j].queue = job[h].queue
  BY <1>0, <1>1, SelectedGroup, NoneAssumption
<1>4. IsInjective(GroupOf(h)) /\ Len(GroupOf(h)) <= MAX_BATCH /\ h \in J
  BY <1>0, <1>3, GroupApartFromRest DEF Placed, QueuesOnce, Typed, TypeOK
<1>5. IsFiniteSet(J) /\ Cardinality(J) <= MAX_BATCH
  BY <1>0, <1>3, <1>4, LengthOfInjective
<1>6. Cardinality(J \cup (pending \ Queued)) <= NUM_GPUS * MAX_BATCH
  <2> DEFINE ids == [k \in GPUs |-> IF k = g THEN GroupOf(h) ELSE OwedIds(k)]
  <2>1. OwedIds(g) = <<>>
    BY <1>1, OwedDispatch
  <2>2. \A k \in GPUs : OwedIds(k) \in Seq(Jobs) /\ Len(OwedIds(k)) <= MAX_BATCH
    BY OwedTyped DEF Placed, OwedOnce
  <2>3. \A k \in GPUs : ids[k] = IF k = g THEN GroupOf(h) ELSE OwedIds(k)
    OBVIOUS
  <2> HIDE DEF ids, OwedIds, Queued
  <2>4. \A k \in GPUs : ids[k] \in Seq(Jobs) /\ Len(ids[k]) <= MAX_BATCH
    BY <1>3, <1>4, <2>2, <2>3
  <2>5. pending \ Queued = UNION {Range(OwedIds(k)) : k \in GPUs}
    BY DEF Placed, PendingPlaced, PlacesApart
  <2>6. Range(OwedIds(g)) = {}
    BY <2>1 DEF Range
  <2>7. J \cup (pending \ Queued) = UNION {Range(ids[k]) : k \in GPUs}
    BY <1>0, <2>3, <2>5, <2>6
  <2> QED
    BY <2>4, <2>7, HeldByAll
<1>7. \A j \in J : /\ job[j].shape = job[h].shape /\ job[j].steps = job[h].steps
                   /\ StartIndex(j) = StartIndex(h)
  BY <1>0, <1>3, GroupSharesKey DEF Typed, TypeOK
<1> HIDE DEF Queued
<1>8. ASSUME NEW j \in J PROVE Lifecycle!MayStart(j)
  <2>1. \A k \in Queued : k \in Jobs /\ job[k] # None
    BY ToResumeFinite
  <2>2. \A k \in Queued : AskedFor(k).queue = job[k].queue
    BY <2>1 DEF AskedFor
  <2>3. AskedFor(j).queue = job[h].queue /\ j \in Jobs
    BY <1>3, <1>8 DEF AskedFor
  <2>4. SCHED_POLICY = "fifo" \/ \A k \in Queued :
          Priority[job[h].queue] <= Priority[job[k].queue]
    BY <1>1, SelectedMayStart
  <2> QED
    BY <2>1, <2>2, <2>3, <2>4, LifecycleNames, LifecycleWith DEF Lifecycle!MayStart
<1>9. ASSUME NEW j \in J, NEW k \in J PROVE Lifecycle!RunTogether(j, k)
  <2>1. \A i \in J : /\ i \in Jobs
                     /\ AskedFor(i).queue = job[h].queue /\ AskedFor(i).shape = job[h].shape
                     /\ AskedFor(i).steps = job[h].steps /\ Progress(i) = StartIndex(h)
    BY <1>3, <1>7 DEF AskedFor, Progress
  <2> QED
    BY <1>9, <2>1 DEF Lifecycle!RunTogether
<1>10. ~\E k \in Jobs, r \in Requests : Generate(k, r)
  BY <1>1 DEF Generate, Typed, JobsExist
<1>11. \A k \in Jobs : AskedFor(k)' = AskedFor(k) /\ Progress(k)' = Progress(k)
  <2>1. ~\E i \in GPUs : OnPreempted(i)
    BY DEF OnPreempted, TakeResponse, LoopIdle, DispatchBatch
  <2> QED
    BY <1>10, <2>1, AskedKept, ProgressKept DEF Checkpointed
<1>12. \A k \in Jobs : Status(k)' = IF k \in J THEN "running" ELSE Status(k)
  <2>1. \A k \in Jobs : job'[k] = None <=> job[k] = None
    BY <1>10, AskedKept
  <2>2. J \subseteq pending /\ Queued \subseteq pending
    BY <1>2 DEF Placed, PendingPlaced
  <2> QED
    BY <1>1, <1>2, <1>3, <2>1, <2>2 DEF Status
<1>13. Lifecycle!Start(J)
  <2>1. [j \in Jobs |-> Status(j)]'
          = [j \in Jobs |-> IF j \in J THEN "running" ELSE [k \in Jobs |-> Status(k)][j]]
    BY <1>12
  <2>2. /\ [j \in Jobs |-> AskedFor(j)]' = [j \in Jobs |-> AskedFor(j)]
        /\ [j \in Jobs |-> Progress(j)]' = [j \in Jobs |-> Progress(j)]
    BY <1>11
  <2>3. Lifecycle!Cardinality(J) <= MAX_BATCH
    BY <1>5, LifecycleCardinality
  <2>4. Lifecycle!Cardinality(J \cup Lifecycle!With("running")) <= NUM_GPUS * MAX_BATCH
    <3>1. Lifecycle!Cardinality(J \cup (pending \ Queued)) <= NUM_GPUS * MAX_BATCH
      BY <1>6, LifecycleCardinality
    <3> QED
      BY <3>1, LifecycleWith
  <2>5. J # {} /\ Lifecycle!Jobs = Jobs
    BY <1>4, LifecycleNames
  <2>6. UNCHANGED future
    BY <1>1
  <2> QED
    BY <1>8, <1>9, <2>1, <2>2, <2>3, <2>4, <2>5, <2>6 DEF Lifecycle!Start
<1> QED
  BY <1>0, <1>2, <1>13, LifecycleWith

LEMMA RefinedStep ==
  ASSUME Settled, Settled', ProgressTrue, YieldTrue, [Next]_vars
  PROVE  [Lifecycle!LifecycleNext]_Lifecycle!lifecycleVars
<1> USE DEF Settled
<1>1. ASSUME NEW j \in Jobs, NEW r \in Requests, Generate(j, r)
      PROVE  Lifecycle!LifecycleNext
  BY <1>1, AcceptStep DEF Lifecycle!LifecycleNext
<1>2. ASSUME NEW h \in Jobs, NEW g \in GPUs, DispatchBatch(h, g)
      PROVE  Lifecycle!LifecycleNext
  BY <1>2, StartStep DEF Lifecycle!LifecycleNext
<1>3. ASSUME NEW g \in GPUs, OnPreempted(g)
      PROVE  Lifecycle!LifecycleNext
  BY <1>3, YieldStep DEF Lifecycle!LifecycleNext
<1>4. ASSUME NEW g \in GPUs, OnFinished(g)
      PROVE  Lifecycle!LifecycleNext
  BY <1>4, EndStep DEF Lifecycle!LifecycleNext
<1>5. ASSUME UNCHANGED <<schedVars, pending>>
      PROVE  UNCHANGED <<[j \in Jobs |-> AskedFor(j)], [j \in Jobs |-> Status(j)],
                         [j \in Jobs |-> Progress(j)]>>
  <2>1. Queued' = Queued /\ UNCHANGED <<job, pending>>
    BY <1>5 DEF schedVars, Queued
  <2> HIDE DEF Queued
  <2>2. \A j \in Jobs : /\ AskedFor(j)' = AskedFor(j) /\ Status(j)' = Status(j)
                        /\ Progress(j)' = Progress(j)
    BY <2>1 DEF AskedFor, Status, Progress, StartIndex
  <2> QED
    BY <2>2
<1>6. ASSUME NEW j \in Jobs, Respond(j)
      PROVE  Lifecycle!LifecycleNext
  <2>1. /\ UNCHANGED <<schedVars, pending>>
        /\ \/ future[j] = "result" /\ future' = [future EXCEPT ![j] = "answered"]
           \/ future[j] = "error" /\ future' = [future EXCEPT ![j] = "failed"]
    BY <1>6 DEF Respond
  <2>2. Lifecycle!Tell(j)
    BY <1>5, <2>1 DEF Lifecycle!Tell
  <2> QED
    BY <2>2, LifecycleNames DEF Lifecycle!LifecycleNext
<1>7. ASSUME NEW j \in Jobs, Cancel(j)
      PROVE  Lifecycle!LifecycleNext
  <2>1. /\ UNCHANGED <<schedVars, pending>>
        /\ future[j] \in {"waiting", "result", "error"}
        /\ future' = [future EXCEPT ![j] = "cancelled"]
    BY <1>7 DEF Cancel
  <2>2. Lifecycle!GoAway(j)
    BY <1>5, <2>1 DEF Lifecycle!GoAway
  <2> QED
    BY <2>2, LifecycleNames DEF Lifecycle!LifecycleNext
<1>8. CASE \E h \in Jobs : HoldBatch(h)
  <2>1. PICK h \in Jobs : HoldBatch(h)
    BY <1>8
  <2>2. Queued' = Queued /\ UNCHANGED <<pending, future>>
    BY <2>1, PlacedHoldBatch DEF HoldBatch, clientVars
  <2>3. ~\E j \in Jobs, r \in Requests : Generate(j, r)
    BY <2>2 DEF Generate, Typed, JobsExist
  <2>4. ~\E g \in GPUs : OnPreempted(g)
    BY <2>1 DEF HoldBatch, OnPreempted, TakeResponse, LoopIdle
  <2> QED
    BY <2>2, <2>3, <2>4, LifeUnchanged
<1>9. CASE Evict
  <2>1. Queued' = Queued /\ UNCHANGED <<pending, future>>
    BY <1>9 DEF Evict, clientVars, Queued
  <2>2. ~\E j \in Jobs, r \in Requests : Generate(j, r)
    BY <2>1 DEF Generate, Typed, JobsExist
  <2>3. ~\E g \in GPUs : OnPreempted(g)
    BY <1>9 DEF Evict, OnPreempted, TakeResponse, LoopIdle
  <2> QED
    BY <2>1, <2>2, <2>3, LifeUnchanged
<1>10. CASE \/ \E r \in Requests : Reject(r)
            \/ \E j \in Jobs : TimerFire(j)
            \/ Wake \/ FillDone \/ Age \/ Idle \/ UNCHANGED vars
            \/ \E g \in GPUs : (WorkerStep(g) \/ BatchError(g)) /\ UNCHANGED gatewayVars
  <2>1. UNCHANGED <<schedVars, pending, future>>
    BY <1>10 DEF Reject, TimerFire, Wake, FillDone, Age, Idle, vars, gatewayVars, clientVars
  <2> QED
    BY <1>5, <2>1 DEF Lifecycle!lifecycleVars
<1> QED
  BY <1>1, <1>2, <1>3, <1>4, <1>6, <1>7, <1>8, <1>9, <1>10 DEF Next, Client, DispatcherStep

\* The progress and the yielding of batches, for every behaviour of the gateway
\* and its workers: the step at which a batch starts and how far it has come are
\* those of its jobs, in every queue, worker and message.
THEOREM BatchesYieldTruly == Spec => [](ProgressTrue /\ YieldTrue)
<1>1. Init => ProgressTrue /\ YieldTrue
  BY DEF Init, SchedInit, WorkerInit, ProgressTrue, CheckpointsTrue, WorkTrue, SentTrue,
         RunTrue, MessagesTrue, YieldTrue, Yields, SentYields, RunYields, MessagesYield, Range
<1>2. Settled /\ ProgressTrue /\ YieldTrue /\ [Next]_vars => (ProgressTrue /\ YieldTrue)'
  BY ProgressNext, YieldNext
<1> QED
  BY SettledAlways, <1>1, <1>2, PTL DEF Spec

\* Every behaviour of gateway.py, the policies and the workers, whatever the
\* interleaving, is one that JobLifecycle allows: nobody starts while somebody
\* more important waits (except under fifo), a batch holds only jobs that can run
\* together and no more than fit, production never yields, a job that yields
\* keeps its progress, and it ends and is told of once.
THEOREM GatewayImplementsLifecycle == Spec => ImplementsLifecycle
<1>1. Init => Lifecycle!LifecycleInit
  <2> SUFFICES ASSUME Init PROVE Lifecycle!LifecycleInit
    OBVIOUS
  <2>1. \A j \in Jobs : job[j] = None /\ future = [k \in Jobs |-> "none"]
    BY DEF Init, SchedInit
  <2>2. Settled
    BY TypedInit, AccountingInit, PlacedInit DEF Settled
  <2>3. \A j \in Jobs : AskedFor(j) = None /\ Status(j) = "none" /\ Progress(j) = 0
    BY <2>1, <2>2, StatusIs DEF AskedFor, Progress
  <2> QED
    BY <2>1, <2>3, LifecycleNames DEF Lifecycle!LifecycleInit, Init
<1>2. Settled /\ Settled' /\ (ProgressTrue /\ YieldTrue) /\ [Next]_vars
        => [Lifecycle!LifecycleNext]_Lifecycle!lifecycleVars
  BY RefinedStep
<1> QED
  BY SettledAlways, BatchesYieldTruly, <1>1, <1>2, PTL
     DEF Spec, ImplementsLifecycle, Lifecycle!LifecycleSpec
=============================================================================
