--------------------------- MODULE LifespanProofs ---------------------------
(***************************************************************************)
(* What the death of a worker costs, for any number of GPUs and any set of *)
(* workers that may die at any moment.  To the gateway a dead worker is one *)
(* that is very slow, so with deaths and a stop it is still the gateway of *)
(* Spec and every safety property proved of that one holds.                *)
(***************************************************************************)
EXTENDS Lifespan, RefinementProofs

LEMMA LifespanStep ==
  ASSUME [LifespanNext]_allVars
  PROVE  [Next]_vars
<1>1. CASE UNCHANGED allVars
  BY <1>1 DEF allVars
<1>2. CASE ~stopping /\ Client /\ UNCHANGED exitVars
  BY <1>2 DEF Next
<1>3. CASE LoopRuns
  BY <1>3 DEF LoopRuns, Dispatch, Deliver, Next
<1>4. CASE Age /\ UNCHANGED exitVars
  BY <1>4 DEF Next
<1>5. CASE \E g \in GPUs : WorkerRuns(g)
  BY <1>5 DEF WorkerRuns, Next
<1>6. CASE Stop \/ DrainEnds \/ \E g \in GPUs : Crash(g) \/ Exit(g)
  BY <1>6 DEF Stop, DrainEnds, Crash, Exit
<1> QED
  BY <1>1, <1>2, <1>3, <1>4, <1>5, <1>6 DEF LifespanNext

\* Nothing in gateway.py tells a dead worker from a slow one, so deaths, lost
\* messages and a stop add no behaviour to the scheduler.
THEOREM DeathsAreDelays == LifespanSpec => Spec
<1>1. LifespanInit => Init
  BY DEF LifespanInit
<1>2. [LifespanNext]_allVars => [Next]_vars
  BY LifespanStep
<1> QED
  BY <1>1, <1>2, PTL DEF LifespanSpec, Spec

\* Whichever workers die, quotas stay those of the requests that have not ended,
\* queues stay bounded, the views show every request, checkpoints are resumed,
\* results are whole, the dispatcher is told, and each request's life is the one
\* JobLifecycle promises (gateway.py, the dispatcher and _on_worker_response).
THEOREM PromisesOutliveWorkers ==
  LifespanSpec =>
    /\ [](QuotaExact /\ DepthBound /\ ViewsCover /\ PreemptionLedger)
    /\ [](ResultComplete /\ StampedWhenAnswered /\ NoLostWakeup)
    /\ ImplementsLifecycle
BY DeathsAreDelays, QuotaAlwaysExact, DepthAlwaysBounded, ViewsAlwaysCover, LedgerBalances,
   ResultsAreComplete, AnswersAreStamped, WakeupNeverLost, GatewayImplementsLifecycle, PTL

-----------------------------------------------------------------------------
(* The dead *)

\* Only the dead have messages that will not arrive, and those are some of the
\* ones the gateway has not handled.
LifeTrue ==
  /\ gone \subseteq GPUs
  /\ unsent \in [GPUs -> Nat]
  /\ \A g \in GPUs : unsent[g] <= Len(response_q[g])
  /\ \A g \in GPUs \ gone : unsent[g] = 0

LEMMA LifeInit == LifespanInit => LifeTrue
BY DEF LifespanInit, LifeTrue, Init, WorkerInit

\* What a message or a worker's step leaves of the messages.
LEMMA MessagesTaken ==
  ASSUME Typed, NEW g \in GPUs, TakeResponse(g)
  PROVE  /\ Len(response_q[g]) \in Nat
         /\ Len(response_q'[g]) = Len(response_q[g]) - 1
         /\ \A k \in GPUs : k # g => response_q'[k] = response_q[k]
<1>1. response_q \in [GPUs -> Seq(Response)] /\ response_q[g] # <<>>
  BY DEF TakeResponse, Typed, TypeOK, WorkerTypeOK
<1>2. response_q' = [response_q EXCEPT ![g] = Tail(response_q[g])]
  BY DEF TakeResponse
<1>3. response_q[g] \in Seq(Response)
  BY <1>1
<1>4. Len(Tail(response_q[g])) = Len(response_q[g]) - 1 /\ Len(response_q[g]) \in Nat
  BY <1>1, <1>3
<1> QED
  BY <1>1, <1>2, <1>4

LEMMA MessagesOfWorker ==
  ASSUME Typed, NEW g \in GPUs, WorkerStep(g) \/ BatchError(g)
  PROVE  \A k \in GPUs : k # g => response_q'[k] = response_q[k]
<1>1. response_q \in [GPUs -> Seq(Response)]
  BY DEF Typed, TypeOK, WorkerTypeOK
<1>2. UNCHANGED response_q \/ \E msgs : Answer(g, msgs)
  BY DEF WorkerStep, StartBatch, PreemptBatch, Denoise, FinishBatch, BatchError
<1> QED
  BY <1>1, <1>2 DEF Answer

LEMMA LifeNext ==
  ASSUME LifeTrue, Typed, Typed', [LifespanNext]_allVars
  PROVE  LifeTrue'
<1>1. \A g \in GPUs : Len(response_q[g]) \in Nat /\ Len(response_q'[g]) \in Nat
  BY DEF Typed, TypeOK, WorkerTypeOK
<1>2. CASE UNCHANGED <<response_q, unsent>> /\ gone \subseteq gone' /\ gone' \subseteq GPUs
  BY <1>2 DEF LifeTrue
<1>3. ASSUME NEW g \in GPUs, Crash(g)
      PROVE  LifeTrue'
  <2>1. PICK n \in 0..Len(response_q[g]) : unsent' = [unsent EXCEPT ![g] = n]
    BY <1>3 DEF Crash
  <2>2. UNCHANGED response_q /\ gone' = gone \cup {g}
    BY <1>3 DEF Crash, vars, workerVars
  <2>3. n \in Nat /\ n <= Len(response_q[g])
    BY <1>1
  <2> QED
    BY <2>1, <2>2, <2>3 DEF LifeTrue
<1>4. ASSUME NEW g \in GPUs, Deliver(g)
      PROVE  LifeTrue'
  <2>1. UNCHANGED <<gone, unsent>> /\ Len(response_q[g]) > unsent[g] /\ TakeResponse(g)
    BY <1>4 DEF Deliver, exitVars, OnPreempted, OnFinished
  <2>2. /\ Len(response_q'[g]) = Len(response_q[g]) - 1
        /\ \A k \in GPUs : k # g => response_q'[k] = response_q[k]
    BY <2>1, MessagesTaken
  <2>3. ASSUME NEW k \in GPUs PROVE unsent[k] <= Len(response_q'[k])
    <3>1. CASE k = g
      <4>1. PICK a \in Nat, b \in Nat : a = Len(response_q[g]) /\ b = unsent[g]
        BY <1>1 DEF LifeTrue
      <4> QED
        BY <2>1, <2>2, <3>1, <4>1
    <3>2. CASE k # g
      BY <2>2, <3>2 DEF LifeTrue
    <3> QED
      BY <3>1, <3>2
  <2> QED
    BY <2>1, <2>3 DEF LifeTrue
<1>5. ASSUME NEW g \in GPUs, WorkerRuns(g)
      PROVE  LifeTrue'
  <2>1. UNCHANGED <<gone, unsent>> /\ unsent[g] = 0
    BY <1>5 DEF WorkerRuns, exitVars, LifeTrue
  <2>2. \A k \in GPUs : k # g => response_q'[k] = response_q[k]
    BY <1>5, MessagesOfWorker DEF WorkerRuns
  <2>3. ASSUME NEW k \in GPUs PROVE unsent[k] <= Len(response_q'[k])
    <3>1. CASE k = g
      BY <1>1, <2>1, <3>1
    <3>2. CASE k # g
      BY <2>2, <3>2 DEF LifeTrue
    <3> QED
      BY <3>1, <3>2
  <2> QED
    BY <2>1, <2>3 DEF LifeTrue
<1>6. CASE UNCHANGED allVars \/ Stop \/ DrainEnds \/ \E g \in GPUs : Exit(g)
  <2>1. UNCHANGED <<response_q, unsent>> /\ gone \subseteq gone' /\ gone' \subseteq GPUs
    BY <1>6 DEF allVars, vars, workerVars, exitVars, Stop, DrainEnds, Exit, LifeTrue
  <2> QED
    BY <1>2, <2>1
<1>7. CASE \/ Client /\ UNCHANGED exitVars
           \/ Dispatch
           \/ \E j \in Jobs : (Respond(j) \/ TimerFire(j)) /\ UNCHANGED exitVars
           \/ Age /\ UNCHANGED exitVars
  <2>1. UNCHANGED response_q
    BY <1>7 DEF Client, Generate, Reject, Cancel, Dispatch, DispatcherStep, Wake, DispatchBatch,
                HoldBatch, FillDone, Evict, Respond, TimerFire, Age, workerVars
  <2>2. UNCHANGED <<gone, unsent>>
    BY <1>7 DEF Dispatch, exitVars
  <2> QED
    BY <1>2, <2>1, <2>2 DEF LifeTrue
<1> QED
  BY <1>3, <1>4, <1>5, <1>6, <1>7 DEF LifespanNext, LoopRuns

LEMMA LifeAlways == LifespanSpec => [](Settled /\ LifeTrue)
<1>1. Settled /\ Settled' /\ LifeTrue /\ [LifespanNext]_allVars => LifeTrue'
  BY LifeNext DEF Settled
<1> QED
  BY <1>1, LifeInit, DeathsAreDelays, SettledAlways, PTL DEF LifespanSpec

-----------------------------------------------------------------------------
(* Lost capacity *)

\* A dead worker still had something to do or to say.
Unfinished(g) == request_q[g] # <<>> \/ running[g] # None \/ unsent[g] > 0

\* No GPU whose worker died before the last message of its batch arrived is ever
\* taken for free again, nor one that was given a batch after its worker had died
\* idle (busy and remaining, _on_worker_response and the fill loop).
THEOREM UnfinishedStaysBusy ==
  LifespanSpec =>
    /\ [](\A g \in gone : Unfinished(g) => busy[g] # None)
    /\ [][\A g \in gone : Unfinished(g) => Unfinished(g)']_allVars
<1>1. ASSUME Settled, LifeTrue, NEW g \in gone, Unfinished(g)
      PROVE  busy[g] # None
  <2>1. g \in GPUs /\ unsent[g] \in Nat /\ unsent[g] <= Len(response_q[g])
    BY <1>1 DEF LifeTrue
  <2>2. CASE unsent[g] > 0
    <3>1. response_q[g] # <<>>
      <4>1. Len(<<>>) = 0
        OBVIOUS
      <4>2. PICK n \in Nat : n = unsent[g]
        BY <2>1
      <4> QED
        BY <2>1, <2>2, <4>1, <4>2
    <3> QED
      BY <1>1, <2>1, <3>1 DEF Settled, GroupAccounting, Unused
  <2> QED
    BY <1>1, <2>1, <2>2 DEF Unfinished, Settled, GroupAccounting, Unused
<1>2. ASSUME Settled, LifeTrue, [LifespanNext]_allVars, NEW g \in gone, Unfinished(g)
      PROVE  Unfinished(g)'
  <2>1. g \in GPUs
    BY <1>2 DEF LifeTrue
  <2>2. CASE UNCHANGED <<request_q, running, unsent>>
    BY <1>2, <2>2 DEF Unfinished
  <2>3. ASSUME NEW h \in Jobs, NEW k \in GPUs, DispatchBatch(h, k), UNCHANGED exitVars
        PROVE  Unfinished(g)'
    <3>1. UNCHANGED <<running, unsent>>
      BY <2>3 DEF DispatchBatch, exitVars
    <3>2. request_q[g] # <<>> => request_q'[g] # <<>>
      <4>1. request_q \in [GPUs -> Seq(Batch)]
        BY <1>2 DEF Settled, Typed, TypeOK, WorkerTypeOK
      <4>2. request_q' = [request_q EXCEPT ![k] = Append(request_q[k], NewBatch(h))]
        BY <2>3 DEF DispatchBatch
      <4>3. busy[k] = None
        BY <2>3 DEF DispatchBatch, LeastUtilised, Free
      <4>4. request_q[k] = <<>>
        BY <1>2, <2>3, <4>3 DEF Settled, GroupAccounting, Unused
      <4> QED
        BY <2>1, <4>1, <4>2, <4>4
    <3> QED
      BY <1>2, <3>1, <3>2 DEF Unfinished
  <2>4. ASSUME NEW k \in GPUs, WorkerRuns(k)
        PROVE  Unfinished(g)'
    <3>1. k # g /\ UNCHANGED unsent /\ (WorkerStep(k) \/ BatchError(k))
      BY <1>2, <2>4 DEF WorkerRuns, exitVars
    <3>2. request_q'[g] = request_q[g] /\ running'[g] = running[g]
      <4>1. request_q \in [GPUs -> Seq(Batch)] /\ running \in [GPUs -> Running \cup {None}]
        BY <1>2 DEF Settled, Typed, TypeOK, WorkerTypeOK
      <4> QED
        BY <2>1, <3>1, <4>1 DEF WorkerStep, StartBatch, PreemptBatch, Denoise, FinishBatch,
                                BatchError, Answer
    <3> QED
      BY <1>2, <3>1, <3>2 DEF Unfinished
  <2>5. ASSUME NEW k \in GPUs, Crash(k)
        PROVE  Unfinished(g)'
    <3>1. k # g /\ UNCHANGED <<request_q, running>>
      BY <1>2, <2>5 DEF Crash, vars, workerVars
    <3>2. unsent'[g] = unsent[g]
      BY <1>2, <2>1, <2>5, <3>1 DEF Crash, LifeTrue
    <3> QED
      BY <1>2, <3>1, <3>2 DEF Unfinished
  <2>6. CASE \E k \in GPUs : Deliver(k)
    <3>1. UNCHANGED <<request_q, running, unsent>>
      BY <2>6 DEF Deliver, OnPreempted, OnFinished, TakeResponse, exitVars
    <3> QED
      BY <2>2, <3>1
  <2>7. CASE UNCHANGED allVars \/ Stop \/ DrainEnds \/ \E k \in GPUs : Exit(k)
    <3>1. UNCHANGED <<request_q, running, unsent>>
      BY <2>7 DEF allVars, vars, workerVars, exitVars, Stop, DrainEnds, Exit
    <3> QED
      BY <2>2, <3>1
  <2>8. CASE /\ \/ Client
                \/ \E j \in Jobs : Respond(j) \/ TimerFire(j) \/ HoldBatch(j)
                \/ Wake \/ FillDone \/ Evict \/ Age
             /\ UNCHANGED exitVars
    <3>1. UNCHANGED <<request_q, running, unsent>>
      BY <2>8 DEF Client, Generate, Reject, Cancel, Wake, HoldBatch, FillDone, Evict, Respond,
                  TimerFire, Age, workerVars, exitVars
    <3> QED
      BY <2>2, <3>1
  <2> QED
    BY <1>2, <2>3, <2>4, <2>5, <2>6, <2>7, <2>8
       DEF LifespanNext, LoopRuns, Dispatch, DispatcherStep
<1>3. Settled /\ LifeTrue => \A g \in gone : Unfinished(g) => busy[g] # None
  BY <1>1
<1>4. Settled /\ LifeTrue /\ [LifespanNext]_allVars =>
        [\A g \in gone : Unfinished(g) => Unfinished(g)']_allVars
  BY <1>2
<1> QED
  BY <1>3, <1>4, LifeAlways, PTL DEF LifespanSpec

-----------------------------------------------------------------------------
(* Lost requests *)

\* Of what a GPU owes, its worker's death strands at most everything.
LEMMA StrandedIsOwed ==
  ASSUME Settled, LifeTrue, NEW j \in Stranded
  PROVE  \E g \in gone : busy[g] # None /\ j \in busy[g].jobs /\ j \in Range(OwedIds(g))
<1>1. /\ j \in pending /\ j \notin Queued
      /\ \A g \in GPUs \ gone : j \notin Outstanding(g)
  BY DEF Stranded
<1>2. \A g \in GPUs : Outstanding(g) = Range(OwedIds(g))
  BY OutstandingIsOwed DEF Settled
<1>3. PICK g \in GPUs : j \in Range(OwedIds(g))
  <2> HIDE DEF OwedIds, Queued
  <2> QED
    BY <1>1 DEF Settled, Placed, PendingPlaced
<1>4. g \in gone /\ j \in Outstanding(g)
  BY <1>1, <1>2, <1>3
<1>5. busy[g] # None
  <2> SUFFICES ASSUME busy[g] = None PROVE FALSE
    OBVIOUS
  <2>1. Unused(g)
    BY DEF Settled, GroupAccounting
  <2> QED
    BY <1>4, <2>1 DEF Unused, Outstanding, RunningIds, AnsweringIds, Range
<1>6. j \in busy[g].jobs
  <2>1. CASE Sent(g)
    <3>1. request_q[g] \in Seq(Batch) /\ Len(request_q[g]) = 1
      BY <2>1 DEF Sent, Settled, Typed, TypeOK, WorkerTypeOK
    <3>2. DOMAIN request_q[g] = {1} /\ Head(request_q[g]) = request_q[g][1]
      BY <3>1
    <3>3. Range(request_q[g]) = {Head(request_q[g])}
      BY <3>2 DEF Range
    <3>4. RunningIds(g) = {} /\ AnsweringIds(g) = {}
      BY <2>1 DEF Sent, RunningIds, AnsweringIds, Range
    <3>5. j \in BatchIds(Head(request_q[g]))
      BY <1>4, <3>3, <3>4 DEF Outstanding
    <3> QED
      BY <2>1, <3>5 DEF Sent, Describes
  <2>2. CASE Executing(g)
    <3>1. j \in BatchIds(running[g].batch)
      BY <1>4, <2>2 DEF Executing, Outstanding, RunningIds, AnsweringIds, Range
    <3> QED
      BY <2>2, <3>1 DEF Executing, Describes
  <2>3. CASE Answering(g)
    BY <1>4, <2>3 DEF Answering, Outstanding, RunningIds, Range
  <2> QED
    BY <1>5, <2>1, <2>2, <2>3 DEF Settled, GroupAccounting
<1> QED
  BY <1>3, <1>4, <1>5, <1>6

\* A worker's death takes at most the batch it was given, whenever and in whatever
\* state it dies, and even if the dispatcher goes on to give a batch to a worker
\* that died idle.
THEOREM LossAlwaysBounded == LifespanSpec => []LossBounded
<1>1. Settled /\ LifeTrue => LossBounded
  <2> SUFFICES ASSUME Settled, LifeTrue PROVE LossBounded
    OBVIOUS
  <2> DEFINE held == UNION {Range(OwedIds(g)) : g \in gone}
  <2>1. \A j \in Stranded :
          \E g \in gone : busy[g] # None /\ j \in busy[g].jobs /\ j \in Range(OwedIds(g))
    BY StrandedIsOwed
  <2>2. Stranded \subseteq UNION {busy[g].jobs : g \in {h \in gone : busy[h] # None}}
    <3> HIDE DEF Stranded, OwedIds
    <3> QED
      BY <2>1
  <2>3. Stranded \subseteq held
    <3> HIDE DEF Stranded, OwedIds
    <3> QED
      BY <2>1
  <2>4. /\ IsFiniteSet(held) /\ Cardinality(held) \in Nat /\ Cardinality(gone) \in Nat
        /\ Cardinality(held) <= Cardinality(gone) * MAX_BATCH
    <3> DEFINE ids == [g \in gone |-> OwedIds(g)]
    <3>1. gone \in SUBSET GPUs
      BY DEF LifeTrue
    <3>2. \A g \in gone : OwedIds(g) \in Seq(Jobs) /\ Len(OwedIds(g)) <= MAX_BATCH
      BY <3>1, OwedTyped DEF Settled, Placed, OwedOnce
    <3>3. \A g \in gone : ids[g] = OwedIds(g)
      OBVIOUS
    <3>4. {Range(ids[g]) : g \in gone} = {Range(OwedIds(g)) : g \in gone}
      BY <3>3
    <3> HIDE DEF ids, OwedIds
    <3>5. \A g \in gone : ids[g] \in Seq(Jobs) /\ Len(ids[g]) <= MAX_BATCH
      BY <3>2, <3>3
    <3> QED
      BY <3>1, <3>4, <3>5, HeldBySome
  <2> HIDE DEF held, Stranded
  <2>5. Cardinality(Stranded) \in Nat /\ Cardinality(Stranded) <= Cardinality(held)
    BY <2>3, <2>4, FS_Subset, FS_CardinalityType
  <2>6. Cardinality(Stranded) <= MAX_BATCH * Cardinality(gone)
    <3>1. PICK s \in Nat, h \in Nat, n \in Nat, b \in Nat :
            s = Cardinality(Stranded) /\ h = Cardinality(held) /\ n = Cardinality(gone)
            /\ b = MAX_BATCH
      BY <2>4, <2>5, ConfigAssumption
    <3>2. s <= h /\ h <= n * b
      BY <2>4, <2>5, <3>1
    <3>3. n * b = b * n /\ n * b \in Nat
      BY SMT
    <3>4. s <= b * n
      BY <3>2, <3>3
    <3> QED
      BY <3>1, <3>4
  <2> QED
    BY <2>2, <2>6 DEF LossBounded
<1> QED
  BY <1>1, LifeAlways, PTL
=============================================================================
