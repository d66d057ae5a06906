---------------------------- MODULE PolicyProofs ----------------------------
(***************************************************************************)
(* What a policy does to the jobs: the order in which one that never       *)
(* preempts lets them start, and the evictions of one that does while a    *)
(* batch holds one job (MAX_BATCH = 1), which is where the counting in     *)
(* Evict is exact: which GPUs are told to stop, how many at a time, and    *)
(* how many jobs are sent back in all.                                     *)
(***************************************************************************)
EXTENDS Ordering, RefinementProofs

-----------------------------------------------------------------------------
(* Queues in order *)

Increasing(q) == \A m, n \in DOMAIN q : m < n => q[m] < q[n]

\* A queue with its oldest job in front, and the others in order of arrival but
\* for those at the positions M: a held group goes back in front with its mates.
Orderly(q, M) ==
  q # <<>> =>
    /\ \A n \in DOMAIN q : Head(q) <= q[n]
    /\ \A m, n \in DOMAIN q \ ({1} \cup M) : m < n => q[m] < q[n]

InOrder(c) == Orderly(queues[c], MatePositions(Head(queues[c])))

QueuesInOrder == \A c \in Class : InOrder(c)

\* Ids are handed out in order of arrival.
ArrivedInOrder == \A j \in Jobs : job[j] # None => \A k \in 1..(j - 1) : job[k] # None

LEMMA IncreasingIsOrderly ==
  ASSUME NEW q \in Seq(Jobs), Increasing(q), NEW M
  PROVE  Orderly(q, M)
<1>1. ASSUME q # <<>> PROVE \A n \in DOMAIN q : Head(q) <= q[n]
  <2>1. DOMAIN q = 1..Len(q) /\ Len(q) \in Nat \ {0} /\ Head(q) = q[1]
    BY <1>1, EmptySeq, LenProperties
  <2>2. \A n \in DOMAIN q : q[n] \in Jobs
    BY <2>1, ElementOfSeq
  <2>3. \A n \in DOMAIN q : q[n] \in Int
    BY <2>2 DEF Jobs
  <2> QED
    BY <2>1, <2>3 DEF Increasing
<1>2. \A m, n \in DOMAIN q \ ({1} \cup M) : m < n => q[m] < q[n]
  BY DEF Increasing
<1> QED
  BY <1>1, <1>2 DEF Orderly

\* Taking the front and its mates leaves a queue in order.
LEMMA RestIncreasing ==
  ASSUME Typed, NEW h \in Jobs, job[h] # None, InOrder(job[h].queue),
         queues[job[h].queue] # <<>>, h = Head(queues[job[h].queue])
  PROVE  Increasing(RestOf(h))
<1> DEFINE q == queues[job[h].queue]
           M == MatePositions(h)
           R == {i \in DOMAIN q : q[i] # h} \ M
<1>1. job[h] \in Job
  BY DEF Typed, TypeOK, SchedTypeOK
<1>2. q \in Seq(Jobs) /\ DOMAIN q = 1..Len(q) /\ q[1] = h
  BY <1>1, EmptySeq DEF Typed, TypeOK, SchedTypeOK, Job
<1>3. R \subseteq 1..Len(q) /\ R \subseteq DOMAIN q \ ({1} \cup M)
  BY <1>2
<1>4. \A m, n \in DOMAIN q \ ({1} \cup M) : m < n => q[m] < q[n]
  BY DEF InOrder, Orderly
<1>5. RestOf(h) = AtPositions(q, R)
  BY DEF RestOf
<1> HIDE DEF q, M, R
<1>6. \A m, n \in DOMAIN AtPositions(q, R) : m < n =>
        \E i, k \in R : i < k /\ AtPositions(q, R)[m] = q[i] /\ AtPositions(q, R)[n] = q[k]
  <2>1. R \in SUBSET (1..Len(q))
    BY <1>3
  <2> QED
    BY <1>2, <2>1, AtPositionsInOrder, Zenon
<1> QED
  BY <1>3, <1>4, <1>5, <1>6 DEF Increasing

-----------------------------------------------------------------------------
(* What a step does to the mates of a job *)

\* A job stays in its class and has the mates it had.
KeysSame ==
  \A k \in Jobs : job[k] # None =>
    /\ job'[k] # None /\ job'[k].queue = job[k].queue
    /\ BatchKey(k)' = BatchKey(k)

\* Without preemption no worker hands a job back.
LEMMA NobodyYields ==
  ASSUME Typed, YieldTrue, SCHED_POLICY # "priority_preempt"
  PROVE  \A g \in GPUs : ~OnPreempted(g)
<1> SUFFICES ASSUME NEW g \in GPUs, OnPreempted(g) PROVE FALSE
  OBVIOUS
<1>1. response_q[g] \in Seq(Response) /\ response_q[g] # <<>>
      /\ Head(response_q[g]).type = "preempted"
  BY DEF OnPreempted, TakeResponse, Typed, TypeOK, WorkerTypeOK
<1>2. Head(response_q[g]) \in Range(response_q[g])
  BY <1>1, RangeOfTail
<1> QED
  BY <1>1, <1>2 DEF YieldTrue, Yields, MessagesYield, Preemptive

LEMMA KeysKept ==
  ASSUME Typed, [Next]_vars, \A g \in GPUs : ~OnPreempted(g)
  PROVE  KeysSame
<1> SUFFICES ASSUME NEW k \in Jobs, job[k] # None
             PROVE  /\ job'[k] # None /\ job'[k].queue = job[k].queue
                    /\ BatchKey(k)' = BatchKey(k)
  BY DEF KeysSame
<1>1. ~Checkpointed(k)
  BY DEF Checkpointed
<1>2. SameProgress(k)
  BY <1>1, JobsKeepProgress
<1>3. SameIdentity(k)
  BY JobsKeepIdentity
<1> QED
  BY <1>2, <1>3 DEF SameProgress, SameIdentity, SameRequest, BatchKey, StartIndex

\* The mates of a job in a queue that a step leaves alone.
LEMMA InOrderSame ==
  ASSUME Typed, KeysSame, NEW c \in Class, queues'[c] = queues[c], InOrder(c)
  PROVE  InOrder(c)'
<1>1. CASE queues[c] = <<>>
  BY <1>1 DEF InOrder, Orderly
<1>2. CASE queues[c] # <<>>
  <2>1. queues[c] \in Seq(Jobs)
    BY DEF Typed, TypeOK, SchedTypeOK
  <2>2. PICK h \in Jobs : h = Head(queues[c]) /\ h \in Range(queues[c])
    BY <1>2, <2>1, RangeOfTail
  <2>3. \A j \in Range(queues[c]) : j \in Jobs /\ job[j] # None /\ job[j].queue = c
    BY <2>1, RangeOfSeq DEF Typed, JobsExist
  <2>4. \A j \in Range(queues[c]) : BatchKey(j)' = BatchKey(j) /\ job'[j].queue = c
    BY <2>3 DEF KeysSame
  <2>5. MatchingPositions(h)' = MatchingPositions(h)
    <3>1. \A i \in DOMAIN queues[c] : queues[c][i] \in Range(queues[c])
      BY DEF Range
    <3>2. \A i \in DOMAIN queues[c] :
            BatchKey(queues[c][i])' = BatchKey(h)' <=> BatchKey(queues[c][i]) = BatchKey(h)
      BY <2>2, <2>4, <3>1
    <3> HIDE DEF BatchKey
    <3> QED
      BY <2>2, <2>3, <2>4, <3>2 DEF MatchingPositions
  <2>6. MatePositions(h)' = MatePositions(h)
    BY <2>5 DEF MatePositions
  <2> QED
    BY <2>2, <2>6 DEF InOrder
<1> QED
  BY <1>1, <1>2

-----------------------------------------------------------------------------
(* The steps that change a queue *)

\* An arrival goes to the end, and may become a mate of the front.
LEMMA InOrderAppend ==
  ASSUME Typed, KeysSame, NEW c \in Class, InOrder(c), NEW j \in Jobs, job[j] = None,
         \A k \in Jobs : job[k] # None => k < j,
         job'[j] # None, job'[j].queue = c, queues'[c] = Append(queues[c], j)
  PROVE  InOrder(c)'
<1>1. /\ queues[c] \in Seq(Jobs) /\ Len(queues[c]) \in Nat
      /\ DOMAIN queues[c] = 1..Len(queues[c])
      /\ queues'[c] \in Seq(Jobs)
      /\ DOMAIN queues'[c] = 1..(Len(queues[c]) + 1)
      /\ \A i \in 1..Len(queues[c]) : queues'[c][i] = queues[c][i]
      /\ queues'[c][Len(queues[c]) + 1] = j
  BY DEF Typed, TypeOK, SchedTypeOK
<1> DEFINE n == Len(queues[c])
<1>2. \A i \in 1..n : /\ queues[c][i] \in Jobs /\ job[queues[c][i]] # None
                      /\ job[queues[c][i]].queue = c /\ queues[c][i] < j
  <2> SUFFICES ASSUME NEW i \in 1..n
               PROVE  /\ queues[c][i] \in Jobs /\ job[queues[c][i]] # None
                      /\ job[queues[c][i]].queue = c
    BY Zenon
  <2>1. queues[c][i] \in Jobs /\ queues[c][i] \in Range(queues[c])
    BY <1>1, ElementOfSeq DEF Range
  <2> QED
    BY <2>1 DEF Typed, JobsExist
<1>3. CASE queues[c] = <<>>
  <2>1. Increasing(queues'[c])
    BY <1>1, <1>3 DEF Increasing
  <2> QED
    BY <1>1, <2>1, IncreasingIsOrderly DEF InOrder
<1>4. CASE queues[c] # <<>>
  <2>1. n \in Nat \ {0} /\ Head(queues[c]) = queues[c][1] /\ Head(queues'[c]) = queues[c][1]
    BY <1>1, <1>4, EmptySeq
  <2>2. PICK h \in Jobs : h = Head(queues[c])
    BY <1>2, <2>1
  <2>3. job[h] # None /\ job[h].queue = c /\ job'[h].queue = c /\ h < j
        /\ BatchKey(h)' = BatchKey(h)
    BY <1>2, <2>1, <2>2 DEF KeysSame
  <2>4. /\ MatchingPositions(h) = {i \in 1..n : queues[c][i] # h /\ BatchKey(queues[c][i]) = BatchKey(h)}
        /\ MatchingPositions(h)' =
             {i \in 1..(n + 1) : queues'[c][i] # h /\ BatchKey(queues[c][i])' = BatchKey(h)'}
    BY <1>1, <2>3 DEF MatchingPositions
  <2>5. \A i \in 1..n : i \in MatchingPositions(h)' <=> i \in MatchingPositions(h)
    <3> SUFFICES ASSUME NEW i \in 1..n
                 PROVE  i \in MatchingPositions(h)' <=> i \in MatchingPositions(h)
      OBVIOUS
    <3>1. BatchKey(queues[c][i])' = BatchKey(queues[c][i])
      <4>1. PICK k \in Jobs : k = queues[c][i]
        BY <1>2
      <4>2. queues'[c][i] = k
        BY <1>1, <4>1
      <4>3. BatchKey(k)' = BatchKey(k)
        BY <1>2, <4>1 DEF KeysSame
      <4> QED
        BY <4>1, <4>2, <4>3 DEF BatchKey, StartIndex
    <3> HIDE DEF BatchKey
    <3> QED
      BY <1>1, <2>3, <2>4, <3>1
  <2>6. \A i \in 1..n : i \in MatePositions(h)' <=> i \in MatePositions(h)
    <3> SUFFICES ASSUME NEW i \in 1..n
                 PROVE  i \in MatePositions(h)' <=> i \in MatePositions(h)
      OBVIOUS
    <3>1. MatchingPositions(h) \subseteq 1..n /\ MatchingPositions(h)' \subseteq 1..(n + 1)
      BY <2>4
    <3>2. {k \in MatchingPositions(h)' : k < i} = {k \in MatchingPositions(h) : k < i}
      <4>1. \A k : k \in MatchingPositions(h)' /\ k < i => k \in 1..n
        BY <1>1, <3>1
      <4> HIDE DEF n
      <4> QED
        BY <2>5, <3>1, <4>1
    <3> QED
      BY <2>5, <3>2 DEF MatePositions
  <2>7. /\ \A i \in 1..n : h <= queues[c][i]
        /\ \A i, k \in (1..n) \ ({1} \cup MatePositions(h)) : i < k => queues[c][i] < queues[c][k]
    BY <1>1, <1>4, <2>2 DEF InOrder, Orderly
  <2>8. Head(queues'[c]) = h /\ DOMAIN queues'[c] = 1..(n + 1)
    BY <1>1, <2>1, <2>2
  <2>9. \A i \in 1..(n + 1) : h <= queues'[c][i]
    BY <1>1, <2>3, <2>7 DEF Jobs
  <2>10. ASSUME NEW i \in (1..(n + 1)) \ ({1} \cup MatePositions(h)'),
                NEW k \in (1..(n + 1)) \ ({1} \cup MatePositions(h)'), i < k
         PROVE  queues'[c][i] < queues'[c][k]
    <3>1. i \in 1..n /\ queues'[c][i] = queues[c][i] /\ i \notin {1} \cup MatePositions(h)
      BY <1>1, <2>6, <2>10
    <3>2. CASE k \in 1..n
      BY <1>1, <2>6, <2>7, <2>10, <3>1, <3>2
    <3>3. CASE k = n + 1
      BY <1>1, <1>2, <3>1, <3>3
    <3> QED
      BY <1>1, <3>2, <3>3
  <2> HIDE DEF n
  <2> QED
    BY <2>8, <2>9, <2>10 DEF InOrder, Orderly
<1> QED
  BY <1>3, <1>4

\* A group that is held goes back in front of what it left behind: its mates are
\* mates again, and what follows them is in order.
LEMMA InOrderHold ==
  ASSUME Settled, KeysSame, NEW h \in Jobs, job[h] # None, InOrder(job[h].queue),
         queues[job[h].queue] # <<>>, h = Head(queues[job[h].queue]),
         Len(GroupOf(h)) < MAX_BATCH,
         queues'[job[h].queue] = GroupOf(h) \o RestOf(h)
  PROVE  InOrder(job[h].queue)'
<1> USE DEF Settled
<1> PICK c \in Class : c = job[h].queue
  BY DEF Typed, TypeOK, SchedTypeOK, Job
<1>1. /\ queues[c] \in Seq(Jobs) /\ DOMAIN queues[c] = 1..Len(queues[c])
      /\ h \in Range(queues[c]) /\ job[h] \in Job
  <2>1. queues[c] \in Seq(Jobs) /\ job[h] \in Job
    BY DEF Typed, TypeOK, SchedTypeOK
  <2> QED
    BY <2>1, RangeOfTail, LenProperties
<1> DEFINE mates == AtPositions(queues[c], MatePositions(h))
           n == Len(GroupOf(h))
<1>2. MatePositions(h) \subseteq MatchingPositions(h) /\ MatePositions(h) \in SUBSET (1..Len(queues[c]))
  BY <1>1 DEF MatePositions, MatchingPositions
<1>3. /\ mates \in Seq(Jobs) /\ Len(mates) \in Nat /\ DOMAIN mates = 1..Len(mates)
      /\ Range(mates) = {queues[c][i] : i \in MatePositions(h)}
  BY <1>1, <1>2, RangeOfAtPositions, LenProperties
<1>4. \A k \in Range(mates) : k \in Jobs /\ k # h /\ BatchKey(k)' = BatchKey(h)
  <2> SUFFICES ASSUME NEW i \in MatePositions(h), NEW k \in Jobs, k = queues[c][i]
               PROVE  k # h /\ BatchKey(k)' = BatchKey(h)
    <3>1. \A i \in MatePositions(h) : queues[c][i] \in Jobs
      BY <1>1, <1>2, ElementOfSeq
    <3> HIDE DEF mates
    <3> QED
      BY <1>3, <3>1
  <2>1. k # h /\ BatchKey(k) = BatchKey(h)
    BY <1>2 DEF MatchingPositions
  <2>2. k \in Range(queues[c])
    BY <1>1, <1>2 DEF Range
  <2>3. job[k] # None
    BY <2>2 DEF Typed, JobsExist
  <2> QED
    BY <2>1, <2>3 DEF KeysSame
<1>5. BatchKey(h)' = BatchKey(h) /\ job'[h].queue = c
  BY DEF KeysSame
<1>6. /\ GroupOf(h) \in Seq(Jobs) /\ n \in Nat \ {0} /\ RestOf(h) \in Seq(Jobs)
      /\ GroupOf(h)[1] = h
      /\ \A i \in 2..n : GroupOf(h)[i] \in Range(mates)
      /\ Range(GroupOf(h)) \cup Range(RestOf(h)) = Range(queues[c])
  <2>1. GroupOf(h) = <<h>> \o mates
    BY DEF GroupOf
  <2>2. /\ <<h>> \in Seq(Jobs) /\ Len(<<h>>) = 1 /\ <<h>>[1] = h
    OBVIOUS
  <2> HIDE DEF mates
  <2>3. /\ <<h>> \o mates \in Seq(Jobs) /\ Len(<<h>> \o mates) = 1 + Len(mates)
        /\ \A i \in 1..(1 + Len(mates)) :
             (<<h>> \o mates)[i] = IF i <= 1 THEN <<h>>[i] ELSE mates[i - 1]
    BY <1>3, <2>2, ConcatProperties
  <2>4. \A i \in 2..n : GroupOf(h)[i] = mates[i - 1] /\ i - 1 \in DOMAIN mates
    BY <1>3, <2>1, <2>3
  <2>5. /\ RestOf(h) \in Seq(Jobs)
        /\ Range(GroupOf(h)) \cup Range(RestOf(h)) = Range(queues[c])
    BY <1>1, GroupAndRest DEF Typed, TypeOK
  <2>6. n \in Nat \ {0} /\ GroupOf(h)[1] = h
    BY <1>3, <2>1, <2>2, <2>3
  <2> QED
    BY <2>1, <2>3, <2>4, <2>5, <2>6 DEF Range
<1> HIDE DEF mates, n
<1> DEFINE w == GroupOf(h) \o RestOf(h)
           m == n + Len(RestOf(h))
<1>7. /\ w \in Seq(Jobs) /\ DOMAIN w = 1..m /\ Len(RestOf(h)) \in Nat /\ m \in Nat
      /\ \A i \in 1..n : w[i] = GroupOf(h)[i]
      /\ \A i \in (n + 1)..m : w[i] = RestOf(h)[i - n] /\ i - n \in 1..Len(RestOf(h))
      /\ w # <<>> /\ Head(w) = h /\ w[1] = h
  BY <1>6, ConcatProperties, LenProperties DEF n
<1>8. Range(w) = Range(queues[c])
  <2>1. GroupOf(h) \in Seq(Jobs) /\ RestOf(h) \in Seq(Jobs)
    BY <1>6
  <2>2. Range(w) = Range(GroupOf(h)) \cup Range(RestOf(h))
    BY <2>1, RangeConcatenation, Zenon
  <2> QED
    BY <1>6, <2>2
<1> HIDE DEF w, m
<1>9. \A i \in DOMAIN w : h <= w[i]
  <2>1. \A i \in DOMAIN queues[c] : h <= queues[c][i]
    BY DEF InOrder, Orderly
  <2> QED
    BY <1>8, <2>1 DEF Range
<1>10. queues'[c] = w
  BY DEF w
<1>11. \A i \in 2..n : i \in MatePositions(h)'
  <2> SUFFICES ASSUME NEW i \in 2..n PROVE i \in MatePositions(h)'
    OBVIOUS
  <2>1. MatchingPositions(h)' =
          {k \in DOMAIN queues'[c] : queues'[c][k] # h /\ BatchKey(queues[c][k])' = BatchKey(h)'}
    BY <1>5 DEF MatchingPositions
  <2>2. i \in MatchingPositions(h)'
    <3>1. i \in 1..n /\ i \in 1..m
      BY <1>6, <1>7 DEF m
    <3>2. PICK x \in Jobs : x = w[i] /\ x \in Range(mates)
      BY <1>4, <1>6, <1>7, <3>1
    <3>3. x # h /\ BatchKey(x)' = BatchKey(h)'
      BY <1>4, <1>5, <3>2
    <3>4. BatchKey(queues[c][i])' = BatchKey(x)'
      BY <1>10, <3>2 DEF BatchKey, StartIndex
    <3> HIDE DEF BatchKey
    <3> QED
      BY <1>7, <1>10, <2>1, <3>1, <3>2, <3>3, <3>4
  <2> DEFINE before == {k \in MatchingPositions(h)' : k < i}
  <2>3. before \subseteq 2..(i - 1)
    <3>1. \A k \in MatchingPositions(h)' : k \in 1..m /\ k # 1
      BY <1>7, <1>10, <2>1
    <3> QED
      BY <1>7, <3>1
  <2>4. /\ IsFiniteSet(2..(i - 1)) /\ Cardinality(2..(i - 1)) = i - 2
    <3>1. i \in Int /\ i >= 2 /\ i - 1 \in Int
      BY <1>6
    <3>2. Cardinality(2..(i - 1)) = IF 2 > i - 1 THEN 0 ELSE (i - 1) - 2 + 1
      BY <3>1, FS_Interval
    <3> QED
      BY <3>1, <3>2, FS_Interval
  <2>5. Cardinality(before) \in Nat /\ Cardinality(before) <= i - 2
    <3> HIDE DEF before
    <3> QED
      BY <2>3, <2>4, FS_Subset, FS_CardinalityType
  <2>6. Cardinality(before) < MAX_BATCH - 1
    <3>1. MAX_BATCH \in Int /\ n < MAX_BATCH
      BY ConfigAssumption DEF n
    <3> HIDE DEF before
    <3> QED
      BY <1>6, <2>5, <3>1
  <2> QED
    BY <2>2, <2>6 DEF MatePositions
<1>12. \A i, k \in DOMAIN w \ ({1} \cup MatePositions(h)') : i < k => w[i] < w[k]
  <2> SUFFICES ASSUME NEW i \in DOMAIN w \ ({1} \cup MatePositions(h)'),
                      NEW k \in DOMAIN w \ ({1} \cup MatePositions(h)'), i < k
               PROVE  w[i] < w[k]
    OBVIOUS
  <2>1. Increasing(RestOf(h))
    BY RestIncreasing
  <2>2. i \in (n + 1)..m /\ k \in (n + 1)..m
    BY <1>6, <1>7, <1>11
  <2>3. i - n \in DOMAIN RestOf(h) /\ k - n \in DOMAIN RestOf(h) /\ i - n < k - n
    BY <1>6, <1>7, <2>2, LenProperties
  <2> QED
    BY <1>7, <2>1, <2>2, <2>3 DEF Increasing
<1>13. queues'[c] # <<>> /\ Head(queues'[c]) = h
  BY <1>7, <1>10
<1>14. \A i \in DOMAIN queues'[c] : h <= queues'[c][i]
  BY <1>9, <1>10
<1>15. \A i, k \in DOMAIN queues'[c] \ ({1} \cup MatePositions(h)') :
         i < k => queues'[c][i] < queues'[c][k]
  BY <1>10, <1>12
<1>16. InOrder(c)'
  BY <1>13, <1>14, <1>15 DEF InOrder, Orderly
<1> QED
  BY <1>5, <1>16

-----------------------------------------------------------------------------
(* What the policies select *)

\* FifoPolicy and EdfPolicy: whoever is passed over is younger or, under edf, of
\* a less important class.
LEMMA SelectedBefore ==
  ASSUME Typed, NEW h \in Queued, Selected(h), SCHED_POLICY \in {"fifo", "edf"},
         NEW k \in Queued, k # h
  PROVE  h < k \/ (SCHED_POLICY = "edf" /\ Priority[job[h].queue] < Priority[job[k].queue])
<1> USE DEF Typed
<1>1. \A j \in {h, k} : j \in Jobs /\ job[j].queue \in Class
  BY SelectedGroup
<1>2. h \in 1..MaxJobs /\ k \in 1..MaxJobs /\ MaxJobs \in Nat
  BY <1>1, ConfigAssumption DEF Jobs
<1>3. CASE SCHED_POLICY = "fifo"
  <2>1. h <= k
    BY <1>3 DEF Selected, IsOldest
  <2> QED
    BY <1>2, <2>1
<1>4. CASE SCHED_POLICY = "edf"
  <2>1. EdfBefore(h, k)
    BY <1>4, Zenon DEF Selected, IsEdfFirst
  <2>2. \A c \in Class : Priority[c] \in 0..2 /\ (HasDeadline(c) <=> Priority[c] = 0)
    BY DEF Class, Priority, HasDeadline
  <2>3. /\ Deadline(h) = IF HasDeadline(job[h].queue) THEN h ELSE MaxJobs + 1
        /\ Deadline(k) = IF HasDeadline(job[k].queue) THEN k ELSE MaxJobs + 1
    BY DEF Deadline
  <2>4. CASE Deadline(h) < Deadline(k)
    BY <1>1, <1>2, <1>4, <2>2, <2>3, <2>4
  <2>5. CASE ~(Deadline(h) < Deadline(k))
    BY <1>4, <2>1, <2>5 DEF EdfBefore
  <2> QED
    BY <2>4, <2>5
<1> QED
  BY <1>3, <1>4

\* In queues in order, every policy takes the front of a queue.
LEMMA SelectedIsFront ==
  ASSUME Typed, QueuesInOrder, NEW h \in Queued, Selected(h)
  PROVE  queues[job[h].queue] # <<>> /\ h = Head(queues[job[h].queue])
<1> USE DEF Typed
<1> PICK c \in Class : c = job[h].queue
  BY SelectedGroup
<1>1. h \in Jobs /\ queues[c] \in Seq(Jobs) /\ h \in Range(queues[c])
  BY SelectedGroup
<1>2. queues[c] # <<>>
  BY <1>1 DEF Range
<1>3. PICK f \in Jobs : f = Head(queues[c]) /\ f \in Range(queues[c])
  BY <1>1, <1>2, RangeOfTail
<1>4. f <= h
  BY <1>1, <1>2, <1>3 DEF QueuesInOrder, InOrder, Orderly, Range
<1>5. f \in Queued /\ job[f].queue = c
  BY <1>3 DEF Queued, JobsExist
<1>6. CASE SCHED_POLICY \in {"fifo", "edf"}
  <2>1. f # h => h < f \/ Priority[job[h].queue] < Priority[job[f].queue]
    BY <1>5, <1>6, SelectedBefore
  <2>2. Priority[c] \in 0..2
    BY DEF Priority, Class
  <2>3. f # h => h < f
    BY <1>5, <2>1, <2>2
  <2> QED
    BY <1>1, <1>2, <1>3, <1>4, <2>3 DEF Jobs
<1>7. CASE SCHED_POLICY \notin {"fifo", "edf"}
  <2>1. IsPriorityHead(h)
    BY <1>7 DEF Selected
  <2> QED
    BY <1>2, <2>1 DEF IsPriorityHead
<1> QED
  BY <1>6, <1>7

-----------------------------------------------------------------------------
(* Arrivals *)

LEMMA ArrivedNext ==
  ASSUME Typed, KeysSame, ArrivedInOrder, [Next]_vars, \A g \in GPUs : ~OnPreempted(g)
  PROVE  ArrivedInOrder'
<1> SUFFICES ASSUME NEW j \in Jobs, job'[j] # None, NEW k \in 1..(j - 1)
             PROVE  job'[k] # None
  BY DEF ArrivedInOrder
<1>1. k \in Jobs
  BY ConfigAssumption DEF Jobs
<1>2. job[k] # None
  <2>1. CASE job[j] # None
    BY <2>1 DEF ArrivedInOrder
  <2>2. CASE job[j] = None
    <3>1. \E r \in Requests : Generate(j, r)
      BY <2>2, JobsAppear DEF Checkpointed
    <3> QED
      BY <3>1 DEF Generate
  <2> QED
    BY <2>1, <2>2
<1> QED
  BY <1>1, <1>2 DEF KeysSame

LEMMA OlderArrived ==
  ASSUME ArrivedInOrder, NEW j \in Jobs, job[j] = None, NEW k \in Jobs, job[k] # None
  PROVE  k < j
<1>1. ~(j \in 1..(k - 1)) /\ k # j
  BY DEF ArrivedInOrder
<1> QED
  BY <1>1, ConfigAssumption DEF Jobs

-----------------------------------------------------------------------------
(* Arrival order *)

LEMMA OrderNext ==
  ASSUME Settled, Settled', YieldTrue, QueuesInOrder, ArrivedInOrder, [Next]_vars,
         SCHED_POLICY # "priority_preempt"
  PROVE  QueuesInOrder' /\ ArrivedInOrder'
<1> USE DEF Settled
<1>1. \A g \in GPUs : ~OnPreempted(g)
  BY NobodyYields
<1>2. KeysSame
  BY <1>1, KeysKept
<1>3. ArrivedInOrder'
  BY <1>1, <1>2, ArrivedNext
<1>4. ASSUME NEW c \in Class, NEW q, queues' = [queues EXCEPT ![c] = q], InOrder(c)'
      PROVE  QueuesInOrder'
  <2>1. \A d \in Class : d # c => queues'[d] = queues[d]
    BY <1>4, QueuedAfter
  <2>2. \A d \in Class : d # c => InOrder(d)'
    BY <1>2, <2>1, InOrderSame DEF QueuesInOrder
  <2> QED
    BY <1>4, <2>2 DEF QueuesInOrder
<1>5. ASSUME NEW j \in Jobs, NEW r \in Requests, Generate(j, r)
      PROVE  QueuesInOrder'
  <2>1. /\ r.queue \in Class /\ job[j] = None
        /\ job' = [job EXCEPT ![j] = NewJob(r)]
        /\ queues' = [queues EXCEPT ![r.queue] = Append(queues[r.queue], j)]
    BY <1>5, ConfigAssumption DEF Generate, Admit
  <2> PICK c \in Class : c = r.queue
    BY <2>1
  <2>2. job'[j].queue = c /\ queues'[c] = Append(queues[c], j)
    BY <2>1 DEF Typed, TypeOK, SchedTypeOK, NewJob
  <2>3. job'[j] # None
    <3>1. j \in pending'
      BY <1>5 DEF Generate
    <3> QED
      BY <3>1 DEF Typed, JobsExist
  <2>4. InOrder(c)'
    BY <1>2, <2>1, <2>2, <2>3, OlderArrived, InOrderAppend DEF QueuesInOrder
  <2> QED
    BY <1>4, <2>1, <2>4
<1>6. ASSUME NEW h \in Jobs, NEW g \in GPUs, DispatchBatch(h, g)
      PROVE  QueuesInOrder'
  <2>1. h \in Queued /\ Selected(h) /\ queues' = [queues EXCEPT ![job[h].queue] = RestOf(h)]
    BY <1>6 DEF DispatchBatch, Take
  <2> PICK c \in Class : c = job[h].queue
    BY <2>1, SelectedGroup
  <2>2. queues[c] # <<>> /\ h = Head(queues[c])
    BY <2>1, SelectedIsFront
  <2>3. Increasing(RestOf(h)) /\ RestOf(h) \in Seq(Jobs)
    <3>1. RestOf(h) \in Seq(Jobs) /\ job[h] # None
      BY <2>1, SelectedGroup, NoneAssumption
    <3> QED
      BY <2>2, <3>1, RestIncreasing DEF QueuesInOrder
  <2>4. queues'[c] = RestOf(h)
    BY <2>1 DEF Typed, TypeOK, SchedTypeOK
  <2>5. InOrder(c)'
    BY <2>3, <2>4, IncreasingIsOrderly DEF InOrder
  <2> QED
    BY <1>4, <2>1, <2>5
<1>7. ASSUME NEW h \in Jobs, HoldBatch(h)
      PROVE  QueuesInOrder'
  <2>1. /\ h \in Queued /\ Selected(h) /\ Len(GroupOf(h)) < MAX_BATCH
        /\ queues' = [queues EXCEPT ![job[h].queue] = GroupOf(h) \o RestOf(h)]
    BY <1>7 DEF HoldBatch, MustHold, TakeAndRequeue
  <2> PICK c \in Class : c = job[h].queue
    BY <2>1, SelectedGroup
  <2>2. queues[c] # <<>> /\ h = Head(queues[c])
    BY <2>1, SelectedIsFront
  <2>3. job[h] # None
    BY <2>1, SelectedGroup, NoneAssumption
  <2>4. queues'[c] = GroupOf(h) \o RestOf(h)
    BY <2>1 DEF Typed, TypeOK, SchedTypeOK
  <2>5. InOrder(job[h].queue)'
    BY <1>2, <2>1, <2>2, <2>3, <2>4, InOrderHold DEF QueuesInOrder
  <2>6. job'[h].queue = c
    BY <1>2, <2>3 DEF KeysSame
  <2> QED
    BY <1>4, <2>1, <2>5, <2>6
<1>8. ASSUME UNCHANGED queues PROVE QueuesInOrder'
  <2> SUFFICES ASSUME NEW c \in Class PROVE InOrder(c)'
    BY DEF QueuesInOrder
  <2>1. queues'[c] = queues[c] /\ InOrder(c)
    BY <1>8 DEF QueuesInOrder
  <2> QED
    BY <1>2, <2>1, InOrderSame
<1>9. CASE \/ \E r \in Requests : Reject(r)
           \/ \E j \in Jobs : Cancel(j) \/ Respond(j) \/ TimerFire(j)
           \/ \E g \in GPUs : OnFinished(g)
           \/ Wake \/ FillDone \/ Evict \/ Age \/ Idle \/ UNCHANGED vars
           \/ \E g \in GPUs : (WorkerStep(g) \/ BatchError(g)) /\ UNCHANGED gatewayVars
  <2> SUFFICES QueuesInOrder'
    BY <1>3
  <2>1. UNCHANGED queues
    BY <1>9 DEF Reject, Cancel, Respond, TimerFire, OnFinished, Wake, FillDone, Evict, Age,
                Idle, vars, gatewayVars, schedVars
  <2> QED
    BY <1>8, <2>1
<1>10. QueuesInOrder'
  BY <1>1, <1>5, <1>6, <1>7, <1>9 DEF Next, Client, DispatcherStep
<1> QED
  BY <1>3, <1>10

\* In every behaviour without preemption: what a queue holds is in order of
\* arrival, but for the mates of a group that was held.
THEOREM ArrivalOrderKept ==
  ASSUME SCHED_POLICY # "priority_preempt"
  PROVE  Spec => [](QueuesInOrder /\ ArrivedInOrder)
<1>1. Init => QueuesInOrder /\ ArrivedInOrder
  BY DEF Init, SchedInit, QueuesInOrder, InOrder, Orderly, ArrivedInOrder
<1>2. /\ Settled /\ Settled' /\ YieldTrue /\ QueuesInOrder /\ ArrivedInOrder /\ [Next]_vars
      => (QueuesInOrder /\ ArrivedInOrder)'
  BY OrderNext
<1> QED
  BY SettledAlways, BatchesYieldTruly, <1>1, <1>2, PTL DEF Spec

LEMMA InOrderIsOldest ==
  ASSUME Typed, QueuesInOrder
  PROVE  FrontIsOldest
<1> SUFFICES ASSUME NEW c \in Class, NEW j \in Range(queues[c])
             PROVE  Head(queues[c]) <= j
  BY DEF FrontIsOldest
<1>1. PICK n \in DOMAIN queues[c] : queues[c][n] = j
  BY DEF Range
<1>2. queues[c] # <<>>
  BY <1>1
<1> QED
  BY <1>1, <1>2 DEF QueuesInOrder, InOrder, Orderly

\* Without preemption the front of every queue is its oldest job: a held group
\* goes back last job first, and mates leave from behind their head only
\* (gateway.py, the fill loop; scheduling.py, pop_mates and requeue).
THEOREM OldestInFront ==
  ASSUME SCHED_POLICY # "priority_preempt"
  PROVE  Spec => []FrontIsOldest
<1>1. Settled /\ QueuesInOrder => FrontIsOldest
  BY InOrderIsOldest DEF Settled
<1> QED
  BY SettledAlways, ArrivalOrderKept, <1>1, PTL

-----------------------------------------------------------------------------
(* edf *)

\* A queue that repeats no job and has its oldest in front.
LEMMA FrontOfQueue ==
  ASSUME Settled, FrontIsOldest, NEW h \in Queued
  PROVE  LET q == queues[job[h].queue]
         IN  Head(q) \in Queued /\ job[Head(q)].queue = job[h].queue /\ Head(q) <= h
<1> USE DEF Settled
<1> PICK c \in Class : c = job[h].queue
  BY SelectedGroup
<1>1. h \in Jobs /\ queues[c] \in Seq(Jobs) /\ h \in Range(queues[c])
  BY SelectedGroup
<1>2. queues[c] # <<>>
  BY <1>1 DEF Range
<1>3. Head(queues[c]) \in Range(queues[c]) /\ Head(queues[c]) \in Jobs
  BY <1>1, <1>2, RangeOfTail
<1>4. Head(queues[c]) \in Queued /\ job[Head(queues[c])].queue = c
  BY <1>3 DEF Queued, Typed, JobsExist
<1> QED
  BY <1>1, <1>4 DEF FrontIsOldest

LEMMA OldestIsEdf ==
  ASSUME Settled, FrontIsOldest
  PROVE  EdfIsPriority
<1> USE DEF Settled
<1> SUFFICES ASSUME NEW h \in Queued PROVE IsEdfFirst(h) <=> IsPriorityHead(h)
  BY DEF EdfIsPriority
<1> DEFINE cl(j) == job[j].queue
<1>1. \A j \in Queued : j \in Jobs /\ cl(j) \in Class /\ j \in Range(queues[cl(j)])
  BY SelectedGroup
<1>2. \A j \in Queued : j \in 1..MaxJobs /\ MaxJobs \in Nat
  BY <1>1, ConfigAssumption DEF Jobs
<1>3. \A c \in Class : Priority[c] \in 0..2 /\ (HasDeadline(c) <=> Priority[c] = 0)
  BY DEF Class, Priority, HasDeadline
<1>4. \A c, d \in Class : Priority[c] = Priority[d] => c = d
  BY DEF Class, Priority
<1>5. \A j \in Queued : Deadline(j) = IF HasDeadline(cl(j)) THEN j ELSE MaxJobs + 1
  BY DEF Deadline
<1>6. ASSUME NEW j \in Queued, NEW k \in Queued
      PROVE  EdfBefore(j, k) <=> \/ Priority[cl(j)] < Priority[cl(k)]
                                 \/ cl(j) = cl(k) /\ j < k
  <2>1. CASE cl(j) = cl(k)
    BY <1>1, <1>2, <1>3, <1>5, <2>1 DEF EdfBefore
  <2>2. CASE cl(j) # cl(k)
    <3>1. Priority[cl(j)] # Priority[cl(k)]
      BY <1>1, <1>4, <2>2
    <3> QED
      BY <1>1, <1>2, <1>3, <1>5, <2>2, <3>1 DEF EdfBefore
  <2> QED
    BY <2>1, <2>2
<1>7. ASSUME IsPriorityHead(h) PROVE IsEdfFirst(h)
  <2> SUFFICES ASSUME NEW k \in Queued \ {h} PROVE EdfBefore(h, k)
    BY DEF IsEdfFirst
  <2>1. cl(k) \notin MoreImportant(cl(h))
    <3>1. queues[cl(k)] # <<>>
      BY <1>1 DEF Range
    <3> QED
      BY <1>7, <3>1 DEF IsPriorityHead
  <2>2. ~(Priority[cl(k)] < Priority[cl(h)])
    BY <1>1, <2>1 DEF MoreImportant
  <2>3. CASE cl(k) = cl(h)
    <3>1. h <= k
      <4>1. h = Head(queues[cl(h)])
        BY <1>7 DEF IsPriorityHead
      <4> QED
        BY <2>3, <4>1, FrontOfQueue
    <3> QED
      BY <1>2, <1>6, <2>3, <3>1
  <2>4. CASE cl(k) # cl(h)
    <3>1. Priority[cl(h)] < Priority[cl(k)]
      BY <1>1, <1>3, <1>4, <2>2, <2>4
    <3> QED
      BY <1>6, <3>1
  <2> QED
    BY <2>3, <2>4
<1>8. ASSUME IsEdfFirst(h) PROVE IsPriorityHead(h)
  <2>1. \A k \in Queued : k = h \/ Priority[cl(h)] < Priority[cl(k)] \/ (cl(h) = cl(k) /\ h < k)
    <3> SUFFICES ASSUME NEW k \in Queued, k # h PROVE EdfBefore(h, k)
      BY <1>6
    <3> QED
      BY <1>8 DEF IsEdfFirst
  <2>2. h = Head(queues[cl(h)])
    <3>1. PICK f \in Queued : f = Head(queues[cl(h)]) /\ cl(f) = cl(h) /\ f <= h
      BY FrontOfQueue
    <3>2. f = h \/ h < f
      BY <1>1, <1>3, <2>1, <3>1
    <3> QED
      BY <1>2, <3>1, <3>2
  <2>3. ASSUME NEW d \in MoreImportant(cl(h)) PROVE queues[d] = <<>>
    <3> SUFFICES ASSUME queues[d] # <<>> PROVE FALSE
      OBVIOUS
    <3>1. d \in Class /\ Priority[d] < Priority[cl(h)]
      BY DEF MoreImportant
    <3>2. PICK k \in Jobs : k \in Range(queues[d])
      BY <3>1, RangeOfTail DEF Typed, TypeOK, SchedTypeOK
    <3>3. k \in Queued /\ cl(k) = d
      BY <3>1, <3>2 DEF Queued, Typed, JobsExist
    <3>4. k # h /\ ~(Priority[cl(h)] < Priority[cl(k)]) /\ cl(h) # cl(k)
      BY <1>1, <1>3, <3>1, <3>3
    <3> QED
      BY <2>1, <3>3, <3>4
  <2> QED
    BY <2>2, <2>3 DEF IsPriorityHead
<1> QED
  BY <1>7, <1>8

\* EdfPolicy and the strict priority of pop_next take the same job in every state
\* a gateway that does not preempt can reach: one class has a deadline and all its
\* deadlines are equally far (policies.py, config.py).
THEOREM EdfFollowsPriority ==
  ASSUME SCHED_POLICY # "priority_preempt"
  PROVE  Spec => []EdfIsPriority
<1>1. Settled /\ FrontIsOldest => EdfIsPriority
  BY OldestIsEdf
<1> QED
  BY SettledAlways, OldestInFront, <1>1, PTL

-----------------------------------------------------------------------------
(* Overtaking *)

MayPass(h, j) ==
  h < j \/ (SCHED_POLICY = "edf" /\ Priority[job[h].queue] < Priority[job[j].queue])

NobodyPassed == \A g \in GPUs : busy[g] # None => \A j \in Queued : MayPass(busy[g].head, j)

\* Every group that is at work after a step was there before or was dispatched now.
LEMMA GroupsAfter ==
  ASSUME Typed, [Next]_vars, \A g \in GPUs : ~OnPreempted(g), NEW g \in GPUs, busy'[g] # None,
         ~\E h \in Jobs : DispatchBatch(h, g)
  PROVE  busy[g] # None /\ busy'[g].head = busy[g].head
<1> USE DEF Typed
<1>1. busy \in [GPUs -> Group \cup {None}]
  BY DEF TypeOK
<1>2. CASE UNCHANGED busy
  BY <1>2
<1>3. CASE \E h \in Jobs, k \in GPUs : DispatchBatch(h, k)
  <2>1. PICK h \in Jobs, k \in GPUs : DispatchBatch(h, k)
    BY <1>3
  <2>2. k # g /\ busy' = [busy EXCEPT ![k] = NewGroup(h)]
    BY <2>1 DEF DispatchBatch
  <2> QED
    BY <1>1, <2>2
<1>4. CASE \E k \in GPUs : OnFinished(k)
  <2>1. PICK k \in GPUs : OnFinished(k)
    BY <1>4
  <2>2. busy' = busy \/ (busy[k] # None /\ busy' = [busy EXCEPT ![k] = Acknowledged(busy[k])])
    BY <2>1, Zenon DEF OnFinished, TakeResponse, CountResponse
  <2>3. CASE busy[k] # None /\ busy' = [busy EXCEPT ![k] = Acknowledged(busy[k])]
    <3>1. busy[k] \in Group
      BY <1>1, <2>3
    <3>2. CASE k = g
      <4>1. busy'[g] = Acknowledged(busy[g])
        BY <1>1, <2>3, <3>2
      <4> QED
        BY <2>3, <3>1, <3>2, <4>1 DEF Acknowledged, Group
    <3>3. CASE k # g
      BY <1>1, <2>3, <3>3
    <3> QED
      BY <3>2, <3>3
  <2> QED
    BY <2>2, <2>3
<1>5. CASE \/ \E j \in Jobs, r \in Requests : Generate(j, r)
           \/ \E r \in Requests : Reject(r)
           \/ \E j \in Jobs : Cancel(j) \/ Respond(j) \/ TimerFire(j) \/ HoldBatch(j)
           \/ Wake \/ FillDone \/ Evict \/ Age \/ Idle \/ UNCHANGED vars
           \/ \E k \in GPUs : (WorkerStep(k) \/ BatchError(k)) /\ UNCHANGED gatewayVars
  <2>1. UNCHANGED busy
    BY <1>5 DEF Generate, Reject, Cancel, Respond, TimerFire, HoldBatch, Wake, FillDone, Evict,
                Age, Idle, vars, gatewayVars
  <2> QED
    BY <1>2, <2>1
<1> QED
  BY <1>3, <1>4, <1>5 DEF Next, Client, DispatcherStep

\* Every job that waits after a step waited before it or arrived now, and a group
\* that starts waits no more.
LEMMA QueuedLater ==
  ASSUME Settled, [Next]_vars, \A g \in GPUs : ~OnPreempted(g), NEW j \in Queued',
         ~\E r \in Requests : Generate(j, r)
  PROVE  j \in Queued /\ \A h \in Jobs, g \in GPUs : DispatchBatch(h, g) => j # h
<1> USE DEF Settled
<1>1. ASSUME NEW h \in Jobs, NEW g \in GPUs, DispatchBatch(h, g)
      PROVE  j \in Queued /\ j # h
  <2>1. h \in Queued /\ queues' = [queues EXCEPT ![job[h].queue] = RestOf(h)]
    BY <1>1 DEF DispatchBatch, Take
  <2>2. PICK c \in Class : c = job[h].queue
    BY <2>1, SelectedGroup
  <2>3. /\ job[h] \in Job /\ h \in Range(queues[c])
        /\ Range(GroupOf(h)) \cup Range(RestOf(h)) = Range(queues[c])
    BY <2>1, <2>2, SelectedGroup
  <2>4. /\ Range(GroupOf(h)) \cap Range(RestOf(h)) = {} /\ h \in Range(GroupOf(h))
    BY <2>2, <2>3, GroupApartFromRest DEF Placed, QueuesOnce, Typed, TypeOK
  <2>5. Queued' = (Queued \ Range(queues[c])) \cup Range(RestOf(h))
    BY <2>1, <2>2, QueuedAfter
  <2>6. Range(queues[c]) \subseteq Queued
    BY DEF Queued
  <2> HIDE DEF Queued
  <2> QED
    BY <2>3, <2>4, <2>5, <2>6
<1>2. CASE \E k \in Jobs, r \in Requests : Generate(k, r)
  <2>1. PICK k \in Jobs, r \in Requests : Generate(k, r)
    BY <1>2
  <2>2. /\ r.queue \in Class /\ k # j
        /\ queues' = [queues EXCEPT ![r.queue] = Append(queues[r.queue], k)]
    BY <2>1, ConfigAssumption DEF Generate, Admit
  <2>3. Range(Append(queues[r.queue], k)) = Range(queues[r.queue]) \cup {k}
    BY <2>2, RangeOfAppend DEF Typed, TypeOK, SchedTypeOK
  <2>4. Queued' = (Queued \ Range(queues[r.queue])) \cup Range(Append(queues[r.queue], k))
    BY <2>2, QueuedAfter
  <2>5. Range(queues[r.queue]) \subseteq Queued
    BY <2>2 DEF Queued
  <2>6. j \in Queued
    <3> HIDE DEF Queued
    <3> QED
      BY <2>2, <2>3, <2>4, <2>5
  <2>7. dispatcher # "filling"
    BY <2>1 DEF Generate, LoopIdle
  <2> QED
    BY <2>6, <2>7 DEF DispatchBatch
<1>3. CASE \E h \in Jobs : HoldBatch(h)
  <2>1. Queued' = Queued
    BY <1>3, PlacedHoldBatch
  <2> QED
    BY <1>1, <2>1
<1>4. CASE \/ \E r \in Requests : Reject(r)
           \/ \E k \in Jobs : Cancel(k) \/ Respond(k) \/ TimerFire(k)
           \/ \E g \in GPUs : OnFinished(g)
           \/ Wake \/ FillDone \/ Evict \/ Age \/ Idle \/ UNCHANGED vars
           \/ \E g \in GPUs : (WorkerStep(g) \/ BatchError(g)) /\ UNCHANGED gatewayVars
  <2>1. UNCHANGED queues
    BY <1>4 DEF Reject, Cancel, Respond, TimerFire, OnFinished, Wake, FillDone, Evict, Age,
                Idle, vars, gatewayVars, schedVars
  <2>2. Queued' = Queued
    BY <2>1 DEF Queued
  <2> QED
    BY <1>1, <2>2
<1> QED
  BY <1>1, <1>2, <1>3, <1>4 DEF Next, Client, DispatcherStep

LEMMA PassedNext ==
  ASSUME Settled, Settled', YieldTrue, ArrivedInOrder, NobodyPassed, [Next]_vars,
         SCHED_POLICY \in {"fifo", "edf"}
  PROVE  NobodyPassed'
<1> USE DEF Settled
<1>1. \A g \in GPUs : ~OnPreempted(g)
  BY NobodyYields
<1>2. KeysSame
  BY <1>1, KeysKept
<1> SUFFICES ASSUME NEW g \in GPUs, busy'[g] # None, NEW j \in Queued'
             PROVE  MayPass(busy[g].head, j)'
  BY DEF NobodyPassed
<1>3. \A k \in Queued : k \in Jobs /\ job[k] # None
  BY SelectedGroup, NoneAssumption
<1>4. busy[g] # None => busy[g].head \in Jobs /\ job[busy[g].head] # None
  BY DEF Typed, TypeOK, JobsExist, Group
<1>5. ASSUME NEW h \in Jobs, job[h] # None, busy'[g].head = h, MayPass(h, j), j \in Queued
      PROVE  MayPass(busy[g].head, j)'
  BY <1>2, <1>3, <1>5 DEF KeysSame, MayPass
<1>6. CASE \E r \in Requests : Generate(j, r)
  <2>1. busy' = busy /\ job[j] = None
    BY <1>6 DEF Generate
  <2>2. PICK h \in Jobs : h = busy[g].head /\ h = busy'[g].head /\ job[h] # None
    BY <1>4, <2>1
  <2>3. j \in Jobs
    <3>1. PICK c \in Class : j \in Range(queues'[c])
      BY DEF Queued
    <3>2. queues'[c] \in Seq(Jobs)
      BY DEF Typed, TypeOK, SchedTypeOK
    <3> QED
      BY <3>1, <3>2, RangeOfSeq
  <2>4. h < j
    BY <2>1, <2>2, <2>3, OlderArrived
  <2> QED
    BY <2>2, <2>4 DEF MayPass
<1>7. CASE ~\E r \in Requests : Generate(j, r)
  <2>1. j \in Queued /\ \A h \in Jobs, k \in GPUs : DispatchBatch(h, k) => j # h
    BY <1>1, <1>7, QueuedLater
  <2>2. CASE \E h \in Jobs : DispatchBatch(h, g)
    <3>1. PICK h \in Jobs : DispatchBatch(h, g)
      BY <2>2
    <3>2. h \in Queued /\ Selected(h) /\ busy' = [busy EXCEPT ![g] = NewGroup(h)]
      BY <3>1 DEF DispatchBatch
    <3>3. busy'[g].head = h
      BY <3>2 DEF Typed, TypeOK, NewGroup
    <3>4. MayPass(h, j)
      BY <2>1, <3>1, <3>2, SelectedBefore DEF MayPass
    <3> QED
      BY <1>3, <1>5, <2>1, <3>2, <3>3, <3>4
  <2>3. CASE ~\E h \in Jobs : DispatchBatch(h, g)
    <3>1. busy[g] # None /\ busy'[g].head = busy[g].head
      BY <1>1, <2>3, GroupsAfter
    <3>2. PICK h \in Jobs : h = busy[g].head /\ job[h] # None
      BY <1>4, <3>1
    <3> QED
      BY <1>5, <2>1, <3>1, <3>2 DEF NobodyPassed
  <2> QED
    BY <2>2, <2>3
<1> QED
  BY <1>6, <1>7

\* A job that arrived after another only starts before it as the mate of a head
\* that arrived before both; under edf a batch also passes the jobs of a less
\* important class (policies.py select, scheduling.py pop_mates).  "policy" is
\* the policy that Ordering runs under, here the one the gateway was started with.
THEOREM NobodyOvertakes ==
  ASSUME SCHED_POLICY \in {"fifo", "edf"}
  PROVE  Spec /\ [](policy = SCHED_POLICY) => []NoOvertaking
<1>1. Init => NobodyPassed
  BY DEF Init, NobodyPassed
<1>2. /\ Settled /\ Settled' /\ YieldTrue /\ ArrivedInOrder /\ NobodyPassed /\ [Next]_vars
      => NobodyPassed'
  BY PassedNext
<1>3. NobodyPassed /\ policy = SCHED_POLICY => NoOvertaking
  BY DEF NobodyPassed, MayPass, NoOvertaking
<1>4. SCHED_POLICY # "priority_preempt"
  OBVIOUS
<1> QED
  BY SettledAlways, BatchesYieldTruly, ArrivalOrderKept, <1>1, <1>2, <1>3, <1>4, PTL DEF Spec


-----------------------------------------------------------------------------
(* The first n of a finite set *)

\* Ranked by a key that no two elements share, the elements with fewer than n
\* before them are n, or all of them when there are no more.
LEMMA FirstByKey ==
  ASSUME NEW C, IsFiniteSet(C), NEW key \in [C -> Int],
         \A x, y \in C : key[x] = key[y] => x = y, NEW n \in Int
  PROVE  LET first == {x \in C : Cardinality({y \in C : key[y] < key[x]}) < n}
         IN  /\ IsFiniteSet(first) /\ Cardinality(C) \in Nat
             /\ Cardinality(first) = IF n <= 0 THEN 0 ELSE Smaller(Cardinality(C), n)
<1> DEFINE Before(x) == {y \in C : key[y] < key[x]}
           N == Cardinality(C)
           first == {x \in C : Cardinality(Before(x)) < n}
           rank == [x \in C |-> Cardinality(Before(x))]
<1>1. N \in Nat
  BY FS_CardinalityType
<1>2. \A x \in C : IsFiniteSet(Before(x)) /\ Cardinality(Before(x)) \in 0..(N - 1)
  <2> TAKE x \in C
  <2>1. Before(x) \subseteq C /\ x \notin Before(x)
    OBVIOUS
  <2> HIDE DEF Before
  <2>2. /\ IsFiniteSet(Before(x)) /\ Cardinality(Before(x)) <= N
        /\ Cardinality(Before(x)) # N
    BY <2>1, FS_Subset
  <2>3. Cardinality(Before(x)) \in Nat
    BY <2>2, FS_CardinalityType
  <2> HIDE DEF N
  <2> QED
    BY <1>1, <2>2, <2>3
<1>3. \A x, y \in C : key[x] < key[y] => Cardinality(Before(x)) # Cardinality(Before(y))
  <2> SUFFICES ASSUME NEW x \in C, NEW y \in C, key[x] < key[y]
               PROVE  Cardinality(Before(x)) # Cardinality(Before(y))
    OBVIOUS
  <2>1. Before(x) \subseteq Before(y) /\ x \in Before(y) /\ x \notin Before(x)
    OBVIOUS
  <2> HIDE DEF Before
  <2> QED
    BY <1>2, <2>1, FS_Subset
<1>4. \A x, y \in C : Cardinality(Before(x)) = Cardinality(Before(y)) => x = y
  <2> HIDE DEF Before
  <2> QED
    BY <1>3
<1> HIDE DEF Before
<1>5. rank \in Injection(C, 0..(N - 1))
  <2>1. rank \in [C -> 0..(N - 1)]
    BY <1>2
  <2>2. \A x, y \in C : rank[x] = rank[y] => x = y
    BY <1>4
  <2> QED
    BY <2>1, <2>2, Fun_IsInj
<1>6. rank \in Surjection(C, 0..(N - 1))
  <2>1. IsFiniteSet(0..(N - 1)) /\ Cardinality(0..(N - 1)) = N
    BY <1>1, FS_Interval
  <2> HIDE DEF rank
  <2> QED
    BY <1>5, <2>1, FS_Injection
<1>7. \A k \in 0..(N - 1) : \E x \in C : Cardinality(Before(x)) = k
  BY <1>6 DEF Surjection
<1> DEFINE m == IF n <= 0 THEN 0 ELSE Smaller(N, n)
           place == [x \in first |-> Cardinality(Before(x))]
<1>8. m \in Nat /\ \A k \in Int : k \in 0..(m - 1) <=> (k \in 0..(N - 1) /\ k < n)
  <2> HIDE DEF N
  <2> QED
    BY <1>1 DEF Smaller
<1> HIDE DEF m, N
<1>9. \A x \in C : x \in first <=> Cardinality(Before(x)) \in 0..(m - 1)
  BY <1>2, <1>8
<1>10. place \in Bijection(first, 0..(m - 1))
  <2>1. first \subseteq C
    OBVIOUS
  <2> HIDE DEF first
  <2>2. place \in [first -> 0..(m - 1)]
    BY <1>9, <2>1
  <2>3. \A x, y \in first : place[x] = place[y] => x = y
    BY <1>4, <2>1
  <2>4. \A k \in 0..(m - 1) : \E x \in first : place[x] = k
    <3> TAKE k \in 0..(m - 1)
    <3>1. k \in 0..(N - 1)
      BY <1>8
    <3>2. PICK x \in C : Cardinality(Before(x)) = k
      BY <1>7, <3>1
    <3> QED
      BY <1>9, <3>2
  <2> QED
    BY <2>2, <2>3, <2>4, Fun_IsBij
<1>11. IsFiniteSet(first)
  <2>1. first \subseteq C
    OBVIOUS
  <2> HIDE DEF first
  <2> QED
    BY <2>1, FS_Subset
<1> HIDE DEF first, place
<1>12. IsFiniteSet(0..(m - 1)) /\ Cardinality(0..(m - 1)) = m
  BY <1>8, FS_Interval
<1>13. Cardinality(first) = m
  BY <1>10, <1>11, <1>12, FS_Bijection DEF ExistsBijection
<1> QED
  BY <1>1, <1>11, <1>13 DEF first, m, N, Before
-----------------------------------------------------------------------------
(* Who has been told to stop *)

\* The worker has the message of the eviction, or has obeyed it.
Told(g) == busy[g].batch_id \in Range(control_q[g])
           \/ \E m \in Range(response_q[g]) : m.type = "preempted"

FlagTrue(g) ==
  busy[g] # None =>
    /\ OwedIds(g) = <<busy[g].head>>
    /\ busy[g].batch_id <= stats.batches_dispatched
    /\ Flagged(g) <=> Told(g)
    /\ Flagged(g) => Preemptive /\ Preemptible(job[busy[g].head].queue)

OldSignals(g) == \A id \in Range(control_q[g]) : id <= stats.batches_dispatched

\* A job carries the flag exactly while its worker has been told to stop and its
\* checkpoint is not back yet; what else the control queue holds names batches
\* that have ended.
FlagsTrue ==
  /\ \A g \in GPUs : FlagTrue(g) /\ OldSignals(g)
  /\ \A j \in Queued : ~job[j].preempt_requested

KeepsFlag(k) ==
  job'[k].preempt_requested = job[k].preempt_requested /\ job'[k].queue = job[k].queue

\* Only an eviction sets the flag, and only the checkpoint clears it.
LEMMA FlagsKept ==
  ASSUME Typed, [Next]_vars, NEW k \in Jobs, job[k] # None, ~Checkpointed(k), ~Evict
  PROVE  KeepsFlag(k)
<1> USE DEF Typed
<1>1. job \in [Jobs -> Job \cup {None}] /\ job[k] \in Job
  BY DEF TypeOK, SchedTypeOK
<1>2. \A b \in BOOLEAN : LET j1 == [job[k] EXCEPT !.dispatched_at = b]
                         IN  /\ j1.preempt_requested = job[k].preempt_requested
                             /\ j1.queue = job[k].queue
  BY <1>1 DEF Job
<1>3. CASE \E j \in Jobs, r \in Requests : Generate(j, r)
  BY <1>1, <1>3 DEF Generate, Admit, KeepsFlag
<1>4. CASE \E g \in GPUs : OnPreempted(g)
  <2>1. PICK g \in GPUs : OnPreempted(g)
    BY <1>4
  <2>2. Head(response_q[g]).request_id # k
    BY <2>1 DEF Checkpointed
  <2>3. job'[k] = job[k]
    BY <1>1, <2>1, <2>2, Zenon DEF OnPreempted, RequeuePreempted
  <2> QED
    BY <2>3 DEF KeepsFlag
<1>5. CASE \E h \in Jobs, g \in GPUs : DispatchBatch(h, g)
  <2>1. PICK h \in Jobs : Take(h)
    BY <1>5 DEF DispatchBatch
  <2>2. job'[k] = job[k] \/ job'[k] = [job[k] EXCEPT !.dispatched_at = TRUE]
    BY <2>1 DEF Take
  <2> QED
    BY <1>2, <2>2 DEF KeepsFlag
<1>6. CASE \E h \in Jobs : HoldBatch(h)
  <2>1. PICK h \in Jobs : TakeAndRequeue(h)
    BY <1>6 DEF HoldBatch
  <2>2. job'[k] = job[k] \/ job'[k] = [job[k] EXCEPT !.dispatched_at = FALSE]
    BY <2>1 DEF TakeAndRequeue
  <2> QED
    BY <1>2, <2>2 DEF KeepsFlag
<1>7. CASE \/ \E r \in Requests : Reject(r)
           \/ \E j \in Jobs : Cancel(j) \/ Respond(j) \/ TimerFire(j)
           \/ Age \/ Idle \/ Wake \/ FillDone \/ UNCHANGED vars
           \/ \E g \in GPUs : OnFinished(g)
           \/ \E g \in GPUs : (WorkerStep(g) \/ BatchError(g)) /\ UNCHANGED gatewayVars
  <2>1. UNCHANGED job
    BY <1>7 DEF Reject, Cancel, Respond, TimerFire, Age, Idle, Wake, FillDone, OnFinished,
                vars, schedVars, gatewayVars
  <2> QED
    BY <2>1 DEF KeepsFlag
<1> QED
  BY <1>3, <1>4, <1>5, <1>6, <1>7 DEF Next, Client, DispatcherStep

\* A GPU whose group, jobs and signals a step leaves as they were.
LEMMA FlagSame ==
  ASSUME NEW g \in GPUs, FlagTrue(g), OldSignals(g), busy'[g] = busy[g],
         OwedIds(g)' = OwedIds(g), stats.batches_dispatched \in Nat,
         stats.batches_dispatched' \in {stats.batches_dispatched, stats.batches_dispatched + 1},
         Range(control_q'[g]) \subseteq Range(control_q[g]),
         Range(control_q[g]) \subseteq Nat,
         busy[g] # None => /\ Told(g)' <=> Told(g)
                           /\ busy[g].batch_id \in Nat
                           /\ KeepsFlag(busy[g].head)
  PROVE  FlagTrue(g)' /\ OldSignals(g)'
<1> HIDE DEF OwedIds
<1>1. OldSignals(g)'
  BY DEF OldSignals
<1>2. ASSUME busy[g] # None PROVE FlagTrue(g)'
  <2>1. Flagged(g)' = Flagged(g)
    BY <1>2 DEF Flagged, KeepsFlag
  <2>2. busy[g].batch_id <= stats.batches_dispatched'
    BY <1>2 DEF FlagTrue
  <2>3. job'[busy'[g].head].queue = job[busy[g].head].queue
    BY <1>2 DEF KeepsFlag
  <2>4. Preemptive' = Preemptive
    BY DEF Preemptive
  <2> HIDE DEF Told, Flagged
  <2> QED
    BY <1>2, <2>1, <2>2, <2>3, <2>4 DEF FlagTrue
<1> QED
  BY <1>1, <1>2 DEF FlagTrue

\* What a drain of a control queue leaves of it.
LEMMA RangeOfDrained ==
  ASSUME NEW S, NEW q \in Seq(S), NEW n \in 0..Len(q)
  PROVE  LET rest == SubSeq(q, n + 1, Len(q))
         IN  /\ Range(rest) \subseteq Range(q)
             /\ \A x \in Range(q) : x \in Range(rest) \/ \E i \in 1..n : q[i] = x
<1> DEFINE rest == SubSeq(q, n + 1, Len(q))
<1>1. Len(q) \in Nat /\ DOMAIN q = 1..Len(q)
  BY LenProperties
<1>2. /\ rest \in Seq(S) /\ Len(rest) = Len(q) - n
      /\ \A i \in 1..(Len(q) - n) : rest[i] = q[n + i]
  <2>1. n + 1 \in 1..(Len(q) + 1)
    BY <1>1
  <2>2. /\ rest \in Seq(S)
        /\ Len(rest) = IF n + 1 <= Len(q) THEN Len(q) - (n + 1) + 1 ELSE 0
        /\ \A i \in 1..(Len(q) - (n + 1) + 1) : rest[i] = q[(n + 1) + i - 1]
    <3>1. \A i \in (n + 1)..Len(q) : q[i] \in S
      BY <1>1, ElementOfSeq
    <3> QED
      BY <1>1, <2>1, <3>1, SubSeqProperties
  <2>3. n \in Nat /\ n <= Len(q)
    BY <1>1
  <2> HIDE DEF rest
  <2>4. Len(rest) = Len(q) - n
    <3>1. PICK len \in Nat : len = Len(q) /\ n <= len
      BY <1>1, <2>3
    <3>2. Len(rest) = IF n + 1 <= len THEN len - (n + 1) + 1 ELSE 0
      BY <2>2, <3>1
    <3>3. Len(rest) = len - n
      BY <2>3, <3>1, <3>2
    <3> QED
      BY <3>1, <3>3
  <2>5. \A i \in 1..(Len(q) - n) : i \in 1..(Len(q) - (n + 1) + 1) /\ (n + 1) + i - 1 = n + i
    BY <1>1, <2>3
  <2>6. ASSUME NEW i \in 1..(Len(q) - n) PROVE rest[i] = q[n + i]
    <3>1. rest[i] = q[(n + 1) + i - 1]
      BY <2>2, <2>5
    <3>2. (n + 1) + i - 1 = n + i
      BY <2>5
    <3> QED
      BY <3>1, <3>2, Zenon
  <2> QED
    BY <2>2, <2>4, <2>6
<1>3. DOMAIN rest = 1..(Len(q) - n)
  BY <1>2, LenProperties
<1> HIDE DEF rest
<1>4. ASSUME NEW i \in DOMAIN rest PROVE rest[i] \in Range(q)
  <2>1. n + i \in DOMAIN q /\ rest[i] = q[n + i]
    BY <1>1, <1>2, <1>3
  <2> QED
    BY <2>1 DEF Range
<1>5. ASSUME NEW x \in Range(q), ~\E i \in 1..n : q[i] = x PROVE x \in Range(rest)
  <2>1. PICK i \in DOMAIN q : q[i] = x
    BY DEF Range
  <2>2. i - n \in DOMAIN rest /\ rest[i - n] = q[n + (i - n)] /\ n + (i - n) = i
    <3>1. i \notin 1..n
      BY <1>5, <2>1
    <3>2. i - n \in 1..(Len(q) - n) /\ n + (i - n) = i
      BY <1>1, <3>1
    <3> QED
      BY <1>2, <1>3, <3>2
  <2> QED
    BY <2>1, <2>2 DEF Range
<1> QED
  BY <1>4, <1>5 DEF rest, Range

\* A worker looks for its own batch id, and every message it reads for another
\* batch it throws away; it checkpoints exactly when it finds its own.
LEMMA ToldWorker ==
  ASSUME Settled, NEW g \in GPUs, WorkerStep(g) \/ BatchError(g),
         UNCHANGED gatewayVars, NEW k \in GPUs
  PROVE  /\ Range(control_q[k]) \subseteq Nat
         /\ Range(control_q'[k]) \subseteq Range(control_q[k])
         /\ busy[k] # None => (Told(k)' <=> Told(k))
<1> USE DEF Settled
<1>1. UNCHANGED <<job, busy, stats>> /\ stats.batches_dispatched \in Nat
  BY DEF gatewayVars, schedVars, Typed, TypeOK
<1>2. \A i \in GPUs : control_q[i] \in Seq(Nat) /\ Range(control_q[i]) \subseteq Nat
  <2>1. \A i \in GPUs : control_q[i] \in Seq(Nat)
    BY DEF Typed, TypeOK, WorkerTypeOK
  <2> QED
    BY <2>1, RangeOfSeq
<1> DEFINE Goal == /\ Range(control_q'[k]) \subseteq Range(control_q[k])
                   /\ busy[k] # None => (Told(k)' <=> Told(k))
<1> SUFFICES Goal
  BY <1>2
<1>3. ASSUME control_q'[k] = control_q[k], response_q'[k] = response_q[k]
      PROVE  Goal
  <2>1. Told(k)' <=> Told(k)
    BY <1>1, <1>3 DEF Told
  <2> HIDE DEF Told
  <2> QED
    BY <1>3, <2>1
<1>4. CASE k # g
  <2> USE DEF Typed, TypeOK, WorkerTypeOK
  <2>1. control_q'[k] = control_q[k] /\ response_q'[k] = response_q[k]
    BY <1>4 DEF WorkerStep, StartBatch, PreemptBatch, Denoise, FinishBatch, BatchError, Answer, Drain
  <2> QED
    BY <1>3, <2>1
<1>5. CASE k = g /\ StartBatch(g)
  BY <1>3, <1>5 DEF StartBatch
<1>6. ASSUME running[g] # None
      PROVE  /\ busy[g] # None /\ response_q[g] = <<>>
             /\ busy[g].batch_id = running[g].batch.batch_id
             /\ Len(running[g].batch.jobs) \in Nat \ {0}
  <2>1. busy[g] # None /\ Executing(g)
    BY <1>6 DEF GroupAccounting, Unused, Sent, Answering
  <2>2. running[g].batch.jobs # <<>>
    BY <2>1 DEF Executing, Describes
  <2> QED
    BY <1>6, <2>1, <2>2, RunningParts, EmptySeq DEF Executing, Describes, Typed, TypeOK
<1>7. ASSUME running[g] # None, NEW n \in 0..Len(control_q[g]), Drain(g, n)
       PROVE  /\ Range(control_q'[g]) \subseteq Range(control_q[g])
              /\ Hit(g, n) => busy[g].batch_id \in Range(control_q[g])
              /\ ~Hit(g, n) => (busy[g].batch_id \in Range(control_q'[g])
                                  <=> busy[g].batch_id \in Range(control_q[g]))
  <2>1. control_q'[g] = SubSeq(control_q[g], n + 1, Len(control_q[g]))
    BY <1>7 DEF Drain, Typed, TypeOK, WorkerTypeOK
  <2>2. /\ Range(control_q'[g]) \subseteq Range(control_q[g])
        /\ \A x \in Range(control_q[g]) :
             x \in Range(control_q'[g]) \/ \E i \in 1..n : control_q[g][i] = x
    BY <1>2, <2>1, RangeOfDrained
  <2>3. \A i \in 1..n : control_q[g][i] \in Range(control_q[g])
    <3>1. DOMAIN control_q[g] = 1..Len(control_q[g]) /\ Len(control_q[g]) \in Nat
      BY <1>2, LenProperties
    <3>2. \A i \in 1..n : i \in DOMAIN control_q[g]
      BY <3>1
    <3> QED
      BY <3>2 DEF Range
  <2> QED
    BY <1>6, <1>7, <2>2, <2>3 DEF Hit
<1>8. ASSUME running[g] # None, NEW msgs \in {Checkpoints(g), Results(g), Failures(g)},
              Answer(g, msgs)
       PROVE  /\ response_q'[g] = msgs
              /\ DOMAIN msgs = DOMAIN running[g].batch.jobs /\ 1 \in DOMAIN msgs
  <2>1. msgs \in Seq(Response) /\ Len(msgs) = Len(running[g].batch.jobs)
    BY <1>8, Answers DEF Typed, TypeOK
  <2>2. response_q'[g] = <<>> \o msgs
    BY <1>6, <1>8 DEF Answer, Typed, TypeOK, WorkerTypeOK
  <2>3. response_q'[g] = msgs
    BY <2>1, <2>2, ConcatEmptySeq
  <2>4. DOMAIN msgs = 1..Len(msgs) /\ Len(msgs) \in Nat \ {0}
    BY <1>6, <1>8, <2>1, LenProperties
  <2> QED
    BY <1>8, <2>1, <2>3, <2>4, RunningParts DEF Typed, TypeOK
<1>9. CASE k = g /\ PreemptBatch(g)
  <2>1. running[g] # None /\ Answer(g, Checkpoints(g))
    BY <1>9 DEF PreemptBatch, InLoop
  <2>2. PICK n \in 0..Len(control_q[g]) : Hit(g, n) /\ Drain(g, n)
    BY <1>9 DEF PreemptBatch
  <2>3. Told(g) /\ Range(control_q'[g]) \subseteq Range(control_q[g])
    BY <1>7, <2>1, <2>2 DEF Told
  <2>4. Told(g)'
    <3> DEFINE msgs == Checkpoints(g)
    <3>1. response_q'[g] = msgs /\ 1 \in DOMAIN msgs
      BY <1>8, <2>1
    <3>2. msgs[1].type = "preempted" /\ msgs[1] \in Range(msgs)
      BY <3>1 DEF Checkpoints, Range
    <3> HIDE DEF msgs
    <3> QED
      BY <3>1, <3>2 DEF Told
  <2> HIDE DEF Told
  <2> QED
    BY <1>9, <2>3, <2>4
<1>10. CASE k = g /\ Denoise(g)
  <2>1. running[g] # None /\ UNCHANGED response_q
    BY <1>10 DEF Denoise, InLoop
  <2>2. PICK n \in 0..Len(control_q[g]) :
          /\ running[g].batch.preemptible => ~Hit(g, n)
          /\ ~running[g].batch.preemptible => n = 0
          /\ Drain(g, n)
    BY <1>10 DEF Denoise
  <2>3. ~Hit(g, n)
    <3>1. CASE running[g].batch.preemptible
      BY <2>2, <3>1
    <3>2. CASE ~running[g].batch.preemptible
      BY <2>2, <3>2 DEF Hit
    <3> QED
      BY <3>1, <3>2
  <2>4. /\ Range(control_q'[g]) \subseteq Range(control_q[g])
        /\ Told(g)' <=> Told(g)
    <3>1. /\ Range(control_q'[g]) \subseteq Range(control_q[g])
          /\ busy[g].batch_id \in Range(control_q'[g]) <=> busy[g].batch_id \in Range(control_q[g])
      BY <1>7, <2>1, <2>2, <2>3
    <3> QED
      BY <1>1, <2>1, <3>1 DEF Told
  <2> HIDE DEF Told
  <2> QED
    BY <1>10, <2>4
<1>11. ASSUME k = g, running[g] # None, UNCHANGED control_q,
              NEW msgs \in {Results(g), Failures(g)}, Answer(g, msgs)
       PROVE  Goal
  <2>1. response_q'[g] = msgs /\ DOMAIN msgs = DOMAIN running[g].batch.jobs
    BY <1>8, <1>11
  <2>2. \A i \in DOMAIN msgs : msgs[i].type # "preempted"
    BY <1>11, <2>1 DEF Results, Failures
  <2>3. ~\E m \in Range(response_q'[g]) : m.type = "preempted"
    BY <2>1, <2>2 DEF Range
  <2>4. ~\E m \in Range(response_q[g]) : m.type = "preempted"
    BY <1>6, <1>11 DEF Range
  <2>5. Told(g)' <=> Told(g)
    BY <1>1, <1>11, <2>3, <2>4 DEF Told
  <2> HIDE DEF Told
  <2> QED
    BY <1>11, <2>5
<1> HIDE DEF Goal
<1> QED
  BY <1>4, <1>5, <1>9, <1>10, <1>11 DEF WorkerStep, FinishBatch, BatchError

\* So a worker's step leaves the flags as true as they were.
LEMMA FlagWorker ==
  ASSUME Settled, FlagsTrue, NEW g \in GPUs, WorkerStep(g) \/ BatchError(g),
         UNCHANGED gatewayVars, NEW k \in GPUs
  PROVE  FlagTrue(k)' /\ OldSignals(k)'
<1>1. UNCHANGED <<job, busy, stats>> /\ stats.batches_dispatched \in Nat
  BY DEF gatewayVars, schedVars, Settled, Typed, TypeOK
<1>2. OwedIds(k)' = OwedIds(k)
  BY OwedWorker DEF Settled
<1>3. busy[k] # None => busy[k].batch_id \in Nat /\ KeepsFlag(busy[k].head)
  BY <1>1 DEF Settled, Typed, TypeOK, Group, KeepsFlag
<1>4. FlagTrue(k) /\ OldSignals(k) /\ busy'[k] = busy[k]
      /\ stats.batches_dispatched' = stats.batches_dispatched
  BY <1>1 DEF FlagsTrue
<1> HIDE DEF OwedIds, Told
<1> QED
  BY <1>1, <1>2, <1>3, <1>4, ToldWorker, FlagSame

\* The one message of a batch of one frees its GPU.
LEMMA LastMessage ==
  ASSUME Settled, Settled', NEW g \in GPUs, FlagTrue(g), TakeResponse(g)
  PROVE  /\ busy[g] # None /\ busy' = [busy EXCEPT ![g] = None]
         /\ Head(response_q[g]).request_id = busy[g].head
         /\ \A k \in GPUs : k # g => /\ OwedIds(k)' = OwedIds(k)
                                     /\ response_q'[k] = response_q[k]
         /\ UNCHANGED <<control_q, request_q, running>>
<1> USE DEF Settled
<1>1. response_q[g] # <<>> /\ UNCHANGED <<control_q, request_q, running>>
      /\ response_q' = [response_q EXCEPT ![g] = Tail(response_q[g])]
  BY DEF TakeResponse
<1>2. busy[g] # None /\ request_q[g] = <<>> /\ running[g] = None
  BY <1>1 DEF GroupAccounting, Unused, Sent, Executing, Answering
<1>3. OwedIds(g) = <<busy[g].head>>
  BY <1>2 DEF FlagTrue
<1>4. /\ Head(OwedIds(g)) = Head(response_q[g]).request_id /\ OwedIds(g)' = Tail(OwedIds(g))
      /\ \A k \in GPUs : k # g => OwedIds(k)' = OwedIds(k)
  BY OwedTakeResponse
<1>5. Head(response_q[g]).request_id = busy[g].head /\ OwedIds(g)' = <<>>
  <2> HIDE DEF OwedIds
  <2> QED
    BY <1>3, <1>4
<1>6. response_q'[g] = <<>>
  <2>1. Owed(g)' = response_q'[g]
    BY <1>1, <1>2 DEF Owed
  <2>2. DOMAIN response_q'[g] = {}
    BY <1>5, <2>1 DEF OwedIds
  <2>3. response_q'[g] \in Seq(Response)
    BY DEF Typed, TypeOK, WorkerTypeOK
  <2> QED
    BY <2>2, <2>3, EmptySeq, LenProperties
<1>7. busy'[g] = None
  BY <1>1, <1>2, <1>6 DEF GroupAccounting, Sent, Executing, Answering
<1>8. busy' = busy \/ busy' = [busy EXCEPT ![g] = Acknowledged(busy[g])]
  BY DEF TakeResponse, CountResponse
<1>9. busy' = [busy EXCEPT ![g] = None]
  BY <1>2, <1>7, <1>8 DEF Typed, TypeOK
<1>10. \A k \in GPUs : k # g => response_q'[k] = response_q[k]
  BY <1>1 DEF Typed, TypeOK, WorkerTypeOK
<1> QED
  BY <1>1, <1>2, <1>4, <1>5, <1>9, <1>10

\* The checkpoint of a job takes its flag with it.
LEMMA FlagsOfMessage ==
  ASSUME Settled, Settled', [Next]_vars, FlagsTrue, NEW g \in GPUs,
         OnPreempted(g) \/ OnFinished(g)
  PROVE  FlagsTrue'
<1> USE DEF Settled
<1>1. TakeResponse(g) /\ FlagTrue(g)
  BY DEF OnPreempted, OnFinished, FlagsTrue
<1> DEFINE rid == Head(response_q[g]).request_id
<1>2. /\ busy[g] # None /\ busy' = [busy EXCEPT ![g] = None] /\ rid = busy[g].head
      /\ \A k \in GPUs : k # g => OwedIds(k)' = OwedIds(k) /\ response_q'[k] = response_q[k]
      /\ UNCHANGED control_q
  BY <1>1, LastMessage
<1>3. \A j \in Jobs : j # rid => job'[j] = job[j]
  BY CheckpointedJob DEF OnFinished
<1>4. stats.batches_dispatched' = stats.batches_dispatched /\ stats.batches_dispatched \in Nat
  <2>1. stats.batches_dispatched \in Nat
    BY DEF Typed, TypeOK
  <2>2. CASE OnPreempted(g)
    BY <2>2, CheckpointedJob DEF Typed, TypeOK
  <2>3. CASE OnFinished(g)
    BY <2>1, <2>3 DEF OnFinished
  <2> QED
    BY <2>1, <2>2, <2>3
<1>5. \A k \in GPUs : Range(control_q[k]) \subseteq Nat
  <2>1. \A k \in GPUs : control_q[k] \in Seq(Nat)
    BY DEF Typed, TypeOK, WorkerTypeOK
  <2> QED
    BY <2>1, RangeOfSeq
<1>6. ASSUME NEW k \in GPUs PROVE FlagTrue(k)' /\ OldSignals(k)'
  <2>1. FlagTrue(k) /\ OldSignals(k)
    BY DEF FlagsTrue
  <2>2. CASE k = g
    <3>1. busy'[k] = None
      BY <1>2, <2>2 DEF Typed, TypeOK
    <3> QED
      BY <1>2, <1>4, <2>1, <3>1 DEF FlagTrue, OldSignals
  <2>3. CASE k # g
    <3>1. busy'[k] = busy[k]
      BY <1>2, <2>3
    <3>2. ASSUME busy[k] # None
          PROVE  /\ Told(k)' <=> Told(k)
                 /\ busy[k].batch_id \in Nat
                 /\ KeepsFlag(busy[k].head)
      <4>1. Told(k)' <=> Told(k)
        BY <1>2, <2>3, <3>1 DEF Told
      <4>2. busy[k].batch_id \in Nat /\ busy[k].head \in Jobs
        BY <3>2 DEF Typed, TypeOK, Group
      <4>3. busy[k].head # rid
        <5>1. rid \notin Range(OwedIds(k))
          BY <1>1, <2>3, MessageOfPending
        <5>2. OwedIds(k) = <<busy[k].head>>
          BY <2>1, <3>2 DEF FlagTrue
        <5> HIDE DEF OwedIds, rid
        <5>3. busy[k].head \in Range(OwedIds(k))
          BY <5>2 DEF Range
        <5> QED
          BY <5>1, <5>3
      <4>4. KeepsFlag(busy[k].head)
        BY <1>3, <4>2, <4>3 DEF KeepsFlag
      <4> HIDE DEF Told, KeepsFlag
      <4> QED
        BY <4>1, <4>2, <4>4
    <3>3. /\ OwedIds(k)' = OwedIds(k)
          /\ Range(control_q'[k]) \subseteq Range(control_q[k])
          /\ Range(control_q[k]) \subseteq Nat
      BY <1>2, <1>5, <2>3
    <3>4. stats.batches_dispatched' \in {stats.batches_dispatched, stats.batches_dispatched + 1}
      BY <1>4
    <3> HIDE DEF Told, KeepsFlag, OwedIds
    <3> QED
      BY <1>4, <2>1, <3>1, <3>2, <3>3, <3>4, FlagSame
  <2> QED
    BY <2>2, <2>3
<1>7. ASSUME NEW j \in Queued' PROVE ~job'[j].preempt_requested
  <2>1. CASE OnFinished(g)
    <3>1. UNCHANGED <<job, queues>>
      BY <2>1 DEF OnFinished
    <3> QED
      BY <1>7, <3>1 DEF FlagsTrue, Queued
  <2>2. CASE OnPreempted(g)
    <3>1. Queued' = Queued \cup {rid}
      BY <2>2, PlacedOnPreempted
    <3>2. ~job'[rid].preempt_requested
      <4> DEFINE m == Head(response_q[g])
                 resume == [latents |-> m.latents, step_index |-> m.step_index]
      <4>1. /\ rid \in pending /\ m \in Response /\ m.type = "preempted"
            /\ rid \in Jobs /\ job[rid] # None
        BY <2>2, CheckpointedJob
      <4>2. RequeuePreempted(rid, resume)
        BY <2>2, <4>1 DEF OnPreempted
      <4>3. resume \in ResumeState /\ job[rid] \in Job
        BY <4>1 DEF Response, ResumeState, Typed, TypeOK, SchedTypeOK
      <4> HIDE DEF rid, m, resume
      <4> DEFINE requeued == [job[rid] EXCEPT !.resume_state = resume,
                                              !.preempt_requested = FALSE,
                                              !.preempt_count = @ + 1,
                                              !.dispatched_at = FALSE]
      <4>4. job' = [job EXCEPT ![rid] = requeued]
        BY <4>2, Zenon DEF RequeuePreempted
      <4>5. requeued.preempt_requested = FALSE
        BY <4>3 DEF Job
      <4> HIDE DEF requeued
      <4> QED
        BY <4>1, <4>4, <4>5 DEF Typed, TypeOK, SchedTypeOK
    <3>3. \A k \in Queued : k \in Jobs /\ ~job[k].preempt_requested
      BY SelectedGroup DEF FlagsTrue
    <3> HIDE DEF Queued, rid
    <3> QED
      BY <1>3, <1>7, <3>1, <3>2, <3>3
  <2> QED
    BY <2>1, <2>2
<1> QED
  BY <1>6, <1>7 DEF FlagsTrue

\* With MAX_BATCH = 1 a group is its head, and nothing is held.
LEMMA GroupOfOne ==
  ASSUME Settled, MAX_BATCH = 1, NEW h \in Queued
  PROVE  GroupOf(h) = <<h>> /\ ~HoldBatch(h)
<1> USE DEF Settled
<1> DEFINE grp == GroupOf(h)
<1>1. grp \in Seq(Jobs) /\ grp # <<>>
  BY SelectedGroup
<1>2. Len(grp) <= 1 /\ h \in Range(grp)
  <2>1. /\ h \in Jobs /\ job[h] \in Job /\ job[h].queue \in Class
        /\ h \in Range(queues[job[h].queue])
    BY SelectedGroup
  <2> QED
    BY <2>1, GroupApartFromRest DEF Placed, QueuesOnce, Typed, TypeOK
<1> HIDE DEF grp
<1>3. Len(grp) = 1 /\ DOMAIN grp = 1..1
  <2>1. Len(grp) \in Nat /\ Len(grp) # 0 /\ DOMAIN grp = 1..Len(grp)
    BY <1>1, EmptySeq, LenProperties
  <2> QED
    BY <1>2, <2>1
<1>4. grp[1] = h
  BY <1>2, <1>3 DEF Range
<1>5. grp = <<h>>
  BY <1>1, <1>3, <1>4
<1>6. ~(Len(grp) < MAX_BATCH)
  BY <1>3
<1> QED
  BY <1>5, <1>6 DEF HoldBatch, MustHold, grp

\* A group starts unflagged, under a number that no signal carries yet.
LEMMA FlagsOfDispatch ==
  ASSUME Settled, MAX_BATCH = 1, [Next]_vars, FlagsTrue, NEW h \in Jobs, NEW g \in GPUs,
         DispatchBatch(h, g), ~Evict, \A k \in GPUs : ~OnPreempted(k)
  PROVE  FlagsTrue'
<1> USE DEF Settled
<1> DEFINE n == stats.batches_dispatched
<1>1. /\ h \in Queued /\ busy[g] = None /\ busy' = [busy EXCEPT ![g] = NewGroup(h)]
      /\ UNCHANGED <<control_q, response_q, running>>
      /\ n \in Nat /\ n' = n + 1
  BY DEF DispatchBatch, LeastUtilised, Free, Typed, TypeOK
<1>2. \A k \in Jobs : job[k] # None => KeepsFlag(k)
  BY FlagsKept DEF Checkpointed
<1>3. /\ OwedIds(g)' = GroupOf(h)
      /\ \A k \in GPUs : k # g => OwedIds(k)' = OwedIds(k)
  BY <1>1, OwedDispatch
<1>4. GroupOf(h) = <<h>>
  BY <1>1, GroupOfOne
<1>5. job[h] # None
  BY <1>1, SelectedGroup, NoneAssumption
<1>6. \A k \in GPUs : Range(control_q[k]) \subseteq Nat
  <2>1. \A k \in GPUs : control_q[k] \in Seq(Nat)
    BY DEF Typed, TypeOK, WorkerTypeOK
  <2> QED
    BY <2>1, RangeOfSeq
<1>7. FlagTrue(g)' /\ OldSignals(g)'
  <2>1. \A id \in Range(control_q[g]) : id \in Nat /\ id <= n
    BY <1>6 DEF FlagsTrue, OldSignals
  <2>2. busy'[g] = NewGroup(h) /\ NewGroup(h).head = h /\ NewGroup(h).batch_id = n + 1
    BY <1>1 DEF Typed, TypeOK, NewGroup, NewBatchId
  <2>3. ~Told(g)'
    <3>1. response_q[g] = <<>>
      BY <1>1 DEF GroupAccounting, Unused
    <3>2. n + 1 \notin Range(control_q[g])
      BY <1>1, <2>1
    <3> QED
      BY <1>1, <2>2, <3>1, <3>2 DEF Told, Range
  <2>4. ~Flagged(g)'
    BY <1>1, <1>2, <1>5, <2>2 DEF Flagged, KeepsFlag, FlagsTrue
  <2>5. OldSignals(g)'
    BY <1>1, <2>1 DEF OldSignals
  <2> HIDE DEF OwedIds, Told, Flagged
  <2> QED
    BY <1>1, <1>3, <1>4, <2>2, <2>3, <2>4, <2>5 DEF FlagTrue
<1>8. ASSUME NEW k \in GPUs, k # g PROVE FlagTrue(k)' /\ OldSignals(k)'
  <2>1. FlagTrue(k) /\ OldSignals(k)
    BY DEF FlagsTrue
  <2>2. busy'[k] = busy[k]
    BY <1>1, <1>8
  <2>3. ASSUME busy[k] # None
        PROVE  /\ Told(k)' <=> Told(k)
               /\ busy[k].batch_id \in Nat
               /\ KeepsFlag(busy[k].head)
    <3>1. Told(k)' <=> Told(k)
      BY <1>1, <2>2 DEF Told
    <3>2. busy[k].batch_id \in Nat /\ busy[k].head \in Jobs /\ job[busy[k].head] # None
      BY <2>3 DEF Typed, TypeOK, JobsExist, Group
    <3> HIDE DEF Told, KeepsFlag
    <3> QED
      BY <1>2, <3>1, <3>2
  <2>4. /\ OwedIds(k)' = OwedIds(k)
        /\ Range(control_q'[k]) \subseteq Range(control_q[k])
        /\ Range(control_q[k]) \subseteq Nat
    BY <1>1, <1>3, <1>6, <1>8
  <2> HIDE DEF Told, KeepsFlag, OwedIds
  <2> QED
    BY <1>1, <2>1, <2>2, <2>3, <2>4, FlagSame
<1>9. ASSUME NEW j \in Queued' PROVE ~job'[j].preempt_requested
  <2>1. j \in Queued
    <3>1. Queued' = Queued \ Range(GroupOf(h))
      BY PlacedDispatch
    <3> HIDE DEF Queued
    <3> QED
      BY <1>9, <3>1
  <2>2. j \in Jobs /\ job[j] # None
    BY <2>1, SelectedGroup, NoneAssumption
  <2> QED
    BY <1>2, <2>1, <2>2 DEF FlagsTrue, KeepsFlag
<1> QED
  BY <1>7, <1>8, <1>9 DEF FlagsTrue

\* The victims are at work on preemptible batches that have no flag.
LEMMA VictimsAre ==
  ASSUME Typed, NEW g \in Victims
  PROVE  /\ g \in GPUs /\ busy[g] \in Group /\ busy[g] # None
         /\ busy[g].head \in Jobs /\ job[busy[g].head] \in Job
         /\ Preemptive /\ Preemptible(job[busy[g].head].queue) /\ ~Flagged(g)
<1>1. g \in GPUs /\ Preemptive /\ Free = {} /\ Preemptible(job[busy[g].head].queue) /\ ~Flagged(g)
  BY DEF Victims, EvictionCandidates
<1>2. busy[g] # None /\ busy[g] \in Group
  BY <1>1 DEF Free, Typed, TypeOK
<1> QED
  BY <1>1, <1>2 DEF Typed, TypeOK, SchedTypeOK, JobsExist, Group

\* An eviction flags the heads of its victims and sends each worker its batch id.
LEMMA FlagsOfEvict ==
  ASSUME Settled, FlagsTrue, Evict
  PROVE  /\ FlagsTrue'
         /\ \A g \in GPUs : busy[g] # None => (Flagged(g)' <=> Flagged(g) \/ g \in Victims)
<1> USE DEF Settled
<1> DEFINE V == Victims
<1>1. /\ UNCHANGED <<queues, request_q, response_q, running, busy, stats>>
      /\ job' = [j \in Jobs |->
                   IF \E g \in V : busy[g].head = j
                   THEN [job[j] EXCEPT !.preempt_requested = TRUE] ELSE job[j]]
      /\ control_q' = [g \in GPUs |->
                         IF g \in V THEN Append(control_q[g], busy[g].batch_id)
                         ELSE control_q[g]]
  BY DEF Evict
<1>2. \A g \in V : /\ g \in GPUs /\ busy[g] \in Group /\ busy[g] # None
                   /\ busy[g].head \in Jobs /\ job[busy[g].head] \in Job
                   /\ Preemptive /\ Preemptible(job[busy[g].head].queue)
  BY VictimsAre
<1> HIDE DEF V
<1>3. \A k \in GPUs : OwedIds(k)' = OwedIds(k)
  BY <1>1, OwedUntouched
<1>4. \A k \in GPUs : busy[k] # None => busy[k].head \in Range(OwedIds(k))
  <2> SUFFICES ASSUME NEW k \in GPUs, busy[k] # None PROVE busy[k].head \in Range(OwedIds(k))
    OBVIOUS
  <2>1. OwedIds(k) = <<busy[k].head>>
    BY DEF FlagsTrue, FlagTrue
  <2> HIDE DEF OwedIds
  <2> QED
    BY <2>1 DEF Range
<1>5. \A g, k \in GPUs : busy[g] # None /\ busy[k] # None /\ busy[g].head = busy[k].head => g = k
  <2> HIDE DEF OwedIds
  <2> QED
    BY <1>4 DEF Placed, PlacesApart
<1>6. \A g \in V : /\ job'[busy[g].head].preempt_requested = TRUE
                   /\ job'[busy[g].head].queue = job[busy[g].head].queue
  <2> SUFFICES ASSUME NEW g \in V
               PROVE  /\ job'[busy[g].head].preempt_requested = TRUE
                      /\ job'[busy[g].head].queue = job[busy[g].head].queue
    OBVIOUS
  <2>1. PICK j \in Jobs : j = busy[g].head /\ job[j] \in Job
    BY <1>2
  <2>2. job'[j] = [job[j] EXCEPT !.preempt_requested = TRUE]
    BY <1>1, <2>1
  <2> QED
    BY <2>1, <2>2 DEF Job
<1>7. \A g \in GPUs : busy[g] # None /\ g \notin V => job'[busy[g].head] = job[busy[g].head]
  <2> SUFFICES ASSUME NEW g \in GPUs, busy[g] # None, g \notin V
               PROVE  job'[busy[g].head] = job[busy[g].head]
    OBVIOUS
  <2>1. busy[g].head \in Jobs
    BY DEF Typed, TypeOK, Group
  <2>2. ~\E k \in V : busy[k].head = busy[g].head
    BY <1>2, <1>5
  <2> QED
    BY <1>1, <2>1, <2>2
<1>8. \A k \in GPUs : control_q[k] \in Seq(Nat)
  BY DEF Typed, TypeOK, WorkerTypeOK
<1>9. ASSUME NEW k \in GPUs PROVE FlagTrue(k)' /\ OldSignals(k)'
  <2>1. FlagTrue(k) /\ OldSignals(k)
    BY DEF FlagsTrue
  <2>2. busy'[k] = busy[k] /\ stats' = stats /\ Preemptive' = Preemptive
    BY <1>1 DEF Preemptive
  <2>3. CASE k \in V
    <3>1. busy[k] # None /\ busy[k].batch_id \in Nat
      BY <1>2, <2>3 DEF Group
    <3>2. Range(control_q'[k]) = Range(control_q[k]) \cup {busy[k].batch_id}
      BY <1>1, <1>8, <2>3, <3>1, RangeOfAppend
    <3>3. OldSignals(k)'
      BY <2>1, <2>2, <3>1, <3>2 DEF OldSignals, FlagTrue
    <3>4. Told(k)'
      BY <2>2, <3>2 DEF Told
    <3>5. Flagged(k)' /\ Preemptive /\ Preemptible(job'[busy[k].head].queue)
      BY <1>2, <1>6, <2>2, <2>3 DEF Flagged
    <3> HIDE DEF OwedIds, Told, Flagged
    <3> QED
      BY <1>3, <2>1, <2>2, <3>1, <3>3, <3>4, <3>5 DEF FlagTrue
  <2>4. CASE k \notin V
    <3>1. control_q'[k] = control_q[k] /\ response_q'[k] = response_q[k]
      BY <1>1, <2>4
    <3>2. OldSignals(k)'
      BY <2>1, <2>2, <3>1 DEF OldSignals
    <3>3. ASSUME busy[k] # None PROVE FlagTrue(k)'
      <4>1. job'[busy[k].head] = job[busy[k].head]
        BY <1>7, <2>4, <3>3
      <4>2. Told(k)' <=> Told(k)
        BY <2>2, <3>1 DEF Told
      <4>3. Flagged(k)' <=> Flagged(k)
        BY <2>2, <4>1 DEF Flagged
      <4> HIDE DEF OwedIds, Told, Flagged
      <4> QED
        BY <1>3, <2>1, <2>2, <3>3, <4>1, <4>2, <4>3 DEF FlagTrue
    <3> QED
      BY <2>2, <3>2, <3>3 DEF FlagTrue
  <2> QED
    BY <2>3, <2>4
<1>10. ASSUME NEW j \in Queued' PROVE ~job'[j].preempt_requested
  <2>1. j \in Queued
    BY <1>1, <1>10 DEF Queued
  <2>2. ~\E g \in V : busy[g].head = j
    <3> HIDE DEF OwedIds, Queued
    <3> QED
      BY <1>2, <1>4, <2>1 DEF Placed, PlacesApart
  <2>3. j \in Jobs
    BY <2>1, SelectedGroup
  <2>4. job'[j] = job[j]
    BY <1>1, <2>2, <2>3
  <2> QED
    BY <2>1, <2>4 DEF FlagsTrue
<1>11. \A g \in GPUs : busy[g] # None => (Flagged(g)' <=> Flagged(g) \/ g \in V)
  <2> SUFFICES ASSUME NEW g \in GPUs, busy[g] # None
               PROVE  Flagged(g)' <=> Flagged(g) \/ g \in V
    OBVIOUS
  <2>1. CASE g \in V
    BY <1>1, <1>6, <2>1 DEF Flagged
  <2>2. CASE g \notin V
    BY <1>1, <1>7, <2>2 DEF Flagged
  <2> QED
    BY <2>1, <2>2
<1> QED
  BY <1>9, <1>10, <1>11 DEF FlagsTrue, V

LEMMA FlagsNext ==
  ASSUME Settled, Settled', YieldTrue, MAX_BATCH = 1, FlagsTrue, [Next]_vars
  PROVE  FlagsTrue'
<1> USE DEF Settled
<1>1. CASE \E g \in GPUs : OnPreempted(g) \/ OnFinished(g)
  BY <1>1, FlagsOfMessage
<1>2. CASE Evict
  BY <1>2, FlagsOfEvict
<1>3. CASE \E h \in Jobs, g \in GPUs : DispatchBatch(h, g)
  <2>1. PICK h \in Jobs, g \in GPUs : DispatchBatch(h, g)
    BY <1>3
  <2>2. ~Evict /\ \A k \in GPUs : ~OnPreempted(k)
    BY <2>1 DEF DispatchBatch, Evict, OnPreempted, TakeResponse, LoopIdle
  <2> QED
    BY <2>1, <2>2, FlagsOfDispatch
<1>4. CASE \E h \in Jobs : HoldBatch(h)
  BY <1>4, GroupOfOne DEF HoldBatch
<1>5. CASE \E g \in GPUs : (WorkerStep(g) \/ BatchError(g)) /\ UNCHANGED gatewayVars
  <2>1. \A k \in GPUs : FlagTrue(k)' /\ OldSignals(k)'
    BY <1>5, FlagWorker
  <2>2. UNCHANGED <<job, queues>>
    BY <1>5 DEF gatewayVars, schedVars
  <2> QED
    BY <2>1, <2>2 DEF FlagsTrue, Queued
<1>6. ASSUME ~Evict, ~\E g \in GPUs : OnPreempted(g) \/ OnFinished(g),
             UNCHANGED <<workerVars, busy>>,
             stats.batches_dispatched' = stats.batches_dispatched,
             \A j \in Queued' : j \in Queued \/ ~job'[j].preempt_requested
      PROVE  FlagsTrue'
  <2>1. \A k \in Jobs : job[k] # None => KeepsFlag(k)
    BY <1>6, FlagsKept DEF Checkpointed
  <2>2. ASSUME NEW k \in GPUs PROVE FlagTrue(k)' /\ OldSignals(k)'
    <3>1. FlagTrue(k) /\ OldSignals(k) /\ busy'[k] = busy[k]
          /\ stats.batches_dispatched \in Nat
      BY <1>6 DEF FlagsTrue, Typed, TypeOK
    <3>2. OwedIds(k)' = OwedIds(k)
      BY <1>6, OwedUntouched DEF workerVars
    <3>3. control_q[k] \in Seq(Nat) /\ control_q'[k] = control_q[k]
      BY <1>6 DEF workerVars, Typed, TypeOK, WorkerTypeOK
    <3>4. ASSUME busy[k] # None
          PROVE  /\ Told(k)' <=> Told(k)
                 /\ busy[k].batch_id \in Nat
                 /\ KeepsFlag(busy[k].head)
      <4>1. Told(k)' <=> Told(k)
        BY <1>6 DEF Told, workerVars
      <4>2. busy[k].batch_id \in Nat /\ busy[k].head \in Jobs /\ job[busy[k].head] # None
        BY <3>4 DEF Typed, TypeOK, JobsExist, Group
      <4> HIDE DEF Told, KeepsFlag
      <4> QED
        BY <2>1, <4>1, <4>2
    <3>5. Range(control_q[k]) \subseteq Nat /\ Range(control_q'[k]) \subseteq Range(control_q[k])
      BY <3>3, RangeOfSeq
    <3> HIDE DEF Told, KeepsFlag, OwedIds
    <3> QED
      BY <1>6, <3>1, <3>2, <3>4, <3>5, FlagSame
  <2>3. ASSUME NEW j \in Queued' PROVE ~job'[j].preempt_requested
    <3>1. CASE j \in Queued
      <4>1. j \in Jobs /\ job[j] # None
        BY <3>1, SelectedGroup, NoneAssumption
      <4> QED
        BY <2>1, <3>1, <4>1 DEF FlagsTrue, KeepsFlag
    <3>2. CASE j \notin Queued
      BY <1>6, <2>3, <3>2
    <3> QED
      BY <3>1, <3>2
  <2> QED
    BY <2>2, <2>3 DEF FlagsTrue
<1>7. CASE \E j \in Jobs, r \in Requests : Generate(j, r)
  <2>1. PICK j \in Jobs, r \in Requests : Generate(j, r)
    BY <1>7
  <2>2. /\ r.queue \in Class
        /\ queues' = [queues EXCEPT ![r.queue] = Append(queues[r.queue], j)]
        /\ job' = [job EXCEPT ![j] = NewJob(r)]
        /\ UNCHANGED <<workerVars, busy, stats>>
    BY <2>1, ConfigAssumption DEF Generate, Admit
  <2>3. Queued' \subseteq Queued \cup {j}
    <3>1. Range(Append(queues[r.queue], j)) = Range(queues[r.queue]) \cup {j}
      BY <2>2, RangeOfAppend DEF Typed, TypeOK, SchedTypeOK
    <3>2. Queued' = (Queued \ Range(queues[r.queue])) \cup Range(Append(queues[r.queue], j))
      BY <2>2, QueuedAfter
    <3>3. Range(queues[r.queue]) \subseteq Queued
      BY <2>2 DEF Queued
    <3> HIDE DEF Queued
    <3> QED
      BY <3>1, <3>2, <3>3
  <2>4. ~job'[j].preempt_requested
    BY <2>2 DEF NewJob, Typed, TypeOK, SchedTypeOK
  <2> HIDE DEF Queued
  <2> QED
    BY <1>1, <1>2, <1>6, <2>2, <2>3, <2>4
<1>8. CASE \/ \E r \in Requests : Reject(r)
           \/ \E j \in Jobs : Cancel(j) \/ Respond(j) \/ TimerFire(j)
           \/ Wake \/ FillDone \/ Age \/ Idle \/ UNCHANGED vars
  <2>1. UNCHANGED <<workerVars, busy, job, queues>>
    BY <1>8 DEF Reject, Cancel, Respond, TimerFire, Wake, FillDone, Age, Idle, vars, schedVars,
                workerVars
  <2>2. stats.batches_dispatched' = stats.batches_dispatched
    BY <1>8 DEF Reject, Cancel, Respond, TimerFire, Wake, FillDone, Age, Idle, vars,
                Typed, TypeOK
  <2>3. Queued' = Queued
    BY <2>1 DEF Queued
  <2> HIDE DEF Queued
  <2> QED
    BY <1>1, <1>2, <1>6, <2>1, <2>2, <2>3
<1> QED
  BY <1>1, <1>2, <1>3, <1>4, <1>5, <1>7, <1>8 DEF Next, Client, DispatcherStep

\* Between an eviction and the return of its checkpoint, and at no other time, the
\* flag is set and the worker's queue or answer shows it (policies.py, should_preempt;
\* gateway.py, the preempt message; worker.py, _preempt_requested).
THEOREM FlagsAreTrue ==
  ASSUME MAX_BATCH = 1
  PROVE  Spec => []FlagsTrue
<1>1. Init => FlagsTrue
  <2> SUFFICES ASSUME Init PROVE FlagsTrue
    OBVIOUS
  <2>1. Range(<<>>) = {}
    BY DEF Range
  <2>2. Queued = {}
    BY <2>1 DEF Init, SchedInit, Queued
  <2> QED
    BY <2>1, <2>2 DEF Init, WorkerInit, FlagsTrue, FlagTrue, OldSignals
<1>2. /\ Settled /\ Settled' /\ YieldTrue /\ FlagsTrue /\ [Next]_vars
      => FlagsTrue'
  BY FlagsNext
<1> QED
  BY SettledAlways, BatchesYieldTruly, <1>1, <1>2, PTL DEF Spec

\* No worker stops for a signal meant for an earlier batch: a checkpoint that comes
\* back was asked for, and its job still carries the request (worker.py,
\* _preempt_requested compares batch ids; gateway.py numbers batches).
THEOREM StaleSignalsIgnored ==
  ASSUME MAX_BATCH = 1
  PROVE  Spec => []StaleSignalIgnored
<1>1. Settled /\ FlagsTrue => StaleSignalIgnored
  <2> SUFFICES ASSUME Settled, FlagsTrue, NEW g \in GPUs, NEW m \in Range(response_q[g]),
                      m.type = "preempted"
               PROVE  job[busy[g].head].preempt_requested
    BY DEF StaleSignalIgnored
  <2>1. busy[g] # None
    BY DEF Settled, GroupAccounting, Unused, Range
  <2>2. Told(g)
    BY DEF Told
  <2> QED
    BY <2>1, <2>2 DEF FlagsTrue, FlagTrue, Flagged
<1> QED
  BY SettledAlways, FlagsAreTrue, <1>1, PTL

-----------------------------------------------------------------------------
(* How many *)

InHand == {g \in GPUs : Preemptible(job[busy[g].head].queue)}

LEMMA InFlightFlagged ==
  ASSUME FlagsTrue
  PROVE  /\ EvictionsInFlight = {g \in GPUs : busy[g] # None /\ Flagged(g)}
         /\ EvictionsInFlight \subseteq InHand
         /\ IsFiniteSet(EvictionsInFlight) /\ Cardinality(EvictionsInFlight) \in Nat
         /\ IsFiniteSet(InHand) /\ Cardinality(InHand) \in Nat
<1>1. \A g \in GPUs : busy[g] # None => (Flagged(g) <=> Told(g))
  BY DEF FlagsTrue, FlagTrue
<1>2. EvictionsInFlight = {g \in GPUs : busy[g] # None /\ Told(g)}
  BY DEF EvictionsInFlight, Told
<1>3. EvictionsInFlight = {g \in GPUs : busy[g] # None /\ Flagged(g)}
  <2> HIDE DEF Told, Flagged
  <2> QED
    BY <1>1, <1>2
<1>4. EvictionsInFlight \subseteq InHand
  BY <1>3 DEF InHand, FlagsTrue, FlagTrue
<1>5. IsFiniteSet(GPUs)
  BY ConfigAssumption, FS_Interval DEF GPUs
<1>6. EvictionsInFlight \subseteq GPUs /\ InHand \subseteq GPUs
  BY DEF EvictionsInFlight, InHand
<1> HIDE DEF EvictionsInFlight, InHand
<1> QED
  BY <1>3, <1>4, <1>5, <1>6, FS_Subset, FS_CardinalityType

\* With no GPU free, a pass tells as many groups to stop as it finds it needs, if
\* there are so many candidates.
LEMMA VictimsByRank ==
  ASSUME Typed, Preemptive, waiting("production") > 0, Free = {},
         EvictionNeed \in Int
  PROVE  /\ IsFiniteSet(EvictionCandidates) /\ IsFiniteSet(Victims)
         /\ Cardinality(Victims) =
              IF EvictionNeed <= 0 THEN 0
              ELSE Smaller(Cardinality(EvictionCandidates), EvictionNeed)
<1> DEFINE C == EvictionCandidates
           cl(g) == job[busy[g].head].queue
           key == [g \in C |-> IF Priority[cl(g)] = 2 THEN g ELSE NUM_GPUS + g]
           n == EvictionNeed
           first == {g \in C : Cardinality({h \in C : key[h] < key[g]}) < n}
<1>1. \A g \in GPUs : busy[g] # None /\ cl(g) \in Class
  <2> SUFFICES ASSUME NEW g \in GPUs PROVE busy[g] # None /\ cl(g) \in Class
    OBVIOUS
  <2>1. busy[g] # None /\ busy[g] \in Group
    BY DEF Free, Typed, TypeOK
  <2>2. job[busy[g].head] \in Job
    BY <2>1 DEF Typed, TypeOK, SchedTypeOK, JobsExist, Group
  <2> QED
    BY <2>1, <2>2 DEF Job
<1>2. \A c \in Class : Preemptible(c) => Priority[c] \in {1, 2}
  BY DEF Class, Priority, Preemptible
<1>3. \A g \in C : g \in GPUs /\ Priority[cl(g)] \in {1, 2}
  BY <1>1, <1>2 DEF EvictionCandidates
<1>4. \A g \in GPUs : g \in Int /\ 0 <= g /\ g < NUM_GPUS
  BY ConfigAssumption DEF GPUs
<1>5. NUM_GPUS \in Nat
  BY ConfigAssumption
<1>6. \A g, h \in C : VictimBefore(g, h) <=> key[g] < key[h]
  BY <1>3, <1>4, <1>5 DEF VictimBefore
<1>7. key \in [C -> Int] /\ \A g, h \in C : key[g] = key[h] => g = h
  BY <1>3, <1>4, <1>5
<1>8. IsFiniteSet(C)
  <2>1. IsFiniteSet(GPUs) /\ C \subseteq GPUs
    BY ConfigAssumption, FS_Interval DEF GPUs, EvictionCandidates
  <2> QED
    BY <2>1, FS_Subset
<1> HIDE DEF C, key, n
<1>9. Victims = first
  <2>1. \A g \in C : {h \in C : VictimBefore(h, g)} = {h \in C : key[h] < key[g]}
    BY <1>6
  <2>2. Victims = {g \in C : Cardinality({h \in C : VictimBefore(h, g)}) < n}
    BY DEF Victims, C, n
  <2> QED
    BY <2>1, <2>2
<1>10. n \in Int
  BY DEF n
<1>11. /\ IsFiniteSet(first)
       /\ Cardinality(first) = IF n <= 0 THEN 0 ELSE Smaller(Cardinality(C), n)
  BY <1>7, <1>8, <1>10, FirstByKey
<1> QED
  BY <1>8, <1>9, <1>11 DEF C, n

\* Of the groups that may be told to stop, as many are as production needs.
LEMMA SoManyVictims ==
  ASSUME Settled, FlagsTrue, MAX_BATCH = 1,
         Preemptive, waiting("production") > 0, Free = {}
  PROVE  LET flagged == Cardinality(EvictionsInFlight)
             need == waiting("production") - flagged
         IN  /\ waiting("production") \in Nat
             /\ IsFiniteSet(Victims)
             /\ Cardinality(Victims) =
                  IF need <= 0 THEN 0 ELSE Smaller(Cardinality(InHand) - flagged, need)
<1> USE DEF Settled
<1> DEFINE C == EvictionCandidates
           F == EvictionsInFlight
           W == waiting("production")
           cl(g) == job[busy[g].head].queue
<1>1. \A g \in GPUs : busy[g] # None /\ cl(g) \in Class
  <2> SUFFICES ASSUME NEW g \in GPUs PROVE busy[g] # None /\ cl(g) \in Class
    OBVIOUS
  <2>1. busy[g] # None /\ busy[g] \in Group
    BY DEF Free, Typed, TypeOK
  <2>2. job[busy[g].head] \in Job
    BY <2>1 DEF Typed, TypeOK, SchedTypeOK, JobsExist, Group
  <2> QED
    BY <2>1, <2>2 DEF Job
<1>2. W \in Nat
  <2>1. "production" \in Class
    BY DEF Class
  <2> QED
    BY <2>1 DEF waiting, Typed, TypeOK, SchedTypeOK
<1>3. \A c \in Class : Preemptible(c) <=> Priority[c] \in {1, 2}
  BY DEF Class, Priority, Preemptible
<1>4. Priority["production"] = 0 /\ \A c \in Class : Priority[c] \in 0..2
  BY DEF Class, Priority
<1>5. F = {g \in GPUs : Flagged(g)}
  BY <1>1, InFlightFlagged
<1>6. C = InHand \ F
  <2>1. \A g \in GPUs : Preemptible(cl(g)) => Priority[cl(g)] > Priority["production"]
    BY <1>1, <1>3, <1>4
  <2> HIDE DEF F, Flagged
  <2> QED
    BY <1>5, <2>1 DEF EvictionCandidates, InHand
<1>7. /\ F \subseteq InHand /\ IsFiniteSet(InHand)
      /\ Cardinality(F) \in Nat /\ Cardinality(InHand) \in Nat
  BY InFlightFlagged
<1>8. IsFiniteSet(C) /\ Cardinality(C) = Cardinality(InHand) - Cardinality(F)
  <2>1. InHand \cap F = F
    BY <1>7
  <2> HIDE DEF C, F
  <2>2. IsFiniteSet(InHand)
    BY <1>7
  <2>3. /\ IsFiniteSet(InHand \ F)
        /\ Cardinality(InHand \ F) = Cardinality(InHand) - Cardinality(InHand \cap F)
    BY <2>2, FS_Difference, Zenon
  <2> QED
    BY <1>6, <2>1, <2>3
<1>9. EvictionNeed = W - Cardinality(F)
  <2>1. CeilDiv(W, MAX_BATCH) = W
    <3> HIDE DEF W
    <3> QED
      BY <1>2 DEF CeilDiv
  <2> HIDE DEF F, W
  <2> QED
    BY <1>5, <2>1 DEF EvictionNeed, W
<1> HIDE DEF C, F, W
<1>10. W - Cardinality(F) \in Int
  BY <1>2, <1>7
<1>11. /\ IsFiniteSet(Victims)
       /\ Cardinality(Victims) = IF W - Cardinality(F) <= 0 THEN 0
                                 ELSE Smaller(Cardinality(C), W - Cardinality(F))
  BY <1>9, <1>10, VictimsByRank DEF C
<1> QED
  BY <1>2, <1>8, <1>11 DEF F, W

\* What an eviction adds to the evictions in flight.
LEMMA InFlightAfter ==
  ASSUME Settled, FlagsTrue, MAX_BATCH = 1, Evict
  PROVE  LET flagged == Cardinality(EvictionsInFlight)
             W == waiting("production")
         IN  /\ flagged \in Nat /\ W \in Nat /\ Cardinality(EvictionsInFlight)' \in Nat
             /\ Preemptive /\ W > 0 /\ Free = {} =>
                  Cardinality(EvictionsInFlight)' =
                    IF W <= flagged THEN flagged ELSE Smaller(Cardinality(InHand), W)
             /\ ~(Preemptive /\ W > 0 /\ Free = {}) =>
                  Cardinality(EvictionsInFlight)' = flagged
<1> DEFINE F == EvictionsInFlight
           W == waiting("production")
<1>1. FlagsTrue' /\ busy' = busy
      /\ \A g \in GPUs : busy[g] # None => (Flagged(g)' <=> Flagged(g) \/ g \in Victims)
  BY FlagsOfEvict DEF Evict
<1>2. \A g \in Victims : g \in GPUs /\ busy[g] # None /\ ~Flagged(g)
  BY VictimsAre DEF Settled
<1>3. F = {g \in GPUs : busy[g] # None /\ Flagged(g)} /\ IsFiniteSet(F) /\ Cardinality(F) \in Nat
      /\ Cardinality(InHand) \in Nat /\ F \subseteq InHand /\ IsFiniteSet(InHand)
  BY InFlightFlagged
<1>4. F' = {g \in GPUs : busy[g] # None /\ Flagged(g)'} /\ Cardinality(F)' \in Nat
  <2>1. (EvictionsInFlight = {g \in GPUs : busy[g] # None /\ Flagged(g)}
           /\ Cardinality(EvictionsInFlight) \in Nat)'
    BY <1>1, InFlightFlagged, PTL
  <2> QED
    BY <1>1, <2>1
<1>5. F' = F \cup Victims /\ F \cap Victims = {}
  <2> HIDE DEF F, Flagged, Victims
  <2> QED
    BY <1>1, <1>2, <1>3, <1>4
<1>6. W \in Nat
  <2>1. "production" \in Class
    BY DEF Class
  <2> QED
    BY <2>1 DEF waiting, Settled, Typed, TypeOK, SchedTypeOK
<1>7. Cardinality(F) <= Cardinality(InHand)
  <2> HIDE DEF F
  <2> QED
    BY <1>3, FS_Subset
<1>8. CASE Preemptive /\ W > 0 /\ Free = {}
  <2>1. /\ IsFiniteSet(Victims)
        /\ Cardinality(Victims) =
             IF W - Cardinality(F) <= 0 THEN 0
             ELSE Smaller(Cardinality(InHand) - Cardinality(F), W - Cardinality(F))
    BY <1>8, SoManyVictims
  <2>2. Cardinality(F \cup Victims) = Cardinality(F) + Cardinality(Victims)
    <3> HIDE DEF F, Victims
    <3>1. Cardinality(F \cup Victims) = Cardinality(F) + Cardinality(Victims) - Cardinality({})
      BY <1>3, <1>5, <2>1, FS_Union
    <3>2. Cardinality({}) = 0 /\ Cardinality(Victims) \in Nat
      BY <2>1, FS_EmptySet, FS_CardinalityType
    <3> QED
      BY <1>3, <3>1, <3>2
  <2>3. Cardinality(F)' = Cardinality(F) + Cardinality(Victims)
    BY <1>5, <2>2
  <2> HIDE DEF F, W, Victims
  <2>4. Cardinality(F)' = IF W <= Cardinality(F) THEN Cardinality(F)
                          ELSE Smaller(Cardinality(InHand), W)
    BY <1>3, <1>6, <1>7, <2>1, <2>3 DEF Smaller
  <2> QED
    BY <1>3, <1>4, <1>6, <1>8, <2>4 DEF F, W
<1>9. CASE ~(Preemptive /\ W > 0 /\ Free = {})
  <2>1. Victims = {}
    BY <1>9 DEF Victims
  <2>2. F' = F
    BY <1>5, <2>1
  <2> QED
    BY <1>3, <1>4, <1>6, <1>9, <2>2
<1> QED
  BY <1>8, <1>9

LEMMA WantedOne ==
  ASSUME Settled, MAX_BATCH = 1
  PROVE  waiting("production") \in Nat /\ EvictionsWanted = waiting("production")
<1>1. waiting("production") \in Nat
  <2>1. "production" \in Class
    BY DEF Class
  <2> QED
    BY <2>1 DEF waiting, Settled, Typed, TypeOK, SchedTypeOK
<1> DEFINE W == waiting("production")
<1> HIDE DEF W
<1>2. CeilDiv(W, MAX_BATCH) = W
  BY <1>1 DEF CeilDiv, W
<1> QED
  BY <1>1, <1>2 DEF EvictionsWanted, W

\* A pass of the dispatcher never takes the evictions in flight above the
\* number of production jobs that wait (gateway.py, the eviction block of
\* dispatcher, with one job to a batch).
THEOREM EvictionsBudgeted ==
  ASSUME MAX_BATCH = 1
  PROVE  Spec => EvictionBudget
<1>1. ASSUME Settled, FlagsTrue, Evict
      PROVE  Cardinality(EvictionsInFlight)' <=
               Larger(Cardinality(EvictionsInFlight), EvictionsWanted)
  <2> DEFINE n == Cardinality(EvictionsInFlight)
             W == waiting("production")
             m == Cardinality(InHand)
  <2>1. /\ n \in Nat /\ W \in Nat /\ n' \in Nat
        /\ n' = (IF W <= n THEN n ELSE Smaller(m, W)) \/ n' = n
    BY <1>1, InFlightAfter
  <2>2. m \in Nat
    BY <1>1, InFlightFlagged
  <2>3. EvictionsWanted = W
    BY <1>1, WantedOne
  <2> DEFINE after == n'
  <2>4. after \in Nat /\ (after = (IF W <= n THEN n ELSE Smaller(m, W)) \/ after = n)
    BY <2>1
  <2> HIDE DEF n, W, m, after
  <2>5. after <= Larger(n, W)
    BY <2>1, <2>2, <2>4 DEF Larger, Smaller
  <2> QED
    BY <2>3, <2>5 DEF n, W, after
<1>2. Settled /\ FlagsTrue /\ [Next]_vars =>
        [Evict => Cardinality(EvictionsInFlight') <=
                    Larger(Cardinality(EvictionsInFlight), EvictionsWanted)]_vars
  BY <1>1
<1> QED
  BY <1>2, SettledAlways, FlagsAreTrue, PTL DEF Spec, EvictionBudget

\* A step that leaves the queues, the groups, the flags and the loop alone.
LEMMA SufficeSame ==
  ASSUME EvictionsSuffice, UNCHANGED <<queues, busy, job, dispatch_event, dispatcher>>,
         EvictionsInFlight' = EvictionsInFlight
  PROVE  EvictionsSuffice'
<1> DEFINE F == EvictionsInFlight
           m == Cardinality(InHand)
           enough == Cardinality(F) >= Smaller(EvictionsWanted, m)
           need == LoopIdle /\ ~dispatch_event /\ Preemptive /\ waiting("production") > 0
                     /\ Free = {}
<1>1. InHand' = InHand
  BY DEF InHand
<1>2. EvictionsWanted' = EvictionsWanted
  BY DEF EvictionsWanted, waiting
<1>3. need' <=> need
  BY DEF LoopIdle, Preemptive, waiting, Free
<1>4. EvictionsSuffice <=> (need => enough)
  BY DEF EvictionsSuffice, InHand
<1>5. EvictionsSuffice' <=> (need' => enough')
  BY DEF EvictionsSuffice, InHand
<1>6. enough' <=> enough
  <2> HIDE DEF F, m
  <2>1. F' = F /\ m' = m
    BY <1>1 DEF F, m
  <2> QED
    BY <1>2, <2>1 DEF Smaller
<1> HIDE DEF need, enough
<1> QED
  BY <1>3, <1>4, <1>5, <1>6

LEMMA SufficeEvict ==
  ASSUME Settled, FlagsTrue, MAX_BATCH = 1, [Next]_vars, Evict
  PROVE  EvictionsSuffice'
<1> DEFINE n == Cardinality(EvictionsInFlight)
           W == waiting("production")
           m == Cardinality(InHand)
<1>1. UNCHANGED <<queues, busy>>
  BY DEF Evict
<1>2. W' = W /\ Free' = Free /\ (Preemptive' <=> Preemptive)
  BY <1>1 DEF waiting, Free, Preemptive
<1>3. SUFFICES ASSUME Preemptive, W > 0, Free = {}
               PROVE  n' >= Smaller(EvictionsWanted', m')
  BY <1>2 DEF EvictionsSuffice, InHand
<1>4. EvictionsWanted' = W
  <2>1. EvictionsWanted' = EvictionsWanted
    BY <1>1 DEF EvictionsWanted, waiting
  <2> QED
    BY <2>1, WantedOne
<1>5. \A g \in GPUs : job'[busy[g].head].queue = job[busy[g].head].queue
  <2> SUFFICES ASSUME NEW g \in GPUs
               PROVE  job'[busy[g].head].queue = job[busy[g].head].queue
    OBVIOUS
  <2>1. busy[g] # None /\ busy[g] \in Group
    BY <1>3 DEF Free, Settled, Typed, TypeOK
  <2>2. busy[g].head \in Jobs /\ job[busy[g].head] # None
    BY <2>1 DEF Settled, Typed, JobsExist, Group
  <2>3. SameIdentity(busy[g].head)
    BY <2>2, JobsKeepIdentity DEF Settled
  <2> QED
    BY <2>3 DEF SameIdentity, SameRequest
<1>6. InHand' = InHand
  BY <1>1, <1>5 DEF InHand
<1>7. n' = (IF W <= n THEN n ELSE Smaller(m, W)) /\ n \in Nat /\ W \in Nat
  BY <1>3, InFlightAfter
<1>8. m \in Nat
  BY InFlightFlagged
<1> DEFINE after == n'
           wanted == EvictionsWanted'
           hands == m'
<1>9. after = (IF W <= n THEN n ELSE Smaller(m, W)) /\ wanted = W /\ hands = m
  BY <1>4, <1>6, <1>7
<1> HIDE DEF n, W, m, after, wanted, hands
<1>10. after >= Smaller(wanted, hands)
  BY <1>7, <1>8, <1>9 DEF Smaller
<1> QED
  BY <1>10 DEF after, wanted, hands

LEMMA SufficeNext ==
  ASSUME Settled, FlagsTrue, FlagsTrue', MAX_BATCH = 1, EvictionsSuffice, [Next]_vars
  PROVE  EvictionsSuffice'
<1>1. CASE Evict
  BY <1>1, SufficeEvict
<1>2. CASE \E g \in GPUs : (WorkerStep(g) \/ BatchError(g)) /\ UNCHANGED gatewayVars
  <2>1. UNCHANGED <<queues, busy, job, dispatch_event, dispatcher>>
    BY <1>2 DEF gatewayVars, schedVars, loopVars
  <2>2. EvictionsInFlight = {g \in GPUs : busy[g] # None /\ Flagged(g)}
    BY InFlightFlagged
  <2>3. (EvictionsInFlight = {g \in GPUs : busy[g] # None /\ Flagged(g)})'
    BY InFlightFlagged, PTL
  <2>4. EvictionsInFlight' = EvictionsInFlight
    BY <2>1, <2>2, <2>3 DEF Flagged
  <2> QED
    BY <2>1, <2>4, SufficeSame
<1>3. CASE \/ \E r \in Requests : Reject(r)
           \/ \E j \in Jobs : Cancel(j) \/ Respond(j)
           \/ Age \/ Idle \/ UNCHANGED vars
  <2>1. UNCHANGED <<queues, busy, job, dispatch_event, dispatcher, control_q, response_q>>
    BY <1>3 DEF Reject, Cancel, Respond, Age, Idle, vars, schedVars, workerVars, loopVars
  <2>2. EvictionsInFlight' = EvictionsInFlight
    BY <2>1 DEF EvictionsInFlight
  <2> QED
    BY <2>1, <2>2, SufficeSame
<1>4. CASE \/ \E j \in Jobs, r \in Requests : Generate(j, r)
           \/ \E j \in Jobs : TimerFire(j)
           \/ \E g \in GPUs : OnPreempted(g) \/ OnFinished(g)
           \/ Wake \/ (\E h \in Jobs, g \in GPUs : DispatchBatch(h, g))
           \/ (\E h \in Jobs : HoldBatch(h)) \/ FillDone
  <2>1. dispatch_event' \/ dispatcher' # "waiting"
    BY <1>4 DEF Generate, TimerFire, OnPreempted, OnFinished, TakeResponse, Wake,
                DispatchBatch, HoldBatch, FillDone, loopVars
  <2> QED
    BY <2>1 DEF EvictionsSuffice, LoopIdle
<1> QED
  BY <1>1, <1>2, <1>3, <1>4 DEF Next, Client, DispatcherStep

\* When the dispatcher sleeps with production waiting and no GPU free, as many
\* evictions are in flight as the waiting jobs need, or every preemptible group is
\* being evicted (gateway.py, the eviction block of dispatcher, and what may
\* happen between two of its passes, with one job to a batch).
THEOREM EvictionsAlwaysSuffice ==
  ASSUME MAX_BATCH = 1
  PROVE  Spec => []EvictionsSuffice
<1>1. Init => EvictionsSuffice
  BY DEF Init, SchedInit, EvictionsSuffice, waiting, Class
<1>2. Settled /\ FlagsTrue /\ FlagsTrue' /\ EvictionsSuffice /\ [Next]_vars
      => EvictionsSuffice'
  BY SufficeNext
<1> QED
  BY SettledAlways, FlagsAreTrue, <1>1, <1>2, PTL DEF Spec

-----------------------------------------------------------------------------
(* How many in all *)

Produced == {j \in Jobs : job[j] # None /\ job[j].queue = "production"}

\* The evictions made and in flight are no more than the production jobs that
\* came; those that wait are spare, but for one on each GPU that was freed.
EvictionsCounted ==
  LET arrived == Cardinality(Produced)
  IN  /\ stats.preemptions + Cardinality(EvictionsInFlight) <= arrived
      /\ stats.preemptions + waiting("production") <= arrived + Cardinality(Free)
      /\ ~Preemptive => stats.preemptions = 0

LEMMA CountsTyped ==
  ASSUME Settled
  PROVE  /\ IsFiniteSet(Produced) /\ Cardinality(Produced) \in Nat
         /\ IsFiniteSet(Free) /\ Cardinality(Free) \in Nat
         /\ IsFiniteSet(EvictionsInFlight) /\ Cardinality(EvictionsInFlight) \in Nat
         /\ stats.preemptions \in Nat
         /\ waiting("production") \in Nat
         /\ waiting("production") <= Cardinality(Produced)
<1> USE DEF Settled
<1>1. IsFiniteSet(GPUs) /\ IsFiniteSet(Jobs)
  BY ConfigAssumption, FS_Interval DEF GPUs, Jobs
<1>2. Produced \subseteq Jobs /\ Free \subseteq GPUs /\ EvictionsInFlight \subseteq GPUs
  BY DEF Produced, Free, EvictionsInFlight
<1>3. /\ IsFiniteSet(Produced) /\ Cardinality(Produced) \in Nat
      /\ IsFiniteSet(Free) /\ Cardinality(Free) \in Nat
      /\ IsFiniteSet(EvictionsInFlight) /\ Cardinality(EvictionsInFlight) \in Nat
  BY <1>1, <1>2, FS_Subset, FS_CardinalityType
<1>4. stats.preemptions \in Nat
  BY DEF Typed, TypeOK
<1> DEFINE q == queues["production"]
<1>5. "production" \in Class
  BY DEF Class
<1>6. q \in Seq(Jobs) /\ IsInjective(q)
  BY <1>5 DEF Typed, TypeOK, SchedTypeOK, Placed, QueuesOnce
<1>7. Range(q) \subseteq Produced
  <2> SUFFICES ASSUME NEW j \in Range(q) PROVE j \in Produced
    OBVIOUS
  <2>1. j \in Jobs
    BY <1>6, RangeOfSeq
  <2> QED
    BY <1>5, <2>1 DEF Produced, Typed, JobsExist
<1> HIDE DEF q
<1>8. Cardinality(Range(q)) = Len(q) /\ Len(q) \in Nat
  BY <1>6, LengthOfInjective
<1>9. Cardinality(Range(q)) <= Cardinality(Produced)
  BY <1>3, <1>7, FS_Subset
<1> QED
  BY <1>3, <1>4, <1>8, <1>9 DEF waiting, q

\* A job that came stays counted.
LEMMA ProducedKept ==
  ASSUME Settled, Settled', [Next]_vars
  PROVE  Produced \subseteq Produced' /\ Cardinality(Produced) <= Cardinality(Produced)'
<1>1. \A j \in Jobs : job[j] # None => job'[j] # None /\ job'[j].queue = job[j].queue
  BY JobsKeepIdentity DEF Settled, SameIdentity, SameRequest
<1>2. Produced \subseteq Produced'
  BY <1>1 DEF Produced
<1>3. IsFiniteSet(Produced)'
  BY CountsTyped, PTL
<1> HIDE DEF Produced
<1> QED
  BY <1>2, <1>3, FS_Subset

\* Fewer evictions in flight, fewer waiting, or more GPUs free break nothing.
LEMMA CountedSame ==
  ASSUME Settled, Settled', [Next]_vars, EvictionsCounted,
         stats.preemptions' = stats.preemptions,
         Cardinality(EvictionsInFlight)' <= Cardinality(EvictionsInFlight),
         waiting("production")' <= waiting("production"),
         Cardinality(Free)' >= Cardinality(Free)
  PROVE  EvictionsCounted'
<1> DEFINE p == stats.preemptions
           a == Cardinality(Produced)
           f == Cardinality(EvictionsInFlight)
           w == waiting("production")
           e == Cardinality(Free)
<1>1. a \in Nat /\ f \in Nat /\ w \in Nat /\ e \in Nat /\ p \in Nat
  BY CountsTyped
<1>2. (a \in Nat /\ f \in Nat /\ w \in Nat /\ e \in Nat /\ p \in Nat)'
  BY <1>1, CountsTyped, PTL
<1>3. a <= a' /\ p' = p /\ f' <= f /\ w' <= w /\ e' >= e
  BY ProducedKept
<1>4. p + f <= a /\ p + w <= a + e /\ (~Preemptive => p = 0)
  BY DEF EvictionsCounted
<1>5. ~Preemptive => p' = 0
  BY <1>3, <1>4
<1>6. p' \in Nat /\ f' \in Nat /\ a' \in Nat /\ w' \in Nat /\ e' \in Nat
  BY <1>2
<1> DEFINE fn == f'
           an == a'
           wn == w'
           en == e'
<1>7. /\ p' = p /\ a <= an /\ fn <= f /\ wn <= w /\ en >= e
      /\ fn \in Nat /\ an \in Nat /\ wn \in Nat /\ en \in Nat
  BY <1>3, <1>6
<1> HIDE DEF p, a, f, w, e, fn, an, wn, en
<1>8. p + fn <= an /\ p + wn <= an + en
  BY <1>1, <1>4, <1>7
<1>9. p' + fn <= an /\ p' + wn <= an + en
  BY <1>7, <1>8
<1> QED
  BY <1>5, <1>9 DEF EvictionsCounted, p, a, f, w, e, fn, an, wn, en, Preemptive

LEMMA CountedGenerate ==
  ASSUME Settled, Settled', [Next]_vars, EvictionsCounted,
         NEW j \in Jobs, NEW r \in Requests, Generate(j, r)
  PROVE  EvictionsCounted'
<1> USE DEF Settled
<1>1. /\ r.queue \in Class /\ job[j] = None
      /\ queues' = [queues EXCEPT ![r.queue] = Append(queues[r.queue], j)]
      /\ job' = [job EXCEPT ![j] = NewJob(r)]
      /\ UNCHANGED <<control_q, response_q, busy, stats>>
  BY ConfigAssumption DEF Generate, Admit, workerVars
<1>2. EvictionsInFlight' = EvictionsInFlight /\ Free' = Free
  BY <1>1 DEF EvictionsInFlight, Free
<1>3. "production" \in Class
  BY DEF Class
<1>4. CASE r.queue # "production"
  <2>1. waiting("production")' = waiting("production")
    BY <1>1, <1>3, <1>4 DEF waiting, Typed, TypeOK, SchedTypeOK
  <2>2. stats.preemptions' = stats.preemptions
    BY <1>1
  <2> QED
    BY <1>2, <2>1, <2>2, CountsTyped, CountedSame
<1>5. CASE r.queue = "production"
  <2> DEFINE a == Cardinality(Produced)
             w == waiting("production")
             an == a'
             wn == w'
             p == stats.preemptions
             f == Cardinality(EvictionsInFlight)
             e == Cardinality(Free)
  <2>1. wn = w + 1
    <3>1. queues["production"] \in Seq(Jobs)
      BY <1>3 DEF Typed, TypeOK, SchedTypeOK
    <3>2. queues'["production"] = Append(queues["production"], j)
      BY <1>1, <1>5 DEF Typed, TypeOK, SchedTypeOK
    <3> QED
      BY <3>1, <3>2, AppendProperties DEF waiting
  <2>2. a + 1 <= an
    <3>1. j \in Produced' /\ j \notin Produced
      <4>1. NewJob(r) \in Job /\ NewJob(r).queue = "production"
        BY <1>1, <1>5, ConfigAssumption DEF NewJob, Job, Tenant, Shape
      <4>2. job'[j] = NewJob(r)
        BY <1>1 DEF Typed, TypeOK, SchedTypeOK
      <4> QED
        BY <1>1, <4>1, <4>2, NoneAssumption DEF Produced
    <3>2. Produced \subseteq Produced'
      BY ProducedKept
    <3>3. IsFiniteSet(Produced) /\ IsFiniteSet(Produced)'
      BY CountsTyped, PTL
    <3> HIDE DEF Produced
    <3>4. Produced \cup {j} \subseteq Produced'
      BY <3>1, <3>2
    <3>5. Cardinality(Produced \cup {j}) = a + 1
      BY <3>1, <3>3, FS_AddElement
    <3> QED
      BY <3>3, <3>4, <3>5, FS_Subset
  <2>3. /\ a \in Nat /\ f \in Nat /\ w \in Nat /\ e \in Nat /\ p \in Nat
        /\ p + f <= a /\ p + w <= a + e
        /\ ~Preemptive => p = 0
    BY CountsTyped DEF EvictionsCounted
  <2>4. an \in Nat
    <3>1. (a \in Nat)'
      BY CountsTyped, PTL
    <3> QED
      BY <3>1
  <2>5. p' = p /\ f' = f /\ e' = e
    BY <1>1, <1>2
  <2> HIDE DEF a, w, an, wn, p, f, e
  <2>6. p + f <= an /\ p + wn <= an + e
    BY <2>1, <2>2, <2>3, <2>4
  <2> QED
    BY <2>3, <2>5, <2>6 DEF EvictionsCounted, a, w, an, wn, p, f, e, Preemptive
<1> QED
  BY <1>4, <1>5

\* A checkpoint ends one eviction in flight and counts it; any message frees a GPU.
LEMMA CountedMessage ==
  ASSUME Settled, Settled', [Next]_vars, YieldTrue, FlagsTrue, EvictionsCounted,
         NEW g \in GPUs, OnPreempted(g) \/ OnFinished(g)
  PROVE  EvictionsCounted'
<1> USE DEF Settled
<1> DEFINE m == Head(response_q[g])
           rid == m.request_id
           a == Cardinality(Produced)
           w == waiting("production")
           p == stats.preemptions
           f == Cardinality(EvictionsInFlight)
           e == Cardinality(Free)
           fn == f'
           en == e'
           an == a'
<1>1. TakeResponse(g)
  BY DEF OnPreempted, OnFinished
<1>2. /\ busy[g] # None /\ busy' = [busy EXCEPT ![g] = None]
      /\ \A k \in GPUs : k # g => response_q'[k] = response_q[k]
      /\ UNCHANGED control_q
  BY <1>1, LastMessage DEF FlagsTrue
<1>3. EvictionsInFlight' = EvictionsInFlight \ {g}
  BY <1>2 DEF EvictionsInFlight, Typed, TypeOK
<1>4. g \notin Free /\ Free' = Free \cup {g}
  BY <1>2 DEF Free, Typed, TypeOK
<1>5. en = e + 1
  <2> HIDE DEF Free
  <2> QED
    BY <1>4, CountsTyped, FS_AddElement
<1>6. CASE OnFinished(g)
  <2>1. fn <= f
    <3> HIDE DEF EvictionsInFlight
    <3>1. EvictionsInFlight \ {g} \subseteq EvictionsInFlight
      OBVIOUS
    <3> QED
      BY <1>3, <3>1, CountsTyped, FS_Subset
  <2>2. w' = w /\ p' = p
    BY <1>6 DEF OnFinished, waiting
  <2>3. e \in Nat /\ w \in Nat
    BY CountsTyped
  <2> HIDE DEF f, w, p, e, fn, en
  <2>4. en >= e /\ w' <= w
    BY <1>5, <2>2, <2>3
  <2> QED
    BY <2>1, <2>2, <2>4, CountedSame DEF f, w, p, e, fn, en
<1>7. CASE OnPreempted(g)
  <2>1. /\ response_q[g] \in Seq(Response) /\ response_q[g] # <<>>
        /\ m \in Range(response_q[g]) /\ m.type = "preempted"
        /\ rid \in pending /\ job[rid] # None
    BY <1>1, <1>7, CheckpointedJob DEF TakeResponse, Typed, TypeOK, WorkerTypeOK
  <2>2. g \in EvictionsInFlight
    BY <1>2, <2>1 DEF EvictionsInFlight
  <2>3. fn = f - 1
    <3> HIDE DEF EvictionsInFlight
    <3> QED
      BY <1>3, <2>2, CountsTyped, FS_RemoveElement
  <2>4. Preemptive /\ job[rid].queue # "production"
    BY <2>1 DEF YieldTrue, Yields, MessagesYield, Preemptible
  <2>5. w' = w
    <3>1. queues' = [queues EXCEPT ![job[rid].queue] = <<rid>> \o queues[job[rid].queue]]
      BY <1>7, <2>1 DEF OnPreempted, RequeuePreempted
    <3>2. "production" \in Class
      BY DEF Class
    <3> QED
      BY <2>4, <3>1, <3>2 DEF waiting, Typed, TypeOK, SchedTypeOK
  <2>6. p' = p + 1
    BY <1>7, <2>1 DEF OnPreempted, Typed, TypeOK
  <2>7. /\ a \in Nat /\ f \in Nat /\ w \in Nat /\ e \in Nat /\ p \in Nat
        /\ p + f <= a /\ p + w <= a + e
    BY CountsTyped DEF EvictionsCounted
  <2>8. an \in Nat /\ a <= an
    <3>1. (a \in Nat)'
      BY CountsTyped, PTL
    <3> QED
      BY <3>1, ProducedKept
  <2> DEFINE pn == p'
  <2>9. pn = p + 1
    BY <2>6
  <2> HIDE DEF a, w, an, p, f, e, fn, en, pn
  <2>10. pn + fn <= an /\ pn + w <= an + en
    BY <1>5, <2>3, <2>7, <2>8, <2>9
  <2> QED
    BY <2>4, <2>5, <2>10 DEF EvictionsCounted, a, w, an, p, f, e, fn, en, pn, Preemptive
<1> QED
  BY <1>6, <1>7

\* A GPU that is filled is one free GPU fewer: for a production job that no longer
\* waits, or, under a policy that evicts, while no production job waits.
LEMMA CountedDispatch ==
  ASSUME Settled, Settled', [Next]_vars, FlagsTrue, MAX_BATCH = 1, EvictionsCounted,
         NEW h \in Jobs, NEW g \in GPUs, DispatchBatch(h, g)
  PROVE  EvictionsCounted'
<1> USE DEF Settled
<1> DEFINE c == job[h].queue
           a == Cardinality(Produced)
           w == waiting("production")
           p == stats.preemptions
           f == Cardinality(EvictionsInFlight)
           e == Cardinality(Free)
           wn == w'
           en == e'
           an == a'
           n == stats.batches_dispatched
<1>1. /\ h \in Queued /\ Selected(h) /\ g \in GPUs /\ busy[g] = None
      /\ busy' = [busy EXCEPT ![g] = NewGroup(h)]
      /\ queues' = [queues EXCEPT ![c] = RestOf(h)]
      /\ UNCHANGED <<control_q, response_q>>
      /\ stats'.preemptions = stats.preemptions /\ n \in Nat
  BY DEF DispatchBatch, Take, LeastUtilised, Free, Typed, TypeOK
<1>2. /\ c \in Class /\ h \in Range(queues[c]) /\ queues[c] \in Seq(Jobs)
      /\ RestOf(h) \in Seq(Jobs) /\ job[h] \in Job
      /\ Range(GroupOf(h)) \cup Range(RestOf(h)) = Range(queues[c])
  BY <1>1, SelectedGroup
<1>3. EvictionsInFlight' = EvictionsInFlight
  <2>1. \A k \in GPUs : k # g => busy'[k] = busy[k]
    BY <1>1
  <2>2. busy'[g].batch_id = n + 1
    BY <1>1 DEF Typed, TypeOK, NewGroup, NewBatchId
  <2>3. response_q[g] = <<>>
    BY <1>1 DEF GroupAccounting, Unused
  <2>4. n + 1 \notin Range(control_q[g])
    <3>1. control_q[g] \in Seq(Nat)
      BY DEF Typed, TypeOK, WorkerTypeOK
    <3>2. \A id \in Range(control_q[g]) : id \in Nat /\ id <= n
      BY <3>1, RangeOfSeq DEF FlagsTrue, OldSignals
    <3> QED
      BY <1>1, <3>2
  <2>5. g \notin EvictionsInFlight' /\ g \notin EvictionsInFlight
    BY <1>1, <2>2, <2>3, <2>4 DEF EvictionsInFlight, Range
  <2> QED
    BY <1>1, <2>1, <2>5 DEF EvictionsInFlight
<1>4. en = e - 1 /\ en \in Nat
  <2>1. g \in Free /\ Free' = Free \ {g}
    <3>1. NewGroup(h) # None
      BY <1>1, NewGroupAndBatch, NoneAssumption
    <3> QED
      BY <1>1, <3>1 DEF Free, Typed, TypeOK
  <2>2. (e \in Nat)'
    BY CountsTyped, PTL
  <2> HIDE DEF Free
  <2> QED
    BY <2>1, <2>2, CountsTyped, FS_RemoveElement
<1>5. an \in Nat /\ a <= an
  <2>1. (a \in Nat)'
    BY CountsTyped, PTL
  <2> QED
    BY <2>1, ProducedKept
<1>6. /\ a \in Nat /\ f \in Nat /\ w \in Nat /\ e \in Nat /\ p \in Nat /\ w <= a
      /\ p + f <= a /\ p + w <= a + e
      /\ ~Preemptive => p = 0
  BY CountsTyped DEF EvictionsCounted
<1>7. "production" \in Class
  BY DEF Class
<1>8. ASSUME c # "production"
      PROVE  wn = w /\ (p = 0 \/ w = 0)
  <2>1. wn = w
    BY <1>1, <1>2, <1>7, <1>8 DEF waiting, Typed, TypeOK, SchedTypeOK
  <2>2. CASE Preemptive
    <3>1. IsPriorityHead(h)
      BY <1>1, <2>2 DEF Selected, Preemptive
    <3>2. "production" \in MoreImportant(c)
      BY <1>2, <1>8 DEF MoreImportant, Priority, Class
    <3>3. queues["production"] = <<>>
      BY <3>1, <3>2 DEF IsPriorityHead
    <3> QED
      BY <2>1, <3>3 DEF waiting
  <2>3. CASE ~Preemptive
    BY <1>6, <2>1, <2>3
  <2> QED
    BY <2>2, <2>3
<1>9. ASSUME c = "production"
      PROVE  wn = w - 1
  <2> DEFINE q == queues["production"]
             rest == RestOf(h)
  <2>1. q \in Seq(Jobs) /\ IsInjective(q) /\ rest \in Seq(Jobs) /\ h \in Range(q)
    BY <1>2, <1>9 DEF Placed, QueuesOnce
  <2>2. IsInjective(rest) /\ Range(GroupOf(h)) \cap Range(rest) = {}
    BY <1>2, <1>9, <2>1, GroupApartFromRest DEF Typed, TypeOK
  <2>3. Range(GroupOf(h)) = {h}
    <3>1. GroupOf(h) = <<h>>
      BY <1>1, GroupOfOne
    <3> QED
      BY <3>1 DEF Range
  <2>4. Range(rest) = Range(q) \ {h}
    BY <1>2, <1>9, <2>2, <2>3
  <2>5. w = Len(q) /\ wn = Len(rest)
    BY <1>1, <1>2, <1>9 DEF waiting, Typed, TypeOK, SchedTypeOK
  <2> HIDE DEF q, rest
  <2>6. /\ Cardinality(Range(q)) = Len(q) /\ IsFiniteSet(Range(q))
        /\ Cardinality(Range(rest)) = Len(rest)
    BY <2>1, <2>2, LengthOfInjective
  <2>7. Cardinality(Range(q) \ {h}) = Cardinality(Range(q)) - 1
    BY <2>1, <2>6, FS_RemoveElement
  <2> QED
    BY <2>4, <2>5, <2>6, <2>7
<1>10. p' = p /\ f' = f
  BY <1>1, <1>3
<1> HIDE DEF c, a, w, p, f, e, wn, en, an
<1>11. p + f <= an
  BY <1>5, <1>6
<1>12. p + wn <= an + en
  <2>1. CASE c = "production"
    BY <1>4, <1>5, <1>6, <1>9, <2>1
  <2>2. CASE c # "production"
    BY <1>4, <1>5, <1>6, <1>8, <2>2
  <2> QED
    BY <2>1, <2>2
<1> QED
  BY <1>6, <1>10, <1>11, <1>12 DEF EvictionsCounted, a, w, p, f, e, wn, en, an, Preemptive

\* An eviction is made only while production jobs wait and no GPU is free.
LEMMA CountedEvict ==
  ASSUME Settled, Settled', [Next]_vars, FlagsTrue, MAX_BATCH = 1, EvictionsCounted, Evict
  PROVE  EvictionsCounted'
<1> DEFINE a == Cardinality(Produced)
           w == waiting("production")
           p == stats.preemptions
           f == Cardinality(EvictionsInFlight)
           e == Cardinality(Free)
           m == Cardinality(InHand)
           fn == f'
           an == a'
<1>1. p' = p /\ w' = w /\ e' = e
  <2>1. UNCHANGED <<stats, queues, busy>>
    BY DEF Evict
  <2>2. Free' = Free
    BY <2>1 DEF Free
  <2> QED
    BY <2>1, <2>2 DEF waiting
<1>2. /\ a \in Nat /\ f \in Nat /\ w \in Nat /\ e \in Nat /\ p \in Nat
      /\ p + f <= a /\ p + w <= a + e
      /\ ~Preemptive => p = 0
  BY CountsTyped DEF EvictionsCounted
<1>3. an \in Nat /\ a <= an
  <2>1. (a \in Nat)'
    BY CountsTyped, PTL
  <2> QED
    BY <2>1, ProducedKept
<1>4. m \in Nat
  BY InFlightFlagged
<1>5. CASE Preemptive /\ w > 0 /\ Free = {}
  <2>1. fn = IF w <= f THEN f ELSE Smaller(m, w)
    BY <1>5, InFlightAfter
  <2>2. e = 0
    BY <1>5, FS_EmptySet
  <2> HIDE DEF a, w, p, f, e, m, fn, an
  <2>3. fn <= f \/ fn <= w
    BY <1>2, <1>4, <2>1 DEF Smaller
  <2>4. fn \in Nat
    BY <1>2, <1>4, <2>1 DEF Smaller
  <2>5. p + fn <= an /\ p + w <= an + e
    BY <1>2, <1>3, <2>2, <2>3, <2>4
  <2> QED
    BY <1>1, <1>2, <2>5 DEF EvictionsCounted, a, w, p, f, e, fn, an, Preemptive
<1>6. CASE ~(Preemptive /\ w > 0 /\ Free = {})
  <2>1. fn = f
    BY <1>6, InFlightAfter
  <2> HIDE DEF a, w, p, f, e, m, fn, an
  <2>2. p + fn <= an /\ p + w <= an + e
    BY <1>2, <1>3, <2>1
  <2> QED
    BY <1>1, <1>2, <2>2 DEF EvictionsCounted, a, w, p, f, e, fn, an, Preemptive
<1> QED
  BY <1>5, <1>6

LEMMA CountedNext ==
  ASSUME Settled, Settled', YieldTrue, FlagsTrue, FlagsTrue', MAX_BATCH = 1,
         EvictionsCounted, [Next]_vars
  PROVE  EvictionsCounted'
<1> DEFINE f == Cardinality(EvictionsInFlight)
           w == waiting("production")
           e == Cardinality(Free)
<1>1. CASE \E j \in Jobs, r \in Requests : Generate(j, r)
  BY <1>1, CountedGenerate
<1>2. CASE \E g \in GPUs : OnPreempted(g) \/ OnFinished(g)
  BY <1>2, CountedMessage
<1>3. CASE \E h \in Jobs, g \in GPUs : DispatchBatch(h, g)
  BY <1>3, CountedDispatch
<1>4. CASE Evict
  BY <1>4, CountedEvict
<1>5. CASE \E h \in Jobs : HoldBatch(h)
  BY <1>5, GroupOfOne DEF HoldBatch
<1>6. ASSUME UNCHANGED <<queues, busy>>, stats'.preemptions = stats.preemptions,
             EvictionsInFlight' = EvictionsInFlight
      PROVE  EvictionsCounted'
  <2>1. f' = f /\ w' = w /\ e' = e
    <3>1. Free' = Free
      BY <1>6 DEF Free
    <3> QED
      BY <1>6, <3>1 DEF waiting
  <2>2. f \in Nat /\ w \in Nat /\ e \in Nat
    BY CountsTyped
  <2> HIDE DEF f, w, e
  <2>3. f' <= f /\ w' <= w /\ e' >= e
    BY <2>1, <2>2
  <2> QED
    BY <1>6, <2>3, CountedSame DEF f, w, e
<1>7. CASE \E g \in GPUs : (WorkerStep(g) \/ BatchError(g)) /\ UNCHANGED gatewayVars
  <2>1. UNCHANGED <<queues, busy, job, stats>>
    BY <1>7 DEF gatewayVars, schedVars
  <2>2. EvictionsInFlight = {g \in GPUs : busy[g] # None /\ Flagged(g)}
    BY InFlightFlagged
  <2>3. (EvictionsInFlight = {g \in GPUs : busy[g] # None /\ Flagged(g)})'
    BY InFlightFlagged, PTL
  <2>4. EvictionsInFlight' = EvictionsInFlight
    BY <2>1, <2>2, <2>3 DEF Flagged
  <2> QED
    BY <1>6, <2>1, <2>4
<1>8. CASE \/ \E r \in Requests : Reject(r)
           \/ \E j \in Jobs : Cancel(j) \/ Respond(j) \/ TimerFire(j)
           \/ Wake \/ FillDone \/ Age \/ Idle \/ UNCHANGED vars
  <2>1. UNCHANGED <<queues, busy, control_q, response_q>>
    BY <1>8 DEF Reject, Cancel, Respond, TimerFire, Wake, FillDone, Age, Idle, vars,
                schedVars, workerVars
  <2>2. stats'.preemptions = stats.preemptions
    BY <1>8 DEF Reject, Cancel, Respond, TimerFire, Wake, FillDone, Age, Idle, vars,
                Settled, Typed, TypeOK
  <2>3. EvictionsInFlight' = EvictionsInFlight
    BY <2>1 DEF EvictionsInFlight
  <2> QED
    BY <1>6, <2>1, <2>2, <2>3
<1> QED
  BY <1>1, <1>2, <1>3, <1>4, <1>5, <1>7, <1>8 DEF Next, Client, DispatcherStep

\* No more jobs are ever sent back by evictions than production requests came:
\* each pass counts the evictions in flight before it makes more, and a freed GPU
\* goes to production first (gateway.py, the eviction block of dispatcher and the
\* count of preempted messages, with one job to a batch).
THEOREM EvictionsAlwaysProportional ==
  ASSUME MAX_BATCH = 1
  PROVE  Spec => []EvictionsProportional
<1>1. Init => EvictionsCounted
  <2> SUFFICES ASSUME Init PROVE EvictionsCounted
    OBVIOUS
  <2>1. Produced = {} /\ EvictionsInFlight = {} /\ waiting("production") = 0
        /\ stats.preemptions = 0
    BY DEF Init, SchedInit, Produced, EvictionsInFlight, waiting, Class
  <2>2. Cardinality({}) = 0 /\ Cardinality(Free) \in Nat
    <3>1. Settled
      BY TypedInit, AccountingInit, PlacedInit DEF Settled
    <3> QED
      BY <3>1, CountsTyped, FS_EmptySet
  <2> HIDE DEF Produced, EvictionsInFlight, Free
  <2> QED
    BY <2>1, <2>2 DEF EvictionsCounted
<1>2. /\ Settled /\ Settled' /\ YieldTrue /\ FlagsTrue /\ FlagsTrue' /\ EvictionsCounted
      /\ [Next]_vars
      => EvictionsCounted'
  BY CountedNext
<1>3. Settled /\ EvictionsCounted => EvictionsProportional
  <2> SUFFICES ASSUME Settled, EvictionsCounted PROVE EvictionsProportional
    OBVIOUS
  <2> DEFINE a == Cardinality(Produced)
             f == Cardinality(EvictionsInFlight)
             p == stats.preemptions
  <2>1. a \in Nat /\ f \in Nat /\ p \in Nat /\ p + f <= a
    BY CountsTyped DEF EvictionsCounted
  <2> HIDE DEF a, f, p
  <2>2. p <= MAX_BATCH * a
    BY <2>1
  <2> QED
    BY <2>2 DEF EvictionsProportional, Produced, a, p
<1> QED
  BY SettledAlways, BatchesYieldTruly, FlagsAreTrue, <1>1, <1>2, <1>3, PTL DEF Spec

-----------------------------------------------------------------------------
(* Batches of any size *)

\* No message of the group's head has been handled yet.
HeadOwed(g) == busy[g].head \in Outstanding(g)

SignalTrue(g) ==
  busy[g] # None =>
    /\ busy[g].batch_id <= stats.batches_dispatched
    /\ HeadOwed(g) /\ Told(g) => Flagged(g)

\* While the gateway has handled no message of a group's head, the head carries the
\* flag if the worker has been told to stop.  A group's number and every number in a
\* control queue has been used, so no signal names a batch still to be made.
SignalsTrue == \A g \in GPUs : SignalTrue(g) /\ OldSignals(g)

\* A GPU whose group a step keeps, and whose head it keeps flagged.
LEMMA SignalSame ==
  ASSUME NEW g \in GPUs, SignalTrue(g), OldSignals(g),
         stats.batches_dispatched \in Nat,
         stats.batches_dispatched' \in {stats.batches_dispatched, stats.batches_dispatched + 1},
         Range(control_q'[g]) \subseteq Range(control_q[g]),
         Range(control_q[g]) \subseteq Nat,
         busy'[g] # None =>
           /\ busy[g] # None /\ busy[g].batch_id \in Nat
           /\ busy'[g].batch_id = busy[g].batch_id
           /\ HeadOwed(g)' /\ Told(g)' => HeadOwed(g) /\ Told(g) /\ (Flagged(g) => Flagged(g)')
  PROVE  SignalTrue(g)' /\ OldSignals(g)'
<1>1. OldSignals(g)'
  BY DEF OldSignals
<1>2. ASSUME busy'[g] # None PROVE busy'[g].batch_id <= stats.batches_dispatched'
  BY <1>2 DEF SignalTrue
<1> HIDE DEF HeadOwed, Told, Flagged
<1> QED
  BY <1>1, <1>2 DEF SignalTrue

\* The group of a GPU whose messages and signals a step leaves alone, and the flag
\* of its head.
LEMMA SignalKept ==
  ASSUME Settled, NEW g \in GPUs, busy'[g] = busy[g], Outstanding(g)' = Outstanding(g),
         busy[g] # None => (Told(g)' <=> Told(g)),
         \A k \in Jobs : job[k] # None /\ k \in Outstanding(g) => KeepsFlag(k)
  PROVE  busy'[g] # None =>
           /\ busy[g] # None /\ busy[g].batch_id \in Nat
           /\ busy'[g].batch_id = busy[g].batch_id
           /\ HeadOwed(g)' /\ Told(g)' => HeadOwed(g) /\ Told(g) /\ (Flagged(g) => Flagged(g)')
<1> SUFFICES ASSUME busy[g] # None
             PROVE  /\ busy[g].batch_id \in Nat
                    /\ HeadOwed(g)' <=> HeadOwed(g)
                    /\ HeadOwed(g) => (Flagged(g)' <=> Flagged(g))
  <2> HIDE DEF HeadOwed, Told, Flagged
  <2> QED
    OBVIOUS
<1>1. busy[g].batch_id \in Nat /\ busy[g].head \in Jobs /\ job[busy[g].head] # None
  BY DEF Settled, Typed, TypeOK, JobsExist, Group
<1>2. HeadOwed(g)' <=> HeadOwed(g)
  BY DEF HeadOwed
<1>3. ASSUME HeadOwed(g) PROVE Flagged(g)' <=> Flagged(g)
  BY <1>1, <1>3 DEF HeadOwed, Flagged, KeepsFlag
<1> QED
  BY <1>1, <1>2, <1>3

LEMMA ControlTyped ==
  ASSUME Settled, NEW g \in GPUs
  PROVE  control_q[g] \in Seq(Nat) /\ Range(control_q[g]) \subseteq Nat
<1>1. control_q[g] \in Seq(Nat)
  BY DEF Settled, Typed, TypeOK, WorkerTypeOK
<1> QED
  BY <1>1, RangeOfSeq

OwesOutstanding == \A g \in GPUs : Outstanding(g) = Range(OwedIds(g))

LEMMA OutstandingAreOwed == Settled => OwesOutstanding
BY OutstandingIsOwed DEF Settled, OwesOutstanding

\* Of the jobs a GPU owes, a message is about one, which it owes no longer.
LEMMA SignalsOfMessage ==
  ASSUME Settled, Settled', SignalsTrue, NEW g \in GPUs, OnPreempted(g) \/ OnFinished(g)
  PROVE  SignalsTrue'
<1> DEFINE rid == Head(response_q[g]).request_id
<1>1. TakeResponse(g)
  BY DEF OnPreempted, OnFinished
<1>2. \A k \in GPUs : Outstanding(k) = Range(OwedIds(k)) /\ Outstanding(k)' = Range(OwedIds(k)')
  <2>1. OwesOutstanding
    BY OutstandingAreOwed
  <2>2. OwesOutstanding'
    BY OutstandingAreOwed, PTL
  <2> QED
    BY <2>1, <2>2 DEF OwesOutstanding, Range
<1>3. /\ Outstanding(g)' = Outstanding(g) \ {rid}
      /\ \A k \in GPUs : k # g => Outstanding(k)' = Outstanding(k) /\ rid \notin Outstanding(k)
  <2> HIDE DEF Outstanding, OwedIds
  <2>1. /\ Range(OwedIds(g)') = Range(OwedIds(g)) \ {rid}
        /\ \A k \in GPUs : k # g => OwedIds(k)' = OwedIds(k) /\ rid \notin Range(OwedIds(k))
    BY <1>1, MessageOfPending DEF Settled
  <2> QED
    BY <1>2, <2>1
<1>4. \A j \in Jobs : j # rid => job'[j] = job[j]
  BY CheckpointedJob DEF OnFinished, Settled
<1>5. stats.batches_dispatched' = stats.batches_dispatched /\ stats.batches_dispatched \in Nat
  <2>1. stats.batches_dispatched \in Nat
    BY DEF Settled, Typed, TypeOK
  <2>2. CASE OnPreempted(g)
    BY <2>2, CheckpointedJob DEF Settled, Typed, TypeOK
  <2>3. CASE OnFinished(g)
    BY <2>1, <2>3 DEF OnFinished
  <2> QED
    BY <2>1, <2>2, <2>3
<1>6. /\ UNCHANGED control_q
      /\ response_q[g] \in Seq(Response) /\ response_q[g] # <<>>
      /\ response_q' = [response_q EXCEPT ![g] = Tail(response_q[g])]
      /\ \A k \in GPUs : k # g => response_q'[k] = response_q[k]
  BY <1>1 DEF TakeResponse, Settled, Typed, TypeOK, WorkerTypeOK
<1>7. busy' = busy \/ (busy[g] # None /\ busy' = [busy EXCEPT ![g] = Acknowledged(busy[g])])
  BY <1>1 DEF TakeResponse, CountResponse
<1> HIDE DEF rid
<1>8. ASSUME NEW k \in GPUs PROVE SignalTrue(k)' /\ OldSignals(k)'
  <2>1. SignalTrue(k) /\ OldSignals(k) /\ Range(control_q[k]) \subseteq Nat
    BY ControlTyped DEF SignalsTrue
  <2>2. CASE k = g
    <3> SUFFICES ASSUME busy'[g] # None
                 PROVE  /\ busy[g] # None /\ busy[g].batch_id \in Nat
                        /\ busy'[g].batch_id = busy[g].batch_id
                        /\ HeadOwed(g)' /\ Told(g)' =>
                             HeadOwed(g) /\ Told(g) /\ (Flagged(g) => Flagged(g)')
      <4> HIDE DEF HeadOwed, Told, Flagged
      <4> QED
        BY <1>5, <1>6, <2>1, <2>2, SignalSame
    <3>1. /\ busy[g] # None /\ busy[g] \in Group
          /\ busy'[g].batch_id = busy[g].batch_id /\ busy'[g].head = busy[g].head
      BY <1>7 DEF Acknowledged, Settled, Typed, TypeOK, Group
    <3>2. busy[g].batch_id \in Nat /\ busy[g].head \in Jobs
      BY <3>1 DEF Group
    <3>3. Told(g)' => Told(g)
      <4>1. Range(response_q'[g]) \subseteq Range(response_q[g])
        <5>1. Range(Tail(response_q[g])) \subseteq Range(response_q[g])
          BY <1>6, RangeOfTail
        <5> QED
          BY <1>6, <5>1 DEF Settled, Typed, TypeOK, WorkerTypeOK
      <4> QED
        BY <1>6, <3>1, <4>1 DEF Told
    <3>4. HeadOwed(g)' => HeadOwed(g) /\ busy[g].head # rid
      <4> HIDE DEF Outstanding
      <4> QED
        BY <1>3, <3>1 DEF HeadOwed
    <3>5. busy[g].head # rid => (Flagged(g)' <=> Flagged(g))
      BY <1>4, <3>1, <3>2 DEF Flagged
    <3> HIDE DEF HeadOwed, Told, Flagged
    <3> QED
      BY <3>1, <3>2, <3>3, <3>4, <3>5
  <2>3. CASE k # g
    <3>1. busy'[k] = busy[k]
      BY <1>7, <2>3 DEF Settled, Typed, TypeOK
    <3>2. Told(k)' <=> Told(k)
      BY <1>6, <2>3, <3>1 DEF Told
    <3>3. \A j \in Jobs : job[j] # None /\ j \in Outstanding(k) => KeepsFlag(j)
      BY <1>3, <1>4, <2>3 DEF KeepsFlag
    <3> HIDE DEF HeadOwed, Told, Flagged, Outstanding, KeepsFlag
    <3>4. busy'[k] # None =>
            /\ busy[k] # None /\ busy[k].batch_id \in Nat
            /\ busy'[k].batch_id = busy[k].batch_id
            /\ HeadOwed(k)' /\ Told(k)' => HeadOwed(k) /\ Told(k) /\ (Flagged(k) => Flagged(k)')
      BY <1>3, <2>3, <3>1, <3>2, <3>3, SignalKept
    <3> QED
      BY <1>5, <1>6, <2>1, <3>4, SignalSame
  <2> QED
    BY <2>2, <2>3
<1> QED
  BY <1>8 DEF SignalsTrue

\* A group starts under a number that no signal carries yet.
LEMMA SignalsOfDispatch ==
  ASSUME Settled, Settled', [Next]_vars, SignalsTrue, NEW h \in Jobs, NEW g \in GPUs,
         DispatchBatch(h, g), ~Evict, \A k \in GPUs : ~OnPreempted(k)
  PROVE  SignalsTrue'
<1> DEFINE n == stats.batches_dispatched
<1>1. /\ busy[g] = None /\ busy' = [busy EXCEPT ![g] = NewGroup(h)]
      /\ UNCHANGED <<control_q, response_q, running>>
      /\ n \in Nat /\ n' = n + 1
      /\ request_q' = [request_q EXCEPT ![g] = Append(request_q[g], NewBatch(h))]
  BY DEF DispatchBatch, LeastUtilised, Free, Settled, Typed, TypeOK
<1>2. \A k \in Jobs : job[k] # None => KeepsFlag(k)
  BY FlagsKept DEF Checkpointed, Settled
<1>3. SignalTrue(g)' /\ OldSignals(g)'
  <2>1. \A id \in Range(control_q[g]) : id \in Nat /\ id <= n
    BY ControlTyped DEF SignalsTrue, OldSignals
  <2>2. busy'[g].batch_id = n + 1
    BY <1>1 DEF Settled, Typed, TypeOK, NewGroup, NewBatchId
  <2>3. ~Told(g)'
    <3>1. response_q[g] = <<>>
      BY <1>1 DEF Settled, GroupAccounting, Unused
    <3>2. n + 1 \notin Range(control_q[g])
      BY <1>1, <2>1
    <3> QED
      BY <1>1, <2>2, <3>1, <3>2 DEF Told, Range
  <2>4. OldSignals(g)'
    BY <1>1, <2>1 DEF OldSignals
  <2> HIDE DEF HeadOwed, Told, Flagged
  <2> QED
    BY <1>1, <2>2, <2>3, <2>4 DEF SignalTrue
<1>4. ASSUME NEW k \in GPUs, k # g PROVE SignalTrue(k)' /\ OldSignals(k)'
  <2>1. SignalTrue(k) /\ OldSignals(k) /\ Range(control_q[k]) \subseteq Nat
    BY ControlTyped DEF SignalsTrue
  <2>2. busy'[k] = busy[k] /\ request_q'[k] = request_q[k]
    BY <1>1, <1>4 DEF Settled, Typed, TypeOK, WorkerTypeOK
  <2>3. Outstanding(k)' = Outstanding(k)
    BY <1>1, <2>2 DEF Outstanding, RunningIds, AnsweringIds
  <2>4. Told(k)' <=> Told(k)
    BY <1>1, <2>2 DEF Told
  <2> HIDE DEF HeadOwed, Told, Flagged, Outstanding, KeepsFlag
  <2>5. busy'[k] # None =>
          /\ busy[k] # None /\ busy[k].batch_id \in Nat
          /\ busy'[k].batch_id = busy[k].batch_id
          /\ HeadOwed(k)' /\ Told(k)' => HeadOwed(k) /\ Told(k) /\ (Flagged(k) => Flagged(k)')
    BY <1>2, <2>2, <2>3, <2>4, SignalKept
  <2> QED
    BY <1>1, <2>1, <2>5, SignalSame
<1> QED
  BY <1>3, <1>4 DEF SignalsTrue

\* An eviction only sets flags, and sets that of every head it signals.
LEMMA SignalsOfEvict ==
  ASSUME Settled, SignalsTrue, Evict
  PROVE  /\ SignalsTrue'
         /\ EvictionsInFlight' = EvictionsInFlight \cup Victims
<1> DEFINE V == Victims
<1>1. /\ UNCHANGED <<queues, request_q, response_q, running, busy, stats>>
      /\ job' = [j \in Jobs |->
                   IF \E g \in V : busy[g].head = j
                   THEN [job[j] EXCEPT !.preempt_requested = TRUE] ELSE job[j]]
      /\ control_q' = [g \in GPUs |->
                         IF g \in V THEN Append(control_q[g], busy[g].batch_id)
                         ELSE control_q[g]]
  BY DEF Evict
<1>2. \A g \in V : /\ g \in GPUs /\ busy[g] # None /\ busy[g].batch_id \in Nat
                   /\ busy[g].head \in Jobs /\ job[busy[g].head] \in Job
  BY VictimsAre DEF Settled, Group
<1> HIDE DEF V
<1>3. ASSUME NEW j \in Jobs, job[j] \in Job
      PROVE  /\ job[j].preempt_requested => job'[j].preempt_requested
             /\ (\E g \in V : busy[g].head = j) => job'[j].preempt_requested
  <2>1. CASE \E g \in V : busy[g].head = j
    <3>1. job'[j] = [job[j] EXCEPT !.preempt_requested = TRUE]
      BY <1>1, <2>1
    <3>2. job'[j].preempt_requested = TRUE
      BY <1>3, <3>1 DEF Job
    <3> QED
      BY <3>2
  <2>2. CASE ~\E g \in V : busy[g].head = j
    <3>1. job'[j] = job[j]
      BY <1>1, <2>2
    <3> QED
      BY <2>2, <3>1
  <2> QED
    BY <2>1, <2>2
<1>4. ASSUME NEW g \in GPUs
      PROVE  Range(control_q'[g]) = IF g \in V THEN Range(control_q[g]) \cup {busy[g].batch_id}
                                               ELSE Range(control_q[g])
  <2>1. control_q[g] \in Seq(Nat)
    BY ControlTyped
  <2>2. CASE g \in V
    BY <1>1, <1>2, <2>1, <2>2, RangeOfAppend
  <2>3. CASE g \notin V
    BY <1>1, <2>3
  <2> QED
    BY <2>2, <2>3
<1>5. ASSUME NEW g \in GPUs PROVE SignalTrue(g)' /\ OldSignals(g)'
  <2>1. SignalTrue(g) /\ OldSignals(g) /\ busy'[g] = busy[g]
        /\ stats.batches_dispatched' = stats.batches_dispatched
    BY <1>1 DEF SignalsTrue
  <2>2. OldSignals(g)'
    BY <1>2, <1>4, <2>1 DEF OldSignals, SignalTrue
  <2>3. ASSUME busy[g] # None, HeadOwed(g)', Told(g)' PROVE Flagged(g)'
    <3>1. busy[g].head \in Jobs /\ job[busy[g].head] \in Job
      BY <2>3 DEF Settled, Typed, TypeOK, SchedTypeOK, JobsExist, Group
    <3>2. CASE g \in V
      BY <1>3, <2>1, <3>1, <3>2 DEF Flagged
    <3>3. CASE g \notin V
      <4>1. Told(g)
        BY <1>1, <1>4, <2>1, <2>3, <3>3 DEF Told
      <4>2. HeadOwed(g)
        BY <1>1, <2>1, <2>3 DEF HeadOwed, Outstanding, RunningIds, AnsweringIds
      <4>3. Flagged(g)
        BY <2>1, <2>3, <4>1, <4>2 DEF SignalTrue
      <4> QED
        BY <1>3, <2>1, <3>1, <4>3 DEF Flagged
    <3> QED
      BY <3>2, <3>3
  <2> HIDE DEF HeadOwed, Told, Flagged
  <2> QED
    BY <2>1, <2>2, <2>3 DEF SignalTrue
<1>6. EvictionsInFlight' = EvictionsInFlight \cup V
  BY <1>1, <1>2, <1>4 DEF EvictionsInFlight
<1> QED
  BY <1>5, <1>6 DEF SignalsTrue, V

LEMMA SignalsNext ==
  ASSUME Settled, Settled', SignalsTrue, [Next]_vars
  PROVE  SignalsTrue'
<1>1. CASE \E g \in GPUs : OnPreempted(g) \/ OnFinished(g)
  BY <1>1, SignalsOfMessage
<1>2. CASE Evict
  BY <1>2, SignalsOfEvict
<1>3. CASE \E h \in Jobs, g \in GPUs : DispatchBatch(h, g)
  <2>1. PICK h \in Jobs, g \in GPUs : DispatchBatch(h, g)
    BY <1>3
  <2>2. ~Evict /\ \A k \in GPUs : ~OnPreempted(k)
    BY <2>1 DEF DispatchBatch, Evict, OnPreempted, TakeResponse, LoopIdle
  <2> QED
    BY <2>1, <2>2, SignalsOfDispatch
<1>4. ASSUME NEW k \in GPUs, busy'[k] = busy[k], Outstanding(k)' = Outstanding(k),
             busy[k] # None => (Told(k)' <=> Told(k)),
             Range(control_q'[k]) \subseteq Range(control_q[k]),
             stats.batches_dispatched' = stats.batches_dispatched,
             \A j \in Jobs : job[j] # None => KeepsFlag(j)
      PROVE  SignalTrue(k)' /\ OldSignals(k)'
  <2>1. /\ SignalTrue(k) /\ OldSignals(k) /\ Range(control_q[k]) \subseteq Nat
        /\ stats.batches_dispatched \in Nat
    BY ControlTyped DEF SignalsTrue, Settled, Typed, TypeOK
  <2> HIDE DEF HeadOwed, Told, Flagged, Outstanding, KeepsFlag
  <2>2. busy'[k] # None =>
          /\ busy[k] # None /\ busy[k].batch_id \in Nat
          /\ busy'[k].batch_id = busy[k].batch_id
          /\ HeadOwed(k)' /\ Told(k)' => HeadOwed(k) /\ Told(k) /\ (Flagged(k) => Flagged(k)')
    BY <1>4, SignalKept
  <2> QED
    BY <1>4, <2>1, <2>2, SignalSame
<1>5. CASE \E g \in GPUs : (WorkerStep(g) \/ BatchError(g)) /\ UNCHANGED gatewayVars
  <2>1. PICK g \in GPUs : (WorkerStep(g) \/ BatchError(g)) /\ UNCHANGED gatewayVars
    BY <1>5
  <2>2. UNCHANGED <<job, busy, stats>>
    BY <2>1 DEF gatewayVars, schedVars
  <2>3. \A j \in Jobs : KeepsFlag(j)
    BY <2>2 DEF KeepsFlag
  <2>4. OwesOutstanding /\ OwesOutstanding'
    BY OutstandingAreOwed, PTL
  <2>5. ASSUME NEW k \in GPUs PROVE Outstanding(k)' = Outstanding(k)
    <3>1. OwedIds(k)' = OwedIds(k)
      BY <2>1, OwedWorker DEF Settled
    <3> HIDE DEF OwedIds, Outstanding
    <3> QED
      BY <2>4, <3>1 DEF OwesOutstanding, Range
  <2> HIDE DEF HeadOwed, Told, Flagged, Outstanding, KeepsFlag
  <2>6. ASSUME NEW k \in GPUs PROVE SignalTrue(k)' /\ OldSignals(k)'
    <3>1. /\ Range(control_q'[k]) \subseteq Range(control_q[k])
          /\ busy[k] # None => (Told(k)' <=> Told(k))
      BY <2>1, ToldWorker
    <3> QED
      BY <1>4, <2>2, <2>3, <2>5, <3>1
  <2> QED
    BY <2>6 DEF SignalsTrue
<1>6. CASE \/ \E j \in Jobs, r \in Requests : Generate(j, r)
           \/ \E r \in Requests : Reject(r)
           \/ \E j \in Jobs : Cancel(j) \/ Respond(j) \/ TimerFire(j)
           \/ \E h \in Jobs : HoldBatch(h)
           \/ Wake \/ FillDone \/ Age \/ Idle \/ UNCHANGED vars
  <2>1. UNCHANGED <<workerVars, busy>> /\ stats.batches_dispatched' = stats.batches_dispatched
    BY <1>6 DEF Generate, Reject, Cancel, Respond, TimerFire, HoldBatch, Wake, FillDone, Age,
                Idle, vars, Settled, Typed, TypeOK
  <2>2. CASE ~Evict /\ ~\E g \in GPUs : OnPreempted(g)
    <3>1. \A j \in Jobs : job[j] # None => KeepsFlag(j)
      BY <2>2, FlagsKept DEF Checkpointed, Settled
    <3>2. ASSUME NEW k \in GPUs
          PROVE  /\ Outstanding(k)' = Outstanding(k) /\ (Told(k)' <=> Told(k))
                 /\ Range(control_q'[k]) \subseteq Range(control_q[k])
      BY <2>1 DEF workerVars, Outstanding, RunningIds, AnsweringIds, Told
    <3> HIDE DEF HeadOwed, Told, Flagged, Outstanding, KeepsFlag
    <3> QED
      BY <1>4, <2>1, <3>1, <3>2 DEF SignalsTrue
  <2> QED
    BY <1>1, <1>2, <2>2
<1> QED
  BY <1>1, <1>2, <1>3, <1>5, <1>6 DEF Next, Client, DispatcherStep

\* Whatever the size of the batches, a batch that was told to stop and whose head's
\* message has not been handled is one the loop counts as told (gateway.py, the
\* eviction block of dispatcher; worker.py, _preempt_requested).
THEOREM SignalsAreTrue == Spec => []SignalsTrue
<1>1. Init => SignalsTrue
  BY DEF Init, WorkerInit, SignalsTrue, SignalTrue, OldSignals, Range
<1>2. Settled /\ Settled' /\ SignalsTrue /\ [Next]_vars => SignalsTrue'
  BY SignalsNext
<1> QED
  BY <1>1, <1>2, SettledAlways, PTL DEF Spec

\* A worker checkpoints a batch only if the batch was told to stop, also where a
\* message for an earlier batch arrives late: StaleSignalIgnored up to the moment
\* at which the head's own checkpoint clears its flag.
THEOREM OnlySignalledYield ==
  Spec => [](\A g \in GPUs : HeadOwed(g) =>
               \A m \in Range(response_q[g]) :
                 m.type = "preempted" => job[busy[g].head].preempt_requested)
<1>1. Settled /\ SignalsTrue =>
        \A g \in GPUs : HeadOwed(g) =>
          \A m \in Range(response_q[g]) :
            m.type = "preempted" => job[busy[g].head].preempt_requested
  <2> SUFFICES ASSUME Settled, SignalsTrue, NEW g \in GPUs, HeadOwed(g),
                      NEW m \in Range(response_q[g]), m.type = "preempted"
               PROVE  job[busy[g].head].preempt_requested
    OBVIOUS
  <2>1. busy[g] # None
    <3>1. response_q[g] # <<>>
      BY DEF Range
    <3> QED
      BY <3>1 DEF Settled, GroupAccounting, Unused
  <2>2. Told(g)
    BY DEF Told
  <2> HIDE DEF HeadOwed, Told
  <2> QED
    BY <2>1, <2>2 DEF SignalsTrue, SignalTrue, Flagged
<1> QED
  BY <1>1, SignalsAreTrue, SettledAlways, PTL

\* The bound of gateway.py:453-457 for batches of any size, but for the passes in
\* the window of finding 1, in which the head of an evicted batch is back and its
\* mates are not: that window is the only thing that can break it.
THEOREM EvictionsBudgetedOutsideWindow ==
  Spec => [][Evict /\ (\A g \in EvictionsInFlight : HeadOwed(g)) =>
               Cardinality(EvictionsInFlight') <=
                 Larger(Cardinality(EvictionsInFlight), EvictionsWanted)]_vars
<1>1. ASSUME Settled, SignalsTrue, Evict, \A g \in EvictionsInFlight : HeadOwed(g)
      PROVE  Cardinality(EvictionsInFlight') <=
               Larger(Cardinality(EvictionsInFlight), EvictionsWanted)
  <2> DEFINE F == EvictionsInFlight
             R == {g \in GPUs : Flagged(g)}
  <2>1. F' = F \cup Victims
    BY <1>1, SignalsOfEvict
  <2>2. IsFiniteSet(F) /\ IsFiniteSet(R) /\ Cardinality(F) \in Nat /\ Cardinality(R) \in Nat
    <3>1. IsFiniteSet(GPUs) /\ F \subseteq GPUs /\ R \subseteq GPUs
      BY ConfigAssumption, FS_Interval DEF GPUs, EvictionsInFlight
    <3> HIDE DEF F, R
    <3> QED
      BY <3>1, FS_Subset, FS_CardinalityType
  <2>3. F \subseteq R
    <3>1. \A g \in F : g \in GPUs /\ busy[g] # None /\ Told(g)
      BY DEF EvictionsInFlight, Told
    <3> HIDE DEF HeadOwed, Told, Flagged
    <3> QED
      BY <1>1, <3>1 DEF SignalsTrue, SignalTrue
  <2>4. EvictionsWanted \in Int
    <3>1. PICK w \in Nat : w = waiting("production")
      <4>1. "production" \in Class
        BY DEF Class
      <4> QED
        BY <1>1, <4>1 DEF waiting, Settled, Typed, TypeOK, SchedTypeOK
    <3>2. PICK b \in Nat \ {0} : b = MAX_BATCH
      BY ConfigAssumption
    <3>3. (w + b - 1) \div b \in Int
      OBVIOUS
    <3> QED
      BY <3>1, <3>2, <3>3 DEF EvictionsWanted, CeilDiv
  <2>5. CASE Victims = {}
    BY <2>1, <2>2, <2>4, <2>5 DEF Larger
  <2>6. CASE Victims # {}
    <3>1. Preemptive /\ waiting("production") > 0 /\ Free = {}
      BY <2>6 DEF Victims
    <3>2. EvictionNeed = EvictionsWanted - Cardinality(R)
      BY DEF EvictionNeed, EvictionsWanted
    <3>3. /\ IsFiniteSet(EvictionCandidates) /\ IsFiniteSet(Victims)
          /\ Cardinality(Victims) =
               IF EvictionNeed <= 0 THEN 0
               ELSE Smaller(Cardinality(EvictionCandidates), EvictionNeed)
      BY <1>1, <2>2, <2>4, <3>1, <3>2, VictimsByRank DEF Settled
    <3>4. Cardinality(EvictionCandidates) \in Nat /\ Cardinality(Victims) \in Nat
      BY <3>3, FS_CardinalityType
    <3>5. Cardinality(F) <= Cardinality(R)
      <4> HIDE DEF F, R
      <4> QED
        BY <2>2, <2>3, FS_Subset
    <3>6. Cardinality(F \cup Victims) <= Cardinality(F) + Cardinality(Victims)
      <4> HIDE DEF F
      <4>1. /\ IsFiniteSet(F \cap Victims)
            /\ Cardinality(F \cup Victims) =
                 Cardinality(F) + Cardinality(Victims) - Cardinality(F \cap Victims)
        BY <2>2, <3>3, FS_Union, FS_Intersection
      <4>2. Cardinality(F \cap Victims) \in Nat
        BY <4>1, FS_CardinalityType
      <4> QED
        BY <2>2, <3>4, <4>1, <4>2
    <3>7. PICK f \in Nat, r \in Nat, v \in Nat, c \in Nat, w \in Int, n \in Int :
            /\ f = Cardinality(F) /\ r = Cardinality(R) /\ v = Cardinality(Victims)
            /\ c = Cardinality(EvictionCandidates) /\ w = EvictionsWanted /\ n = EvictionNeed
      <4> HIDE DEF F, R
      <4>1. PICK f \in Nat : f = Cardinality(F)
        BY <2>2
      <4>2. PICK r \in Nat : r = Cardinality(R)
        BY <2>2
      <4>3. PICK w \in Int : w = EvictionsWanted
        BY <2>4
      <4>4. w - r = EvictionNeed /\ w - r \in Int
        BY <3>2, <4>2, <4>3
      <4> QED
        BY <3>4, <4>1, <4>2, <4>3, <4>4
    <3>8. PICK a \in Nat : a = Cardinality(F \cup Victims)
      <4> HIDE DEF F
      <4>1. IsFiniteSet(F \cup Victims)
        BY <2>2, <3>3, FS_Union
      <4> QED
        BY <4>1, FS_CardinalityType
    <3>9. /\ n = w - r /\ f <= r /\ a <= f + v
          /\ v = IF n <= 0 THEN 0 ELSE Smaller(c, n)
      BY <3>2, <3>3, <3>5, <3>6, <3>7, <3>8
    <3>10. a <= Larger(f, w)
      BY <3>9 DEF Larger, Smaller
    <3>11. Cardinality(EvictionsInFlight') = a
      BY <2>1, <3>8
    <3> QED
      BY <3>7, <3>10, <3>11
  <2> QED
    BY <2>5, <2>6
<1>2. Settled /\ SignalsTrue /\ [Next]_vars =>
        [Evict /\ (\A g \in EvictionsInFlight : HeadOwed(g)) =>
           Cardinality(EvictionsInFlight') <=
             Larger(Cardinality(EvictionsInFlight), EvictionsWanted)]_vars
  BY <1>1
<1> QED
  BY <1>2, SettledAlways, SignalsAreTrue, PTL DEF Spec
=============================================================================
