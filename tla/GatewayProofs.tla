---------------------------- MODULE GatewayProofs ----------------------------
(***************************************************************************)
(* The gateway for every number of GPUs, batch size, policy, configuration *)
(* and set of requests: the groups and rests that pop_mates makes of a     *)
(* queue; its types; its two books, what "busy" says of the workers and    *)
(* what "tenant_inflight" says of the jobs; and where the jobs are, each   *)
(* that has not ended in its queue or with one GPU, whatever the           *)
(* interleaving, with what that says of the queues' length and of /stats.  *)
(***************************************************************************)
EXTENDS GatewayProps, SumProofs, FiniteSetTheorems, FunctionTheorems, SequenceTheorems, TLAPS

-----------------------------------------------------------------------------
(* Groups and rests *)

\* AtPositions(q, I) lists the entries of q at I, each position once and in
\* order: this is the fact that taking a group out of a queue loses, repeats and
\* reorders no job.
LEMMA AtPositionsBijection ==
  ASSUME NEW q, NEW len \in Nat, DOMAIN q = 1..len, NEW I \in SUBSET (1..len)
  PROVE  /\ IsFiniteSet(I)
         /\ Cardinality(I) \in Nat
         /\ \E p \in Bijection(1..Cardinality(I), I) :
              /\ AtPositions(q, I) = [n \in 1..Cardinality(I) |-> q[p[n]]]
              /\ \A m, n \in 1..Cardinality(I) : m < n => p[m] < p[n]
PROOF
  <1> DEFINE Upto(i) == {k \in I : k <= i}
             N == Cardinality(I)
             rank == [i \in I |-> Cardinality(Upto(i))]
             p == [n \in 1..N |-> CHOOSE i \in I : Cardinality(Upto(i)) = n]
  <1>0. \A i \in I : i \in Int
    OBVIOUS
  <1>1. IsFiniteSet(I) /\ N \in Nat
    <2>1. IsFiniteSet(1..len)
      BY FS_Interval
    <2> QED
      BY <2>1, FS_Subset, FS_CardinalityType
  <1>2. \A i \in I : /\ IsFiniteSet(Upto(i))
                     /\ Cardinality(Upto(i)) \in 1..N
    <2> TAKE i \in I
    <2>1. Upto(i) \subseteq I
      OBVIOUS
    <2>2. IsFiniteSet(Upto(i)) /\ Cardinality(Upto(i)) \in Nat /\ Cardinality(Upto(i)) <= N
      BY <1>1, <2>1, FS_Subset, FS_CardinalityType
    <2>3. i \in Upto(i)
      BY <1>0
    <2>4. Cardinality(Upto(i)) # 0
      BY <2>2, <2>3, FS_EmptySet
    <2> QED
      BY <1>1, <2>2, <2>4
  <1>3. \A i, j \in I : i < j => Cardinality(Upto(i)) < Cardinality(Upto(j))
    <2> SUFFICES ASSUME NEW i \in I, NEW j \in I, i < j
                 PROVE  Cardinality(Upto(i)) < Cardinality(Upto(j))
      OBVIOUS
    <2>1. Upto(i) \subseteq Upto(j) /\ j \in Upto(j) /\ j \notin Upto(i)
      <3>1. \A k \in I : k <= i => k <= j
        BY <1>0
      <3>2. j <= j /\ ~(j <= i)
        BY <1>0
      <3> QED
        BY <3>1, <3>2
    <2>2. Cardinality(Upto(i)) <= Cardinality(Upto(j))
      <3> HIDE DEF Upto
      <3> QED
        BY <1>2, <2>1, FS_Subset
    <2>3. Cardinality(Upto(i)) # Cardinality(Upto(j))
      <3>1. Upto(i) # Upto(j)
        BY <2>1
      <3> HIDE DEF Upto
      <3> QED
        BY <1>2, <2>1, <3>1, FS_Subset
    <2>4. Cardinality(Upto(i)) \in Nat /\ Cardinality(Upto(j)) \in Nat
      <3> HIDE DEF Upto
      <3> QED
        BY <1>1, <1>2
    <2> HIDE DEF Upto
    <2> QED
      BY <2>2, <2>3, <2>4
  <1> HIDE DEF Upto
  <1>4. rank \in Injection(I, 1..N)
    <2>1. rank \in [I -> 1..N]
      BY <1>2
    <2>2. \A i, j \in I : rank[i] = rank[j] => i = j
      BY <1>1, <1>2, <1>3
    <2> QED
      BY <2>1, <2>2, Fun_IsInj
  <1>5. rank \in Surjection(I, 1..N)
    <2>1. IsFiniteSet(1..N) /\ Cardinality(1..N) = N
      BY <1>1, FS_Interval
    <2> QED
      BY <1>4, <2>1, FS_Injection
  <1>6. \A n \in 1..N : p[n] \in I /\ Cardinality(Upto(p[n])) = n
    BY <1>5 DEF Surjection
  <1>7. p \in Bijection(1..N, I)
    <2>1. p \in [1..N -> I]
      BY <1>6
    <2>2. \A m, n \in 1..N : p[m] = p[n] => m = n
      BY <1>6
    <2>3. \A i \in I : \E n \in 1..N : p[n] = i
      BY <1>2, <1>4, <1>6 DEF Injection
    <2> QED
      BY <2>1, <2>2, <2>3, Fun_IsBij
  <1>8. AtPositions(q, I) = [n \in 1..N |-> q[p[n]]]
    BY DEF AtPositions, Upto
  <1>9. \A m, n \in 1..N : m < n => p[m] < p[n]
    <2> HIDE DEF p, N
    <2> SUFFICES ASSUME NEW m \in 1..N, NEW n \in 1..N, m < n
                 PROVE  p[m] < p[n]
      OBVIOUS
    <2>1. PICK i \in I : i = p[m] /\ Cardinality(Upto(i)) = m
      BY <1>6
    <2>2. PICK k \in I : k = p[n] /\ Cardinality(Upto(k)) = n
      BY <1>6
    <2>3. ~(k < i) /\ i # k
      BY <1>3, <2>1, <2>2
    <2>4. i < k
      BY <1>0, <2>3
    <2> QED
      BY <2>1, <2>2, <2>4
  <1> HIDE DEF p
  <1> QED
    BY <1>1, <1>7, <1>8, <1>9

-----------------------------------------------------------------------------
(* Sequences *)

\* What stays when the first entry of a sequence is taken.
LEMMA RangeOfTail ==
  ASSUME NEW S, NEW q \in Seq(S), q # <<>>
  PROVE  /\ Tail(q) \in Seq(S)
         /\ Len(Tail(q)) = Len(q) - 1
         /\ Range(Tail(q)) \subseteq Range(q)
         /\ Head(q) \in Range(q)
         /\ Head(q) \in S
BY DEF Range

\* What a put adds to a queue.
LEMMA RangeOfAppend ==
  ASSUME NEW S, NEW q \in Seq(S), NEW x \in S
  PROVE  Range(Append(q, x)) = Range(q) \cup {x}
<1>1. Append(q, x) = q \o <<x>> /\ <<x>> \in Seq(S)
  BY AppendIsConcat
<1>2. Range(<<x>>) = {x}
  BY DEF Range
<1>3. Range(q \o <<x>>) = Range(q) \cup Range(<<x>>)
  BY <1>1, RangeConcatenation
<1> QED
  BY <1>1, <1>2, <1>3, Zenon

\* The entries at a set of positions form a sequence of just those entries.
LEMMA RangeOfAtPositions ==
  ASSUME NEW S, NEW q \in Seq(S), NEW I \in SUBSET (1..Len(q))
  PROVE  /\ AtPositions(q, I) \in Seq(S)
         /\ Range(AtPositions(q, I)) = {q[i] : i \in I}
<1>1. /\ Cardinality(I) \in Nat
      /\ \E p \in Bijection(1..Cardinality(I), I) :
           AtPositions(q, I) = [n \in 1..Cardinality(I) |-> q[p[n]]]
  <2>1. Len(q) \in Nat /\ DOMAIN q = 1..Len(q)
    OBVIOUS
  <2> QED
    BY <2>1, AtPositionsBijection
<1>2. PICK p \in Bijection(1..Cardinality(I), I) :
        AtPositions(q, I) = [n \in 1..Cardinality(I) |-> q[p[n]]]
  BY <1>1
<1>3. /\ p \in [1..Cardinality(I) -> I]
      /\ \A i \in I : \E n \in 1..Cardinality(I) : p[n] = i
  BY <1>2 DEF Bijection, Injection, Surjection
<1>4. \A n \in 1..Cardinality(I) : q[p[n]] \in S
  <2> TAKE n \in 1..Cardinality(I)
  <2>1. p[n] \in 1..Len(q)
    BY <1>3
  <2> QED
    BY <2>1, ElementOfSeq
<1>5. AtPositions(q, I) \in Seq(S)
  <2>1. [n \in 1..Cardinality(I) |-> q[p[n]]] \in [1..Cardinality(I) -> S]
    BY <1>4, Zenon
  <2>2. \A n \in Nat : [1..n -> S] \subseteq Seq(S)
    BY SeqDef
  <2> QED
    BY <1>1, <1>2, <2>1, <2>2, Zenon
<1>6. Range(AtPositions(q, I)) = {q[i] : i \in I}
  <2> DEFINE entries == [n \in 1..Cardinality(I) |-> q[p[n]]]
  <2>1. Range(entries) = {q[i] : i \in I}
    <3>1. \A n \in 1..Cardinality(I) : entries[n] = q[p[n]] /\ p[n] \in I
      BY <1>3
    <3>2. DOMAIN entries = 1..Cardinality(I)
      OBVIOUS
    <3> HIDE DEF entries
    <3>3. Range(entries) \subseteq {q[i] : i \in I}
      <4> SUFFICES ASSUME NEW n \in 1..Cardinality(I)
                   PROVE  entries[n] \in {q[i] : i \in I}
        BY <3>2, Zenon DEF Range
      <4> QED
        BY <3>1, Zenon
    <3>4. \A i \in I : q[i] \in Range(entries)
      BY <1>3, <3>1, <3>2 DEF Range
    <3> QED
      BY <3>3, <3>4
  <2> HIDE DEF entries
  <2> QED
    BY <1>2, <2>1, Zenon DEF entries
<1> QED
  BY <1>5, <1>6

\* A selection keeps the order of the positions.
LEMMA AtPositionsInOrder ==
  ASSUME NEW S, NEW q \in Seq(S), NEW I \in SUBSET (1..Len(q))
  PROVE  \A m, n \in DOMAIN AtPositions(q, I) : m < n =>
           \E i, k \in I : i < k /\ AtPositions(q, I)[m] = q[i] /\ AtPositions(q, I)[n] = q[k]
<1>1. Len(q) \in Nat /\ DOMAIN q = 1..Len(q)
  OBVIOUS
<1>2. PICK p \in Bijection(1..Cardinality(I), I) :
        /\ AtPositions(q, I) = [n \in 1..Cardinality(I) |-> q[p[n]]]
        /\ \A m, n \in 1..Cardinality(I) : m < n => p[m] < p[n]
  BY <1>1, AtPositionsBijection
<1>3. p \in [1..Cardinality(I) -> I]
  BY <1>2, Fun_BijectionProperties
<1> DEFINE entries == [n \in 1..Cardinality(I) |-> q[p[n]]]
<1>4. /\ DOMAIN entries = 1..Cardinality(I)
      /\ \A n \in 1..Cardinality(I) : entries[n] = q[p[n]] /\ p[n] \in I
  BY <1>3
<1>5. AtPositions(q, I) = entries
  BY <1>2
<1> HIDE DEF entries
<1> QED
  BY <1>2, <1>4, <1>5

-----------------------------------------------------------------------------
(* Batches *)

\* A group and what it leaves behind are sequences of jobs of one queue, and
\* together they are all of it.
LEMMA GroupAndRest ==
  ASSUME SchedTypeOK, NEW h \in Jobs, job[h] \in Job,
         h \in Range(queues[job[h].queue])
  PROVE  LET q == queues[job[h].queue]
         IN  /\ GroupOf(h) \in Seq(Jobs) /\ GroupOf(h) # <<>>
             /\ RestOf(h) \in Seq(Jobs)
             /\ Range(GroupOf(h)) \cup Range(RestOf(h)) = Range(q)
<1> DEFINE q == queues[job[h].queue]
           M == MatePositions(h)
           R == {i \in DOMAIN q : q[i] # h} \ M
           mates == AtPositions(q, M)
<1>1. q \in Seq(Jobs) /\ DOMAIN q = 1..Len(q)
  BY DEF SchedTypeOK, Job
<1>2. M \subseteq {i \in DOMAIN q : q[i] # h}
  BY DEF MatePositions, MatchingPositions
<1>3. /\ mates \in Seq(Jobs)
      /\ Range(mates) = {q[i] : i \in M}
  BY <1>1, <1>2, RangeOfAtPositions
<1>4. /\ AtPositions(q, R) \in Seq(Jobs)
      /\ Range(AtPositions(q, R)) = {q[i] : i \in R}
  BY <1>1, <1>2, RangeOfAtPositions
<1>5. GroupOf(h) = <<h>> \o mates /\ RestOf(h) = AtPositions(q, R)
  BY DEF GroupOf, RestOf
<1>6. <<h>> \in Seq(Jobs) /\ Range(<<h>>) = {h}
  BY DEF Range
<1>7. Range(GroupOf(h)) = {h} \cup {q[i] : i \in M}
  <2> HIDE DEF mates
  <2>0. <<h>> \in Seq(Jobs) /\ mates \in Seq(Jobs)
    BY <1>3, <1>6
  <2>1. Range(<<h>> \o mates) = Range(<<h>>) \cup Range(mates)
    BY <2>0, RangeConcatenation, Zenon
  <2> QED
    BY <1>3, <1>5, <1>6, <2>1
<1>8. GroupOf(h) \in Seq(Jobs) /\ Len(GroupOf(h)) = 1 + Len(mates)
  <2> HIDE DEF mates
  <2>1. /\ <<h>> \o mates \in Seq(Jobs)
        /\ Len(<<h>> \o mates) = Len(<<h>>) + Len(mates)
    BY <1>3, <1>6, ConcatProperties
  <2> QED
    BY <1>5, <2>1
<1>9. GroupOf(h) # <<>>
  <2>1. Len(mates) \in Nat
    BY <1>3, LenProperties
  <2>2. Len(GroupOf(h)) # 0
    BY <1>8, <2>1
  <2> QED
    BY <2>2, EmptySeq
<1>10. Range(q) = {h} \cup {q[i] : i \in M} \cup {q[i] : i \in R}
  <2>1. Range(q) = {q[i] : i \in DOMAIN q}
    BY DEF Range
  <2>2. DOMAIN q = {i \in DOMAIN q : q[i] = h} \cup M \cup R
    BY <1>2
  <2>3. \E i \in DOMAIN q : q[i] = h
    BY <2>1
  <2> HIDE DEF q, M, R
  <2> QED
    BY <2>1, <2>2, <2>3
<1> QED
  BY <1>4, <1>5, <1>7, <1>8, <1>9, <1>10

\* A group is of one shape, one number of steps and one step to start from.
LEMMA GroupSharesKey ==
  ASSUME SchedTypeOK, NEW h \in Jobs, job[h] \in Job
  PROVE  \A j \in Range(GroupOf(h)) :
           /\ job[j].shape = job[h].shape /\ job[j].steps = job[h].steps
           /\ StartIndex(j) = StartIndex(h)
<1> DEFINE q == queues[job[h].queue]
           M == MatePositions(h)
           mates == AtPositions(q, M)
<1>1. q \in Seq(Jobs) /\ DOMAIN q = 1..Len(q)
  BY DEF SchedTypeOK, Job
<1>2. \A i \in M : i \in DOMAIN q /\ BatchKey(q[i]) = BatchKey(h)
  BY DEF MatePositions, MatchingPositions
<1>3. mates \in Seq(Jobs) /\ Range(mates) = {q[i] : i \in M}
  <2>1. M \subseteq 1..Len(q)
    BY <1>1, <1>2
  <2> QED
    BY <1>1, <2>1, RangeOfAtPositions
<1>4. Range(GroupOf(h)) = {h} \cup Range(mates)
  <2> HIDE DEF mates
  <2>1. <<h>> \in Seq(Jobs) /\ mates \in Seq(Jobs) /\ Range(<<h>>) = {h}
    BY <1>3 DEF Range
  <2>2. Range(<<h>> \o mates) = Range(<<h>>) \cup Range(mates)
    BY <2>1, RangeConcatenation, Zenon
  <2> QED
    BY <2>1, <2>2 DEF GroupOf, mates
<1> HIDE DEF mates, q, M
<1>5. \A j \in Range(GroupOf(h)) : BatchKey(j) = BatchKey(h)
  BY <1>2, <1>3, <1>4
<1> QED
  BY <1>5 DEF BatchKey
-----------------------------------------------------------------------------
(* Sequences without repetition *)

\* A sequence without repetition gives up its first entry for good.
LEMMA InjectiveTail ==
  ASSUME NEW S, NEW q \in Seq(S), q # <<>>, IsInjective(q)
  PROVE  /\ IsInjective(Tail(q))
         /\ Range(Tail(q)) = Range(q) \ {Head(q)}
<1>1. /\ Tail(q) \in Seq(S) /\ Len(Tail(q)) = Len(q) - 1
      /\ \A i \in 1..Len(Tail(q)) : Tail(q)[i] = q[i + 1]
  BY HeadTailProperties
<1>2. /\ Len(q) \in Nat \ {0} /\ DOMAIN q = 1..Len(q)
      /\ DOMAIN Tail(q) = 1..(Len(q) - 1)
      /\ Head(q) = q[1]
  BY <1>1, EmptySeq, LenProperties
<1> DEFINE t == Tail(q)
<1>3. \A i \in DOMAIN t : t[i] = q[i + 1] /\ i + 1 \in DOMAIN q /\ i + 1 # 1
  BY <1>1, <1>2
<1> HIDE DEF t
<1>4. \A i, j \in DOMAIN t : t[i] = t[j] => i = j
  <2> SUFFICES ASSUME NEW i \in DOMAIN t, NEW j \in DOMAIN t, t[i] = t[j]
               PROVE  i = j
    OBVIOUS
  <2>1. i + 1 = j + 1
    BY <1>3 DEF IsInjective
  <2> QED
    BY <1>1, <1>2, <2>1 DEF t
<1>5. \A i \in DOMAIN q : i # 1 => i - 1 \in DOMAIN t /\ t[i - 1] = q[i]
  BY <1>1, <1>2 DEF t
<1>6. Range(t) = Range(q) \ {q[1]}
  <2>1. \A x \in Range(t) : x \in Range(q) /\ x # q[1]
    <3> SUFFICES ASSUME NEW i \in DOMAIN t PROVE t[i] \in Range(q) /\ t[i] # q[1]
      BY DEF Range
    <3>1. 1 \in DOMAIN q
      BY <1>2
    <3> QED
      BY <1>3, <3>1 DEF IsInjective, Range
  <2>2. \A i \in DOMAIN q : q[i] # q[1] => q[i] \in Range(t)
    BY <1>5 DEF Range
  <2> QED
    BY <2>1, <2>2 DEF Range
<1> QED
  BY <1>2, <1>4, <1>6 DEF IsInjective, t

\* Two sequences without repetition and without a common entry, one after the other.
LEMMA InjectiveConcat ==
  ASSUME NEW S, NEW s \in Seq(S), NEW t \in Seq(S),
         IsInjective(s), IsInjective(t), Range(s) \cap Range(t) = {}
  PROVE  IsInjective(s \o t)
<1> DEFINE st == s \o t
<1>1. /\ Len(s) \in Nat /\ Len(t) \in Nat
      /\ DOMAIN s = 1..Len(s) /\ DOMAIN t = 1..Len(t)
      /\ st \in Seq(S) /\ Len(st) = Len(s) + Len(t)
      /\ \A i \in 1..(Len(s) + Len(t)) : st[i] = IF i <= Len(s) THEN s[i] ELSE t[i - Len(s)]
  BY LenProperties, ConcatProperties
<1>2. DOMAIN st = 1..(Len(s) + Len(t))
  BY <1>1, LenProperties
<1> HIDE DEF st
<1>3. \A i \in DOMAIN st :
        \/ i \in DOMAIN s /\ st[i] = s[i]
        \/ i - Len(s) \in DOMAIN t /\ st[i] = t[i - Len(s)] /\ i \in Int
  BY <1>1, <1>2
<1>4. ASSUME NEW i \in DOMAIN st, NEW j \in DOMAIN st, st[i] = st[j]
      PROVE  i = j
  <2>1. CASE i \in DOMAIN s /\ st[i] = s[i] /\ j \in DOMAIN s /\ st[j] = s[j]
    BY <1>4, <2>1 DEF IsInjective
  <2>2. CASE /\ i - Len(s) \in DOMAIN t /\ st[i] = t[i - Len(s)] /\ i \in Int
             /\ j - Len(s) \in DOMAIN t /\ st[j] = t[j - Len(s)] /\ j \in Int
    <3>1. i - Len(s) = j - Len(s)
      BY <1>4, <2>2 DEF IsInjective
    <3> QED
      BY <1>1, <2>2, <3>1
  <2>3. \A k \in DOMAIN s, l \in DOMAIN t : s[k] # t[l]
    BY DEF Range
  <2> QED
    BY <1>3, <1>4, <2>1, <2>2, <2>3
<1> QED
  BY <1>4 DEF IsInjective, st

\* A put of something new at either end repeats nothing.
LEMMA InjectivePut ==
  ASSUME NEW S, NEW q \in Seq(S), IsInjective(q), NEW x \in S, x \notin Range(q)
  PROVE  /\ IsInjective(Append(q, x))
         /\ IsInjective(<<x>> \o q)
<1>1. <<x>> \in Seq(S) /\ IsInjective(<<x>>) /\ Range(<<x>>) = {x}
  BY DEF IsInjective, Range
<1>2. Append(q, x) = q \o <<x>>
  BY AppendIsConcat
<1>3. IsInjective(q \o <<x>>)
  BY <1>1, InjectiveConcat
<1>4. IsInjective(<<x>> \o q)
  BY <1>1, InjectiveConcat
<1> QED
  BY <1>2, <1>3, <1>4

\* Entries at different positions are different, so a selection repeats nothing.
LEMMA InjectiveAtPositions ==
  ASSUME NEW S, NEW q \in Seq(S), IsInjective(q), NEW I \in SUBSET (1..Len(q))
  PROVE  /\ IsInjective(AtPositions(q, I))
         /\ Len(AtPositions(q, I)) = Cardinality(I)
<1>1. Len(q) \in Nat /\ DOMAIN q = 1..Len(q)
  OBVIOUS
<1>2. Cardinality(I) \in Nat
  BY <1>1, AtPositionsBijection
<1>3. PICK p \in Bijection(1..Cardinality(I), I) :
        AtPositions(q, I) = [n \in 1..Cardinality(I) |-> q[p[n]]]
  BY <1>1, AtPositionsBijection
<1>4. /\ p \in [1..Cardinality(I) -> I]
      /\ \A m, n \in 1..Cardinality(I) : p[m] = p[n] => m = n
  BY <1>3, Fun_BijectionProperties
<1> DEFINE entries == [n \in 1..Cardinality(I) |-> q[p[n]]]
<1>5. IsInjective(entries)
  <2>1. \A n \in 1..Cardinality(I) : p[n] \in DOMAIN q
    BY <1>1, <1>4
  <2> QED
    BY <1>4, <2>1 DEF IsInjective
<1>6. Len(entries) = Cardinality(I)
  BY <1>2
<1> HIDE DEF entries
<1> QED
  BY <1>3, <1>5, <1>6 DEF entries

\* Of a finite set of positions, at most n have fewer than n before them.
LEMMA FirstPositions ==
  ASSUME NEW len \in Nat, NEW M \in SUBSET (1..len), NEW n \in Nat
  PROVE  LET first == {i \in M : Cardinality({k \in M : k < i}) < n}
         IN  IsFiniteSet(first) /\ Cardinality(first) \in Nat /\ Cardinality(first) <= n
<1> DEFINE Before(i) == {k \in M : k < i}
           first == {i \in M : Cardinality(Before(i)) < n}
           rank == [i \in first |-> Cardinality(Before(i))]
<1>1. IsFiniteSet(M)
  <2>1. IsFiniteSet(1..len)
    BY FS_Interval
  <2> QED
    BY <2>1, FS_Subset
<1>2. \A i \in M : IsFiniteSet(Before(i)) /\ Cardinality(Before(i)) \in Nat
  <2> TAKE i \in M
  <2>1. Before(i) \subseteq M
    OBVIOUS
  <2> QED
    BY <1>1, <2>1, FS_Subset, FS_CardinalityType
<1>3. \A i, j \in M : i < j => Cardinality(Before(i)) # Cardinality(Before(j))
  <2> SUFFICES ASSUME NEW i \in M, NEW j \in M, i < j
               PROVE  Cardinality(Before(i)) # Cardinality(Before(j))
    OBVIOUS
  <2>1. /\ \A k \in M : k < i => k < j
        /\ ~(i < i)
    OBVIOUS
  <2>2. Before(i) \subseteq Before(j) /\ i \in Before(j) /\ i \notin Before(i)
    BY <2>1
  <2>3. Before(i) # Before(j)
    BY <2>2
  <2> HIDE DEF Before
  <2> QED
    BY <1>2, <2>2, <2>3, FS_Subset
<1>4. rank \in [first -> 0..(n - 1)]
  <2> HIDE DEF Before
  <2>1. \A i \in first : Cardinality(Before(i)) \in Nat /\ Cardinality(Before(i)) < n
    BY <1>2
  <2>2. \A i \in first : Cardinality(Before(i)) \in 0..(n - 1)
    BY <2>1
  <2> HIDE DEF first
  <2> QED
    BY <2>2
<1>5. \A i, j \in first : rank[i] = rank[j] => i = j
  <2> SUFFICES ASSUME NEW i \in first, NEW j \in first, i # j PROVE rank[i] # rank[j]
    OBVIOUS
  <2>1. i < j \/ j < i
    OBVIOUS
  <2>2. i \in M /\ j \in M
    OBVIOUS
  <2>3. Cardinality(Before(i)) # Cardinality(Before(j))
    <3> HIDE DEF Before
    <3> QED
      BY <1>3, <2>1, <2>2
  <2> QED
    BY <2>3
<1>6. IsFiniteSet(0..(n - 1)) /\ Cardinality(0..(n - 1)) = n
  BY FS_Interval
<1> HIDE DEF rank
<1>7. rank \in Injection(first, 0..(n - 1))
  BY <1>4, <1>5, Fun_IsInj
<1>8. IsFiniteSet(first) /\ Cardinality(first) <= n
  <2> HIDE DEF first
  <2> QED
    BY <1>6, <1>7, FS_Injection
<1> QED
  BY <1>8, FS_CardinalityType

\* A batch never has more jobs than MAX_BATCH.
LEMMA GroupLength ==
  ASSUME SchedTypeOK, NEW h \in Jobs, job[h] \in Job
  PROVE  Len(GroupOf(h)) <= MAX_BATCH
<1> DEFINE q == queues[job[h].queue]
           M == MatePositions(h)
           mates == AtPositions(q, M)
<1>1. q \in Seq(Jobs) /\ DOMAIN q = 1..Len(q) /\ Len(q) \in Nat
  BY DEF SchedTypeOK, Job
<1>2. M \subseteq 1..Len(q)
  BY <1>1 DEF MatePositions, MatchingPositions
<1>3. mates \in Seq(Jobs) /\ Len(mates) = Cardinality(M)
  <2>1. mates \in Seq(Jobs) /\ Cardinality(M) \in Nat
    BY <1>1, <1>2, RangeOfAtPositions, AtPositionsBijection
  <2>2. Len(mates) = Cardinality(M)
    BY <2>1 DEF AtPositions
  <2> QED
    BY <2>1, <2>2
<1>4. Cardinality(M) \in Nat /\ Cardinality(M) <= MAX_BATCH - 1
  <2>1. MatchingPositions(h) \subseteq 1..Len(q)
    BY <1>1 DEF MatchingPositions
  <2>2. MAX_BATCH - 1 \in Nat
    BY ConfigAssumption
  <2> QED
    BY <1>1, <2>1, <2>2, FirstPositions DEF MatePositions
<1>5. GroupOf(h) = <<h>> \o mates
  BY DEF GroupOf
<1> HIDE DEF mates
<1>6. Len(<<h>> \o mates) = 1 + Cardinality(M)
  BY <1>3, ConcatProperties
<1>7. 1 + Cardinality(M) <= MAX_BATCH
  BY <1>4, ConfigAssumption
<1> QED
  BY <1>5, <1>6, <1>7

\* If a queue holds no job twice, the group that leaves it and the rest share no
\* job, hold none twice, and the group is no larger than a batch may be.
LEMMA GroupApartFromRest ==
  ASSUME SchedTypeOK, NEW h \in Jobs, job[h] \in Job,
         h \in Range(queues[job[h].queue]), IsInjective(queues[job[h].queue])
  PROVE  /\ IsInjective(GroupOf(h)) /\ IsInjective(RestOf(h))
         /\ Range(GroupOf(h)) \cap Range(RestOf(h)) = {}
         /\ Len(GroupOf(h)) <= MAX_BATCH
         /\ h \in Range(GroupOf(h))
<1> DEFINE q == queues[job[h].queue]
           M == MatePositions(h)
           R == {i \in DOMAIN q : q[i] # h} \ M
           mates == AtPositions(q, M)
<1>1. q \in Seq(Jobs) /\ DOMAIN q = 1..Len(q) /\ Len(q) \in Nat
  BY DEF SchedTypeOK, Job
<1>2. M \subseteq {i \in DOMAIN q : q[i] # h}
  BY DEF MatePositions, MatchingPositions
<1>3. /\ mates \in Seq(Jobs) /\ Range(mates) = {q[i] : i \in M}
      /\ IsInjective(mates)
  BY <1>1, <1>2, RangeOfAtPositions, InjectiveAtPositions
<1>4. /\ Range(AtPositions(q, R)) = {q[i] : i \in R}
      /\ IsInjective(AtPositions(q, R))
  BY <1>1, <1>2, RangeOfAtPositions, InjectiveAtPositions
<1>5. GroupOf(h) = <<h>> \o mates /\ RestOf(h) = AtPositions(q, R)
  BY DEF GroupOf, RestOf
<1>6. Len(GroupOf(h)) <= MAX_BATCH
  BY GroupLength
<1>7. <<h>> \in Seq(Jobs) /\ Range(<<h>>) = {h} /\ IsInjective(<<h>>) /\ Len(<<h>>) = 1
  BY DEF Range, IsInjective
<1>8. h \notin Range(mates)
  BY <1>2, <1>3
<1> HIDE DEF mates
<1>9. IsInjective(<<h>> \o mates)
  BY <1>3, <1>7, <1>8, InjectiveConcat
<1>10. Range(<<h>> \o mates) = {h} \cup {q[i] : i \in M}
  <2>0. <<h>> \in Seq(Jobs) /\ mates \in Seq(Jobs)
    BY <1>3, <1>7
  <2>1. Range(<<h>> \o mates) = Range(<<h>>) \cup Range(mates)
    BY <2>0, RangeConcatenation, Zenon
  <2> QED
    BY <1>3, <1>7, <2>1
<1>11. ({h} \cup {q[i] : i \in M}) \cap {q[i] : i \in R} = {}
  <2>1. \A i \in R : i \in DOMAIN q /\ q[i] # h /\ i \notin M
    OBVIOUS
  <2>2. \A i \in M : i \in DOMAIN q
    BY <1>2
  <2> HIDE DEF q, M, R
  <2>3. \A i \in M, k \in R : q[i] # q[k]
    BY <2>1, <2>2 DEF IsInjective, q
  <2> QED
    BY <2>1, <2>3
<1> QED
  BY <1>4, <1>5, <1>6, <1>9, <1>10, <1>11

-----------------------------------------------------------------------------
(* Types *)

\* A request id that the gateway holds anywhere belongs to an admitted job, and
\* a queue holds jobs of its own class only.
JobsExist ==
  /\ \A c \in Class, j \in Jobs : j \in Range(queues[c]) => job[j] # None /\ job[j].queue = c
  /\ \A j \in pending : job[j] # None
  /\ \A g \in GPUs : busy[g] # None => job[busy[g].head] # None

Typed == TypeOK /\ JobsExist

LoopTypeOK ==
  /\ dispatch_event \in BOOLEAN
  /\ dispatcher \in {"waiting", "filling", "evicting"}
  /\ timers \subseteq Jobs
  /\ aged \in Nat

LEMMA TypedInit == Init => Typed
<1> SUFFICES ASSUME Init PROVE Typed
  OBVIOUS
<1> USE DEF Init
<1>1. SchedTypeOK
  <2>1. \A c \in Class : <<>> \in Seq(Jobs)
    BY EmptySeq
  <2> QED
    BY <2>1 DEF SchedInit, SchedTypeOK
<1>2. WorkerTypeOK
  <2>1. <<>> \in Seq(Batch) /\ <<>> \in Seq(Nat) /\ <<>> \in Seq(Response)
    BY EmptySeq
  <2> QED
    BY <2>1 DEF WorkerInit, WorkerTypeOK
<1>3. TypeOK
  BY <1>1, <1>2 DEF TypeOK, FutureState
<1>4. JobsExist
  <2>1. \A c \in Class : Range(queues[c]) = {}
    BY DEF SchedInit, Range
  <2> QED
    BY <2>1 DEF JobsExist
<1> QED
  BY <1>3, <1>4 DEF Typed

-----------------------------------------------------------------------------
(* Requests *)

LEMMA TypedGenerate ==
  ASSUME Typed, NEW j \in Jobs, NEW r \in Requests, Generate(j, r)
  PROVE  Typed'
<1> USE DEF Typed
<1>1. /\ r.queue \in Class /\ r.tenant \in Tenant
      /\ NewJob(r) \in Job /\ NewJob(r).queue = r.queue
  BY ConfigAssumption DEF NewJob, Job, Tenant, Shape
<1>2. /\ job' = [job EXCEPT ![j] = NewJob(r)]
      /\ tenant_inflight' = [tenant_inflight EXCEPT ![r.queue][r.tenant] = @ + 1]
      /\ queues' = [queues EXCEPT ![r.queue] = Append(@, j)]
      /\ job[j] = None
  BY DEF Generate, Admit
<1>3. NewJob(r) # None
  BY <1>1, NoneAssumption
<1>4. queues[r.queue] \in Seq(Jobs)
  BY <1>1 DEF TypeOK, SchedTypeOK
<1>5. /\ Append(queues[r.queue], j) \in Seq(Jobs)
      /\ Range(Append(queues[r.queue], j)) = Range(queues[r.queue]) \cup {j}
  BY <1>4, RangeOfAppend, AppendProperties
<1>6. SchedTypeOK'
  <2>1. job' \in [Jobs -> Job \cup {None}]
    BY <1>1, <1>2 DEF TypeOK, SchedTypeOK
  <2>2. queues' \in [Class -> Seq(Jobs)]
    BY <1>2, <1>5 DEF TypeOK, SchedTypeOK
  <2>3. tenant_inflight' \in [Class -> [Tenant -> Nat]]
    BY <1>1, <1>2 DEF TypeOK, SchedTypeOK
  <2> QED
    BY <2>1, <2>2, <2>3 DEF SchedTypeOK
<1>7. TypeOK'
  BY <1>6 DEF Generate, TypeOK, WorkerTypeOK, workerVars, FutureState
<1>8. JobsExist'
  <2>1. ASSUME NEW c \in Class, NEW k \in Jobs, k \in Range(queues[c])'
        PROVE  (job[k] # None /\ job[k].queue = c)'
    <3>1. CASE k = j
      <4>1. \A d \in Class : d # r.queue => queues'[d] = queues[d]
        BY <1>2 DEF TypeOK, SchedTypeOK
      <4>2. \A d \in Class : j \notin Range(queues[d])
        BY <1>2 DEF JobsExist
      <4>3. c = r.queue
        BY <2>1, <3>1, <4>1, <4>2
      <4> QED
        BY <1>1, <1>2, <1>3, <3>1, <4>3 DEF TypeOK, SchedTypeOK
    <3>2. CASE k # j
      <4>1. k \in Range(queues[c])
        BY <1>2, <1>5, <2>1, <3>2 DEF TypeOK, SchedTypeOK
      <4> QED
        BY <1>2, <3>2, <4>1 DEF JobsExist, TypeOK, SchedTypeOK
    <3> QED
      BY <3>1, <3>2
  <2>2. \A k \in Jobs : job[k] # None => job'[k] # None
    BY <1>2 DEF TypeOK, SchedTypeOK
  <2>3. pending' = pending \cup {j} /\ busy' = busy /\ job'[j] # None
    BY <1>2, <1>3 DEF Generate, TypeOK, SchedTypeOK
  <2>4. \A k \in pending' : job'[k] # None
    BY <2>2, <2>3 DEF JobsExist, TypeOK
  <2>5. \A g \in GPUs : busy'[g] # None => job'[busy'[g].head] # None
    BY <2>2, <2>3 DEF JobsExist, TypeOK, Group
  <2> QED
    BY <2>1, <2>4, <2>5 DEF JobsExist
<1> QED
  BY <1>7, <1>8

LEMMA TypedOtherHandlers ==
  ASSUME Typed,
         \/ \E r \in Requests : Reject(r)
         \/ \E j \in Jobs : Cancel(j) \/ Respond(j) \/ TimerFire(j)
         \/ Age \/ Idle \/ Wake \/ FillDone \/ UNCHANGED vars
  PROVE  Typed'
<1> USE DEF Typed, vars, schedVars, workerVars, clientVars, loopVars
<1>1. /\ UNCHANGED <<job, queues, tenant_inflight, request_q, control_q, response_q,
                     running, busy, pending>>
      /\ future' \in [Jobs -> FutureState]
      /\ LoopTypeOK'
      /\ stats' \in [completed : Nat, rejected : Nat, preemptions : Nat,
                     resumes : Nat, batches_dispatched : Nat]
  <2>1. CASE \E r \in Requests : Reject(r)
    BY <2>1 DEF Reject, TypeOK, LoopTypeOK
  <2>2. CASE \E j \in Jobs : Cancel(j)
    BY <2>2 DEF Cancel, TypeOK, LoopTypeOK, FutureState
  <2>3. CASE \E j \in Jobs : Respond(j)
    BY <2>3 DEF Respond, TypeOK, LoopTypeOK, FutureState
  <2>4. CASE \E j \in Jobs : TimerFire(j)
    BY <2>4 DEF TimerFire, TypeOK, LoopTypeOK
  <2>5. CASE Age
    BY <2>5 DEF Age, TypeOK, LoopTypeOK
  <2>6. CASE Idle \/ UNCHANGED vars
    BY <2>6 DEF Idle, TypeOK, LoopTypeOK
  <2>7. CASE Wake
    BY <2>7 DEF Wake, TypeOK, LoopTypeOK
  <2>8. CASE FillDone
    BY <2>8 DEF FillDone, TypeOK, LoopTypeOK
  <2> QED
    BY <2>1, <2>2, <2>3, <2>4, <2>5, <2>6, <2>7, <2>8
<1>2. TypeOK'
  BY <1>1 DEF TypeOK, SchedTypeOK, WorkerTypeOK, LoopTypeOK
<1>3. JobsExist'
  BY <1>1 DEF JobsExist
<1> QED
  BY <1>2, <1>3

-----------------------------------------------------------------------------
(* Worker messages *)

LEMMA TypedTakeResponse ==
  ASSUME Typed, NEW g \in GPUs, TakeResponse(g)
  PROVE  /\ WorkerTypeOK'
         /\ LoopTypeOK'
         /\ Head(response_q[g]) \in Response
         /\ busy' \in [GPUs -> Group \cup {None}]
         /\ \A h \in GPUs : busy'[h] # None =>
              busy[h] # None /\ busy'[h].head = busy[h].head
<1> USE DEF Typed
<1>1. response_q[g] \in Seq(Response) /\ response_q[g] # <<>>
  BY DEF TakeResponse, TypeOK, WorkerTypeOK
<1>2. Tail(response_q[g]) \in Seq(Response) /\ Head(response_q[g]) \in Response
  BY <1>1, HeadTailProperties
<1>3. WorkerTypeOK'
  BY <1>2 DEF TakeResponse, TypeOK, WorkerTypeOK
<1>4. LoopTypeOK'
  BY DEF TakeResponse, TypeOK, LoopTypeOK
<1>5. /\ busy' \in [GPUs -> Group \cup {None}]
      /\ \A h \in GPUs : busy'[h] # None =>
           busy[h] # None /\ busy'[h].head = busy[h].head
  <2> DEFINE rid == Head(response_q[g]).request_id
  <2>1. CASE busy[g] # None /\ rid \in busy[g].jobs
    <3>1. busy' = [busy EXCEPT ![g] = Acknowledged(busy[g])]
      BY <2>1 DEF TakeResponse, CountResponse
    <3>2. busy[g] \in Group
      BY <2>1 DEF TypeOK
    <3>3. \/ Acknowledged(busy[g]) = None
          \/ /\ Acknowledged(busy[g]) = [busy[g] EXCEPT !.remaining = @ - 1]
             /\ busy[g].remaining # 1
      BY DEF Acknowledged
    <3>4. /\ Acknowledged(busy[g]) \in Group \cup {None}
          /\ Acknowledged(busy[g]) # None => Acknowledged(busy[g]).head = busy[g].head
      BY <3>2, <3>3 DEF Group
    <3> QED
      BY <2>1, <3>1, <3>4 DEF TypeOK
  <2>2. CASE ~(busy[g] # None /\ rid \in busy[g].jobs)
    BY <2>2 DEF TakeResponse, CountResponse, TypeOK
  <2> QED
    BY <2>1, <2>2
<1> QED
  BY <1>2, <1>3, <1>4, <1>5

LEMMA RequeuedJob ==
  ASSUME NEW jb \in Job, NEW resume \in ResumeState
  PROVE  LET requeued == [jb EXCEPT !.resume_state = resume,
                                    !.preempt_requested = FALSE,
                                    !.preempt_count = @ + 1,
                                    !.dispatched_at = FALSE]
         IN  /\ requeued \in Job /\ requeued.queue = jb.queue /\ requeued.tenant = jb.tenant
             /\ requeued.shape = jb.shape /\ requeued.steps = jb.steps
             /\ requeued.resume_state = resume
             /\ requeued.preempt_count = jb.preempt_count + 1
<1> DEFINE r1 == [jb EXCEPT !.resume_state = resume]
           r2 == [r1 EXCEPT !.preempt_requested = FALSE]
           r3 == [r2 EXCEPT !.preempt_count = jb.preempt_count + 1]
           r4 == [r3 EXCEPT !.dispatched_at = FALSE]
           Kept(r) == /\ r \in Job /\ r.queue = jb.queue /\ r.tenant = jb.tenant
                      /\ r.shape = jb.shape /\ r.steps = jb.steps /\ r.resume_state = resume
<1>0. jb.preempt_count + 1 \in Nat
  BY DEF Job
<1>1. Kept(r1)
  BY DEF Job
<1> HIDE DEF r1
<1>2. Kept(r2)
  BY <1>1 DEF Job
<1> HIDE DEF r2
<1>3. Kept(r3) /\ r3.preempt_count = jb.preempt_count + 1
  BY <1>0, <1>2 DEF Job
<1> HIDE DEF r3
<1>4. Kept(r4) /\ r4.preempt_count = jb.preempt_count + 1
  BY <1>3 DEF Job
<1> HIDE DEF r4
<1> QED
  BY <1>4, Zenon DEF r1, r2, r3, r4

LEMMA TypedOnPreempted ==
  ASSUME Typed, NEW g \in GPUs, OnPreempted(g)
  PROVE  Typed'
<1> USE DEF Typed
<1> DEFINE m == Head(response_q[g])
           rid == m.request_id
           resume == [latents |-> m.latents, step_index |-> m.step_index]
<1>1. /\ TakeResponse(g) /\ m.type = "preempted"
      /\ UNCHANGED <<tenant_inflight, pending, future>>
  BY DEF OnPreempted, clientVars
<1>2. /\ WorkerTypeOK' /\ LoopTypeOK' /\ m \in Response
      /\ busy' \in [GPUs -> Group \cup {None}]
      /\ \A h \in GPUs : busy'[h] # None =>
           busy[h] # None /\ busy'[h].head = busy[h].head
  BY <1>1, TypedTakeResponse
<1>3. rid \in Jobs /\ resume \in ResumeState
  BY <1>1, <1>2 DEF Response, ResumeState
<1> HIDE DEF m, rid, resume
<1>4. CASE rid \in pending
  <2>1. RequeuePreempted(rid, resume) /\ stats' = [stats EXCEPT !.preemptions = @ + 1]
    BY <1>4 DEF OnPreempted, m, rid, resume
  <2> DEFINE requeued == [job[rid] EXCEPT !.resume_state = resume,
                                          !.preempt_requested = FALSE,
                                          !.preempt_count = @ + 1,
                                          !.dispatched_at = FALSE]
             c == job[rid].queue
  <2>2. job[rid] \in Job /\ c \in Class
    BY <1>3, <1>4 DEF TypeOK, SchedTypeOK, JobsExist, Job
  <2>3. requeued \in Job /\ requeued.queue = c /\ requeued # None
    <3>1. requeued \in Job /\ requeued.queue = c
      BY <1>3, <2>2, RequeuedJob
    <3> QED
      BY <3>1, NoneAssumption
  <2>4. /\ job' = [job EXCEPT ![rid] = requeued]
        /\ queues' = [queues EXCEPT ![c] = <<rid>> \o queues[c]]
    <3>1. job' = [job EXCEPT ![rid] = requeued]
      BY <2>1, Zenon DEF RequeuePreempted
    <3>2. queues' = [queues EXCEPT ![c] = <<rid>> \o queues[c]]
      BY <2>1, Zenon DEF RequeuePreempted
    <3> QED
      BY <3>1, <3>2
  <2>5. /\ <<rid>> \o queues[c] \in Seq(Jobs)
        /\ Range(<<rid>> \o queues[c]) = {rid} \cup Range(queues[c])
    <3>1. queues[c] \in Seq(Jobs) /\ <<rid>> \in Seq(Jobs)
      BY <1>3, <2>2 DEF TypeOK, SchedTypeOK
    <3>2. Range(<<rid>> \o queues[c]) = Range(<<rid>>) \cup Range(queues[c])
      BY <3>1, RangeConcatenation, Zenon
    <3>3. Range(<<rid>>) = {rid}
      BY DEF Range
    <3> QED
      BY <3>1, <3>2, <3>3, ConcatProperties
  <2> HIDE DEF requeued, c
  <2>6. SchedTypeOK'
    BY <1>1, <2>2, <2>3, <2>4, <2>5 DEF TypeOK, SchedTypeOK
  <2>7. TypeOK'
    BY <1>1, <1>2, <2>1, <2>6 DEF TypeOK, LoopTypeOK
  <2>8. \A k \in Jobs : job[k] # None => job'[k] # None /\ job'[k].queue = job[k].queue
    BY <1>3, <2>3, <2>4 DEF TypeOK, SchedTypeOK, c
  <2>9. \A d \in Class, k \in Jobs :
          k \in Range(queues'[d]) => job'[k] # None /\ job'[k].queue = d
    BY <1>3, <2>2, <2>3, <2>4, <2>5, <2>8 DEF JobsExist, TypeOK, SchedTypeOK
  <2>10. \A k \in pending : job'[k] # None
    BY <2>8 DEF JobsExist, TypeOK
  <2>11. \A h \in GPUs : busy'[h] # None => job'[busy'[h].head] # None
    BY <1>2, <2>8 DEF JobsExist, TypeOK, Group
  <2> QED
    BY <1>1, <2>7, <2>9, <2>10, <2>11 DEF JobsExist
<1>5. CASE rid \notin pending
  <2>1. UNCHANGED <<job, queues, stats>>
    BY <1>5 DEF OnPreempted, m, rid
  <2>2. TypeOK'
    BY <1>1, <1>2, <2>1 DEF TypeOK, SchedTypeOK, LoopTypeOK
  <2>3. JobsExist'
    BY <1>1, <1>2, <2>1 DEF JobsExist
  <2> QED
    BY <2>2, <2>3
<1> QED
  BY <1>4, <1>5

LEMMA TypedOnFinished ==
  ASSUME Typed, NEW g \in GPUs, OnFinished(g)
  PROVE  Typed'
<1> USE DEF Typed
<1> DEFINE m == Head(response_q[g])
           rid == m.request_id
<1>1. /\ TakeResponse(g) /\ m.type # "preempted"
      /\ UNCHANGED <<job, queues, stats>>
  BY DEF OnFinished
<1>2. /\ WorkerTypeOK' /\ LoopTypeOK' /\ m \in Response
      /\ busy' \in [GPUs -> Group \cup {None}]
      /\ \A h \in GPUs : busy'[h] # None =>
           busy[h] # None /\ busy'[h].head = busy[h].head
  BY <1>1, TypedTakeResponse
<1>3. rid \in Jobs /\ m.type \in {"result", "error"}
  BY <1>1, <1>2 DEF Response
<1> HIDE DEF m, rid
<1>4. /\ pending' \subseteq pending
      /\ future' \in [Jobs -> FutureState]
      /\ tenant_inflight' \in [Class -> [Tenant -> Nat]]
  <2>1. CASE rid \in pending
    <3>1. /\ pending' = pending \ {rid}
          /\ Release(rid)
          /\ future' = [future EXCEPT ![rid] = IF @ = "waiting" THEN m.type ELSE @]
      BY <2>1 DEF OnFinished, m, rid
    <3>2. job[rid] \in Job
      BY <1>3, <2>1 DEF TypeOK, SchedTypeOK, JobsExist
    <3>3. job[rid].queue \in Class /\ job[rid].tenant \in Tenant
      BY <3>2 DEF Job
    <3>4. tenant_inflight' \in [Class -> [Tenant -> Nat]]
      BY <3>1, <3>3 DEF Release, TypeOK, SchedTypeOK
    <3>5. future' \in [Jobs -> FutureState]
      BY <1>3, <3>1 DEF TypeOK, FutureState
    <3> QED
      BY <3>1, <3>4, <3>5
  <2>2. CASE rid \notin pending
    BY <2>2 DEF OnFinished, m, rid, clientVars, TypeOK, SchedTypeOK
  <2> QED
    BY <2>1, <2>2
<1>5. TypeOK'
  BY <1>1, <1>2, <1>4 DEF TypeOK, SchedTypeOK, LoopTypeOK
<1>6. JobsExist'
  BY <1>1, <1>2, <1>4 DEF JobsExist
<1> QED
  BY <1>5, <1>6

-----------------------------------------------------------------------------
(* The dispatcher *)

\* What any step that moves a selected group knows about it.
LEMMA SelectedGroup ==
  ASSUME Typed, NEW h \in Queued
  PROVE  LET c == job[h].queue
         IN  /\ h \in Jobs /\ job[h] \in Job /\ c \in Class /\ queues[c] \in Seq(Jobs)
             /\ h \in Range(queues[c])
             /\ GroupOf(h) \in Seq(Jobs) /\ GroupOf(h) # <<>>
             /\ RestOf(h) \in Seq(Jobs)
             /\ Range(GroupOf(h)) \cup Range(RestOf(h)) = Range(queues[c])
             /\ \A j \in Range(GroupOf(h)) : j \in Jobs /\ job[j] \in Job /\ job[j].queue = c
<1> USE DEF Typed
<1>1. PICK d \in Class : h \in Range(queues[d])
  BY DEF Queued
<1>2. queues[d] \in Seq(Jobs) /\ h \in Jobs
  <2>1. queues[d] \in Seq(Jobs)
    BY DEF TypeOK, SchedTypeOK
  <2> QED
    BY <1>1, <2>1, RangeOfSeq
<1>3. job[h] \in Job /\ job[h].queue = d
  BY <1>1, <1>2 DEF JobsExist, TypeOK, SchedTypeOK
<1>4. /\ GroupOf(h) \in Seq(Jobs) /\ GroupOf(h) # <<>>
      /\ RestOf(h) \in Seq(Jobs)
      /\ Range(GroupOf(h)) \cup Range(RestOf(h)) = Range(queues[d])
  BY <1>1, <1>2, <1>3, GroupAndRest DEF TypeOK
<1>5. \A j \in Range(queues[d]) : j \in Jobs /\ job[j] \in Job /\ job[j].queue = d
  <2>1. Range(queues[d]) \subseteq Jobs
    BY <1>2, RangeOfSeq
  <2> QED
    BY <2>1 DEF JobsExist, TypeOK, SchedTypeOK
<1> QED
  BY <1>1, <1>2, <1>3, <1>4, <1>5

\* Stamping the jobs of a group and rewriting its queue from the same jobs.
LEMMA TypedRestamp ==
  ASSUME Typed, NEW h \in Queued, NEW q \in Seq(Jobs), NEW stamped \in BOOLEAN,
         Range(q) \subseteq Range(queues[job[h].queue]),
         queues' = [queues EXCEPT ![job[h].queue] = q],
         job' = [j \in Jobs |-> IF j \in Range(GroupOf(h))
                                THEN [job[j] EXCEPT !.dispatched_at = stamped]
                                ELSE job[j]],
         UNCHANGED <<tenant_inflight, pending>>,
         \A g \in GPUs : busy'[g] # None =>
           \/ busy'[g] = busy[g]
           \/ busy'[g].head = h
  PROVE  SchedTypeOK' /\ JobsExist'
<1> USE DEF Typed
<1> DEFINE c == job[h].queue
<1>1. /\ h \in Jobs /\ job[h] \in Job /\ c \in Class
      /\ \A j \in Range(GroupOf(h)) : j \in Jobs /\ job[j] \in Job
  BY SelectedGroup
<1>2. \A j \in Jobs : j \in Range(GroupOf(h)) =>
        job'[j] \in Job /\ job'[j].queue = job[j].queue /\ job'[j] # None
  BY <1>1, NoneAssumption DEF Job
<1>3. \A j \in Jobs : j \notin Range(GroupOf(h)) => job'[j] = job[j]
  OBVIOUS
<1>4. SchedTypeOK'
  <2>1. \A j \in Jobs : job'[j] \in Job \cup {None}
    BY <1>2, <1>3 DEF TypeOK, SchedTypeOK
  <2>2. job' \in [Jobs -> Job \cup {None}]
    BY <2>1
  <2> QED
    BY <1>1, <2>2 DEF TypeOK, SchedTypeOK
<1>5. \A j \in Jobs : job[j] # None => job'[j] # None /\ job'[j].queue = job[j].queue
  BY <1>2, <1>3
<1>6. \A d \in Class : Range(queues'[d]) \subseteq Range(queues[d])
  BY <1>1 DEF TypeOK, SchedTypeOK
<1>7. \A g \in GPUs : busy'[g] # None => job'[busy'[g].head] # None
  <2> SUFFICES ASSUME NEW g \in GPUs, busy'[g] # None PROVE job'[busy'[g].head] # None
    OBVIOUS
  <2>1. CASE busy'[g] = busy[g]
    <3>1. busy[g].head \in Jobs /\ job[busy[g].head] # None
      BY <2>1 DEF JobsExist, TypeOK, Group
    <3> QED
      BY <1>5, <2>1, <3>1
  <2>2. CASE busy'[g].head = h
    <3>1. job[h] # None
      BY <1>1, NoneAssumption
    <3> QED
      BY <1>1, <1>5, <2>2, <3>1
  <2> QED
    BY <2>1, <2>2
<1>8. JobsExist'
  BY <1>5, <1>6, <1>7 DEF JobsExist, TypeOK
<1> QED
  BY <1>4, <1>8

LEMMA TypedHoldBatch ==
  ASSUME Typed, NEW h \in Jobs, HoldBatch(h)
  PROVE  Typed'
<1> USE DEF Typed
<1>1. h \in Queued /\ TakeAndRequeue(h)
      /\ UNCHANGED <<tenant_inflight, pending, busy, future, stats>>
  BY DEF HoldBatch, clientVars
<1>2. /\ GroupOf(h) \in Seq(Jobs) /\ RestOf(h) \in Seq(Jobs)
      /\ Range(GroupOf(h)) \cup Range(RestOf(h)) = Range(queues[job[h].queue])
  BY <1>1, SelectedGroup
<1>3. /\ GroupOf(h) \o RestOf(h) \in Seq(Jobs)
      /\ Range(GroupOf(h) \o RestOf(h)) = Range(queues[job[h].queue])
  <2>1. GroupOf(h) \o RestOf(h) \in Seq(Jobs)
    BY <1>2, ConcatProperties
  <2>2. GroupOf(h) \in Seq(Jobs) /\ RestOf(h) \in Seq(Jobs)
    BY <1>2
  <2>3. Range(GroupOf(h) \o RestOf(h)) = Range(GroupOf(h)) \cup Range(RestOf(h))
    BY <2>2, RangeConcatenation, Zenon
  <2> QED
    BY <1>2, <2>1, <2>3
<1>4. SchedTypeOK' /\ JobsExist'
  BY <1>1, <1>3, TypedRestamp DEF TakeAndRequeue
<1>5. WorkerTypeOK' /\ LoopTypeOK'
  BY DEF HoldBatch, TypeOK, WorkerTypeOK, LoopTypeOK, workerVars
<1>6. TypeOK'
  BY <1>1, <1>4, <1>5 DEF TypeOK, LoopTypeOK
<1> QED
  BY <1>4, <1>6

\* The group and the batch message that a dispatch makes.
LEMMA NewGroupAndBatch ==
  ASSUME Typed, NEW h \in Queued
  PROVE  /\ NewGroup(h) \in Group /\ NewBatch(h) \in Batch
         /\ Describes(NewGroup(h), NewBatch(h))
<1> USE DEF Typed
<1> DEFINE grp == GroupOf(h)
           messages == [k \in DOMAIN grp |->
                          [request_id |-> grp[k],
                           resume_latents |-> IF job[grp[k]].resume_state = None THEN None
                                              ELSE job[grp[k]].resume_state.latents]]
<1>1. /\ h \in Jobs /\ job[h] \in Job
      /\ grp \in Seq(Jobs) /\ grp # <<>>
      /\ \A j \in Range(grp) : j \in Jobs /\ job[j] \in Job
  BY SelectedGroup
<1>2. /\ DOMAIN grp = 1..Len(grp) /\ Len(grp) \in Nat \ {0}
      /\ \A k \in DOMAIN grp : grp[k] \in Range(grp)
      /\ Range(grp) \subseteq Jobs
  BY <1>1, EmptySeq, LenProperties DEF Range
<1>3. NewBatchId \in Nat
  BY DEF NewBatchId, TypeOK
<1>4. StartIndex(h) \in Nat
  BY <1>1 DEF StartIndex, Job, ResumeState
<1> HIDE DEF grp
<1>5. messages \in Seq(BatchJob) /\ Len(messages) = Len(grp)
  <2>1. \A k \in DOMAIN grp : messages[k] \in BatchJob
    BY <1>1, <1>2 DEF BatchJob, Job, ResumeState
  <2>2. messages \in [1..Len(grp) -> BatchJob]
    BY <1>2, <2>1
  <2> HIDE DEF messages
  <2>3. messages \in Seq(BatchJob)
    BY <1>2, <2>2, SeqDef
  <2> QED
    BY <1>2, <2>2, <2>3
<1>6. NewBatch(h) = [batch_id |-> NewBatchId, steps |-> job[h].steps,
                     start_index |-> StartIndex(h),
                     preemptible |-> Preemptible(job[h].queue), jobs |-> messages]
  BY DEF NewBatch, grp
<1>7. NewGroup(h) = [batch_id |-> NewBatchId, head |-> h, jobs |-> Range(grp),
                     remaining |-> Len(grp)]
  BY DEF NewGroup, grp
<1>8. NewGroup(h) \in Group
  BY <1>1, <1>2, <1>3, <1>7 DEF Group
<1>9. NewBatch(h) \in Batch
  BY <1>1, <1>3, <1>4, <1>5, <1>6 DEF Batch, Job, Preemptible
<1>10. BatchIds(NewBatch(h)) = Range(grp)
  <2>1. \A k \in DOMAIN grp : messages[k].request_id = grp[k]
    OBVIOUS
  <2>2. DOMAIN messages = DOMAIN grp
    OBVIOUS
  <2> HIDE DEF messages
  <2>3. BatchIds(NewBatch(h)) = {messages[k].request_id : k \in DOMAIN messages}
    BY <1>6 DEF BatchIds, Range
  <2> QED
    BY <2>1, <2>2, <2>3 DEF Range
<1>11. NewBatch(h).jobs # <<>>
  BY <1>2, <1>5, <1>6
<1> QED
  BY <1>5, <1>6, <1>7, <1>8, <1>9, <1>10, <1>11 DEF Describes

LEMMA TypedDispatchBatch ==
  ASSUME Typed, NEW h \in Jobs, NEW g \in GPUs, DispatchBatch(h, g)
  PROVE  Typed'
<1> USE DEF Typed
<1>1. /\ h \in Queued /\ Take(h)
      /\ busy' = [busy EXCEPT ![g] = NewGroup(h)]
      /\ request_q' = [request_q EXCEPT ![g] = Append(@, NewBatch(h))]
      /\ UNCHANGED <<tenant_inflight, control_q, response_q, running, pending, future,
                     dispatch_event, dispatcher, timers, aged>>
  BY DEF DispatchBatch, clientVars, loopVars
<1>2. NewGroup(h) \in Group /\ NewBatch(h) \in Batch
  BY <1>1, NewGroupAndBatch
<1>3. /\ RestOf(h) \in Seq(Jobs)
      /\ Range(RestOf(h)) \subseteq Range(queues[job[h].queue])
  BY <1>1, SelectedGroup
<1>4. \A k \in GPUs : busy'[k] # None => busy'[k] = busy[k] \/ busy'[k].head = h
  BY <1>1 DEF TypeOK, NewGroup
<1>5. SchedTypeOK' /\ JobsExist'
  BY <1>1, <1>3, <1>4, TypedRestamp DEF Take
<1>6. WorkerTypeOK'
  <2>1. Append(request_q[g], NewBatch(h)) \in Seq(Batch)
    BY <1>2, AppendProperties DEF TypeOK, WorkerTypeOK
  <2> QED
    BY <1>1, <2>1 DEF TypeOK, WorkerTypeOK
<1>7. stats' \in [completed : Nat, rejected : Nat, preemptions : Nat,
                  resumes : Nat, batches_dispatched : Nat]
  <2>1. Cardinality(Resumed(h)) \in Nat
    <3>1. Resumed(h) \subseteq 1..MaxJobs
      BY <1>1, SelectedGroup DEF Resumed, Jobs
    <3>2. IsFiniteSet(1..MaxJobs)
      BY ConfigAssumption, FS_Interval
    <3> QED
      BY <3>1, <3>2, FS_Subset, FS_CardinalityType
  <2> DEFINE s1 == [stats EXCEPT !.batches_dispatched = @ + 1]
             s2 == [s1 EXCEPT !.resumes = stats.resumes + Cardinality(Resumed(h))]
             Counters == [completed : Nat, rejected : Nat, preemptions : Nat,
                          resumes : Nat, batches_dispatched : Nat]
  <2>2. stats \in Counters
    BY DEF TypeOK
  <2>3. s1 \in Counters
    BY <2>2
  <2>4. stats.resumes + Cardinality(Resumed(h)) \in Nat
    BY <2>1, <2>2
  <2> HIDE DEF s1
  <2>5. s2 \in Counters
    BY <2>3, <2>4
  <2>6. stats' = s2
    BY Zenon DEF DispatchBatch, s1
  <2> QED
    BY <2>5, <2>6
<1>8. TypeOK'
  BY <1>1, <1>2, <1>5, <1>6, <1>7 DEF TypeOK
<1> QED
  BY <1>5, <1>8

LEMMA TypedEvict ==
  ASSUME Typed, Evict
  PROVE  Typed'
<1> USE DEF Typed
<1>1. /\ dispatcher' = "waiting"
      /\ UNCHANGED <<queues, tenant_inflight, request_q, response_q, running, busy,
                     pending, future, dispatch_event, timers, aged, stats>>
      /\ job' = [j \in Jobs |->
                   IF \E g \in Victims : busy[g].head = j
                   THEN [job[j] EXCEPT !.preempt_requested = TRUE] ELSE job[j]]
      /\ control_q' = [g \in GPUs |->
                         IF g \in Victims
                         THEN Append(control_q[g], busy[g].batch_id)
                         ELSE control_q[g]]
  BY DEF Evict, clientVars
<1>2. \A g \in Victims : g \in GPUs /\ busy[g] \in Group
  <2>1. Victims # {} => Free = {}
    BY DEF Victims
  <2>2. Victims \subseteq GPUs
    BY DEF Victims, EvictionCandidates
  <2> QED
    BY <2>1, <2>2 DEF Free, TypeOK
<1>3. \A g \in Victims : job[busy[g].head] \in Job
  BY <1>2, NoneAssumption DEF JobsExist, TypeOK, SchedTypeOK, Group
<1>4. \A j \in Jobs : job'[j] \in Job \cup {None}
                      /\ (job[j] # None => job'[j] # None /\ job'[j].queue = job[j].queue)
  <2> TAKE j \in Jobs
  <2>1. CASE \E g \in Victims : busy[g].head = j
    <3>1. job[j] \in Job /\ job'[j] = [job[j] EXCEPT !.preempt_requested = TRUE]
      BY <1>1, <1>3, <2>1
    <3>2. job'[j] \in Job /\ job'[j].queue = job[j].queue
      BY <3>1 DEF Job
    <3> QED
      BY <3>2, NoneAssumption
  <2>2. CASE ~\E g \in Victims : busy[g].head = j
    BY <1>1, <2>2 DEF TypeOK, SchedTypeOK
  <2> QED
    BY <2>1, <2>2
<1>5. job' \in [Jobs -> Job \cup {None}]
  BY <1>1, <1>4
<1>6. control_q' \in [GPUs -> Seq(Nat)]
  <2>1. \A g \in Victims : Append(control_q[g], busy[g].batch_id) \in Seq(Nat)
    <3> TAKE g \in Victims
    <3>1. control_q[g] \in Seq(Nat) /\ busy[g].batch_id \in Nat
      BY <1>2 DEF TypeOK, WorkerTypeOK, Group
    <3> QED
      BY <3>1, AppendProperties
  <2> QED
    BY <1>1, <2>1 DEF TypeOK, WorkerTypeOK
<1>7. TypeOK'
  BY <1>1, <1>5, <1>6 DEF TypeOK, SchedTypeOK, WorkerTypeOK
<1>8. JobsExist'
  BY <1>1, <1>4 DEF JobsExist, TypeOK, Group
<1> QED
  BY <1>7, <1>8
-----------------------------------------------------------------------------
(* The workers *)

LEMMA RunningParts ==
  ASSUME WorkerTypeOK, NEW g \in GPUs, running[g] # None
  PROVE  /\ running[g] \in Running /\ running[g].batch \in Batch /\ running[g].i \in Nat
         /\ running[g].latents \in Seq(Latents)
         /\ running[g].batch.jobs \in Seq(BatchJob)
         /\ DOMAIN running[g].batch.jobs = 1..Len(running[g].batch.jobs)
         /\ DOMAIN running[g].latents = DOMAIN running[g].batch.jobs
         /\ Len(running[g].batch.jobs) \in Nat
         /\ \A k \in DOMAIN running[g].batch.jobs :
              running[g].batch.jobs[k] \in BatchJob /\ running[g].latents[k] \in Latents
<1>1. running[g] \in Running
  BY DEF WorkerTypeOK
<1>2. /\ running[g].batch \in Batch /\ running[g].i \in Nat
      /\ running[g].latents \in Seq(Latents)
      /\ Len(running[g].latents) = Len(running[g].batch.jobs)
  BY <1>1 DEF Running
<1>3. running[g].batch.jobs \in Seq(BatchJob)
  BY <1>2 DEF Batch
<1>4. /\ DOMAIN running[g].batch.jobs = 1..Len(running[g].batch.jobs)
      /\ Len(running[g].batch.jobs) \in Nat
      /\ DOMAIN running[g].latents = 1..Len(running[g].latents)
  BY <1>2, <1>3, LenProperties
<1>5. \A k \in DOMAIN running[g].batch.jobs :
        running[g].batch.jobs[k] \in BatchJob /\ running[g].latents[k] \in Latents
  BY <1>2, <1>3, <1>4, ElementOfSeq
<1> QED
  BY <1>1, <1>2, <1>3, <1>4, <1>5

\* A batch in progress answers with messages, one for each of its jobs.
LEMMA Answers ==
  ASSUME WorkerTypeOK, NEW g \in GPUs, running[g] # None
  PROVE  \A msgs \in {Checkpoints(g), Results(g), Failures(g)} :
           /\ msgs \in Seq(Response)
           /\ Len(msgs) = Len(running[g].batch.jobs)
           /\ \A k \in DOMAIN running[g].batch.jobs :
                msgs[k].request_id = running[g].batch.jobs[k].request_id
<1> DEFINE b == running[g].batch
           n == Len(b.jobs)
<1>1. /\ b \in Batch /\ running[g].i \in Nat /\ n \in Nat /\ b.steps \in Nat
      /\ DOMAIN b.jobs = 1..n
      /\ \A k \in 1..n : b.jobs[k].request_id \in Jobs /\ running[g].latents[k] \in Latents
  BY RunningParts DEF Batch, BatchJob
<1>2. \A msgs \in [1..n -> Response] : msgs \in Seq(Response) /\ Len(msgs) = n
  BY <1>1, SeqDef, LenProperties
<1>3. /\ Checkpoints(g) \in [1..n -> Response]
      /\ \A k \in 1..n : Checkpoints(g)[k].request_id = b.jobs[k].request_id
  BY <1>1 DEF Checkpoints, Response
<1>4. /\ Results(g) \in [1..n -> Response]
      /\ \A k \in 1..n : Results(g)[k].request_id = b.jobs[k].request_id
  BY <1>1 DEF Results, Response
<1>5. /\ Failures(g) \in [1..n -> Response]
      /\ \A k \in 1..n : Failures(g)[k].request_id = b.jobs[k].request_id
  BY <1>1 DEF Failures, Response
<1> QED
  BY <1>1, <1>2, <1>3, <1>4, <1>5

LEMMA TypedDrain ==
  ASSUME WorkerTypeOK, NEW g \in GPUs, NEW n \in 0..Len(control_q[g]), Drain(g, n)
  PROVE  control_q' \in [GPUs -> Seq(Nat)]
<1>1. control_q[g] \in Seq(Nat) /\ Len(control_q[g]) \in Nat /\ n \in Nat
  BY LenProperties DEF WorkerTypeOK
<1>2. SubSeq(control_q[g], n + 1, Len(control_q[g])) \in Seq(Nat)
  BY <1>1, SubSeqProperties
<1> QED
  BY <1>2 DEF Drain, WorkerTypeOK

LEMMA TypedAnswer ==
  ASSUME WorkerTypeOK, NEW g \in GPUs, running[g] # None,
         NEW msgs \in {Checkpoints(g), Results(g), Failures(g)}, Answer(g, msgs)
  PROVE  /\ response_q' \in [GPUs -> Seq(Response)]
         /\ running' \in [GPUs -> Running \cup {None}]
<1>1. msgs \in Seq(Response) /\ response_q[g] \in Seq(Response)
  BY Answers DEF WorkerTypeOK
<1>2. response_q[g] \o msgs \in Seq(Response)
  BY <1>1, ConcatProperties
<1> QED
  BY <1>2 DEF Answer, WorkerTypeOK

LEMMA TypedStart ==
  ASSUME WorkerTypeOK, NEW g \in GPUs, StartBatch(g)
  PROVE  /\ WorkerTypeOK'
         /\ running'[g] \in Running /\ running'[g].batch = Head(request_q[g])
<1> DEFINE b == Head(request_q[g])
           noise == [k \in DOMAIN b.jobs |-> InitialLatents(b.jobs[k])]
           started == [batch |-> b, i |-> b.start_index, latents |-> noise]
<1>1. request_q[g] \in Seq(Batch) /\ request_q[g] # <<>>
  BY DEF StartBatch, WorkerTypeOK
<1>2. b \in Batch /\ Tail(request_q[g]) \in Seq(Batch)
  BY <1>1, HeadTailProperties
<1>3. running' = [running EXCEPT ![g] = started]
      /\ request_q' = [request_q EXCEPT ![g] = Tail(@)]
      /\ UNCHANGED <<control_q, response_q>>
  BY DEF StartBatch
<1> HIDE DEF b
<1>4. b.jobs \in Seq(BatchJob) /\ b.start_index \in Nat
  BY <1>2 DEF Batch
<1>5. DOMAIN b.jobs = 1..Len(b.jobs) /\ Len(b.jobs) \in Nat
  BY <1>4, LenProperties
<1>6. \A k \in 1..Len(b.jobs) : b.jobs[k] \in BatchJob
  BY <1>4, <1>5, ElementOfSeq
<1>7. \A k \in 1..Len(b.jobs) : InitialLatents(b.jobs[k]) \in Latents
  BY <1>6 DEF InitialLatents, BatchJob, Latents
<1>8. noise \in [1..Len(b.jobs) -> Latents]
  BY <1>5, <1>7
<1> HIDE DEF noise
<1>9. noise \in Seq(Latents) /\ Len(noise) = Len(b.jobs)
  BY <1>5, <1>8, SeqDef, LenProperties
<1>10. started \in Running
  BY <1>2, <1>4, <1>9 DEF Running
<1>11. running'[g] = started /\ running'[g].batch = b
  BY <1>3 DEF WorkerTypeOK
<1> HIDE DEF started
<1>12. WorkerTypeOK'
  BY <1>2, <1>3, <1>10 DEF WorkerTypeOK
<1> QED
  BY <1>10, <1>11, <1>12 DEF b

LEMMA TypedDenoise ==
  ASSUME WorkerTypeOK, NEW g \in GPUs, Denoise(g)
  PROVE  /\ WorkerTypeOK'
         /\ running'[g] \in Running /\ running'[g].batch = running[g].batch
<1> DEFINE r == running[g]
           after == [k \in DOMAIN r.latents |-> Denoised(r.latents[k])]
           r1 == [r EXCEPT !.i = r.i + 1]
           r2 == [r1 EXCEPT !.latents = after]
<1>1. running[g] # None /\ UNCHANGED <<request_q, response_q>>
  BY DEF Denoise, InLoop
<1>2. control_q' \in [GPUs -> Seq(Nat)]
  BY TypedDrain DEF Denoise
<1>3. /\ r \in Running /\ r.latents \in Seq(Latents) /\ r.i \in Nat
      /\ Len(r.latents) = Len(r.batch.jobs)
  BY <1>1, RunningParts DEF Running
<1>4. \A k \in DOMAIN r.latents : Denoised(r.latents[k]) \in Latents
  <2>1. \A lat \in Latents : Denoised(lat) \in Latents
    BY DEF Denoised, Latents
  <2>2. \A k \in DOMAIN r.latents : r.latents[k] \in Latents
    BY <1>3, ElementOfSeq, LenProperties
  <2> QED
    BY <2>1, <2>2
<1>5. after \in [1..Len(r.latents) -> Latents] /\ Len(r.latents) \in Nat
  BY <1>3, <1>4, LenProperties
<1> HIDE DEF after
<1>6. after \in Seq(Latents) /\ Len(after) = Len(r.batch.jobs)
  BY <1>3, <1>5, SeqDef, LenProperties
<1>7. r1 \in Running
  BY <1>3 DEF Running
<1>8. r1.batch = r.batch
  BY <1>3 DEF Running
<1> HIDE DEF r1
<1>9. r2 \in Running
  BY <1>3, <1>6, <1>7, <1>8 DEF Running
<1>10. running' = [running EXCEPT ![g] = r2]
  BY Zenon DEF Denoise, r1, after
<1>11. r2.batch = r.batch
  BY <1>7, <1>8 DEF Running
<1> HIDE DEF r2
<1>12. running'[g] = r2
  BY <1>10 DEF WorkerTypeOK
<1>13. WorkerTypeOK'
  BY <1>1, <1>2, <1>9, <1>10 DEF WorkerTypeOK
<1> QED
  BY <1>9, <1>11, <1>12, <1>13

LEMMA TypedWorker ==
  ASSUME WorkerTypeOK, NEW g \in GPUs, WorkerStep(g) \/ BatchError(g)
  PROVE  WorkerTypeOK'
<1>1. CASE StartBatch(g)
  BY <1>1, TypedStart
<1>2. CASE PreemptBatch(g)
  <2>1. running[g] # None /\ Answer(g, Checkpoints(g)) /\ UNCHANGED request_q
    BY <1>2 DEF PreemptBatch, InLoop
  <2>2. control_q' \in [GPUs -> Seq(Nat)]
    BY <1>2, TypedDrain DEF PreemptBatch
  <2>3. response_q' \in [GPUs -> Seq(Response)] /\ running' \in [GPUs -> Running \cup {None}]
    BY <2>1, TypedAnswer
  <2> QED
    BY <2>1, <2>2, <2>3 DEF WorkerTypeOK
<1>3. CASE Denoise(g)
  BY <1>3, TypedDenoise
<1>4. CASE FinishBatch(g)
  <2>1. running[g] # None /\ Answer(g, Results(g)) /\ UNCHANGED <<request_q, control_q>>
    BY <1>4 DEF FinishBatch
  <2>2. response_q' \in [GPUs -> Seq(Response)] /\ running' \in [GPUs -> Running \cup {None}]
    BY <2>1, TypedAnswer
  <2> QED
    BY <2>1, <2>2 DEF WorkerTypeOK
<1>5. CASE BatchError(g)
  <2>1. running[g] # None /\ Answer(g, Failures(g)) /\ UNCHANGED <<request_q, control_q>>
    BY <1>5 DEF BatchError
  <2>2. response_q' \in [GPUs -> Seq(Response)] /\ running' \in [GPUs -> Running \cup {None}]
    BY <2>1, TypedAnswer
  <2> QED
    BY <2>1, <2>2 DEF WorkerTypeOK
<1> QED
  BY <1>1, <1>2, <1>3, <1>4, <1>5 DEF WorkerStep

-----------------------------------------------------------------------------
(* The theorem *)

LEMMA TypedNext ==
  ASSUME Typed, [Next]_vars
  PROVE  Typed'
<1>1. CASE \E j \in Jobs, r \in Requests : Generate(j, r)
  BY <1>1, TypedGenerate
<1>2. CASE \/ \E r \in Requests : Reject(r)
           \/ \E j \in Jobs : Cancel(j) \/ Respond(j) \/ TimerFire(j)
           \/ Age \/ Idle \/ Wake \/ FillDone \/ UNCHANGED vars
  BY <1>2, TypedOtherHandlers
<1>3. CASE \E g \in GPUs : OnPreempted(g)
  BY <1>3, TypedOnPreempted
<1>4. CASE \E g \in GPUs : OnFinished(g)
  BY <1>4, TypedOnFinished
<1>5. CASE \E h \in Jobs, g \in GPUs : DispatchBatch(h, g)
  BY <1>5, TypedDispatchBatch
<1>6. CASE \E h \in Jobs : HoldBatch(h)
  BY <1>6, TypedHoldBatch
<1>7. CASE Evict
  BY <1>7, TypedEvict
<1>8. CASE \E g \in GPUs : (WorkerStep(g) \/ BatchError(g)) /\ UNCHANGED gatewayVars
  <2>1. WorkerTypeOK'
    BY <1>8, TypedWorker DEF Typed, TypeOK
  <2>2. UNCHANGED <<job, queues, tenant_inflight, busy, pending, future, dispatch_event,
                    dispatcher, timers, aged, stats>>
    BY <1>8 DEF gatewayVars, schedVars, clientVars, loopVars
  <2>3. TypeOK'
    BY <2>1, <2>2 DEF Typed, TypeOK, SchedTypeOK
  <2>4. JobsExist'
    BY <2>2 DEF Typed, JobsExist
  <2> QED
    BY <2>3, <2>4 DEF Typed
<1> QED
  BY <1>1, <1>2, <1>3, <1>4, <1>5, <1>6, <1>7, <1>8 DEF Next, Client, DispatcherStep

\* Every value the gateway and the workers exchange stays well formed, and every
\* id they hold belongs to a job: the strengthening of TypeOK that is inductive.
THEOREM TypedAlways == Spec => []Typed
<1> QED
  BY TypedInit, TypedNext, PTL DEF Spec

\* The gateway's state stays within its types: no dispatch, checkpoint, message
\* or eviction of gateway.py, scheduling.py and worker.py builds a wrong record.
THEOREM TypeCorrect == Spec => []TypeOK
<1>1. Typed => TypeOK
  BY DEF Typed
<1> QED
  BY TypedAlways, <1>1, PTL

-----------------------------------------------------------------------------
(* The groups in "busy" *)

Accounted(g) == IF busy[g] = None THEN Unused(g)
                ELSE Sent(g) \/ Executing(g) \/ Answering(g)

LEMMA AccountingInit == Init => GroupAccounting
  BY DEF Init, WorkerInit, GroupAccounting, Unused

LeftAlone(g) ==
  /\ busy'[g] = busy[g] /\ request_q'[g] = request_q[g]
  /\ running'[g] = running[g] /\ response_q'[g] = response_q[g]

\* A GPU is accounted for after a step that leaves its worker and its group alone.
LEMMA UntouchedGPU ==
  ASSUME NEW g \in GPUs, Accounted(g), LeftAlone(g)
  PROVE  Accounted(g)'
  BY DEF Accounted, LeftAlone, Unused, Sent, Executing, Answering, AnsweringIds

\* If a step accounts for one GPU and leaves the others alone, all are accounted for.
LEMMA OneGPU ==
  ASSUME GroupAccounting, NEW g \in GPUs, Accounted(g) => Accounted(g)',
         \A h \in GPUs : h # g => LeftAlone(h)
  PROVE  GroupAccounting'
<1>1. \A h \in GPUs : Accounted(h)
  BY DEF GroupAccounting, Accounted
<1>2. \A h \in GPUs : Accounted(h)'
  BY <1>1, UntouchedGPU
<1> QED
  BY <1>2 DEF GroupAccounting, Accounted

LEMMA AccountingTakeResponse ==
  ASSUME Typed, NEW g \in GPUs, Accounted(g), TakeResponse(g)
  PROVE  /\ Accounted(g)'
         /\ \A h \in GPUs : h # g => LeftAlone(h)
<1> USE DEF Typed
<1> DEFINE q == response_q[g]
           rid == Head(q).request_id
<1>1. /\ q # <<>> /\ q \in Seq(Response)
      /\ response_q' = [response_q EXCEPT ![g] = Tail(q)]
      /\ CountResponse(g, rid)
      /\ UNCHANGED <<request_q, running>>
  BY DEF TakeResponse, TypeOK, WorkerTypeOK
<1>2. busy[g] # None /\ Answering(g)
  BY <1>1 DEF Accounted, Unused, Sent, Executing
<1>3. busy[g] \in Group /\ request_q[g] = <<>> /\ running[g] = None
      /\ busy[g].remaining = Len(q) /\ AnsweringIds(g) \subseteq busy[g].jobs
  BY <1>2 DEF Answering, TypeOK
<1>4. /\ Tail(q) \in Seq(Response) /\ Len(Tail(q)) = Len(q) - 1
      /\ Range(Tail(q)) \subseteq Range(q) /\ Head(q) \in Range(q)
      /\ Len(q) \in Nat \ {0} /\ Len(Tail(q)) \in Nat
      /\ (Tail(q) = <<>> <=> Len(Tail(q)) = 0)
  <2>1. Tail(q) \in Seq(Response) /\ Len(Tail(q)) = Len(q) - 1
    BY <1>1, HeadTailProperties
  <2>2. Range(Tail(q)) \subseteq Range(q) /\ Head(q) \in Range(q)
    BY <1>1, RangeOfTail
  <2> QED
    BY <1>1, <2>1, <2>2, EmptySeq, LenProperties
<1>5. rid \in busy[g].jobs
  BY <1>3, <1>4 DEF AnsweringIds
<1>6. busy' = [busy EXCEPT ![g] = Acknowledged(busy[g])]
  BY <1>1, <1>2, <1>5 DEF CountResponse
<1>7. \A h \in GPUs : h # g => LeftAlone(h)
  BY <1>1, <1>6 DEF LeftAlone, TypeOK, WorkerTypeOK
<1>8. Accounted(g)'
  <2>1. /\ busy'[g] = Acknowledged(busy[g]) /\ response_q'[g] = Tail(q)
        /\ request_q'[g] = <<>> /\ running'[g] = None
    BY <1>1, <1>3, <1>6 DEF TypeOK, WorkerTypeOK
  <2>2. CASE busy[g].remaining = 1
    BY <1>3, <1>4, <2>1, <2>2 DEF Acknowledged, Accounted, Unused
  <2>3. CASE busy[g].remaining # 1
    <3>1. busy'[g] = [busy[g] EXCEPT !.remaining = @ - 1]
      BY <2>1, <2>3 DEF Acknowledged
    <3>2. busy'[g].remaining = Len(Tail(q)) /\ busy'[g].jobs = busy[g].jobs
          /\ busy'[g] \in Group
      BY <1>3, <1>4, <2>3, <3>1 DEF Group
    <3>3. busy'[g] # None
      BY <3>2, NoneAssumption
    <3>4. Tail(q) # <<>>
      BY <1>3, <1>4, <2>3
    <3>5. AnsweringIds(g)' \subseteq busy'[g].jobs
      BY <1>3, <1>4, <2>1, <3>2 DEF AnsweringIds
    <3>6. Answering(g)'
      BY <2>1, <3>2, <3>4, <3>5 DEF Answering
    <3> QED
      BY <3>3, <3>6 DEF Accounted
  <2> QED
    BY <2>2, <2>3
<1> QED
  BY <1>7, <1>8

LEMMA AccountingDispatch ==
  ASSUME Typed, NEW h \in Jobs, NEW g \in GPUs, Accounted(g), DispatchBatch(h, g)
  PROVE  /\ Sent(g)' /\ Accounted(g)'
         /\ \A k \in GPUs : k # g => LeftAlone(k)
<1> USE DEF Typed
<1>1. /\ busy[g] = None /\ h \in Queued
      /\ busy' = [busy EXCEPT ![g] = NewGroup(h)]
      /\ request_q' = [request_q EXCEPT ![g] = Append(request_q[g], NewBatch(h))]
      /\ UNCHANGED <<running, response_q>>
  BY DEF DispatchBatch, LeastUtilised, Free
<1>2. NewGroup(h) \in Group /\ NewBatch(h) \in Batch /\ Describes(NewGroup(h), NewBatch(h))
  BY <1>1, NewGroupAndBatch
<1>3. Unused(g)
  BY <1>1 DEF Accounted
<1>4. \A k \in GPUs : k # g => LeftAlone(k)
  BY <1>1 DEF LeftAlone, TypeOK, WorkerTypeOK
<1>5. Sent(g)' /\ Accounted(g)'
  <2> DEFINE b == NewBatch(h)
  <2>1. /\ busy'[g] = NewGroup(h) /\ busy'[g] # None
        /\ request_q'[g] = Append(<<>>, b)
        /\ running'[g] = None /\ response_q'[g] = <<>>
    BY <1>1, <1>2, <1>3, NoneAssumption DEF Unused, TypeOK, WorkerTypeOK
  <2> HIDE DEF b
  <2>2. Len(Append(<<>>, b)) = 1 /\ Head(Append(<<>>, b)) = b
    OBVIOUS
  <2>3. Sent(g)'
    BY <1>2, <2>1, <2>2 DEF Sent, Describes, BatchIds, b
  <2> QED
    BY <2>1, <2>3 DEF Accounted
<1> QED
  BY <1>4, <1>5

\* The messages of a batch name its jobs, one message for each.
LEMMA AccountingAnswer ==
  ASSUME Typed, NEW g \in GPUs, Executing(g), busy[g] # None,
         NEW msgs \in {Checkpoints(g), Results(g), Failures(g)}, Answer(g, msgs),
         UNCHANGED <<busy, request_q>>
  PROVE  Answering(g)'
<1> USE DEF Typed
<1> DEFINE b == running[g].batch
<1>1. /\ request_q[g] = <<>> /\ running[g] # None /\ response_q[g] = <<>>
      /\ busy[g].jobs = BatchIds(b) /\ busy[g].remaining = Len(b.jobs) /\ b.jobs # <<>>
  BY DEF Executing, Describes
<1>2. /\ msgs \in Seq(Response) /\ Len(msgs) = Len(b.jobs)
      /\ \A k \in DOMAIN b.jobs : msgs[k].request_id = b.jobs[k].request_id
  BY <1>1, Answers DEF TypeOK
<1>3. /\ response_q'[g] = <<>> \o msgs /\ running'[g] = None
      /\ request_q'[g] = <<>>
  BY <1>1 DEF Answer, TypeOK, WorkerTypeOK
<1>4. response_q'[g] = msgs
  BY <1>2, <1>3, ConcatEmptySeq
<1>5. msgs # <<>>
  BY <1>1, <1>2, RunningParts, EmptySeq DEF TypeOK
<1>6. DOMAIN msgs = DOMAIN b.jobs
  BY <1>1, <1>2, RunningParts, LenProperties DEF TypeOK
<1>7. AnsweringIds(g)' \subseteq busy[g].jobs
  <2>1. AnsweringIds(g)' = {m.request_id : m \in Range(msgs)}
    BY <1>4 DEF AnsweringIds
  <2>2. \A k \in DOMAIN msgs : msgs[k].request_id \in BatchIds(b)
    BY <1>2, <1>6 DEF BatchIds, Range
  <2> HIDE DEF b
  <2> QED
    BY <1>1, <2>1, <2>2 DEF Range
<1> QED
  BY <1>1, <1>2, <1>3, <1>4, <1>5, <1>7 DEF Answering

LEMMA AccountingWorker ==
  ASSUME Typed, NEW g \in GPUs, Accounted(g), WorkerStep(g) \/ BatchError(g),
         UNCHANGED busy
  PROVE  /\ Accounted(g)'
         /\ \A k \in GPUs : k # g => LeftAlone(k)
<1> USE DEF Typed
<1>1. \A k \in GPUs : k # g => LeftAlone(k)
  <2> USE DEF LeftAlone, TypeOK, WorkerTypeOK
  <2>1. CASE StartBatch(g)
    BY <2>1 DEF StartBatch
  <2>2. CASE PreemptBatch(g)
    BY <2>2 DEF PreemptBatch, Answer
  <2>3. CASE Denoise(g)
    BY <2>3 DEF Denoise
  <2>4. CASE FinishBatch(g)
    BY <2>4 DEF FinishBatch, Answer
  <2>5. CASE BatchError(g)
    BY <2>5 DEF BatchError, Answer
  <2> QED
    BY <2>1, <2>2, <2>3, <2>4, <2>5 DEF WorkerStep
<1>2. Accounted(g)'
  <2>1. CASE StartBatch(g)
    <3> DEFINE b == Head(request_q[g])
    <3>1. /\ request_q[g] # <<>> /\ running[g] = None
          /\ request_q'[g] = Tail(request_q[g])
          /\ running'[g].batch = b
          /\ running'[g] # None
          /\ response_q'[g] = response_q[g]
      <4>1. /\ request_q[g] # <<>> /\ running[g] = None
            /\ request_q'[g] = Tail(request_q[g])
            /\ response_q'[g] = response_q[g]
        BY <2>1 DEF StartBatch, TypeOK, WorkerTypeOK
      <4>2. running'[g] \in Running /\ running'[g].batch = b
        BY <2>1, TypedStart DEF TypeOK
      <4> QED
        BY <4>1, <4>2, NoneAssumption
    <3>2. busy[g] # None /\ Sent(g)
      BY <3>1 DEF Accounted, Unused, Executing, Answering
    <3>3. Tail(request_q[g]) = <<>>
      <4>1. request_q[g] \in Seq(Batch) /\ Len(request_q[g]) = 1
        BY <3>2 DEF Sent, TypeOK, WorkerTypeOK
      <4>2. Tail(request_q[g]) \in Seq(Batch) /\ Len(Tail(request_q[g])) = 0
        BY <3>1, <4>1, HeadTailProperties
      <4> QED
        BY <4>2, EmptySeq
    <3>4. Executing(g)'
      BY <3>1, <3>2, <3>3 DEF Sent, Executing, Describes, BatchIds
    <3> QED
      BY <3>2, <3>4 DEF Accounted
  <2>2. CASE running[g] # None /\ \E msgs \in {Checkpoints(g), Results(g), Failures(g)} :
                                     Answer(g, msgs) /\ UNCHANGED request_q
    <3>1. busy[g] # None /\ Executing(g)
      BY <2>2 DEF Accounted, Unused, Sent, Answering
    <3>2. Answering(g)'
      BY <2>2, <3>1, AccountingAnswer
    <3> QED
      BY <3>1, <3>2 DEF Accounted
  <2>3. CASE Denoise(g)
    <3>1. running[g] # None /\ UNCHANGED <<request_q, response_q>>
      BY <2>3 DEF Denoise, InLoop
    <3>2. busy[g] # None /\ Executing(g)
      BY <3>1 DEF Accounted, Unused, Sent, Answering
    <3>3. running'[g].batch = running[g].batch /\ running'[g] # None
      BY <2>3, TypedDenoise, NoneAssumption DEF TypeOK
    <3>4. Executing(g)'
      BY <3>1, <3>2, <3>3 DEF Executing, Describes, BatchIds
    <3> QED
      BY <3>2, <3>4 DEF Accounted
  <2> QED
    BY <2>1, <2>2, <2>3 DEF WorkerStep, PreemptBatch, FinishBatch, BatchError, InLoop
<1> QED
  BY <1>1, <1>2

LEMMA AccountingNext ==
  ASSUME Typed, GroupAccounting, [Next]_vars
  PROVE  GroupAccounting'
<1>1. CASE UNCHANGED <<busy, request_q, running, response_q>>
  BY <1>1, UntouchedGPU DEF GroupAccounting, Accounted, LeftAlone
<1>2. CASE \E g \in GPUs : OnPreempted(g) \/ OnFinished(g)
  BY <1>2, AccountingTakeResponse, OneGPU DEF OnPreempted, OnFinished, GroupAccounting, Accounted
<1>3. CASE \E h \in Jobs, g \in GPUs : DispatchBatch(h, g)
  BY <1>3, AccountingDispatch, OneGPU DEF GroupAccounting, Accounted
<1>4. CASE \E g \in GPUs : (WorkerStep(g) \/ BatchError(g)) /\ UNCHANGED gatewayVars
  BY <1>4, AccountingWorker, OneGPU DEF gatewayVars, GroupAccounting, Accounted
<1>5. CASE Client \/ (\E j \in Jobs : Respond(j) \/ TimerFire(j)) \/ Wake
           \/ (\E h \in Jobs : HoldBatch(h)) \/ FillDone \/ Evict \/ Age \/ Idle
           \/ UNCHANGED vars
  <2> USE DEF vars, workerVars
  <2>1. UNCHANGED <<busy, request_q, running, response_q>>
    BY <1>5 DEF Client, Generate, Reject, Cancel, Respond, TimerFire, Wake, HoldBatch,
                FillDone, Evict, Age, Idle
  <2> QED
    BY <1>1, <2>1
<1> QED
  BY <1>2, <1>3, <1>4, <1>5 DEF Next, DispatcherStep

\* The gateway takes a GPU for free only when its worker has no batch waiting,
\* none running and no message left to deliver, for every number of GPUs, every
\* batch size and policy (gateway.py, busy; worker.py, one message per job).
THEOREM GroupsAccounted == Spec => []GroupAccounting
<1>1. Init => Typed /\ GroupAccounting
  BY TypedInit, AccountingInit
<1>2. Typed /\ GroupAccounting /\ [Next]_vars => Typed' /\ GroupAccounting'
  BY TypedNext, AccountingNext
<1> QED
  BY <1>1, <1>2, PTL DEF Spec

-----------------------------------------------------------------------------
(* The in-flight counts *)

SameRequest(a, b) ==
  a.queue = b.queue /\ a.tenant = b.tenant /\ a.shape = b.shape /\ a.steps = b.steps
SameIdentity(k) == job'[k] # None /\ SameRequest(job'[k], job[k])

\* An admitted job keeps its class, its tenant and what it asked for through
\* every requeue, stamp and eviction request.
LEMMA JobsKeepIdentity ==
  ASSUME Typed, [Next]_vars, NEW k \in Jobs, job[k] # None
  PROVE  SameIdentity(k)
<1> USE DEF Typed
<1>1. job \in [Jobs -> Job \cup {None}] /\ job[k] \in Job
  BY DEF TypeOK, SchedTypeOK
<1>2. \A b \in BOOLEAN : LET j1 == [job[k] EXCEPT !.dispatched_at = b]
                             j2 == [job[k] EXCEPT !.preempt_requested = b]
                         IN  /\ j1 \in Job /\ SameRequest(j1, job[k])
                             /\ j2 \in Job /\ SameRequest(j2, job[k])
  BY <1>1 DEF Job, SameRequest
<1>3. CASE \E j \in Jobs, r \in Requests : Generate(j, r)
  BY <1>1, <1>3 DEF Generate, Admit, SameIdentity, SameRequest
<1>4. CASE \E g \in GPUs : OnPreempted(g)
  <2> PICK g \in GPUs : OnPreempted(g)
    BY <1>4
  <2> DEFINE m == Head(response_q[g])
             rid == m.request_id
             resume == [latents |-> m.latents, step_index |-> m.step_index]
  <2>1. CASE rid \in pending
    <3>1. RequeuePreempted(rid, resume) /\ m.type = "preempted"
      BY <2>1 DEF OnPreempted
    <3>2. m \in Response
      BY TypedTakeResponse DEF OnPreempted
    <3>3. rid \in Jobs /\ resume \in ResumeState
      BY <3>1, <3>2 DEF Response, ResumeState
    <3> HIDE DEF m, rid, resume
    <3> DEFINE requeued == [job[rid] EXCEPT !.resume_state = resume,
                                            !.preempt_requested = FALSE,
                                            !.preempt_count = @ + 1,
                                            !.dispatched_at = FALSE]
    <3>4. job[rid] \in Job
      BY <2>1, <3>3 DEF JobsExist, TypeOK, SchedTypeOK
    <3>5. requeued \in Job /\ SameRequest(requeued, job[rid])
      BY <3>3, <3>4, RequeuedJob DEF SameRequest
    <3>6. job' = [job EXCEPT ![rid] = requeued]
      BY <3>1, Zenon DEF RequeuePreempted
    <3> HIDE DEF requeued
    <3> QED
      BY <1>1, <3>3, <3>5, <3>6, NoneAssumption DEF SameIdentity, SameRequest
  <2>2. CASE rid \notin pending
    BY <2>2 DEF OnPreempted, SameIdentity, SameRequest
  <2> QED
    BY <2>1, <2>2
<1>5. CASE \E h \in Jobs, g \in GPUs : DispatchBatch(h, g)
  <2>1. PICK h \in Jobs : Take(h)
    BY <1>5 DEF DispatchBatch
  <2>2. job'[k] = job[k] \/ job'[k] = [job[k] EXCEPT !.dispatched_at = TRUE]
    BY <2>1 DEF Take
  <2> QED
    BY <1>2, <2>2, NoneAssumption DEF SameIdentity, SameRequest
<1>6. CASE \E h \in Jobs : HoldBatch(h)
  <2>1. PICK h \in Jobs : TakeAndRequeue(h)
    BY <1>6 DEF HoldBatch
  <2>2. job'[k] = job[k] \/ job'[k] = [job[k] EXCEPT !.dispatched_at = FALSE]
    BY <2>1 DEF TakeAndRequeue
  <2> QED
    BY <1>2, <2>2, NoneAssumption DEF SameIdentity, SameRequest
<1>7. CASE Evict
  <2>1. job'[k] = job[k] \/ job'[k] = [job[k] EXCEPT !.preempt_requested = TRUE]
    BY <1>7 DEF Evict
  <2> QED
    BY <1>2, <2>1, NoneAssumption DEF SameIdentity, SameRequest
<1>8. CASE UNCHANGED job
  BY <1>8 DEF SameIdentity, SameRequest
<1>9. CASE \/ \E r \in Requests : Reject(r)
           \/ \E j \in Jobs : Cancel(j) \/ Respond(j) \/ TimerFire(j)
           \/ Age \/ Idle \/ Wake \/ FillDone \/ UNCHANGED vars
           \/ \E g \in GPUs : OnFinished(g)
           \/ \E g \in GPUs : (WorkerStep(g) \/ BatchError(g)) /\ UNCHANGED gatewayVars
  <2>1. UNCHANGED job
    BY <1>9 DEF Reject, Cancel, Respond, TimerFire, Age, Idle, Wake, FillDone, OnFinished,
                vars, schedVars, gatewayVars
  <2> QED
    BY <1>8, <2>1
<1> QED
  BY <1>3, <1>4, <1>5, <1>6, <1>7, <1>9 DEF Next, Client, DispatcherStep

LEMMA PendingFinite ==
  ASSUME Typed, NEW c, NEW t
  PROVE  IsFiniteSet(PendingOf(c, t)) /\ Cardinality(PendingOf(c, t)) \in Nat
<1>1. PendingOf(c, t) \subseteq 1..MaxJobs
  BY DEF PendingOf, Typed, TypeOK, Jobs
<1>2. IsFiniteSet(1..MaxJobs)
  BY ConfigAssumption, FS_Interval
<1> QED
  BY <1>1, <1>2, FS_Subset, FS_CardinalityType

LEMMA QuotaInit == Init => QuotaExact
<1> SUFFICES ASSUME Init PROVE QuotaExact
  OBVIOUS
<1>1. \A c \in Class, t \in Tenant : tenant_inflight[c][t] = 0 /\ PendingOf(c, t) = {}
  BY DEF Init, SchedInit, PendingOf
<1>2. \A c \in Class : tenant_quota[c] \in Nat
  BY ConfigAssumption
<1> QED
  BY <1>1, <1>2, FS_EmptySet DEF QuotaExact

\* A step that admits no job and ends no job moves no count.
LEMMA QuotaSame ==
  ASSUME Typed, QuotaExact, [Next]_vars, UNCHANGED <<pending, tenant_inflight>>
  PROVE  QuotaExact'
<1>1. ASSUME NEW c \in Class, NEW t \in Tenant
      PROVE  PendingOf(c, t)' = PendingOf(c, t)
  <2>1. \A k \in pending : SameIdentity(k)
    BY JobsKeepIdentity DEF Typed, TypeOK, JobsExist
  <2> QED
    BY <2>1 DEF PendingOf, SameIdentity, SameRequest
<1> QED
  BY <1>1 DEF QuotaExact

LEMMA QuotaGenerate ==
  ASSUME Typed, QuotaExact, NEW j \in Jobs, NEW r \in Requests, Generate(j, r)
  PROVE  QuotaExact'
<1> USE DEF Typed
<1>1. r.queue \in Class /\ r.tenant \in Tenant
      /\ NewJob(r).queue = r.queue /\ NewJob(r).tenant = r.tenant
  BY ConfigAssumption DEF NewJob, Tenant
<1>2. /\ job' = [job EXCEPT ![j] = NewJob(r)]
      /\ tenant_inflight' = [tenant_inflight EXCEPT ![r.queue][r.tenant] = @ + 1]
      /\ tenant_inflight[r.queue][r.tenant] < tenant_quota[r.queue]
      /\ job[j] = None
      /\ pending' = pending \cup {j}
  BY DEF Generate, Admit, Admissible
<1>3. j \notin pending /\ pending \subseteq Jobs
  BY <1>2 DEF JobsExist, TypeOK
<1>4. /\ job'[j] = NewJob(r)
      /\ \A k \in pending : job'[k] = job[k]
  BY <1>2, <1>3 DEF TypeOK, SchedTypeOK
<1> SUFFICES ASSUME NEW c \in Class, NEW t \in Tenant
             PROVE  /\ tenant_inflight'[c][t] = Cardinality(PendingOf(c, t)')
                    /\ tenant_inflight'[c][t] <= tenant_quota[c]
  BY DEF QuotaExact
<1>5. /\ tenant_inflight[c][t] = Cardinality(PendingOf(c, t))
      /\ tenant_inflight[c][t] <= tenant_quota[c]
  BY DEF QuotaExact
<1>6. CASE c = r.queue /\ t = r.tenant
  <2>1. tenant_inflight'[c][t] = tenant_inflight[c][t] + 1
    BY <1>1, <1>2, <1>6 DEF TypeOK, SchedTypeOK
  <2>2. PendingOf(c, t)' = PendingOf(c, t) \cup {j} /\ j \notin PendingOf(c, t)
    BY <1>1, <1>2, <1>3, <1>4, <1>6 DEF PendingOf
  <2>3. Cardinality(PendingOf(c, t)') = Cardinality(PendingOf(c, t)) + 1
    BY <2>2, PendingFinite, FS_AddElement
  <2>4. tenant_inflight[c][t] < tenant_quota[c]
    BY <1>2, <1>6
  <2>5. tenant_inflight[c][t] \in Nat /\ tenant_quota[c] \in Nat
    BY ConfigAssumption DEF TypeOK, SchedTypeOK
  <2> QED
    BY <1>5, <2>1, <2>3, <2>4, <2>5
<1>7. CASE ~(c = r.queue /\ t = r.tenant)
  <2>1. tenant_inflight'[c][t] = tenant_inflight[c][t]
    BY <1>1, <1>2, <1>7 DEF TypeOK, SchedTypeOK
  <2>2. PendingOf(c, t)' = PendingOf(c, t)
    BY <1>1, <1>2, <1>3, <1>4, <1>7 DEF PendingOf
  <2> QED
    BY <1>5, <2>1, <2>2
<1> QED
  BY <1>6, <1>7

LEMMA QuotaOnFinished ==
  ASSUME Typed, QuotaExact, NEW g \in GPUs, OnFinished(g)
  PROVE  QuotaExact'
<1> USE DEF Typed
<1> DEFINE rid == Head(response_q[g]).request_id
<1>1. CASE rid \notin pending
  <2>1. UNCHANGED <<pending, tenant_inflight>>
    BY <1>1 DEF OnFinished, clientVars
  <2> QED
    BY <2>1, QuotaSame DEF Next
<1>2. CASE rid \in pending
  <2> DEFINE d == job[rid].queue
             u == job[rid].tenant
  <2>1. pending' = pending \ {rid} /\ Release(rid) /\ job' = job
    BY <1>2 DEF OnFinished
  <2>2. job[rid] \in Job /\ d \in Class /\ u \in Tenant
    BY <1>2 DEF TypeOK, SchedTypeOK, JobsExist, Job
  <2>3. tenant_inflight' = [tenant_inflight EXCEPT ![d][u] = IF @ > 0 THEN @ - 1 ELSE 0]
    BY <2>1 DEF Release
  <2> HIDE DEF rid
  <2> SUFFICES ASSUME NEW c \in Class, NEW t \in Tenant
               PROVE  /\ tenant_inflight'[c][t] = Cardinality(PendingOf(c, t)')
                      /\ tenant_inflight'[c][t] <= tenant_quota[c]
    BY DEF QuotaExact
  <2>4. /\ tenant_inflight[c][t] = Cardinality(PendingOf(c, t))
        /\ tenant_inflight[c][t] <= tenant_quota[c]
        /\ tenant_inflight[c][t] \in Nat /\ tenant_quota[c] \in Nat
    BY ConfigAssumption DEF QuotaExact, TypeOK, SchedTypeOK
  <2>5. CASE c = d /\ t = u
    <3>1. PendingOf(c, t)' = PendingOf(c, t) \ {rid} /\ rid \in PendingOf(c, t)
      BY <1>2, <2>1, <2>5 DEF PendingOf
    <3>2. Cardinality(PendingOf(c, t)') = Cardinality(PendingOf(c, t)) - 1
      BY <3>1, PendingFinite, FS_RemoveElement
    <3>3. Cardinality(PendingOf(c, t)) # 0
      BY <3>1, PendingFinite, FS_EmptySet
    <3>4. tenant_inflight'[c][t] = IF tenant_inflight[c][t] > 0
                                   THEN tenant_inflight[c][t] - 1 ELSE 0
      BY <2>2, <2>3, <2>5 DEF TypeOK, SchedTypeOK
    <3> QED
      BY <2>4, <3>2, <3>3, <3>4
  <2>6. CASE ~(c = d /\ t = u)
    <3>1. PendingOf(c, t)' = PendingOf(c, t)
      BY <2>1, <2>6 DEF PendingOf
    <3>2. tenant_inflight'[c][t] = tenant_inflight[c][t]
      BY <2>2, <2>3, <2>6 DEF TypeOK, SchedTypeOK
    <3> QED
      BY <2>4, <3>1, <3>2
  <2> QED
    BY <2>5, <2>6
<1> QED
  BY <1>1, <1>2

LEMMA QuotaNext ==
  ASSUME Typed, QuotaExact, [Next]_vars
  PROVE  QuotaExact'
<1>1. CASE \E j \in Jobs, r \in Requests : Generate(j, r)
  BY <1>1, QuotaGenerate
<1>2. CASE \E g \in GPUs : OnFinished(g)
  BY <1>2, QuotaOnFinished
<1>3. CASE \/ \E r \in Requests : Reject(r)
           \/ \E j \in Jobs : Cancel(j) \/ Respond(j) \/ TimerFire(j)
           \/ \E g \in GPUs : OnPreempted(g)
           \/ DispatcherStep \/ Age \/ Idle \/ UNCHANGED vars
           \/ \E g \in GPUs : (WorkerStep(g) \/ BatchError(g)) /\ UNCHANGED gatewayVars
  <2>1. UNCHANGED <<pending, tenant_inflight>>
    BY <1>3 DEF Reject, Cancel, Respond, TimerFire, OnPreempted, DispatcherStep, Wake,
                DispatchBatch, HoldBatch, FillDone, Evict, Age, Idle, vars, gatewayVars,
                schedVars, clientVars
  <2> QED
    BY <2>1, QuotaSame
<1> QED
  BY <1>1, <1>2, <1>3 DEF Next, Client

\* A tenant's in-flight count is the number of its jobs that have not ended and
\* never exceeds the quota, however requests, failures and preemptions interleave
\* (scheduling.py, admit and release).
THEOREM QuotaAlwaysExact == Spec => []QuotaExact
<1>1. Init => Typed /\ QuotaExact
  BY TypedInit, QuotaInit
<1>2. Typed /\ QuotaExact /\ [Next]_vars => Typed' /\ QuotaExact'
  BY TypedNext, QuotaNext
<1> QED
  BY <1>1, <1>2, PTL DEF Spec

-----------------------------------------------------------------------------
(* One place for each job *)


\* What a GPU still has to answer for, in order: the batch on its way, the one
\* in hand, or the messages that have not been handled.
Owed(g) ==
  IF request_q[g] # <<>> THEN Head(request_q[g]).jobs
  ELSE IF running[g] # None THEN running[g].batch.jobs
  ELSE response_q[g]

OwedIds(g) == [k \in DOMAIN Owed(g) |-> Owed(g)[k].request_id]

LEMMA OwedTyped ==
  ASSUME Typed, NEW g \in GPUs
  PROVE  /\ OwedIds(g) \in Seq(Jobs)
         /\ DOMAIN OwedIds(g) = 1..Len(Owed(g))
         /\ Len(Owed(g)) \in Nat /\ DOMAIN Owed(g) = 1..Len(Owed(g))
         /\ Range(OwedIds(g)) = {o.request_id : o \in Range(Owed(g))}
<1> USE DEF Typed
<1>1. /\ request_q[g] \in Seq(Batch)
      /\ response_q[g] \in Seq(Response)
  BY DEF TypeOK, WorkerTypeOK
<1>2. Owed(g) \in Seq(BatchJob) \/ Owed(g) \in Seq(Response)
  <2>1. CASE request_q[g] # <<>>
    <3>1. Head(request_q[g]) \in Batch
      BY <1>1, <2>1, HeadTailProperties
    <3> QED
      BY <2>1, <3>1 DEF Owed, Batch
  <2>2. CASE request_q[g] = <<>> /\ running[g] # None
    BY <2>2, RunningParts DEF Owed, TypeOK
  <2>3. CASE request_q[g] = <<>> /\ running[g] = None
    BY <1>1, <2>3 DEF Owed
  <2> QED
    BY <2>1, <2>2, <2>3
<1>3. /\ Len(Owed(g)) \in Nat /\ DOMAIN Owed(g) = 1..Len(Owed(g))
      /\ \A k \in 1..Len(Owed(g)) : Owed(g)[k] \in BatchJob \cup Response
  BY <1>2, LenProperties, ElementOfSeq
<1>4. \A k \in 1..Len(Owed(g)) : Owed(g)[k].request_id \in Jobs
  BY <1>3 DEF BatchJob, Response
<1>5. OwedIds(g) \in [1..Len(Owed(g)) -> Jobs]
  BY <1>3, <1>4 DEF OwedIds
<1>6. OwedIds(g) \in Seq(Jobs)
  BY <1>3, <1>5, SeqDef
<1>7. Range(OwedIds(g)) = {o.request_id : o \in Range(Owed(g))}
  <2>1. \A k \in DOMAIN Owed(g) : OwedIds(g)[k] = Owed(g)[k].request_id
    BY DEF OwedIds
  <2>2. DOMAIN OwedIds(g) = DOMAIN Owed(g)
    BY DEF OwedIds
  <2> QED
    BY <2>1, <2>2 DEF Range
<1> QED
  BY <1>3, <1>5, <1>6, <1>7

\* A GPU has one thing at a time, so that is all that is outstanding.
LEMMA OutstandingIsOwed ==
  ASSUME Typed, GroupAccounting, NEW g \in GPUs
  PROVE  Outstanding(g) = Range(OwedIds(g))
<1> USE DEF Typed
<1>1. Range(OwedIds(g)) = {o.request_id : o \in Range(Owed(g))}
  BY OwedTyped
<1>2. Range(<<>>) = {}
  BY DEF Range
<1>3. \/ /\ Len(request_q[g]) = 1 /\ running[g] = None /\ response_q[g] = <<>>
      \/ /\ request_q[g] = <<>> /\ running[g] # None /\ response_q[g] = <<>>
      \/ /\ request_q[g] = <<>> /\ running[g] = None
  BY DEF GroupAccounting, Unused, Sent, Executing, Answering
<1>4. CASE Len(request_q[g]) = 1 /\ running[g] = None /\ response_q[g] = <<>>
  <2>1. /\ request_q[g] \in Seq(Batch) /\ request_q[g] # <<>>
        /\ DOMAIN request_q[g] = {1} /\ Head(request_q[g]) = request_q[g][1]
    <3>1. request_q[g] \in Seq(Batch)
      BY DEF TypeOK, WorkerTypeOK
    <3>2. request_q[g] # <<>> /\ DOMAIN request_q[g] = 1..1
      BY <1>4, <3>1, LenProperties, EmptySeq
    <3> QED
      BY <3>1, <3>2
  <2>2. Range(request_q[g]) = {Head(request_q[g])}
    BY <2>1 DEF Range
  <2>3. UNION {BatchIds(b) : b \in Range(request_q[g])} = BatchIds(Head(request_q[g]))
    BY <2>2
  <2>4. RunningIds(g) = {} /\ AnsweringIds(g) = {}
    BY <1>2, <1>4 DEF RunningIds, AnsweringIds
  <2>5. Range(OwedIds(g)) = BatchIds(Head(request_q[g]))
    BY <1>1, <2>1 DEF Owed, BatchIds
  <2> QED
    BY <2>3, <2>4, <2>5 DEF Outstanding
<1>5. CASE request_q[g] = <<>> /\ running[g] # None /\ response_q[g] = <<>>
  <2>1. UNION {BatchIds(b) : b \in Range(request_q[g])} = {} /\ AnsweringIds(g) = {}
    BY <1>2, <1>5 DEF AnsweringIds
  <2>2. Range(OwedIds(g)) = RunningIds(g)
    BY <1>1, <1>5 DEF Owed, RunningIds, BatchIds
  <2> QED
    BY <2>1, <2>2 DEF Outstanding
<1>6. CASE request_q[g] = <<>> /\ running[g] = None
  <2>1. UNION {BatchIds(b) : b \in Range(request_q[g])} = {} /\ RunningIds(g) = {}
    BY <1>2, <1>6 DEF RunningIds
  <2>2. Range(OwedIds(g)) = AnsweringIds(g)
    BY <1>1, <1>6 DEF Owed, AnsweringIds
  <2> QED
    BY <2>1, <2>2 DEF Outstanding
<1> QED
  BY <1>3, <1>4, <1>5, <1>6

-----------------------------------------------------------------------------
(* How a step moves what is owed *)

LEMMA OwedUntouched ==
  ASSUME NEW g \in GPUs, request_q'[g] = request_q[g],
         running'[g] = running[g], response_q'[g] = response_q[g]
  PROVE  OwedIds(g)' = OwedIds(g)
BY DEF OwedIds, Owed

\* Whatever a worker does, it owes the same jobs in the same order.
LEMMA OwedWorker ==
  ASSUME Typed, GroupAccounting, NEW g \in GPUs, WorkerStep(g) \/ BatchError(g),
         NEW k \in GPUs
  PROVE  OwedIds(k)' = OwedIds(k)
<1> USE DEF Typed
<1>1. CASE k # g
  <2> USE DEF TypeOK, WorkerTypeOK
  <2>1. CASE StartBatch(g)
    BY <1>1, <2>1, OwedUntouched DEF StartBatch
  <2>2. CASE PreemptBatch(g)
    BY <1>1, <2>2, OwedUntouched DEF PreemptBatch, Answer
  <2>3. CASE Denoise(g)
    BY <1>1, <2>3, OwedUntouched DEF Denoise
  <2>4. CASE FinishBatch(g)
    BY <1>1, <2>4, OwedUntouched DEF FinishBatch, Answer
  <2>5. CASE BatchError(g)
    BY <1>1, <2>5, OwedUntouched DEF BatchError, Answer
  <2> QED
    BY <2>1, <2>2, <2>3, <2>4, <2>5 DEF WorkerStep
<1>2. ASSUME StartBatch(g) PROVE OwedIds(g)' = OwedIds(g)
  <2>1. request_q[g] # <<>> /\ running[g] = None
        /\ request_q'[g] = Tail(request_q[g])
    BY <1>2 DEF StartBatch, TypeOK, WorkerTypeOK
  <2>2. running'[g] # None /\ running'[g].batch = Head(request_q[g])
    BY <1>2, TypedStart, NoneAssumption DEF TypeOK
  <2>3. request_q[g] \in Seq(Batch) /\ Len(request_q[g]) = 1
    BY <2>1 DEF GroupAccounting, Unused, Sent, Executing, Answering, TypeOK, WorkerTypeOK
  <2>4. Tail(request_q[g]) = <<>>
    <3>1. Tail(request_q[g]) \in Seq(Batch) /\ Len(Tail(request_q[g])) = 0
      BY <2>1, <2>3, HeadTailProperties
    <3> QED
      BY <3>1, EmptySeq
  <2>5. Owed(g)' = Owed(g)
    BY <2>1, <2>2, <2>4 DEF Owed
  <2> QED
    BY <2>5 DEF OwedIds
<1>3. ASSUME running[g] # None,
             NEW msgs \in {Checkpoints(g), Results(g), Failures(g)}, Answer(g, msgs),
             UNCHANGED request_q
      PROVE  OwedIds(g)' = OwedIds(g)
  <2> DEFINE jobs == running[g].batch.jobs
  <2>1. request_q[g] = <<>> /\ response_q[g] = <<>>
    BY <1>3 DEF GroupAccounting, Unused, Sent, Executing, Answering
  <2>2. /\ msgs \in Seq(Response) /\ Len(msgs) = Len(jobs)
        /\ \A i \in DOMAIN jobs : msgs[i].request_id = jobs[i].request_id
    BY <1>3, Answers DEF TypeOK
  <2>3. response_q'[g] = <<>> \o msgs /\ running'[g] = None /\ request_q'[g] = <<>>
    BY <1>3, <2>1 DEF Answer, TypeOK, WorkerTypeOK
  <2>4. response_q'[g] = msgs
    BY <2>2, <2>3, ConcatEmptySeq
  <2>5. DOMAIN msgs = DOMAIN jobs
    BY <1>3, <2>2, RunningParts, LenProperties DEF TypeOK
  <2>6. Owed(g)' = msgs /\ Owed(g) = jobs
    BY <1>3, <2>1, <2>3, <2>4 DEF Owed
  <2> QED
    BY <2>2, <2>5, <2>6 DEF OwedIds
<1>4. ASSUME Denoise(g) PROVE OwedIds(g)' = OwedIds(g)
  <2>1. running[g] # None /\ UNCHANGED <<request_q, response_q>>
    BY <1>4 DEF Denoise, InLoop
  <2>2. running'[g] # None /\ running'[g].batch = running[g].batch
    BY <1>4, TypedDenoise, NoneAssumption DEF TypeOK
  <2>3. Owed(g)' = Owed(g)
    BY <2>1, <2>2 DEF Owed
  <2> QED
    BY <2>3 DEF OwedIds
<1> QED
  BY <1>1, <1>2, <1>3, <1>4 DEF WorkerStep, PreemptBatch, FinishBatch, BatchError, InLoop

\* A message that is handled is the first thing its GPU owed.
LEMMA OwedTakeResponse ==
  ASSUME Typed, GroupAccounting, NEW g \in GPUs, TakeResponse(g)
  PROVE  /\ OwedIds(g) # <<>>
         /\ Head(OwedIds(g)) = Head(response_q[g]).request_id
         /\ OwedIds(g)' = Tail(OwedIds(g))
         /\ \A k \in GPUs : k # g => OwedIds(k)' = OwedIds(k)
<1> USE DEF Typed
<1> DEFINE q == response_q[g]
<1>1. /\ q # <<>> /\ q \in Seq(Response)
      /\ response_q' = [response_q EXCEPT ![g] = Tail(q)]
      /\ UNCHANGED <<request_q, running>>
  BY DEF TakeResponse, TypeOK, WorkerTypeOK
<1>2. request_q[g] = <<>> /\ running[g] = None
  BY <1>1 DEF GroupAccounting, Unused, Sent, Executing, Answering
<1>3. Owed(g) = q /\ Owed(g)' = Tail(q)
  BY <1>1, <1>2 DEF Owed, TypeOK, WorkerTypeOK
<1>4. /\ Tail(q) \in Seq(Response) /\ Len(Tail(q)) = Len(q) - 1
      /\ Len(q) \in Nat \ {0} /\ DOMAIN q = 1..Len(q) /\ Head(q) = q[1]
      /\ \A i \in 1..Len(Tail(q)) : Tail(q)[i] = q[i + 1]
  BY <1>1, HeadTailProperties, EmptySeq, LenProperties
<1>5. DOMAIN Tail(q) = 1..(Len(q) - 1)
  BY <1>4, LenProperties
<1> DEFINE ids == OwedIds(g)
<1>6. /\ ids \in Seq(Jobs) /\ DOMAIN ids = 1..Len(q)
      /\ \A i \in 1..Len(q) : ids[i] = q[i].request_id
  BY <1>3, <1>4, OwedTyped DEF OwedIds
<1>7. OwedIds(g)' = [i \in 1..(Len(q) - 1) |-> q[i + 1].request_id]
  <2>1. OwedIds(g)' = [i \in DOMAIN Tail(q) |-> Tail(q)[i].request_id]
    BY <1>3 DEF OwedIds
  <2> QED
    BY <1>4, <1>5, <2>1
<1> HIDE DEF ids, q
<1>8. Len(ids) = Len(q) /\ ids # <<>>
  <2>1. Len(ids) \in Nat /\ DOMAIN ids = 1..Len(ids)
    BY <1>6, LenProperties
  <2>2. Len(ids) = Len(q)
    BY <1>4, <1>6, <2>1
  <2> QED
    BY <1>4, <1>6, <2>2, EmptySeq
<1>9. Tail(ids) = [i \in 1..(Len(q) - 1) |-> q[i + 1].request_id]
  <2>1. /\ Tail(ids) \in Seq(Jobs) /\ Len(Tail(ids)) = Len(q) - 1
        /\ \A i \in 1..(Len(q) - 1) : Tail(ids)[i] = ids[i + 1]
    BY <1>6, <1>8, HeadTailProperties
  <2>2. Tail(ids) = [i \in 1..(Len(q) - 1) |-> Tail(ids)[i]]
    BY <2>1, LenProperties
  <2>3. \A i \in 1..(Len(q) - 1) : Tail(ids)[i] = q[i + 1].request_id
    BY <1>4, <1>6, <2>1
  <2> QED
    BY <2>2, <2>3
<1>10. Head(ids) = Head(q).request_id
  <2>1. Head(ids) = ids[1]
    BY <1>6, <1>8
  <2> QED
    BY <1>4, <1>6, <2>1
<1>11. \A k \in GPUs : k # g => OwedIds(k)' = OwedIds(k)
  BY <1>1, OwedUntouched DEF TypeOK, WorkerTypeOK
<1> QED
  BY <1>7, <1>8, <1>9, <1>10, <1>11 DEF ids, q

\* A dispatch gives an unused GPU the group it has taken from a queue.
LEMMA OwedDispatch ==
  ASSUME Typed, GroupAccounting, NEW h \in Queued, NEW g \in GPUs, DispatchBatch(h, g)
  PROVE  /\ OwedIds(g) = <<>>
         /\ OwedIds(g)' = GroupOf(h)
         /\ \A k \in GPUs : k # g => OwedIds(k)' = OwedIds(k)
<1> USE DEF Typed
<1>1. /\ busy[g] = None
      /\ request_q' = [request_q EXCEPT ![g] = Append(request_q[g], NewBatch(h))]
      /\ UNCHANGED <<running, response_q>>
  BY DEF DispatchBatch, LeastUtilised, Free
<1>2. Unused(g)
  BY <1>1 DEF GroupAccounting
<1>3. OwedIds(g) = <<>>
  <2>1. Owed(g) = <<>>
    BY <1>2 DEF Owed, Unused
  <2> QED
    BY <2>1, EmptySeq DEF OwedIds
<1> DEFINE b == NewBatch(h)
           grp == GroupOf(h)
<1>4. DOMAIN b.jobs = DOMAIN grp /\ \A i \in DOMAIN grp : b.jobs[i].request_id = grp[i]
  BY DEF NewBatch
<1>5. grp \in Seq(Jobs)
  BY SelectedGroup
<1> HIDE DEF b, grp
<1>6. request_q'[g] = Append(<<>>, b)
  BY <1>1, <1>2 DEF Unused, TypeOK, WorkerTypeOK, b
<1>7. request_q'[g] # <<>> /\ Head(request_q'[g]) = b
  BY <1>6
<1>8. Owed(g)' = b.jobs
  BY <1>7 DEF Owed
<1>9. OwedIds(g)' = grp
  <2>1. OwedIds(g)' = [i \in DOMAIN grp |-> grp[i]]
    BY <1>4, <1>8 DEF OwedIds
  <2>2. grp = [i \in DOMAIN grp |-> grp[i]]
    BY <1>5, LenProperties
  <2> QED
    BY <2>1, <2>2
<1>10. \A k \in GPUs : k # g => OwedIds(k)' = OwedIds(k)
  BY <1>1, OwedUntouched DEF TypeOK, WorkerTypeOK
<1> QED
  BY <1>3, <1>9, <1>10 DEF grp
-----------------------------------------------------------------------------
(* One place for each job *)

QueuesOnce == \A c \in Class : IsInjective(queues[c])
OwedOnce == \A g \in GPUs : IsInjective(OwedIds(g)) /\ Len(OwedIds(g)) <= MAX_BATCH
PlacesApart ==
  /\ \A g \in GPUs : Range(OwedIds(g)) \cap Queued = {}
  /\ \A g, k \in GPUs : g # k => Range(OwedIds(g)) \cap Range(OwedIds(k)) = {}
PendingPlaced == pending = Queued \cup UNION {Range(OwedIds(g)) : g \in GPUs}

\* OnePlace in terms of what is owed; a batch repeats no job and is not too large.
Placed == QueuesOnce /\ OwedOnce /\ PlacesApart /\ PendingPlaced

LEMMA PlacedIsOnePlace ==
  ASSUME Typed, GroupAccounting, Placed
  PROVE  OnePlace
<1>1. \A g \in GPUs : Outstanding(g) = Range(OwedIds(g))
  BY OutstandingIsOwed
<1>2. UNION {Outstanding(g) : g \in GPUs} = UNION {Range(OwedIds(g)) : g \in GPUs}
  BY <1>1
<1>3. \A c \in Class, j \in Jobs : j \in Range(queues[c]) => job[j].queue = c
  BY DEF Typed, JobsExist
<1> QED
  BY <1>1, <1>2, <1>3 DEF OnePlace, Placed, QueuesOnce, PlacesApart, PendingPlaced

LEMMA PlacedInit == Init => Placed
<1> SUFFICES ASSUME Init PROVE Placed
  OBVIOUS
<1>1. Range(<<>>) = {} /\ IsInjective(<<>>) /\ Len(<<>>) = 0
  BY DEF Range, IsInjective
<1>2. \A c \in Class : queues[c] = <<>>
  BY DEF Init, SchedInit
<1>3. \A g \in GPUs : OwedIds(g) = <<>>
  <2> TAKE g \in GPUs
  <2>1. Owed(g) = <<>>
    BY DEF Init, WorkerInit, Owed
  <2> QED
    BY <2>1 DEF OwedIds
<1>4. Queued = {}
  BY <1>1, <1>2 DEF Queued
<1>5. pending = {}
  BY DEF Init
<1>6. UNION {Range(OwedIds(g)) : g \in GPUs} = {}
  BY <1>1, <1>3
<1>7. 0 <= MAX_BATCH
  BY ConfigAssumption
<1> QED
  BY <1>1, <1>2, <1>3, <1>4, <1>5, <1>6, <1>7
     DEF Placed, QueuesOnce, OwedOnce, PlacesApart, PendingPlaced

LEMMA PlacedSame ==
  ASSUME Placed, UNCHANGED <<queues, pending>>,
         \A g \in GPUs : OwedIds(g)' = OwedIds(g)
  PROVE  Placed'
<1>1. Queued' = Queued
  BY DEF Queued
<1> HIDE DEF Queued, OwedIds
<1>2. UNION {Range(OwedIds(g)') : g \in GPUs} = UNION {Range(OwedIds(g)) : g \in GPUs}
  OBVIOUS
<1> QED
  BY <1>1, <1>2 DEF Placed, QueuesOnce, OwedOnce, PlacesApart, PendingPlaced

\* What the queues hold together after the queue of one class was rewritten.
LEMMA QueuedAfter ==
  ASSUME Typed, NEW c \in Class, NEW q, queues' = [queues EXCEPT ![c] = q]
  PROVE  /\ queues'[c] = q
         /\ \A d \in Class : d # c => queues'[d] = queues[d]
         /\ Queued' = (Queued \ Range(queues[c])) \cup Range(q)
<1>1. /\ queues'[c] = q
      /\ \A d \in Class : d # c => queues'[d] = queues[d]
  BY DEF Typed, TypeOK, SchedTypeOK
<1>2. \A d \in Class : d # c => Range(queues[d]) \cap Range(queues[c]) = {}
  <2> TAKE d \in Class
  <2>1. Range(queues[c]) \subseteq Jobs /\ Range(queues[d]) \subseteq Jobs
    <3>1. queues[c] \in Seq(Jobs) /\ queues[d] \in Seq(Jobs)
      BY DEF Typed, TypeOK, SchedTypeOK
    <3> QED
      BY <3>1, RangeOfSeq
  <2> QED
    BY <2>1 DEF Typed, JobsExist
<1>3. Queued' = UNION {Range(queues'[d]) : d \in Class}
  BY DEF Queued
<1>4. \A x : x \in Queued' <=> x \in (Queued \ Range(queues[c])) \cup Range(q)
  <2> TAKE x
  <2>1. ASSUME x \in Queued' PROVE x \in (Queued \ Range(queues[c])) \cup Range(q)
    <3>1. PICK d \in Class : x \in Range(queues'[d])
      BY <1>3, <2>1
    <3> QED
      BY <1>1, <1>2, <3>1 DEF Queued
  <2>2. ASSUME x \in Range(q) PROVE x \in Queued'
    BY <1>1, <1>3, <2>2
  <2>3. ASSUME x \in Queued \ Range(queues[c]) PROVE x \in Queued'
    <3>1. PICK d \in Class : x \in Range(queues[d])
      BY <2>3 DEF Queued
    <3>2. d # c
      BY <2>3, <3>1
    <3> QED
      BY <1>1, <1>3, <3>1, <3>2
  <2> QED
    BY <2>1, <2>2, <2>3
<1> QED
  BY <1>1, <1>4

LEMMA PlacedGenerate ==
  ASSUME Typed, Placed, NEW j \in Jobs, NEW r \in Requests, Generate(j, r)
  PROVE  Placed'
<1> DEFINE c == r.queue
           q == queues[c]
<1>1. c \in Class
  BY ConfigAssumption
<1>2. /\ queues' = [queues EXCEPT ![c] = Append(q, j)]
      /\ pending' = pending \cup {j}
      /\ job[j] = None
      /\ UNCHANGED <<request_q, running, response_q>>
  BY DEF Generate, Admit, workerVars
<1>3. j \notin pending
  BY <1>2 DEF Typed, JobsExist
<1>4. q \in Seq(Jobs)
  BY <1>1 DEF Typed, TypeOK, SchedTypeOK
<1>5. Range(Append(q, j)) = Range(q) \cup {j}
  BY <1>4, RangeOfAppend
<1>6. /\ queues'[c] = Append(q, j)
      /\ \A d \in Class : d # c => queues'[d] = queues[d]
      /\ Queued' = (Queued \ Range(q)) \cup Range(Append(q, j))
  BY <1>1, <1>2, QueuedAfter
<1>7. Range(q) \subseteq Queued
  BY <1>1 DEF Queued
<1>8. Queued' = Queued \cup {j}
  BY <1>5, <1>6, <1>7
<1>9. \A g \in GPUs : OwedIds(g)' = OwedIds(g)
  BY <1>2 DEF OwedIds, Owed
<1>10. j \notin Queued /\ \A g \in GPUs : j \notin Range(OwedIds(g))
  BY <1>3 DEF Placed, PendingPlaced
<1>11. IsInjective(Append(q, j))
  <2>1. IsInjective(q) /\ j \notin Range(q)
    BY <1>1, <1>7, <1>10 DEF Placed, QueuesOnce
  <2> QED
    BY <1>4, <2>1, InjectivePut
<1> HIDE DEF c, q, OwedIds, Queued
<1>12. QueuesOnce'
  BY <1>6, <1>11 DEF Placed, QueuesOnce
<1>13. OwedOnce'
  BY <1>9 DEF Placed, OwedOnce
<1>14. PlacesApart'
  BY <1>8, <1>9, <1>10 DEF Placed, PlacesApart
<1>15. PendingPlaced'
  <2>1. UNION {Range(OwedIds(g)') : g \in GPUs} = UNION {Range(OwedIds(g)) : g \in GPUs}
    BY <1>9
  <2> QED
    BY <1>2, <1>8, <2>1 DEF Placed, PendingPlaced
<1> QED
  BY <1>12, <1>13, <1>14, <1>15 DEF Placed

LEMMA PlacedHoldBatch ==
  ASSUME Typed, Placed, NEW h \in Jobs, HoldBatch(h)
  PROVE  Placed' /\ Queued' = Queued
<1> DEFINE c == job[h].queue
           q == GroupOf(h) \o RestOf(h)
<1>1. /\ h \in Queued
      /\ queues' = [queues EXCEPT ![c] = q]
      /\ UNCHANGED <<request_q, running, response_q, pending>>
  BY DEF HoldBatch, TakeAndRequeue, workerVars, clientVars
<1>2. /\ c \in Class /\ job[h] \in Job /\ h \in Range(queues[c])
      /\ GroupOf(h) \in Seq(Jobs) /\ RestOf(h) \in Seq(Jobs)
      /\ Range(GroupOf(h)) \cup Range(RestOf(h)) = Range(queues[c])
  BY <1>1, SelectedGroup
<1>3. /\ IsInjective(GroupOf(h)) /\ IsInjective(RestOf(h))
      /\ Range(GroupOf(h)) \cap Range(RestOf(h)) = {}
  BY <1>2, GroupApartFromRest DEF Placed, QueuesOnce, Typed, TypeOK
<1>4. IsInjective(q)
  BY <1>2, <1>3, InjectiveConcat
<1>5. Range(q) = Range(queues[c])
  <2>1. GroupOf(h) \in Seq(Jobs) /\ RestOf(h) \in Seq(Jobs)
    BY <1>2
  <2>2. Range(q) = Range(GroupOf(h)) \cup Range(RestOf(h))
    BY <2>1, RangeConcatenation, Zenon
  <2> QED
    BY <1>2, <2>2
<1> HIDE DEF q
<1>6. /\ queues'[c] = q
      /\ \A d \in Class : d # c => queues'[d] = queues[d]
      /\ Queued' = (Queued \ Range(queues[c])) \cup Range(q)
  BY <1>1, <1>2, QueuedAfter
<1>7. Queued' = Queued
  BY <1>2, <1>5, <1>6 DEF Queued
<1>8. \A g \in GPUs : OwedIds(g)' = OwedIds(g)
  BY <1>1 DEF OwedIds, Owed
<1> HIDE DEF c, Queued, OwedIds
<1>9. QueuesOnce'
  BY <1>4, <1>6 DEF Placed, QueuesOnce
<1>10. UNION {Range(OwedIds(g)') : g \in GPUs} = UNION {Range(OwedIds(g)) : g \in GPUs}
  BY <1>8
<1> QED
  BY <1>1, <1>7, <1>8, <1>9, <1>10
     DEF Placed, OwedOnce, PlacesApart, PendingPlaced

LEMMA PlacedDispatch ==
  ASSUME Typed, GroupAccounting, Placed, NEW h \in Jobs, NEW g \in GPUs, DispatchBatch(h, g)
  PROVE  /\ Placed'
         /\ Range(GroupOf(h)) \subseteq Queued
         /\ Queued' = Queued \ Range(GroupOf(h))
<1> DEFINE c == job[h].queue
           grp == GroupOf(h)
<1>1. /\ h \in Queued
      /\ queues' = [queues EXCEPT ![c] = RestOf(h)]
      /\ UNCHANGED pending
  BY DEF DispatchBatch, Take, clientVars
<1>2. /\ c \in Class /\ job[h] \in Job /\ h \in Range(queues[c])
      /\ Range(grp) \cup Range(RestOf(h)) = Range(queues[c])
  BY <1>1, SelectedGroup
<1>3. /\ IsInjective(grp) /\ IsInjective(RestOf(h))
      /\ Range(grp) \cap Range(RestOf(h)) = {}
      /\ Len(grp) <= MAX_BATCH
  BY <1>2, GroupApartFromRest DEF Placed, QueuesOnce, Typed, TypeOK
<1>4. /\ queues'[c] = RestOf(h)
      /\ \A d \in Class : d # c => queues'[d] = queues[d]
      /\ Queued' = (Queued \ Range(queues[c])) \cup Range(RestOf(h))
  BY <1>1, <1>2, QueuedAfter
<1>5. Range(queues[c]) \subseteq Queued
  BY <1>2 DEF Queued
<1>6. Queued' = Queued \ Range(grp) /\ Range(grp) \subseteq Queued
  BY <1>2, <1>3, <1>4, <1>5
<1>7. /\ OwedIds(g) = <<>> /\ OwedIds(g)' = grp
      /\ \A k \in GPUs : k # g => OwedIds(k)' = OwedIds(k)
  BY <1>1, OwedDispatch
<1> HIDE DEF c, grp, Queued, OwedIds
<1>8. QueuesOnce'
  BY <1>3, <1>4 DEF Placed, QueuesOnce
<1>9. OwedOnce'
  BY <1>3, <1>7 DEF Placed, OwedOnce
<1>10. PlacesApart'
  BY <1>6, <1>7 DEF Placed, PlacesApart
<1>11. PendingPlaced'
  <2>1. \A k \in GPUs : Range(OwedIds(k)') = IF k = g THEN Range(grp) ELSE Range(OwedIds(k))
    BY <1>7
  <2>2. Range(OwedIds(g)) = {}
    BY <1>7 DEF Range
  <2>3. UNION {Range(OwedIds(k)') : k \in GPUs}
          = (UNION {Range(OwedIds(k)) : k \in GPUs}) \cup Range(grp)
    BY <2>1, <2>2
  <2> QED
    BY <1>1, <1>6, <2>3 DEF Placed, PendingPlaced
<1> QED
  BY <1>6, <1>8, <1>9, <1>10, <1>11 DEF Placed, grp

\* The job a message names is still pending, is not queued, and is the one its
\* GPU stops owing.
LEMMA MessageOfPending ==
  ASSUME Typed, GroupAccounting, Placed, NEW g \in GPUs, TakeResponse(g)
  PROVE  LET rid == Head(response_q[g]).request_id
         IN  /\ rid \in Jobs /\ rid \in pending /\ rid \notin Queued
             /\ rid \in Range(OwedIds(g))
             /\ IsInjective(OwedIds(g)') /\ Len(OwedIds(g)') <= MAX_BATCH
             /\ Range(OwedIds(g)') = Range(OwedIds(g)) \ {rid}
             /\ \A k \in GPUs : k # g => /\ OwedIds(k)' = OwedIds(k)
                                         /\ rid \notin Range(OwedIds(k))
             /\ UNION {Range(OwedIds(k)') : k \in GPUs}
                  = (UNION {Range(OwedIds(k)) : k \in GPUs}) \ {rid}
<1> DEFINE rid == Head(response_q[g]).request_id
           ids == OwedIds(g)
<1>1. /\ ids # <<>> /\ Head(ids) = rid
      /\ ids' = Tail(ids)
      /\ \A k \in GPUs : k # g => OwedIds(k)' = OwedIds(k)
  BY OwedTakeResponse
<1>2. ids \in Seq(Jobs) /\ IsInjective(ids) /\ Len(ids) <= MAX_BATCH
  BY OwedTyped DEF Placed, OwedOnce
<1> HIDE DEF rid, ids
<1>3. /\ IsInjective(Tail(ids)) /\ Range(Tail(ids)) = Range(ids) \ {rid}
      /\ rid \in Range(ids) /\ rid \in Jobs
      /\ Len(Tail(ids)) <= MAX_BATCH
  <2>1. IsInjective(Tail(ids)) /\ Range(Tail(ids)) = Range(ids) \ {rid}
    BY <1>1, <1>2, InjectiveTail
  <2>2. rid \in Range(ids) /\ rid \in Jobs /\ Len(Tail(ids)) = Len(ids) - 1
    BY <1>1, <1>2, RangeOfTail
  <2>3. Len(ids) \in Nat
    BY <1>2, LenProperties
  <2> QED
    BY <1>2, <2>1, <2>2, <2>3, ConfigAssumption
<1>4. rid \in pending /\ rid \notin Queued
      /\ \A k \in GPUs : k # g => rid \notin Range(OwedIds(k))
  <2> HIDE DEF OwedIds, Queued
  <2> QED
    BY <1>3 DEF Placed, PlacesApart, PendingPlaced, ids
<1>5. UNION {Range(OwedIds(k)') : k \in GPUs}
        = (UNION {Range(OwedIds(k)) : k \in GPUs}) \ {rid}
  <2>1. Range(OwedIds(g)') = Range(OwedIds(g)) \ {rid}
    BY <1>1, <1>3 DEF ids
  <2> HIDE DEF OwedIds
  <2> QED
    BY <1>1, <1>4, <2>1
<1> QED
  BY <1>1, <1>3, <1>4, <1>5 DEF ids, rid

LEMMA PlacedOnPreempted ==
  ASSUME Typed, GroupAccounting, Placed, NEW g \in GPUs, OnPreempted(g)
  PROVE  LET rid == Head(response_q[g]).request_id
         IN  /\ Placed'
             /\ rid \notin Queued
             /\ Queued' = Queued \cup {rid}
<1> DEFINE m == Head(response_q[g])
           rid == m.request_id
           c == job[rid].queue
           q == <<rid>> \o queues[c]
<1>1. TakeResponse(g) /\ UNCHANGED pending
  BY DEF OnPreempted, clientVars
<1>2. /\ rid \in Jobs /\ rid \in pending /\ rid \notin Queued
      /\ IsInjective(OwedIds(g)') /\ Len(OwedIds(g)') <= MAX_BATCH
      /\ Range(OwedIds(g)') = Range(OwedIds(g)) \ {rid}
      /\ \A k \in GPUs : k # g => /\ OwedIds(k)' = OwedIds(k)
                                  /\ rid \notin Range(OwedIds(k))
      /\ UNION {Range(OwedIds(k)') : k \in GPUs}
           = (UNION {Range(OwedIds(k)) : k \in GPUs}) \ {rid}
  BY <1>1, MessageOfPending
<1>3. queues' = [queues EXCEPT ![c] = q]
  BY <1>2 DEF OnPreempted, RequeuePreempted
<1>4. c \in Class /\ queues[c] \in Seq(Jobs)
  BY <1>2 DEF Typed, TypeOK, SchedTypeOK, JobsExist, Job
<1>5. Range(queues[c]) \subseteq Queued
  BY <1>4 DEF Queued
<1> HIDE DEF m, rid
<1>6. IsInjective(q)
  <2>1. IsInjective(queues[c]) /\ rid \notin Range(queues[c])
    BY <1>2, <1>4, <1>5 DEF Placed, QueuesOnce
  <2> QED
    BY <1>2, <1>4, <2>1, InjectivePut
<1>7. Range(q) = {rid} \cup Range(queues[c])
  <2>1. <<rid>> \in Seq(Jobs) /\ queues[c] \in Seq(Jobs) /\ Range(<<rid>>) = {rid}
    BY <1>2, <1>4 DEF Range
  <2>2. Range(q) = Range(<<rid>>) \cup Range(queues[c])
    BY <2>1, RangeConcatenation, Zenon
  <2> QED
    BY <2>1, <2>2
<1> HIDE DEF q
<1>8. /\ queues'[c] = q
      /\ \A d \in Class : d # c => queues'[d] = queues[d]
      /\ Queued' = (Queued \ Range(queues[c])) \cup Range(q)
  BY <1>3, <1>4, QueuedAfter
<1>9. Queued' = Queued \cup {rid}
  BY <1>5, <1>7, <1>8
<1> HIDE DEF c, Queued, OwedIds
<1>10. QueuesOnce'
  BY <1>6, <1>8 DEF Placed, QueuesOnce
<1>11. OwedOnce'
  BY <1>2 DEF Placed, OwedOnce
<1>12. PlacesApart'
  BY <1>2, <1>9 DEF Placed, PlacesApart
<1>13. PendingPlaced'
  BY <1>1, <1>2, <1>9 DEF Placed, PendingPlaced
<1> QED
  BY <1>2, <1>9, <1>10, <1>11, <1>12, <1>13 DEF Placed, rid, m

LEMMA PlacedOnFinished ==
  ASSUME Typed, GroupAccounting, Placed, NEW g \in GPUs, OnFinished(g)
  PROVE  LET rid == Head(response_q[g]).request_id
         IN  /\ Placed'
             /\ rid \in pending /\ rid \notin Queued
             /\ pending' = pending \ {rid}
<1> DEFINE rid == Head(response_q[g]).request_id
<1>1. TakeResponse(g) /\ UNCHANGED queues
  BY DEF OnFinished
<1>2. /\ rid \in pending /\ rid \notin Queued
      /\ IsInjective(OwedIds(g)') /\ Len(OwedIds(g)') <= MAX_BATCH
      /\ Range(OwedIds(g)') = Range(OwedIds(g)) \ {rid}
      /\ \A k \in GPUs : k # g => /\ OwedIds(k)' = OwedIds(k)
                                  /\ rid \notin Range(OwedIds(k))
      /\ UNION {Range(OwedIds(k)') : k \in GPUs}
           = (UNION {Range(OwedIds(k)) : k \in GPUs}) \ {rid}
  BY <1>1, MessageOfPending
<1>3. pending' = pending \ {rid}
  BY <1>2 DEF OnFinished
<1>4. Queued' = Queued
  BY <1>1 DEF Queued
<1> HIDE DEF rid, Queued, OwedIds
<1>5. QueuesOnce' /\ OwedOnce'
  BY <1>1, <1>2 DEF Placed, QueuesOnce, OwedOnce
<1>6. PlacesApart'
  BY <1>2, <1>4 DEF Placed, PlacesApart
<1>7. PendingPlaced'
  BY <1>2, <1>3, <1>4 DEF Placed, PendingPlaced
<1> QED
  BY <1>2, <1>3, <1>5, <1>6, <1>7 DEF Placed, rid

LEMMA PlacedNext ==
  ASSUME Typed, GroupAccounting, Placed, [Next]_vars
  PROVE  Placed'
<1>1. CASE \E j \in Jobs, r \in Requests : Generate(j, r)
  BY <1>1, PlacedGenerate
<1>2. CASE \E g \in GPUs : OnPreempted(g)
  BY <1>2, PlacedOnPreempted
<1>3. CASE \E g \in GPUs : OnFinished(g)
  BY <1>3, PlacedOnFinished
<1>4. CASE \E h \in Jobs, g \in GPUs : DispatchBatch(h, g)
  BY <1>4, PlacedDispatch
<1>5. CASE \E h \in Jobs : HoldBatch(h)
  BY <1>5, PlacedHoldBatch
<1>6. CASE \E g \in GPUs : (WorkerStep(g) \/ BatchError(g)) /\ UNCHANGED gatewayVars
  BY <1>6, OwedWorker, PlacedSame DEF gatewayVars, schedVars, clientVars
<1>7. CASE \/ \E r \in Requests : Reject(r)
           \/ \E j \in Jobs : Cancel(j) \/ Respond(j) \/ TimerFire(j)
           \/ Wake \/ FillDone \/ Evict \/ Age \/ Idle \/ UNCHANGED vars
  <2>1. UNCHANGED <<queues, pending, request_q, running, response_q>>
    BY <1>7 DEF Reject, Cancel, Respond, TimerFire, Wake, FillDone, Evict, Age, Idle,
                vars, schedVars, workerVars, clientVars
  <2>2. \A g \in GPUs : OwedIds(g)' = OwedIds(g)
    BY <2>1, OwedUntouched
  <2> QED
    BY <2>1, <2>2, PlacedSame
<1> QED
  BY <1>1, <1>2, <1>3, <1>4, <1>5, <1>6, <1>7 DEF Next, Client, DispatcherStep

\* What every later invariant of the gateway is proved from.
Settled == Typed /\ GroupAccounting /\ Placed

\* Every step of gateway.py's handlers and of the workers keeps the jobs well
\* formed, the groups accounted for and each job in one place, all at once.
THEOREM SettledAlways == Spec => []Settled
<1>1. Init => Settled
  BY TypedInit, AccountingInit, PlacedInit DEF Settled
<1>2. Settled /\ [Next]_vars => Settled'
  BY TypedNext, AccountingNext, PlacedNext DEF Settled
<1> QED
  BY <1>1, <1>2, PTL DEF Spec

\* Every admitted job that has not ended is in exactly one place: once in the
\* queue of its class or in the hands of one GPU, through every dispatch, hold,
\* checkpoint and requeue of gateway.py, scheduling.py and worker.py.
THEOREM JobsInOnePlace == Spec => []OnePlace
<1>1. Settled => OnePlace
  BY PlacedIsOnePlace DEF Settled
<1> QED
  BY SettledAlways, <1>1, PTL

-----------------------------------------------------------------------------
(* What a step does to the jobs *)

Checkpointed(k) == \E g \in GPUs : OnPreempted(g) /\ Head(response_q[g]).request_id = k
SameProgress(k) ==
  /\ job'[k].steps = job[k].steps /\ job'[k].resume_state = job[k].resume_state
  /\ job'[k].preempt_count = job[k].preempt_count

\* Only the arrival of its checkpoint changes how far an admitted job has come.
LEMMA JobsKeepProgress ==
  ASSUME Typed, [Next]_vars, NEW k \in Jobs, job[k] # None, ~Checkpointed(k)
  PROVE  SameProgress(k)
<1> USE DEF Typed
<1>1. job \in [Jobs -> Job \cup {None}] /\ job[k] \in Job
  BY DEF TypeOK, SchedTypeOK
<1>2. \A b \in BOOLEAN : LET j1 == [job[k] EXCEPT !.dispatched_at = b]
                             j2 == [job[k] EXCEPT !.preempt_requested = b]
                         IN  /\ j1.steps = job[k].steps /\ j1.resume_state = job[k].resume_state
                             /\ j1.preempt_count = job[k].preempt_count
                             /\ j2.steps = job[k].steps /\ j2.resume_state = job[k].resume_state
                             /\ j2.preempt_count = job[k].preempt_count
  BY <1>1 DEF Job
<1>3. CASE \E j \in Jobs, r \in Requests : Generate(j, r)
  BY <1>1, <1>3 DEF Generate, Admit, SameProgress
<1>4. CASE \E g \in GPUs : OnPreempted(g)
  <2>1. PICK g \in GPUs : OnPreempted(g)
    BY <1>4
  <2>2. Head(response_q[g]).request_id # k
    BY <2>1 DEF Checkpointed
  <2>3. job'[k] = job[k]
    BY <1>1, <2>1, <2>2, Zenon DEF OnPreempted, RequeuePreempted
  <2> QED
    BY <2>3 DEF SameProgress
<1>5. CASE \E h \in Jobs, g \in GPUs : DispatchBatch(h, g)
  <2>1. PICK h \in Jobs : Take(h)
    BY <1>5 DEF DispatchBatch
  <2>2. job'[k] = job[k] \/ job'[k] = [job[k] EXCEPT !.dispatched_at = TRUE]
    BY <2>1 DEF Take
  <2> QED
    BY <1>2, <2>2 DEF SameProgress
<1>6. CASE \E h \in Jobs : HoldBatch(h)
  <2>1. PICK h \in Jobs : TakeAndRequeue(h)
    BY <1>6 DEF HoldBatch
  <2>2. job'[k] = job[k] \/ job'[k] = [job[k] EXCEPT !.dispatched_at = FALSE]
    BY <2>1 DEF TakeAndRequeue
  <2> QED
    BY <1>2, <2>2 DEF SameProgress
<1>7. CASE Evict
  <2>1. job'[k] = job[k] \/ job'[k] = [job[k] EXCEPT !.preempt_requested = TRUE]
    BY <1>7 DEF Evict
  <2> QED
    BY <1>2, <2>1 DEF SameProgress
<1>8. CASE \/ \E r \in Requests : Reject(r)
           \/ \E j \in Jobs : Cancel(j) \/ Respond(j) \/ TimerFire(j)
           \/ Age \/ Idle \/ Wake \/ FillDone \/ UNCHANGED vars
           \/ \E g \in GPUs : OnFinished(g)
           \/ \E g \in GPUs : (WorkerStep(g) \/ BatchError(g)) /\ UNCHANGED gatewayVars
  <2>1. UNCHANGED job
    BY <1>8 DEF Reject, Cancel, Respond, TimerFire, Age, Idle, Wake, FillDone, OnFinished,
                vars, schedVars, gatewayVars
  <2> QED
    BY <2>1 DEF SameProgress
<1> QED
  BY <1>3, <1>4, <1>5, <1>6, <1>7, <1>8 DEF Next, Client, DispatcherStep

\* The arrival of a checkpoint gives its job the latents and the step it names.
LEMMA CheckpointedJob ==
  ASSUME Typed, GroupAccounting, Placed, NEW g \in GPUs, OnPreempted(g)
  PROVE  LET m == Head(response_q[g])
             rid == m.request_id
         IN  /\ m \in Response /\ m.type = "preempted" /\ m \in Range(response_q[g])
             /\ rid \in Jobs /\ rid \in pending /\ job[rid] # None
             /\ job'[rid].steps = job[rid].steps
             /\ job'[rid].resume_state = [latents |-> m.latents, step_index |-> m.step_index]
             /\ job'[rid].resume_state # None
             /\ job'[rid].preempt_count = job[rid].preempt_count + 1
             /\ \A k \in Jobs : k # rid => job'[k] = job[k]
             /\ stats' = [stats EXCEPT !.preemptions = @ + 1]
<1> USE DEF Typed
<1> DEFINE m == Head(response_q[g])
           rid == m.request_id
           resume == [latents |-> m.latents, step_index |-> m.step_index]
<1>1. TakeResponse(g) /\ m.type = "preempted"
  BY DEF OnPreempted
<1>2. m \in Response
  BY <1>1, TypedTakeResponse
<1>3. m \in Range(response_q[g])
  <2>1. response_q[g] \in Seq(Response) /\ response_q[g] # <<>>
    BY <1>1 DEF TakeResponse, TypeOK, WorkerTypeOK
  <2> QED
    BY <2>1, RangeOfTail
<1>4. rid \in Jobs /\ rid \in pending
  BY <1>1, MessageOfPending
<1>5. resume \in ResumeState
  BY <1>1, <1>2 DEF Response, ResumeState
<1>6. job[rid] # None /\ job[rid] \in Job
  BY <1>4 DEF JobsExist, TypeOK, SchedTypeOK
<1>7. RequeuePreempted(rid, resume) /\ stats' = [stats EXCEPT !.preemptions = @ + 1]
  BY <1>4 DEF OnPreempted
<1> HIDE DEF m, rid, resume
<1> DEFINE requeued == [job[rid] EXCEPT !.resume_state = resume,
                                        !.preempt_requested = FALSE,
                                        !.preempt_count = @ + 1,
                                        !.dispatched_at = FALSE]
<1>8. job' = [job EXCEPT ![rid] = requeued]
  BY <1>7, Zenon DEF RequeuePreempted
<1>9. /\ requeued.steps = job[rid].steps /\ requeued.resume_state = resume
      /\ requeued.preempt_count = job[rid].preempt_count + 1
  BY <1>5, <1>6, RequeuedJob
<1> HIDE DEF requeued
<1>10. job'[rid] = requeued /\ \A k \in Jobs : k # rid => job'[k] = job[k]
  BY <1>4, <1>8 DEF TypeOK, SchedTypeOK
<1>11. resume # None
  BY <1>5, NoneAssumption
<1>12. stats' = [stats EXCEPT !.preemptions = @ + 1]
  BY <1>7
<1> QED
  BY <1>1, <1>2, <1>3, <1>4, <1>6, <1>9, <1>10, <1>11, <1>12 DEF resume, rid, m

-----------------------------------------------------------------------------
(* The length of the queues *)

FreshIn(c) == {j \in Range(queues[c]) : job[j].resume_state = None}
PendingIn(c) == {j \in pending : job[j].queue = c}

\* DepthBound in a form that steps keep: requeued jobs are not new, and a job
\* that is admitted finds the others in the queue or in the batches of the GPUs.
DepthsBounded ==
  \A c \in Class :
    /\ Cardinality(FreshIn(c)) <= max_depth[c]
    /\ Cardinality(PendingIn(c)) <= max_depth[c] + NUM_GPUS * MAX_BATCH

\* A sequence without repetition has as many entries as places.
LEMMA LengthOfInjective ==
  ASSUME NEW S, NEW q \in Seq(S), IsInjective(q)
  PROVE  IsFiniteSet(Range(q)) /\ Cardinality(Range(q)) = Len(q) /\ Len(q) \in Nat
<1>1. Len(q) \in Nat /\ DOMAIN q = 1..Len(q)
  BY LenProperties
<1>2. q \in [1..Len(q) -> Range(q)]
  BY <1>1 DEF Range
<1>3. q \in Bijection(1..Len(q), Range(q))
  <2>1. \A x \in Range(q) : \E i \in 1..Len(q) : q[i] = x
    BY <1>1 DEF Range
  <2>2. \A i, k \in 1..Len(q) : q[i] = q[k] => i = k
    BY <1>1 DEF IsInjective
  <2> QED
    BY <1>2, <2>1, <2>2, Fun_IsBij
<1>4. IsFiniteSet(1..Len(q)) /\ Cardinality(1..Len(q)) = Len(q)
  BY <1>1, FS_Interval
<1>5. ExistsBijection(1..Len(q), Range(q))
  BY <1>3 DEF ExistsBijection
<1> QED
  BY <1>1, <1>4, <1>5, FS_Bijection

\* One sequence for each of some GPUs, none longer than a batch, hold at most this
\* many jobs.
LEMMA HeldBySome ==
  ASSUME NEW G \in SUBSET GPUs, NEW ids,
         \A g \in G : ids[g] \in Seq(Jobs) /\ Len(ids[g]) <= MAX_BATCH
  PROVE  LET held == UNION {Range(ids[g]) : g \in G}
         IN  IsFiniteSet(held) /\ Cardinality(held) \in Nat /\ Cardinality(G) \in Nat
             /\ Cardinality(held) <= Cardinality(G) * MAX_BATCH
<1> DEFINE held == UNION {Range(ids[g]) : g \in G}
           slots == G \X (1..MAX_BATCH)
           place == [j \in held |-> CHOOSE s \in slots :
                       s[2] \in DOMAIN ids[s[1]] /\ ids[s[1]][s[2]] = j]
<1>1. ASSUME NEW j \in held
      PROVE  \E s \in slots : s[2] \in DOMAIN ids[s[1]] /\ ids[s[1]][s[2]] = j
  <2>1. PICK g \in G : j \in Range(ids[g])
    OBVIOUS
  <2>2. PICK k \in DOMAIN ids[g] : ids[g][k] = j
    BY <2>1 DEF Range
  <2>3. DOMAIN ids[g] = 1..Len(ids[g]) /\ Len(ids[g]) \in Nat
    BY LenProperties
  <2>4. k \in 1..MAX_BATCH
    BY <2>2, <2>3, ConfigAssumption
  <2>5. <<g, k>> \in slots
    BY <2>4
  <2> QED
    BY <2>2, <2>5
<1> HIDE DEF slots, held
<1>2. \A j \in held : place[j] \in slots /\ ids[place[j][1]][place[j][2]] = j
  BY <1>1
<1>3. place \in Injection(held, slots)
  <2>1. place \in [held -> slots]
    BY <1>2
  <2>2. \A i, j \in held : place[i] = place[j] => i = j
    <3> HIDE DEF place
    <3> QED
      BY <1>2
  <2> QED
    BY <2>1, <2>2, Fun_IsInj
<1>4. /\ IsFiniteSet(slots) /\ Cardinality(G) \in Nat
      /\ Cardinality(slots) = Cardinality(G) * MAX_BATCH
  <2>1. IsFiniteSet(G) /\ Cardinality(G) \in Nat
    <3>1. IsFiniteSet(GPUs)
      BY ConfigAssumption, FS_Interval DEF GPUs
    <3> QED
      BY <3>1, FS_Subset, FS_CardinalityType
  <2>2. IsFiniteSet(1..MAX_BATCH) /\ Cardinality(1..MAX_BATCH) = MAX_BATCH
    BY ConfigAssumption, FS_Interval
  <2> QED
    BY <2>1, <2>2, FS_Product DEF slots
<1>5. IsFiniteSet(held) /\ Cardinality(held) <= Cardinality(G) * MAX_BATCH
  <2> HIDE DEF place
  <2> QED
    BY <1>3, <1>4, FS_Injection
<1> QED
  BY <1>4, <1>5, FS_CardinalityType DEF held

LEMMA HeldByAll ==
  ASSUME NEW ids, \A g \in GPUs : ids[g] \in Seq(Jobs) /\ Len(ids[g]) <= MAX_BATCH
  PROVE  LET held == UNION {Range(ids[g]) : g \in GPUs}
         IN  IsFiniteSet(held) /\ Cardinality(held) \in Nat
             /\ Cardinality(held) <= NUM_GPUS * MAX_BATCH
<1>1. Cardinality(GPUs) = NUM_GPUS
  BY ConfigAssumption, FS_Interval DEF GPUs
<1> QED
  BY <1>1, HeldBySome

\* The GPUs together owe at most one full batch each.
LEMMA OwedByAll ==
  ASSUME Typed, OwedOnce
  PROVE  LET owed == UNION {Range(OwedIds(g)) : g \in GPUs}
         IN  IsFiniteSet(owed) /\ Cardinality(owed) \in Nat
             /\ Cardinality(owed) <= NUM_GPUS * MAX_BATCH
<1> DEFINE ids == [g \in GPUs |-> OwedIds(g)]
<1>1. \A g \in GPUs : ids[g] = OwedIds(g)
  OBVIOUS
<1>2. \A g \in GPUs : OwedIds(g) \in Seq(Jobs) /\ Len(OwedIds(g)) <= MAX_BATCH
  BY OwedTyped DEF OwedOnce
<1>3. {Range(ids[g]) : g \in GPUs} = {Range(OwedIds(g)) : g \in GPUs}
  BY <1>1
<1> HIDE DEF ids, OwedIds
<1>4. \A g \in GPUs : ids[g] \in Seq(Jobs) /\ Len(ids[g]) <= MAX_BATCH
  BY <1>1, <1>2
<1> QED
  BY <1>3, <1>4, HeldByAll

LEMMA DepthsFinite ==
  ASSUME Settled, NEW c \in Class
  PROVE  /\ IsFiniteSet(FreshIn(c)) /\ Cardinality(FreshIn(c)) \in Nat
         /\ IsFiniteSet(PendingIn(c)) /\ Cardinality(PendingIn(c)) \in Nat
         /\ IsFiniteSet(Range(queues[c])) /\ Cardinality(Range(queues[c])) = waiting(c)
         /\ Cardinality(FreshIn(c)) <= waiting(c) /\ waiting(c) <= Cardinality(PendingIn(c))
         /\ waiting(c) \in Nat
<1> USE DEF Settled
<1>1. queues[c] \in Seq(Jobs) /\ IsInjective(queues[c])
  BY DEF Typed, TypeOK, SchedTypeOK, Placed, QueuesOnce
<1>2. /\ IsFiniteSet(Range(queues[c])) /\ Cardinality(Range(queues[c])) = waiting(c)
      /\ waiting(c) \in Nat
  BY <1>1, LengthOfInjective DEF waiting
<1>3. FreshIn(c) \subseteq Range(queues[c])
  BY DEF FreshIn
<1>4. IsFiniteSet(pending)
  <2>1. IsFiniteSet(Jobs)
    BY ConfigAssumption, FS_Interval DEF Jobs
  <2> QED
    BY <2>1, FS_Subset DEF Typed, TypeOK
<1>5. PendingIn(c) \subseteq pending
  BY DEF PendingIn
<1>6. Range(queues[c]) \subseteq PendingIn(c)
  <2>1. Range(queues[c]) \subseteq pending
    BY DEF Placed, PendingPlaced, Queued
  <2>2. \A j \in Range(queues[c]) : job[j].queue = c
    BY <2>1 DEF Typed, JobsExist, TypeOK
  <2> QED
    BY <2>1, <2>2 DEF PendingIn
<1>7. /\ IsFiniteSet(FreshIn(c)) /\ Cardinality(FreshIn(c)) <= waiting(c)
      /\ IsFiniteSet(PendingIn(c)) /\ waiting(c) <= Cardinality(PendingIn(c))
  BY <1>2, <1>3, <1>4, <1>5, <1>6, FS_Subset
<1> QED
  BY <1>2, <1>7, FS_CardinalityType

LEMMA DepthsGenerate ==
  ASSUME Settled, Settled', DepthsBounded, NEW j \in Jobs, NEW r \in Requests, Generate(j, r),
         NEW c \in Class
  PROVE  /\ Cardinality(FreshIn(c))' <= max_depth[c]
         /\ Cardinality(PendingIn(c))' <= max_depth[c] + NUM_GPUS * MAX_BATCH
<1> USE DEF Settled
<1>1. /\ queues' = [queues EXCEPT ![r.queue] = Append(queues[r.queue], j)]
      /\ pending' = pending \cup {j}
      /\ job' = [job EXCEPT ![j] = NewJob(r)]
      /\ job[j] = None
      /\ Len(queues[r.queue]) < max_depth[r.queue]
      /\ r.queue \in Class
  BY ConfigAssumption DEF Generate, Admit, Admissible
<1>2. /\ \A k \in Jobs : k # j => job'[k] = job[k]
      /\ job'[j].queue = r.queue
  BY <1>1 DEF Typed, TypeOK, SchedTypeOK, NewJob
<1>3. j \notin pending /\ pending \subseteq Jobs
  BY <1>1 DEF Typed, JobsExist, TypeOK
<1>4. CASE c # r.queue
  <2>1. queues'[c] = queues[c]
    BY <1>1, <1>4 DEF Typed, TypeOK, SchedTypeOK
  <2>2. Range(queues[c]) \subseteq pending
    BY DEF Placed, PendingPlaced, Queued
  <2>3. FreshIn(c)' = FreshIn(c)
    BY <1>2, <1>3, <2>1, <2>2 DEF FreshIn
  <2>4. PendingIn(c)' = PendingIn(c)
    BY <1>1, <1>2, <1>3, <1>4 DEF PendingIn
  <2> QED
    BY <2>3, <2>4 DEF DepthsBounded
<1>5. CASE c = r.queue
  <2> DEFINE owed == UNION {Range(OwedIds(g)) : g \in GPUs}
  <2>1. queues[c] \in Seq(Jobs) /\ queues'[c] = Append(queues[c], j)
    BY <1>1, <1>5 DEF Typed, TypeOK, SchedTypeOK
  <2>2. FreshIn(c)' \subseteq FreshIn(c) \cup {j}
    <3>1. Range(queues'[c]) = Range(queues[c]) \cup {j}
      BY <2>1, RangeOfAppend
    <3>2. Range(queues[c]) \subseteq pending
      BY DEF Placed, PendingPlaced, Queued
    <3> QED
      BY <1>2, <1>3, <3>1, <3>2 DEF FreshIn
  <2>3. waiting(c) < max_depth[c] /\ waiting(c) \in Nat /\ max_depth[c] \in Nat
    BY <1>1, <1>5, DepthsFinite, ConfigAssumption DEF waiting
  <2>4. Cardinality(FreshIn(c)') <= waiting(c) + 1 /\ Cardinality(FreshIn(c)') \in Nat
    <3> DEFINE more == FreshIn(c) \cup {j}
    <3>1. /\ IsFiniteSet(FreshIn(c)) /\ Cardinality(FreshIn(c)) \in Nat
          /\ Cardinality(FreshIn(c)) <= waiting(c)
      BY DepthsFinite
    <3>2. /\ IsFiniteSet(more) /\ Cardinality(more) \in Nat
          /\ Cardinality(more) <= Cardinality(FreshIn(c)) + 1
      <4>1. /\ IsFiniteSet(more)
            /\ Cardinality(more) = IF j \in FreshIn(c) THEN Cardinality(FreshIn(c))
                                   ELSE Cardinality(FreshIn(c)) + 1
        BY <3>1, FS_AddElement
      <4> HIDE DEF more
      <4> QED
        BY <3>1, <4>1
    <3> HIDE DEF more
    <3>3. IsFiniteSet(FreshIn(c)') /\ Cardinality(FreshIn(c)') <= Cardinality(more)
      <4>1. FreshIn(c)' \subseteq more
        BY <2>2 DEF more
      <4> QED
        BY <3>2, <4>1, FS_Subset
    <3>4. Cardinality(FreshIn(c)') \in Nat
      BY <3>3, FS_CardinalityType
    <3> QED
      BY <2>3, <3>1, <3>2, <3>3, <3>4
  <2>5. PendingIn(c) \subseteq Range(queues[c]) \cup owed
    <3>1. pending = Queued \cup owed
      BY DEF Placed, PendingPlaced
    <3>2. \A k \in Queued : job[k].queue = c => k \in Range(queues[c])
      <4> SUFFICES ASSUME NEW k \in Queued, job[k].queue = c PROVE k \in Range(queues[c])
        OBVIOUS
      <4>1. PICK d \in Class : k \in Range(queues[d])
        BY DEF Queued
      <4>2. k \in Jobs
        BY <1>3, <3>1
      <4>3. d = c
        BY <4>1, <4>2 DEF Typed, JobsExist
      <4> QED
        BY <4>1, <4>3
    <3> QED
      BY <3>1, <3>2 DEF PendingIn
  <2>6. Cardinality(PendingIn(c)) <= waiting(c) + NUM_GPUS * MAX_BATCH
    <3>1. /\ IsFiniteSet(owed) /\ Cardinality(owed) \in Nat
          /\ Cardinality(owed) <= NUM_GPUS * MAX_BATCH
      BY OwedByAll DEF Placed
    <3>2. /\ IsFiniteSet(Range(queues[c])) /\ Cardinality(Range(queues[c])) = waiting(c)
          /\ Cardinality(PendingIn(c)) \in Nat
      BY DepthsFinite
    <3> DEFINE both == Range(queues[c]) \cup owed
               common == Range(queues[c]) \cap owed
    <3> HIDE DEF owed
    <3>3. /\ IsFiniteSet(both)
          /\ Cardinality(both) = waiting(c) + Cardinality(owed) - Cardinality(common)
      BY <3>1, <3>2, FS_Union
    <3>4. Cardinality(common) \in Nat
      BY <3>2, FS_Subset, FS_CardinalityType
    <3>5. Cardinality(PendingIn(c)) <= Cardinality(both)
      BY <2>5, <3>3, FS_Subset
    <3>6. NUM_GPUS * MAX_BATCH \in Nat
      BY ConfigAssumption
    <3> HIDE DEF both, common
    <3> QED
      BY <2>3, <3>1, <3>2, <3>3, <3>4, <3>5, <3>6
  <2>7. PendingIn(c)' = PendingIn(c) \cup {j} /\ j \notin PendingIn(c)
    BY <1>1, <1>2, <1>3, <1>5 DEF PendingIn
  <2>8. Cardinality(PendingIn(c)') = Cardinality(PendingIn(c)) + 1
    BY <2>7, DepthsFinite, FS_AddElement
  <2>9. Cardinality(PendingIn(c)) \in Nat /\ NUM_GPUS * MAX_BATCH \in Nat
    BY DepthsFinite, ConfigAssumption
  <2> QED
    BY <2>3, <2>4, <2>6, <2>8, <2>9
<1> QED
  BY <1>4, <1>5

\* Any other step adds no new job to a queue and nothing to "pending".
LEMMA DepthsOther ==
  ASSUME Settled, Settled', DepthsBounded, [Next]_vars,
         ~\E j \in Jobs, r \in Requests : Generate(j, r), NEW c \in Class
  PROVE  FreshIn(c)' \subseteq FreshIn(c) /\ PendingIn(c)' \subseteq PendingIn(c)
<1> USE DEF Settled
<1>1. Range(queues[c]) \subseteq Jobs /\ Range(queues'[c]) \subseteq Jobs
  <2>1. queues[c] \in Seq(Jobs) /\ queues'[c] \in Seq(Jobs)
    BY DEF Typed, TypeOK, SchedTypeOK
  <2> QED
    BY <2>1, RangeOfSeq
<1>2. pending' \subseteq pending
  <2>1. CASE \E g \in GPUs : OnFinished(g)
    BY <2>1 DEF OnFinished, clientVars
  <2>2. CASE \/ \E r \in Requests : Reject(r)
             \/ \E j \in Jobs : Cancel(j) \/ Respond(j) \/ TimerFire(j)
             \/ \E g \in GPUs : OnPreempted(g)
             \/ DispatcherStep \/ Age \/ Idle \/ UNCHANGED vars
             \/ \E g \in GPUs : (WorkerStep(g) \/ BatchError(g)) /\ UNCHANGED gatewayVars
    BY <2>2 DEF Reject, Cancel, Respond, TimerFire, OnPreempted, DispatcherStep, Wake,
                DispatchBatch, HoldBatch, FillDone, Evict, Age, Idle, vars, gatewayVars,
                clientVars
  <2> QED
    BY <2>1, <2>2 DEF Next, Client
<1>3. PendingIn(c)' \subseteq PendingIn(c)
  <2>1. \A k \in pending : SameIdentity(k)
    BY JobsKeepIdentity DEF Typed, TypeOK, JobsExist
  <2> QED
    BY <1>2, <2>1 DEF PendingIn, SameIdentity, SameRequest
<1>4. \A j \in Range(queues'[c]) : job'[j].resume_state = None => j \in Range(queues[c])
  <2>1. CASE \E g \in GPUs : OnPreempted(g)
    <3>1. PICK g \in GPUs : OnPreempted(g)
      BY <2>1
    <3> DEFINE rid == Head(response_q[g]).request_id
               d == job[rid].queue
               front == <<rid>>
    <3>2. rid \in Jobs /\ rid \in pending /\ job'[rid].resume_state # None
      BY <3>1, CheckpointedJob
    <3>3. queues' = [queues EXCEPT ![d] = front \o queues[d]]
      BY <3>1, <3>2 DEF OnPreempted, RequeuePreempted
    <3>4. d \in Class
      BY <3>2 DEF Typed, TypeOK, SchedTypeOK, JobsExist, Job
    <3>5. queues'[c] = queues[c] \/ queues'[c] = front \o queues[c]
      BY <3>3, <3>4 DEF Typed, TypeOK, SchedTypeOK
    <3>6. Range(front \o queues[c]) = {rid} \cup Range(queues[c])
      <4>1. front \in Seq(Jobs) /\ queues[c] \in Seq(Jobs) /\ Range(front) = {rid}
        BY <3>2 DEF Typed, TypeOK, SchedTypeOK, Range
      <4> HIDE DEF front
      <4>2. Range(front \o queues[c]) = Range(front) \cup Range(queues[c])
        BY <4>1, RangeConcatenation, Zenon
      <4> QED
        BY <4>1, <4>2
    <3> HIDE DEF rid, front
    <3> QED
      BY <3>2, <3>5, <3>6
  <2>2. CASE \E h \in Jobs, g \in GPUs : DispatchBatch(h, g)
    <3>1. PICK h \in Jobs : h \in Queued /\ Take(h)
      BY <2>2 DEF DispatchBatch
    <3>2. /\ job[h].queue \in Class
          /\ Range(RestOf(h)) \subseteq Range(queues[job[h].queue])
      BY <3>1, SelectedGroup
    <3> QED
      BY <3>1, <3>2 DEF Take, Typed, TypeOK, SchedTypeOK
  <2>3. CASE \E h \in Jobs : HoldBatch(h)
    <3>1. PICK h \in Jobs : h \in Queued /\ TakeAndRequeue(h)
      BY <2>3 DEF HoldBatch
    <3> DEFINE q == GroupOf(h) \o RestOf(h)
    <3>2. /\ job[h].queue \in Class
          /\ GroupOf(h) \in Seq(Jobs) /\ RestOf(h) \in Seq(Jobs)
          /\ Range(GroupOf(h)) \cup Range(RestOf(h)) = Range(queues[job[h].queue])
      BY <3>1, SelectedGroup
    <3>3. Range(q) = Range(queues[job[h].queue])
      <4>1. GroupOf(h) \in Seq(Jobs) /\ RestOf(h) \in Seq(Jobs)
        BY <3>2
      <4>2. Range(q) = Range(GroupOf(h)) \cup Range(RestOf(h))
        BY <4>1, RangeConcatenation, Zenon
      <4> QED
        BY <3>2, <4>2
    <3>4. queues' = [queues EXCEPT ![job[h].queue] = q]
      BY <3>1 DEF TakeAndRequeue
    <3> HIDE DEF q
    <3> QED
      BY <3>2, <3>3, <3>4 DEF Typed, TypeOK, SchedTypeOK
  <2>4. CASE \/ \E r \in Requests : Reject(r)
             \/ \E j \in Jobs : Cancel(j) \/ Respond(j) \/ TimerFire(j)
             \/ \E g \in GPUs : OnFinished(g)
             \/ Wake \/ FillDone \/ Evict \/ Age \/ Idle \/ UNCHANGED vars
             \/ \E g \in GPUs : (WorkerStep(g) \/ BatchError(g)) /\ UNCHANGED gatewayVars
    <3>1. UNCHANGED queues
      BY <2>4 DEF Reject, Cancel, Respond, TimerFire, OnFinished, Wake, FillDone, Evict, Age,
                  Idle, vars, schedVars, gatewayVars
    <3> QED
      BY <3>1
  <2> QED
    BY <2>1, <2>2, <2>3, <2>4 DEF Next, Client, DispatcherStep
<1>5. ASSUME NEW j \in FreshIn(c)' PROVE j \in FreshIn(c)
  <2>1. j \in Range(queues'[c]) /\ job'[j].resume_state = None /\ j \in Jobs
    BY <1>1 DEF FreshIn
  <2>2. j \in Range(queues[c]) /\ job[j] # None
    BY <1>4, <2>1 DEF Typed, JobsExist
  <2>3. ~Checkpointed(j)
    BY <2>1, CheckpointedJob DEF Checkpointed
  <2>4. job[j].resume_state = None
    BY <2>1, <2>2, <2>3, JobsKeepProgress DEF SameProgress
  <2> QED
    BY <2>2, <2>4 DEF FreshIn
<1> QED
  BY <1>3, <1>5

LEMMA DepthsNext ==
  ASSUME Settled, Settled', DepthsBounded, [Next]_vars
  PROVE  DepthsBounded'
<1>1. CASE \E j \in Jobs, r \in Requests : Generate(j, r)
  BY <1>1, DepthsGenerate DEF DepthsBounded
<1>2. CASE ~\E j \in Jobs, r \in Requests : Generate(j, r)
  <2> SUFFICES ASSUME NEW c \in Class
               PROVE  /\ Cardinality(FreshIn(c))' <= max_depth[c]
                      /\ Cardinality(PendingIn(c))' <= max_depth[c] + NUM_GPUS * MAX_BATCH
    BY DEF DepthsBounded
  <2>1. FreshIn(c)' \subseteq FreshIn(c) /\ PendingIn(c)' \subseteq PendingIn(c)
    BY <1>2, DepthsOther
  <2>2. /\ IsFiniteSet(FreshIn(c)') /\ Cardinality(FreshIn(c)') <= Cardinality(FreshIn(c))
        /\ IsFiniteSet(PendingIn(c)') /\ Cardinality(PendingIn(c)') <= Cardinality(PendingIn(c))
    BY <2>1, DepthsFinite, FS_Subset
  <2>3. /\ Cardinality(FreshIn(c)') \in Nat /\ Cardinality(FreshIn(c)) \in Nat
        /\ Cardinality(PendingIn(c)') \in Nat /\ Cardinality(PendingIn(c)) \in Nat
        /\ max_depth[c] \in Nat /\ NUM_GPUS * MAX_BATCH \in Nat
    BY <2>2, DepthsFinite, FS_CardinalityType, ConfigAssumption
  <2> QED
    BY <2>2, <2>3 DEF DepthsBounded
<1> QED
  BY <1>1, <1>2

\* No class ever queues more new jobs than its depth cap, nor more jobs in all
\* than the cap and one full batch per GPU, though a requeue skips the check
\* (scheduling.py, admit and requeue): for every cap, batch size and GPU count.
THEOREM DepthAlwaysBounded == Spec => []DepthBound
<1>1. Init => DepthsBounded
  <2> SUFFICES ASSUME Init, NEW c \in Class
               PROVE  /\ Cardinality(FreshIn(c)) <= max_depth[c]
                      /\ Cardinality(PendingIn(c)) <= max_depth[c] + NUM_GPUS * MAX_BATCH
    BY DEF DepthsBounded
  <2>1. FreshIn(c) = {} /\ PendingIn(c) = {}
    BY DEF Init, SchedInit, FreshIn, PendingIn, Range
  <2>2. max_depth[c] \in Nat /\ NUM_GPUS * MAX_BATCH \in Nat
    BY ConfigAssumption
  <2> QED
    BY <2>1, <2>2, FS_EmptySet
<1>2. Settled /\ Settled' /\ DepthsBounded /\ [Next]_vars => DepthsBounded'
  BY DepthsNext
<1>3. Settled /\ DepthsBounded => DepthBound
  <2> SUFFICES ASSUME Settled, DepthsBounded, NEW c \in Class
               PROVE  /\ Cardinality(FreshIn(c)) <= max_depth[c]
                      /\ waiting(c) <= max_depth[c] + NUM_GPUS * MAX_BATCH
    BY DEF DepthBound, FreshIn
  <2>1. Cardinality(PendingIn(c)) \in Nat /\ waiting(c) \in Nat
        /\ max_depth[c] \in Nat /\ NUM_GPUS * MAX_BATCH \in Nat
        /\ waiting(c) <= Cardinality(PendingIn(c))
    BY DepthsFinite, ConfigAssumption
  <2> QED
    BY <2>1 DEF DepthsBounded
<1> QED
  BY SettledAlways, <1>1, <1>2, <1>3, PTL DEF Spec

-----------------------------------------------------------------------------
(* What the views show *)

\* The group of a GPU is never larger than a batch, also while its messages are
\* being handled.
GroupsFit ==
  \A g \in GPUs : busy[g] # None =>
    IsFiniteSet(busy[g].jobs) /\ Cardinality(busy[g].jobs) <= MAX_BATCH

LEMMA OwedCounted ==
  ASSUME Settled, NEW g \in GPUs
  PROVE  /\ IsFiniteSet(Range(OwedIds(g)))
         /\ Cardinality(Range(OwedIds(g))) = Len(Owed(g))
         /\ Len(Owed(g)) \in Nat /\ Len(Owed(g)) <= MAX_BATCH
<1>1. OwedIds(g) \in Seq(Jobs) /\ IsInjective(OwedIds(g)) /\ Len(OwedIds(g)) <= MAX_BATCH
      /\ DOMAIN OwedIds(g) = 1..Len(Owed(g)) /\ Len(Owed(g)) \in Nat
  BY OwedTyped DEF Settled, Placed, OwedOnce
<1> HIDE DEF OwedIds, Owed
<1>2. Len(OwedIds(g)) = Len(Owed(g))
  BY <1>1, LenProperties
<1> QED
  BY <1>1, <1>2, LengthOfInjective

\* Of a batch that is on its way or in hand the group has the jobs that are owed.
LEMMA GroupOwed ==
  ASSUME Settled, NEW g \in GPUs, Sent(g) \/ Executing(g)
  PROVE  busy[g].jobs = Range(OwedIds(g)) /\ Owed(g) # <<>>
<1>1. Range(OwedIds(g)) = {o.request_id : o \in Range(Owed(g))}
  BY OwedTyped DEF Settled
<1>2. CASE Sent(g)
  <2>1. request_q[g] # <<>>
    <3>1. Len(request_q[g]) = 1 /\ Len(<<>>) = 0
      BY <1>2 DEF Sent
    <3> QED
      BY <3>1
  <2> QED
    BY <1>1, <1>2, <2>1 DEF Sent, Describes, BatchIds, Owed
<1>3. CASE Executing(g)
  BY <1>1, <1>3 DEF Executing, Describes, BatchIds, Owed
<1> QED
  BY <1>2, <1>3

LEMMA GroupsFitNext ==
  ASSUME Settled, Settled', GroupsFit, [Next]_vars
  PROVE  GroupsFit'
<1> USE DEF Settled
<1>1. CASE \E g \in GPUs : OnPreempted(g) \/ OnFinished(g)
  <2>1. PICK g \in GPUs : TakeResponse(g)
    BY <1>1 DEF OnPreempted, OnFinished
  <2>2. busy' = busy \/ (busy[g] # None /\ busy' = [busy EXCEPT ![g] = Acknowledged(busy[g])])
    BY <2>1 DEF TakeResponse, CountResponse
  <2>3. busy[g] # None => Acknowledged(busy[g]) = None \/ Acknowledged(busy[g]).jobs = busy[g].jobs
    BY DEF Acknowledged, Typed, TypeOK, Group
  <2> QED
    BY <2>2, <2>3 DEF GroupsFit, Typed, TypeOK
<1>2. CASE \E h \in Jobs, g \in GPUs : DispatchBatch(h, g)
  <2>1. PICK h \in Jobs, g \in GPUs : DispatchBatch(h, g)
    BY <1>2
  <2>2. Sent(g)' /\ \A k \in GPUs : k # g => busy'[k] = busy[k]
    BY <2>1, AccountingDispatch DEF GroupAccounting, Accounted, LeftAlone
  <2>3. (busy[g].jobs = Range(OwedIds(g)))'
    BY <2>2, GroupOwed, PTL
  <2>4. (/\ IsFiniteSet(Range(OwedIds(g)))
         /\ Cardinality(Range(OwedIds(g))) = Len(Owed(g))
         /\ Len(Owed(g)) \in Nat /\ Len(Owed(g)) <= MAX_BATCH)'
    BY OwedCounted, PTL
  <2> QED
    BY <2>2, <2>3, <2>4 DEF GroupsFit
<1>3. CASE \/ Client
           \/ \E j \in Jobs : Respond(j) \/ TimerFire(j)
           \/ \E h \in Jobs : HoldBatch(h)
           \/ Wake \/ FillDone \/ Evict \/ Age \/ Idle \/ UNCHANGED vars
           \/ \E g \in GPUs : (WorkerStep(g) \/ BatchError(g)) /\ UNCHANGED gatewayVars
  <2>1. UNCHANGED busy
    BY <1>3 DEF Client, Generate, Reject, Cancel, Respond, TimerFire, HoldBatch, Wake, FillDone,
                Evict, Age, Idle, vars, gatewayVars
  <2> QED
    BY <2>1 DEF GroupsFit
<1> QED
  BY <1>1, <1>2, <1>3 DEF Next, DispatcherStep

\* What a GPU is shown to have against what it still owes.
LEMMA ShownOwed ==
  ASSUME Settled, GroupsFit, NEW g \in GPUs
  PROVE  /\ BusySizes[g] \in Nat
         /\ Cardinality(Range(OwedIds(g))) <= BusySizes[g]
         /\ BusySizes[g] <= Cardinality(Range(OwedIds(g))) + (MAX_BATCH - 1)
<1> DEFINE ids == Range(OwedIds(g))
<1>1. /\ IsFiniteSet(ids) /\ Cardinality(ids) \in Nat /\ Cardinality(ids) = Len(Owed(g))
      /\ Cardinality(ids) <= MAX_BATCH
  BY OwedCounted
<1>2. MAX_BATCH \in Nat /\ MAX_BATCH >= 1
  BY ConfigAssumption
<1>3. CASE busy[g] = None
  <2>1. BusySizes[g] = 0
    BY <1>3 DEF BusySizes
  <2>2. Owed(g) = <<>>
    BY <1>3 DEF Settled, GroupAccounting, Unused, Owed
  <2>3. Len(Owed(g)) = 0
    BY <2>2
  <2> HIDE DEF ids
  <2> QED
    BY <1>1, <1>2, <2>1, <2>3 DEF ids
<1>4. CASE busy[g] # None
  <2>1. BusySizes[g] = Cardinality(busy[g].jobs)
    BY <1>4 DEF BusySizes
  <2>2. IsFiniteSet(busy[g].jobs) /\ Cardinality(busy[g].jobs) <= MAX_BATCH
        /\ Cardinality(busy[g].jobs) \in Nat
    BY <1>4, FS_CardinalityType DEF GroupsFit
  <2>3. ids \subseteq busy[g].jobs /\ Owed(g) # <<>>
    <3>1. CASE Sent(g) \/ Executing(g)
      BY <3>1, GroupOwed
    <3>2. CASE Answering(g)
      <4>1. ids = {o.request_id : o \in Range(Owed(g))}
        BY OwedTyped DEF Settled
      <4> QED
        BY <3>2, <4>1 DEF Answering, AnsweringIds, Owed
    <3> QED
      BY <1>4, <3>1, <3>2 DEF Settled, GroupAccounting
  <2>4. Cardinality(ids) <= Cardinality(busy[g].jobs)
    BY <2>2, <2>3, FS_Subset
  <2>5. Len(Owed(g)) # 0
    <3>1. DOMAIN Owed(g) = 1..Len(Owed(g)) /\ (\E S : Owed(g) \in Seq(S))
      <4>1. request_q[g] \in Seq(Batch) /\ response_q[g] \in Seq(Response)
        BY DEF Settled, Typed, TypeOK, WorkerTypeOK
      <4>2. request_q[g] # <<>> => Head(request_q[g]).jobs \in Seq(BatchJob)
        <5>1. request_q[g] # <<>> => Head(request_q[g]) \in Batch
          BY <4>1, HeadTailProperties
        <5> QED
          BY <5>1 DEF Batch
      <4>3. running[g] # None => running[g].batch.jobs \in Seq(BatchJob)
        BY RunningParts DEF Settled, Typed, TypeOK
      <4> QED
        BY <4>1, <4>2, <4>3, OwedTyped DEF Owed, Settled
    <3> QED
      BY <2>3, <3>1, EmptySeq
  <2>6. Cardinality(ids) >= 1
    BY <1>1, <2>5
  <2> HIDE DEF ids
  <2> QED
    BY <1>1, <1>2, <2>1, <2>2, <2>4, <2>6 DEF ids
<1> QED
  BY <1>3, <1>4

LEMMA ClassFinite == IsFiniteSet(Class)
<1>1. IsFiniteSet({"production"})
  BY FS_Singleton
<1>2. IsFiniteSet({"production"} \cup {"research"})
  BY <1>1, FS_AddElement
<1>3. IsFiniteSet(({"production"} \cup {"research"}) \cup {"benchmark"})
  BY <1>2, FS_AddElement
<1>4. Class = ({"production"} \cup {"research"}) \cup {"benchmark"}
  BY DEF Class
<1> QED
  BY <1>3, <1>4

\* The queues together show the jobs that wait.
LEMMA DepthsShown ==
  ASSUME Settled
  PROVE  /\ IsFiniteSet(Queued)
         /\ SumFunction(depths) = Cardinality(Queued)
<1> DEFINE A == [c \in Class |-> Range(queues[c])]
<1>1. IsFiniteSet(Class)
  BY ClassFinite
<1>2. \A c \in Class : IsFiniteSet(A[c]) /\ Cardinality(A[c]) = waiting(c)
  BY DepthsFinite
<1>3. \A c, d \in Class : c # d => A[c] \cap A[d] = {}
  <2>1. \A c \in Class : \A j \in Range(queues[c]) : job[j].queue = c
    <3>1. \A c \in Class : Range(queues[c]) \subseteq Jobs
      BY RangeOfSeq DEF Settled, Typed, TypeOK, SchedTypeOK
    <3> QED
      BY <3>1 DEF Settled, Typed, JobsExist
  <2> QED
    BY <2>1
<1>4. UNION {A[c] : c \in Class} = Queued
  BY DEF Queued
<1>5. depths = [c \in Class |-> Cardinality(A[c])]
  BY <1>2 DEF depths
<1> HIDE DEF A
<1>6. LET all == UNION {A[c] : c \in Class}
      IN  IsFiniteSet(all) /\ SumFunction([c \in Class |-> Cardinality(A[c])]) = Cardinality(all)
  <2>1. \A c \in Class : IsFiniteSet(A[c])
    BY <1>2
  <2> QED
    BY <1>1, <1>3, <2>1, SumOfSizes
<1> QED
  BY <1>4, <1>5, <1>6

\* The views never hide a request that has not ended, and show at most all but
\* one of a batch too many for each GPU (gateway.py, _sampler and GET /stats):
\* for every batch size and number of GPUs.
THEOREM ViewsAlwaysCover == Spec => []ViewsCover
<1>1. Init => GroupsFit
  BY DEF Init, GroupsFit
<1>2. Settled /\ Settled' /\ GroupsFit /\ [Next]_vars => GroupsFit'
  BY GroupsFitNext
<1>3. Settled /\ GroupsFit => ViewsCover
  <2> SUFFICES ASSUME Settled, GroupsFit PROVE ViewsCover
    OBVIOUS
  <2> DEFINE ids == [g \in GPUs |-> Range(OwedIds(g))]
             owing == [g \in GPUs |-> Cardinality(ids[g])]
             owed == UNION {ids[g] : g \in GPUs}
  <2>1. IsFiniteSet(GPUs) /\ Cardinality(GPUs) = NUM_GPUS
    BY ConfigAssumption, FS_Interval DEF GPUs
  <2>2. \A g \in GPUs : IsFiniteSet(ids[g])
    BY OwedCounted
  <2>3. \A g, h \in GPUs : g # h => ids[g] \cap ids[h] = {}
    BY DEF Settled, Placed, PlacesApart
  <2>4. pending = Queued \cup owed
    <3>1. {ids[g] : g \in GPUs} = {Range(OwedIds(g)) : g \in GPUs}
      OBVIOUS
    <3> QED
      BY <3>1 DEF Settled, Placed, PendingPlaced
  <2>5. Queued \cap owed = {}
    BY DEF Settled, Placed, PlacesApart
  <2>6. \A g \in GPUs : ids[g] = Range(OwedIds(g)) /\ owing[g] = Cardinality(ids[g])
    OBVIOUS
  <2>7. IsFiniteSet(owed) /\ SumFunction(owing) = Cardinality(owed)
    <3> HIDE DEF ids
    <3> QED
      BY <2>1, <2>2, <2>3, SumOfSizes
  <2>8. owing \in [GPUs -> Int]
    BY <2>2, FS_CardinalityType
  <2> HIDE DEF ids, owing
  <2>9. BusySizes \in [GPUs -> Int]
    BY ShownOwed DEF BusySizes
  <2>10. MAX_BATCH - 1 \in Nat
    BY ConfigAssumption
  <2>11. \A g \in GPUs : owing[g] <= BusySizes[g] /\ BusySizes[g] <= owing[g] + (MAX_BATCH - 1)
    BY <2>6, ShownOwed
  <2>12. /\ SumFunction(BusySizes) \in Int
         /\ SumFunction(owing) <= SumFunction(BusySizes)
         /\ SumFunction(BusySizes) <= SumFunction(owing) + NUM_GPUS * (MAX_BATCH - 1)
    BY <2>1, <2>8, <2>9, <2>10, <2>11, SumBetween
  <2>13. IsFiniteSet(Queued) /\ SumFunction(depths) = Cardinality(Queued)
    BY DepthsShown
  <2> HIDE DEF owed
  <2>14. Cardinality(pending) = Cardinality(Queued) + Cardinality(owed)
         /\ Cardinality(Queued) \in Nat /\ Cardinality(owed) \in Nat
    <3>1. Cardinality(Queued \cap owed) = 0
      BY <2>5, FS_EmptySet
    <3>2. Cardinality(Queued \cup owed)
            = Cardinality(Queued) + Cardinality(owed) - Cardinality(Queued \cap owed)
      BY <2>7, <2>13, FS_Union
    <3>3. Cardinality(Queued) \in Nat /\ Cardinality(owed) \in Nat
      BY <2>7, <2>13, FS_CardinalityType
    <3> QED
      BY <2>4, <3>1, <3>2, <3>3
  <2>15. NUM_GPUS * (MAX_BATCH - 1) \in Int
    BY ConfigAssumption
  <2> QED
    BY <2>7, <2>12, <2>13, <2>14, <2>15 DEF ViewsCover
<1> QED
  BY SettledAlways, <1>1, <1>2, <1>3, PTL DEF Spec
=============================================================================
