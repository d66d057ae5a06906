---------------------------- MODULE StartupProofs ---------------------------
(***************************************************************************)
(* What a gateway starts with, for any number of GPUs and any table: the   *)
(* workers it waits for, of which none is missing when it serves, and the  *)
(* table its estimator loads, which is whole and fitted by the best lines. *)
(***************************************************************************)
EXTENDS Startup, Calibration, SumProofs

-----------------------------------------------------------------------------
(* The workers *)


\* NUM_GPUS reports of different GPUs are the reports of all of them.
LEMMA AllReported ==
  ASSUME NEW S \in SUBSET GPUs
  PROVE  Cardinality(S) < NUM_GPUS \/ S = GPUs
<1>1. IsFiniteSet(GPUs) /\ Cardinality(GPUs) = NUM_GPUS
  BY StartupAssumption, FS_Interval DEF GPUs
<1>2. IsFiniteSet(S) /\ Cardinality(S) <= Cardinality(GPUs)
           /\ (Cardinality(S) = Cardinality(GPUs) => S = GPUs)
  BY <1>1, FS_Subset
<1>3. Cardinality(S) \in Nat
  BY <1>2, FS_CardinalityType
<1> QED
  BY <1>1, <1>2, <1>3, StartupAssumption

\* Before any worker was started.
LEMMA ReportsInit == StartupInit => ReportsAreTrue
BY DEF StartupInit, ReportsAreTrue, StartupTypeOK, Test

\* One step per action; only TestReady needs to count the reports.
LEMMA ReportsStep == ReportsAreTrue /\ [StartupNext]_startupVars => ReportsAreTrue'
<1> SUFFICES ASSUME ReportsAreTrue, [StartupNext]_startupVars PROVE ReportsAreTrue'
  OBVIOUS
<1> USE DEF ReportsAreTrue, StartupTypeOK, Test, Loaded
<1>1. CASE StartPolling
  BY <1>1 DEF StartPolling
<1>2. CASE TestReady
  <2>1. Cardinality(ready) < NUM_GPUS \/ ready = GPUs
    BY AllReported
  <2>2. phase' = "serving" => ready = GPUs
    BY <1>2, <2>1 DEF TestReady
  <2> QED
    BY <1>2, <2>2 DEF TestReady
<1>3. CASE TestDeadline
  BY <1>3 DEF TestDeadline
<1>4. CASE TestAlive
  BY <1>4 DEF TestAlive
<1>5. CASE TimePasses
  BY <1>5 DEF TimePasses
<1>6. ASSUME NEW g \in GPUs, StartWorker(g) PROVE ReportsAreTrue'
  BY <1>6 DEF StartWorker
<1>7. ASSUME NEW g \in GPUs, ReportReady(g) PROVE ReportsAreTrue'
  BY <1>7 DEF ReportReady
<1>8. ASSUME NEW g \in GPUs, Die(g) PROVE ReportsAreTrue'
  BY <1>8 DEF Die
<1>9. ASSUME NEW g \in GPUs, Collect(g) PROVE ReportsAreTrue'
  BY <1>9 DEF Collect
<1>10. CASE UNCHANGED startupVars
  BY <1>10 DEF startupVars
<1> QED
  BY <1>1, <1>2, <1>3, <1>4, <1>5, <1>6, <1>7, <1>8, <1>9, <1>10 DEF StartupNext, Poll

\* For any number of GPUs, the gateway serves only when every worker has
\* loaded its model and warmed up: none that still loads and none that died
\* while it did (lifespan's loop over state["ready"]).
THEOREM NeverServesLoading == StartupSpec => []ServesOnlyLoaded
<1>1. ReportsAreTrue => ServesOnlyLoaded
  BY DEF ReportsAreTrue, ServesOnlyLoaded
<1> QED
  BY <1>1, ReportsInit, ReportsStep, PTL DEF StartupSpec

-----------------------------------------------------------------------------
(* The best line *)

\* What _least_squares computes from its sums: n times the variance, n times the
\* covariance, n times the variance times the mean of what the line leaves at zero.
Fitted(n, sx, sy, sxx, sxy, v, c, b) ==
  /\ n \in Int /\ sx \in Int /\ sy \in Int /\ sxx \in Int /\ sxy \in Int
  /\ v \in Int /\ c \in Int /\ b \in Int
  /\ v = n * sxx - sx * sx
  /\ c = n * sxy - sx * sy
  /\ b = sy * v - c * sx

\* The normal equations.
LEMMA NothingUnexplained ==
  ASSUME NEW n, NEW sx, NEW sy, NEW sxx, NEW sxy, NEW v, NEW c, NEW b,
         Fitted(n, sx, sy, sxx, sxy, v, c, b)
  PROVE  /\ 1 * ((n * v) * sy + (0 - n * c) * sx) + 1 * (n * (0 - b)) = 0
         /\ 1 * ((n * v) * sxy + (0 - n * c) * sxx) + (0 - b) * sx = 0
<1> USE DEF Fitted
<1>1. (n * v) * sy = n * (sy * v) /\ (0 - n * c) * sx = 0 - n * (c * sx)
  OBVIOUS
<1>2. n * (0 - b) = 0 - n * (sy * v) + n * (c * sx)
  OBVIOUS
<1>3. 1 * ((n * v) * sy + (0 - n * c) * sx) + 1 * (n * (0 - b)) = 0
  <2>1. PICK k \in Int, l \in Int : k = n * (sy * v) /\ l = n * (c * sx)
    OBVIOUS
  <2>2. (n * v) * sy = k /\ (0 - n * c) * sx = 0 - l /\ n * (0 - b) = 0 - k + l
    BY <1>1, <1>2, <2>1
  <2> QED
    BY <2>2
<1>4. (n * v) * sxy = v * (n * sxy) /\ (0 - n * c) * sxx = 0 - c * (n * sxx)
  OBVIOUS
<1>5. (0 - b) * sx = 0 - v * (sx * sy) + c * (sx * sx)
  OBVIOUS
<1>6. v * (n * sxy) - v * (sx * sy) = v * c /\ c * (n * sxx) - c * (sx * sx) = c * v
  <2>1. PICK k \in Int, l \in Int : k = n * sxy /\ l = sx * sy
    OBVIOUS
  <2>2. PICK r \in Int, s \in Int : r = n * sxx /\ s = sx * sx
    OBVIOUS
  <2>3. v * k - v * l = v * (k - l) /\ c * r - c * s = c * (r - s)
    OBVIOUS
  <2> QED
    BY <2>1, <2>2, <2>3
<1>7. 1 * ((n * v) * sxy + (0 - n * c) * sxx) + (0 - b) * sx = 0
  <2>1. PICK k \in Int, l \in Int : k = v * (n * sxy) /\ l = v * (sx * sy)
    OBVIOUS
  <2>2. PICK r \in Int, s \in Int : r = c * (n * sxx) /\ s = c * (sx * sx)
    OBVIOUS
  <2>3. (n * v) * sxy = k /\ (0 - n * c) * sxx = 0 - r /\ (0 - b) * sx = 0 - l + s
    BY <1>4, <1>5, <2>1, <2>2
  <2>4. k - l = r - s
    BY <1>6, <2>1, <2>2
  <2> QED
    BY <2>3, <2>4
<1> QED
  BY <1>3, <1>7

\* h is a times f and b times g; the forms of these lemmas are definitions so that
\* their facts can be cited without any arithmetic.
Combined(h, a, f, b, g, D) == \A i \in D : h[i] = a * f[i] + b * g[i]

\* The sum of such a combination (SumLinear).
LEMMA SumCombined ==
  ASSUME NEW D, NEW h, NEW a \in Int, NEW f, NEW b \in Int, NEW g, IsFiniteSet(D),
         f \in [D -> Int], g \in [D -> Int], h \in [D -> Int], Combined(h, a, f, b, g, D)
  PROVE  SumFunction(h) = a * SumFunction(f) + b * SumFunction(g)
BY SumLinear DEF Combined

\* What a line leaves at each point, as a difference or collected.
LeavesAt(D, r, y, k, x, l, m) == \A i \in D : r[i] = (k * y[i] + l * x[i]) + m
Leaves(D, r, n, v, y, c, x, b) == \A i \in D : r[i] = n * (v * y[i] - c * x[i]) - b

ResidualSums(D, r, w, x, y, q, p, k, l, m) ==
  /\ SumFunction(r) = 1 * (k * SumFunction(y) + l * SumFunction(x)) + 1 * (Cardinality(D) * m)
  /\ SumFunction(w) = 1 * (k * SumFunction(p) + l * SumFunction(q)) + m * SumFunction(x)

\* Sums of what a line leaves at each point, plain and weighted by x.
LEMMA SumsOfResiduals ==
  ASSUME NEW D, NEW x, NEW y, NEW q, NEW p, NEW r, NEW w, NEW k \in Int, NEW l \in Int, NEW m \in Int,
         IsFiniteSet(D), x \in [D -> Int], y \in [D -> Int], q \in [D -> Int], p \in [D -> Int],
         r \in [D -> Int], w \in [D -> Int],
         Multiplied(D, q, x, x), Multiplied(D, p, x, y), Multiplied(D, w, r, x),
         LeavesAt(D, r, y, k, x, l, m)
  PROVE  ResidualSums(D, r, w, x, y, q, p, k, l, m)
<1> DEFINE f == [i \in D |-> k * y[i] + l * x[i]]
           g == [i \in D |-> k * p[i] + l * q[i]]
           e == [i \in D |-> m]
<1>1. f \in [D -> Int] /\ g \in [D -> Int] /\ e \in [D -> Int]
  OBVIOUS
<1>2. \A i \in D : f[i] = k * y[i] + l * x[i]
  OBVIOUS
<1>3. \A i \in D : g[i] = k * p[i] + l * q[i]
  OBVIOUS
<1>4. Combined(f, k, y, l, x, D) /\ Combined(g, k, p, l, q, D)
  BY <1>2, <1>3 DEF Combined
<1>5. \A i \in D : e[i] = m
  OBVIOUS
<1>6. Combined(r, 1, f, 1, e, D)
  BY <1>2, <1>5 DEF Combined, LeavesAt
<1>7. Combined(w, 1, g, m, x, D)
  <2> SUFFICES \A i \in D : w[i] = 1 * g[i] + m * x[i]
    BY DEF Combined
  <2> TAKE i \in D
  <2>1. PICK s \in Int, t \in Int : s = x[i] /\ t = y[i]
    OBVIOUS
  <2>2. q[i] = s * s /\ p[i] = s * t /\ w[i] = ((k * t + l * s) + m) * s
    BY <2>1 DEF Multiplied, LeavesAt
  <2>3. ((k * t + l * s) + m) * s = (k * (s * t) + l * (s * s)) + m * s
    OBVIOUS
  <2>4. PICK h \in Int : h = k * (s * t) + l * (s * s)
    OBVIOUS
  <2>5. g[i] = h /\ w[i] = h + m * s
    BY <1>3, <2>2, <2>3, <2>4
  <2> QED
    BY <2>1, <2>5
<1> HIDE DEF f, g, e
<1>8. SumFunction(f) = k * SumFunction(y) + l * SumFunction(x)
  BY <1>4, <1>1, SumCombined
<1>9. SumFunction(g) = k * SumFunction(p) + l * SumFunction(q)
  BY <1>4, <1>1, SumCombined
<1>10. SumFunction(e) = Cardinality(D) * m
  BY <1>1, <1>5, SumOfSame
<1>11. SumFunction(r) = 1 * SumFunction(f) + 1 * SumFunction(e)
  BY <1>1, <1>6, SumCombined
<1>12. SumFunction(w) = 1 * SumFunction(g) + m * SumFunction(x)
  BY <1>1, <1>7, SumCombined
<1> QED
  BY <1>8, <1>9, <1>10, <1>11, <1>12 DEF ResidualSums

\* The line of covariance over variance leaves a remainder at each point; these
\* sum to zero, plain and weighted by x.
LEMMA Residuals ==
  ASSUME NEW D, NEW x, NEW y, NEW q, NEW p, NEW v, NEW c, NEW b, NEW r, NEW w,
         IsFiniteSet(D), x \in [D -> Int], y \in [D -> Int], q \in [D -> Int], p \in [D -> Int],
         Multiplied(D, q, x, x), Multiplied(D, p, x, y), Multiplied(D, w, r, x),
         Fitted(Cardinality(D), SumFunction(x), SumFunction(y), SumFunction(q), SumFunction(p), v, c, b),
         r \in [D -> Int], w \in [D -> Int],
         Leaves(D, r, Cardinality(D), v, y, c, x, b)
  PROVE  SumFunction(r) = 0 /\ SumFunction(w) = 0
<1>1. PICK n : n = Cardinality(D)
  OBVIOUS
<1>2. n \in Int /\ v \in Int /\ c \in Int /\ b \in Int
  BY <1>1 DEF Fitted
<1>3. PICK k \in Int, l \in Int, m \in Int : k = n * v /\ l = 0 - n * c /\ m = 0 - b
  BY <1>2
<1>4. LeavesAt(D, r, y, k, x, l, m)
  <2> SUFFICES \A i \in D : r[i] = (k * y[i] + l * x[i]) + m
    BY DEF LeavesAt
  <2> TAKE i \in D
  <2>1. PICK s \in Int, t \in Int : s = x[i] /\ t = y[i]
    OBVIOUS
  <2>2. r[i] = n * (v * t - c * s) - b
    BY <1>1, <2>1 DEF Leaves
  <2>3. n * (v * t - c * s) = (n * v) * t + (0 - n * c) * s
    BY <1>2
  <2>4. PICK h \in Int : h = k * t + l * s
    OBVIOUS
  <2>5. r[i] = h + m
    BY <1>2, <1>3, <2>2, <2>3, <2>4
  <2> QED
    BY <2>1, <2>4, <2>5
<1>5. ResidualSums(D, r, w, x, y, q, p, k, l, m)
  BY <1>4, SumsOfResiduals
<1>6. /\ 1 * ((n * v) * SumFunction(y) + (0 - n * c) * SumFunction(x)) + 1 * (n * (0 - b)) = 0
      /\ 1 * ((n * v) * SumFunction(p) + (0 - n * c) * SumFunction(q)) + (0 - b) * SumFunction(x) = 0
  BY <1>1, NothingUnexplained
<1> QED
  BY <1>1, <1>3, <1>5, <1>6 DEF ResidualSums

\* The positions of a cell are some of the table's.
LEMMA PositionsFinite ==
  ASSUME entries \in Seq(Point), NEW key
  PROVE  /\ IsFiniteSet(Positions(key)) /\ Positions(key) \subseteq 1..Len(entries)
         /\ \A i \in Positions(key) : entries[i] \in Point /\ KeyAt(i) = key
<1>1. DOMAIN entries = 1..Len(entries) /\ Len(entries) \in Nat
  OBVIOUS
<1>2. Positions(key) \subseteq 1..Len(entries)
  BY <1>1 DEF Positions
<1>3. IsFiniteSet(Positions(key))
  <2>1. IsFiniteSet(1..Len(entries))
    BY <1>1, FS_Interval
  <2> QED
    BY <1>2, <2>1, FS_Subset
<1> QED
  BY <1>1, <1>2, <1>3 DEF Positions, KeyAt

\* A set with two elements has at least two.
LEMMA TwoApart ==
  ASSUME NEW S, IsFiniteSet(S), NEW i \in S, NEW k \in S, i # k
  PROVE  Cardinality(S) >= 2
<1>1. IsFiniteSet({i}) /\ Cardinality({i}) = 1
  BY FS_Singleton
<1>2. PICK T : T = {i}
  OBVIOUS
<1>3. IsFiniteSet(T \cup {k}) /\ Cardinality(T \cup {k}) = Cardinality(T) + 1
  BY <1>1, <1>2, FS_AddElement
<1>4. T \cup {k} \subseteq S
  BY <1>2
<1>5. Cardinality(T \cup {k}) <= Cardinality(S)
  BY <1>3, <1>4, FS_Subset
<1>6. Cardinality(S) \in Nat
  BY FS_CardinalityType
<1> QED
  BY <1>1, <1>2, <1>3, <1>5, <1>6

\* In every table, of any number of measurements of any cell.
LEMMA TheFitIsBest == entries \in Seq(Point) => FitIsBest
<1> SUFFICES ASSUME entries \in Seq(Point), NEW key \in Keys, NEW I, I = Positions(key),
                    NEW i \in I, NEW k \in I, Xs(I)[i] # Xs(I)[k]
             PROVE  LET n == Cardinality(I)
                        line == Line(key)
                        residual == [h \in I |->
                                       n * (line.slope.den * Ys(I)[h] - line.slope.num * Xs(I)[h])
                                         - line.intercept.num]
                    IN  SumFunction(residual) = 0 /\ SumFunction(Products(residual, Xs(I))) = 0
  BY DEF FitIsBest
<1>1. PICK n, line, residual :
        /\ n = Cardinality(I) /\ line = Line(key)
        /\ residual = [h \in I |-> n * (line.slope.den * Ys(I)[h] - line.slope.num * Xs(I)[h])
                                      - line.intercept.num]
  OBVIOUS
<1>2. IsFiniteSet(I) /\ \A h \in I : entries[h] \in Point
  BY PositionsFinite
<1>3. PICK x, y : x = Xs(I) /\ y = Ys(I)
  OBVIOUS
<1>4. x \in [I -> Int] /\ y \in [I -> Int]
  <2>1. \A h \in I : entries[h].steps \in Int /\ entries[h].total \in Int
    BY <1>2 DEF Point
  <2> QED
    BY <1>3, <2>1 DEF Xs, Ys
<1>5. PICK q, p : q = Products(x, x) /\ p = Products(x, y)
  OBVIOUS
<1>6. q \in [I -> Int] /\ p \in [I -> Int] /\ Multiplied(I, q, x, x) /\ Multiplied(I, p, x, y)
  BY <1>4, <1>5 DEF Products, Multiplied
<1>7. PICK T, U, V, W : Adds(T, x, I) /\ Adds(U, y, I) /\ Adds(V, q, I) /\ Adds(W, p, I)
  BY <1>2, <1>4, <1>6, SumAdds
<1>8. PICK sx, sy, sxx, sxy : /\ sx = SumFunction(x) /\ sy = SumFunction(y)
                              /\ sxx = SumFunction(q) /\ sxy = SumFunction(p)
  OBVIOUS
<1>9. sx \in Int /\ sy \in Int /\ sxx \in Int /\ sxy \in Int /\ n \in Nat
  BY <1>1, <1>2, <1>7, <1>8, FS_CardinalityType DEF Adds
<1>10. PICK v \in Int, c \in Int : v = n * sxx - sx * sx /\ c = n * sxy - sx * sy
  BY <1>9
<1>11. PICK b \in Int : b = sy * v - c * sx
  BY <1>9
<1>12. Fitted(Cardinality(I), SumFunction(x), SumFunction(y), SumFunction(q), SumFunction(p), v, c, b)
  <2>1. Fitted(n, sx, sy, sxx, sxy, v, c, b)
    BY <1>9, <1>10, <1>11 DEF Fitted
  <2> QED
    BY <1>1, <1>8, <2>1
<1>13. v # 0
  <2>1. x[i] # x[k]
    BY <1>3
  <2>2. I # {}
    OBVIOUS
  <2>3. SpreadOf(v, I, x, q)
    BY <1>12 DEF Fitted, SpreadOf
  <2>4. IsFiniteSet(I) /\ x \in [I -> Int] /\ q \in [I -> Int] /\ Multiplied(I, q, x, x)
    BY <1>2, <1>4, <1>6
  <2>5. v \in Int /\ 0 <= v /\ (v = 0 => \A g, h \in I : x[g] = x[h])
    BY <2>2, <2>3, <2>4, Spread
  <2> QED
    BY <2>1, <2>5
<1>14. n >= 2
  BY <1>1, <1>2, TwoApart
<1>15. line = [slope |-> [num |-> c, den |-> v], intercept |-> [num |-> b, den |-> n * v]]
  <2>1. line = LeastSquares(I)
    BY <1>1, <1>9, <1>14 DEF Line
  <2> QED
    BY <1>1, <1>3, <1>5, <1>8, <1>10, <1>11, <1>13, <2>1 DEF LeastSquares
<1>16. \A h \in I : residual[h] = n * (v * y[h] - c * x[h]) - b
  BY <1>1, <1>3, <1>15
<1>17. residual \in [I -> Int]
  <2>1. ASSUME NEW h \in I PROVE residual[h] \in Int
    <3>1. PICK s \in Int, t \in Int : s = x[h] /\ t = y[h]
      BY <1>4, <2>1
    <3>2. residual[h] = n * (v * t - c * s) - b
      BY <1>16, <3>1
    <3> QED
      BY <1>9, <3>2
  <2> QED
    BY <1>1, <2>1
<1>18. PICK w : w = Products(residual, x)
  OBVIOUS
<1>19. w \in [I -> Int] /\ Multiplied(I, w, residual, x)
  BY <1>4, <1>17, <1>18 DEF Products, Multiplied
<1>20. Leaves(I, residual, Cardinality(I), v, y, c, x, b)
  BY <1>1, <1>16 DEF Leaves
<1>21. SumFunction(residual) = 0 /\ SumFunction(w) = 0
  BY <1>2, <1>4, <1>6, <1>17, <1>19, <1>12, <1>20, Residuals
<1> QED
  BY <1>1, <1>3, <1>18, <1>21

-----------------------------------------------------------------------------
(* The cells and the nearest one *)

\* The first of the positions that a cell has.
LEMMA FirstIsThere ==
  ASSUME entries \in Seq(Point), NEW key \in Keys
  PROVE  First(Positions(key)) \in Positions(key)
<1>1. PICK i \in DOMAIN entries : KeyAt(i) = key
  BY DEF Keys
<1>2. i \in Positions(key)
  BY <1>1 DEF Positions, KeyAt
<1>3. Positions(key) \in SUBSET Nat /\ Positions(key) # {}
  BY <1>2, PositionsFinite
<1>4. \E m \in Positions(key) : \A k \in Positions(key) : m <= k
  BY <1>3, LeastNumber
<1> QED
  BY <1>4 DEF First

\* Two cells do not begin at the same measurement.
LEMMA FirstsDiffer ==
  ASSUME entries \in Seq(Point), NEW k \in Keys, NEW l \in Keys,
         First(Positions(k)) = First(Positions(l))
  PROVE  k = l
<1>1. First(Positions(k)) \in Positions(k) /\ First(Positions(k)) \in Positions(l)
  BY FirstIsThere
<1> QED
  BY <1>1, PositionsFinite

\* A cell is of a size and a batch.
LEMMA KeysAreShapes ==
  ASSUME entries \in Seq(Point), NEW key \in Keys
  PROVE  key \in Shape /\ First(Positions(key)) \in Nat
<1>1. PICK i \in DOMAIN entries : KeyAt(i) = key
  BY DEF Keys
<1>2. entries[i] \in Point
  OBVIOUS
<1>3. First(Positions(key)) \in Nat
  BY FirstIsThere, PositionsFinite
<1> QED
  BY <1>1, <1>2, <1>3 DEF KeyAt, Point, Shape

\* Among some cells there is one at which a number is least.
LEMMA LeastKey ==
  ASSUME NEW K, K # {}, NEW f, f \in [K -> Nat]
  PROVE  \E k \in K : \A l \in K : f[k] <= f[l]
<1> DEFINE T == {f[k] : k \in K}
<1>1. T \in SUBSET Nat /\ T # {}
  OBVIOUS
<1>2. \E m \in T : \A n \in T : m <= n
  BY <1>1, LeastNumber
<1> QED
  BY <1>2

\* Of the nearest in pixels the nearest in batch, and of these the first.
LEMMA NearestIsThere ==
  ASSUME entries \in Seq(Point), Calibrated, NEW s \in Shape
  PROVE  Nearest(s) \in Keys
<1> DEFINE dp == [k \in Keys |-> Distance(k.pixels, s.pixels)]
<1>1. \A k \in Keys : /\ k.pixels \in Nat /\ k.batch \in Nat
                      /\ Distance(k.pixels, s.pixels) \in Nat /\ Distance(k.batch, s.batch) \in Nat
  BY KeysAreShapes DEF Shape, Distance
<1>2. Keys # {} /\ dp \in [Keys -> Nat]
  BY <1>1 DEF Calibrated
<1>3. PICK a \in Keys : \A l \in Keys : dp[a] <= dp[l]
  <2> HIDE DEF dp
  <2> QED
    BY <1>2, LeastKey
<1> DEFINE A == {k \in Keys : dp[k] = dp[a]}
           db == [k \in A |-> Distance(k.batch, s.batch)]
<1>4. A # {} /\ db \in [A -> Nat]
  BY <1>1
<1>5. PICK b \in A : \A l \in A : db[b] <= db[l]
  <2> HIDE DEF A, db
  <2> QED
    BY <1>4, LeastKey
<1> DEFINE B == {k \in A : db[k] = db[b]}
           fp == [k \in B |-> First(Positions(k))]
<1>6. B # {} /\ fp \in [B -> Nat]
  BY KeysAreShapes
<1>7. PICK c \in B : \A l \in B : fp[c] <= fp[l]
  <2> HIDE DEF B, fp
  <2> QED
    BY <1>6, LeastKey
<1>8. c \in Keys
  OBVIOUS
<1>9. ASSUME NEW l \in Keys \ {c} PROVE Nearer(c, l, s)
  <2>1. Distance(c.pixels, s.pixels) <= Distance(l.pixels, s.pixels)
    BY <1>3, <1>9
  <2>2. l \in A => Distance(c.batch, s.batch) <= Distance(l.batch, s.batch)
    BY <1>5, <1>9
  <2>3. l \in B => First(Positions(c)) <= First(Positions(l))
    BY <1>7, <1>9
  <2>4. First(Positions(c)) # First(Positions(l))
    BY <1>8, <1>9, FirstsDiffer
  <2>5. l \in A <=> Distance(l.pixels, s.pixels) = Distance(c.pixels, s.pixels)
    BY <1>3, <1>9
  <2>6. l \in B <=> l \in A /\ Distance(l.batch, s.batch) = Distance(c.batch, s.batch)
    BY <1>5, <1>9
  <2>7. First(Positions(c)) \in Nat /\ First(Positions(l)) \in Nat
    BY <1>8, <1>9, KeysAreShapes
  <2> HIDE DEF A, B, dp, db, fp
  <2> QED
    BY <1>1, <1>8, <1>9, <2>1, <2>2, <2>3, <2>4, <2>5, <2>6, <2>7 DEF Nearer
<1> HIDE DEF A, B, dp, db, fp
<1> QED
  BY <1>8, <1>9 DEF Nearest

\* A cell is nearest to its own shape.
LEMMA NearestToItself ==
  ASSUME entries \in Seq(Point), NEW key \in Keys
  PROVE  Nearest(key) = key
<1>1. \A k \in Keys : k.pixels \in Nat /\ k.batch \in Nat /\ (k = key <=> k.pixels = key.pixels /\ k.batch = key.batch)
  BY KeysAreShapes DEF Shape
<1>2. \A l \in Keys \ {key} : Nearer(key, l, key)
  BY <1>1 DEF Nearer, Distance
<1>3. ASSUME NEW k \in Keys, \A l \in Keys \ {k} : Nearer(k, l, key) PROVE k = key
  BY <1>1, <1>3 DEF Nearer, Distance
<1> QED
  BY <1>2, <1>3 DEF Nearest

-----------------------------------------------------------------------------
(* Slopes *)

IsFraction(f) == f.num \in Int /\ f.den \in Nat \ {0}

\* A total of one measurement is at no step and per step.
LEMMA ProportionalTyped ==
  ASSUME entries \in Seq(Point), NEW i \in DOMAIN entries
  PROVE  IsFraction(Proportional(i).slope) /\ IsFraction(Proportional(i).intercept)
<1>1. entries[i] \in Point
  OBVIOUS
<1>2. entries[i].steps \in Nat \ {0} /\ entries[i].total \in Nat
  BY <1>1 DEF Point
<1> QED
  BY <1>2 DEF Proportional, Larger, IsFraction

\* A product of positive numbers is positive.
LEMMA ProductPositive ==
  ASSUME NEW n \in Nat \ {0}, NEW v \in Nat \ {0}
  PROVE  n * v \in Nat \ {0}
OBVIOUS

\* Every cell has a line, whatever was measured: where the steps are all the
\* same there is nothing to divide by, and _least_squares does not.
LEMMA LineTyped ==
  ASSUME entries \in Seq(Point), NEW key \in Keys
  PROVE  IsFraction(Line(key).slope) /\ IsFraction(Line(key).intercept)
<1>1. PICK I : I = Positions(key)
  OBVIOUS
<1>2. First(I) \in I /\ IsFiniteSet(I) /\ I \subseteq 1..Len(entries)
      /\ \A h \in I : entries[h] \in Point
  BY <1>1, FirstIsThere, PositionsFinite
<1>3. First(I) \in DOMAIN entries
  <2>1. DOMAIN entries = 1..Len(entries)
    OBVIOUS
  <2> QED
    BY <1>2, <2>1
<1>4. IsFraction(Proportional(First(I)).slope) /\ IsFraction(Proportional(First(I)).intercept)
  BY <1>3, ProportionalTyped
<1>5. CASE Line(key) = Proportional(First(I))
  BY <1>4, <1>5
<1>6. CASE Line(key) # Proportional(First(I))
  <2>1. PICK x, y, q, p : x = Xs(I) /\ y = Ys(I) /\ q = Products(x, x) /\ p = Products(x, y)
    OBVIOUS
  <2>2. x \in [I -> Int] /\ y \in [I -> Int]
    <3>1. \A h \in I : entries[h].steps \in Int /\ entries[h].total \in Int
      BY <1>2 DEF Point
    <3> QED
      BY <2>1, <3>1 DEF Xs, Ys
  <2>3. q \in [I -> Int] /\ p \in [I -> Int] /\ Multiplied(I, q, x, x)
    BY <2>1, <2>2 DEF Products, Multiplied
  <2>4. PICK T, U, V, W : Adds(T, x, I) /\ Adds(U, y, I) /\ Adds(V, q, I) /\ Adds(W, p, I)
    BY <1>2, <2>2, <2>3, SumAdds
  <2>5. PICK n, sx, sy, sxx, sxy : /\ n = Cardinality(I) /\ sx = SumFunction(x) /\ sy = SumFunction(y)
                                   /\ sxx = SumFunction(q) /\ sxy = SumFunction(p)
    OBVIOUS
  <2>6. sx \in Int /\ sy \in Int /\ sxx \in Int /\ sxy \in Int
    BY <2>4, <2>5 DEF Adds
  <2>7. n \in Nat \ {0}
    BY <1>2, <2>5, FS_CardinalityType, FS_EmptySet
  <2>8. PICK v \in Int, c \in Int : v = n * sxx - sx * sx /\ c = n * sxy - sx * sy
    BY <2>6, <2>7
  <2>9. PICK b \in Int : b = sy * v - c * sx
    BY <2>6
  <2>10. Line(key) = LeastSquares(I)
    BY <1>1, <1>6 DEF Line
  <2>11. v # 0 /\ LeastSquares(I) = [slope |-> [num |-> c, den |-> v],
                                     intercept |-> [num |-> b, den |-> n * v]]
    BY <1>6, <2>1, <2>5, <2>8, <2>9, <2>10 DEF LeastSquares
  <2>12. SpreadOf(v, I, x, q)
    BY <2>5, <2>8 DEF SpreadOf
  <2>13. I # {}
    BY <1>2
  <2>14. v \in Int /\ 0 <= v /\ (v = 0 => \A g, h \in I : x[g] = x[h])
    BY <1>2, <2>2, <2>3, <2>12, <2>13, Spread
  <2>15. v \in Nat \ {0}
    BY <2>11, <2>14
  <2>16. n * v \in Nat \ {0}
    BY <2>7, <2>15, ProductPositive
  <2> QED
    BY <2>10, <2>11, <2>15, <2>16 DEF IsFraction
<1> QED
  BY <1>5, <1>6

\* A cell's slope is at least a millisecond, and what it adds before the first step
\* not negative.
LEMMA ClampedPositive ==
  ASSUME NEW line, IsFraction(line.slope), IsFraction(line.intercept)
  PROVE  LET cell == Clamped(line)
         IN  /\ cell.slope.num \in Nat \ {0} /\ cell.slope.den \in Nat \ {0}
             /\ 10 * cell.slope.den <= cell.slope.num
             /\ cell.intercept.num \in Nat /\ cell.intercept.den \in Nat \ {0}
<1>1. PICK a \in Int, d \in Nat \ {0} : a = line.slope.num /\ d = line.slope.den
  BY DEF IsFraction
<1>2. PICK b \in Int, e \in Nat \ {0} : b = line.intercept.num /\ e = line.intercept.den
  BY DEF IsFraction
<1>3. a < 10 * d \/ (a \in Nat \ {0} /\ 10 * d <= a)
  BY <1>1
<1>4. b < 0 \/ b \in Nat
  BY <1>2
<1> QED
  BY <1>1, <1>2, <1>3, <1>4 DEF Clamped

\* One step more adds the slope, scaled: a positive number, and more than the
\* denominator if the area asked is more than a tenth of the cell's.
LEMMA OneMoreStep ==
  ASSUME NEW a \in Nat \ {0}, NEW d \in Nat \ {0}, 10 * d <= a, NEW b \in Int,
         NEW e \in Nat \ {0}, NEW n \in Nat, NEW f \in Nat \ {0}, NEW g \in Nat \ {0}
  PROVE  LET x == (b + a * n * e) * f
             y == (b + a * (n + 1) * e) * f
         IN  x \in Int /\ y \in Int /\ x < y /\ (10 * f > g => x + d * e * g < y)
<1>1. PICK x \in Int, y \in Int : x = (b + a * n * e) * f /\ y = (b + a * (n + 1) * e) * f
  OBVIOUS
<1>2. PICK p \in Nat \ {0} : p = (a * e) * f
  BY ProductPositive
<1>3. y = x + p
  <2>1. a * (n + 1) * e = a * n * e + a * e
    OBVIOUS
  <2>2. PICK k \in Int, l \in Int : k = b + a * n * e /\ l = a * e
    OBVIOUS
  <2>3. b + a * (n + 1) * e = k + l
    BY <2>1, <2>2
  <2>4. (k + l) * f = k * f + l * f
    OBVIOUS
  <2> QED
    BY <1>1, <1>2, <2>2, <2>3, <2>4
<1>4. ASSUME 10 * f > g PROVE d * e * g < p
  <2>1. PICK r \in Nat : a = 10 * d + r
    <3>1. a - 10 * d \in Nat
      OBVIOUS
    <3> QED
      BY <3>1
  <2>2. PICK s \in Nat \ {0} : 10 * f = g + s
    <3>1. 10 * f - g \in Nat \ {0}
      BY <1>4
    <3> QED
      BY <3>1
  <2>3. PICK c \in Nat \ {0} : c = d * e
    BY ProductPositive
  <2>4. p = c * (10 * f) + r * e * f
    <3>1. a * e = 10 * c + r * e
      BY <2>1, <2>3
    <3>2. p = (10 * c) * f + (r * e) * f
      BY <1>2, <3>1
    <3>3. (10 * c) * f = c * (10 * f)
      OBVIOUS
    <3> QED
      BY <3>2, <3>3
  <2>5. c * (10 * f) = c * g + c * s
    BY <2>2
  <2>6. c * s \in Nat \ {0}
    BY ProductPositive
  <2>7. r * e * f \in Nat
    OBVIOUS
  <2>8. PICK u \in Int, v \in Nat \ {0}, w \in Nat : u = c * g /\ v = c * s /\ w = r * e * f
    BY <2>6, <2>7
  <2> QED
    BY <2>3, <2>4, <2>5, <2>8
<1>5. d * e * g \in Int
  OBVIOUS
<1> QED
  BY <1>1, <1>2, <1>3, <1>4, <1>5

\* The same of the fallback, whose steps cost 35 ms at 512 x 512.
LEMMA OneMoreHeuristicStep ==
  ASSUME NEW w \in Nat \ {0}, NEW n \in Nat
  PROVE  LET x == 800 * 4096 + 350 * w * n
             y == 800 * 4096 + 350 * w * (n + 1)
         IN  x \in Int /\ y \in Int /\ x < y /\ (10 * w > 4096 => x + 4096 < y)
<1>1. PICK k \in Int : k = 350 * w * n
  OBVIOUS
<1>2. 350 * w * (n + 1) = k + 350 * w
  BY <1>1
<1> QED
  BY <1>1, <1>2

\* In every table, at every shape.
LEMMA TheCostGrows == entries \in Seq(Point) /\ asked \in Shape \cup {NoShape} => CostGrows
<1> SUFFICES ASSUME entries \in Seq(Point), asked \in Shape, NEW steps \in 1..3
             PROVE  /\ gpu_ms(asked, steps) <= gpu_ms(asked, steps + 1)
                    /\ 10 * Area(asked) > Area(Reference(asked)) =>
                         gpu_ms(asked, steps) < gpu_ms(asked, steps + 1)
  BY DEF CostGrows
<1>1. PICK f \in Nat \ {0} : f = Area(asked)
  BY ProductPositive DEF Area, Shape
<1>2. CASE Calibrated
  <2>1. PICK key \in Keys : key = Nearest(asked)
    BY <1>2, NearestIsThere
  <2>2. PICK g \in Nat \ {0} : g = Area(key)
    <3>1. key.pixels \in Nat \ {0} /\ key.batch \in Nat \ {0}
      BY KeysAreShapes DEF Shape
    <3> QED
      BY <3>1, ProductPositive DEF Area
  <2>3. PICK cell : cell = Clamped(Line(key))
    OBVIOUS
  <2>4. /\ cell.slope.num \in Nat \ {0} /\ cell.slope.den \in Nat \ {0}
        /\ 10 * cell.slope.den <= cell.slope.num
        /\ cell.intercept.num \in Nat /\ cell.intercept.den \in Nat \ {0}
    BY <2>3, LineTyped, ClampedPositive
  <2>5. PICK a \in Nat \ {0}, d \in Nat \ {0}, e \in Nat \ {0}, b \in Int :
          /\ a = cell.slope.num /\ d = cell.slope.den /\ e = cell.intercept.den
          /\ b = cell.intercept.num * cell.slope.den /\ 10 * d <= a
    BY <2>4
  <2>6. steps \in Nat /\ steps + 1 \in Nat
    OBVIOUS
  <2>7. \A n \in Nat : gpu_ms(asked, n) = RoundScaled(b + a * n * e, d * e, f, g)
    BY <1>1, <1>2, <2>1, <2>2, <2>3, <2>5 DEF gpu_ms
  <2>8. PICK x, y, N : /\ x = (b + a * steps * e) * f
                       /\ y = (b + a * (steps + 1) * e) * f
                       /\ N = d * e * g
    OBVIOUS
  <2>9. x \in Int /\ y \in Int /\ x < y /\ (10 * f > g => x + N < y)
    BY <2>5, <2>6, <2>8, OneMoreStep
  <2>10. d * e \in Nat \ {0} /\ N \in Nat \ {0}
    BY <2>8, ProductPositive
  <2>11. Near(gpu_ms(asked, steps), x, N) /\ Near(gpu_ms(asked, steps + 1), y, N)
    <3>1. b + a * steps * e \in Int /\ b + a * (steps + 1) * e \in Int /\ f \in Nat
      OBVIOUS
    <3> QED
      BY <2>6, <2>7, <2>8, <2>10, <3>1, RoundScaledIsNear
  <2>12. Reference(asked) = key
    BY <1>2, <2>1 DEF Reference
  <2>13. /\ gpu_ms(asked, steps) <= gpu_ms(asked, steps + 1)
         /\ x + N < y => gpu_ms(asked, steps) < gpu_ms(asked, steps + 1)
    BY <2>9, <2>10, <2>11, NearGrows
  <2> QED
    BY <1>1, <2>2, <2>9, <2>12, <2>13
<1>3. CASE ~Calibrated
  <2>1. PICK x \in Int, y \in Int : /\ x = 800 * 4096 + 350 * f * steps
                                  /\ y = 800 * 4096 + 350 * f * (steps + 1)
                                  /\ x < y /\ (10 * f > 4096 => x + 4096 < y)
    <3>1. steps \in Nat
      OBVIOUS
    <3> QED
      BY <3>1, OneMoreHeuristicStep
  <2>2. gpu_ms(asked, steps) = Round(x, 4096) /\ gpu_ms(asked, steps + 1) = Round(y, 4096)
    BY <1>1, <1>3, <2>1 DEF gpu_ms
  <2>3. Near(gpu_ms(asked, steps), x, 4096) /\ Near(gpu_ms(asked, steps + 1), y, 4096)
    BY <2>2, RoundIsNear
  <2>4. Area(Reference(asked)) = 4096
    BY <1>3 DEF Reference, Area
  <2> QED
    BY <1>1, <2>1, <2>3, <2>4, NearGrows
<1> QED
  BY <1>2, <1>3

-----------------------------------------------------------------------------
(* Memory *)

\* The peak of a cell is one of its measurements and no less than any.
LEMMA PeakIsGreatest ==
  ASSUME entries \in Seq(Point), NEW key \in Keys, NEW i \in Positions(key)
  PROVE  /\ Peak(key) \in Nat /\ entries[i].vram <= Peak(key)
         /\ \E j \in Positions(key) : Peak(key) = entries[j].vram
<1>1. PICK I : I = Positions(key)
  OBVIOUS
<1>2. IsFiniteSet(I) /\ i \in I /\ \A k \in I : entries[k].vram \in Nat
  <2>1. IsFiniteSet(I) /\ \A k \in I : entries[k] \in Point
    BY <1>1, PositionsFinite
  <2> QED
    BY <1>1, <2>1 DEF Point
<1> DEFINE F == {S \in SUBSET I : S # {} => \E m \in S : \A k \in S : entries[k].vram <= entries[m].vram}
<1>3. {} \in F
  OBVIOUS
<1>4. ASSUME NEW S \in SUBSET I, NEW y \in I \ S, S \in F PROVE S \cup {y} \in F
  <2>1. CASE S = {}
    BY <1>2, <2>1
  <2>2. CASE S # {}
    <3>1. PICK m \in S : \A k \in S : entries[k].vram <= entries[m].vram
      BY <1>4, <2>2
    <3>2. CASE entries[y].vram <= entries[m].vram
      BY <3>1, <3>2
    <3>3. CASE ~(entries[y].vram <= entries[m].vram)
      <4>1. \A k \in S \cup {y} : entries[k].vram <= entries[y].vram
        BY <1>2, <3>1, <3>3
      <4> QED
        BY <4>1
    <3> QED
      BY <3>2, <3>3
  <2> QED
    BY <2>1, <2>2
<1>5. I \in F
  <2> HIDE DEF F
  <2> QED
    BY <1>2, <1>3, <1>4, SubsetsBuilt
<1>6. PICK m \in I : \A k \in I : entries[k].vram <= entries[m].vram
  BY <1>2, <1>5
<1> HIDE DEF F
<1>7. \E j \in I : (\A k \in I : entries[k].vram <= entries[j].vram) /\ Peak(key) = entries[j].vram
  BY <1>1, <1>6 DEF Peak
<1> QED
  BY <1>1, <1>2, <1>7

\* A whole number is rounded to itself.
LEMMA RoundExact ==
  ASSUME NEW v \in Nat, NEW m \in Nat \ {0}
  PROVE  Round(v * m, m) = v
<1>1. (v * m) \div m = v /\ (v * m) % m = 0
  OBVIOUS
<1> QED
  BY <1>1 DEF Round, ToNearest

\* In every table, for every measurement in it.
LEMMA ThePeakIsCovered == entries \in Seq(Point) => PeakCovered
<1> SUFFICES ASSUME entries \in Seq(Point), NEW i \in DOMAIN entries
             PROVE  vram_gb(KeyAt(i)) >= entries[i].vram
  BY DEF PeakCovered
<1>1. PICK key \in Keys : key = KeyAt(i)
  BY DEF Keys
<1>2. i \in Positions(key)
  BY <1>1 DEF Positions, KeyAt
<1>3. Calibrated /\ Nearest(key) = key
  BY NearestToItself DEF Calibrated
<1>4. PICK v \in Nat : v = Peak(key) /\ entries[i].vram <= v
  BY <1>2, PeakIsGreatest
<1>5. PICK p \in Nat \ {0}, b \in Nat \ {0} : p = key.pixels /\ b = key.batch
  BY KeysAreShapes DEF Shape
<1>6. PICK m \in Nat \ {0} : m = p * b
  BY ProductPositive
<1>7. v * p * b = v * m
  BY <1>6
<1>8. vram_gb(key) = Round(v * p * b, p * b)
  BY <1>3, <1>4, <1>5 DEF vram_gb, ScaledPeak, Larger
<1>9. vram_gb(key) = v
  BY <1>6, <1>7, <1>8, RoundExact
<1>10. entries[i].vram \in Nat
  <2>1. entries[i] \in Point
    OBVIOUS
  <2> QED
    BY <2>1 DEF Point
<1> QED
  BY <1>1, <1>4, <1>9, <1>10

\* A fraction that is no more than a whole number is not rounded above it.
LEMMA RoundWithin ==
  ASSUME NEW n \in Nat, NEW d \in Nat \ {0}, NEW b \in Nat, n <= b * d
  PROVE  Round(n, d) <= b
<1>1. n <= d * b
  OBVIOUS
<1> QED
  BY <1>1, RoundIsNear, NearBounded

\* A product grows with its factors.
LEMMA ProductGrows ==
  ASSUME NEW v, NEW w, NEW a, NEW b, NEW c, NEW d,
         v \in Nat, w \in Nat, a \in Nat, b \in Nat, c \in Nat, d \in Nat,
         v <= w, a <= b, c <= d
  PROVE  v * a * c <= w * b * d /\ v * a * c \in Nat /\ w * b * d \in Nat
<1>1. \A x \in Nat, y \in Nat, z \in Nat : x <= y => x * z <= y * z /\ x * z \in Nat /\ y * z \in Nat
  <2> TAKE x \in Nat, y \in Nat, z \in Nat
  <2> HAVE x <= y
  <2>1. PICK k \in Nat : y = x + k
    OBVIOUS
  <2>2. y * z = x * z + k * z
    BY <2>1
  <2>3. k * z \in Nat /\ x * z \in Nat
    OBVIOUS
  <2> QED
    BY <2>2, <2>3
<1>2. v * a <= w * a /\ v * a \in Nat /\ w * a \in Nat
  BY <1>1
<1>3. a * w <= b * w /\ a * w \in Nat /\ b * w \in Nat
  BY <1>1
<1>4. PICK x \in Nat, y \in Nat : x = v * a /\ y = w * b
  BY <1>2, <1>3
<1>5. x <= y
  BY <1>2, <1>3, <1>4
<1>6. x * c <= y * c /\ x * c \in Nat /\ y * c \in Nat
  BY <1>1, <1>5
<1>7. c * y <= d * y /\ d * y \in Nat
  BY <1>1
<1> QED
  BY <1>4, <1>6, <1>7

\* In a table every measurement of which fits the budget at the largest shape, as
\* at every shape that is no larger.
LEMMA TheBatchesFit ==
  ASSUME entries \in Calibrations, asked \in Shapes(entries)
  PROVE  BatchesFit
<1>1. entries \in Seq(Point) /\ asked \in Shape
  BY TablesAssumption
<1>2. PICK P \in Nat \ {0}, B \in Nat \ {0} : P = Largest.pixels /\ B = Largest.batch
  BY LargestAssumption DEF Shape
<1>3. PICK p \in Nat \ {0}, b \in Nat \ {0} : p = asked.pixels /\ b = asked.batch
  BY <1>1 DEF Shape
<1>4. p <= P /\ b <= B
  BY <1>2, <1>3, LargestAssumption
<1>5. CASE Calibrated
  <2>1. PICK key \in Keys : key = Nearest(asked)
    BY <1>1, <1>5, NearestIsThere
  <2>2. PICK x \in Nat \ {0}, y \in Nat \ {0} : x = key.pixels /\ y = key.batch
    BY <1>1, KeysAreShapes DEF Shape
  <2>3. First(Positions(key)) \in Positions(key)
    BY <1>1, FirstIsThere
  <2>4. PICK j \in Positions(key) : Peak(key) = entries[j].vram
    BY <1>1, <2>3, PeakIsGreatest
  <2>5. PICK v \in Nat : v = Peak(key)
    BY <1>1, <2>3, PeakIsGreatest
  <2>6. j \in DOMAIN entries /\ entries[j].pixels = x /\ entries[j].batch = y /\ entries[j].vram = v
    BY <2>2, <2>4, <2>5 DEF Positions
  <2>7. v * Larger(P, x) * Larger(B, y) <= Budget * (x * y)
    BY <1>2, <2>6, BudgetAssumption
  <2>8. Larger(p, x) \in Nat /\ Larger(P, x) \in Nat /\ Larger(p, x) <= Larger(P, x)
    BY <1>4 DEF Larger
  <2>9. Larger(b, y) \in Nat /\ Larger(B, y) \in Nat /\ Larger(b, y) <= Larger(B, y)
    BY <1>4 DEF Larger
  <2>10. v <= v
    OBVIOUS
  <2>11. PICK n \in Nat, m \in Nat : /\ n = v * Larger(p, x) * Larger(b, y)
                                   /\ m = v * Larger(P, x) * Larger(B, y)
                                   /\ n <= m
    BY <2>8, <2>9, <2>10, ProductGrows
  <2>12. PICK d \in Nat \ {0} : d = x * y
    BY ProductPositive
  <2>13. Budget \in Nat /\ Budget * d \in Nat
    BY BudgetAssumption
  <2>14. n <= Budget * d
    BY <2>7, <2>11, <2>12, <2>13
  <2>15. Round(n, d) <= Budget
    BY <2>13, <2>14, RoundWithin
  <2>16. vram_gb(asked) = Round(n, d)
    BY <1>3, <1>5, <2>1, <2>2, <2>5, <2>11, <2>12 DEF vram_gb, ScaledPeak
  <2> QED
    BY <2>15, <2>16 DEF BatchesFit
<1>6. CASE ~Calibrated
  <2>1. PICK n \in Nat, m \in Nat : n = 150 * b * p /\ m = 150 * B * P /\ n <= m
    BY <1>4, ProductGrows
  <2>2. Budget \in Nat /\ 800 * 4096 + m <= Budget * 4096
    BY <1>2, <2>1, BudgetAssumption
  <2>3. Round(800 * 4096 + n, 4096) <= Budget
    BY <2>1, <2>2, RoundWithin
  <2> QED
    BY <1>3, <1>6, <2>1, <2>3 DEF vram_gb, Heuristic, BatchesFit
<1> QED
  BY <1>5, <1>6

-----------------------------------------------------------------------------
(* The sweep and the gateways beside it *)

Cells == [pixels : Range(resolutions), batch : Range(batches), steps : Range(steps_list)]

\* So much of a sweep.
Swept(t, n) ==
  /\ t \in Seq(Point)
  /\ Len(t) = n
  /\ n \in 0..SweepLength
  /\ \A i \in 1..n : Measured(t[i]) = Measurement(i)

\* What the file may hold at each stage, and what a gateway may have loaded from it.
SweepTrue ==
  /\ previous \in Calibrations
  /\ Swept(measured, Len(measured))
  /\ sweep \in {"writing", "done"} => Len(measured) = SweepLength
  /\ file \in {previous, Torn} \/ (sweep = "done" /\ file = measured)
  /\ \/ entries = <<>>
     \/ entries = previous
     \/ Swept(entries, SweepLength)
  /\ gateway = "off" => asked = NoShape
  /\ gateway = "up" => entries = previous \/ Swept(entries, SweepLength)
  /\ sweep = "off" => file = previous /\ entries \in {<<>>, previous}
  /\ \/ asked = NoShape
     \/ asked \in Shape /\ entries \in Calibrations /\ asked \in Shapes(entries)

\* Two sizes, three batches, three numbers of steps.
LEMMA ThereAreEighteen == SweepLength = 18
<1>1. Len(resolutions) = 2 /\ Len(batches) = 3 /\ Len(steps_list) = 3
  BY DEF resolutions, batches, steps_list
<1> QED
  BY <1>1 DEF SweepLength

\* The loops visit every cell at every number of steps.
LEMMA EveryCellMeasured ==
  {Measurement(n) : n \in 1..SweepLength} = Cells
<1>1. Len(resolutions) = 2 /\ Len(batches) = 3 /\ Len(steps_list) = 3
  BY DEF resolutions, batches, steps_list
<1>2. /\ Range(resolutions) = {resolutions[1], resolutions[2]}
      /\ Range(batches) = {batches[1], batches[2], batches[3]}
      /\ Range(steps_list) = {steps_list[1], steps_list[2], steps_list[3]}
  BY DEF resolutions, batches, steps_list, Range
<1>3. \A n \in 1..18 : (n - 1) \div 9 \in {0, 1} /\ ((n - 1) \div 3) % 3 \in 0..2 /\ (n - 1) % 3 \in 0..2
  OBVIOUS
<1>4. ASSUME NEW n \in 1..SweepLength PROVE Measurement(n) \in Cells
  <2>1. n \in 1..18
    BY ThereAreEighteen
  <2>2. resolutions[1 + (n - 1) \div 9] \in Range(resolutions)
    BY <1>2, <1>3, <2>1
  <2>3. batches[1 + (((n - 1) \div 3) % 3)] \in Range(batches)
    BY <1>2, <1>3, <2>1
  <2>4. steps_list[1 + ((n - 1) % 3)] \in Range(steps_list)
    BY <1>2, <1>3, <2>1
  <2>5. Len(batches) * Len(steps_list) = 9
    BY <1>1
  <2> QED
    BY <1>1, <2>2, <2>3, <2>4, <2>5 DEF Measurement, Cells
<1>5. ASSUME NEW cell \in Cells PROVE \E n \in 1..SweepLength : Measurement(n) = cell
  <2>1. PICK a \in 0..1 : cell.pixels = resolutions[1 + a]
    BY <1>2 DEF Cells
  <2>2. PICK b \in 0..2 : cell.batch = batches[1 + b]
    BY <1>2 DEF Cells
  <2>3. PICK c \in 0..2 : cell.steps = steps_list[1 + c]
    BY <1>2 DEF Cells
  <2>4. PICK n \in 1..18 : n = 9 * a + 3 * b + c + 1
    OBVIOUS
  <2>5. (n - 1) \div 9 = a /\ ((n - 1) \div 3) % 3 = b /\ (n - 1) % 3 = c
    BY <2>4
  <2>6. Len(batches) * Len(steps_list) = 9
    BY <1>1
  <2>7. Measurement(n) = cell
    BY <1>1, <2>1, <2>2, <2>3, <2>5, <2>6 DEF Measurement, Cells
  <2> QED
    BY <2>4, <2>7, ThereAreEighteen
<1> QED
  BY <1>4, <1>5

\* A whole sweep is a whole table.
LEMMA WholeSweep ==
  ASSUME NEW t, Swept(t, SweepLength)
  PROVE  {Measured(t[i]) : i \in DOMAIN t} = Cells
<1>1. DOMAIN t = 1..SweepLength /\ \A i \in 1..SweepLength : Measured(t[i]) = Measurement(i)
  BY ThereAreEighteen DEF Swept
<1> QED
  BY <1>1, EveryCellMeasured

\* Before anything was measured or loaded.
LEMMA SweepInit == CalInit => SweepTrue
<1> SUFFICES ASSUME CalInit PROVE SweepTrue
  OBVIOUS
<1>1. <<>> \in Seq(Point) /\ Len(<<>>) = 0
  OBVIOUS
<1> QED
  BY <1>1, ThereAreEighteen DEF CalInit, EstInit, SweepTrue, Swept

\* One step per action; a table is whole when it is closed, since it is opened
\* after the last measurement.
LEMMA SweepNext == SweepTrue /\ [CalNext]_calVars => SweepTrue'
<1> SUFFICES ASSUME SweepTrue, [CalNext]_calVars PROVE SweepTrue'
  OBVIOUS
<1>1. CASE Measure
  <2>1. PICK e \in Measurements(Measurement(Len(measured) + 1)) : measured' = Append(measured, e)
    BY <1>1 DEF Measure
  <2>2. measured \in Seq(Point) /\ Len(measured) + 1 \in 1..SweepLength
    <3>1. measured \in Seq(Point) /\ Len(measured) \in 0..SweepLength
      BY DEF SweepTrue, Swept
    <3>2. Len(measured) < SweepLength
      BY <1>1 DEF Measure
    <3> QED
      BY <3>1, <3>2, ThereAreEighteen
  <2>3. e \in Point /\ Measured(e) = Measurement(Len(measured) + 1)
    BY <2>1, <2>2, TablesAssumption
  <2>4. /\ measured' \in Seq(Point) /\ Len(measured') = Len(measured) + 1
        /\ measured'[Len(measured) + 1] = e
        /\ \A i \in 1..Len(measured) : measured'[i] = measured[i]
    BY <2>1, <2>2, <2>3
  <2>5. \A i \in 1..Len(measured') : i \in 1..Len(measured) \/ i = Len(measured) + 1
    BY <2>2, <2>4
  <2>6. \A i \in 1..Len(measured') : Measured(measured'[i]) = Measurement(i)
    BY <2>3, <2>4, <2>5 DEF SweepTrue, Swept
  <2>7. Swept(measured, Len(measured))'
    BY <2>2, <2>4, <2>6, ThereAreEighteen DEF Swept
  <2> QED
    BY <1>1, <2>7 DEF Measure, SweepTrue, estVars
<1>2. CASE Open
  BY <1>2 DEF Open, SweepTrue, estVars, Swept
<1>3. CASE Close
  BY <1>3 DEF Close, SweepTrue, estVars, Swept
<1>4. CASE Kill
  BY <1>4 DEF Kill, SweepTrue, estVars, Swept
<1>5. CASE Load
  <2>1. Swept(measured, Len(measured))'
    BY <1>5 DEF Load, SweepTrue, Swept
  <2>2. file # Torn => file = previous \/ (file = measured /\ Swept(measured, SweepLength))
    BY DEF SweepTrue
  <2>3. \A t : Swept(t, SweepLength) => Swept(t, SweepLength)
    OBVIOUS
  <2>4. entries' = entries \/ entries' = previous \/ Swept(entries', SweepLength)
    BY <1>5, <2>2 DEF Load
  <2> QED
    BY <1>5, <2>1, <2>2, <2>4 DEF Load, SweepTrue
<1>6. CASE Ask
  <2>1. entries = previous
    <3>1. entries = <<>> => ~Swept(entries, SweepLength)
      BY ThereAreEighteen DEF Swept
    <3> QED
      BY <1>6, <3>1 DEF Ask, SweepTrue
  <2>2. asked' \in Shape /\ entries' \in Calibrations /\ asked' \in Shapes(entries')
    BY <1>6, <2>1, TablesAssumption DEF Ask, Estimate, SweepTrue
  <2> QED
    BY <1>6, <2>2 DEF Ask, Estimate, SweepTrue, Swept
<1>7. CASE UNCHANGED calVars
  BY <1>7 DEF calVars, estVars, SweepTrue, Swept
<1> QED
  BY <1>1, <1>2, <1>3, <1>4, <1>5, <1>6, <1>7 DEF CalNext

\* Whatever is measured, killed or loaded, in any order, the file and the table
\* are what SweepTrue says (calibrate.py, main; estimator.py, _fit).
THEOREM SweepAlwaysTrue == CalSpec => []SweepTrue
<1> QED
  BY SweepInit, SweepNext, PTL DEF CalSpec

\* No gateway loads part of a sweep, whenever it starts and wherever the sweep was
\* killed: a torn file does not parse, and calibrate.py writes only once all cells
\* are measured (calibrate.py, main; estimator.py, _fit).
THEOREM LoadsAlwaysWhole == CalSpec => []LoadsWholeTables
<1>1. SweepTrue => LoadsWholeTables
  BY WholeSweep DEF SweepTrue, LoadsWholeTables, Cells
<1> QED
  BY <1>1, SweepAlwaysTrue, PTL

\* What a gateway has loaded is a table, and what was asked of it a shape.
LEMMA TablesTyped == SweepTrue => entries \in Seq(Point) /\ asked \in Shape \cup {NoShape}
<1>1. <<>> \in Seq(Point)
  OBVIOUS
<1> QED
  BY <1>1, TablesAssumption DEF SweepTrue, Swept

\* Whatever was measured, no line fits a cell better than the one the gateway has
\* (estimator.py, _least_squares): the normal equations of the squares.
THEOREM FitsAlwaysBest == CalSpec => []FitIsBest
<1> QED
  BY SweepAlwaysTrue, TablesTyped, TheFitIsBest, PTL

\* Whatever was measured and asked, one more step is estimated to cost more
\* (estimator.py, _fit and estimate).
THEOREM CostsAlwaysGrow == CalSpec => []CostGrows
<1> QED
  BY SweepAlwaysTrue, TablesTyped, TheCostGrows, PTL

\* A shape that was measured is never estimated below any of its measurements
\* (estimator.py, _fit and estimate).
THEOREM PeaksAlwaysCovered == CalSpec => []PeakCovered
<1> QED
  BY SweepAlwaysTrue, TablesTyped, ThePeakIsCovered, PTL

\* What admission estimated for one image holds for every batch the dispatcher may
\* make of it: if each measurement, scaled to the largest size in the largest batch,
\* fits the budget, then so does every shape in every batch (gateway.py, generate).
THEOREM BatchesAlwaysFit == CalSpec => []BatchesFit
<1>1. SweepTrue => BatchesFit
  <2>1. asked = NoShape => BatchesFit
    BY DEF BatchesFit
  <2> QED
    BY <2>1, TheBatchesFit DEF SweepTrue
<1> QED
  BY <1>1, SweepAlwaysTrue, PTL
=============================================================================
