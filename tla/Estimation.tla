----------------------------- MODULE Estimation -----------------------------
(***************************************************************************)
(* estimator.py: a table of measurements is fitted into one cell per       *)
(* (pixels, batch), a line of latency over steps and the peak of memory,   *)
(* and the nearest cell is scaled to the shape that is asked for.          *)
(*                                                                         *)
(* Numbers are whole: pixels in 8x8 tiles (sizes are multiples of 8),      *)
(* milliseconds in tenths and gigabytes in hundredths, as the table has    *)
(* them.  A slope is a fraction [num, den].                                *)
(***************************************************************************)
EXTENDS Rounding, Sequences, FiniteSets, Functions

CONSTANTS
  Shapes(_),     \* [pixels, batch] that may be asked of a table
  Budget         \* GPU_VRAM_BUDGET_GB, in hundredths

VARIABLES
  entries,       \* the table that was loaded, empty if there was no file
  asked          \* the shape of the last estimate

estVars == <<entries, asked>>

Shape == [pixels : Nat \ {0}, batch : Nat \ {0}]
Point == [pixels : Nat \ {0}, batch : Nat \ {0}, steps : Nat \ {0}, total : Nat, vram : Nat]

Positions(key) == {i \in DOMAIN entries :
                     [pixels |-> entries[i].pixels, batch |-> entries[i].batch] = key}
KeyAt(i) == [pixels |-> entries[i].pixels, batch |-> entries[i].batch]
Keys == {KeyAt(i) : i \in DOMAIN entries}
Calibrated == Keys # {}

Larger(a, b) == IF a >= b THEN a ELSE b
Distance(a, b) == IF a >= b THEN a - b ELSE b - a

-----------------------------------------------------------------------------
(* _fit *)

\* The first point of a group, as the file has them.
First(I) == CHOOSE i \in I : \A k \in I : i <= k

Proportional(i) ==
  [slope |-> [num |-> entries[i].total, den |-> Larger(entries[i].steps, 1)],
   intercept |-> [num |-> 0, den |-> 1]]

Xs(I) == [i \in I |-> entries[i].steps]
Ys(I) == [i \in I |-> entries[i].total]
Products(f, g) == [i \in DOMAIN f |-> f[i] * g[i]]

\* A mutant of LeastSquares: the line through the mean and the origin's slope.
UncenteredLine(I) ==
  LET n  == Cardinality(I)
      sx == SumFunction(Xs(I))
      sy == SumFunction(Ys(I))
      sxx == SumFunction(Products(Xs(I), Xs(I)))
      sxy == SumFunction(Products(Xs(I), Ys(I)))
  IN  [slope |-> [num |-> sxy, den |-> sxx],
       intercept |-> [num |-> sy * sxx - sxy * sx, den |-> n * sxx]]

\* Multiplied through by n: covariance over variance.
LeastSquares(I) ==
  LET n  == Cardinality(I)
      sx == SumFunction(Xs(I))
      sy == SumFunction(Ys(I))
      variance == n * SumFunction(Products(Xs(I), Xs(I))) - sx * sx
      covariance == n * SumFunction(Products(Xs(I), Ys(I))) - sx * sy
  IN  IF variance = 0 THEN Proportional(First(I))
      ELSE [slope |-> [num |-> covariance, den |-> variance],
            intercept |-> [num |-> sy * variance - covariance * sx, den |-> n * variance]]

Line(key) ==
  LET I == Positions(key)
  IN  IF Cardinality(I) >= 2 THEN LeastSquares(I) ELSE Proportional(First(I))

\* A mutant of Clamped: the line as it was fitted.
AsFitted(line) == line

\* At least a millisecond a step, at least nothing before the first.
Clamped(line) ==
  [slope |-> IF line.slope.num < 10 * line.slope.den THEN [num |-> 10, den |-> 1] ELSE line.slope,
   intercept |-> IF line.intercept.num < 0 THEN [num |-> 0, den |-> 1] ELSE line.intercept]

\* A mutant of Peak: the first measurement of the cell.
FirstPeak(key) == entries[First(Positions(key))].vram

Peak(key) ==
  LET I == Positions(key)
  IN  entries[CHOOSE i \in I : \A k \in I : entries[k].vram <= entries[i].vram].vram

-----------------------------------------------------------------------------
(* estimate *)

\* The nearest in pixels, then in batch; of equals the first in the file.
Nearer(k, l, s) ==
  LET dp(key) == Distance(key.pixels, s.pixels)
      db(key) == Distance(key.batch, s.batch)
  IN  \/ dp(k) < dp(l)
      \/ dp(k) = dp(l) /\ db(k) < db(l)
      \/ dp(k) = dp(l) /\ db(k) = db(l) /\ First(Positions(k)) < First(Positions(l))
Nearest(s) == CHOOSE k \in Keys : \A l \in Keys \ {k} : Nearer(k, l, s)

ScaledPeak(s) ==
  LET k == Nearest(s)
  IN  Round(Peak(k) * Larger(s.pixels, k.pixels) * Larger(s.batch, k.batch),
            k.pixels * k.batch)

Area(s) == s.pixels * s.batch

\* The cell's line at steps, times the ratio of the areas.
gpu_ms(s, steps) ==
  IF Calibrated
  THEN LET k == Nearest(s)
           cell == Clamped(Line(k))
       IN  RoundScaled(cell.intercept.num * cell.slope.den
                         + cell.slope.num * steps * cell.intercept.den,
                       cell.slope.den * cell.intercept.den, Area(s), Area(k))
  ELSE Round(800 * 4096 + 350 * Area(s) * steps, 4096)

\* A mutant of Heuristic: the ratio is to 512, not to 512 squared.
HeuristicPerRow(s) == 800 + Round(150 * s.batch * s.pixels, 64)

\* 512 x 512 is 4096 tiles.
Heuristic(s) == Round(800 * 4096 + 150 * s.batch * s.pixels, 4096)

vram_gb(s) == IF Calibrated THEN ScaledPeak(s) ELSE Heuristic(s)

-----------------------------------------------------------------------------
NoShape == [pixels |-> 0, batch |-> 0]   \* nothing asked yet

EstInit ==
  /\ entries = <<>>
  /\ asked = NoShape

\* estimate keeps no state, so one call in a behaviour is enough.
Estimate ==
  /\ asked = NoShape
  /\ asked' \in Shapes(entries)
  /\ UNCHANGED entries

-----------------------------------------------------------------------------
\* No line fits the measurements of a cell better than the one of _fit: what it
\* leaves unexplained sums to zero, and does not grow or fall with the steps.
FitIsBest ==
  \A key \in Keys :
    LET I == Positions(key)
        n == Cardinality(I)
        line == Line(key)
        residual == [i \in I |-> n * (line.slope.den * Ys(I)[i] - line.slope.num * Xs(I)[i])
                                   - line.intercept.num]
    IN  (\E i, k \in I : Xs(I)[i] # Xs(I)[k]) =>
          /\ SumFunction(residual) = 0
          /\ SumFunction(Products(residual, Xs(I))) = 0

\* What an estimate is scaled from: the nearest cell, or 512 x 512.
Reference(s) == IF Calibrated THEN Nearest(s) ELSE [pixels |-> 4096, batch |-> 1]

\* However noisy the table, an estimate never falls with the steps, and with more
\* than a tenth of the area it is scaled from each step shows in it; below that
\* the rounding to 0.1 ms may hide a step.
CostGrows ==
  asked # NoShape =>
    \A steps \in 1..3 :
      /\ gpu_ms(asked, steps) <= gpu_ms(asked, steps + 1)
      /\ 10 * Area(asked) > Area(Reference(asked)) =>
           gpu_ms(asked, steps) < gpu_ms(asked, steps + 1)

\* A shape that was measured is never estimated below its measurements.
PeakCovered ==
  \A i \in DOMAIN entries : vram_gb(KeyAt(i)) >= entries[i].vram

\* Admission estimates one image (gateway.py:763) and the dispatcher batches up
\* to MAX_BATCH of them: every shape that is accepted fits the budget in every
\* batch, with the shipped table and with none.
BatchesFit == asked # NoShape => vram_gb(asked) <= Budget
=============================================================================
