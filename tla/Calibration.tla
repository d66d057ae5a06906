---------------------------- MODULE Calibration -----------------------------
(***************************************************************************)
(* calibrate.py and the file it leaves for the estimator: a sweep measures *)
(* every cell at every number of steps and then writes the table at once.  *)
(* It may be killed at any moment, and a gateway may be started beside it, *)
(* which loads what it finds.                                              *)
(***************************************************************************)
EXTENDS Estimation

CONSTANTS
  Calibrations,     \* tables that may lie there before, <<>> for no file
  Recalibrated,     \* bound: those of them that a sweep may replace
  Measurements(_),  \* what may be measured
  Torn,             \* a file whose JSON is not complete
  Largest           \* the largest size a request may ask for, in a batch of MAX_BATCH

ASSUME TornAssumption == Torn \notin Calibrations

VARIABLES
  previous,   \* the table before the sweep
  file,       \* calibration.json
  measured,   \* the sweep's entries
  sweep,      \* "off", "measuring", "writing", "done" or "killed"
  gateway     \* "off", "up" or "failed"

calVars == <<estVars, previous, file, measured, sweep, gateway>>

resolutions == <<4096, 9216>>   \* 512 and 768 square, in tiles
batches     == <<1, 2, 4>>
steps_list  == <<1, 2, 4>>

Measured(e) == [pixels |-> e.pixels, batch |-> e.batch, steps |-> e.steps]

\* The loops of the sweep: resolution, then batch, then steps.
SweepLength == Len(resolutions) * Len(batches) * Len(steps_list)
Measurement(n) ==
  [pixels |-> resolutions[1 + (n - 1) \div (Len(batches) * Len(steps_list))],
   batch  |-> batches[1 + (((n - 1) \div Len(steps_list)) % Len(batches))],
   steps  |-> steps_list[1 + ((n - 1) % Len(steps_list))]]

\* Tables and sweeps are of positive sizes, batches and steps, and what is asked
\* of a table is too.
ASSUME TablesAssumption ==
  /\ Calibrations \subseteq Seq(Point)
  /\ \A table \in Calibrations : Shapes(table) \subseteq Shape
  /\ \A n \in 1..SweepLength : \A e \in Measurements(Measurement(n)) :
       e \in Point /\ Measured(e) = Measurement(n)

\* Nothing larger is asked of a table.
ASSUME LargestAssumption ==
  /\ Largest \in Shape
  /\ \A table \in Calibrations : \A s \in Shapes(table) :
       s.pixels <= Largest.pixels /\ s.batch <= Largest.batch

\* Before rounding, every measurement scaled to the largest shape fits the budget,
\* and so does the heuristic at that shape.
ASSUME BudgetAssumption ==
  /\ Budget \in Nat
  /\ 800 * 4096 + 150 * Largest.batch * Largest.pixels <= Budget * 4096
  /\ \A table \in Calibrations : \A i \in DOMAIN table :
       LET e == table[i]
       IN  e.vram * Larger(Largest.pixels, e.pixels) * Larger(Largest.batch, e.batch)
             <= Budget * (e.pixels * e.batch)

CalInit ==
  /\ EstInit
  /\ previous \in Calibrations
  /\ file = previous
  /\ measured = <<>>
  /\ sweep \in {"off", "measuring"}
  /\ sweep = "measuring" => previous \in Recalibrated
  /\ gateway = "off"

\* A mutant of Measure: the file follows the sweep entry by entry.
MeasureAndWrite ==
  /\ sweep = "measuring"
  /\ Len(measured) < SweepLength
  /\ \E e \in Measurements(Measurement(Len(measured) + 1)) : measured' = Append(measured, e)
  /\ file' = measured'
  /\ UNCHANGED <<estVars, previous, sweep, gateway>>

Measure ==
  /\ sweep = "measuring"
  /\ Len(measured) < SweepLength
  /\ \E e \in Measurements(Measurement(Len(measured) + 1)) : measured' = Append(measured, e)
  /\ UNCHANGED <<estVars, previous, file, sweep, gateway>>

\* open(..., "w") empties the file that was there.
Open ==
  /\ sweep = "measuring"
  /\ Len(measured) = SweepLength
  /\ sweep' = "writing"
  /\ file' = Torn
  /\ UNCHANGED <<estVars, previous, measured, gateway>>

Close ==
  /\ sweep = "writing"
  /\ sweep' = "done"
  /\ file' = measured
  /\ UNCHANGED <<estVars, previous, measured, gateway>>

Kill ==
  /\ sweep \in {"measuring", "writing"}
  /\ sweep' = "killed"
  /\ UNCHANGED <<estVars, previous, file, measured, gateway>>

\* CostEstimator(): json.load raises on a torn file and the gateway does not start.
Load ==
  /\ gateway = "off"
  /\ IF file = Torn THEN gateway' = "failed" /\ UNCHANGED entries
                    ELSE gateway' = "up" /\ entries' = file
  /\ UNCHANGED <<asked, previous, file, measured, sweep>>

\* Estimates do not touch the file, so they are asked only where nobody sweeps.
Ask ==
  /\ gateway = "up"
  /\ sweep = "off"
  /\ Estimate
  /\ UNCHANGED <<previous, file, measured, sweep, gateway>>

CalNext == Measure \/ Open \/ Close \/ Kill \/ Load \/ Ask

CalSpec == CalInit /\ [][CalNext]_calVars

-----------------------------------------------------------------------------
\* However the sweep ends and whenever a gateway starts, the table it loads is
\* the one from before or one with every cell at every number of steps: no cell
\* is fitted from part of a sweep (calibrate.py:47-78, CostEstimator._fit).
LoadsWholeTables ==
  gateway = "up" =>
    \/ entries = previous
    \/ {Measured(entries[i]) : i \in DOMAIN entries} =
         [pixels : Range(resolutions), batch : Range(batches), steps : Range(steps_list)]
=============================================================================
