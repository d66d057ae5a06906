---------------------------- MODULE MCEstimation ----------------------------
(***************************************************************************)
(* Tables, shapes and measurements for TLC.                                *)
(***************************************************************************)
EXTENDS Calibration

Entry(p, b, s, t, v) == [pixels |-> p, batch |-> b, steps |-> s, total |-> t, vram |-> v]

\* All tables of up to three measurements of one cell, or of two cells.
MCEntries == {Entry(4096, 1, s, t, v) : s \in 1..3, t \in {0, 10, 40}, v \in {327, 371}}
               \cup {Entry(9216, 1, 1, 10, 407)}
MCTables == UNION {[1..n -> MCEntries] : n \in 1..3}
MCFewShapes == {[pixels |-> p, batch |-> b] : p \in {4096, 12000}, b \in {1, 2}}

\* calibration.json: 512 and 768 square, batches of 1, 2 and 4, steps 1, 2, 4.
MCShipped == <<
  Entry(4096, 1, 1, 652, 327),  Entry(4096, 1, 2, 832, 327),  Entry(4096, 1, 4, 1279, 327),
  Entry(4096, 2, 1, 838, 371),  Entry(4096, 2, 2, 1091, 371), Entry(4096, 2, 4, 1524, 371),
  Entry(4096, 4, 1, 1229, 478), Entry(4096, 4, 2, 1451, 478), Entry(4096, 4, 4, 1894, 478),
  Entry(9216, 1, 1, 961, 407),  Entry(9216, 1, 2, 1184, 407), Entry(9216, 1, 4, 1645, 407),
  Entry(9216, 2, 1, 1656, 505), Entry(9216, 2, 2, 1874, 505), Entry(9216, 2, 4, 2323, 505),
  Entry(9216, 4, 1, 2993, 747), Entry(9216, 4, 2, 3337, 747), Entry(9216, 4, 4, 4052, 747)>>
MCFiles == {<<>>, MCShipped}
MCCalibrations == MCFiles \cup MCTables

\* Widths and heights from 256 to 1024 in steps of 8, batches up to MAX_BATCH.
MCShapes == {[pixels |-> w * h, batch |-> b] : w \in 32..128, h \in 32..128, b \in 1..4}
MCLargest == [pixels |-> 128 * 128, batch |-> 4]
MCShapesOf(table) == IF table \in MCFiles THEN MCShapes ELSE MCFewShapes

\* A sweep on the machine of the shipped table.
MCMeasurements(m) == {e \in Range(MCShipped) : Measured(e) = m}
=============================================================================
