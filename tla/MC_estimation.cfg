CONSTANTS
  Calibrations <- MCCalibrations
  Recalibrated <- MCFiles
  Measurements <- MCMeasurements
  Torn = Torn
  Largest <- MCLargest
  Shapes <- MCShapesOf
  Budget = 7000
SPECIFICATION CalSpec
CHECK_DEADLOCK FALSE
INVARIANTS
  FitIsBest
  PeakCovered
  CostGrows
  BatchesFit
  LoadsWholeTables
