CONSTANTS
  NUM_GPUS = 3
  Hanging = {1}
SPECIFICATION FairStartupSpec
CHECK_DEADLOCK FALSE
INVARIANTS
  ServesOnlyLoaded
PROPERTIES
  StartupEnds
