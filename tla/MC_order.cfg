CONSTANTS
  None = None
  NUM_GPUS = 1
  MAX_BATCH = 3
  BATCH_WAIT = TRUE
  SCHED_POLICY = "fifo"
  GPU_VRAM_BUDGET_GB = 70
  max_depth <- MCAmple
  tenant_quota <- MCAmple
  Requests <- MCKeys
  Cancellable = {}
  Failing = {}
  MaxJobs = 4
  MaxRejected = 0
SPECIFICATION OrderingSpec
INVARIANTS
  NoOvertaking
  FrontIsOldest
  EdfIsPriority
