CONSTANTS
  None = None
  NUM_GPUS = 2
  MAX_BATCH = 2
  BATCH_WAIT = TRUE
  SCHED_POLICY = "priority_preempt"
  GPU_VRAM_BUDGET_GB = 70
  max_depth <- MCAmple
  tenant_quota <- MCQuota
  Requests <- MCPreempt
  Cancellable = {1}
  Failing = {}
  MaxJobs = 3
  MaxRejected = 0
  Mortal = {0}
SPECIFICATION FairLifespanSpec
CHECK_DEADLOCK FALSE
INVARIANTS
  LossBounded
PROPERTIES
  OthersAnswered
  StopEnds
