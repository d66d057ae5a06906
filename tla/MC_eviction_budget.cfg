CONSTANTS
  None = None
  NUM_GPUS = 2
  MAX_BATCH = 2
  BATCH_WAIT = FALSE
  SCHED_POLICY = "priority_preempt"
  GPU_VRAM_BUDGET_GB = 70
  max_depth <- MCAmple
  tenant_quota <- MCAmple
  Requests <- MCOneStep
  Cancellable = {}
  Failing = {}
  MaxJobs = 5
  MaxRejected = 0
SPECIFICATION FairSpec
PROPERTIES
  EvictionBudget
