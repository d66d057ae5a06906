CONSTANTS
  None = None
  NUM_GPUS = 2
  MAX_BATCH = 1
  BATCH_WAIT = FALSE
  SCHED_POLICY = "priority_preempt"
  GPU_VRAM_BUDGET_GB = 70
  max_depth <- MCAmple
  tenant_quota <- MCAmple
  Requests <- MCPreempt
  Cancellable = {}
  Failing = {}
  MaxJobs = 4
  MaxRejected = 0
  keep_done = 1
  MaxTime = 0
SPECIFICATION TracingSpec
INVARIANTS
  EvictionsSuffice
  EvictionsProportional
  StaleSignalIgnored
PROPERTIES
  EvictionBudget
