CONSTANTS
  None = None
  NUM_GPUS = 1
  MAX_BATCH = 1
  BATCH_WAIT = FALSE
  SCHED_POLICY = "priority_preempt"
  GPU_VRAM_BUDGET_GB = 70
  max_depth <- MCAmple
  tenant_quota <- MCAmple
  Requests <- MCPreempt
  Cancellable = {}
  Failing = {}
  MaxJobs = 2
  MaxRejected = 0
  keep_done = 2
  MaxTime = 2
SPECIFICATION TimedSpec
INVARIANTS
  SpansAddUp
