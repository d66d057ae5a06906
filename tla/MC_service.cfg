CONSTANTS
  None = None
  NUM_GPUS = 1
  MAX_BATCH = 2
  BATCH_WAIT = TRUE
  SCHED_POLICY = "priority_preempt"
  GPU_VRAM_BUDGET_GB = 70
  max_depth <- MCOne
  tenant_quota <- MCQuota
  Requests <- MCTwoTenants
  Cancellable = {1}
  Failing = {0}
  MaxJobs = 3
  MaxRejected = 1
  keep_done = 1
  MaxTime = 0
SPECIFICATION FairTracingSpec
INVARIANTS
  TraceFollowsJob
  TracesFound
  QuotaExact
  DepthBound
  NoLostWakeup
PROPERTIES
  EveryRequestAnswered
  ImplementsLifecycle
