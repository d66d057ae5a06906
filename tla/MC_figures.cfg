CONSTANTS
  None = None
  NUM_GPUS = 1
  MAX_BATCH = 2
  BATCH_WAIT = FALSE
  SCHED_POLICY = "priority_preempt"
  GPU_VRAM_BUDGET_GB = 70
  max_depth <- MCAmple
  tenant_quota <- MCQuota
  Requests <- MCPreempt
  Cancellable = {1}
  Failing = {}
  MaxJobs = 2
  MaxRejected = 1
  keep_done = 2
  MaxTime = 2
  Reading = 6
  Tenth = 5
  SLO = 1
SPECIFICATION BenchSpec
INVARIANTS
  BenchTypeOK
  DispatchLedger
  SpansMeasured
  ResponseAgrees
  RunTotalsTrue
  ReportAgrees
  CountersAgree
