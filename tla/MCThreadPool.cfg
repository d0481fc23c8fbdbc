CONSTANTS
  Workers = {w1, w2}
  Clients = {c1, c2}
  Jobs = {j1, j2, j3}
  MaxJobs = 2
  NoJob = NoJob
  Free = Free
SPECIFICATION FairSpec
INVARIANT JobsHandledOnce
INVARIANT NoLostWakeup
INVARIANT NothingLeftBehind
PROPERTY AcceptedJobsRun
PROPERTY ImplementsService
CHECK_DEADLOCK FALSE
