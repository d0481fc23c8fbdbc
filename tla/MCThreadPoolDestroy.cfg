CONSTANTS
  Workers = {w1}
  Clients = {c1}
  Jobs = {j1, j2}
  MaxJobs = 2
  NoJob = NoJob
  Free = Free
SPECIFICATION FairSpec
PROPERTY DestructorReturns
CHECK_DEADLOCK FALSE
