CONSTANTS
  t1 = t1
  t2 = t2
  w1 = w1
  w2 = w2
  None = None
  Variables = {"a", "b"}
  Mode <- MCMode
  MutexOf <- MCMutexOf
  Transactions = {"R", "W"}
  Asks <- MCAsks
  Overlap = FALSE
  Threads = {t1, t2}
  Workers = {w1, w2}
  MaxJobs = 1
SPECIFICATION Spec
INVARIANT AnsweredOnce
INVARIANT JobsFindTheirDevices
INVARIANT CleanExit
PROPERTY TakenIsAnswered
PROPERTY SignalEnds
CHECK_DEADLOCK FALSE
