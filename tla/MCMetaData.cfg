CONSTANTS
  Absent = Absent
  Upper <- MCUpper
  MaxComponents = 2
  Backends <- MCBackends
  Threads = {t1}
  t1 = t1
  Registrations <- MCRegistrations
  Unregistered = {"Calcvars"}
  Texts = {"TRC", "warning", "loud", "no text"}
  NotText = "no text"
  ConfigTexts = {"INF", "ERR"}
  Pools <- MCPools
  MaxEntries = 2
  MaxWrites = 2
SPECIFICATION Spec
INVARIANT OneHandlePerName
INVARIANT ShownIsInUse
INVARIANT SaneLevelsApply
INVARIANT NothingStaysLinked
CHECK_DEADLOCK FALSE
