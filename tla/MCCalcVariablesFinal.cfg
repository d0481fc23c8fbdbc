CONSTANTS
  Shape = "final"
  Threads <- MCThreads
  Vars <- MCVars
  Calc <- MCCalc
  Free <- MCFree
  ValueIn <- MCValueIn
  StatusIn <- MCStatusIn
  Notifies <- MCNotifies
  Listed <- MCListed
  Sync <- MCSync
  NoSync = 0
  Writes <- MCWrites
  ValueFormula <- MCValueFormula
  StatusFormula <- MCStatusFormula
  Doubles <- MCDoubles
  Numbers = {0, 1}
  NoValue = NoValue
  Nobody = Nobody
  MaxWrites = 1
SPECIFICATION Spec
CHECK_DEADLOCK FALSE
INVARIANT FinalResultsAreCurrent
