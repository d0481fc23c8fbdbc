CONSTANTS
  Shape = "inner"
  Threads <- MCThreads
  Vars <- MCVars
  Calc <- MCCalc
  Free <- MCFree
  ValueIn <- MCValueIn
  StatusIn <- MCStatusIn
  Notifies <- MCNotifies
  Listed <- MCListed
  Sync <- MCSync
  NoSync = 0
  Writes <- MCWrites
  ValueFormula <- MCValueFormula
  StatusFormula <- MCStatusFormula
  Doubles <- MCDoubles
  Numbers = {0, 1}
  NoValue = NoValue
  Nobody = Nobody
  MaxWrites = 2
SPECIFICATION FairSpec
INVARIANT SettledIsConsistent
INVARIANT UpdatedByOneThread
INVARIANT EmptyPropagates
CHECK_DEADLOCK FALSE
PROPERTY SetValueReturns
