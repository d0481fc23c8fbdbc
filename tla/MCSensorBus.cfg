CONSTANTS
  Sensors <- MCSensors
  Kind <- MCKind
  Nothing = Nothing
SPECIFICATION Spec
INVARIANT RecordIsOwn
PROPERTY CleanReadIsRecorded
PROPERTY ImplementsRound
