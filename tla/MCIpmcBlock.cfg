CONSTANTS
  LastCell = 5
  SeqMod = 3
  MaxWrites = 5
  NBytes = 2
  Truncates = FALSE
SPECIFICATION BlockSpec
INVARIANT RecordIsOneWrite
