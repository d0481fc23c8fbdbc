CONSTANTS
  Sensors <- MCSensors
  Kind <- MCKind
  Nothing = Nothing
  Channels <- MCChannels
  Temperatures <- MCTemperatures
  Fallible <- MCFallible
  FpgaRows <- MCFpgaRows
  KeyOf <- MCKeyOf
  BaseName <- MCBaseName
  Lower <- MCLower
  Missing = Missing
  Garbage = Garbage
SPECIFICATION Spec
INVARIANT PresentModuleIsWhole
INVARIANT PowerIsOfThisCycle
INVARIANT ZynqIsOfThisCycle
INVARIANT PublishedIsConverted
INVARIANT PrintFits
CHECK_DEADLOCK FALSE
