SPECIFICATION MCSpec
CONSTANTS
  Names <- MCNames
  CacheVariables <- MCCacheVariables
  Formulas <- MCFormulas
  GenericIds = {"g", "h"}
  GenericFormulas <- MCGenericFormulas
  Digits <- MCDigits
  RootAddress <- MCRootAddress
  Half <- MCHalf
  WrittenNumbers <- MCNumbers
  MaxDepth = 2
  MaxObjects = 2
  MaxVariables = 2
  MaxLength = 24
  Started <- MCStarted
CHECK_DEADLOCK FALSE
INVARIANT FormulasReadWhatTheyName
INVARIANT VariablesHaveOneAddress
INVARIANT InitialValuesArrive
INVARIANT LoadedIsWritten
PROPERTY ElaborationEnds
