CONSTANTS
  Literals <- MCLiterals
  Names <- MCNames
  Functions <- MCFunctions
  MaxExponent = 4
  Vocabularies <- MCVocabularies
  Environments <- MCEnvironments
  Identifiers = {"_", "-", "a.b"}
  NameLike = {"_"}
  DottedNames = {"a.b"}
  OperatorLike = {"_", "-"}
  InfixLike = {"_", "-"}
  BuiltIn = {"-"}
  MaxDefinitions = 2
SPECIFICATION FormulasSpec
CHECK_DEADLOCK FALSE
INVARIANT AcceptsOnlyFormulas
INVARIANT RefusesOnlyMalformed
INVARIANT ResultIsRight
INVARIANT StackFits
INVARIANT CodeIsCurrent
INVARIANT CallbacksAreRead
