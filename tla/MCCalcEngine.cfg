CONSTANT MaxVariables = 4
SPECIFICATION Spec
INVARIANT NoDanglingVariable
INVARIANT DomainsAreComponents
CHECK_DEADLOCK FALSE
