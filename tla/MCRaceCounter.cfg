SPECIFICATION Spec
CONSTANTS
  Arguments <- SomeArguments
  INT_MAX = 7
INVARIANTS NoneLost FinalCount
