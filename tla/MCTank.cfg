SPECIFICATION Spec
CONSTANTS
  Values <- TwoValues
  Capacities <- SomeCapacities
  Indices <- SomeIndices
  MaxItems = 5
CHECK_DEADLOCK FALSE
INVARIANTS TankTypeOK HeapExact DefinedUnlessCopied HalfUsed
PROPERTIES NoThrashing ImplementsArray
