CONSTANT Interfaces <- All
CONSTANT MaxDepth = 8
SPECIFICATION BackendSpec
CHECK_DEADLOCK FALSE
INVARIANTS CompleteWhenUsed FailsOnRecursion
PROPERTY NoneAddedMeanwhile
