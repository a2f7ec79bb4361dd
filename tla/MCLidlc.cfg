SPECIFICATION Spec
CONSTANTS
    Elements <- MCElements
    MaxElements = 3
    MaxImports = 2
INVARIANTS
    StatusTells
    ImportsWork
    OutputsAgree
CHECK_DEADLOCK FALSE
