CONSTANTS
    Procs = {"value", "view", "string", "vector", "struct", "strings"}
    Args = {1, 2}
    Count = 2
    Junk = {2, 4}
    Depth = 3
    Capacity = 40
    MaxCalls = 2
SPECIFICATION Spec
CHECK_DEADLOCK FALSE
INVARIANTS TypeOK ResultsArrive
PROPERTIES CallsReturn
