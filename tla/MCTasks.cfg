CONSTANTS
    relayed = relayed
    plain = plain
    Callers = {relayed, plain}
    Depth <- MCDepth
    Waits = 1
    HeapSize = 21
SPECIFICATION Spec
CHECK_DEADLOCK FALSE
INVARIANTS TypeOK LinksHold AnswersArrive
PROPERTIES CallsEnd
