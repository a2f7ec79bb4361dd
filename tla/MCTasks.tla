-------------------------------- MODULE MCTasks --------------------------------
EXTENDS Tasks
CONSTANTS relayed, plain
MCDepth == [c \in Callers |-> IF c = relayed THEN 2 ELSE 1]
=============================================================================
