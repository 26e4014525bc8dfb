SPECIFICATION Spec
CONSTANTS
    Total = 3
    MaxPosted = 1
PROPERTY FailedCycleIsNotTheLast
CHECK_DEADLOCK FALSE
