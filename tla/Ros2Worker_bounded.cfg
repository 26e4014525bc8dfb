SPECIFICATION FairSpec
CONSTANTS
    NumRequests = 2
PROPERTIES
    RequestsAreBounded
CHECK_DEADLOCK FALSE
