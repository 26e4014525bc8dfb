SPECIFICATION Spec
CONSTANTS
    NumCases = 1
INVARIANTS
    EndpointReturned
