SPECIFICATION FairSpec
CONSTANTS
    NumCases = 1
PROPERTIES
    BatchEnds
