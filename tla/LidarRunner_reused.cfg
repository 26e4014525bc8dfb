SPECIFICATION Spec
CONSTANTS
    NumTests = 2
    NeedsJetson = {2}
    NeedsNetwork = {2}
    NeedsDevice = {2}
    NeedsStream = {2}
    NeedsRos2 = {1}
    Ros2Configured = TRUE
    Verdicts = {"PASS"}
    DisconnectsAll = TRUE
    MaxWatchers = 1
INVARIANT ReusedStreamIsUserOwned
