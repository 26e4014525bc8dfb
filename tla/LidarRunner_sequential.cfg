SPECIFICATION Spec
CONSTANTS
    NumTests = 3
    NeedsJetson = {2}
    NeedsNetwork = {2}
    NeedsDevice = {2}
    NeedsStream = {2}
    NeedsRos2 = {3}
    Ros2Configured = TRUE
    Verdicts = {"PASS"}
    DisconnectsAll = TRUE
    MaxWatchers = 1
INVARIANT AtMostOneRunning
