SPECIFICATION FairSpec
CONSTANTS
    NumTests = 3
    NeedsJetson = {2}
    NeedsNetwork = {2}
    NeedsDevice = {2}
    NeedsStream = {2}
    NeedsRos2 = {3}
    Ros2Configured = FALSE
    Verdicts = {"PASS"}
    DisconnectsAll = TRUE
    MaxWatchers = 1
INVARIANTS
    TypeOK
    CaseTimerFollowsTest
    OneTestAtATime
    FinishedPlanIsComplete
    NoRunnerStreamLeftRunning
PROPERTIES
    UserStreamStoppedByUserOnly
    VerdictsAreFinal
    PlanEnds
