SPECIFICATION MCSpec
CONSTANTS
    NumTests = 2
    Telemetry = {"system_metrics"}
    Adaptive = {1}
    Approximate = {}
    Baselines = {"below", "at"}
    Decisions = {"PASS"}
    NumAttempts = 2
    Total = 3
    MaxPosted = 1
    MaxStale = 2
    MaxAbandoned = 1
INVARIANTS
    TestsTypeOK
    NothingLeftRunning
    EveryAttemptJudged
    AutoTestIsSupervised
    LoadIsJustified
    OneSoundAtATime
    ActiveIsUnderWay
PROPERTIES
    FirstCauseDecides
    AttemptEnds
    AudioEnds
    BluetoothPlanEnds
    TestsLeaveNoStream
    StreamIsLeftKnowingly
    StopIsAnswered
CHECK_DEADLOCK FALSE
