SPECIFICATION Spec
CONSTANTS
    NumTests = 2
    Telemetry = {"system_metrics"}
    Adaptive = {1}
    Approximate = {}
    Baselines = {"below", "at"}
    Decisions = {"PASS"}
    NumAttempts = 2
PROPERTIES
    ReviewJudgesShown
CHECK_DEADLOCK FALSE
