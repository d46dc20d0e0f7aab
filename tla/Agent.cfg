SPECIFICATION AgentSpec
CONSTANTS
    Calls = {c1, c2}
    Budget = 9000
    Attempts = 3
    MaxOutput = 500
    Prompts <- Plain
    Outputs = {0, 500}
    Penalty = 500
    Silent = FALSE
    Faults = {"crash", "settle", "trace", "recalibrate"}
SYMMETRY Symmetry
INVARIANTS HardCap  QuietAfterDecision RunIsRecorded
CHECK_DEADLOCK FALSE
