CONSTANTS
    extract = extract
    load = load
    report = report
    Nodes = {load}
    Plan <- MCSingle
    Deps <- MCDeps
    Gated = {}
    Drivers = {d1, d2}
    MaxAttempts = 2
    MaxCalls = 3
    MaxTogether = 3
    MaxCrashes = 0
    None = None
SPECIFICATION Spec
CHECK_DEADLOCK FALSE
PROPERTY CompletedNotRestarted
