CONSTANTS
    extract = extract
    load = load
    report = report
    Nodes = {extract, load, report}
    Plan <- MCPlan
    Deps <- MCDeps
    Gated = {load}
    Drivers = {d1, d2}
    MaxAttempts = 2
    MaxCalls = 4
    MaxTogether = 2
    MaxCrashes = 1
    None = None
SPECIFICATION Spec
CHECK_DEADLOCK FALSE
INVARIANT NodesInOrder
INVARIANT ApprovalsHold
PROPERTY ImplementsRunLifecycle
SYMMETRY Interchangeable
