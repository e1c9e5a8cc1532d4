CONSTANTS
    Jobs = {j1}
    Runs = {r1}
    Workers = {w1, w2}
    Clients = {c1}
    procurement = procurement
    dynamic = dynamic
    Claimable = {procurement, dynamic}
    Dynamic = dynamic
    Rotation <- MCRotation
    Budgets = {2}
    Approval = deployment
    Submissions <- MCSubmissions
    Archives = {}
    Reported = {"queued", "running", "completed", "failed", "waiting_for_approval"}
    None = None
    Modes = {TRUE, FALSE}
    MaxManual = 1
    MaxRank = 1
    MaxCrashes = 1
SPECIFICATION PoolSpec
SYMMETRY PoolSymmetry
CHECK_DEADLOCK FALSE
INVARIANT AttemptsFenced
 
