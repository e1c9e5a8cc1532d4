CONSTANTS
    Jobs = {j1, j2}
    Runs = {r1}
    Workers = {w1}
    Clients = {c1}
    procurement = procurement
    dynamic = dynamic
    Claimable = {procurement, dynamic}
    Dynamic = dynamic
    Rotation <- MCRotation
    Budgets = {2}
    Approval = deployment
    Submissions <- MCSubmissions
    Archives = {}
    Reported = {"queued", "running", "completed", "failed", "waiting_for_approval"}
    None = None
    Modes = {TRUE}
    MaxManual = 0
    MaxRank = 2
    MaxCrashes = 1
SPECIFICATION FairPool
INVARIANT NoStarvation
PROPERTY JobsEnd
