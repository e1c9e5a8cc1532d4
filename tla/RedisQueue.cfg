CONSTANTS
    Jobs = {j1, j2}
    Runs = {r1}
    Workers = {w1, w2}
    Callers = {c1}
    QueueName = procurement
    Claimable = {procurement}
    Approval = deployment
    Submissions <- MCSubmissions
    Archives = {}
    Reported = {}
    None = None
    MaxManual = 1
    MaxRank = 2
    MaxPops = 2
    MaxUpsets = 1
SPECIFICATION FairRedisSpec
INVARIANT HandedOutAsGranted
PROPERTY QueuedIsClaimed
