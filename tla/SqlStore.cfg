CONSTANTS
    Jobs = {j1}
    Runs = {r1}
    Workers = {w1, w2}
    Operators = {o1, o2}
    procurement = procurement
    Claimable = {procurement}
    Approval = deployment
    Submissions <- MCSubmissions
    Archives = {}
    Reported = {"running"}
    None = None
    MaxManual = 1
    MaxRank = 2
    MaxAttempts = 3
    Work <- MCWork
    Attachers = {u1}
    MaxRecords = 4
    MaxRounds = 2
    MaxLosses = 1
    MaxExports = 1
    MaxImports = 1
SPECIFICATION StoreSpec
SYMMETRY SqlSymmetry
CHECK_DEADLOCK FALSE
INVARIANT RowKeepsBoth
INVARIANT ArchivesHoldTogether
PROPERTY SerialJobsKeepLifecycle
