CONSTANTS
    Jobs = {j1}
    Runs = {r1}
    Workers = {w1, w2}
    Operators = {o1}
    procurement = procurement
    Claimable = {procurement}
    Approval = deployment
    Submissions <- MCSubmissions
    Archives = {}
    Reported = {"running"}
    None = None
    MaxManual = 1
    MaxRank = 2
    MaxAttempts = 3
SPECIFICATION SqlSpec
SYMMETRY SqlSymmetry
PROPERTY OnlyOwnersSettle
