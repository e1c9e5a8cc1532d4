CONSTANTS
    Jobs = {j1, j2}
    Runs = {r1, r2}
    Workers = {w1, w2}
    procurement = procurement
    dynamic = dynamic
    Claimable = {procurement, dynamic}
    Approval = deployment
    Submissions <- MCSubmissions
    Reported = {"running", "completed"}
    Archives <- MCArchives
    None = None
    MaxManual = 1
    MaxRank = 3
SPECIFICATION Spec
SYMMETRY Symmetry
INVARIANT Ownership
INVARIANT IInv
PROPERTY ImplementsLifecycle
