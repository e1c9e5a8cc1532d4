CONSTANTS
    Sessions = {p1, p2}
    Estimates = {3}
    Charges = {1, 4}
    MonthlyCap = 6
    RunCap = 5
    MaxCalls = 2
    MaxRequests = 3
    MaxMonths = 2
    MaxFailures = 1
    Deployments = {d1, d2}
    Approvers = {c1, c2}
    MaxDecisions = 3
    MaxBreaks = 1
    Preferred <- MCPreferred
    Unpreferred = {"monthly_trend"}
    MaxNames = 3
    MaxFollowups = 2
    MaxTries = 2
    Extensions <- MCExtensions
    Places = {"inside", "outside"}
    MetadataKeys = {"pii", "secret"}
    Sources = {a1, a2}
    Threads = {t1, t2}
    Watcher = Watcher
    MaxSources = 1
    Datasets = {"orders", "invoices", "sensors"}
    Ready = {"orders", "invoices"}
    MaxAttached = 2
    MaxExecutions = 2
    MaxInterruptions = 1
    MaxAttempts = 2
    Askers = {q1, q2}
    Questions = {"why"}
    Allowance = 1
    Openers = {o1, o2}
    MaxVersions = 2
    MaxDeaths = 1
    Reviewers = {i1, i2}
    Rows = {1}
    MaxUpdates = 3
    MaxAnalyses = 1
    NodeIds = {n1, n2, n3}
    MaxNodes = 3
    Sheets <- MCSheets
    Entries <- MCEntries
    RowLimit = 2
    MaxEdits = 1
    Environments <- MCEnvironments
    Secrets = {{}, {"login"}, {"account", "login"}, {"stored"}}
    ObjectBackend = TRUE
    Testers = {y1, y2}
    MaxRotations = 1
    FetchLimit = 2
    Posted <- MCPosted
    MaxAlterations = 1
SPECIFICATION ServicesSpec
CHECK_DEADLOCK FALSE
INVARIANT WithinCaps
INVARIANT RecordsAgree
INVARIANT EvidenceSound
INVARIANT ExtensionNeverLoosens
INVARIANT AcknowledgedSurvive
INVARIANT SteadyDelivery
INVARIANT DeliverablesTraced
INVARIANT PlansFitData
INVARIANT ResultsReliable
INVARIANT DownloadsSound
INVARIANT CasesAsDecided
INVARIANT ValidationDecidesCycles
 
 
INVARIANT ReadAsValidated
