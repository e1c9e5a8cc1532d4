CONSTANTS
    Scans = {s1}
    RunIds = {r1}
    Screeners = {w1, w2}
    Rows = 3
    Checkpoint = 2
    Content <- MCContent
    Nobody = Nobody
    MaxMishaps = 5
SPECIFICATION FairRiskSpec
CHECK_DEADLOCK FALSE
INVARIANT LedgerAgrees
INVARIANT ResultWhole
PROPERTY CancelHonoured
PROPERTY ScanSettles
