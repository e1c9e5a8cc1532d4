CONSTANTS
    Monitors = {m1}
    OnChange = {m1}
    Watchers = {w1, w2}
    Datasets = {1, 2}
    Anomalous = {2}
    Incomplete = {}
    Spend <- MCSpend
    SpendLimit = 20
    BatchLimit = 2
    MaxDispatches = 2
    MaxTroubles = 2
    Ingesters = {w1, w2}
    Configs = {1, 2}
    Keys = {"k1", "k2"}
    KeyOf <- MCKeyOf
    PageSize = 2
    MaxFaults = 2
SPECIFICATION BackgroundSpec
CHECK_DEADLOCK FALSE
INVARIANT AtMostOnce
INVARIANT OutcomesReliable
INVARIANT CursorTellsRecords
PROPERTY DueIsDispatched
PROPERTY ExportConverges
