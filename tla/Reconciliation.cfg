SPECIFICATION ReconciliationFairSpec
CONSTANTS
    e1 = e1
    e2 = e2
    i1 = i1
    i2 = i2
    i3 = i3
    i4 = i4
    s1 = s1
    s2 = s2
    Imports = {e1, e2, i1, i2, i3, i4}
    Mode <- ModeOf
    Provider <- ProviderIs
    Export <- Reported
    PeriodStart = 1
    ZepReports = TRUE
    PullSize = 1
    Runs = {r1}
    Requests <- Asked
    Earlier <- Before
    UsageRows <- Written
    BatchSize = 1
    Cent = 2
    Dollar = 100
    MaxImports = 3
    MaxFailures = 2
    Null = Null
INVARIANTS
    NothingMissed
    QuietReportIsTrue
    CompletedIsWhole
PROPERTIES
    CreatedIsClosed
CHECK_DEADLOCK FALSE
