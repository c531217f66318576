SPECIFICATION FairSpec
CONSTANTS
    remind = remind
    work = work
    report = report
    Machines = {m1, m2}
    Savers = {s1}
    Tasks = {remind, work, report}
    Kind <- KindOf
    Repeats <- RepeatsOf
    Times <- TimesOf
    StaleAfter = 0
    MaxDuePerTick = 1
    MaxTime = 3
    MaxCreated = 1
    MaxEdits = 1
    MaxSaves = 1
    MaxFaults = 1
INVARIANTS
    ToldOnce
PROPERTIES
    DueIsFired
    EndIsTold
CHECK_DEADLOCK FALSE
