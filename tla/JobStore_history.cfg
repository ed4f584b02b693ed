SPECIFICATION FairSpec
CONSTANTS
    MaxJobs = 2
    Asked = {"running", "dry_run", "failed", "succeeded"}
    JobCap = 1
    EventCap = 2
    Limit = 1
    MaxFaults = 2
    MaxRestarts = 2
INVARIANTS
    TypeOK
    VerdictMatchesExit
    EndedIsFinal
    HistoryIsNewest
    SeqsNotReused
PROPERTIES
    WorkMovesOn
CHECK_DEADLOCK FALSE
