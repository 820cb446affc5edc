SPECIFICATION FairSpec
CONSTANTS
    Clients = {c1}
    Sched = sched
    Timed = {"host-metrics"}
    Other = {}
    Backup = "scheduled-backup"
    MaxHistory = 2
    MaxJobs = 6
    Reserve = 3
    MaxFaults = 1
INVARIANTS NoLostJob OneScheduled ThreadOrder
PROPERTIES JobsFinish DueBackupRuns
CHECK_DEADLOCK FALSE
