SPECIFICATION FairSpec
CONSTANTS
    Clients = {c1}
    Sched = sched
    Timed = {}
    Other = {}
    Backup = "scheduled-backup"
    MaxHistory = 1
    MaxJobs = 6
    Reserve = 4
    MaxFaults = 1
PROPERTIES DueBackupAlwaysRuns
CHECK_DEADLOCK FALSE
