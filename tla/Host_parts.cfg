SPECIFICATION HostSpec
CONSTANTS
    k1 = k1
    k2 = k2
    p = p
    Writers = {w1}
    Keys = {k1, k2, k3}
    Values = {v1}
    None = None
    Under <- Prefix
    CompactSize = 3
    History = 2
    MaxWrites = 5
    MaxCrashes = 1
    VApps = {"app1"}
    VWriters = {w}
    Phrases = {e1, e2}
    First = First
    NoKey = NoKey
    MaxTime = 1
    MaxKept = 1
    MaxAccidents = 1
    Tickers = {"kelsod", "cli"}
    CronJobs <- TwoJobs
    NoTime = NoTime
    Minutes = 2
    Hours = 2
    Days = 3
    Months = 2
    Week = 2
    SetBack = 4
    CronEnd = 8
    BulkOn = FALSE
    Kelsod = 1
    Keep <- KeepOne
    Period <- Periods
    Runners = {1, 2}
    MaxUnits = 2
    MaxSnaps = 3
    MaxTrouble = 1
    IdleAfter = 2
    MaxSessions = 2
    MaxMishaps = 1
    Hands = {1, 2}
    Mirrors = {"r1", "r2"}
    Volumes = {"v"}
    Providers = {"p"}
    Settings = {1}
    MaxTip = 4
    MaxVerbs = 3
    MaxFaults = 1
    Editors = {1, 2}
    Texts = {1, 2, 3}
    MaxEdits = 3
    MaxMoves = 2
    Recorders = {1, 2}
    KeepRuns = 2
    MaxRuns = 4
    MaxSeconds = 2
    MaxDeaths = 1
INVARIANTS KeepsHistory NoSecretLost SecretsCurrent ThinsAsIfAll 
    ConfigKeeps RecordTrue LogsKept OncePerTime NoneLeftDue
PROPERTIES IsKeyTable CleanCommits
SYMMETRY Alike
CHECK_DEADLOCK FALSE
