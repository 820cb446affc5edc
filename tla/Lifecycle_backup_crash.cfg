SPECIFICATION Spec
CONSTANTS
    kelsod = kelsod
    shell = shell
    a1 = a1
    a2 = a2
    Apps = {a1, a2}
    Procs = {kelsod, shell}
    NoProc = NoProc
    NoApp = NoApp
    Group <- StartOrder
    Scenes <- BackupCrash
INVARIANTS ResumeRestores
