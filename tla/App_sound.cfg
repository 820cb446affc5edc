SPECIFICATION AppSpec
CONSTANTS
    app1 = app1
    app2 = app2
    tag1 = tag1
    None = None
    Outsider = Outsider
    Manual = Manual
    Apps <- MCApps
    Tags <- MCTags
    Labels <- MCLabels
    DefaultLabel <- MCDefaultLabel
    Default <- MCDefault
    Assignments <- MCAssignments
    PortBase = 10
    PortRangeSize = 2
    Scenes <- Sound
    manifest <- MCManifests
    DefaultProviders <- MCDefaultProviders
    HostTags = {"nas"}
    RouteTags = {"proxy"}
    Vanishing = {"data", "docker.admin"}
    Unset = Unset
    MaxActs = 3
    MaxTurns = 2
    Ids = {"a"}
    Repos = {"r1", "r2"}
    Procs = {1, 2}
    Kelsod = 2
    Nowhere = Nowhere
    MaxVerbs = 3
    MaxChanges = 2
    MaxCrashes = 1
INVARIANTS
    PortsApart
    LiveTracked
    RoutesReach
    StartsWhole
    SourceKept
PROPERTY
    OwnersKept
