SPECIFICATION Spec
CONSTANTS
    app1 = app1
    app2 = app2
    tag1 = tag1
    None = None
    Outsider = Outsider
    Manual = Manual
    Apps <- MCApps
    Tags <- MCTags
    Labels <- MCLabels
    DefaultLabel <- MCDefaultLabel
    Default <- MCDefault
    Assignments <- MCAssignments
    PortBase = 10
    PortRangeSize = 2
    Scenes <- Restored
INVARIANT
    StaysTracked
