SPECIFICATION Spec
CONSTANTS
    VApps = {"app1"}
    VWriters = {w}
    Phrases = {e1, e2}
    First = First
    NoKey = NoKey
    MaxTime = 1
    MaxKept = 1
    MaxAccidents = 1
INVARIANT RekeyUndoable
CHECK_DEADLOCK FALSE
