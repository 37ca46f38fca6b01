SPECIFICATION FairSpec
CONSTANTS
    t1 = t1
    t2 = t2
    l1 = l1
    l2 = l2
    Bg = Bg
    NoThread = NoThread
    Apps = {t1, t2}
    Listeners = {l1, l2}
    Depth = 2
    Caps = {0, 1}
    Calls = {"add", "remove", "read"}
    Tags = {"good"}
    MaxSamples = 2
    MaxCalls = 3

PROPERTY NullptrPutsToSleep
CHECK_DEADLOCK FALSE
