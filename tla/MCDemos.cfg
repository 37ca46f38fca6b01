SPECIFICATION Spec
CONSTANTS
    s1 = s1
    c1 = c1
    c2 = c2
    Services = {s1}
    Clients = {c1, c2}
    Apps = {s1, c1, c2}
    Topics <- MCTopics
    Unlimited = Unlimited
    Stranger = Stranger
    NoActivity = NoActivity
    MaxLoad = 2
INVARIANTS StopFromInformed ClientSuccess OneSampleIsEnough CleanExit
CHECK_DEADLOCK FALSE
