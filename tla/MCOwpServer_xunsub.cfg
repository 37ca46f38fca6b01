SPECIFICATION Spec
CONSTANTS
    c1 = c1
    c2 = c2
    x1 = x1
    x2 = x2
    s1 = s1
    t1 = t1
    m1 = m1
    m2 = m2
    NoClient = NoClient
    NoKind = NoKind
    Clients = {c1}
    Streams = {x1}
    SubIds = {s1}
    Topics = {t1}
    Names = {m1, m2}
    Patterns <- MCPatterns
    MaxCommands = 3
    MaxSamples = 2
    MaxBacklog = 3
INVARIANT ConcreteHasStream
CHECK_DEADLOCK FALSE
