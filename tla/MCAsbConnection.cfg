SPECIFICATION FairSpec
CONSTANTS
    t1 = t1
    t2 = t2
    l1 = l1
    l2 = l2
    Monitor = Monitor
    Nobody = Nobody
    Apps = {t1, t2}
    Listeners = {l1, l2}
    MaxCalls = 3
INVARIANTS TypeOK SingleJoiner MonitorEndsFirst NoLostWakeup ToldEachChangeOnce
PROPERTIES PromptShutdown
CHECK_DEADLOCK FALSE
