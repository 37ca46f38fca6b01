SPECIFICATION Spec
CONSTANTS
    t1 = t1
    t2 = t2
    l1 = l1
    l2 = l2
    Monitor = Monitor
    Nobody = Nobody
    Apps = {t1, t2}
    Listeners = {l1, l2}
    MaxCalls = 3
PROPERTIES GreetedWithCurrentState
CHECK_DEADLOCK FALSE
