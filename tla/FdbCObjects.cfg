\* One client thread, two attributes and values, up to seven calls.
CONSTANTS
    a1 = a1
    a2 = a2
    v1 = v1
    v2 = v2
    Threads = {t1}
    Attrs = {a1, a2}
    Values = {v1, v2}
    ElementKeys <- MCElementKeys
    MaxCalls = 7
SPECIFICATION Spec
INVARIANT MainInitialisedOnce
\* After MaxCalls calls the client stops.
CHECK_DEADLOCK FALSE
