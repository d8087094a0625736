CONSTANTS
    h1 = h1
    h2 = h2
    h3 = h3
    s1 = s1
    s2 = s2
    k1 = k1
    k2 = k2
    None = None
    Handlers = {h1, h2}
    Sessions = {s1}
    ToolIds = {"x"}
    Callables = {k1}
    Capacity = 1
    MaxRequests = 4
    Nesting = TRUE
SPECIFICATION Spec
INVARIANT
    ReentryServed
CHECK_DEADLOCK FALSE
