\* One group; two operations are a route and a call of Use.
CONSTANTS
    DefaultOrder <- SomeKeys
    UnknownKey = "unknown"
    Orders = {}
    Extras = {}
    Handlers = {f}
    Methods = {"GET"}
    Parts = {"/a", "/health"}
    Probes <- SomeProbes
    MaxCalls = 1
    MaxOps = 2
    Spares = {0}
SPECIFICATION Spec
INVARIANT UseReachesRegistered
CHECK_DEADLOCK FALSE
