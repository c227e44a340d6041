CONSTANTS
    DefaultOrder <- SomeKeys
    UnknownKey = "unknown"
    Orders <- SomeOrders
    Extras = {x, y}
    Handlers = {f, g}
    Methods = {"GET", "POST"}
    Parts = {"/a", "/health"}
    Probes <- SomeProbes
    MaxCalls = 3
    MaxOps = 3
    Spares = {0, 2}
SPECIFICATION Spec
INVARIANTS TypeOK ChainIsAsked RoutesKeepTheirMiddleware
VIEW View
SYMMETRY Symmetry
CHECK_DEADLOCK FALSE
