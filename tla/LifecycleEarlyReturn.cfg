CONSTANTS
    Channels = {"http"}
    Starters = {t1}
    Stoppers = {s1}
    Conns = {k1}
    Limiters = {}
    Loggers = {TRUE}
    AcceptFails = FALSE
    MaxConfig = 1
SPECIFICATION Spec
PROPERTY StartBlocksUntilClosed
CHECK_DEADLOCK FALSE
