CONSTANTS
    Channels = {"http"}
    Starters = {t1}
    Stoppers = {s1, s2}
    Conns = {k1}
    Limiters = {}
    Loggers = {TRUE}
    AcceptFails = FALSE
    MaxConfig = 1
SPECIFICATION FairSpec
PROPERTY StopStopsRunning
CHECK_DEADLOCK FALSE
