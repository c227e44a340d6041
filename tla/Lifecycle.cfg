\* Two channels of different kinds, two calls of Start, one of Stop and a signal.
CONSTANTS
    Channels = {"http3", "unix"}
    Starters = {t1, t2}
    Stoppers = {s1}
    Conns = {k1}
    Limiters = {l1}
    Loggers = {TRUE, FALSE}
    AcceptFails = TRUE
    MaxConfig = 2
SPECIFICATION FairSpec
INVARIANTS TypeOK StopIsComplete StartLeavesNothingOpen NilErrorMeansDrained ConfigFrozen
PROPERTIES
    ReadinessFirst NoAcceptAfterShutdown
    StopReturns StartReturnsAfterStop SignalShutsDown
CHECK_DEADLOCK FALSE
