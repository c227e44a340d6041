\* Four requests compete for two slots.
CONSTANTS
    Requests = {r1, r2, r3, r4}
    Max = 2
SPECIFICATION FairSpec
INVARIANTS TypeOK CountersExact NeverOverLimit
PROPERTIES IsSemaphore Answered
CHECK_DEADLOCK FALSE
