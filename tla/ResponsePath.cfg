\* All the middleware, all the handlers.
CONSTANTS
    LayerSets <- AllLayerSets
    OpSets <- AllOpSets
    MaxWrites = 3
    MinSize = 2
SPECIFICATION Spec
INVARIANTS
    TypeOK
    AnswerIsWhatWasWritten
    RecordsAreHonest
    TimeoutAnswersAlone
    PanicAnswered
PROPERTY DeafAfterDeadline
CHECK_DEADLOCK FALSE
