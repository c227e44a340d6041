\* Panics below the middleware that leaves its writer behind.
CONSTANTS
    LayerSets = {{"recovery", "timeout"}, {"recovery", "gzip"}}
    OpSets = {{"respond", "panic"}}
    MaxWrites = 2
    MinSize = 2
SPECIFICATION Spec
INVARIANT PanicGets500
CHECK_DEADLOCK FALSE
