CONSTANTS
    None = None
    Requests = {r1, r2}
    Contexts = {c1, c2}
    Buffers = {b1, b2}
    Targets <- SomeTargets
    Statuses = {5}
    MaxIndex = 4
SPECIFICATION Spec
INVARIANTS TypeOK ScopesAreApart ChainInOrder CountsAddUp
SYMMETRY Symmetry
CHECK_DEADLOCK FALSE
