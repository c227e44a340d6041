CONSTANTS
    a = a
    b = b
    x = x
    y = y
    Segs = {a, b}
    Names = {x, y}
    Patterns <- SomePatterns
    Prefixes <- SomePrefixes
    Paths <- AllPaths
    Methods = {"GET", "HEAD", "OPTIONS"}
    MaxRoutes = 3
SPECIFICATION Spec
INVARIANTS TypeOK ServedByItsPattern LiteralRoutesAreFound
PROPERTY RefusalIsClean
