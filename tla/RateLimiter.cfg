\* Three keys and room for two; a bucket fills in four instants and may be
\* thrown away after two.
CONSTANTS
    Keys = {k1, k2, k3}
    Burst = 2
    Token = 2
    MaxBuckets = 2
    Expiry = 1
    Wrap = 2
SPECIFICATION FairSpec
INVARIANT TypeOK
PROPERTIES IsTokenBucket ServedInTheEnd
