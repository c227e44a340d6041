\* Two handshakes during a renewal, which keeps the key, and a rotation.
CONSTANTS
    Handshakes = {h1, h2}
    None = None
    MaxVersion = 3
    KeyFor <- RenewThenReplace
SPECIFICATION FairSpec
INVARIANTS TypeOK NeverStale FailsForAReason
PROPERTIES NeverBack Answered
