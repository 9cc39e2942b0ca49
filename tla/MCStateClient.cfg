SPECIFICATION FairSpec
CONSTANTS
    Reader = {r1, r2}
    Key = {bond}
    Balance = Balance
    Value = {v1}
    Null = Null
    Error = Error
    Attempts = 2
    MaxBlocks = 2
    MaxVersions = 2
INVARIANT ClientTypeOK
PROPERTIES
    KeepsThePromise
    ReadEnds
