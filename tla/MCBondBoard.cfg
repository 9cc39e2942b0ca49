SPECIFICATION FairSpec
CONSTANTS
    Owner = owner
    Account = {owner, guest}
    NoteId = {}
    MinBond = 1
    Amount = {0, 1}
    Score = {1}
    Hash = {h}
    MinRiskScore = 1
    Wallet0 <- MCWallet0
    None = None
    MaxReads = 2
    MaxTimers = 1
    MaxWaiting = 1
INVARIANTS BoardInvariant 
CHECK_DEADLOCK FALSE
PROPERTY ReadingEnds
