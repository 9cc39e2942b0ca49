SPECIFICATION FairSpec
CONSTANTS
    Owner = owner
    Account = {owner, inv}
    NoteId = {good, risky, missing}
    MinBond = 1
    Amount = {1, 2}
    Score = {0, 1}
    Hash = {h}
    MinRiskScore = 1
    Capital = 3
    Wallet0 <- MCWallet0
    None = None
    Signer = owner
    Good = good
    Risky = risky
    Missing = missing
    FaceValue = 2
    LowScore = 0
    HighScore = 1
    MaxPolls = 2
    MaxMoves = 1
INVARIANTS
    RunInvariant
    ScenariosAreIndependent
PROPERTY RunEnds
CHECK_DEADLOCK FALSE
