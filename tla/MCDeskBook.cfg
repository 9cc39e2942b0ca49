SPECIFICATION Spec
CONSTANTS
    Owner = owner
    Account = {owner, inv}
    NoteId = {n1}
    MinBond = 1
    Amount = {1}
    Score = {1}
    Hash = {h}
    MinRiskScore = 1
    Wallet0 <- MCWallet0
    Investor = {inv}
    Seller = {inv}
    None = None
    MaxWaiting = 2
    MaxListed = 1
INVARIANTS BookInvariant ActsOnce FundedAsSigned OnlyTheOwnerCalls
CHECK_DEADLOCK FALSE
