CONSTANTS
    Account = {owner, alice}
    Owner = owner
    NoteId = {n1, n2}
    Amount = {1}
    Score = {49, 50, 101}
    Hash = {h}
    MinRiskScore = 50
    MinBond = 1
    Capital = 1
    MaxRuns = 2
    MaxDeploys = 2
    Wallet0 <- MCWallet0
    None = None
SPECIFICATION Spec
CHECK_DEADLOCK FALSE
INVARIANT ListsWhatItSigned
