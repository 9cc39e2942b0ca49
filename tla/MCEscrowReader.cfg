SPECIFICATION ReaderSpec
CONSTANTS
    Owner = owner
    Account = {owner, inv}
    NoteId = {1, 2}
    MinBond = 1
    Amount = {1}
    Score = {1}
    Hash = {h}
    MinRiskScore = 1
    Capital = 1
    Wallet0 <- MCWallet0
    None = None
    ScanLimit = 2
    Absent = Absent
INVARIANTS
    ReaderInvariant
    BondedWasTrue
