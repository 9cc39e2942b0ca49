CONSTANTS
    Account = {owner, alice, bob}
    Owner = owner
    NoteId = {n1, n2}
    Amount = {0, 1, 2}
    Score = {0, 1}
    Hash = {h}
    MinRiskScore = 1
    MinBond = 1
    Capital = 2
    Wallet0 <- MCWallet0
    None = None
SYMMETRY MCSymmetry
SPECIFICATION EscrowSpec
INVARIANTS
    EscrowTypeOK
    BooksAgree
    NeverRefusedLate
    PurseIsTheBonds
    EveryAccountAddsUp
    ReputationIsHistory
PROPERTIES
    NoteHistory
    ShortOnlyWhenEmpty
    KeepsThePromise
