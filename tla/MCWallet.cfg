SPECIFICATION FairSpec
CONSTANTS
    Account = {a, b}
    None = None
    MaxPopups = 2
INVARIANTS WalletInvariant DisconnectHolds 
PROPERTY ConnectIsAnswered
CHECK_DEADLOCK FALSE
