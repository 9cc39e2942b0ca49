SPECIFICATION StoreSpec
CONSTANTS
    Key = {k1, k2}
    Nonce = {n1, n2}
    Token = {t1, t2}
    ChallengeTtl = 1
    SessionTtl = 1
    MaxTime = 2
INVARIANTS StoreInvariant RefusedForGood
PROPERTY OneTryPerNonce
CHECK_DEADLOCK FALSE
