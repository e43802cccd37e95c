SPECIFICATION PairSpec
CONSTANTS
    DelegIds = {d1, d2}
    DelegTTL = 2
    Asks = {q1}
    HasMagicDns = TRUE
PROPERTIES
    LatestExpiryWins
CHECK_DEADLOCK FALSE
