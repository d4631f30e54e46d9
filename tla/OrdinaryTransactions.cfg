SPECIFICATION MSpec
CONSTANTS
    Genesis = g
    NULL = NULL
    Hash = {g, a, b, c, d}
    Work = {1, 2}
    Batch = 32
    MaxSeq = 6
    Miner = {m1, m2}
    Tx = {t}
    Cycle = 2
    TimeRange = 3
    MaxTime = 1
    NextBits <- MCNextBits
SYMMETRY Symmetry
INVARIANT OrdinaryTransactionsAllowed
