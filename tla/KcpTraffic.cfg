SPECIFICATION FairSpec
CONSTANTS
    Node = {a, b}
    Msg = {w, x, y, z}
INVARIANT
    NeverAllWaiting
PROPERTY
    EveryMessageAnswered
