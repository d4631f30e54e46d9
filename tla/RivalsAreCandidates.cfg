SPECIFICATION Spec
CONSTANTS
    Genesis = g
    NULL = NULL
    Hash = {g, a, b, c, d}
    Work = {1, 2}
    Batch = 2
    MaxSeq = 6
SYMMETRY Symmetry
INVARIANT RivalsAreCandidates
