\* A body that takes longer than STALE_MS: nobody crashes, nobody stalls.
SPECIFICATION ESpec
CONSTANTS
    Procs = {p1, p2}
    None = None
    StaleAge = 3
    LongBody = TRUE
SYMMETRY Symmetry
INVARIANTS MutualExclusion
