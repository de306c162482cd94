\* The session is prompted again while a cancel still waits.
SPECIFICATION Spec
CONSTANTS
    Callers = {c1, c2, c3}
    Runners = {r1, r2, r3}
    Work = {w1, w2, w3, w4}
    None = None
    OverlapCancel = TRUE
    LateStart = FALSE
SYMMETRY Symmetry
INVARIANTS OneRunPerSession
