\* A client that lets its cancel return before it calls again.  A fiber may be
\* interrupted before its first step: then its Deferred stays open and who waits
\* on it waits for ever, so the system may stop.
SPECIFICATION Spec
CONSTANTS
    Callers = {c1, c2, c3}
    Runners = {r1, r2, r3}
    Work = {w1, w2, w3, w4}
    None = None
    OverlapCancel = FALSE
    LateStart = TRUE
SYMMETRY Symmetry
INVARIANTS OneRunPerSession RunningIsVisible
PROPERTY ImplementsSlot
CHECK_DEADLOCK FALSE
