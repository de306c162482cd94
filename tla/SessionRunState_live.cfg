\* Calls arrive at any time, also while a cancel waits for the old fiber.  Runs
\* need not end by themselves, forked fibers run their onExit.
SPECIFICATION Spec
CONSTANTS
    Callers = {c1, c2, c3}
    Runners = {r1, r2}
    Work = {w1, w2}
    None = None
    OverlapCancel = TRUE
    LateStart = FALSE
INVARIANTS RunnerExclusive QuiescentIsIdle NoOrphanWaiter
PROPERTIES CompletedOnce EveryoneReturns
