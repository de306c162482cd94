\* A cleanup after the bits of the stamp have run over.
SPECIFICATION Spec
CONSTANTS
    PerMs = 3
    Wrap = 5
    Retention = 2
    MaxNow = 8
    MaxIds = 2
    MaxBreaks = 1
PROPERTY RecentKept
CHECK_DEADLOCK FALSE
