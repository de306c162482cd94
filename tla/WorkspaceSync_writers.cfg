\* A prompt is under way, on either device, while the session moves.
SPECIFICATION Spec
CONSTANTS
    Loops = {l1, l2}
    None = None
    MaxEvents = 3
    MaxRestores = 1
    MaxFaults = 1
    BatchSize = 1
    OneWriter = FALSE
INVARIANTS LogsAgree
CHECK_DEADLOCK FALSE
