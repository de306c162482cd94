\* One turn with one tool call; the turn ends.
SPECIFICATION Spec
CONSTANTS
    AgentCalls = {k1}
    MaxChunks = 4
INVARIANT SaidIsStored
CHECK_DEADLOCK FALSE
