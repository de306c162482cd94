\* A prompt that arrives while the loop prepares a turn.
SPECIFICATION Spec
CONSTANTS
    Prompts = {p1, p2}
    MaxTurns = 3
INVARIANTS PromptReachesModel
CHECK_DEADLOCK FALSE
