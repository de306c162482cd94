\* Three tool calls of two sessions, one TUI that may connect late.
SPECIFICATION Spec
CONSTANTS
    Requests = {r1, r2, r3}
    Clients = {c1}
    None = None
    s1 = s1
    s2 = s2
    a = a
    b = b
    Inputs <- MCInputs
    Stored <- NoRules
SYMMETRY Symmetry
INVARIANTS PendingIsDue DialogsFollow
PROPERTY RepliesKeepToSession
