\* While a session moves to a workspace nobody writes but the move.  Each part may end:
\* its calls are used up, or a bound is reached.
SPECIFICATION Spec
CONSTANTS
    AgentCalls = {k1, k2}
    MaxChunks = 4
    MaxTurns = 2
    MaxUpdates = 2
    Sessions = {s1}
    Turns = {w1, w2, w3}
    MaxSpawns = 3
    Requests = {r1, r2}
    Ops = {o1, o2}
    MaxBoots = 3
    Connects = {m1, m2, m3}
    Disconnects = {d1, d2}
    NoClient = NoClient
    MaxFlows = 2
    Clients = {b1, b2}
    Limit = 2
    MaxCursor = 4
    Messages = {n1, n2}
    Unloaded = Unloaded
    MaxWrites = 4
    MaxEnds = 1
    Calls = {q1, q2, q3, q4}
    Servers = {x1, x2}
    Touches = {t1, t2}
    NoDocument = NoDocument
    MaxContents = 3
    MaxPushes = 2
    Processes = {v1, v2}
    MaxSeq = 1
    Tools = {g1}
    Asked = {a1, a2, a3}
    Nothing = Nothing
    MaxText = 2
    MaxNews = 2
    Loops = {l1, l2}
    None = None
    MaxEvents = 3
    MaxRestores = 2
    MaxFaults = 1
    BatchSize = 2
    OneWriter = TRUE
    Callers = {t1, t2, t3}
    NoRow = NoRow
    MaxLogins = 2
    MaxRefreshes = 2
    MaxRecords = 2
    MaxStarts = 2
    MaxWork = 1
    Found = 1
    Added = 1
    Activations = {k1}
    NoScope = NoScope
    MaxHooks = 1
INVARIANTS AgentIsHeard CacheIsCurrent ClientsAgree TokensKept SessionsKept TerminalIsTold ServerInStep RowsInOrder ClientsFollow PluginsTracked DevicesAgree
PROPERTIES CatchesUp OvertakenFails EverythingEnds
CHECK_DEADLOCK FALSE
