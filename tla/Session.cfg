\* Two prompts of one session and a model that may ask for tools in four turns; a turn
\* with two tool calls and one retry; four messages and two files; nine messages with up
\* to two calls of the user around compactions; ids before and after the bits run over; a
\* command with two chunks after which the output is too long; two edits, one creation and
\* one write of a file; patches and edits of files of up to four lines; two questions; a
\* connection of each kind.  Four users of Flock and three of EffectFlock that crash
\* anywhere and do not stall, with critical sections that end before STALE_MS.  Each part
\* may end.
SPECIFICATION SessionSpec
CONSTANTS
    Procs = {u1, u2, u3, u4}
    EProcs = {u1, u2, u3}
    StaleAge = 3
    LongBody = FALSE
    Prompts = {p1, p2}
    MaxTurns = 4
    Calls = {c1, c2}
    Texts = {t1}
    MaxAttempts = 2
    NoSnapshot = NoSnapshot
    Files = {f1, f2}
    Absent = Absent
    None = None
    MaxMessages = 4
    TailTurns = 2
    MaxCalls = 2
    MaxSaved = 9
    PerMs = 3
    Wrap = 5
    Retention = 2
    MaxNow = 6
    MaxIds = 3
    MaxBreaks = 2
    Sizes = {1, 3}
    Bytes = 2
    MaxChunks = 4
    NoFile = NoFile
    Edits = {e1, e2}
    Creates = {k1}
    Writes = {w1}
    NoCall = NoCall
    Questions = {q1, q2}
    Viewers = {v1}
    Choices = {y1, y2}
    NoAnswer = NoAnswer
    Connections = {n1}
    Globals = {g1}
    MaxEvents = 2
    MaxBeats = 1
    One = One
    Other = Other
    Missing = Missing
    This = This
    That = That
    Blank = Blank
    Long = 4
    Words = {A, B}
    Indented = {A}
    MaxLines = 4
    NoWord = NoWord
    NotFound = NotFound
    Multiple = Multiple
INVARIANTS MutualExclusion HolderOwnsLock EffectExcludes PromptsAnswered TurnSettles RevertIsExact HistoryIsKept ToolsAreExact QuestionsSettle StreamInOrder
PROPERTIES StepsAreSound StampsTell EditsAgree EverythingEnds
CHECK_DEADLOCK FALSE
