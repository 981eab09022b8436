SPECIFICATION SessionSpec
CONSTANTS
    MaxEntries = 7
    MaxCalls = 2
    MaxMarks = 2
    MaxUnlogged = 2
    MinMessages = 2
    AnyAnchor = FALSE
    LateCompaction = FALSE
    Unterminated = FALSE
INVARIANT SessionFaithful
INVARIANT LogKept
