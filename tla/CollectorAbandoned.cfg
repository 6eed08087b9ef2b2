CONSTANTS
    p1 = p1
    p2 = p2
    p3 = p3
    board = board
    page = page
    a = a
    b = b
    Sessions = {p1, p2}
    NoSession = NoSession
    Targets = {board, page}
    AdapterOf <- TwoAdapters
    Plans <- OnlyBoard
    JobIds = {a, b}
    Listings <- OneListing
    CursorOf <- TwoCursors
    None = None
    Killable = {}
    AtATime = 2
SPECIFICATION Spec
CHECK_DEADLOCK FALSE
INVARIANT EndedRunsAreFinished
