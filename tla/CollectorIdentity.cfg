CONSTANTS
    p1 = p1
    p2 = p2
    p3 = p3
    board = board
    page = page
    a = a
    b = b
    Sessions = {p1, p2}
    NoSession = NoSession
    Targets = {board, page}
    AdapterOf <- OneAdapter
    Plans <- EitherPage
    JobIds = {a, b}
    Listings <- OneListing
    CursorOf <- NoCursors
    None = None
    Killable = {}
    AtATime = 2
SPECIFICATION Spec
CHECK_DEADLOCK FALSE
PROPERTY UpdatesKeepThePosting
