\* Three runs of one source, two at a time: a resume of a run that ended races a
\* crawl that moves the checkpoint on, or the run it resumes.
CONSTANTS
    p1 = p1
    p2 = p2
    p3 = p3
    board = board
    page = page
    a = a
    b = b
    Sessions = {p1, p2, p3}
    NoSession = NoSession
    Targets = {board}
    AdapterOf <- BoardAdapter
    Plans <- OnlyBoard
    JobIds = {a, b}
    Listings <- EmptyListing
    CursorOf <- BoardCursor
    None = None
    Killable = {p1}
    AtATime = 2
SPECIFICATION Spec
CHECK_DEADLOCK FALSE
INVARIANT ResumeUsesRecordedState
PROPERTY CrawlsEnd
