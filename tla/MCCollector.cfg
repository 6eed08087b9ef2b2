CONSTANTS
    p1 = p1
    p2 = p2
    p3 = p3
    board = board
    page = page
    a = a
    b = b
    Sessions = {p1, p2}
    NoSession = NoSession
    Targets = {board, page}
    AdapterOf <- TwoAdapters
    Plans <- NoneOneOrBoth
    JobIds = {a, b}
    Listings <- RepeatListings
    CursorOf <- TwoCursors
    None = None
    Killable = {p1, p2}
    AtATime = 2
SPECIFICATION Spec
CHECK_DEADLOCK FALSE
INVARIANT TypeOK
INVARIANT LockOnlyInsideBatch
INVARIANT CheckpointsAreCovered
INVARIANT CountersAreTrue
INVARIANT SuccessIsComplete
INVARIANT StatesFollowPlan
PROPERTY ImplementsLedger
