CONSTANTS
    c1 = c1
    c2 = c2
    w1 = w1
    k1 = k1
    k2 = k2
    board = board
    page = page
    Crawlers = {c1, c2}
    Sweepers = {w1}
    Sessions = {c1, c2, w1}
    NoSession = NoSession
    Keys = {k1, k2}
    SourceOf <- MCSource
    KeysOf <- MCKeysOf
    Titles = {"junior", "senior"}
    NoRow = NoRow
    MaxTime = 3
    MayCrash = TRUE
SPECIFICATION Spec
INVARIANT TypeOK
INVARIANT LockFreedWithBatch
INVARIANT LoadedUnderLockIsCurrent
INVARIANT ExclusiveRowsAreWhole
PROPERTY UpsertUnderLockIsExact
PROPERTY SightRevivesSweptJob
PROPERTY RowsKeepTheirId
PROPERTY ExclusiveRowsOnlyGetFresher
PROPERTY BatchesEnd
