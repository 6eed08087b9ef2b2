CONSTANTS
    Postings <- MCPostings
    Part <- MCPart
    Queries <- MCQueries
    Limits = {1, 2}
    Scans = {2, 4}
    None = None
    MaxPaged = 3
    Commands = {c1, c2, c3}
    Killable = {c1, c2, c3}
    AtATime = 3
SPECIFICATION MCSpec
INVARIANTS
    ReadyMeansMigrated
    QuietPagesPartition
    InsertsHideNothing
    CandidatesAreTheDuplicates
PROPERTY CommandsMigrate
CHECK_DEADLOCK FALSE
