\* Two executions, the second perhaps a resume of the first; it stops there.
SPECIFICATION MCSpec
CONSTANTS
    t1 = t1
    t2 = t2
    Texts <- MCTexts
    Names = {acme}
    Empty = Empty
    None = None
    Absent = Absent
    Postings = {0, 1, 2}
    MaxRuns = 2
    Tags = {"document", "li"}
    Void = {"br"}
    MaxTokens = 5
    Amounts = {45, 112500, 12150000}
SYMMETRY Symmetry
INVARIANTS
    TypeOK
    ScopeNamesSource
    AllOrNothing
    StackIsPath
    NestingIsRespected
    FoundInPageOrder
    TextIsComplete
    SalaryIsAsQuoted
CHECK_DEADLOCK FALSE
