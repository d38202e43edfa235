SPECIFICATION MCSpec
CONSTANTS
    c1 = c1
    c2 = c2
    e1 = e1
    e2 = e2
    k1 = k1
    k2 = k2
    Callers = {c1, c2}
    Emails = {e1, e2}
    Keys = {k1, k2}
    Renderings = {TRUE}
    MaxId = 2
    Durations <- MCDurations
    Intervals <- MCIntervals
SYMMETRY MCSymmetry
INVARIANTS
    TypeOK
    UniqueKeys
    NothingDangles
    TransactionsInv
    NoGarbageSerially
    AnswersHold
    IntervalsReadBack
    IntervalsUnderstood
PROPERTIES
    DirectorySerially
    AddedAsRequested
