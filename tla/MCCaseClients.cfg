SPECIFICATION FairSpec
CONSTANTS
    i1 = i1
    i2 = i2
    e1 = e1
    x1 = x1
    Clients = {c1, c2}
    Together = 1
    MaxMessages = 3
    MaxVisits = 1
    Followups = {f1}
    Scenarios = {s1}
    Issues = {i1, i2}
    Evidence = {e1}
    Invented = {x1}
    Entries <- MCEntries
    ChangeSets <- MCChangeSets
    MaxEntries = 2
    MaxRetries = 1
    MaxRestarts = 1
CHECK_DEADLOCK FALSE
INVARIANTS NoHoles ToldTheOutcome DiffGrounded
PROPERTIES EveryStreamEnds EveryJobEnds
