SPECIFICATION Spec
CONSTANTS
    p1 = p1
    d1 = d1
    x1 = x1
    a = a
    b = b
    PlaintiffMaterials = {p1}
    DefendantMaterials = {d1}
    Claims = {c1}
    Defenses = {f1}
    MadeUp = {x1}
    Names = {a, b}
    Blank = Blank
    EvidenceItems <- MCEvidenceItems
    IssueItems <- MCIssueItems
    MaxItems = 2
    BurdenSets <- MCBurdenSets
    MappingSets <- MCMappingSets
    Questions <- MCQuestions
    MaxQuestion = 2
    Outputs <- MCOutputs
    MaxRetries = 1
    MaxTurns = 2
    MaxRuns = 2
CHECK_DEADLOCK FALSE
INVARIANTS TreeKeepsContract TurnsGrounded
PROPERTY HistoryKept
