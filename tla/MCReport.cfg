SPECIFICATION Spec
CONSTANTS
    e1 = e1
    e2 = e2
    e3 = e3
    e4 = e4
    x1 = x1
    k1 = k1
    k2 = k2
    k3 = k3
    u1 = u1
    NIssues = 7
    DependsOn <- MCNone
    PhaseOf <- MCPhaseOf
    ClaimsOf <- MCNoClaims
    Keyworded = {}
    EvidenceFor <- MCEvidenceFor
    Evidence = {e1, e2, e3, e4}
    Targets <- MCTargets
    Admitted = {e1, e2}
    Doubtful = {}
    Contested = {}
    MadeUp = {x1}
    BatchSize = 7
    Judgements = {}
    Resembles <- MCResembles
    MaxPaths = 6
    MaxAttacks = 3
    PathItems <- MCPathItems
    AttackItems <- MCAttackItems
    MaxItems = 4
    ConditionItems <- MCNoConditions
    NoParent = NoParent
    Parent <- MCParent
    AboutCosts = {}
    BurdenOf <- MCBurdenOf
    EvidenceList <- MCEvidenceList
    Kind <- MCKind
    Origin <- MCOrigin
    Nature <- MCNature
    Payments = {e2}
    Owner <- MCOwner
    Rating <- MCRating
    Challenged = {e3}
    Described = {e1, e2, e3}
    Mentions <- MCMentions
    MaxRoots = 2
    CourtCases <- MCCourtCases
    KeywordAnswers <- MCKeywordAnswers
    RankAnswers <- MCRankAnswers
    Match <- MCMatch
    Unlisted = {u1}
    DraftAnswers <- MCDraftAnswers
    Cited = {e1, x1, e3}
    Inputs <- MCInputs
    NoFile = NoFile
    Torn = Torn
    MaxRuns = 2
CHECK_DEADLOCK FALSE
INVARIANTS MapIsForest ScenarioTreeSound RepairableIsWritten FilesAgree
