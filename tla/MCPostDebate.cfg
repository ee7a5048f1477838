SPECIFICATION Spec
CONSTANTS
    e1 = e1
    e2 = e2
    e3 = e3
    x1 = x1
    Returned = 4
    NIssues = 4
    DependsOn <- MCDependsOn
    PhaseOf <- MCPhaseOf
    ClaimsOf <- MCClaimsOf
    Keyworded = {3}
    EvidenceFor <- MCEvidenceFor
    Evidence = {e1, e2, e3}
    Targets <- MCTargets
    Admitted = {e1, e2}
    Doubtful = {}
    Contested = {}
    MadeUp = {x1}
    BatchSize = 2
    Judgements <- MCJudgements
    Resembles <- MCResembles
    MaxPaths = 2
    MaxAttacks = 1
    PathItems <- MCPathItems
    AttackItems <- MCAttackItems
    MaxItems = 2
    ConditionItems <- MCConditionItems
    Missing <- MCMissing
    Focus <- MCFocus
    Category = TRUE
    Financials <- MCFinancials
    Strategies <- MCStrategies
    AssessmentItems <- MCAssessmentItems
    DefenceItems <- MCDefenceItems
CHECK_DEADLOCK FALSE
INVARIANTS ReferencesResolve EveryIssueKept DependenciesFirst
