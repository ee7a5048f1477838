SPECIFICATION FairSpec
CONSTANTS
    pe = pe
    de = de
    ae = ae
    i1 = i1
    i2 = i2
    PlaintiffPrivate = {pe}
    DefendantPrivate = {de}
    SharedCommon = {}
    AdmittedRecord = {ae}
    MadeUp = {fake}
    Issues = {i1, i2}
    OpenIssues = {i1}
    EvidenceOf <- MCEvidenceOf
    MaxRetries = 2
CHECK_DEADLOCK FALSE
INVARIANTS OnlyVisibleCited MissingAgreesWithArguments JobTellsOutcome
PROPERTIES OutcomeIsFinal DebateEnds
