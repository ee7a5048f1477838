SPECIFICATION FairSpec
CONSTANTS
    PlaintiffMats = {p1, p2}
    DefendantMats = {d1}
    Uploads = {u1}
    Tasks = {t1, t2}
    NoIndex = NoIndex
    NoMat = NoMat
    SavesMayFail = FALSE
    TaskMayOutliveTtl = FALSE
    MaxRestarts = 1
CHECK_DEADLOCK FALSE
INVARIANTS TypeOK SingleFlight EvidenceHasMaterial AnalyzedSurvivesRestart DurableInSync
PROPERTIES NeverReopened DecisionIsFinal StartedTaskEnds
