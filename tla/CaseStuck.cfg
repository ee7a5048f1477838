SPECIFICATION FairSpec
CONSTANTS
    PlaintiffMats = {p1}
    DefendantMats = {d1}
    Uploads = {}
    Tasks = {t1, t2}
    NoIndex = NoIndex
    NoMat = NoMat
    SavesMayFail = FALSE
    TaskMayOutliveTtl = FALSE
    MaxRestarts = 1
CHECK_DEADLOCK FALSE
PROPERTY WorkEndsAcrossRestarts
