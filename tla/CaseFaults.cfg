SPECIFICATION Spec
CONSTANTS
    PlaintiffMats = {p1}
    DefendantMats = {d1}
    Uploads = {u1}
    Tasks = {t1, t2}
    NoIndex = NoIndex
    NoMat = NoMat
    SavesMayFail = TRUE
    TaskMayOutliveTtl = TRUE
    MaxRestarts = 2
CHECK_DEADLOCK FALSE
PROPERTIES LifecycleSpec
