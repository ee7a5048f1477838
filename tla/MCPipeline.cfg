SPECIFICATION FairSpec
CONSTANTS
    RelativeDir = FALSE
    MaxCrashes = 3
CHECK_DEADLOCK FALSE
INVARIANTS CheckpointCovered AnalysisSeesPromoted
PROPERTIES NeverRedone RunFinishes
