CONSTANTS
    Keys = {k1, k2}
    Files = 2
    Databases = {db1, db2}
    MaxFailures = 1
    MaxSpoiled = 1
    MaxCrashes = 1
    None = None
CHECK_DEADLOCK FALSE
SPECIFICATION FairSpec
INVARIANTS
    OwnFilesOnly
    UploadIsWhole
    DestinationBound
PROPERTIES
    StagingInUseKept
    
