CONSTANTS
    r1 = r1
    NoRun = NoRun
    NoSweeper = NoSweeper
    Keys = {1, 2, 3, 4}
    SnapshotKeys = {1}
    Runs = {r1}
    ManifestOf <- Manifests
    OwnerOf <- Owners
    Uploaders = {u1}
    Sweepers = {w1}
    Limit = 1
    UploadTTL = 1
    Grace = 1
    DeletionLease = 1
    Retry = 1
    MaxFaults = 1
SPECIFICATION ApartSpec
CHECK_DEADLOCK FALSE
INVARIANTS
    ReferencedIntact
    TombstoneMeansGone
PROPERTIES
    DeletionFinal
    GarbageReclaimed
