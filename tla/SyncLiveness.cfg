CONSTANTS
    s1 = s1
    s2 = s2
    s3 = s3
    c1 = c1
    c2 = c2
    Sids = {s1}
    Contents = {c1}
    ContentOf <- MCContentOf
    DL <- MCDL
    DownloadKeys = {c1}
    DeleteKeys <- MCDeleteKeys
    CommandKeys = {}
    DeviceKey = dev
    DownloadSize = 1
    DeleteSize = 1
    Outcomes = {"ok", "lost"}
    MaxEnqueues = 0
    MaxFailures = 1
    MaxCrashes = 1
    MaxChanges = 2
SPECIFICATION SyncFairSpec
PROPERTY InventoryConverges
PROPERTY CloudLearns
