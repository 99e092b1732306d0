CONSTANTS
    s1 = s1
    s2 = s2
    s3 = s3
    c1 = c1
    c2 = c2
    Sids = {s1, s2, s3}
    Contents = {c1, c2}
    ContentOf <- MCContentOf
    DL <- MCDL
    DownloadKeys = {c1, c2}
    DeleteKeys <- MCDeleteKeys
    CommandKeys = {}
    DeviceKey = dev
    DownloadSize = 2
    DeleteSize = 2
    Outcomes = {"ok"}
    MaxEnqueues = 0
    MaxFailures = 1
    MaxCrashes = 1
    MaxChanges = 3
SPECIFICATION SyncSpec
INVARIANT SyncTypeOK
INVARIANT IndexConsistent
INVARIANT EveryChangeQueued
