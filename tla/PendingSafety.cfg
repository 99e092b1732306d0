CONSTANTS
    DownloadKeys = {c1, c2}
    DeleteKeys = {x1}
    CommandKeys = {m1}
    DeviceKey = dev
    DownloadSize = 2
    DeleteSize = 1
    Outcomes = {"ok", "lost"}
    MaxEnqueues = 3
    MaxFailures = 2
    MaxCrashes = 1
SPECIFICATION Spec
INVARIANT TypeOK
INVARIANT FlagsTruthful
INVARIANT NoLimbo
INVARIANT NothingLost
PROPERTY RemovedOnlyReported
PROPERTY NoResurrection
