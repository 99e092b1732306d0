CONSTANTS
    DownloadKeys = {c1, c2}
    DeleteKeys = {}
    CommandKeys = {m1}
    DeviceKey = dev
    DownloadSize = 2
    DeleteSize = 1
    Outcomes = {"ok", "late"}
    MaxEnqueues = 3
    MaxFailures = 1
    MaxCrashes = 1
SPECIFICATION FairSpec
PROPERTY Drains
PROPERTY EventuallyReported
