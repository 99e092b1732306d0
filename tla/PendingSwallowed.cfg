CONSTANTS
    DownloadKeys = {}
    DeleteKeys = {}
    CommandKeys = {m1}
    DeviceKey = dev
    DownloadSize = 1
    DeleteSize = 1
    Outcomes = {"ok", "swallowed"}
    MaxEnqueues = 1
    MaxFailures = 1
    MaxCrashes = 0
SPECIFICATION Spec
PROPERTY DeletedReachedCloud
