CONSTANTS
    DownloadKeys = {}
    DeleteKeys = {}
    CommandKeys = {m1}
    DeviceKey = dev
    DownloadSize = 1
    DeleteSize = 1
    Outcomes = {"ok", "lost"}
    MaxEnqueues = 2
    MaxFailures = 0
    MaxCrashes = 0
SPECIFICATION Spec
PROPERTY OnlyCompletedDeleted
