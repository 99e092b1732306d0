CONSTANTS
    MaxWorkers = 2
    Jobs <- MCJobs
    MaxNodes = 3
    MaxJobs = 2
    MaxFaults = 1
SPECIFICATION TreeSpec
INVARIANT TreeTypeOK
 
INVARIANT TwinsOnlyByRace
 
 
