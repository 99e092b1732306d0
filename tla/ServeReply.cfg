CONSTANTS
    NumFolders = 2
    FileSizes <- MCFileSizes
    Buffer = 2
    MaxFaults = 1
SPECIFICATION ServeSpec
CHECK_DEADLOCK FALSE
INVARIANT ServeTypeOK
 
INVARIANT ServedNamed
 
