CONSTANTS
    Commands = {m1, m2}
    FiltersOf <- MCFiltersOf
    NoFilters = NoFilters
    Invalid = Invalid
    Main = Main
    AssetMap = AssetMap
    NumAssets = 3
    MessageSize = 2
    Faults = {"call", "unsure", "write", "tx", "send"}
    MaxHours = 2
    MaxFailures = 1
    MaxCrashes = 1
SPECIFICATION ConfigFairSpec
INVARIANT ConfigTypeOK
INVARIANT IdentityKept
INVARIANT IniSaved
INVARIANT FiltersAgree
INVARIANT TimestampEarned
 
 
