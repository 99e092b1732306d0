CONSTANTS
    Commands = {m1}
    FiltersOf <- MCFiltersOf
    NoFilters = NoFilters
    Invalid = Invalid
    Main = Main
    AssetMap = AssetMap
    NumAssets = 1
    MessageSize = 2
    Faults = {"write"}
    MaxHours = 1
    MaxFailures = 1
    MaxCrashes = 0
SPECIFICATION ConfigFairSpec
PROPERTY StatusInBothCases
