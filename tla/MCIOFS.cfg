SPECIFICATION FSSpec
CONSTANTS
    Keys <- MCKeys
    Names <- MCNames
    Counts <- MCCounts
    Half = 4
    MaxList = 2
    Changes = 2
INVARIANTS HandleInvariant NamesDenote ReportsWhatWas
CHECK_DEADLOCK FALSE
