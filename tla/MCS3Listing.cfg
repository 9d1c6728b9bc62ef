SPECIFICATION Spec
CONSTANTS
    Keys <- MCKeys
    Backslashed <- MCBackslashed
    Prefix <- MCPrefix
    Directories <- MCDirectories
    Limits <- MCLimits
    MaxList = 4
    PageMax = 2
INVARIANTS ListShape ShowsWhatStayed ShowsWhatWas
PROPERTIES PagesAdvance
CHECK_DEADLOCK FALSE
