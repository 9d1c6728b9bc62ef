SPECIFICATION TreeSpec
CONSTANTS
    Adapters <- MCAdapters
    Extends <- MCExtends
    Paths <- MCPaths
    Directories <- MCDirectories
    Limits <- MCLimits
    MaxList = 4
    Changes = 2
INVARIANTS ListShape ShowsWhatStayed ShowsWhatWas NotFoundHasCause
CHECK_DEADLOCK FALSE
