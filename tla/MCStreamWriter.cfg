SPECIFICATION FairSpec
CONSTANTS
    k1 = k1
    k2 = k2
    Closers <- MCClosers
    MaxBytes = 3
    MaxWrite = 2
INVARIANTS PublishedIsReported CloseReportsPublication
PROPERTIES CancelReleasesAll CloseReturns
