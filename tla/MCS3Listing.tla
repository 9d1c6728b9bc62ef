----------------------------- MODULE MCS3Listing -----------------------------
EXTENDS S3Listing
\* An object, objects beneath directories, a folder marker, a key with a parent
\* segment and one with an empty segment and a backslash.
MCKeys == {<<7, 3>>, <<7, 2, 2>>, <<7, 3, 0>>, <<7, 1, 3>>, <<7, 3, 0, 4>>}
MCBackslashed == [segment \in {4} |-> <<3, 2>>]
MCPrefix == <<7>>
MCDirectories == {<<>>, <<3>>}
MCLimits == {-1, 0, 1, 3}
=============================================================================
