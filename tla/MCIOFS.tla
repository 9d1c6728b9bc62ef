------------------------------- MODULE MCIOFS --------------------------------
EXTENDS IOFS
\* A directory with room for two entries, and two more names beside it.
MCKeys == {<<1>>, <<1, 1>>, <<1, 2>>, <<2>>}
Segments == {1, 2, Empty, Dot, DotDot, Backslash, Unc, Control, Volume}
\* Every name of up to two segments, and some longer ones.
MCNames ==
    {<<a>> : a \in Segments} \cup {<<a, b>> : a, b \in Segments}
    \cup {<<Dot, Empty, Volume>>, <<1, Volume, Dot>>, <<Empty, 1, 2>>, <<1, 1, 1>>}
\* The last is the largest int.
MCCounts == {-1, 1, 2, Half - 1}
=============================================================================
