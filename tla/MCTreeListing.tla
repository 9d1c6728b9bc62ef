---------------------------- MODULE MCTreeListing ----------------------------
EXTENDS TreeListing
\* The local adapter under either symlink policy, and the remote ones.
MCAdapters == {[local |-> TRUE, deny |-> TRUE], [local |-> TRUE, deny |-> FALSE],
               [local |-> FALSE, deny |-> TRUE]}
\* Two names at the top, one of them with room for a directory in it.
MCPaths == {<<1>>, <<2>>, <<1, 1>>, <<1, 3>>, <<1, 1, 1>>}
\* Names "a", "a-" and "b".
MCExtends == {<<1, 2>>}
MCDirectories == {<<>>, <<1>>}
MCLimits == {-1, 0, 2}
=============================================================================
