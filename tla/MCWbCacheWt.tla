---------------------------- MODULE MCWbCacheWt ----------------------------
\* Write through, as the data cache of a core: two lines that share an index, a
\* word beyond the cached range, and another master that writes both lines.
EXTENDS WbCache

MCReads == {0, 2, 32, 64}
MCWrites == {0, 32, 64}
MCWatched == {0}
MCOthers == {0, 2, 32}
=============================================================================
