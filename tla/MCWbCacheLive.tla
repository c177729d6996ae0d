--------------------------- MODULE MCWbCacheLive ---------------------------
\* As MCWbCache with fewer words, and data that is not told apart.
EXTENDS WbCache

MCReads == {1, 8}
MCWrites == {0, 8}
MCWatched == {1}
=============================================================================
