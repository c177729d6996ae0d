----------------------------- MODULE MCWbCache -----------------------------
\* Write back, as in front of the SDRAM: two lines that share an index, so that
\* each miss evicts the other, with fetches that start at the first word or in
\* the middle and wrap around, and writes before and behind the word fetched.
EXTENDS WbCache

MCReads == {0, 2, 8}
MCWrites == {0, 3, 8}
MCWatched == {0, 3}
=============================================================================
