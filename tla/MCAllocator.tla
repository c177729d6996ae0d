---------------------------- MODULE MCAllocator ----------------------------
\* Three blocks; sizes below, equal to and above one block, and one that never
\* fits.  A word of 64 values is wide enough for every address, and wraps as
\* the 32-bit one does.
EXTENDS Allocator
=============================================================================
