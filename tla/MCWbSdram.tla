----------------------------- MODULE MCWbSdram -----------------------------
\* Two words in different rows of different banks, so that a request hits or
\* misses the open row.  CAS latency 3, tRCD and tRP two cycles and tMRD three;
\* tRAS and tWR longer than for the DE0-Nano's device at 50 MHz (three cycles
\* and one), so that their timers still run when the row is to be closed; the
\* times to wait for the device's start and between refreshes are short.
EXTENDS WbSdram

CONSTANTS v, blank, none

MCAdrs == {[bank |-> 0, row |-> 0, col |-> 0], [bank |-> 1, row |-> 1, col |-> 0]}
=============================================================================
