----------------------------- MODULE MCProcessor ----------------------------
EXTENDS SLProcessor, MCPrograms
=============================================================================
