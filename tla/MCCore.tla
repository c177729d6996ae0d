------------------------------- MODULE MCCore -------------------------------
EXTENDS SLCore, MCPrograms
=============================================================================
