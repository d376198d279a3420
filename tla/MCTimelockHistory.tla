-------------------------- MODULE MCTimelockHistory -------------------------
EXTENDS RouterTimelockHistory
=============================================================================
