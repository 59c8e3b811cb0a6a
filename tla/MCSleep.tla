------------------------------- MODULE MCSleep --------------------------------
EXTENDS Sleep, TLC
=============================================================================
