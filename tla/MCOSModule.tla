------------------------------ MODULE MCOSModule ------------------------------
EXTENDS OSModule, TLC
===============================================================================
