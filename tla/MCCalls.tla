-------------------------------- MODULE MCCalls --------------------------------
EXTENDS Calls
=============================================================================
