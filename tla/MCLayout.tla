-------------------------------- MODULE MCLayout --------------------------------
EXTENDS Layout
===============================================================================
