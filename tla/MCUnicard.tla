------------------------------ MODULE MCUnicard ------------------------------
EXTENDS Unicard
=============================================================================
