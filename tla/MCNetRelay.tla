----------------------------- MODULE MCNetRelay -----------------------------
EXTENDS NetRelay
=============================================================================
