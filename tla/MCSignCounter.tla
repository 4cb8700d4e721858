--------------------------- MODULE MCSignCounter ---------------------------
EXTENDS SignCounter
=============================================================================
