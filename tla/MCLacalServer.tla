--------------------------- MODULE MCLacalServer ---------------------------
EXTENDS LacalServer
CONSTANTS t1, t2, c1, c2
=============================================================================
