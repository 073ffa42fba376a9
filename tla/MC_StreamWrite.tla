--------------------------- MODULE MC_StreamWrite ---------------------------
EXTENDS StreamWrite

CONSTANTS w1, w2, w3, w4

MC_Ops3 == {w1, w2, w3}
MC_Ops4 == {w1, w2, w3, w4}

=============================================================================
