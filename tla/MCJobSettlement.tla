--------------------------- MODULE MCJobSettlement ---------------------------
EXTENDS JobSettlement

CONSTANTS w1, w2

=============================================================================
