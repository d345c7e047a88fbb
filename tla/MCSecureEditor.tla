--------------------------- MODULE MCSecureEditor ---------------------------
EXTENDS SecureEditor

CONSTANTS a, b, dot, bad, k0, k1, k2, x
=============================================================================
