--------------------------- MODULE MCUsbGuardView ---------------------------
EXTENDS UsbGuardView

CONSTANTS p1, p2, s1, s2, k1, k2

MCKeyOf(s) == IF s = s1 THEN k1 ELSE k2
MCFits == {<<p1, s1>>, <<p1, s2>>, <<p2, s2>>}
MCPolicies == {[k \in Key |-> IF k = k1 THEN "rw" ELSE None]}
=============================================================================
