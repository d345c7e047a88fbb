--------------------------- MODULE MCUsbGuardGui ---------------------------
EXTENDS UsbGuardGui

CONSTANTS r1, r2, odd, bad, s1, s2, k1, k2

\* The text of the rule odd has a comma in its serial number.
MCTokens(r) == IF r = odd THEN {r1, bad} ELSE {r}
MCParam == {{r1}}
MCTrusting(s) == IF s = s1 THEN {r1} ELSE {r2}
MCKeyOf(s) == IF s = s1 THEN k1 ELSE k2
=============================================================================
