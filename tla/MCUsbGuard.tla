---------------------------- MODULE MCUsbGuard -----------------------------
(* Small instances of UsbGuard for TLC: two sticks of the same model, one  *)
(* without a serial number, and a mouse; rules with and without a serial.  *)
EXTENDS UsbGuard, TLC

CONSTANTS p1, p2, none

Stick == [model |-> "stick", serial |-> "s1"]
Clone == [model |-> "stick", serial |-> none]
Mouse == [model |-> "mouse", serial |-> none]

MCModel == {"stick", "mouse"}
MCSerial == {"s1"}
Sticks == {Stick, Clone}
AllThree == {Stick, Clone, Mouse}
BothRules == {Stick, Clone}
OneRule == {Stick}
NoParam == {<<>>}
SomeParam == {<<>>, <<Stick>>}

PortSymmetry == Permutations(Port)
=============================================================================
