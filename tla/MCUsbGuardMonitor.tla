------------------------- MODULE MCUsbGuardMonitor -------------------------
(* The monitor on the instances of MCUsbGuard.                             *)
EXTENDS UsbGuardMonitor

CONSTANTS p1, p2, none

Stick == [model |-> "stick", serial |-> "s1"]
Clone == [model |-> "stick", serial |-> none]

MCModel == {"stick"}
MCSerial == {"s1"}
Sticks == {Stick, Clone}
OneRule == {Stick}
NoParam == {<<>>}
=============================================================================
